----------------------------- MODULE SessionProofs -----------------------------
(***************************************************************************)
(* Proofs about Session, for any visits, URLs, resolveUrl and tab: it      *)
(* implements Navigation, it is well typed, the index of the instance is   *)
(* that of the current entry, the indexes of the entries increase, and so  *)
(* the direction of travel is the true one.  Without handlers the content, *)
(* the location and the address bar agree when swup is idle.               *)
(***************************************************************************)
EXTENDS Session, VisitProofs, SequenceTheorems

Entry == [url : Urls, index : Nat]

(* What the direction of a popstate visit rests on.  A visit only pushes while
   the page is loaded, and then the index is that of the current entry. *)
SInv == SessionTypeOK /\ IndexIsCurrent /\ IndexesIncrease

-----------------------------------------------------------------------------
(* Records *)

(* Every entry has a URL and an index. *)
LEMMA Entries ==
    ASSUME SessionTypeOK
    PROVE  /\ entries \in Seq(Entry)
           /\ position \in 1..Len(entries)
           /\ \A k \in DOMAIN entries :
                 entries[k] \in Entry /\ entries[k].index \in Nat
<1>1. entries \in Seq(Entry) /\ position \in 1..Len(entries)
    BY DEF SessionTypeOK, Entry
<1>2. \A k \in DOMAIN entries : entries[k] \in Entry
    BY <1>1
<1>3. \A e \in Entry : e.index \in Nat
    BY DEF Entry
<1> QED
    BY <1>1, <1>2, <1>3

(* A pushed record comes after the current entry and is the current one then. *)
LEMMA PushAdds ==
    ASSUME SessionTypeOK, NEW u \in Urls, NEW i \in Nat, Push(u, i)
    PROVE  /\ entries' \in Seq(Entry)
           /\ DOMAIN entries' = 1..position + 1
           /\ position' = position + 1
           /\ entries'[position + 1].index = i
           /\ \A k \in 1..position : entries'[k] = entries[k]
<1> DEFINE kept == SubSeq(entries, 1, position)
<1> DEFINE new == [url |-> u, index |-> i]
<1>1. entries \in Seq(Entry) /\ position \in 1..Len(entries)
    BY DEF SessionTypeOK, Entry
<1>2. /\ kept \in Seq(Entry)
      /\ Len(kept) = position
      /\ \A k \in 1..position : kept[k] = entries[k]
    BY <1>1
<1>3. new \in Entry /\ new.index = i
    BY DEF Entry
<1>4. entries' = Append(kept, new) /\ position' = position + 1
    BY DEF Push
<1> HIDE DEF kept, new
<1> QED
    BY <1>1, <1>2, <1>3, <1>4

(* A rewritten record keeps its index and its place. *)
LEMMA RewriteKeeps ==
    ASSUME SessionTypeOK, NEW u \in Urls, Rewrite(u)
    PROVE  /\ entries' \in Seq(Entry)
           /\ DOMAIN entries' = DOMAIN entries
           /\ position' = position
           /\ \A k \in DOMAIN entries : entries'[k].index = entries[k].index
<1>1. entries \in Seq(Entry) /\ position \in DOMAIN entries
    BY Entries
<1>2. /\ entries' = [entries EXCEPT ![position] = [@ EXCEPT !.url = u]]
      /\ position' = position
    BY DEF Rewrite
<1>3. \A e \in Entry : [e EXCEPT !.url = u] \in Entry
    BY DEF Entry
<1>4. \A e \in Entry : [e EXCEPT !.url = u].index = e.index
    BY DEF Entry
<1> DEFINE new == [entries[position] EXCEPT !.url = u]
<1> HIDE DEF new
<1>5. entries' = [entries EXCEPT ![position] = new]
    BY <1>2 DEF new
<1>6. new \in Entry /\ new.index = entries[position].index
    BY <1>1, <1>3, <1>4, Entries DEF new
<1>7. entries' \in Seq(Entry) /\ Len(entries') = Len(entries)
    BY <1>1, <1>5, <1>6
<1>8. \A k \in DOMAIN entries : entries'[k].index = entries[k].index
    BY <1>1, <1>5, <1>6
<1> QED
    BY <1>1, <1>2, <1>7, <1>8

(* When nothing but the URLs in the entries changes, the indexes stay right. *)
LEMMA SameIndexes ==
    ASSUME SInv, DOMAIN entries' = DOMAIN entries, position' = position,
           \A k \in DOMAIN entries : entries'[k].index = entries[k].index,
           index' = index, passed' = passed, unloaded => unloaded'
    PROVE  IndexIsCurrent' /\ IndexesIncrease'
BY DEF SInv, SessionTypeOK, IndexIsCurrent, IndexesIncrease

-----------------------------------------------------------------------------
(* Visits *)

(* Only the browser leaves the page. *)
LEMMA StaysLoaded ==
    ASSUME NEW v \in Visits, VisitStep(v)
    PROVE  ~unloaded /\ unloaded' = unloaded
<1>1. CASE Request(v)
    BY <1>1 DEF Request, Task
<1>2. CASE HandlerAborts(v)
    BY <1>2 DEF HandlerAborts, Task
<1>3. CASE TakeOver(v) \/ Start(v) \/ Wait(v) \/ Transition(v) \/ Leave(v)
    BY <1>3 DEF TakeOver, Start, Wait, Transition, Leave, MainTurn
<1>4. CASE Enter(v) \/ Replace(v) \/ Rendered(v) \/ Entered(v) \/ Complete(v)
    BY <1>4 DEF Enter, Replace, Rendered, Entered, Complete, MainTurn
<1>5. CASE PageRejects(v) \/ ContainerMismatch(v) \/ HandlerThrows(v)
    BY <1>5 DEF PageRejects, ContainerMismatch, HandlerThrows, Catch, MainTurn
<1>6. CASE LoaderStep(v)
    BY <1>6 DEF LoaderStep, LoadPage, FetchSettles, PageArrives, LoaderTurn, Task
<1> QED
    BY <1>1, <1>2, <1>3, <1>4, <1>5, <1>6 DEF VisitStep, MainStep

(* What createVisit() writes down is well typed. *)
LEMMA AskTypes ==
    ASSUME SessionTypeOK, NEW v \in Visits, NEW u \in Urls, NEW h \in Hows,
           NEW d \in Directions, Ask(v, u, h, d)
    PROVE  /\ url' \in [Visits -> Urls]
           /\ how' \in [Visits -> Hows]
           /\ direction' \in [Visits -> Directions]
           /\ incoming' \in Urls
           /\ visible' \in Urls
           /\ ~unloaded /\ unloaded' = unloaded
BY DEF SessionTypeOK, Ask, Request, Task

(* The direction is one of three. *)
LEMMA TowardsType ==
    ASSUME SessionTypeOK, NEW i \in DOMAIN entries
    PROVE  Towards(i) \in Directions
<1>1. entries[i].index \in Nat /\ index \in Nat
    BY Entries DEF SessionTypeOK
<1> QED
    BY <1>1 DEF Towards, Directions

(* A step of the session is a step of a visit, the loading of the URL of a
   failed one, or nothing to Navigation. *)
LEMMA StepsAreNavigation ==
    ASSUME SessionNext
    PROVE  Next \/ UNCHANGED vars
<1>1. CASE UserStep
    BY <1>1 DEF UserStep, ClickSelf, PassPopState, PopFallback, Click, Navigate,
                PopState, Follow, Ask, Next, VisitStep
<1>2. ASSUME NEW v \in Visits, SessionStep(v) PROVE VisitStep(v)
    BY <1>2 DEF SessionStep, StartVisit, EnterVisit, ReplaceVisit, OtherStep,
                VisitStep, MainStep
<1> QED
    BY <1>1, <1>2 DEF SessionNext, Next

(* The session adds nothing to what visits do: every behaviour of Session is
   one of Navigation, so that all its theorems hold here too. *)
THEOREM SessionIsNavigation == SessionSpec => Spec
<1>1. SessionInit => Init
    BY DEF SessionInit
<1>2. [SessionNext]_session => [Next]_vars
    BY StepsAreNavigation DEF session
<1> QED
    BY <1>1, <1>2, PTL DEF SessionSpec, Spec

-----------------------------------------------------------------------------
(* The indexes *)

(* The index of the constructor is that of the current entry. *)
LEMMA SInit == SessionInit => SInv
<1> SUFFICES ASSUME SessionInit PROVE SInv
    OBVIOUS
<1>1. Tab \in Seq(Urls) /\ position \in DOMAIN Tab
    BY TabAssumption DEF SessionInit
<1>2. /\ entries \in Seq(Entry)
      /\ DOMAIN entries = DOMAIN Tab
      /\ \A i \in DOMAIN Tab : entries[i].index = i
    <2>1. entries = [i \in 1..Len(Tab) |-> [url |-> Tab[i], index |-> i]]
        BY <1>1 DEF SessionInit
    <2>2. \A i \in 1..Len(Tab) : [url |-> Tab[i], index |-> i] \in Entry
        BY <1>1 DEF Entry
    <2> QED
        BY <1>1, <2>1, <2>2
<1>3. SessionTypeOK
    <2>1. location \in Urls /\ index \in Nat /\ position \in DOMAIN entries
        BY <1>1, <1>2 DEF SessionInit
    <2>2. /\ url \in [Visits -> Urls]
          /\ how \in [Visits -> Hows]
          /\ direction \in [Visits -> Directions]
          /\ incoming \in Urls /\ visible \in Urls /\ passed \in BOOLEAN
        BY <2>1 DEF SessionInit, Hows, Directions
    <2> QED
        BY <1>2, <2>1, <2>2 DEF SessionTypeOK, Entry
<1>4. IndexIsCurrent
    BY <1>1, <1>2 DEF SessionInit, IndexIsCurrent
<1>5. IndexesIncrease
    BY <1>1, <1>2 DEF IndexesIncrease
<1> QED
    BY <1>3, <1>4, <1>5 DEF SInv

(* A traversal to another entry whose index becomes the index of the instance:
   handlePopState() with a visit. *)
LEMMA PopStateKeeps ==
    ASSUME SInv, NEW v \in Visits, NEW i \in DOMAIN entries, PopState(v, i)
    PROVE  SInv'
<1>1. entries[i] \in Entry
    BY Entries DEF SInv
<1>2. /\ position' = i /\ index' = entries[i].index
      /\ entries' = entries /\ passed' = passed /\ location' = location
    BY DEF PopState, Traverse, Follow
<1>3. Ask(v, entries[i].url, "popstate", Towards(i))
    BY DEF PopState, Follow
<1>4. SessionTypeOK'
    BY <1>1, <1>2, <1>3, AskTypes, TowardsType
       DEF SInv, SessionTypeOK, Entry, Hows
<1> QED
    BY <1>2, <1>4 DEF SInv, IndexIsCurrent, IndexesIncrease

(* A click or a call of navigate() leaves the history alone until the visit
   starts. *)
LEMMA AskKeeps ==
    ASSUME SInv, NEW v \in Visits, NEW u \in Urls, NEW h \in {"push", "replace"},
           Ask(v, u, h, "undefined"), UNCHANGED history
    PROVE  SInv'
<1>1. UNCHANGED <<location, index, entries, position, passed>>
    BY DEF history
<1>2. h \in Hows /\ "undefined" \in Directions
    BY DEF Hows, Directions
<1>3. SessionTypeOK' /\ unloaded' = unloaded
    BY <1>1, <1>2, AskTypes DEF SInv, SessionTypeOK
<1> QED
    BY <1>1, <1>3 DEF SInv, IndexIsCurrent, IndexesIncrease

(* The other steps of the user: a rewritten record, a popstate event that is let
   pass, the loading of another page. *)
LEMMA UserKeeps ==
    ASSUME SInv, UserStep
    PROVE  SInv'
<1>1. ASSUME NEW u \in Urls, ClickSelf(u) PROVE SInv'
    <2>1. Rewrite(u) /\ UNCHANGED <<location, index, passed, unloaded, url, how,
                                    direction, incoming, visible>>
        BY <1>1 DEF ClickSelf, vars, details
    <2>2. /\ entries' \in Seq(Entry) /\ DOMAIN entries' = DOMAIN entries
          /\ position' = position
          /\ \A k \in DOMAIN entries : entries'[k].index = entries[k].index
        BY <2>1, RewriteKeeps DEF SInv
    <2>3. SessionTypeOK'
        BY <2>1, <2>2 DEF SInv, SessionTypeOK, Entry
    <2> QED
        BY <2>1, <2>2, <2>3, SameIndexes DEF SInv
<1>2. ASSUME NEW i \in DOMAIN entries, PassPopState(i) PROVE SInv'
    <2>1. /\ position' = i
          /\ passed' = (passed \/ entries[i].index # index)
          /\ UNCHANGED <<location, index, entries, url, how, direction,
                         incoming, visible, unloaded>>
        BY <1>2 DEF PassPopState, Traverse, details, vars
    <2>2. passed' \in BOOLEAN
        BY <2>1, Zenon
    <2>3. SessionTypeOK'
        BY <2>1, <2>2 DEF SInv, SessionTypeOK
    <2>4. passed' <=> passed \/ entries[i].index # index
        BY <2>1, Zenon
    <2>5. IndexIsCurrent'
        BY <2>1, <2>4 DEF IndexIsCurrent
    <2>6. IndexesIncrease'
        BY <2>1, <2>4 DEF SInv, IndexesIncrease
    <2> QED
        BY <2>3, <2>5, <2>6 DEF SInv
<1>3. ASSUME NEW i \in DOMAIN entries, PopFallback(i) PROVE SInv'
    <2>1. /\ position' = i /\ unloaded'
          /\ UNCHANGED <<location, index, entries, passed, url, how, direction,
                         incoming, visible>>
        BY <1>3 DEF PopFallback, Traverse, FallbackLoad, details
    <2> QED
        BY <2>1 DEF SInv, SessionTypeOK, IndexIsCurrent, IndexesIncrease
<1>4. ASSUME NEW v \in Visits, NEW u \in Urls, NEW h \in {"push", "replace"},
             Click(v, u, h) \/ Navigate(v, u, h)
      PROVE  SInv'
    BY <1>4, AskKeeps DEF Click, Navigate
<1> QED
    BY <1>1, <1>2, <1>3, <1>4, PopStateKeeps DEF UserStep

(* A visit starts: its record is pushed with the next index, or rewritten. *)
LEMMA StartKeeps ==
    ASSUME SInv, NEW v \in Visits, StartVisit(v)
    PROVE  SInv'
<1>1. ~unloaded /\ unloaded' = unloaded
    BY StaysLoaded DEF StartVisit, VisitStep, MainStep
<1>2. /\ url[v] \in Urls /\ index \in Nat
      /\ location' = url[v]
      /\ UNCHANGED <<passed, url, how, direction, incoming, visible>>
    BY DEF StartVisit, details, SInv, SessionTypeOK
<1>3. CASE UNCHANGED <<index, entries, position>>
    BY <1>1, <1>2, <1>3
       DEF SInv, SessionTypeOK, IndexIsCurrent, IndexesIncrease
<1>4. CASE Rewrite(url[v]) /\ UNCHANGED index
    <2>1. /\ entries' \in Seq(Entry) /\ DOMAIN entries' = DOMAIN entries
          /\ position' = position
          /\ \A k \in DOMAIN entries : entries'[k].index = entries[k].index
        BY <1>2, <1>4, RewriteKeeps DEF SInv
    <2>2. SessionTypeOK'
        BY <1>2, <1>4, <2>1 DEF SInv, SessionTypeOK, Entry
    <2> QED
        BY <1>1, <1>2, <1>4, <2>1, <2>2, SameIndexes DEF SInv
<1>5. CASE Push(url[v], index + 1) /\ index' = index + 1
    <2>1. /\ entries' \in Seq(Entry) /\ DOMAIN entries' = 1..position + 1
          /\ position' = position + 1
          /\ entries'[position + 1].index = index + 1
          /\ \A k \in 1..position : entries'[k] = entries[k]
        BY <1>2, <1>5, PushAdds DEF SInv
    <2>2. /\ position \in DOMAIN entries /\ position \in Nat
          /\ 1..position \subseteq DOMAIN entries
          /\ \A k \in DOMAIN entries : entries[k].index \in Nat
        BY Entries DEF SInv
    <2>3. SessionTypeOK'
        BY <1>2, <1>5, <2>1, <2>2 DEF SInv, SessionTypeOK, Entry
    <2>4. IndexIsCurrent'
        BY <1>5, <2>1 DEF IndexIsCurrent
    <2>5. ASSUME ~passed, NEW i \in 1..position, NEW j \in 1..position + 1, i < j
          PROVE  entries'[i].index < entries'[j].index
        <3>1. entries[position].index = index
            BY <1>1, <2>5 DEF SInv, IndexIsCurrent
        <3>2. entries[i].index <= entries[position].index
            <4>1. CASE i = position
                BY <2>2, <4>1
            <4>2. CASE i < position
                BY <2>2, <2>5, <4>2 DEF SInv, IndexesIncrease
            <4> QED
                BY <2>2, <4>1, <4>2
        <3>3. CASE j = position + 1
            BY <1>2, <2>1, <2>2, <3>1, <3>2, <3>3
        <3>4. CASE j # position + 1
            <4>1. j \in 1..position
                BY <2>2, <3>4
            <4> QED
                BY <2>1, <2>2, <2>5, <4>1 DEF SInv, IndexesIncrease
        <3> QED
            BY <3>3, <3>4
    <2>6. IndexesIncrease'
        BY <1>2, <2>1, <2>2, <2>5 DEF IndexesIncrease
    <2> QED
        BY <2>3, <2>4, <2>6 DEF SInv
<1> QED
    BY <1>3, <1>4, <1>5 DEF StartVisit

(* A page is rendered: only a redirect rewrites the record. *)
LEMMA EnterKeeps ==
    ASSUME SInv, NEW v \in Visits, NEW u \in Urls, EnterVisit(v, u)
    PROVE  SInv'
<1>1. unloaded' = unloaded
    BY StaysLoaded DEF EnterVisit, VisitStep, MainStep
<1>2. /\ UNCHANGED <<index, passed, how, direction, visible>>
      /\ incoming' \in Urls
    BY DEF EnterVisit, SInv, SessionTypeOK
<1>3. CASE UNCHANGED <<location, entries, position, url>>
    BY <1>1, <1>2, <1>3
       DEF SInv, SessionTypeOK, IndexIsCurrent, IndexesIncrease
<1>4. CASE Redirect(v, u)
    <2>1. Rewrite(u) /\ location' = u /\ url' = [url EXCEPT ![v] = u]
        BY <1>4 DEF Redirect
    <2>2. /\ entries' \in Seq(Entry) /\ DOMAIN entries' = DOMAIN entries
          /\ position' = position
          /\ \A k \in DOMAIN entries : entries'[k].index = entries[k].index
        BY <2>1, RewriteKeeps DEF SInv
    <2>3. SessionTypeOK'
        BY <1>2, <2>1, <2>2 DEF SInv, SessionTypeOK, Entry
    <2> QED
        BY <1>1, <1>2, <2>2, <2>3, SameIndexes DEF SInv
<1> QED
    BY <1>3, <1>4 DEF EnterVisit

(* Every step keeps the index and the order of the entries. *)
LEMMA SStep == SInv /\ [SessionNext]_session => SInv'
<1> SUFFICES ASSUME SInv, [SessionNext]_session PROVE SInv'
    OBVIOUS
<1>1. CASE UserStep
    BY <1>1, UserKeeps
<1>2. ASSUME NEW v \in Visits, SessionStep(v) PROVE SInv'
    <2>1. CASE StartVisit(v)
        BY <2>1, StartKeeps
    <2>2. ASSUME NEW u \in Urls, EnterVisit(v, u) PROVE SInv'
        BY <2>2, EnterKeeps
    <2>3. CASE ReplaceVisit(v)
        <3>1. unloaded' = unloaded
            BY <2>3, StaysLoaded DEF ReplaceVisit, VisitStep, MainStep
        <3>2. UNCHANGED <<location, index, entries, position, passed, url, how,
                          direction, incoming>>
              /\ visible' \in Urls
            BY <2>3 DEF ReplaceVisit, history, SInv, SessionTypeOK
        <3> QED
            BY <3>1, <3>2 DEF SInv, SessionTypeOK, IndexIsCurrent, IndexesIncrease
    <2>4. CASE OtherStep(v) /\ UNCHANGED <<history, details>>
        <3>1. unloaded' = unloaded
            BY <2>4, StaysLoaded DEF OtherStep, VisitStep, MainStep
        <3>2. UNCHANGED <<location, index, entries, position, passed, url, how,
                          direction, incoming, visible>>
            BY <2>4 DEF history, details
        <3> QED
            BY <3>1, <3>2 DEF SInv, SessionTypeOK, IndexIsCurrent, IndexesIncrease
    <2> QED
        BY <1>2, <2>1, <2>2, <2>3, <2>4 DEF SessionStep
<1>3. CASE UNCHANGED session
    BY <1>3 DEF session, history, details, vars, SInv, SessionTypeOK,
                IndexIsCurrent, IndexesIncrease
<1> QED
    BY <1>1, <1>2, <1>3 DEF SessionNext

(* The inductive invariant holds of every behaviour. *)
THEOREM SessionInvariant == SessionSpec => []SInv
BY SInit, SStep, PTL DEF SessionSpec

(* The session is well typed, and the browser at one of its entries. *)
THEOREM SessionTypeCorrect == SessionSpec => []SessionTypeOK
<1>1. SInv => SessionTypeOK
    BY DEF SInv
<1> QED
    BY <1>1, SessionInvariant, PTL

(* currentHistoryIndex is the index of the current entry. *)
THEOREM IndexIsThatOfEntry == SessionSpec => []IndexIsCurrent
<1>1. SInv => IndexIsCurrent
    BY DEF SInv
<1> QED
    BY <1>1, SessionInvariant, PTL

(* The indexes of the entries increase. *)
THEOREM EntriesAreOrdered == SessionSpec => []IndexesIncrease
<1>1. SInv => IndexesIncrease
    BY DEF SInv
<1> QED
    BY <1>1, SessionInvariant, PTL

-----------------------------------------------------------------------------
(* The direction *)

(* The index of an entry lies on the same side of the instance's as the entry
   does of the current one. *)
LEMMA TowardsIsTrue ==
    ASSUME SInv, ~passed, ~unloaded, NEW i \in DOMAIN entries, i # position
    PROVE  Towards(i) = IF i > position THEN "forwards" ELSE "backwards"
<1>1. /\ position \in DOMAIN entries /\ position \in Nat /\ i \in Nat
      /\ entries[i].index \in Nat /\ index \in Nat
    BY Entries DEF SInv, SessionTypeOK
<1>2. entries[position].index = index
    BY DEF SInv, IndexIsCurrent
<1>3. CASE i > position
    <2>1. entries[i].index > index
        BY <1>1, <1>2, <1>3 DEF SInv, IndexesIncrease
    <2> QED
        BY <1>1, <1>3, <2>1 DEF Towards
<1>4. CASE i < position
    <2>1. entries[i].index < index
        BY <1>1, <1>2, <1>4 DEF SInv, IndexesIncrease
    <2> QED
        BY <1>1, <1>4, <2>1 DEF Towards
<1> QED
    BY <1>1, <1>3, <1>4

(* Only handlePopState() makes a visit a popstate visit. *)
LEMMA OnlyPopState ==
    ASSUME SInv, SessionNext, NEW v \in Visits,
           how[v] # "popstate", how'[v] = "popstate"
    PROVE  \E i \in DOMAIN entries : PopState(v, i)
<1>1. how \in [Visits -> Hows]
    BY DEF SInv, SessionTypeOK
<1>2. ASSUME NEW w \in Visits, SessionStep(w) PROVE FALSE
    <2>1. how' = how
        BY <1>2 DEF SessionStep, StartVisit, EnterVisit, ReplaceVisit, details
    <2> QED
        BY <2>1
<1>3. ASSUME NEW w \in Visits, NEW u \in Urls, NEW h \in {"push", "replace"},
             Click(w, u, h) \/ Navigate(w, u, h)
      PROVE  FALSE
    BY <1>1, <1>3 DEF Click, Navigate, Ask
<1>4. ASSUME NEW u \in Urls, ClickSelf(u) PROVE FALSE
    BY <1>4 DEF ClickSelf, details
<1>5. ASSUME NEW i \in DOMAIN entries, PassPopState(i) \/ PopFallback(i)
      PROVE  FALSE
    BY <1>5 DEF PassPopState, PopFallback, details
<1>6. ASSUME NEW w \in Visits, NEW i \in DOMAIN entries, PopState(w, i)
      PROVE  w = v
    BY <1>1, <1>6 DEF PopState, Follow, Ask
<1> QED
    BY <1>2, <1>3, <1>4, <1>5, <1>6 DEF SessionNext, UserStep

(* A popstate visit goes the way the user went. *)
THEOREM DirectionOfTravel == SessionSpec => DirectionIsTrue
<1> DEFINE Turned(v) ==
        ~passed /\ how[v] # "popstate" /\ how'[v] = "popstate" =>
            direction'[v] = IF position' > position THEN "forwards"
                                                    ELSE "backwards"
<1>1. SInv /\ [SessionNext]_session => [\A v \in Visits : Turned(v)]_session
    <2> SUFFICES ASSUME SInv, SessionNext, NEW v \in Visits, ~passed,
                        how[v] # "popstate", how'[v] = "popstate"
                 PROVE  direction'[v] = IF position' > position THEN "forwards"
                                                                ELSE "backwards"
        OBVIOUS
    <2>1. PICK i \in DOMAIN entries : PopState(v, i)
        BY OnlyPopState
    <2>2. position' = i /\ i # position
        BY <2>1 DEF PopState, Traverse
    <2>3. ~unloaded
        BY <2>1 DEF PopState, Follow, Ask, Request, Task
    <2>4. direction'[v] = Towards(i)
        BY <2>1 DEF PopState, Follow, Ask, SInv, SessionTypeOK
    <2> QED
        BY <2>2, <2>3, <2>4, TowardsIsTrue
<1> QED
    BY <1>1, SessionInvariant, PTL DEF SessionSpec, DirectionIsTrue

-----------------------------------------------------------------------------
(* What agrees when *)

(* Where a visit waits for its start, for its page, and renders. *)
Pending == {"aborting", "starting", "queued"}
Early == {"waiting", "transition", "leaving", "skipping", "loading"}
Filled == {"rendered", "entering", "ending"}

(* The visit that runs has the location, from its start on, and the content,
   once it is in; the address bar is with the latest visit. *)
RunsWell ==
    /\ pc[current] # "starting" => location = url[current]
    /\ how[latest] = "popstate" /\ pc[latest] \in Pending => Address = url[latest]
    /\ pc[current] \in Early /\ latest = current => Address = location
    /\ pc[current] \in Rendering => Same(location, incoming)
    /\ pc[current] \in Rendering /\ latest = current => Same(Address, incoming)
    /\ pc[current] \in Filled => visible = incoming

(* The visit that runs will render, or be completed: at its end, even if it is
   aborted there. *)
Going == navigating /\ (~Done(current) \/ pc[current] = "ending")

Agreement ==
    ~passed /\ ~unloaded =>
        /\ ~navigating => Same(location, visible) /\ Same(Address, visible)
        /\ Going => RunsWell

(* The address bar shows the URL of the record that was written. *)
LEMMA RecordIsAddress ==
    ASSUME SessionTypeOK, NEW u \in Urls
    PROVE  /\ Rewrite(u) => Address' = u
           /\ \A i \in Nat : Push(u, i) => Address' = u
<1>1. entries \in Seq(Entry) /\ position \in 1..Len(entries)
    BY Entries
<1>2. ASSUME Rewrite(u) PROVE Address' = u
    <2>1. /\ entries' = [entries EXCEPT ![position] = [@ EXCEPT !.url = u]]
          /\ position' = position
        BY <1>2 DEF Rewrite
    <2>2. [entries[position] EXCEPT !.url = u].url = u
        BY <1>1 DEF Entry
    <2>3. entries'[position] = [entries[position] EXCEPT !.url = u]
        BY <1>1, <2>1
    <2> QED
        BY <2>1, <2>2, <2>3 DEF Address
<1>3. ASSUME NEW i \in Nat, Push(u, i) PROVE Address' = u
    <2> DEFINE kept == SubSeq(entries, 1, position)
    <2> DEFINE new == [url |-> u, index |-> i]
    <2>1. kept \in Seq(Entry) /\ Len(kept) = position
        BY <1>1
    <2>2. new \in Entry /\ new.url = u
        BY DEF Entry
    <2>3. entries' = Append(kept, new) /\ position' = position + 1
        BY <1>3 DEF Push
    <2> HIDE DEF kept, new
    <2>4. entries'[position'] = new
        BY <2>1, <2>2, <2>3
    <2> QED
        BY <2>2, <2>4 DEF Address
<1> QED
    BY <1>2, <1>3

(* A visit that goes on is not about to be aborted, and until it renders it is
   the latest. *)
LEMMA GoesOnAsLatest ==
    ASSUME BeginsUndisturbed, QInv, NEW v \in Visits, MainTurn(v), HoldsLock(v),
           pc[v] # "aborting"
    PROVE  /\ \A w \in Visits : pc[w] # "aborting"
           /\ queued = NoVisit => latest = v
           /\ pc[v] \in {"starting"} \cup Early /\ ~Done(v) => latest = v
<1>1. ASSUME NEW w \in Visits, pc[w] = "aborting" PROVE FALSE
    <2>1. Runnable(w)
        BY <1>1, BeginnersRun
    <2>2. ~Quiescent
        BY <2>1 DEF Runnable, Quiescent
    <2>3. Runnable(v)
        BY <2>2 DEF MainTurn, Runnable, Parked
    <2> QED
        BY <1>1, <2>1, <2>3 DEF QInv, IInv, OneRunnable
<1>2. queued = NoVisit => latest = v
    BY <1>1 DEF QInv, IInv, LatestIsKnown, HoldsLock
<1>3. ASSUME pc[v] \in {"starting"} \cup Early, ~Done(v) PROVE queued = NoVisit
    <2>1. ~ContentIn(v)
        BY <1>3, StateCases, TypeParts DEF QInv, IInv, CommitInv, Rendering, Early
    <2> QED
        BY <2>1 DEF QInv, IInv, QueueWaits, ContentIn, HoldsLock
<1> QED
    BY <1>1, <1>2, <1>3

(* A visit is requested: if by a popstate event, the address bar is there. *)
LEMMA AskAgrees ==
    ASSUME QInv, SInv, Agreement, NEW v \in Visits, NEW u \in Urls,
           NEW h \in Hows, NEW d \in Directions, Ask(v, u, h, d),
           location' = location, passed' = passed,
           h = "popstate" => Address' = u
    PROVE  Agreement'
<1>1. /\ Request(v) /\ pc[v] = "idle" /\ latest' = v /\ ~unloaded
      /\ UNCHANGED <<incoming, visible>>
    BY DEF Ask, Request, Task
<1>2. /\ url'[v] = u /\ how'[v] = h
      /\ \A w \in Visits \ {v} : url'[w] = url[w]
    BY DEF Ask, SInv, SessionTypeOK
<1>3. TypeOK /\ CurrentHasBegun
    BY DEF QInv, IInv
<1>4. CASE RequestIdle(v)
    <2>1. navigating' /\ current' = v /\ pc'[v] = "starting"
        BY <1>3, <1>4 DEF RequestIdle, TakeLock, Goto, TypeOK
    <2> QED
        BY <1>1, <1>2, <2>1 DEF Agreement, Going, RunsWell, Early, Rendering, Filled
<1>5. CASE RequestQueued(v) \/ RequestAborting(v)
    <2>1. /\ navigating /\ navigating' /\ current' = current
          /\ current \in Visits \ {v}
        BY <1>1, <1>3, <1>5 DEF RequestQueued, RequestAborting, CurrentHasBegun,
           TypeOK
    <2>2. pc'[current] = pc[current] /\ state'[current] = state[current]
        BY <1>3, <1>5, <2>1 DEF RequestQueued, RequestAborting, Goto, TypeOK
    <2>3. passed' \/ unloaded' \/ ~Going' \/ RunsWell
        BY <1>1, <2>1, <2>2 DEF Agreement, Going, Done
    <2>4. ASSUME RunsWell PROVE RunsWell'
        <3>1. pc[current] \in Rendering => Same(location, incoming)'
            BY <1>1, <2>4 DEF RunsWell, Same
        <3> QED
            BY <1>1, <1>2, <2>1, <2>2, <2>4, <3>1 DEF RunsWell
    <2> QED
        BY <2>1, <2>3, <2>4 DEF Agreement
<1> QED
    BY <1>1, <1>4, <1>5 DEF Request

(* A visit that keeps the lock, if it moves at all, moves on or ends; the
   session is as it was. *)
LEMMA StaysAgreed ==
    ASSUME Agreement,
           UNCHANGED <<navigating, current, latest, unloaded, passed, location,
                       entries, position, url, how, incoming, visible>>,
           navigating =>
               /\ Going' => Going
               /\ pc[current] = "starting" => pc'[current] = "starting"
               /\ pc'[latest] \in Pending => pc[latest] \in Pending
               /\ pc'[current] \in Early => pc[current] \in Early
               /\ pc'[current] \in Rendering => pc[current] \in Rendering
               /\ pc'[current] \in Filled => pc[current] \in Filled
    PROVE  Agreement'
<1>1. Address' = Address
    BY DEF Address
<1>2. /\ Same(location, visible)' <=> Same(location, visible)
      /\ Same(location, incoming)' <=> Same(location, incoming)
      /\ Same(Address, visible)' <=> Same(Address, visible)
      /\ Same(Address, incoming)' <=> Same(Address, incoming)
    BY <1>1 DEF Same
<1>3. navigating /\ RunsWell => RunsWell'
    BY <1>1, <1>2 DEF RunsWell
<1>4. Going' => navigating
    BY DEF Going
<1> QED
    BY <1>2, <1>3, <1>4 DEF Agreement

(* While swup navigates, some visit is the current one and some the latest. *)
LEMMA LatestIsVisit ==
    ASSUME QInv, navigating
    PROVE  current \in Visits /\ latest \in Visits
<1>1. current \in Visits /\ queued \in Visits \cup {NoVisit}
    BY DEF QInv, IInv, TypeOK
<1>2. CASE \E w \in Visits : pc[w] = "aborting"
    BY <1>1, <1>2 DEF QInv, IInv, LatestIsKnown
<1>3. CASE ~\E w \in Visits : pc[w] = "aborting"
    BY <1>1, <1>3 DEF QInv, IInv, LatestIsKnown
<1> QED
    BY <1>1, <1>2, <1>3

(* A visit moves on, without starting, rendering or filling anything. *)
GoesBy(v) ==
    \/ Wait(v) \/ Transition(v) \/ Leave(v)
    \/ Rendered(v) \/ Entered(v)
    \/ Done(v) /\ (Enter(v) \/ Replace(v))
    \/ PageRejects(v) \/ ContainerMismatch(v)
    \/ HandlerThrows(v) \/ HandlerAborts(v) \/ LoaderStep(v)

LEMMA GoesByLabels ==
    ASSUME BeginsUndisturbed, QInv, NEW v \in Visits, GoesBy(v)
    PROVE  \/ pc'[v] = pc[v]
           \/ /\ pc[v] # "starting" /\ pc'[v] \notin Pending
              /\ pc'[v] \in Early => pc[v] \in Early
              /\ pc'[v] \in Rendering => pc[v] \in Rendering
              /\ pc'[v] \in Filled => pc[v] \in Filled
              /\ pc'[v] = "ending" => ~Done(v)
<1> USE DEF Pending, Early, Rendering, Filled, Goto, Finish
<1>0. v \in DOMAIN pc
    BY DEF QInv, IInv, TypeOK
<1>1. CASE Wait(v) \/ Leave(v) \/ Transition(v)
    BY <1>0, <1>1 DEF Wait, Leave, Transition, QInv, IInv, TypeOK
<1>2. CASE Rendered(v) \/ Entered(v)
    BY <1>0, <1>2 DEF Rendered, Entered, QInv, IInv, TypeOK
<1>3. CASE Done(v) /\ (Enter(v) \/ Replace(v))
    BY <1>0, <1>3 DEF Enter, Replace, QInv, IInv, TypeOK
<1>4. CASE PageRejects(v) \/ ContainerMismatch(v)
    BY <1>0, <1>4 DEF PageRejects, ContainerMismatch, Catch, QInv, IInv, TypeOK
<1>5. CASE HandlerThrows(v) \/ HandlerAborts(v)
    BY <1>0, <1>5 DEF HandlerThrows, HandlerAborts, Catch, HooksAt, ThrowingHooks
<1>6. CASE LoaderStep(v)
    BY <1>6 DEF LoaderStep, LoadPage, FetchSettles, PageArrives
<1> QED
    BY <1>1, <1>2, <1>3, <1>4, <1>5, <1>6 DEF GoesBy

(* Such a step leaves everything as it was agreed. *)
LEMMA GoesByAgrees ==
    ASSUME BeginsUndisturbed, QInv, Agreement, NEW v \in Visits, GoesBy(v),
           UNCHANGED <<passed, location, entries, position, url, how, incoming,
                       visible>>
    PROVE  Agreement'
<1>1. TypeOK /\ BeginsUndisturbed /\ OthersOK /\ StatesOK /\ StagesOK
      /\ CompletedIsOver
    BY TypeParts DEF QInv, IInv
<1>2. Quiet(v)
    BY DEF GoesBy, Quiet
<1>3. /\ UNCHANGED <<navigating, current, latest>>
      /\ \A w \in Visits \ {v} : pc'[w] = pc[w] /\ state'[w] = state[w]
    BY <1>1, <1>2, QuietFrame
<1>4. Done(v) => Done(v)'
    BY <1>1, <1>2, QuietStates
<1>5. unloaded' = unloaded
    BY <1>2, StepKinds, StaysLoaded
<1>6. ASSUME navigating
      PROVE  /\ Going' => Going
             /\ pc[current] = "starting" => pc'[current] = "starting"
             /\ pc'[latest] \in Pending => pc[latest] \in Pending
             /\ pc'[current] \in Early => pc[current] \in Early
             /\ pc'[current] \in Rendering => pc[current] \in Rendering
             /\ pc'[current] \in Filled => pc[current] \in Filled
    <2>1. current \in Visits /\ latest \in Visits /\ current' = current
          /\ latest' = latest
        BY <1>3, <1>6, LatestIsVisit
    <2>2. Going' => Going
        <3>1. CASE current = v
            BY <1>3, <1>4, <1>6, <2>1, <3>1, GoesByLabels DEF Going
        <3>2. CASE current # v
            BY <1>3, <1>6, <2>1, <3>2 DEF Going, Done
        <3> QED
            BY <3>1, <3>2
    <2>3. \A w \in Visits \ {v} : pc'[w] = pc[w]
        BY <1>3
    <2> QED
        BY <2>1, <2>2, <2>3, GoesByLabels
<1> QED
    BY <1>3, <1>5, <1>6, StaysAgreed

(* A link to this page: the address bar already showed it, or does now. *)
LEMMA ClickSelfAgrees ==
    ASSUME BeginsUndisturbed, QInv, SInv, Agreement, NEW u \in Urls, ClickSelf(u)
    PROVE  Agreement'
<1>1. /\ UNCHANGED <<location, passed, url, how, incoming, visible>>
      /\ UNCHANGED <<navigating, current, latest, unloaded, pc, state>>
      /\ Rewrite(u) /\ u = location
    BY DEF ClickSelf, details, vars
<1>2. Address' = location
    BY <1>1, RecordIsAddress DEF SInv
<1>3. ~navigating => Agreement'
    BY <1>1, <1>2 DEF Agreement, Going, Same
<1>4. ASSUME Going, ~passed, ~unloaded PROVE FALSE
    <2>1. location = url[current] \/ pc[current] = "starting"
        BY <1>4 DEF Agreement, RunsWell
    <2>2. current \in Visits /\ Quiescent
        BY <1>4, LatestIsVisit DEF ClickSelf, Task, Going
    <2>3. pc[current] # "starting"
        BY <2>2, NoneBeginsAtTask
    <2> QED
        BY <1>1, <1>4, <2>1, <2>3 DEF ClickSelf, Underway, Going
<1>5. Going' <=> Going
    BY <1>1 DEF Going, Done
<1> QED
    BY <1>1, <1>3, <1>4, <1>5 DEF Agreement

(* A popstate event that is let pass has moved to another index. *)
LEMMA PassIsSeen ==
    ASSUME SInv, ~unloaded, NEW i \in DOMAIN entries, PassPopState(i)
    PROVE  passed'
<1>1. /\ passed' <=> passed \/ entries[i].index # index
      /\ i # position
    BY Zenon DEF PassPopState, Traverse
<1>2. /\ position \in Nat /\ i \in Nat /\ position \in DOMAIN entries
      /\ \A k \in DOMAIN entries : entries[k].index \in Nat
    BY Entries DEF SInv
<1>3. ASSUME ~passed, entries[i].index = index PROVE FALSE
    <2>1. entries[i].index = entries[position].index
        BY <1>3 DEF SInv, IndexIsCurrent
    <2>2. i < position \/ position < i
        BY <1>1, <1>2
    <2> QED
        BY <1>2, <1>3, <2>1, <2>2 DEF SInv, IndexesIncrease
<1> QED
    BY <1>1, <1>3

(* The steps of the user. *)
LEMMA UserAgrees ==
    ASSUME BeginsUndisturbed, QInv, SInv, Agreement, UserStep
    PROVE  Agreement'
<1>1. ASSUME NEW i \in DOMAIN entries, PassPopState(i) PROVE Agreement'
    <2>1. ~unloaded
        BY <1>1 DEF PassPopState, Task
    <2> QED
        BY <1>1, <2>1, PassIsSeen DEF Agreement
<1>2. ASSUME NEW i \in DOMAIN entries, PopFallback(i) PROVE Agreement'
    BY <1>2 DEF PopFallback, FallbackLoad, Agreement
<1>3. ASSUME NEW v \in Visits, NEW u \in Urls, NEW h \in {"push", "replace"},
             Click(v, u, h) \/ Navigate(v, u, h)
      PROVE  Agreement'
    <2>1. Ask(v, u, h, "undefined") /\ location' = location /\ passed' = passed
        BY <1>3 DEF Click, Navigate, history
    <2>2. h \in Hows /\ "undefined" \in Directions /\ h # "popstate"
        BY DEF Hows, Directions
    <2> QED
        BY <2>1, <2>2, AskAgrees
<1>4. ASSUME NEW v \in Visits, NEW i \in DOMAIN entries, PopState(v, i)
      PROVE  Agreement'
    <2>1. /\ Ask(v, entries[i].url, "popstate", Towards(i))
          /\ UNCHANGED <<location, entries, passed>> /\ position' = i
        BY <1>4 DEF PopState, Follow, Traverse
    <2>2. Address' = entries[i].url
        BY <2>1 DEF Address
    <2>3. entries[i].url \in Urls
        BY Entries DEF SInv, Entry
    <2>4. "popstate" \in Hows /\ Towards(i) \in Directions
        BY TowardsType DEF SInv, Hows
    <2> QED
        BY <2>1, <2>2, <2>3, <2>4, AskAgrees
<1> QED
    BY <1>1, <1>2, <1>3, <1>4, ClickSelfAgrees DEF UserStep

(* A visit starts: location and address bar are at its URL. *)
LEMMA StartAgrees ==
    ASSUME BeginsUndisturbed, QInv, SInv, Agreement, NEW v \in Visits,
           StartVisit(v)
    PROVE  Agreement'
<1>1. /\ pc[v] = "starting" /\ MainTurn(v)
      /\ UNCHANGED <<navigating, current, latest, unloaded>>
      /\ location' = url[v]
      /\ UNCHANGED <<passed, url, how, incoming, visible>>
    BY DEF StartVisit, Start, details
<1>2. HoldsLock(v)
    BY <1>1 DEF QInv, IInv, ExclusiveHoldsLock, Exclusive
<1>3. ~Done(v)
    BY <1>1, TypeParts
       DEF QInv, IInv, StagesOK, Unstarted, StatesOK, CREATED, STARTED,
           COMPLETED, FAILED, Done
<1>4. latest = v
    BY <1>1, <1>2, <1>3, GoesOnAsLatest
<1>5. pc'[v] \in {"waiting", "transition"}
    BY DEF StartVisit, Start, Goto, QInv, IInv, TypeOK
<1>6. ASSUME ~passed, ~unloaded PROVE Address' = url[v]
    <2>1. CASE how[v] = "popstate" /\ UNCHANGED <<index, entries, position>>
        <3>1. Address = url[v]
            BY <1>1, <1>2, <1>3, <1>4, <1>6, <2>1
               DEF Agreement, Going, RunsWell, HoldsLock, Pending
        <3> QED
            BY <2>1, <3>1 DEF Address
    <2>2. CASE Rewrite(url[v]) \/ Push(url[v], index + 1)
        <3>1. url[v] \in Urls /\ index + 1 \in Nat
            BY DEF SInv, SessionTypeOK
        <3> QED
            BY <2>2, <3>1, RecordIsAddress DEF SInv
    <2> QED
        BY <2>1, <2>2 DEF StartVisit
<1>7. ASSUME ~passed, ~unloaded PROVE RunsWell'
    BY <1>1, <1>2, <1>4, <1>5, <1>6, <1>7
       DEF RunsWell, HoldsLock, Pending, Early, Rendering, Filled
<1> QED
    BY <1>1, <1>2, <1>7 DEF Agreement, Going, HoldsLock

(* The page of a visit is to be rendered, and a redirect followed. *)
LEMMA EnterAgrees ==
    ASSUME BeginsUndisturbed, QInv, SInv, Agreement, NEW v \in Visits,
           NEW u \in Urls, EnterVisit(v, u)
    PROVE  Agreement'
<1>1. /\ pc[v] = "loading" /\ MainTurn(v)
      /\ UNCHANGED <<navigating, current, latest, unloaded, passed, how, visible>>
    BY DEF EnterVisit, Enter
<1>2. CASE Done(v)
    <2>1. GoesBy(v)
        BY <1>2 DEF EnterVisit, GoesBy
    <2>2. UNCHANGED <<location, entries, position, url, incoming>>
        BY <1>2 DEF EnterVisit, Redirect
    <2> QED
        BY <1>1, <2>1, <2>2, GoesByAgrees
<1>3. CASE ~Done(v)
    <2>1. HoldsLock(v)
        BY <1>1, <1>3 DEF QInv, IInv, LiveIsCurrent, Live, Running, HoldsLock
    <2>2. latest = v
        BY <1>1, <1>3, <2>1, GoesOnAsLatest DEF Early
    <2>3. pc'[v] = "replacing" /\ incoming' = u
        BY <1>3 DEF EnterVisit, Enter, Goto, QInv, IInv, TypeOK
    <2>4. ASSUME ~passed, ~unloaded
          PROVE  /\ location' = url'[v]
                 /\ Same(location, incoming)'
                 /\ Same(Address, incoming)'
        <3>1. CASE Redirect(v, u)
            <4>1. Address' = u
                BY <3>1, RecordIsAddress DEF Redirect, SInv
            <4>2. location' = u /\ url'[v] = u
                BY <3>1 DEF Redirect, SInv, SessionTypeOK
            <4> QED
                BY <2>3, <4>1, <4>2 DEF Same
        <3>2. CASE Same(Address, u) /\ UNCHANGED <<location, entries, position, url>>
            <4>1. RunsWell
                BY <1>3, <2>1, <2>4 DEF Agreement, Going, HoldsLock
            <4>2. location = url[v] /\ Address = location
                BY <1>1, <2>1, <2>2, <4>1 DEF RunsWell, HoldsLock, Early
            <4>3. Address' = Address
                BY <3>2 DEF Address
            <4> QED
                BY <2>3, <3>2, <4>2, <4>3 DEF Same
        <3> QED
            BY <1>3, <3>1, <3>2 DEF EnterVisit
    <2>5. ASSUME ~passed, ~unloaded PROVE RunsWell'
        BY <1>1, <2>1, <2>2, <2>3, <2>4, <2>5
           DEF RunsWell, HoldsLock, Pending, Early, Rendering, Filled
    <2> QED
        BY <1>1, <2>1, <2>5 DEF Agreement, Going, HoldsLock
<1> QED
    BY <1>2, <1>3

(* The content is in. *)
LEMMA ReplaceAgrees ==
    ASSUME BeginsUndisturbed, QInv, Agreement, NEW v \in Visits, ReplaceVisit(v)
    PROVE  Agreement'
<1>1. /\ pc[v] = "replacing"
      /\ UNCHANGED <<navigating, current, latest, unloaded, passed, how, url,
                     location, entries, position, incoming>>
    BY DEF ReplaceVisit, Replace, history
<1>2. CASE Done(v)
    <2>1. GoesBy(v)
        BY <1>2 DEF ReplaceVisit, GoesBy
    <2>2. visible' = visible
        BY <1>2 DEF ReplaceVisit
    <2> QED
        BY <1>1, <2>1, <2>2, GoesByAgrees
<1>3. CASE ~Done(v)
    <2>1. HoldsLock(v)
        BY <1>1 DEF QInv, IInv, ExclusiveHoldsLock, Exclusive, Rendering
    <2>2. pc'[v] = "rendered" /\ visible' = incoming
        BY <1>3 DEF ReplaceVisit, Replace, Goto, QInv, IInv, TypeOK
    <2>3. latest \in Visits /\ current = v /\ navigating
        BY <2>1, LatestIsVisit DEF HoldsLock
    <2>4. pc'[latest] \in Pending => pc[latest] \in Pending
        BY <1>3, <2>2, <2>3 DEF ReplaceVisit, Replace, Goto, QInv, IInv, TypeOK, Pending
    <2>5. ASSUME ~passed, ~unloaded PROVE RunsWell'
        <3>1. RunsWell
            BY <1>3, <2>3, <2>5 DEF Agreement, Going
        <3>2. Address' = Address
            BY <1>1 DEF Address
        <3>3. /\ Same(location, incoming)' <=> Same(location, incoming)
              /\ Same(Address, incoming)' <=> Same(Address, incoming)
            BY <1>1, <3>2 DEF Same
        <3> QED
            BY <1>1, <2>2, <2>3, <2>4, <3>1, <3>2, <3>3
               DEF RunsWell, Early, Rendering, Filled
    <2> QED
        BY <1>1, <2>3, <2>5 DEF Agreement, Going
<1> QED
    BY <1>2, <1>3

(* A visit is superseded: visit:abort has returned. *)
LEMMA TakeOverAgrees ==
    ASSUME QInv, Agreement, NEW v \in Visits, TakeOver(v),
           UNCHANGED <<history, details>>
    PROVE  Agreement'
<1>1. /\ pc[v] = "aborting" /\ current' = v /\ navigating'
      /\ UNCHANGED <<latest, unloaded, passed, location, entries, position, url,
                     how, incoming, visible>>
    BY DEF TakeOver, TakeLock, history, details
<1>2. latest = v /\ navigating /\ ~ContentIn(current)
    BY <1>1 DEF QInv, IInv, LatestIsKnown, AbortsInTime
<1>3. ~Done(current)
    <2>1. state[current] \in Nat
        BY <1>2, LatestIsVisit, TypeParts
           DEF QInv, IInv, StatesOK, CREATED, FAILED
    <2> QED
        BY <1>2, <2>1 DEF ContentIn, Done, ENTERING, COMPLETED
<1>4. pc'[v] = "starting"
    BY DEF TakeOver, TakeLock, Goto, QInv, IInv, TypeOK
<1>5. ASSUME ~passed, ~unloaded PROVE RunsWell'
    <2>1. how[v] = "popstate" => Address = url[v]
        BY <1>1, <1>2, <1>3, <1>5 DEF Agreement, Going, RunsWell, Pending
    <2>2. Address' = Address
        BY <1>1 DEF Address
    <2> QED
        BY <1>1, <1>2, <1>4, <2>1, <2>2
           DEF RunsWell, Early, Rendering, Filled
<1> QED
    BY <1>1, <1>5 DEF Agreement, Going

(* A visit ends: swup is idle at its page, or goes on to the latest one. *)
LEMMA CompleteAgrees ==
    ASSUME BeginsUndisturbed, QInv, Agreement, NEW v \in Visits, Complete(v),
           UNCHANGED <<history, details>>
    PROVE  Agreement'
<1>1. /\ pc[v] = "ending" /\ MainTurn(v)
      /\ UNCHANGED <<latest, unloaded, passed, location, entries, position, url,
                     how, incoming, visible>>
    BY DEF Complete, history, details
<1>2. HoldsLock(v)
    BY <1>1 DEF QInv, IInv, ExclusiveHoldsLock, Exclusive, Rendering
<1>3. Address' = Address
    BY <1>1 DEF Address
<1>4. ASSUME ~passed, ~unloaded PROVE RunsWell
    BY <1>1, <1>2, <1>4 DEF Agreement, Going, HoldsLock
<1>5. CASE ReleaseLock(v)
    <2>1. latest = v /\ ~navigating'
        BY <1>1, <1>2, <1>5, GoesOnAsLatest DEF ReleaseLock
    <2>2. ASSUME ~passed, ~unloaded
          PROVE  Same(location, visible)' /\ Same(Address, visible)'
        BY <1>1, <1>2, <1>3, <1>4, <2>1, <2>2
           DEF RunsWell, HoldsLock, Rendering, Filled, Same
    <2> QED
        BY <1>1, <2>1, <2>2 DEF Agreement, Going
<1>6. CASE RunQueue(v)
    <2>1. latest = queued /\ pc[queued] = "queued" /\ current' = queued
        BY <1>6 DEF RunQueue, QInv, IInv, LatestIsKnown, QueueWaits
    <2>2. pc'[queued] = "starting" /\ navigating'
        BY <1>6 DEF RunQueue, QInv, IInv, TypeOK
    <2>3. ASSUME ~passed, ~unloaded PROVE RunsWell'
        BY <1>1, <1>3, <1>4, <2>1, <2>2, <2>3
           DEF RunsWell, Pending, Early, Rendering, Filled
    <2> QED
        BY <1>1, <2>2, <2>3 DEF Agreement, Going
<1> QED
    BY <1>5, <1>6 DEF Complete

(* Every step keeps the agreement. *)
LEMMA AgreementStep ==
    ASSUME BeginsUndisturbed, QInv, SInv, Agreement, [SessionNext]_session
    PROVE  Agreement'
<1>1. CASE UserStep
    BY <1>1, UserAgrees
<1>2. ASSUME NEW v \in Visits, SessionStep(v) PROVE Agreement'
    <2>1. CASE StartVisit(v)
        BY <2>1, StartAgrees
    <2>2. ASSUME NEW u \in Urls, EnterVisit(v, u) PROVE Agreement'
        BY <2>2, EnterAgrees
    <2>3. CASE ReplaceVisit(v)
        BY <2>3, ReplaceAgrees
    <2>4. CASE OtherStep(v) /\ UNCHANGED <<history, details>>
        <3>1. CASE TakeOver(v)
            BY <2>4, <3>1, TakeOverAgrees
        <3>2. CASE Complete(v)
            BY <2>4, <3>2, CompleteAgrees
        <3>3. CASE GoesBy(v)
            <4>1. UNCHANGED <<passed, location, entries, position, url, how,
                              incoming, visible>>
                BY <2>4 DEF history, details
            <4> QED
                BY <3>3, <4>1, GoesByAgrees
        <3> QED
            BY <2>4, <3>1, <3>2, <3>3 DEF OtherStep, GoesBy
    <2> QED
        BY <1>2, <2>1, <2>2, <2>3, <2>4 DEF SessionStep
<1>3. CASE UNCHANGED session
    BY <1>3, StaysAgreed DEF session, history, details, vars, Done, Going
<1> QED
    BY <1>1, <1>2, <1>3 DEF SessionNext

(* When swup is idle, the content, location and the address bar agree, whatever
   handlers do to visits that have begun. *)
THEOREM IdleSessionAgrees ==
    ASSUME BeginsUndisturbed
    PROVE  SessionSpec => []IdleAgrees
<1>1. SessionInit => Agreement
    <2> SUFFICES ASSUME SessionInit PROVE Agreement
        OBVIOUS
    <2>1. ~navigating /\ visible = location /\ location = Tab[position]
        BY DEF SessionInit, Init
    <2>2. entries[position] = [url |-> Tab[position], index |-> position]
        BY DEF SessionInit
    <2>3. Address = location
        BY <2>1, <2>2 DEF Address
    <2> QED
        BY <2>1, <2>3 DEF Agreement, Going, Same
<1>2. QInv /\ SInv /\ Agreement /\ [SessionNext]_session => Agreement'
    BY AgreementStep
<1>3. Agreement => IdleAgrees
    BY DEF Agreement, IdleAgrees, Idle
<1> QED
    BY <1>1, <1>2, <1>3, QueueInvariant, SessionIsNavigation, SessionInvariant,
       PTL DEF SessionSpec
=============================================================================
