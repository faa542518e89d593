----------------------------- MODULE ContentProofs -----------------------------
(***************************************************************************)
(* Proofs about Content, for any visits of any kinds, containers and scope: *)
(* every class is taken off in the end, visits do not see the classes of    *)
(* others but is-popstate, and a page is never put together from two.       *)
(*                                                                          *)
(* The steps of the visits are those of Navigation without handlers, whose  *)
(* invariant QInv says who may touch the document: the visit that holds the *)
(* lock, and from ENTERING on no other one.                                 *)
(***************************************************************************)
EXTENDS Content, VisitProofs

(* Who runs when the document is marked. *)
MarksOf(e) ==
    /\ classes[e] # {} => navigating
    /\ "is-rendering" \in classes[e] => navigating /\ ContentIn(current)
    /\ ~ {"is-leaving", "is-rendering"} \subseteq classes[e]
    /\ navigating /\ ~kind[current].animate =>
          classes[e] \subseteq {"is-popstate"} \cup Named(current)

Marked == \A e \in Elements : MarksOf(e)

CInv == ContentTypeOK /\ Marked /\ PageIsWhole

-----------------------------------------------------------------------------
(* Every step of Content is one of Navigation. *)
LEMMA StepsAreVisits == [ContentNext]_document => [Next]_vars
<1>1. ASSUME NEW v \in Visits, ContentStep(v) PROVE VisitStep(v)
    BY <1>1 DEF ContentStep, RequestPage, TakeOverPage, StartPage,
       TransitionPage, ReplacePage, EnteredPage, CompletePage, OtherPage,
       VisitStep, MainStep
<1>2. UNCHANGED document => UNCHANGED vars
    BY DEF document
<1> QED
    BY <1>1, <1>2 DEF ContentNext, Next

(* Content implements Navigation: what is proved of the visits holds beside a
   document. *)
THEOREM ContentIsNavigation == ContentSpec => Spec
<1>1. ContentInit => Init
    BY DEF ContentInit
<1> QED
    BY <1>1, StepsAreVisits, PTL DEF ContentSpec, Spec

-----------------------------------------------------------------------------
(* Classes *)

(* A function of the classes of each element, on none but the targets. *)
Classed(cs) ==
    /\ cs \in [Elements -> SUBSET SwupClasses]
    /\ \A e \in Elements : cs[e] # {} => e \in Targets

(* The targets are the elements of the scope. *)
LEMMA TargetsAreInScope ==
    ASSUME scope \in {"html", "containers"}, NEW e \in Elements
    PROVE  e \in Targets <=> ((e = "html") = (scope = "html"))
BY ContainersAssumption DEF Targets, Elements

(* The classes are typed as ContentTypeOK says. *)
LEMMA TypesOfClasses == ContentTypeOK => Classed(classes)
BY TargetsAreInScope DEF ContentTypeOK, Classed

(* Adding, removing and clearing stay on the targets. *)
LEMMA MarksAreClasses ==
    ASSUME NEW cs, Classed(cs), NEW names \in SUBSET SwupClasses
    PROVE  /\ Classed(Added(cs, names))
           /\ Classed(Removed(cs, names))
           /\ Cleared(cs) = [e \in Elements |-> {}]
           /\ \A e \in Elements :
                 /\ Added(cs, names)[e] \subseteq cs[e] \cup names
                 /\ Removed(cs, names)[e] \subseteq cs[e] \ names
<1>1. \A e \in Elements : cs[e] \in SUBSET SwupClasses
    BY DEF Classed
<1>2. ASSUME NEW e \in Elements, e \notin Targets PROVE cs[e] = {}
    BY <1>2 DEF Classed
<1>3. Classed(Added(cs, names))
    BY <1>1, <1>2 DEF Classed, Added
<1>4. Classed(Removed(cs, names))
    BY <1>1, <1>2 DEF Classed, Removed
<1>5. Cleared(cs) = [e \in Elements |-> {}]
    <2>1. ASSUME NEW e \in Elements
          PROVE  (IF e \in Targets THEN cs[e] \ SwupClasses ELSE cs[e]) = {}
        BY <1>1, <1>2
    <2> QED
        BY <2>1 DEF Cleared, Removed
<1>6. \A e \in Elements : /\ Added(cs, names)[e] \subseteq cs[e] \cup names
                          /\ Removed(cs, names)[e] \subseteq cs[e] \ names
    BY <1>2 DEF Added, Removed
<1> QED
    BY <1>3, <1>4, <1>5, <1>6

(* No class at all *)
LEMMA BareIsClassed == Classed([e \in Elements |-> {}])
BY DEF Classed

(* The classes that visits put on are classes of swup. *)
LEMMA NamesAreClasses ==
    ASSUME NEW v \in Visits
    PROVE  /\ Named(v) \in SUBSET SwupClasses
           /\ SwupClasses \in SUBSET SwupClasses
           /\ {"is-popstate"} \in SUBSET SwupClasses
           /\ {"is-changing", "is-animating", "is-leaving"} \in SUBSET SwupClasses
           /\ {"is-changing", "is-animating", "is-rendering"} \in SUBSET SwupClasses
           /\ {"is-rendering"} \in SUBSET SwupClasses
           /\ {"is-leaving"} \in SUBSET SwupClasses
           /\ {"is-animating"} \in SUBSET SwupClasses
BY DEF Named, SwupClasses

-----------------------------------------------------------------------------
(* Types *)

(* The classes, the content and the title after a step of a visit. *)
LEMMA StepTypes ==
    ASSUME ContentTypeOK, NEW v \in Visits, ContentStep(v)
    PROVE  /\ UNCHANGED options
           /\ Classed(classes')
           /\ content' \in [Containers -> Visits \cup {NoVisit}]
           /\ title' \in Visits \cup {NoVisit}
<1> DEFINE PageTyped ==
        /\ content' \in [Containers -> Visits \cup {NoVisit}]
        /\ title' \in Visits \cup {NoVisit}
<1>1. Classed(classes) /\ kind \in [Visits -> Kinds]
    BY TypesOfClasses DEF ContentTypeOK
<1>2. Classed(Cleared(classes))
    BY <1>1, MarksAreClasses, NamesAreClasses, BareIsClassed
<1>3. \A names \in SUBSET SwupClasses :
          Classed(Added(classes, names)) /\ Classed(Removed(classes, names))
    BY <1>1, MarksAreClasses
<1>4. Classed(Outgoing(v))
    <2>1. Classed(Removed(classes, {"is-leaving"}))
        BY <1>3, NamesAreClasses
    <2>2. Classed(Added(Removed(classes, {"is-leaving"}), {"is-rendering"}))
        BY <2>1, MarksAreClasses, NamesAreClasses
    <2> QED
        BY <2>1, <2>2 DEF Outgoing
<1>5. UNCHANGED <<content, title>> => PageTyped
    BY DEF ContentTypeOK
<1>6. CASE RequestPage(v) \/ TakeOverPage(v)
    <2>1. classes' \in {classes, Cleared(classes)}
        BY <1>6 DEF RequestPage, TakeOverPage, CleanUp
    <2> QED
        BY <1>1, <1>2, <1>5, <1>6, <2>1 DEF RequestPage, TakeOverPage
<1>7. CASE StartPage(v)
    <2> DEFINE names == Named(v) \cup IF kind[v].popstate THEN {"is-popstate"} ELSE {}
    <2>1. names \in SUBSET SwupClasses
        BY NamesAreClasses
    <2>2. classes' = Added(classes, names)
        BY <1>7 DEF StartPage
    <2> QED
        BY <1>3, <1>5, <1>7, <2>1, <2>2 DEF StartPage
<1>8. CASE TransitionPage(v)
    <2> DEFINE names == {"is-changing", "is-animating", "is-leaving"}
    <2>1. names \in SUBSET SwupClasses
        BY NamesAreClasses
    <2>2. classes' \in {classes, Added(classes, names)}
        BY <1>8 DEF TransitionPage
    <2> QED
        BY <1>1, <1>3, <1>5, <1>8, <2>1, <2>2 DEF TransitionPage
<1>9. CASE EnteredPage(v)
    <2>1. Classed(Removed(classes, {"is-animating"}))
        BY <1>3, NamesAreClasses
    <2> QED
        BY <1>5, <1>9, <2>1 DEF EnteredPage
<1>10. CASE CompletePage(v)
    BY <1>2, <1>5, <1>10 DEF CompletePage
<1>11. CASE ReplacePage(v)
    <2> DEFINE names == {"is-changing", "is-animating", "is-rendering"} \cup Named(v)
    <2> DEFINE fresh(missing) ==
            [e \in Elements |-> IF e \in Containers \ missing THEN {}
                                                         ELSE Outgoing(v)[e]]
    <2>1. PICK missing \in SUBSET Containers :
              /\ classes' \in {fresh(missing), Added(fresh(missing), names)}
              /\ title' = v
              /\ content' = [c \in Containers |->
                                IF c \in missing THEN content[c] ELSE v]
        BY <1>11 DEF ReplacePage
    <2>2. Classed(fresh(missing))
        BY <1>4 DEF Classed
    <2>3. names \in SUBSET SwupClasses
        BY NamesAreClasses
    <2>4. Classed(Added(fresh(missing), names))
        <3> HIDE DEF fresh, names
        <3> QED
            BY <2>2, <2>3, MarksAreClasses
    <2>5. PageTyped
        BY <2>1 DEF ContentTypeOK
    <2> HIDE DEF fresh, names
    <2> QED
        BY <1>11, <2>1, <2>2, <2>4, <2>5 DEF ReplacePage
<1>12. CASE OtherPage(v) /\ UNCHANGED <<options, page_>>
    BY <1>1, <1>5, <1>12 DEF page_
<1> QED
    BY <1>6, <1>7, <1>8, <1>9, <1>10, <1>11, <1>12 DEF ContentStep

(* The document stays well typed. *)
LEMMA TypesStay ==
    ASSUME ContentTypeOK, [ContentNext]_document
    PROVE  ContentTypeOK'
<1>1. CASE UNCHANGED <<options, page_>>
    BY <1>1 DEF options, page_, ContentTypeOK, Elements
<1>2. ASSUME NEW v \in Visits, ContentStep(v) PROVE ContentTypeOK'
    <2>1. scope' = scope /\ kind' = kind
        BY <1>2, StepTypes DEF options
    <2>2. Classed(classes')
        BY <1>2, StepTypes
    <2>3. scope \in {"html", "containers"} /\ kind \in [Visits -> Kinds]
        BY DEF ContentTypeOK
    <2>4. \A e \in Elements : classes'[e] # {} => (e = "html") = (scope = "html")
        BY <2>2, <2>3, TargetsAreInScope DEF Classed
    <2>5. classes' \in [Elements -> SUBSET SwupClasses]
        BY <2>2 DEF Classed
    <2> QED
        BY <1>2, <2>1, <2>3, <2>4, <2>5, StepTypes DEF ContentTypeOK
<1> QED
    BY <1>1, <1>2 DEF ContentNext, document

(* Before the first visit the document is as swup has found it. *)
LEMMA CInit == ContentInit => CInv
<1> SUFFICES ASSUME ContentInit PROVE CInv
    OBVIOUS
<1>1. ContentTypeOK
    BY DEF ContentInit, ContentTypeOK
<1>2. Marked
    BY DEF ContentInit, Init, Marked, MarksOf
<1>3. PageIsWhole
    BY DEF ContentInit, Init, PageIsWhole
<1> QED
    BY <1>1, <1>2, <1>3 DEF CInv

-----------------------------------------------------------------------------
(* Who touches the document *)

(* The invariant of Navigation is one of Content. *)
LEMMA ContentKeepsQInv == ContentSpec => []QInv
<1>1. BeginsUndisturbed
    BY HandlersAssumption DEF BeginsUndisturbed
<1> QED
    BY <1>1, ContentIsNavigation, QueueInvariant, PTL

(* What QInv says of visits that are about to touch the document: they hold the
   lock, and unless they render their content is not in. *)
LEMMA Touching ==
    ASSUME QInv, NEW v \in Visits
    PROVE  /\ pc[v] = "starting" => HoldsLock(v) /\ ~ContentIn(v)
           /\ pc[v] = "transition" /\ ~Done(v) => HoldsLock(v) /\ ~ContentIn(v)
           /\ pc[v] \in {"replacing", "entering", "ending"} =>
                 HoldsLock(v) /\ ContentIn(v) /\ ~Done(v)
<1>1. /\ TypeOK /\ StatesOK /\ CommitInv /\ ExclusiveHoldsLock /\ LiveIsCurrent
      /\ StagesOK
    BY TypeParts DEF QInv, IInv
<1>2. CASE pc[v] = "starting"
    <2>1. HoldsLock(v) /\ state[v] < STARTED
        BY <1>1, <1>2 DEF ExclusiveHoldsLock, Exclusive, StagesOK, Unstarted
    <2> QED
        BY <1>1, <1>2, <2>1 DEF ContentIn, StatesOK, CREATED, STARTED, ENTERING,
           FAILED
<1>3. CASE pc[v] = "transition" /\ ~Done(v)
    <2>1. HoldsLock(v)
        BY <1>1, <1>3 DEF LiveIsCurrent, Live, Running, HoldsLock
    <2> QED
        BY <1>1, <1>3, <2>1, StateCases DEF CommitInv, Rendering
<1>4. CASE pc[v] \in {"replacing", "entering", "ending"}
    <2>1. HoldsLock(v)
        BY <1>1, <1>4 DEF ExclusiveHoldsLock, Exclusive, Rendering
    <2>2. state[v] = ENTERING
        BY <1>1, <1>4, HandlersAssumption DEF CommitInv, Rendering
    <2> QED
        BY <1>1, <1>4, <2>1, <2>2, StateCases
<1> QED
    BY <1>2, <1>3, <1>4

(* Nothing takes the running visit back from ENTERING while it holds the lock. *)
LEMMA ContentStaysIn ==
    ASSUME QInv, NEW v \in Visits, VisitStep(v),
           UNCHANGED <<navigating, current>>, navigating, ContentIn(current)
    PROVE  ContentIn(current)'
<1>1. /\ current \in Visits /\ state \in [Visits -> CREATED..FAILED]
      /\ state[current] >= ENTERING
    BY DEF QInv, IInv, TypeOK, ContentIn
<1>2. state'[current] = state[current] \/ state'[current] >= ENTERING
    <2>1. CASE Request(v)
        <3>1. current # v
            BY <2>1 DEF Request, QInv, IInv, CurrentHasBegun
        <3> QED
            BY <1>1, <2>1, <3>1 DEF Request, RequestIdle, RequestQueued,
               RequestAborting
    <2>2. CASE TakeOver(v)
        BY <2>2 DEF TakeOver, QInv, IInv, AbortsInTime
    <2>3. CASE Start(v)
        <3>1. current # v
            BY <2>3, Touching DEF Start, HoldsLock
        <3> QED
            BY <1>1, <2>3, <3>1 DEF Start
    <2>4. CASE Transition(v) \/ Enter(v) \/ PageArrives(v)
        BY <1>1, <2>4 DEF Transition, Enter, PageArrives, Advance, CREATED,
           FAILED, LEAVING, LOADED, ENTERING
    <2>5. CASE Wait(v) \/ Leave(v) \/ Replace(v) \/ Rendered(v) \/ Entered(v)
                \/ LoadPage(v) \/ FetchSettles(v)
        BY <2>5 DEF Wait, Leave, Replace, Rendered, Entered, LoadPage, FetchSettles
    <2>6. CASE Complete(v)
        BY <1>1, <2>6 DEF Complete, COMPLETED, ENTERING
    <2>7. CASE PageRejects(v) \/ ContainerMismatch(v) \/ HandlerThrows(v)
        BY <1>1, <2>7 DEF PageRejects, ContainerMismatch, HandlerThrows, Catch,
           ABORTED, FAILED, ENTERING
    <2>8. CASE HandlerAborts(v)
        BY <1>1, <2>8 DEF HandlerAborts, ABORTED, ENTERING
    <2> QED
        BY <2>1, <2>2, <2>3, <2>4, <2>5, <2>6, <2>7, <2>8
           DEF VisitStep, MainStep, LoaderStep
<1> QED
    BY <1>1, <1>2 DEF ContentIn

-----------------------------------------------------------------------------
(* Marks *)

(* A document without classes is marked as it should be. *)
LEMMA BareIsMarked ==
    ASSUME \A e \in Elements : classes'[e] = {}
    PROVE  Marked'
BY DEF Marked, MarksOf, Elements

(* So is one that has lost classes in a step that leaves the lock alone. *)
LEMMA FewerMarks ==
    ASSUME Marked, UNCHANGED <<navigating, current, kind>>,
           \A e \in Elements : classes'[e] \subseteq classes[e],
           navigating /\ ContentIn(current) => ContentIn(current)'
    PROVE  Marked'
<1>1. Named(current)' = Named(current)
    BY DEF Named
<1> SUFFICES ASSUME NEW e \in Elements PROVE MarksOf(e)'
    BY DEF Marked, Elements
<1>2. MarksOf(e) /\ classes'[e] \subseteq classes[e]
    BY DEF Marked
<1> QED
    BY <1>1, <1>2 DEF MarksOf

(* A visit is requested, or takes the lock over. *)
LEMMA RequestMarks ==
    ASSUME QInv, ContentTypeOK, Marked, NEW v \in Visits,
           RequestPage(v) \/ TakeOverPage(v)
    PROVE  Marked'
<1>0. Cleared(classes) = [e \in Elements |-> {}]
    BY TypesOfClasses, MarksAreClasses, NamesAreClasses
<1>1. kind' = kind
    BY DEF RequestPage, TakeOverPage, options
<1>2. CASE RequestPage(v) /\ navigating
    <2>1. classes' = classes
        BY <1>2 DEF RequestPage
    <2>2. navigating' = navigating /\ current' = current
        BY <1>2 DEF RequestPage, Request, RequestIdle, RequestQueued,
           RequestAborting
    <2>3. VisitStep(v)
        BY <1>2 DEF RequestPage, VisitStep
    <2>4. navigating /\ ContentIn(current) => ContentIn(current)'
        BY <2>2, <2>3, ContentStaysIn
    <2> QED
        BY <1>1, <2>1, <2>2, <2>4, FewerMarks
<1>3. CASE RequestPage(v) /\ ~navigating
    <2>1. \A e \in Elements : classes[e] = {}
        BY <1>3 DEF Marked, MarksOf
    <2>2. classes' \in {classes, Cleared(classes)}
        BY <1>3 DEF RequestPage, CleanUp
    <2> QED
        BY <1>0, <2>1, <2>2, BareIsMarked
<1>4. CASE TakeOverPage(v) /\ ~kind[v].animate
    <2>1. classes' = Cleared(classes)
        BY <1>4 DEF TakeOverPage, CleanUp
    <2> QED
        BY <1>0, <2>1, BareIsMarked
<1>5. CASE TakeOverPage(v) /\ kind[v].animate
    <2>1. classes' = classes
        BY <1>5 DEF TakeOverPage, CleanUp
    <2>2. ~ContentIn(current)
        BY <1>5 DEF TakeOverPage, TakeOver, QInv, IInv, AbortsInTime
    <2>3. navigating' /\ current' = v /\ kind'[v].animate
        BY <1>1, <1>5 DEF TakeOverPage, TakeOver, TakeLock
    <2> SUFFICES ASSUME NEW e \in Elements PROVE MarksOf(e)'
        BY DEF Marked, Elements
    <2>4. "is-rendering" \notin classes[e]
        BY <2>2 DEF Marked, MarksOf
    <2> QED
        BY <2>1, <2>3, <2>4 DEF MarksOf
<1> QED
    BY <1>2, <1>3, <1>4, <1>5

(* The classes of a visit that starts, or leaves the page. *)
LEMMA LeavingMarks ==
    ASSUME QInv, ContentTypeOK, Marked, NEW v \in Visits,
           StartPage(v) \/ TransitionPage(v)
    PROVE  Marked'
<1>0. Classed(classes) /\ kind' = kind
    BY TypesOfClasses DEF StartPage, TransitionPage, options
<1>1. UNCHANGED <<navigating, current>> /\ VisitStep(v)
    BY DEF StartPage, TransitionPage, Start, Transition, VisitStep, MainStep
<1>2. navigating /\ ContentIn(current) => ContentIn(current)'
    BY <1>1, ContentStaysIn
<1>3. CASE classes' = classes
    BY <1>0, <1>1, <1>2, <1>3, FewerMarks
<1>4. CASE StartPage(v)
    <2> DEFINE names == Named(v) \cup IF kind[v].popstate THEN {"is-popstate"} ELSE {}
    <2>1. HoldsLock(v) /\ ~ContentIn(v)
        BY <1>4, Touching DEF StartPage, Start
    <2>2. classes' = Added(classes, names)
        BY <1>4 DEF StartPage
    <2>3. names \in SUBSET SwupClasses
        BY NamesAreClasses
    <2>4. \A e \in Elements : Added(classes, names)[e] \subseteq classes[e] \cup names
        <3> HIDE DEF names
        <3> QED
            BY <1>0, <2>3, MarksAreClasses
    <2> SUFFICES ASSUME NEW e \in Elements PROVE MarksOf(e)'
        BY DEF Marked, Elements
    <2>5. classes'[e] \subseteq classes[e] \cup names
        BY <2>2, <2>4
    <2>6. "is-rendering" \notin classes[e] /\ "is-rendering" \notin names
        BY <2>1 DEF Marked, MarksOf, HoldsLock, Named
    <2>7. ~kind[v].animate => classes[e] \subseteq {"is-popstate"} \cup Named(v)
        BY <2>1 DEF Marked, MarksOf, HoldsLock
    <2>8. navigating' /\ current' = v /\ Named(v)' = Named(v)
        BY <1>0, <1>1, <2>1 DEF HoldsLock, Named
    <2>9. names \subseteq {"is-popstate"} \cup Named(v)
        OBVIOUS
    <2> HIDE DEF names
    <2> QED
        BY <1>0, <2>5, <2>6, <2>7, <2>8, <2>9 DEF MarksOf
<1>5. CASE TransitionPage(v) /\ classes' # classes
    <2> DEFINE names == {"is-changing", "is-animating", "is-leaving"}
    <2>1. /\ pc[v] = "transition" /\ ~Done(v) /\ kind[v].animate
          /\ classes' = Added(classes, names)
        BY <1>5 DEF TransitionPage, Transition
    <2>2. HoldsLock(v) /\ ~ContentIn(v)
        BY <2>1, Touching
    <2>3. \A e \in Elements : classes'[e] \subseteq classes[e] \cup names
        BY <1>0, <2>1, MarksAreClasses, NamesAreClasses
    <2> SUFFICES ASSUME NEW e \in Elements PROVE MarksOf(e)'
        BY DEF Marked, Elements
    <2>4. "is-rendering" \notin classes[e]
        BY <2>2 DEF Marked, MarksOf, HoldsLock
    <2>5. "is-rendering" \notin classes'[e]
        BY <2>3, <2>4
    <2>6. navigating' /\ current' = v /\ kind'[v].animate
        BY <1>0, <1>1, <2>1, <2>2 DEF HoldsLock
    <2> QED
        BY <2>5, <2>6 DEF MarksOf
<1> QED
    BY <1>3, <1>4, <1>5

(* The containers are replaced: is-leaving is gone, and is-rendering is that of
   the visit that holds the lock. *)
LEMMA ReplaceMarks ==
    ASSUME QInv, ContentTypeOK, Marked, NEW v \in Visits, ReplacePage(v)
    PROVE  Marked'
<1> DEFINE added == IF kind[v].animate
                    THEN {"is-changing", "is-animating", "is-rendering"} \cup Named(v)
                    ELSE {}
<1> DEFINE fresh(missing) ==
        [e \in Elements |-> IF e \in Containers \ missing THEN {}
                                                     ELSE Outgoing(v)[e]]
<1>1. PICK missing \in SUBSET Containers :
          \/ /\ Replace(v)
             /\ classes' = IF kind[v].animate THEN Added(fresh(missing), added)
                                              ELSE fresh(missing)
          \/ ContainerMismatch(v) /\ classes' = fresh(missing)
    BY DEF ReplacePage
<1>2. /\ pc[v] = "replacing" /\ VisitStep(v)
      /\ UNCHANGED <<navigating, current>> /\ kind' = kind
    BY <1>1 DEF ReplacePage, options, Replace, ContainerMismatch, Catch,
       VisitStep, MainStep
<1>3. HoldsLock(v) /\ ContentIn(v) /\ ~Done(v)
    BY <1>2, Touching
<1>4. navigating /\ current = v /\ ContentIn(current)'
    BY <1>2, <1>3, ContentStaysIn DEF HoldsLock
<1>5. /\ Classed(Outgoing(v))
      /\ \A e \in Elements :
            Outgoing(v)[e] \subseteq (classes[e] \ {"is-leaving"}) \cup added
    <2> DEFINE left == Removed(classes, {"is-leaving"})
    <2>1. /\ Classed(left)
          /\ \A e \in Elements : left[e] \subseteq classes[e] \ {"is-leaving"}
        BY TypesOfClasses, MarksAreClasses, NamesAreClasses
    <2>2. /\ Classed(Added(left, {"is-rendering"}))
          /\ \A e \in Elements :
                Added(left, {"is-rendering"})[e] \subseteq left[e] \cup {"is-rendering"}
        <3> HIDE DEF left
        <3> QED
            BY <2>1, MarksAreClasses, NamesAreClasses
    <2> QED
        BY <2>1, <2>2 DEF Outgoing
<1>6. /\ Classed(fresh(missing))
      /\ \A e \in Elements : fresh(missing)[e] \subseteq Outgoing(v)[e]
    BY <1>5 DEF Classed
<1>7. added \in SUBSET SwupClasses /\ "is-leaving" \notin added
    BY NamesAreClasses DEF Named
<1>8. \A e \in Elements :
          Added(fresh(missing), added)[e] \subseteq fresh(missing)[e] \cup added
    <2> HIDE DEF fresh, added
    <2> QED
        BY <1>6, <1>7, MarksAreClasses
<1>9. \A e \in Elements :
          classes'[e] \subseteq (classes[e] \ {"is-leaving"}) \cup added
    <2> HIDE DEF fresh, added
    <2> QED
        BY <1>1, <1>5, <1>6, <1>8
<1> SUFFICES ASSUME NEW e \in Elements PROVE MarksOf(e)'
    BY DEF Marked, Elements
<1>10. "is-leaving" \notin classes'[e]
    BY <1>7, <1>9
<1>11. ~kind[v].animate => classes'[e] \subseteq {"is-popstate"} \cup Named(v)
    BY <1>4, <1>9 DEF Marked, MarksOf
<1>12. navigating' /\ current' = v /\ Named(v)' = Named(v) /\ kind'[v] = kind[v]
    BY <1>2, <1>4 DEF Named
<1> QED
    BY <1>4, <1>10, <1>11, <1>12 DEF MarksOf

(* The in animation starts, a visit ends, or the document is not touched. *)
LEMMA OtherMarks ==
    ASSUME QInv, ContentTypeOK, Marked, NEW v \in Visits,
           \/ EnteredPage(v)
           \/ CompletePage(v)
           \/ OtherPage(v) /\ UNCHANGED <<options, page_>>
    PROVE  Marked'
<1>0. Classed(classes)
    BY TypesOfClasses
<1>1. CASE CompletePage(v)
    <2>1. \A e \in Elements : classes'[e] = {}
        BY <1>0, <1>1, MarksAreClasses, NamesAreClasses DEF CompletePage
    <2> QED
        BY <2>1, BareIsMarked
<1>2. CASE ~CompletePage(v)
    <2>1. \A e \in Elements : classes'[e] \subseteq classes[e]
        <3>1. CASE EnteredPage(v)
            <4>1. classes' = Removed(classes, {"is-animating"})
                BY <3>1 DEF EnteredPage
            <4> QED
                BY <1>0, <4>1, MarksAreClasses, NamesAreClasses
        <3>2. CASE UNCHANGED page_
            BY <3>2 DEF page_
        <3> QED
            BY <1>2, <3>1, <3>2
    <2>2. UNCHANGED <<navigating, current>> /\ VisitStep(v)
        BY <1>2 DEF EnteredPage, OtherPage, Entered, Wait, Leave, Enter, Rendered,
           PageRejects, Catch, LoaderStep, LoadPage, FetchSettles, PageArrives,
           VisitStep, MainStep
    <2>3. kind' = kind
        BY <1>2 DEF EnteredPage, options
    <2>4. navigating /\ ContentIn(current) => ContentIn(current)'
        BY <2>2, ContentStaysIn
    <2> QED
        BY <2>1, <2>2, <2>3, <2>4, FewerMarks
<1> QED
    BY <1>1, <1>2

-----------------------------------------------------------------------------
(* The page *)

(* Content is replaced as a whole, or the visit fails. *)
LEMMA PageStaysWhole ==
    ASSUME QInv, ContentTypeOK, PageIsWhole, NEW v \in Visits, ContentStep(v)
    PROVE  PageIsWhole'
<1> USE DEF PageIsWhole
<1>1. CASE ReplacePage(v)
    <2>1. PICK missing \in SUBSET Containers :
              /\ title' = v
              /\ content' = [c \in Containers |->
                                IF c \in missing THEN content[c] ELSE v]
              /\ \/ missing = {} /\ Replace(v)
                 \/ ContainerMismatch(v)
        BY <1>1 DEF ReplacePage, Succeeds
    <2>2. pc[v] = "replacing"
        BY <2>1 DEF Replace, ContainerMismatch
    <2>3. ~Done(v)
        BY <2>2, Touching
    <2>4. CASE missing = {} /\ Replace(v)
        BY <2>1, <2>3, <2>4 DEF Replace
    <2>5. CASE ContainerMismatch(v)
        BY <2>5, NoVisitAssumption DEF ContainerMismatch, Catch
    <2> QED
        BY <2>1, <2>4, <2>5
<1>2. CASE ~ReplacePage(v)
    <2>1. UNCHANGED <<content, title>>
        BY <1>2 DEF ContentStep, RequestPage, TakeOverPage, StartPage,
           TransitionPage, EnteredPage, CompletePage, page_
    <2>2. shown' = shown /\ (fallback' = NoVisit => fallback = NoVisit)
        BY <1>2, NoVisitAssumption DEF ContentStep, RequestPage, TakeOverPage,
           StartPage, TransitionPage, EnteredPage, CompletePage, OtherPage,
           Request, TakeOver, Start, Transition, Entered, Complete, Wait, Leave,
           Enter, Rendered, PageRejects, Catch, LoaderStep, LoadPage,
           FetchSettles, PageArrives
    <2> QED
        BY <2>1, <2>2
<1> QED
    BY <1>1, <1>2

-----------------------------------------------------------------------------
(* The invariant of the document: what every class on it tells of the visit that
   holds the lock. *)
THEOREM ContentInvariant == ContentSpec => []CInv
<1>1. QInv /\ CInv /\ [ContentNext]_document => CInv'
    <2> SUFFICES ASSUME QInv, CInv, [ContentNext]_document PROVE CInv'
        OBVIOUS
    <2>1. ContentTypeOK'
        BY TypesStay DEF CInv
    <2>2. CASE (FallbackLoad /\ UNCHANGED <<options, page_>>) \/ UNCHANGED document
        <3>1. UNCHANGED <<options, page_, navigating, current, state, shown, fallback>>
            BY <2>2 DEF FallbackLoad, document, vars
        <3>2. Marked'
            BY <3>1, FewerMarks DEF CInv, options, page_, ContentIn
        <3>3. PageIsWhole'
            BY <3>1 DEF CInv, PageIsWhole, page_
        <3> QED
            BY <2>1, <3>2, <3>3 DEF CInv
    <2>3. ASSUME NEW v \in Visits, ContentStep(v) PROVE CInv'
        <3>1. Marked'
            BY <2>3, RequestMarks, LeavingMarks, ReplaceMarks, OtherMarks
               DEF CInv, ContentStep
        <3>2. PageIsWhole'
            BY <2>3, PageStaysWhole DEF CInv
        <3> QED
            BY <2>1, <3>1, <3>2 DEF CInv
    <2> QED
        BY <2>2, <2>3 DEF ContentNext
<1>2. ContentSpec => []QInv
    BY ContentKeepsQInv
<1> QED
    BY <1>1, <1>2, CInit, PTL DEF ContentSpec

(* The document is well typed and only targets are ever marked. *)
THEOREM ContentTypeCorrect == ContentSpec => []ContentTypeOK
<1>1. CInv => ContentTypeOK
    BY DEF CInv
<1> QED
    BY <1>1, ContentInvariant, PTL

(* No class of any visit is left when swup is idle. *)
THEOREM IdleLeavesNoMark == ContentSpec => []IdleIsUnmarked
<1>1. CInv => IdleIsUnmarked
    BY DEF CInv, Marked, MarksOf, IdleIsUnmarked
<1> QED
    BY <1>1, ContentInvariant, PTL

(* A visit without an animation runs on elements without one. *)
THEOREM PlainVisitsRunUnmarked == ContentSpec => []PlainIsUnmarked
<1>1. QInv /\ CInv => PlainIsUnmarked
    BY DEF CInv, Marked, MarksOf, QInv, IInv, LiveIsCurrent, PlainIsUnmarked
<1>2. ContentSpec => []QInv
    BY ContentKeepsQInv
<1> QED
    BY <1>1, <1>2, ContentInvariant, PTL

(* is-leaving and is-rendering are never on an element together. *)
THEOREM LeavesBeforeRendering == ContentSpec => []LeavingOrRendering
<1>1. CInv => LeavingOrRendering
    BY DEF CInv, Marked, MarksOf, LeavingOrRendering
<1> QED
    BY <1>1, ContentInvariant, PTL

(* The page is that of one visit, unless one has failed. *)
THEOREM PagesAreWhole == ContentSpec => []PageIsWhole
<1>1. CInv => PageIsWhole
    BY DEF CInv
<1> QED
    BY <1>1, ContentInvariant, PTL
=============================================================================
