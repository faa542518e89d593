--------------------------- MODULE NavigationProofs ---------------------------
(***************************************************************************)
(* Proofs about Navigation, for any number of visits and any set of handled *)
(* hooks that the assumptions of a theorem allow.                           *)
(***************************************************************************)
EXTENDS Navigation, TLAPS

(* No handler delays the beginning of a visit or the abort of another one, and
   no second request comes in the same task. *)
BeginsUndisturbed == HandledHooks \cap {"visit:start", "visit:abort"} = {}

(* A coroutine of v can go on without waiting for a task. *)
Runnable(v) == ~Parked(v)

(* The event loop runs the coroutines of one visit at a time. *)
OneRunnable ==
    \A v, w \in Visits : Runnable(v) /\ Runnable(w) => v = w

(* Where a visit that has not started, or has reached renderPage, stands. *)
Unstarted == {"idle", "queued", "aborting", "starting"}
Rendering == {"replacing", "rendered", "entering", "ending"}

StagesOK ==
    \A v \in Visits :
        /\ pc[v] \in Unstarted => page[v] = "none" /\ state[v] < STARTED
        /\ pc[v] \in Rendering => page[v] \in Settled /\ state[v] >= ENTERING

(* The labels at which a visit must be the current one, even if aborted. *)
Exclusive == {"starting"} \cup Rendering

HoldsLock(v) == navigating /\ current = v

ExclusiveHoldsLock == \A v \in Visits : pc[v] \in Exclusive => HoldsLock(v)

(* The visit to be aborted is still loading when visit:abort returns. *)
AbortsInTime ==
    \A v \in Visits :
        pc[v] = "aborting" => navigating /\ ~ContentIn(current) /\ queued = NoVisit

CurrentHasBegun ==
    navigating => pc[current] \notin {"idle", "queued", "aborting"}

(* Which visit was requested last. *)
LatestIsKnown ==
    /\ \A v \in Visits : pc[v] = "aborting" => latest = v
    /\ queued # NoVisit => latest = queued
    /\ navigating /\ queued = NoVisit /\ (\A v \in Visits : pc[v] # "aborting")
          => latest = current

RenderedIsShown ==
    \A v \in Visits : pc[v] \in {"rendered", "entering", "ending"} => shown = v

CompletedIsOver ==
    \A v \in Visits :
        state[v] = COMPLETED => pc[v] = "finished" /\ page[v] \in Settled

IInv ==
    /\ TypeOK
    /\ OneRunnable
    /\ StagesOK
    /\ ExclusiveHoldsLock
    /\ AbortsInTime
    /\ CurrentHasBegun
    /\ LiveIsCurrent
    /\ QueueWaits
    /\ LatestIsKnown
    /\ RenderedIsShown
    /\ CompletedIsOver
    /\ LatestWins

-----------------------------------------------------------------------------
(* TypeOK without the visit states, the only numbers of the model. *)
OthersOK ==
    /\ navigating \in BOOLEAN
    /\ current \in Visits \cup {NoVisit}
    /\ navigating => current \in Visits
    /\ queued \in Visits \cup {NoVisit}
    /\ pc \in [Visits -> Labels]
    /\ page \in [Visits -> Loading \cup Settled]
    /\ doc \in [Visits -> BOOLEAN]
    /\ animated \in [Visits -> BOOLEAN]
    /\ shown \in Visits \cup {NoVisit}
    /\ fallback \in Visits \cup {NoVisit}
    /\ unloaded \in BOOLEAN
    /\ latest \in Visits \cup {NoVisit}

StatesOK == state \in [Visits -> CREATED..FAILED]

(* The types of the visit states apart from the others: they need arithmetic. *)
LEMMA TypeParts == TypeOK <=> OthersOK /\ StatesOK
  BY DEF TypeOK, OthersOK, StatesOK

(* No step of a visit gives swup or a coroutine an unknown value. *)
LEMMA OthersStayOK ==
  ASSUME NEW v \in Visits, OthersOK, VisitStep(v)
  PROVE  OthersOK'
  <1> USE DEF OthersOK, Labels, Loading, Settled
  <1>1. CASE Request(v)
    BY <1>1 DEF Request, RequestIdle, RequestQueued, RequestAborting,
       TakeLock, Goto
  <1>2. CASE HandlerAborts(v)
    BY <1>2 DEF HandlerAborts
  <1>3. CASE TakeOver(v)
    BY <1>3 DEF TakeOver, TakeLock, Goto
  <1>4. CASE Start(v)
    BY <1>4 DEF Start, Goto
  <1>5. CASE Wait(v)
    BY <1>5 DEF Wait, Goto
  <1>6. CASE Transition(v)
    BY <1>6 DEF Transition, Finish, Goto
  <1>7. CASE Leave(v)
    BY <1>7 DEF Leave, Goto
  <1>8. CASE Enter(v)
    BY <1>8 DEF Enter, Finish, Goto
  <1>9. CASE Replace(v)
    BY <1>9 DEF Replace, Finish, Goto
  <1>10. CASE Rendered(v)
    BY <1>10 DEF Rendered, Finish, Goto
  <1>11. CASE Entered(v)
    BY <1>11 DEF Entered, Finish, Goto
  <1>12. CASE Complete(v)
    BY <1>12 DEF Complete, ReleaseLock, RunQueue, Goto
  <1>13. CASE PageRejects(v)
    BY <1>13 DEF PageRejects, Catch, Finish, Goto
  <1>14. CASE ContainerMismatch(v)
    BY <1>14 DEF ContainerMismatch, Catch, Finish, Goto
  <1>15. CASE HandlerThrows(v)
    BY <1>15 DEF HandlerThrows, Catch, Finish, Goto
  <1>16. CASE LoadPage(v)
    BY <1>16 DEF LoadPage
  <1>17. CASE FetchSettles(v)
    BY <1>17 DEF FetchSettles
  <1>18. CASE PageArrives(v)
    BY <1>18 DEF PageArrives
  <1> QED
    BY <1>1, <1>2, <1>3, <1>4, <1>5, <1>6, <1>7, <1>8, <1>9, <1>10, <1>11,
       <1>12, <1>13, <1>14, <1>15, <1>16, <1>17, <1>18
       DEF VisitStep, MainStep, LoaderStep

(* No step of a visit gives a visit an unknown state. *)
LEMMA StatesStayOK ==
  ASSUME NEW v \in Visits, StatesOK, VisitStep(v)
  PROVE  StatesOK'
  <1> USE DEF StatesOK, CREATED, QUEUED, STARTED, LEAVING, LOADED, ENTERING,
      COMPLETED, ABORTED, FAILED
  <1>1. CASE Request(v)
    BY <1>1 DEF Request, RequestIdle, RequestQueued, RequestAborting, TakeLock
  <1>2. CASE HandlerAborts(v)
    BY <1>2 DEF HandlerAborts
  <1>3. CASE TakeOver(v)
    <2>1. state' = [w \in Visits |-> IF w = current THEN ABORTED ELSE state[w]]
      BY <1>3 DEF TakeOver
    <2> QED
      BY <2>1
  <1>4. CASE Start(v)
    BY <1>4 DEF Start
  <1>5. CASE Wait(v)
    BY <1>5 DEF Wait
  <1>6. CASE Transition(v)
    BY <1>6 DEF Transition, Advance
  <1>7. CASE Leave(v)
    BY <1>7 DEF Leave
  <1>8. CASE Enter(v)
    BY <1>8 DEF Enter, Advance
  <1>9. CASE Replace(v)
    BY <1>9 DEF Replace
  <1>10. CASE Rendered(v)
    BY <1>10 DEF Rendered
  <1>11. CASE Entered(v)
    BY <1>11 DEF Entered
  <1>12. CASE Complete(v)
    BY <1>12 DEF Complete
  <1>13. CASE PageRejects(v)
    BY <1>13 DEF PageRejects, Catch
  <1>14. CASE ContainerMismatch(v)
    BY <1>14 DEF ContainerMismatch, Catch
  <1>15. CASE HandlerThrows(v)
    BY <1>15 DEF HandlerThrows, Catch
  <1>16. CASE LoadPage(v)
    BY <1>16 DEF LoadPage
  <1>17. CASE FetchSettles(v)
    BY <1>17 DEF FetchSettles
  <1>18. CASE PageArrives(v)
    BY <1>18 DEF PageArrives, Advance
  <1> QED
    BY <1>1, <1>2, <1>3, <1>4, <1>5, <1>6, <1>7, <1>8, <1>9, <1>10, <1>11,
       <1>12, <1>13, <1>14, <1>15, <1>16, <1>17, <1>18
       DEF VisitStep, MainStep, LoaderStep

(* swup.navigating, swup.visit, swup.onVisitEnd and the visits always have the
   values their declarations allow, and a lock that is held has a holder. *)
THEOREM TypeCorrect == Spec => []TypeOK
<1>1. Init => TypeOK
  <2>1. Init => OthersOK
    BY DEF Init, OthersOK, Labels, Loading
  <2>2. Init => StatesOK
    BY DEF Init, StatesOK, CREATED, FAILED
  <2> QED
    BY <2>1, <2>2, TypeParts
<1>2. TypeOK /\ [Next]_vars => TypeOK'
  <2>1. TypeOK /\ UNCHANGED vars => TypeOK'
    BY DEF vars, TypeOK
  <2>2. TypeOK /\ FallbackLoad => TypeOK'
    BY DEF FallbackLoad, TypeOK
  <2>3. ASSUME TypeOK, NEW v \in Visits, VisitStep(v) PROVE TypeOK'
    BY <2>3, TypeParts, OthersStayOK, StatesStayOK
       DEF TypeOK, OthersOK, StatesOK
  <2> QED
    BY <2>1, <2>2, <2>3 DEF Next
<1> QED
  BY <1>1, <1>2, PTL DEF Spec
-----------------------------------------------------------------------------
(* The steps of v that leave navigating, visit and onVisitEnd alone. *)
Quiet(v) ==
    \/ Start(v)
    \/ Wait(v)
    \/ Transition(v)
    \/ Leave(v)
    \/ Enter(v)
    \/ Replace(v)
    \/ Rendered(v)
    \/ Entered(v)
    \/ PageRejects(v)
    \/ ContainerMismatch(v)
    \/ HandlerThrows(v)
    \/ HandlerAborts(v)
    \/ LoaderStep(v)

(* Requests, taking over and completing concern two visits, other steps one. *)
LEMMA StepKinds ==
  ASSUME NEW v
  PROVE  VisitStep(v) <=> Request(v) \/ TakeOver(v) \/ Complete(v) \/ Quiet(v)
  BY DEF VisitStep, MainStep, Quiet

(* A coroutine is parked or not by what it waits for alone. *)
LEMMA ParkedFrame ==
  ASSUME NEW u \in Visits, pc'[u] = pc[u], page'[u] = page[u]
  PROVE  Parked(u)' <=> Parked(u)
  BY DEF Parked, MainParked, LoaderParked

(* While a coroutine of v takes a step, every other visit is parked. *)
LEMMA OthersParked ==
  ASSUME OneRunnable, NEW v \in Visits, VisitStep(v),
         NEW u \in Visits, u # v
  PROVE  Parked(u)
<1>1. Task \/ MainTurn(v) \/ LoaderTurn(v)
  BY DEF VisitStep, MainStep, LoaderStep, Request, HandlerAborts, TakeOver,
     Start, Wait, Transition, Leave, Enter, Replace, Rendered, Entered,
     Complete, PageRejects, ContainerMismatch, HandlerThrows, LoadPage,
     FetchSettles, PageArrives
<1>2. Quiescent => Parked(u)
  BY DEF Quiescent
<1>3. ~Parked(v) => Parked(u)
  BY DEF OneRunnable, Runnable
<1> QED
  BY <1>1, <1>2, <1>3 DEF Task, MainTurn, LoaderTurn, Parked

(* A visit about to begin, or to abort another one, does not wait for tasks. *)
LEMMA BeginnersRun ==
  ASSUME BeginsUndisturbed, NEW v \in Visits, pc[v] \in {"aborting", "starting"}
  PROVE  Runnable(v)
<1>1. HooksAt(pc[v]) \subseteq {"visit:start", "visit:abort"}
  BY DEF HooksAt
<1>2. HooksAt(pc[v]) \cap HandledHooks = {}
  BY <1>1 DEF BeginsUndisturbed
<1> QED
  BY <1>2 DEF Runnable, Parked, MainParked

(* No visit begins while another one takes a step, or while all are parked. *)
LEMMA NoOtherBegins ==
  ASSUME BeginsUndisturbed, OneRunnable, NEW v \in Visits, VisitStep(v),
         NEW u \in Visits, u # v
  PROVE  pc[u] \notin {"aborting", "starting"}
BY OthersParked, BeginnersRun DEF Runnable

(* When a task starts, no visit is about to begin. *)
LEMMA NoneBeginsAtTask ==
  ASSUME BeginsUndisturbed, Quiescent, NEW u \in Visits
  PROVE  pc[u] \notin {"aborting", "starting"}
BY BeginnersRun DEF Runnable, Quiescent

(* A quiet step of v concerns no other visit. *)
LEMMA QuietFrame ==
  ASSUME TypeOK, NEW v \in Visits, Quiet(v)
  PROVE  /\ UNCHANGED <<navigating, current, queued, latest>>
         /\ \A u \in Visits \ {v} :
               pc'[u] = pc[u] /\ page'[u] = page[u] /\ state'[u] = state[u]
<1> USE DEF TypeOK, Goto, Finish, Catch, Advance
<1>1. CASE Start(v)
  BY <1>1 DEF Start
<1>2. CASE Wait(v) \/ Leave(v)
  BY <1>2 DEF Wait, Leave
<1>3. CASE Transition(v)
  BY <1>3 DEF Transition
<1>4. CASE Enter(v)
  BY <1>4 DEF Enter
<1>5. CASE Replace(v)
  BY <1>5 DEF Replace
<1>6. CASE Rendered(v)
  BY <1>6 DEF Rendered
<1>7. CASE Entered(v)
  BY <1>7 DEF Entered
<1>8. CASE PageRejects(v)
  BY <1>8 DEF PageRejects
<1>9. CASE ContainerMismatch(v)
  BY <1>9 DEF ContainerMismatch
<1>10. CASE HandlerThrows(v)
  BY <1>10 DEF HandlerThrows
<1>11. CASE HandlerAborts(v)
  BY <1>11 DEF HandlerAborts
<1>12. CASE LoadPage(v)
  BY <1>12 DEF LoadPage
<1>13. CASE FetchSettles(v)
  BY <1>13 DEF FetchSettles
<1>14. CASE PageArrives(v)
  BY <1>14 DEF PageArrives
<1> QED
  BY <1>1, <1>2, <1>3, <1>4, <1>5, <1>6, <1>7, <1>8, <1>9, <1>10, <1>11,
     <1>12, <1>13, <1>14 DEF Quiet, LoaderStep

(* A quiet step of v never revives v, nor takes it back before rendering; it
   completes nothing, and a completed visit takes no quiet step. *)
LEMMA QuietStates ==
  ASSUME BeginsUndisturbed, StatesOK, StagesOK, CompletedIsOver,
         NEW v \in Visits, Quiet(v)
  PROVE  /\ Done(v) => Done(v)'
         /\ ContentIn(v) => ContentIn(v)'
         /\ state[v] # COMPLETED /\ state'[v] # COMPLETED
<1>1. pc[v] = "starting" => state[v] < STARTED
  BY DEF StagesOK, Unstarted
<1>2. state[v] = COMPLETED => pc[v] = "finished" /\ page[v] \in Settled
  BY DEF CompletedIsOver
<1> USE DEF StatesOK, CREATED, QUEUED, STARTED, LEAVING, LOADED, ENTERING,
      COMPLETED, ABORTED, FAILED, Done, ContentIn
<1>3. CASE Start(v)
  BY <1>1, <1>3 DEF Start
<1>4. CASE Wait(v)
  BY <1>2, <1>4 DEF Wait
<1>5. CASE Leave(v)
  BY <1>2, <1>5 DEF Leave
<1>6. CASE Transition(v)
  BY <1>2, <1>6 DEF Transition, Advance
<1>7. CASE Enter(v)
  BY <1>2, <1>7 DEF Enter, Advance
<1>8. CASE Replace(v)
  BY <1>2, <1>8 DEF Replace
<1>9. CASE Rendered(v)
  BY <1>2, <1>9 DEF Rendered
<1>10. CASE Entered(v)
  BY <1>2, <1>10 DEF Entered
<1>11. CASE PageRejects(v)
  BY <1>2, <1>11 DEF PageRejects, Catch
<1>12. CASE ContainerMismatch(v)
  BY <1>2, <1>12 DEF ContainerMismatch, Catch
<1>13. CASE HandlerThrows(v)
  BY <1>2, <1>13 DEF HandlerThrows, Catch, HooksAt
<1>14. CASE HandlerAborts(v)
  BY <1>2, <1>14 DEF HandlerAborts, HooksAt, Settled
<1>15. CASE LoadPage(v)
  BY <1>2, <1>15 DEF LoadPage, Settled
<1>16. CASE FetchSettles(v)
  BY <1>2, <1>16 DEF FetchSettles, Settled
<1>17. CASE PageArrives(v)
  BY <1>2, <1>17 DEF PageArrives, Advance, Settled
<1> QED
  BY <1>3, <1>4, <1>5, <1>6, <1>7, <1>8, <1>9, <1>10, <1>11, <1>12, <1>13,
     <1>14, <1>15, <1>16, <1>17 DEF Quiet, LoaderStep

(* The labels between which a quiet step of v moves v. *)
LEMMA QuietLabels ==
  ASSUME BeginsUndisturbed, OthersOK, StatesOK, StagesOK,
         NEW v \in Visits, Quiet(v)
  PROVE  /\ pc[v] \notin {"idle", "queued", "aborting"}
         /\ pc'[v] \notin Unstarted
         /\ pc'[v] \in Running => pc[v] \in Running
         /\ pc'[v] \in Rendering /\ pc[v] \notin Rendering =>
               /\ pc[v] = "loading" /\ ~Done(v)
               /\ page[v] \in Settled /\ state'[v] >= ENTERING
         /\ page[v] \in Settled => page'[v] = page[v]
<1>1. pc[v] \in Unstarted => page[v] = "none"
  BY DEF StagesOK
<1> USE <1>1 DEF OthersOK, Unstarted, Rendering, Running, Settled, Goto, Finish
<1>2. CASE Start(v)
  BY <1>2 DEF Start
<1>3. CASE Wait(v)
  BY <1>3 DEF Wait
<1>4. CASE Leave(v)
  BY <1>4 DEF Leave
<1>5. CASE Transition(v)
  BY <1>5 DEF Transition
<1>6. CASE Enter(v)
  <2>1. ~Done(v) => state'[v] >= ENTERING
    BY <1>6 DEF Enter, Advance, StatesOK, CREATED, ENTERING, FAILED
  <2> QED
    BY <1>6, <2>1 DEF Enter
<1>7. CASE Replace(v)
  BY <1>7 DEF Replace
<1>8. CASE Rendered(v)
  BY <1>8 DEF Rendered
<1>9. CASE Entered(v)
  BY <1>9 DEF Entered
<1>10. CASE PageRejects(v)
  BY <1>10 DEF PageRejects, Catch
<1>11. CASE ContainerMismatch(v)
  BY <1>11 DEF ContainerMismatch, Catch
<1>12. CASE HandlerThrows(v)
  BY <1>12 DEF HandlerThrows, Catch, HooksAt, ThrowingHooks
<1>13. CASE HandlerAborts(v)
  BY <1>13 DEF HandlerAborts, HooksAt, BeginsUndisturbed
<1>14. CASE LoadPage(v)
  BY <1>14 DEF LoadPage
<1>15. CASE FetchSettles(v)
  BY <1>15 DEF FetchSettles
<1>16. CASE PageArrives(v)
  BY <1>16 DEF PageArrives
<1> QED
  BY <1>2, <1>3, <1>4, <1>5, <1>6, <1>7, <1>8, <1>9, <1>10, <1>11, <1>12,
     <1>13, <1>14, <1>15, <1>16 DEF Quiet, LoaderStep

(* A quiet step of v renders nothing but the content of v, in content:replace. *)
LEMMA QuietShown ==
  ASSUME OthersOK, NEW v \in Visits, Quiet(v)
  PROVE  \/ pc[v] = "replacing" /\ shown' = v
         \/ /\ shown' = shown
            /\ pc'[v] \in {"rendered", "entering", "ending"} =>
                  pc[v] \in {"rendered", "entering", "ending"}
<1> USE DEF OthersOK, Goto, Finish
<1>1. CASE Start(v) \/ Wait(v) \/ Leave(v)
  BY <1>1 DEF Start, Wait, Leave
<1>2. CASE Transition(v)
  BY <1>2 DEF Transition
<1>3. CASE Enter(v)
  BY <1>3 DEF Enter
<1>4. CASE Replace(v)
  BY <1>4 DEF Replace
<1>5. CASE Rendered(v) \/ Entered(v)
  BY <1>5 DEF Rendered, Entered
<1>6. CASE PageRejects(v) \/ ContainerMismatch(v) \/ HandlerThrows(v)
  BY <1>6 DEF PageRejects, ContainerMismatch, HandlerThrows, Catch
<1>7. CASE HandlerAborts(v)
  BY <1>7 DEF HandlerAborts
<1>8. CASE LoaderStep(v)
  BY <1>8 DEF LoaderStep, LoadPage, FetchSettles, PageArrives
<1> QED
  BY <1>1, <1>2, <1>3, <1>4, <1>5, <1>6, <1>7, <1>8 DEF Quiet

(* IInv without its type invariant, which TypeCorrect establishes alone. *)
LEMMA QuietInv ==
  ASSUME BeginsUndisturbed, IInv, NEW v \in Visits, Quiet(v), TypeOK'
  PROVE  IInv'
<1> USE DEF IInv
<1>0. OthersOK /\ StatesOK /\ VisitStep(v)
  BY TypeParts, StepKinds
<1>1. UNCHANGED <<navigating, current, queued, latest>>
  BY QuietFrame
<1>2. \A u \in Visits \ {v} :
         pc'[u] = pc[u] /\ page'[u] = page[u] /\ state'[u] = state[u]
  BY QuietFrame
<1>3. \A u \in Visits \ {v} : pc[u] \notin {"aborting", "starting"}
  BY <1>0, NoOtherBegins
<1>4. /\ pc[v] \notin {"idle", "queued", "aborting"}
      /\ pc'[v] \notin Unstarted
      /\ pc'[v] \in Running => pc[v] \in Running
      /\ pc'[v] \in Rendering /\ pc[v] \notin Rendering =>
            /\ pc[v] = "loading" /\ ~Done(v)
            /\ page[v] \in Settled /\ state'[v] >= ENTERING
      /\ page[v] \in Settled => page'[v] = page[v]
  BY <1>0, QuietLabels
<1>5. /\ Done(v) => Done(v)'
      /\ ContentIn(v) => ContentIn(v)'
      /\ state[v] # COMPLETED /\ state'[v] # COMPLETED
  BY <1>0, QuietStates
<1>6. OneRunnable'
  <2>1. \A u \in Visits \ {v} : Parked(u)'
    BY <1>0, <1>2, OthersParked, ParkedFrame
  <2> QED
    BY <2>1 DEF OneRunnable, Runnable
<1>7. StagesOK'
  BY <1>2, <1>4, <1>5 DEF StagesOK, ContentIn
<1>8. ExclusiveHoldsLock'
  <2>1. pc'[v] \in Exclusive => HoldsLock(v)
    BY <1>4 DEF ExclusiveHoldsLock, Exclusive, LiveIsCurrent, Live, HoldsLock,
       Running, Unstarted
  <2> QED
    BY <2>1, <1>1, <1>2 DEF ExclusiveHoldsLock, HoldsLock
<1>9. AbortsInTime'
  BY <1>2, <1>3, <1>4 DEF AbortsInTime, Unstarted
<1>10. CurrentHasBegun'
  BY <1>1, <1>2, <1>4 DEF CurrentHasBegun, TypeOK, Unstarted
<1>11. LiveIsCurrent'
  <2>1. pc[v] = "starting" => HoldsLock(v)
    BY DEF ExclusiveHoldsLock, Exclusive
  <2>2. Live(v)' => HoldsLock(v)
    BY <2>1, <1>4, <1>5 DEF LiveIsCurrent, Live, HoldsLock
  <2>3. \A u \in Visits \ {v} : Live(u)' => Live(u)
    BY <1>2 DEF Live, Done
  <2> QED
    BY <2>2, <2>3, <1>1 DEF LiveIsCurrent, HoldsLock
<1>12. QueueWaits'
  <2>1. navigating /\ ContentIn(current) => ContentIn(current)'
    BY <1>1, <1>2, <1>5 DEF TypeOK, ContentIn
  <2>2. queued # NoVisit => pc'[queued] = "queued"
    BY <1>2, <1>4 DEF QueueWaits, TypeOK
  <2> QED
    BY <2>1, <2>2, <1>1 DEF QueueWaits, ContentIn
<1>13. LatestIsKnown'
  <2>1. \A u \in Visits : pc'[u] = "aborting" <=> pc[u] = "aborting"
    BY <1>2, <1>4 DEF Unstarted
  <2> QED
    BY <2>1, <1>1 DEF LatestIsKnown
<1>14. shown' # shown => pc[v] = "replacing" /\ shown' = v
  BY <1>0, QuietShown
<1>15. RenderedIsShown'
  <2>1. pc'[v] \in {"rendered", "entering", "ending"} => shown' = v
    BY <1>0, QuietShown DEF RenderedIsShown
  <2>2. ASSUME NEW u \in Visits \ {v},
               pc'[u] \in {"rendered", "entering", "ending"}
        PROVE  shown' = u
    <3>1. pc[u] \in Exclusive /\ shown = u
      BY <1>2, <2>2 DEF RenderedIsShown, Exclusive, Rendering
    <3>2. pc[v] # "replacing"
      BY <3>1 DEF ExclusiveHoldsLock, HoldsLock, Exclusive, Rendering
    <3> QED
      BY <3>1, <3>2, <1>14
  <2> QED
    BY <2>1, <2>2 DEF RenderedIsShown
<1>16. CompletedIsOver'
  BY <1>2, <1>5 DEF CompletedIsOver
<1>17. LatestWins'
  <2> SUFFICES ASSUME ~navigating', latest' # NoVisit
               PROVE  current' = latest' /\ shown' = latest'
                      /\ state'[latest'] = COMPLETED
    BY DEF LatestWins
  <2>1. current = latest /\ shown = latest /\ state[latest] = COMPLETED
    BY <1>1 DEF LatestWins
  <2>2. latest \in Visits \ {v}
    BY <2>1, <1>1, <1>5 DEF TypeOK
  <2>3. pc[v] # "replacing"
    BY <1>1 DEF ExclusiveHoldsLock, HoldsLock, Exclusive, Rendering
  <2> QED
    BY <2>1, <2>2, <2>3, <1>1, <1>2, <1>14
<1> QED
  BY <1>6, <1>7, <1>8, <1>9, <1>10, <1>11, <1>12, <1>13, <1>15, <1>16, <1>17

(* A request starts, waits behind content that is in, or aborts the rest. *)
LEMMA RequestInv ==
  ASSUME BeginsUndisturbed, IInv, NEW v \in Visits, Request(v), TypeOK'
  PROVE  IInv'
<1> USE DEF IInv
<1>0. OthersOK /\ StatesOK /\ VisitStep(v) /\ Quiescent
  BY TypeParts, StepKinds DEF Request, Task
<1>1. /\ pc[v] = "idle" /\ latest' = v
      /\ UNCHANGED <<page, shown>>
      /\ page[v] = "none" /\ state[v] < STARTED
  BY DEF Request, StagesOK, Unstarted
<1>2. \/ /\ ~navigating /\ navigating' /\ current' = v
         /\ pc' = [pc EXCEPT ![v] = "starting"]
         /\ UNCHANGED <<queued, state>>
      \/ /\ navigating /\ ContentIn(current) /\ queued' = v
         /\ state' = [state EXCEPT ![v] = QUEUED]
         /\ pc' = [pc EXCEPT ![v] = "queued"]
         /\ UNCHANGED <<navigating, current>>
      \/ /\ navigating /\ ~ContentIn(current)
         /\ pc' = [pc EXCEPT ![v] = "aborting"]
         /\ UNCHANGED <<navigating, current, queued, state>>
  BY DEF Request, RequestIdle, RequestQueued, RequestAborting, TakeLock, Goto
<1>3. \A u \in Visits \ {v} :
         pc'[u] = pc[u] /\ page'[u] = page[u] /\ state'[u] = state[u]
  BY <1>0, <1>1, <1>2 DEF OthersOK, StatesOK
<1>4. \A u \in Visits : pc[u] \notin {"aborting", "starting"}
  BY <1>0, NoneBeginsAtTask
<1>5. page'[v] = "none" /\ state'[v] < STARTED /\ state'[v] # COMPLETED
  BY <1>0, <1>1, <1>2 DEF StatesOK, CREATED, QUEUED, STARTED, COMPLETED, FAILED
<1>6. ~navigating => queued = NoVisit
  BY DEF QueueWaits
<1>7. navigating => current # v
  BY <1>1 DEF CurrentHasBegun
<1>8. OneRunnable'
  <2>1. \A u \in Visits \ {v} : Parked(u)'
    BY <1>0, <1>3, OthersParked, ParkedFrame
  <2> QED
    BY <2>1 DEF OneRunnable, Runnable
<1>9. pc'[v] \in {"starting", "queued", "aborting"}
  BY <1>0, <1>2 DEF OthersOK
<1>10. StagesOK'
  BY <1>3, <1>5, <1>9 DEF StagesOK, Unstarted, Rendering
<1>11. ExclusiveHoldsLock'
  <2>1. \A u \in Visits \ {v} : pc'[u] \in Exclusive => HoldsLock(u)'
    BY <1>2, <1>3 DEF ExclusiveHoldsLock, HoldsLock
  <2>2. pc'[v] \in Exclusive => HoldsLock(v)'
    BY <1>0, <1>2 DEF OthersOK, Exclusive, Rendering, HoldsLock
  <2> QED
    BY <2>1, <2>2 DEF ExclusiveHoldsLock
<1>12. AbortsInTime'
  <2>1. \A u \in Visits \ {v} : pc'[u] # "aborting"
    BY <1>3, <1>4
  <2>2. pc'[v] = "aborting" =>
           navigating' /\ ~ContentIn(current)' /\ queued' = NoVisit
    BY <1>0, <1>2 DEF OthersOK, QueueWaits, ContentIn
  <2> QED
    BY <2>1, <2>2 DEF AbortsInTime
<1>13. CurrentHasBegun'
  BY <1>0, <1>2, <1>3, <1>7 DEF OthersOK, CurrentHasBegun
<1>14. LiveIsCurrent'
  <2>1. \A u \in Visits \ {v} : Live(u)' => Live(u)
    BY <1>3 DEF Live, Done
  <2>2. Live(v)' => pc'[v] = "starting"
    BY <1>9 DEF Live, Running
  <2> QED
    BY <2>1, <2>2, <1>0, <1>2 DEF LiveIsCurrent, OthersOK
<1>15. QueueWaits'
  <2>1. navigating => state'[current] = state[current]
    BY <1>3, <1>7 DEF TypeOK
  <2>2. queued # NoVisit => queued # v
    BY <1>1 DEF QueueWaits
  <2> QED
    BY <2>1, <2>2, <1>0, <1>2, <1>3, <1>6 DEF QueueWaits, ContentIn, OthersOK
<1>16. LatestIsKnown'
  <2>1. \A u \in Visits : pc'[u] = "aborting" => latest' = u
    BY <1>1, <1>3, <1>4
  <2>2. queued' # NoVisit => latest' = queued'
    BY <1>1, <1>2, <1>6 DEF QueueWaits, ContentIn
  <2>3. navigating' /\ queued' = NoVisit /\ pc'[v] # "aborting"
          => latest' = current'
    BY <1>0, <1>1, <1>2, NoVisitAssumption DEF OthersOK
  <2> QED
    BY <2>1, <2>2, <2>3 DEF LatestIsKnown
<1>17. RenderedIsShown'
  BY <1>1, <1>3, <1>9 DEF RenderedIsShown
<1>18. CompletedIsOver'
  BY <1>3, <1>5 DEF CompletedIsOver
<1>19. LatestWins'
  BY <1>2 DEF LatestWins
<1> QED
  BY <1>8, <1>10, <1>11, <1>12, <1>13, <1>14, <1>15, <1>16, <1>17, <1>18,
     <1>19

(* visit:abort returns while the aborted visit is still loading. *)
LEMMA TakeOverInv ==
  ASSUME BeginsUndisturbed, IInv, NEW v \in Visits, TakeOver(v), TypeOK'
  PROVE  IInv'
<1> USE DEF IInv
<1>0. OthersOK /\ StatesOK /\ VisitStep(v)
  BY TypeParts, StepKinds
<1>1. /\ pc[v] = "aborting"
      /\ navigating' /\ current' = v
      /\ pc' = [pc EXCEPT ![v] = "starting"]
      /\ state' = [state EXCEPT ![current] = ABORTED]
      /\ UNCHANGED <<queued, page, shown, latest>>
  BY DEF TakeOver, TakeLock, Goto
<1>2. /\ navigating /\ ~ContentIn(current) /\ queued = NoVisit
      /\ latest = v
      /\ page[v] = "none" /\ state[v] < STARTED
  BY <1>1 DEF AbortsInTime, LatestIsKnown, StagesOK, Unstarted
<1>3. current \in Visits /\ current # v
  BY <1>1, <1>2 DEF TypeOK, CurrentHasBegun
<1>4. \A u \in Visits \ {v} : pc[u] \notin {"aborting", "starting"}
  BY <1>0, NoOtherBegins
<1>5. pc[current] \notin Exclusive \cup Unstarted
  BY <1>2, <1>3, <1>4
     DEF StagesOK, Exclusive, CurrentHasBegun, Unstarted, ContentIn
<1>6. \A u \in Visits \ {v} : pc'[u] = pc[u] /\ page'[u] = page[u]
  BY <1>0, <1>1 DEF OthersOK
<1>7. pc'[v] = "starting" /\ page'[v] = "none"
  BY <1>0, <1>1, <1>2 DEF OthersOK
<1>8. \A u \in Visits \ {current} : state'[u] = state[u]
  BY <1>0, <1>1 DEF StatesOK
<1>9. state'[current] = ABORTED
  BY <1>0, <1>1, <1>3 DEF StatesOK
<1>10. OneRunnable'
  <2>1. \A u \in Visits \ {v} : Parked(u)'
    BY <1>0, <1>6, OthersParked, ParkedFrame
  <2> QED
    BY <2>1 DEF OneRunnable, Runnable
<1>11. StagesOK'
  BY <1>2, <1>3, <1>5, <1>6, <1>7, <1>8
     DEF StagesOK, Exclusive, Unstarted, Rendering
<1>12. ExclusiveHoldsLock'
  <2>1. \A u \in Visits \ {v} : pc'[u] \notin Exclusive
    BY <1>5, <1>6 DEF ExclusiveHoldsLock, HoldsLock
  <2> QED
    BY <2>1, <1>1 DEF ExclusiveHoldsLock, HoldsLock
<1>13. AbortsInTime'
  BY <1>4, <1>6, <1>7 DEF AbortsInTime
<1>14. CurrentHasBegun'
  BY <1>1, <1>7 DEF CurrentHasBegun
<1>15. LiveIsCurrent'
  <2>1. ASSUME NEW u \in Visits, u # v PROVE ~Live(u)'
    <3>1. CASE u = current
      BY <3>1, <1>9 DEF Live, Done, COMPLETED, ABORTED
    <3>2. CASE u # current
      BY <2>1, <3>2, <1>6, <1>8 DEF LiveIsCurrent, Live, Done
    <3> QED
      BY <3>1, <3>2
  <2> QED
    BY <2>1, <1>1 DEF LiveIsCurrent
<1>16. QueueWaits'
  BY <1>1, <1>2 DEF QueueWaits
<1>17. LatestIsKnown'
  BY <1>1, <1>2, <1>4, <1>6, <1>7 DEF LatestIsKnown
<1>18. RenderedIsShown'
  BY <1>1, <1>6, <1>7 DEF RenderedIsShown
<1>19. CompletedIsOver'
  <2>1. state'[current] # COMPLETED
    BY <1>9 DEF COMPLETED, ABORTED
  <2>2. state'[v] # COMPLETED
    BY <1>2, <1>3, <1>8 DEF STARTED, COMPLETED
  <2> QED
    BY <2>1, <2>2, <1>6, <1>8 DEF CompletedIsOver
<1>20. LatestWins'
  BY <1>1 DEF LatestWins
<1> QED
  BY <1>10, <1>11, <1>12, <1>13, <1>14, <1>15, <1>16, <1>17, <1>18, <1>19,
     <1>20

(* visit:end returns: the visit completes and the queued one begins. *)
LEMMA CompleteInv ==
  ASSUME BeginsUndisturbed, IInv, NEW v \in Visits, Complete(v), TypeOK'
  PROVE  IInv'
<1> USE DEF IInv
<1>0. OthersOK /\ StatesOK /\ VisitStep(v)
  BY TypeParts, StepKinds
<1>1. /\ pc[v] = "ending"
      /\ state' = [state EXCEPT ![v] = COMPLETED]
      /\ UNCHANGED <<page, shown, latest>>
      /\ queued' = NoVisit
  BY DEF Complete, ReleaseLock, RunQueue
<1>2. /\ navigating /\ current = v /\ shown = v
      /\ page[v] \in Settled
  BY <1>1 DEF ExclusiveHoldsLock, Exclusive, Rendering, HoldsLock,
     RenderedIsShown, StagesOK
<1>3. \A u \in Visits : pc[u] \notin {"aborting", "starting"}
  BY <1>0, <1>1, NoOtherBegins
<1>4. \A u \in Visits \ {v} : page'[u] = page[u] /\ state'[u] = state[u]
  BY <1>0, <1>1 DEF StatesOK
<1>5. state'[v] = COMPLETED
  BY <1>0, <1>1 DEF StatesOK
<1>6. queued # NoVisit =>
         /\ queued \in Visits /\ queued # v /\ latest = queued
         /\ pc[queued] = "queued" /\ page[queued] = "none"
         /\ state[queued] < STARTED
  BY <1>1 DEF QueueWaits, LatestIsKnown, TypeOK, StagesOK, Unstarted
<1>7. \/ /\ queued = NoVisit /\ ~navigating' /\ current' = current
         /\ pc' = [pc EXCEPT ![v] = "finished"]
      \/ /\ queued # NoVisit /\ navigating' /\ current' = queued
         /\ pc' = [pc EXCEPT ![v] = "finished", ![queued] = "starting"]
  BY DEF Complete, ReleaseLock, RunQueue, Goto
<1>8. pc'[v] = "finished"
  BY <1>0, <1>6, <1>7 DEF OthersOK
<1>9. queued # NoVisit => pc'[queued] = "starting"
  BY <1>0, <1>6, <1>7 DEF OthersOK
<1>10. \A u \in Visits \ {v, queued} : pc'[u] = pc[u]
  BY <1>0, <1>6, <1>7 DEF OthersOK
<1>11. \A u \in Visits : pc[u] \in Exclusive => u = v
  BY <1>2 DEF ExclusiveHoldsLock, HoldsLock
<1>12. OneRunnable'
  <2>1. \A u \in Visits \ {v, queued} : Parked(u)'
    BY <1>0, <1>4, <1>10, OthersParked, ParkedFrame
  <2>2. Parked(v)'
    BY <1>1, <1>2, <1>8 DEF Parked, MainParked, LoaderParked
  <2> QED
    BY <2>1, <2>2 DEF OneRunnable, Runnable
<1>13. StagesOK'
  <2>1. ASSUME NEW u \in Visits
        PROVE  /\ pc'[u] \in Unstarted => page'[u] = "none" /\ state'[u] < STARTED
               /\ pc'[u] \in Rendering => page'[u] \in Settled /\ state'[u] >= ENTERING
    <3>1. CASE u = v
      BY <3>1, <1>8 DEF Unstarted, Rendering
    <3>2. CASE u # v /\ u = queued
      BY <3>2, <1>4, <1>6, <1>9, NoVisitAssumption DEF Unstarted, Rendering
    <3>3. CASE u # v /\ u # queued
      BY <3>3, <1>4, <1>10 DEF StagesOK
    <3> QED
      BY <3>1, <3>2, <3>3
  <2> QED
    BY <2>1 DEF StagesOK
<1>14. ExclusiveHoldsLock'
  <2>1. ASSUME NEW u \in Visits, pc'[u] \in Exclusive PROVE HoldsLock(u)'
    <3>1. u # v
      BY <2>1, <1>8 DEF Exclusive, Rendering
    <3>2. u = queued
      BY <2>1, <3>1, <1>10, <1>11
    <3> QED
      BY <3>2, <1>7, NoVisitAssumption DEF HoldsLock
  <2> QED
    BY <2>1 DEF ExclusiveHoldsLock
<1>15. \A u \in Visits : pc'[u] # "aborting"
  BY <1>3, <1>8, <1>9, <1>10, NoVisitAssumption
<1>16. AbortsInTime'
  BY <1>15 DEF AbortsInTime
<1>17. CurrentHasBegun'
  BY <1>7, <1>9 DEF CurrentHasBegun
<1>18. LiveIsCurrent'
  <2>1. ASSUME NEW u \in Visits, Live(u)' PROVE HoldsLock(u)'
    <3>1. u # v
      BY <2>1, <1>8 DEF Live, Running
    <3>2. u = queued
      BY <2>1, <3>1, <1>2, <1>4, <1>10 DEF LiveIsCurrent, Live, Done
    <3> QED
      BY <3>2, <1>7, NoVisitAssumption DEF HoldsLock
  <2> QED
    BY <2>1 DEF LiveIsCurrent, HoldsLock
<1>19. QueueWaits'
  BY <1>1 DEF QueueWaits
<1>20. LatestIsKnown'
  BY <1>1, <1>6, <1>7, <1>15 DEF LatestIsKnown
<1>21. RenderedIsShown'
  <2>1. ASSUME NEW u \in Visits PROVE pc'[u] \notin {"rendered", "entering", "ending"}
    <3>1. CASE u \in {v, queued}
      BY <3>1, <1>8, <1>9, NoVisitAssumption
    <3>2. CASE u \notin {v, queued}
      BY <3>2, <1>10, <1>11 DEF Exclusive, Rendering
    <3> QED
      BY <3>1, <3>2
  <2> QED
    BY <2>1 DEF RenderedIsShown
<1>22. CompletedIsOver'
  <2>1. ASSUME NEW u \in Visits, state'[u] = COMPLETED
        PROVE  pc'[u] = "finished" /\ page'[u] \in Settled
    <3>1. CASE u = v
      BY <3>1, <1>1, <1>2, <1>8
    <3>2. CASE u # v /\ u = queued
      BY <2>1, <3>2, <1>4, <1>6, NoVisitAssumption DEF STARTED, COMPLETED
    <3>3. CASE u # v /\ u # queued
      BY <2>1, <3>3, <1>4, <1>10 DEF CompletedIsOver
    <3> QED
      BY <3>1, <3>2, <3>3
  <2> QED
    BY <2>1 DEF CompletedIsOver
<1>23. LatestWins'
  <2>1. queued = NoVisit => latest = v
    BY <1>2, <1>3 DEF LatestIsKnown
  <2> QED
    BY <2>1, <1>1, <1>2, <1>5, <1>7 DEF LatestWins
<1> QED
  BY <1>12, <1>13, <1>14, <1>16, <1>17, <1>18, <1>19, <1>20, <1>21, <1>22,
     <1>23

(* The invariant behind the safety theorems: what holds of the lock, the queue
   and the visits when no handler interferes with the beginning of a visit. *)
THEOREM Inductive ==
  ASSUME BeginsUndisturbed
  PROVE  Spec => []IInv
<1>1. Init => IInv
  <2> SUFFICES ASSUME Init PROVE IInv
    OBVIOUS
  <2>1. TypeOK
    <3>1. OthersOK
      BY DEF Init, OthersOK, Labels, Loading
    <3>2. StatesOK
      BY DEF Init, StatesOK, CREATED, FAILED
    <3> QED
      BY <3>1, <3>2, TypeParts
  <2>2. \A v \in Visits : pc[v] = "idle" /\ page[v] = "none" /\ state[v] = 1
    BY DEF Init, CREATED
  <2>3. OneRunnable
    BY <2>2 DEF OneRunnable, Runnable, Parked, MainParked, LoaderParked
  <2>4. StagesOK
    <3>1. \A v \in Visits : pc[v] \notin Rendering
      BY <2>2 DEF Rendering
    <3>2. ASSUME NEW v \in Visits PROVE state[v] < STARTED
      <4>1. state[v] = CREATED
        BY DEF Init
      <4>2. CREATED < STARTED
        BY DEF CREATED, STARTED
      <4> QED
        BY <4>1, <4>2
    <3> QED
      BY <2>2, <3>1, <3>2 DEF StagesOK
  <2>5. ExclusiveHoldsLock /\ AbortsInTime /\ LiveIsCurrent /\ RenderedIsShown
    BY <2>2 DEF ExclusiveHoldsLock, AbortsInTime, LiveIsCurrent, Live,
       RenderedIsShown, Exclusive, Rendering, Running
  <2>6. CurrentHasBegun /\ QueueWaits /\ LatestIsKnown /\ LatestWins
    <3>1. ~navigating /\ queued = NoVisit /\ latest = NoVisit
      BY DEF Init
    <3> QED
      BY <2>2, <3>1
         DEF CurrentHasBegun, QueueWaits, LatestIsKnown, LatestWins
  <2>7. CompletedIsOver
    BY <2>2 DEF CompletedIsOver, COMPLETED
  <2> QED
    BY <2>1, <2>3, <2>4, <2>5, <2>6, <2>7 DEF IInv
<1>2. IInv /\ [Next]_vars /\ TypeOK' => IInv'
  <2> SUFFICES ASSUME IInv, [Next]_vars, TypeOK' PROVE IInv'
    OBVIOUS
  <2>1. CASE UNCHANGED vars \/ FallbackLoad
    <3>1. UNCHANGED <<navigating, current, queued, state, pc, page, shown, latest>>
      BY <2>1 DEF vars, FallbackLoad
    <3> QED
      BY <3>1 DEF IInv, OneRunnable, Runnable, Parked, MainParked, LoaderParked,
         StagesOK, ExclusiveHoldsLock, HoldsLock, AbortsInTime, ContentIn,
         CurrentHasBegun, LiveIsCurrent, Live, Done, QueueWaits, LatestIsKnown,
         RenderedIsShown, CompletedIsOver, LatestWins
  <2>2. ASSUME NEW v \in Visits, VisitStep(v) PROVE IInv'
    BY <2>2, StepKinds, RequestInv, TakeOverInv, CompleteInv, QuietInv
  <2> QED
    BY <2>1, <2>2 DEF Next
<1> QED
  BY <1>1, <1>2, TypeCorrect, PTL DEF Spec

-----------------------------------------------------------------------------
(* No two visits run side by side, and the one that runs is swup.visit. *)
THEOREM OneVisitRuns ==
  ASSUME BeginsUndisturbed
  PROVE  Spec => []LiveIsCurrent
<1>1. IInv => LiveIsCurrent
  BY DEF IInv
<1> QED
  BY <1>1, Inductive, PTL

(* The request that waits in onVisitEnd has not begun, and waits for a visit
   whose content is in. *)
THEOREM QueueIsOrderly ==
  ASSUME BeginsUndisturbed
  PROVE  Spec => []QueueWaits
<1>1. IInv => QueueWaits
  BY DEF IInv
<1> QED
  BY <1>1, Inductive, PTL

(* An idle swup shows the page that was requested last. *)
THEOREM LatestRequestWins ==
  ASSUME BeginsUndisturbed
  PROVE  Spec => []LatestWins
<1>1. IInv => LatestWins
  BY DEF IInv
<1> QED
  BY <1>1, Inductive, PTL

(* A visit that is done stays done. *)
THEOREM DoneForGood ==
  ASSUME BeginsUndisturbed
  PROVE  Spec => NoRevival
<1>1. IInv /\ [Next]_vars => [\A v \in Visits : Done(v) => Done(v)']_vars
  <2> SUFFICES ASSUME IInv, Next PROVE \A u \in Visits : Done(u) => Done(u)'
    BY DEF vars
  <2> USE DEF IInv
  <2>1. CASE FallbackLoad
    BY <2>1 DEF FallbackLoad, Done
  <2>2. ASSUME NEW v \in Visits, VisitStep(v), NEW u \in Visits, Done(u)
        PROVE  Done(u)'
    <3>1. OthersOK /\ StatesOK
      BY TypeParts
    <3> USE <3>1 DEF StatesOK, Done, CREATED, QUEUED, STARTED, ENTERING,
        COMPLETED, ABORTED, FAILED
    <3>2. CASE Request(v)
      <4>1. pc[v] = "idle" /\ state[v] < STARTED
        BY <3>2 DEF Request, StagesOK, Unstarted
      <4> QED
        BY <2>2, <3>2, <4>1 DEF Request, RequestIdle, RequestQueued,
           RequestAborting
    <3>3. CASE TakeOver(v)
      BY <2>2, <3>3 DEF TakeOver
    <3>4. CASE Complete(v)
      BY <2>2, <3>4 DEF Complete
    <3>5. CASE Quiet(v)
      <4>1. u # v => state'[u] = state[u]
        BY <3>5, QuietFrame
      <4>2. Done(v) => Done(v)'
        BY <3>1, <3>5, QuietStates
      <4> QED
        BY <2>2, <4>1, <4>2
    <3> QED
      BY <2>2, <3>2, <3>3, <3>4, <3>5, StepKinds
  <2> QED
    BY <2>1, <2>2 DEF Next
<1> QED
  BY <1>1, Inductive, PTL DEF Spec, NoRevival

=============================================================================
