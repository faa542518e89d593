------------------------------ MODULE VisitProofs ------------------------------
(***************************************************************************)
(* More about Navigation, from its invariant IInv: that it implements       *)
(* VisitQueue, that a visit that has ended keeps no document of its page,   *)
(* and that the one that is shown is never aborted; and which hooks must    *)
(* not be handled for each of these.                                        *)
(***************************************************************************)
EXTENDS NavigationProofs

-----------------------------------------------------------------------------
(* When the content of a visit is in *)

(* A visit is ENTERING only while it renders.  While it renders nothing becomes
   of it but where it waits for a handler: every await is followed by a check. *)
CommitInv ==
    \A v \in Visits :
        /\ state[v] = ENTERING => pc[v] \in Rendering
        /\ pc[v] \in Rendering /\ HooksAt(pc[v]) \cap HandledHooks = {}
              => state[v] = ENTERING

(* No handler delays the beginning of a visit, or runs when it is about to be
   completed, whatever has become of it. *)
EndsUndisturbed ==
    HandledHooks \cap {"visit:start", "visit:abort", "visit:end"} = {}

(* The phase of the abstract queue, by the visit that holds the lock. *)
PhaseTable ==
    /\ ~navigating => Phase = "idle"
    /\ navigating /\ state[current] < ENTERING => Phase = "loading"
    /\ navigating /\ state[current] = ENTERING => Phase = "rendering"
    /\ navigating /\ state[current] > ENTERING => Phase = "failed"
    /\ navigating => \/ state[current] < ENTERING
                     \/ state[current] = ENTERING
                     \/ state[current] > ENTERING

(* Phase, case by case. *)
LEMMA PhaseCases == TypeOK => PhaseTable
<1> SUFFICES ASSUME TypeOK PROVE PhaseTable
  OBVIOUS
<1>1. navigating => state[current] \in 1..9
  BY DEF TypeOK, CREATED, FAILED
<1>2. navigating => \/ state[current] < ENTERING
                   \/ state[current] = ENTERING
                   \/ state[current] > ENTERING
  BY <1>1 DEF ENTERING
<1>3. ~navigating => Phase = "idle"
  BY DEF Phase
<1>4. navigating /\ state[current] < ENTERING => Phase = "loading"
  BY <1>1 DEF Phase, ENTERING
<1>5. navigating /\ state[current] = ENTERING => Phase = "rendering"
  BY DEF Phase, ENTERING
<1>6. navigating /\ state[current] > ENTERING => Phase = "failed"
  BY <1>1 DEF Phase, ENTERING
<1> QED
  BY <1>2, <1>3, <1>4, <1>5, <1>6 DEF PhaseTable

QInv == IInv /\ CommitInv

(* Visit states in numbers. *)
LEMMA StateCases ==
  ASSUME StatesOK, NEW v \in Visits
  PROVE  /\ ContentIn(v) <=> state[v] = ENTERING \/ Done(v)
         /\ ~(state[v] = ENTERING /\ Done(v))
         /\ state[v] < ENTERING <=> ~ContentIn(v)
         /\ state[v] > ENTERING <=> Done(v)
  BY DEF StatesOK, ContentIn, Done, CREATED, ENTERING, COMPLETED, FAILED

(* At its end a visit is not done, if no handler runs then. *)
LEMMA EndingRenders ==
  ASSUME EndsUndisturbed, CommitInv, NEW v \in Visits, pc[v] = "ending"
  PROVE  state[v] = ENTERING
<1>1. HooksAt(pc[v]) \cap HandledHooks = {}
  BY DEF HooksAt, EndsUndisturbed
<1> QED
  BY <1>1 DEF CommitInv, Rendering

(* A quiet step of v keeps what is said of v. *)
LEMMA QuietCommits ==
  ASSUME BeginsUndisturbed, QInv, NEW v \in Visits, Quiet(v)
  PROVE  /\ state'[v] = ENTERING => pc'[v] \in Rendering
         /\ pc'[v] \in Rendering /\ HooksAt(pc'[v]) \cap HandledHooks = {}
               => state'[v] = ENTERING
<1>0. OthersOK /\ StatesOK /\ StagesOK
  BY TypeParts DEF QInv, IInv
<1>1. /\ state[v] = ENTERING => pc[v] \in Rendering
      /\ pc[v] \in Rendering /\ HooksAt(pc[v]) \cap HandledHooks = {}
            => state[v] = ENTERING
  BY DEF QInv, CommitInv
<1>2. pc[v] \in Rendering => state[v] = ENTERING \/ Done(v)
  BY <1>0, StateCases DEF StagesOK, ContentIn
<1> USE <1>0, <1>1, <1>2 DEF Goto, Finish, Catch, Rendering, OthersOK
<1>3. CASE Start(v)
  BY <1>3 DEF Start, StatesOK, STARTED, ENTERING
<1>4. CASE Wait(v) \/ Leave(v)
  BY <1>4 DEF Wait, Leave
<1>5. CASE Transition(v)
  BY <1>5 DEF Transition, Advance, StatesOK, LEAVING, ENTERING
<1>6. CASE Enter(v)
  <2>1. CASE Done(v)
    BY <1>6, <2>1, StateCases DEF Enter
  <2>2. CASE ~Done(v)
    <3>1. state[v] < ENTERING
      BY <1>6, <2>2, StateCases DEF Enter
    <3>2. state'[v] = ENTERING /\ pc'[v] = "replacing"
      BY <1>6, <2>2, <3>1 DEF Enter, Advance, StatesOK
    <3> QED
      BY <3>2
  <2> QED
    BY <2>1, <2>2
<1>7. CASE Replace(v)
  BY <1>7, StateCases DEF Replace
<1>8. CASE Rendered(v)
  BY <1>8, StateCases DEF Rendered
<1>9. CASE Entered(v)
  BY <1>9, StateCases DEF Entered
<1>10. CASE PageRejects(v) \/ ContainerMismatch(v) \/ HandlerThrows(v)
  <2>1. state'[v] \in {ABORTED, FAILED} /\ pc'[v] = "finished"
    BY <1>10 DEF PageRejects, ContainerMismatch, HandlerThrows, StatesOK
  <2> QED
    BY <2>1 DEF ABORTED, FAILED, ENTERING
<1>11. CASE HandlerAborts(v)
  <2>1. state'[v] = ABORTED /\ pc'[v] = pc[v]
    BY <1>11 DEF HandlerAborts, StatesOK
  <2>2. pc[v] \in Rendering => HooksAt(pc[v]) \cap HandledHooks # {}
    BY <1>11 DEF HandlerAborts, StagesOK, Settled
  <2> QED
    BY <2>1, <2>2 DEF ABORTED, ENTERING
<1>12. CASE LoadPage(v) \/ FetchSettles(v)
  BY <1>12 DEF LoadPage, FetchSettles
<1>13. CASE PageArrives(v)
  <2>1. pc'[v] = pc[v] /\ pc[v] \notin Rendering
    BY <1>13 DEF PageArrives, StagesOK, Settled
  <2>2. state'[v] = state[v] \/ state'[v] = LOADED
    BY <1>13 DEF PageArrives, Advance, StatesOK
  <2> QED
    BY <2>1, <2>2 DEF LOADED, ENTERING
<1> QED
  BY <1>3, <1>4, <1>5, <1>6, <1>7, <1>8, <1>9, <1>10, <1>11, <1>12, <1>13
     DEF Quiet, LoaderStep

(* No step makes a visit ENTERING that does not render, nor lets one render on
   that is done. *)
LEMMA CommitStep ==
  ASSUME BeginsUndisturbed, QInv, NEW v \in Visits, VisitStep(v)
  PROVE  CommitInv'
<1>0. OthersOK /\ StatesOK /\ TypeOK
  BY TypeParts DEF QInv, IInv
<1> SUFFICES ASSUME NEW u \in Visits
             PROVE  /\ state'[u] = ENTERING => pc'[u] \in Rendering
                    /\ pc'[u] \in Rendering /\ HooksAt(pc'[u]) \cap HandledHooks = {}
                          => state'[u] = ENTERING
  BY DEF CommitInv
<1>1. /\ state[u] = ENTERING => pc[u] \in Rendering
      /\ pc[u] \in Rendering /\ HooksAt(pc[u]) \cap HandledHooks = {}
            => state[u] = ENTERING
  BY DEF QInv, CommitInv
<1>2. CASE Request(v)
  <2>1. pc[v] = "idle"
    BY <1>2 DEF Request
  <2>2. u # v => pc'[u] = pc[u] /\ state'[u] = state[u]
    BY <1>0, <1>2 DEF Request, RequestIdle, RequestQueued, RequestAborting,
       TakeLock, Goto, OthersOK, StatesOK
  <2>3. pc'[v] \notin Rendering /\ state'[v] \in {state[v], QUEUED}
    BY <1>0, <1>2 DEF Request, RequestIdle, RequestQueued, RequestAborting,
       TakeLock, Goto, OthersOK, StatesOK, Rendering
  <2> QED
    BY <1>1, <2>1, <2>2, <2>3 DEF Rendering, QUEUED, ENTERING
<1>3. CASE TakeOver(v)
  <2>1. pc[v] = "aborting" /\ ~ContentIn(current) /\ current \in Visits
    BY <1>3 DEF TakeOver, QInv, IInv, AbortsInTime, TypeOK
  <2>2. pc[current] \notin Rendering /\ pc[v] \notin Rendering
    BY <2>1 DEF QInv, IInv, StagesOK, ContentIn, Rendering
  <2>3. pc'[v] = "starting" /\ (u # v => pc'[u] = pc[u])
    BY <1>0, <1>3 DEF TakeOver, TakeLock, Goto, OthersOK
  <2>4. state'[current] = ABORTED /\ (u # current => state'[u] = state[u])
    BY <1>0, <1>3, <2>1 DEF TakeOver, StatesOK
  <2> QED
    BY <1>1, <2>2, <2>3, <2>4 DEF Rendering, ABORTED, ENTERING
<1>4. CASE Complete(v)
  <2>1. state' = [state EXCEPT ![v] = COMPLETED]
    BY <1>4 DEF Complete
  <2>2. queued # NoVisit => queued \in Visits /\ pc[queued] = "queued"
    BY DEF QInv, IInv, QueueWaits, TypeOK
  <2>3. \/ u = v /\ pc'[u] = "finished"
        \/ u # v /\ pc'[u] = pc[u]
        \/ u # v /\ u = queued /\ queued # NoVisit /\ pc'[u] = "starting"
    BY <1>0, <1>4, <2>2
       DEF Complete, ReleaseLock, RunQueue, Goto, OthersOK
  <2>4. u = v => state'[u] = COMPLETED
    BY <1>0, <2>1 DEF StatesOK
  <2>5. u # v => state'[u] = state[u]
    BY <1>0, <2>1 DEF StatesOK
  <2> QED
    BY <1>1, <2>2, <2>3, <2>4, <2>5 DEF Rendering, COMPLETED, ENTERING
<1>5. CASE Quiet(v)
  BY <1>0, <1>1, <1>5, QuietFrame, QuietCommits
<1> QED
  BY <1>2, <1>3, <1>4, <1>5, StepKinds

(* The invariant of navigation, whatever handlers do once a visit has begun. *)
THEOREM QueueInvariant ==
  ASSUME BeginsUndisturbed
  PROVE  Spec => []QInv
<1>1. Init => CommitInv
  <2> SUFFICES ASSUME Init, NEW v \in Visits
               PROVE  state[v] # ENTERING /\ pc[v] \notin Rendering
    BY DEF CommitInv
  <2>1. state[v] = CREATED /\ pc[v] = "idle"
    BY DEF Init
  <2> QED
    BY <2>1 DEF Rendering, CREATED, ENTERING
<1>2. QInv /\ [Next]_vars => CommitInv'
  <2>1. QInv /\ (UNCHANGED vars \/ FallbackLoad) => CommitInv'
    BY DEF vars, FallbackLoad, QInv, CommitInv
  <2> QED
    BY <2>1, CommitStep DEF Next
<1> QED
  BY <1>1, <1>2, Inductive, PTL DEF Spec, QInv

-----------------------------------------------------------------------------
(* A step that leaves the lock, the queue, the page shown and the phase alone
   is invisible to the abstract queue. *)
LEMMA Stutter ==
  ASSUME UNCHANGED <<navigating, current, queued, shown>>, Phase' = Phase
  PROVE  UNCHANGED Promise!qvars
BY DEF Promise!qvars

(* A request runs, waits or leaves the abstract queue alone. *)
LEMMA RequestImplements ==
  ASSUME QInv, QInv', PhaseTable, PhaseTable', NEW v \in Visits, Request(v)
  PROVE  [Promise!QNext]_(Promise!qvars)
<1> USE DEF QInv, IInv
<1>0. StatesOK
  BY TypeParts
<1>1. /\ pc[v] = "idle" /\ state[v] < STARTED
      /\ navigating => current \in Visits /\ current # v
  BY DEF Request, StagesOK, Unstarted, CurrentHasBegun, TypeOK
<1>2. UNCHANGED shown
  BY DEF Request
<1>3. CASE RequestIdle(v)
  <2>1. ~navigating /\ navigating' /\ current' = v /\ UNCHANGED <<queued, state>>
    BY <1>3 DEF RequestIdle, TakeLock
  <2>2. state'[current'] < ENTERING
    BY <1>0, <1>1, <2>1 DEF StatesOK, CREATED, STARTED, ENTERING, FAILED
  <2>3. Phase = "idle" /\ Phase' = "loading"
    BY <2>1, <2>2 DEF PhaseTable
  <2>4. Promise!Run(v)
    BY <1>2, <2>1, <2>3 DEF Promise!Run
  <2> QED
    BY <2>4 DEF Promise!QNext
<1>4. CASE RequestQueued(v)
  <2>1. navigating /\ navigating' /\ current' = current /\ queued' = v
        /\ ContentIn(current) /\ state'[current] = state[current]
    BY <1>0, <1>1, <1>4 DEF RequestQueued, StatesOK
  <2>2. Phase \in {"rendering", "failed"}
    BY <1>0, <1>1, <2>1
       DEF PhaseTable, ContentIn, StatesOK, ENTERING, CREATED, FAILED
  <2>3. Phase' = Phase
    BY <2>1 DEF PhaseTable
  <2>4. Promise!Queue(v)
    BY <1>2, <2>1, <2>2, <2>3 DEF Promise!Queue
  <2> QED
    BY <2>4 DEF Promise!QNext
<1>5. CASE RequestAborting(v)
  <2>1. UNCHANGED <<navigating, current, queued, state>>
    BY <1>5 DEF RequestAborting
  <2>2. Phase' = Phase
    BY <2>1 DEF PhaseTable
  <2> QED
    BY <1>2, <2>1, <2>2, Stutter
<1> QED
  BY <1>3, <1>4, <1>5 DEF Request

(* The end of visit:abort supersedes the visit that is loading. *)
LEMMA TakeOverImplements ==
  ASSUME QInv, QInv', PhaseTable, PhaseTable', NEW v \in Visits, TakeOver(v)
  PROVE  [Promise!QNext]_(Promise!qvars)
<1> USE DEF QInv, IInv
<1>0. StatesOK
  BY TypeParts
<1>1. /\ pc[v] = "aborting" /\ navigating' /\ current' = v
      /\ UNCHANGED <<queued, shown>>
  BY DEF TakeOver, TakeLock
<1>2. /\ navigating /\ ~ContentIn(current) /\ current # v /\ state[v] < STARTED
      /\ current \in Visits
  BY <1>1 DEF AbortsInTime, CurrentHasBegun, StagesOK, Unstarted, TypeOK
<1>3. state'[v] = state[v]
  BY <1>0, <1>2 DEF TakeOver, StatesOK
<1>4. state'[current'] < ENTERING
  BY <1>0, <1>1, <1>2, <1>3 DEF StatesOK, CREATED, STARTED, ENTERING, FAILED
<1>5. state[current] < ENTERING
  BY <1>0, <1>2 DEF ContentIn, StatesOK, CREATED, ENTERING, FAILED
<1>6. Phase = "loading" /\ Phase' = "loading"
  BY <1>1, <1>2, <1>4, <1>5 DEF PhaseTable
<1>7. Promise!Supersede(v)
  BY <1>1, <1>2, <1>6 DEF Promise!Supersede
<1> QED
  BY <1>7 DEF Promise!QNext

(* The end of a visit finishes it and starts the next one. *)
LEMMA CompleteImplements ==
  ASSUME EndsUndisturbed, QInv, QInv', PhaseTable, PhaseTable',
         NEW v \in Visits, Complete(v)
  PROVE  [Promise!QNext]_(Promise!qvars)
<1> USE DEF QInv, IInv
<1>0. StatesOK
  BY TypeParts
<1>1. pc[v] = "ending" /\ state' = [state EXCEPT ![v] = COMPLETED]
      /\ UNCHANGED shown
  BY DEF Complete
<1>2. navigating /\ current = v /\ shown = v /\ state[v] = ENTERING
  BY <1>1, EndingRenders DEF ExclusiveHoldsLock, HoldsLock, Exclusive, Rendering,
     RenderedIsShown
<1>3. Phase = "rendering"
  BY <1>2 DEF PhaseTable
<1>4. CASE ReleaseLock(v)
  <2>1. queued = NoVisit /\ queued' = NoVisit /\ ~navigating'
    BY <1>4 DEF ReleaseLock
  <2>2. Phase' = "idle"
    BY <2>1 DEF PhaseTable
  <2>3. Promise!Finish
    BY <1>1, <1>2, <1>3, <2>1, <2>2 DEF Promise!Finish
  <2> QED
    BY <2>3 DEF Promise!QNext
<1>5. CASE RunQueue(v)
  <2>1. /\ queued # NoVisit /\ queued' = NoVisit
        /\ navigating' /\ current' = queued
    BY <1>5 DEF RunQueue
  <2>2. queued \in Visits /\ queued # v /\ state[queued] < STARTED
    BY <1>1, <2>1 DEF QueueWaits, TypeOK, StagesOK, Unstarted
  <2>3. state'[current'] < ENTERING
    BY <1>0, <1>1, <2>1, <2>2 DEF StatesOK, CREATED, STARTED, ENTERING, FAILED
  <2>4. Phase' = "loading"
    BY <2>1, <2>3 DEF PhaseTable
  <2>5. Promise!Finish
    BY <1>1, <1>2, <1>3, <2>1, <2>4 DEF Promise!Finish
  <2> QED
    BY <2>5 DEF Promise!QNext
<1> QED
  BY <1>4, <1>5 DEF Complete

(* Other steps commit, show or fail the running visit, or stutter. *)
LEMMA QuietImplements ==
  ASSUME BeginsUndisturbed, QInv, QInv', PhaseTable, PhaseTable',
         NEW v \in Visits, Quiet(v)
  PROVE  [Promise!QNext]_(Promise!qvars)
<1> USE DEF QInv, IInv
<1>0. OthersOK /\ StatesOK
  BY TypeParts
<1>1. UNCHANGED <<navigating, current, queued>>
  BY QuietFrame
<1>2. shown' # shown => pc[v] = "replacing" /\ shown' = v
  BY <1>0, QuietShown
<1>3. pc[v] \in Rendering => HoldsLock(v)
  BY DEF ExclusiveHoldsLock, Exclusive
<1>4. CASE ~HoldsLock(v)
  <2>1. UNCHANGED shown
    BY <1>2, <1>3, <1>4 DEF Rendering
  <2>2. navigating => state'[current] = state[current]
    BY <1>4, QuietFrame DEF HoldsLock, TypeOK
  <2>3. Phase' = Phase
    BY <1>1, <2>2 DEF PhaseTable
  <2> QED
    BY <1>1, <2>1, <2>3, Stutter
<1>5. CASE HoldsLock(v)
  <2>1. navigating /\ current = v /\ navigating' /\ current' = v
    BY <1>1, <1>5 DEF HoldsLock
  <2>2. state[v] \in 1..9 /\ state'[v] \in 1..9
    BY DEF TypeOK, CREATED, FAILED
  <2>3. state[v] = ENTERING => pc[v] \in Rendering
    BY DEF CommitInv
  <2>4. ASSUME UNCHANGED shown,
               \/ state'[v] = state[v]
               \/ state[v] < ENTERING /\ state'[v] < ENTERING
               \/ state[v] > ENTERING /\ state'[v] > ENTERING
        PROVE  [Promise!QNext]_(Promise!qvars)
    <3>1. Phase' = Phase
      BY <2>1, <2>4 DEF PhaseTable
    <3> QED
      BY <1>1, <2>4, <3>1, Stutter
  <2>5. CASE Start(v)
    <3>1. state[v] < STARTED /\ state'[v] = STARTED
      BY <1>0, <2>5 DEF Start, StagesOK, Unstarted, StatesOK
    <3>2. state[v] < ENTERING /\ state'[v] < ENTERING
      BY <2>2, <3>1 DEF STARTED, ENTERING
    <3> QED
      BY <2>4, <2>5, <3>2 DEF Start
  <2>6. CASE Wait(v) \/ Leave(v) \/ Rendered(v) \/ Entered(v) \/ LoadPage(v)
             \/ FetchSettles(v)
    BY <2>4, <2>6 DEF Wait, Leave, Rendered, Entered, LoadPage, FetchSettles
  <2>7. CASE Transition(v)
    <3>1. Done(v) => state'[v] = state[v]
      BY <2>7 DEF Transition
    <3>2. ~Done(v) => state[v] < ENTERING
      BY <1>0, <2>3, <2>7, StateCases DEF Transition, Rendering
    <3>3. ~Done(v) => state'[v] < ENTERING
      BY <1>0, <2>2, <2>7, <3>2
         DEF Transition, Advance, StatesOK, LEAVING, ENTERING
    <3> QED
      BY <2>4, <2>7, <3>1, <3>2, <3>3 DEF Transition
  <2>8. CASE Enter(v)
    <3>1. CASE Done(v)
      BY <2>4, <2>8, <3>1 DEF Enter
    <3>2. CASE ~Done(v)
      <4>1. state[v] < ENTERING /\ UNCHANGED shown
        BY <1>0, <2>3, <2>8, <3>2, StateCases DEF Enter, Rendering
      <4>2. state'[v] = ENTERING
        BY <1>0, <2>8, <3>2, <4>1 DEF Enter, Advance, StatesOK
      <4>3. Phase = "loading" /\ Phase' = "rendering"
        BY <2>1, <4>1, <4>2 DEF PhaseTable
      <4>4. Promise!Commit
        BY <1>1, <4>1, <4>3 DEF Promise!Commit
      <4> QED
        BY <4>4 DEF Promise!QNext
    <3> QED
      BY <3>1, <3>2
  <2>9. CASE Replace(v)
    <3>1. CASE Done(v)
      BY <2>4, <2>9, <3>1 DEF Replace
    <3>2. CASE ~Done(v)
      <4>1. state[v] = ENTERING
        BY <1>0, <2>9, <3>2, StateCases DEF Replace, StagesOK, Rendering, ContentIn
      <4>2. shown' = v /\ state'[v] = state[v]
        BY <2>9, <3>2 DEF Replace
      <4>3. Phase = "rendering" /\ Phase' = "rendering"
        BY <2>1, <4>1, <4>2 DEF PhaseTable
      <4>4. Promise!Show
        BY <1>1, <2>1, <4>2, <4>3 DEF Promise!Show
      <4> QED
        BY <4>4 DEF Promise!QNext
    <3> QED
      BY <3>1, <3>2
  <2>10. CASE PageRejects(v) \/ ContainerMismatch(v) \/ HandlerThrows(v)
                 \/ HandlerAborts(v)
    <3>1. state'[v] > ENTERING /\ UNCHANGED shown
      BY <1>0, <2>10 DEF PageRejects, ContainerMismatch, HandlerThrows,
         HandlerAborts, Catch, StatesOK, ENTERING, ABORTED, FAILED
    <3>2. CASE state[v] > ENTERING
      BY <2>4, <3>1, <3>2
    <3>3. CASE ~(state[v] > ENTERING)
      <4>1. state[v] < ENTERING \/ state[v] = ENTERING
        BY <2>2, <3>3 DEF ENTERING
      <4>2. Phase \in {"loading", "rendering"} /\ Phase' = "failed"
        BY <2>1, <3>1, <4>1 DEF PhaseTable
      <4>3. Promise!Fail
        BY <1>1, <3>1, <4>2 DEF Promise!Fail
      <4> QED
        BY <4>3 DEF Promise!QNext
    <3> QED
      BY <3>2, <3>3
  <2>11. CASE PageArrives(v)
    <3>1. UNCHANGED shown
      BY <2>11 DEF PageArrives
    <3>2. state'[v] = state[v] \/ (state[v] < ENTERING /\ state'[v] < ENTERING)
      BY <1>0, <2>2, <2>11 DEF PageArrives, Advance, StatesOK, LOADED, ENTERING
    <3> QED
      BY <2>4, <3>1, <3>2
  <2> QED
    BY <2>5, <2>6, <2>7, <2>8, <2>9, <2>10, <2>11 DEF Quiet, LoaderStep
<1> QED
  BY <1>4, <1>5

(* Requests run, supersede and wait as VisitQueue promises, whatever handlers do
   to visits that have begun, by waiting, throwing or calling abort(): all but
   those of visit:end, after which a visit completes even if it was aborted. *)
THEOREM KeepsPromise ==
  ASSUME EndsUndisturbed
  PROVE  Spec => ImplementsVisitQueue
<1>0. BeginsUndisturbed
  BY DEF EndsUndisturbed, BeginsUndisturbed
<1>1. Init => Promise!QInit
  BY DEF Init, Promise!QInit, Phase
<1>2. QInv /\ QInv' /\ PhaseTable /\ PhaseTable' /\ [Next]_vars
        => [Promise!QNext]_(Promise!qvars)
  <2> SUFFICES ASSUME QInv, QInv', PhaseTable, PhaseTable', [Next]_vars
               PROVE  [Promise!QNext]_(Promise!qvars)
    OBVIOUS
  <2>1. CASE UNCHANGED vars \/ FallbackLoad
    <3>1. UNCHANGED <<navigating, current, queued, shown, state>>
      BY <2>1 DEF vars, FallbackLoad
    <3>2. Phase' = Phase
      BY <3>1 DEF PhaseTable
    <3> QED
      BY <3>1, <3>2, Stutter
  <2>2. ASSUME NEW v \in Visits, VisitStep(v)
        PROVE  [Promise!QNext]_(Promise!qvars)
    BY <1>0, <2>2, StepKinds, RequestImplements, TakeOverImplements,
       CompleteImplements, QuietImplements
  <2> QED
    BY <2>1, <2>2 DEF Next
<1>3. QInv => PhaseTable
  BY PhaseCases DEF QInv, IInv
<1> QED
  BY <1>0, <1>1, <1>2, <1>3, QueueInvariant, PTL
     DEF Spec, ImplementsVisitQueue, Promise!QSpec

-----------------------------------------------------------------------------
(* Why a visit that has ended keeps no document of its page: its main coroutine
   has to await the page before it can end. *)

(* No handler holds up, or breaks off, a visit whose page is on its way. *)
LeavesUndisturbed ==
    HandledHooks \cap
        {"visit:transition", "animation:out:start", "animation:out:await"} = {}

QueuedIsWaiting == queued # NoVisit => pc[queued] = "queued"

PagesOK ==
    \A v \in Visits :
        /\ pc[v] \in Unstarted => page[v] = "none"
        /\ pc[v] \in Rendering => page[v] \in Settled

EventLoop == OneRunnable /\ QueuedIsWaiting /\ PagesOK

(* The labels and the page of v after a step of v. *)
LEMMA OwnLabels ==
  ASSUME OthersOK, PagesOK, NEW v \in Visits, VisitStep(v)
  PROVE  /\ pc[v] # "queued"
         /\ pc'[v] \in Unstarted => page'[v] = "none"
         /\ pc'[v] \in Rendering => page'[v] \in Settled
<1>1. /\ pc[v] \in Unstarted => page[v] = "none"
      /\ pc[v] \in Rendering => page[v] \in Settled
  BY DEF PagesOK
<1> USE <1>1 DEF OthersOK, Unstarted, Rendering, Settled, Goto, Finish
<1>2. CASE Request(v)
  BY <1>2 DEF Request, RequestIdle, RequestQueued, RequestAborting, TakeLock
<1>3. CASE TakeOver(v)
  BY <1>3 DEF TakeOver, TakeLock
<1>4. CASE Start(v)
  BY <1>4 DEF Start
<1>5. CASE Wait(v)
  BY <1>5 DEF Wait
<1>6. CASE Leave(v)
  BY <1>6 DEF Leave
<1>7. CASE Transition(v)
  BY <1>7 DEF Transition
<1>8. CASE Enter(v)
  BY <1>8 DEF Enter
<1>9. CASE Replace(v)
  BY <1>9 DEF Replace
<1>10. CASE Rendered(v)
  BY <1>10 DEF Rendered
<1>11. CASE Entered(v)
  BY <1>11 DEF Entered
<1>12. CASE Complete(v)
  BY <1>12 DEF Complete, ReleaseLock, RunQueue
<1>13. CASE PageRejects(v)
  BY <1>13 DEF PageRejects, Catch
<1>14. CASE ContainerMismatch(v)
  BY <1>14 DEF ContainerMismatch, Catch
<1>15. CASE HandlerThrows(v)
  BY <1>15 DEF HandlerThrows, Catch, HooksAt, ThrowingHooks
<1>16. CASE HandlerAborts(v)
  BY <1>16 DEF HandlerAborts, HooksAt
<1>17. CASE LoadPage(v)
  BY <1>17 DEF LoadPage
<1>18. CASE FetchSettles(v)
  BY <1>18 DEF FetchSettles
<1>19. CASE PageArrives(v)
  BY <1>19 DEF PageArrives
<1> QED
  BY <1>2, <1>3, <1>4, <1>5, <1>6, <1>7, <1>8, <1>9, <1>10, <1>11, <1>12,
     <1>13, <1>14, <1>15, <1>16, <1>17, <1>18, <1>19
     DEF VisitStep, MainStep, LoaderStep

(* A step of v that is not its end moves no other visit.  It may take the
   document of another visit away, but gives it none. *)
LEMMA OtherFrame ==
  ASSUME TypeOK, NEW v \in Visits, Request(v) \/ TakeOver(v) \/ Quiet(v),
         NEW u \in Visits, u # v
  PROVE  /\ pc'[u] = pc[u]
         /\ page'[u] = page[u]
         /\ doc'[u] \in {FALSE, doc[u]}
<1>0. OthersOK
  BY TypeParts
<1> USE <1>0 DEF OthersOK, Goto, Finish, TakeLock
<1>1. CASE Request(v)
  BY <1>1 DEF Request, RequestIdle, RequestQueued, RequestAborting
<1>2. CASE TakeOver(v)
  BY <1>2 DEF TakeOver
<1>3. CASE Quiet(v)
  <2>1. pc'[u] = pc[u] /\ page'[u] = page[u]
    BY <1>3, QuietFrame
  <2>2. CASE Start(v) \/ Wait(v) \/ Leave(v) \/ HandlerAborts(v)
    BY <2>1, <2>2 DEF Start, Wait, Leave, HandlerAborts
  <2>3. CASE Transition(v)
    BY <2>1, <2>3 DEF Transition
  <2>4. CASE Enter(v) \/ Replace(v)
    BY <2>1, <2>4 DEF Enter, Replace
  <2>5. CASE Rendered(v) \/ Entered(v)
    BY <2>1, <2>5 DEF Rendered, Entered
  <2>6. CASE PageRejects(v) \/ ContainerMismatch(v) \/ HandlerThrows(v)
    BY <2>1, <2>6 DEF PageRejects, ContainerMismatch, HandlerThrows, Catch
  <2>7. CASE LoaderStep(v)
    BY <2>1, <2>7 DEF LoaderStep, LoadPage, FetchSettles, PageArrives
  <2> QED
    BY <1>3, <2>2, <2>3, <2>4, <2>5, <2>6, <2>7 DEF Quiet
<1> QED
  BY <1>1, <1>2, <1>3

(* The end of v moves v, and the visit that was queued behind it. *)
LEMMA CompleteFrame ==
  ASSUME TypeOK, NEW v \in Visits, Complete(v), NEW u \in Visits, u # v
  PROVE  /\ pc'[u] = pc[u] \/ (u = queued /\ pc'[u] = "starting")
         /\ page'[u] = page[u]
         /\ doc'[u] \in {FALSE, doc[u]}
<1>0. OthersOK
  BY TypeParts
<1>1. page' = page /\ doc'[u] = doc[u]
  BY <1>0 DEF OthersOK, Complete
<1>2. CASE ReleaseLock(v)
  BY <1>0, <1>1, <1>2 DEF OthersOK, ReleaseLock, Goto
<1>3. CASE RunQueue(v)
  BY <1>0, <1>1, <1>3 DEF OthersOK, RunQueue
<1> QED
  BY <1>2, <1>3 DEF Complete

(* A step of v moves another visit only from the queue to its beginning. *)
LEMMA OtherLabels ==
  ASSUME TypeOK, NEW v \in Visits, VisitStep(v), NEW u \in Visits, u # v
  PROVE  /\ pc'[u] = pc[u] \/ (u = queued /\ pc'[u] = "starting")
         /\ page'[u] = page[u]
         /\ doc'[u] \in {FALSE, doc[u]}
<1>1. CASE Complete(v)
  BY <1>1, CompleteFrame
<1>2. CASE Request(v) \/ TakeOver(v) \/ Quiet(v)
  BY <1>2, OtherFrame
<1> QED
  BY <1>1, <1>2, StepKinds

(* onVisitEnd closes over a visit that has just been requested, and only the
   end of a visit takes it from there. *)
LEMMA QueueStep ==
  ASSUME TypeOK, EventLoop, NEW v \in Visits, VisitStep(v)
  PROVE  QueuedIsWaiting'
<1>0. OthersOK
  BY TypeParts
<1>1. CASE Request(v)
  BY <1>0, <1>1 DEF Request, RequestIdle, RequestQueued, RequestAborting,
     TakeLock, Goto, EventLoop, QueuedIsWaiting, OthersOK
<1>2. CASE Complete(v)
  BY <1>2 DEF Complete, ReleaseLock, RunQueue, QueuedIsWaiting
<1>3. CASE TakeOver(v) \/ Quiet(v)
  <2>1. UNCHANGED queued
    BY <1>3, QuietFrame DEF TakeOver
  <2>2. ASSUME queued # NoVisit PROVE pc'[queued] = "queued"
    <3>1. queued \in Visits /\ pc[queued] = "queued"
      BY <2>2 DEF TypeOK, EventLoop, QueuedIsWaiting
    <3>2. queued # v
      BY <1>0, <3>1, OwnLabels DEF EventLoop
    <3> QED
      BY <1>3, <3>1, <3>2, OtherFrame
  <2> QED
    BY <2>1, <2>2 DEF QueuedIsWaiting
<1> QED
  BY <1>1, <1>2, <1>3, StepKinds

(* One visit at a time, with any handlers: the end of a visit leaves it parked
   before the queued one runs. *)
LEMMA EventLoopStep ==
  ASSUME TypeOK, EventLoop, NEW v \in Visits, VisitStep(v)
  PROVE  EventLoop'
<1> USE DEF EventLoop
<1>0. OthersOK
  BY TypeParts
<1>1. PagesOK'
  <2>1. ASSUME NEW u \in Visits, u # v
        PROVE  /\ pc'[u] \in Unstarted => page'[u] = "none"
               /\ pc'[u] \in Rendering => page'[u] \in Settled
    <3>1. CASE pc'[u] = pc[u]
      BY <2>1, <3>1, OtherLabels DEF PagesOK
    <3>2. CASE u = queued /\ pc'[u] = "starting"
      <4>1. page[u] = "none"
        BY <2>1, <3>2, NoVisitAssumption
           DEF QueuedIsWaiting, PagesOK, Unstarted
      <4> QED
        BY <2>1, <3>2, <4>1, OtherLabels DEF Rendering
    <3> QED
      BY <2>1, <3>1, <3>2, OtherLabels
  <2> QED
    BY <1>0, <2>1, OwnLabels DEF PagesOK
<1>2. OneRunnable'
  <2>1. CASE Complete(v)
    <3>1. Parked(v)'
      <4>1. page[v] \in Settled
        BY <2>1 DEF Complete, PagesOK, Rendering
      <4>2. pc'[v] = "finished" /\ page'[v] = page[v]
        BY <1>0, <2>1, NoVisitAssumption
           DEF Complete, ReleaseLock, RunQueue, Goto, OthersOK
      <4> QED
        BY <4>1, <4>2 DEF Parked, MainParked, LoaderParked
    <3>2. \A u \in Visits \ {v, queued} : Parked(u)'
      BY OthersParked, ParkedFrame, OtherLabels
    <3> QED
      BY <3>1, <3>2 DEF OneRunnable, Runnable
  <2>2. CASE Request(v) \/ TakeOver(v) \/ Quiet(v)
    <3>1. \A u \in Visits \ {v} : Parked(u)'
      BY <2>2, OthersParked, ParkedFrame, OtherFrame
    <3> QED
      BY <3>1 DEF OneRunnable, Runnable
  <2> QED
    BY <2>1, <2>2, StepKinds
<1> QED
  BY <1>1, <1>2, QueueStep

-----------------------------------------------------------------------------
(* Until its page has settled, a visit that leaves the old page is not done,
   and it never ends; before it starts it has no document. *)
DocumentInv ==
    \A v \in Visits :
        /\ pc[v] \in Unstarted => ~doc[v]
        /\ pc[v] = "transition" => page[v] \in Settled \/ ~Done(v)
        /\ pc[v] = "finished" => page[v] \in Settled /\ ~doc[v]

(* Nothing is awaited between visit:start and the first done check but the
   page itself: a visit about to leave is the one that runs. *)
LEMMA LeaversRun ==
  ASSUME LeavesUndisturbed, NEW v \in Visits, pc[v] = "transition"
  PROVE  Runnable(v)
<1>1. HooksAt(pc[v]) = {"visit:transition"}
  BY DEF HooksAt
<1>2. HooksAt(pc[v]) \cap HandledHooks = {}
  BY <1>1 DEF LeavesUndisturbed
<1> QED
  BY <1>2 DEF Runnable, Parked, MainParked

(* The ways a step of v leads to "transition" or to "finished". *)
LEMMA OwnDocument ==
  ASSUME LeavesUndisturbed, OthersOK, StatesOK, PagesOK, DocumentInv,
         NEW v \in Visits, VisitStep(v)
  PROVE  /\ pc'[v] \in Unstarted => ~doc'[v]
         /\ pc'[v] = "transition" => page'[v] \in Settled \/ ~Done(v)'
         /\ pc'[v] = "finished" => page'[v] \in Settled /\ ~doc'[v]
<1>1. /\ pc[v] \in Unstarted => page[v] = "none" /\ ~doc[v]
      /\ pc[v] \in Rendering => page[v] \in Settled
      /\ pc[v] = "transition" => page[v] \in Settled \/ ~Done(v)
      /\ pc[v] = "finished" => page[v] \in Settled /\ ~doc[v]
  BY DEF PagesOK, DocumentInv
<1> USE <1>1 DEF OthersOK, Unstarted, Rendering, Settled, Goto, Finish
<1>2. CASE Request(v)
  BY <1>2 DEF Request, RequestIdle, RequestQueued, RequestAborting, TakeLock
<1>3. CASE TakeOver(v)
  BY <1>3 DEF TakeOver, TakeLock
<1>4. CASE Start(v)
  <2>1. ~Done(v)'
    BY <1>4 DEF Start, StatesOK, Done, STARTED, COMPLETED
  <2> QED
    BY <1>4, <2>1 DEF Start
<1>5. CASE Wait(v)
  BY <1>5 DEF Wait
<1>6. CASE Leave(v)
  BY <1>6 DEF Leave
<1>7. CASE Transition(v)
  BY <1>7 DEF Transition
<1>8. CASE Enter(v)
  BY <1>8 DEF Enter
<1>9. CASE Replace(v)
  BY <1>9 DEF Replace
<1>10. CASE Rendered(v)
  BY <1>10 DEF Rendered
<1>11. CASE Entered(v)
  BY <1>11 DEF Entered
<1>12. CASE Complete(v)
  BY <1>12 DEF Complete, ReleaseLock, RunQueue
<1>13. CASE PageRejects(v)
  BY <1>13 DEF PageRejects, Catch
<1>14. CASE ContainerMismatch(v)
  BY <1>14 DEF ContainerMismatch, Catch
<1>15. CASE HandlerThrows(v)
  <2>1. pc[v] \in Rendering
    BY <1>15 DEF HandlerThrows, HooksAt, ThrowingHooks, LeavesUndisturbed
  <2> QED
    BY <1>15, <2>1 DEF HandlerThrows, Catch
<1>16. CASE HandlerAborts(v)
  <2>1. pc[v] # "transition"
    BY <1>16, LeaversRun DEF HandlerAborts, Task, Quiescent, Runnable
  <2> QED
    BY <1>16, <2>1 DEF HandlerAborts
<1>17. CASE LoadPage(v)
  <2>1. pc[v] = "transition" => ~Done(v)'
    BY <1>17 DEF LoadPage, Done
  <2> QED
    BY <1>17, <2>1 DEF LoadPage
<1>18. CASE FetchSettles(v)
  <2>1. pc[v] # "transition"
    BY <1>18, LeaversRun DEF FetchSettles, Task, Quiescent, Runnable
  <2> QED
    BY <1>18, <2>1 DEF FetchSettles
<1>19. CASE PageArrives(v)
  BY <1>19 DEF PageArrives
<1> QED
  BY <1>2, <1>3, <1>4, <1>5, <1>6, <1>7, <1>8, <1>9, <1>10, <1>11, <1>12,
     <1>13, <1>14, <1>15, <1>16, <1>17, <1>18, <1>19
     DEF VisitStep, MainStep, LoaderStep

(* A visit that has ended has settled its page and dropped the document. *)
THEOREM DocumentsAreReleased ==
  ASSUME LeavesUndisturbed
  PROVE  Spec => []DocumentReleased
<1>1. Init => EventLoop /\ DocumentInv
  <2> SUFFICES ASSUME Init PROVE EventLoop /\ DocumentInv
    OBVIOUS
  <2>1. queued = NoVisit
        /\ \A v \in Visits : pc[v] = "idle" /\ page[v] = "none" /\ ~doc[v]
    BY DEF Init
  <2> QED
    BY <2>1 DEF EventLoop, OneRunnable, Runnable, Parked, MainParked,
       LoaderParked, QueuedIsWaiting, PagesOK, DocumentInv, Unstarted, Rendering
<1>2. TypeOK /\ EventLoop /\ DocumentInv /\ [Next]_vars
        => EventLoop' /\ DocumentInv'
  <2> SUFFICES ASSUME TypeOK, EventLoop, DocumentInv, [Next]_vars
               PROVE  EventLoop' /\ DocumentInv'
    OBVIOUS
  <2>1. CASE UNCHANGED vars \/ FallbackLoad
    <3>1. UNCHANGED <<queued, state, pc, page, doc>>
      BY <2>1 DEF vars, FallbackLoad
    <3> QED
      BY <3>1 DEF EventLoop, OneRunnable, Runnable, Parked, MainParked,
         LoaderParked, QueuedIsWaiting, PagesOK, DocumentInv, Done
  <2>2. ASSUME NEW v \in Visits, VisitStep(v) PROVE EventLoop' /\ DocumentInv'
    <3>1. OthersOK /\ StatesOK
      BY TypeParts
    <3>2. ASSUME NEW u \in Visits, u # v
          PROVE  /\ pc'[u] \in Unstarted => ~doc'[u]
                 /\ pc'[u] = "transition" => page'[u] \in Settled \/ ~Done(u)'
                 /\ pc'[u] = "finished" => page'[u] \in Settled /\ ~doc'[u]
      <4>1. page'[u] = page[u] /\ doc'[u] \in {FALSE, doc[u]}
        BY <2>2, <3>2, OtherLabels
      <4>2. CASE pc'[u] = pc[u]
        <5>1. pc[u] # "transition"
          BY <2>2, <3>2, LeaversRun, OthersParked DEF Runnable, EventLoop
        <5> QED
          BY <4>1, <4>2, <5>1 DEF DocumentInv
      <4>3. CASE u = queued /\ pc'[u] = "starting"
        BY <3>2, <4>1, <4>3, NoVisitAssumption
           DEF EventLoop, QueuedIsWaiting, DocumentInv, Unstarted
      <4> QED
        BY <2>2, <3>2, <4>2, <4>3, OtherLabels
    <3>3. DocumentInv'
      BY <2>2, <3>1, <3>2, OwnDocument DEF DocumentInv, EventLoop
    <3> QED
      BY <2>2, <3>3, EventLoopStep
  <2> QED
    BY <2>1, <2>2 DEF Next
<1>3. DocumentInv => DocumentReleased
  BY DEF DocumentInv, DocumentReleased
<1> QED
  BY <1>1, <1>2, <1>3, TypeCorrect, PTL DEF Spec

-----------------------------------------------------------------------------
(* Why the visit whose content is on the page is never aborted: from the
   replacement of the content on nothing but its own end may become of it. *)

(* No handler delays the beginning of visits, or runs for one that is shown. *)
ShowsUndisturbed ==
    /\ BeginsUndisturbed
    /\ HandledHooks \cap (HooksAt("rendered") \cup HooksAt("entering")
                            \cup HooksAt("ending")) = {}

(* The visit that is shown has its page and is on its way to its end. *)
IsShown(v) ==
    /\ pc[v] \in {"rendered", "entering", "ending", "finished"}
    /\ page[v] \in Settled
    /\ state[v] \in ENTERING..FAILED
    /\ state[v] # ABORTED

ShownInv == shown # NoVisit => IsShown(shown)

(* A visit that is shown stays so in every step of its own. *)
LEMMA OwnStepShows ==
  ASSUME ShowsUndisturbed, TypeOK, NEW v \in Visits, IsShown(v), VisitStep(v)
  PROVE  IsShown(v)' /\ shown' = shown
<1>1. CASE Request(v)
  BY <1>1 DEF Request, IsShown
<1>2. CASE HandlerAborts(v)
  <2>1. /\ HooksAt(pc[v]) \cap HandledHooks = {}
        /\ page[v] \notin {"requested", "received"}
    BY DEF IsShown, ShowsUndisturbed, HooksAt, Settled
  <2> QED
    BY <1>2, <2>1 DEF HandlerAborts
<1>3. CASE TakeOver(v) \/ Start(v) \/ Wait(v) \/ Transition(v) \/ Leave(v)
            \/ Enter(v) \/ Replace(v)
  BY <1>3 DEF TakeOver, Start, Wait, Transition, Leave, Enter, Replace, IsShown
<1>4. CASE Rendered(v)
  BY <1>4 DEF Rendered, Finish, Goto, TypeOK, IsShown
<1>5. CASE Entered(v)
  BY <1>5 DEF Entered, Finish, Goto, TypeOK, IsShown
<1>6. CASE Complete(v)
  <2>1. pc'[v] = "finished"
    BY <1>6 DEF Complete, ReleaseLock, RunQueue, Goto, TypeOK
  <2>2. state'[v] = COMPLETED /\ page' = page /\ shown' = shown
    BY <1>6 DEF Complete, TypeOK
  <2> QED
    BY <2>1, <2>2 DEF IsShown, COMPLETED, ABORTED, ENTERING, FAILED
<1>7. CASE PageRejects(v) \/ ContainerMismatch(v)
  BY <1>7 DEF PageRejects, ContainerMismatch, IsShown
<1>8. CASE HandlerThrows(v)
  <2>1. HooksAt(pc[v]) \cap HandledHooks = {}
    BY DEF IsShown, ShowsUndisturbed, HooksAt
  <2> QED
    BY <1>8, <2>1 DEF HandlerThrows
<1>9. CASE LoaderStep(v)
  BY <1>9 DEF LoaderStep, LoadPage, FetchSettles, PageArrives, IsShown, Settled
<1> QED
  BY <1>1, <1>2, <1>3, <1>4, <1>5, <1>6, <1>7, <1>8, <1>9
     DEF VisitStep, MainStep

(* So it does in every step of another visit that does not take its place. *)
LEMMA OtherStepShows ==
  ASSUME IInv, NEW v \in Visits, NEW s \in Visits, s # v, IsShown(s),
         VisitStep(v)
  PROVE  IsShown(s)'
<1>1. TypeOK /\ AbortsInTime /\ QueueWaits
  BY DEF IInv
<1>2. pc'[s] = pc[s] \/ Complete(v)
  BY <1>1 DEF TypeOK, VisitStep, MainStep, LoaderStep, Request, RequestIdle,
     RequestQueued, RequestAborting, HandlerAborts, TakeOver, TakeLock, Start,
     Wait, Transition, Leave, Enter, Replace, Rendered, Entered, PageRejects,
     ContainerMismatch, HandlerThrows, Catch, Finish, Goto, LoadPage,
     FetchSettles, PageArrives
<1>3. ASSUME Complete(v) PROVE pc'[s] = pc[s]
  <2>1. queued # NoVisit => queued # s
    BY <1>1 DEF QueueWaits, IsShown
  <2> QED
    BY <1>1, <1>3, <2>1 DEF TypeOK, Complete, ReleaseLock, RunQueue, Goto
<1>4. page'[s] = page[s]
  BY <1>1 DEF TypeOK, VisitStep, MainStep, LoaderStep, Request, HandlerAborts,
     TakeOver, Start, Wait, Transition, Leave, Enter, Replace, Rendered,
     Entered, Complete, PageRejects, ContainerMismatch, HandlerThrows, Catch,
     LoadPage, FetchSettles, PageArrives
<1>5. ASSUME TakeOver(v) PROVE state'[s] = state[s]
  <2>1. state[current] < ENTERING
    <3>1. ~ContentIn(current) /\ navigating
      BY <1>1, <1>5 DEF TakeOver, AbortsInTime
    <3>2. state[current] \in CREATED..FAILED
      BY <1>1, <3>1 DEF TypeOK
    <3> QED
      BY <3>1, <3>2 DEF ContentIn, CREATED, FAILED, ENTERING
  <2>2. current # s
    BY <2>1 DEF IsShown, ENTERING, FAILED
  <2> QED
    BY <1>1, <1>5, <2>2 DEF TakeOver, TypeOK
<1>6. ASSUME ~TakeOver(v) PROVE state'[s] = state[s]
  BY <1>1, <1>6 DEF TypeOK, VisitStep, MainStep, LoaderStep, Request,
     RequestIdle, RequestQueued, RequestAborting, HandlerAborts, Start, Wait,
     Transition, Leave, Enter, Replace, Rendered, Entered, Complete,
     PageRejects, ContainerMismatch, HandlerThrows, Catch, LoadPage,
     FetchSettles, PageArrives, Advance
<1> QED
  BY <1>2, <1>3, <1>4, <1>5, <1>6 DEF IsShown

(* A visit that is shown anew has replaced the content and is not done. *)
LEMMA NewlyShown ==
  ASSUME IInv, NEW v \in Visits, VisitStep(v), shown' # shown
  PROVE  shown' = v /\ IsShown(v)'
<1>1. Replace(v) /\ ~Done(v)
  BY DEF VisitStep, MainStep, LoaderStep, Request, HandlerAborts, TakeOver,
     Start, Wait, Transition, Leave, Enter, Replace, Rendered, Entered,
     Complete, PageRejects, ContainerMismatch, HandlerThrows, Catch, LoadPage,
     FetchSettles, PageArrives
<1>2. shown' = v /\ pc'[v] = "rendered" /\ page' = page /\ state' = state
  BY <1>1 DEF Replace, Goto, IInv, TypeOK
<1>3. page[v] \in Settled /\ state[v] >= ENTERING
  BY <1>1 DEF Replace, IInv, StagesOK, Rendering
<1>4. state[v] \in CREATED..FAILED /\ ~(state[v] >= COMPLETED)
  BY <1>1 DEF IInv, TypeOK, Done
<1> QED
  BY <1>2, <1>3, <1>4
     DEF IsShown, CREATED, ENTERING, COMPLETED, ABORTED, FAILED

(* The visit whose content is on the page is never aborted. *)
THEOREM ShownIsNotAborted ==
  ASSUME ShowsUndisturbed
  PROVE  Spec => []ShownNotAborted
<1>1. Init => ShownInv
  BY DEF Init, ShownInv
<1>2. IInv /\ ShownInv /\ [Next]_vars => ShownInv'
  <2> SUFFICES ASSUME IInv, ShownInv, [Next]_vars, shown' # NoVisit
               PROVE  IsShown(shown)'
    BY DEF ShownInv
  <2>1. CASE FallbackLoad \/ UNCHANGED vars
    BY <2>1 DEF FallbackLoad, vars, ShownInv, IsShown
  <2>2. ASSUME NEW v \in Visits, VisitStep(v) PROVE IsShown(shown)'
    <3>1. CASE shown' # shown
      BY <2>2, <3>1, NewlyShown
    <3>2. CASE shown' = shown
      <4>1. shown \in Visits /\ IsShown(shown) /\ TypeOK
        BY <3>2 DEF ShownInv, IInv, TypeOK
      <4>2. CASE shown = v
        BY <2>2, <4>1, <4>2, OwnStepShows
      <4>3. CASE shown # v
        <5>1. IsShown(shown)'
          <6> DEFINE s == shown
          <6>1. s \in Visits /\ s # v /\ IsShown(s) /\ s' = s
            BY <3>2, <4>1, <4>3
          <6> QED
            BY <2>2, <3>2, <4>1, <4>3, OtherStepShows
        <5> QED
          BY <5>1
      <4> QED
        BY <4>2, <4>3
    <3> QED
      BY <3>1, <3>2
  <2> QED
    BY <2>1, <2>2 DEF Next
<1>3. ShownInv => ShownNotAborted
  BY DEF ShownInv, IsShown, ShownNotAborted
<1>4. BeginsUndisturbed
  BY DEF ShowsUndisturbed
<1> QED
  BY <1>1, <1>2, <1>3, <1>4, Inductive, PTL DEF Spec

-----------------------------------------------------------------------------
(* What is awaited is there, with any handlers *)

(* A live visit that replaces the content has its page, and the document it was
   parsed to: replaceContent() does not give up for want of it. *)
ReplacesByItsPage ==
    \A v \in Visits :
        pc[v] = "replacing" /\ ~Done(v) => page[v] = "fulfilled" /\ doc[v]

(* Only a visit that is done goes without a page, and a page that has arrived
   stays with its visit as long as the visit lives. *)
PageInv ==
    \A v \in Visits :
        /\ pc[v] \in Rendering => page[v] \in {"fulfilled", "void"}
        /\ page[v] = "void" => Done(v)
        /\ page[v] = "fulfilled" /\ ~Done(v) /\ pc[v] # "finished" => doc[v]

(* What a step of v does to another visit is to end it. *)
LEMMA OtherStates ==
  ASSUME TypeOK, NEW v \in Visits, VisitStep(v), NEW u \in Visits, u # v
  PROVE  Done(u)' \/ (state'[u] = state[u] /\ doc'[u] = doc[u])
<1>0. OthersOK /\ StatesOK
  BY TypeParts
<1> USE <1>0 DEF OthersOK, StatesOK, Goto, Finish
<1>1. CASE Request(v)
  BY <1>1 DEF Request, RequestIdle, RequestQueued, RequestAborting
<1>2. CASE TakeOver(v)
  <2>1. CASE u = current
    <3>1. state'[u] = ABORTED
      BY <1>2, <2>1 DEF TakeOver
    <3> QED
      BY <3>1 DEF Done, ABORTED, COMPLETED
  <2>2. CASE u # current
    BY <1>2, <2>2 DEF TakeOver
  <2> QED
    BY <2>1, <2>2
<1>3. CASE Complete(v)
  BY <1>3 DEF Complete
<1>4. CASE Quiet(v)
  <2>1. state'[u] = state[u]
    BY <1>4, QuietFrame
  <2>2. CASE Start(v) \/ Wait(v) \/ Leave(v) \/ HandlerAborts(v)
    BY <2>1, <2>2 DEF Start, Wait, Leave, HandlerAborts
  <2>3. CASE Transition(v)
    BY <2>1, <2>3 DEF Transition
  <2>4. CASE Enter(v) \/ Replace(v)
    BY <2>1, <2>4 DEF Enter, Replace
  <2>5. CASE Rendered(v) \/ Entered(v)
    BY <2>1, <2>5 DEF Rendered, Entered
  <2>6. CASE PageRejects(v) \/ ContainerMismatch(v) \/ HandlerThrows(v)
    BY <2>1, <2>6 DEF PageRejects, ContainerMismatch, HandlerThrows, Catch
  <2>7. CASE LoaderStep(v)
    BY <2>1, <2>7 DEF LoaderStep, LoadPage, FetchSettles, PageArrives
  <2> QED
    BY <1>4, <2>2, <2>3, <2>4, <2>5, <2>6, <2>7 DEF Quiet
<1> QED
  BY <1>1, <1>2, <1>3, <1>4, StepKinds

(* The page and the document of v after a step of v. *)
LEMMA OwnPage ==
  ASSUME OthersOK, StatesOK, PagesOK, PageInv, NEW v \in Visits, VisitStep(v)
  PROVE  /\ pc'[v] \in Rendering => page'[v] \in {"fulfilled", "void"}
         /\ page'[v] = "void" => Done(v)'
         /\ page'[v] = "fulfilled" /\ ~Done(v)' /\ pc'[v] # "finished" => doc'[v]
<1>1. /\ pc[v] \in Unstarted => page[v] = "none"
      /\ pc[v] \in Rendering => page[v] \in {"fulfilled", "void"}
      /\ page[v] = "void" => Done(v)
      /\ page[v] = "fulfilled" /\ ~Done(v) /\ pc[v] # "finished" => doc[v]
  BY DEF PagesOK, PageInv
<1> USE <1>1 DEF OthersOK, Unstarted, Rendering, Goto, Finish
<1>2. CASE Request(v)
  BY <1>2 DEF Request, RequestIdle, RequestQueued, RequestAborting, TakeLock
<1>3. CASE TakeOver(v)
  <2>1. page'[v] = "none" /\ pc'[v] = "starting"
    BY <1>3 DEF TakeOver, TakeLock
  <2> QED
    BY <2>1
<1>4. CASE Start(v)
  BY <1>4 DEF Start
<1>5. CASE Wait(v) \/ Leave(v)
  BY <1>5 DEF Wait, Leave, Done
<1>6. CASE Transition(v)
  <2>1. CASE Done(v)
    BY <1>6, <2>1 DEF Transition, Done
  <2>2. CASE ~Done(v)
    BY <1>6, <2>2 DEF Transition
  <2> QED
    BY <2>1, <2>2
<1>7. CASE Enter(v)
  <2>1. CASE Done(v)
    BY <1>7, <2>1 DEF Enter, Done
  <2>2. CASE ~Done(v)
    BY <1>7, <2>2 DEF Enter
  <2> QED
    BY <2>1, <2>2
<1>8. CASE Replace(v)
  BY <1>8 DEF Replace, Done
<1>9. CASE Rendered(v)
  BY <1>9 DEF Rendered, Done
<1>10. CASE Entered(v)
  BY <1>10 DEF Entered, Done
<1>11. CASE Complete(v)
  <2>1. /\ pc'[v] \in {"finished", "starting"} /\ page'[v] = page[v]
        /\ state'[v] = COMPLETED
    BY <1>11 DEF Complete, ReleaseLock, RunQueue, StatesOK
  <2> QED
    BY <2>1 DEF Done, COMPLETED
<1>12. CASE PageRejects(v) \/ ContainerMismatch(v) \/ HandlerThrows(v)
  <2>1. /\ pc'[v] = "finished" /\ page'[v] = page[v]
        /\ state'[v] \in {ABORTED, FAILED}
    BY <1>12 DEF PageRejects, ContainerMismatch, HandlerThrows, Catch, StatesOK
  <2> QED
    BY <2>1 DEF Done, ABORTED, FAILED, COMPLETED
<1>13. CASE HandlerAborts(v)
  <2>1. pc'[v] = pc[v] /\ page'[v] = page[v] /\ state'[v] = ABORTED
    BY <1>13 DEF HandlerAborts, StatesOK
  <2> QED
    BY <2>1 DEF Done, ABORTED, COMPLETED
<1>14. CASE LoadPage(v)
  BY <1>14 DEF LoadPage, Done
<1>15. CASE FetchSettles(v)
  BY <1>15 DEF FetchSettles
<1>16. CASE PageArrives(v)
  BY <1>16 DEF PageArrives
<1> QED
  BY <1>2, <1>3, <1>4, <1>5, <1>6, <1>7, <1>8, <1>9, <1>10, <1>11, <1>12,
     <1>13, <1>14, <1>15, <1>16 DEF VisitStep, MainStep, LoaderStep

(* Whatever handlers do, a live visit never renders without its page. *)
THEOREM NeverWithoutItsPage ==
  Spec => []ReplacesByItsPage
<1>1. Init => EventLoop /\ PageInv
  <2> SUFFICES ASSUME Init PROVE EventLoop /\ PageInv
    OBVIOUS
  <2>1. queued = NoVisit
        /\ \A v \in Visits : pc[v] = "idle" /\ page[v] = "none"
    BY DEF Init
  <2> QED
    BY <2>1 DEF EventLoop, OneRunnable, Runnable, Parked, MainParked,
       LoaderParked, QueuedIsWaiting, PagesOK, PageInv, Unstarted, Rendering
<1>2. TypeOK /\ EventLoop /\ PageInv /\ [Next]_vars => EventLoop' /\ PageInv'
  <2> SUFFICES ASSUME TypeOK, EventLoop, PageInv, [Next]_vars
               PROVE  EventLoop' /\ PageInv'
    OBVIOUS
  <2>1. CASE UNCHANGED vars \/ FallbackLoad
    <3>1. UNCHANGED <<queued, state, pc, page, doc>>
      BY <2>1 DEF vars, FallbackLoad
    <3> QED
      BY <3>1 DEF EventLoop, OneRunnable, Runnable, Parked, MainParked,
         LoaderParked, QueuedIsWaiting, PagesOK, PageInv, Done
  <2>2. ASSUME NEW v \in Visits, VisitStep(v) PROVE EventLoop' /\ PageInv'
    <3>1. OthersOK /\ StatesOK /\ PagesOK
      BY TypeParts DEF EventLoop
    <3>2. ASSUME NEW u \in Visits, u # v
          PROVE  /\ pc'[u] \in Rendering => page'[u] \in {"fulfilled", "void"}
                 /\ page'[u] = "void" => Done(u)'
                 /\ page'[u] = "fulfilled" /\ ~Done(u)' /\ pc'[u] # "finished"
                       => doc'[u]
      <4>1. /\ page'[u] = page[u]
            /\ pc'[u] = pc[u] \/ (u = queued /\ pc'[u] = "starting")
        BY <2>2, <3>2, OtherLabels
      <4>2. Done(u)' \/ (state'[u] = state[u] /\ doc'[u] = doc[u])
        BY <2>2, <3>2, OtherStates
      <4>3. u = queued => pc[u] = "queued" /\ page[u] = "none"
        BY NoVisitAssumption DEF EventLoop, QueuedIsWaiting, PagesOK, Unstarted
      <4> QED
        BY <4>1, <4>2, <4>3 DEF PageInv, Done, Rendering
    <3>3. PageInv'
      BY <2>2, <3>1, <3>2, OwnPage DEF PageInv
    <3> QED
      BY <2>2, <3>3, EventLoopStep
  <2> QED
    BY <2>1, <2>2 DEF Next
<1>3. PageInv => ReplacesByItsPage
  BY DEF PageInv, ReplacesByItsPage, Rendering
<1> QED
  BY <1>1, <1>2, <1>3, TypeCorrect, PTL DEF Spec

-----------------------------------------------------------------------------
(* Visits take finitely many steps, with any handlers *)

(* How far the coroutines of a visit have come. *)
Stage(label) ==
    CASE label = "idle"                     -> 0
      [] label \in {"queued", "aborting"}   -> 1
      [] label = "starting"                 -> 2
      [] label = "waiting"                  -> 3
      [] label = "transition"               -> 4
      [] label \in {"leaving", "skipping"}  -> 5
      [] label = "loading"                  -> 6
      [] label = "replacing"                -> 7
      [] label = "rendered"                 -> 8
      [] label = "entering"                 -> 9
      [] label = "ending"                   -> 10
      [] label = "finished"                 -> 11

Arrived(p) ==
    CASE p = "none"      -> 0
      [] p = "requested" -> 1
      [] p = "fetching"  -> 2
      [] p = "received"  -> 3
      [] p \in Settled   -> 4

Travelled(v) == Stage(pc[v]) + Arrived(page[v])

LastStop == Stage("finished") + Arrived("fulfilled")

(* A step of a visit takes it further, if a handler does not abort it; no visit
   is ever taken back, by its own steps or by those of others. *)
MovesOn ==
    \A v \in Visits :
        /\ Travelled(v) <= Travelled(v)' /\ Travelled(v)' <= LastStop
        /\ VisitStep(v) => HandlerAborts(v) \/ Travelled(v) < Travelled(v)'

(* The stages are numbers up to those of the end. *)
LEMMA Stops ==
  ASSUME NEW label \in Labels, NEW p \in Loading \cup Settled
  PROVE  Stage(label) \in 0..11 /\ Arrived(p) \in 0..4
BY DEF Labels, Loading, Settled, Stage, Arrived

(* A step of v takes v from one stage to a later one. *)
LEMMA OwnStages ==
  ASSUME OthersOK, OthersOK', PagesOK, QueuedIsWaiting, NEW v \in Visits,
         VisitStep(v)
  PROVE  \/ HandlerAborts(v) /\ pc' = pc /\ page' = page
         \/ page'[v] = page[v] /\ Stage(pc[v]) < Stage(pc'[v])
         \/ pc'[v] = pc[v] /\ Arrived(page[v]) < Arrived(page'[v])
         \/ Stage(pc[v]) < Stage(pc'[v]) /\ Arrived(page[v]) < Arrived(page'[v])
<1>1. pc[v] \in Unstarted => page[v] = "none"
  BY DEF PagesOK
<1>2. pc'[v] = "finished" /\ pc[v] \in Labels \ {"finished"}
        => Stage(pc[v]) < Stage(pc'[v])
  BY DEF Stage, Labels
<1> USE DEF OthersOK, Goto, Finish
<1>3. CASE Request(v)
  <2>1. pc[v] = "idle" /\ pc'[v] \in {"starting", "queued", "aborting"}
        /\ page'[v] = page[v]
    BY <1>3 DEF Request, RequestIdle, RequestQueued, RequestAborting, TakeLock
  <2> QED
    BY <2>1 DEF Stage
<1>4. CASE TakeOver(v)
  <2>1. pc[v] = "aborting" /\ pc'[v] = "starting" /\ page'[v] = page[v]
    BY <1>4 DEF TakeOver, TakeLock
  <2> QED
    BY <2>1 DEF Stage
<1>5. CASE Start(v)
  <2>1. /\ pc[v] = "starting" /\ pc'[v] \in {"waiting", "transition"}
        /\ page[v] = "none" /\ page'[v] = "requested"
    BY <1>1, <1>5 DEF Start, Unstarted
  <2>2. Stage(pc[v]) < Stage(pc'[v])
    BY <2>1 DEF Stage
  <2>3. Arrived(page[v]) < Arrived(page'[v])
    BY <2>1 DEF Arrived, Settled
  <2> QED
    BY <2>2, <2>3
<1>6. CASE Wait(v) \/ Leave(v)
  <2>1. /\ page'[v] = page[v]
        /\ \/ pc[v] = "waiting" /\ pc'[v] = "transition"
           \/ pc[v] \in {"leaving", "skipping"} /\ pc'[v] = "loading"
    BY <1>6 DEF Wait, Leave
  <2> QED
    BY <2>1 DEF Stage
<1>7. CASE Transition(v)
  <2>1. /\ page'[v] = page[v] /\ pc[v] = "transition"
        /\ pc'[v] \in {"skipping", "leaving", "finished"}
    BY <1>7 DEF Transition
  <2> QED
    BY <2>1 DEF Stage
<1>8. CASE Enter(v) \/ Replace(v)
  <2>1. /\ page'[v] = page[v]
        /\ \/ pc[v] = "loading" /\ pc'[v] \in {"replacing", "finished"}
           \/ pc[v] = "replacing" /\ pc'[v] \in {"rendered", "finished"}
    BY <1>8 DEF Enter, Replace
  <2> QED
    BY <2>1 DEF Stage
<1>9. CASE Rendered(v) \/ Entered(v)
  <2>1. /\ page'[v] = page[v]
        /\ \/ pc[v] = "rendered" /\ pc'[v] \in {"entering", "ending", "finished"}
           \/ pc[v] = "entering" /\ pc'[v] \in {"ending", "finished"}
    BY <1>9 DEF Rendered, Entered
  <2> QED
    BY <2>1 DEF Stage
<1>10. CASE Complete(v)
  <2>1. queued # v
    BY <1>10, NoVisitAssumption DEF Complete, QueuedIsWaiting
  <2>2. pc[v] = "ending" /\ pc'[v] = "finished" /\ page'[v] = page[v]
    BY <1>10, <2>1 DEF Complete, ReleaseLock, RunQueue
  <2> QED
    BY <2>2 DEF Stage
<1>11. CASE PageRejects(v) \/ ContainerMismatch(v) \/ HandlerThrows(v)
  <2>1. pc'[v] = "finished" /\ page'[v] = page[v] /\ pc[v] \in Labels
    BY <1>11 DEF PageRejects, ContainerMismatch, HandlerThrows, Catch
  <2>2. pc[v] # "finished"
    BY <1>11 DEF PageRejects, ContainerMismatch, HandlerThrows, HooksAt
  <2> QED
    BY <1>2, <2>1, <2>2
<1>12. CASE HandlerAborts(v)
  BY <1>12 DEF HandlerAborts
<1>13. CASE LoadPage(v)
  <2>1. /\ pc'[v] = pc[v] /\ page[v] = "requested"
        /\ page'[v] \in {"void", "received", "fetching"}
    BY <1>13 DEF LoadPage
  <2> QED
    BY <2>1 DEF Arrived, Settled
<1>14. CASE FetchSettles(v)
  <2>1. /\ pc'[v] = pc[v] /\ page[v] = "fetching"
        /\ page'[v] \in {"received", "failed", "aborted"}
    BY <1>14 DEF FetchSettles
  <2> QED
    BY <2>1 DEF Arrived, Settled
<1>15. CASE PageArrives(v)
  <2>1. pc'[v] = pc[v] /\ page[v] = "received" /\ page'[v] = "fulfilled"
    BY <1>15 DEF PageArrives
  <2> QED
    BY <2>1 DEF Arrived, Settled
<1> QED
  BY <1>3, <1>4, <1>5, <1>6, <1>7, <1>8, <1>9, <1>10, <1>11, <1>12, <1>13,
     <1>14, <1>15 DEF VisitStep, MainStep, LoaderStep

(* A step of v takes another visit no way back. *)
LEMMA OtherStages ==
  ASSUME TypeOK, QueuedIsWaiting, NEW v \in Visits, VisitStep(v),
         NEW u \in Visits, u # v
  PROVE  /\ page'[u] = page[u]
         /\ pc'[u] = pc[u] \/ Stage(pc[u]) < Stage(pc'[u])
<1>1. page'[u] = page[u] /\ (pc'[u] = pc[u] \/ (u = queued /\ pc'[u] = "starting"))
  BY OtherLabels
<1>2. u = queued => pc[u] = "queued"
  BY NoVisitAssumption DEF QueuedIsWaiting
<1> QED
  BY <1>1, <1>2 DEF Stage

(* With any handlers, every visit takes at most fifteen steps of its own: so a
   visit that goes on forever would have to be aborted forever, and that changes
   it but once. *)
THEOREM VisitsMoveOn ==
  Spec => [][MovesOn]_vars
<1>1. Init => EventLoop
  <2> SUFFICES ASSUME Init PROVE EventLoop
    OBVIOUS
  <2>1. queued = NoVisit
        /\ \A v \in Visits : pc[v] = "idle" /\ page[v] = "none"
    BY DEF Init
  <2> QED
    BY <2>1 DEF EventLoop, OneRunnable, Runnable, Parked, MainParked,
       LoaderParked, QueuedIsWaiting, PagesOK, Unstarted, Rendering
<1>2. TypeOK /\ EventLoop /\ [Next]_vars => EventLoop'
  <2>1. EventLoop /\ (UNCHANGED vars \/ FallbackLoad) => EventLoop'
    BY DEF vars, FallbackLoad, EventLoop, OneRunnable, Runnable, Parked,
       MainParked, LoaderParked, QueuedIsWaiting, PagesOK
  <2> QED
    BY <2>1, EventLoopStep DEF Next
<1>3. TypeOK /\ TypeOK' /\ EventLoop /\ [Next]_vars => [MovesOn]_vars
  <2> SUFFICES ASSUME TypeOK, TypeOK', EventLoop, Next, NEW v \in Visits
               PROVE  /\ Travelled(v) <= Travelled(v)'
                      /\ Travelled(v)' <= LastStop
                      /\ VisitStep(v) =>
                            HandlerAborts(v) \/ Travelled(v) < Travelled(v)'
    BY DEF MovesOn
  <2>1. /\ Stage(pc[v]) \in 0..11 /\ Arrived(page[v]) \in 0..4
        /\ Stage(pc'[v]) \in 0..11 /\ Arrived(page'[v]) \in 0..4
    <3>1. /\ pc[v] \in Labels /\ page[v] \in Loading \cup Settled
          /\ pc'[v] \in Labels /\ page'[v] \in Loading \cup Settled
      BY DEF TypeOK
    <3> QED
      BY <3>1, Stops
  <2>2. /\ Travelled(v) = Stage(pc[v]) + Arrived(page[v])
        /\ Travelled(v)' = Stage(pc'[v]) + Arrived(page'[v])
        /\ LastStop = 11 + 4
    BY DEF Travelled, LastStop, Stage, Arrived, Settled
  <2>3. VisitStep(v) =>
            \/ HandlerAborts(v) /\ pc' = pc /\ page' = page
            \/ page'[v] = page[v] /\ Stage(pc[v]) < Stage(pc'[v])
            \/ pc'[v] = pc[v] /\ Arrived(page[v]) < Arrived(page'[v])
            \/ Stage(pc[v]) < Stage(pc'[v]) /\ Arrived(page[v]) < Arrived(page'[v])
    <3>1. OthersOK /\ PagesOK /\ QueuedIsWaiting
      BY TypeParts DEF EventLoop
    <3>2. VisitStep(v) => OthersOK'
      BY <3>1, OthersStayOK
    <3> QED
      BY <3>1, <3>2, OwnStages
  <2>4. ~VisitStep(v) =>
            /\ page'[v] = page[v]
            /\ pc'[v] = pc[v] \/ Stage(pc[v]) < Stage(pc'[v])
    <3>1. CASE FallbackLoad
      BY <3>1 DEF FallbackLoad
    <3>2. ASSUME NEW w \in Visits, VisitStep(w), w # v
          PROVE  /\ page'[v] = page[v]
                 /\ pc'[v] = pc[v] \/ Stage(pc[v]) < Stage(pc'[v])
      BY <3>2, OtherStages DEF EventLoop
    <3> QED
      BY <3>1, <3>2 DEF Next
  <2> HIDE DEF Travelled, LastStop, Stage, Arrived
  <2> QED
    BY <2>1, <2>2, <2>3, <2>4
<1> QED
  BY <1>1, <1>2, <1>3, TypeCorrect, PTL DEF Spec
=============================================================================
