------------------------------ MODULE Navigation ------------------------------
(***************************************************************************)
(* The visits of one swup instance: performNavigation(), the coroutine that *)
(* takes a visit from its request to its end, together with the page:load   *)
(* call it starts and the renderPage / animatePageOut / animatePageIn calls *)
(* it awaits.                                                               *)
(*                                                                          *)
(* Every visit has two coroutines: the main one (pc) and the loading of its *)
(* page (page).  A step runs a coroutine from one await to the next.  The   *)
(* instance shares `navigating`, `visit` (here: current) and `onVisitEnd`   *)
(* (here: queued) among all visits.                                         *)
(*                                                                          *)
(* Awaiting a hook without handlers is a chain of microtasks, which no task *)
(* (a click, a timer, an answer of the network) can interrupt.  A coroutine *)
(* is parked when only a task can resume it; tasks start when every         *)
(* coroutine is parked.  HandledHooks is the set of hooks during which      *)
(* other code may run: user handlers of theirs wait, call visit.abort() or  *)
(* throw, or the application calls navigate() between their microtasks, as  *)
(* two calls in one task do at visit:start and visit:abort.                 *)
(* URLs and the history are not modelled here.                              *)
(***************************************************************************)
EXTENDS Naturals

CONSTANTS
    Visits,       \* the visit objects a behaviour may use
    NoVisit,      \* no visit: undefined in the code
    HandledHooks  \* the hooks during which other code may run

HookNames ==
    {"visit:start", "visit:abort", "visit:transition", "visit:end",
     "page:load", "page:view", "content:replace", "content:scroll",
     "animation:out:start", "animation:out:await", "animation:out:end",
     "animation:in:await", "animation:in:start", "animation:in:end",
     "animation:skip"}

ASSUME NoVisitAssumption == NoVisit \notin Visits
ASSUME HandledHooksAssumption == HandledHooks \subseteq HookNames

VARIABLES
    navigating,  \* swup.navigating
    current,     \* swup.visit
    queued,      \* the visit that swup.onVisitEnd closes over
    state,       \* state[v]: visit.state
    pc,          \* pc[v]: the await at which performNavigation(v) stands
    page,        \* page[v]: the progress of the page:load call of v
    doc,         \* doc[v]: visit.to.document is set
    animated,    \* animated[v]: visit.animation.animate, as read when leaving
    shown,       \* the visit whose content was rendered last
    fallback,    \* the visit whose URL skipPopStateHandling will assign
    unloaded,    \* the browser has left the page
    latest       \* history variable: the visit requested last

vars == <<navigating, current, queued, state, pc, page, doc, animated,
          shown, fallback, unloaded, latest>>

(* VisitState *)
CREATED == 1
QUEUED == 2
STARTED == 3
LEAVING == 4
LOADED == 5
ENTERING == 6
COMPLETED == 7
ABORTED == 8
FAILED == 9

Done(v) == state[v] >= COMPLETED

(* A bug to detect: advance() assigns without comparing. *)
AdvanceAnyway(v, s) == state' = [state EXCEPT ![v] = s]

(* Visit.advance(): the state only ever moves forward. *)
Advance(v, s) ==
    state' = IF state[v] < s THEN [state EXCEPT ![v] = s] ELSE state

-----------------------------------------------------------------------------
(* The event loop *)

(* The awaits of performNavigation, "idle" before and "finished" after it. *)
Labels ==
    {"idle", "queued", "aborting", "starting", "waiting", "transition",
     "leaving", "skipping", "loading", "replacing", "rendered", "entering",
     "ending", "finished"}

(* The hooks whose handlers performNavigation may be waiting for at a label. *)
HooksAt(label) ==
    CASE label = "aborting"   -> {"visit:abort"}
      [] label = "starting"   -> {"visit:start"}
      [] label = "transition" -> {"visit:transition"}
      [] label = "leaving"    -> {"animation:out:start", "animation:out:await",
                                  "animation:out:end"}
      [] label = "skipping"   -> {"animation:skip"}
      [] label = "replacing"  -> {"content:replace"}
      [] label = "rendered"   -> {"content:replace", "content:scroll",
                                  "page:view", "visit:transition"}
      [] label = "entering"   -> {"animation:in:await", "animation:in:start",
                                  "animation:in:end", "visit:transition"}
      [] label = "ending"     -> {"visit:end"}
      [] OTHER                -> {}

(* The hooks with a default handler, whose replacement may throw. *)
ThrowingHooks ==
    {"visit:transition", "visit:end", "content:replace", "content:scroll",
     "animation:out:start", "animation:out:await", "animation:in:await",
     "animation:in:start"}

Loading == {"none", "requested", "fetching", "received"}
Settled == {"fulfilled", "void", "failed", "aborted"}

MainParked(v) ==
    \/ pc[v] \in {"idle", "queued", "finished"}
    \/ pc[v] \in {"leaving", "entering"}                 \* timers, events
    \/ pc[v] \in {"waiting", "loading"} /\ page[v] \notin Settled
    \/ HooksAt(pc[v]) \cap HandledHooks # {}

LoaderParked(v) ==
    \/ page[v] \in {"none", "fetching"} \cup Settled
    \/ "page:load" \in HandledHooks

Parked(v) == MainParked(v) /\ LoaderParked(v)
Quiescent == \A v \in Visits : Parked(v)

MainTurn(v) == ~unloaded /\ (MainParked(v) => Quiescent)
LoaderTurn(v) == ~unloaded /\ (LoaderParked(v) => Quiescent)
Task == ~unloaded /\ Quiescent

Goto(v, label) == pc' = [pc EXCEPT ![v] = label]

(* A bug to detect: no finally block. *)
FinishKeepingDocument(v) == Goto(v, "finished") /\ UNCHANGED doc

(* The end of performNavigation(v), whichever way: the finally block. *)
Finish(v) ==
    /\ Goto(v, "finished")
    /\ doc' = [doc EXCEPT ![v] = FALSE]

-----------------------------------------------------------------------------
(* Requests: a click, a popstate event, a call of navigate(). *)

TakeLock(v) ==
    /\ navigating' = TRUE
    /\ current' = v
    /\ Goto(v, "starting")

(* A bug to detect: > for >=. *)
ContentInTooLate(v) == state[v] > ENTERING

(* "Content already loaded": the visit may finish, later ones have to wait. *)
ContentIn(v) == state[v] >= ENTERING

(* Nothing is running: the visit starts at once. *)
RequestIdle(v) ==
    /\ ~navigating
    /\ TakeLock(v)
    /\ UNCHANGED <<queued, state>>

(* A bug to detect: the first request stays in the queue. *)
RequestQueuedOnce(v) ==
    /\ navigating
    /\ ContentIn(current)
    /\ state' = [state EXCEPT ![v] = QUEUED]
    /\ queued' = IF queued = NoVisit THEN v ELSE queued
    /\ Goto(v, "queued")
    /\ UNCHANGED <<navigating, current>>

(* The content of the running visit is in: v replaces what was queued. *)
RequestQueued(v) ==
    /\ navigating
    /\ ContentIn(current)
    /\ state' = [state EXCEPT ![v] = QUEUED]
    /\ queued' = v
    /\ Goto(v, "queued")
    /\ UNCHANGED <<navigating, current>>

(* The content is not in yet: call visit:abort for the running visit. *)
RequestAborting(v) ==
    /\ navigating
    /\ ~ContentIn(current)
    /\ Goto(v, "aborting")
    /\ UNCHANGED <<navigating, current, queued, state>>

Request(v) ==
    /\ Task
    /\ pc[v] = "idle"
    /\ RequestIdle(v) \/ RequestQueued(v) \/ RequestAborting(v)
    /\ latest' = v
    /\ UNCHANGED <<page, doc, animated, shown, fallback, unloaded>>

(* A bug to detect: the running visit is told but not marked. *)
TakeOverUnmarked(v) ==
    /\ pc[v] = "aborting"
    /\ MainTurn(v)
    /\ doc' = [doc EXCEPT ![current] = FALSE]
    /\ TakeLock(v)
    /\ UNCHANGED <<queued, state, page, animated, shown, fallback, unloaded,
                   latest>>

(* visit:abort has returned.  The code reads swup.visit again only now. *)
TakeOver(v) ==
    /\ pc[v] = "aborting"
    /\ MainTurn(v)
    /\ doc' = [doc EXCEPT ![current] = FALSE]
    /\ state' = [state EXCEPT ![current] = ABORTED]
    /\ TakeLock(v)
    /\ UNCHANGED <<queued, page, animated, shown, fallback, unloaded, latest>>

-----------------------------------------------------------------------------
(* The main coroutine *)

(* visit:start has returned: mark the visit as started, whatever its state,
   begin loading, update the history, wait for the page if asked to. *)
Start(v) ==
    /\ pc[v] = "starting"
    /\ MainTurn(v)
    /\ state' = [state EXCEPT ![v] = STARTED]
    /\ page' = [page EXCEPT ![v] = "requested"]
    /\ \E wait \in BOOLEAN :
          Goto(v, IF wait THEN "waiting" ELSE "transition")
    /\ UNCHANGED <<navigating, current, queued, doc, animated, shown,
                   fallback, unloaded, latest>>

(* The awaited page has arrived before the visit leaves the old page. *)
Wait(v) ==
    /\ pc[v] = "waiting"
    /\ page[v] \in {"fulfilled", "void"}
    /\ MainTurn(v)
    /\ Goto(v, "transition")
    /\ UNCHANGED <<navigating, current, queued, state, page, doc, animated,
                   shown, fallback, unloaded, latest>>

(* The first done check; else visit:transition skips or starts the animation. *)
Transition(v) ==
    /\ pc[v] = "transition"
    /\ MainTurn(v)
    /\ \/ /\ Done(v)
          /\ Finish(v)
          /\ UNCHANGED <<state, animated>>
       \/ /\ ~Done(v)
          /\ Goto(v, "skipping")
          /\ animated' = [animated EXCEPT ![v] = FALSE]
          /\ UNCHANGED <<state, doc>>
       \/ /\ ~Done(v)
          /\ Advance(v, LEAVING)
          /\ Goto(v, "leaving")
          /\ animated' = [animated EXCEPT ![v] = TRUE]
          /\ UNCHANGED doc
    /\ UNCHANGED <<navigating, current, queued, page, shown, fallback,
                   unloaded, latest>>

(* The out animation (or animation:skip) is over: await the page. *)
Leave(v) ==
    /\ pc[v] \in {"leaving", "skipping"}
    /\ MainTurn(v)
    /\ Goto(v, "loading")
    /\ UNCHANGED <<navigating, current, queued, state, page, doc, animated,
                   shown, fallback, unloaded, latest>>

(* renderPage() begins: nothing to do for a visit that is done. *)
Enter(v) ==
    /\ pc[v] = "loading"
    /\ page[v] \in {"fulfilled", "void"}
    /\ MainTurn(v)
    /\ \/ /\ Done(v)
          /\ Finish(v)
          /\ UNCHANGED state
       \/ /\ ~Done(v)
          /\ Advance(v, ENTERING)
          /\ Goto(v, "replacing")
          /\ UNCHANGED doc
    /\ UNCHANGED <<navigating, current, queued, page, animated, shown,
                   fallback, unloaded, latest>>

(* content:replace: its default handler is skipped for a visit that is done. *)
Replace(v) ==
    /\ pc[v] = "replacing"
    /\ MainTurn(v)
    /\ \/ /\ Done(v)
          /\ Finish(v)
          /\ UNCHANGED shown
       \/ /\ ~Done(v)
          /\ doc[v]
          /\ shown' = v
          /\ Goto(v, "rendered")
          /\ UNCHANGED doc
    /\ UNCHANGED <<navigating, current, queued, state, page, animated,
                   fallback, unloaded, latest>>

(* renderPage() is over: animate in, or go on to the second done check. *)
Rendered(v) ==
    /\ pc[v] = "rendered"
    /\ MainTurn(v)
    /\ \/ Done(v) /\ Finish(v)
       \/ ~Done(v) /\ animated[v] /\ Goto(v, "entering") /\ UNCHANGED doc
       \/ ~Done(v) /\ ~animated[v] /\ Goto(v, "ending") /\ UNCHANGED doc
    /\ UNCHANGED <<navigating, current, queued, state, page, animated, shown,
                   fallback, unloaded, latest>>

(* The in animation is over: the second done check. *)
Entered(v) ==
    /\ pc[v] = "entering"
    /\ MainTurn(v)
    /\ \/ Done(v) /\ Finish(v)
       \/ ~Done(v) /\ Goto(v, "ending") /\ UNCHANGED doc
    /\ UNCHANGED <<navigating, current, queued, state, page, animated, shown,
                   fallback, unloaded, latest>>

(* Bugs to detect: onVisitEnd is called unset, is not reset, is not called. *)
RunQueueUnset(v) ==
    /\ navigating' = TRUE
    /\ current' = queued
    /\ queued' = NoVisit
    /\ pc' = [u \in Visits |-> CASE u = v -> "finished"
                                [] u # v /\ u = queued -> "starting"
                                [] OTHER -> pc[u]]

RunQueueKept(v) ==
    /\ queued # NoVisit
    /\ navigating' = TRUE
    /\ current' = queued
    /\ pc' = [pc EXCEPT ![v] = "finished", ![queued] = "starting"]
    /\ UNCHANGED queued

RunQueueForgotten(v) ==
    /\ queued # NoVisit
    /\ navigating' = FALSE
    /\ Goto(v, "finished")
    /\ UNCHANGED <<current, queued>>

(* onVisitEnd() takes the lock again before any other code can run. *)
RunQueue(v) ==
    /\ queued # NoVisit
    /\ navigating' = TRUE
    /\ current' = queued
    /\ queued' = NoVisit
    /\ pc' = [pc EXCEPT ![v] = "finished", ![queued] = "starting"]

ReleaseLock(v) ==
    /\ queued = NoVisit
    /\ navigating' = FALSE
    /\ Goto(v, "finished")
    /\ UNCHANGED <<current, queued>>

(* visit:end has returned: complete, without looking at the state again. *)
Complete(v) ==
    /\ pc[v] = "ending"
    /\ MainTurn(v)
    /\ state' = [state EXCEPT ![v] = COMPLETED]
    /\ doc' = [doc EXCEPT ![v] = FALSE]
    /\ ReleaseLock(v) \/ RunQueue(v)
    /\ UNCHANGED <<page, animated, shown, fallback, unloaded, latest>>

(* The catch block.  An aborted request ends the visit quietly; any other
   error makes the next popstate event load the visit's URL.  Neither releases
   the lock. *)
Catch(v, aborted) ==
    /\ Finish(v)
    /\ IF aborted
       THEN /\ state' = [state EXCEPT ![v] = ABORTED]
            /\ UNCHANGED fallback
       ELSE /\ state' = [state EXCEPT ![v] = FAILED]
            /\ fallback' = v
    /\ UNCHANGED <<navigating, current, queued, page, animated, shown,
                   unloaded, latest>>

(* `await page` rejects. *)
PageRejects(v) ==
    /\ pc[v] \in {"waiting", "loading"}
    /\ page[v] \in {"failed", "aborted"}
    /\ MainTurn(v)
    /\ Catch(v, page[v] = "aborted")

(* replaceContent() has no document or misses a container. *)
ContainerMismatch(v) ==
    /\ pc[v] = "replacing"
    /\ MainTurn(v)
    /\ ~Done(v)
    /\ Catch(v, FALSE)

(* A handler that replaces a default handler throws, an error or undefined. *)
HandlerThrows(v) ==
    /\ HooksAt(pc[v]) \cap HandledHooks \cap ThrowingHooks # {}
    /\ MainTurn(v)
    /\ \E aborted \in BOOLEAN : Catch(v, aborted)

(* A handler calls visit.abort() on the visit it was given. *)
HandlerAborts(v) ==
    /\ Task
    /\ \/ \E hook \in HooksAt(pc[v]) \cap HandledHooks : hook # "visit:abort"
       \/ page[v] \in {"requested", "received"} /\ "page:load" \in HandledHooks
    /\ state' = [state EXCEPT ![v] = ABORTED]
    /\ UNCHANGED <<navigating, current, queued, pc, page, doc, animated,
                   shown, fallback, unloaded, latest>>

-----------------------------------------------------------------------------
(* The loading coroutine *)

(* The default handler of page:load: skipped for a visit that is done, else
   the page comes from the cache or from the network. *)
LoadPage(v) ==
    /\ page[v] = "requested"
    /\ LoaderTurn(v)
    /\ \/ Done(v) /\ page' = [page EXCEPT ![v] = "void"]
       \/ ~Done(v) /\ page' = [page EXCEPT ![v] = "received"]
       \/ ~Done(v) /\ page' = [page EXCEPT ![v] = "fetching"]
    /\ UNCHANGED <<navigating, current, queued, state, pc, doc, animated,
                   shown, fallback, unloaded, latest>>

(* The network answers: a page; an error, a 500 or a timeout; an abort. *)
FetchSettles(v) ==
    /\ page[v] = "fetching"
    /\ Task
    /\ \E answer \in {"received", "failed", "aborted"} :
          page' = [page EXCEPT ![v] = answer]
    /\ UNCHANGED <<navigating, current, queued, state, pc, doc, animated,
                   shown, fallback, unloaded, latest>>

(* page.then(): whatever has become of the visit, store the document. *)
PageArrives(v) ==
    /\ page[v] = "received"
    /\ LoaderTurn(v)
    /\ page' = [page EXCEPT ![v] = "fulfilled"]
    /\ Advance(v, LOADED)
    /\ doc' = [doc EXCEPT ![v] = TRUE]
    /\ UNCHANGED <<navigating, current, queued, pc, animated, shown,
                   fallback, unloaded, latest>>

(* The popstate event of history.back() runs the overridden
   skipPopStateHandling: the browser loads the failed visit's URL itself. *)
FallbackLoad ==
    /\ Task
    /\ fallback # NoVisit
    /\ unloaded' = TRUE
    /\ UNCHANGED <<navigating, current, queued, state, pc, page, doc,
                   animated, shown, fallback, latest>>

-----------------------------------------------------------------------------
Init ==
    /\ navigating = FALSE
    /\ current = NoVisit
    /\ queued = NoVisit
    /\ state = [v \in Visits |-> CREATED]
    /\ pc = [v \in Visits |-> "idle"]
    /\ page = [v \in Visits |-> "none"]
    /\ doc = [v \in Visits |-> FALSE]
    /\ animated = [v \in Visits |-> FALSE]
    /\ shown = NoVisit
    /\ fallback = NoVisit
    /\ unloaded = FALSE
    /\ latest = NoVisit

MainStep(v) ==
    \/ TakeOver(v)
    \/ Start(v)
    \/ Wait(v)
    \/ Transition(v)
    \/ Leave(v)
    \/ Enter(v)
    \/ Replace(v)
    \/ Rendered(v)
    \/ Entered(v)
    \/ Complete(v)
    \/ PageRejects(v)
    \/ ContainerMismatch(v)
    \/ HandlerThrows(v)

LoaderStep(v) == LoadPage(v) \/ FetchSettles(v) \/ PageArrives(v)

VisitStep(v) == Request(v) \/ HandlerAborts(v) \/ MainStep(v) \/ LoaderStep(v)

Next == FallbackLoad \/ \E v \in Visits : VisitStep(v)

Spec == Init /\ [][Next]_vars

(* Timers fire, handlers return, the network answers.  No request, no abort
   and no popstate event need ever happen. *)
Fairness == \A v \in Visits : WF_vars(MainStep(v)) /\ WF_vars(LoaderStep(v))

FairSpec == Spec /\ Fairness

-----------------------------------------------------------------------------
(* Properties *)

(* The types of the state; the lock is only ever held for a visit, so that
   onVisitEnd never starts a visit that is not there (navigate.ts:212). *)
TypeOK ==
    /\ navigating \in BOOLEAN
    /\ current \in Visits \cup {NoVisit}
    /\ navigating => current \in Visits
    /\ queued \in Visits \cup {NoVisit}
    /\ state \in [Visits -> CREATED..FAILED]
    /\ pc \in [Visits -> Labels]
    /\ page \in [Visits -> Loading \cup Settled]
    /\ doc \in [Visits -> BOOLEAN]
    /\ animated \in [Visits -> BOOLEAN]
    /\ shown \in Visits \cup {NoVisit}
    /\ fallback \in Visits \cup {NoVisit}
    /\ unloaded \in BOOLEAN
    /\ latest \in Visits \cup {NoVisit}

Running ==
    {"starting", "waiting", "transition", "leaving", "skipping", "loading",
     "replacing", "rendered", "entering", "ending"}

Live(v) == pc[v] \in Running /\ ~Done(v)

(* The mutual exclusion of visits: a visit that has begun and is not done is
   swup.visit and holds the lock, so that no two visits ever animate, replace
   content or end side by side (navigate.ts:70-85, "Abort running visit"). *)
LiveIsCurrent == \A v \in Visits : Live(v) => navigating /\ current = v

(* When swup is idle again, the page shows the visit requested last, whatever
   was superseded, queued, dropped, late or lost in between. *)
LatestWins ==
    ~navigating /\ latest # NoVisit =>
        /\ current = latest
        /\ shown = latest
        /\ state[latest] = COMPLETED

(* A queued request waits for a visit whose content is in, and onVisitEnd never
   closes over a visit that has begun: it is consumed exactly once. *)
QueueWaits ==
    queued # NoVisit =>
        /\ navigating
        /\ state[current] >= ENTERING
        /\ pc[queued] = "queued"

(* "Currently navigating and content already loaded? Finish and queue"
   (navigate.ts:72): the visit whose content is on the page is never aborted. *)
ShownNotAborted == shown # NoVisit => state[shown] # ABORTED

(* A visit that has ended keeps no parsed document, even if its page arrived
   after it was aborted (the finally block, navigate.ts:236-238). *)
DocumentReleased == \A v \in Visits : pc[v] = "finished" => ~doc[v]

(* A failed, aborted or completed visit never becomes live again, whatever its
   late page, timers or handlers still do (the done checks, navigate.ts:178). *)
NoRevival == [][\A v \in Visits : Done(v) => Done(v)']_vars

(* Only a failure of the visit swup is on may take the browser back and to
   another URL: a superseded visit ends without a trace (navigate.ts:178,
   CHANGELOG.md:48 "Abort superseded visits"). *)
FailureIsCurrent == fallback # NoVisit => fallback = current

(* onVisitEnd is "run anytime a visit ends" (Swup.ts:111): no request is left
   in the queue behind a visit that has ended, unless the page is given up. *)
QueueIsServed ==
    queued # NoVisit /\ pc[current] = "finished" => fallback # NoVisit

(* The lock is still held by a visit that has ended in the catch block or at a
   done check: nothing releases it any more. *)
Stuck == navigating /\ pc[current] = "finished"

(* Every request comes to an end: it runs to its end, is dropped for a later
   one, or the page is given up. *)
Settles ==
    \A v \in Visits :
        pc[v] # "idle" ~>
            \/ pc[v] = "finished"
            \/ pc[v] = "queued" /\ queued # v
            \/ Stuck
            \/ unloaded

(* What has become of the visit that holds the lock. *)
Phase ==
    CASE ~navigating                              -> "idle"
      [] navigating /\ state[current] < ENTERING -> "loading"
      [] navigating /\ state[current] = ENTERING -> "rendering"
      [] navigating /\ state[current] > ENTERING -> "failed"

Promise == INSTANCE VisitQueue WITH
    running <- IF navigating THEN current ELSE NoVisit,
    phase <- Phase,
    next <- queued

(* Without handlers navigation keeps the promise of VisitQueue: requests run,
   supersede or wait exactly as performNavigation's comments say. *)
ImplementsVisitQueue == Promise!QSpec
=============================================================================
