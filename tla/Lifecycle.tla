------------------------------- MODULE Lifecycle -------------------------------
(***************************************************************************)
(* enable(), destroy(), use() and unuse() of one swup instance, beside its  *)
(* visits.  The synchronous part of a call is one step; enable() goes on    *)
(* after a tick (two animation frames), destroy() when the disable hook is  *)
(* over, which lasts as long as the handlers of that hook take.  Other      *)
(* calls and the visits may come in between.                                *)
(*                                                                          *)
(* The enable and disable hooks are called without a visit and fall back to *)
(* swup.visit: when it is done their default handlers are skipped.          *)
(***************************************************************************)
EXTENDS Navigation

CONSTANTS
    Plugins,     \* plugin instances
    Configured,  \* options.plugins
    Unmet,       \* the plugins whose _checkRequirements() fails
    MaxCalls     \* bound on the calls by the application

ASSUME PluginsAssumption ==
    Configured \subseteq Plugins /\ Unmet \subseteq Plugins
ASSUME MaxCallsAssumption == MaxCalls \in Nat

VARIABLES
    called,     \* the call made last, "enable" or "destroy"
    calls,      \* the number of calls made by the application
    ticks,      \* the calls of enable() that wait for their tick
    disabling,  \* the calls of destroy() that wait for the disable hook
    delegates,  \* the click listeners in the document
    held,       \* clickDelegate is one of them
    listening,  \* the popstate listener is in place
    classed,    \* html has the class swup-enabled
    hooked,     \* the handlers of options.hooks are registered
    mounted,    \* mounted[p]: calls of mount() less calls of unmount()
    listed,     \* listed[p]: the entries of p in swup.plugins
    alternating,\* history: calls of enable() and destroy() have alternated, none
                \* has failed, and no plugin was used that was listed already
    overlapped, \* history: a call was made before the one before had settled
    skipped     \* history: a hook has found its visit done

plugins == <<mounted, listed>>
listeners == <<delegates, held, listening>>
history == <<alternating, overlapped, skipped>>
lifecycle == <<called, calls, ticks, disabling, listeners, classed, hooked,
               plugins, history>>
allVars == <<vars, lifecycle>>

Settling == ticks > 0 \/ disabling > 0

(* visit?.done in run(), for a call without a visit *)
VisitDone == current # NoVisit /\ Done(current)

Call ==
    /\ ~unloaded
    /\ calls < MaxCalls
    /\ calls' = calls + 1
    /\ UNCHANGED vars

-----------------------------------------------------------------------------
(* Plugins *)

(* A bug to detect: the requirements are checked after listing. *)
InstallAll(ps) ==
    /\ mounted' = [p \in Plugins |->
          IF p \in ps \ Unmet THEN mounted[p] + 1 ELSE mounted[p]]
    /\ listed' = [p \in Plugins |->
          IF p \in ps THEN listed[p] + 1 ELSE listed[p]]

(* use() of each: mounted and listed, once more if need be, unless a
   requirement is not met. *)
Install(ps) ==
    /\ mounted' = [p \in Plugins |->
          IF p \in ps \ Unmet THEN mounted[p] + 1 ELSE mounted[p]]
    /\ listed' = [p \in Plugins |->
          IF p \in ps \ Unmet THEN listed[p] + 1 ELSE listed[p]]

(* unuse() of each that is listed: unmounted once, out of the list altogether. *)
Uninstall(ps) ==
    /\ mounted' = [p \in Plugins |->
          IF p \in ps /\ listed[p] > 0 THEN mounted[p] - 1 ELSE mounted[p]]
    /\ listed' = [p \in Plugins |-> IF p \in ps THEN 0 ELSE listed[p]]

Use(p) ==
    /\ Call
    /\ Install({p})
    /\ alternating' = (alternating /\ listed[p] = 0)
    /\ UNCHANGED <<called, ticks, disabling, listeners, classed, hooked,
                   overlapped, skipped>>

Unuse(p) ==
    /\ Call
    /\ Uninstall({p})
    /\ UNCHANGED <<called, ticks, disabling, listeners, classed, hooked,
                   history>>

-----------------------------------------------------------------------------
(* The instance *)

(* The listeners of enable().  The click listener of an earlier call is lost. *)
Listen ==
    /\ called' = "enable"
    /\ delegates' = delegates + 1
    /\ held' = TRUE
    /\ listening' = TRUE

(* enable(), up to its tick *)
Enable ==
    /\ Call
    /\ Listen
    /\ Install(Configured)
    /\ hooked' = TRUE
    /\ ticks' = ticks + 1
    /\ alternating' = (alternating /\ called = "destroy"
                         /\ \A p \in Configured : listed[p] = 0)
    /\ overlapped' = (overlapped \/ Settling)
    /\ UNCHANGED <<disabling, classed, skipped>>

(* The mount() of a plugin throws: enable() rejects, after the listeners and the
   plugins before it. *)
EnableThrows ==
    /\ Call
    /\ Listen
    /\ \E p \in Configured \ Unmet : \E before \in SUBSET (Configured \ {p}) :
          Install(before)
    /\ alternating' = FALSE
    /\ UNCHANGED <<ticks, disabling, classed, hooked, overlapped, skipped>>

(* The tick is over: the enable hook. *)
Tick ==
    /\ ~unloaded
    /\ ticks > 0
    /\ ticks' = ticks - 1
    /\ classed' = (classed \/ ~VisitDone)
    /\ skipped' = (skipped \/ VisitDone)
    /\ UNCHANGED <<vars, called, calls, disabling, listeners, hooked, plugins,
                   alternating, overlapped>>

(* A bug to detect: one more listener is taken off each time. *)
UndelegateAnyway ==
    /\ delegates' = delegates - 1
    /\ held' = FALSE

(* clickDelegate.destroy() aborts the listener it was made for. *)
Undelegate ==
    /\ delegates' = IF held THEN delegates - 1 ELSE delegates
    /\ held' = FALSE

(* destroy(), up to the disable hook. *)
Destroy ==
    /\ Call
    /\ called' = "destroy"
    /\ Undelegate
    /\ listening' = FALSE
    /\ Uninstall(Configured)
    /\ disabling' = disabling + 1
    /\ alternating' = (alternating /\ called = "enable")
    /\ overlapped' = (overlapped \/ Settling)
    /\ UNCHANGED <<ticks, classed, hooked, skipped>>

(* A bug to detect: the handlers are not removed. *)
DisableOnly ==
    /\ ~unloaded
    /\ disabling > 0
    /\ disabling' = disabling - 1
    /\ classed' = (classed /\ VisitDone)
    /\ skipped' = (skipped \/ VisitDone)
    /\ UNCHANGED <<vars, called, calls, ticks, listeners, hooked, plugins,
                   alternating, overlapped>>

(* A bug to detect: the handlers are removed by the default handler of the hook,
   which is skipped when the visit is done. *)
DisableInHook ==
    /\ ~unloaded
    /\ disabling > 0
    /\ disabling' = disabling - 1
    /\ classed' = (classed /\ VisitDone)
    /\ hooked' = (hooked /\ VisitDone)
    /\ skipped' = (skipped \/ VisitDone)
    /\ UNCHANGED <<vars, called, calls, ticks, listeners, plugins,
                   alternating, overlapped>>

(* The disable hook is over: all handlers are removed, those of a newer
   enable() too. *)
Disable ==
    /\ ~unloaded
    /\ disabling > 0
    /\ disabling' = disabling - 1
    /\ classed' = (classed /\ VisitDone)
    /\ hooked' = FALSE
    /\ skipped' = (skipped \/ VisitDone)
    /\ UNCHANGED <<vars, called, calls, ticks, listeners, plugins,
                   alternating, overlapped>>

-----------------------------------------------------------------------------
(* The constructor makes the first call of enable(). *)
LifecycleInit ==
    /\ Init
    /\ called = "enable"
    /\ calls = 0
    /\ ticks = 1
    /\ disabling = 0
    /\ delegates = 1
    /\ held = TRUE
    /\ listening = TRUE
    /\ classed = FALSE
    /\ hooked = TRUE
    /\ mounted = [p \in Plugins |-> IF p \in Configured \ Unmet THEN 1 ELSE 0]
    /\ listed = mounted
    /\ alternating = TRUE
    /\ overlapped = FALSE
    /\ skipped = FALSE

(* Visits go on whether the instance is enabled or not; a failed one gets its
   URL loaded only while popstate events are heard. *)
VisitsStep ==
    /\ \/ \E v \in Visits : VisitStep(v)
       \/ listening /\ FallbackLoad
    /\ UNCHANGED lifecycle

LifecycleNext ==
    \/ VisitsStep
    \/ Enable \/ EnableThrows \/ Tick \/ Destroy \/ Disable
    \/ \E p \in Plugins : Use(p) \/ Unuse(p)

(* Frames are drawn and the handlers of the disable hook return. *)
LifecycleSpec ==
    /\ LifecycleInit
    /\ [][LifecycleNext]_allVars
    /\ WF_allVars(Tick)
    /\ WF_allVars(Disable)

-----------------------------------------------------------------------------
(* Properties *)

(* The types of the state; clickDelegate is a listener that is there, so that
   destroy() never takes away one too many (Swup.ts:221). *)
LifecycleTypeOK ==
    /\ called \in {"enable", "destroy"}
    /\ calls \in 0..MaxCalls
    /\ ticks \in Nat
    /\ disabling \in Nat
    /\ delegates \in Nat
    /\ held \in BOOLEAN
    /\ held => delegates > 0
    /\ listening \in BOOLEAN
    /\ classed \in BOOLEAN
    /\ hooked \in BOOLEAN
    /\ mounted \in [Plugins -> Nat]
    /\ listed \in [Plugins -> Nat]
    /\ alternating \in BOOLEAN
    /\ overlapped \in BOOLEAN
    /\ skipped \in BOOLEAN

(* A plugin in swup.plugins has been mounted as often as it is listed, however
   often it is used, unused and configured: findPlugin() never hands out one
   that is not working (plugins.ts:44-46). *)
ListedAreMounted == \A p \in Plugins : mounted[p] >= listed[p]

(* enable() and destroy() undo each other (Swup.ts:173-241).
   - No handler outlives the last destroy(), whatever calls overlap with it,
     and whether or not a hook was skipped.
   - If calls alternate, listeners and plugins are in step with the call made
     last, at every moment and however calls overlap.
   - If besides each call finds the one before settled, so are the handlers and,
     if no hook found its visit done, the class on html. *)
CallsUndoEachOther ==
    /\ called = "destroy" /\ ~Settling => ~hooked
    /\ alternating =>
          /\ listening = (called = "enable")
          /\ delegates = IF called = "enable" THEN 1 ELSE 0
          /\ \A p \in Plugins : mounted[p] = listed[p]
    /\ alternating /\ ~overlapped /\ ~Settling =>
          /\ hooked = (called = "enable")
          /\ ~skipped => classed = (called = "enable")

(* "Disable this instance, removing listeners and classnames" (Swup.ts:218). *)
DestroyRemovesClasses ==
    [][disabling' < disabling => ~classed']_allVars

(* destroy() comes to its end, the removal of the handlers (Swup.ts:240), unless
   the page is left or the instance enabled again. *)
DestroyEnds ==
    called = "destroy" ~> ~hooked \/ called = "enable" \/ unloaded
=============================================================================
