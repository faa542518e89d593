---------------------------- MODULE LifecycleProofs ----------------------------
(***************************************************************************)
(* Proofs about Lifecycle, for any visits, handlers, plugins and number of  *)
(* calls: the state is well typed, listed plugins are mounted, calls of     *)
(* enable() and destroy() undo each other, and no destroy() is forgotten.   *)
(* The visits come in through VisitDone only and go on as in Navigation.    *)
(***************************************************************************)
EXTENDS Lifecycle, TLAPS

(* Listed plugins have to be mounted for their unmounting to be counted. *)
LInv == LifecycleTypeOK /\ ListedAreMounted

(* Calls that alternate leave nothing behind, at any moment. *)
InStep ==
    /\ listening <=> called = "enable"
    /\ held <=> called = "enable"
    /\ delegates = IF called = "enable" THEN 1 ELSE 0
    /\ \A p \in Plugins : mounted[p] = listed[p] /\ listed[p] \in {0, 1}

(* How far the call made last has come, if none overlaps with another. *)
EnabledPhase ==
    /\ disabling = 0
    /\ ticks \in {0, 1}
    /\ hooked
    /\ ~skipped => (classed <=> ticks = 0)

DestroyedPhase ==
    /\ ticks = 0
    /\ disabling \in {0, 1}
    /\ (hooked <=> disabling = 1)
    /\ ~skipped => (classed <=> disabling = 1)

Apart ==
    /\ called = "enable" => EnabledPhase
    /\ called = "destroy" => DestroyedPhase

(* After destroy() the handlers stay only as long as a disable hook is under
   way (Swup.ts:231-240). *)
HandlersAwaitDisable == called = "destroy" /\ hooked => disabling > 0

Undone ==
    /\ HandlersAwaitDisable
    /\ alternating => InStep
    /\ alternating /\ ~overlapped => Apart

(* The constructor has run. *)
LEMMA LInit == LifecycleInit => LInv /\ Undone
<1> SUFFICES ASSUME LifecycleInit PROVE LInv /\ Undone
    OBVIOUS
<1>1. /\ mounted \in [Plugins -> Nat] /\ listed = mounted
      /\ \A p \in Plugins : mounted[p] = listed[p] /\ listed[p] \in {0, 1}
    BY DEF LifecycleInit
<1>2. LifecycleTypeOK
    <2>1. /\ held \in BOOLEAN /\ listening \in BOOLEAN /\ hooked \in BOOLEAN
          /\ classed \in BOOLEAN /\ alternating \in BOOLEAN
          /\ overlapped \in BOOLEAN /\ skipped \in BOOLEAN
        BY Zenon DEF LifecycleInit
    <2>2. listed \in [Plugins -> Nat]
        BY <1>1, Zenon
    <2> QED
        BY <1>1, <2>1, <2>2, MaxCallsAssumption
           DEF LifecycleInit, LifecycleTypeOK
<1>3. ListedAreMounted
    BY <1>1 DEF ListedAreMounted
<1>4. called = "enable" /\ held = TRUE /\ listening = TRUE /\ delegates = 1
    BY DEF LifecycleInit
<1>5. InStep
    BY <1>1, <1>4 DEF InStep
<1>6. Apart /\ HandlersAwaitDisable
    BY <1>4 DEF LifecycleInit, Apart, EnabledPhase, HandlersAwaitDisable
<1> QED
    BY <1>2, <1>3, <1>5, <1>6 DEF LInv, Undone

(* use() keeps the types of the plugins and mounts what it lists. *)
LEMMA InstallKeeps ==
    ASSUME LInv, NEW ps, Install(ps)
    PROVE  /\ mounted' \in [Plugins -> Nat]
           /\ listed' \in [Plugins -> Nat]
           /\ ListedAreMounted'
           /\ InStep /\ (\A p \in ps : listed[p] = 0) =>
                 \A p \in Plugins :
                     mounted'[p] = listed'[p] /\ listed'[p] \in {0, 1}
BY DEF LInv, LifecycleTypeOK, ListedAreMounted, Install, InStep

(* unuse() unmounts nothing that is not mounted. *)
LEMMA UninstallKeeps ==
    ASSUME LInv, NEW ps, Uninstall(ps)
    PROVE  /\ mounted' \in [Plugins -> Nat]
           /\ listed' \in [Plugins -> Nat]
           /\ ListedAreMounted'
           /\ InStep =>
                 \A p \in Plugins :
                     mounted'[p] = listed'[p] /\ listed'[p] \in {0, 1}
BY DEF LInv, LifecycleTypeOK, ListedAreMounted, Uninstall, InStep

(* A step of a visit leaves the instance alone, as does no step at all. *)
LEMMA StillKeeps ==
    ASSUME LInv, Undone, UNCHANGED lifecycle
    PROVE  LInv' /\ Undone'
BY DEF LInv, LifecycleTypeOK, ListedAreMounted, Undone, InStep, Apart,
       EnabledPhase, DestroyedPhase, HandlersAwaitDisable, lifecycle, listeners,
       plugins, history

(* enable(), up to its tick. *)
LEMMA EnableKeeps ==
    ASSUME LInv, Undone, Enable
    PROVE  LInv' /\ Undone'
<1> USE MaxCallsAssumption
<1>1. Install(Configured)
    BY DEF Enable
<1>2. called' = "enable" /\ held' = TRUE /\ listening' = TRUE
    BY DEF Enable, Listen
<1>3. /\ alternating' \in BOOLEAN /\ overlapped' \in BOOLEAN
      /\ skipped' \in BOOLEAN /\ hooked' \in BOOLEAN
    BY Zenon DEF Enable, LInv, LifecycleTypeOK
<1>4. LInv'
    BY <1>1, <1>2, <1>3, InstallKeeps
       DEF Enable, Call, Listen, LInv, LifecycleTypeOK
<1>5. ASSUME alternating'
      PROVE  /\ alternating /\ called = "destroy"
             /\ \A p \in Configured : listed[p] = 0
    BY <1>5 DEF Enable
<1>6. ASSUME overlapped' = FALSE PROVE ~overlapped /\ ~Settling
    BY <1>6 DEF Enable
<1>7. ASSUME alternating' PROVE InStep'
    <2>1. InStep
        BY <1>5, <1>7 DEF Undone
    <2>2. \A p \in Plugins : mounted'[p] = listed'[p] /\ listed'[p] \in {0, 1}
        BY <1>1, <1>5, <1>7, <2>1, InstallKeeps
    <2>3. delegates' = 1
        BY <1>5, <1>7, <2>1 DEF InStep, Enable, Listen
    <2> QED
        BY <1>2, <2>2, <2>3 DEF InStep
<1>8. ASSUME alternating', overlapped' = FALSE PROVE Apart'
    <2>1. DestroyedPhase
        BY <1>5, <1>6, <1>8 DEF Undone, Apart
    <2>2. ticks = 0 /\ disabling = 0
        <3>1. ~Settling
            BY <1>6, <1>8
        <3> QED
            BY <3>1 DEF Settling, LInv, LifecycleTypeOK
    <2>3. EnabledPhase'
        BY <2>1, <2>2 DEF Enable, DestroyedPhase, EnabledPhase
    <2> QED
        BY <1>2, <2>3 DEF Apart
<1> QED
    BY <1>2, <1>3, <1>4, <1>7, <1>8 DEF Undone, HandlersAwaitDisable

(* enable() that fails. *)
LEMMA ThrowKeeps ==
    ASSUME LInv, Undone, EnableThrows
    PROVE  LInv' /\ Undone'
<1>1. PICK before : Install(before)
    BY DEF EnableThrows
<1>2. alternating' = FALSE /\ called' = "enable"
    BY DEF EnableThrows, Listen
<1>3. alternating' \in BOOLEAN /\ held' \in BOOLEAN /\ listening' \in BOOLEAN
    BY Zenon DEF EnableThrows, Listen
<1>4. LInv'
    BY <1>1, <1>2, <1>3, InstallKeeps, MaxCallsAssumption
       DEF EnableThrows, Call, Listen, LInv, LifecycleTypeOK
<1> QED
    BY <1>2, <1>4 DEF Undone, HandlersAwaitDisable

(* The rest of enable(). *)
LEMMA TickKeeps ==
    ASSUME LInv, Undone, Tick
    PROVE  LInv' /\ Undone'
<1>1. classed' \in BOOLEAN /\ skipped' \in BOOLEAN
    BY Zenon DEF Tick
<1>2. UNCHANGED <<called, calls, disabling, delegates, held, listening, hooked,
                  mounted, listed, alternating, overlapped>>
    BY Zenon DEF Tick, listeners, plugins
<1>3. ticks > 0 /\ ticks' = ticks - 1 /\ ticks \in Nat
    BY DEF Tick, LInv, LifecycleTypeOK
<1>4. LInv'
    BY <1>1, <1>2, <1>3 DEF LInv, LifecycleTypeOK, ListedAreMounted
<1>5. InStep => InStep'
    BY <1>2 DEF InStep
<1>6. ~skipped' => ~skipped /\ classed'
    BY DEF Tick
<1>7. Apart => Apart'
    BY <1>2, <1>3, <1>6 DEF Apart, EnabledPhase, DestroyedPhase
<1> QED
    BY <1>2, <1>4, <1>5, <1>7 DEF Undone, HandlersAwaitDisable

(* destroy(), up to the disable hook. *)
LEMMA DestroyKeeps ==
    ASSUME LInv, Undone, Destroy
    PROVE  LInv' /\ Undone'
<1> USE MaxCallsAssumption
<1>1. Uninstall(Configured)
    BY DEF Destroy
<1>2. held' = FALSE /\ listening' = FALSE /\ called' = "destroy"
    BY Zenon DEF Destroy, Undelegate
<1>3. /\ alternating' \in BOOLEAN /\ overlapped' \in BOOLEAN
      /\ skipped' \in BOOLEAN /\ classed' \in BOOLEAN /\ hooked' \in BOOLEAN
    BY Zenon DEF Destroy, LInv, LifecycleTypeOK
<1>4. delegates' \in Nat /\ ticks' \in Nat /\ disabling' \in Nat
      /\ disabling' > 0
    BY DEF Destroy, Undelegate, LInv, LifecycleTypeOK
<1>5. calls' \in 0..MaxCalls
    BY DEF Destroy, Call, LInv, LifecycleTypeOK
<1>6. LInv'
    BY <1>1, <1>2, <1>3, <1>4, <1>5, UninstallKeeps DEF LInv, LifecycleTypeOK
<1>7. ASSUME alternating' PROVE alternating /\ called = "enable"
    BY <1>7 DEF Destroy
<1>8. ASSUME overlapped' = FALSE PROVE ~overlapped /\ ~Settling
    BY <1>8 DEF Destroy
<1>9. ASSUME alternating' PROVE InStep'
    <2>1. InStep /\ called = "enable"
        BY <1>7, <1>9 DEF Undone
    <2>2. \A p \in Plugins : mounted'[p] = listed'[p] /\ listed'[p] \in {0, 1}
        BY <1>1, <2>1, UninstallKeeps
    <2>3. delegates' = 0
        <3>1. held /\ delegates = 1
            BY <2>1 DEF InStep
        <3> QED
            BY <3>1 DEF Destroy, Undelegate
    <2> QED
        BY <1>2, <2>2, <2>3 DEF InStep
<1>10. ASSUME alternating', overlapped' = FALSE PROVE Apart'
    <2>1. EnabledPhase
        BY <1>7, <1>8, <1>10 DEF Undone, Apart
    <2>2. ticks = 0 /\ disabling = 0
        <3>1. ~Settling
            BY <1>8, <1>10
        <3> QED
            BY <3>1 DEF Settling, LInv, LifecycleTypeOK
    <2>3. DestroyedPhase'
        BY <2>1, <2>2 DEF Destroy, DestroyedPhase, EnabledPhase
    <2> QED
        BY <1>2, <2>3 DEF Apart
<1> QED
    BY <1>3, <1>4, <1>6, <1>9, <1>10 DEF Undone, HandlersAwaitDisable

(* The rest of destroy(). *)
LEMMA DisableKeeps ==
    ASSUME LInv, Undone, Disable
    PROVE  LInv' /\ Undone'
<1>1. /\ classed' \in BOOLEAN /\ skipped' \in BOOLEAN
      /\ hooked' \in BOOLEAN /\ ~hooked'
    BY Zenon DEF Disable
<1>2. UNCHANGED <<called, calls, ticks, delegates, held, listening, mounted,
                  listed, alternating, overlapped>>
    BY Zenon DEF Disable, listeners, plugins
<1>3. disabling > 0 /\ disabling' = disabling - 1 /\ disabling \in Nat
    BY DEF Disable, LInv, LifecycleTypeOK
<1>4. LInv'
    BY <1>1, <1>2, <1>3 DEF LInv, LifecycleTypeOK, ListedAreMounted
<1>5. InStep => InStep'
    BY <1>2 DEF InStep
<1>6. ~skipped' => ~skipped /\ ~classed'
    BY DEF Disable
<1>7. Apart => Apart'
    BY <1>1, <1>2, <1>3, <1>6 DEF Apart, EnabledPhase, DestroyedPhase
<1> QED
    BY <1>1, <1>2, <1>4, <1>5, <1>7 DEF Undone, HandlersAwaitDisable

(* use() and unuse() of one plugin. *)
LEMMA PluginKeeps ==
    ASSUME LInv, Undone, NEW p \in Plugins, Use(p) \/ Unuse(p)
    PROVE  LInv' /\ Undone'
<1>1. UNCHANGED <<called, ticks, disabling, delegates, held, listening, classed,
                  hooked, overlapped, skipped>>
    BY Zenon DEF Use, Unuse, listeners, history
<1>2. alternating' \in BOOLEAN
    BY Zenon DEF Use, Unuse, history, LInv, LifecycleTypeOK
<1>3. calls' \in 0..MaxCalls
    BY MaxCallsAssumption DEF Use, Unuse, Call, LInv, LifecycleTypeOK
<1>4. /\ mounted' \in [Plugins -> Nat]
      /\ listed' \in [Plugins -> Nat]
      /\ ListedAreMounted'
    BY InstallKeeps, UninstallKeeps DEF Use, Unuse
<1>5. LInv'
    BY <1>1, <1>2, <1>3, <1>4 DEF LInv, LifecycleTypeOK
<1>6. ASSUME alternating' PROVE alternating /\ InStep'
    <2>1. alternating /\ InStep
        BY <1>6 DEF Use, Unuse, history, Undone
    <2>2. \A q \in Plugins : mounted'[q] = listed'[q] /\ listed'[q] \in {0, 1}
        <3>1. CASE Use(p)
            <4>1. Install({p}) /\ \A q \in {p} : listed[q] = 0
                BY <1>6, <3>1 DEF Use
            <4> QED
                BY <2>1, <4>1, InstallKeeps
        <3>2. CASE Unuse(p)
            <4>1. Uninstall({p})
                BY <3>2 DEF Unuse
            <4> QED
                BY <2>1, <4>1, UninstallKeeps
        <3> QED
            BY <3>1, <3>2
    <2> QED
        BY <1>1, <2>1, <2>2 DEF InStep
<1>7. (Apart => Apart') /\ HandlersAwaitDisable'
    BY <1>1 DEF Undone, Apart, EnabledPhase, DestroyedPhase, HandlersAwaitDisable
<1> QED
    BY <1>1, <1>5, <1>6, <1>7 DEF Undone

(* Every call and what is left of it keeps the types and the phases. *)
LEMMA LStep == LInv /\ Undone /\ [LifecycleNext]_allVars => LInv' /\ Undone'
<1> SUFFICES ASSUME LInv, Undone, [LifecycleNext]_allVars
             PROVE  LInv' /\ Undone'
    OBVIOUS
<1>1. CASE Enable \/ EnableThrows \/ Tick
    BY <1>1, EnableKeeps, ThrowKeeps, TickKeeps
<1>2. CASE Destroy \/ Disable
    BY <1>2, DestroyKeeps, DisableKeeps
<1>3. ASSUME NEW p \in Plugins, Use(p) \/ Unuse(p) PROVE LInv' /\ Undone'
    BY <1>3, PluginKeeps
<1>4. CASE UNCHANGED lifecycle
    BY <1>4, StillKeeps
<1> QED
    BY <1>1, <1>2, <1>3, <1>4 DEF LifecycleNext, VisitsStep, allVars

(* The inductive invariant holds of every behaviour. *)
THEOREM LifecycleInvariant == LifecycleSpec => [](LInv /\ Undone)
BY LInit, LStep, PTL DEF LifecycleSpec

(* The lifecycle is well typed, and clickDelegate is a live listener. *)
THEOREM LifecycleTypeCorrect == LifecycleSpec => []LifecycleTypeOK
<1>1. LInv => LifecycleTypeOK
    BY DEF LInv
<1> QED
    BY <1>1, LifecycleInvariant, PTL

(* A plugin in swup.plugins has been mounted as often as it is listed. *)
THEOREM ListedPluginsWork == LifecycleSpec => []ListedAreMounted
<1>1. LInv => ListedAreMounted
    BY DEF LInv
<1> QED
    BY <1>1, LifecycleInvariant, PTL

(* enable() and destroy() undo each other: the handlers whatever calls overlap,
   listeners and plugins if calls alternate, all of it if besides each finds the
   one before settled (Swup.ts:173-241). *)
THEOREM CallsUndo == LifecycleSpec => []CallsUndoEachOther
<1>1. LInv /\ Undone => CallsUndoEachOther
    <2> SUFFICES ASSUME LInv, Undone PROVE CallsUndoEachOther
        OBVIOUS
    <2>1. ASSUME ~Settling PROVE ticks = 0 /\ disabling = 0
        BY <2>1 DEF Settling, LInv, LifecycleTypeOK
    <2>2. ~Settling /\ called = "destroy" => ~hooked
        BY <2>1 DEF Undone, HandlersAwaitDisable
    <2>3. alternating =>
            /\ listening = (called = "enable")
            /\ delegates = IF called = "enable" THEN 1 ELSE 0
            /\ \A p \in Plugins : mounted[p] = listed[p]
        <3>1. alternating => (listening = (called = "enable"))
            <4>1. listening \in BOOLEAN /\ (called = "enable") \in BOOLEAN
                BY Zenon DEF LInv, LifecycleTypeOK
            <4>2. alternating => (listening <=> called = "enable")
                BY Zenon DEF Undone, InStep
            <4> QED
                BY <4>1, <4>2
        <3> QED
            BY <3>1, Zenon DEF Undone, InStep
    <2>4. ASSUME alternating, ~overlapped, ~Settling
          PROVE  hooked = (called = "enable")
                 /\ (~skipped => classed = (called = "enable"))
        <3>1. Apart /\ ticks = 0 /\ disabling = 0
            BY <2>1, <2>4 DEF Undone
        <3>2. called \in {"enable", "destroy"}
              /\ hooked \in BOOLEAN /\ classed \in BOOLEAN
            BY DEF LInv, LifecycleTypeOK
        <3>3. CASE called = "enable"
            BY <3>1, <3>2, <3>3 DEF Apart, EnabledPhase
        <3>4. CASE called = "destroy"
            BY <3>1, <3>2, <3>4 DEF Apart, DestroyedPhase
        <3> QED
            BY <3>2, <3>3, <3>4
    <2> QED
        BY <2>2, <2>3, <2>4 DEF CallsUndoEachOther
<1> QED
    BY <1>1, LifecycleInvariant, PTL

(* Whatever is called beside the visits, they go on as they do by themselves, so
   that what is proved of Navigation holds of an instance that is enabled and
   destroyed, with and without its listeners (Swup.ts:173-241). *)
THEOREM LifecycleIsNavigation == LifecycleSpec => Spec
<1>1. LifecycleInit => Init
  BY DEF LifecycleInit
<1>2. [LifecycleNext]_allVars => [Next]_vars
  <2>1. VisitsStep => Next
    BY DEF VisitsStep, Next
  <2>2. Enable \/ EnableThrows \/ Tick \/ Destroy \/ Disable => UNCHANGED vars
    BY DEF Enable, EnableThrows, Tick, Destroy, Disable, Call
  <2>3. ASSUME NEW p \in Plugins, Use(p) \/ Unuse(p) PROVE UNCHANGED vars
    BY <2>3 DEF Use, Unuse, Call
  <2> QED
    BY <2>1, <2>2, <2>3 DEF LifecycleNext, allVars
<1> QED
  BY <1>1, <1>2, PTL DEF LifecycleSpec, Spec

(* However calls overlap, no destroy() is forgotten: as long as handlers are
   there after it, one is about to remove them.  Together with the fairness of
   Disable this is why DestroyEnds holds. *)
THEOREM DestroyIsUnderway == LifecycleSpec => []HandlersAwaitDisable
<1>1. Undone => HandlersAwaitDisable
  BY DEF Undone
<1> QED
  BY <1>1, LifecycleInvariant, PTL
=============================================================================
