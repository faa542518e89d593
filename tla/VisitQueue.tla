------------------------------ MODULE VisitQueue ------------------------------
(***************************************************************************)
(* What the navigation of swup promises to whoever requests visits: one     *)
(* visit runs at a time; a request replaces a running visit whose content   *)
(* is not in yet; behind a visit whose content is in, only the latest       *)
(* request waits, and it runs as soon as that visit finishes; only the      *)
(* running visit puts its content on the page, and a visit finishes only    *)
(* with its own content there.  A visit that fails or is aborted is never   *)
(* followed by another one: the page has to be left.                        *)
(***************************************************************************)
CONSTANTS Visits, NoVisit

VARIABLES
    running,  \* the visit that runs, or NoVisit
    phase,    \* what has become of it
    next,     \* the visit that waits for it to finish, or NoVisit
    shown     \* the visit whose content is on the page, or NoVisit

qvars == <<running, phase, next, shown>>

QInit ==
    /\ running = NoVisit
    /\ phase = "idle"
    /\ next = NoVisit
    /\ shown = NoVisit

(* A request when nothing runs. *)
Run(v) ==
    /\ phase = "idle"
    /\ running' = v
    /\ phase' = "loading"
    /\ UNCHANGED <<next, shown>>

(* A request while the content of the running visit is still on its way. *)
Supersede(v) ==
    /\ phase = "loading"
    /\ running' = v
    /\ UNCHANGED <<phase, next, shown>>

(* A request while the content of the running visit is being rendered. *)
Queue(v) ==
    /\ phase \in {"rendering", "failed"}
    /\ next' = v
    /\ UNCHANGED <<running, phase, shown>>

Commit ==
    /\ phase = "loading"
    /\ phase' = "rendering"
    /\ UNCHANGED <<running, next, shown>>

Show ==
    /\ phase = "rendering"
    /\ shown' = running
    /\ UNCHANGED <<running, phase, next>>

Fail ==
    /\ phase \in {"loading", "rendering"}
    /\ phase' = "failed"
    /\ UNCHANGED <<running, next, shown>>

Finish ==
    /\ phase = "rendering"
    /\ shown = running
    /\ running' = next
    /\ phase' = IF next = NoVisit THEN "idle" ELSE "loading"
    /\ next' = NoVisit
    /\ UNCHANGED shown

QNext ==
    \/ \E v \in Visits : Run(v) \/ Supersede(v) \/ Queue(v)
    \/ Commit
    \/ Show
    \/ Fail
    \/ Finish

QSpec == QInit /\ [][QNext]_qvars
=============================================================================
