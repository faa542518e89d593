----------------------------- MODULE MCNavigation -----------------------------
(* Navigation for TLC: the sets of handled hooks of the runs, and symmetry. *)
EXTENDS Navigation, TLC

(* No user handlers at all: every hook call is a chain of microtasks. *)
NoHooks == {}

(* Handlers around the loading, the transition, the rendering and the end of a
   visit.  Those on visit:transition run before it leaves and after it entered. *)
HooksOfRunningVisit ==
    {"page:load", "visit:transition", "content:replace", "visit:end"}

StartHook == {"visit:start"}
AbortHook == {"visit:abort"}
TransitionHook == {"visit:transition"}

(* The visits are interchangeable: safety runs may identify their orderings. *)
Symmetry == Permutations(Visits)
=============================================================================
