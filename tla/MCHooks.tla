-------------------------------- MODULE MCHooks --------------------------------
(* Hooks for TLC: the options of the runs, and symmetry. *)
EXTENDS Hooks, TLC

Option(kind, once, priority) ==
    [kind |-> kind, once |-> once, priority |-> priority]

(* Every kind, some of them once, and priorities that disagree with the order
   of registration. *)
MixedOptions ==
    {Option("before", FALSE, 0), Option("after", TRUE, 0),
     Option("after", FALSE, -1), Option("replace", FALSE, 0),
     Option("replace", TRUE, -1)}

OnceOption == {Option("after", TRUE, 0)}
PlainOption == {Option("after", FALSE, 0)}

(* Handlers and calls are interchangeable. *)
Symmetry == Permutations(Handlers) \cup Permutations(Calls)
=============================================================================
