------------------------------- MODULE MCContent -------------------------------
(* Content for TLC: a plain, a named and a popstate visit. *)
EXTENDS Content, TLC

CONSTANTS main, aside

NoHooks == {}
Both == {main, aside}
SomeKinds ==
    {[animate |-> FALSE, named |-> FALSE, popstate |-> TRUE],
     [animate |-> TRUE, named |-> TRUE, popstate |-> FALSE],
     [animate |-> TRUE, named |-> FALSE, popstate |-> TRUE]}

VisitSymmetry == Permutations(Visits)
=============================================================================
