------------------------------- MODULE MCSession -------------------------------
(* Session for TLC: URLs of which one is an alias of another, and tabs. *)
EXTENDS Session, TLC

CONSTANTS home, alias, about

NoHooks == {}

(* resolveUrl rewrites the alias. *)
Rewrites == [u \in Urls |-> IF u = alias THEN home ELSE u]

(* A tab that was reloaded, on either page. *)
Reloaded == <<home, about>>

VisitSymmetry == Permutations(Visits)
=============================================================================
