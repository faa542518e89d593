------------------------------ MODULE MCPageLoad ------------------------------
(* PageLoad for TLC: URLs of which one is an alias of another. *)
EXTENDS PageLoad, TLC

CONSTANTS main, alias

(* resolveUrl rewrites the alias. *)
Rewrites == [url \in Urls |-> IF url = alias THEN main ELSE url]

Request(url, post, read, timeout) ==
    [url |-> url, post |-> post, read |-> read, timeout |-> timeout]

(* Visits of both URLs, a form sent to one of them, a reload with a timeout. *)
Mixed ==
    {Request(main, FALSE, TRUE, FALSE), Request(alias, FALSE, TRUE, FALSE),
     Request(main, TRUE, TRUE, FALSE), Request(alias, FALSE, FALSE, TRUE)}

(* One visit, with a timeout. *)
Timed == {Request(main, FALSE, TRUE, TRUE)}

Symmetry == Permutations(Loads)
=============================================================================
