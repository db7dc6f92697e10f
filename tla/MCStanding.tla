----------------------------- MODULE MCStanding -----------------------------
(* One or two tenants and one or two operators.                            *)
EXTENDS Standing, TLC

CONSTANTS t1, t2, s1, s2

Symmetry == Permutations(Sessions)
=============================================================================
