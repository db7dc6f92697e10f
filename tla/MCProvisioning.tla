--------------------------- MODULE MCProvisioning ---------------------------
(* Two slugs that want one domain.                                         *)
EXTENDS Provisioning, TLC

CONSTANTS a, b, w1, w2, o1, o2, d

OneDomain == [t \in TenantIds |-> d]
Symmetry == Permutations(Workers) \cup Permutations(Operators)
=============================================================================
