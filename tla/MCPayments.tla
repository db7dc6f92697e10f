----------------------------- MODULE MCPayments -----------------------------
(* One tenant (two where the configuration says so), two invoices and two  *)
(* bank transactions, the second a debit.                                  *)
EXTENDS Payments, TLC

CONSTANTS t1, t2, i1, i2, b1, b2, s1, s2

MCOwner == [i \in Invoices |-> t1]
MCOwners == [i \in Invoices |-> IF i = i1 THEN t1 ELSE t2]
MCTotals == [i \in Invoices |-> 2]
MCCredits == [b \in BankTxs |-> IF b = b1 THEN 2 ELSE -1]

Symmetry == Permutations(Sessions)
=============================================================================
