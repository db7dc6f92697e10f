----------------------------- MODULE MCInvoicing -----------------------------
(* Model values for Invoicing: the identities of invoices and sessions are *)
(* interchangeable, so are the once-offs.                                  *)
EXTENDS Invoicing, TLC

CONSTANTS p1, p2

TwoPeriods == {p1, p2}
FirstStarted == {p1}
OnePeriod == {p1}
OneYear == {2026}
CommissionPlan == {"figure", "unreadable"}
Readable == {"figure"}
AllRequests == {"generate", "rebuild", "expense", "seed", "typed", "abort"}
AutoRequests == {"generate", "rebuild", "abort"}
QuietRequests == {"generate", "rebuild"}
ManualRequests == {"generate", "typed", "expense", "abort"}
ExpenseRequests == {"generate", "typed", "expense"}
SeedRequests == {"generate", "seed"}

Interchangeable ==
    Permutations(InvoiceIds) \cup Permutations(OnceOffs) \cup Permutations(Sessions)
=============================================================================
