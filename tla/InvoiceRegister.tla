--------------------------- MODULE InvoiceRegister ---------------------------
(***************************************************************************)
(* What the numbered invoices promise, independently of how drafts are     *)
(* made, reviewed and rebuilt: README.md, "Invoice invariants" 1 and 2,    *)
(* and src/lib/invoices/invariants.ts.  An invoice enters the register     *)
(* when it is issued, with the next number of its year; from then on only  *)
(* its status moves, along the permitted transitions, and nothing leaves.  *)
(***************************************************************************)
EXTENDS Integers

CONSTANTS
    InvoiceIds,   \* primary keys of the table invoices
    Years,        \* calendar years an invoice can be issued in
    Items         \* what an invoice line can charge for

(* What the theorems assume of Years: 0 is the year of no number. *)
YearsArePositive == Years \subseteq Nat \ {0}

VARIABLES
    entry,        \* entry[i]: what the register holds for invoice i
    last          \* last[y]: the highest number handed out in year y

registerVars == <<entry, last>>

(* invoice_number is NULL until the invoice is issued. *)
NoNumber == [year |-> 0, seq |-> 0]
Number == [year : Years \cup {0}, seq : Nat]

(* ALLOWED in invariants.ts, restricted to the statuses an entry can have. *)
Settlements == [issued  |-> {"paid", "overdue", "void"},
                overdue |-> {"paid", "void"},
                paid    |-> {},
                void    |-> {}]
Settled == {"issued", "paid", "overdue", "void"}

NoEntry == [number |-> NoNumber, status |-> "none", lines |-> {}]

Init ==
    /\ entry = [i \in InvoiceIds |-> NoEntry]
    /\ last = [y \in Years |-> 0]

(* An invoice is issued: it gets the next number of year y and its lines   *)
(* are fixed.                                                              *)
EnterUnadvanced(i, y, lines) ==
    /\ entry[i] = NoEntry
    /\ entry' = [entry EXCEPT ![i] = [number |-> [year |-> y, seq |-> last[y] + 1],
                                      status |-> "issued",
                                      lines |-> lines]]
    /\ UNCHANGED last
Enter(i, y, lines) ==
    /\ entry[i] = NoEntry
    /\ last' = [last EXCEPT ![y] = @ + 1]
    /\ entry' = [entry EXCEPT ![i] = [number |-> [year |-> y, seq |-> last[y] + 1],
                                      status |-> "issued",
                                      lines  |-> lines]]

(* The status of a registered invoice moves; its number and lines do not.  *)
Settle(i, to) ==
    /\ entry[i].status \in Settled
    /\ to \in Settlements[entry[i].status]
    /\ entry' = [entry EXCEPT ![i].status = to]
    /\ UNCHANGED last

Next ==
    \E i \in InvoiceIds :
        \/ \E y \in Years, lines \in SUBSET Items : Enter(i, y, lines)
        \/ \E to \in Settled : Settle(i, to)

Spec == Init /\ [][Next]_registerVars

TypeOK ==
    /\ entry \in [InvoiceIds -> [number : Number,
                                 status : Settled \cup {"none"},
                                 lines  : SUBSET Items]]
    /\ last \in [Years -> Nat]

-----------------------------------------------------------------------------
(* Numbers are gap-free per year: every number up to the last one of a     *)
(* year is on an invoice, no number is on two, and none is beyond the last *)
(* (README.md, invariant 2).                                               *)
GapFree ==
    /\ \A y \in Years : \A n \in 1 .. last[y] :
           \E i \in InvoiceIds : entry[i].number = [year |-> y, seq |-> n]
    /\ \A i \in InvoiceIds :
           entry[i].status # "none" =>
               /\ entry[i].number.year \in Years
               /\ entry[i].number.seq \in 1 .. last[entry[i].number.year]
    /\ \A i, j \in InvoiceIds :
           entry[i].status # "none" /\ entry[i].number = entry[j].number => i = j
=============================================================================
