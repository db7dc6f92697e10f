------------------------------ MODULE Payments ------------------------------
(***************************************************************************)
(* Money received: payments captured by an operator or matched from an     *)
(* imported bank statement, their allocation to invoices, the automatic    *)
(* move of a covered invoice to paid, and the automatic unsuspension of a  *)
(* tenant whose balance a payment cleared (src/lib/payments/service.ts,    *)
(* src/lib/payments/reconcile.ts, tenants/queries.ts).                     *)
(*                                                                         *)
(* A session is one server action running in the control app.  Every SQL   *)
(* transaction is one step; the reads the code makes outside a transaction *)
(* are steps of their own, and any other session may run between them.     *)
(***************************************************************************)
EXTENDS Integers, Sequences, FiniteSets, Functions

CONSTANTS
  Tenants, Invoices, BankTxs, Sessions,
  OwnerOf,      \* invoices.tenant_id
  TotalOf,      \* invoices.total_cents, fixed once the invoice is issued
  CreditOf,     \* bank_transactions.amount_cents: signed, a debit is negative
  Amounts,      \* the amounts an operator captures by hand
  Drafts,       \* the invoices that are still drafts at the start
  MayFail,      \* whether a statement or call may fail, or the process die
  MaxPayments,  \* bound on the rows of payments
  None

ASSUME ConstantsAssumption ==
  /\ OwnerOf \in [Invoices -> Tenants]
  /\ TotalOf \in [Invoices -> Nat]
  /\ CreditOf \in [BankTxs -> Int]
  /\ Amounts \subseteq Int
  /\ Drafts \subseteq Invoices
  /\ MayFail \in BOOLEAN
  /\ MaxPayments \in Nat
  /\ None \notin Invoices \cup BankTxs \cup Tenants

VARIABLES
  inv,       \* status of each invoice
  payments,  \* the payments table: a row's id is its position
  bank,      \* bank_transactions, one row per FITID once imported
  tenant,    \* tenants.status: active or suspended
  session    \* what each running server action has read and must still do

vars == <<inv, payments, bank, tenant, session>>

Statuses == {"draft", "issued", "overdue", "paid", "void"}
Open == {"issued", "overdue"}

\* `credit` stands for payments.reference, which names the bank transaction
\* the payment was captured from (None for one typed in by the operator).
Payment == [tenant : Tenants, invoice : Invoices \cup {None}, amount : Int,
            credit : BankTxs \cup {None}]

BankRow == [status : {"absent", "unmatched", "matched", "ignored"},
            payment : Nat, proposed : Invoices \cup {None}]
NoPayment == 0
NotImported == [status |-> "absent", payment |-> NoPayment, proposed |-> None]

Session == [at : {"idle", "matching", "recording", "committed", "owed",
                  "cleared", "unsuspending", "marking", "ignoring", "failed"},
            tenant : Tenants \cup {None}, invoice : Invoices \cup {None},
            credit : BankTxs \cup {None}, payment : Nat,
            owing : SUBSET Invoices]
Idle == [at |-> "idle", tenant |-> None, invoice |-> None, credit |-> None,
         payment |-> NoPayment, owing |-> {}]
Failed == [Idle EXCEPT !.at = "failed"]

TypeOK ==
  /\ inv \in [Invoices -> Statuses]
  /\ payments \in Seq(Payment)
  /\ bank \in [BankTxs -> BankRow]
  /\ tenant \in [Tenants -> {"active", "suspended"}]
  /\ session \in [Sessions -> Session]

Init ==
  /\ inv = [i \in Invoices |-> IF i \in Drafts THEN "draft" ELSE "issued"]
  /\ payments = <<>>
  /\ bank = [b \in BankTxs |-> NotImported]
  /\ tenant \in [Tenants -> {"active", "suspended"}]
  /\ session = [s \in Sessions |-> Idle]

-----------------------------------------------------------------------------
(* Sums the queries compute.                                               *)

TotalOfAll(is) == SumFunctionOnSet(TotalOf, is)
On(ps, is) == {p \in DOMAIN ps : ps[p].invoice \in is}
Allocated(ps, is) ==
  SumFunctionOnSet([p \in DOMAIN ps |-> ps[p].amount], On(ps, is))

OpenOf(t) == {i \in Invoices : OwnerOf[i] = t /\ inv[i] \in Open}
Outstanding == {i \in Invoices : inv[i] \in Open
                                   /\ TotalOf[i] > Allocated(payments, {i})}

\* What outstandingBalanceCents would return if it were one snapshot.
Balance(t) == TotalOfAll(OpenOf(t)) - Allocated(payments, OpenOf(t))

\* The status of invoice i once the payments ps are on it.
SettledIfIssued(st, ps, i) ==
  IF st = "issued" /\ Allocated(ps, {i}) >= TotalOf[i] THEN "paid" ELSE st
Settled(st, ps, i) ==
  IF st \in Open /\ Allocated(ps, {i}) >= TotalOf[i] THEN "paid" ELSE st

-----------------------------------------------------------------------------
(* Bank statements.                                                        *)

\* importStatementFile: known FITIDs are skipped; a new credit is proposed to
\* at most one invoice with something outstanding (proposeMatch), a debit to
\* none.
Import(file) ==
  /\ \E proposal \in [file -> Outstanding \cup {None}] :
       /\ \A b \in file : CreditOf[b] <= 0 => proposal[b] = None
       /\ bank' = [b \in BankTxs |->
                     IF b \in file /\ bank[b].status = "absent"
                     THEN [status |-> "unmatched", payment |-> NoPayment,
                           proposed |-> proposal[b]]
                     ELSE bank[b]]
  /\ UNCHANGED <<inv, payments, tenant, session>>

\* setProposedInvoice
SetProposed(b, i) ==
  /\ bank[b].status = "unmatched"
  /\ bank' = [bank EXCEPT ![b].proposed = i]
  /\ UNCHANGED <<inv, payments, tenant, session>>

\* The first read of confirmBankMatch and of markBankUnallocated.
Matchable(b) == bank[b].status = "unmatched" /\ CreditOf[b] > 0

\* confirmBankMatch reads the bank transaction ...
ConfirmReadCredit(s, b, i) ==
  /\ session[s].at = "idle"
  /\ Matchable(b)
  /\ session' = [session EXCEPT ![s] =
                   [Idle EXCEPT !.at = "matching", !.credit = b, !.invoice = i]]
  /\ UNCHANGED <<inv, payments, bank, tenant>>

\* ... then the invoice, which must be open ...
ConfirmReadInvoice(s) ==
  /\ session[s].at = "matching"
  /\ LET i == session[s].invoice IN
     session' = [session EXCEPT ![s] =
                   IF inv[i] \in Open
                   THEN [@ EXCEPT !.at = "recording", !.tenant = OwnerOf[i]]
                   ELSE Idle]
  /\ UNCHANGED <<inv, payments, bank, tenant>>

\* markBankUnallocated: the proposed invoice only names the tenant.
UnallocatedRead(s, b) ==
  /\ session[s].at = "idle"
  /\ Matchable(b)
  /\ bank[b].proposed # None
  /\ session' = [session EXCEPT ![s] =
                   [Idle EXCEPT !.at = "recording", !.credit = b,
                                !.tenant = OwnerOf[bank[b].proposed]]]
  /\ UNCHANGED <<inv, payments, bank, tenant>>

-----------------------------------------------------------------------------
(* Payments: one transaction each, the invoice row locked.                 *)

Payable(i, t) == OwnerOf[i] = t /\ inv[i] \notin {"void", "draft"}

\* recordPayment's transaction for the payment pay.
Recorded(s, pay) ==
  /\ Len(payments) < MaxPayments
  /\ pay.amount > 0
  /\ pay.invoice # None => Payable(pay.invoice, pay.tenant)
  /\ payments' = Append(payments, pay)
  /\ inv' = IF pay.invoice = None THEN inv
            ELSE [inv EXCEPT ![pay.invoice] = Settled(@, payments', pay.invoice)]
  /\ session' = [session EXCEPT ![s] =
                   [at |-> "committed", tenant |-> pay.tenant,
                    invoice |-> pay.invoice, credit |-> pay.credit,
                    payment |-> Len(payments'), owing |-> {}]]
  /\ UNCHANGED <<bank, tenant>>

\* recordPaymentAction: an operator types a payment in.
Capture(s, t, i, amount) ==
  /\ session[s].at = "idle"
  /\ Recorded(s, [tenant |-> t, invoice |-> i, amount |-> amount, credit |-> None])

\* The payment a confirmed or unallocated credit becomes.  A refusal (the
\* invoice was voided since it was read) ends the session with an error.
RecordCredit(s) ==
  /\ session[s].at = "recording"
  /\ Recorded(s, [tenant |-> session[s].tenant, invoice |-> session[s].invoice,
                  amount |-> CreditOf[session[s].credit],
                  credit |-> session[s].credit])

RecordRefused(s) ==
  /\ session[s].at = "recording"
  /\ session[s].invoice # None
  /\ ~Payable(session[s].invoice, session[s].tenant)
  /\ session' = [session EXCEPT ![s] = Failed]
  /\ UNCHANGED <<inv, payments, bank, tenant>>

\* allocatePayment: an unallocated payment is put on an invoice.
Allocate(s, p, i) ==
  /\ session[s].at = "idle"
  /\ payments[p].invoice = None
  /\ Payable(i, payments[p].tenant)
  /\ payments' = [payments EXCEPT ![p].invoice = i]
  /\ inv' = [inv EXCEPT ![i] = Settled(@, payments', i)]
  /\ session' = [session EXCEPT ![s] =
                   [Idle EXCEPT !.at = "committed", !.payment = p,
                                !.invoice = i, !.tenant = payments[p].tenant]]
  /\ UNCHANGED <<bank, tenant>>

-----------------------------------------------------------------------------
(* maybeAutoUnsuspend, after the payment's transaction has committed.      *)

\* What follows the unsuspension: confirmBankMatch and markBankUnallocated
\* still have their bank row to mark, the other two actions are over.
Continue(s) ==
  IF session[s].credit # None
  THEN [session[s] EXCEPT !.at = "marking", !.owing = {}]
  ELSE Idle

\* outstandingBalanceCents, first query: the tenant's open invoices.
ReadOwed(s) ==
  /\ session[s].at = "committed"
  /\ session' = [session EXCEPT ![s].at = "owed",
                                ![s].owing = OpenOf(session[s].tenant)]
  /\ UNCHANGED <<inv, payments, bank, tenant>>

\* Third query: the payments on the tenant's open invoices, as they now are.
\* (The second query's result is discarded by the code.)
AllocatedAlsoPaid(t) ==
  Allocated(payments, {i \in Invoices : OwnerOf[i] = t /\ inv[i] \in Open \cup {"paid"}})
AllocatedNow(t) == Allocated(payments, OpenOf(t))
StillOwingOff(s, allocated) == TotalOfAll(session[s].owing) - allocated >= 0
StillOwing(s, allocated) == TotalOfAll(session[s].owing) - allocated > 0

ReadAllocated(s) ==
  /\ session[s].at = "owed"
  /\ session' = [session EXCEPT ![s] =
                   IF StillOwing(s, AllocatedNow(session[s].tenant))
                   THEN Continue(s)
                   ELSE [@ EXCEPT !.at = "cleared"]]
  /\ UNCHANGED <<inv, payments, bank, tenant>>

ReadTenant(s) ==
  /\ session[s].at = "cleared"
  /\ session' = [session EXCEPT ![s] =
                   IF tenant[session[s].tenant] = "suspended"
                   THEN [@ EXCEPT !.at = "unsuspending"]
                   ELSE Continue(s)]
  /\ UNCHANGED <<inv, payments, bank, tenant>>

\* unsuspendTenant, whose dealings with the proxy Standing.tla models: here it
\* lifts the suspension, refuses a tenant no longer suspended, or fails.
Unsuspend(s) ==
  /\ session[s].at = "unsuspending"
  /\ tenant[session[s].tenant] = "suspended"
  /\ tenant' = [tenant EXCEPT ![session[s].tenant] = "active"]
  /\ session' = [session EXCEPT ![s] = Continue(s)]
  /\ UNCHANGED <<inv, payments, bank>>

UnsuspendRefused(s) ==
  /\ session[s].at = "unsuspending"
  /\ tenant[session[s].tenant] # "suspended"
  /\ session' = [session EXCEPT ![s] = Failed]
  /\ UNCHANGED <<inv, payments, bank, tenant>>

\* The last transaction of confirmBankMatch and markBankUnallocated; it does
\* not look at the row's status again.
MarkedStatusOnly(row, p, i) == [row EXCEPT !.status = "matched"]
MarkedSwapped(row, p, i) ==
  [row EXCEPT !.status = "matched", !.payment = i, !.proposed = p]
Marked(row, p, i) ==
  [row EXCEPT !.status = "matched", !.payment = p,
              !.proposed = IF i = None THEN @ ELSE i]
Mark(s) ==
  /\ session[s].at = "marking"
  /\ LET b == session[s].credit IN
     bank' = [bank EXCEPT ![b] = Marked(@, session[s].payment, session[s].invoice)]
  /\ session' = [session EXCEPT ![s] = Idle]
  /\ UNCHANGED <<inv, payments, tenant>>

-----------------------------------------------------------------------------
(* ignoreBankTransaction: a plain SELECT, then the UPDATE, so another      *)
(* transaction may commit between the two.                                 *)

IgnoreRead(s, b) ==
  /\ session[s].at = "idle"
  /\ bank[b].status = "unmatched"
  /\ session' = [session EXCEPT ![s] =
                   [Idle EXCEPT !.at = "ignoring", !.credit = b]]
  /\ UNCHANGED <<inv, payments, bank, tenant>>

IgnoreCommit(s) ==
  /\ session[s].at = "ignoring"
  /\ bank' = [bank EXCEPT ![session[s].credit].status = "ignored",
                          ![session[s].credit].proposed = None]
  /\ session' = [session EXCEPT ![s] = Idle]
  /\ UNCHANGED <<inv, payments, tenant>>

-----------------------------------------------------------------------------
(* A failed statement, a failed proxy call or the end of the process: the  *)
(* rest of the action is not run, what it committed stays.                 *)

Fail(s) ==
  /\ MayFail
  /\ session[s].at \notin {"idle", "failed"}
  /\ session' = [session EXCEPT ![s] = Failed]
  /\ UNCHANGED <<inv, payments, bank, tenant>>

\* The operator sees the error and may start again.
Acknowledge(s) ==
  /\ session[s].at = "failed"
  /\ session' = [session EXCEPT ![s] = Idle]
  /\ UNCHANGED <<inv, payments, bank, tenant>>

-----------------------------------------------------------------------------
(* What the rest of the console does to the same rows (Invoicing.tla and   *)
(* Standing.tla model it in full).                                         *)

Moves == [draft   |-> {"issued"},
          issued  |-> {"paid", "overdue", "void"},
          overdue |-> {"paid", "void"},
          paid    |-> {},
          void    |-> {}]

MoveInvoice(i, to) ==
  /\ to \in Moves[inv[i]]
  /\ inv' = [inv EXCEPT ![i] = to]
  /\ UNCHANGED <<payments, bank, tenant, session>>

SetStanding(t) ==
  /\ tenant' = [tenant EXCEPT ![t] = IF @ = "active" THEN "suspended" ELSE "active"]
  /\ UNCHANGED <<inv, payments, bank, session>>

-----------------------------------------------------------------------------

\* The steps of a server action that has begun.
Step(s) ==
  \/ ConfirmReadInvoice(s) \/ RecordCredit(s) \/ RecordRefused(s)
  \/ ReadOwed(s) \/ ReadAllocated(s) \/ ReadTenant(s)
  \/ Unsuspend(s) \/ UnsuspendRefused(s)
  \/ Mark(s) \/ IgnoreCommit(s)

Begin(s) ==
  \/ \E b \in BankTxs, i \in Invoices : ConfirmReadCredit(s, b, i)
  \/ \E b \in BankTxs : UnallocatedRead(s, b) \/ IgnoreRead(s, b)
  \/ \E t \in Tenants, i \in Invoices \cup {None}, a \in Amounts : Capture(s, t, i, a)
  \/ \E p \in DOMAIN payments, i \in Invoices : Allocate(s, p, i)

Next ==
  \/ \E s \in Sessions : Begin(s) \/ Step(s) \/ Fail(s) \/ Acknowledge(s)
  \/ \E file \in (SUBSET BankTxs) \ {{}} : Import(file)
  \/ \E b \in BankTxs, i \in Invoices : SetProposed(b, i)
  \/ \E i \in Invoices, to \in Statuses : MoveInvoice(i, to)
  \/ \E t \in Tenants : SetStanding(t)

Spec == Init /\ [][Next]_vars

\* A server action that has begun runs on: nothing but a failure stops it.
FairSpec == Spec /\ \A s \in Sessions : WF_vars(Step(s))

-----------------------------------------------------------------------------
(* Properties.                                                             *)

\* README.md:38: an invoice is paid as soon as its allocations cover it.  No
\* order of captures, allocations, matches and overdue marks leaves an open
\* invoice with payments that cover its total.
SettledWhenCovered ==
  \A i \in Invoices :
    inv[i] \in Open /\ On(payments, {i}) # {}
      => Allocated(payments, {i}) < TotalOf[i]

\* A matched bank transaction points at a payment captured from it, for its
\* amount, and no two of them share one (reconcile.ts:444, :544).
MatchedCarriesItsCredit ==
  \A b \in BankTxs :
    bank[b].status = "matched" =>
      /\ bank[b].payment \in DOMAIN payments
      /\ payments[bank[b].payment].credit = b
      /\ payments[bank[b].payment].amount = CreditOf[b]

\* The money of a bank transaction is recorded at most once
\* (reconcile.ts:413, "Transaction is not unmatched").
OnePaymentPerCredit ==
  \A p, q \in DOMAIN payments :
    payments[p].credit # None /\ payments[p].credit = payments[q].credit => p = q

\* An ignored bank transaction has produced no payment (reconcile.ts:478,
\* "Only unmatched transactions can be ignored").
IgnoredHasNoPayment ==
  \A b \in BankTxs :
    bank[b].status = "ignored" =>
      \A p \in DOMAIN payments : payments[p].credit # b

\* A tenant is unsuspended after a payment only when every invoice it was
\* found to owe has left the open ones (service.ts:146, "outstanding balance
\* cleared by payment").
OwingIsSettled ==
  \A s \in Sessions :
    session[s].at = "unsuspending" =>
      \A i \in session[s].owing : inv[i] \notin Open

\* A payment that leaves a suspended tenant nothing to pay gets the tenant
\* unsuspended, unless it owes again meanwhile or the action fails.
ClearedIsUnsuspended ==
  \A s \in Sessions, t \in Tenants :
    (/\ session[s].at = "committed" /\ session[s].tenant = t
     /\ tenant[t] = "suspended" /\ Balance(t) <= 0)
    ~> \/ tenant[t] = "active" \/ Balance(t) > 0 \/ session[s].at = "failed"
=============================================================================
