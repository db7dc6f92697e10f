--------------------------- MODULE PaymentsProofs ---------------------------
(***************************************************************************)
(* What Payments.tla keeps for every set of tenants, invoices, bank        *)
(* transactions and server actions: its types, and that a matched bank     *)
(* transaction points at a payment captured from it.  The second needs to  *)
(* know what the sessions carry between their transactions (CarriedInv).   *)
(* Then, with lemmas about sums over finite sets, that no order of         *)
(* captures, allocations and matches leaves a covered invoice open         *)
(* (CoveredInv), and, where no invoice is issued meanwhile, that a tenant  *)
(* is unsuspended only when what it was found to owe is settled            *)
(* (OwingInv).                                                             *)
(***************************************************************************)
EXTENDS Payments, SequenceTheorems, FiniteSetTheorems, WellFoundedInduction, TLAPS

\* p is a payment captured from the bank transaction b.
CapturedFrom(p, b) ==
  /\ p \in DOMAIN payments
  /\ payments[p].credit = b
  /\ payments[p].amount = CreditOf[b]

\* A session r that has committed the payment of a bank transaction carries
\* that payment's id, and only such a session reaches the marking.
Paying == {"committed", "owed", "cleared", "unsuspending", "marking"}
Carried(r) ==
  /\ r.at \in Paying /\ r.credit # None => CapturedFrom(r.payment, r.credit)
  /\ r.at \in {"matching", "recording", "marking", "ignoring"} => r.credit \in BankTxs
  /\ r.at \in {"recording"} \cup Paying => r.tenant \in Tenants
  /\ r.at = "matching" => r.invoice \in Invoices

CarriedInv == \A s \in Sessions : Carried(session[s])

IInv == TypeOK /\ CarriedInv /\ MatchedCarriesItsCredit

LEMMA IdleFacts ==
  /\ Idle \in Session /\ Carried(Idle)
  /\ Failed \in Session /\ Carried(Failed)
BY ConstantsAssumption
DEF Idle, Failed, Session, Carried, Paying, NoPayment

LEMMA SettledStatus ==
  ASSUME NEW st \in Statuses, NEW ps, NEW i
  PROVE  Settled(st, ps, i) \in Statuses
BY DEF Settled, Statuses

\* A step that only moves session s keeps the invariant when what s then
\* carries is right.
LEMMA SessionMoves ==
  ASSUME IInv, NEW s \in Sessions,
         session' = [session EXCEPT ![s] = session'[s]],
         session'[s] \in Session, Carried(session'[s]),
         UNCHANGED <<inv, payments, bank, tenant>>
  PROVE  IInv'
<1>1. TypeOK'
  BY DEF IInv, TypeOK
<1>2. CarriedInv'
  <2> SUFFICES ASSUME NEW z \in Sessions PROVE Carried(session[z])'
    BY DEF CarriedInv
  <2>1. session \in [Sessions -> Session]
    BY DEF IInv, TypeOK
  <2>2. Carried(session'[z])
    BY <2>1 DEF IInv, CarriedInv
  <2> QED
    BY <2>2 DEF Carried, CapturedFrom
<1>3. MatchedCarriesItsCredit'
  BY DEF IInv, MatchedCarriesItsCredit
<1> QED
  BY <1>1, <1>2, <1>3 DEF IInv

LEMMA Initial == Init => IInv
<1> SUFFICES ASSUME Init PROVE IInv
  OBVIOUS
<1>1. TypeOK
  <2>1. inv \in [Invoices -> Statuses]
    BY DEF Init, Statuses
  <2>2. payments \in Seq(Payment)
    BY DEF Init
  <2>3. bank \in [BankTxs -> BankRow]
    BY DEF Init, BankRow, NotImported, NoPayment
  <2>4. session \in [Sessions -> Session]
    BY IdleFacts DEF Init
  <2> QED
    BY <2>1, <2>2, <2>3, <2>4 DEF Init, TypeOK
<1>2. CarriedInv
  BY IdleFacts DEF Init, CarriedInv
<1>3. MatchedCarriesItsCredit
  BY DEF Init, MatchedCarriesItsCredit, NotImported
<1> QED
  BY <1>1, <1>2, <1>3 DEF IInv

\* The bank rows an import adds are unmatched.
LEMMA ImportKeeps ==
  ASSUME IInv, NEW file \in SUBSET BankTxs, Import(file)
  PROVE  IInv'
<1>1. PICK proposal \in [file -> Outstanding \cup {None}] :
        bank' = [b \in BankTxs |->
                   IF b \in file /\ bank[b].status = "absent"
                   THEN [status |-> "unmatched", payment |-> NoPayment,
                         proposed |-> proposal[b]]
                   ELSE bank[b]]
  BY DEF Import
<1>2. bank' \in [BankTxs -> BankRow]
  <2> SUFFICES ASSUME NEW b \in BankTxs PROVE bank'[b] \in BankRow
    BY <1>1
  <2>1. bank[b] \in BankRow
    BY DEF IInv, TypeOK
  <2>2. CASE b \in file /\ bank[b].status = "absent"
    <3>1. proposal[b] \in Invoices \cup {None}
      BY <2>2 DEF Outstanding
    <3> QED
      BY <1>1, <2>2, <3>1 DEF BankRow, NoPayment
  <2>3. CASE ~(b \in file /\ bank[b].status = "absent")
    BY <1>1, <2>1, <2>3
  <2> QED
    BY <2>2, <2>3
<1>3. TypeOK'
  BY <1>2 DEF IInv, TypeOK, Import
<1>4. CarriedInv'
  BY DEF IInv, CarriedInv, Carried, CapturedFrom, Import
<1>5. MatchedCarriesItsCredit'
  BY <1>1 DEF IInv, MatchedCarriesItsCredit, Import
<1> QED
  BY <1>3, <1>4, <1>5 DEF IInv

LEMMA SetProposedKeeps ==
  ASSUME IInv, NEW b \in BankTxs, NEW i \in Invoices, SetProposed(b, i)
  PROVE  IInv'
<1>1. bank \in [BankTxs -> BankRow]
  BY DEF IInv, TypeOK
<1>2. bank' \in [BankTxs -> BankRow]
  BY <1>1 DEF SetProposed, BankRow
<1>3. TypeOK'
  BY <1>2 DEF IInv, TypeOK, SetProposed
<1>4. CarriedInv'
  BY DEF IInv, CarriedInv, Carried, CapturedFrom, SetProposed
<1>5. MatchedCarriesItsCredit'
  BY <1>1 DEF IInv, MatchedCarriesItsCredit, SetProposed, BankRow
<1> QED
  BY <1>3, <1>4, <1>5 DEF IInv

\* A new row leaves every earlier payment where it is.
LEMMA RecordedKeeps ==
  ASSUME IInv, NEW s \in Sessions, NEW pay \in Payment,
         pay.credit # None => pay.amount = CreditOf[pay.credit],
         Recorded(s, pay)
  PROVE  IInv'
<1>1. /\ payments \in Seq(Payment) /\ session \in [Sessions -> Session]
      /\ inv \in [Invoices -> Statuses]
  BY DEF IInv, TypeOK
<1>2. /\ payments' \in Seq(Payment)
      /\ Len(payments') = Len(payments) + 1
      /\ payments'[Len(payments')] = pay
      /\ \A p \in DOMAIN payments : p \in DOMAIN payments' /\ payments'[p] = payments[p]
  BY <1>1 DEF Recorded
<1>3. \A p, b : CapturedFrom(p, b) => CapturedFrom(p, b)'
  BY <1>2 DEF CapturedFrom
<1>4. session'[s] \in Session
  <2>1. session'[s] = [at |-> "committed", tenant |-> pay.tenant,
                       invoice |-> pay.invoice, credit |-> pay.credit,
                       payment |-> Len(payments'), owing |-> {}]
    BY <1>1 DEF Recorded
  <2>2. Len(payments') \in Nat
    BY <1>2
  <2> QED
    BY <2>1, <2>2 DEF Session, Payment
<1>5. PICK new : new = Len(payments')
  OBVIOUS
<1>6. Carried(session[s])'
  <2>1. session'[s] = [at |-> "committed", tenant |-> pay.tenant,
                       invoice |-> pay.invoice, credit |-> pay.credit,
                       payment |-> new, owing |-> {}]
    BY <1>1, <1>5 DEF Recorded
  <2>2. pay.credit # None => CapturedFrom(new, pay.credit)'
    BY <1>1, <1>2, <1>5 DEF CapturedFrom
  <2> QED
    BY <2>1, <2>2 DEF Carried, Payment, Paying
<1>7. CarriedInv'
  <2> SUFFICES ASSUME NEW z \in Sessions PROVE Carried(session[z])'
    BY DEF CarriedInv
  <2>1. CASE z = s
    BY <1>6, <2>1
  <2>2. CASE z # s
    <3>1. session'[z] = session[z] /\ Carried(session[z])
      BY <1>1, <2>2 DEF Recorded, IInv, CarriedInv
    <3> QED
      BY <3>1, <1>3 DEF Carried
  <2> QED
    BY <2>1, <2>2
<1>8. inv' \in [Invoices -> Statuses]
  <2>1. CASE pay.invoice = None
    BY <1>1, <2>1 DEF Recorded
  <2>2. CASE pay.invoice # None
    <3>1. pay.invoice \in Invoices
      BY <2>2 DEF Payment
    <3>2. inv' = [inv EXCEPT ![pay.invoice] = Settled(inv[pay.invoice], payments', pay.invoice)]
      BY <2>2 DEF Recorded
    <3>3. Settled(inv[pay.invoice], payments', pay.invoice) \in Statuses
      BY <1>1, <3>1, SettledStatus
    <3> QED
      BY <1>1, <3>2, <3>3
  <2> QED
    BY <2>1, <2>2
<1>9. TypeOK'
  <2>1. session' \in [Sessions -> Session]
    BY <1>1, <1>4 DEF Recorded
  <2> QED
    BY <1>2, <1>8, <2>1 DEF IInv, TypeOK, Recorded
<1>10. MatchedCarriesItsCredit'
  <2>1. \A b \in BankTxs : bank[b].status = "matched" => CapturedFrom(bank[b].payment, b)
    BY DEF IInv, MatchedCarriesItsCredit, CapturedFrom
  <2>2. bank' = bank
    BY DEF Recorded
  <2>3. \A b \in BankTxs : bank[b].status = "matched" => CapturedFrom(bank[b].payment, b)'
    BY <1>3, <2>1, <2>2
  <2> QED
    BY <2>2, <2>3 DEF MatchedCarriesItsCredit, CapturedFrom
<1> QED
  BY <1>7, <1>9, <1>10 DEF IInv

\* Allocation changes a payment's invoice, never its credit or its amount.
LEMMA AllocateKeeps ==
  ASSUME IInv, NEW s \in Sessions, NEW p \in DOMAIN payments, NEW i \in Invoices,
         Allocate(s, p, i)
  PROVE  IInv'
<1>1. /\ payments \in Seq(Payment) /\ session \in [Sessions -> Session]
      /\ inv \in [Invoices -> Statuses] /\ payments[p] \in Payment
  BY DEF IInv, TypeOK
<1>2. payments' = [payments EXCEPT ![p].invoice = i]
  BY DEF Allocate
<1>3. /\ payments' \in Seq(Payment) /\ DOMAIN payments' = DOMAIN payments
      /\ \A q \in DOMAIN payments : /\ payments'[q].credit = payments[q].credit
                                    /\ payments'[q].amount = payments[q].amount
  <2>1. [payments[p] EXCEPT !.invoice = i] \in Payment
    BY <1>1 DEF Payment
  <2>2. payments' = [payments EXCEPT ![p] = [payments[p] EXCEPT !.invoice = i]]
    BY <1>1, <1>2
  <2>3. payments' \in Seq(Payment) /\ DOMAIN payments' = DOMAIN payments
    BY <1>1, <2>1, <2>2
  <2>4. \A q \in DOMAIN payments : /\ payments'[q].credit = payments[q].credit
                                   /\ payments'[q].amount = payments[q].amount
    BY <1>1, <2>2 DEF Payment
  <2> QED
    BY <2>3, <2>4
<1>4. \A q, b : CapturedFrom(q, b) => CapturedFrom(q, b)'
  BY <1>3 DEF CapturedFrom
<1>5. session'[s] = [at |-> "committed", tenant |-> payments[p].tenant, invoice |-> i,
                     credit |-> None, payment |-> p, owing |-> {}]
  BY <1>1 DEF Allocate, Idle
<1>6. session'[s] \in Session
  <2>1. p \in Nat
    BY <1>1
  <2> QED
    BY <1>1, <1>5, <2>1 DEF Session, Payment
<1>7. CarriedInv'
  <2> SUFFICES ASSUME NEW z \in Sessions PROVE Carried(session[z])'
    BY DEF CarriedInv
  <2>1. CASE z = s
    BY <1>1, <1>5, <2>1 DEF Carried, Payment, Paying
  <2>2. CASE z # s
    <3>1. session'[z] = session[z] /\ Carried(session[z])
      BY <1>1, <2>2 DEF Allocate, IInv, CarriedInv
    <3> QED
      BY <3>1, <1>4 DEF Carried
  <2> QED
    BY <2>1, <2>2
<1>8. inv' \in [Invoices -> Statuses]
  <2>1. inv' = [inv EXCEPT ![i] = Settled(inv[i], payments', i)]
    BY DEF Allocate
  <2>2. Settled(inv[i], payments', i) \in Statuses
    BY <1>1, SettledStatus
  <2> QED
    BY <1>1, <2>1, <2>2
<1>9. TypeOK'
  <2>1. session' \in [Sessions -> Session]
    BY <1>1, <1>6 DEF Allocate
  <2> QED
    BY <1>3, <1>8, <2>1 DEF IInv, TypeOK, Allocate
<1>10. MatchedCarriesItsCredit'
  <2>1. \A b \in BankTxs : bank[b].status = "matched" => CapturedFrom(bank[b].payment, b)
    BY DEF IInv, MatchedCarriesItsCredit, CapturedFrom
  <2>2. bank' = bank
    BY DEF Allocate
  <2>3. \A b \in BankTxs : bank[b].status = "matched" => CapturedFrom(bank[b].payment, b)'
    BY <1>4, <2>1, <2>2
  <2> QED
    BY <2>2, <2>3 DEF MatchedCarriesItsCredit, CapturedFrom
<1> QED
  BY <1>7, <1>9, <1>10 DEF IInv

\* What follows the unsuspension carries what the session carried.
LEMMA ContinueFacts ==
  ASSUME IInv, NEW s \in Sessions,
         session[s].at \in {"owed", "cleared", "unsuspending"}
  PROVE  Continue(s) \in Session /\ Carried(Continue(s))
<1>1. session[s] \in Session /\ Carried(session[s])
  BY DEF IInv, TypeOK, CarriedInv
<1>2. CASE session[s].credit = None
  BY <1>2, IdleFacts DEF Continue
<1>3. CASE session[s].credit # None
  <2>1. Continue(s) = [session[s] EXCEPT !.at = "marking", !.owing = {}]
    BY <1>3 DEF Continue
  <2>2. Continue(s) \in Session
    BY <1>1, <2>1 DEF Session
  <2>3. /\ Continue(s).at = "marking" /\ Continue(s).credit = session[s].credit
        /\ Continue(s).payment = session[s].payment
        /\ Continue(s).tenant = session[s].tenant
    BY <1>1, <2>1 DEF Session
  <2>4. session[s].credit \in BankTxs
    BY <1>1, <1>3 DEF Session
  <2> QED
    BY <1>1, <1>3, <2>2, <2>3, <2>4 DEF Carried, Paying
<1> QED
  BY <1>2, <1>3

\* The steps of a session that touch no other table.
LEMMA ReadsKeep ==
  ASSUME IInv, NEW s \in Sessions,
         \/ \E b \in BankTxs, i \in Invoices : ConfirmReadCredit(s, b, i)
         \/ \E b \in BankTxs : UnallocatedRead(s, b) \/ IgnoreRead(s, b)
         \/ ConfirmReadInvoice(s) \/ RecordRefused(s) \/ ReadOwed(s)
         \/ ReadAllocated(s) \/ ReadTenant(s) \/ UnsuspendRefused(s)
         \/ Fail(s) \/ Acknowledge(s)
  PROVE  IInv'
<1>1. /\ session \in [Sessions -> Session] /\ session[s] \in Session
      /\ Carried(session[s]) /\ bank \in [BankTxs -> BankRow]
  BY DEF IInv, TypeOK, CarriedInv
<1>2. /\ UNCHANGED <<inv, payments, bank, tenant>>
      /\ session' = [session EXCEPT ![s] = session'[s]]
  BY <1>1 DEF ConfirmReadCredit, UnallocatedRead, IgnoreRead, ConfirmReadInvoice,
     RecordRefused, ReadOwed, ReadAllocated, ReadTenant, UnsuspendRefused, Fail, Acknowledge
<1>3. session'[s] \in Session /\ Carried(session'[s])
  <2>1. ASSUME NEW b \in BankTxs, NEW i \in Invoices, ConfirmReadCredit(s, b, i)
        PROVE  session'[s] \in Session /\ Carried(session'[s])
    <3>1. session'[s] = [at |-> "matching", tenant |-> None, invoice |-> i,
                         credit |-> b, payment |-> NoPayment, owing |-> {}]
      BY <1>1, <2>1 DEF ConfirmReadCredit, Idle
    <3> QED
      BY <3>1 DEF NoPayment, Session, Carried, Paying
  <2>2. ASSUME NEW b \in BankTxs, UnallocatedRead(s, b)
        PROVE  session'[s] \in Session /\ Carried(session'[s])
    <3>1. bank[b].proposed \in Invoices
      BY <1>1, <2>2 DEF UnallocatedRead, BankRow
    <3>2. OwnerOf[bank[b].proposed] \in Tenants
      BY <3>1, ConstantsAssumption
    <3>3. session'[s] = [at |-> "recording", tenant |-> OwnerOf[bank[b].proposed], invoice |-> None,
                         credit |-> b, payment |-> NoPayment, owing |-> {}]
      BY <1>1, <2>2 DEF UnallocatedRead, Idle
    <3> QED
      BY <3>2, <3>3 DEF NoPayment, Session, Carried, Paying
  <2>3. ASSUME NEW b \in BankTxs, IgnoreRead(s, b)
        PROVE  session'[s] \in Session /\ Carried(session'[s])
    <3>1. session'[s] = [at |-> "ignoring", tenant |-> None, invoice |-> None,
                         credit |-> b, payment |-> NoPayment, owing |-> {}]
      BY <1>1, <2>3 DEF IgnoreRead, Idle
    <3> QED
      BY <3>1 DEF NoPayment, Session, Carried, Paying
  <2>4. CASE ConfirmReadInvoice(s)
    <3>1. CASE inv[session[s].invoice] \in Open
      <4>1. session'[s] = [session[s] EXCEPT !.at = "recording",
                             !.tenant = OwnerOf[session[s].invoice]]
        BY <1>1, <2>4, <3>1 DEF ConfirmReadInvoice
      <4>2. OwnerOf[session[s].invoice] \in Tenants /\ session[s].credit \in BankTxs
        BY <1>1, <2>4, ConstantsAssumption DEF ConfirmReadInvoice, Carried
      <4> QED
        BY <1>1, <4>1, <4>2 DEF Session, Carried, Paying
    <3>2. CASE inv[session[s].invoice] \notin Open
      <4>1. session'[s] = Idle
        BY <1>1, <2>4, <3>2 DEF ConfirmReadInvoice
      <4> QED
        BY <4>1, IdleFacts
    <3> QED
      BY <3>1, <3>2
  <2>5. CASE RecordRefused(s) \/ UnsuspendRefused(s) \/ Fail(s) \/ Acknowledge(s)
    <3>1. session'[s] \in {Idle, Failed}
      BY <1>1, <2>5 DEF RecordRefused, UnsuspendRefused, Fail, Acknowledge
    <3> QED
      BY <3>1, IdleFacts
  <2>6. CASE ReadOwed(s)
    <3>1. session'[s] = [session[s] EXCEPT !.at = "owed",
                                           !.owing = OpenOf(session[s].tenant)]
      BY <1>1, <2>6 DEF ReadOwed
    <3>2. OpenOf(session[s].tenant) \in SUBSET Invoices
      BY DEF OpenOf
    <3>3. session[s].at = "committed"
      BY <2>6 DEF ReadOwed
    <3> QED
      BY <1>1, <3>1, <3>2, <3>3 DEF Session, Carried, Paying
  <2>7. CASE ReadAllocated(s) \/ ReadTenant(s)
    <3>1. session[s].at \in {"owed", "cleared"}
      BY <2>7 DEF ReadAllocated, ReadTenant
    <3>2. CASE session'[s] = Continue(s)
      <4>1. Continue(s) \in Session /\ Carried(Continue(s))
        BY <3>1, ContinueFacts
      <4> QED
        BY <3>2, <4>1
    <3>3. CASE session'[s] = [session[s] EXCEPT !.at = "cleared"]
      BY <1>1, <3>1, <3>3 DEF Session, Carried, Paying
    <3>4. CASE session'[s] = [session[s] EXCEPT !.at = "unsuspending"]
      BY <1>1, <3>1, <3>4 DEF Session, Carried, Paying
    <3>5. \/ session'[s] = Continue(s)
          \/ session'[s] = [session[s] EXCEPT !.at = "cleared"]
          \/ session'[s] = [session[s] EXCEPT !.at = "unsuspending"]
      BY <1>1, <2>7 DEF ReadAllocated, ReadTenant
    <3> QED
      BY <3>2, <3>3, <3>4, <3>5
  <2> QED
    BY <2>1, <2>2, <2>3, <2>4, <2>5, <2>6, <2>7
<1> QED
  BY <1>2, <1>3, SessionMoves

LEMMA UnsuspendKeeps ==
  ASSUME IInv, NEW s \in Sessions, Unsuspend(s)
  PROVE  IInv'
<1>1. /\ session \in [Sessions -> Session] /\ tenant \in [Tenants -> {"active", "suspended"}]
      /\ Carried(session[s])
  BY DEF IInv, TypeOK, CarriedInv
<1>2. session' = [session EXCEPT ![s] = Continue(s)]
  BY DEF Unsuspend
<1>3. Continue(s) \in Session /\ Carried(Continue(s))
  BY ContinueFacts DEF Unsuspend
<1>4. TypeOK'
  <2>1. session' \in [Sessions -> Session]
    BY <1>1, <1>2, <1>3
  <2>2. tenant' \in [Tenants -> {"active", "suspended"}]
    BY <1>1 DEF Unsuspend
  <2> QED
    BY <2>1, <2>2 DEF IInv, TypeOK, Unsuspend
<1>5. CarriedInv'
  <2> SUFFICES ASSUME NEW z \in Sessions PROVE Carried(session[z])'
    BY DEF CarriedInv
  <2>1. Carried(session'[z])
    BY <1>1, <1>2, <1>3 DEF IInv, CarriedInv
  <2> QED
    BY <2>1 DEF Carried, CapturedFrom, Unsuspend
<1>6. MatchedCarriesItsCredit'
  BY DEF IInv, MatchedCarriesItsCredit, Unsuspend
<1> QED
  BY <1>4, <1>5, <1>6 DEF IInv

LEMMA MarkKeeps ==
  ASSUME IInv, NEW s \in Sessions, Mark(s)
  PROVE  IInv'
<1> DEFINE b == session[s].credit
<1>1. /\ session \in [Sessions -> Session] /\ bank \in [BankTxs -> BankRow]
      /\ session[s] \in Session /\ Carried(session[s]) /\ session[s].at = "marking"
  BY DEF IInv, TypeOK, CarriedInv, Mark
<1>2. b \in BankTxs /\ b # None
  BY <1>1, ConstantsAssumption DEF Carried
<1>3. CapturedFrom(session[s].payment, b)
  BY <1>1, <1>2 DEF Carried, Paying
<1>4. bank' = [bank EXCEPT ![b] = Marked(bank[b], session[s].payment, session[s].invoice)]
  BY DEF Mark
<1>5. /\ Marked(bank[b], session[s].payment, session[s].invoice) \in BankRow
      /\ Marked(bank[b], session[s].payment, session[s].invoice).payment = session[s].payment
  BY <1>1, <1>2 DEF Marked, BankRow, Session
<1>6. TypeOK'
  <2>1. bank' \in [BankTxs -> BankRow]
    BY <1>1, <1>4, <1>5
  <2>2. session' \in [Sessions -> Session]
    BY <1>1, IdleFacts DEF Mark
  <2> QED
    BY <2>1, <2>2 DEF IInv, TypeOK, Mark
<1>7. CarriedInv'
  <2> SUFFICES ASSUME NEW z \in Sessions PROVE Carried(session[z])'
    BY DEF CarriedInv
  <2>1. Carried(session'[z])
    BY <1>1, IdleFacts DEF IInv, CarriedInv, Mark
  <2> QED
    BY <2>1 DEF Carried, CapturedFrom, Mark
<1>8. MatchedCarriesItsCredit'
  <2> SUFFICES ASSUME NEW c \in BankTxs, bank'[c].status = "matched"
               PROVE  CapturedFrom(bank'[c].payment, c)
    BY DEF MatchedCarriesItsCredit, CapturedFrom, Mark
  <2>1. CASE c = b
    BY <1>1, <1>2, <1>3, <1>4, <1>5, <2>1
  <2>2. CASE c # b
    BY <1>1, <1>4, <2>2 DEF IInv, MatchedCarriesItsCredit, CapturedFrom
  <2> QED
    BY <2>1, <2>2
<1> QED
  BY <1>6, <1>7, <1>8 DEF IInv

LEMMA IgnoreKeeps ==
  ASSUME IInv, NEW s \in Sessions, IgnoreCommit(s)
  PROVE  IInv'
<1> DEFINE b == session[s].credit
<1>1. /\ session \in [Sessions -> Session] /\ bank \in [BankTxs -> BankRow]
      /\ Carried(session[s]) /\ session[s].at = "ignoring"
  BY DEF IInv, TypeOK, CarriedInv, IgnoreCommit
<1>2. b \in BankTxs
  BY <1>1 DEF Carried
<1>3. bank' \in [BankTxs -> BankRow] /\ bank'[b].status = "ignored"
      /\ \A c \in BankTxs : c # b => bank'[c] = bank[c]
  BY <1>1, <1>2 DEF IgnoreCommit, BankRow
<1>4. TypeOK'
  <2>1. session' \in [Sessions -> Session]
    BY <1>1, IdleFacts DEF IgnoreCommit
  <2> QED
    BY <1>3, <2>1 DEF IInv, TypeOK, IgnoreCommit
<1>5. CarriedInv'
  <2> SUFFICES ASSUME NEW z \in Sessions PROVE Carried(session[z])'
    BY DEF CarriedInv
  <2>1. Carried(session'[z])
    BY <1>1, IdleFacts DEF IInv, CarriedInv, IgnoreCommit
  <2> QED
    BY <2>1 DEF Carried, CapturedFrom, IgnoreCommit
<1>6. MatchedCarriesItsCredit'
  BY <1>2, <1>3 DEF IInv, MatchedCarriesItsCredit, IgnoreCommit
<1> QED
  BY <1>4, <1>5, <1>6 DEF IInv

LEMMA ConsoleKeeps ==
  ASSUME IInv,
         \/ \E i \in Invoices, to \in Statuses : MoveInvoice(i, to)
         \/ \E t \in Tenants : SetStanding(t)
  PROVE  IInv'
<1>1. UNCHANGED <<payments, bank, session>>
  BY DEF MoveInvoice, SetStanding
<1>2. inv' \in [Invoices -> Statuses] /\ tenant' \in [Tenants -> {"active", "suspended"}]
  BY DEF MoveInvoice, SetStanding, IInv, TypeOK
<1>3. TypeOK'
  BY <1>1, <1>2 DEF IInv, TypeOK
<1>4. CarriedInv'
  BY <1>1 DEF IInv, CarriedInv, Carried, CapturedFrom
<1>5. MatchedCarriesItsCredit'
  BY <1>1 DEF IInv, MatchedCarriesItsCredit
<1> QED
  BY <1>3, <1>4, <1>5 DEF IInv

LEMMA StepKeeps == IInv /\ [Next]_vars => IInv'
<1> SUFFICES ASSUME IInv, [Next]_vars PROVE IInv'
  OBVIOUS
<1>1. CASE UNCHANGED vars
  BY <1>1 DEF vars, IInv, TypeOK, CarriedInv, Carried, CapturedFrom, MatchedCarriesItsCredit
<1>2. ASSUME NEW s \in Sessions, Begin(s) PROVE IInv'
  <2>1. ASSUME NEW t \in Tenants, NEW i \in Invoices \cup {None}, NEW a \in Amounts,
               Capture(s, t, i, a)
        PROVE  IInv'
    <3>1. [tenant |-> t, invoice |-> i, amount |-> a, credit |-> None] \in Payment
      BY ConstantsAssumption DEF Payment
    <3>2. PICK pay \in Payment :
            pay = [tenant |-> t, invoice |-> i, amount |-> a, credit |-> None]
      BY <3>1
    <3>3. Recorded(s, pay) /\ pay.credit = None
      BY <2>1, <3>2 DEF Capture
    <3> QED
      BY <3>3, RecordedKeeps
  <2>2. ASSUME NEW p \in DOMAIN payments, NEW i \in Invoices, Allocate(s, p, i)
        PROVE  IInv'
    BY <2>2, AllocateKeeps
  <2> QED
    BY <1>2, <2>1, <2>2, ReadsKeep DEF Begin
<1>3. ASSUME NEW s \in Sessions, Step(s) PROVE IInv'
  <2>1. CASE RecordCredit(s)
    <3>1. session[s] \in Session /\ Carried(session[s]) /\ session[s].at = "recording"
      BY <2>1 DEF IInv, TypeOK, CarriedInv, RecordCredit
    <3>2. /\ session[s].credit \in BankTxs /\ session[s].tenant \in Tenants
          /\ session[s].invoice \in Invoices \cup {None}
      BY <3>1 DEF Carried, Session
    <3>3. [tenant |-> session[s].tenant, invoice |-> session[s].invoice,
           amount |-> CreditOf[session[s].credit], credit |-> session[s].credit] \in Payment
      BY <3>2, ConstantsAssumption DEF Payment
    <3>4. PICK pay \in Payment :
            pay = [tenant |-> session[s].tenant, invoice |-> session[s].invoice,
                   amount |-> CreditOf[session[s].credit], credit |-> session[s].credit]
      BY <3>3
    <3>5. Recorded(s, pay) /\ pay.amount = CreditOf[pay.credit]
      BY <2>1, <3>4 DEF RecordCredit
    <3> QED
      BY <3>5, RecordedKeeps
  <2> QED
    BY <1>3, <2>1, ReadsKeep, UnsuspendKeeps, MarkKeeps, IgnoreKeeps DEF Step
<1>4. ASSUME NEW s \in Sessions, Fail(s) \/ Acknowledge(s) PROVE IInv'
  BY <1>4, ReadsKeep
<1>5. ASSUME NEW file \in (SUBSET BankTxs) \ {{}}, Import(file) PROVE IInv'
  BY <1>5, ImportKeeps
<1>6. ASSUME NEW b \in BankTxs, NEW i \in Invoices, SetProposed(b, i) PROVE IInv'
  BY <1>6, SetProposedKeeps
<1> QED
  BY <1>1, <1>2, <1>3, <1>4, <1>5, <1>6, ConsoleKeeps DEF Next

LEMMA Invariance == Spec => []IInv
BY Initial, StepKeeps, PTL DEF Spec

\* Every table and every session keeps its type.
THEOREM TypeCorrect == Spec => []TypeOK
<1>1. IInv => TypeOK
  BY DEF IInv
<1> QED
  BY <1>1, Invariance, PTL

\* A matched bank transaction points at a payment captured from it, for its
\* amount, whatever runs concurrently and wherever an action stops
\* (reconcile.ts confirmBankMatch, markBankUnallocated).
THEOREM MatchedCarries == Spec => []MatchedCarriesItsCredit
<1>1. IInv => MatchedCarriesItsCredit
  BY DEF IInv
<1> QED
  BY <1>1, Invariance, PTL

-----------------------------------------------------------------------------
\* Sums.  SumFunctionOnSet is a fold that CHOOSEs the next element; what it
\* computes has to be proved for every finite set.

LEMMA SmallestSet ==
  ASSUME NEW S, IsFiniteSet(S), NEW B \in SUBSET SUBSET S, B # {}
  PROVE  \E T \in B : \A U \in B : ~(U \subseteq T /\ U # T)
<1>1. FiniteSubsetsOf(S) = SUBSET S
  BY FS_FiniteSubsetsOfFinite
<1>2. IsWellFoundedOn(StrictSubsetOrdering(S), SUBSET S)
  BY <1>1, FS_StrictSubsetOrderingWellFounded
<1>3. PICK T \in B : \A U \in B : ~ (<<U, T>> \in StrictSubsetOrdering(S))
  BY <1>2, WFMin
<1> QED BY <1>3 DEF StrictSubsetOrdering

\* Induction on a finite set; a set G stands for the property, since no
\* prover here instantiates a theorem with an operator parameter.
LEMMA FiniteInduction ==
  ASSUME NEW S, IsFiniteSet(S), NEW G,
         \A T \in SUBSET S : (\A U \in SUBSET T : U # T => U \in G) => T \in G
  PROVE  \A T \in SUBSET S : T \in G
<1> DEFINE B == {T \in SUBSET S : T \notin G}
<1> SUFFICES ASSUME B # {} PROVE FALSE
  OBVIOUS
<1>1. PICK T \in B : \A U \in B : ~(U \subseteq T /\ U # T)
  <2>1. B \in SUBSET SUBSET S
    OBVIOUS
  <2> HIDE DEF B
  <2> QED BY <2>1, SmallestSet
<1>2. \A U \in SUBSET T : U # T => U \in G
  BY <1>1
<1> QED BY <1>1, <1>2

\* The recursive function that SumFunctionOnSet is defined from.
Pick(S) == CHOOSE x \in S : TRUE
Sums(f, S, g) ==
  g = [T \in SUBSET S |-> IF T = {} THEN 0 ELSE f[Pick(T)] + g[T \ {Pick(T)}]]

LEMMA SumDefined ==
  ASSUME NEW f, NEW S
  PROVE  SumFunctionOnSet(f, S) = (CHOOSE g : Sums(f, S, g))[S]
BY DEF SumFunctionOnSet, FoldFunctionOnSet, MapThenFoldSet, Sums, Pick

LEMMA PickIsIn == ASSUME NEW S, S # {} PROVE Pick(S) \in S
BY DEF Pick

LEMMA SumsAgree ==
  ASSUME NEW f, NEW S, NEW T, IsFiniteSet(S), NEW g, NEW h,
         Sums(f, S, g), Sums(f, T, h)
  PROVE  \A U \in SUBSET S : U \in SUBSET T => g[U] = h[U]
<1> DEFINE G == {U \in SUBSET S : U \in SUBSET T => g[U] = h[U]}
<1>1. ASSUME NEW U \in SUBSET S, \A V \in SUBSET U : V # U => V \in G
      PROVE  U \in G
  <2> SUFFICES ASSUME U \in SUBSET T PROVE g[U] = h[U]
    OBVIOUS
  <2>1. CASE U = {}
    BY <2>1 DEF Sums
  <2>2. CASE U # {}
    <3>1. Pick(U) \in U
      BY <2>2, PickIsIn
    <3>2. g[U \ {Pick(U)}] = h[U \ {Pick(U)}]
      BY <1>1, <3>1
    <3>3. /\ g[U] = f[Pick(U)] + g[U \ {Pick(U)}]
          /\ h[U] = f[Pick(U)] + h[U \ {Pick(U)}]
      BY <2>2 DEF Sums
    <3> QED BY <3>2, <3>3
  <2> QED BY <2>1, <2>2
<1> HIDE DEF G
<1>2. \A U \in SUBSET S : U \in G
  BY <1>1, FiniteInduction
<1> QED BY <1>2 DEF G

LEMMA SumsExist ==
  ASSUME NEW f, NEW S, IsFiniteSet(S)
  PROVE  Sums(f, S, CHOOSE g : Sums(f, S, g))
<1> DEFINE Fun(T) == CHOOSE g : Sums(f, T, g)
           G == {T \in SUBSET S : Sums(f, T, Fun(T))}
<1>1. ASSUME NEW T \in SUBSET S, \A U \in SUBSET T : U # T => U \in G
      PROVE  T \in G
  <2> DEFINE g == [U \in SUBSET T |->
                     IF U # T THEN Fun(U)[U]
                     ELSE IF T = {} THEN 0
                     ELSE f[Pick(T)] + Fun(T \ {Pick(T)})[T \ {Pick(T)}]]
  <2>1. \A U \in SUBSET T : U # T => Sums(f, U, Fun(U)) /\ IsFiniteSet(U)
    BY <1>1, FS_Subset
  <2>2. \A U \in SUBSET T : U # {} => Pick(U) \in U /\ U \ {Pick(U)} # T
    BY PickIsIn
  <2>3. ASSUME NEW U \in SUBSET T
        PROVE  g[U] = IF U = {} THEN 0 ELSE f[Pick(U)] + g[U \ {Pick(U)}]
    <3> DEFINE V == U \ {Pick(U)}
    <3>1. CASE U = {} /\ U # T
      <4>1. Sums(f, U, Fun(U)) /\ U \in SUBSET U
        BY <2>1, <3>1
      <4>2. Fun(U)[U] = 0
        <5> HIDE DEF Fun
        <5> QED BY <3>1, <4>1 DEF Sums
      <4> QED BY <3>1, <4>2
    <3>2. CASE U # {} /\ U # T
      <4>1. V \in SUBSET T /\ V # T /\ V \in SUBSET U
        BY <2>2, <3>2
      <4>2. Sums(f, U, Fun(U)) /\ Sums(f, V, Fun(V)) /\ IsFiniteSet(U)
        BY <2>1, <3>2, <4>1
      <4>3. Fun(U)[V] = Fun(V)[V]
        BY <4>1, <4>2, SumsAgree
      <4>4. Fun(U)[U] = f[Pick(U)] + Fun(U)[V]
        BY <4>2, <3>2 DEF Sums
      <4>5. g[U] = Fun(U)[U] /\ g[V] = Fun(V)[V]
        BY <3>2, <4>1
      <4> HIDE DEF g, Fun, V
      <4> QED BY <3>2, <4>3, <4>4, <4>5 DEF V
    <3>3. CASE U = T /\ T = {}
      BY <3>3
    <3>4. CASE U = T /\ T # {}
      <4>1. V \in SUBSET T /\ V # T
        BY <2>2, <3>4
      <4>2. g[V] = Fun(V)[V] /\ g[U] = f[Pick(T)] + Fun(T \ {Pick(T)})[T \ {Pick(T)}]
        BY <3>4, <4>1
      <4> HIDE DEF g, Fun
      <4> QED BY <3>4, <4>2
    <3> QED BY <3>1, <3>2, <3>3, <3>4
  <2>4. Sums(f, T, g)
    <3>1. g = [U \in SUBSET T |-> g[U]]
      OBVIOUS
    <3> HIDE DEF g
    <3> QED BY <2>3, <3>1 DEF Sums
  <2>5. Sums(f, T, Fun(T))
    <3> HIDE DEF g
    <3> QED BY <2>4
  <2> QED BY <2>5
<1> HIDE DEF G
<1>2. S \in G
  BY <1>1, FiniteInduction
<1> QED BY <1>2 DEF G

\* What the sum of f over a finite set is.
LEMMA SumOfNothing ==
  ASSUME NEW f
  PROVE  SumFunctionOnSet(f, {}) = 0
<1>1. Sums(f, {}, CHOOSE g : Sums(f, {}, g))
  BY SumsExist, FS_EmptySet
<1> QED BY <1>1, SumDefined DEF Sums

LEMMA SumOfPick ==
  ASSUME NEW f, NEW S, IsFiniteSet(S), S # {}
  PROVE  SumFunctionOnSet(f, S)
           = f[Pick(S)] + SumFunctionOnSet(f, S \ {Pick(S)})
<1> DEFINE T == S \ {Pick(S)}
           Fun(U) == CHOOSE g : Sums(f, U, g)
<1>1. IsFiniteSet(T)
  BY FS_Subset
<1>2. Sums(f, S, Fun(S)) /\ Sums(f, T, Fun(T))
  BY <1>1, SumsExist
<1>3. Fun(S)[T] = Fun(T)[T]
  BY <1>1, <1>2, SumsAgree
<1>4. SumFunctionOnSet(f, S) = Fun(S)[S] /\ SumFunctionOnSet(f, T) = Fun(T)[T]
  BY SumDefined
<1>5. Fun(S)[S] = f[Pick(S)] + Fun(S)[T]
  BY <1>2 DEF Sums
<1> QED BY <1>3, <1>4, <1>5

LEMMA SumIsInt ==
  ASSUME NEW f, NEW S, IsFiniteSet(S), \A x \in S : f[x] \in Int
  PROVE  SumFunctionOnSet(f, S) \in Int
<1> DEFINE G == {T \in SUBSET S : SumFunctionOnSet(f, T) \in Int}
<1>1. ASSUME NEW T \in SUBSET S, \A U \in SUBSET T : U # T => U \in G
      PROVE  T \in G
  <2>1. CASE T = {}
    BY <2>1, SumOfNothing
  <2>2. CASE T # {}
    <3>1. Pick(T) \in T
      BY <2>2, PickIsIn
    <3>2. SumFunctionOnSet(f, T \ {Pick(T)}) \in Int
      BY <1>1, <3>1
    <3>3. SumFunctionOnSet(f, T) \in Int
      BY <2>2, <3>1, <3>2, SumOfPick, FS_Subset
    <3> QED BY <3>3
  <2> QED BY <2>1, <2>2
<1> HIDE DEF G
<1>2. S \in G
  BY <1>1, FiniteInduction
<1> QED BY <1>2 DEF G

LEMMA SumOfSame ==
  ASSUME NEW f, NEW h, NEW S, IsFiniteSet(S), \A x \in S : f[x] = h[x]
  PROVE  SumFunctionOnSet(f, S) = SumFunctionOnSet(h, S)
<1> DEFINE G == {T \in SUBSET S : SumFunctionOnSet(f, T) = SumFunctionOnSet(h, T)}
<1>1. ASSUME NEW T \in SUBSET S, \A U \in SUBSET T : U # T => U \in G
      PROVE  T \in G
  <2>1. CASE T = {}
    BY <2>1, SumOfNothing
  <2>2. CASE T # {}
    <3>1. Pick(T) \in T
      BY <2>2, PickIsIn
    <3>2. SumFunctionOnSet(f, T \ {Pick(T)}) = SumFunctionOnSet(h, T \ {Pick(T)})
      BY <1>1, <3>1
    <3>3. SumFunctionOnSet(f, T) = SumFunctionOnSet(h, T)
      BY <2>2, <3>1, <3>2, SumOfPick, FS_Subset
    <3> QED BY <3>3
  <2> QED BY <2>1, <2>2
<1> HIDE DEF G
<1>2. S \in G
  BY <1>1, FiniteInduction
<1> QED BY <1>2 DEF G

\* The order in which the elements are added does not matter.
LEMMA SumOfOne ==
  ASSUME NEW f, NEW S, IsFiniteSet(S), \A x \in S : f[x] \in Int, NEW x \in S
  PROVE  SumFunctionOnSet(f, S) = f[x] + SumFunctionOnSet(f, S \ {x})
<1> DEFINE Sum(T) == SumFunctionOnSet(f, T)
           G == {T \in SUBSET S : \A z \in T : Sum(T) = f[z] + Sum(T \ {z})}
<1>0. \A T \in SUBSET S : IsFiniteSet(T) /\ Sum(T) \in Int
  BY FS_Subset, SumIsInt
<1>1. ASSUME NEW T \in SUBSET S, \A U \in SUBSET T : U # T => U \in G
      PROVE  T \in G
  <2> SUFFICES ASSUME NEW z \in T PROVE Sum(T) = f[z] + Sum(T \ {z})
    OBVIOUS
  <2> DEFINE y == Pick(T)
  <2>1. y \in T /\ IsFiniteSet(T) /\ Sum(T) = f[y] + Sum(T \ {y})
    BY <1>0, PickIsIn, SumOfPick
  <2>2. CASE y = z
    BY <2>1, <2>2
  <2>3. CASE y # z
    <3>1. /\ Sum(T \ {y}) = f[z] + Sum((T \ {y}) \ {z})
          /\ Sum(T \ {z}) = f[y] + Sum((T \ {z}) \ {y})
      BY <1>1, <2>1, <2>3
    <3>2. Sum((T \ {y}) \ {z}) = Sum((T \ {z}) \ {y})
      <4>1. (T \ {y}) \ {z} = (T \ {z}) \ {y}
        OBVIOUS
      <4> QED BY <4>1, Zenon
    <3>3. f[z] \in Int /\ f[y] \in Int /\ Sum((T \ {z}) \ {y}) \in Int
      BY <1>0, <2>1
    <3> HIDE DEF Sum
    <3> QED BY <2>1, <3>1, <3>2, <3>3
  <2> HIDE DEF Sum, y
  <2> QED BY <2>2, <2>3
<1> HIDE DEF G
<1>2. S \in G
  BY <1>1, FiniteInduction
<1> QED BY <1>2 DEF G

LEMMA SumOfUnion ==
  ASSUME NEW f, NEW S, NEW R, IsFiniteSet(S), IsFiniteSet(R), S \cap R = {},
         \A x \in S \cup R : f[x] \in Int
  PROVE  SumFunctionOnSet(f, S \cup R)
           = SumFunctionOnSet(f, S) + SumFunctionOnSet(f, R)
<1> DEFINE Sum(T) == SumFunctionOnSet(f, T)
           G == {T \in SUBSET S : Sum(T \cup R) = Sum(T) + Sum(R)}
<1>0. /\ IsFiniteSet(S \cup R)
      /\ \A T \in SUBSET (S \cup R) : IsFiniteSet(T)
  BY FS_Union, FS_Subset
<1>a. \A T \in SUBSET (S \cup R) : Sum(T) \in Int
  BY <1>0, SumIsInt
<1>1. ASSUME NEW T \in SUBSET S, \A U \in SUBSET T : U # T => U \in G
      PROVE  T \in G
  <2> SUFFICES Sum(T \cup R) = Sum(T) + Sum(R)
    OBVIOUS
  <2>1. CASE T = {}
    <3>1. {} \cup R = R /\ Sum(R) \in Int /\ Sum({}) = 0
      BY <1>a, SumOfNothing
    <3> HIDE DEF Sum
    <3> QED BY <2>1, <3>1
  <2>2. CASE T # {}
    <3> PICK x \in T : TRUE
      BY <2>2
    <3>1. Sum((T \cup R) \ {x}) = Sum((T \ {x}) \cup R)
      <4>1. (T \cup R) \ {x} = (T \ {x}) \cup R
        OBVIOUS
      <4> QED BY <4>1, Zenon
    <3>2. Sum((T \ {x}) \cup R) = Sum(T \ {x}) + Sum(R)
      BY <1>1
    <3>3. Sum(T \cup R) = f[x] + Sum((T \cup R) \ {x})
      <4> x \in T \cup R /\ IsFiniteSet(T \cup R) /\ \A z \in T \cup R : f[z] \in Int
        BY <1>0
      <4> QED BY SumOfOne
    <3>4. Sum(T) = f[x] + Sum(T \ {x})
      <4> IsFiniteSet(T) /\ \A z \in T : f[z] \in Int
        BY <1>0
      <4> QED BY SumOfOne
    <3>5. f[x] \in Int /\ Sum(T \ {x}) \in Int /\ Sum(R) \in Int
      BY <1>a
    <3> HIDE DEF Sum
    <3> QED BY <3>1, <3>2, <3>3, <3>4, <3>5
  <2> HIDE DEF Sum
  <2> QED BY <2>1, <2>2
<1> HIDE DEF G
<1>2. S \in G
  BY <1>1, FiniteInduction
<1> QED BY <1>2 DEF G

LEMMA SumIsNat ==
  ASSUME NEW f, NEW S, IsFiniteSet(S), \A x \in S : f[x] \in Nat
  PROVE  SumFunctionOnSet(f, S) \in Nat
<1> DEFINE G == {T \in SUBSET S : SumFunctionOnSet(f, T) \in Nat}
<1>1. ASSUME NEW T \in SUBSET S, \A U \in SUBSET T : U # T => U \in G
      PROVE  T \in G
  <2>1. CASE T = {}
    BY <2>1, SumOfNothing
  <2>2. CASE T # {}
    <3>1. Pick(T) \in T
      BY <2>2, PickIsIn
    <3>2. SumFunctionOnSet(f, T \ {Pick(T)}) \in Nat
      BY <1>1, <3>1
    <3>3. SumFunctionOnSet(f, T) \in Nat
      BY <2>2, <3>1, <3>2, SumOfPick, FS_Subset
    <3> QED BY <3>3
  <2> QED BY <2>1, <2>2
<1> HIDE DEF G
<1>2. S \in G
  BY <1>1, FiniteInduction
<1> QED BY <1>2 DEF G

-----------------------------------------------------------------------------
\* What payments add up to on an invoice.

LEMMA OnIsFinite ==
  ASSUME NEW ps \in Seq(Payment), NEW is
  PROVE  /\ On(ps, is) \subseteq DOMAIN ps
         /\ IsFiniteSet(On(ps, is))
         /\ \A p \in On(ps, is) : [q \in DOMAIN ps |-> ps[q].amount][p] \in Int
<1>1. On(ps, is) \subseteq DOMAIN ps
  BY DEF On
<1>2. Len(ps) \in Nat /\ DOMAIN ps = 1 .. Len(ps)
  OBVIOUS
<1>3. IsFiniteSet(DOMAIN ps)
  BY <1>2, FS_Interval
<1>4. \A p \in DOMAIN ps : ps[p].amount \in Int
  <2>1. \A p \in DOMAIN ps : ps[p] \in Payment
    OBVIOUS
  <2> QED
    BY <2>1 DEF Payment
<1> QED
  BY <1>1, <1>3, <1>4, FS_Subset

LEMMA AllocatedIsInt ==
  ASSUME NEW ps \in Seq(Payment), NEW is
  PROVE  Allocated(ps, is) \in Int
BY OnIsFinite, SumIsInt DEF Allocated

LEMMA NothingAllocated ==
  ASSUME NEW ps, NEW is, On(ps, is) = {}
  PROVE  Allocated(ps, is) = 0
BY SumOfNothing DEF Allocated

\* Only the payments on the invoices count.
LEMMA AllocatedSame ==
  ASSUME NEW ps \in Seq(Payment), NEW qs \in Seq(Payment), NEW is,
         On(ps, is) = On(qs, is),
         \A p \in On(ps, is) : ps[p].amount = qs[p].amount
  PROVE  Allocated(ps, is) = Allocated(qs, is)
<1> DEFINE f == [p \in DOMAIN ps |-> ps[p].amount]
           h == [p \in DOMAIN qs |-> qs[p].amount]
<1>1. /\ IsFiniteSet(On(ps, is))
      /\ On(ps, is) \subseteq DOMAIN ps /\ On(ps, is) \subseteq DOMAIN qs
  BY OnIsFinite
<1>2. \A p \in On(ps, is) : f[p] = h[p]
  BY <1>1
<1>3. Allocated(ps, is) = SumFunctionOnSet(f, On(ps, is))
  BY DEF Allocated
<1>4. Allocated(qs, is) = SumFunctionOnSet(h, On(ps, is))
  BY DEF Allocated
<1> HIDE DEF f, h
<1> QED
  BY <1>1, <1>2, <1>3, <1>4, SumOfSame

-----------------------------------------------------------------------------
\* An open invoice is not covered.  The invariant needs that a draft has no
\* payments: issuing one opens it without looking at them.

DraftsUnpaid == \A i \in Invoices : inv[i] = "draft" => On(payments, {i}) = {}
CoveredInv == SettledWhenCovered /\ DraftsUnpaid

\* What the invariant says of one invoice.
CoveredAt(st, ps, i) ==
  /\ st \in Open /\ On(ps, {i}) # {} => Allocated(ps, {i}) < TotalOf[i]
  /\ st = "draft" => On(ps, {i}) = {}

LEMMA CoveredByInvoice == CoveredInv <=> \A i \in Invoices : CoveredAt(inv[i], payments, i)
BY DEF CoveredInv, SettledWhenCovered, DraftsUnpaid, CoveredAt

\* The check a payment's transaction ends with establishes it ...
LEMMA SettledCovers ==
  ASSUME NEW ps \in Seq(Payment), NEW i \in Invoices, NEW st \in Statuses \ {"draft"}
  PROVE  CoveredAt(Settled(st, ps, i), ps, i)
<1>1. Allocated(ps, {i}) \in Int /\ TotalOf[i] \in Int
  BY AllocatedIsInt, ConstantsAssumption
<1> QED
  BY <1>1 DEF CoveredAt, Settled, Statuses, Open

\* ... and the payments on other invoices do not disturb it.
LEMMA CoveredStays ==
  ASSUME NEW ps \in Seq(Payment), NEW qs \in Seq(Payment), NEW i, NEW st,
         CoveredAt(st, ps, i),
         On(ps, {i}) = On(qs, {i}),
         \A p \in On(ps, {i}) : ps[p].amount = qs[p].amount
  PROVE  CoveredAt(st, qs, i)
BY AllocatedSame DEF CoveredAt

LEMMA RecordedCovers ==
  ASSUME IInv, IInv', CoveredInv, NEW s \in Sessions, NEW pay \in Payment,
         Recorded(s, pay)
  PROVE  CoveredInv'
<1>1. /\ payments \in Seq(Payment) /\ payments' \in Seq(Payment)
      /\ inv \in [Invoices -> Statuses]
  BY DEF IInv, TypeOK
<1>2. /\ payments' = Append(payments, pay)
      /\ pay.invoice # None => Payable(pay.invoice, pay.tenant)
      /\ inv' = IF pay.invoice = None THEN inv
                ELSE [inv EXCEPT ![pay.invoice] =
                        Settled(inv[pay.invoice], payments', pay.invoice)]
  BY DEF Recorded
<1> SUFFICES ASSUME NEW i \in Invoices
             PROVE  CoveredAt(inv'[i], payments', i)
  BY DEF CoveredInv, SettledWhenCovered, DraftsUnpaid, CoveredAt
<1>3. CASE pay.invoice = i
  <2>1. inv[i] \in Statuses \ {"draft"}
    BY <1>1, <1>2, <1>3, ConstantsAssumption DEF Payable
  <2>2. inv'[i] = Settled(inv[i], payments', i)
    BY <1>1, <1>2, <1>3, ConstantsAssumption
  <2> QED
    BY <1>1, <2>1, <2>2, SettledCovers
<1>4. CASE pay.invoice # i
  <2>1. inv'[i] = inv[i]
    BY <1>1, <1>2, <1>4
  <2>2. /\ On(payments, {i}) = On(payments', {i})
        /\ \A p \in On(payments, {i}) : payments[p].amount = payments'[p].amount
    BY <1>1, <1>2, <1>4 DEF On
  <2>3. CoveredAt(inv[i], payments, i)
    BY CoveredByInvoice
  <2> QED
    BY <1>1, <2>1, <2>2, <2>3, CoveredStays
<1> QED
  BY <1>3, <1>4

LEMMA AllocateCovers ==
  ASSUME IInv, IInv', CoveredInv, NEW s \in Sessions, NEW p \in DOMAIN payments,
         NEW i \in Invoices, Allocate(s, p, i)
  PROVE  CoveredInv'
<1>1. /\ payments \in Seq(Payment) /\ payments' \in Seq(Payment)
      /\ inv \in [Invoices -> Statuses] /\ payments[p] \in Payment
  BY DEF IInv, TypeOK
<1>2. /\ payments[p].invoice = None /\ inv[i] # "draft"
      /\ payments' = [payments EXCEPT ![p] = [payments[p] EXCEPT !.invoice = i]]
      /\ inv' = [inv EXCEPT ![i] = Settled(inv[i], payments', i)]
  BY DEF Allocate, Payable
<1> SUFFICES ASSUME NEW j \in Invoices
             PROVE  CoveredAt(inv'[j], payments', j)
  BY DEF CoveredInv, SettledWhenCovered, DraftsUnpaid, CoveredAt
<1>3. CASE j = i
  BY <1>1, <1>2, <1>3, SettledCovers
<1>4. CASE j # i
  <2>1. inv'[j] = inv[j]
    BY <1>1, <1>2, <1>4
  <2>2. /\ DOMAIN payments' = DOMAIN payments
        /\ payments'[p].invoice = i /\ payments'[p].amount = payments[p].amount
        /\ \A q \in DOMAIN payments \ {p} : payments'[q] = payments[q]
    BY <1>1, <1>2 DEF Payment
  <2>3. /\ On(payments, {j}) = On(payments', {j})
        /\ \A q \in On(payments, {j}) : payments[q].amount = payments'[q].amount
    BY <1>2, <1>4, <2>2, ConstantsAssumption DEF On
  <2>4. CoveredAt(inv[j], payments, j)
    BY CoveredByInvoice
  <2> QED
    BY <1>1, <2>1, <2>3, <2>4, CoveredStays
<1> QED
  BY <1>3, <1>4

LEMMA MoveCovers ==
  ASSUME IInv, CoveredInv, NEW i \in Invoices, NEW to \in Statuses, MoveInvoice(i, to)
  PROVE  CoveredInv'
<1>1. inv \in [Invoices -> Statuses]
  BY DEF IInv, TypeOK
<1> SUFFICES ASSUME NEW j \in Invoices
             PROVE  CoveredAt(inv'[j], payments', j)
  BY DEF CoveredInv, SettledWhenCovered, DraftsUnpaid, CoveredAt
<1>2. CoveredAt(inv[j], payments, j) /\ payments' = payments
  BY CoveredByInvoice DEF MoveInvoice
<1>3. CASE j = i
  <2>1. to \in Moves[inv[i]] /\ inv'[i] = to
    BY <1>1 DEF MoveInvoice
  <2>2. /\ to # "draft"
        /\ to \in Open => inv[i] = "draft" \/ inv[i] \in Open
    BY <1>1, <2>1 DEF Moves, Open, Statuses
  <2> QED
    BY <1>2, <1>3, <2>1, <2>2 DEF CoveredAt
<1>4. CASE j # i
  BY <1>1, <1>2, <1>4 DEF MoveInvoice
<1> QED
  BY <1>3, <1>4

LEMMA CoveredStep == IInv /\ CoveredInv /\ [Next]_vars => CoveredInv'
<1> SUFFICES ASSUME IInv, CoveredInv, [Next]_vars PROVE CoveredInv'
  OBVIOUS
<1>1. IInv'
  BY StepKeeps
<1>2. CASE UNCHANGED <<inv, payments>>
  BY <1>2 DEF CoveredInv, SettledWhenCovered, DraftsUnpaid
<1>3. ASSUME NEW s \in Sessions, Begin(s) PROVE CoveredInv'
  <2>1. CASE \E t \in Tenants, i \in Invoices \cup {None}, a \in Amounts :
               Capture(s, t, i, a)
    <3> PICK t \in Tenants, i \in Invoices \cup {None}, a \in Amounts :
               Capture(s, t, i, a)
      BY <2>1
    <3>1. [tenant |-> t, invoice |-> i, amount |-> a, credit |-> None] \in Payment
      BY ConstantsAssumption DEF Payment
    <3> QED
      BY <1>1, <3>1, RecordedCovers DEF Capture
  <2>2. CASE \E p \in DOMAIN payments, i \in Invoices : Allocate(s, p, i)
    BY <1>1, <2>2, AllocateCovers
  <2> QED
    BY <1>2, <1>3, <2>1, <2>2 DEF Begin, ConfirmReadCredit, UnallocatedRead, IgnoreRead
<1>4. ASSUME NEW s \in Sessions, Step(s) PROVE CoveredInv'
  <2>1. CASE RecordCredit(s)
    <3>1. session[s] \in Session /\ Carried(session[s]) /\ session[s].at = "recording"
      BY <2>1 DEF IInv, TypeOK, CarriedInv, RecordCredit
    <3>2. [tenant |-> session[s].tenant, invoice |-> session[s].invoice,
           amount |-> CreditOf[session[s].credit], credit |-> session[s].credit] \in Payment
      BY <3>1, ConstantsAssumption DEF Payment, Carried, Session
    <3> QED
      BY <1>1, <2>1, <3>2, RecordedCovers DEF RecordCredit
  <2> QED
    BY <1>2, <1>4, <2>1 DEF Step, ConfirmReadInvoice, RecordRefused, ReadOwed, ReadAllocated,
       ReadTenant, Unsuspend, UnsuspendRefused, Mark, IgnoreCommit
<1>5. CASE \E i \in Invoices, to \in Statuses : MoveInvoice(i, to)
  BY <1>5, MoveCovers
<1>6. CASE \/ \E s \in Sessions : Fail(s) \/ Acknowledge(s)
           \/ \E file \in (SUBSET BankTxs) \ {{}} : Import(file)
           \/ \E b \in BankTxs, i \in Invoices : SetProposed(b, i)
           \/ \E t \in Tenants : SetStanding(t)
           \/ UNCHANGED vars
  BY <1>2, <1>6 DEF Fail, Acknowledge, Import, SetProposed, SetStanding, vars
<1> QED
  BY <1>3, <1>4, <1>5, <1>6 DEF Next

\* However captures, allocations, matches and the console's moves interleave,
\* no open invoice has payments that cover it.
THEOREM CoveredIsSettled == Spec => []SettledWhenCovered
<1>1. Init => CoveredInv
  <2> SUFFICES ASSUME Init PROVE CoveredInv
    OBVIOUS
  <2>1. \A i : On(payments, {i}) = {}
    BY DEF Init, On
  <2> QED
    BY <2>1 DEF CoveredInv, SettledWhenCovered, DraftsUnpaid
<1>2. CoveredInv => SettledWhenCovered
  BY DEF CoveredInv
<1> QED
  BY <1>1, <1>2, CoveredStep, Invariance, PTL DEF Spec

-----------------------------------------------------------------------------
\* A tenant that was unsuspended owes nothing it was found to owe.  Two things
\* must be so.  No invoice is issued while the console runs: the code reads
\* what is owed and what was paid in two queries, and an invoice issued
\* between them, then part paid, makes up for the debt of another.  And no
\* invoice is for nothing: such an invoice is owed without adding to the
\* balance.
NothingIsIssued == Drafts = {}
EveryInvoiceOwes == IsFiniteSet(Invoices) /\ \A i \in Invoices : TotalOf[i] > 0

LEMMA AllocatedUnion ==
  ASSUME NEW ps \in Seq(Payment), NEW A, NEW B, A \cap B = {}
  PROVE  Allocated(ps, A \cup B) = Allocated(ps, A) + Allocated(ps, B)
<1> DEFINE f == [p \in DOMAIN ps |-> ps[p].amount]
<1>1. /\ On(ps, A \cup B) = On(ps, A) \cup On(ps, B)
      /\ On(ps, A) \cap On(ps, B) = {}
  BY DEF On
<1>2. /\ IsFiniteSet(On(ps, A)) /\ IsFiniteSet(On(ps, B))
      /\ \A p \in On(ps, A) \cup On(ps, B) : f[p] \in Int
  BY OnIsFinite
<1>3. SumFunctionOnSet(f, On(ps, A) \cup On(ps, B))
        = SumFunctionOnSet(f, On(ps, A)) + SumFunctionOnSet(f, On(ps, B))
  <2> HIDE DEF f
  <2> QED
    BY <1>1, <1>2, SumOfUnion
<1> QED
  BY <1>1, <1>3 DEF Allocated

LEMMA TotalsAreNat ==
  ASSUME EveryInvoiceOwes, NEW A \in SUBSET Invoices
  PROVE  IsFiniteSet(A) /\ TotalOfAll(A) \in Nat
<1>1. IsFiniteSet(A) /\ \A i \in A : TotalOf[i] \in Nat
  BY ConstantsAssumption, FS_Subset DEF EveryInvoiceOwes
<1> QED
  BY <1>1, SumIsNat DEF TotalOfAll

\* Owing more invoices is owing at least as much.
LEMMA TotalsGrow ==
  ASSUME EveryInvoiceOwes, NEW A \in SUBSET Invoices, NEW B \in SUBSET A
  PROVE  TotalOfAll(B) <= TotalOfAll(A)
<1> DEFINE C == A \ B
<1>1. /\ A = B \cup C /\ B \cap C = {}
      /\ B \in SUBSET Invoices /\ C \in SUBSET Invoices
  OBVIOUS
<1>2. /\ IsFiniteSet(B) /\ TotalOfAll(B) \in Nat
      /\ IsFiniteSet(C) /\ TotalOfAll(C) \in Nat
  BY <1>1, TotalsAreNat
<1>3. \A i \in B \cup C : TotalOf[i] \in Int
  BY <1>1, ConstantsAssumption
<1> HIDE DEF C
<1>4. TotalOfAll(B \cup C) = TotalOfAll(B) + TotalOfAll(C)
  BY <1>1, <1>2, <1>3, SumOfUnion DEF TotalOfAll
<1>5. TotalOfAll(A) = TotalOfAll(B \cup C)
  BY <1>1, Zenon
<1> QED
  BY <1>2, <1>4, <1>5

\* Invoices none of which is covered are not covered together.
LEMMA Undercovered ==
  ASSUME EveryInvoiceOwes, NEW ps \in Seq(Payment), NEW A \in SUBSET Invoices,
         \A i \in A : Allocated(ps, {i}) < TotalOf[i]
  PROVE  A = {} \/ Allocated(ps, A) < TotalOfAll(A)
<1> DEFINE G == {T \in SUBSET A : T = {} \/ Allocated(ps, T) < TotalOfAll(T)}
<1>1. ASSUME NEW T \in SUBSET A, \A U \in SUBSET T : U # T => U \in G
      PROVE  T \in G
  <2> SUFFICES ASSUME T # {} PROVE Allocated(ps, T) < TotalOfAll(T)
    OBVIOUS
  <2> PICK i \in T : TRUE
    OBVIOUS
  <2> DEFINE U == T \ {i}
  <2>1. U = {} \/ Allocated(ps, U) < TotalOfAll(U)
    BY <1>1
  <2>2. /\ Allocated(ps, U) \in Int /\ Allocated(ps, {i}) \in Int
        /\ TotalOfAll(U) \in Nat /\ TotalOf[i] \in Int /\ IsFiniteSet(T)
    BY AllocatedIsInt, TotalsAreNat, ConstantsAssumption
  <2>3. Allocated(ps, T) = Allocated(ps, U) + Allocated(ps, {i})
    <3>1. U \cup {i} = T /\ U \cap {i} = {}
      OBVIOUS
    <3>2. Allocated(ps, U \cup {i}) = Allocated(ps, T)
      BY <3>1, Zenon
    <3> HIDE DEF U
    <3> QED
      BY <3>1, <3>2, AllocatedUnion
  <2>4. TotalOfAll(T) = TotalOf[i] + TotalOfAll(U)
    <3>1. \A j \in T : TotalOf[j] \in Int
      BY ConstantsAssumption
    <3> QED
      BY <3>1, <2>2, SumOfOne DEF TotalOfAll
  <2>5. CASE U = {}
    <3>1. On(ps, {}) = {} /\ Allocated(ps, {}) = 0
      BY NothingAllocated DEF On
    <3>2. Allocated(ps, U) = 0
      BY <2>5, <3>1, Zenon
    <3>3. TotalOfAll({}) = 0
      BY SumOfNothing DEF TotalOfAll
    <3>4. TotalOfAll(U) = 0
      BY <2>5, <3>3, Zenon
    <3> HIDE DEF U
    <3> QED
      BY <2>2, <2>3, <2>4, <3>2, <3>4
  <2>6. CASE U # {}
    <3> HIDE DEF U
    <3> QED
      BY <2>1, <2>2, <2>3, <2>4, <2>6
  <2> QED
    BY <2>5, <2>6
<1> HIDE DEF G
<1>2. IsFiniteSet(A)
  BY TotalsAreNat
<1>3. A \in G
  BY <1>1, <1>2, FiniteInduction
<1> QED
  BY <1>3 DEF G

\* What a session has learnt of its tenant: the open invoices it read are the
\* tenant's and no others have opened since; past the second query none of
\* them is open.
Learnt(r) ==
  /\ r.at \in {"owed", "cleared", "unsuspending"} =>
       \A i \in r.owing : OwnerOf[i] = r.tenant
  /\ r.at = "owed" => OpenOf(r.tenant) \subseteq r.owing
  /\ r.at \in {"cleared", "unsuspending"} => \A i \in r.owing : inv[i] \notin Open

LearntInv == \A s \in Sessions : Learnt(session[s])
NoDraft == \A i \in Invoices : inv[i] # "draft"
OwingInv == NoDraft /\ LearntInv

\* Without drafts no step opens an invoice.
LEMMA NothingOpens ==
  ASSUME IInv, NoDraft, [Next]_vars
  PROVE  NoDraft' /\ \A i \in Invoices : inv'[i] \in Open => inv[i] \in Open
<1>0. inv \in [Invoices -> Statuses]
  BY DEF IInv, TypeOK
<1>1. CASE inv' = inv
  BY <1>1 DEF NoDraft
<1>2. ASSUME NEW i \in Invoices, NEW to \in Statuses, MoveInvoice(i, to)
      PROVE  NoDraft' /\ \A j \in Invoices : inv'[j] \in Open => inv[j] \in Open
  <2>1. /\ to # "draft"
        /\ to \in Open => inv[i] \in Open
        /\ inv' = [inv EXCEPT ![i] = to]
    BY <1>0, <1>2 DEF MoveInvoice, Moves, Open, Statuses, NoDraft
  <2> QED
    BY <1>0, <2>1 DEF NoDraft
<1>3. ASSUME NEW i, NEW ps, inv' = [inv EXCEPT ![i] = Settled(inv[i], ps, i)]
      PROVE  NoDraft' /\ \A j \in Invoices : inv'[j] \in Open => inv[j] \in Open
  <2>1. \A st : Settled(st, ps, i) \in {st, "paid"}
    BY DEF Settled
  <2>2. \A j \in Invoices : inv'[j] \in {inv[j], "paid"}
    BY <1>0, <1>3, <2>1
  <2> QED
    BY <2>2 DEF NoDraft, Open
<1>4. ASSUME NEW s \in Sessions, NEW pay, Recorded(s, pay)
      PROVE  \/ inv' = inv
             \/ \E i, ps : inv' = [inv EXCEPT ![i] = Settled(inv[i], ps, i)]
  BY <1>4 DEF Recorded
<1>5. ASSUME NEW s \in Sessions, Begin(s) \/ Step(s)
      PROVE  \/ inv' = inv
             \/ \E i, ps : inv' = [inv EXCEPT ![i] = Settled(inv[i], ps, i)]
  <2>1. CASE \E p \in DOMAIN payments, i \in Invoices : Allocate(s, p, i)
    BY <2>1 DEF Allocate
  <2>2. CASE RecordCredit(s)
    BY <1>4, <2>2 DEF RecordCredit
  <2>3. CASE \E t \in Tenants, i \in Invoices \cup {None}, a \in Amounts :
               Capture(s, t, i, a)
    BY <1>4, <2>3 DEF Capture
  <2> QED
    BY <1>5, <2>1, <2>2, <2>3 DEF Begin, Step, ConfirmReadCredit, UnallocatedRead,
       IgnoreRead, ConfirmReadInvoice, RecordRefused, ReadOwed, ReadAllocated, ReadTenant,
       Unsuspend, UnsuspendRefused, Mark, IgnoreCommit
<1>6. CASE \/ \E s \in Sessions : Fail(s) \/ Acknowledge(s)
           \/ \E file \in (SUBSET BankTxs) \ {{}} : Import(file)
           \/ \E b \in BankTxs, i \in Invoices : SetProposed(b, i)
           \/ \E t \in Tenants : SetStanding(t)
           \/ UNCHANGED vars
  BY <1>1, <1>6 DEF Fail, Acknowledge, Import, SetProposed, SetStanding, vars
<1> QED
  BY <1>1, <1>2, <1>3, <1>5, <1>6 DEF Next

\* What a session has learnt stays true while others move.
LEMMA LearntStays ==
  ASSUME NEW r \in Session, Learnt(r),
         \A i \in Invoices : inv'[i] \in Open => inv[i] \in Open
  PROVE  Learnt(r)'
<1>1. OpenOf(r.tenant)' \subseteq OpenOf(r.tenant)
  BY DEF OpenOf
<1>2. r.owing \subseteq Invoices
  BY DEF Session
<1> QED
  BY <1>1, <1>2 DEF Learnt

\* The second query: a balance that is not above zero leaves nothing open.
LEMMA ClearedOwesNothing ==
  ASSUME EveryInvoiceOwes, IInv, CoveredInv, NEW s \in Sessions, Learnt(session[s]),
         session[s].at = "owed",
         ~StillOwing(s, AllocatedNow(session[s].tenant))
  PROVE  \A i \in session[s].owing : inv[i] \notin Open
<1> DEFINE t == session[s].tenant
           owed == session[s].owing
           open == OpenOf(t)
<1>1. /\ session[s] \in Session /\ payments \in Seq(Payment)
      /\ owed \in SUBSET Invoices /\ open \in SUBSET owed
      /\ \A i \in owed : OwnerOf[i] = t
  BY DEF IInv, TypeOK, Session, Learnt
<1>2. \A i \in open : Allocated(payments, {i}) < TotalOf[i]
  <2> SUFFICES ASSUME NEW i \in open PROVE Allocated(payments, {i}) < TotalOf[i]
    OBVIOUS
  <2>1. i \in Invoices /\ inv[i] \in Open
    BY DEF OpenOf
  <2>2. CASE On(payments, {i}) # {}
    BY <2>1, <2>2 DEF CoveredInv, SettledWhenCovered
  <2>3. CASE On(payments, {i}) = {}
    BY <2>1, <2>3, NothingAllocated DEF EveryInvoiceOwes
  <2> QED
    BY <2>2, <2>3
<1>3. open = {} \/ Allocated(payments, open) < TotalOfAll(open)
  <2>1. open \in SUBSET Invoices
    BY <1>1
  <2> HIDE DEF open
  <2> QED
    BY <1>1, <1>2, <2>1, Undercovered
<1>4. TotalOfAll(open) <= TotalOfAll(owed)
  BY <1>1, TotalsGrow
<1>5. ~(TotalOfAll(owed) - Allocated(payments, open) > 0)
  BY DEF StillOwing, AllocatedNow
<1>6. /\ TotalOfAll(owed) \in Nat /\ TotalOfAll(open) \in Nat
      /\ Allocated(payments, open) \in Int
  BY <1>1, TotalsAreNat, AllocatedIsInt
<1>7. open = {}
  <2> HIDE DEF open, owed
  <2> QED
    BY <1>3, <1>4, <1>5, <1>6
<1> QED
  BY <1>1, <1>7 DEF OpenOf

\* What a step teaches the session that takes it.
LEMMA StepTeaches ==
  ASSUME EveryInvoiceOwes, IInv, CoveredInv, LearntInv, NEW s \in Sessions,
         Begin(s) \/ Step(s) \/ Fail(s) \/ Acknowledge(s)
  PROVE  \/ session'[s].at \notin {"owed", "cleared", "unsuspending"}
         \/ inv' = inv /\ Learnt(session'[s])
<1>0. /\ session \in [Sessions -> Session] /\ session[s] \in Session
      /\ Learnt(session[s])
  BY DEF IInv, TypeOK, LearntInv
<1>1. Continue(s).at \in {"marking", "idle"}
  BY <1>0 DEF Continue, Session, Idle
<1>2. CASE ReadOwed(s)
  <2>1. /\ session'[s].at = "owed" /\ session'[s].tenant = session[s].tenant
        /\ session'[s].owing = OpenOf(session[s].tenant) /\ inv' = inv
    BY <1>0, <1>2 DEF ReadOwed, Session
  <2> QED
    BY <2>1 DEF Learnt, OpenOf
<1>3. CASE ReadAllocated(s)
  <2>1. CASE StillOwing(s, AllocatedNow(session[s].tenant))
    BY <1>0, <1>1, <1>3, <2>1 DEF ReadAllocated
  <2>2. CASE ~StillOwing(s, AllocatedNow(session[s].tenant))
    <3>1. \A i \in session[s].owing : inv[i] \notin Open
      BY <1>0, <1>3, <2>2, ClearedOwesNothing DEF ReadAllocated
    <3>2. session'[s] = [session[s] EXCEPT !.at = "cleared"] /\ inv' = inv
          /\ session[s].at = "owed"
      BY <1>0, <1>3, <2>2 DEF ReadAllocated
    <3>3. /\ session'[s].at = "cleared" /\ session'[s].tenant = session[s].tenant
          /\ session'[s].owing = session[s].owing
      BY <1>0, <3>2 DEF Session
    <3> QED
      BY <1>0, <3>1, <3>2, <3>3 DEF Learnt
  <2> QED
    BY <2>1, <2>2
<1>4. CASE ReadTenant(s)
  <2>1. CASE tenant[session[s].tenant] = "suspended"
    <3>1. session'[s] = [session[s] EXCEPT !.at = "unsuspending"] /\ inv' = inv
          /\ session[s].at = "cleared"
      BY <1>0, <1>4, <2>1 DEF ReadTenant
    <3>2. /\ session'[s].at = "unsuspending" /\ session'[s].tenant = session[s].tenant
          /\ session'[s].owing = session[s].owing
      BY <1>0, <3>1 DEF Session
    <3> QED
      BY <1>0, <3>1, <3>2 DEF Learnt
  <2>2. CASE tenant[session[s].tenant] # "suspended"
    BY <1>0, <1>1, <1>4, <2>2 DEF ReadTenant
  <2> QED
    BY <2>1, <2>2
<1>5. CASE Unsuspend(s)
  BY <1>0, <1>1, <1>5 DEF Unsuspend
<1>6. CASE ConfirmReadInvoice(s)
  <2>1. CASE inv[session[s].invoice] \in Open
    <3>1. session'[s] = [session[s] EXCEPT !.at = "recording",
                            !.tenant = OwnerOf[session[s].invoice]]
      BY <1>0, <1>6, <2>1 DEF ConfirmReadInvoice
    <3>2. session'[s].at = "recording"
      BY <1>0, <3>1 DEF Session
    <3> QED
      BY <3>2
  <2>2. CASE inv[session[s].invoice] \notin Open
    BY <1>0, <1>6, <2>2 DEF ConfirmReadInvoice, Idle
  <2> QED
    BY <2>1, <2>2
<1>7. CASE \/ RecordRefused(s) \/ UnsuspendRefused(s) \/ Mark(s) \/ IgnoreCommit(s)
           \/ Fail(s) \/ Acknowledge(s)
  <2>1. session'[s] \in {Idle, Failed}
    BY <1>0, <1>7 DEF RecordRefused, UnsuspendRefused, Mark, IgnoreCommit, Fail, Acknowledge
  <2> QED
    BY <2>1 DEF Idle, Failed
<1>8. CASE \E pay : Recorded(s, pay)
  BY <1>0, <1>8 DEF Recorded
<1>9. CASE RecordCredit(s)
  BY <1>8, <1>9 DEF RecordCredit
<1>10. CASE Begin(s)
  <2>1. CASE \E t \in Tenants, i \in Invoices \cup {None}, a \in Amounts :
               Capture(s, t, i, a)
    BY <1>8, <2>1 DEF Capture
  <2>2. CASE \E p \in DOMAIN payments, i \in Invoices : Allocate(s, p, i)
    BY <1>0, <2>2 DEF Allocate, Idle
  <2>3. CASE \E b \in BankTxs, i \in Invoices : ConfirmReadCredit(s, b, i)
    BY <1>0, <2>3 DEF ConfirmReadCredit, Idle
  <2>4. CASE \E b \in BankTxs : UnallocatedRead(s, b) \/ IgnoreRead(s, b)
    BY <1>0, <2>4 DEF UnallocatedRead, IgnoreRead, Idle
  <2> QED
    BY <1>10, <2>1, <2>2, <2>3, <2>4 DEF Begin
<1> QED
  BY <1>2, <1>3, <1>4, <1>5, <1>6, <1>7, <1>9, <1>10 DEF Step

LEMMA OwingStep ==
  ASSUME EveryInvoiceOwes
  PROVE  IInv /\ CoveredInv /\ OwingInv /\ [Next]_vars => OwingInv'
<1> SUFFICES ASSUME IInv, CoveredInv, OwingInv, [Next]_vars PROVE OwingInv'
  OBVIOUS
<1>0. /\ IInv' /\ NoDraft'
      /\ \A i \in Invoices : inv'[i] \in Open => inv[i] \in Open
  BY StepKeeps, NothingOpens DEF OwingInv
<1>a. session \in [Sessions -> Session] /\ session' \in [Sessions -> Session]
  BY <1>0 DEF IInv, TypeOK
<1>1. ASSUME NEW z \in Sessions, session'[z] = session[z]
      PROVE  Learnt(session[z])'
  <2> PICK r \in Session : r = session[z]
    BY <1>a
  <2>1. Learnt(r)'
    BY <1>0, LearntStays DEF OwingInv, LearntInv
  <2> QED
    BY <1>1, <2>1 DEF Learnt
<1>2. ASSUME NEW z \in Sessions, inv' = inv, Learnt(session'[z])
      PROVE  Learnt(session[z])'
  BY <1>2 DEF Learnt, OpenOf
<1>3. ASSUME NEW s \in Sessions, Begin(s) \/ Step(s) \/ Fail(s) \/ Acknowledge(s)
      PROVE  LearntInv'
  <2> SUFFICES ASSUME NEW z \in Sessions PROVE Learnt(session[z])'
    BY DEF LearntInv
  <2>1. CASE z = s
    BY <1>2, <1>3, <2>1, StepTeaches DEF OwingInv, Learnt
  <2>2. CASE z # s
    <3>1. session' = [session EXCEPT ![s] = session'[s]]
      BY <1>3, <1>a DEF Begin, Step, ConfirmReadCredit, UnallocatedRead, IgnoreRead, Capture,
         Recorded, Allocate, ConfirmReadInvoice, RecordCredit, RecordRefused, ReadOwed,
         ReadAllocated, ReadTenant, Unsuspend, UnsuspendRefused, Mark, IgnoreCommit, Fail,
         Acknowledge
    <3> QED
      BY <1>1, <1>a, <2>2, <3>1
  <2> QED
    BY <2>1, <2>2
<1>4. ASSUME session' = session
      PROVE  LearntInv'
  BY <1>1, <1>4 DEF LearntInv
<1>5. LearntInv'
  <2>1. CASE \E s \in Sessions : Begin(s) \/ Step(s) \/ Fail(s) \/ Acknowledge(s)
    BY <1>3, <2>1
  <2>2. CASE ~\E s \in Sessions : Begin(s) \/ Step(s) \/ Fail(s) \/ Acknowledge(s)
    <3>1. session' = session
      BY <2>2 DEF Next, Import, SetProposed, MoveInvoice, SetStanding, vars
    <3> QED
      BY <1>4, <3>1
  <2> QED
    BY <2>1, <2>2
<1> QED
  BY <1>0, <1>5 DEF OwingInv

\* With every invoice issued beforehand and none of them for nothing, a tenant
\* is unsuspended after a payment only when every invoice it was found to owe
\* has left the open ones, although the two queries are not one snapshot.
THEOREM UnsuspendedOwesNothing ==
  ASSUME NothingIsIssued, EveryInvoiceOwes
  PROVE  Spec => []OwingIsSettled
<1>1. Init => CoveredInv /\ OwingInv
  <2> SUFFICES ASSUME Init PROVE CoveredInv /\ OwingInv
    OBVIOUS
  <2>1. \A i : On(payments, {i}) = {}
    BY DEF Init, On
  <2>2. CoveredInv
    BY <2>1 DEF CoveredInv, SettledWhenCovered, DraftsUnpaid
  <2>3. NoDraft
    BY DEF Init, NoDraft, NothingIsIssued
  <2>4. LearntInv
    BY DEF Init, LearntInv, Learnt, Idle
  <2> QED
    BY <2>2, <2>3, <2>4 DEF OwingInv
<1>2. IInv /\ CoveredInv /\ OwingInv /\ [Next]_vars => OwingInv'
  BY OwingStep
<1>3. OwingInv => OwingIsSettled
  BY DEF OwingInv, LearntInv, Learnt, OwingIsSettled
<1> QED
  BY <1>1, <1>2, <1>3, CoveredStep, Invariance, PTL DEF Spec
=============================================================================
