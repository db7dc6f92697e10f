--------------------------- MODULE InvoicingProofs ---------------------------
(***************************************************************************)
(* What Invoicing.tla keeps for any number of invoices, periods, once-offs *)
(* and concurrent sessions: its types, the review gate, the numbering      *)
(* (through InvoiceRegister.tla), credit notes that match what they credit *)
(* and charges that are on the invoice they are linked to; and, when the   *)
(* tenant's requests come one at a time, that a period and a once-off are  *)
(* billed once.                                                            *)
(***************************************************************************)
EXTENDS Invoicing, TLAPS

(* What a session carries at each point of its request.                    *)
Carries(rec) ==
    /\ rec.pc = "idle" => rec = Idle
    /\ rec.pc \in {"generating", "previewed", "creating"} => rec.period \in Periods
    /\ rec.pc = "rebuilding" => rec.target \in InvoiceIds
    /\ rec.pc \in {"append", "link"} => rec.draft # None
    /\ rec.draft # None => rec.item # None
SessionInv == \A s \in Sessions : Carries(session[s])

(* A rebuild's invoice is an auto draft as long as the rebuild holds its   *)
(* row: no other session can issue, delete or rebuild it meanwhile.        *)
LockInv ==
    \A s \in Sessions : session[s].pc = "rebuilding" =>
        /\ inv[session[s].target].status = "draft"
        /\ inv[session[s].target].source = "auto"
        /\ \A t \in Sessions :
               /\ session[t].pc = "rebuilding"
               /\ session[t].target = session[s].target
               => t = s

(* What the review gate leaves on an invoice: the invariants of the runs   *)
(* speak of issued invoices, this one of the drafts they come from.        *)
Gated(rec) ==
    /\ rec.flagged => ~rec.approved
    /\ rec.source = "auto" /\ rec.approved => rec.reviewed
    /\ rec.source = "auto" /\ rec.status \in Immutable => rec.approved
    /\ rec.source = "auto" /\ rec.status \notin {"unused", "deleted"} =>
           \/ rec.flagged /\ rec.status = "draft"
           \/ rec.commission \in {"flat", "waived"}
           \/ rec.commission = "figure" /\ "commission" \in rec.lines
    /\ rec.status \notin Immutable => rec.number = NoNumber
ReviewInv == \A i \in InvoiceIds : Gated(inv[i])

IInv == TypeOK /\ SessionInv /\ LockInv /\ ReviewInv

-----------------------------------------------------------------------------
(* Types *)

LEMMA TypeInit == Init => TypeOK /\ SessionInv
BY YearsArePositive, NoneIsNoId
   DEF Init, TypeOK, SessionInv, Carries, Blank, Idle, NoNumber, Number, Invoice,
       Session, Statuses, Items

LEMMA IdleIsSession == Idle \in Session /\ Carries(Idle)
BY DEF Idle, Session, Carries

LEMMA BlankIsInvoice == Blank \in Invoice
BY DEF Blank, Invoice, Statuses, NoNumber, Number

LEMMA RebuiltType ==
    ASSUME NEW rec \in Invoice, NEW c \in Outcomes, NEW once \in SUBSET OnceOffs
    PROVE  Rebuilt(rec, c, once) \in Invoice
BY OutcomesAreKnown DEF Rebuilt, SourceLines, Invoice, Items

LEMMA NewDraftTypes ==
    ASSUME NEW p \in Periods, NEW lines \in SUBSET Items,
           NEW once \in SUBSET OnceOffs, NEW c \in Outcomes,
           NEW d \in {"flat", "figure", "unreadable", "none"}
    PROVE  /\ NewAutoDraft(p, c, once) \in Invoice
           /\ NewManualDraft(p, d, lines) \in Invoice
<1>1. [Blank EXCEPT !.status = "draft", !.source = "auto", !.period = p] \in Invoice
  BY BlankIsInvoice DEF Invoice, Statuses
<1>2. NewManualDraft(p, d, lines) \in Invoice
  BY BlankIsInvoice DEF Invoice, Statuses, NewManualDraft
<1> QED BY <1>1, <1>2, RebuiltType DEF NewAutoDraft

LEMMA WithLinesType ==
    ASSUME NEW rec \in Invoice, NEW lines \in SUBSET Items
    PROVE  WithLines(rec, lines) \in Invoice
<1> DEFINE same == rec.reviewed /\ rec.lines = lines
<1>1. same \in BOOLEAN
  OBVIOUS
<1>2. WithLines(rec, lines) = [rec EXCEPT !.lines = lines, !.reviewed = same]
  BY DEF WithLines
<1> HIDE DEF same
<1> QED BY <1>1, <1>2 DEF Invoice

LEMMA LinkTypes ==
    ASSUME TypeOK, NEW once \in SUBSET OnceOffs, NEW i \in InvoiceIds
    PROVE  /\ Link(once, i) \in [OnceOffs -> [state  : {"absent", "active", "ended"},
                                              billed : InvoiceIds \cup {None}]]
           /\ Unlink(i) \in [OnceOffs -> [state  : {"absent", "active", "ended"},
                                          billed : InvoiceIds \cup {None}]]
BY DEF TypeOK, Link, Unlink

LEMMA AfterQueueType ==
    ASSUME NEW rec \in Session, rec.draft # None => rec.item # None
    PROVE  AfterQueue(rec) \in Session /\ Carries(AfterQueue(rec))
<1>1. CASE rec.queue # {}
  BY <1>1 DEF AfterQueue, Session, Carries
<1>2. CASE rec.queue = {} /\ rec.draft # None
  BY <1>2 DEF AfterQueue, Session, Carries
<1>3. CASE rec.queue = {} /\ rec.draft = None
  BY <1>3, IdleIsSession DEF AfterQueue
<1> QED BY <1>1, <1>2, <1>3

LEMMA SessionStepTypes ==
    ASSUME NEW s \in Sessions, TypeOK, SessionInv, SessionStep(s)
    PROVE  TypeOK' /\ SessionInv'
<1> DEFINE OnceOffType == [OnceOffs -> [state  : {"absent", "active", "ended"},
                                      billed : InvoiceIds \cup {None}]]
           Moves(rec) == /\ session' = [session EXCEPT ![s] = rec]
                         /\ rec \in Session
                         /\ Carries(rec)
<1>0. /\ session[s] \in Session /\ Carries(session[s])
      /\ \A i \in InvoiceIds : inv[i] \in Invoice
      /\ UnbilledIn(session[s].period) \subseteq OnceOffs
      /\ onceOff \in OnceOffType
  BY DEF TypeOK, SessionInv, UnbilledIn
<1>1. (\E rec : Moves(rec)) => /\ session' \in [Sessions -> Session]
                              /\ SessionInv'
  BY DEF TypeOK, SessionInv
<1>2. CASE \E p \in Periods : GenerateRead(s, p)
  <2> PICK p \in Periods : GenerateRead(s, p)
    BY <1>2
  <2>1. Moves([Idle EXCEPT !.pc = "generating", !.period = p, !.link = UnbilledIn(p)])
    BY IdleIsSession DEF GenerateRead, Idle, Session, Carries, UnbilledIn
  <2> QED BY <2>1, <1>1 DEF GenerateRead, TypeOK
<1>3. CASE GenerateCommit(s)
  <2> PICK i \in InvoiceIds, c \in Outcomes :
         /\ inv' = [inv EXCEPT ![i] = NewAutoDraft(session[s].period, c, session[s].link)]
         /\ onceOff' = Link(session[s].link, i)
    BY <1>3 DEF GenerateCommit
  <2>1. session[s].period \in Periods /\ session[s].link \in SUBSET OnceOffs
    BY <1>3, <1>0 DEF GenerateCommit, Carries, Session
  <2>2. inv' \in [InvoiceIds -> Invoice] /\ onceOff' \in OnceOffType
    BY <2>1, NewDraftTypes, LinkTypes DEF TypeOK
  <2>3. Moves(Idle)
    BY <1>3, IdleIsSession DEF GenerateCommit
  <2> QED BY <1>3, <2>2, <2>3, <1>1 DEF GenerateCommit, TypeOK
<1>4. CASE \E i \in InvoiceIds : RebuildBegin(s, i)
  <2> PICK i \in InvoiceIds : RebuildBegin(s, i)
    BY <1>4
  <2> DEFINE link == {a \in OnceOffs : /\ Covers(a, inv[i].period)
                                       /\ onceOff[a].billed \in {None, i}}
             rec == [session[s] EXCEPT !.pc = "rebuilding", !.target = i,
                                       !.queue = @ \ {i}, !.link = link]
  <2>1. rec \in Session /\ Carries(rec)
    BY <1>0, NoneIsNoId DEF Session, Carries
  <2>2. session' = [session EXCEPT ![s] = rec]
    BY <1>0 DEF RebuildBegin, TypeOK
  <2> QED BY <2>1, <2>2, <1>1 DEF RebuildBegin, TypeOK
<1>5. CASE RebuildCommit(s)
  <2> DEFINE i == session[s].target
  <2>1. i \in InvoiceIds /\ session[s].link \in SUBSET OnceOffs
    BY <1>5, <1>0 DEF RebuildCommit, Carries, Session
  <2>2. PICK c \in Outcomes :
           inv' = [inv EXCEPT ![i] = Rebuilt(inv[i], c, session[s].link)]
    BY <1>5 DEF RebuildCommit
  <2>3. inv' \in [InvoiceIds -> Invoice]
    BY <2>1, <2>2, <1>0, RebuiltType DEF TypeOK
  <2>4. onceOff' \in OnceOffType
    BY <1>5, <2>1, <1>0, LinkTypes DEF RebuildCommit
  <2>5. Moves(AfterQueue(session[s]))
    BY <1>5, <1>0, AfterQueueType DEF RebuildCommit, Carries
  <2> QED BY <1>5, <2>3, <2>4, <2>5, <1>1 DEF RebuildCommit, TypeOK
<1>6. CASE \E a \in OnceOffs : AddOnceOff(s, a) \/ RemoveOnceOff(s, a)
  <2>1. Moves([Idle EXCEPT !.pc = "listing"])
    BY <1>6 DEF AddOnceOff, RemoveOnceOff, Idle, Session, Carries
  <2>2. onceOff' \in OnceOffType
    BY <1>6, <1>0 DEF AddOnceOff, RemoveOnceOff
  <2> QED BY <1>6, <2>1, <2>2, <1>1 DEF AddOnceOff, RemoveOnceOff, TypeOK
<1>7. CASE ListDrafts(s)
  <2> DEFINE q == {i \in InvoiceIds : inv[i].status = "draft" /\ inv[i].source = "auto"}
             rec == [session[s] EXCEPT !.queue = q]
  <2>1. rec \in Session /\ rec.draft # None => rec.item # None
    BY <1>0 DEF Session, Carries
  <2>2. rec \in Session
    BY <1>0 DEF Session
  <2>3. Moves(AfterQueue(rec))
    BY <1>7, <1>0, <2>2, AfterQueueType DEF ListDrafts, Carries, Session
  <2> QED BY <1>7, <2>3, <1>1 DEF ListDrafts, TypeOK
<1>8. CASE Abort(s)
  BY <1>8, <1>1, IdleIsSession DEF Abort, TypeOK
<1>9. CASE \E p \in Periods : SeedPreview(s, p)
  <2> PICK p \in Periods : SeedPreview(s, p)
    BY <1>9
  <2> PICK c \in Outcomes : session' = [session EXCEPT ![s] =
               [Idle EXCEPT !.pc = "previewed", !.period = p, !.commission = c,
                            !.seen = SourceLines(c, UnbilledIn(p))]]
    BY DEF SeedPreview
  <2>1. Moves([Idle EXCEPT !.pc = "previewed", !.period = p, !.commission = c,
                           !.seen = SourceLines(c, UnbilledIn(p))])
    BY OutcomesAreKnown DEF Idle, Session, Carries, UnbilledIn, SourceLines, Items
  <2> QED BY <2>1, <1>1 DEF SeedPreview, TypeOK
<1>10. CASE SeedRead(s)
  <2> DEFINE rec == [session[s] EXCEPT !.pc = "creating",
                                       !.link = UnbilledIn(session[s].period)]
  <2>1. rec \in Session /\ Carries(rec)
    BY <1>10, <1>0 DEF SeedRead, Session, Carries
  <2>2. session' = [session EXCEPT ![s] = rec]
    BY <1>10, <1>0 DEF SeedRead, TypeOK
  <2> QED BY <1>10, <2>1, <2>2, <1>1 DEF SeedRead, TypeOK
<1>11. CASE \E p \in Periods, seed \in BOOLEAN : TypedRead(s, p, seed)
  <2> PICK p \in Periods, seed \in BOOLEAN : TypedRead(s, p, seed)
    BY <1>11
  <2>1. Moves([Idle EXCEPT !.pc = "creating", !.period = p, !.seen = {"custom"},
                           !.link = IF seed THEN UnbilledIn(p) ELSE {}])
    BY DEF TypedRead, Idle, Session, Carries, UnbilledIn, Items
  <2> QED BY <2>1, <1>1 DEF TypedRead, TypeOK
<1>12. CASE CreateManual(s)
  <2> PICK i \in InvoiceIds :
         /\ inv' = [inv EXCEPT ![i] = NewManualDraft(session[s].period,
                                       session[s].commission, session[s].seen)]
         /\ onceOff' = Link(session[s].link, i)
    BY <1>12 DEF CreateManual
  <2>1. /\ session[s].period \in Periods /\ session[s].link \in SUBSET OnceOffs
        /\ session[s].seen \in SUBSET Items
        /\ session[s].commission \in {"flat", "figure", "unreadable", "none"}
    BY <1>12, <1>0 DEF CreateManual, Carries, Session
  <2>2. NewManualDraft(session[s].period, session[s].commission, session[s].seen)
            \in Invoice
    BY <2>1, BlankIsInvoice DEF Invoice, Statuses, NewManualDraft
  <2>3. inv' \in [InvoiceIds -> Invoice] /\ onceOff' \in OnceOffType
    BY <2>1, <2>2, LinkTypes DEF TypeOK
  <2>4. Moves(Idle)
    BY <1>12, IdleIsSession DEF CreateManual
  <2> QED BY <1>12, <2>3, <2>4, <1>1 DEF CreateManual, TypeOK
<1>13. CASE \E i \in InvoiceIds, a \in OnceOffs : ExpenseRead(s, i, a)
  <2> PICK i \in InvoiceIds, a \in OnceOffs : ExpenseRead(s, i, a)
    BY <1>13
  <2>1. Moves([Idle EXCEPT !.pc = "listing", !.seen = inv[i].lines,
                           !.draft = i, !.item = a])
    BY <1>0, NoneIsNoId DEF ExpenseRead, Idle, Session, Carries, Invoice
  <2>2. onceOff' \in OnceOffType
    BY <1>0 DEF ExpenseRead
  <2> QED BY <2>1, <2>2, <1>1 DEF ExpenseRead, TypeOK
<1>14. CASE ExpenseAppend(s)
  <2> DEFINE i == session[s].draft
             rec == [session[s] EXCEPT !.pc = "link"]
  <2>1. i \in InvoiceIds /\ session[s].item \in OnceOffs
    BY <1>14, <1>0 DEF ExpenseAppend, Carries, Session
  <2>2. WithLines(inv[i], session[s].seen \cup {session[s].item}) \in Invoice
    BY <2>1, <1>0, WithLinesType DEF Session, Items
  <2>3. rec \in Session /\ Carries(rec)
    BY <1>14, <1>0 DEF ExpenseAppend, Session, Carries
  <2>4. session' = [session EXCEPT ![s] = rec]
    BY <1>14, <1>0 DEF ExpenseAppend, TypeOK
  <2> QED BY <1>14, <2>2, <2>3, <2>4, <1>1 DEF ExpenseAppend, TypeOK
<1>15. CASE ExpenseLink(s)
  <2>1. session[s].draft \in InvoiceIds /\ session[s].item \in OnceOffs
    BY <1>15, <1>0 DEF ExpenseLink, Carries, Session
  <2>2. onceOff' \in OnceOffType
    BY <1>15, <1>0, <2>1, LinkTypes DEF ExpenseLink
  <2> QED BY <1>15, <2>2, <1>1, IdleIsSession DEF ExpenseLink, TypeOK
<1> QED BY <1>2, <1>3, <1>4, <1>5, <1>6, <1>7, <1>8, <1>9, <1>10, <1>11, <1>12,
           <1>13, <1>14, <1>15 DEF SessionStep

LEMMA InvoiceStepTypes ==
    ASSUME NEW i \in InvoiceIds, TypeOK, SessionInv, InvoiceStep(i)
    PROVE  TypeOK' /\ SessionInv'
<1>0. inv[i] \in Invoice /\ session' = session
  BY DEF TypeOK, InvoiceStep, DeleteDraft, UpdateManualLines, ApproveDraft,
         UnapproveDraft, WaiveCommission, IssueInvoice, TransitionStatus, IssueCreditNote
<1>1. SessionInv'
  BY <1>0 DEF SessionInv
<1>2. CASE DeleteDraft(i)
  <2>1. [Blank EXCEPT !.status = "deleted"] \in Invoice
    BY BlankIsInvoice DEF Invoice, Statuses
  <2> QED BY <1>0, <1>1, <1>2, <2>1, LinkTypes DEF DeleteDraft, TypeOK
<1>3. CASE UpdateManualLines(i)
  <2>1. PICK kept \in {{}, inv[i].lines} :
            inv' = [inv EXCEPT ![i] = WithLines(inv[i], kept \cup {"custom"})]
    BY <1>3 DEF UpdateManualLines
  <2>2. kept \cup {"custom"} \in SUBSET Items
    BY <1>0 DEF Invoice, Items
  <2>3. WithLines(inv[i], kept \cup {"custom"}) \in Invoice
    BY <2>2, <1>0, WithLinesType
  <2> QED BY <1>0, <1>1, <1>3, <2>1, <2>3 DEF UpdateManualLines, TypeOK
<1>4. CASE ApproveDraft(i) \/ UnapproveDraft(i)
  <2>1. \A b \in BOOLEAN : [inv[i] EXCEPT !.approved = b, !.reviewed = b] \in Invoice
    BY <1>0 DEF Invoice
  <2>2. \E b \in BOOLEAN :
            inv' = [inv EXCEPT ![i] = [inv[i] EXCEPT !.approved = b, !.reviewed = b]]
    BY <1>4, <1>0 DEF ApproveDraft, UnapproveDraft, TypeOK, Invoice
  <2> QED BY <1>0, <1>1, <1>4, <2>1, <2>2 DEF ApproveDraft, UnapproveDraft, TypeOK
<1>5. CASE WaiveCommission(i)
  <2>1. [inv[i] EXCEPT !.flagged = FALSE, !.commission = "waived"] \in Invoice
    BY <1>0 DEF Invoice
  <2>2. inv' = [inv EXCEPT ![i] = [inv[i] EXCEPT !.flagged = FALSE,
                                                 !.commission = "waived"]]
    BY <1>5 DEF WaiveCommission, TypeOK
  <2> QED BY <1>0, <1>1, <1>5, <2>1, <2>2 DEF WaiveCommission, TypeOK
<1>6. CASE \E y \in Years : IssueInvoice(i, y)
  <2> PICK y \in Years : IssueInvoice(i, y)
    BY <1>6
  <2>1. NextNumber("invoice", y) \in Number
    BY DEF NextNumber, Number, TypeOK
  <2>2. [inv[i] EXCEPT !.status = "issued", !.number = NextNumber("invoice", y)] \in Invoice
    BY <1>0, <2>1 DEF Invoice, Statuses
  <2>3. inv' = [inv EXCEPT ![i] = [inv[i] EXCEPT !.status = "issued",
                                     !.number = NextNumber("invoice", y)]]
    BY DEF IssueInvoice, TypeOK
  <2> QED BY <1>0, <1>1, <2>2, <2>3 DEF IssueInvoice, TypeOK
<1>7. CASE \E to \in {"paid", "overdue", "void"} : TransitionStatus(i, to)
  <2> PICK to \in {"paid", "overdue", "void"} : TransitionStatus(i, to)
    BY <1>7
  <2>1. [inv[i] EXCEPT !.status = to] \in Invoice
    BY <1>0 DEF Invoice, Statuses
  <2> QED BY <1>0, <1>1, <2>1 DEF TransitionStatus, TypeOK
<1>8. CASE \E y \in Years : IssueCreditNote(i, y)
  <2> PICK y \in Years : IssueCreditNote(i, y)
    BY <1>8
  <2>1. NextNumber("credit_note", y) \in Number
    BY DEF NextNumber, Number, TypeOK
  <2>2. [inv[i] EXCEPT !.status = "void"] \in Invoice
    BY <1>0 DEF Invoice, Statuses
  <2> QED BY <1>0, <1>1, <2>1, <2>2 DEF IssueCreditNote, TypeOK
<1> QED BY <1>1, <1>2, <1>3, <1>4, <1>5, <1>6, <1>7, <1>8 DEF InvoiceStep, TypeOK

LEMMA StepTypes ==
    ASSUME TypeOK, SessionInv, [Next]_vars
    PROVE  TypeOK' /\ SessionInv'
<1>1. CASE Next
  BY <1>1, SessionStepTypes, InvoiceStepTypes DEF Next
<1>2. CASE UNCHANGED vars
  BY <1>2 DEF vars, TypeOK, SessionInv
<1> QED BY <1>1, <1>2

(* Every column keeps its type and every request carries what its next     *)
(* step reads, for any number of sessions and invoices.                    *)
THEOREM TypeCorrect == Spec => [](TypeOK /\ SessionInv)
BY TypeInit, StepTypes, PTL DEF Spec

-----------------------------------------------------------------------------
(* The lock of a rebuild *)

(* The rows that other sessions are rebuilding stay auto drafts.           *)
OthersKept(s) ==
    \A t \in Sessions \ {s} : session[t].pc = "rebuilding" =>
        inv'[session[t].target] = inv[session[t].target]

LEMMA LockKept ==
    ASSUME NEW s \in Sessions, SessionInv, LockInv, OthersKept(s),
           \A t \in Sessions \ {s} : session'[t] = session[t],
           session'[s].pc # "rebuilding"
    PROVE  LockInv'
<1> SUFFICES ASSUME NEW t \in Sessions, session'[t].pc = "rebuilding"
             PROVE  /\ inv'[session'[t].target].status = "draft"
                    /\ inv'[session'[t].target].source = "auto"
                    /\ \A u \in Sessions :
                           /\ session'[u].pc = "rebuilding"
                           /\ session'[u].target = session'[t].target
                           => u = t
  BY DEF LockInv
<1>1. t # s /\ session'[t] = session[t]
  OBVIOUS
<1>2. inv'[session[t].target] = inv[session[t].target]
  BY <1>1 DEF OthersKept
<1> QED BY <1>1, <1>2 DEF LockInv

LEMMA NotRebuilding ==
    ASSUME NEW rec \in Session PROVE AfterQueue(rec).pc # "rebuilding" /\ Idle.pc = "idle"
BY DEF AfterQueue, Idle, Session

LEMMA SessionStepLocks ==
    ASSUME NEW s \in Sessions, TypeOK, SessionInv, LockInv, SessionStep(s)
    PROVE  LockInv'
<1>0. /\ session[s] \in Session /\ DOMAIN session = Sessions
      /\ DOMAIN inv = InvoiceIds /\ Carries(session[s])
      /\ \A t \in Sessions : session[t].pc = "rebuilding" =>
             /\ session[t].target \in InvoiceIds
             /\ inv[session[t].target].status = "draft"
             /\ inv[session[t].target].source = "auto"
  BY DEF TypeOK, SessionInv, Carries, LockInv
<1>1. CASE /\ inv' = inv
           /\ \E rec : rec.pc # "rebuilding" /\ session' = [session EXCEPT ![s] = rec]
  BY <1>1, <1>0, LockKept DEF OthersKept
<1>2. CASE GenerateCommit(s) \/ CreateManual(s)
  <2>1. PICK i \in InvoiceIds : /\ inv[i].status = "unused"
                                /\ \A j \in InvoiceIds \ {i} : inv'[j] = inv[j]
    BY <1>2, <1>0 DEF GenerateCommit, CreateManual
  <2>2. OthersKept(s)
    BY <2>1, <1>0 DEF OthersKept
  <2>3. session' = [session EXCEPT ![s] = Idle] /\ Idle.pc = "idle"
    BY <1>2 DEF GenerateCommit, CreateManual, Idle
  <2> QED BY <2>2, <2>3, <1>0, LockKept
<1>3. CASE \E i \in InvoiceIds : RebuildBegin(s, i)
  <2> PICK i \in InvoiceIds : RebuildBegin(s, i)
    BY <1>3
  <2>1. /\ inv' = inv /\ ~Locked(i) /\ inv[i].status = "draft" /\ inv[i].source = "auto"
        /\ session'[s].target = i
        /\ \A t \in Sessions \ {s} : session'[t] = session[t]
    BY <1>0 DEF RebuildBegin, Session
  <2>2. \A t \in Sessions : session[t].pc = "rebuilding" => session[t].target # i
    BY <2>1 DEF Locked
  <2> QED BY <2>1, <2>2 DEF LockInv
<1>4. CASE RebuildCommit(s)
  <2> DEFINE i == session[s].target
  <2>1. \A j \in InvoiceIds \ {i} : inv'[j] = inv[j]
    BY <1>4, <1>0 DEF RebuildCommit
  <2>2. session[s].pc = "rebuilding"
    BY <1>4 DEF RebuildCommit
  <2>3. \A t \in Sessions \ {s} : session[t].pc = "rebuilding" => session[t].target # i
    BY <2>2 DEF LockInv
  <2>4. OthersKept(s)
    BY <2>1, <2>3, <1>0 DEF OthersKept
  <2>5. session' = [session EXCEPT ![s] = AfterQueue(session[s])]
    BY <1>4 DEF RebuildCommit
  <2> QED BY <2>4, <2>5, <1>0, NotRebuilding, LockKept
<1>5. CASE ExpenseAppend(s)
  <2> DEFINE i == session[s].draft
  <2>1. /\ \A j \in InvoiceIds \ {i} : inv'[j] = inv[j]
        /\ inv[i].source = "manual"
    BY <1>5, <1>0 DEF ExpenseAppend
  <2>2. OthersKept(s)
    BY <2>1, <1>0 DEF OthersKept
  <2>3. session'[s].pc = "link" /\ \A t \in Sessions \ {s} : session'[t] = session[t]
    BY <1>5, <1>0 DEF ExpenseAppend, Session
  <2> QED BY <2>2, <2>3, LockKept
<1>6. CASE \/ \E p \in Periods : GenerateRead(s, p) \/ SeedPreview(s, p)
           \/ \E p \in Periods, seed \in BOOLEAN : TypedRead(s, p, seed)
           \/ \E a \in OnceOffs : AddOnceOff(s, a) \/ RemoveOnceOff(s, a)
           \/ \E i \in InvoiceIds, a \in OnceOffs : ExpenseRead(s, i, a)
  BY <1>6, <1>1 DEF GenerateRead, SeedPreview, TypedRead, AddOnceOff, RemoveOnceOff,
                    ExpenseRead, Idle
<1>7. CASE SeedRead(s) \/ ListDrafts(s)
  <2>1. CASE SeedRead(s)
    <3>1. inv' = inv /\ session'[s].pc = "creating"
          /\ \A t \in Sessions \ {s} : session'[t] = session[t]
      BY <2>1, <1>0 DEF SeedRead, Session
    <3> QED BY <3>1, LockKept DEF OthersKept
  <2>2. CASE ListDrafts(s)
    <3> DEFINE rec == [session[s] EXCEPT !.queue =
           {i \in InvoiceIds : inv[i].status = "draft" /\ inv[i].source = "auto"}]
    <3>1. rec \in Session
      BY <1>0 DEF Session
    <3>2. inv' = inv /\ session' = [session EXCEPT ![s] = AfterQueue(rec)]
      BY <2>2 DEF ListDrafts
    <3> QED BY <3>1, <3>2, <1>1, NotRebuilding
  <2> QED BY <1>7, <2>1, <2>2
<1>8. CASE Abort(s) \/ ExpenseLink(s)
  BY <1>8, <1>1 DEF Abort, ExpenseLink, Idle
<1> QED BY <1>2, <1>3, <1>4, <1>5, <1>6, <1>7, <1>8 DEF SessionStep

LEMMA InvoiceStepLocks ==
    ASSUME NEW i \in InvoiceIds, TypeOK, SessionInv, LockInv, InvoiceStep(i)
    PROVE  LockInv'
<1>1. /\ ~Locked(i) /\ session' = session
      /\ \A j \in InvoiceIds \ {i} : inv'[j] = inv[j]
  BY DEF TypeOK, InvoiceStep, DeleteDraft, UpdateManualLines, ApproveDraft,
         UnapproveDraft, WaiveCommission, IssueInvoice, TransitionStatus, IssueCreditNote
<1>2. \A t \in Sessions : session[t].pc = "rebuilding" =>
          inv'[session[t].target] = inv[session[t].target]
  BY <1>1 DEF Locked, SessionInv, Carries
<1> QED BY <1>1, <1>2 DEF LockInv

-----------------------------------------------------------------------------
(* The review gate *)

LEMMA GateKept ==
    ASSUME TypeOK, ReviewInv, NEW i \in InvoiceIds, NEW rec, Gated(rec),
           inv' = [inv EXCEPT ![i] = rec]
    PROVE  ReviewInv'
BY DEF TypeOK, ReviewInv

LEMMA BlankGated == Gated(Blank) /\ Gated([Blank EXCEPT !.status = "deleted"])
BY DEF Blank, Gated, Immutable, NoNumber

(* A draft whose lines were read from the sources is flagged exactly when  *)
(* its commission could not be.                                            *)
LEMMA RebuiltGated ==
    ASSUME NEW rec \in Invoice, rec.status = "draft", rec.number = NoNumber,
           NEW c \in Outcomes, NEW once \in SUBSET OnceOffs
    PROVE  Gated(Rebuilt(rec, c, once))
<1> DEFINE new == Rebuilt(rec, c, once)
<1>1. /\ new.status = "draft" /\ new.number = NoNumber /\ new.commission = c
      /\ new.approved = FALSE
      /\ new.lines = SourceLines(c, once)
  BY DEF Rebuilt, Invoice
<1>2. new.flagged <=> c = "unreadable"
  BY DEF Rebuilt, Invoice
<1>3. c = "figure" => "commission" \in new.lines
  BY <1>1 DEF SourceLines
<1>4. c \in {"flat", "figure", "unreadable"}
  BY OutcomesAreKnown
<1>5. ~new.approved
  BY <1>1
<1>6. new.status \notin Immutable
  BY <1>1 DEF Immutable
<1> HIDE DEF new
<1>7. \/ new.flagged /\ new.status = "draft"
      \/ new.commission \in {"flat", "waived"}
      \/ new.commission = "figure" /\ "commission" \in new.lines
  BY <1>1, <1>2, <1>3, <1>4
<1>8. Gated(new)
  BY <1>1, <1>5, <1>6, <1>7, Zenon DEF Gated
<1> QED BY <1>8 DEF new

LEMMA SessionStepGated ==
    ASSUME NEW s \in Sessions, TypeOK, SessionInv, LockInv, ReviewInv, SessionStep(s)
    PROVE  ReviewInv'
<1>0. /\ session[s] \in Session /\ Carries(session[s])
      /\ \A i \in InvoiceIds : inv[i] \in Invoice /\ Gated(inv[i])
  BY DEF TypeOK, SessionInv, ReviewInv
<1>1. CASE GenerateCommit(s)
  <2> PICK i \in InvoiceIds, c \in Outcomes :
         inv' = [inv EXCEPT ![i] = NewAutoDraft(session[s].period, c, session[s].link)]
    BY <1>1 DEF GenerateCommit
  <2> DEFINE rec == [Blank EXCEPT !.status = "draft", !.source = "auto",
                                  !.period = session[s].period]
  <2>1. /\ rec \in Invoice /\ rec.status = "draft" /\ rec.number = NoNumber
        /\ session[s].link \in SUBSET OnceOffs
    BY <1>0, BlankIsInvoice DEF Invoice, Statuses, Blank, Session
  <2> QED BY <2>1, RebuiltGated, GateKept DEF NewAutoDraft
<1>2. CASE RebuildCommit(s)
  <2> DEFINE i == session[s].target
  <2> PICK c \in Outcomes :
         inv' = [inv EXCEPT ![i] = Rebuilt(inv[i], c, session[s].link)]
    BY <1>2 DEF RebuildCommit
  <2>1. i \in InvoiceIds /\ inv[i].status = "draft" /\ session[s].link \in SUBSET OnceOffs
    BY <1>2, <1>0 DEF RebuildCommit, Carries, LockInv, Session
  <2>2. inv[i].number = NoNumber
    BY <2>1, <1>0 DEF Gated, Immutable
  <2> QED BY <2>1, <2>2, <1>0, RebuiltGated, GateKept
<1>3. CASE CreateManual(s)
  <2> PICK i \in InvoiceIds :
         inv' = [inv EXCEPT ![i] = NewManualDraft(session[s].period,
                                       session[s].commission, session[s].seen)]
    BY <1>3 DEF CreateManual
  <2>1. Gated(NewManualDraft(session[s].period, session[s].commission, session[s].seen))
    BY DEF NewManualDraft, Blank, Gated, Immutable, NoNumber
  <2> QED BY <2>1, GateKept
<1>4. CASE ExpenseAppend(s)
  <2> DEFINE i == session[s].draft
             rec == WithLines(inv[i], session[s].seen \cup {session[s].item})
  <2>1. i \in InvoiceIds /\ inv[i].source = "manual"
    BY <1>4, <1>0 DEF ExpenseAppend, Carries, Session
  <2>2. /\ rec.source = "manual" /\ rec.flagged = inv[i].flagged
        /\ rec.approved = inv[i].approved /\ rec.status = inv[i].status
        /\ rec.number = inv[i].number
    BY <2>1, <1>0 DEF WithLines, Invoice
  <2>3. Gated(rec)
    BY <2>1, <2>2, <1>0 DEF Gated
  <2> QED BY <1>4, <2>1, <2>3, GateKept DEF ExpenseAppend
<1>5. CASE inv' = inv
  BY <1>5 DEF ReviewInv
<1>6. \/ GenerateCommit(s) \/ RebuildCommit(s) \/ CreateManual(s) \/ ExpenseAppend(s)
      \/ inv' = inv
  BY DEF SessionStep, GenerateRead, RebuildBegin, AddOnceOff, RemoveOnceOff, ListDrafts,
         Abort, SeedPreview, SeedRead, TypedRead, ExpenseRead, ExpenseLink
<1> QED BY <1>1, <1>2, <1>3, <1>4, <1>5, <1>6

LEMMA InvoiceStepGated ==
    ASSUME NEW i \in InvoiceIds, TypeOK, ReviewInv, InvoiceStep(i)
    PROVE  ReviewInv'
<1>0. inv[i] \in Invoice /\ Gated(inv[i]) /\ DOMAIN inv = InvoiceIds
  BY DEF TypeOK, ReviewInv
<1>1. CASE DeleteDraft(i)
  BY <1>1, BlankGated, GateKept DEF DeleteDraft
<1>2. CASE UpdateManualLines(i)
  <2> PICK kept \in {{}, inv[i].lines} :
         inv' = [inv EXCEPT ![i] = WithLines(inv[i], kept \cup {"custom"})]
    BY <1>2 DEF UpdateManualLines
  <2> DEFINE rec == WithLines(inv[i], kept \cup {"custom"})
  <2>1. /\ rec.source = "manual" /\ rec.flagged = inv[i].flagged
        /\ rec.approved = inv[i].approved /\ rec.status = inv[i].status
        /\ rec.number = inv[i].number
    BY <1>2, <1>0 DEF WithLines, Invoice, UpdateManualLines
  <2>2. Gated(rec)
    BY <2>1, <1>0 DEF Gated
  <2> QED BY <2>2, GateKept
<1>3. CASE ApproveDraft(i)
  <2> DEFINE rec == [inv[i] EXCEPT !.approved = TRUE, !.reviewed = TRUE]
  <2>1. Gated(rec)
    BY <1>3, <1>0 DEF ApproveDraft, Approvable, Gated, Invoice, Immutable
  <2> QED BY <1>3, <1>0, <2>1, GateKept DEF ApproveDraft, Invoice
<1>4. CASE UnapproveDraft(i)
  <2> DEFINE rec == [inv[i] EXCEPT !.approved = FALSE, !.reviewed = FALSE]
  <2>1. Gated(rec)
    BY <1>4, <1>0 DEF UnapproveDraft, Gated, Invoice, Immutable
  <2> QED BY <1>4, <1>0, <2>1, GateKept DEF UnapproveDraft, Invoice
<1>5. CASE WaiveCommission(i)
  <2> DEFINE rec == [inv[i] EXCEPT !.flagged = FALSE, !.commission = "waived"]
  <2>1. Gated(rec)
    BY <1>5, <1>0 DEF WaiveCommission, Gated, Invoice, Immutable
  <2> QED BY <1>5, <1>0, <2>1, GateKept DEF WaiveCommission, Invoice
<1>6. CASE \E y \in Years : IssueInvoice(i, y)
  <2> PICK y \in Years : IssueInvoice(i, y)
    BY <1>6
  <2> DEFINE rec == [inv[i] EXCEPT !.status = "issued", !.number = NextNumber("invoice", y)]
  <2>1. Gated(rec)
    BY <1>0 DEF IssueInvoice, Issuable, Gated, Invoice, Immutable
  <2> QED BY <1>0, <2>1, GateKept DEF IssueInvoice, Invoice
<1>7. CASE \E to \in {"paid", "overdue", "void"} :
               TransitionStatus(i, to) \/ \E y \in Years : IssueCreditNote(i, y)
  <2>1. PICK to \in {"paid", "overdue", "void"} :
           /\ inv' = [inv EXCEPT ![i].status = to]
           /\ inv[i].status \in Immutable
    BY <1>7 DEF TransitionStatus, IssueCreditNote, CanTransition, Immutable
  <2> DEFINE rec == [inv[i] EXCEPT !.status = to]
  <2>2. Gated(rec)
    BY <2>1, <1>0 DEF Gated, Invoice, Immutable
  <2> QED BY <2>1, <2>2, <1>0, GateKept
<1> QED BY <1>1, <1>2, <1>3, <1>4, <1>5, <1>6, <1>7 DEF InvoiceStep

LEMMA IInvInit == Init => IInv
<1> SUFFICES ASSUME Init PROVE IInv
  OBVIOUS
<1>1. LockInv
  BY DEF Init, LockInv, Idle
<1>2. ReviewInv
  BY BlankGated DEF Init, ReviewInv
<1> QED BY <1>1, <1>2, TypeInit DEF IInv

LEMMA IInvStep == IInv /\ [Next]_vars => IInv'
<1> SUFFICES ASSUME IInv, [Next]_vars PROVE IInv'
  OBVIOUS
<1>1. TypeOK' /\ SessionInv'
  BY StepTypes DEF IInv
<1>2. CASE Next
  BY <1>1, <1>2, SessionStepLocks, InvoiceStepLocks, SessionStepGated, InvoiceStepGated
     DEF Next, IInv
<1>3. CASE UNCHANGED vars
  BY <1>1, <1>3 DEF vars, IInv, LockInv, ReviewInv
<1> QED BY <1>2, <1>3

LEMMA Invariance == Spec => []IInv
BY IInvInit, IInvStep, PTL DEF Spec

(* No invoice built from the sources is issued with lines nobody approved, *)
(* whatever rebuilds run beside the approvals.                             *)
THEOREM ReviewGate == Spec => []AutoIssuedAsReviewed
<1>1. IInv => AutoIssuedAsReviewed
  BY DEF IInv, ReviewInv, Gated, AutoIssuedAsReviewed
<1> QED BY <1>1, Invariance, PTL

(* A draft that needs attention is not approved.                           *)
THEOREM FlaggedNotApproved == Spec => []FlagExcludesApproval
<1>1. IInv => FlagExcludesApproval
  BY DEF IInv, ReviewInv, Gated, FlagExcludesApproval
<1> QED BY <1>1, Invariance, PTL

(* An issued invoice built from the sources charges its commission or has  *)
(* it waived on the record.                                                *)
THEOREM CommissionAccounted == Spec => []AutoCommissionAccounted
<1>1. IInv => AutoCommissionAccounted
  BY DEF IInv, ReviewInv, Gated, AutoCommissionAccounted, Immutable
<1> QED BY <1>1, Invariance, PTL

-----------------------------------------------------------------------------
(* The register *)

(* What the register holds for an invoice row. *)
EntryOf(rec) ==
    IF rec.status \in Immutable
    THEN [number |-> rec.number, status |-> rec.status, lines |-> rec.lines]
    ELSE [number |-> NoNumber, status |-> "none", lines |-> {}]
Entries == [i \in InvoiceIds |-> EntryOf(inv[i])]

(* The register's next-state relation, read on Entries.                    *)
Entered(i, y, lines) ==
    /\ Entries[i] = [number |-> NoNumber, status |-> "none", lines |-> {}]
    /\ last'["invoice"] = [last["invoice"] EXCEPT ![y] = @ + 1]
    /\ Entries' = [Entries EXCEPT ![i] =
           [number |-> [year |-> y, seq |-> last["invoice"][y] + 1],
            status |-> "issued", lines |-> lines]]
Settling(i, to) ==
    /\ Entries[i].status \in Register!Settled
    /\ to \in Register!Settlements[Entries[i].status]
    /\ Entries' = [Entries EXCEPT ![i].status = to]
    /\ last'["invoice"] = last["invoice"]

(* A row that is not an issued invoice before and after is not a step.     *)
LEMMA DraftStutters ==
    ASSUME NEW i \in InvoiceIds, TypeOK, DOMAIN inv' = InvoiceIds,
           \A j \in InvoiceIds \ {i} : inv'[j] = inv[j],
           inv[i].status \notin Immutable, inv'[i].status \notin Immutable
    PROVE  Entries' = Entries
BY DEF Entries, EntryOf

LEMMA SessionsStutter ==
    ASSUME NEW s \in Sessions, TypeOK, SessionInv, LockInv, SessionStep(s)
    PROVE  Entries' = Entries /\ last' = last
<1>0. /\ session[s] \in Session /\ Carries(session[s]) /\ DOMAIN inv = InvoiceIds
      /\ \A i \in InvoiceIds : inv[i] \in Invoice
  BY DEF TypeOK, SessionInv
<1>1. CASE GenerateCommit(s) \/ CreateManual(s)
  <2> PICK i \in InvoiceIds :
         /\ inv[i].status = "unused"
         /\ \E rec : rec.status = "draft" /\ inv' = [inv EXCEPT ![i] = rec]
    BY <1>1 DEF GenerateCommit, CreateManual, NewAutoDraft, NewManualDraft, Rebuilt, Blank
  <2>1. Entries' = Entries
    BY <1>0, DraftStutters DEF Immutable
  <2> QED BY <1>1, <2>1 DEF GenerateCommit, CreateManual
<1>2. CASE RebuildCommit(s)
  <2> DEFINE i == session[s].target
  <2> PICK c \in Outcomes :
         inv' = [inv EXCEPT ![i] = Rebuilt(inv[i], c, session[s].link)]
    BY <1>2 DEF RebuildCommit
  <2>1. i \in InvoiceIds /\ inv[i].status = "draft"
    BY <1>2, <1>0 DEF RebuildCommit, Carries, LockInv
  <2>2. inv'[i].status = "draft"
    BY <2>1, <1>0 DEF Rebuilt, Invoice
  <2>3. Entries' = Entries
    BY <2>1, <2>2, <1>0, DraftStutters DEF Immutable
  <2> QED BY <1>2, <2>3 DEF RebuildCommit
<1>3. CASE ExpenseAppend(s)
  <2> DEFINE i == session[s].draft
  <2>1. i \in InvoiceIds /\ inv[i].status = "draft"
    BY <1>3, <1>0 DEF ExpenseAppend, Carries, Session
  <2>2. inv'[i].status = "draft" /\ DOMAIN inv' = InvoiceIds
    BY <1>3, <2>1, <1>0 DEF ExpenseAppend, WithLines, Invoice
  <2>3. Entries' = Entries
    BY <1>3, <2>1, <2>2, <1>0, DraftStutters DEF ExpenseAppend, Immutable
  <2> QED BY <1>3, <2>3 DEF ExpenseAppend
<1>4. CASE inv' = inv /\ last' = last
  BY <1>4 DEF Entries, EntryOf
<1>5. \/ GenerateCommit(s) \/ RebuildCommit(s) \/ CreateManual(s) \/ ExpenseAppend(s)
      \/ inv' = inv /\ last' = last
  BY DEF SessionStep, GenerateRead, RebuildBegin, AddOnceOff, RemoveOnceOff, ListDrafts,
         Abort, SeedPreview, SeedRead, TypedRead, ExpenseRead, ExpenseLink
<1> QED BY <1>1, <1>2, <1>3, <1>4, <1>5

LEMMA InvoiceStepRegister ==
    ASSUME NEW i \in InvoiceIds, TypeOK, InvoiceStep(i)
    PROVE  \/ \E y \in Years, lines \in SUBSET Items : Entered(i, y, lines)
           \/ \E to \in Register!Settled : Settling(i, to)
           \/ Entries' = Entries /\ last'["invoice"] = last["invoice"]
<1>0. inv[i] \in Invoice /\ DOMAIN inv = InvoiceIds /\ inv \in [InvoiceIds -> Invoice]
  BY DEF TypeOK
<1>1. CASE DeleteDraft(i) \/ UpdateManualLines(i) \/ ApproveDraft(i) \/ UnapproveDraft(i)
           \/ WaiveCommission(i)
  <2>1. /\ last' = last /\ DOMAIN inv' = InvoiceIds /\ inv[i].status = "draft"
        /\ inv'[i].status \in {"draft", "deleted"}
        /\ \A j \in InvoiceIds \ {i} : inv'[j] = inv[j]
    BY <1>1, <1>0 DEF DeleteDraft, UpdateManualLines, ApproveDraft, UnapproveDraft,
                      WaiveCommission, Approvable, WithLines, Invoice, Blank
  <2> QED BY <2>1, DraftStutters DEF Immutable
<1>2. CASE \E y \in Years : IssueInvoice(i, y)
  <2> PICK y \in Years : IssueInvoice(i, y)
    BY <1>2
  <2> PICK lines \in SUBSET Items : lines = inv[i].lines
    BY <1>0 DEF Invoice
  <2>1. Entries[i] = [number |-> NoNumber, status |-> "none", lines |-> {}]
    BY DEF IssueInvoice, Issuable, Immutable, Entries, EntryOf
  <2>2. inv' = [inv EXCEPT ![i] = [inv[i] EXCEPT !.status = "issued",
                                     !.number = NextNumber("invoice", y)]]
    BY <1>0 DEF IssueInvoice
  <2>3. EntryOf(inv'[i]) = [number |-> [year |-> y, seq |-> last["invoice"][y] + 1],
                            status |-> "issued", lines |-> lines]
    BY <2>2, <1>0 DEF EntryOf, Immutable, NextNumber, Invoice
  <2>4. Entries' = [Entries EXCEPT ![i] =
           [number |-> [year |-> y, seq |-> last["invoice"][y] + 1],
            status |-> "issued", lines |-> lines]]
    BY <2>2, <2>3, <1>0 DEF Entries, EntryOf
  <2>5. last'["invoice"] = [last["invoice"] EXCEPT ![y] = @ + 1]
    BY DEF IssueInvoice, TypeOK
  <2>6. Entered(i, y, lines)
    BY <2>1, <2>4, <2>5 DEF Entered
  <2> QED BY <2>6
<1>3. CASE \E to \in {"paid", "overdue", "void"} :
               TransitionStatus(i, to) \/ \E y \in Years : IssueCreditNote(i, y)
  <2>1. PICK to \in {"paid", "overdue", "void"} :
           /\ inv' = [inv EXCEPT ![i].status = to]
           /\ inv[i].status \in {"issued", "overdue"}
           /\ CanTransition(inv[i].status, to)
           /\ last'["invoice"] = last["invoice"]
    BY <1>3 DEF TransitionStatus, IssueCreditNote, CanTransition, TypeOK
  <2>2. /\ Entries[i].status = inv[i].status
        /\ Entries' = [Entries EXCEPT ![i].status = to]
    BY <2>1, <1>0 DEF Entries, EntryOf, Immutable, Invoice
  <2>3. to \in Register!Settlements[inv[i].status] /\ inv[i].status \in Register!Settled
    BY <2>1 DEF CanTransition, Register!Settlements, Register!Settled
  <2>4. Settling(i, to) /\ to \in Register!Settled
    BY <2>1, <2>2, <2>3 DEF Settling, Register!Settled
  <2> QED BY <2>4
<1> QED BY <1>1, <1>2, <1>3 DEF InvoiceStep

(* Invoicing implements the register: whatever happens to drafts, issued   *)
(* invoices are entered with the next number and then only settled.        *)
THEOREM Refinement == Spec => RegisterKept
<1> USE DEF Register!NoEntry, Register!NoNumber, NoNumber
<1>1. Init => Register!Init
  BY DEF Init, Register!Init, Blank, Immutable
<1>2. IInv /\ [Next]_vars => [Register!Next]_Register!registerVars
  <2> SUFFICES ASSUME IInv, [Next]_vars PROVE [Register!Next]_Register!registerVars
    OBVIOUS
  <2>0. Entries = [i \in InvoiceIds |->
            IF inv[i].status \in Immutable
            THEN [number |-> inv[i].number, status |-> inv[i].status,
                  lines |-> inv[i].lines]
            ELSE [number |-> [year |-> 0, seq |-> 0], status |-> "none", lines |-> {}]]
    BY DEF Entries, EntryOf
  <2>1. CASE Entries' = Entries /\ last'["invoice"] = last["invoice"]
    BY <2>0, <2>1 DEF Register!registerVars, Entries, EntryOf
  <2>2. ASSUME NEW i \in InvoiceIds, NEW y \in Years, NEW lines \in SUBSET Items,
               Entered(i, y, lines)
        PROVE  Register!Next
    <3>1. Register!Enter(i, y, lines)
      BY <2>2 DEF Register!Enter, Entered, Entries, EntryOf
    <3> QED BY <3>1 DEF Register!Next
  <2>3. ASSUME NEW i \in InvoiceIds, NEW to \in Register!Settled, Settling(i, to)
        PROVE  Register!Next
    <3>1. Register!Settle(i, to)
      BY <2>3 DEF Register!Settle, Settling, Entries, EntryOf
    <3> QED BY <3>1 DEF Register!Next
  <2>4. CASE \E s \in Sessions : SessionStep(s)
    BY <2>1, <2>4, SessionsStutter DEF IInv
  <2>5. CASE \E i \in InvoiceIds : InvoiceStep(i)
    BY <2>1, <2>2, <2>3, <2>5, InvoiceStepRegister DEF IInv
  <2>6. CASE UNCHANGED vars
    BY <2>1, <2>6 DEF vars, Entries, EntryOf
  <2> QED BY <2>4, <2>5, <2>6 DEF Next
<1> QED BY <1>1, <1>2, Invariance, PTL DEF Spec, RegisterKept, Register!Spec

(* The register's own theorem, for the register that Invoicing implements. *)
Numbers == INSTANCE InvoiceRegisterProofs WITH
    last  <- last["invoice"],
    entry <- [i \in InvoiceIds |->
        IF inv[i].status \in Immutable
        THEN [number |-> inv[i].number, status |-> inv[i].status,
              lines |-> inv[i].lines]
        ELSE [number |-> NoNumber, status |-> "none", lines |-> {}]]

(* Hence the numbers are gap-free, whatever the drafts do.                 *)
THEOREM GapFreeNumbers == Spec => []NumbersGapFree
<1> USE DEF Register!registerVars, Numbers!registerVars, Register!NoEntry, Numbers!NoEntry,
            Register!NoNumber, Numbers!NoNumber
<1>1. Register!Init => Numbers!Init
  BY DEF Register!Init, Numbers!Init
<1>2. [Register!Next]_Register!registerVars => [Numbers!Next]_Numbers!registerVars
  BY DEF Register!Next, Numbers!Next, Register!Enter, Numbers!Enter, Register!Settle,
         Numbers!Settle, Register!Settled, Numbers!Settled, Register!Settlements,
         Numbers!Settlements
<1>3. Numbers!GapFree => NumbersGapFree
  BY DEF NumbersGapFree, Register!GapFree, Numbers!GapFree
<1>4. Numbers!Spec => []Numbers!GapFree
  BY YearsArePositive, Numbers!RegisterGapFree DEF Numbers!YearsArePositive
<1> QED BY <1>1, <1>2, <1>3, <1>4, Refinement, PTL
           DEF RegisterKept, Register!Spec, Numbers!Spec

-----------------------------------------------------------------------------
(* Credit notes *)

(* A note outlives its session and its invoice is void from then on; since *)
(* no status leads out of void, an invoice never gets a second note.       *)
CreditInv == CreditNotesMatch /\ \A c \in credits : c.number.year \in Years

LEMMA SessionsKeepCredits ==
    ASSUME NEW s \in Sessions, SessionStep(s)
    PROVE  credits' = credits
BY DEF SessionStep, GenerateRead, GenerateCommit, RebuildBegin, RebuildCommit, AddOnceOff,
       RemoveOnceOff, ListDrafts, Abort, SeedPreview, SeedRead, TypedRead, CreateManual,
       ExpenseRead, ExpenseAppend, ExpenseLink

(* As long as nothing is credited, it is enough that void stays void.      *)
LEMMA CreditsKept ==
    ASSUME TypeOK, CreditInv, credits' = credits,
           last'["credit_note"] = last["credit_note"],
           \A i \in InvoiceIds : inv[i].status = "void" => inv'[i].status = "void"
    PROVE  CreditInv'
BY DEF TypeOK, CreditInv, CreditNotesMatch

LEMMA VoidIsFinal ==
    ASSUME NEW i \in InvoiceIds, TypeOK, InvoiceStep(i), NEW j \in InvoiceIds,
           inv[j].status = "void"
    PROVE  inv'[j].status = "void"
<1>1. CASE j # i
  BY <1>1 DEF InvoiceStep, DeleteDraft, UpdateManualLines, ApproveDraft, UnapproveDraft,
              WaiveCommission, IssueInvoice, TransitionStatus, IssueCreditNote, TypeOK
<1>2. CASE j = i
  BY <1>2 DEF InvoiceStep, DeleteDraft, UpdateManualLines, ApproveDraft, UnapproveDraft,
              WaiveCommission, IssueInvoice, TransitionStatus, IssueCreditNote,
              CreditAdmits, Approvable, Issuable, CanTransition
<1> QED BY <1>1, <1>2

LEMMA CreditStep ==
    ASSUME NEW i \in InvoiceIds, NEW y \in Years, TypeOK, CreditInv, IssueCreditNote(i, y)
    PROVE  CreditInv'
<1> DEFINE seq == last["credit_note"][y] + 1
           note == [invoice |-> i, number |-> [year |-> y, seq |-> seq]]
<1>1. /\ credits' = credits \cup {note}
      /\ last'["credit_note"] = [last["credit_note"] EXCEPT ![y] = seq]
      /\ last["credit_note"] \in [Years -> Nat] /\ seq \in Nat
      /\ inv'[i].status = "void" /\ inv[i].status # "void"
  BY DEF TypeOK, IssueCreditNote, NextNumber, CanTransition, Invoice
<1>2. \A c \in credits : /\ c.invoice # i /\ c.number # note.number
                         /\ c.invoice \in InvoiceIds
  BY <1>1 DEF CreditInv, CreditNotesMatch, TypeOK
<1>3. \A z \in Years : \A n \in 1 .. last'["credit_note"][z] :
          \E c \in credits' : c.number = [year |-> z, seq |-> n]
  <2> SUFFICES ASSUME NEW z \in Years, NEW n \in 1 .. last'["credit_note"][z]
               PROVE  \E c \in credits' : c.number = [year |-> z, seq |-> n]
    OBVIOUS
  <2>1. CASE z = y /\ n = seq
    <3>1. note \in credits' /\ note.number = [year |-> z, seq |-> n]
      BY <2>1, <1>1
    <3> QED BY <3>1
  <2>2. CASE ~(z = y /\ n = seq)
    <3>1. n \in 1 .. last["credit_note"][z]
      BY <2>2, <1>1
    <3> QED BY <3>1, <1>1 DEF CreditInv, CreditNotesMatch
  <2> QED BY <2>1, <2>2
<1>4. \A c \in credits' : /\ inv'[c.invoice].status = "void"
                          /\ c.number.year \in Years
                          /\ c.number.seq \in 1 .. last'["credit_note"][c.number.year]
  <2>1. /\ \A c \in credits : /\ inv'[c.invoice].status = "void"
                              /\ c.number.year \in Years
        /\ inv'[note.invoice].status = "void"
    BY <1>1, <1>2 DEF CreditInv, CreditNotesMatch, IssueCreditNote, TypeOK
  <2>2. \A c \in credits :
            c.number.seq \in 1 .. last'["credit_note"][c.number.year]
    BY <1>1 DEF CreditInv, CreditNotesMatch
  <2>3. note.number.year \in Years
        /\ note.number.seq \in 1 .. last'["credit_note"][note.number.year]
    BY <1>1
  <2> QED BY <2>1, <2>2, <2>3, <1>1
<1>5. \A c, d \in credits' : c.invoice = d.invoice \/ c.number = d.number => c = d
  <2>1. note.invoice = i
    OBVIOUS
  <2> HIDE DEF note
  <2> QED BY <1>1, <1>2, <2>1 DEF CreditInv, CreditNotesMatch
<1> QED BY <1>3, <1>4, <1>5 DEF CreditInv, CreditNotesMatch

LEMMA CreditInvStep == IInv /\ CreditInv /\ [Next]_vars => CreditInv'
<1> SUFFICES ASSUME IInv, CreditInv, [Next]_vars PROVE CreditInv'
  OBVIOUS
<1> USE DEF IInv
<1>1. CASE \E s \in Sessions : SessionStep(s)
  <2>1. /\ credits' = credits /\ last' = last
        /\ \A i \in InvoiceIds : EntryOf(inv'[i]) = EntryOf(inv[i])
    BY <1>1, SessionsKeepCredits, SessionsStutter DEF Entries
  <2>2. \A i \in InvoiceIds : inv[i].status = "void" => inv'[i].status = "void"
    BY <2>1 DEF EntryOf, Immutable
  <2> QED BY <2>1, <2>2, CreditsKept
<1>2. ASSUME NEW i \in InvoiceIds, InvoiceStep(i) PROVE CreditInv'
  <2>1. CASE \E y \in Years : IssueCreditNote(i, y)
    BY <2>1, CreditStep
  <2>2. CASE ~\E y \in Years : IssueCreditNote(i, y)
    <3>1. credits' = credits /\ last'["credit_note"] = last["credit_note"]
      BY <1>2, <2>2 DEF InvoiceStep, DeleteDraft, UpdateManualLines, ApproveDraft,
             UnapproveDraft, WaiveCommission, IssueInvoice, TransitionStatus, TypeOK
    <3> QED BY <3>1, <1>2, VoidIsFinal, CreditsKept
  <2> QED BY <2>1, <2>2
<1>3. CASE UNCHANGED vars
  BY <1>3, CreditsKept DEF vars
<1> QED BY <1>1, <1>2, <1>3 DEF Next

(* Credit notes are numbered without gaps, each belongs to a void invoice  *)
(* and no invoice has two, however the sessions interleave.                *)
THEOREM CreditNotesKept == Spec => []CreditNotesMatch
<1>1. Init => CreditInv
  BY YearsArePositive DEF Init, CreditInv, CreditNotesMatch
<1>2. CreditInv => CreditNotesMatch
  BY DEF CreditInv
<1> QED BY <1>1, <1>2, CreditInvStep, Invariance, PTL DEF Spec

-----------------------------------------------------------------------------
(* Billed once-offs *)

(* The draft an expense is being put on was made by hand; it may have been *)
(* deleted since, but its id is not given to another invoice.              *)
ByHand(rec) == rec.status # "unused" /\ (rec.source = "manual" \/ rec.status = "deleted")
DraftInv ==
    \A s \in Sessions : session[s].draft # None => ByHand(inv[session[s].draft])

(* What BilledIsCharged asks of the invoice a once-off is billed on.       *)
Charges(rec, a) ==
    /\ rec.status \notin {"unused", "deleted"}
    /\ rec.source = "auto" => a \in rec.lines

(* A step that touches one invoice, with the links that lead to it.        *)
LEMMA BilledKept ==
    ASSUME BilledIsCharged, NEW i \in InvoiceIds,
           \A j \in InvoiceIds \ {i} : inv'[j] = inv[j],
           \A a \in OnceOffs :
               \/ onceOff'[a].billed = i /\ Charges(inv'[i], a)
               \/ onceOff'[a].billed = None
               \/ onceOff'[a].billed = onceOff[a].billed /\ onceOff[a].billed # i
    PROVE  BilledIsCharged'
BY NoneIsNoId DEF BilledIsCharged, Charges

LEMMA DraftsKept ==
    ASSUME TypeOK, DraftInv, NEW s \in Sessions,
           \A t \in Sessions \ {s} : session'[t] = session[t],
           session'[s].draft # None => ByHand(inv'[session'[s].draft]),
           \A i \in InvoiceIds : ByHand(inv[i]) => ByHand(inv'[i])
    PROVE  DraftInv'
BY DEF TypeOK, Session, DraftInv

LEMMA SessionsKeepByHand ==
    ASSUME NEW s \in Sessions, TypeOK, SessionInv, LockInv, SessionStep(s),
           NEW i \in InvoiceIds, ByHand(inv[i])
    PROVE  ByHand(inv'[i])
<1>0. /\ inv[i] \in Invoice /\ DOMAIN inv = InvoiceIds
      /\ session[s] \in Session /\ Carries(session[s])
  BY DEF TypeOK, SessionInv
<1>1. CASE GenerateCommit(s) \/ CreateManual(s)
  <2> PICK j \in InvoiceIds :
        inv[j].status = "unused" /\ \E rec : inv' = [inv EXCEPT ![j] = rec]
    BY <1>1 DEF GenerateCommit, CreateManual
  <2> QED BY <1>0 DEF ByHand
<1>2. CASE RebuildCommit(s)
  <2>1. /\ inv[session[s].target].status = "draft" /\ inv[session[s].target].source = "auto"
        /\ \A j \in InvoiceIds : j # session[s].target => inv'[j] = inv[j]
    BY <1>2, <1>0 DEF RebuildCommit, LockInv
  <2> QED BY <2>1 DEF ByHand
<1>3. CASE ExpenseAppend(s)
  <2>1. \/ inv'[i] = inv[i]
        \/ inv'[i] = WithLines(inv[i], session[s].seen \cup {session[s].item})
    BY <1>3, <1>0 DEF ExpenseAppend
  <2> QED BY <2>1, <1>0 DEF WithLines, ByHand, Invoice
<1>4. CASE inv' = inv
  BY <1>4
<1>5. \/ GenerateCommit(s) \/ RebuildCommit(s) \/ CreateManual(s) \/ ExpenseAppend(s)
      \/ inv' = inv
  BY DEF SessionStep, GenerateRead, RebuildBegin, AddOnceOff, RemoveOnceOff, ListDrafts,
         Abort, SeedPreview, SeedRead, TypedRead, ExpenseRead, ExpenseLink
<1> QED BY <1>1, <1>2, <1>3, <1>4, <1>5

LEMMA AfterQueueDraft ==
    ASSUME NEW rec \in Session PROVE AfterQueue(rec).draft \in {rec.draft, None}
BY DEF AfterQueue, Idle, Session

LEMMA SessionsKeepDrafts ==
    ASSUME NEW s \in Sessions, TypeOK, SessionInv, LockInv, DraftInv, SessionStep(s)
    PROVE  DraftInv'
<1>0. /\ session[s] \in Session /\ Carries(session[s]) /\ DOMAIN session = Sessions
      /\ DOMAIN inv = InvoiceIds
      /\ \A i \in InvoiceIds : ByHand(inv[i]) => ByHand(inv'[i])
  BY SessionsKeepByHand DEF TypeOK, SessionInv
<1>1. CASE /\ \A t \in Sessions \ {s} : session'[t] = session[t]
           /\ session'[s].draft \in {session[s].draft, None}
  <2>1. session[s].draft # None => ByHand(inv'[session[s].draft])
    BY <1>0 DEF DraftInv, Session
  <2>2. session'[s].draft # None => ByHand(inv'[session'[s].draft])
    BY <1>1, <2>1
  <2> QED BY <1>0, <1>1, <2>2, DraftsKept
<1>2. CASE \E i \in InvoiceIds, a \in OnceOffs : ExpenseRead(s, i, a)
  <2> PICK i \in InvoiceIds, a \in OnceOffs : ExpenseRead(s, i, a)
    BY <1>2
  <2>1. /\ session'[s].draft = i /\ inv'[i].status = "draft" /\ inv'[i].source = "manual"
        /\ \A t \in Sessions \ {s} : session'[t] = session[t]
    BY <1>0 DEF ExpenseRead, Idle
  <2> QED BY <2>1, <1>0, DraftsKept DEF ByHand
<1>3. CASE ListDrafts(s)
  <2> DEFINE rec == [session[s] EXCEPT !.queue =
           {i \in InvoiceIds : inv[i].status = "draft" /\ inv[i].source = "auto"}]
  <2>1. rec \in Session /\ rec.draft = session[s].draft
    BY <1>0 DEF Session
  <2>2. session' = [session EXCEPT ![s] = AfterQueue(rec)]
    BY <1>3 DEF ListDrafts
  <2> HIDE DEF rec
  <2> QED BY <2>1, <2>2, <1>0, <1>1, AfterQueueDraft
<1>4. CASE RebuildCommit(s)
  BY <1>4, <1>0, <1>1, AfterQueueDraft DEF RebuildCommit
<1>5. CASE (\E i \in InvoiceIds : RebuildBegin(s, i)) \/ SeedRead(s) \/ ExpenseAppend(s)
  <2>1. session'[s].draft = session[s].draft
    <3>1. CASE \E i \in InvoiceIds : RebuildBegin(s, i)
      BY <3>1, <1>0 DEF RebuildBegin, Session
    <3>2. CASE SeedRead(s)
      BY <3>2, <1>0 DEF SeedRead, Session
    <3>3. CASE ExpenseAppend(s)
      BY <3>3, <1>0 DEF ExpenseAppend, Session
    <3> QED BY <1>5, <3>1, <3>2, <3>3
  <2>2. \A t \in Sessions \ {s} : session'[t] = session[t]
    BY <1>5, <1>0 DEF RebuildBegin, SeedRead, ExpenseAppend
  <2> QED BY <2>1, <2>2, <1>1
<1>6. CASE \E rec : rec.draft = None /\ session' = [session EXCEPT ![s] = rec]
  BY <1>6, <1>0, <1>1
<1>7. CASE \/ \E p \in Periods : GenerateRead(s, p) \/ SeedPreview(s, p)
           \/ \E p \in Periods, seed \in BOOLEAN : TypedRead(s, p, seed)
           \/ \E a \in OnceOffs : AddOnceOff(s, a) \/ RemoveOnceOff(s, a)
           \/ GenerateCommit(s) \/ CreateManual(s) \/ ExpenseLink(s) \/ Abort(s)
  BY <1>7, <1>6 DEF GenerateRead, SeedPreview, TypedRead, AddOnceOff, RemoveOnceOff,
                    GenerateCommit, CreateManual, ExpenseLink, Abort, Idle
<1> QED BY <1>2, <1>3, <1>4, <1>5, <1>7 DEF SessionStep

LEMMA SessionsKeepBilled ==
    ASSUME NEW s \in Sessions, TypeOK, SessionInv, LockInv, DraftInv, BilledIsCharged,
           SessionStep(s)
    PROVE  BilledIsCharged'
<1>0. /\ session[s] \in Session /\ Carries(session[s])
      /\ DOMAIN inv = InvoiceIds /\ DOMAIN onceOff = OnceOffs
      /\ \A i \in InvoiceIds : inv[i] \in Invoice
      /\ \A a \in OnceOffs : onceOff[a].billed \in InvoiceIds \cup {None}
  BY DEF TypeOK, SessionInv
<1>a. \A a \in OnceOffs : onceOff[a] \in [state  : {"absent", "active", "ended"},
                                          billed : InvoiceIds \cup {None}]
  BY DEF TypeOK
<1>1. CASE GenerateCommit(s) \/ CreateManual(s)
  <2> PICK i \in InvoiceIds :
         /\ inv[i].status = "unused"
         /\ onceOff' = Link(session[s].link, i)
         /\ \E rec : /\ inv' = [inv EXCEPT ![i] = rec]
                     /\ rec.status = "draft"
                     /\ rec.source = "manual" \/ session[s].link \subseteq rec.lines
    <3>1. CASE GenerateCommit(s)
      <4> PICK i \in InvoiceIds, c \in Outcomes :
             /\ inv[i].status = "unused"
             /\ inv' = [inv EXCEPT ![i] =
                    NewAutoDraft(session[s].period, c, session[s].link)]
             /\ onceOff' = Link(session[s].link, i)
        BY <3>1 DEF GenerateCommit
      <4> DEFINE rec == NewAutoDraft(session[s].period, c, session[s].link)
      <4>1. rec.status = "draft" /\ session[s].link \subseteq rec.lines
        BY DEF NewAutoDraft, Rebuilt, Blank, SourceLines
      <4>2. inv' = [inv EXCEPT ![i] = rec]
        OBVIOUS
      <4> HIDE DEF rec
      <4> QED BY <4>1, <4>2
    <3>2. CASE CreateManual(s)
      <4> PICK i \in InvoiceIds :
             /\ inv[i].status = "unused"
             /\ inv' = [inv EXCEPT ![i] = NewManualDraft(session[s].period,
                                    session[s].commission, session[s].seen)]
             /\ onceOff' = Link(session[s].link, i)
        BY <3>2 DEF CreateManual
      <4> DEFINE rec == NewManualDraft(session[s].period, session[s].commission,
                                       session[s].seen)
      <4>1. rec.status = "draft" /\ rec.source = "manual"
        BY DEF NewManualDraft, Blank
      <4>2. inv' = [inv EXCEPT ![i] = rec]
        OBVIOUS
      <4> HIDE DEF rec
      <4> QED BY <4>1, <4>2
    <3> QED BY <1>1, <3>1, <3>2
  <2>1. \A a \in session[s].link : Charges(inv'[i], a)
    BY <1>0 DEF Charges
  <2>2. \A a \in OnceOffs : IF a \in session[s].link THEN onceOff'[a].billed = i
                            ELSE onceOff'[a] = onceOff[a]
    BY <1>a DEF Link
  <2>3. \A a \in OnceOffs : onceOff[a].billed # i
    BY DEF BilledIsCharged
  <2> QED BY <2>1, <2>2, <2>3, <1>0, BilledKept
<1>2. CASE RebuildCommit(s)
  <2> DEFINE i == session[s].target
  <2> PICK c \in Outcomes : inv' = [inv EXCEPT ![i] = Rebuilt(inv[i], c, session[s].link)]
    BY <1>2 DEF RebuildCommit
  <2>1. i \in InvoiceIds /\ inv[i].status = "draft"
    BY <1>2, <1>0 DEF RebuildCommit, Carries, LockInv
  <2>2. \A a \in session[s].link : Charges(inv'[i], a)
    BY <2>1, <1>0 DEF Charges, Rebuilt, SourceLines, Invoice
  <2>3. \A a \in OnceOffs :
            \/ a \in session[s].link /\ onceOff'[a].billed = i
            \/ onceOff'[a].billed = None
            \/ onceOff'[a].billed = onceOff[a].billed /\ onceOff[a].billed # i
    BY <1>2, <1>a DEF RebuildCommit, Unlink
  <2> QED BY <2>1, <2>2, <2>3, <1>0, BilledKept
<1>3. CASE ExpenseAppend(s)
  <2> DEFINE i == session[s].draft
             rec == WithLines(inv[i], session[s].seen \cup {session[s].item})
  <2>1. i \in InvoiceIds /\ inv[i].source = "manual" /\ inv[i].status = "draft"
    BY <1>3, <1>0 DEF ExpenseAppend, Carries, Session
  <2>2. rec.source = "manual" /\ rec.status = "draft"
    BY <2>1, <1>0 DEF WithLines, Invoice
  <2>3. inv' = [inv EXCEPT ![i] = rec] /\ onceOff' = onceOff
    BY <1>3 DEF ExpenseAppend
  <2>4. \A a \in OnceOffs : Charges(inv'[i], a)
    BY <2>1, <2>2, <2>3, <1>0 DEF Charges
  <2> HIDE DEF i, rec
  <2> QED BY <2>1, <2>3, <2>4, <1>0, BilledKept
<1>4. CASE ExpenseLink(s)
  <2> DEFINE i == session[s].draft
  <2>1. i \in InvoiceIds /\ session[s].item \in OnceOffs /\ inv' = inv
        /\ inv[i].status # "deleted"
    BY <1>4, <1>0 DEF ExpenseLink, Carries, Session
  <2>2. \A a \in OnceOffs : Charges(inv'[i], a)
    BY <2>1, NoneIsNoId DEF DraftInv, ByHand, Charges
  <2>3. \A a \in OnceOffs : onceOff'[a].billed \in {onceOff[a].billed, i}
    BY <1>4, <1>a DEF ExpenseLink, Link
  <2> HIDE DEF i
  <2> QED BY <2>1, <2>2, <2>3, BilledKept
<1>5. CASE inv' = inv /\ \A a \in OnceOffs : onceOff'[a].billed = onceOff[a].billed
  BY <1>5 DEF BilledIsCharged
<1>6. CASE \E a \in OnceOffs : AddOnceOff(s, a) \/ RemoveOnceOff(s, a)
                               \/ \E i \in InvoiceIds : ExpenseRead(s, i, a)
  <2> PICK a \in OnceOffs, state \in {"active", "ended"} :
         inv' = inv /\ onceOff' = [onceOff EXCEPT ![a].state = state]
    BY <1>6 DEF AddOnceOff, RemoveOnceOff, ExpenseRead
  <2>1. \A b \in OnceOffs : onceOff'[b].billed = onceOff[b].billed
    BY <1>0, <1>a
  <2> QED BY <2>1, <1>5
<1>7. CASE inv' = inv /\ onceOff' = onceOff
  BY <1>7, <1>5
<1> QED BY <1>1, <1>2, <1>3, <1>4, <1>6, <1>7
        DEF SessionStep, GenerateRead, RebuildBegin, ListDrafts, Abort, SeedPreview,
            SeedRead, TypedRead

(* Whatever happens to one invoice short of its deletion, its period and   *)
(* its source stay, and so do its lines when they come from the sources.   *)
LEMMA RowKept ==
    ASSUME NEW i \in InvoiceIds, TypeOK, InvoiceStep(i), ~DeleteDraft(i)
    PROVE  /\ onceOff' = onceOff
           /\ inv[i].status \notin {"unused", "deleted"}
           /\ inv'[i].status \notin {"unused", "deleted"}
           /\ inv'[i].source = inv[i].source
           /\ inv'[i].period = inv[i].period
           /\ inv[i].source = "auto" => inv'[i].lines = inv[i].lines
           /\ inv'[i].status \in Live => inv[i].status \in Live
<1>0. inv[i] \in Invoice /\ DOMAIN inv = InvoiceIds
  BY DEF TypeOK
<1>1. CASE UpdateManualLines(i)
  <2> PICK kept \in {{}, inv[i].lines} :
         inv' = [inv EXCEPT ![i] = WithLines(inv[i], kept \cup {"custom"})]
    BY <1>1 DEF UpdateManualLines
  <2>1. /\ onceOff' = onceOff /\ inv[i].status = "draft" /\ inv[i].source = "manual"
        /\ inv'[i] = WithLines(inv[i], kept \cup {"custom"})
    BY <1>1, <1>0 DEF UpdateManualLines
  <2> QED BY <2>1, <1>0 DEF WithLines, Invoice, Live
<1>2. CASE ApproveDraft(i) \/ UnapproveDraft(i) \/ WaiveCommission(i)
  BY <1>2, <1>0 DEF ApproveDraft, UnapproveDraft, WaiveCommission, Approvable, Invoice, Live
<1>3. CASE \E y \in Years : IssueInvoice(i, y)
  BY <1>3, <1>0 DEF IssueInvoice, Issuable, Invoice, Live
<1>4. CASE \E to \in {"paid", "overdue", "void"} :
               TransitionStatus(i, to) \/ \E y \in Years : IssueCreditNote(i, y)
  <2>1. PICK to \in {"paid", "overdue", "void"} :
           /\ inv' = [inv EXCEPT ![i].status = to] /\ onceOff' = onceOff
           /\ inv[i].status \in {"draft", "issued", "overdue"}
    BY <1>4 DEF TransitionStatus, IssueCreditNote, CanTransition
  <2> QED BY <2>1, <1>0 DEF Invoice, Live
<1> QED BY <1>1, <1>2, <1>3, <1>4 DEF InvoiceStep

LEMMA InvoiceStepBilled ==
    ASSUME NEW i \in InvoiceIds, TypeOK, DraftInv, BilledIsCharged, InvoiceStep(i)
    PROVE  DraftInv' /\ BilledIsCharged'
<1>0. /\ inv[i] \in Invoice /\ DOMAIN inv = InvoiceIds
      /\ \A a \in OnceOffs : onceOff[a] \in [state  : {"absent", "active", "ended"},
                                             billed : InvoiceIds \cup {None}]
  BY DEF TypeOK
<1>1. /\ session' = session
      /\ \A j \in InvoiceIds \ {i} : inv'[j] = inv[j]
  BY <1>0 DEF InvoiceStep, DeleteDraft, UpdateManualLines, ApproveDraft, UnapproveDraft,
              WaiveCommission, IssueInvoice, TransitionStatus, IssueCreditNote
<1>2. CASE DeleteDraft(i)
  <2>1. inv'[i].status = "deleted" /\ onceOff' = Unlink(i)
    BY <1>2, <1>0 DEF DeleteDraft, Blank
  <2>2. \A a \in OnceOffs :
            \/ onceOff'[a].billed = None
            \/ onceOff'[a].billed = onceOff[a].billed /\ onceOff[a].billed # i
    BY <2>1, <1>0 DEF Unlink
  <2>3. BilledIsCharged'
    BY <2>2, <1>1, BilledKept
  <2>4. \A j \in InvoiceIds : ByHand(inv[j]) => ByHand(inv'[j])
    BY <2>1, <1>1 DEF ByHand
  <2> QED BY <2>3, <2>4, <1>1 DEF DraftInv, TypeOK, Session
<1>3. CASE ~DeleteDraft(i)
  <2>1. /\ onceOff' = onceOff
        /\ inv[i].status \notin {"unused", "deleted"}
        /\ inv'[i].status \notin {"unused", "deleted"}
        /\ inv'[i].source = inv[i].source
        /\ inv[i].source = "auto" => inv'[i].lines = inv[i].lines
    BY <1>3, RowKept
  <2>2. BilledIsCharged'
    BY <2>1, <1>1 DEF BilledIsCharged
  <2>3. \A j \in InvoiceIds : ByHand(inv[j]) => ByHand(inv'[j])
    BY <2>1, <1>1 DEF ByHand
  <2> QED BY <2>2, <2>3, <1>1 DEF DraftInv, TypeOK, Session
<1> QED BY <1>2, <1>3

LEMMA BilledStep ==
    IInv /\ DraftInv /\ BilledIsCharged /\ [Next]_vars => DraftInv' /\ BilledIsCharged'
<1> SUFFICES ASSUME IInv, DraftInv, BilledIsCharged, [Next]_vars
             PROVE  DraftInv' /\ BilledIsCharged'
  OBVIOUS
<1>1. CASE Next
  BY <1>1, SessionsKeepDrafts, SessionsKeepBilled, InvoiceStepBilled DEF Next, IInv
<1>2. CASE UNCHANGED vars
  BY <1>2 DEF vars, DraftInv, BilledIsCharged
<1> QED BY <1>1, <1>2

(* A once-off that is marked billed is on an invoice that exists, and one  *)
(* built from the sources charges it, for any number of sessions and any   *)
(* mix of requests: no race loses the charge.                              *)
THEOREM NoChargeIsLost == Spec => []BilledIsCharged
<1>1. Init => DraftInv /\ BilledIsCharged
  BY NoneIsNoId DEF Init, DraftInv, BilledIsCharged, Idle
<1> QED BY <1>1, BilledStep, Invariance, PTL DEF Spec

-----------------------------------------------------------------------------
(* One request at a time *)

(* The check of a period and the search for unbilled once-offs lock        *)
(* nothing, so two requests of the same tenant can both pass them (the run *)
(* twice of the README).  What follows is about requests that do not       *)
(* overlap; the steps on issued and deleted invoices still come between    *)
(* what a request reads and what it writes.                                *)
OneSession == \A s, t \in Sessions : s = t

(* Until it inserts its invoice, the period a request checked stays free   *)
(* and the once-offs it read stay unbilled; a rebuild's may be on the row  *)
(* it holds.                                                               *)
PeriodsFree ==
    \A s \in Sessions :
        session[s].pc \in {"generating", "creating"} => ~PeriodTaken(session[s].period)
LinksFree ==
    \A s \in Sessions, a \in OnceOffs : a \in session[s].link =>
        /\ session[s].pc \in {"generating", "creating"} => onceOff[a].billed = None
        /\ session[s].pc = "rebuilding" => onceOff[a].billed \in {None, session[s].target}

(* The converse of BilledIsCharged, which only holds for invoices built    *)
(* from the sources: a hand-made draft may carry a line nobody linked.     *)
ChargedIsBilled ==
    \A i \in InvoiceIds, a \in OnceOffs :
        inv[i].status \in Live /\ inv[i].source = "auto" /\ a \in inv[i].lines =>
            onceOff[a].billed = i

SingleInv == PeriodsFree /\ LinksFree /\ OneLivePerPeriod /\ ChargedIsBilled

(* Where a request stands after its step: an insert is still ahead only of *)
(* a step that has just done the reading.                                  *)
LEMMA AfterReading ==
    ASSUME NEW s \in Sessions, TypeOK, SessionInv, SessionStep(s)
    PROVE  /\ session'[s].pc \in {"generating", "creating"} =>
                  /\ inv' = inv /\ onceOff' = onceOff
                  /\ ~PeriodTaken(session'[s].period)
                  /\ \A a \in session'[s].link : onceOff[a].billed = None
           /\ session'[s].pc = "rebuilding" =>
                  /\ inv' = inv /\ onceOff' = onceOff
                  /\ \A a \in session'[s].link :
                         onceOff[a].billed \in {None, session'[s].target}
<1>0. session[s] \in Session /\ Carries(session[s]) /\ DOMAIN session = Sessions
  BY DEF TypeOK, SessionInv
<1>1. CASE \E p \in Periods : GenerateRead(s, p)
  BY <1>1, <1>0 DEF GenerateRead, Idle, UnbilledIn
<1>2. CASE SeedRead(s)
  BY <1>2, <1>0 DEF SeedRead, Session, UnbilledIn
<1>3. CASE \E p \in Periods, seed \in BOOLEAN : TypedRead(s, p, seed)
  BY <1>3, <1>0 DEF TypedRead, Idle, UnbilledIn
<1>4. CASE \E i \in InvoiceIds : RebuildBegin(s, i)
  <2> PICK i \in InvoiceIds : RebuildBegin(s, i)
    BY <1>4
  <2>1. /\ session'[s].pc = "rebuilding" /\ session'[s].target = i
        /\ session'[s].link = {a \in OnceOffs : /\ Covers(a, inv[i].period)
                                                /\ onceOff[a].billed \in {None, i}}
        /\ inv' = inv /\ onceOff' = onceOff
    BY <1>0 DEF RebuildBegin, Session
  <2> QED BY <2>1
<1>5. CASE session'[s].pc \notin {"generating", "creating", "rebuilding"}
  BY <1>5
<1>6. CASE RebuildCommit(s) \/ ListDrafts(s)
  <2>1. \A rec \in Session : AfterQueue(rec).pc \in {"queued", "append", "idle"}
    BY DEF AfterQueue, Session, Idle
  <2>2. [session[s] EXCEPT !.queue =
           {i \in InvoiceIds : inv[i].status = "draft" /\ inv[i].source = "auto"}]
             \in Session
    BY <1>0 DEF Session
  <2>3. session'[s].pc \in {"queued", "append", "idle"}
    BY <1>6, <1>0, <2>1, <2>2 DEF RebuildCommit, ListDrafts
  <2> QED BY <2>3, <1>5
<1>7. CASE \E a \in OnceOffs : AddOnceOff(s, a) \/ RemoveOnceOff(s, a)
  BY <1>7, <1>0, <1>5 DEF AddOnceOff, RemoveOnceOff, Idle
<1>8. CASE \E p \in Periods : SeedPreview(s, p)
  BY <1>8, <1>0, <1>5 DEF SeedPreview, Idle
<1>9. CASE \E i \in InvoiceIds, a \in OnceOffs : ExpenseRead(s, i, a)
  BY <1>9, <1>0, <1>5 DEF ExpenseRead, Idle
<1>10. CASE GenerateCommit(s) \/ CreateManual(s) \/ ExpenseLink(s) \/ Abort(s)
  <2>1. session' = [session EXCEPT ![s] = Idle]
    BY <1>10 DEF GenerateCommit, CreateManual, ExpenseLink, Abort
  <2> QED BY <2>1, <1>0, <1>5 DEF Idle
<1>11. CASE ExpenseAppend(s)
  BY <1>11, <1>0, <1>5 DEF ExpenseAppend, Session
<1> QED BY <1>1, <1>2, <1>3, <1>4, <1>6, <1>7, <1>8, <1>9, <1>10, <1>11 DEF SessionStep

(* Nothing becomes live, and what stays live keeps its period.             *)
NothingNew ==
    \A i \in InvoiceIds : inv'[i].status \in Live =>
        inv[i].status \in Live /\ inv'[i].period = inv[i].period

LEMMA PeriodsKept ==
    ASSUME OneLivePerPeriod, NothingNew
    PROVE  /\ OneLivePerPeriod'
           /\ session' = session /\ PeriodsFree => PeriodsFree'
<1>1. OneLivePerPeriod'
  BY DEF OneLivePerPeriod, NothingNew
<1>2. session' = session /\ PeriodsFree => PeriodsFree'
  BY DEF PeriodsFree, PeriodTaken, NothingNew
<1> QED BY <1>1, <1>2

LEMMA SessionsKeepPeriods ==
    ASSUME NEW s \in Sessions, TypeOK, SessionInv, LockInv, OneLivePerPeriod, PeriodsFree,
           SessionStep(s)
    PROVE  OneLivePerPeriod'
<1>0. /\ session[s] \in Session /\ Carries(session[s])
      /\ DOMAIN inv = InvoiceIds
      /\ \A i \in InvoiceIds : inv[i] \in Invoice
  BY DEF TypeOK, SessionInv
<1>1. CASE GenerateCommit(s) \/ CreateManual(s)
  <2>0. \E i \in InvoiceIds : \E rec :
           inv' = [inv EXCEPT ![i] = rec] /\ rec.period = session[s].period
    <3>1. CASE GenerateCommit(s)
      <4>1. PICK i \in InvoiceIds, c \in Outcomes : inv' = [inv EXCEPT ![i] =
                 NewAutoDraft(session[s].period, c, session[s].link)]
        BY <3>1 DEF GenerateCommit
      <4>2. NewAutoDraft(session[s].period, c, session[s].link).period = session[s].period
        BY DEF NewAutoDraft, Rebuilt, Blank
      <4> QED BY <4>1, <4>2
    <3>2. CASE CreateManual(s)
      <4>1. PICK i \in InvoiceIds : inv' = [inv EXCEPT ![i] =
                 NewManualDraft(session[s].period, session[s].commission, session[s].seen)]
        BY <3>2 DEF CreateManual
      <4>2. NewManualDraft(session[s].period, session[s].commission,
                           session[s].seen).period = session[s].period
        BY DEF NewManualDraft, Blank
      <4> QED BY <4>1, <4>2
    <3> QED BY <1>1, <3>1, <3>2
  <2>1. PICK i \in InvoiceIds : \E rec :
           inv' = [inv EXCEPT ![i] = rec] /\ rec.period = session[s].period
    BY <2>0
  <2>2. ~PeriodTaken(session[s].period)
    BY <1>1 DEF GenerateCommit, CreateManual, PeriodsFree
  <2> QED BY <2>1, <2>2, <1>0 DEF OneLivePerPeriod, PeriodTaken
<1>2. CASE RebuildCommit(s)
  <2> DEFINE i == session[s].target
  <2>1. i \in InvoiceIds /\ inv[i].status = "draft"
    BY <1>2, <1>0 DEF RebuildCommit, Carries, LockInv
  <2>2. PICK c \in Outcomes : inv' = [inv EXCEPT ![i] = Rebuilt(inv[i], c, session[s].link)]
    BY <1>2 DEF RebuildCommit
  <2>3. Rebuilt(inv[i], c, session[s].link).period = inv[i].period
    BY <2>1, <1>0 DEF Rebuilt, Invoice
  <2>4. NothingNew
    BY <2>1, <2>2, <2>3, <1>0 DEF NothingNew, Live
  <2> QED BY <2>4, PeriodsKept
<1>3. CASE ExpenseAppend(s)
  <2> DEFINE i == session[s].draft
             rec == WithLines(inv[i], session[s].seen \cup {session[s].item})
  <2>1. i \in InvoiceIds /\ inv[i].status = "draft"
    BY <1>3, <1>0 DEF ExpenseAppend, Carries, Session
  <2>2. rec.period = inv[i].period /\ inv' = [inv EXCEPT ![i] = rec]
    BY <1>3, <2>1, <1>0 DEF ExpenseAppend, WithLines, Invoice
  <2> HIDE DEF rec
  <2>3. NothingNew
    BY <2>1, <2>2, <1>0 DEF NothingNew, Live
  <2> QED BY <2>3, PeriodsKept
<1>4. CASE inv' = inv
  BY <1>4 DEF OneLivePerPeriod
<1>5. \/ GenerateCommit(s) \/ RebuildCommit(s) \/ CreateManual(s) \/ ExpenseAppend(s)
      \/ inv' = inv
  BY DEF SessionStep, GenerateRead, RebuildBegin, AddOnceOff, RemoveOnceOff, ListDrafts,
         Abort, SeedPreview, SeedRead, TypedRead, ExpenseRead, ExpenseLink
<1> QED BY <1>1, <1>2, <1>3, <1>4, <1>5

(* A step that touches one invoice and no link to another.                 *)
LEMMA ChargedKept ==
    ASSUME ChargedIsBilled, NEW i \in InvoiceIds,
           \A j \in InvoiceIds \ {i} : inv'[j] = inv[j],
           \A a \in OnceOffs :
               inv'[i].status \in Live /\ inv'[i].source = "auto" /\ a \in inv'[i].lines =>
                   onceOff'[a].billed = i,
           \A a \in OnceOffs, j \in InvoiceIds \ {i} :
               onceOff[a].billed = j => onceOff'[a].billed = j
    PROVE  ChargedIsBilled'
BY DEF ChargedIsBilled

(* The once-offs among the lines built from the sources are those read.    *)
LEMMA SourceOnceOffs ==
    ASSUME NEW c, NEW once \in SUBSET OnceOffs, NEW a \in OnceOffs,
           a \in SourceLines(c, once)
    PROVE  a \in once
BY ItemsAreDistinct DEF SourceLines

LEMMA SessionsKeepCharged ==
    ASSUME NEW s \in Sessions, TypeOK, SessionInv, LockInv, DraftInv, LinksFree,
           ChargedIsBilled, SessionStep(s)
    PROVE  ChargedIsBilled'
<1>0. /\ session[s] \in Session /\ Carries(session[s])
      /\ DOMAIN inv = InvoiceIds /\ DOMAIN onceOff = OnceOffs
      /\ \A i \in InvoiceIds : inv[i] \in Invoice
      /\ session[s].link \in SUBSET OnceOffs
  BY DEF TypeOK, SessionInv, Session
<1>a. \A a \in OnceOffs : onceOff[a] \in [state  : {"absent", "active", "ended"},
                                          billed : InvoiceIds \cup {None}]
  BY DEF TypeOK
<1>1. CASE GenerateCommit(s)
  <2> PICK i \in InvoiceIds, c \in Outcomes :
         /\ inv' = [inv EXCEPT ![i] = NewAutoDraft(session[s].period, c, session[s].link)]
         /\ onceOff' = Link(session[s].link, i)
    BY <1>1 DEF GenerateCommit
  <2>1. NewAutoDraft(session[s].period, c, session[s].link).lines
            = SourceLines(c, session[s].link)
    BY DEF NewAutoDraft, Rebuilt, Blank
  <2>2. \A a \in OnceOffs : IF a \in session[s].link THEN onceOff'[a].billed = i
                            ELSE onceOff'[a] = onceOff[a]
    BY <1>a DEF Link
  <2>3. \A a \in session[s].link : onceOff[a].billed = None
    BY <1>1, <1>0 DEF GenerateCommit, LinksFree
  <2>4. \A a \in OnceOffs : a \in inv'[i].lines => onceOff'[a].billed = i
    BY <2>1, <2>2, <1>0, SourceOnceOffs
  <2>5. \A a \in OnceOffs, j \in InvoiceIds \ {i} :
            onceOff[a].billed = j => onceOff'[a].billed = j
    BY <2>2, <2>3, NoneIsNoId
  <2> QED BY <2>4, <2>5, <1>0, ChargedKept
<1>2. CASE CreateManual(s)
  <2> PICK i \in InvoiceIds :
         /\ inv' = [inv EXCEPT ![i] = NewManualDraft(session[s].period,
                                        session[s].commission, session[s].seen)]
         /\ onceOff' = Link(session[s].link, i)
    BY <1>2 DEF CreateManual
  <2>1. NewManualDraft(session[s].period, session[s].commission,
                       session[s].seen).source = "manual"
    BY DEF NewManualDraft, Blank
  <2>2. \A a \in OnceOffs : IF a \in session[s].link THEN onceOff'[a].billed = i
                            ELSE onceOff'[a] = onceOff[a]
    BY <1>a DEF Link
  <2>3. \A a \in session[s].link : onceOff[a].billed = None
    BY <1>2, <1>0 DEF CreateManual, LinksFree
  <2>4. inv'[i].source # "auto"
    BY <2>1, <1>0
  <2>5. \A a \in OnceOffs, j \in InvoiceIds \ {i} :
            onceOff[a].billed = j => onceOff'[a].billed = j
    BY <2>2, <2>3, NoneIsNoId
  <2> QED BY <2>4, <2>5, <1>0, ChargedKept
<1>3. CASE RebuildCommit(s)
  <2> DEFINE i == session[s].target
  <2> PICK c \in Outcomes : inv' = [inv EXCEPT ![i] = Rebuilt(inv[i], c, session[s].link)]
    BY <1>3 DEF RebuildCommit
  <2>1. i \in InvoiceIds
    BY <1>3, <1>0 DEF RebuildCommit, Carries
  <2>2. Rebuilt(inv[i], c, session[s].link).lines = SourceLines(c, session[s].link)
    BY <2>1, <1>0 DEF Rebuilt, Invoice
  <2>3. \A a \in OnceOffs :
            /\ a \in session[s].link => /\ onceOff'[a].billed = i
                                        /\ onceOff[a].billed \in {None, i}
            /\ a \notin session[s].link /\ onceOff[a].billed # i => onceOff'[a] = onceOff[a]
    BY <1>3, <1>a DEF RebuildCommit, Unlink, LinksFree
  <2>4. \A a \in OnceOffs : a \in inv'[i].lines => onceOff'[a].billed = i
    BY <2>1, <2>2, <2>3, <1>0, SourceOnceOffs
  <2>5. \A a \in OnceOffs, j \in InvoiceIds \ {i} :
            onceOff[a].billed = j => onceOff'[a].billed = j
    BY <2>3, NoneIsNoId
  <2>6. \A j \in InvoiceIds \ {i} : inv'[j] = inv[j]
    BY <1>0
  <2> HIDE DEF i
  <2> QED BY <2>1, <2>4, <2>5, <2>6, ChargedKept
<1>4. CASE ExpenseAppend(s)
  <2> DEFINE i == session[s].draft
             rec == WithLines(inv[i], session[s].seen \cup {session[s].item})
  <2>1. i \in InvoiceIds /\ inv[i].source = "manual"
    BY <1>4, <1>0 DEF ExpenseAppend, Carries, Session
  <2>2. rec.source = "manual" /\ inv' = [inv EXCEPT ![i] = rec] /\ onceOff' = onceOff
    BY <1>4, <2>1, <1>0 DEF ExpenseAppend, WithLines, Invoice
  <2> HIDE DEF i, rec
  <2> QED BY <2>1, <2>2, <1>0, ChargedKept
<1>5. CASE ExpenseLink(s)
  <2> DEFINE i == session[s].draft
  <2>1. i \in InvoiceIds /\ session[s].item \in OnceOffs /\ inv' = inv
        /\ inv[i].status # "deleted" /\ i # None
    BY <1>5, <1>0 DEF ExpenseLink, Carries, Session
  <2>2. inv'[i].source = "manual"
    BY <2>1 DEF DraftInv, ByHand
  <2>3. \A a \in OnceOffs : onceOff[a].billed # None => onceOff'[a] = onceOff[a]
    BY <1>5, <1>a DEF ExpenseLink, Link
  <2> HIDE DEF i
  <2> QED BY <2>1, <2>2, <2>3, NoneIsNoId, ChargedKept
<1>6. CASE \E a \in OnceOffs : AddOnceOff(s, a) \/ RemoveOnceOff(s, a)
                               \/ \E i \in InvoiceIds : ExpenseRead(s, i, a)
  <2> PICK a \in OnceOffs, state \in {"active", "ended"} :
         inv' = inv /\ onceOff' = [onceOff EXCEPT ![a].state = state]
    BY <1>6 DEF AddOnceOff, RemoveOnceOff, ExpenseRead
  <2>1. \A b \in OnceOffs : onceOff'[b].billed = onceOff[b].billed
    BY <1>0, <1>a
  <2> QED BY <2>1 DEF ChargedIsBilled
<1>7. CASE inv' = inv /\ onceOff' = onceOff
  BY <1>7 DEF ChargedIsBilled
<1> QED BY <1>1, <1>2, <1>3, <1>4, <1>5, <1>6, <1>7
        DEF SessionStep, GenerateRead, RebuildBegin, ListDrafts, Abort, SeedPreview,
            SeedRead, TypedRead

LEMMA SessionStepSingle ==
    ASSUME OneSession, NEW s \in Sessions, TypeOK, SessionInv, LockInv, DraftInv, SingleInv,
           SessionStep(s)
    PROVE  SingleInv'
<1>1. \A t \in Sessions : t = s
  BY DEF OneSession
<1>2. PeriodsFree'
  <2> SUFFICES ASSUME session'[s].pc \in {"generating", "creating"}
               PROVE  ~PeriodTaken(session[s].period)'
    BY <1>1 DEF PeriodsFree
  <2> QED BY AfterReading DEF PeriodTaken
<1>3. LinksFree'
  <2> SUFFICES ASSUME NEW a \in OnceOffs, a \in session'[s].link
               PROVE  /\ session'[s].pc \in {"generating", "creating"} =>
                             onceOff'[a].billed = None
                      /\ session'[s].pc = "rebuilding" =>
                             onceOff'[a].billed \in {None, session'[s].target}
    BY <1>1 DEF LinksFree
  <2> QED BY AfterReading
<1>4. OneLivePerPeriod' /\ ChargedIsBilled'
  BY SessionsKeepPeriods, SessionsKeepCharged DEF SingleInv
<1> QED BY <1>2, <1>3, <1>4 DEF SingleInv

LEMMA InvoiceStepSingle ==
    ASSUME NEW i \in InvoiceIds, TypeOK, SingleInv, InvoiceStep(i)
    PROVE  SingleInv'
<1> USE DEF SingleInv
<1>0. /\ inv[i] \in Invoice /\ DOMAIN inv = InvoiceIds
      /\ \A a \in OnceOffs : onceOff[a] \in [state  : {"absent", "active", "ended"},
                                             billed : InvoiceIds \cup {None}]
  BY DEF TypeOK
<1>1. /\ session' = session /\ ~Locked(i)
      /\ \A j \in InvoiceIds \ {i} : inv'[j] = inv[j]
  BY <1>0 DEF InvoiceStep, DeleteDraft, UpdateManualLines, ApproveDraft, UnapproveDraft,
              WaiveCommission, IssueInvoice, TransitionStatus, IssueCreditNote
<1>2. CASE DeleteDraft(i)
  <2>1. inv'[i].status \notin Live /\ onceOff' = Unlink(i)
    BY <1>2, <1>0 DEF DeleteDraft, Blank, Live
  <2>2. OneLivePerPeriod' /\ PeriodsFree'
    BY <2>1, <1>1, PeriodsKept DEF NothingNew
  <2>3. \A a \in OnceOffs : \/ onceOff[a].billed # i /\ onceOff'[a] = onceOff[a]
                            \/ onceOff[a].billed = i /\ onceOff'[a].billed = None
    BY <2>1, <1>0 DEF Unlink
  <2>4. ChargedIsBilled'
    BY <2>1, <2>3, <1>1, ChargedKept
  <2>5. LinksFree'
    BY <2>3, <1>1 DEF LinksFree, Locked
  <2> QED BY <2>2, <2>4, <2>5
<1>3. CASE ~DeleteDraft(i)
  <2>1. /\ onceOff' = onceOff
        /\ inv'[i].source = inv[i].source
        /\ inv'[i].period = inv[i].period
        /\ inv[i].source = "auto" => inv'[i].lines = inv[i].lines
        /\ inv'[i].status \in Live => inv[i].status \in Live
    BY <1>3, RowKept
  <2>2. OneLivePerPeriod' /\ PeriodsFree'
    BY <2>1, <1>1, PeriodsKept DEF NothingNew
  <2>3. ChargedIsBilled'
    BY <2>1, <1>1 DEF ChargedIsBilled
  <2>4. LinksFree'
    BY <2>1, <1>1 DEF LinksFree
  <2> QED BY <2>2, <2>3, <2>4
<1> QED BY <1>2, <1>3

LEMMA SingleInvariance ==
    ASSUME OneSession
    PROVE  Spec => []SingleInv
<1>1. Init => DraftInv /\ BilledIsCharged
  BY NoneIsNoId DEF Init, DraftInv, BilledIsCharged, Idle
<1>2. Init => SingleInv
  BY DEF Init, SingleInv, PeriodsFree, LinksFree, OneLivePerPeriod, ChargedIsBilled, Idle,
         Blank, Live
<1>3. IInv /\ DraftInv /\ SingleInv /\ [Next]_vars => SingleInv'
  <2> SUFFICES ASSUME IInv, DraftInv, SingleInv, [Next]_vars PROVE SingleInv'
    OBVIOUS
  <2>1. CASE Next
    BY <2>1, SessionStepSingle, InvoiceStepSingle DEF Next, IInv
  <2>2. CASE UNCHANGED vars
    BY <2>2 DEF vars, SingleInv, PeriodsFree, LinksFree, OneLivePerPeriod, ChargedIsBilled,
                PeriodTaken
  <2> QED BY <2>1, <2>2
<1> QED BY <1>1, <1>2, <1>3, BilledStep, Invariance, PTL DEF Spec

(* A tenant whose requests do not overlap has one live invoice per period, *)
(* whichever mix of generated and hand-made drafts it is given.            *)
THEOREM PeriodsAreTakenOnce ==
    ASSUME OneSession
    PROVE  Spec => []OneLivePerPeriod
<1>1. SingleInv => OneLivePerPeriod
  BY DEF SingleInv
<1> QED BY <1>1, SingleInvariance, PTL

(* ... and no once-off is charged by two invoices built from the sources.  *)
THEOREM OnceOffsAreChargedOnce ==
    ASSUME OneSession
    PROVE  Spec => []OneAutoCharge
<1>1. SingleInv => OneAutoCharge
  BY DEF SingleInv, ChargedIsBilled, OneAutoCharge
<1> QED BY <1>1, SingleInvariance, PTL
=============================================================================
