------------------------------ MODULE Invoicing ------------------------------
(***************************************************************************)
(* The invoices of one tenant: drafts built from the subscription, the     *)
(* commission and the once-off expenses, the review gate, issuing with     *)
(* gap-free numbers, settlement, credit notes, and the hand-made           *)
(* ("manual") drafts.  src/lib/invoices/{generate,manual,approval,issue,   *)
(* numbers,invariants}.ts and the expense functions of                     *)
(* src/lib/tenants/service.ts.                                             *)
(*                                                                         *)
(* A database transaction that locks the invoice row first (FOR UPDATE) is *)
(* one step.  The ones that read without a lock and write later are split  *)
(* at the snapshot: a session (one request of the console) keeps what it   *)
(* read, and other sessions run before it commits.  Tenants meet only in   *)
(* number_sequences, which is updated inside one transaction, so one       *)
(* tenant with several periods stands for all of them.                     *)
(***************************************************************************)
EXTENDS Integers, FiniteSets

CONSTANTS
    InvoiceIds,   \* primary keys of invoices (bounds how many are ever made)
    Periods,      \* billing months that have not ended
    Started,      \* those whose first day is not after today
    OnceOffs,     \* once-off expenses (addons.kind = 'once_off')
    Sessions,     \* requests of the console that can be in flight together
    Years,        \* years an invoice or a credit note can be dated in
    Outcomes,     \* what resolving the commission can return
    Requests,     \* the requests an instance makes, and whether they may end
                  \* early (a bound of the model)
    None          \* SQL NULL

ASSUME StartedArePeriods == Started \subseteq Periods
ASSUME YearsArePositive == Years \subseteq Nat \ {0}
ASSUME OutcomesAreKnown == Outcomes \subseteq {"flat", "figure", "unreadable"}
ASSUME RequestsAreKnown ==
    Requests \subseteq {"generate", "rebuild", "expense", "seed", "typed", "abort"}
ASSUME NoneIsNoId == None \notin InvoiceIds \cup OnceOffs \cup Periods
ASSUME ItemsAreDistinct == OnceOffs \cap {"commission", "custom"} = {}

VARIABLES
    inv,          \* tables invoices and invoice_lines
    onceOff,      \* table addons, once-off rows
    last,         \* table number_sequences: last[key][year]
    credits,      \* table credit_notes
    session       \* what each request in flight has read so far

vars == <<inv, onceOff, last, credits, session>>

(* What a line can charge for, beside the subscription and the recurring   *)
(* expenses, which every draft built from the sources has.  "custom" is    *)
(* text an operator typed.                                                 *)
Items == OnceOffs \cup {"commission", "custom"}

NoNumber == [year |-> 0, seq |-> 0]
Number == [year : Years \cup {0}, seq : Nat]

Statuses == {"unused", "deleted", "draft", "issued", "paid", "overdue", "void"}
Immutable == {"issued", "paid", "overdue", "void"}
Live == {"draft", "issued", "paid", "overdue"}

Invoice ==
    [status     : Statuses,
     source     : {"auto", "manual"},
     period     : Periods \cup {None},
     lines      : SUBSET Items,
     commission : {"flat", "figure", "unreadable", "waived", "none"},
     flagged    : BOOLEAN,     \* needs_attention
     approved   : BOOLEAN,     \* approved_at IS NOT NULL
     reviewed   : BOOLEAN,     \* history: the lines are those approved last
     number     : Number]

Blank == [status |-> "unused", source |-> "auto", period |-> None,
          lines |-> {}, commission |-> "none", flagged |-> FALSE,
          approved |-> FALSE, reviewed |-> FALSE, number |-> NoNumber]

Session ==
    [pc     : {"idle", "generating", "previewed", "creating", "listing",
               "queued", "rebuilding", "append", "link"},
     period : Periods \cup {None},
     seen   : SUBSET Items,                \* lines it has read or was given
     link   : SUBSET OnceOffs,             \* once-offs it will mark billed
     commission : {"flat", "figure", "unreadable", "none"},
     queue  : SUBSET InvoiceIds,           \* drafts still to rebuild
     target : InvoiceIds \cup {None},      \* the row it holds locked
     draft  : InvoiceIds \cup {None},      \* manual draft an expense goes to
     item   : OnceOffs \cup {None}]

Idle == [pc |-> "idle", period |-> None, seen |-> {}, link |-> {},
         commission |-> "none", queue |-> {}, target |-> None,
         draft |-> None, item |-> None]

Init ==
    /\ inv = [i \in InvoiceIds |-> Blank]
    /\ onceOff = [a \in OnceOffs |-> [state |-> "absent", billed |-> None]]
    /\ last = [key \in {"invoice", "credit_note"} |-> [y \in Years |-> 0]]
    /\ credits = {}
    /\ session = [s \in Sessions |-> Idle]

-----------------------------------------------------------------------------
(* Reads *)

(* ALLOWED of invariants.ts. *)
CanTransition(from, to) ==
    \/ from = "draft" /\ to = "issued"
    \/ from = "issued" /\ to \in {"paid", "overdue", "void"}
    \/ from = "overdue" /\ to \in {"paid", "void"}

(* "Invoice already exists for this period". *)
PeriodTakenIgnoringOverdue(p) ==
    \E i \in InvoiceIds : inv[i].period = p /\ inv[i].status \in Live \ {"overdue"}
PeriodTaken(p) ==
    \E i \in InvoiceIds : inv[i].period = p /\ inv[i].status \in Live

(* active_from <= periodEnd AND (active_until IS NULL OR active_until >=   *)
(* periodStart): an expense ended today still overlaps a started period.   *)
Covers(a, p) ==
    \/ onceOff[a].state = "active"
    \/ onceOff[a].state = "ended" /\ p \in Started

UnbilledIgnoringLink(p) == {a \in OnceOffs : Covers(a, p)}
UnbilledIn(p) == {a \in OnceOffs : Covers(a, p) /\ onceOff[a].billed = None}

(* The lines of buildDraftLines: no commission line without a figure. *)
SourceLines(c, once) ==
    once \cup (IF c = "figure" THEN {"commission"} ELSE {})

(* A rebuild holds the invoice row and the rows of the once-offs billed on *)
(* it until it commits; a statement of another session on them waits.      *)
NeverLocked(i) == FALSE
Locked(i) == \E s \in Sessions : session[s].pc = "rebuilding" /\ session[s].target = i

RowsFree(s, once) ==
    \A t \in Sessions \ {s}, a \in once :
        session[t].pc = "rebuilding" => onceOff[a].billed # session[t].target

Link(once, i) == [a \in OnceOffs |->
    IF a \in once THEN [onceOff[a] EXCEPT !.billed = i] ELSE onceOff[a]]

KeepLinks(i) == onceOff
Unlink(i) == [a \in OnceOffs |->
    IF onceOff[a].billed = i THEN [onceOff[a] EXCEPT !.billed = None] ELSE onceOff[a]]

(* Once the drafts of the queue are rebuilt, an expense that is being put  *)
(* on a manual draft goes on to the draft; a plain one is done.            *)
AfterQueue(rec) ==
    IF rec.queue # {} THEN [rec EXCEPT !.pc = "queued", !.target = None]
    ELSE IF rec.draft # None THEN [rec EXCEPT !.pc = "append", !.target = None]
    ELSE Idle

(* The columns rebuildDraftInvoice writes: approval is withdrawn, since    *)
(* the figures were read again.                                            *)
RebuiltStillApproved(rec, c, once) ==
    [rec EXCEPT !.lines = SourceLines(c, once), !.commission = c,
                !.flagged = (c = "unreadable"),
                !.reviewed = @ /\ rec.lines = SourceLines(c, once)]
RebuiltUnflagged(rec, c, once) ==
    [rec EXCEPT !.lines = SourceLines(c, once), !.commission = c,
                !.flagged = FALSE, !.approved = FALSE, !.reviewed = FALSE]
Rebuilt(rec, c, once) ==
    [rec EXCEPT !.lines = SourceLines(c, once), !.commission = c,
                !.flagged = (c = "unreadable"),
                !.approved = FALSE, !.reviewed = FALSE]

NewAutoDraft(p, c, once) ==
    Rebuilt([Blank EXCEPT !.status = "draft", !.source = "auto", !.period = p],
            c, once)

NewManualDraft(p, c, lines) ==
    [Blank EXCEPT !.status = "draft", !.source = "manual", !.period = p,
                  !.lines = lines, !.commission = c]

-----------------------------------------------------------------------------
(* Drafts built from the sources *)

(* generateInvoiceForTenant, up to its last SELECT. *)
GenerateRead(s, p) ==
    /\ session[s].pc = "idle"
    /\ ~PeriodTaken(p)
    /\ session' = [session EXCEPT ![s] =
           [Idle EXCEPT !.pc = "generating", !.period = p,
                        !.link = UnbilledIn(p)]]
    /\ UNCHANGED <<inv, onceOff, last, credits>>

(* ... its INSERTs and the marking of the once-offs, and the commit.  The  *)
(* commission was resolved before the transaction: any outcome.            *)
GenerateCommit(s) ==
    /\ session[s].pc = "generating"
    /\ RowsFree(s, session[s].link)
    /\ \E i \in InvoiceIds, c \in Outcomes :
           /\ inv[i].status = "unused"
           /\ inv' = [inv EXCEPT ![i] =
                  NewAutoDraft(session[s].period, c, session[s].link)]
           /\ onceOff' = Link(session[s].link, i)
    /\ session' = [session EXCEPT ![s] = Idle]
    /\ UNCHANGED <<last, credits>>

(* rebuildDraftInvoice, on its own or for a draft of the queue: the row is *)
(* locked, the once-offs are unlinked and read again.                      *)
RebuildBegin(s, i) ==
    /\ \/ session[s].pc = "idle"
       \/ session[s].pc = "queued" /\ i \in session[s].queue
    /\ ~Locked(i)
    /\ inv[i].status = "draft"
    /\ inv[i].source = "auto"
    /\ session' = [session EXCEPT
           ![s].pc = "rebuilding",
           ![s].target = i,
           ![s].queue = @ \ {i},
           ![s].link = {a \in OnceOffs : /\ Covers(a, inv[i].period)
                                         /\ onceOff[a].billed \in {None, i}}]
    /\ UNCHANGED <<inv, onceOff, last, credits>>

(* ... and the new lines, with approval withdrawn. *)
RebuildCommit(s) ==
    LET i == session[s].target IN
    /\ session[s].pc = "rebuilding"
    /\ RowsFree(s, session[s].link)
    /\ \E c \in Outcomes :
           inv' = [inv EXCEPT ![i] = Rebuilt(inv[i], c, session[s].link)]
    /\ onceOff' = [a \in OnceOffs |->
           IF a \in session[s].link THEN [onceOff[a] EXCEPT !.billed = i]
                                    ELSE Unlink(i)[a]]
    /\ session' = [session EXCEPT ![s] = AfterQueue(session[s])]
    /\ UNCHANGED <<last, credits>>

(* deleteDraftInvoice *)
DeleteDraft(i) ==
    /\ ~Locked(i)
    /\ inv[i].status = "draft"
    /\ inv' = [inv EXCEPT ![i] = [Blank EXCEPT !.status = "deleted"]]
    /\ onceOff' = Unlink(i)
    /\ UNCHANGED <<last, credits, session>>

-----------------------------------------------------------------------------
(* Expenses: addAddon and removeAddon end with rebuildTenantDraftInvoices *)

AddOnceOff(s, a) ==
    /\ session[s].pc = "idle"
    /\ onceOff[a].state = "absent"
    /\ onceOff' = [onceOff EXCEPT ![a].state = "active"]
    /\ session' = [session EXCEPT ![s] = [Idle EXCEPT !.pc = "listing"]]
    /\ UNCHANGED <<inv, last, credits>>

RemoveOnceOff(s, a) ==
    /\ session[s].pc = "idle"
    /\ onceOff[a].state # "absent"
    /\ RowsFree(s, {a})
    /\ onceOff' = [onceOff EXCEPT ![a].state = "ended"]
    /\ session' = [session EXCEPT ![s] = [Idle EXCEPT !.pc = "listing"]]
    /\ UNCHANGED <<inv, last, credits>>

(* rebuildTenantDraftInvoices lists the auto drafts first. *)
ListDrafts(s) ==
    /\ session[s].pc = "listing"
    /\ session' = [session EXCEPT ![s] = AfterQueue([session[s] EXCEPT !.queue =
           {i \in InvoiceIds : inv[i].status = "draft" /\ inv[i].source = "auto"}])]
    /\ UNCHANGED <<inv, onceOff, last, credits>>

(* Any request can end early: an error is thrown, the transaction is       *)
(* rolled back or the process dies.  What it committed before stays.       *)
Abort(s) ==
    /\ session[s].pc # "idle"
    /\ session' = [session EXCEPT ![s] = Idle]
    /\ UNCHANGED <<inv, onceOff, last, credits>>

-----------------------------------------------------------------------------
(* Manual drafts *)

(* createManualDraftInvoice seeding from the sources: previewSourceLines   *)
(* runs in a transaction of its own and drops the commission's outcome.    *)
SeedPreview(s, p) ==
    /\ session[s].pc = "idle"
    /\ \E c \in Outcomes :
           session' = [session EXCEPT ![s] =
               [Idle EXCEPT !.pc = "previewed", !.period = p, !.commission = c,
                            !.seen = SourceLines(c, UnbilledIn(p))]]
    /\ UNCHANGED <<inv, onceOff, last, credits>>

(* ... then a second transaction checks the period and reads the once-offs *)
(* again.                                                                  *)
SeedRead(s) ==
    /\ session[s].pc = "previewed"
    /\ ~PeriodTaken(session[s].period)
    /\ session' = [session EXCEPT ![s].pc = "creating",
                                  ![s].link = UnbilledIn(session[s].period)]
    /\ UNCHANGED <<inv, onceOff, last, credits>>

(* The same with typed lines; "seed" may be ticked as well, and then the   *)
(* period's once-offs are linked although the lines are the typed ones.    *)
TypedRead(s, p, seed) ==
    /\ session[s].pc = "idle"
    /\ ~PeriodTaken(p)
    /\ session' = [session EXCEPT ![s] =
           [Idle EXCEPT !.pc = "creating", !.period = p, !.seen = {"custom"},
                        !.link = IF seed THEN UnbilledIn(p) ELSE {}]]
    /\ UNCHANGED <<inv, onceOff, last, credits>>

CreateManual(s) ==
    /\ session[s].pc = "creating"
    /\ RowsFree(s, session[s].link)
    /\ \E i \in InvoiceIds :
           /\ inv[i].status = "unused"
           /\ inv' = [inv EXCEPT ![i] =
                  NewManualDraft(session[s].period, session[s].commission,
                                 session[s].seen)]
           /\ onceOff' = Link(session[s].link, i)
    /\ session' = [session EXCEPT ![s] = Idle]
    /\ UNCHANGED <<last, credits>>

(* updateManualDraftLines leaves the approval columns as they are. *)
WithLines(rec, lines) ==
    [rec EXCEPT !.lines = lines, !.reviewed = @ /\ rec.lines = lines]

(* The operator adds a typed line or replaces them all. *)
UpdateManualLines(i) ==
    /\ ~Locked(i)
    /\ inv[i].status = "draft"
    /\ inv[i].source = "manual"
    /\ \E kept \in {{}, inv[i].lines} :
           inv' = [inv EXCEPT ![i] = WithLines(inv[i], kept \cup {"custom"})]
    /\ UNCHANGED <<onceOff, last, credits, session>>

(* addExpenseToManualDraft: the draft's lines are read first, *)
ExpenseRead(s, i, a) ==
    /\ session[s].pc = "idle"
    /\ inv[i].status = "draft"
    /\ inv[i].source = "manual"
    /\ onceOff[a].state = "absent"
    /\ onceOff' = [onceOff EXCEPT ![a].state = "active"]
    /\ session' = [session EXCEPT ![s] =
           [Idle EXCEPT !.pc = "listing", !.seen = inv[i].lines,
                        !.draft = i, !.item = a]]
    /\ UNCHANGED <<inv, last, credits>>

(* then, after addAddon and its rebuilds, the lines read are written back  *)
(* with the expense appended,                                              *)
ExpenseAppend(s) ==
    LET i == session[s].draft IN
    /\ session[s].pc = "append"
    /\ ~Locked(i)
    /\ inv[i].status = "draft"
    /\ inv[i].source = "manual"
    /\ inv' = [inv EXCEPT ![i] =
           WithLines(inv[i], session[s].seen \cup {session[s].item})]
    /\ session' = [session EXCEPT ![s].pc = "link"]
    /\ UNCHANGED <<onceOff, last, credits>>

(* and the once-off is marked billed if nobody has done so; the foreign    *)
(* key refuses a draft that was deleted meanwhile.                         *)
ExpenseLink(s) ==
    /\ session[s].pc = "link"
    /\ inv[session[s].draft].status # "deleted"
    /\ onceOff' = IF onceOff[session[s].item].billed = None
                  THEN Link({session[s].item}, session[s].draft) ELSE onceOff
    /\ session' = [session EXCEPT ![s] = Idle]
    /\ UNCHANGED <<inv, last, credits>>

-----------------------------------------------------------------------------
(* The review gate *)

(* approveDraft refuses a flagged draft; an approved one is left alone. *)
ApprovableFlagged(rec) == rec.status = "draft" /\ ~rec.approved
Approvable(rec) == rec.status = "draft" /\ ~rec.flagged /\ ~rec.approved

ApproveDraft(i) ==
    /\ ~Locked(i)
    /\ Approvable(inv[i])
    /\ inv' = [inv EXCEPT ![i].approved = TRUE, ![i].reviewed = TRUE]
    /\ UNCHANGED <<onceOff, last, credits, session>>

UnapproveDraft(i) ==
    /\ ~Locked(i)
    /\ inv[i].status = "draft"
    /\ inv' = [inv EXCEPT ![i].approved = FALSE, ![i].reviewed = FALSE]
    /\ UNCHANGED <<onceOff, last, credits, session>>

(* waiveCommissionForDraft clears the flag and the commission columns; the *)
(* lines and the total stay.                                               *)
WaiveCommission(i) ==
    /\ ~Locked(i)
    /\ inv[i].status = "draft"
    /\ inv' = [inv EXCEPT ![i].flagged = FALSE, ![i].commission = "waived"]
    /\ UNCHANGED <<onceOff, last, credits, session>>

-----------------------------------------------------------------------------
(* Issued invoices *)

(* allocateSequenceNumber, under the lock of the sequence row. *)
NumberBefore(key, y) == [year |-> y, seq |-> last[key][y] - 1]
NumberNotAdvanced(key, y) == [year |-> y, seq |-> last[key][y]]
NumberOfOtherKey(key, y) == [year |-> y, seq |-> last["invoice"][y] + 1]
NextNumber(key, y) == [year |-> y, seq |-> last[key][y] + 1]

(* issueInvoice: the review gate and its transaction. *)
Issuable(rec) ==
    /\ rec.status = "draft"
    /\ CanTransition(rec.status, "issued")
    /\ ~rec.flagged
    /\ rec.approved

IssueInvoice(i, y) ==
    /\ ~Locked(i)
    /\ Issuable(inv[i])
    /\ inv' = [inv EXCEPT ![i].status = "issued",
                          ![i].number = NextNumber("invoice", y)]
    /\ last' = [last EXCEPT !["invoice"][y] = @ + 1]
    /\ UNCHANGED <<onceOff, credits, session>>

(* transitionInvoiceStatus, for paid, overdue and void. *)
VoidFreesNumber(i, to) ==
    /\ ~Locked(i)
    /\ CanTransition(inv[i].status, to)
    /\ inv' = [inv EXCEPT ![i].status = to,
                          ![i].number = IF to = "void" THEN NoNumber ELSE @]
    /\ UNCHANGED <<onceOff, last, credits, session>>
TransitionStatus(i, to) ==
    /\ ~Locked(i)
    /\ CanTransition(inv[i].status, to)
    /\ inv' = [inv EXCEPT ![i].status = to]
    /\ UNCHANGED <<onceOff, last, credits, session>>

(* The statuses issueCreditNote admits before it allocates a number. *)
CreditAdmits(status) == status \in {"issued", "paid", "overdue"}

(* issueCreditNote: if the transition is refused everything is rolled back.*)
(* The replacement draft is a GenerateRead of the same period.             *)
IssueCreditNote(i, y) ==
    /\ ~Locked(i)
    /\ CreditAdmits(inv[i].status)
    /\ inv[i].number # NoNumber
    /\ CanTransition(inv[i].status, "void")
    /\ last' = [last EXCEPT !["credit_note"][y] = @ + 1]
    /\ credits' = credits \cup {[invoice |-> i, number |-> NextNumber("credit_note", y)]}
    /\ inv' = [inv EXCEPT ![i].status = "void"]
    /\ UNCHANGED <<onceOff, session>>

-----------------------------------------------------------------------------
SessionStep(s) ==
    \/ "generate" \in Requests /\ \E p \in Periods : GenerateRead(s, p)
    \/ GenerateCommit(s)
    \/ /\ "rebuild" \in Requests \/ session[s].pc = "queued"
       /\ \E i \in InvoiceIds : RebuildBegin(s, i)
    \/ RebuildCommit(s)
    \/ "rebuild" \in Requests /\ \E a \in OnceOffs : AddOnceOff(s, a)
    \/ "rebuild" \in Requests /\ \E a \in OnceOffs : RemoveOnceOff(s, a)
    \/ ListDrafts(s)
    \/ "abort" \in Requests /\ Abort(s)
    \/ "seed" \in Requests /\ \E p \in Periods : SeedPreview(s, p)
    \/ SeedRead(s)
    \/ /\ "typed" \in Requests
       /\ \E p \in Periods, seed \in BOOLEAN : TypedRead(s, p, seed)
    \/ CreateManual(s)
    \/ /\ "expense" \in Requests
       /\ \E i \in InvoiceIds, a \in OnceOffs : ExpenseRead(s, i, a)
    \/ ExpenseAppend(s)
    \/ ExpenseLink(s)

InvoiceStep(i) ==
    \/ DeleteDraft(i)
    \/ UpdateManualLines(i)
    \/ ApproveDraft(i)
    \/ UnapproveDraft(i)
    \/ WaiveCommission(i)
    \/ \E y \in Years : IssueInvoice(i, y)
    \/ \E to \in {"paid", "overdue", "void"} : TransitionStatus(i, to)
    \/ \E y \in Years : IssueCreditNote(i, y)

Next == (\E s \in Sessions : SessionStep(s)) \/ (\E i \in InvoiceIds : InvoiceStep(i))

Spec == Init /\ [][Next]_vars

TypeOK ==
    /\ inv \in [InvoiceIds -> Invoice]
    /\ onceOff \in [OnceOffs -> [state  : {"absent", "active", "ended"},
                                 billed : InvoiceIds \cup {None}]]
    /\ last \in [{"invoice", "credit_note"} -> [Years -> Nat]]
    /\ credits \subseteq [invoice : InvoiceIds, number : Number]
    /\ session \in [Sessions -> Session]

-----------------------------------------------------------------------------
(* The numbered invoices form a register: README.md, invariants 1 and 2.   *)
Register == INSTANCE InvoiceRegister WITH
    last  <- last["invoice"],
    entry <- [i \in InvoiceIds |->
        IF inv[i].status \in Immutable
        THEN [number |-> inv[i].number, status |-> inv[i].status,
              lines |-> inv[i].lines]
        ELSE [number |-> NoNumber, status |-> "none", lines |-> {}]]

(* Whatever sessions do to drafts in the meantime, an issued invoice only  *)
(* moves along the permitted transitions: its lines and its number never   *)
(* change again, it is never deleted, and every issue takes the next       *)
(* number of its year.                                                     *)
RegisterKept == Register!Spec

(* invoice_number is gap-free and unique per year, voided invoices         *)
(* included (numbers.ts, README.md invariant 2).                           *)
NumbersGapFree == Register!GapFree

(* Credit note numbers are gap-free too, and a credit note is only ever    *)
(* left behind by the transaction that voided its invoice: a refused       *)
(* transition rolls the number and the note back (issue.ts).               *)
CreditNotesMatch ==
    /\ \A y \in Years : \A n \in 1 .. last["credit_note"][y] :
           \E c \in credits : c.number = [year |-> y, seq |-> n]
    /\ \A c \in credits : /\ inv[c.invoice].status = "void"
                          /\ c.number.seq \in 1 .. last["credit_note"][c.number.year]
    /\ \A c, d \in credits :
           c.invoice = d.invoice \/ c.number = d.number => c = d

(* The review gate: an invoice built from the sources is issued with       *)
(* exactly the lines an operator approved, although rebuilds started by    *)
(* expense edits run concurrently (approval.ts, rebuildDraftInvoice).      *)
AutoIssuedAsReviewed ==
    \A i \in InvoiceIds :
        inv[i].status \in Immutable /\ inv[i].source = "auto" =>
            inv[i].approved /\ inv[i].reviewed

(* A draft flagged for attention is never approved at the same time, in    *)
(* whatever order rebuilds, approvals and waivers arrive.                  *)
FlagExcludesApproval ==
    \A i \in InvoiceIds : inv[i].flagged => ~inv[i].approved

(* An invoice built from the sources for a commission plan charges the     *)
(* commission, or an operator waived it on the record: an unreadable       *)
(* figure is never billed as zero (SALES_DEFINITION.md).                   *)
AutoCommissionAccounted ==
    \A i \in InvoiceIds :
        inv[i].status \in Immutable /\ inv[i].source = "auto" =>
            \/ inv[i].commission \in {"flat", "waived"}
            \/ inv[i].commission = "figure" /\ "commission" \in inv[i].lines

(* A once-off marked billed is on a row that exists, and if that invoice   *)
(* was built from the sources it really charges it: no race between        *)
(* generating, rebuilding, deleting and linking loses the charge.          *)
BilledIsCharged ==
    \A a \in OnceOffs, i \in InvoiceIds : onceOff[a].billed = i =>
        /\ inv[i].status \notin {"unused", "deleted"}
        /\ inv[i].source = "auto" => a \in inv[i].lines

(* A period has at most one invoice that is not void: the check of         *)
(* generateInvoiceForTenant and createManualDraftInvoice.                  *)
OneLivePerPeriod ==
    \A i, j \in InvoiceIds :
        /\ inv[i].status \in Live /\ inv[j].status \in Live
        /\ inv[i].period = inv[j].period
        => i = j

(* No once-off is charged by two invoices built from the sources.          *)
OneAutoCharge ==
    \A a \in OnceOffs, i, j \in InvoiceIds :
        /\ {inv[i].status, inv[j].status} \subseteq Live
        /\ {inv[i].source, inv[j].source} = {"auto"}
        /\ a \in inv[i].lines \cap inv[j].lines
        => i = j

-----------------------------------------------------------------------------
(* What documents and comments say, and the code does not do *)

(* "Credit notes apply to issued/paid/overdue invoices only" (issue.ts):   *)
(* every status the guard admits can be credited.                          *)
AdmittedCanBeCredited ==
    \A i \in InvoiceIds :
        CreditAdmits(inv[i].status) => CanTransition(inv[i].status, "void")

(* "Once-off expenses appear on the next invoice only" (the tenant's       *)
(* billing tab): one live invoice charges a once-off.                      *)
OneCharge ==
    \A a \in OnceOffs, i, j \in InvoiceIds :
        /\ {inv[i].status, inv[j].status} \subseteq Live
        /\ a \in inv[i].lines \cap inv[j].lines
        => i = j

(* "Bill the base fee only and drop the commission for this period"        *)
(* (waiveCommissionForDraft).                                              *)
WaivedIsDropped ==
    \A i \in InvoiceIds :
        inv[i].status \in Immutable /\ inv[i].commission = "waived" =>
            "commission" \notin inv[i].lines

(* "An unreadable tenant never becomes a zero. The draft invoice is        *)
(* created in a needs attention state" (SALES_DEFINITION.md).              *)
UnreadableNeverIssued ==
    \A i \in InvoiceIds :
        inv[i].status \in Immutable => inv[i].commission # "unreadable"

(* "the operator must review the new numbers before this can be issued"    *)
(* (generate.ts), for every draft.                                         *)
IssuedAsReviewed ==
    \A i \in InvoiceIds :
        inv[i].status \in Immutable => inv[i].reviewed

(* "Corrections: credit note then a fresh invoice" (README.md): a once-off *)
(* of a credited invoice is free to be charged by the fresh one.           *)
CreditedIsUnbilled ==
    \A a \in OnceOffs, c \in credits : onceOff[a].billed # c.invoice

(* "Once-off not yet invoiced: end immediately so it won't hit the next    *)
(* invoice" (removeAddon).                                                 *)
EndedStaysUnbilled ==
    [][\A a \in OnceOffs :
          onceOff[a].state = "ended" /\ onceOff[a].billed = None =>
              onceOff'[a].billed = None]_vars
=============================================================================
