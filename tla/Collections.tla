----------------------------- MODULE Collections -----------------------------
(***************************************************************************)
(* From an approved draft to money or a suspension task: the issue of an   *)
(* invoice, its PDF and its e-mail (invoices/issue.ts, pdf.ts,             *)
(* delivery.ts), and the dunning ladder the daily cron climbs on invoices  *)
(* that stay unpaid (billing/dunning.ts).                                  *)
(*                                                                         *)
(* A worker is one request in flight: the cron run, or an operator's.  It  *)
(* works through a list it read when it began.  Mail and disk are not part *)
(* of any transaction, so each is a step of its own, and a worker may end  *)
(* between any two.                                                        *)
(***************************************************************************)
EXTENDS Integers, FiniteSets, FiniteSetsExt

CONSTANTS
  Bills,         \* invoices; all fall due on day 0
  CronRuns,      \* workers that run the ladder
  Desks,         \* workers that run an operator's request
  Days,          \* the days, counted from the due date, that the run visits
  MaxMishaps     \* bound on refused mails, failed renderings and crashes

ASSUME MishapsAssumption == MaxMishaps \in Nat

\* Days are integers, and there is a first one.
ASSUME DaysAssumption ==
  /\ Days \subseteq Int
  /\ \E first \in Days : \A d \in Days : first <= d

VARIABLES
  bill,          \* invoices: status, pdf_path set, sent_at set
  onDisk,        \* the invoices whose PDF is on the disk
  contact,       \* the invoices whose tenant has a contact with the role billing: one made
                 \* in the console has, a provisioned one has not and never gets one
  receiver,      \* and those whose tenant has one that receives invoices
  offboarded,    \* and those whose tenant was offboarded
  reminded,      \* dunning_reminders: the stages logged for each invoice
  openTasks,     \* open operator_tasks for each invoice
  today,
  worker,
  mailed,        \* history: the invoices the mail service accepted an e-mail of
  reminders,     \* history: reminders it accepted, by stage
  asked,         \* history: the invoices a suspension task was made for
  mishaps

tenants == <<contact, receiver, offboarded>>
collectionsVars == <<bill, onDisk, tenants, reminded, openTasks, today, worker,
                     mailed, reminders, asked, mishaps>>

BillStatuses == {"draft", "issued", "overdue", "paid", "void"}
Unpaid == {"issued", "overdue"}

\* The stages overdue, plus_7, plus_14, plus_21 and the day each begins.
Ladder == 1 .. 4
Begins == <<0, 7, 14, 21>>
TaskStage == 4

Workers == CronRuns \cup Desks
NoBill == "none"

Places == {"idle", "next", "issue", "render", "path", "load", "mail", "stamp",
           "unlink", "rewrite", "repath",
           "mark", "check", "remind", "log", "seekTask", "makeTask"}

WorkerRecord ==
  [at : Places,
   todo : SUBSET Bills,          \* still to be done of the list it read
   bill : Bills \cup {NoBill},
   stage : Ladder, day : Days,
   issuedThen : SUBSET Bills]    \* those the list showed as issued

Resting == [at |-> "idle", todo |-> {}, bill |-> NoBill, stage |-> 1,
            day |-> Min(Days), issuedThen |-> {}]

CollectionsTypeOK ==
  /\ bill \in [Bills -> [status : BillStatuses, path : BOOLEAN, sent : BOOLEAN]]
  /\ onDisk \subseteq Bills
  /\ contact \subseteq Bills
  /\ receiver \subseteq Bills
  /\ offboarded \subseteq Bills
  /\ reminded \in [Bills -> SUBSET Ladder]
  /\ openTasks \in [Bills -> Nat]
  /\ today \in Days
  /\ worker \in [Workers -> WorkerRecord]
  /\ mailed \subseteq Bills
  /\ reminders \in [Bills -> [Ladder -> Nat]]
  /\ asked \subseteq Bills
  /\ mishaps \in 0 .. MaxMishaps

CollectionsInit ==
  /\ bill = [i \in Bills |-> [status |-> "draft", path |-> FALSE, sent |-> FALSE]]
  /\ onDisk = {}
  /\ contact \in SUBSET Bills
  /\ receiver \in SUBSET Bills
  /\ offboarded = {}
  /\ reminded = [i \in Bills |-> {}]
  /\ openTasks = [i \in Bills |-> 0]
  /\ today = Min(Days)
  /\ worker = [w \in Workers |-> Resting]
  /\ mailed = {}
  /\ reminders = [i \in Bills |-> [k \in Ladder |-> 0]]
  /\ asked = {}
  /\ mishaps = 0

-----------------------------------------------------------------------------
(* The worker's place.                                                     *)

At(w, place) == worker[w].at = place
Bill(w) == worker[w].bill
GoTo(w, place) == worker' = [worker EXCEPT ![w].at = place]
Rest(w) == worker' = [worker EXCEPT ![w] = Resting]

\* The loop goes on with another of the list, or the request ends.  An error
\* on one invoice is collected and leaves the rest of the list to be done.
NextBill(w) ==
  worker' = [worker EXCEPT ![w] =
    IF @.todo = {} THEN Resting ELSE [@ EXCEPT !.at = "next", !.bill = NoBill]]

Mishap == mishaps < MaxMishaps /\ mishaps' = mishaps + 1

OnlyWorker == UNCHANGED <<bill, onDisk, tenants, reminded, openTasks, today,
                          mailed, reminders, asked>>

-----------------------------------------------------------------------------
(* Issue and delivery.                                                     *)

\* issuePeriodDraftsAction: the approved drafts of a period, in one loop;
\* issueOneAction is the same with a list of one.
BeginIssue(d, list) ==
  /\ At(d, "idle")
  /\ list # {}
  /\ \A i \in list : bill[i].status = "draft"
  /\ worker' = [worker EXCEPT ![d] = [Resting EXCEPT !.at = "next", !.todo = list]]
  /\ OnlyWorker /\ UNCHANGED mishaps

\* The next of the list; a desk issues it, the cron run climbs its ladder.
TakeNext(w) ==
  /\ At(w, "next")
  /\ \E i \in worker[w].todo :
       worker' = [worker EXCEPT ![w] =
         [@ EXCEPT !.todo = worker[w].todo \ {i}, !.bill = i, !.stage = 1,
                   !.at = IF w \in CronRuns THEN "mark" ELSE "issue"]]
  /\ OnlyWorker /\ UNCHANGED mishaps

\* The transaction of issueInvoice; a draft someone else has issued or deleted
\* meanwhile is refused.
Issue(d) ==
  /\ At(d, "issue")
  /\ \/ /\ bill[Bill(d)].status = "draft"
        /\ bill' = [bill EXCEPT ![Bill(d)].status = "issued"]
        /\ GoTo(d, "render")
     \/ /\ bill[Bill(d)].status # "draft"
        /\ NextBill(d)
        /\ UNCHANGED bill
  /\ UNCHANGED <<onDisk, tenants, reminded, openTasks, today, mailed, reminders,
                 asked, mishaps>>

\* renderInvoicePdf writes the file unless there is one: a legal record is not
\* made twice.
Render(d) ==
  /\ At(d, "render")
  /\ IF Bill(d) \in onDisk
     THEN NextBill(d) /\ UNCHANGED onDisk
     ELSE GoTo(d, "path") /\ onDisk' = onDisk \cup {Bill(d)}
  /\ UNCHANGED <<bill, tenants, reminded, openTasks, today, mailed, reminders,
                 asked, mishaps>>

RenderFails(d) ==
  /\ At(d, "render")
  /\ Mishap
  /\ NextBill(d)
  /\ OnlyWorker

\* UPDATE ... WHERE pdf_path IS NULL
RecordPath(d) ==
  /\ At(d, "path")
  /\ bill' = [bill EXCEPT ![Bill(d)].path = TRUE]
  /\ GoTo(d, "load")
  /\ UNCHANGED <<onDisk, tenants, reminded, openTasks, today, mailed, reminders,
                 asked, mishaps>>

\* resendInvoiceEmailAction, resendUnsentAction
BeginResend(d, i) ==
  /\ At(d, "idle")
  /\ worker' = [worker EXCEPT ![d] = [Resting EXCEPT !.at = "load", !.bill = i]]
  /\ OnlyWorker /\ UNCHANGED mishaps

\* What sendInvoiceEmail asks of an invoice, its tenant and the disk.
Mailable(i) ==
  /\ bill[i].status \in Unpaid
  /\ bill[i].path
  /\ i \in receiver \cup contact
  /\ i \in onDisk

LoadMail(d) ==
  /\ At(d, "load")
  /\ IF Mailable(Bill(d)) THEN GoTo(d, "mail") ELSE NextBill(d)
  /\ OnlyWorker /\ UNCHANGED mishaps

\* The mail service accepts the invoice's e-mail.
MailInvoice(d) ==
  /\ At(d, "mail")
  /\ mailed' = mailed \cup {Bill(d)}
  /\ GoTo(d, "stamp")
  /\ UNCHANGED <<bill, onDisk, tenants, reminded, openTasks, today, reminders,
                 asked, mishaps>>

\* It refuses: the invoice stays issued with sent_at NULL.
MailRefused(d) ==
  /\ At(d, "mail")
  /\ Mishap
  /\ NextBill(d)
  /\ OnlyWorker

StampSent(d) ==
  /\ At(d, "stamp")
  /\ bill' = [bill EXCEPT ![Bill(d)].sent = TRUE]
  /\ NextBill(d)
  /\ UNCHANGED <<onDisk, tenants, reminded, openTasks, today, mailed, reminders,
                 asked, mishaps>>

\* rewriteIssuedInvoicePdf: the old file is unlinked before the new one is
\* written.
BeginRewrite(d, i) ==
  /\ At(d, "idle")
  /\ bill[i].status \in {"issued", "overdue", "paid"}
  /\ worker' = [worker EXCEPT ![d] = [Resting EXCEPT !.at = "unlink", !.bill = i]]
  /\ OnlyWorker /\ UNCHANGED mishaps

Unlink(d) ==
  /\ At(d, "unlink")
  /\ onDisk' = onDisk \ {Bill(d)}
  /\ GoTo(d, "rewrite")
  /\ UNCHANGED <<bill, tenants, reminded, openTasks, today, mailed, reminders,
                 asked, mishaps>>

Rewrite(d) ==
  /\ At(d, "rewrite")
  /\ onDisk' = onDisk \cup {Bill(d)}
  /\ GoTo(d, "repath")
  /\ UNCHANGED <<bill, tenants, reminded, openTasks, today, mailed, reminders,
                 asked, mishaps>>

\* RESEND=1 sends it once more.
Repath(d) ==
  /\ At(d, "repath")
  /\ bill' = [bill EXCEPT ![Bill(d)].path = TRUE]
  /\ (GoTo(d, "load") \/ Rest(d))
  /\ UNCHANGED <<onDisk, tenants, reminded, openTasks, today, mailed, reminders,
                 asked, mishaps>>

-----------------------------------------------------------------------------
(* The dunning ladder.                                                     *)

\* The list of runDunningLadder: unpaid invoices of tenants that are active or
\* suspended, as they are when it begins; those not yet due are passed over.
BeginLadder(c) ==
  /\ At(c, "idle")
  /\ today >= Begins[1]
  /\ LET list == {i \in Bills \ offboarded : bill[i].status \in Unpaid} IN
       /\ list # {}
       /\ worker' = [worker EXCEPT ![c] =
            [Resting EXCEPT !.at = "next", !.todo = list, !.day = today,
               !.issuedThen = {i \in list : bill[i].status = "issued"}]]
  /\ OnlyWorker /\ UNCHANGED mishaps

\* UPDATE ... SET status = 'overdue' WHERE status = 'issued', for an invoice
\* the list showed as issued.
MarkOverdueUnchecked(c) ==
  /\ At(c, "mark")
  /\ bill' = IF Bill(c) \in worker[c].issuedThen
             THEN [bill EXCEPT ![Bill(c)].status = "overdue"] ELSE bill
  /\ GoTo(c, "check")
  /\ UNCHANGED <<onDisk, tenants, reminded, openTasks, today, mailed, reminders,
                 asked, mishaps>>
MarkOverdue(c) ==
  /\ At(c, "mark")
  /\ bill' = IF /\ Bill(c) \in worker[c].issuedThen
                /\ bill[Bill(c)].status = "issued"
             THEN [bill EXCEPT ![Bill(c)].status = "overdue"] ELSE bill
  /\ GoTo(c, "check")
  /\ UNCHANGED <<onDisk, tenants, reminded, openTasks, today, mailed, reminders,
                 asked, mishaps>>

ClimbLate(c) ==
  LET k == worker[c].stage IN
  IF k < TaskStage /\ worker[c].day > Begins[k + 1]
  THEN worker' = [worker EXCEPT ![c].at = "check", ![c].stage = k + 1]
  ELSE NextBill(c)

\* The stage is done: on to the next one if the run's day has reached it.
Climb(c) ==
  LET k == worker[c].stage IN
  IF k < TaskStage /\ worker[c].day >= Begins[k + 1]
  THEN worker' = [worker EXCEPT ![c].at = "check", ![c].stage = k + 1]
  ELSE NextBill(c)

\* alreadySent; a reminder of a tenant without a billing contact throws, and the
\* rest of the invoice's ladder with it, whoever receives the invoices.
CheckStage(c) ==
  /\ At(c, "check")
  /\ CASE worker[c].stage \in reminded[Bill(c)] -> Climb(c)
       [] worker[c].stage \notin reminded[Bill(c)] /\ worker[c].stage = TaskStage ->
            GoTo(c, "seekTask")
       [] OTHER -> IF Bill(c) \in contact
                   THEN GoTo(c, "remind") ELSE NextBill(c)
  /\ OnlyWorker /\ UNCHANGED mishaps

Remind(c) ==
  /\ At(c, "remind")
  /\ reminders' = [reminders EXCEPT ![Bill(c)][worker[c].stage] = @ + 1]
  /\ GoTo(c, "log")
  /\ UNCHANGED <<bill, onDisk, tenants, reminded, openTasks, today, mailed,
                 asked, mishaps>>

RefusedButClimbed(c) ==
  /\ At(c, "remind")
  /\ Mishap
  /\ Climb(c)
  /\ OnlyWorker
ReminderRefused(c) ==
  /\ At(c, "remind")
  /\ Mishap
  /\ NextBill(c)
  /\ OnlyWorker

\* logReminder: the pair of invoice and stage is unique.
NotLogged(c) ==
  /\ At(c, "log")
  /\ Climb(c)
  /\ OnlyWorker /\ UNCHANGED mishaps
LogReminder(c) ==
  /\ At(c, "log")
  /\ IF worker[c].stage \in reminded[Bill(c)]
     THEN NextBill(c) /\ UNCHANGED reminded
     ELSE /\ reminded' = [reminded EXCEPT ![Bill(c)] = @ \cup {worker[c].stage}]
          /\ Climb(c)
  /\ UNCHANGED <<bill, onDisk, tenants, openTasks, today, mailed, reminders,
                 asked, mishaps>>

\* createSuspensionTask: an open task is looked for, then one is made.
SeekTask(c) ==
  /\ At(c, "seekTask")
  /\ GoTo(c, IF openTasks[Bill(c)] > 0 THEN "log" ELSE "makeTask")
  /\ OnlyWorker /\ UNCHANGED mishaps

MakeTask(c) ==
  /\ At(c, "makeTask")
  /\ openTasks' = [openTasks EXCEPT ![Bill(c)] = @ + 1]
  /\ asked' = asked \cup {Bill(c)}
  /\ GoTo(c, "log")
  /\ UNCHANGED <<bill, onDisk, tenants, reminded, today, mailed, reminders,
                 mishaps>>

-----------------------------------------------------------------------------
(* Everything else that touches these rows, and time.                      *)

\* A payment covers it, the operator marks or voids it, a credit note voids it.
Settle(i, to) ==
  /\ bill[i].status \in Unpaid
  /\ to = "overdue" => bill[i].status = "issued"
  /\ bill' = [bill EXCEPT ![i].status = to]
  /\ UNCHANGED <<onDisk, tenants, reminded, openTasks, today, worker, mailed,
                 reminders, asked, mishaps>>

\* updateTenantContact, addTenantContact: neither gives a contact the role.
ReceiveInvoices(i) ==
  /\ receiver' = IF i \in receiver THEN receiver \ {i} ELSE receiver \cup {i}
  /\ UNCHANGED <<bill, onDisk, contact, offboarded, reminded, openTasks, today,
                 worker, mailed, reminders, asked, mishaps>>

\* offboardTenant: for good, whatever the tenant still owes.
Offboard(i) ==
  /\ i \notin offboarded
  /\ offboarded' = offboarded \cup {i}
  /\ UNCHANGED <<bill, onDisk, contact, receiver, reminded, openTasks, today,
                 worker, mailed, reminders, asked, mishaps>>

\* resolveTaskAction, confirmSuspensionFromTaskAction
ResolveTask(i) ==
  /\ openTasks[i] > 0
  /\ openTasks' = [openTasks EXCEPT ![i] = @ - 1]
  /\ UNCHANGED <<bill, onDisk, tenants, reminded, today, worker, mailed,
                 reminders, asked, mishaps>>

NextDay ==
  /\ \E d \in Days : d > today
  /\ today' = Min({d \in Days : d > today})
  /\ UNCHANGED <<bill, onDisk, tenants, reminded, openTasks, worker, mailed,
                 reminders, asked, mishaps>>

\* The process ends, or a statement fails, between two steps.
Dies(w) ==
  /\ ~At(w, "idle")
  /\ Mishap
  /\ Rest(w)
  /\ OnlyWorker

-----------------------------------------------------------------------------
DeskStep(d) ==
  \/ TakeNext(d) \/ Issue(d) \/ Render(d) \/ RecordPath(d)
  \/ LoadMail(d) \/ MailInvoice(d) \/ StampSent(d)
  \/ Unlink(d) \/ Rewrite(d) \/ Repath(d)

LadderStep(c) ==
  \/ TakeNext(c) \/ MarkOverdue(c) \/ CheckStage(c) \/ Remind(c)
  \/ LogReminder(c) \/ SeekTask(c) \/ MakeTask(c)

CollectionsNext ==
  \/ \E d \in Desks :
       \/ DeskStep(d) \/ RenderFails(d) \/ MailRefused(d)
       \/ \E list \in SUBSET Bills : BeginIssue(d, list)
       \/ \E i \in Bills : BeginResend(d, i) \/ BeginRewrite(d, i)
  \/ \E c \in CronRuns : LadderStep(c) \/ ReminderRefused(c) \/ BeginLadder(c)
  \/ \E w \in Workers : Dies(w)
  \/ \E i \in Bills :
       \/ ReceiveInvoices(i) \/ Offboard(i) \/ ResolveTask(i)
       \/ \E to \in {"overdue", "paid", "void"} : Settle(i, to)
  \/ NextDay

CollectionsSpec == CollectionsInit /\ [][CollectionsNext]_collectionsVars

\* A run that has begun goes on, the cron calls again, days pass; nobody has to
\* issue, pay, resend or resolve anything, and mishaps are finitely many.
CollectionsFair ==
  /\ \A c \in CronRuns : /\ WF_collectionsVars(LadderStep(c))
                         /\ WF_collectionsVars(BeginLadder(c))
  /\ WF_collectionsVars(NextDay)

-----------------------------------------------------------------------------
(* Properties.                                                             *)

\* The operator is asked to confirm a suspension only for an invoice whose
\* three reminders the mail service accepted: no refused mail, crash or lost
\* log row lets a run skip a rung.
TaskAfterReminders ==
  \A i \in asked : \A k \in Ladder \ {TaskStage} : reminders[i][k] > 0

\* A run works on a list it read earlier, and does not take an invoice that was
\* paid or voided since back to overdue.
SettledStaysSettled ==
  [][\A i \in Bills : bill[i].status \in {"paid", "void"}
                        => bill'[i].status = bill[i].status]_collectionsVars

\* With one ladder at a time, a stage is mailed once, and once more only for a
\* mishap between the mail and its log row.
RemindersBounded ==
  \A i \in Bills : \A k \in Ladder : reminders[i][k] <= 1 + mishaps

\* An invoice that stays unpaid, of a tenant with a billing contact, comes to
\* the operator as a suspension task, unless the tenant is offboarded first.
UnpaidIsEscalated ==
  \A i \in Bills : bill[i].status \in Unpaid /\ i \in contact
                     ~> \/ i \in asked
                        \/ bill[i].status \notin Unpaid
                        \/ i \in offboarded

\* Refuted: a tenant that was provisioned has no billing contact, no operation of
\* the console gives it one, and its unpaid invoices are never escalated.
EveryUnpaidIsEscalated ==
  \A i \in Bills : bill[i].status \in Unpaid
                     ~> i \in asked \/ bill[i].status \notin Unpaid \/ i \in offboarded

\* Refuted: the ladder's list leaves out the tenants that were offboarded, and
\* what they owe is never escalated.
DebtsOutliveTenants ==
  \A i \in Bills : bill[i].status \in Unpaid /\ i \in contact
                     ~> i \in asked \/ bill[i].status \notin Unpaid

\* What the dashboard lists (listUnsentInvoices).
UnsentList == {i \in Bills : bill[i].status \in Unpaid /\ bill[i].path /\ ~bill[i].sent}

\* "loudly unsent on dashboard" (issue.ts, sendInvoiceEmail): an unpaid invoice
\* that nobody is working on and that never was mailed is listed.
UnsentIsListed ==
  \A i \in Bills :
    /\ bill[i].status \in Unpaid /\ i \notin mailed
    /\ \A w \in Workers : worker[w].bill # i
    => i \in UnsentList

\* An issued invoice has its file, unless a request is at work on it.
PathHasFile ==
  \A i \in Bills : bill[i].path /\ (\A w \in Workers : worker[w].bill # i)
                     => i \in onDisk

\* Nobody is reminded of an invoice that is settled.
RemindedIsUnpaid ==
  [][\A i \in Bills : reminders'[i] # reminders[i] => bill[i].status \in Unpaid]_collectionsVars
=============================================================================
