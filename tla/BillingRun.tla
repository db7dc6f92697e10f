----------------------------- MODULE BillingRun -----------------------------
(***************************************************************************)
(* The billing run of one period: the sales figure each commission is      *)
(* taken from (sales/gross-sales.ts, snapshot.ts), and the loops of the    *)
(* billing page over all tenants (billing/actions.ts), each working        *)
(* through a list it read when it began.                                   *)
(*                                                                         *)
(* What happens to one draft is Invoicing's subject.  Here a tenant has at *)
(* most one invoice for the period, the one previewBillingRun shows, and   *)
(* is on a plan with commission.                                           *)
(***************************************************************************)
EXTENDS Integers, FiniteSets

CONSTANTS
  Clients,        \* tenants on a commission plan
  BillingDesks,   \* the operators' requests
  Snapshots,      \* the monthly cron job's
  OneAtATime,     \* whether a request begins only when no other is under way
  MaxSnags        \* bound on requests that die and rows that are not stored

ASSUME SnagsAssumption == MaxSnags \in Nat
VARIABLES
  monthClosed,    \* the month the commission is on has ended
  shopUp,         \* the tenants whose deployment answers
  nightsFull,     \* analytics_daily has every day of the month
  figure,         \* tenant_sales_monthly
  slot,           \* the invoice of the period
  page,           \* the billing page each desk has in front of it
  request,
  typed,          \* history: a figure was entered by hand after the month's end
  snags

billingRunVars ==
  <<monthClosed, shopUp, nightsFull, figure, slot, page, request, typed, snags>>

\* What a figure can be: the sales up to some day of the month, those of the
\* whole month, the nightly figures added up, what an operator enters.
Figures == {"partial", "whole", "nightly", "entered"}
NoFigure == "none"
Sources == {"none", "unavailable", "fleet", "warehouse", "manual"}

SlotRecord == [status : {"none", "draft", "issued"}, basis : Figures \cup {NoFigure},
               flagged : BOOLEAN, approved : BOOLEAN, waived : BOOLEAN]
NoInvoice == [status |-> "none", basis |-> NoFigure, flagged |-> FALSE,
              approved |-> FALSE, waived |-> FALSE]

Requests == BillingDesks \cup Snapshots
NoClient == "nobody"
RequestRecord ==
  [kind : {"none", "refresh", "generate", "approve", "issue", "manual", "rebuild",
           "snapshot"},
   at : {"idle", "pick", "cached", "fetch", "record", "resolve", "commit",
         "approve", "issue", "enter"},
   todo : SUBSET Clients, client : Clients \cup {NoClient},
   drafts : SUBSET Clients,               \* those the preview showed a draft for
   forDraft : BOOLEAN,                    \* the figure is read for a draft
   held : Figures \cup {NoFigure},        \* what cachedFigure returned
   read : Figures \cup {NoFigure}]
Quiet == [kind |-> "none", at |-> "idle", todo |-> {}, client |-> NoClient,
          drafts |-> {}, forDraft |-> FALSE, held |-> NoFigure, read |-> NoFigure]

BillingRunTypeOK ==
  /\ monthClosed \in BOOLEAN
  /\ shopUp \subseteq Clients
  /\ nightsFull \subseteq Clients
  /\ figure \in [Clients -> [ok : BOOLEAN, gross : Figures \cup {NoFigure}, source : Sources]]
  /\ \A c \in Clients : figure[c].ok <=> figure[c].gross # NoFigure
  /\ slot \in [Clients -> SlotRecord]
  /\ page \in [BillingDesks -> [Clients -> SlotRecord]]
  /\ request \in [Requests -> RequestRecord]
  /\ typed \subseteq Clients
  /\ snags \in 0 .. MaxSnags

BillingRunInit ==
  /\ monthClosed = FALSE
  /\ shopUp = Clients
  /\ nightsFull = {}
  /\ figure = [c \in Clients |-> [ok |-> FALSE, gross |-> NoFigure, source |-> "none"]]
  /\ slot = [c \in Clients |-> NoInvoice]
  /\ page = [d \in BillingDesks |-> slot]
  /\ request = [r \in Requests |-> Quiet]
  /\ typed = {}
  /\ snags = 0

-----------------------------------------------------------------------------
Is(r, place) == request[r].at = place
Client(r) == request[r].client
Goes(r, place) == request' = [request EXCEPT ![r].at = place]

\* The next of the list; an error on one tenant leaves the rest to be done.
NextClient(r) ==
  request' = [request EXCEPT ![r] =
    IF @.todo = {} THEN Quiet
    ELSE [Quiet EXCEPT !.kind = request[r].kind, !.at = "pick",
                       !.todo = request[r].todo, !.drafts = request[r].drafts]]

OnlyRequest ==
  UNCHANGED <<monthClosed, shopUp, nightsFull, figure, slot, page, typed, snags>>

MayBegin(r) ==
  /\ Is(r, "idle")
  /\ OneAtATime => \A q \in Requests : Is(q, "idle")

Begin(r, kind, list) ==
  /\ MayBegin(r)
  /\ list # {}
  /\ request' = [request EXCEPT ![r] =
       [Quiet EXCEPT !.kind = kind, !.at = "pick", !.todo = list,
                     !.drafts = {c \in Clients : slot[c].status = "draft"}]]
  /\ OnlyRequest

\* The page is always of the coming period, whose sales month is the one that
\* still runs: once it has ended, only a page loaded before shows this period.
\* Each button is there for what the page shows; the action reads the drafts
\* again.
LoadPage(d) ==
  /\ ~monthClosed
  /\ page[d] # slot
  /\ page' = [page EXCEPT ![d] = slot]
  /\ UNCHANGED <<monthClosed, shopUp, nightsFull, figure, slot, request, typed, snags>>

Clean(s) == s.status = "draft" /\ ~s.flagged
Awaiting(s) == Clean(s) /\ ~s.approved
Cleared(s) == Clean(s) /\ s.approved

\* Which buttons the page has: the sections of BillingRunClient, its panel of
\* flagged drafts and the buttons of a row.
ListsUndrafted(d) == \E c \in Clients : page[d][c].status = "none"
ListsAwaiting(d) == \E c \in Clients : Awaiting(page[d][c])
ListsApproved(d) == \E c \in Clients : Cleared(page[d][c])
PanelLists(d, c) == page[d][c].status = "draft" /\ page[d][c].flagged

BeginRefresh(d) == Begin(d, "refresh", Clients)
\* runMonthlySalesSnapshot and runGraduationCheck read months that have ended.
BeginSnapshot(r) == monthClosed /\ Begin(r, "snapshot", Clients)
BeginGenerate(d) ==
  /\ ListsUndrafted(d)
  /\ \A q \in Requests : request[q].kind # "generate"     \* two are Invoicing's subject
  /\ Begin(d, "generate", {c \in Clients : slot[c].status = "none"})
BeginApprove(d) ==
  /\ ListsAwaiting(d)
  /\ Begin(d, "approve", {c \in Clients : Awaiting(slot[c])})
BeginIssueAll(d) ==
  /\ ListsApproved(d)
  /\ Begin(d, "issue", {c \in Clients : Cleared(slot[c])})

\* setManualSalesFigure, whose form is there for a draft that needs attention.
BeginManual(d, c) ==
  /\ MayBegin(d)
  /\ PanelLists(d, c)
  /\ slot[c].status = "draft"
  /\ request' = [request EXCEPT ![d] = [Quiet EXCEPT !.kind = "manual", !.at = "enter",
                                                     !.client = c]]
  /\ OnlyRequest

\* rebuildTenantDraftInvoices, after an edit of the tenant's price or add-ons.
BeginRebuild(d, c) ==
  /\ MayBegin(d)
  /\ slot[c].status = "draft"
  /\ request' = [request EXCEPT ![d] = [Quiet EXCEPT !.kind = "rebuild", !.at = "resolve",
                                                     !.client = c]]
  /\ OnlyRequest

Pick(r) ==
  /\ Is(r, "pick")
  /\ \E c \in request[r].todo :
       request' = [request EXCEPT ![r] =
         [request[r] EXCEPT !.todo = @ \ {c}, !.client = c,
                   !.at = CASE request[r].kind \in {"refresh", "snapshot"} -> "cached"
                            [] request[r].kind = "generate" -> "resolve"
                            [] OTHER -> request[r].kind]]
  /\ OnlyRequest

-----------------------------------------------------------------------------
(* The sales figure (getTenantGrossSales).                                 *)

\* Where a request goes on once it has the figure: a refresh rebuilds the draft
\* of the tenant, for which the figure is resolved again.
HasRead(r, gross) ==
  IF request[r].forDraft
  THEN request' = [request EXCEPT ![r].at = "commit", ![r].read = gross]
  ELSE IF request[r].kind = "refresh" /\ Client(r) \in request[r].drafts
       THEN request' = [request EXCEPT ![r].at = "resolve", ![r].held = NoFigure]
       ELSE NextClient(r)

\* resolveCommissionForPeriod: a month that has not ended has no commission yet.
Resolve(r) ==
  /\ Is(r, "resolve")
  /\ request' = [request EXCEPT ![r] =
       [@ EXCEPT !.forDraft = TRUE, !.read = NoFigure,
                 !.at = IF monthClosed THEN "cached" ELSE "commit"]]
  /\ OnlyRequest

\* Of a closed month, the figure on record: one entered by hand is the answer,
\* any other is held for the case that the tenant cannot be reached.
ManualNotPreferred(r) ==
  /\ Is(r, "cached")
  /\ request' = [request EXCEPT ![r].at = "fetch",
       ![r].held = IF monthClosed /\ figure[Client(r)].ok
                   THEN figure[Client(r)].gross ELSE NoFigure]
  /\ OnlyRequest
CachedFigure(r) ==
  LET row == figure[Client(r)]
      usable == monthClosed /\ row.ok IN
  /\ Is(r, "cached")
  /\ IF usable /\ row.source = "manual"
     THEN HasRead(r, row.gross)
     ELSE request' = [request EXCEPT ![r].at = "fetch",
                        ![r].held = IF usable THEN row.gross ELSE NoFigure]
  /\ OnlyRequest

\* The deployment answers for the month as far as it has gone.
FetchSales(r) ==
  /\ Is(r, "fetch")
  /\ Client(r) \in shopUp
  /\ request' = [request EXCEPT ![r].at = "record",
                   ![r].read = IF monthClosed THEN "whole" ELSE "partial"]
  /\ OnlyRequest

\* It does not: the figure held, else the nightly ones, else none.
FetchFails(r) ==
  /\ Is(r, "fetch")
  /\ Client(r) \notin shopUp
  /\ IF request[r].held # NoFigure
     THEN HasRead(r, request[r].held)
     ELSE request' = [request EXCEPT ![r].at = "record",
            ![r].read = IF Client(r) \in nightsFull THEN "nightly" ELSE NoFigure]
  /\ OnlyRequest

\* recordSalesFigure: a failed read leaves the figure that is there.
UnreadableRecorded(row, gross) ==
  [ok |-> TRUE, gross |-> gross, source |-> IF gross = "nightly" THEN "warehouse" ELSE "fleet"]
Recorded(row, gross) ==
  IF gross # NoFigure
  THEN [ok |-> TRUE, gross |-> gross,
        source |-> IF gross = "nightly" THEN "warehouse" ELSE "fleet"]
  ELSE IF row.ok THEN row
       ELSE [row EXCEPT !.source = IF @ = "none" THEN "unavailable" ELSE @]

RecordFigure(r) ==
  /\ Is(r, "record")
  /\ figure' = [figure EXCEPT ![Client(r)] = Recorded(@, request[r].read)]
  /\ HasRead(r, request[r].read)
  /\ UNCHANGED <<monthClosed, shopUp, nightsFull, slot, page, typed, snags>>

\* A row that cannot be stored does not turn a good figure into a failure.
RecordLost(r) ==
  /\ Is(r, "record")
  /\ snags < MaxSnags
  /\ snags' = snags + 1
  /\ HasRead(r, request[r].read)
  /\ UNCHANGED <<monthClosed, shopUp, nightsFull, figure, slot, page, typed>>

\* The figure of setManualSalesFigure; the draft is rebuilt after it.
EnterFigure(d) ==
  /\ Is(d, "enter")
  /\ figure' = [figure EXCEPT ![Client(d)] =
                  [ok |-> TRUE, gross |-> "entered", source |-> "manual"]]
  /\ typed' = IF monthClosed THEN typed \cup {Client(d)} ELSE typed
  /\ Goes(d, "resolve")
  /\ UNCHANGED <<monthClosed, shopUp, nightsFull, slot, page, snags>>

-----------------------------------------------------------------------------
(* The drafts.                                                             *)

\* generateInvoiceForTenant, rebuildDraftInvoice: the transaction, for which an
\* invoice that is there already, or that is no draft any more, is an error.
DraftOn(gross) == [status |-> "draft", basis |-> gross, flagged |-> gross = NoFigure,
                   approved |-> FALSE, waived |-> FALSE]

CommitDraft(r) ==
  /\ Is(r, "commit")
  /\ slot' = IF slot[Client(r)].status =
                  (IF request[r].kind = "generate" THEN "none" ELSE "draft")
             THEN [slot EXCEPT ![Client(r)] = DraftOn(request[r].read)] ELSE slot
  /\ NextClient(r)
  /\ UNCHANGED <<monthClosed, shopUp, nightsFull, figure, page, typed, snags>>

\* approveDraft and issueInvoice look at the draft again, under its lock.
ApproveNext(d) ==
  /\ Is(d, "approve")
  /\ slot' = IF Clean(slot[Client(d)])
             THEN [slot EXCEPT ![Client(d)].approved = TRUE] ELSE slot
  /\ NextClient(d)
  /\ UNCHANGED <<monthClosed, shopUp, nightsFull, figure, page, typed, snags>>

IssueNext(d) ==
  /\ Is(d, "issue")
  /\ slot' = IF Cleared(slot[Client(d)])
             THEN [slot EXCEPT ![Client(d)].status = "issued"] ELSE slot
  /\ NextClient(d)
  /\ UNCHANGED <<monthClosed, shopUp, nightsFull, figure, page, typed, snags>>

\* The buttons for one draft, here and on the invoice's own page; each asks of
\* the draft what its action asks of it.
OneDraft(d, c, becomes) ==
  /\ MayBegin(d)
  /\ slot[c].status = "draft"
  /\ slot' = [slot EXCEPT ![c] = becomes]
  /\ UNCHANGED <<monthClosed, shopUp, nightsFull, figure, page, request, typed, snags>>

ApproveOne(d, c) == Awaiting(slot[c]) /\ OneDraft(d, c, [slot[c] EXCEPT !.approved = TRUE])
UnapproveOne(d, c) == slot[c].approved /\ OneDraft(d, c, [slot[c] EXCEPT !.approved = FALSE])
IssueOne(d, c) == Cleared(slot[c]) /\ OneDraft(d, c, [slot[c] EXCEPT !.status = "issued"])
DeleteDraft(d, c) == OneDraft(d, c, NoInvoice)

\* waiveCommissionForDraft; its form is there for a draft that needs attention.
WaiveCommission(d, c) ==
  PanelLists(d, c) /\ OneDraft(d, c, [slot[c] EXCEPT !.flagged = FALSE, !.waived = TRUE])

RowAction(d, c) ==
  \/ ApproveOne(d, c) \/ UnapproveOne(d, c) \/ IssueOne(d, c) \/ DeleteDraft(d, c)
  \/ WaiveCommission(d, c)

-----------------------------------------------------------------------------
(* The world around.                                                       *)

MonthEnds ==
  /\ ~monthClosed
  /\ monthClosed' = TRUE
  /\ UNCHANGED <<shopUp, nightsFull, figure, slot, page, request, typed, snags>>

ShopTurns(c) ==
  /\ shopUp' = IF c \in shopUp THEN shopUp \ {c} ELSE shopUp \cup {c}
  /\ UNCHANGED <<monthClosed, nightsFull, figure, slot, page, request, typed, snags>>

\* The nightly job has stored the last day of the month.
NightsComplete(c) ==
  /\ monthClosed
  /\ c \notin nightsFull
  /\ nightsFull' = nightsFull \cup {c}
  /\ UNCHANGED <<monthClosed, shopUp, figure, slot, page, request, typed, snags>>

RequestDies(r) ==
  /\ ~Is(r, "idle")
  /\ snags < MaxSnags
  /\ snags' = snags + 1
  /\ request' = [request EXCEPT ![r] = Quiet]
  /\ UNCHANGED <<monthClosed, shopUp, nightsFull, figure, slot, page, typed>>

BillingRunNext ==
  \/ \E r \in Requests :
       \/ Pick(r) \/ Resolve(r) \/ CachedFigure(r) \/ FetchSales(r) \/ FetchFails(r)
       \/ RecordFigure(r) \/ RecordLost(r) \/ CommitDraft(r) \/ RequestDies(r)
  \/ \E d \in BillingDesks :
       \/ LoadPage(d) \/ BeginRefresh(d) \/ BeginGenerate(d) \/ BeginApprove(d)
       \/ BeginIssueAll(d) \/ EnterFigure(d) \/ ApproveNext(d) \/ IssueNext(d)
       \/ \E c \in Clients : BeginManual(d, c) \/ BeginRebuild(d, c) \/ RowAction(d, c)
  \/ \E r \in Snapshots : BeginSnapshot(r)
  \/ MonthEnds
  \/ \E c \in Clients : ShopTurns(c) \/ NightsComplete(c)

BillingRunSpec == BillingRunInit /\ [][BillingRunNext]_billingRunVars

-----------------------------------------------------------------------------
(* Properties.                                                             *)

\* "operator overrides, which must never be silently overwritten by a later
\* live read" (gross-sales.ts): a figure entered by hand for a closed month is
\* what the table keeps, whatever reads and failures follow.  It needs the
\* requests to come one after the other.
ManualStands == \A c \in typed : figure[c].source = "manual"

\* "this guard stops a partial figure being billed by mistake"
\* (sales/period.ts): no invoice has a commission on a part of the month.
PartialNeverBilled ==
  \A c \in Clients : slot[c].status = "issued" => slot[c].basis # "partial"

\* The same promise for a figure entered before the month has ended.
EnteredStands ==
  [][\A c \in Clients : figure[c].source = "manual" => figure'[c].source = "manual"]_figure

\* "the month being *commissioned* is always a closed month" (sales/period.ts):
\* a draft the billing page generates has its commission.
GeneratedOnClosedMonth ==
  \A r \in Requests : request[r].kind = "generate" /\ Is(r, "commit") => monthClosed

\* "Marks reviewed drafts as cleared for issuing" (billing-run-client.tsx):
\* approving all of a period approves what the page showed.
ApprovedWasSeen ==
  [][\A d \in BillingDesks : Is(d, "approve") /\ slot' # slot
       => page[d][Client(d)].basis = slot[Client(d)].basis]_billingRunVars
=============================================================================
