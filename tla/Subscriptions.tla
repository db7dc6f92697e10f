---------------------------- MODULE Subscriptions ----------------------------
(***************************************************************************)
(* What one tenant pays for, and from when: its subscriptions and its      *)
(* recurring expense (tenants/service.ts), the plan catalogue              *)
(* (plans/service.ts), the monitor that suggests the flat tier             *)
(* (billing/graduation.ts), and the figures the console reads from these   *)
(* rows (tenants/queries.ts, analytics/revenue.ts, dashboard/*.ts).        *)
(*                                                                         *)
(* Every edit is a transaction.  What the request does after it is done in *)
(* transactions of their own, and the process may end between any two of   *)
(* them: an activation drafts its first invoice, a graduation marks its    *)
(* flag (`inFlight`), an edit lists the drafts and rebuilds one after the  *)
(* other (`editor`).  A draft is generated from rows that were read a      *)
(* while before it is inserted (`generating`).                             *)
(***************************************************************************)
EXTENDS Integers, FiniteSets, FiniteSetsExt, Sequences

CONSTANTS
  LastMonth,     \* the months are 0 .. LastMonth, of DaysInMonth days each
  DaysInMonth,
  Prices,        \* monthly prices
  Editors,       \* requests that edit what is paid for
  MaxSubs,       \* bound on the rows of subscriptions
  MaxEdits,      \* bound on the operator's edits
  MaxLosses      \* bound on requests that end before they are through

ASSUME SubscriptionsAssumption ==
  /\ LastMonth \in Nat /\ DaysInMonth \in Nat \ {0}
  /\ Prices \subseteq Nat /\ Prices # {}
  /\ MaxSubs \in Nat \ {0} /\ MaxEdits \in Nat /\ MaxLosses \in Nat
VARIABLES
  standing,      \* tenants.status
  subs,          \* subscriptions, by id
  expense,       \* addons: one recurring expense
  catalogue,     \* plans.monthly_cents
  monthDraft,    \* the invoice of each month
  flag,          \* graduation_flags, by the second of their two months
  date,
  inFlight,      \* what activations and graduations have yet to do
  editor,        \* where each edit is in its rebuild of the drafts
  generating,    \* the draft of a month that is read and not yet inserted
  outdated,      \* history: drafts a later change did not reach
  moved,         \* history: the tenant was moved to the flat tier
  edits,
  losses

subscriptionsVars == <<standing, subs, expense, catalogue, monthDraft, flag, date,
                       inFlight, editor, generating, outdated, moved, edits, losses>>

Months == 0 .. LastMonth
Dates == 0 .. (LastMonth + 1) * DaysInMonth - 1
Never == (LastMonth + 2) * DaysInMonth      \* ends_on IS NULL

MonthOf(d) == d \div DaysInMonth
FirstOf(m) == m * DaysInMonth
LastOf(m) == FirstOf(m + 1) - 1
ThisMonth == MonthOf(date)

\* The commission plan and the flat one it graduates to.
Plans == {"starter", "growth"}
Starter == "starter"
Flat == "growth"

SubRecord == [plan : Plans, price : Prices, active : BOOLEAN,
              from : Nat, until : Nat]
NoExpense == [from |-> Never, until |-> Never]

\* What a draft bills: the price of a subscription, and the expense or not; the
\* line of its commission is Invoicing's.
NoDraft == [status |-> "none", plan |-> Starter, price |-> 0, expense |-> FALSE]

DraftRows == [status : {"none", "draft", "issued"}, plan : Plans,
              price : Prices \cup {0}, expense : BOOLEAN]

DraftDue == <<"firstDraft", 0>>
MarkDue(m) == <<"mark", m>>
Tasks == {DraftDue} \cup {MarkDue(m) : m \in Months}

\* An edit is committed ("due"), then the drafts are listed ("loop"): those yet
\* to be rebuilt, those that have left since, the one whose row is locked, and
\* what is read for it.
Idle == [at |-> "idle", todo |-> {}, gone |-> {}, holds |-> {}, row |-> NoDraft]
EditorRows == [at : {"idle", "due", "loop"}, todo : SUBSET Months,
               gone : SUBSET Months, holds : SUBSET Months, row : DraftRows]

SubscriptionsTypeOK ==
  /\ standing \in {"none", "prospect", "active", "suspended", "offboarded"}
  /\ subs \in Seq(SubRecord) /\ Len(subs) <= MaxSubs
  /\ expense \in [from : Nat, until : Nat]
  /\ catalogue \in [Plans -> Prices]
  /\ monthDraft \in [Months -> DraftRows]
  /\ flag \in [Months -> {"none", "open", "dismissed", "graduated"}]
  /\ date \in Dates
  /\ inFlight \subseteq Tasks
  /\ editor \in [Editors -> EditorRows]
  /\ generating \in [Months -> DraftRows]
  /\ outdated \subseteq Months
  /\ moved \in BOOLEAN
  /\ edits \in 0 .. MaxEdits
  /\ losses \in 0 .. MaxLosses

SubscriptionsInit ==
  /\ standing = "none"
  /\ subs = << >>
  /\ expense = NoExpense
  /\ catalogue = [p \in Plans |-> Min(Prices)]
  /\ monthDraft = [m \in Months |-> NoDraft]
  /\ flag = [m \in Months |-> "none"]
  /\ date = 0
  /\ inFlight = {}
  /\ editor = [e \in Editors |-> Idle]
  /\ generating = [m \in Months |-> NoDraft]
  /\ outdated = {}
  /\ moved = FALSE
  /\ edits = 0
  /\ losses = 0

Edit == edits < MaxEdits /\ edits' = edits + 1

-----------------------------------------------------------------------------
(* Which subscription a query finds.                                       *)

Latest(ids) == CHOOSE i \in ids :
  \A j \in ids : \/ subs[j].from < subs[i].from
                 \/ subs[j].from = subs[i].from /\ j <= i

Active(i) == subs[i].active

\* The one a draft for the month is built from.
BillingSubs(m) ==
  {i \in DOMAIN subs :
     Active(i) /\ subs[i].from <= LastOf(m) /\ subs[i].until >= FirstOf(m)}

\* The one that runs today: changePlan, and every view of the console.
CurrentSubs ==
  {i \in DOMAIN subs : Active(i) /\ subs[i].from <= date /\ subs[i].until >= date}

\* The ones a price can be set on, and a package.
PriceableSubs == {i \in DOMAIN subs : Active(i) /\ subs[i].until >= date}
OpenSubs == {i \in DOMAIN subs : Active(i) /\ subs[i].until = Never}

ExpenseIn(m) == expense.from <= LastOf(m) /\ expense.until >= FirstOf(m)

\* What buildDraftLines makes of the month; it needs a subscription.
Buildable(m) == BillingSubs(m) # {}
Built(m) ==
  LET sub == subs[Latest(BillingSubs(m))] IN
  [status |-> "draft", plan |-> sub.plan, price |-> sub.price, expense |-> ExpenseIn(m)]

Drafts == {m \in Months : monthDraft[m].status = "draft"}
Generating == {m \in Months : generating[m] # NoDraft}

\* generateInvoiceForTenant goes ahead.
Draftable(m) ==
  /\ standing \in {"active", "suspended"}
  /\ monthDraft[m].status = "none"
  /\ generating[m] = NoDraft
  /\ Buildable(m)

\* A rebuild is due for the edit; a draft that is being generated was read
\* before it.
EditedBy(e) ==
  /\ editor[e].at = "idle"
  /\ editor' = [editor EXCEPT ![e] = [Idle EXCEPT !.at = "due"]]
  /\ outdated' = outdated \cup Generating

Held == UNION {editor[e].holds : e \in Editors}
Sells(plan, price, from) ==
  [plan |-> plan, price |-> price, active |-> TRUE, from |-> from, until |-> Never]

-----------------------------------------------------------------------------
(* The tenant's life (tenants/service.ts).                                 *)

CreateTenant(plan, price) ==
  /\ standing = "none"
  /\ standing' = "prospect"
  /\ subs' = Append(subs, Sells(plan, price, date))
  /\ UNCHANGED <<expense, catalogue, monthDraft, flag, date, inFlight, editor, generating,
                 outdated, moved, edits, losses>>

\* The subscription begins today, and the month of today is invoiced whole.
ActivateTenant ==
  /\ standing = "prospect"
  /\ OpenSubs # {}
  /\ standing' = "active"
  /\ subs' = [subs EXCEPT ![Min(OpenSubs)].from = date]
  /\ inFlight' = inFlight \cup {DraftDue}
  /\ UNCHANGED <<expense, catalogue, monthDraft, flag, date, editor, generating, outdated,
                 moved, edits, losses>>

\* What a draft of the month is built from is read, in one snapshot, after the
\* month is seen free.
ReadFor(m) ==
  /\ generating' = [generating EXCEPT ![m] = Built(m)]
  /\ outdated' = outdated \ {m}

\* The invoice of the month of activation; one that is there already is as good.
FirstDraft ==
  /\ DraftDue \in inFlight
  /\ inFlight' = inFlight \ {DraftDue}
  /\ \/ Draftable(ThisMonth) /\ ReadFor(ThisMonth)
     \/ ~Draftable(ThisMonth) /\ UNCHANGED <<generating, outdated>>
  /\ UNCHANGED <<standing, subs, expense, catalogue, monthDraft, flag, date, editor, moved,
                 edits, losses>>

\* suspendTenant, unsuspendTenant
StandingTurns ==
  /\ Edit
  /\ \/ standing = "active" /\ standing' = "suspended"
     \/ standing = "suspended" /\ standing' = "active"
  /\ UNCHANGED <<subs, expense, catalogue, monthDraft, flag, date, inFlight, editor,
                 generating, outdated, moved, losses>>

OffboardTenant ==
  /\ Edit
  /\ standing \in {"prospect", "active", "suspended"}
  /\ standing' = "offboarded"
  /\ subs' = [i \in DOMAIN subs |->
       IF subs[i].active /\ subs[i].until > date
       THEN [subs[i] EXCEPT !.active = FALSE,
               !.until = IF @ = Never THEN LastOf(ThisMonth) ELSE @]
       ELSE subs[i]]
  /\ UNCHANGED <<expense, catalogue, monthDraft, flag, date, inFlight, editor, generating,
                 outdated, moved, losses>>

-----------------------------------------------------------------------------
(* What it pays for.                                                       *)

\* The plan in force runs to the end of the month, the new one from the first
\* of the next.  No draft is rebuilt.
SwitchAt(first, plan, price) ==
  /\ standing \in {"active", "suspended"}
  /\ CurrentSubs # {}
  /\ subs[Latest(CurrentSubs)].plan # plan
  /\ Len(subs) < MaxSubs
  /\ subs' = Append([subs EXCEPT ![Latest(CurrentSubs)].until = first - 1],
                    Sells(plan, price, first))
  /\ outdated' = outdated \cup Drafts \cup Generating

SwitchToday(plan, price) == SwitchAt(date, plan, price)
SwitchLastDay(plan, price) == SwitchAt(LastOf(ThisMonth), plan, price)
Switch(plan, price) == SwitchAt(FirstOf(ThisMonth + 1), plan, price)

ChangePlan(plan, price) ==
  /\ Edit
  /\ Switch(plan, price)
  /\ UNCHANGED <<standing, expense, catalogue, monthDraft, flag, date, inFlight, editor,
                 generating, moved, losses>>

\* The package of the open subscription, at the price of the catalogue.
SetTenantPackage(e, plan) ==
  /\ Edit
  /\ EditedBy(e)
  /\ standing \in {"prospect", "active", "suspended"}
  /\ OpenSubs # {}
  /\ LET i == Max(OpenSubs) IN
       /\ subs[i].plan # plan \/ subs[i].price # catalogue[plan]
       /\ subs' = [subs EXCEPT ![i].plan = plan, ![i].price = catalogue[plan]]
  /\ UNCHANGED <<standing, expense, catalogue, monthDraft, flag, date, inFlight, generating,
                 moved, losses>>

\* The price of the latest one that has not ended, one yet to begin included.
AdjustSubscriptionPrice(e, price) ==
  /\ Edit
  /\ EditedBy(e)
  /\ standing \in {"prospect", "active", "suspended"}
  /\ PriceableSubs # {}
  /\ subs[Latest(PriceableSubs)].price # price
  /\ subs' = [subs EXCEPT ![Latest(PriceableSubs)].price = price]
  /\ UNCHANGED <<standing, expense, catalogue, monthDraft, flag, date, inFlight, generating,
                 moved, losses>>

\* A recurring expense begins with the next month and ends with this one.
AddExpense(e) ==
  /\ Edit
  /\ EditedBy(e)
  /\ standing \in {"prospect", "active", "suspended"}
  /\ expense = NoExpense
  /\ expense' = [from |-> FirstOf(ThisMonth + 1), until |-> Never]
  /\ UNCHANGED <<standing, subs, catalogue, monthDraft, flag, date, inFlight, generating,
                 moved, losses>>

\* removeAddon does not ask whether it has ended already.
RemoveExpense(e) ==
  /\ Edit
  /\ EditedBy(e)
  /\ expense # NoExpense
  /\ expense' = [expense EXCEPT !.until = LastOf(ThisMonth)]
  /\ UNCHANGED <<standing, subs, catalogue, monthDraft, flag, date, inFlight, generating,
                 moved, losses>>

\* The billing page drafts the coming month.
GenerateDraft(m) ==
  /\ m = ThisMonth + 1
  /\ Draftable(m)
  /\ ReadFor(m)
  /\ UNCHANGED <<standing, subs, expense, catalogue, monthDraft, flag, date, inFlight,
                 editor, moved, edits, losses>>

\* The draft of what was read, whatever was edited since.
InsertDraft(m) ==
  /\ m \in Generating
  /\ monthDraft' = [monthDraft EXCEPT ![m] = generating[m]]
  /\ generating' = [generating EXCEPT ![m] = NoDraft]
  /\ UNCHANGED <<standing, subs, expense, catalogue, flag, date, inFlight, editor, outdated,
                 moved, edits, losses>>

GenerationLost(m) ==
  /\ m \in Generating
  /\ losses < MaxLosses
  /\ losses' = losses + 1
  /\ generating' = [generating EXCEPT ![m] = NoDraft]
  /\ UNCHANGED <<standing, subs, expense, catalogue, monthDraft, flag, date, inFlight,
                 editor, outdated, moved, edits>>

\* rebuildTenantDraftInvoices lists the drafts,
ListDrafts(e) ==
  /\ editor[e].at = "due"
  /\ editor' = [editor EXCEPT ![e] =
                  IF Drafts = {} THEN Idle
                  ELSE [Idle EXCEPT !.at = "loop", !.todo = Drafts]]
  /\ UNCHANGED <<standing, subs, expense, catalogue, monthDraft, flag, date, inFlight,
                 generating, outdated, moved, edits, losses>>

\* and rebuilds each in a transaction of its own: its row is locked, its lines
\* are read behind the lock
TakeDraft(e, m) ==
  /\ editor[e].at = "loop"
  /\ editor[e].holds = {}
  /\ m \in editor[e].todo
  /\ Buildable(m)
  /\ editor' = [editor EXCEPT ![e].todo = @ \ {m}, ![e].holds = {m},
                              ![e].row = Built(m)]
  /\ outdated' = outdated \ {m}
  /\ UNCHANGED <<standing, subs, expense, catalogue, monthDraft, flag, date, inFlight,
                 generating, moved, edits, losses>>

TakeUnlocked(e, m) == TakeDraft(e, m)
LockDraft(e, m) == m \notin Held /\ TakeDraft(e, m)

\* and written.
WriteDraft(e, m) ==
  /\ m \in editor[e].holds
  /\ monthDraft' = [monthDraft EXCEPT ![m] = editor[e].row]
  /\ editor' = [editor EXCEPT ![e] =
                  IF editor[e].todo = {} /\ editor[e].gone = {} THEN Idle
                  ELSE [editor[e] EXCEPT !.holds = {}, !.row = NoDraft]]
  /\ UNCHANGED <<standing, subs, expense, catalogue, flag, date, inFlight, generating,
                 outdated, moved, edits, losses>>

\* One that has left, or cannot be built, ends the loop: the rest stay as they are.
RebuildRefused(e) ==
  /\ editor[e].at = "loop"
  /\ editor[e].holds = {}
  /\ \/ editor[e].gone # {}
     \/ \E m \in editor[e].todo \ Held : ~Buildable(m)
  /\ outdated' = outdated \cup editor[e].todo
  /\ editor' = [editor EXCEPT ![e] = Idle]
  /\ UNCHANGED <<standing, subs, expense, catalogue, monthDraft, flag, date, inFlight,
                 generating, moved, edits, losses>>

\* The request ends before its last draft.
RebuildLost(e) ==
  /\ editor[e].at # "idle"
  /\ losses < MaxLosses
  /\ losses' = losses + 1
  /\ outdated' = outdated \cup (IF editor[e].at = "due" THEN Drafts
                                ELSE editor[e].todo \cup editor[e].holds)
  /\ editor' = [editor EXCEPT ![e] = Idle]
  /\ UNCHANGED <<standing, subs, expense, catalogue, monthDraft, flag, date, inFlight,
                 generating, moved, edits>>

\* Its approval and issue; a draft can be deleted.  Both wait for its row, and a
\* rebuild that has listed it will not find it.
DraftLeaves(m, to) ==
  /\ Edit
  /\ m \in Drafts \ Held
  /\ monthDraft' = [monthDraft EXCEPT ![m] =
                      IF to = "issued" THEN [@ EXCEPT !.status = "issued"] ELSE NoDraft]
  /\ editor' = [e \in Editors |->
       [editor[e] EXCEPT !.todo = @ \ {m}, !.gone = @ \cup (editor[e].todo \cap {m})]]
  /\ outdated' = outdated \ {m}
  /\ UNCHANGED <<standing, subs, expense, catalogue, flag, date, inFlight, generating,
                 moved, losses>>

\* updatePlan: the price new subscriptions are offered.
UpdatePlan(plan, price) ==
  /\ Edit
  /\ catalogue[plan] # price
  /\ catalogue' = [catalogue EXCEPT ![plan] = price]
  /\ UNCHANGED <<standing, subs, expense, monthDraft, flag, date, inFlight, editor,
                 generating, outdated, moved, losses>>

-----------------------------------------------------------------------------
(* Graduation.                                                             *)

\* runGraduationCheck, over the two months that closed last, for a tenant whose
\* latest subscription has commission; whether it sold enough is not the
\* monitor's to decide.  A flag that is there keeps its status.
RaiseAnew(m) ==
  /\ m = ThisMonth - 1
  /\ standing = "active"
  /\ LET all == {i \in DOMAIN subs : Active(i)} IN
       all # {} /\ subs[Latest(all)].plan = Starter
  /\ flag' = [flag EXCEPT ![m] = "open"]
  /\ UNCHANGED <<standing, subs, expense, catalogue, monthDraft, date, inFlight, editor,
                 generating, outdated, moved, edits, losses>>
GraduationCheck(m) ==
  /\ m = ThisMonth - 1
  /\ standing = "active"
  /\ LET all == {i \in DOMAIN subs : Active(i)} IN
       all # {} /\ subs[Latest(all)].plan = Starter
  /\ flag' = [flag EXCEPT ![m] = IF @ = "none" THEN "open" ELSE @]
  /\ UNCHANGED <<standing, subs, expense, catalogue, monthDraft, date, inFlight, editor,
                 generating, outdated, moved, edits, losses>>

DismissFlag(m) ==
  /\ Edit
  /\ flag[m] = "open"
  /\ flag' = [flag EXCEPT ![m] = "dismissed"]
  /\ UNCHANGED <<standing, subs, expense, catalogue, monthDraft, date, inFlight, editor,
                 generating, outdated, moved, losses>>

\* graduateTenantAction: the plan change, then the flag; a plan change that is
\* refused leaves the flag.
GraduateTenant(m) ==
  /\ Edit
  /\ flag[m] = "open"
  /\ Switch(Flat, catalogue[Flat])
  /\ moved' = TRUE
  /\ inFlight' = inFlight \cup {MarkDue(m)}
  /\ UNCHANGED <<standing, expense, catalogue, monthDraft, flag, date, editor, generating,
                 losses>>

MarkGraduated(m) ==
  /\ MarkDue(m) \in inFlight
  /\ inFlight' = inFlight \ {MarkDue(m)}
  /\ flag' = [flag EXCEPT ![m] = "graduated"]
  /\ UNCHANGED <<standing, subs, expense, catalogue, monthDraft, date, editor, generating,
                 outdated, moved, edits, losses>>

-----------------------------------------------------------------------------
\* A request goes on at once; days pass when none is under way.
NextDate ==
  /\ date + 1 \in Dates
  /\ inFlight = {} /\ Generating = {}
  /\ \A e \in Editors : editor[e].at = "idle"
  /\ date' = date + 1
  /\ UNCHANGED <<standing, subs, expense, catalogue, monthDraft, flag, inFlight, editor,
                 generating, outdated, moved, edits, losses>>

\* The request ends after its first transaction.
RequestLost(task) ==
  /\ task \in inFlight
  /\ losses < MaxLosses
  /\ losses' = losses + 1
  /\ inFlight' = inFlight \ {task}
  /\ UNCHANGED <<standing, subs, expense, catalogue, monthDraft, flag, date, editor,
                 generating, outdated, moved, edits>>

SubscriptionsNext ==
  \/ \E plan \in Plans, price \in Prices :
       CreateTenant(plan, price) \/ ChangePlan(plan, price) \/ UpdatePlan(plan, price)
  \/ ActivateTenant \/ FirstDraft \/ StandingTurns \/ OffboardTenant
  \/ \E e \in Editors :
       \/ \E plan \in Plans : SetTenantPackage(e, plan)
       \/ \E price \in Prices : AdjustSubscriptionPrice(e, price)
       \/ AddExpense(e) \/ RemoveExpense(e)
       \/ ListDrafts(e)
       \/ \E m \in Months : LockDraft(e, m) \/ WriteDraft(e, m)
       \/ RebuildRefused(e) \/ RebuildLost(e)
  \/ \E m \in Months :
       \/ GenerateDraft(m) \/ InsertDraft(m) \/ GenerationLost(m)
       \/ \E to \in {"issued", "none"} : DraftLeaves(m, to)
       \/ GraduationCheck(m) \/ DismissFlag(m) \/ GraduateTenant(m) \/ MarkGraduated(m)
  \/ NextDate
  \/ \E task \in Tasks : RequestLost(task)

SubscriptionsSpec == SubscriptionsInit /\ [][SubscriptionsNext]_subscriptionsVars

-----------------------------------------------------------------------------
(* What the console shows of these rows, and which forms it offers.        *)

Priced(ids) == MapThenSumSet(LAMBDA i : subs[i].price, ids)
ExpenseNow == expense.from <= date /\ expense.until >= date

\* currentSubscription of the tenant's page, and the same row in every list.
ShownSub == IF CurrentSubs = {} THEN {} ELSE {Latest(CurrentSubs)}
PageMrr == [sub |-> Priced(ShownSub), expense |-> ExpenseNow]
ListedMrr == PageMrr

\* Figures over active tenants only: the dashboard, and the revenue page with
\* what the tenant was billed for the month.
NoRevenue == [sub |-> 0, expense |-> FALSE]
DashboardMrr == IF standing = "active" THEN ListedMrr ELSE NoRevenue
ContractedMrr == DashboardMrr
RevenueRow == [mrr |-> ContractedMrr, billed |-> monthDraft[ThisMonth].status = "issued"]
\* The lifecycle board lists suspended tenants, and leaves them out of its sum.
BoardRow == IF standing \in {"active", "suspended"} THEN ListedMrr ELSE NoRevenue
BoardMrr == IF standing = "active" THEN BoardRow ELSE NoRevenue

\* The breakdown of getRevenueOverview: every active row of a plan, whenever it
\* runs and whoever's it is; and what an offboarded tenant is counted as lost
\* with: its last row, one that was yet to begin included.
MrrOfPlan(plan) == Priced({i \in DOMAIN subs : Active(i) /\ subs[i].plan = plan})
LostMrr == IF standing = "offboarded" THEN Priced({Latest(DOMAIN subs)}) ELSE 0

\* The billing tab calls the last active row the current one, one that is yet to
\* begin included.
TabSub == LET all == {i \in DOMAIN subs : Active(i)} IN
          IF all = {} THEN {} ELSE {Latest(all)}
OffersPackage == standing # "offboarded" /\ TabSub # {}
OffersPrice == standing # "offboarded" /\ TabSub # {}
OffersExpense == standing \in {"active", "suspended"}
OffersRemoval == OffersExpense /\ expense # NoExpense /\ expense.until = Never

\* The lifecycle panel.
OffersActivation == standing = "prospect"
OffersPlanChange == standing \in {"active", "suspended"}

-----------------------------------------------------------------------------
(* Properties.                                                             *)

\* What the console shows as a tenant's plan and price is what its invoice for
\* this month is built from, no month to come is left without a subscription to
\* bill, and every form the pages offer finds the row it edits, however plan
\* changes, package edits, price edits and expenses were mixed: the console finds
\* a row by the day, the invoice by the month, each form in a way of its own.
ShownIsBilled ==
  /\ standing \in {"active", "suspended"} =>
       /\ \A m \in Months : m >= ThisMonth => Buildable(m)
       /\ ShownSub = {Latest(BillingSubs(ThisMonth))}
       /\ PageMrr = [sub |-> Built(ThisMonth).price, expense |-> Built(ThisMonth).expense]
  /\ OffersPackage => OpenSubs # {}
  /\ OffersPrice => PriceableSubs # {}
  /\ OffersPlanChange => CurrentSubs # {}
  /\ OffersActivation => OpenSubs # {}

\* "nothing is backdated" (graduation-actions.ts): a change of plan leaves what
\* this month and the ones before it are billed for.
BackdatesNothing ==
  \A m \in Months : /\ m <= ThisMonth
                    /\ Buildable(m)
                    /\ (\E plan \in Plans, price \in Prices : Switch(plan, price))
    => Buildable(m)' /\ Built(m)' = Built(m)
NothingBackdated == [][BackdatesNothing]_subscriptionsVars

\* However the rebuilds of two requests, the generation of a draft and its approval
\* fall between each other, a draft that no request has yet to rebuild bills what
\* the rows say: what is approved next is what was agreed.  Excused, in `outdated`,
\* is a draft that a plan change has passed, that was read before an edit and
\* inserted after it, or whose rebuild was lost or ended at another draft.
DraftsFollowEdits ==
  /\ standing \in {"active", "suspended"}
  /\ \A e \in Editors : editor[e].at # "due"
  => \A m \in Drafts \ outdated :
       \/ \E e \in Editors : m \in editor[e].todo \cup editor[e].holds
       \/ Buildable(m) /\ monthDraft[m] = Built(m)

\* Refuted: with no request lost and the same plan all along, every draft follows
\* the edits.  One that is generated while an edit commits is inserted after the
\* edit has listed the drafts, as it was before.
EveryDraftFollows ==
  /\ standing \in {"active", "suspended"} /\ losses = 0 /\ Len(subs) = 1
  /\ Generating = {} /\ \A e \in Editors : editor[e].at = "idle"
  => \A m \in Drafts : monthDraft[m] = Built(m)

\* A suggestion the operator turned down is not raised again for these months,
\* and is closed as graduated only when the tenant was moved.
FlagsKeepTheirAnswer ==
  [][\A m \in Months :
       /\ flag[m] # "none" => flag'[m] # "none"
       /\ flag[m] \in {"dismissed", "graduated"} => flag'[m] # "open"
       /\ flag'[m] = "graduated" => moved]_subscriptionsVars

\* Refuted: a change of plan does not rebuild the draft of the coming month.
DraftsFollowPlan ==
  standing \in {"active", "suspended"} /\ losses = 0 /\ inFlight = {}
  /\ Generating = {} /\ (\A e \in Editors : editor[e].at = "idle") =>
    \A m \in Drafts : Buildable(m) /\ monthDraft[m].plan = Built(m).plan

\* Refuted: "MRR is *contracted* recurring revenue right now" (revenue.ts): the
\* breakdown by plan counts subscriptions that have ended or not begun.
BreakdownAddsUp == MapThenSumSet(MrrOfPlan, Plans) = ContractedMrr.sub

\* Refuted: the tab shows a plan that begins next month as the current one.
TabShowsCurrent == OffersPlanChange => TabSub = ShownSub

\* Refuted: a second change in a month, or a graduation tried again after its
\* flag was not marked, schedules a second subscription.
OneOpenSubscription == Cardinality(OpenSubs) <= 1

\* Refuted: removing an expense that has ended takes it up again until the end
\* of this month.
EndedStaysEnded ==
  [][expense.until < date => expense'.until = expense.until]_subscriptionsVars
=============================================================================
