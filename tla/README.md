# A formal model of Mercata Control

Mercata Control is the operator console of a hosting business: it bills the
tenants (web shops), records their payments, suspends and offboards them,
provisions new ones on shared servers, polls their health and mails them
digests.  It is a Next.js application over one MySQL database, with cron
endpoints and one provisioning worker beside it.  Everything that makes it hard
to test comes from that shape: several requests, cron runs and the worker share
tables without holding locks between a read and the write that depends on it,
and they drive things a rollback cannot undo (the Caddy proxy, e-mail, Docker).

This directory models the parts of it whose steps matter.  Paths below are
relative to the repository (`src/lib/...` etc.).

## Inventory

| Component | State | Operations | What is hard | Correct when |
|---|---|---|---|---|
| Invoices (`lib/invoices`) | `invoices`, `invoice_lines`, `number_sequences`, `credit_notes`, `addons.billed_invoice_id` | generate, rebuild, delete, approve, unapprove, waive, issue, settle, credit, manual drafts, expenses | transactions that read without a lock; rebuilds triggered by expense edits while drafts are approved and issued | issued invoices are immutable, gap-free, as reviewed; a charge is billed once |
| Invoice delivery (`issue.ts`, `delivery.ts`, `pdf.ts`) | the PDF file, `pdf_path`, `sent_at` | write PDF, send e-mail, resend, rewrite PDF | a crash between commit, PDF, e-mail and `sent_at` | an issued invoice reaches the tenant, or the dashboard says it did not |
| Payments and bank reconciliation (`lib/payments`) | `payments`, `bank_transactions`, invoice status | record, allocate, confirm, ignore, mark unallocated | the bank line is checked and updated in other transactions than the payment | money is recorded once and settles its invoice |
| Dunning (`lib/billing/dunning.ts`) | `dunning_reminders`, `operator_tasks`, status `overdue` | daily cron run | a stale list, a mail before its log row, two runs at once | each stage reminded, nobody's paid invoice taken back, unpaid ones come to the operator |
| Tenant standing (`lib/tenants/service.ts`, `lib/caddy`) | `tenants.status`, routes in Caddy | activate, suspend, unsuspend, offboard | database and proxy change in two steps with compensation | the proxy serves a tenant exactly when it is active |
| Subscriptions (`lib/tenants/service.ts`, `lib/plans`) | `subscriptions`, `addons`, `plans`, the drafts built from them | create, activate, change plan, set package, adjust price, add and remove expenses, offboard | rows that begin next month; every form finds its row in a way of its own; drafts rebuilt after the edit | what the console shows is what the month bills; nothing is backdated |
| Billing run (`billing/actions.ts`, `lib/sales`) | `tenant_sales_monthly`, the drafts of a period, the page in front of the operator | refresh, snapshot, generate, approve all, issue all, enter a figure, rebuild | loops over a list read at their start, live reads between a read and a write, the month ending meanwhile | an operator's figure stands; no part of a month is billed |
| Graduation (`lib/billing/graduation.ts`) | `graduation_flags` | raise, dismiss, graduate | the plan change and the flag are two transactions | an answered flag stays answered |
| Provisioning (`lib/provisioning`, `workers/`) | `provisioning_jobs`, the host | enqueue, claim, run, resume, requeue, reclaim | the worker can die at any step, a stale claim is taken over while its owner lives | one runner at a time, a job ends |
| Server fleet (`lib/servers`) | `servers`, capacity | assign, assess | assessment and placement are separate | capacity is not exceeded |
| Health (`lib/health`) | `health_checks`, `alert_states`, `alert_digest_queue`, `maintenance_windows` | poll, open, resolve, dispatch, digest, silence | state saved before the alert goes out; cooldown; windows; suspension during a poll | trouble that lasts is raised, and what was told agrees with what is open |
| Analytics (`lib/analytics`) | `analytics_daily`, `analytics_daily_detail`, the GA4 connection of a tenant, `ga4_cache` | nightly job, connection test, settings, views | a day in several statements, one attempt per day, settings saved from an old page | lost access is reported; views of days that are missing |
| Digests (`lib/digest`) | `digest_sends`, `tenants.digest_*` | cron run, settings, unsubscribe | mail before its log row, settings saved from an old page | one digest a period |
| Authentication (`lib/auth`) | `login_attempts`, `sessions` | log in, lock, expire | concurrent failures | failures lock |
| Money, VAT, periods (`lib/money.ts`, `lib/vat.ts`, `lib/billing`) | none | arithmetic | rounding, month ends | cents add up |
| Files, pages, audit, migrations | rows and views | CRUD, read-only pages | little beyond I/O | - |

## Modules

| Module | Models | Rests on |
|---|---|---|
| `Invoicing` | `lib/invoices/{generate,manual,approval,issue,numbers,invariants}.ts`, once-offs and expenses of `lib/tenants/service.ts` | refines `InvoiceRegister` |
| `InvoiceRegister` | nothing of its own: what `numbers.ts` and `issue.ts` together promise (entered next in line, settled, never changed) | - |
| `Payments` | `lib/payments/{service,reconcile}.ts`, the balance queries of `lib/tenants/queries.ts`, the unsuspension that follows a payment | abstracts `Invoicing` and `Standing` |
| `Standing` | suspend, unsuspend, activate, offboard of `lib/tenants/service.ts`, `lib/caddy/enforce.ts`, the poll cycle's effect on an open alert | - |
| `Collections` | `lib/invoices/{issue,pdf,delivery}.ts` after the issue transaction, `lib/billing/dunning.ts`, the dashboard's tasks and resends | abstracts `Invoicing` and `Payments` to an invoice's status |
| `BillingRun` | `lib/sales/{gross-sales,snapshot,period}.ts`, the loops of `billing/actions.ts`, the buttons of the billing page | abstracts `Invoicing` to one invoice per tenant |
| `Subscriptions` | subscriptions, the recurring expense and the life of a tenant in `lib/tenants/service.ts`, `lib/plans/service.ts`, `lib/billing/graduation.ts`, the figures and forms of the pages | abstracts `Invoicing` to the draft of each month |
| `Warehouse` | `lib/analytics/{etl,ga4,queries,tenant-overview}.ts`, `lib/tenants/commerce.ts`, the GA4 half of the settings form | - |
| `Digests` | `lib/digest/{send,compose,period,unsubscribe}.ts`, the cadence half of the settings form | - |
| `Alerts` | `lib/health/{poller,probe,signals,alerts,dashboard}.ts`, `lib/notify` | - |
| `Provisioning` | `tenants/provision-actions.ts`, `lib/provisioning/{routine,jobs,collisions,handoff}.ts`, `lib/servers/assign-tenant.ts`, `workers/provision-worker.ts` | - |
| `MC*` | the small instances TLC checks | the module of that name; `MCConsole` the first three above, `MCServices` the last three |
| `*Proofs` | theorems and their proofs | the module of that name; `ConsoleProofs` `MCConsole` and `CollectionsProofs`, `NoticesProofs` `MCServices` |

`Payments` does not run `Invoicing` or `Standing` step by step.  It takes from
the first only the status changes an invoice can undergo while a payment is in
flight (`MoveInvoice`, a subset of `CanTransition`), from the second the
tenant's status (`SetStanding`, `Unsuspend`).

### How a step corresponds to the code

The database runs a transaction at a time on the rows it locks.  So:

* a transaction that reads its rows `FOR UPDATE` before it decides is **one
  action** (`ApproveDraft`, `IssueInvoice`, `Capture`, `Claim`);
* a read outside the transaction that uses it, or a read without a lock inside
  it, is **an action of its own**; what it read is carried in the session record
  until the step that uses it (`GenerateRead`/`GenerateCommit`,
  `ConfirmReadCredit`/`ConfirmReadInvoice`/`RecordCredit`/`Mark`,
  `CommitRead`/`CommitWrite`, `EnqueueCheck`/`EnqueueInsert`);
* a call to something a rollback does not undo (Caddy, Docker, another
  transaction) is an action too, with its failure beside it;
* the guard of an action is the code's conditions and early returns.  A request
  the code refuses with no effect is no action.

A *session* (`Sessions`, `Operators`, `Workers`) is a request, a server action
or a worker in flight.  `pc`/`at` says where it is; the other fields of its
record are the local variables it still needs.

**Invoicing.**  One tenant, since no step reads two tenants' invoices.
`inv[i]` is a row of `invoices` with its lines: `status` adds `unused` and
`deleted` for ids that have no row; `lines` is the set of things it charges
(once-offs, `"commission"`, `"custom"`), `reviewed` the lines at the time of
approval (a history variable: no column holds it), `approved` and `flagged` the
two halves of the review gate.  `onceOff[a]` is an add-on with its window and
`billed_invoice_id`.  `last` is `number_sequences`, one counter per key and
year; `credits` the credit notes.  Rebuilds hold the row lock of their invoice
(`Locked`) over the unlocked read of the sources; generation holds none.  A
pending rebuild list (`queue`) is the loop of `rebuildOpenAutoDrafts`, which
`AddOnceOff` and `RemoveOnceOff` run after their own commit, and which `Abort`
may cut at any point.  `Requests` says which groups of handlers a run
exercises.

**InvoiceRegister.**  `entry[i]` is what an auditor sees of an invoice: number,
status and lines once it is issued, nothing before.  Invoicing implements it
under the mapping of `Register` (drafts and deleted rows map to `NoEntry`).

**Payments.**  `inv` (status), `payments` (a sequence, since rows are only
appended), `bank` (statement lines and their match), `tenant` (active or
suspended) and the server actions in flight.  `Fail` is an exception between two steps:
everything committed stays.  The `owed` and `cleared` places are the two balance
queries and the tenant query, each in its own statement
(`tenants/queries.ts`), between the payment and `unsuspendTenant`.

**Standing.**  `status` is `tenants.status`, `route` what Caddy serves for the
tenant's host (`shop` or `holding`), `tagged` whether the route has its `@id`,
`alerts` and `polled` the poller's part.  An operation moves through `snapshot`,
`tag`, `read`, `patch`, `verify`, then `check`/`commit`; from a failed patch or
verification it goes to `rollback`; a suspension whose transaction fails begins
an unsuspension as its compensation (`Compensated`).  Faults are named by the
call that fails; `"rollback"` is the failure of the rollback itself, `"crash"`
ends the process.

**Provisioning.**  `jobs` is the sequence of job rows (`secrets` says whether
the ciphertext is stored, `stale` whether the claim is older than the
threshold), `crm` the tenants already placed, `database` whose password the
tenant's database has, `up` the tenants whose container is up.  A worker walks
through the places in `Steps`, one per step of `routine.ts`; after a failure it
walks through `cleanup`.  Reclaiming, claiming, retrying and the two statements
of the enqueue action are separate steps.

**Collections.**  `bill[i]` is an invoice's status with `pdf_path` and `sent_at`
set or not; `onDisk` the PDF files; `contact` and `receiver` the two kinds of
contact the mails go to (a tenant made in the console has a billing contact, a
provisioned one has none and no operation gives it one, so `contact` is chosen
at the start and never changes).  The ladder's list leaves out tenants that are
neither active nor suspended (`dunning.ts:126`): `offboarded` are the invoices
of those, and `Offboard` may come at any time.  A worker is the cron run or an
operator's request with the list it read (`todo`) and its place.  `MarkOverdue` to
`MakeTask` are the ladder for one invoice, in the code's order; an exception in
a stage ends that invoice's ladder (`NextBill`).  `Settle` is whatever
`Invoicing` and `Payments` do to an issued invoice.

**BillingRun.**  A figure is one of the ways it can have come about (`partial`,
`whole`, `nightly`, `entered`), not an amount.  `getTenantGrossSales` is four
steps, because the cached figure is read before the shop is asked and the answer
is stored after it: `CachedFigure`, `FetchSales` or `FetchFails`,
`RecordFigure` or `RecordLost`.  `resolveCommissionForPeriod` (`Resolve`) calls
it again for the draft.  `page[d]` is what the operator's page was rendered
from: a button is there if that page shows it, and the action reads the rows
anew.  The page is always of the coming period, so once the month has ended it
can only be an old one.

**Subscriptions.**  One tenant.  A month has `DaysInMonth` days; `from` and
`until` are `started_on` and `ends_on` (`Never` for NULL).  `Latest`,
`BillingSubs`, `CurrentSubs`, `PriceableSubs` and `OpenSubs` are the queries by
which the code finds a row: five of them, which agree only by how rows are made.
Every edit is one transaction, and what the request does after it may be lost:
the first draft and the mark of a graduated flag wait in `inFlight`; the rebuild
of the drafts is `editor[e]`, which has committed its edit (`due`), lists the
drafts, and then for each locks its row and reads its lines (`LockDraft`),
writes it (`WriteDraft`), or stops at one that has left or cannot be built
(`RebuildRefused`).  A draft is generated in two steps as well: `generating[m]`
is what `generateInvoiceForTenant` has read for it, `InsertDraft` the insert.
The reads of a transaction are one snapshot, as the database's default isolation
makes them.  `Built(m)` is `buildDraftLines` without the commission line, whose
races are `Invoicing`'s.  `outdated` is a history variable: the drafts a later
change did not reach.  The last section translates what the pages read and which
forms they offer.

**Warehouse.**  Days are numbered, `night` is today; the job of a night stores
day `night - 1`.  `salesDay` and `detailDay` are the two tables, `trafficDay`
the property each traffic row came from.  `connection` is the tenant's three
GA4 columns; `saving` is `updateDigestSettings` between its SELECT and its
UPDATE.  The views are operators over these.

**Digests.**  A run carries the rows of `listDigestTenants` as they were.  The
key of `digest_sends` is tenant, address and period; only a row with status
sent stops a second mail.  `digestForm` is the settings page with the values it
was loaded with.

**Alerts.**  One tenant.  `checks` are the last stored checks, as sets of bad
signals.  A poll reads them before it probes; `ApplyOneSignal` decides from the
alert's row, `ChangeAlert` writes it, `DispatchAlert` tells: three statements.
`told` is the last event of a signal that a channel took.  A warning is not told
by its poll: it becomes a row of `queue`, and `warning` is the digest, which
reads the rows there are, sends them, and marks those it has read.  `notifyAll`
only logs a channel that fails, so a digest that none took is marked sent all
the same.  `untold` is a history variable: the signals whose last change was
told nobody and never will be, because the process ended, no channel took the
alert or the digest, or a suspension closed the alert.

### Sensitivity

Beside a definition there may be an alternative with the same parameters, named
for what it does differently (`NumberNotAdvanced`, `PatchErrorSwallowed`,
`UniqueUnlessSucceeded`).  None of them is used by a specification.
`PROJECT.json` names, for each property, a definition and the alternative which,
put in its place, makes TLC find the property violated: the property does depend
on that line of code.

## Runs

`tlc -workers 2 -config X.cfg M`.

| Run | Instance | Distinct states | Shows |
|---|---|---|---|
| `auto_drafts` | 2 invoices, 2 periods (the first begun), 1 once-off, 2 sessions, 1 year, figure or unreadable sales | 574 k | under races: the review gate, no flagged approval, commission charged or waived, billed lines charged, credit notes match, the register refined |
| `one_request` | the same with 1 session and every kind of request | 2.1 M | without races: one live invoice a period, one charge of a once-off by generated invoices, gap-free numbers through voids and credits |
| `payments` | 2 tenants, 2 invoices of 2, a bank credit of 2, 2 sessions that may fail at any step, payments of 0 or 1, at most 2 payments | 2.4 M | an open invoice is never covered; a matched bank line points at its own payment |
| `clearing` | 1 tenant, 2 issued invoices, 2 sessions, payments of 1 or 2, fair | 103 k | unsuspension only after what was owed is settled, and always then |
| `suspension_alone` | 2 tenants, 1 session, every fault but a crash, 1 in each operation | 9.4 k | a suspension is recorded behind its page or undone; offboarding is final; a suspension ends |
| `operations_end` | 1 tenant, 2 sessions, every fault, 2 in each operation | 52 k | each operation ends |
| `console` | `Collections`: 1 invoice, 1 ladder, 1 operator, days -1, 0, 7, 14, 21, the tenant offboarded or not, 1 mishap; `BillingRun`: 1 client, 1 operator, 1 snapshot, one request at a time, 1 snag; `Subscriptions`: 2 months of 2 days, 2 prices, 3 rows, 2 requests that edit, 2 edits, 1 lost request; fair | 904 k | reminders precede the task, are not repeated but for a mishap, and lead to it unless the tenant is offboarded; settled invoices stay so; an operator's figure stands; console, forms and drafts agree; nothing is backdated; answered flags stay |
| `services` | `Warehouse`: 2 nights, 1 property, 1 run, 1 trailing day, 1 crash or failed statement; `Digests`: 1 tenant, 2 addresses, 1 run, 3 days in weeks of 2, 1 mishap; `Alerts`: 2 signals, 1 poll, 1 digest of warnings, 3 turns, 1 crash; fair | 439 k | a digest is mailed once but for a mishap; what a channel took last agrees with what is open, but for changes known to be untold; lasting trouble is raised; lost access is reported |
| `provisioning` | 1 worker, 2 requests, 2 slugs on one domain, 2 jobs, 1 retry, 2 failures | 302 k | a job ends, a success is final and stays up |

`console` and `services` each check three modules that share no variable.  The
variable `part` says which of them a behaviour runs; the others stay as they
begin, so the states add up instead of multiplying, and each module's
properties are checked as in a run of its own.

Why these bounds are enough for what they claim: the races are between two
requests over one object, so two sessions and one object meet in every order;
two invoices and two periods make the counter advance and let a once-off move
from one draft to another; two payments are needed to cover an invoice in parts
and no step looks at more than the sum; two tenants show that an action on one
leaves the other alone; two jobs are the smallest number that collide.  The
bounds that are not the code's are `InvoiceIds` and `MaxEdits` (a run may stop
when they and the days are used: `CHECK_DEADLOCK FALSE` in the runs of
`Invoicing` and of the console, nowhere else), `MaxPayments`,
`MaxJobs`, `MaxRetries`, `MaxFaults`, and in the later modules `MaxMishaps`,
`MaxSnags`, `MaxSubs`, `MaxLosses`, `MaxFailures` (no job begins
after that many failures in a row: one more than makes the task), `MaxEtlFaults`,
`MaxDigestFaults`, `MaxTurns`, `MaxAlertFaults`.  Each is a guard of the action
that would exceed it.

In `Collections` the days are the four on which a stage begins and one before
the first, since nothing depends on the days between.  One invoice is enough:
no step relates two, and the list a run carries matters only for its age.  Three
subscription rows let two plan changes meet.  Two edits, of two requests, let
every pair meet in one month or follow in the next, with their rebuilds
interleaved at every statement; activation, drafts generated, requests lost,
flags raised and days gone by are not counted as edits, and the theorems hold
for any number.  Two months let rows begin in the future and end in the past.  In `Alerts` one signal needs two bad checks in a row and one needs
one, one is told at once and one waits for the digest.

Some assumptions narrow the models.  `Subscriptions`: a day passes only when no
request is under way, and a month is generated by one request at a time (what
two do is `OneLivePerPeriod`, in `Invoicing`).  `Alerts`: one digest of warnings
at a time.  `Digests`: a run does not last past midnight (it is cut
off after five minutes and runs in the morning), and every tenant is active.
`BillingRun`: the operators' requests and the snapshot come one after the other
(`OneAtATime`); with `OneAtATime = FALSE` TLC refutes `ManualStands`, which is
the hazard at `gross-sales.ts:247`.

### Fairness

* *Payments* and *Standing*: weak fairness of the next step of a server action
  that has begun (`Step(s)`).  A request that runs does run on; nothing obliges
  anyone to begin one, or a fault to happen or not to happen.
* *Provisioning*: weak fairness of the worker's step (it polls in a loop and
  systemd restarts it) and of a running job's claim growing old (time passes).
  Requests, failures and crashes are not fair.  `MaxFaults` and `MaxRetries`
  are finite: the worker claims the oldest queued job, so an endless sequence of
  crashes keeps every other job waiting.
* *Collections*: weak fairness of the ladder's steps, of its beginning (the
  daily cron call) and of the days.  Nobody has to issue, pay, resend or
  resolve.
* *Warehouse*: weak fairness of the nightly job's beginning and steps.
* *Alerts*: weak fairness of a poll's beginning (cron, every three minutes) and
  steps, and of cooldowns and maintenance windows running out.
* The other modules state safety only and assume no fairness.

## Findings

Runs whose property TLC refutes, each against words of the repository quoted in
`PROJECT.json`:

| Run | Property | What happens |
|---|---|---|
| `unreadable_seeded` | `UnreadableNeverIssued` | `manual.ts:79` drops the flag of an unreadable commission; the seeded draft is issued without it |
| `edited_after_approval` | `IssuedAsReviewed` | `manual.ts:205` replaces the lines of an approved hand-made draft and keeps the approval |
| `partial_billed` | `PartialNeverBilled` | `gross-sales.ts:131`: sales refreshed while the month is open are stored as good; after its end they are what an unreachable shop is billed on |

More of the same kind, each a definition of its module with a configuration of
its own (`tlc -config X.cfg M` shows the trace), not listed as runs:

| Configuration | Property | What happens |
|---|---|---|
| `MCPaymentsConcurrent.cfg` | `OnePaymentPerCredit` | `reconcile.ts:413` checks the bank line outside the transaction; two confirmations record the money twice |
| `MCStandingTwice.cfg` | `SuspendedIsHeld` | the second of two concurrent suspensions fails at its transaction and its compensation restores the shop |
| `MCProvisioningSecrets.cfg` | `OperatorsPassword` | `provision-actions.ts:146` queues the job before its secrets are stored; a worker between the two goes on without them |
| `MCInvoicingTwice.cfg` | `OneLivePerPeriod` | two requests generate one period: `generate.ts:227` reads without a lock |
| `MCInvoicingExpense.cfg` | `OneCharge` | an expense put on a hand-made draft (`manual.ts:259`) is also on the open generated draft |
| `MCInvoicingCreditPaid.cfg` | `AdmittedCanBeCredited` | `issue.ts:339` admits a paid invoice; the transition to void then refuses it |
| `MCInvoicingCredited.cfg` | `CreditedIsUnbilled` | `issue.ts:380`: crediting leaves once-offs linked to the void invoice |
| `MCInvoicingRemoved.cfg` | `EndedStaysUnbilled` | `service.ts:937`: a removed once-off keeps its window and is charged by a later draft |
| `MCInvoicingWaive.cfg` | `WaivedIsDropped` | `approval.ts:213`: waiving does not take away a commission line that is there |
| `MCPaymentsRetry.cfg` | `OnePaymentPerCredit` | a step after the payment fails; the line is still unmatched and is matched again |
| `MCPaymentsIgnored.cfg` | `IgnoredHasNoPayment` | `reconcile.ts:478`: ignoring overtakes a match in flight |
| `MCPaymentsIssued.cfg` | `OwingIsSettled` | `queries.ts:346`: an invoice issued and part paid between the two sums lowers the balance |
| `MCStandingUnrecorded.cfg` | `SuspendedIsHeld` | `service.ts:1153`: an unsuspension restores the shop, then its transaction fails and nothing puts the page back |
| `MCStandingRevived.cfg` | `OffboardedIsFinal` | `service.ts:1156`: the last update of an unsuspension does not check the status it read |
| `MCStandingPaged.cfg` | `SuspendedIsSilent` | `poller.ts:112`: a cycle that listed the tenant before its suspension opens an alert after it |

The newer modules end with definitions marked as refuted: statements one would
like to make of the code, of which TLC shows that they do not hold (add the
definition to `MCConsole.cfg` or `MCServices.cfg` to see the trace).

| Module | Definition | What happens |
|---|---|---|
| `Collections` | `UnsentIsListed` | a crash before `pdf_path` is recorded: the invoice is issued, never mailed, and `listUnsentInvoices` asks for a path |
| `Collections` | `PathHasFile` | `pdf.ts:98` unlinks the legal PDF before the new one is written |
| `Collections` | `RemindedIsUnpaid` | a payment after the list was read: the customer who paid is reminded |
| `Collections` | `EveryUnpaidIsEscalated` | a provisioned tenant has no billing contact, its ladder ends at the first stage every day (`dunning.ts:220`) |
| `Collections` | `DebtsOutliveTenants` | `dunning.ts:126` lists active and suspended tenants only: what an offboarded one owes is never escalated |
| `BillingRun` | `EnteredStands` | a figure entered before the month ends is overwritten by the next live read |
| `BillingRun` | `GeneratedOnClosedMonth` | the page drafts the coming period while the commission's month still runs |
| `BillingRun` | `ApprovedWasSeen` | approving all approves drafts rebuilt since the page was loaded |
| `Subscriptions` | `EveryDraftFollows` | a draft generated while an edit commits and lists the drafts is inserted as it was before (`generate.ts:208`), with no request lost |
| `Subscriptions` | `DraftsFollowPlan` | `changePlan` does not rebuild the coming month's draft |
| `Subscriptions` | `BreakdownAddsUp` | revenue by plan counts rows that have ended or not begun |
| `Subscriptions` | `TabShowsCurrent` | the billing tab calls next month's plan the current one |
| `Subscriptions` | `OneOpenSubscription` | two plan changes in a month schedule two subscriptions |
| `Subscriptions` | `EndedStaysEnded` | removing an expense that has ended extends it to the end of this month (`MaxEdits = 3`) |
| `Warehouse` | `VerifiedWasTested` | a settings form that read the old property writes it back as verified |
| `Warehouse` | `TrafficIsOfProperty` | rows of a property the tenant has left stay |
| `Warehouse` | `DetailWithSales` | a job that ends, or fails, between its two statements leaves a day without its products for good |
| `Warehouse` | `SumsAreWhole`, `CompleteIsWhole` | sums over a range with missing days are shown as whole |
| `Digests` | `OptOutStands` | a settings page open since before the unsubscription turns the digests on again |
| `Alerts` | `OpenIsTold` | a critical alert is open and nobody heard of it: the process ended, or the channel failed |
| `Alerts` | `WarningsAreTold` | a digest no channel takes is marked sent (`alerts.ts:316`) and its warnings are never told |
| `Alerts` | `SuspendedIsQuiet` | a poll under way when the shop is suspended opens an alert |

`DigestsBounded` and `ToldFollowsAlert` hold for one run or poll at a time and
are refuted with two (`DigestRuns = {r1, r2}`, `Polls = {p1, p2}`): nothing
in the repository keeps a cron call from overlapping the one before it.

Seen while modelling `Provisioning`, with no property yet: a placed tenant's job
can never succeed after a crash past the placement (the slug now collides with
its own tenant); when the assets
symlink fails after `compose up` the container is left up, as the flag that asks
for its cleanup is set after both (`routine.ts:771`);
a failure to write the log after placement tears the container down; the worker checks the
slug but not the domain again; with two workers a run longer than the stale
threshold is taken over while it lives, which the deployment rules out
(`deploy/systemd/mercata-provision-worker.service:3`).

## Proofs

`tlapm XProofs.tla`.  Every theorem holds for all values of the constants
allowed by the named assumptions of its module; where it needs more, the
statement says so.  `InvoicingProofs` cites `InvoiceRegisterProofs`,
`ConsoleProofs` cites `CollectionsProofs`.

| Theorem | States | By |
|---|---|---|
| `Invoicing` `TypeCorrect` | `TypeOK` and what each request in flight carries (`SessionInv`) | induction on its own |
| `ReviewGate`, `FlaggedNotApproved`, `CommissionAccounted` | the three review properties, for any number of concurrent requests | `IInv` |
| `Refinement` | `Spec => RegisterKept` | `IInv`, one lemma per step |
| `RegisterGapFree`, `GapFreeNumbers` | numbers per year are 1..n without gaps or repeats | the register's own invariant, then the refinement |
| `CreditNotesKept` | credit notes are of void invoices, one each, with numbers that repeat and skip nothing | `CreditInv` |
| `NoChargeIsLost` | the invoice a once-off is billed on exists and, if it was generated, charges it, under any races | `DraftInv` |
| `PeriodsAreTakenOnce`, `OnceOffsAreChargedOnce` | `OneSession`: one live invoice a period, one automatic charge of a once-off | `SingleInv` |
| `Payments` `TypeCorrect`, `MatchedCarries` | a matched line points at a payment captured from it | `IInv` |
| `CoveredIsSettled` | an open invoice that carries a payment is not covered, in any order of captures, allocations and matches | `CoveredInv` |
| `UnsuspendedOwesNothing` | `NothingIsIssued`, `EveryInvoiceOwes`: what a tenant was found to owe is settled when it is unsuspended | `OwingInv` |
| `Standing` `TypeCorrect` | `TypeOK` | `Typed` |
| `RecordedWhileHeld` | `OneSession`: suspended is recorded only while the page is up, any faults and crashes | `PagesUp` |
| `FailedSuspensionServed` | `OneSession`, `OneFault`: an active tenant is served when nothing runs | `Alone` |
| `OffboardedForGood` | `OneSession`: an offboarded tenant stays so, any faults and crashes | `WriteAllowed` |
| `CollectionsTypes`, `NoRungIsSkipped`, `SettledStays` | types; the operator's task follows a mail of every rung, for any number of overlapping ladders; no step takes a settled invoice back | `IInv` |
| `RemindersAreBounded` | `OneLadder`: a rung is mailed once, and once more for each mishap | `CountInv` |
| `BillingRunTypes` | types, for requests that overlap too | `BillingInv` |
| `EnteredFigureStands` | the constant `OneAtATime`: a figure typed in for an ended month stays | `TypedInv` |
| `SubscriptionsTypes`, `ShownIsWhatIsBilled`, `NoBackdating` | types; the queries of the pages agree with those of billing; no edit changes what a day gone by cost | `RowsInv` |
| `DraftsFollow`, `FlagsKeep` | for any number of edits, generations and interleaved rebuilds, a draft that none has yet to rebuild is what its month would be billed, but for those a change is known to have missed (`outdated`); an answered flag keeps its answer | `EditorsInv`, `DraftsInv`, `MarksAfterMove` |
| `ConsoleIsItsParts`, `ConsoleTypes` | a behaviour of the checked composition is one of each of its modules, so what is proved of them holds of it | step by step |
| `DigestsTypes` | types | `DigestInv` |
| `DigestsAreBounded` | `OneDigestRun`: an address gets a period's digest once, and once more for each mishap | `DigestCountInv` |
| `AlertsTypes` | types | `AlertInv` |
| `ToldIsWhatItSays` | `OnePoll`: once no poll is about to tell of a signal and no row of it waits, the last event a channel took is what its alert says, unless that change is known to be untold | `ToldInv` |
| `WarehouseTypes` | types | induction on its own |
| `ServicesAreTheirParts`, `ServicesTypes` | as for the console | step by step |
| `Provisioning` `TypeCorrect`, `SucceededForGood` | any number of workers | `Rows` |
| `SucceededServed` | `OneWorker`: a succeeded job's container is up | `Server` |

The invariants, and why the property alone is not inductive:

* **Invoicing** `IInv == TypeOK /\ SessionInv /\ LockInv /\ ReviewInv`. A
  rebuild reads the draft, then writes it later: `AutoIssuedAsReviewed` survives
  because the row stays locked (`LockInv`: one rebuild holds an invoice and it
  is a draft as read), and because an approved draft has the lines of its
  approval, carries no flag and has commission or its waiver (`ReviewInv`, about
  drafts, from which the properties about issued invoices follow). `CreditInv`
  adds that credit notes are numbered in a year there is. `DraftInv`: the draft
  an expense was put on, and will be linked to in a later step, was made by hand
  and its id is not taken again by a generated one. `SingleInv` is about what a
  request has read and not yet used: the period it checked is still free
  (`PeriodsFree`), the once-offs it read are still unbilled (`LinksFree`), and a
  charged once-off is a billed one (`ChargedIsBilled`). The first is what two
  requests break (`MCInvoicingTwice.cfg`).
* **InvoiceRegister** adds `Unregistered`: an unentered invoice has no number,
  so entering one cannot repeat one. It needs `YearsArePositive`, since year 0
  marks the absence of a number.
* **Payments** adds `CarriedInv`: an action that has committed its payment knows
  a payment that exists, captured from the credit it will mark. Without it
  `Mark` could write anything. `CoveredInv` adds `DraftsUnpaid`: issuing opens
  an invoice without a look at payments, so a draft must have none. `OwingInv`
  is about what an action has learnt by then (`LearntInv`): after the first
  balance query every invoice of the tenant that is open was open for that
  query, after the second none of them is. That is false as soon as an invoice
  can be issued between the two (`MCPaymentsIssued.cfg`), hence
  `NothingIsIssued`; an invoice of nothing would be open with nothing owed,
  hence `EveryInvoiceOwes`. Both need facts about sums over finite sets of
  payments (that they are integers, split over disjoint sets, grow by what is
  appended). The library states none and its induction theorems take an
  operator, so the lemmas go through a minimal counterexample instead: a set of
  subsets without a smallest member is empty (`WFMin` of `WellFoundedInduction`,
  on the subset order).
* **Standing**. `PagesUp`: a suspension at its transaction has its page up.
  `Alone` gives, place by place, what the one operation in flight has done to
  route and status (`Suspending`, `Undoing`, `Unsuspending`) and that every
  other tenant is served. `WriteAllowed`: an operation about to write the status
  read, in the same transaction, one that allows it. All three theorems are
  false with two sessions (`MCStandingTwice.cfg`, `MCStandingRevived.cfg`), the
  second also with two faults: a failed suspension whose compensation fails too
  leaves the page up.
* **Collections** `IInv == CollectionsTypeOK /\ WorkersSound /\ LoggedWasMailed
  /\ TaskAfterReminders`. A ladder skips a stage it finds in the log and goes on
  to the task, so a logged stage must have been mailed, and a worker past a
  stage must have seen it mailed or logged (`Sound`). Neither needs ladders to
  come one at a time: each row follows its own mail. The count does: `Counted`
  has a mail accounted for by its log row, by the run about to write that row or
  by a mishap, and `NotYetLogged` says that a run at a stage finds it unlogged,
  which a second run makes false.
* **BillingRun** `TypedInv`: no live read is under way for a client whose figure
  was typed in, since reading starts where there is no good figure and typing
  one makes it good. With overlapping requests the read may have begun before.
* **Subscriptions** `RowsInv`: rows are in the order of their start
  (`RowsInOrder`), have begun or begin with the coming month, end with a month
  if they end (`RowsByMonth`, `ExpenseByMonth`), one of them runs today
  (`RowToday`) and the last has no end (`LastRunsOn`). From it the five queries
  find the same row wherever the pages rely on it. It rests on lemmas about days
  and months that hold for any length of month. `EditorsInv` is about
  the requests between two steps: what they have listed are drafts, each locked
  row is locked by one of them, and a month that is generating has no draft.
  `DraftsInv` then speaks of what has been read and not yet written, since that
  is what a draft becomes: what is read for a draft (`generating`, the `row` of a
  locked one) and what a draft is equal `Built`, unless an edit is due, the draft
  awaits a rebuild, or a change is known to have missed it (`outdated`).
  `MarksAfterMove` says that the mark of a flag follows a change of plan.
* **Digests** `DigestInv` adds that a run past the choice of a tenant has its
  row in hand; `DigestCountInv` that what it is about to send has no row yet,
  and that a mail is accounted for by its row, by the run about to write it or
  by a mishap.
* **Alerts** `AlertInv` adds that a poll in the middle of a signal has it in
  hand and that only warnings are queued.  `ToldInv` adds where the news of a
  change is on its way to the operator: what a poll is about to tell is what the
  alert became (`TellsTheChange`); once told, the last row of the signal in the
  queue says what its alert is, and with no row behind those a channel took and
  that are still to be marked, `told` does (`TellsItsState`).  So rows queued
  behind a digest under way, and a digest sent twice, do no harm.
* **Provisioning**. A job's outcome is written at the end of a run that may be
  overtaken, so `Server` says: a worker at a step runs a job that is `running`
  (`RunsItsJob`), no other job of its tenant has succeeded after validation
  (`AloneForTenant`), the container is up from the health check on
  (`ContainerIsUp`), a worker at success has reported nothing else
  (`ReportedLast`), and a request never holds a job that has begun
  (`NotStarted`). With two workers TLC refutes `SucceededIsUp`.

The hypotheses are of two kinds.  The `ASSUME`s of the modules say what a
constant is (a month has a day, a bound is a natural number, days have a first,
the things an invoice charges are distinct) and TLC evaluates them in the runs.
The hypotheses in the theorems' own statements (`OneSession`, `OneLadder`,
`OneDigestRun`, `OnePoll`, `OneWorker`, `OneAtATime`, `NothingIsIssued`,
`OneFault`) exclude a race, or a second fault, that the code does not exclude: TLC
refutes the property when the constants allow it (two members in the set
concerned are enough).  They are true of the system as long as requests on one
object, cron runs and workers do not overlap, which the deployment may see to and
the code does not.  `EveryInvoiceOwes` says that invoices have a total.

**Only model-checked.**  Liveness under fairness is out of the prover's reach:
`SuspensionDecided`, `OperationEnds`, `ClearedIsUnsuspended`, `JobEnds`,
`UnpaidIsEscalated`, `LostAccessIsReported` and `TroubleIsRaised` are checked by
TLC alone.  So are, being false, the properties of the findings.  Every
invariant and every other action property of the passing runs is the statement
of a theorem.

## Not modelled

Layout and wording (PDF, e-mail, pages), the parsing of statement files, the
audit log, file uploads, the migrations and cryptographic primitives: text or
I/O with no control to check.  Sign-in and its lockout counter, and the choice
among several servers (`Provisioning` has one): small, and apart from the rest.
Within the modelled parts: amounts of lines, VAT and commission, operator
notes, the paths exempt from the holding page, several hosts of one tenant, the
contents of `.env`, redaction and the job's log, which analytics metrics there
are, the thresholds of the probes, South African time.  `PROJECT.json` lists
every component with its status.

## Plan

Done: the modules above with their runs; a theorem for every safety property of
a passing run.

Next:

1. An abstract specification of the ladder (a customer hears of an unpaid
   invoice rung by rung, then the operator does), implemented by `Collections`,
   proved along `NoRungIsSkipped`; and one of the status of a tenant,
   implemented by `Standing` for one operation at a time.
2. Weaker hypotheses: what stays true of `Standing` when operations on one
   tenant overlap, and of `OwingIsSettled` when invoices are issued, but not to
   the tenant whose payment is being recorded.
3. The hazards without a property (`PROJECT.json`): a crash between an issued
   invoice's steps, the compensation that takes down another request's page.
