-------------------------------- MODULE Alerts --------------------------------
(***************************************************************************)
(* The alerts of one tenant: a poll probes the deployment, stores the      *)
(* check, evaluates every signal over the latest checks (health/poller.ts, *)
(* probe.ts, signals.ts) and opens or resolves the signal's alert          *)
(* (health/alerts.ts).  A critical signal is told at once, a warning waits *)
(* for the daily digest.                                                   *)
(*                                                                         *)
(* The state of an alert is written first, and told in a later statement;  *)
(* an alert that is open is not told again.  Told is what some channel     *)
(* took: a warning's row is not told before its digest, and a digest no    *)
(* channel took is marked sent all the same.                               *)
(***************************************************************************)
EXTENDS Integers, Sequences

CONSTANTS
  Signals,        \* site_down, slow, ...
  Critical,       \* those told at once
  SiteDown,       \* the signal of a check that is not ok
  Consecutive,    \* how many checks in a row must be bad (2 for site_down, 3 for slow)
  Polls,          \* polls that may overlap
  MaxTurns,       \* bound on what happens to the shop: troubles, suspensions, windows
  MaxAlertFaults  \* bound on polls and digests that end half-way

\* Some signal takes the most checks.
ASSUME AlertsAssumption ==
  /\ Consecutive \in [Signals -> Nat \ {0}] /\ SiteDown \in Signals
  /\ \E s \in Signals : \A t \in Signals : Consecutive[t] <= Consecutive[s]
  /\ MaxTurns \in Nat /\ MaxAlertFaults \in Nat

VARIABLES
  trouble,      \* the signals whose condition holds at the deployment
  checks,       \* health_checks: what the latest ones found, newest first
  alerts,       \* alert_states: is it open, and does its cooldown last
  shopActive,   \* tenants.status is active
  maintenance,  \* a window is open
  poll,
  told,         \* the last event of each signal that a channel took
  untold,       \* history: signals whose last change will never be told
  queue,        \* alert_digest_queue: the rows with no sent_at, oldest first
  warning,      \* the digest that is under way, and how many rows it has read
  turns,
  alertFaults

alertVars == <<trouble, checks, alerts, shopActive, maintenance, poll, told, untold, queue,
               warning, turns, alertFaults>>

Longest == CHOOSE n \in {Consecutive[s] : s \in Signals} :
             \A s \in Signals : Consecutive[s] <= n
Events == {"nothing", "opened", "recovered"}
Off == [at |-> "idle", recent |-> <<>>, found |-> {}, left |-> {}, of |-> {},
        event |-> "nothing"]
Rows == [signal : Signals, event : Events]
NoDigest == [at |-> "idle", rows |-> 0]

AlertsTypeOK ==
  /\ trouble \subseteq Signals
  /\ checks \in Seq(SUBSET Signals) /\ Len(checks) < Longest
  /\ alerts \in [Signals -> [open : BOOLEAN, cooling : BOOLEAN]]
  /\ shopActive \in BOOLEAN /\ maintenance \in BOOLEAN
  /\ \A p \in Polls :
       /\ poll[p].at \in {"idle", "probe", "store", "evaluate", "signals",
                          "open", "resolve", "tell"}
       /\ poll[p].left \subseteq Signals /\ poll[p].of \subseteq Signals
       /\ poll[p].event \in Events
  /\ told \in [Signals -> Events] /\ untold \subseteq Signals
  /\ queue \in Seq(Rows)
  /\ warning.at \in {"idle", "send", "mark", "refused"} /\ warning.rows \in 0 .. Len(queue)
  /\ turns \in 0 .. MaxTurns /\ alertFaults \in 0 .. MaxAlertFaults

AlertsInit ==
  /\ trouble = {} /\ checks = <<>>
  /\ alerts = [s \in Signals |-> [open |-> FALSE, cooling |-> FALSE]]
  /\ shopActive = TRUE /\ maintenance = FALSE
  /\ poll = [p \in Polls |-> Off]
  /\ told = [s \in Signals |-> "nothing"] /\ untold = {}
  /\ queue = <<>> /\ warning = NoDigest
  /\ turns = 0 /\ alertFaults = 0

-----------------------------------------------------------------------------
(* The poll.                                                               *)

PollAt(p, place) == poll[p].at = place
Telling(s) == \E p \in Polls : PollAt(p, "tell") /\ s \in poll[p].of
PollGoes(p, place) == poll' = [poll EXCEPT ![p].at = place]
PollEnds(p) == poll' = [poll EXCEPT ![p] = Off]

\* evaluateSignals: the last checks, this one included, are all bad.
LastChecks(p, n) ==
  LET withCurrent == <<poll[p].found>> \o poll[p].recent
  IN SubSeq(withCurrent, 1, IF Len(withCurrent) < n THEN Len(withCurrent) ELSE n)

SignalNeverActive(p, s) ==
  LET lastN == LastChecks(p, Consecutive[s])
  IN Len(lastN) > Consecutive[s] /\ \A i \in 1 .. Len(lastN) : s \in lastN[i]
SignalActive(p, s) ==
  LET lastN == LastChecks(p, Consecutive[s])
  IN Len(lastN) >= Consecutive[s] /\ \A i \in 1 .. Len(lastN) : s \in lastN[i]

BeginPoll(p) ==
  /\ PollAt(p, "idle")
  /\ shopActive
  /\ poll' = [poll EXCEPT ![p] = [Off EXCEPT !.at = "probe", !.recent = checks]]
  /\ UNCHANGED <<trouble, checks, alerts, shopActive, maintenance, told, untold, queue,
                 warning, turns, alertFaults>>

PollTenant(p) ==
  /\ PollAt(p, "probe")
  /\ poll' = [poll EXCEPT ![p].at = "store", ![p].found = trouble]
  /\ UNCHANGED <<trouble, checks, alerts, shopActive, maintenance, told, untold, queue,
                 warning, turns, alertFaults>>

KeptAll(all) == all
Kept(all) == SubSeq(all, 1, IF Len(all) < Longest THEN Len(all) ELSE Longest - 1)

StoreHealthCheck(p) ==
  /\ PollAt(p, "store")
  /\ checks' = Kept(<<poll[p].found>> \o checks)
  /\ PollGoes(p, "evaluate")
  /\ UNCHANGED <<trouble, alerts, shopActive, maintenance, told, untold, queue, warning,
                 turns, alertFaults>>

\* Nothing is applied while a maintenance window is open.
ApplySignals(p) ==
  /\ PollAt(p, "evaluate")
  /\ IF maintenance
     THEN PollEnds(p)
     ELSE poll' = [poll EXCEPT ![p].at = "signals", ![p].left = Signals]
  /\ UNCHANGED <<trouble, checks, alerts, shopActive, maintenance, told, untold, queue,
                 warning, turns, alertFaults>>

\* What is to be done about a signal, from its row as it is now.
ApplyOneSignal(p, s) ==
  /\ PollAt(p, "signals")
  /\ s \in poll[p].left
  /\ LET do == IF SignalActive(p, s)
               THEN IF alerts[s].open \/ alerts[s].cooling THEN "signals" ELSE "open"
               ELSE IF alerts[s].open THEN "resolve" ELSE "signals"
     IN poll' = [poll EXCEPT ![p].at = do,
                             ![p].left = @ \ {s},
                             ![p].of = IF do = "signals" THEN {} ELSE {s}]
  /\ UNCHANGED <<trouble, checks, alerts, shopActive, maintenance, told, untold, queue,
                 warning, turns, alertFaults>>

SignalsDone(p) ==
  /\ PollAt(p, "signals")
  /\ poll[p].left = {}
  /\ PollEnds(p)
  /\ UNCHANGED <<trouble, checks, alerts, shopActive, maintenance, told, untold, queue,
                 warning, turns, alertFaults>>

\* Opening and resolving both start the cooldown.
ChangeAlert(p) ==
  /\ poll[p].at \in {"open", "resolve"}
  /\ \E s \in poll[p].of :
       /\ alerts' = [alerts EXCEPT ![s] = [open |-> PollAt(p, "open"), cooling |-> TRUE]]
       /\ untold' = untold \ {s}
  /\ poll' = [poll EXCEPT ![p].at = "tell",
                          ![p].event = IF PollAt(p, "open") THEN "opened" ELSE "recovered"]
  /\ UNCHANGED <<trouble, checks, shopActive, maintenance, told, queue, warning, turns,
                 alertFaults>>

\* dispatchAlert: a critical alert goes to the channels now; one that no channel
\* takes is only logged.  A warning becomes a row of the queue and is not told yet.
DispatchAlert(p) ==
  /\ PollAt(p, "tell")
  /\ \E s \in poll[p].of :
       \/ /\ s \in Critical
          /\ told' = [told EXCEPT ![s] = poll[p].event]
          /\ UNCHANGED <<untold, queue>>
       \/ /\ s \in Critical
          /\ untold' = untold \cup {s}
          /\ UNCHANGED <<told, queue>>
       \/ /\ s \notin Critical
          /\ queue' = Append(queue, [signal |-> s, event |-> poll[p].event])
          /\ UNCHANGED <<told, untold>>
  /\ poll' = [poll EXCEPT ![p].at = "signals", ![p].of = {}, ![p].event = "nothing"]
  /\ UNCHANGED <<trouble, checks, alerts, shopActive, maintenance, warning, turns,
                 alertFaults>>

\* A statement fails, or the process ends: the tenant's other signals wait for
\* the next poll, and what was written and not told stays untold.
PollFails(p) ==
  /\ ~PollAt(p, "idle")
  /\ alertFaults < MaxAlertFaults
  /\ alertFaults' = alertFaults + 1
  /\ untold' = untold \cup (IF PollAt(p, "tell") THEN poll[p].of ELSE {})
  /\ PollEnds(p)
  /\ UNCHANGED <<trouble, checks, alerts, shopActive, maintenance, told, queue, warning,
                 turns>>

-----------------------------------------------------------------------------
(* The digest of warnings: the rows it reads are the oldest of the queue,  *)
(* which grows behind them.                                                *)

IsLast(i, s, rows) ==
  rows[i].signal = s /\ \A j \in i + 1 .. Len(rows) : rows[j].signal # s
Queued(s, rows) == \E i \in 1 .. Len(rows) : rows[i].signal = s

RowsRead == SubSeq(queue, 1, warning.rows)
RowsBehind == SubSeq(queue, warning.rows + 1, Len(queue))

ReadQueue ==
  /\ warning.at = "idle"
  /\ queue # <<>>
  /\ warning' = [at |-> "send", rows |-> Len(queue)]
  /\ UNCHANGED <<trouble, checks, alerts, shopActive, maintenance, poll, told, untold,
                 queue, turns, alertFaults>>

\* notifyAll: a channel that takes the digest tells its rows in their order; one
\* that fails is logged and nothing else, and it may be that each of them fails.
SendWarnings ==
  /\ warning.at = "send"
  /\ \/ /\ warning' = [warning EXCEPT !.at = "mark"]
        /\ told' \in [Signals -> Events]
        /\ \A s \in Signals :
             IF Queued(s, RowsRead)
             THEN \E i \in 1 .. warning.rows : /\ IsLast(i, s, RowsRead)
                                              /\ told'[s] = RowsRead[i].event
             ELSE told'[s] = told[s]
     \/ /\ warning' = [warning EXCEPT !.at = "refused"]
        /\ UNCHANGED told
  /\ UNCHANGED <<trouble, checks, alerts, shopActive, maintenance, poll, untold, queue,
                 turns, alertFaults>>

\* The rows that were read are marked, told or not.
MarkAllSent ==
  /\ warning.at \in {"mark", "refused"}
  /\ queue' = <<>>
  /\ warning' = NoDigest
  /\ untold' = IF warning.at = "mark" THEN untold
               ELSE untold \cup {s \in Signals : Queued(s, RowsRead)}
  /\ UNCHANGED <<trouble, checks, alerts, shopActive, maintenance, poll, told, turns,
                 alertFaults>>
MarkSent ==
  /\ warning.at \in {"mark", "refused"}
  /\ queue' = RowsBehind
  /\ warning' = NoDigest
  /\ untold' = IF warning.at = "mark" THEN untold
               ELSE untold \cup {s \in Signals : /\ Queued(s, RowsRead)
                                               /\ ~Queued(s, RowsBehind)
                                               /\ ~Telling(s)}
  /\ UNCHANGED <<trouble, checks, alerts, shopActive, maintenance, poll, told, turns,
                 alertFaults>>

WarningsAbort ==
  /\ warning.at # "idle"
  /\ alertFaults < MaxAlertFaults
  /\ alertFaults' = alertFaults + 1
  /\ warning' = NoDigest
  /\ UNCHANGED <<trouble, checks, alerts, shopActive, maintenance, poll, told, untold,
                 queue, turns>>

-----------------------------------------------------------------------------
(* What happens to the shop, and what the operator does.                   *)

Turn == turns < MaxTurns /\ turns' = turns + 1

TroubleTurns(s) ==
  /\ Turn
  /\ trouble' = IF s \in trouble THEN trouble \ {s} ELSE trouble \cup {s}
  /\ UNCHANGED <<checks, alerts, shopActive, maintenance, poll, told, untold, queue,
                 warning, alertFaults>>

\* silenceTenantForHours
Silence ==
  /\ Turn
  /\ maintenance' = TRUE
  /\ UNCHANGED <<trouble, checks, alerts, shopActive, poll, told, untold, queue, warning,
                 alertFaults>>

\* Suspension closes the open alerts and tells nobody.
SuspendShop ==
  /\ shopActive /\ Turn
  /\ shopActive' = FALSE
  /\ alerts' = [s \in Signals |-> [alerts[s] EXCEPT !.open = FALSE]]
  /\ untold' = untold \cup {s \in Signals : alerts[s].open}
  /\ UNCHANGED <<trouble, checks, maintenance, poll, told, queue, warning, alertFaults>>

UnsuspendShop ==
  /\ ~shopActive
  /\ shopActive' = TRUE
  /\ UNCHANGED <<trouble, checks, alerts, maintenance, poll, told, untold, queue, warning,
                 turns, alertFaults>>

WindowEnds ==
  /\ maintenance
  /\ maintenance' = FALSE
  /\ UNCHANGED <<trouble, checks, alerts, shopActive, poll, told, untold, queue, warning,
                 turns, alertFaults>>

CooldownEnds(s) ==
  /\ alerts[s].cooling
  /\ alerts' = [alerts EXCEPT ![s].cooling = FALSE]
  /\ UNCHANGED <<trouble, checks, shopActive, maintenance, poll, told, untold, queue,
                 warning, turns, alertFaults>>

PollStep(p) ==
  \/ PollTenant(p)
  \/ StoreHealthCheck(p)
  \/ ApplySignals(p)
  \/ \E s \in Signals : ApplyOneSignal(p, s)
  \/ SignalsDone(p)
  \/ ChangeAlert(p)
  \/ DispatchAlert(p)

AlertsNext ==
  \/ \E p \in Polls : BeginPoll(p) \/ PollStep(p) \/ PollFails(p)
  \/ ReadQueue \/ SendWarnings \/ MarkSent \/ WarningsAbort
  \/ \E s \in Signals : TroubleTurns(s) \/ CooldownEnds(s)
  \/ Silence \/ SuspendShop \/ UnsuspendShop \/ WindowEnds

AlertsSpec == AlertsInit /\ [][AlertsNext]_alertVars

\* The cron polls every three minutes; cooldowns and windows run out.
AlertsFair ==
  /\ \A p \in Polls : WF_alertVars(BeginPoll(p)) /\ WF_alertVars(PollStep(p))
  /\ \A s \in Signals : WF_alertVars(CooldownEnds(s))
  /\ WF_alertVars(WindowEnds)

-----------------------------------------------------------------------------
(* What the health page shows.                                             *)

\* The open alerts of a shop that is not suspended.
Incidents == {s \in Signals : shopActive /\ alerts[s].open}

\* tileTone, of a shop that is not suspended and was checked.
TileTone ==
  CASE Incidents \cap Critical # {} \/ SiteDown \in Head(checks) -> "Down"
    [] Incidents \cap Critical = {} /\ SiteDown \notin Head(checks) ->
         IF Incidents # {} THEN "Degraded" ELSE "Healthy"
TileLabel ==
  CASE ~shopActive -> "Suspended"
    [] shopActive /\ checks = <<>> -> "Not checked"
    [] shopActive /\ checks # <<>> -> TileTone

-----------------------------------------------------------------------------
(* Properties.                                                             *)

\* The last event of a signal that a channel took is what its alert says, once
\* nothing of it waits: no poll is about to tell it and no row of it is queued.
\* Excused are the signals whose last change the program told nobody and never
\* will: a critical alert, or the digest of a warning, that no channel took; a
\* poll that ended between the change and its telling; a suspension, which closes
\* alerts silently.  So digests that end half-way and are sent again, rows queued
\* behind one that is under way, and changes told in a later digest than others
\* leave the operator with the state as it is.
ToldFollowsAlert ==
  \A s \in Signals \ untold :
    ~Telling(s) /\ ~Queued(s, queue) => (told[s] = "opened" <=> alerts[s].open)

\* Trouble that lasts becomes an incident, whatever window or cooldown it began
\* in, as long as the shop is not suspended.
TroubleIsRaised ==
  \A s \in Signals :
    s \in trouble ~> \/ s \in Incidents
                     \/ s \notin trouble
                     \/ ~shopActive

\* Refuted: the change is written before it is told, and a poll that ends between
\* the two, or a channel that fails, leaves a critical alert nobody hears of.
OpenIsTold ==
  (\A p \in Polls : PollAt(p, "idle")) =>
    \A s \in Critical : alerts[s].open => told[s] = "opened"

\* Refuted: a digest that no channel takes is marked sent, and its warnings are
\* open with nobody told.
WarningsAreTold ==
  (\A p \in Polls : PollAt(p, "idle")) /\ queue = <<>> =>
    \A s \in Signals \ Critical : alerts[s].open => told[s] = "opened"

\* Refuted: a poll that was under way when the shop was suspended opens an alert.
SuspendedIsQuiet == ~shopActive => \A s \in Signals : ~alerts[s].open
=============================================================================
