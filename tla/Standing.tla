------------------------------ MODULE Standing ------------------------------
(***************************************************************************)
(* A tenant's standing lives in two places: tenants.status in the database *)
(* and the tenant's route in the Caddy proxy, which serves either the shop *)
(* or the suspension holding page.  suspendTenant and unsuspendTenant      *)
(* change the proxy first and the database second, with reads and checks   *)
(* in between (src/lib/tenants/service.ts, src/lib/caddy/enforce.ts);      *)
(* activateTenant and offboardTenant change the database only; the health  *)
(* poller opens alerts for the tenants it listed as active.                *)
(*                                                                         *)
(* A session is one server action.  Each call to Caddy and each SQL        *)
(* transaction is a step; a transaction that reads the status with a plain *)
(* SELECT and then writes it is two, since the row is not locked.          *)
(***************************************************************************)
EXTENDS Naturals

CONSTANTS
  Tenants, Sessions,
  Faults,      \* which calls may fail: see FaultKinds
  MaxFaults,   \* bound on the faults one operation meets
  None

FaultKinds == {"caddy",     \* a read of Caddy's configuration, or a PATCH
               "verify",    \* the page could not be fetched as expected
               "rollback",  \* both PATCHes of rollbackRoute
               "database",  \* the transaction after the proxy's change
               "crash"}     \* the process ends

ASSUME FaultsAssumption ==
  /\ Faults \subseteq FaultKinds
  /\ MaxFaults \in Nat
  /\ None \notin Tenants \cup {"shop", "holding"}

VARIABLES
  status,   \* tenants.status
  route,    \* what Caddy serves on the tenant's hosts
  tagged,   \* whether the route carries its tenant @id yet
  alerts,   \* whether alert_states has an open row for the tenant
  polled,   \* tenants a running poll cycle listed and has not finished
  session

vars == <<status, route, tagged, alerts, polled, session>>

Statuses == {"prospect", "active", "suspended", "offboarded"}
Pages == {"shop", "holding"}

Operations == {"suspend", "unsuspend", "offboard", "activate"}

\* `want`: the page being put up; `snap`: the tenant's route in the snapshot
\* file, None when it was not tagged then; `before`: the route as read just
\* before the PATCH; `undo`: suspendTenant is taking its page down again;
\* `faults` counts the faults met, for the bound.
Session == [op : Operations \cup {None}, tenant : Tenants \cup {None},
            at : {"idle", "snapshot", "tag", "read", "patch", "verify",
                  "rollback", "commit", "write"},
            want : Pages, snap : Pages \cup {None}, before : Pages \cup {None},
            undo : BOOLEAN, faults : Nat]
Idle == [op |-> None, tenant |-> None, at |-> "idle", want |-> "shop",
         snap |-> None, before |-> None, undo |-> FALSE, faults |-> 0]

TypeOK ==
  /\ status \in [Tenants -> Statuses]
  /\ route \in [Tenants -> Pages]
  /\ tagged \in [Tenants -> BOOLEAN]
  /\ alerts \in [Tenants -> BOOLEAN]
  /\ polled \subseteq Tenants
  /\ session \in [Sessions -> Session]

Init ==
  /\ status \in [Tenants -> {"prospect", "active"}]
  /\ route = [t \in Tenants |-> "shop"]
  /\ tagged \in [Tenants -> BOOLEAN]
  /\ alerts = [t \in Tenants |-> FALSE]
  /\ polled = {}
  /\ session = [s \in Sessions |-> Idle]

-----------------------------------------------------------------------------
(* The status each operation needs, in its first read and in the           *)
(* transaction that writes, and the one it leaves.                         *)

MayRunRevives(op, st) ==
  CASE op = "suspend"   -> st = "active"
    [] op = "unsuspend" -> st \notin {"prospect", "active"}
    [] op = "activate"  -> st = "prospect"
    [] op = "offboard"  -> st # "offboarded"

MayRun(op, st) ==
  CASE op = "suspend"   -> st = "active"
    [] op = "unsuspend" -> st = "suspended"
    [] op = "activate"  -> st = "prospect"
    [] op = "offboard"  -> st # "offboarded"

Outcome(op) ==
  CASE op = "suspend"   -> "suspended"
    [] op = "unsuspend" -> "active"
    [] op = "activate"  -> "active"
    [] op = "offboard"  -> "offboarded"

Moved(s, to) ==
  session' = [session EXCEPT ![s].at = to]

\* The calls of a kind fail, at most MaxFaults times in one operation.
MayFail(s, kind) ==
  /\ kind \in Faults
  /\ session[s].faults < MaxFaults

FaultMoved(s, to) ==
  session' = [session EXCEPT ![s] =
                [@ EXCEPT !.at = to, !.faults = session[s].faults + 1]]

Ended(s) == session' = [session EXCEPT ![s] = Idle]

\* suspendTenant answers a failed transaction by enforceCaddyUnsuspend;
\* unsuspendTenant, offboardTenant and activateTenant only report it.
NotCompensated(s, n) == Ended(s)
Compensated(s, n) ==
  IF session[s].op = "suspend"
  THEN session' = [session EXCEPT ![s] =
                     [op |-> "suspend", tenant |-> @.tenant, at |-> "snapshot",
                      want |-> "shop", snap |-> None, before |-> None,
                      undo |-> TRUE, faults |-> n]]
  ELSE Ended(s)

\* The first transaction of suspendTenant and unsuspendTenant.
BeginEnforced(s, op, t) ==
  /\ op \in {"suspend", "unsuspend"}
  /\ session[s].at = "idle"
  /\ MayRun(op, status[t])
  /\ session' = [session EXCEPT ![s] =
                   [op |-> op, tenant |-> t, at |-> "snapshot",
                    want |-> IF op = "suspend" THEN "holding" ELSE "shop",
                    snap |-> None, before |-> None, undo |-> FALSE, faults |-> 0]]
  /\ UNCHANGED <<status, route, tagged, alerts, polled>>

\* activateTenant and offboardTenant: one transaction, read then write.
BeginPlain(s, op, t) ==
  /\ op \in {"activate", "offboard"}
  /\ session[s].at = "idle"
  /\ MayRun(op, status[t])
  /\ session' = [session EXCEPT ![s] =
                   [op |-> op, tenant |-> t, at |-> "write", want |-> "shop",
                    snap |-> None, before |-> None, undo |-> FALSE, faults |-> 0]]
  /\ UNCHANGED <<status, route, tagged, alerts, polled>>

-----------------------------------------------------------------------------
(* enforceCaddySuspend and enforceCaddyUnsuspend.                          *)

Snapshot(s) ==
  /\ session[s].at = "snapshot"
  /\ LET t == session[s].tenant IN
     session' = [session EXCEPT ![s] =
                   [@ EXCEPT !.at = "tag",
                             !.snap = IF tagged[t] THEN route[t] ELSE None]]
  /\ UNCHANGED <<status, route, tagged, alerts, polled>>

EnsureTagged(s) ==
  /\ session[s].at = "tag"
  /\ tagged' = [tagged EXCEPT ![session[s].tenant] = TRUE]
  /\ Moved(s, "read")
  /\ UNCHANGED <<status, route, alerts, polled>>

ReadRoute(s) ==
  /\ session[s].at = "read"
  /\ session' = [session EXCEPT ![s] =
                   [@ EXCEPT !.at = "patch", !.before = route[session[s].tenant]]]
  /\ UNCHANGED <<status, route, tagged, alerts, polled>>

Patch(s) ==
  /\ session[s].at = "patch"
  /\ route' = [route EXCEPT ![session[s].tenant] = session[s].want]
  /\ Moved(s, "verify")
  /\ UNCHANGED <<status, tagged, alerts, polled>>

\* Nothing has been changed yet: the error leaves the operation.  The error
\* of an undoing is only logged, and the operation ends with its own.
PrepareFails(s) ==
  /\ MayFail(s, "caddy")
  /\ session[s].at \in {"snapshot", "tag", "read"}
  /\ Ended(s)
  /\ UNCHANGED <<status, route, tagged, alerts, polled>>

\* Nobody looks at the PATCH's answer: the check of the page is skipped too.
PatchErrorSwallowed(s) ==
  /\ MayFail(s, "caddy")
  /\ session[s].at = "patch"
  /\ \E applied \in BOOLEAN :
       route' = IF applied
                THEN [route EXCEPT ![session[s].tenant] = session[s].want]
                ELSE route
  /\ FaultMoved(s, "commit")
  /\ UNCHANGED <<status, tagged, alerts, polled>>

\* The PATCH is refused, or applied and its answer lost.
PatchFails(s) ==
  /\ MayFail(s, "caddy")
  /\ session[s].at = "patch"
  /\ \E applied \in BOOLEAN :
       route' = IF applied
                THEN [route EXCEPT ![session[s].tenant] = session[s].want]
                ELSE route
  /\ FaultMoved(s, "rollback")
  /\ UNCHANGED <<status, tagged, alerts, polled>>

\* verifyHoldingPage fetches what the proxy serves at that moment.
VerifyOKAgain(s) ==
  /\ session[s].at = "verify"
  /\ route[session[s].tenant] = session[s].want
  /\ Moved(s, "commit")
  /\ UNCHANGED <<status, route, tagged, alerts, polled>>

VerifyOK(s) ==
  /\ session[s].at = "verify"
  /\ route[session[s].tenant] = session[s].want
  /\ IF session[s].undo THEN Ended(s) ELSE Moved(s, "commit")
  /\ UNCHANGED <<status, route, tagged, alerts, polled>>

VerifyRefused(s) ==
  /\ session[s].at = "verify"
  /\ route[session[s].tenant] # session[s].want
  /\ Moved(s, "rollback")
  /\ UNCHANGED <<status, route, tagged, alerts, polled>>

VerifyFails(s) ==
  /\ MayFail(s, "verify")
  /\ session[s].at = "verify"
  /\ FaultMoved(s, "rollback")
  /\ UNCHANGED <<status, route, tagged, alerts, polled>>

\* rollbackRoute: the route of the snapshot, else the one read before.
RolledBackToSnapshot(s) == session[s].snap
RolledBackToWanted(s) == session[s].want
RolledBackTo(s) == IF session[s].snap # None THEN session[s].snap ELSE session[s].before

Rollback(s) ==
  /\ session[s].at = "rollback"
  /\ route' = [route EXCEPT ![session[s].tenant] = RolledBackTo(s)]
  /\ Ended(s)
  /\ UNCHANGED <<status, tagged, alerts, polled>>

RollbackFails(s) ==
  /\ MayFail(s, "rollback")
  /\ session[s].at = "rollback"
  /\ Ended(s)
  /\ UNCHANGED <<status, route, tagged, alerts, polled>>

-----------------------------------------------------------------------------
(* The transaction that changes the status.                                *)

CommitRead(s) ==
  /\ session[s].at = "commit"
  /\ IF MayRun(session[s].op, status[session[s].tenant])
     THEN Moved(s, "write")
     ELSE Compensated(s, session[s].faults)
  /\ UNCHANGED <<status, route, tagged, alerts, polled>>

\* A suspension also closes the tenant's open alerts.
CommitWrite(s) ==
  /\ session[s].at = "write"
  /\ LET t == session[s].tenant
         op == session[s].op IN
     /\ status' = [status EXCEPT ![t] = Outcome(op)]
     /\ alerts' = [alerts EXCEPT ![t] = @ /\ op # "suspend"]
  /\ Ended(s)
  /\ UNCHANGED <<route, tagged, polled>>

DatabaseFails(s) ==
  /\ MayFail(s, "database")
  /\ session[s].at \in {"commit", "write"}
  /\ Compensated(s, session[s].faults + 1)
  /\ UNCHANGED <<status, route, tagged, alerts, polled>>

Crash(s) ==
  /\ "crash" \in Faults
  /\ session[s].at # "idle"
  /\ Ended(s)
  /\ UNCHANGED <<status, route, tagged, alerts, polled>>

-----------------------------------------------------------------------------
(* runHealthPollCycle: the active tenants are listed once, then probed one *)
(* after the other; a failing probe opens an alert, a good one closes it.  *)

PollBegin ==
  /\ polled = {}
  /\ polled' = {t \in Tenants : status[t] = "active"}
  /\ UNCHANGED <<status, route, tagged, alerts, session>>

PollOne(t) ==
  /\ t \in polled
  /\ polled' = polled \ {t}
  /\ \E failing \in BOOLEAN : alerts' = [alerts EXCEPT ![t] = failing]
  /\ UNCHANGED <<status, route, tagged, session>>

-----------------------------------------------------------------------------

Step(s) ==
  \/ Snapshot(s) \/ EnsureTagged(s) \/ ReadRoute(s) \/ Patch(s)
  \/ VerifyOK(s) \/ VerifyRefused(s) \/ Rollback(s)
  \/ CommitRead(s) \/ CommitWrite(s)

Fault(s) ==
  \/ PrepareFails(s) \/ PatchFails(s) \/ VerifyFails(s) \/ RollbackFails(s)
  \/ DatabaseFails(s) \/ Crash(s)

Next ==
  \/ \E s \in Sessions, op \in Operations, t \in Tenants :
       BeginEnforced(s, op, t) \/ BeginPlain(s, op, t)
  \/ \E s \in Sessions : Step(s) \/ Fault(s)
  \/ PollBegin
  \/ \E t \in Tenants : PollOne(t)

Spec == Init /\ [][Next]_vars

\* An operation that has begun runs to its end.
FairSpec == Spec /\ \A s \in Sessions : WF_vars(Step(s))

-----------------------------------------------------------------------------
(* Properties.                                                             *)

\* No operation is running on tenant t.
Quiet(t) == \A s \in Sessions : session[s].tenant # t

\* A failed suspension leaves the shop served: when nothing runs on an active
\* tenant its customers do not see the holding page, whichever of the checks,
\* the proxy's calls or the transaction failed (service.ts:1091-1117).
ActiveIsServed ==
  \A t \in Tenants :
    status[t] \in {"prospect", "active"} /\ Quiet(t) => route[t] = "shop"

\* A suspended tenant's storefront is held (service.ts:1092, "storefront held
\* via Caddy"): the status is not written before the page is up, and no later
\* step of another action takes it down again.
SuspendedIsHeld ==
  \A t \in Tenants :
    status[t] = "suspended" /\ Quiet(t) => route[t] = "holding"

\* A suspension is recorded only while its holding page is up, whatever the
\* proxy answered: the page is checked before the transaction
\* (service.ts:1056-1092, enforce.ts:167-185).
RecordedWhenHeld ==
  [][\A t \in Tenants :
       status[t] # "suspended" /\ status'[t] = "suspended" => route[t] = "holding"]_vars

\* A suspended tenant pages nobody (service.ts:1072, "Suppress paging: close
\* open alerts; suspend is intentional").
SuspendedIsSilent ==
  \A t \in Tenants : status[t] = "suspended" => ~alerts[t]

\* An offboarded tenant stays offboarded (service.ts:1158, "Only suspended
\* tenants can be unsuspended").
OffboardedIsFinal ==
  [][\A t \in Tenants : status[t] = "offboarded" => status'[t] = "offboarded"]_vars

\* A suspension that has put up its holding page is either recorded in the
\* database or undone: it never stops half way.
SuspensionDecided ==
  \A s \in Sessions, t \in Tenants :
    (session[s].op = "suspend" /\ session[s].tenant = t /\ route[t] = "holding")
    ~> (status[t] # "active" \/ route[t] = "shop")

\* Whatever fails and whatever else runs, an operation comes to its end: the
\* compensation of a failed suspension is not compensated in turn.
OperationEnds ==
  \A s \in Sessions : session[s].at # "idle" ~> session[s].at = "idle"
=============================================================================
