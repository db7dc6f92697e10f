--------------------------- MODULE StandingProofs ---------------------------
(***************************************************************************)
(* What Standing.tla keeps for every set of tenants: its types, whatever   *)
(* sessions and faults there are; and, when operations come one at a time, *)
(* that a suspension is recorded only while its page is up, that an active *)
(* tenant is served, through any one failure of the proxy, of its check or *)
(* of the database, and that an offboarded tenant stays offboarded.        *)
(***************************************************************************)
EXTENDS Standing, TLAPS

\* A session that is at work is at work on a tenant.
Assigned == \A s \in Sessions :
  session[s].at # "idle" => session[s].tenant \in Tenants /\ session[s].op \in Operations
Read(r) == r.at \in {"patch", "verify", "rollback"} => r.before \in Pages
BeforeRead == \A s \in Sessions : Read(session[s])

Typed == TypeOK /\ Assigned /\ BeforeRead

LEMMA IdleTyped ==
  Idle \in Session /\ Idle.at = "idle" /\ Idle.op = None /\ Idle.tenant = None
BY DEF Idle, Session, Pages

LEMMA TypedInitially == Init => Typed
<1> SUFFICES ASSUME Init PROVE Typed
  OBVIOUS
<1>1. TypeOK
  BY IdleTyped DEF Init, TypeOK, Statuses, Pages
<1>2. Assigned /\ BeforeRead
  BY IdleTyped DEF Init, Assigned, BeforeRead, Read
<1> QED
  BY <1>1, <1>2 DEF Typed

\* A step of session s to r.
LEMMA TypedMoves ==
  ASSUME Typed, NEW s \in Sessions, NEW r \in Session,
         session' = [session EXCEPT ![s] = r],
         r.at # "idle" => (r.tenant \in Tenants /\ r.op \in Operations),
         Read(r),
         status' \in [Tenants -> Statuses],
         route' \in [Tenants -> Pages],
         tagged' \in [Tenants -> BOOLEAN],
         alerts' \in [Tenants -> BOOLEAN],
         UNCHANGED polled
  PROVE  Typed'
<1>s. session \in [Sessions -> Session]
  BY DEF Typed, TypeOK
<1>1. TypeOK'
  BY <1>s DEF Typed, TypeOK
<1>2. Assigned'
  BY <1>s DEF Typed, Assigned
<1>3. BeforeRead'
  <2> SUFFICES ASSUME NEW z \in Sessions PROVE Read(session'[z])
    BY DEF BeforeRead, Read
  <2> QED
    BY <1>s DEF Typed, BeforeRead
<1> QED
  BY <1>1, <1>2, <1>3 DEF Typed

Places == {"idle", "snapshot", "tag", "read", "patch", "verify", "rollback",
           "commit", "write"}

\* The forms a step of a session takes.
LEMMA TypedGoes ==
  ASSUME Typed, NEW s \in Sessions, session[s].at # "idle",
         status' \in [Tenants -> Statuses],
         route' \in [Tenants -> Pages],
         tagged' \in [Tenants -> BOOLEAN],
         alerts' \in [Tenants -> BOOLEAN],
         UNCHANGED polled,
         \/ Ended(s)
         \/ \E to \in {"read", "commit", "write"} : Moved(s, to) \/ FaultMoved(s, to)
         \/ /\ session[s].at \in {"patch", "verify"}
            /\ \E to \in {"verify", "rollback"} : Moved(s, to) \/ FaultMoved(s, to)
         \/ \E n \in Nat : Compensated(s, n)
  PROVE  Typed'
<1>a. session[s].tenant \in Tenants /\ session[s].op \in Operations
  BY DEF Typed, Assigned
<1>s. session \in [Sessions -> Session] /\ session[s] \in Session
  BY DEF Typed, TypeOK
<1>f. session[s].faults + 1 \in Nat
  BY <1>s DEF Session
<1>1. CASE Ended(s)
  BY <1>1, IdleTyped, TypedMoves DEF Ended, Read
<1>2. ASSUME NEW to \in Places \ {"idle"}, Moved(s, to) \/ FaultMoved(s, to),
             to \in {"patch", "verify", "rollback"} => session[s].before \in Pages
      PROVE  Typed'
  <2>1. PICK r \in Session :
          /\ session' = [session EXCEPT ![s] = r]
          /\ r.at = to /\ r.tenant = session[s].tenant /\ r.op = session[s].op
          /\ r.before = session[s].before
    <3>u. session[s].undo \in BOOLEAN
      BY <1>s DEF Session
    <3>1. CASE Moved(s, to)
      <4> DEFINE r == [session[s] EXCEPT !.at = to]
      <4>1. session' = [session EXCEPT ![s] = r]
        BY <3>1 DEF Moved
      <4>2. /\ r \in Session /\ r.at = to /\ r.tenant = session[s].tenant
            /\ r.op = session[s].op /\ r.before = session[s].before
        BY <1>s, <3>u DEF Session, Places
      <4> HIDE DEF r
      <4> QED
        BY <4>1, <4>2
    <3>2. CASE FaultMoved(s, to)
      <4> DEFINE r == [session[s] EXCEPT !.at = to, !.faults = session[s].faults + 1]
      <4>1. session' = [session EXCEPT ![s] = r]
        BY <3>2 DEF FaultMoved
      <4>2. ASSUME NEW n \in Nat
            PROVE  /\ [session[s] EXCEPT !.at = to, !.faults = n] \in Session
                   /\ [session[s] EXCEPT !.at = to, !.faults = n].at = to
                   /\ [session[s] EXCEPT !.at = to, !.faults = n].tenant = session[s].tenant
                   /\ [session[s] EXCEPT !.at = to, !.faults = n].op = session[s].op
                   /\ [session[s] EXCEPT !.at = to, !.faults = n].before = session[s].before
        BY <1>s, <3>u DEF Session, Places
      <4>3. /\ r \in Session /\ r.at = to /\ r.tenant = session[s].tenant
            /\ r.op = session[s].op /\ r.before = session[s].before
        BY <1>f, <4>2, Zenon
      <4> HIDE DEF r
      <4> QED
        BY <4>1, <4>3
    <3> QED
      BY <1>2, <3>1, <3>2
  <2>2. Read(r)
    BY <1>2, <2>1 DEF Read
  <2> QED
    BY <1>a, <2>1, <2>2, TypedMoves
<1>3. ASSUME session[s].at \in {"patch", "verify"},
             NEW to \in {"verify", "rollback"}, Moved(s, to) \/ FaultMoved(s, to)
      PROVE  Typed'
  <2>1. session[s].before \in Pages
    BY <1>3 DEF Typed, BeforeRead, Read
  <2> QED
    BY <1>2, <1>3, <2>1 DEF Places
<1>4. ASSUME NEW n \in Nat, Compensated(s, n) PROVE Typed'
  <2>1. CASE session[s].op = "suspend"
    <3> DEFINE r == [op |-> "suspend", tenant |-> session[s].tenant,
                     at |-> "snapshot", want |-> "shop", snap |-> None,
                     before |-> None, undo |-> TRUE, faults |-> n]
    <3>1. r \in Session /\ Read(r) /\ r.tenant \in Tenants /\ r.op \in Operations
      BY <1>a DEF Session, Read, Pages, Operations
    <3>2. session' = [session EXCEPT ![s] = r]
      BY <1>4, <2>1 DEF Compensated
    <3> HIDE DEF r
    <3> QED
      BY <3>1, <3>2, TypedMoves
  <2>2. CASE session[s].op # "suspend"
    BY <1>1, <1>4, <2>2 DEF Compensated
  <2> QED
    BY <2>1, <2>2
<1>5. ASSUME NEW to \in {"read", "commit", "write"}, Moved(s, to) \/ FaultMoved(s, to)
      PROVE  Typed'
  BY <1>2, <1>5 DEF Places
<1> QED
  BY <1>1, <1>3, <1>4, <1>5

LEMMA BeginKeepsTyped ==
  ASSUME Typed, NEW s \in Sessions, NEW op \in Operations, NEW t \in Tenants,
         BeginEnforced(s, op, t) \/ BeginPlain(s, op, t)
  PROVE  Typed'
<1>1. PICK r \in Session :
        /\ session' = [session EXCEPT ![s] = r]
        /\ r.tenant = t /\ r.op = op /\ r.at \in {"snapshot", "write"}
  <2>1. CASE BeginEnforced(s, op, t)
    <3> DEFINE r == [op |-> op, tenant |-> t, at |-> "snapshot",
                     want |-> IF op = "suspend" THEN "holding" ELSE "shop",
                     snap |-> None, before |-> None, undo |-> FALSE, faults |-> 0]
    <3>1. r \in Session /\ r.tenant = t /\ r.op = op /\ r.at = "snapshot"
      BY DEF Session, Pages
    <3>2. session' = [session EXCEPT ![s] = r]
      BY <2>1 DEF BeginEnforced
    <3> HIDE DEF r
    <3> QED
      BY <3>1, <3>2
  <2>2. CASE BeginPlain(s, op, t)
    <3> DEFINE r == [op |-> op, tenant |-> t, at |-> "write", want |-> "shop",
                     snap |-> None, before |-> None, undo |-> FALSE, faults |-> 0]
    <3>1. r \in Session /\ r.tenant = t /\ r.op = op /\ r.at = "write"
      BY DEF Session, Pages
    <3>2. session' = [session EXCEPT ![s] = r]
      BY <2>2 DEF BeginPlain
    <3> HIDE DEF r
    <3> QED
      BY <3>1, <3>2
  <2> QED
    BY <2>1, <2>2
<1>2. UNCHANGED <<status, route, tagged, alerts, polled>>
  BY DEF BeginEnforced, BeginPlain
<1> QED
  BY <1>1, <1>2, TypedMoves DEF Typed, TypeOK, Read

LEMMA StepKeepsTyped ==
  ASSUME Typed, NEW s \in Sessions, Step(s) \/ Fault(s)
  PROVE  Typed'
<1>t. /\ status \in [Tenants -> Statuses] /\ route \in [Tenants -> Pages]
      /\ tagged \in [Tenants -> BOOLEAN] /\ alerts \in [Tenants -> BOOLEAN]
      /\ session[s] \in Session
  BY DEF Typed, TypeOK
<1>a. session[s].at # "idle" => session[s].tenant \in Tenants /\ session[s].op \in Operations
  BY DEF Typed, Assigned
<1>w. session[s].want \in Pages
  BY <1>t DEF Session
<1>u. session[s].undo \in BOOLEAN
  BY <1>t DEF Session
<1>1. CASE Snapshot(s)
  <2> DEFINE p == IF tagged[session[s].tenant] THEN route[session[s].tenant] ELSE None
             r == [session[s] EXCEPT !.at = "tag", !.snap = p]
  <2>1. p \in Pages \cup {None}
    BY <1>1, <1>t, <1>a DEF Snapshot
  <2> HIDE DEF p
  <2>2. r \in Session /\ r.at = "tag" /\ r.tenant = session[s].tenant /\ r.op = session[s].op
    BY <1>t, <1>u, <2>1 DEF Session
  <2>3. session' = [session EXCEPT ![s] = r]
    BY <1>1 DEF Snapshot, p
  <2> HIDE DEF r
  <2> QED
    BY <1>1, <1>t, <1>a, <2>2, <2>3, TypedMoves DEF Snapshot, Read
<1>2. CASE EnsureTagged(s)
  BY <1>2, <1>t, TypedGoes DEF EnsureTagged
<1>3. CASE ReadRoute(s)
  <2> DEFINE p == route[session[s].tenant]
             r == [session[s] EXCEPT !.at = "patch", !.before = p]
  <2>1. p \in Pages
    BY <1>3, <1>t, <1>a DEF ReadRoute
  <2> HIDE DEF p
  <2>2. /\ r \in Session /\ r.at = "patch" /\ r.tenant = session[s].tenant
        /\ r.op = session[s].op /\ r.before = p
    BY <1>t, <1>u, <2>1 DEF Session
  <2>3. session' = [session EXCEPT ![s] = r]
    BY <1>3 DEF ReadRoute, p
  <2> HIDE DEF r
  <2> QED
    BY <1>3, <1>t, <1>a, <2>1, <2>2, <2>3, TypedMoves DEF ReadRoute, Read
<1>4. CASE Patch(s) \/ PatchFails(s)
  <2>1. route' \in [Tenants -> Pages]
    BY <1>4, <1>t, <1>w DEF Patch, PatchFails
  <2> QED
    BY <1>4, <1>t, <2>1, TypedGoes DEF Patch, PatchFails
<1>5. CASE VerifyOK(s) \/ VerifyRefused(s) \/ VerifyFails(s)
  BY <1>5, <1>t, TypedGoes DEF VerifyOK, VerifyRefused, VerifyFails
<1>6. CASE Rollback(s)
  <2>1. RolledBackTo(s) \in Pages
    BY <1>6, <1>t DEF Rollback, RolledBackTo, Session, Typed, BeforeRead, Read
  <2>2. route' \in [Tenants -> Pages]
    BY <1>6, <1>t, <2>1 DEF Rollback
  <2> QED
    BY <1>6, <1>t, <2>2, TypedGoes DEF Rollback
<1>7. CASE CommitRead(s)
  <2>1. session[s].faults \in Nat
    BY <1>t DEF Session
  <2> QED
    BY <1>7, <1>t, <2>1, TypedGoes DEF CommitRead
<1>8. CASE CommitWrite(s)
  <2>1. session[s].op \in Operations
    BY <1>8, <1>a DEF CommitWrite
  <2>2. Outcome(session[s].op) \in Statuses
    BY <2>1 DEF Outcome, Operations, Statuses
  <2>3. status' \in [Tenants -> Statuses]
    BY <1>8, <1>t, <2>2 DEF CommitWrite
  <2>4. alerts' \in [Tenants -> BOOLEAN]
    BY <1>8, <1>t, Zenon DEF CommitWrite
  <2> QED
    BY <1>8, <1>t, <2>3, <2>4, TypedGoes DEF CommitWrite
<1>9. CASE DatabaseFails(s)
  <2>1. session[s].faults + 1 \in Nat
    BY <1>t DEF Session
  <2> QED
    BY <1>9, <1>t, <2>1, TypedGoes DEF DatabaseFails
<1>10. CASE PrepareFails(s) \/ RollbackFails(s) \/ Crash(s)
  BY <1>10, <1>t, TypedGoes DEF PrepareFails, RollbackFails, Crash
<1> QED
  BY <1>1, <1>2, <1>3, <1>4, <1>5, <1>6, <1>7, <1>8, <1>9, <1>10 DEF Step, Fault

LEMMA NextKeepsTyped ==
  ASSUME Typed, [Next]_vars
  PROVE  Typed'
<1>1. ASSUME NEW s \in Sessions, NEW op \in Operations, NEW t \in Tenants,
             BeginEnforced(s, op, t) \/ BeginPlain(s, op, t)
      PROVE  Typed'
  BY <1>1, BeginKeepsTyped
<1>2. ASSUME NEW s \in Sessions, Step(s) \/ Fault(s) PROVE Typed'
  BY <1>2, StepKeepsTyped
<1>3. CASE PollBegin
  BY <1>3 DEF PollBegin, Typed, TypeOK, Assigned, BeforeRead, Read
<1>4. ASSUME NEW t \in Tenants, PollOne(t) PROVE Typed'
  <2>1. alerts' \in [Tenants -> BOOLEAN]
    BY <1>4 DEF PollOne, Typed, TypeOK
  <2> QED
    BY <1>4, <2>1 DEF PollOne, Typed, TypeOK, Assigned, BeforeRead, Read
<1>5. CASE UNCHANGED vars
  BY <1>5 DEF vars, Typed, TypeOK, Assigned, BeforeRead, Read
<1> QED
  BY <1>1, <1>2, <1>3, <1>4, <1>5 DEF Next

\* Every variable of Standing keeps its type, whatever operations run at once:
\* a rollback always has a route to put back.
THEOREM TypeCorrect == Spec => []TypeOK
<1>1. Typed => TypeOK
  BY DEF Typed
<1> QED
  BY <1>1, TypedInitially, NextKeepsTyped, PTL DEF Spec

-----------------------------------------------------------------------------
(* One operation at a time.                                                *)

OneSession == \A s, z \in Sessions : s = z

\* A suspension about to be recorded has its page up: it has put it up, its
\* check went through, and no other operation has run since.
PageUp(r, page) ==
  /\ r.op = "suspend" /\ ~r.undo => r.want = "holding"
  /\ r.undo => r.at \in {"idle", "snapshot", "tag", "read", "patch", "verify", "rollback"}
  /\ r.op = "suspend" /\ r.at \in {"commit", "write"} => page = "holding"

PagesUp == \A s \in Sessions :
  session[s].at # "idle" => PageUp(session[s], route[session[s].tenant])

\* What a step of session s does to s and to its tenant's route.
LEMMA PagesUpMoves ==
  ASSUME Typed, PagesUp, OneSession, NEW s \in Sessions,
         session'[s].at # "idle" =>
           PageUp(session'[s], route'[session'[s].tenant])
  PROVE  PagesUp'
BY DEF PagesUp, OneSession, PageUp

LEMMA NextKeepsPagesUp ==
  ASSUME Typed, PagesUp, OneSession, [Next]_vars
  PROVE  PagesUp'
<1>t. session \in [Sessions -> Session] /\ route \in [Tenants -> Pages]
  BY DEF Typed, TypeOK
<1>i. Idle.at = "idle"
  BY DEF Idle
<1>1. ASSUME NEW s \in Sessions, NEW op \in Operations, NEW t \in Tenants,
             BeginEnforced(s, op, t) \/ BeginPlain(s, op, t)
      PROVE  PagesUp'
  <2>1. PageUp(session'[s], route'[session'[s].tenant])
    BY <1>t, <1>1 DEF BeginEnforced, BeginPlain, PageUp
  <2> QED
    BY <2>1, PagesUpMoves
<1>2. ASSUME NEW s \in Sessions, Step(s) \/ Fault(s) PROVE PagesUp'
  <2> DEFINE r == session[s]
  <2>t. r \in Session /\ (r.at # "idle" => r.tenant \in Tenants)
    BY <1>t DEF Typed, Assigned
  <2>p. r.at # "idle" => PageUp(r, route[r.tenant])
    BY DEF PagesUp
  <2>e. ASSUME Ended(s) PROVE PagesUp'
    BY <1>t, <1>i, <2>e, PagesUpMoves DEF Ended
  <2>c. ASSUME NEW n \in Nat, Compensated(s, n), r.at # "idle" PROVE PagesUp'
    <3>1. CASE r.op = "suspend"
      <4>1. session'[s] = [op |-> "suspend", tenant |-> r.tenant, at |-> "snapshot",
                           want |-> "shop", snap |-> None, before |-> None,
                           undo |-> TRUE, faults |-> n]
        BY <1>t, <2>c, <3>1 DEF Compensated
      <4>2. PageUp(session'[s], route'[session'[s].tenant])
        BY <4>1 DEF PageUp
      <4> QED
        BY <4>2, PagesUpMoves
    <3>2. CASE r.op # "suspend"
      BY <2>e, <2>c, <3>2 DEF Compensated
    <3> QED
      BY <3>1, <3>2
  <2>m. ASSUME NEW to \in Places, Moved(s, to) \/ FaultMoved(s, to)
        PROVE  /\ session'[s].op = r.op /\ session'[s].tenant = r.tenant
               /\ session'[s].want = r.want /\ session'[s].undo = r.undo
               /\ session'[s].at = to
    <3>1. CASE Moved(s, to)
      BY <1>t, <2>t, <3>1 DEF Moved, Session
    <3>2. CASE FaultMoved(s, to)
      BY <1>t, <2>t, <3>2 DEF FaultMoved, Session
    <3> QED
      BY <2>m, <3>1, <3>2
  <2>q. ASSUME r.at # "idle",
               NEW to \in {"snapshot", "tag", "read", "patch", "verify", "rollback"},
               session'[s].op = r.op, session'[s].want = r.want,
               session'[s].undo = r.undo, session'[s].at = to
        PROVE  PagesUp'
    <3>1. PageUp(session'[s], route'[session'[s].tenant])
      BY <2>p, <2>q DEF PageUp
    <3> QED
      BY <3>1, PagesUpMoves
  <2>1. CASE Snapshot(s) \/ ReadRoute(s)
    <3>1. CASE Snapshot(s)
      <4>1. /\ session'[s].op = r.op /\ session'[s].want = r.want
            /\ session'[s].undo = r.undo /\ session'[s].at = "tag" /\ r.at # "idle"
        BY <1>t, <2>t, <3>1 DEF Snapshot, Session
      <4> QED
        BY <2>q, <4>1
    <3>2. CASE ReadRoute(s)
      <4>1. /\ session'[s].op = r.op /\ session'[s].want = r.want
            /\ session'[s].undo = r.undo /\ session'[s].at = "patch" /\ r.at # "idle"
        BY <1>t, <2>t, <3>2 DEF ReadRoute, Session
      <4> QED
        BY <2>q, <4>1
    <3> QED
      BY <2>1, <3>1, <3>2
  <2>2. CASE EnsureTagged(s) \/ Patch(s) \/ PatchFails(s) \/ VerifyRefused(s) \/ VerifyFails(s)
    <3>1. PICK to \in {"read", "verify", "rollback"} : Moved(s, to) \/ FaultMoved(s, to)
      BY <2>2 DEF EnsureTagged, Patch, PatchFails, VerifyRefused, VerifyFails
    <3>2. r.at # "idle"
      BY <2>2 DEF EnsureTagged, Patch, PatchFails, VerifyRefused, VerifyFails
    <3> QED
      BY <2>m, <2>q, <3>1, <3>2 DEF Places
  <2>3. CASE VerifyOK(s) /\ ~r.undo
    <3>1. Moved(s, "commit") /\ UNCHANGED route /\ route[r.tenant] = r.want /\ r.at # "idle"
      BY <2>3 DEF VerifyOK
    <3>2. /\ session'[s].op = r.op /\ session'[s].tenant = r.tenant
          /\ session'[s].want = r.want /\ session'[s].undo = r.undo
          /\ session'[s].at = "commit"
      BY <2>m, <3>1 DEF Places
    <3>3. PageUp(session'[s], route'[session'[s].tenant])
      BY <2>3, <2>p, <3>1, <3>2 DEF PageUp
    <3> QED
      BY <3>3, PagesUpMoves
  <2>4. CASE CommitRead(s)
    <3>1. r.at = "commit" /\ r.faults \in Nat
      BY <2>4, <2>t DEF CommitRead, Session
    <3>2. CASE Moved(s, "write")
      <4>1. /\ session'[s].op = r.op /\ session'[s].tenant = r.tenant
            /\ session'[s].want = r.want /\ session'[s].undo = r.undo
            /\ session'[s].at = "write"
        BY <2>m, <3>2 DEF Places
      <4>2. PageUp(session'[s], route'[session'[s].tenant])
        BY <2>4, <2>p, <3>1, <4>1 DEF PageUp, CommitRead
      <4> QED
        BY <4>2, PagesUpMoves
    <3> QED
      BY <2>4, <2>c, <3>1, <3>2 DEF CommitRead
  <2>5. CASE DatabaseFails(s)
    <3>1. r.faults + 1 \in Nat /\ r.at # "idle"
      BY <2>5, <2>t DEF DatabaseFails, Session
    <3> QED
      BY <2>5, <2>c, <3>1 DEF DatabaseFails
  <2>6. CASE (VerifyOK(s) /\ r.undo) \/ Rollback(s) \/ CommitWrite(s)
             \/ PrepareFails(s) \/ RollbackFails(s) \/ Crash(s)
    BY <2>6, <2>e DEF VerifyOK, Rollback, CommitWrite, PrepareFails, RollbackFails, Crash
  <2> QED
    BY <1>2, <2>1, <2>2, <2>3, <2>4, <2>5, <2>6 DEF Step, Fault
<1>3. CASE PollBegin \/ (\E t \in Tenants : PollOne(t)) \/ UNCHANGED vars
  BY <1>3 DEF PollBegin, PollOne, vars, PagesUp, PageUp
<1> QED
  BY <1>1, <1>2, <1>3 DEF Next

\* When operations come one at a time, a suspension is recorded only while the
\* tenant's holding page is up, however many calls to the proxy failed.
THEOREM RecordedWhileHeld == OneSession /\ Spec => RecordedWhenHeld
<1>1. Init => PagesUp
  BY IdleTyped DEF Init, PagesUp
<1>2. ASSUME Typed, PagesUp, [Next]_vars, NEW t \in Tenants,
             status[t] # "suspended", status'[t] = "suspended"
      PROVE  route[t] = "holding"
  <2>1. PICK s \in Sessions : CommitWrite(s)
    BY <1>2 DEF Next, vars, Step, Fault, BeginEnforced, BeginPlain, Snapshot,
                EnsureTagged, ReadRoute, Patch, VerifyOK, VerifyRefused, Rollback,
                CommitRead, PrepareFails, PatchFails, VerifyFails, RollbackFails,
                DatabaseFails, Crash, PollBegin, PollOne
  <2>2. session[s].tenant = t /\ Outcome(session[s].op) = "suspended"
    BY <1>2, <2>1 DEF CommitWrite, Typed, TypeOK
  <2>3. session[s].op \in Operations /\ session[s].at = "write"
    BY <1>2, <2>1 DEF CommitWrite, Typed, Assigned
  <2>4. session[s].op = "suspend"
    BY <2>2, <2>3 DEF Outcome, Operations
  <2> QED
    BY <1>2, <2>2, <2>3, <2>4 DEF PagesUp, PageUp
<1>3. Typed /\ PagesUp /\ [Next]_vars =>
        [\A t \in Tenants : status[t] # "suspended" /\ status'[t] = "suspended"
                              => route[t] = "holding"]_vars
  BY <1>2
<1>4. Typed /\ PagesUp /\ OneSession /\ [Next]_vars => PagesUp'
  BY NextKeepsPagesUp
<1>5. OneSession => OneSession'
  OBVIOUS
<1> QED
  BY <1>1, <1>3, <1>4, <1>5, TypedInitially, NextKeepsTyped, PTL
  DEF Spec, RecordedWhenHeld

-----------------------------------------------------------------------------
(* One operation at a time, at most one failure in each, and no crash.     *)

OneFault == MaxFaults \in {0, 1} /\ "crash" \notin Faults

\* No customer of a tenant that should be served sees the holding page.
Served(st, page) == st \in {"prospect", "active"} => page = "shop"

\* Where operation r stands with its tenant: st is the tenant's status, page
\* what the proxy serves for it.
Suspending(r, st, page) ==
  /\ st = "active" /\ r.want = "holding" /\ r.snap \in {None, "shop"}
  /\ r.at \in {"snapshot", "tag", "read", "patch"} => page = "shop"
  /\ r.at \in {"patch", "verify", "rollback"} => r.before = "shop"
  /\ r.at \in {"verify", "commit", "write"} => page = "holding"
  /\ r.at = "rollback" => r.faults # 0
Undoing(r, st, page) ==
  /\ r.op = "suspend" /\ st = "active" /\ r.want = "shop" /\ r.faults # 0
  /\ r.at \in {"snapshot", "tag", "read", "patch", "verify"}
  /\ r.at = "verify" => page = "shop"
Unsuspending(r, st, page) ==
  /\ st = "suspended" /\ r.want = "shop"
  /\ r.at \in {"verify", "commit", "write"} => page = "shop"
Right(r, st, page) ==
  /\ r.undo = TRUE => Undoing(r, st, page)
  /\ r.undo = FALSE =>
       \/ r.op = "suspend" /\ Suspending(r, st, page)
       \/ r.op = "unsuspend" /\ Unsuspending(r, st, page)
       \/ r.op = "activate" /\ r.at = "write" /\ st = "prospect" /\ page = "shop"
       \/ r.op = "offboard" /\ r.at = "write" /\ Served(st, page)

AllRight == \A s \in Sessions : session[s].at # "idle" =>
  Right(session[s], status[session[s].tenant], route[session[s].tenant])
OtherTenantsServed ==
  \A t \in Tenants : Quiet(t) => Served(status[t], route[t])
IdleIsQuiet == \A s \in Sessions : session[s].at = "idle" => session[s].tenant = None

Alone == AllRight /\ OtherTenantsServed /\ IdleIsQuiet

\* Session s works on tenant t, goes to r, and changes no other tenant.
LEMMA AloneMoves ==
  ASSUME Typed, Alone, OneSession, NEW s \in Sessions, NEW t \in Tenants, NEW r,
         session[s].tenant = t \/ session[s].at = "idle",
         session' = [session EXCEPT ![s] = r],
         \A u \in Tenants \ {t} : status'[u] = status[u] /\ route'[u] = route[u],
         \/ r.at # "idle" /\ r.tenant = t /\ Right(r, status'[t], route'[t])
         \/ r = Idle /\ Served(status'[t], route'[t])
  PROVE  Alone'
<1>s. session'[s] = r /\ \A z \in Sessions : z = s
  BY DEF Typed, TypeOK, OneSession
<1>n. None \notin Tenants
  BY FaultsAssumption
<1>1. AllRight'
  BY <1>s, IdleTyped DEF AllRight
<1>2. OtherTenantsServed'
  <2> SUFFICES ASSUME NEW u \in Tenants, Quiet(u)' PROVE Served(status'[u], route'[u])
    BY DEF OtherTenantsServed, Served
  <2>1. CASE u = t
    BY <1>s, <2>1 DEF Quiet
  <2>2. CASE u # t
    <3>1. session[s].tenant # u
      BY <1>n, <2>2 DEF Alone, IdleIsQuiet
    <3>2. Quiet(u)
      BY <1>s, <3>1 DEF Quiet
    <3> QED
      BY <2>2, <3>2 DEF Alone, OtherTenantsServed
  <2> QED
    BY <2>1, <2>2
<1>3. IdleIsQuiet'
  BY <1>s, IdleTyped DEF IdleIsQuiet
<1> QED
  BY <1>1, <1>2, <1>3 DEF Alone

LEMMA BeginKeepsAlone ==
  ASSUME Typed, Alone, OneSession, NEW s \in Sessions, NEW op \in Operations,
         NEW t \in Tenants, BeginEnforced(s, op, t) \/ BeginPlain(s, op, t)
  PROVE  Alone'
<1>1. session[s].at = "idle" /\ UNCHANGED <<status, route>> /\ MayRun(op, status[t])
  BY DEF BeginEnforced, BeginPlain
<1>2. Quiet(t)
  BY <1>1, FaultsAssumption DEF Alone, IdleIsQuiet, OneSession, Quiet
<1>3. Served(status[t], route[t])
  BY <1>2 DEF Alone, OtherTenantsServed
<1>4. CASE BeginEnforced(s, op, t)
  <2> DEFINE r == [op |-> op, tenant |-> t, at |-> "snapshot",
                   want |-> IF op = "suspend" THEN "holding" ELSE "shop",
                   snap |-> None, before |-> None, undo |-> FALSE, faults |-> 0]
  <2>1. session' = [session EXCEPT ![s] = r] /\ r.at # "idle" /\ r.tenant = t
    BY <1>4 DEF BeginEnforced
  <2>2. Right(r, status[t], route[t])
    <3>1. op \in {"suspend", "unsuspend"}
      BY <1>4 DEF BeginEnforced
    <3>2. CASE op = "suspend"
      BY <1>1, <1>3, <3>2 DEF MayRun, Served, Right, Suspending
    <3>3. CASE op = "unsuspend"
      BY <1>1, <3>3 DEF MayRun, Right, Unsuspending
    <3> QED
      BY <3>1, <3>2, <3>3
  <2> HIDE DEF r
  <2> QED
    BY <1>1, <2>1, <2>2, AloneMoves
<1>5. CASE BeginPlain(s, op, t)
  <2> DEFINE r == [op |-> op, tenant |-> t, at |-> "write", want |-> "shop",
                   snap |-> None, before |-> None, undo |-> FALSE, faults |-> 0]
  <2>1. session' = [session EXCEPT ![s] = r] /\ r.at # "idle" /\ r.tenant = t
    BY <1>5 DEF BeginPlain
  <2>2. Right(r, status[t], route[t])
    <3>1. op \in {"activate", "offboard"}
      BY <1>5 DEF BeginPlain
    <3>2. op = "activate" => status[t] = "prospect"
      BY <1>1 DEF MayRun
    <3> QED
      BY <1>3, <3>1, <3>2 DEF Served, Right
  <2> HIDE DEF r
  <2> QED
    BY <1>1, <2>1, <2>2, AloneMoves
<1> QED
  BY <1>4, <1>5

LEMMA StepKeepsAlone ==
  ASSUME Typed, Alone, OneSession, OneFault, NEW s \in Sessions, Step(s) \/ Fault(s)
  PROVE  Alone'
<1> DEFINE r == session[s]
           t == r.tenant
           q == session'[s]
<1>t. session \in [Sessions -> Session] /\ r \in Session
      /\ status \in [Tenants -> Statuses] /\ route \in [Tenants -> Pages]
  BY DEF Typed, TypeOK
<1>f. r.faults \in Nat /\ r.faults + 1 # 0 /\ r.undo \in BOOLEAN
  BY <1>t DEF Session
<1>1. r.at # "idle"
  BY FaultsAssumption
  DEF Step, Fault, Snapshot, EnsureTagged, ReadRoute, Patch, VerifyOK, VerifyRefused,
      Rollback, CommitRead, CommitWrite, PrepareFails, PatchFails, VerifyFails,
      RollbackFails, DatabaseFails, Crash
<1>2. t \in Tenants /\ r.op \in Operations
  BY <1>1 DEF Typed, Assigned
<1>3. Right(r, status[t], route[t])
  BY <1>1 DEF Alone, AllRight
<1>m. \A kind : MayFail(s, kind) => r.faults = 0
  BY <1>f DEF MayFail, OneFault
<1>o. /\ r.at \in {"snapshot", "tag", "read", "patch", "verify", "rollback", "commit"} =>
           r.op \in {"suspend", "unsuspend"}
      /\ r.undo = TRUE => r.op = "suspend" /\ Undoing(r, status[t], route[t])
      /\ r.undo = FALSE /\ r.op = "suspend" => Suspending(r, status[t], route[t])
      /\ r.undo = FALSE /\ r.op = "unsuspend" => Unsuspending(r, status[t], route[t])
  BY <1>3, <1>f DEF Right, Undoing
<1>e. ASSUME Ended(s), Served(status'[t], route'[t]),
             \A u \in Tenants \ {t} : status'[u] = status[u] /\ route'[u] = route[u]
      PROVE  Alone'
  BY <1>2, <1>e, AloneMoves DEF Ended
<1>g. ASSUME session' = [session EXCEPT ![s] = q], q.at # "idle", q.tenant = t,
             Right(q, status'[t], route'[t]),
             \A u \in Tenants \ {t} : status'[u] = status[u] /\ route'[u] = route[u]
      PROVE  Alone'
  BY <1>2, <1>g, AloneMoves
<1>c. ASSUME NEW n \in Nat, n # 0, Compensated(s, n), UNCHANGED <<status, route>>,
             r.at \in {"commit", "write"}
      PROVE  Alone'
  <2>1. CASE r.op = "suspend"
    <3>1. /\ session' = [session EXCEPT ![s] = q]
          /\ q = [op |-> "suspend", tenant |-> t, at |-> "snapshot", want |-> "shop",
                  snap |-> None, before |-> None, undo |-> TRUE, faults |-> n]
      BY <1>t, <1>c, <2>1 DEF Compensated
    <3>2. status[t] = "active"
      BY <1>o, <1>f, <2>1 DEF Suspending, Undoing
    <3>3. Right(q, status'[t], route'[t])
      BY <1>c, <3>1, <3>2 DEF Right, Undoing
    <3> HIDE DEF q
    <3> QED
      BY <1>c, <1>g, <3>1, <3>3
  <2>2. CASE r.op # "suspend"
    <3>1. Ended(s)
      BY <1>c, <2>2 DEF Compensated
    <3>2. Served(status'[t], route'[t])
      BY <1>c, <1>3, <1>f, <2>2 DEF Right, Undoing, Unsuspending, Served
    <3> QED
      BY <1>c, <1>e, <3>1, <3>2
  <2> QED
    BY <2>1, <2>2
<1>4. CASE Snapshot(s)
  <2>1. /\ session' = [session EXCEPT ![s] = q]
        /\ q.op = r.op /\ q.tenant = t /\ q.want = r.want /\ q.undo = r.undo
        /\ q.faults = r.faults /\ q.at = "tag" /\ r.at = "snapshot"
        /\ q.snap = IF tagged[t] THEN route[t] ELSE None
    BY <1>t, <1>4 DEF Snapshot, Session
  <2>2. Right(q, status[t], route[t])
    BY <1>o, <1>f, <2>1 DEF Right, Suspending, Undoing, Unsuspending
  <2> HIDE DEF q
  <2> QED
    BY <1>4, <1>g, <2>1, <2>2 DEF Snapshot
<1>5. CASE ReadRoute(s)
  <2>1. /\ session' = [session EXCEPT ![s] = q]
        /\ q.op = r.op /\ q.tenant = t /\ q.want = r.want /\ q.undo = r.undo
        /\ q.faults = r.faults /\ q.at = "patch" /\ r.at = "read"
        /\ q.snap = r.snap /\ q.before = route[t]
    BY <1>t, <1>5 DEF ReadRoute, Session
  <2>2. Right(q, status[t], route[t])
    BY <1>o, <1>f, <2>1 DEF Right, Suspending, Undoing, Unsuspending
  <2> HIDE DEF q
  <2> QED
    BY <1>5, <1>g, <2>1, <2>2 DEF ReadRoute
<1>v. ASSUME NEW to \in Places, Moved(s, to) \/ FaultMoved(s, to)
      PROVE  /\ session' = [session EXCEPT ![s] = q]
             /\ q.op = r.op /\ q.tenant = t /\ q.want = r.want /\ q.undo = r.undo
             /\ q.at = to /\ q.snap = r.snap /\ q.before = r.before
             /\ Moved(s, to) => q.faults = r.faults
             /\ FaultMoved(s, to) => q.faults = r.faults + 1
  <2>1. CASE Moved(s, to)
    <3>1. session' = [session EXCEPT ![s] = q]
      BY <1>t, <2>1 DEF Moved
    <3>2. q = [r EXCEPT !.at = to]
      BY <1>t, <2>1 DEF Moved
    <3>3. FaultMoved(s, to) => q.faults = r.faults + 1
      BY <1>t DEF FaultMoved, Session
    <3> HIDE DEF q
    <3> QED
      BY <1>t, <3>1, <3>2, <3>3 DEF Session
  <2>2. CASE FaultMoved(s, to)
    <3>1. session' = [session EXCEPT ![s] = q]
      BY <1>t, <2>2 DEF FaultMoved
    <3>2. q = [r EXCEPT !.at = to, !.faults = r.faults + 1]
      BY <1>t, <2>2 DEF FaultMoved
    <3>3. Moved(s, to) => q.faults = r.faults
      BY <1>t DEF Moved, Session
    <3> HIDE DEF q
    <3> QED
      BY <1>t, <3>1, <3>2, <3>3 DEF Session
  <2> QED
    BY <1>v, <2>1, <2>2
<1> HIDE DEF q
<1>6. CASE EnsureTagged(s)
  <2>1. Moved(s, "read") /\ r.at = "tag" /\ UNCHANGED <<status, route>>
    BY <1>6 DEF EnsureTagged
  <2>2. Right(q, status[t], route[t])
    BY <1>o, <1>f, <1>v, <2>1 DEF Right, Suspending, Undoing, Unsuspending, Places
  <2> QED
    BY <1>g, <1>v, <2>1, <2>2 DEF Places
<1>7. CASE Patch(s)
  <2>1. Moved(s, "verify") /\ r.at = "patch" /\ UNCHANGED status
        /\ route' = [route EXCEPT ![t] = r.want]
    BY <1>7 DEF Patch
  <2>2. /\ route'[t] = r.want
        /\ \A u \in Tenants \ {t} : status'[u] = status[u] /\ route'[u] = route[u]
    BY <1>t, <1>2, <2>1
  <2>3. Right(q, status[t], route'[t])
    BY <1>o, <1>f, <1>v, <2>1, <2>2 DEF Right, Suspending, Undoing, Unsuspending, Places
  <2> QED
    BY <1>g, <1>v, <2>1, <2>2, <2>3 DEF Places
<1>8. CASE PatchFails(s)
  <2>1. FaultMoved(s, "rollback") /\ r.at = "patch" /\ UNCHANGED status /\ r.faults = 0
    BY <1>8, <1>m DEF PatchFails
  <2>2. \A u \in Tenants \ {t} : status'[u] = status[u] /\ route'[u] = route[u]
    BY <1>8, <1>t DEF PatchFails
  <2>3. Right(q, status[t], route'[t])
    BY <1>o, <1>f, <1>v, <2>1 DEF Right, Suspending, Undoing, Unsuspending, Places
  <2> QED
    BY <1>g, <1>v, <2>1, <2>2, <2>3 DEF Places
<1>9. CASE VerifyOK(s)
  <2>1. r.at = "verify" /\ route[t] = r.want /\ UNCHANGED <<status, route>>
    BY <1>9 DEF VerifyOK
  <2>2. CASE r.undo = TRUE
    <3>1. Ended(s) /\ Served(status'[t], route'[t])
      BY <1>9, <1>o, <2>1, <2>2 DEF VerifyOK, Undoing, Served
    <3> QED
      BY <1>e, <2>1, <3>1
  <2>3. CASE r.undo = FALSE
    <3>1. Moved(s, "commit")
      BY <1>9, <2>3 DEF VerifyOK
    <3>2. Right(q, status[t], route[t])
      BY <1>o, <1>v, <2>1, <2>3, <3>1 DEF Right, Suspending, Unsuspending, Places
    <3> QED
      BY <1>g, <1>v, <2>1, <3>1, <3>2 DEF Places
  <2> QED
    BY <1>f, <2>2, <2>3
<1>10. CASE VerifyRefused(s)
  <2>1. r.at = "verify" /\ route[t] # r.want
    BY <1>10 DEF VerifyRefused
  <2> QED
    BY <1>f, <1>o, <2>1 DEF Suspending, Undoing, Unsuspending
<1>11. CASE VerifyFails(s)
  <2>1. FaultMoved(s, "rollback") /\ r.at = "verify" /\ UNCHANGED <<status, route>>
        /\ r.faults = 0
    BY <1>11, <1>m DEF VerifyFails
  <2>2. Right(q, status[t], route[t])
    BY <1>o, <1>f, <1>v, <2>1 DEF Right, Suspending, Undoing, Unsuspending, Places
  <2> QED
    BY <1>g, <1>v, <2>1, <2>2 DEF Places
<1>12. CASE Rollback(s)
  <2>1. r.at = "rollback" /\ Ended(s) /\ UNCHANGED status
        /\ route' = [route EXCEPT ![t] = RolledBackTo(s)]
    BY <1>12 DEF Rollback
  <2>2. /\ route'[t] = RolledBackTo(s)
        /\ \A u \in Tenants \ {t} : status'[u] = status[u] /\ route'[u] = route[u]
    BY <1>t, <1>2, <2>1
  <2>3. Served(status'[t], route'[t])
    BY <1>f, <1>o, <2>1, <2>2
    DEF Suspending, Undoing, Unsuspending, Served, RolledBackTo
  <2> QED
    BY <1>e, <2>1, <2>2, <2>3
<1>13. CASE CommitRead(s)
  <2>1. r.at = "commit" /\ UNCHANGED <<status, route>>
    BY <1>13 DEF CommitRead
  <2>2. MayRun(r.op, status[t]) /\ r.undo = FALSE
    BY <1>f, <1>o, <2>1 DEF Suspending, Undoing, Unsuspending, MayRun
  <2>3. Moved(s, "write")
    BY <1>13, <2>2 DEF CommitRead
  <2>4. Right(q, status[t], route[t])
    BY <1>o, <1>v, <2>1, <2>2, <2>3 DEF Right, Suspending, Unsuspending, Places
  <2> QED
    BY <1>g, <1>v, <2>1, <2>3, <2>4 DEF Places
<1>14. CASE CommitWrite(s)
  <2>1. r.at = "write" /\ Ended(s) /\ UNCHANGED route
        /\ status' = [status EXCEPT ![t] = Outcome(r.op)]
    BY <1>14 DEF CommitWrite
  <2>2. /\ status'[t] = Outcome(r.op)
        /\ \A u \in Tenants \ {t} : status'[u] = status[u]
    BY <1>t, <1>2, <2>1
  <2>3. Served(status'[t], route[t])
    BY <1>f, <1>3, <1>2, <2>1, <2>2
    DEF Right, Undoing, Unsuspending, Served, Outcome, Operations
  <2> QED
    BY <1>e, <2>1, <2>2, <2>3
<1>15. CASE DatabaseFails(s)
  <2>1. Compensated(s, r.faults + 1) /\ r.at \in {"commit", "write"} /\ r.faults + 1 \in Nat
        /\ UNCHANGED <<status, route>>
    BY <1>15, <1>f DEF DatabaseFails
  <2> QED
    BY <1>c, <1>f, <2>1
<1>16. CASE PrepareFails(s)
  <2>1. r.at \in {"snapshot", "tag", "read"} /\ Ended(s) /\ r.faults = 0
        /\ UNCHANGED <<status, route>>
    BY <1>16, <1>m DEF PrepareFails
  <2>2. Served(status'[t], route'[t])
    BY <1>f, <1>o, <2>1 DEF Suspending, Undoing, Unsuspending, Served
  <2> QED
    BY <1>e, <2>1, <2>2
<1>17. CASE RollbackFails(s)
  <2>1. r.at = "rollback" /\ Ended(s) /\ r.faults = 0 /\ UNCHANGED <<status, route>>
    BY <1>17, <1>m DEF RollbackFails
  <2>2. Served(status'[t], route'[t])
    BY <1>f, <1>o, <2>1 DEF Suspending, Undoing, Unsuspending, Served
  <2> QED
    BY <1>e, <2>1, <2>2
<1>18. ~Crash(s)
  BY DEF Crash, OneFault
<1> QED
  BY <1>4, <1>5, <1>6, <1>7, <1>8, <1>9, <1>10, <1>11, <1>12, <1>13, <1>14, <1>15,
     <1>16, <1>17, <1>18 DEF Step, Fault

LEMMA NextKeepsAlone ==
  ASSUME Typed, Alone, OneSession, OneFault, [Next]_vars
  PROVE  Alone'
<1>1. ASSUME NEW s \in Sessions, NEW op \in Operations, NEW t \in Tenants,
             BeginEnforced(s, op, t) \/ BeginPlain(s, op, t)
      PROVE  Alone'
  BY <1>1, BeginKeepsAlone
<1>2. ASSUME NEW s \in Sessions, Step(s) \/ Fault(s) PROVE Alone'
  BY <1>2, StepKeepsAlone
<1>3. CASE UNCHANGED <<status, route, session>>
  <2>1. AllRight'
    BY <1>3 DEF Alone, AllRight
  <2>2. OtherTenantsServed'
    BY <1>3 DEF Alone, OtherTenantsServed, Quiet
  <2>3. IdleIsQuiet'
    BY <1>3 DEF Alone, IdleIsQuiet
  <2> QED
    BY <2>1, <2>2, <2>3 DEF Alone
<1> QED
  BY <1>1, <1>2, <1>3 DEF Next, PollBegin, PollOne, vars

LEMMA AloneInitially == Init => Alone
BY IdleTyped
DEF Init, Alone, AllRight, OtherTenantsServed, IdleIsQuiet, Served

\* When operations come one at a time, a suspension that fails, in whichever
\* of its calls, check or transaction, leaves the shop served.
THEOREM FailedSuspensionServed ==
  OneSession /\ OneFault /\ Spec => []ActiveIsServed
<1>1. Alone => ActiveIsServed
  BY DEF Alone, OtherTenantsServed, ActiveIsServed, Served
<1>2. Typed /\ Alone /\ OneSession /\ OneFault /\ [Next]_vars => Alone'
  BY NextKeepsAlone
<1>3. (OneSession => OneSession') /\ (OneFault => OneFault')
  OBVIOUS
<1> QED
  BY <1>1, <1>2, <1>3, AloneInitially, TypedInitially, NextKeepsTyped, PTL DEF Spec

-----------------------------------------------------------------------------
(* The end of a tenant.                                                    *)

\* What is about to be written was read as allowed: the two transactions of an
\* operation that runs alone find the same status.
WriteAllowed == \A s \in Sessions :
  session[s].at = "write" => MayRun(session[s].op, status[session[s].tenant])

LEMMA NextKeepsWriteAllowed ==
  ASSUME Typed, WriteAllowed, OneSession, [Next]_vars
  PROVE  WriteAllowed'
<1>t. session \in [Sessions -> Session] /\ Idle.at = "idle"
  BY DEF Typed, TypeOK, Idle
<1>1. ASSUME NEW s \in Sessions,
             session'[s].at = "write" =>
               MayRun(session'[s].op, status'[session'[s].tenant])
      PROVE  WriteAllowed'
  BY <1>1 DEF WriteAllowed, OneSession
<1>2. ASSUME NEW s \in Sessions, NEW op \in Operations, NEW t \in Tenants,
             BeginEnforced(s, op, t) \/ BeginPlain(s, op, t)
      PROVE  WriteAllowed'
  <2>1. session'[s].at = "write" => MayRun(session'[s].op, status'[session'[s].tenant])
    BY <1>t, <1>2 DEF BeginEnforced, BeginPlain
  <2> QED
    BY <1>1, <2>1
<1>3. ASSUME NEW s \in Sessions, Step(s) \/ Fault(s) PROVE WriteAllowed'
  <2>t. session[s] \in Session
    BY <1>t
  <2>1. ASSUME CommitRead(s), MayRun(session[s].op, status[session[s].tenant])
        PROVE  WriteAllowed'
    <3>1. Moved(s, "write") /\ UNCHANGED status
      BY <2>1 DEF CommitRead
    <3>2. session'[s].op = session[s].op /\ session'[s].tenant = session[s].tenant
      BY <1>t, <2>t, <3>1 DEF Moved, Session
    <3> QED
      BY <1>1, <2>1, <3>1, <3>2
  <2>2. ASSUME ~(CommitRead(s) /\ MayRun(session[s].op, status[session[s].tenant]))
        PROVE  session'[s].at # "write"
    <3>1. ASSUME NEW n, Compensated(s, n) PROVE session'[s].at # "write"
      BY <1>t, <3>1 DEF Compensated, Ended
    <3>2. ASSUME Ended(s) PROVE session'[s].at # "write"
      BY <1>t, <3>2 DEF Ended
    <3>3. ASSUME NEW to, to # "write", Moved(s, to) \/ FaultMoved(s, to)
          PROVE  session'[s].at # "write"
      <4>1. CASE Moved(s, to)
        BY <1>t, <2>t, <3>3, <4>1 DEF Moved, Session
      <4>2. CASE FaultMoved(s, to)
        BY <1>t, <2>t, <3>3, <4>2 DEF FaultMoved, Session
      <4> QED
        BY <3>3, <4>1, <4>2
    <3>4. CASE Snapshot(s) \/ ReadRoute(s)
      <4>1. CASE Snapshot(s)
        BY <1>t, <2>t, <4>1 DEF Snapshot, Session
      <4>2. CASE ReadRoute(s)
        BY <1>t, <2>t, <4>2 DEF ReadRoute, Session
      <4> QED
        BY <3>4, <4>1, <4>2
    <3>5. CASE EnsureTagged(s) \/ Patch(s) \/ PatchFails(s) \/ VerifyRefused(s)
               \/ VerifyFails(s)
      <4>1. \E to \in {"read", "verify", "rollback"} : Moved(s, to) \/ FaultMoved(s, to)
        BY <3>5 DEF EnsureTagged, Patch, PatchFails, VerifyRefused, VerifyFails
      <4> QED
        BY <3>3, <4>1
    <3>6. CASE VerifyOK(s)
      BY <3>2, <3>3, <3>6 DEF VerifyOK
    <3>7. CASE Rollback(s) \/ CommitWrite(s) \/ PrepareFails(s) \/ RollbackFails(s) \/ Crash(s)
      BY <3>2, <3>7 DEF Rollback, CommitWrite, PrepareFails, RollbackFails, Crash
    <3>8. CASE CommitRead(s) \/ DatabaseFails(s)
      BY <2>2, <3>1, <3>8 DEF CommitRead, DatabaseFails
    <3> QED
      BY <1>3, <3>4, <3>5, <3>6, <3>7, <3>8 DEF Step, Fault
  <2> QED
    BY <1>1, <2>1, <2>2
<1>4. CASE PollBegin \/ (\E t \in Tenants : PollOne(t)) \/ UNCHANGED vars
  BY <1>4 DEF PollBegin, PollOne, vars, WriteAllowed
<1> QED
  BY <1>2, <1>3, <1>4 DEF Next

\* No operation takes a tenant out of offboarded, one that read its status before
\* the offboarding included, where operations come one at a time (the second read
\* in the transactions of suspendTenant, unsuspendTenant and activateTenant).
THEOREM OffboardedForGood == OneSession /\ Spec => OffboardedIsFinal
<1>1. Init => WriteAllowed
  BY DEF Init, WriteAllowed, Idle
<1>2. Typed /\ WriteAllowed /\ [Next]_vars =>
        [\A t \in Tenants : status[t] = "offboarded" => status'[t] = "offboarded"]_vars
  <2> SUFFICES ASSUME Typed, WriteAllowed, Next, NEW t \in Tenants, status[t] = "offboarded",
                      status'[t] # "offboarded"
               PROVE  FALSE
    OBVIOUS
  <2>1. PICK s \in Sessions : CommitWrite(s)
    BY DEF Next, BeginEnforced, BeginPlain, Step, Fault, Snapshot, EnsureTagged, ReadRoute,
       Patch, VerifyOK, VerifyRefused, Rollback, CommitRead, PrepareFails, PatchFails,
       VerifyFails, RollbackFails, DatabaseFails, Crash, PollBegin, PollOne
  <2>2. status \in [Tenants -> Statuses] /\ session[s].at = "write"
        /\ session[s].tenant \in Tenants /\ session[s].op \in Operations
        /\ status' = [status EXCEPT ![session[s].tenant] = Outcome(session[s].op)]
    BY <2>1 DEF CommitWrite, Typed, TypeOK, Assigned
  <2>3. session[s].tenant = t
    BY <2>2
  <2>4. MayRun(session[s].op, "offboarded")
    BY <2>2, <2>3 DEF WriteAllowed
  <2> QED
    BY <2>2, <2>4 DEF MayRun, Operations
<1>3. OneSession => OneSession'
  OBVIOUS
<1>4. Typed /\ WriteAllowed /\ OneSession /\ [Next]_vars => WriteAllowed'
  BY NextKeepsWriteAllowed
<1> QED
  BY <1>1, <1>2, <1>3, <1>4, TypedInitially, NextKeepsTyped, PTL DEF Spec, OffboardedIsFinal
=============================================================================
