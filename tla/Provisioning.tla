---------------------------- MODULE Provisioning ----------------------------
(***************************************************************************)
(* A new tenant is provisioned by a job: the console queues it and stores  *)
(* the operator's secrets for it (tenants/provision-actions.ts), a worker  *)
(* on the target server claims it and runs the routine of                  *)
(* src/lib/provisioning/routine.ts, and records the outcome                *)
(* (workers/provision-worker.ts, src/lib/provisioning/jobs.ts).            *)
(*                                                                         *)
(* One server: a job is claimed by the workers of its own server only, so  *)
(* servers share nothing but the collision checks.  SQL statements and     *)
(* transactions, and the shell commands of the routine, are steps.         *)
(***************************************************************************)
EXTENDS Naturals, Sequences, FiniteSets

CONSTANTS
  TenantIds,    \* fleet slugs
  DomainOf,     \* the domain the operator types for each slug
  Workers,      \* worker processes of the server
  Operators,    \* console requests that may run at once
  MaxJobs,      \* bound on the rows of provisioning_jobs
  MaxRetries,   \* bound on the retries of a job (retryCount)
  MaxFaults,    \* bound on failures, crashes of workers included
  None

ASSUME ProvisioningAssumption ==
  /\ {MaxJobs, MaxRetries, MaxFaults} \subseteq Nat
  /\ None \notin TenantIds

VARIABLES
  jobs,       \* provisioning_jobs: a row's id is its position
  crm,        \* slugs in the table tenants
  database,   \* the admin password each tenant's database was made with
  up,         \* tenants whose container runs
  worker,     \* what each worker is doing
  operator,   \* what each console request is doing
  faults

vars == <<jobs, crm, database, up, worker, operator, faults>>

JobStatuses == {"queued", "running", "awaiting_env", "succeeded", "failed"}

\* `secrets`: provisioning_job_secrets holds the job's ciphertext.  `stale`:
\* started_at is older than the worker's limit.
Job == [tenant : TenantIds, status : JobStatuses, secrets : BOOLEAN,
        stale : BOOLEAN, retries : Nat]
JobIds == 1 .. MaxJobs
NoJob == 0

Passwords == {"none", "operators", "generated"}

Steps == {"validate", "load", "database", "compose", "health", "place",
          "purge", "report", "cleanup", "finish", "fatal"}

\* `handoff`: step 3 found the operator's secrets.  `started`: the variable
\* containerStarted.
Worker == [at : {"idle", "claim"} \cup Steps, job : JobIds \cup {NoJob},
           handoff : BOOLEAN, started : BOOLEAN,
           outcome : {"succeeded", "failed"}]
IdleWorker == [at |-> "idle", job |-> NoJob, handoff |-> FALSE,
               started |-> FALSE, outcome |-> "failed"]

Operator == [at : {"idle", "insert", "store", "requeue"},
             tenant : TenantIds \cup {None}, job : JobIds \cup {NoJob}]
IdleOperator == [at |-> "idle", tenant |-> None, job |-> NoJob]

TypeOK ==
  /\ jobs \in Seq(Job) /\ Len(jobs) <= MaxJobs
  /\ crm \subseteq TenantIds
  /\ database \in [TenantIds -> Passwords]
  /\ up \subseteq TenantIds
  /\ worker \in [Workers -> Worker]
  /\ operator \in [Operators -> Operator]
  /\ faults \in 0 .. MaxFaults

Init ==
  /\ jobs = <<>>
  /\ crm = {}
  /\ database = [t \in TenantIds |-> "none"]
  /\ up = {}
  /\ worker = [w \in Workers |-> IdleWorker]
  /\ operator = [o \in Operators |-> IdleOperator]
  /\ faults = 0

Fault == faults < MaxFaults /\ faults' = faults + 1

-----------------------------------------------------------------------------
(* Another job that stands in the way of one for tenant t.                 *)

Blocking == {"queued", "running", "awaiting_env", "succeeded"}

SameTenant(j, t) == jobs[j].tenant = t
SameDomain(j, t) == DomainOf[jobs[j].tenant] = DomainOf[t]

\* assertProvisionCollisions.  Its four reads are one step: a job that moves
\* between them stays Blocking until the tenant is in none of the tables.
NoCollision(t, exclude) ==
  /\ t \notin crm
  /\ \A u \in crm : DomainOf[u] # DomainOf[t]
  /\ \A j \in DOMAIN jobs \ {exclude} :
       jobs[j].status \in Blocking => ~SameTenant(j, t) /\ ~SameDomain(j, t)

\* assertTenantIdUnique, in step 1 of the routine: the domain is not looked at.
UniqueUnlessSucceeded(j) ==
  \A k \in DOMAIN jobs \ {j} :
    jobs[k].status \in Blocking \ {"succeeded"} => ~SameTenant(k, jobs[j].tenant)
TenantIdUnique(j) ==
  /\ jobs[j].tenant \notin crm
  /\ \A k \in DOMAIN jobs \ {j} :
       jobs[k].status \in Blocking => ~SameTenant(k, jobs[j].tenant)

-----------------------------------------------------------------------------
(* The console: enqueueProvisionJobAction and retryProvisionJobAction.     *)

EnqueueCheck(o, t) ==
  /\ operator[o].at = "idle"
  /\ NoCollision(t, NoJob)
  /\ operator' = [operator EXCEPT ![o] = [at |-> "insert", tenant |-> t, job |-> NoJob]]
  /\ UNCHANGED <<jobs, crm, database, up, worker, faults>>

\* The id is read after the row is in.
EnqueueInsertOffByOne(o) ==
  /\ operator[o].at = "insert"
  /\ Len(jobs) < MaxJobs
  /\ jobs' = Append(jobs, [tenant |-> operator[o].tenant, status |-> "queued",
                           secrets |-> FALSE, stale |-> FALSE, retries |-> 0])
  /\ operator' = [operator EXCEPT ![o] =
                    [at |-> "store", tenant |-> @.tenant, job |-> Len(jobs) + 2]]
  /\ UNCHANGED <<crm, database, up, worker, faults>>

EnqueueInsert(o) ==
  /\ operator[o].at = "insert"
  /\ Len(jobs) < MaxJobs
  /\ jobs' = Append(jobs, [tenant |-> operator[o].tenant, status |-> "queued",
                           secrets |-> FALSE, stale |-> FALSE, retries |-> 0])
  /\ operator' = [operator EXCEPT ![o] =
                    [at |-> "store", tenant |-> @.tenant, job |-> Len(jobs) + 1]]
  /\ UNCHANGED <<crm, database, up, worker, faults>>

EnqueueStore(o) ==
  /\ operator[o].at = "store"
  /\ jobs' = [jobs EXCEPT ![operator[o].job].secrets = TRUE]
  /\ operator' = [operator EXCEPT ![o] = IdleOperator]
  /\ UNCHANGED <<crm, database, up, worker, faults>>

RetryCheck(o, j) ==
  /\ operator[o].at = "idle"
  /\ jobs[j].status = "failed"
  /\ NoCollision(jobs[j].tenant, j)
  /\ operator' = [operator EXCEPT ![o] = [at |-> "requeue", tenant |-> None, job |-> j]]
  /\ UNCHANGED <<jobs, crm, database, up, worker, faults>>

\* requeueFailedProvisioningJob: an UPDATE ... WHERE status = 'failed'.
Requeue(o) ==
  /\ operator[o].at = "requeue"
  /\ LET j == operator[o].job IN
     IF jobs[j].status = "failed"
     THEN /\ jobs[j].retries < MaxRetries
          /\ jobs' = [jobs EXCEPT ![j].status = "queued", ![j].stale = FALSE,
                                  ![j].retries = @ + 1]
     ELSE UNCHANGED jobs
  /\ operator' = [operator EXCEPT ![o] = IdleOperator]
  /\ UNCHANGED <<crm, database, up, worker, faults>>

\* A statement of the request fails, or its process ends: no undoing.
RequestFails(o) ==
  /\ operator[o].at # "idle"
  /\ Fault
  /\ operator' = [operator EXCEPT ![o] = IdleOperator]
  /\ UNCHANGED <<jobs, crm, database, up, worker>>

-----------------------------------------------------------------------------
(* The worker's tick: reclaim, then claim.                                 *)

\* Time passes over a running job, run by somebody or by nobody any more: the
\* limit is 30 minutes by default, as long as one docker build may take.
GrowStale(j) ==
  /\ jobs[j].status = "running" /\ ~jobs[j].stale
  /\ jobs' = [jobs EXCEPT ![j].stale = TRUE]
  /\ UNCHANGED <<crm, database, up, worker, operator, faults>>

\* reclaimStaleRunningJobs
NotReclaimed(job) == job
Reclaimed(job) ==
  IF job.status = "running" /\ job.stale
  THEN [job EXCEPT !.status = "queued", !.stale = FALSE]
  ELSE job

Reclaim(w) ==
  /\ worker[w].at = "idle"
  /\ jobs' = [j \in DOMAIN jobs |-> Reclaimed(jobs[j])]
  /\ worker' = [worker EXCEPT ![w].at = "claim"]
  /\ UNCHANGED <<crm, database, up, operator, faults>>

Queued == {j \in DOMAIN jobs : jobs[j].status = "queued"}

\* claimNextQueuedJob: the oldest queued row, locked while it is updated.
Claim(w) ==
  /\ worker[w].at = "claim"
  /\ IF Queued = {}
     THEN /\ worker' = [worker EXCEPT ![w] = IdleWorker]
          /\ UNCHANGED jobs
     ELSE \E j \in Queued :
          /\ \A k \in Queued : j <= k
          /\ jobs' = [jobs EXCEPT ![j].status = "running", ![j].stale = FALSE]
          /\ worker' = [worker EXCEPT ![w] =
                          [at |-> "validate", job |-> j, handoff |-> FALSE,
                           started |-> FALSE, outcome |-> "failed"]]
  /\ UNCHANGED <<crm, database, up, operator, faults>>

-----------------------------------------------------------------------------
(* runProvisionRoutine, run by worker w.                                   *)

At(w, step) == worker[w].at = step
Go(w, step) == worker' = [worker EXCEPT ![w].at = step]
TenantOf(w) == jobs[worker[w].job].tenant

Validate(w) ==
  /\ At(w, "validate")
  /\ IF TenantIdUnique(worker[w].job) THEN Go(w, "load") ELSE Go(w, "finish")
  /\ UNCHANGED <<jobs, crm, database, up, operator, faults>>

LoadSecrets(w) ==
  /\ At(w, "load")
  /\ worker' = [worker EXCEPT ![w] =
                  [@ EXCEPT !.at = "database", !.handoff = jobs[worker[w].job].secrets]]
  /\ UNCHANGED <<jobs, crm, database, up, operator, faults>>

\* An existing database is attached, whatever its admin's password is; a new
\* one gets the password handed over, else a generated one nobody is told.
ProvisionDatabase(w) ==
  /\ At(w, "database")
  /\ database' = [database EXCEPT ![TenantOf(w)] =
                    IF @ # "none" THEN @
                    ELSE IF worker[w].handoff THEN "operators" ELSE "generated"]
  /\ Go(w, "compose")
  /\ UNCHANGED <<jobs, crm, up, operator, faults>>

\* Steps 4 to 6: the .env file, the fleet's files, docker compose up.
ComposeUp(w) ==
  /\ At(w, "compose")
  /\ up' = up \cup {TenantOf(w)}
  /\ worker' = [worker EXCEPT ![w] = [@ EXCEPT !.at = "health", !.started = TRUE]]
  /\ UNCHANGED <<jobs, crm, database, operator, faults>>

\* The shop answers only from its container; else the poll times out.
HealthCheck(w) ==
  /\ At(w, "health")
  /\ IF TenantOf(w) \in up THEN Go(w, "place") ELSE Go(w, "cleanup")
  /\ UNCHANGED <<jobs, crm, database, up, operator, faults>>

\* assignTenantToServer
Place(w) ==
  /\ At(w, "place")
  /\ crm' = crm \cup {TenantOf(w)}
  /\ Go(w, "purge")
  /\ UNCHANGED <<jobs, database, up, operator, faults>>

\* A placement that fails is logged as a warning, and so is a purge.
PlaceFails(w) ==
  /\ At(w, "place")
  /\ Fault
  /\ Go(w, "purge")
  /\ UNCHANGED <<jobs, crm, database, up, operator>>

Purge(w) ==
  /\ At(w, "purge")
  /\ jobs' = [jobs EXCEPT ![worker[w].job].secrets = FALSE]
  /\ Go(w, "report")
  /\ UNCHANGED <<crm, database, up, operator, faults>>

PurgeFails(w) ==
  /\ At(w, "purge")
  /\ Fault
  /\ Go(w, "report")
  /\ UNCHANGED <<jobs, crm, database, up, operator>>

Report(w) ==
  /\ At(w, "report")
  /\ worker' = [worker EXCEPT ![w] =
                  [@ EXCEPT !.at = "finish", !.outcome = "succeeded"]]
  /\ UNCHANGED <<jobs, crm, database, up, operator, faults>>

\* A step throws, if only because its log line cannot be written.  Step 6 may
\* throw before or after the container is up; `started` is not set then.
StepFails(w) ==
  /\ worker[w].at \in {"validate", "load", "database", "compose", "health",
                       "place", "purge", "report"}
  /\ Fault
  /\ \/ /\ At(w, "compose")
        /\ up' = up \cup {TenantOf(w)}
     \/ UNCHANGED up
  /\ IF worker[w].started THEN Go(w, "cleanup") ELSE Go(w, "finish")
  /\ UNCHANGED <<jobs, crm, database, operator>>

Cleanup(w) ==
  /\ At(w, "cleanup")
  /\ up' = up \ {TenantOf(w)}
  /\ Go(w, "finish")
  /\ UNCHANGED <<jobs, crm, database, operator, faults>>

CleanupFails(w) ==
  /\ At(w, "cleanup")
  /\ Fault
  /\ Go(w, "finish")
  /\ UNCHANGED <<jobs, crm, database, up, operator>>

-----------------------------------------------------------------------------
(* processOneJob records the outcome.                                      *)

\* finishProvisioningJob: UPDATE ... WHERE status = 'running'.
FinishedAnyway(job, outcome) == [job EXCEPT !.status = outcome, !.stale = FALSE]
Finished(job, outcome) ==
  IF job.status = "running"
  THEN [job EXCEPT !.status = outcome, !.stale = FALSE]
  ELSE job

Finish(w) ==
  /\ At(w, "finish")
  /\ jobs' = [jobs EXCEPT ![worker[w].job] = Finished(@, worker[w].outcome)]
  /\ worker' = [worker EXCEPT ![w] = IdleWorker]
  /\ UNCHANGED <<crm, database, up, operator, faults>>

\* The outcome, or the audit entry that follows it, cannot be written.
FinishFails(w) ==
  /\ At(w, "finish")
  /\ Fault
  /\ \/ UNCHANGED jobs
     \/ jobs' = [jobs EXCEPT ![worker[w].job] = Finished(@, worker[w].outcome)]
  /\ Go(w, "fatal")
  /\ UNCHANGED <<crm, database, up, operator>>

Fatal(w) ==
  /\ At(w, "fatal")
  /\ jobs' = [jobs EXCEPT ![worker[w].job] = Finished(@, "failed")]
  /\ worker' = [worker EXCEPT ![w] = IdleWorker]
  /\ UNCHANGED <<crm, database, up, operator, faults>>

\* The process ends and is started again; the last error of a tick, which is
\* only logged, has the same effect.
Crash(w) ==
  /\ worker[w].at # "idle"
  /\ Fault
  /\ worker' = [worker EXCEPT ![w] = IdleWorker]
  /\ UNCHANGED <<jobs, crm, database, up, operator>>

-----------------------------------------------------------------------------

Step(w) ==
  \/ Reclaim(w) \/ Claim(w) \/ Validate(w) \/ LoadSecrets(w)
  \/ ProvisionDatabase(w) \/ ComposeUp(w) \/ HealthCheck(w)
  \/ Place(w) \/ Purge(w) \/ Report(w) \/ Cleanup(w) \/ Finish(w) \/ Fatal(w)

Failure(w) ==
  \/ PlaceFails(w) \/ PurgeFails(w) \/ StepFails(w) \/ CleanupFails(w)
  \/ FinishFails(w) \/ Crash(w)

Request(o) ==
  \/ \E t \in TenantIds : EnqueueCheck(o, t)
  \/ EnqueueInsert(o) \/ EnqueueStore(o)
  \/ \E j \in DOMAIN jobs : RetryCheck(o, j)
  \/ Requeue(o) \/ RequestFails(o)

Next ==
  \/ \E o \in Operators : Request(o)
  \/ \E w \in Workers : Step(w) \/ Failure(w)
  \/ \E j \in DOMAIN jobs : GrowStale(j)

Spec == Init /\ [][Next]_vars

\* The worker polls for ever and is restarted when it ends; a job that stays
\* running becomes stale.
FairSpec ==
  /\ Spec
  /\ \A w \in Workers : WF_vars(Step(w))
  /\ \A j \in JobIds : WF_vars(j \in DOMAIN jobs /\ GrowStale(j))

-----------------------------------------------------------------------------
(* Properties.                                                             *)

\* The tenant of a job that has succeeded keeps its container, whatever the
\* other jobs, queued for the same slug at the same time, do and undo.
SucceededIsUp ==
  \A j \in DOMAIN jobs : jobs[j].status = "succeeded" => jobs[j].tenant \in up

\* A job that has succeeded stays so: a late error of the run that recorded
\* it, or a retry, does not turn it into a failed one.
SucceededIsFinal ==
  [][\A j \in DOMAIN jobs :
       jobs[j].status = "succeeded" => jobs'[j].status = "succeeded"]_vars

\* Every queued job is some time done, through crashes of the worker
\* (jobs.ts:127, "Re-queue jobs stuck in `running`").
JobEnds ==
  \A j \in JobIds :
    (j \in DOMAIN jobs /\ jobs[j].status = "queued")
      ~> (j \in DOMAIN jobs /\ jobs[j].status \in {"succeeded", "failed"})

\* A tenant's database is made with the admin password the operator typed,
\* which the form requires (provision-actions.ts:83).
OperatorsPassword == \A t \in TenantIds : database[t] # "generated"
=============================================================================
