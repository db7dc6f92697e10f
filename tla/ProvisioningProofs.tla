------------------------- MODULE ProvisioningProofs -------------------------
(***************************************************************************)
(* What Provisioning.tla keeps for every set of tenants, requests and      *)
(* bounds: its types, that a job that succeeded stays so, with any number  *)
(* of workers, and, for a server with one worker, that the tenant of such  *)
(* a job keeps its container.  The last needs to know what the worker may  *)
(* rely on between its steps (RunsItsJob, AloneForTenant, ContainerIsUp).  *)
(***************************************************************************)
EXTENDS Provisioning, SequenceTheorems, TLAPS

\* Every job a worker or a request refers to is a row of the table.
WorkersJob == \A w \in Workers :
  worker[w].at \in Steps => worker[w].job \in DOMAIN jobs
OperatorsJob == \A o \in Operators :
  /\ operator[o].at = "insert" => operator[o].tenant \in TenantIds
  /\ operator[o].at \in {"store", "requeue"} => operator[o].job \in DOMAIN jobs

Rows == TypeOK /\ WorkersJob /\ OperatorsJob

-----------------------------------------------------------------------------
(* Rows is kept, with any number of workers.                               *)

LEMMA IdleTypes == IdleWorker \in Worker /\ IdleOperator \in Operator
BY DEF IdleWorker, IdleOperator, Worker, Operator, Steps

LEMMA RowsInitially == Init => Rows
<1> SUFFICES ASSUME Init PROVE Rows
  OBVIOUS
<1>1. jobs \in Seq(Job) /\ Len(jobs) = 0
  BY DEF Init
<1>2. TypeOK
  BY <1>1, IdleTypes, ProvisioningAssumption DEF Init, TypeOK, Passwords
<1>3. WorkersJob /\ OperatorsJob
  BY DEF Init, WorkersJob, OperatorsJob, IdleWorker, IdleOperator, Steps
<1> QED
  BY <1>2, <1>3 DEF Rows

\* A row changed in place.
LEMMA RowChanged ==
  ASSUME jobs \in Seq(Job), NEW j, NEW row \in Job
  PROVE  /\ [jobs EXCEPT ![j] = row] \in Seq(Job)
         /\ Len([jobs EXCEPT ![j] = row]) = Len(jobs)
         /\ DOMAIN [jobs EXCEPT ![j] = row] = DOMAIN jobs
<1> DEFINE new == [jobs EXCEPT ![j] = row]
<1>1. jobs \in [1 .. Len(jobs) -> Job] /\ Len(jobs) \in Nat
  OBVIOUS
<1>2. new \in [1 .. Len(jobs) -> Job]
  BY <1>1
<1>3. new \in Seq(Job)
  BY <1>1, <1>2, SeqDef
<1> QED
  BY <1>1, <1>2, <1>3

\* A step of a request that changes nothing but what the request does.
LEMMA OperatorMoves ==
  ASSUME Rows, NEW o \in Operators, NEW r \in Operator,
         operator' = [operator EXCEPT ![o] = r],
         r.at = "insert" => r.tenant \in TenantIds,
         r.at \in {"store", "requeue"} => r.job \in DOMAIN jobs',
         jobs' \in Seq(Job), Len(jobs') <= MaxJobs,
         DOMAIN jobs \subseteq DOMAIN jobs',
         faults' \in 0 .. MaxFaults,
         UNCHANGED <<crm, database, up, worker>>
  PROVE  Rows'
<1>1. TypeOK'
  BY DEF Rows, TypeOK
<1>2. WorkersJob'
  BY DEF Rows, WorkersJob
<1>3. OperatorsJob'
  BY DEF Rows, TypeOK, OperatorsJob
<1> QED
  BY <1>1, <1>2, <1>3 DEF Rows

\* A step of a worker that changes no row's place in the table.
LEMMA WorkerMoves ==
  ASSUME Rows, NEW w \in Workers, NEW r \in Worker,
         worker' = [worker EXCEPT ![w] = r],
         r.at \in Steps => r.job \in DOMAIN jobs',
         jobs' \in Seq(Job), Len(jobs') <= MaxJobs,
         DOMAIN jobs \subseteq DOMAIN jobs',
         crm' \subseteq TenantIds,
         database' \in [TenantIds -> Passwords],
         up' \subseteq TenantIds,
         faults' \in 0 .. MaxFaults,
         UNCHANGED operator
  PROVE  Rows'
<1>1. TypeOK'
  BY DEF Rows, TypeOK
<1>2. WorkersJob'
  BY DEF Rows, TypeOK, WorkersJob
<1>3. OperatorsJob'
  BY DEF Rows, OperatorsJob
<1> QED
  BY <1>1, <1>2, <1>3 DEF Rows

LEMMA GoTypes ==
  ASSUME Rows, NEW w \in Workers, NEW step \in Steps
  PROVE  /\ [worker[w] EXCEPT !.at = step] \in Worker
         /\ [worker[w] EXCEPT !.at = step].at = step
         /\ [worker[w] EXCEPT !.at = step].job = worker[w].job
         /\ [worker[w] EXCEPT !.at = step].outcome = worker[w].outcome
         /\ [worker[w] EXCEPT !.at = step].started = worker[w].started
<1>1. worker[w] \in Worker
  BY DEF Rows, TypeOK
<1>2. worker[w].handoff \in BOOLEAN /\ worker[w].started \in BOOLEAN
  BY <1>1 DEF Worker
<1> QED
  BY <1>1, <1>2 DEF Worker

\* A step of the routine that only goes on to the next.
LEMMA WorkerGoes ==
  ASSUME Rows, NEW w \in Workers, NEW step \in Steps, worker[w].at \in Steps,
         Go(w, step),
         jobs' \in Seq(Job), Len(jobs') <= MaxJobs,
         DOMAIN jobs' = DOMAIN jobs,
         crm' \subseteq TenantIds,
         database' \in [TenantIds -> Passwords],
         up' \subseteq TenantIds,
         faults' \in 0 .. MaxFaults,
         UNCHANGED operator
  PROVE  Rows'
<1> DEFINE r == [worker[w] EXCEPT !.at = step]
<1>1. r \in Worker /\ r.job = worker[w].job
  BY GoTypes
<1>2. worker' = [worker EXCEPT ![w] = r]
  BY DEF Go
<1>3. worker[w].job \in DOMAIN jobs'
  BY DEF Rows, WorkersJob
<1> HIDE DEF r
<1> QED
  BY <1>1, <1>2, <1>3, WorkerMoves

LEMMA FaultCounted ==
  ASSUME Rows, Fault
  PROVE  faults' \in 0 .. MaxFaults
BY ProvisioningAssumption DEF Rows, TypeOK, Fault

LEMMA TenantIsTyped ==
  ASSUME Rows, NEW w \in Workers, worker[w].at \in Steps
  PROVE  /\ worker[w].job \in DOMAIN jobs
         /\ jobs[worker[w].job] \in Job
         /\ TenantOf(w) \in TenantIds
<1>1. worker[w].job \in DOMAIN jobs
  BY DEF Rows, WorkersJob
<1>2. jobs[worker[w].job] \in Job
  BY <1>1 DEF Rows, TypeOK
<1> QED
  BY <1>1, <1>2 DEF TenantOf, Job

LEMMA FinishedTypes ==
  ASSUME NEW job \in Job, NEW outcome \in {"succeeded", "failed"}
  PROVE  /\ Finished(job, outcome) \in Job
         /\ Finished(job, outcome).tenant = job.tenant
         /\ job.status # "running" => Finished(job, outcome) = job
         /\ job.status = "running" => Finished(job, outcome).status = outcome
<1>1. job.secrets \in BOOLEAN /\ job.stale \in BOOLEAN
  BY DEF Job
<1> QED
  BY <1>1 DEF Finished, Job, JobStatuses

LEMMA ReclaimedTypes ==
  ASSUME NEW job \in Job
  PROVE  /\ Reclaimed(job) \in Job
         /\ Reclaimed(job).tenant = job.tenant
         /\ job.status # "running" => Reclaimed(job) = job
         /\ Reclaimed(job).status \in {job.status, "queued"}
<1>1. job.secrets \in BOOLEAN /\ job.stale \in BOOLEAN
  BY DEF Job
<1> QED
  BY <1>1 DEF Reclaimed, Job, JobStatuses

-----------------------------------------------------------------------------
(* The steps of a request.                                                 *)

LEMMA RequestKeepsRows ==
  ASSUME Rows, NEW o \in Operators, Request(o)
  PROVE  Rows'
<1> USE DEF Operator
<1>t. /\ jobs \in Seq(Job) /\ Len(jobs) <= MaxJobs /\ Len(jobs) \in Nat
      /\ operator[o] \in Operator
      /\ faults \in 0 .. MaxFaults
  BY DEF Rows, TypeOK
<1>i. IdleOperator \in Operator /\ IdleOperator.at = "idle"
  BY IdleTypes DEF IdleOperator
<1>1. ASSUME NEW t \in TenantIds, EnqueueCheck(o, t) PROVE Rows'
  <2> DEFINE r == [at |-> "insert", tenant |-> t, job |-> NoJob]
  <2>1. r \in Operator /\ operator' = [operator EXCEPT ![o] = r]
    BY <1>1 DEF EnqueueCheck
  <2> QED
    BY <1>1, <1>t, <2>1, OperatorMoves DEF EnqueueCheck
<1>2. CASE EnqueueInsert(o)
  <2> DEFINE row == [tenant |-> operator[o].tenant, status |-> "queued",
                     secrets |-> FALSE, stale |-> FALSE, retries |-> 0]
             r == [at |-> "store", tenant |-> operator[o].tenant, job |-> Len(jobs) + 1]
  <2>1. row \in Job
    BY <1>2 DEF EnqueueInsert, Job, JobStatuses, Rows, OperatorsJob
  <2>2. /\ jobs' \in Seq(Job) /\ Len(jobs') = Len(jobs) + 1
        /\ Len(jobs') <= MaxJobs
        /\ DOMAIN jobs \subseteq DOMAIN jobs'
        /\ Len(jobs) + 1 \in DOMAIN jobs'
    BY <1>2, <1>t, <2>1, ProvisioningAssumption DEF EnqueueInsert
  <2>3. Len(jobs) + 1 \in JobIds
    BY <1>t, <2>2, ProvisioningAssumption DEF JobIds
  <2>4. r \in Operator /\ r.at = "store" /\ r.job = Len(jobs) + 1
    BY <1>t, <2>3
  <2>5. operator' = [operator EXCEPT ![o] = r]
    BY <1>2, <1>t DEF EnqueueInsert
  <2>6. UNCHANGED <<crm, database, up, worker, faults>>
    BY <1>2 DEF EnqueueInsert
  <2> HIDE DEF r, row, Operator
  <2> QED
    BY <1>t, <2>2, <2>4, <2>5, <2>6, OperatorMoves
<1>3. CASE EnqueueStore(o)
  <2> DEFINE j == operator[o].job
             row == [jobs[j] EXCEPT !.secrets = TRUE]
  <2>1. j \in DOMAIN jobs
    BY <1>3 DEF EnqueueStore, Rows, OperatorsJob
  <2>2. jobs[j] \in Job
    BY <1>t, <2>1
  <2>3. row \in Job
    BY <2>2 DEF Job
  <2>4. jobs' = [jobs EXCEPT ![j] = row]
    BY <1>3 DEF EnqueueStore
  <2>5. jobs' \in Seq(Job) /\ Len(jobs') = Len(jobs) /\ DOMAIN jobs' = DOMAIN jobs
    BY <1>t, <2>3, <2>4, RowChanged
  <2> QED
    BY <1>3, <1>t, <1>i, <2>5, OperatorMoves DEF EnqueueStore
<1>4. ASSUME NEW j \in DOMAIN jobs, RetryCheck(o, j) PROVE Rows'
  <2> DEFINE r == [at |-> "requeue", tenant |-> None, job |-> j]
  <2>1. r \in Operator /\ operator' = [operator EXCEPT ![o] = r]
    BY <1>4, <1>t, ProvisioningAssumption DEF RetryCheck, JobIds
  <2> QED
    BY <1>4, <1>t, <2>1, OperatorMoves DEF RetryCheck
<1>5. CASE Requeue(o)
  <2> DEFINE j == operator[o].job
             row == [jobs[j] EXCEPT !.status = "queued", !.stale = FALSE,
                                    !.retries = @ + 1]
  <2>1. j \in DOMAIN jobs
    BY <1>5 DEF Requeue, Rows, OperatorsJob
  <2>2. jobs[j] \in Job
    BY <1>t, <2>1
  <2>b. jobs[j].secrets \in BOOLEAN /\ jobs[j].retries + 1 \in Nat
    BY <2>2 DEF Job
  <2>3. row \in Job
    <3>1. ASSUME NEW n \in Nat
          PROVE  [jobs[j] EXCEPT !.status = "queued", !.stale = FALSE,
                                 !.retries = n] \in Job
      BY <2>2, <2>b DEF Job, JobStatuses
    <3> QED
      BY <2>b, <3>1, Zenon
  <2>4. jobs' = jobs \/ jobs' = [jobs EXCEPT ![j] = row]
    BY <1>5 DEF Requeue
  <2>5. jobs' \in Seq(Job) /\ Len(jobs') = Len(jobs) /\ DOMAIN jobs' = DOMAIN jobs
    BY <1>t, <2>3, <2>4, RowChanged
  <2> QED
    BY <1>5, <1>t, <1>i, <2>5, OperatorMoves DEF Requeue
<1>6. CASE RequestFails(o)
  BY <1>6, <1>t, <1>i, FaultCounted, OperatorMoves DEF RequestFails
<1> QED
  BY <1>1, <1>2, <1>3, <1>4, <1>5, <1>6 DEF Request

-----------------------------------------------------------------------------
(* The steps of a worker.                                                  *)

LEMMA StepKeepsRows ==
  ASSUME Rows, NEW w \in Workers, Step(w)
  PROVE  Rows'
<1>t. /\ jobs \in Seq(Job) /\ Len(jobs) <= MaxJobs /\ Len(jobs) \in Nat
      /\ DOMAIN jobs = 1 .. Len(jobs)
      /\ worker[w] \in Worker
      /\ crm \subseteq TenantIds /\ up \subseteq TenantIds
      /\ database \in [TenantIds -> Passwords]
      /\ faults \in 0 .. MaxFaults
  BY DEF Rows, TypeOK
<1>i. IdleWorker \in Worker /\ IdleWorker.at = "idle" /\ "idle" \notin Steps
  BY IdleTypes DEF IdleWorker, Steps
<1>1. CASE Reclaim(w)
  <2> DEFINE r == [worker[w] EXCEPT !.at = "claim"]
  <2>1. worker[w].handoff \in BOOLEAN /\ worker[w].started \in BOOLEAN
    BY <1>t DEF Worker
  <2>2. r \in Worker /\ r.at = "claim" /\ "claim" \notin Steps
    BY <1>t, <2>1 DEF Worker, Steps
  <2>3. worker' = [worker EXCEPT ![w] = r]
    BY <1>1 DEF Reclaim
  <2>4. /\ jobs' \in Seq(Job)
        /\ Len(jobs') = Len(jobs)
        /\ DOMAIN jobs' = DOMAIN jobs
    <3>1. \A j \in 1 .. Len(jobs) : Reclaimed(jobs[j]) \in Job
      BY <1>t, ReclaimedTypes
    <3>2. jobs' = [j \in 1 .. Len(jobs) |-> Reclaimed(jobs[j])]
      BY <1>1, <1>t DEF Reclaim
    <3>3. jobs' \in [1 .. Len(jobs) -> Job]
      BY <3>1, <3>2
    <3>4. jobs' \in Seq(Job)
      BY <1>t, <3>3, SeqDef
    <3> QED
      BY <1>t, <3>3, <3>4
  <2> HIDE DEF r
  <2> QED
    BY <1>1, <1>t, <2>2, <2>3, <2>4, WorkerMoves DEF Reclaim
<1>2. CASE Claim(w)
  <2>1. CASE Queued = {}
    BY <1>2, <1>t, <1>i, <2>1, WorkerMoves DEF Claim
  <2>2. CASE Queued # {}
    <3>1. PICK j \in Queued :
            /\ jobs' = [jobs EXCEPT ![j].status = "running", ![j].stale = FALSE]
            /\ worker' = [worker EXCEPT ![w] =
                            [at |-> "validate", job |-> j, handoff |-> FALSE,
                             started |-> FALSE, outcome |-> "failed"]]
      BY <1>2, <2>2 DEF Claim
    <3> DEFINE row == [jobs[j] EXCEPT !.status = "running", !.stale = FALSE]
               r == [at |-> "validate", job |-> j, handoff |-> FALSE,
                     started |-> FALSE, outcome |-> "failed"]
    <3>2. j \in DOMAIN jobs /\ jobs[j] \in Job
      BY <1>t, <3>1 DEF Queued
    <3>3. jobs' = [jobs EXCEPT ![j] = row] /\ worker' = [worker EXCEPT ![w] = r]
      BY <3>1
    <3>4. row \in Job
      <4>1. jobs[j].secrets \in BOOLEAN
        BY <3>2 DEF Job
      <4> QED
        BY <3>2, <4>1 DEF Job, JobStatuses
    <3>5. j \in JobIds
      BY <1>t, <3>2, ProvisioningAssumption DEF JobIds
    <3>6. r \in Worker /\ r.job = j
      BY <3>5 DEF Worker, Steps
    <3>7. jobs' \in Seq(Job) /\ Len(jobs') = Len(jobs) /\ DOMAIN jobs' = DOMAIN jobs
      BY <1>t, <3>3, <3>4, RowChanged
    <3> HIDE DEF r, row
    <3> QED
      BY <1>2, <1>t, <3>2, <3>3, <3>6, <3>7, WorkerMoves DEF Claim
  <2> QED
    BY <2>1, <2>2
<1>s. /\ {"load", "finish", "compose", "place", "cleanup", "purge",
          "report"} \subseteq Steps
      /\ \A step \in {"validate", "load", "database", "compose", "health", "place",
                      "purge", "report", "cleanup", "finish", "fatal"} :
           At(w, step) => worker[w].at \in Steps
  BY DEF Steps, At
<1>3. CASE Validate(w)
  BY <1>3, <1>t, <1>s, WorkerGoes DEF Validate
<1>4. CASE LoadSecrets(w)
  <2> DEFINE secrets == jobs[worker[w].job].secrets
             r == [worker[w] EXCEPT !.at = "database", !.handoff = secrets]
  <2>1. worker[w].at \in Steps
    BY <1>4, <1>s DEF LoadSecrets
  <2>2. secrets \in BOOLEAN /\ worker[w].job \in DOMAIN jobs
    BY <2>1, TenantIsTyped DEF Job
  <2>3. worker[w].started \in BOOLEAN
    BY <1>t DEF Worker
  <2>4. r \in Worker /\ r.job = worker[w].job
    BY <1>t, <2>2, <2>3 DEF Worker, Steps
  <2>5. worker' = [worker EXCEPT ![w] = r]
    BY <1>4 DEF LoadSecrets
  <2> HIDE DEF r
  <2> QED
    BY <1>4, <1>t, <2>2, <2>4, <2>5, WorkerMoves DEF LoadSecrets
<1>5. CASE ProvisionDatabase(w)
  <2>1. database' \in [TenantIds -> Passwords]
    BY <1>5, <1>t DEF ProvisionDatabase, Passwords
  <2> QED
    BY <1>5, <1>t, <1>s, <2>1, WorkerGoes DEF ProvisionDatabase
<1>6. CASE ComposeUp(w)
  <2> DEFINE r == [worker[w] EXCEPT !.at = "health", !.started = TRUE]
  <2>1. worker[w].at \in Steps
    BY <1>6, <1>s DEF ComposeUp
  <2>2. TenantOf(w) \in TenantIds /\ worker[w].job \in DOMAIN jobs
    BY <2>1, TenantIsTyped
  <2>3. worker[w].handoff \in BOOLEAN
    BY <1>t DEF Worker
  <2>4. r \in Worker /\ r.job = worker[w].job
    BY <1>t, <2>3 DEF Worker, Steps
  <2>5. worker' = [worker EXCEPT ![w] = r]
    BY <1>6 DEF ComposeUp
  <2>6. up' \subseteq TenantIds
    BY <1>6, <1>t, <2>2 DEF ComposeUp
  <2> HIDE DEF r
  <2> QED
    BY <1>6, <1>t, <2>2, <2>4, <2>5, <2>6, WorkerMoves DEF ComposeUp
<1>7. CASE HealthCheck(w)
  BY <1>7, <1>t, <1>s, WorkerGoes DEF HealthCheck
<1>8. CASE Place(w)
  <2>1. crm' \subseteq TenantIds
    BY <1>8, <1>t, <1>s, TenantIsTyped DEF Place
  <2> QED
    BY <1>8, <1>t, <1>s, <2>1, WorkerGoes DEF Place
<1>9. CASE Purge(w)
  <2> DEFINE j == worker[w].job
             row == [jobs[j] EXCEPT !.secrets = FALSE]
  <2>1. worker[w].at \in Steps
    BY <1>9, <1>s DEF Purge
  <2>2. jobs[j] \in Job
    BY <2>1, TenantIsTyped
  <2>3. row \in Job
    BY <2>2 DEF Job
  <2>4. jobs' = [jobs EXCEPT ![j] = row]
    BY <1>9 DEF Purge
  <2>5. jobs' \in Seq(Job) /\ Len(jobs') = Len(jobs) /\ DOMAIN jobs' = DOMAIN jobs
    BY <1>t, <2>3, <2>4, RowChanged
  <2> QED
    BY <1>9, <1>t, <1>s, <2>1, <2>5, WorkerGoes DEF Purge
<1>10. CASE Report(w)
  <2> DEFINE r == [worker[w] EXCEPT !.at = "finish", !.outcome = "succeeded"]
  <2>1. worker[w].at \in Steps
    BY <1>10, <1>s DEF Report
  <2>2. worker[w].job \in DOMAIN jobs
    BY <2>1, TenantIsTyped
  <2>3. worker[w].handoff \in BOOLEAN /\ worker[w].started \in BOOLEAN
    BY <1>t DEF Worker
  <2>4. r \in Worker /\ r.job = worker[w].job
    BY <1>t, <2>3 DEF Worker, Steps
  <2>5. worker' = [worker EXCEPT ![w] = r]
    BY <1>10, <1>t DEF Report, Worker
  <2> HIDE DEF r
  <2> QED
    BY <1>10, <1>t, <2>2, <2>4, <2>5, WorkerMoves DEF Report
<1>11. CASE Cleanup(w)
  <2>1. up' \subseteq TenantIds
    BY <1>11, <1>t DEF Cleanup
  <2> QED
    BY <1>11, <1>t, <1>s, <2>1, WorkerGoes DEF Cleanup
<1>12. CASE Finish(w) \/ Fatal(w)
  <2> DEFINE j == worker[w].job
  <2>1. worker[w].at \in Steps
    BY <1>12, <1>s DEF Finish, Fatal
  <2>2. j \in DOMAIN jobs /\ jobs[j] \in Job
    BY <2>1, TenantIsTyped
  <2>3. PICK outcome \in {"succeeded", "failed"} :
          jobs' = [jobs EXCEPT ![j] = Finished(jobs[j], outcome)]
    BY <1>12, <1>t DEF Finish, Fatal, Worker
  <2>4. Finished(jobs[j], outcome) \in Job
    BY <2>2, FinishedTypes
  <2>5. jobs' \in Seq(Job) /\ Len(jobs') = Len(jobs) /\ DOMAIN jobs' = DOMAIN jobs
    BY <1>t, <2>3, <2>4, RowChanged
  <2> QED
    BY <1>12, <1>t, <1>i, <2>5, WorkerMoves DEF Finish, Fatal
<1> QED
  BY <1>1, <1>2, <1>3, <1>4, <1>5, <1>6, <1>7, <1>8, <1>9, <1>10, <1>11,
     <1>12 DEF Step

LEMMA FailureKeepsRows ==
  ASSUME Rows, NEW w \in Workers, Failure(w)
  PROVE  Rows'
<1>t. /\ jobs \in Seq(Job) /\ Len(jobs) <= MaxJobs
      /\ worker[w] \in Worker
      /\ crm \subseteq TenantIds /\ up \subseteq TenantIds
      /\ database \in [TenantIds -> Passwords]
  BY DEF Rows, TypeOK
<1>i. IdleWorker \in Worker /\ IdleWorker.at = "idle" /\ "idle" \notin Steps
  BY IdleTypes DEF IdleWorker, Steps
<1>s. /\ {"purge", "report", "cleanup", "finish", "fatal"} \subseteq Steps
      /\ \A step \in {"validate", "load", "database", "compose", "health", "place",
                      "purge", "report", "cleanup", "finish", "fatal"} :
           At(w, step) => worker[w].at \in Steps
  BY DEF Steps, At
<1>1. CASE PlaceFails(w)
  BY <1>1, <1>t, <1>s, FaultCounted, WorkerGoes DEF PlaceFails
<1>2. CASE PurgeFails(w)
  BY <1>2, <1>t, <1>s, FaultCounted, WorkerGoes DEF PurgeFails
<1>3. CASE StepFails(w)
  <2>1. worker[w].at \in Steps
    BY <1>3 DEF StepFails, Steps
  <2>2. TenantOf(w) \in TenantIds
    BY <2>1, TenantIsTyped
  <2>3. up' \subseteq TenantIds
    BY <1>3, <1>t, <2>2 DEF StepFails
  <2>4. PICK step \in {"cleanup", "finish"} : Go(w, step)
    BY <1>3 DEF StepFails
  <2> QED
    BY <1>3, <1>t, <1>s, <2>1, <2>3, <2>4, FaultCounted, WorkerGoes DEF StepFails
<1>4. CASE CleanupFails(w)
  BY <1>4, <1>t, <1>s, FaultCounted, WorkerGoes DEF CleanupFails
<1>5. CASE FinishFails(w)
  <2> DEFINE j == worker[w].job
  <2>1. worker[w].at \in Steps
    BY <1>5, <1>s DEF FinishFails
  <2>2. j \in DOMAIN jobs /\ jobs[j] \in Job
    BY <2>1, TenantIsTyped
  <2>3. Finished(jobs[j], worker[w].outcome) \in Job
    BY <1>t, <2>2, FinishedTypes DEF Worker
  <2>4. jobs' = jobs \/ jobs' = [jobs EXCEPT ![j] = Finished(jobs[j], worker[w].outcome)]
    BY <1>5 DEF FinishFails
  <2>5. jobs' \in Seq(Job) /\ Len(jobs') = Len(jobs) /\ DOMAIN jobs' = DOMAIN jobs
    BY <1>t, <2>3, <2>4, RowChanged
  <2> QED
    BY <1>5, <1>t, <1>s, <2>1, <2>5, FaultCounted, WorkerGoes DEF FinishFails
<1>6. CASE Crash(w)
  BY <1>6, <1>t, <1>i, FaultCounted, WorkerMoves DEF Crash
<1> QED
  BY <1>1, <1>2, <1>3, <1>4, <1>5, <1>6 DEF Failure

LEMMA GrowStaleKeepsRows ==
  ASSUME Rows, NEW j \in DOMAIN jobs, GrowStale(j)
  PROVE  Rows'
<1> DEFINE row == [jobs[j] EXCEPT !.stale = TRUE]
<1>1. jobs \in Seq(Job) /\ jobs[j] \in Job
  BY DEF Rows, TypeOK
<1>2. row \in Job
  BY <1>1 DEF Job
<1>3. jobs' = [jobs EXCEPT ![j] = row]
  BY DEF GrowStale
<1>4. jobs' \in Seq(Job) /\ Len(jobs') = Len(jobs) /\ DOMAIN jobs' = DOMAIN jobs
  BY <1>1, <1>2, <1>3, RowChanged
<1>5. TypeOK'
  BY <1>4 DEF Rows, TypeOK, GrowStale
<1>6. WorkersJob' /\ OperatorsJob'
  BY <1>4 DEF Rows, WorkersJob, OperatorsJob, GrowStale
<1> QED
  BY <1>5, <1>6 DEF Rows

LEMMA NextKeepsRows ==
  ASSUME Rows, [Next]_vars
  PROVE  Rows'
<1>1. ASSUME NEW o \in Operators, Request(o) PROVE Rows'
  BY <1>1, RequestKeepsRows
<1>2. ASSUME NEW w \in Workers, Step(w) \/ Failure(w) PROVE Rows'
  BY <1>2, StepKeepsRows, FailureKeepsRows
<1>3. ASSUME NEW j \in DOMAIN jobs, GrowStale(j) PROVE Rows'
  BY <1>3, GrowStaleKeepsRows
<1>4. CASE UNCHANGED vars
  BY <1>4 DEF Rows, TypeOK, WorkersJob, OperatorsJob, vars
<1> QED
  BY <1>1, <1>2, <1>3, <1>4 DEF Next

\* Every variable of Provisioning keeps its type: no step, of a worker or of a
\* request, refers to a row that is not in provisioning_jobs.
THEOREM TypeCorrect == Spec => []TypeOK
<1>1. Rows => TypeOK
  BY DEF Rows
<1> QED
  BY <1>1, RowsInitially, NextKeepsRows, PTL DEF Spec

-----------------------------------------------------------------------------
(* A job that succeeded stays so.                                          *)

LEMMA SucceededStays ==
  ASSUME Rows, [Next]_vars, NEW k \in DOMAIN jobs, jobs[k].status = "succeeded"
  PROVE  jobs'[k].status = "succeeded"
<1>t. jobs \in Seq(Job) /\ jobs[k] \in Job
  BY DEF Rows, TypeOK
<1>1. ASSUME NEW o \in Operators, Request(o) PROVE jobs'[k] = jobs[k] \/ jobs'[k].status = "succeeded"
  <2>1. CASE EnqueueInsert(o)
    <3>1. [tenant |-> operator[o].tenant, status |-> "queued", secrets |-> FALSE,
           stale |-> FALSE, retries |-> 0] \in Job
      BY <2>1 DEF EnqueueInsert, Rows, OperatorsJob, Job, JobStatuses
    <3> QED
      BY <1>t, <2>1, <3>1 DEF EnqueueInsert
  <2>2. CASE EnqueueStore(o)
    BY <1>t, <2>2 DEF EnqueueStore, Job
  <2>3. CASE Requeue(o)
    BY <1>t, <2>3 DEF Requeue
  <2> QED
    BY <1>1, <2>1, <2>2, <2>3 DEF Request, EnqueueCheck, RetryCheck, RequestFails
<1>2. ASSUME NEW w \in Workers, Step(w) \/ Failure(w)
      PROVE  jobs'[k] = jobs[k] \/ jobs'[k].status = "succeeded"
  <2>1. CASE Reclaim(w)
    BY <1>t, <2>1, ReclaimedTypes DEF Reclaim
  <2>2. CASE Claim(w)
    BY <1>t, <2>2 DEF Claim, Queued
  <2>3. CASE Purge(w)
    BY <1>t, <2>3 DEF Purge, Job
  <2>4. CASE Finish(w) \/ FinishFails(w) \/ Fatal(w)
    <3>1. Finished(jobs[k], "failed") = jobs[k] /\ \A out : Finished(jobs[k], out) = jobs[k]
      BY DEF Finished
    <3> QED
      BY <1>t, <2>4, <3>1 DEF Finish, FinishFails, Fatal
  <2> QED
    BY <1>2, <2>1, <2>2, <2>3, <2>4
    DEF Step, Failure, Validate, LoadSecrets, ProvisionDatabase, ComposeUp,
        HealthCheck, Place, Report, Cleanup, PlaceFails, PurgeFails,
        StepFails, CleanupFails, Crash
<1>3. ASSUME NEW j \in DOMAIN jobs, GrowStale(j) PROVE jobs'[k] = jobs[k]
  BY <1>t, <1>3 DEF GrowStale
<1>4. CASE UNCHANGED vars
  BY <1>4 DEF vars
<1> QED
  BY <1>1, <1>2, <1>3, <1>4 DEF Next

\* With any number of workers and requests, a job that has succeeded is never
\* failed or queued again.
THEOREM SucceededForGood == Spec => SucceededIsFinal
<1>1. Rows /\ [Next]_vars => [\A j \in DOMAIN jobs : jobs[j].status = "succeeded"
                                => jobs'[j].status = "succeeded"]_vars
  BY SucceededStays
<1> QED
  BY <1>1, RowsInitially, NextKeepsRows, PTL DEF Spec, SucceededIsFinal

-----------------------------------------------------------------------------
(* A server with one worker: the tenant of a job that succeeded is up.     *)

\* Between two steps the worker's job is not taken from it.
RunsItsJob == \A w \in Workers :
  worker[w].at \in Steps \ {"fatal"} => jobs[worker[w].job].status = "running"

\* Once validated, a run may take its tenant's container down again: no other
\* job has succeeded for that tenant.
Validated == {"load", "database", "compose", "health", "place", "purge",
              "report", "cleanup"}
AloneForTenant == \A w \in Workers :
  worker[w].at \in Validated =>
    \A k \in DOMAIN jobs \ {worker[w].job} :
      jobs[k].status = "succeeded" => jobs[k].tenant # TenantOf(w)

\* The run that reports success has seen the container up.
Healthy(r) ==
  r.at \in {"place", "purge", "report"} \/ (r.at = "finish" /\ r.outcome = "succeeded")
ContainerIsUp == \A w \in Workers : Healthy(worker[w]) => TenantOf(w) \in up

\* Success is reported at the end only.
ReportedLast == \A w \in Workers :
  worker[w].at \in Steps \ {"finish", "fatal"} => worker[w].outcome = "failed"

\* A run has no container to take down before it is validated.
NotStarted == \A w \in Workers :
  worker[w].at = "validate" => worker[w].started = FALSE

Server == /\ RunsItsJob /\ AloneForTenant /\ ContainerIsUp
          /\ ReportedLast /\ NotStarted /\ SucceededIsUp

OneWorker == \A v, w \in Workers : v = w

\* The rows are the same but for their secrets, a failed job queued again and
\* a new one.
SameRows ==
  /\ DOMAIN jobs \subseteq DOMAIN jobs'
  /\ \A k \in DOMAIN jobs' \ DOMAIN jobs : jobs'[k].status = "queued"
  /\ \A k \in DOMAIN jobs :
       /\ jobs'[k].tenant = jobs[k].tenant
       /\ \/ jobs'[k].status = jobs[k].status
          \/ jobs[k].status = "failed" /\ jobs'[k].status = "queued"

\* A step of worker w, to r, that leaves the rows alone.
LEMMA ServerMoves ==
  ASSUME Rows, Server, OneWorker, SameRows,
         NEW w \in Workers, NEW r, worker' = [worker EXCEPT ![w] = r],
         r.at \in Steps => (r.job = worker[w].job /\ worker[w].at \in Steps),
         r.at \in Steps \ {"fatal"} => worker[w].at # "fatal",
         r.at \in Validated =>
           worker[w].at \in Validated \/ TenantIdUnique(worker[w].job),
         Healthy(r) => TenantOf(w) \in up',
         r.at \in Steps \ {"finish", "fatal"} => r.outcome = "failed",
         r.at # "validate",
         \A k \in DOMAIN jobs :
           jobs[k].status = "succeeded" /\ jobs[k].tenant \in up => jobs[k].tenant \in up'
  PROVE  Server'
<1>w. worker'[w] = r /\ \A v \in Workers : v = w
  BY DEF Rows, TypeOK, OneWorker
<1>j. worker[w].at \in Steps => worker[w].job \in DOMAIN jobs
  BY DEF Rows, WorkersJob
<1>v. Validated \subseteq Steps \ {"fatal"}
  BY DEF Validated, Steps
<1>h. Healthy(r) => r.at \in Steps
  BY DEF Healthy, Steps
<1>1. RunsItsJob'
  BY <1>w, <1>j DEF SameRows, Server, RunsItsJob
<1>2. AloneForTenant'
  <2> SUFFICES ASSUME r.at \in Validated,
                      NEW k \in DOMAIN jobs' \ {r.job},
                      jobs'[k].status = "succeeded"
               PROVE  jobs'[k].tenant # jobs'[r.job].tenant
    BY <1>w DEF AloneForTenant, TenantOf
  <2>1. r.job = worker[w].job /\ r.job \in DOMAIN jobs
    BY <1>j, <1>v
  <2>2. k \in DOMAIN jobs /\ jobs[k].status = "succeeded" /\ jobs'[k].tenant = jobs[k].tenant
    BY DEF SameRows
  <2>3. jobs[k].tenant # jobs[r.job].tenant
    <3>1. CASE worker[w].at \in Validated
      BY <2>1, <2>2, <3>1 DEF Server, AloneForTenant, TenantOf
    <3>2. CASE TenantIdUnique(worker[w].job)
      BY <2>1, <2>2, <3>2 DEF TenantIdUnique, Blocking, SameTenant
    <3> QED
      BY <3>1, <3>2
  <2> QED
    BY <2>1, <2>2, <2>3 DEF SameRows
<1>3. ContainerIsUp'
  <2> SUFFICES ASSUME Healthy(r) PROVE jobs'[r.job].tenant \in up'
    BY <1>w DEF ContainerIsUp, TenantOf, Healthy
  <2> QED
    BY <1>h, <1>j DEF SameRows, TenantOf
<1>4. ReportedLast'
  BY <1>w DEF ReportedLast
<1>5. SucceededIsUp'
  BY DEF SameRows, Server, SucceededIsUp
<1>6. NotStarted'
  BY <1>w DEF NotStarted
<1> QED
  BY <1>1, <1>2, <1>3, <1>4, <1>5, <1>6 DEF Server

\* A step in which no worker moves.
LEMMA ServerStays ==
  ASSUME Rows, Server, SameRows, UNCHANGED <<worker, up>>
  PROVE  Server'
<1>j. \A w \in Workers : worker[w].at \in Steps => worker[w].job \in DOMAIN jobs
  BY DEF Rows, WorkersJob
<1>v. Validated \subseteq Steps
  BY DEF Validated, Steps
<1>1. RunsItsJob'
  BY <1>j DEF SameRows, Server, RunsItsJob
<1>2. AloneForTenant'
  BY <1>j, <1>v DEF SameRows, Server, AloneForTenant, TenantOf
<1>3. ContainerIsUp'
  <2>1. \A w \in Workers : Healthy(worker[w]) => worker[w].at \in Steps
    BY DEF Healthy, Steps
  <2> QED
    BY <1>j, <2>1 DEF SameRows, Server, ContainerIsUp, TenantOf, Healthy
<1>4. ReportedLast'
  BY DEF Server, ReportedLast
<1>5. SucceededIsUp'
  BY DEF SameRows, Server, SucceededIsUp
<1>6. NotStarted'
  BY DEF Server, NotStarted
<1> QED
  BY <1>1, <1>2, <1>3, <1>4, <1>5, <1>6 DEF Server

LEMMA SameWhenUnchanged ==
  ASSUME Rows, UNCHANGED jobs
  PROVE  SameRows
BY DEF SameRows

LEMMA RequestKeepsServer ==
  ASSUME Rows, Server, NEW o \in Operators, Request(o)
  PROVE  Server'
<1>t. jobs \in Seq(Job) /\ \A k \in DOMAIN jobs : jobs[k] \in Job
  BY DEF Rows, TypeOK
<1>1. UNCHANGED <<worker, up>>
  BY DEF Request, EnqueueCheck, EnqueueInsert, EnqueueStore, RetryCheck, Requeue,
         RequestFails
<1>2. SameRows
  <2>1. CASE EnqueueInsert(o)
    <3> DEFINE row == [tenant |-> operator[o].tenant, status |-> "queued",
                       secrets |-> FALSE, stale |-> FALSE, retries |-> 0]
    <3>1. jobs' = Append(jobs, row) /\ row.status = "queued"
      BY <2>1 DEF EnqueueInsert
    <3>2. row \in Job
      BY <2>1 DEF EnqueueInsert, Rows, OperatorsJob, Job, JobStatuses
    <3> HIDE DEF row
    <3> QED
      BY <1>t, <3>1, <3>2 DEF SameRows
  <2>2. CASE EnqueueStore(o)
    BY <1>t, <2>2 DEF EnqueueStore, SameRows, Job
  <2>3. CASE Requeue(o)
    <3> DEFINE j == operator[o].job
    <3>1. j \in DOMAIN jobs
      BY <2>3 DEF Requeue, Rows, OperatorsJob
    <3>2. CASE jobs[j].status = "failed"
      <4>1. jobs' = [jobs EXCEPT ![j].status = "queued", ![j].stale = FALSE,
                                 ![j].retries = jobs[j].retries + 1]
        BY <2>3, <3>2 DEF Requeue
      <4>2. DOMAIN jobs' = DOMAIN jobs
        BY <1>t, <4>1
      <4>3. \A k \in DOMAIN jobs : k # j => jobs'[k] = jobs[k]
        BY <1>t, <4>1
      <4>4. jobs'[j].tenant = jobs[j].tenant /\ jobs'[j].status = "queued"
        BY <1>t, <3>1, <4>1 DEF Job
      <4> QED
        BY <3>2, <4>2, <4>3, <4>4 DEF SameRows
    <3>3. CASE jobs[j].status # "failed"
      BY <2>3, <3>3, SameWhenUnchanged DEF Requeue
    <3> QED
      BY <3>2, <3>3
  <2>4. CASE UNCHANGED jobs
    BY <2>4, SameWhenUnchanged
  <2> QED
    BY <2>1, <2>2, <2>3, <2>4 DEF Request, EnqueueCheck, RetryCheck, RequestFails
<1> QED
  BY <1>1, <1>2, ServerStays

LEMMA GrowStaleKeepsServer ==
  ASSUME Rows, Server, NEW j \in DOMAIN jobs, GrowStale(j)
  PROVE  Server'
<1>1. SameRows
  BY DEF Rows, TypeOK, GrowStale, SameRows, Job
<1> QED
  BY <1>1, ServerStays DEF GrowStale

\* The routine goes on to a step, and only a cleanup takes a container down.
LEMMA ServerGoes ==
  ASSUME Rows, Server, OneWorker, SameRows,
         NEW w \in Workers, NEW step \in Steps \ {"validate"}, worker[w].at \in Steps,
         Go(w, step),
         step = "fatal" \/ worker[w].at # "fatal",
         step \in Validated =>
           worker[w].at \in Validated \/ TenantIdUnique(worker[w].job),
         step \in {"place", "purge", "report"} => TenantOf(w) \in up',
         step \in {"finish", "fatal"} \/ worker[w].at \notin {"finish", "fatal"},
         step = "finish" => worker[w].at # "finish" /\ worker[w].at # "fatal",
         up \subseteq up'
  PROVE  Server'
<1> DEFINE r == [worker[w] EXCEPT !.at = step]
<1>1. r.at = step /\ r.job = worker[w].job /\ r.outcome = worker[w].outcome
  BY GoTypes
<1>2. worker' = [worker EXCEPT ![w] = r]
  BY DEF Go
<1>3. worker[w].at \notin {"finish", "fatal"} => worker[w].outcome = "failed"
  BY DEF Server, ReportedLast
<1> HIDE DEF r
<1>4. Healthy(r) => TenantOf(w) \in up'
  BY <1>1, <1>3 DEF Healthy
<1>5. r.at \in Steps \ {"finish", "fatal"} => r.outcome = "failed"
  BY <1>1, <1>3
<1> QED
  BY <1>1, <1>2, <1>4, <1>5, ServerMoves

LEMMA StepKeepsServer ==
  ASSUME Rows, Server, OneWorker, NEW w \in Workers, Step(w)
  PROVE  Server'
<1>t. /\ jobs \in Seq(Job) /\ \A k \in DOMAIN jobs : jobs[k] \in Job
      /\ worker \in [Workers -> Worker]
  BY DEF Rows, TypeOK
<1>w. \A v \in Workers : v = w
  BY DEF OneWorker
<1>i. IdleWorker.at = "idle" /\ "idle" \notin Steps /\ "claim" \notin Steps
  BY DEF IdleWorker, Steps
<1>u. worker'[w].at \notin Steps =>
        RunsItsJob' /\ AloneForTenant' /\ ContainerIsUp' /\ ReportedLast' /\ NotStarted'
  BY <1>w DEF RunsItsJob, AloneForTenant, ContainerIsUp, ReportedLast, NotStarted,
              Steps, Validated, Healthy
<1>j. worker[w].at \in Steps =>
        /\ worker[w].job \in DOMAIN jobs
        /\ worker[w].at # "fatal" => jobs[worker[w].job].status = "running"
  BY DEF Rows, WorkersJob, Server, RunsItsJob
<1>1. CASE Reclaim(w)
  <2>1. worker'[w].at = "claim"
    BY <1>t, <1>1 DEF Reclaim, Worker
  <2>2. SucceededIsUp'
    BY <1>t, <1>1, ReclaimedTypes DEF Reclaim, Server, SucceededIsUp
  <2> QED
    BY <1>i, <1>u, <2>1, <2>2 DEF Server
<1>2. CASE Claim(w)
  <2>1. CASE Queued = {}
    <3>1. worker'[w].at = "idle"
      BY <1>t, <1>i, <1>2, <2>1 DEF Claim
    <3>2. SucceededIsUp'
      BY <1>2, <2>1 DEF Claim, Server, SucceededIsUp
    <3> QED
      BY <1>i, <1>u, <3>1, <3>2 DEF Server
  <2>2. CASE Queued # {}
    <3>1. PICK j \in Queued :
            /\ jobs' = [jobs EXCEPT ![j].status = "running", ![j].stale = FALSE]
            /\ worker' = [worker EXCEPT ![w] =
                            [at |-> "validate", job |-> j, handoff |-> FALSE,
                             started |-> FALSE, outcome |-> "failed"]]
      BY <1>2, <2>2 DEF Claim
    <3>2. /\ worker'[w].at = "validate" /\ worker'[w].job = j
          /\ worker'[w].outcome = "failed"
      BY <1>t, <3>1
    <3>s. worker'[w].started = FALSE
      BY <1>t, <3>1
    <3>3. j \in DOMAIN jobs /\ jobs'[j].status = "running"
      BY <1>t, <3>1 DEF Queued, Job
    <3>4. SucceededIsUp'
      BY <1>t, <1>2, <3>1 DEF Claim, Server, SucceededIsUp, Job
    <3>5. RunsItsJob' /\ ReportedLast' /\ NotStarted'
      BY <1>w, <3>2, <3>3, <3>s DEF RunsItsJob, ReportedLast, NotStarted
    <3>6. AloneForTenant' /\ ContainerIsUp'
      BY <1>w, <3>2 DEF AloneForTenant, ContainerIsUp, Validated, Healthy
    <3> QED
      BY <3>4, <3>5, <3>6 DEF Server
  <2> QED
    BY <2>1, <2>2
<1>3. CASE Validate(w)
  <2>1. worker[w].at = "validate" /\ SameRows
    BY <1>3, SameWhenUnchanged DEF Validate, At
  <2>2. CASE TenantIdUnique(worker[w].job)
    BY <1>3, <2>1, <2>2, ServerGoes DEF Validate, Steps
  <2>3. CASE ~TenantIdUnique(worker[w].job)
    BY <1>3, <2>1, <2>3, ServerGoes DEF Validate, Steps, Validated
  <2> QED
    BY <2>2, <2>3
<1>4. CASE LoadSecrets(w) \/ ComposeUp(w) \/ Report(w)
  <2> DEFINE r == worker'[w]
  <2>1. (worker' = [worker EXCEPT ![w] = r]) /\ r.job = worker[w].job
    BY <1>t, <1>4 DEF LoadSecrets, ComposeUp, Report, Worker
  <2>2. SameRows
    BY <1>4, SameWhenUnchanged DEF LoadSecrets, ComposeUp, Report
  <2>3. /\ worker[w].at \in Validated /\ worker[w].at \in Steps
        /\ worker[w].at \notin {"finish", "fatal"}
    BY <1>4 DEF LoadSecrets, ComposeUp, Report, At, Validated, Steps
  <2>4. worker[w].outcome = "failed"
    BY <2>3 DEF Server, ReportedLast
  <2>5. \/ r.at \in {"database", "health"} /\ r.outcome = "failed"
        \/ r.at = "finish" /\ worker[w].at = "report" /\ UNCHANGED up
    <3>1. worker[w] \in Worker
      BY <1>t
    <3>2. CASE LoadSecrets(w)
      BY <1>t, <2>4, <3>1, <3>2 DEF LoadSecrets, Worker
    <3>3. CASE ComposeUp(w)
      BY <1>t, <2>4, <3>1, <3>3 DEF ComposeUp, Worker
    <3>4. CASE Report(w)
      BY <1>t, <3>1, <3>4 DEF Report, At, Worker
    <3> QED
      BY <1>4, <3>2, <3>3, <3>4
  <2>6. Healthy(r) => TenantOf(w) \in up'
    BY <2>5 DEF Healthy, Server, ContainerIsUp
  <2>7. up \subseteq up'
    BY <1>4 DEF LoadSecrets, ComposeUp, Report
  <2> HIDE DEF r
  <2> QED
    BY <2>1, <2>2, <2>3, <2>5, <2>6, <2>7, ServerMoves
<1>5. CASE ProvisionDatabase(w)
  BY <1>5, SameWhenUnchanged, ServerGoes DEF ProvisionDatabase, At, Steps, Validated
<1>6. CASE HealthCheck(w)
  BY <1>6, SameWhenUnchanged, ServerGoes DEF HealthCheck, At, Steps, Validated
<1>7. CASE Place(w)
  <2>1. TenantOf(w) \in up
    BY <1>7 DEF Place, At, Server, ContainerIsUp, Healthy
  <2> QED
    BY <1>7, <2>1, SameWhenUnchanged, ServerGoes DEF Place, At, Steps, Validated
<1>8. CASE Purge(w)
  <2>1. TenantOf(w) \in up
    BY <1>8 DEF Purge, At, Server, ContainerIsUp, Healthy
  <2>2. SameRows
    BY <1>t, <1>8 DEF Purge, SameRows, Job
  <2> QED
    BY <1>8, <2>1, <2>2, ServerGoes DEF Purge, At, Steps, Validated
<1>9. CASE Cleanup(w)
  <2> DEFINE r == [worker[w] EXCEPT !.at = "finish"]
  <2>1. worker[w].at = "cleanup" /\ worker[w].at \in Steps /\ worker[w].at \in Validated
    BY <1>9 DEF Cleanup, At, Steps, Validated
  <2>2. r.at = "finish" /\ r.job = worker[w].job /\ r.outcome = "failed"
    BY <1>t, <2>1 DEF Worker, Server, ReportedLast
  <2>3. worker' = [worker EXCEPT ![w] = r] /\ SameRows
    BY <1>9, SameWhenUnchanged DEF Cleanup, Go
  <2>4. \A k \in DOMAIN jobs :
          jobs[k].status = "succeeded" /\ jobs[k].tenant \in up => jobs[k].tenant \in up'
    <3>1. \A k \in DOMAIN jobs : jobs[k].status = "succeeded" => jobs[k].tenant # TenantOf(w)
      BY <1>j, <2>1 DEF Server, AloneForTenant
    <3> QED
      BY <1>9, <3>1 DEF Cleanup
  <2>5. ~Healthy(r)
    BY <2>2 DEF Healthy
  <2> HIDE DEF r
  <2> QED
    BY <2>1, <2>2, <2>3, <2>4, <2>5, ServerMoves
<1>10. CASE Finish(w) \/ Fatal(w)
  <2> DEFINE j == worker[w].job
  <2>1. worker'[w].at = "idle"
    BY <1>t, <1>i, <1>10 DEF Finish, Fatal
  <2>2. PICK out \in {"succeeded", "failed"} :
          /\ jobs' = [jobs EXCEPT ![j] = Finished(jobs[j], out)]
          /\ out = "succeeded" => TenantOf(w) \in up
    BY <1>t, <1>10 DEF Finish, Fatal, Worker, At, Server, ContainerIsUp, Healthy
  <2>3. j \in DOMAIN jobs
    BY <1>j, <1>10 DEF Finish, Fatal, At, Steps
  <2>4. ASSUME NEW k \in DOMAIN jobs, jobs'[k].status = "succeeded"
        PROVE  jobs'[k].tenant \in up
    <3>1. CASE k = j
      BY <1>t, <2>2, <2>3, <2>4, <3>1, FinishedTypes
      DEF Server, SucceededIsUp, TenantOf
    <3>2. CASE k # j
      BY <1>t, <2>2, <2>4, <3>2 DEF Server, SucceededIsUp
    <3> QED
      BY <3>1, <3>2
  <2>5. SucceededIsUp'
    BY <1>10, <1>t, <2>2, <2>4 DEF SucceededIsUp, Finish, Fatal
  <2> QED
    BY <1>i, <1>u, <2>1, <2>5 DEF Server
<1> QED
  BY <1>1, <1>2, <1>3, <1>4, <1>5, <1>6, <1>7, <1>8, <1>9, <1>10 DEF Step

LEMMA FailureKeepsServer ==
  ASSUME Rows, Server, OneWorker, NEW w \in Workers, Failure(w)
  PROVE  Server'
<1>t. /\ jobs \in Seq(Job) /\ \A k \in DOMAIN jobs : jobs[k] \in Job
      /\ worker \in [Workers -> Worker]
  BY DEF Rows, TypeOK
<1>w. \A v \in Workers : v = w
  BY DEF OneWorker
<1>1. CASE PlaceFails(w)
  <2>1. TenantOf(w) \in up
    BY <1>1 DEF PlaceFails, At, Server, ContainerIsUp, Healthy
  <2> QED
    BY <1>1, <2>1, SameWhenUnchanged, ServerGoes DEF PlaceFails, At, Steps, Validated
<1>2. CASE PurgeFails(w)
  <2>1. TenantOf(w) \in up
    BY <1>2 DEF PurgeFails, At, Server, ContainerIsUp, Healthy
  <2> QED
    BY <1>2, <2>1, SameWhenUnchanged, ServerGoes DEF PurgeFails, At, Steps, Validated
<1>3. CASE StepFails(w)
  <2>1. /\ worker[w].at \in {"validate"} \cup Validated
        /\ worker[w].at \in Steps /\ worker[w].at \notin {"finish", "fatal"}
    BY <1>3 DEF StepFails, Validated, Steps
  <2>2. SameRows /\ up \subseteq up'
    BY <1>3, SameWhenUnchanged DEF StepFails
  <2>3. CASE Go(w, "finish")
    BY <2>1, <2>2, <2>3, ServerGoes DEF Steps, Validated
  <2>4. CASE worker[w].started /\ Go(w, "cleanup")
    <3>1. worker[w].at \in Validated
      BY <2>1, <2>4 DEF Server, NotStarted
    <3> QED
      BY <2>1, <2>2, <2>4, <3>1, ServerGoes DEF Steps
  <2> QED
    BY <1>3, <2>3, <2>4 DEF StepFails
<1>4. CASE CleanupFails(w)
  BY <1>4, SameWhenUnchanged, ServerGoes DEF CleanupFails, At, Steps, Validated
<1>5. CASE FinishFails(w)
  <2> DEFINE j == worker[w].job
  <2>1. worker[w].at = "finish" /\ worker'[w].at = "fatal" /\ worker'[w].job = j
    BY <1>t, <1>5 DEF FinishFails, At, Go, Worker
  <2>2. j \in DOMAIN jobs
    BY <2>1 DEF Rows, WorkersJob, Steps
  <2>3. PICK out \in {"succeeded", "failed"} :
          /\ jobs' = jobs \/ jobs' = [jobs EXCEPT ![j] = Finished(jobs[j], out)]
          /\ out = "succeeded" => TenantOf(w) \in up
    BY <1>t, <1>5, <2>1 DEF FinishFails, Worker, Server, ContainerIsUp, Healthy
  <2>4. ASSUME NEW k \in DOMAIN jobs, jobs'[k].status = "succeeded"
        PROVE  jobs'[k].tenant \in up
    <3>1. CASE k = j
      BY <1>t, <2>2, <2>3, <2>4, <3>1, FinishedTypes
      DEF Server, SucceededIsUp, TenantOf
    <3>2. CASE k # j
      BY <1>t, <2>3, <2>4, <3>2 DEF Server, SucceededIsUp
    <3> QED
      BY <3>1, <3>2
  <2>5. SucceededIsUp'
    BY <1>5, <1>t, <2>3, <2>4 DEF SucceededIsUp, FinishFails
  <2>6. RunsItsJob' /\ AloneForTenant' /\ ContainerIsUp' /\ ReportedLast' /\ NotStarted'
    BY <1>w, <2>1 DEF RunsItsJob, AloneForTenant, ContainerIsUp, ReportedLast, NotStarted,
                      Validated, Healthy
  <2> QED
    BY <2>5, <2>6 DEF Server
<1>6. CASE Crash(w)
  <2>1. worker' = [worker EXCEPT ![w] = IdleWorker] /\ UNCHANGED up /\ SameRows
    BY <1>6, SameWhenUnchanged DEF Crash
  <2>2. IdleWorker.at = "idle"
    BY DEF IdleWorker
  <2> QED
    BY <2>1, <2>2, ServerMoves DEF Steps, Validated, Healthy
<1> QED
  BY <1>1, <1>2, <1>3, <1>4, <1>5, <1>6 DEF Failure

LEMMA NextKeepsServer ==
  ASSUME Rows, Server, OneWorker, [Next]_vars
  PROVE  Server'
<1>1. ASSUME NEW o \in Operators, Request(o) PROVE Server'
  BY <1>1, RequestKeepsServer
<1>2. ASSUME NEW w \in Workers, Step(w) \/ Failure(w) PROVE Server'
  BY <1>2, StepKeepsServer, FailureKeepsServer
<1>3. ASSUME NEW j \in DOMAIN jobs, GrowStale(j) PROVE Server'
  BY <1>3, GrowStaleKeepsServer
<1>4. CASE UNCHANGED vars
  BY <1>4, SameWhenUnchanged, ServerStays DEF vars
<1> QED
  BY <1>1, <1>2, <1>3, <1>4 DEF Next

LEMMA ServerInitially == Init => Server
BY DEF Init, IdleWorker, Server, RunsItsJob, AloneForTenant, ContainerIsUp,
       ReportedLast, NotStarted, SucceededIsUp, Steps, Validated, Healthy

\* On a server with one worker, the tenant of a job that has succeeded is up,
\* whatever is queued, retried and cleaned up at the same time.
THEOREM SucceededServed == OneWorker /\ Spec => []SucceededIsUp
<1>1. Rows /\ Server /\ OneWorker /\ [Next]_vars => Server'
  BY NextKeepsServer
<1>2. OneWorker => OneWorker'
  OBVIOUS
<1>3. Server => SucceededIsUp
  BY DEF Server
<1> QED
  BY <1>1, <1>2, <1>3, RowsInitially, NextKeepsRows, ServerInitially, PTL DEF Spec
=============================================================================
