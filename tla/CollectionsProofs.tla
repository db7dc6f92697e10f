-------------------------- MODULE CollectionsProofs --------------------------
(***************************************************************************)
(* What Collections.tla keeps for every set of invoices, workers and days: *)
(* its types, that no rung of the ladder is skipped (any number of ladders *)
(* at a time), that one ladder at a time mails a rung once but for mishaps, *)
(* and that a settled invoice is never taken back to overdue.              *)
(***************************************************************************)
EXTENDS Collections, NaturalsInduction, WellFoundedInduction, TLAPS

LadderPlaces == {"mark", "check", "remind", "log", "seekTask", "makeTask"}

\* A worker between two of its steps: it has an invoice in hand, only a cron
\* run is on the ladder, and every rung below the one it is on has been mailed.
Sound(w) ==
  /\ worker[w].at \notin {"idle", "next"} => Bill(w) \in Bills
  /\ worker[w].at \in LadderPlaces => w \in CronRuns
  /\ worker[w].at \in LadderPlaces =>
       \A k \in Ladder : k < worker[w].stage => reminders[Bill(w)][k] > 0
  /\ At(w, "mark") => worker[w].stage = 1
  /\ At(w, "remind") => worker[w].stage # TaskStage
  /\ At(w, "seekTask") \/ At(w, "makeTask") => worker[w].stage = TaskStage
  /\ At(w, "log") /\ worker[w].stage # TaskStage =>
       reminders[Bill(w)][worker[w].stage] > 0

WorkersSound == \A w \in Workers : Sound(w)

\* The log has a row only for a reminder that was mailed.
LoggedWasMailed ==
  \A i \in Bills : \A k \in Ladder \ {TaskStage} :
    k \in reminded[i] => reminders[i][k] > 0

IInv == CollectionsTypeOK /\ WorkersSound /\ LoggedWasMailed /\ TaskAfterReminders

-----------------------------------------------------------------------------
(* Days and places.                                                        *)

\* A set of integers with a lower bound has a minimum, which Min returns.
LEMMA MinOfDays ==
  ASSUME NEW S, S \subseteq Int, S # {},
         NEW b \in Int, \A d \in S : b <= d
  PROVE  Min(S) \in S
<1> DEFINE T == {n \in Nat : b + n \in S}
<1>1. T # {}
  <2>1. PICK d \in S : TRUE
    OBVIOUS
  <2>2. d - b \in Nat /\ b + (d - b) = d
    BY <2>1
  <2> QED
    BY <2>1, <2>2
<1>2. PICK m \in T : \A n \in T : <<n, m>> \notin OpToRel(<, Nat)
  <2> HIDE DEF T
  <2>1. T \subseteq Nat
    BY DEF T
  <2> QED
    BY <1>1, <2>1, NatLessThanWellFounded, WFMin
<1>3. \A n \in T : m <= n
  <2> SUFFICES ASSUME NEW n \in T, n < m PROVE FALSE
    OBVIOUS
  <2>1. <<n, m>> \in Nat \X Nat /\ <<n, m>>[1] < <<n, m>>[2]
    OBVIOUS
  <2> QED
    BY <1>2, <2>1, Zenon DEF OpToRel
<1>4. \A d \in S : b + m <= d
  <2> SUFFICES ASSUME NEW d \in S PROVE b + m <= d
    OBVIOUS
  <2>1. d - b \in T
    OBVIOUS
  <2> QED
    BY <1>3, <2>1
<1>5. b + m \in S
  OBVIOUS
<1> QED
  BY <1>4, <1>5 DEF Min

LEMMA FirstDay == Min(Days) \in Days
BY DaysAssumption, MinOfDays

LEMMA LaterDay ==
  ASSUME \E d \in Days : d > today
  PROVE  Min({d \in Days : d > today}) \in Days
BY DaysAssumption, MinOfDays

LEMMA RestingFacts == Resting \in WorkerRecord
BY FirstDay DEF Resting, WorkerRecord, Places, Ladder

\* A worker whose record changes stays in its place otherwise.
LEMMA WorkerTypes ==
  ASSUME CollectionsTypeOK, NEW w \in Workers, NEW r \in WorkerRecord,
         worker' = [worker EXCEPT ![w] = r]
  PROVE  /\ worker' \in [Workers -> WorkerRecord]
         /\ worker'[w] = r
         /\ \A v \in Workers : v # w => worker'[v] = worker[v]
BY DEF CollectionsTypeOK

-----------------------------------------------------------------------------
(* What a move of one worker keeps.                                        *)

\* Sound(w), said of a record r and the reminders rs instead of the state.
SoundRecord(w, r, rs) ==
  /\ r.at \notin {"idle", "next"} => r.bill \in Bills
  /\ r.at \in LadderPlaces => w \in CronRuns
  /\ r.at \in LadderPlaces => \A k \in Ladder : k < r.stage => rs[r.bill][k] > 0
  /\ r.at = "mark" => r.stage = 1
  /\ r.at = "remind" => r.stage # TaskStage
  /\ r.at \in {"seekTask", "makeTask"} => r.stage = TaskStage
  /\ r.at = "log" /\ r.stage # TaskStage => rs[r.bill][r.stage] > 0

LEMMA SoundByRecord ==
  ASSUME NEW w \in Workers PROVE Sound(w) <=> SoundRecord(w, worker[w], reminders)
BY DEF Sound, SoundRecord, At, Bill

\* No reminder is taken back.
Grows == \A i \in Bills : \A k \in Ladder :
           /\ reminders[i][k] <= reminders'[i][k]
           /\ reminders'[i][k] \in Nat

\* A step of w leaves the other workers sound.
LEMMA OthersStaySound ==
  ASSUME CollectionsTypeOK, WorkersSound, NEW w \in Workers, NEW r \in WorkerRecord,
         worker' = [worker EXCEPT ![w] = r], Grows, SoundRecord(w, r, reminders')
  PROVE  WorkersSound'
<1> SUFFICES ASSUME NEW v \in Workers PROVE SoundRecord(v, worker'[v], reminders')
  BY DEF WorkersSound, Sound, SoundRecord, At, Bill
<1>1. CASE v = w
  BY <1>1, WorkerTypes
<1>2. CASE v # w
  <2>1. worker'[v] = worker[v] /\ worker[v] \in WorkerRecord
    BY <1>2, WorkerTypes DEF CollectionsTypeOK
  <2>2. SoundRecord(v, worker[v], reminders)
    BY SoundByRecord DEF WorkersSound
  <2>3. \A i \in Bills : \A k \in Ladder : reminders[i][k] > 0 => reminders'[i][k] > 0
    BY DEF Grows, CollectionsTypeOK
  <2> QED
    BY <2>1, <2>2, <2>3 DEF SoundRecord, WorkerRecord, LadderPlaces
<1> QED
  BY <1>1, <1>2

\* A move of w that leaves the ladder's rows alone keeps the invariant, when the
\* other rows keep their types.
TableTypes ==
  /\ bill \in [Bills -> [status : BillStatuses, path : BOOLEAN, sent : BOOLEAN]]
  /\ onDisk \subseteq Bills /\ contact \subseteq Bills /\ receiver \subseteq Bills
  /\ offboarded \subseteq Bills
  /\ openTasks \in [Bills -> Nat]
  /\ today \in Days
  /\ mailed \subseteq Bills
  /\ mishaps \in 0 .. MaxMishaps

LEMMA Moves ==
  ASSUME IInv, NEW w \in Workers, NEW r \in WorkerRecord,
         worker' = [worker EXCEPT ![w] = r],
         SoundRecord(w, r, reminders),
         UNCHANGED <<reminded, reminders, asked>>, TableTypes'
  PROVE  IInv'
<1>1. CollectionsTypeOK'
  BY WorkerTypes DEF IInv, CollectionsTypeOK, TableTypes
<1>2. Grows
  BY DEF IInv, CollectionsTypeOK, Grows
<1>3. WorkersSound'
  BY <1>2, OthersStaySound DEF IInv
<1> QED
  BY <1>1, <1>3 DEF IInv, LoggedWasMailed, TaskAfterReminders

\* To another place, with the same invoice in hand.
LEMMA GoesOn ==
  ASSUME IInv, NEW w \in Workers, Bill(w) \in Bills,
         NEW p \in {"issue", "render", "path", "load", "mail", "stamp", "unlink",
                    "rewrite", "repath"},
         GoTo(w, p), UNCHANGED <<reminded, reminders, asked>>, TableTypes'
  PROVE  IInv'
<1> DEFINE r == [worker[w] EXCEPT !.at = p]
<1>1. r \in WorkerRecord /\ r.at = p /\ r.bill = Bill(w)
  BY DEF IInv, CollectionsTypeOK, WorkerRecord, Places, Bill
<1>2. worker' = [worker EXCEPT ![w] = r]
  BY DEF GoTo
<1>3. SoundRecord(w, r, reminders)
  BY <1>1 DEF SoundRecord, LadderPlaces
<1> QED
  <2> HIDE DEF r
  <2> QED
    BY <1>1, <1>2, <1>3, Moves

\* To the next of the list.
LEMMA NextOfList ==
  ASSUME IInv, NEW w \in Workers, NextBill(w),
         UNCHANGED <<reminded, reminders, asked>>, TableTypes'
  PROVE  IInv'
<1> DEFINE r == IF worker[w].todo = {} THEN Resting
                ELSE [worker[w] EXCEPT !.at = "next", !.bill = NoBill]
<1>1. r \in WorkerRecord /\ r.at \in {"idle", "next"}
  BY RestingFacts DEF IInv, CollectionsTypeOK, WorkerRecord, Places, Resting
<1>2. worker' = [worker EXCEPT ![w] = r]
  BY DEF NextBill
<1>3. SoundRecord(w, r, reminders)
  BY <1>1 DEF SoundRecord, LadderPlaces
<1> QED
  <2> HIDE DEF r
  <2> QED
    BY <1>1, <1>2, <1>3, Moves

\* To rest.
LEMMA ComesToRest ==
  ASSUME IInv, NEW w \in Workers, Rest(w),
         UNCHANGED <<reminded, reminders, asked>>, TableTypes'
  PROVE  IInv'
<1>1. SoundRecord(w, Resting, reminders)
  BY DEF SoundRecord, LadderPlaces, Resting
<1> QED
  BY <1>1, RestingFacts, Moves DEF Rest

-----------------------------------------------------------------------------
(* The desk's steps, and those of either kind of worker.                   *)

LEMMA NeedsNoLadder ==
  ASSUME IInv
  PROVE  /\ TableTypes
         /\ \A w \in Workers : worker[w].at \notin {"idle", "next"} => Bill(w) \in Bills
         /\ \A w \in Workers : worker[w] \in WorkerRecord
BY DEF IInv, CollectionsTypeOK, TableTypes, WorkersSound, Sound

LEMMA BeginsKeep ==
  ASSUME IInv, NEW d \in Workers,
         \/ \E list \in SUBSET Bills : BeginIssue(d, list)
         \/ \E i \in Bills : BeginResend(d, i) \/ BeginRewrite(d, i)
  PROVE  IInv'
<1> USE DEF TableTypes, OnlyWorker, tenants
<1>1. CASE \E list \in SUBSET Bills : BeginIssue(d, list)
  <2>1. PICK list \in SUBSET Bills : BeginIssue(d, list)
    BY <1>1
  <2> DEFINE r == [Resting EXCEPT !.at = "next", !.todo = list]
  <2>2. r \in WorkerRecord /\ SoundRecord(d, r, reminders)
    BY RestingFacts DEF WorkerRecord, Places, Resting, SoundRecord, LadderPlaces
  <2> QED
    BY <2>1, <2>2, NeedsNoLadder, Moves DEF BeginIssue
<1>2. CASE \E i \in Bills : BeginResend(d, i) \/ BeginRewrite(d, i)
  <2>1. PICK i \in Bills : BeginResend(d, i) \/ BeginRewrite(d, i)
    BY <1>2
  <2>2. PICK p \in {"load", "unlink"} :
          worker' = [worker EXCEPT ![d] = [Resting EXCEPT !.at = p, !.bill = i]]
    BY <2>1 DEF BeginResend, BeginRewrite
  <2> DEFINE r == [Resting EXCEPT !.at = p, !.bill = i]
  <2>3. r \in WorkerRecord /\ SoundRecord(d, r, reminders)
    BY RestingFacts DEF WorkerRecord, Places, Resting, SoundRecord, LadderPlaces
  <2> QED
    BY <2>1, <2>2, <2>3, NeedsNoLadder, Moves DEF BeginResend, BeginRewrite
<1> QED
  BY <1>1, <1>2

LEMMA TakeNextKeeps ==
  ASSUME IInv, NEW w \in Workers, TakeNext(w)
  PROVE  IInv'
<1> DEFINE p == IF w \in CronRuns THEN "mark" ELSE "issue"
<1>1. PICK i \in worker[w].todo :
        worker' = [worker EXCEPT ![w] =
          [@ EXCEPT !.todo = worker[w].todo \ {i}, !.bill = i, !.stage = 1,
                    !.at = p]]
  BY DEF TakeNext
<1>2. p \in {"mark", "issue"} /\ (p = "mark" => w \in CronRuns)
  OBVIOUS
<1> HIDE DEF p
<1>3. i \in Bills /\ worker[w] \in WorkerRecord
  BY NeedsNoLadder DEF WorkerRecord
<1> DEFINE t == worker[w].todo \ {i}
           r == [worker[w] EXCEPT !.todo = t, !.bill = i, !.stage = 1, !.at = p]
<1>4. worker' = [worker EXCEPT ![w] = r]
  BY <1>1
<1>5. r \in WorkerRecord /\ r.bill = i /\ r.stage = 1 /\ r.at = p
  <2>1. t \in SUBSET Bills /\ 1 \in Ladder /\ p \in Places
    BY <1>2, <1>3 DEF WorkerRecord, Ladder, Places
  <2> HIDE DEF t
  <2> QED
    BY <1>3, <2>1 DEF WorkerRecord
<1>6. TableTypes' /\ UNCHANGED <<reminded, reminders, asked>>
  BY NeedsNoLadder DEF TakeNext, OnlyWorker, TableTypes, tenants
<1> HIDE DEF r
<1>7. SoundRecord(w, r, reminders)
  BY <1>2, <1>3, <1>5 DEF SoundRecord, LadderPlaces, Ladder
<1> QED
  BY <1>4, <1>5, <1>6, <1>7, Moves

\* Issue, render, mail, rewrite: what a desk does with the invoice in hand.
LEMMA DeskKeeps ==
  ASSUME IInv, NEW d \in Workers,
         \/ Issue(d) \/ Render(d) \/ RecordPath(d) \/ LoadMail(d) \/ MailInvoice(d)
         \/ StampSent(d) \/ Unlink(d) \/ Rewrite(d) \/ Repath(d)
         \/ RenderFails(d) \/ MailRefused(d)
  PROVE  IInv'
<1>1. Bill(d) \in Bills
  BY NeedsNoLadder DEF Issue, Render, RecordPath, LoadMail, MailInvoice, StampSent,
     Unlink, Rewrite, Repath, RenderFails, MailRefused, At
<1>2. UNCHANGED <<reminded, reminders, asked>>
  BY DEF Issue, Render, RecordPath, LoadMail, MailInvoice, StampSent, Unlink,
     Rewrite, Repath, RenderFails, MailRefused, OnlyWorker
<1>3. TableTypes'
  <2> USE NeedsNoLadder, <1>1 DEF TableTypes, tenants, BillStatuses
  <2>1. CASE Issue(d) BY <2>1 DEF Issue
  <2>2. CASE Render(d) BY <2>2 DEF Render
  <2>3. CASE RecordPath(d) BY <2>3 DEF RecordPath
  <2>4. CASE LoadMail(d) BY <2>4 DEF LoadMail, OnlyWorker
  <2>5. CASE MailInvoice(d) BY <2>5 DEF MailInvoice
  <2>6. CASE StampSent(d) BY <2>6 DEF StampSent
  <2>7. CASE Unlink(d) BY <2>7 DEF Unlink
  <2>8. CASE Rewrite(d) BY <2>8 DEF Rewrite
  <2>9. CASE Repath(d) BY <2>9 DEF Repath
  <2>10. CASE RenderFails(d) \/ MailRefused(d)
    BY <2>10, MishapsAssumption DEF RenderFails, MailRefused, OnlyWorker, Mishap
  <2> QED
    BY <2>1, <2>2, <2>3, <2>4, <2>5, <2>6, <2>7, <2>8, <2>9, <2>10
<1>4. \/ \E p \in {"issue", "render", "path", "load", "mail", "stamp", "unlink",
                   "rewrite", "repath"} : GoTo(d, p)
      \/ NextBill(d) \/ Rest(d)
  BY DEF Issue, Render, RecordPath, LoadMail, MailInvoice, StampSent, Unlink,
     Rewrite, Repath, RenderFails, MailRefused
<1> QED
  BY <1>1, <1>2, <1>3, <1>4, GoesOn, NextOfList, ComesToRest

LEMMA DiesKeeps ==
  ASSUME IInv, NEW w \in Workers, Dies(w)
  PROVE  IInv'
<1>1. TableTypes' /\ UNCHANGED <<reminded, reminders, asked>>
  BY NeedsNoLadder, MishapsAssumption DEF Dies, Mishap, OnlyWorker, TableTypes, tenants
<1> QED
  BY <1>1, ComesToRest DEF Dies

-----------------------------------------------------------------------------
(* The steps of the ladder.                                                *)

\* A step of c that also writes the ladder's rows.
LEMMA LadderMoves ==
  ASSUME IInv, NEW c \in Workers, NEW r \in WorkerRecord,
         worker' = [worker EXCEPT ![c] = r], Grows,
         SoundRecord(c, r, reminders'), TableTypes',
         reminded' \in [Bills -> SUBSET Ladder],
         reminders' \in [Bills -> [Ladder -> Nat]],
         asked' \subseteq Bills, LoggedWasMailed', TaskAfterReminders'
  PROVE  IInv'
<1>1. CollectionsTypeOK'
  BY WorkerTypes DEF IInv, CollectionsTypeOK, TableTypes
<1>2. WorkersSound'
  BY OthersStaySound DEF IInv
<1> QED
  BY <1>1, <1>2 DEF IInv

\* To another place on the ladder, at the same stage of the same invoice.
LEMMA StaysOnStage ==
  ASSUME IInv, NEW c \in CronRuns, At(c, "mark") \/ At(c, "check") \/ At(c, "remind")
           \/ At(c, "seekTask") \/ At(c, "makeTask"),
         NEW p \in LadderPlaces, p # "mark",
         NEW r, r = [worker[c] EXCEPT !.at = p]
  PROVE  /\ r \in WorkerRecord
         /\ r.at = p /\ r.bill = Bill(c) /\ r.stage = worker[c].stage
         /\ Bill(c) \in Bills /\ worker[c].stage \in Ladder
         /\ \A k \in Ladder : k < worker[c].stage => reminders[Bill(c)][k] > 0
<1>1. worker[c] \in WorkerRecord /\ Sound(c)
  BY DEF IInv, CollectionsTypeOK, WorkersSound, Workers
<1>2. worker[c].at \in LadderPlaces /\ p \in Places
  BY DEF At, LadderPlaces, Places
<1>3. r \in WorkerRecord /\ r.at = p /\ r.bill = Bill(c) /\ r.stage = worker[c].stage
  BY <1>1, <1>2 DEF WorkerRecord, Bill
<1>4. worker[c].stage \in Ladder
  BY <1>1 DEF WorkerRecord
<1> QED
  BY <1>1, <1>2, <1>3, <1>4 DEF Sound, LadderPlaces

\* Up a rung, from one that has been mailed or is the last.
LEMMA ClimbIsSound ==
  ASSUME IInv, NEW c \in CronRuns, At(c, "check") \/ At(c, "log"),
         worker[c].stage # TaskStage => reminders[Bill(c)][worker[c].stage] > 0,
         Climb(c)
  PROVE  \E r \in WorkerRecord :
           /\ worker' = [worker EXCEPT ![c] = r]
           /\ SoundRecord(c, r, reminders)
           /\ r.at \notin {"remind", "log", "seekTask", "makeTask"}
<1>1. worker[c] \in WorkerRecord /\ Sound(c) /\ worker \in [Workers -> WorkerRecord]
  BY DEF IInv, CollectionsTypeOK, WorkersSound, Workers
<1> DEFINE k == worker[c].stage
<1>2. k \in Ladder
  BY <1>1 DEF WorkerRecord
<1>3. CASE k < TaskStage /\ worker[c].day >= Begins[k + 1]
  <2> DEFINE r == [worker[c] EXCEPT !.at = "check", !.stage = k + 1]
  <2>1. k + 1 \in Ladder /\ "check" \in Places
    BY <1>2, <1>3 DEF Ladder, TaskStage, Places
  <2>2. worker' = [worker EXCEPT ![c].at = "check", ![c].stage = k + 1]
    BY <1>3 DEF Climb
  <2>3. worker' = [worker EXCEPT ![c] = r]
    BY <1>1, <2>2
  <2>4. /\ r \in WorkerRecord /\ r.at = "check" /\ r.stage = k + 1
        /\ r.bill = Bill(c)
    <3> HIDE DEF k
    <3> QED
      BY <1>1, <2>1 DEF WorkerRecord, Bill
  <2>5. Bill(c) \in Bills /\ \A j \in Ladder : j < k + 1 => reminders[Bill(c)][j] > 0
    <3>1. \A j \in Ladder : j < k => reminders[Bill(c)][j] > 0
      BY <1>1 DEF Sound, At, LadderPlaces
    <3>2. reminders[Bill(c)][k] > 0
      BY <1>2, <1>3 DEF Ladder, TaskStage
    <3> QED
      BY <1>1, <1>2, <3>1, <3>2 DEF Sound, At, Ladder
  <2> HIDE DEF r
  <2>6. SoundRecord(c, r, reminders)
    BY <2>4, <2>5 DEF SoundRecord
  <2> QED
    BY <2>3, <2>4, <2>6
<1>4. CASE ~(k < TaskStage /\ worker[c].day >= Begins[k + 1])
  <2>1. NextBill(c)
    BY <1>4 DEF Climb
  <2> DEFINE r == IF worker[c].todo = {} THEN Resting
                  ELSE [worker[c] EXCEPT !.at = "next", !.bill = NoBill]
  <2>2. r \in WorkerRecord /\ r.at \in {"idle", "next"}
    BY <1>1, RestingFacts DEF WorkerRecord, Places, Resting
  <2>3. worker' = [worker EXCEPT ![c] = r]
    BY <2>1 DEF NextBill
  <2> HIDE DEF r
  <2>4. SoundRecord(c, r, reminders)
    BY <2>2 DEF SoundRecord, LadderPlaces
  <2> QED
    BY <2>2, <2>3, <2>4
<1> QED
  BY <1>3, <1>4

LEMMA ClimbKeeps ==
  ASSUME IInv, NEW c \in CronRuns, At(c, "check") \/ At(c, "log"),
         worker[c].stage # TaskStage => reminders[Bill(c)][worker[c].stage] > 0,
         Climb(c), UNCHANGED <<reminded, reminders, asked>>, TableTypes'
  PROVE  IInv'
BY ClimbIsSound, Moves DEF Workers

LEMMA BeginLadderKeeps ==
  ASSUME IInv, NEW c \in CronRuns, BeginLadder(c)
  PROVE  IInv'
<1> DEFINE list == {i \in Bills \ offboarded : bill[i].status \in Unpaid}
           then == {i \in list : bill[i].status = "issued"}
           r == [Resting EXCEPT !.at = "next", !.todo = list, !.day = today,
                                !.issuedThen = then]
<1>1. worker' = [worker EXCEPT ![c] = r]
  BY DEF BeginLadder
<1>2. r \in WorkerRecord /\ r.at = "next"
  <2>1. list \in SUBSET Bills /\ then \in SUBSET Bills /\ today \in Days
    BY DEF IInv, CollectionsTypeOK
  <2>2. Resting \in WorkerRecord /\ "next" \in Places
    BY RestingFacts DEF Places
  <2> HIDE DEF list, then
  <2> QED
    BY <2>1, <2>2 DEF WorkerRecord
<1>3. TableTypes' /\ UNCHANGED <<reminded, reminders, asked>>
  BY NeedsNoLadder DEF BeginLadder, OnlyWorker, TableTypes, tenants
<1> HIDE DEF r
<1>4. SoundRecord(c, r, reminders)
  BY <1>2 DEF SoundRecord, LadderPlaces
<1> QED
  BY <1>1, <1>2, <1>3, <1>4, Moves DEF Workers

\* To another place at the same stage.
LEMMA StageKeeps ==
  ASSUME IInv, NEW c \in CronRuns, NEW p \in LadderPlaces, p # "mark",
         At(c, "mark") \/ At(c, "check") \/ At(c, "seekTask"),
         p = "remind" => worker[c].stage # TaskStage,
         p \in {"seekTask", "makeTask", "log"} => worker[c].stage = TaskStage,
         GoTo(c, p), UNCHANGED <<reminded, reminders, asked>>, TableTypes'
  PROVE  IInv'
<1> DEFINE r == [worker[c] EXCEPT !.at = p]
<1>1. /\ r \in WorkerRecord
      /\ r.at = p /\ r.bill = Bill(c) /\ r.stage = worker[c].stage
      /\ Bill(c) \in Bills
      /\ \A k \in Ladder : k < worker[c].stage => reminders[Bill(c)][k] > 0
  BY StaysOnStage
<1>2. worker' = [worker EXCEPT ![c] = r]
  BY DEF GoTo
<1> HIDE DEF r
<1>3. SoundRecord(c, r, reminders)
  BY <1>1 DEF SoundRecord, LadderPlaces
<1> QED
  BY <1>1, <1>2, <1>3, Moves DEF Workers

LEMMA MarkOverdueKeeps ==
  ASSUME IInv, NEW c \in CronRuns, MarkOverdue(c)
  PROVE  IInv'
<1>1. TableTypes'
  BY NeedsNoLadder DEF MarkOverdue, TableTypes, BillStatuses, tenants
<1> QED
  BY <1>1, StageKeeps DEF MarkOverdue, LadderPlaces

LEMMA CheckStageKeeps ==
  ASSUME IInv, NEW c \in CronRuns, CheckStage(c)
  PROVE  IInv'
<1>1. TableTypes' /\ UNCHANGED <<reminded, reminders, asked>>
  BY NeedsNoLadder DEF CheckStage, OnlyWorker, TableTypes, tenants
<1>2. CASE worker[c].stage \in reminded[Bill(c)]
  <2>1. Bill(c) \in Bills /\ worker[c].stage \in Ladder
    BY NeedsNoLadder DEF CheckStage, At, Workers, WorkerRecord
  <2>2. worker[c].stage # TaskStage => reminders[Bill(c)][worker[c].stage] > 0
    BY <1>2, <2>1 DEF IInv, LoggedWasMailed
  <2> QED
    BY <1>1, <1>2, <2>2, ClimbKeeps DEF CheckStage
<1>3. CASE worker[c].stage \notin reminded[Bill(c)] /\ worker[c].stage = TaskStage
  BY <1>1, <1>3, StageKeeps DEF CheckStage, LadderPlaces
<1>4. CASE worker[c].stage \notin reminded[Bill(c)] /\ worker[c].stage # TaskStage
  BY <1>1, <1>4, StageKeeps, NextOfList DEF CheckStage, LadderPlaces, Workers
<1> QED
  BY <1>2, <1>3, <1>4

LEMMA SeekTaskKeeps ==
  ASSUME IInv, NEW c \in CronRuns, SeekTask(c)
  PROVE  IInv'
<1>1. TableTypes' /\ UNCHANGED <<reminded, reminders, asked>>
  BY NeedsNoLadder DEF SeekTask, OnlyWorker, TableTypes, tenants
<1>2. worker[c].stage = TaskStage
  BY DEF SeekTask, IInv, WorkersSound, Sound, Workers
<1> QED
  BY <1>1, <1>2, StageKeeps DEF SeekTask, LadderPlaces

LEMMA ReminderRefusedKeeps ==
  ASSUME IInv, NEW c \in CronRuns, ReminderRefused(c)
  PROVE  IInv'
<1>1. TableTypes' /\ UNCHANGED <<reminded, reminders, asked>>
  BY NeedsNoLadder, MishapsAssumption
  DEF ReminderRefused, Mishap, OnlyWorker, TableTypes, tenants
<1> QED
  BY <1>1, NextOfList DEF ReminderRefused, Workers

\* The mail comes before its log row.
LEMMA RemindKeeps ==
  ASSUME IInv, NEW c \in CronRuns, Remind(c)
  PROVE  IInv'
<1> DEFINE i == Bill(c)
           k == worker[c].stage
           r == [worker[c] EXCEPT !.at = "log"]
<1>1. /\ r \in WorkerRecord
      /\ r.at = "log" /\ r.bill = i /\ r.stage = k
      /\ i \in Bills /\ k \in Ladder
      /\ \A j \in Ladder : j < k => reminders[i][j] > 0
  BY StaysOnStage DEF Remind, LadderPlaces
<1>2. worker' = [worker EXCEPT ![c] = r]
  BY DEF Remind, GoTo
<1>3. reminders' = [reminders EXCEPT ![i][k] = @ + 1]
  BY DEF Remind
<1>4. reminders \in [Bills -> [Ladder -> Nat]]
  BY DEF IInv, CollectionsTypeOK
<1> HIDE DEF r, i, k
<1>5. /\ reminders' \in [Bills -> [Ladder -> Nat]] /\ Grows
      /\ reminders'[i][k] > 0
  BY <1>1, <1>3, <1>4 DEF Grows
<1>6. SoundRecord(c, r, reminders')
  <2>1. \A j \in Ladder : reminders[i][j] > 0 => reminders'[i][j] > 0
    BY <1>1, <1>4, <1>5 DEF Grows
  <2> QED
    BY <1>1, <1>5, <2>1 DEF SoundRecord, LadderPlaces
<1>7. TableTypes' /\ reminded' = reminded /\ asked' = asked
  BY NeedsNoLadder DEF Remind, TableTypes, tenants
<1>8. \A j \in Bills : \A m \in Ladder : reminders[j][m] > 0 => reminders'[j][m] > 0
  BY <1>4, <1>5 DEF Grows
<1>9. LoggedWasMailed' /\ TaskAfterReminders'
  BY <1>7, <1>8 DEF IInv, LoggedWasMailed, TaskAfterReminders, CollectionsTypeOK
<1> QED
  BY <1>1, <1>2, <1>5, <1>6, <1>7, <1>9, LadderMoves
  DEF IInv, CollectionsTypeOK, Workers

LEMMA LogReminderKeeps ==
  ASSUME IInv, NEW c \in CronRuns, LogReminder(c)
  PROVE  IInv'
<1> DEFINE i == Bill(c)
           k == worker[c].stage
<1>1. c \in Workers /\ i \in Bills /\ k \in Ladder
  BY NeedsNoLadder DEF LogReminder, At, Workers, WorkerRecord
<1>2. k # TaskStage => reminders[i][k] > 0
  BY <1>1 DEF LogReminder, IInv, WorkersSound, Sound
<1>3. TableTypes' /\ reminders' = reminders /\ asked' = asked
  BY NeedsNoLadder DEF LogReminder, TableTypes, tenants
<1>4. CASE k \in reminded[i]
  BY <1>1, <1>3, <1>4, NextOfList DEF LogReminder
<1>5. CASE k \notin reminded[i]
  <2>1. reminded' = [reminded EXCEPT ![i] = @ \cup {k}] /\ Climb(c)
    BY <1>5 DEF LogReminder
  <2>2. reminded \in [Bills -> SUBSET Ladder]
    BY DEF IInv, CollectionsTypeOK
  <2> HIDE DEF i, k
  <2>3. reminded' \in [Bills -> SUBSET Ladder] /\ LoggedWasMailed'
    BY <1>1, <1>2, <1>3, <2>1, <2>2 DEF IInv, LoggedWasMailed
  <2>4. PICK r \in WorkerRecord : worker' = [worker EXCEPT ![c] = r]
                                  /\ SoundRecord(c, r, reminders)
    BY <1>2, <2>1, ClimbIsSound DEF LogReminder, i, k
  <2>5. Grows /\ TaskAfterReminders' /\ asked' \subseteq Bills
        /\ reminders' \in [Bills -> [Ladder -> Nat]]
    BY <1>3 DEF Grows, IInv, CollectionsTypeOK, TaskAfterReminders
  <2> QED
    BY <1>1, <1>3, <2>3, <2>4, <2>5, LadderMoves
<1> QED
  BY <1>4, <1>5

\* The task is made at the last stage, all those below have been mailed.
LEMMA MakeTaskKeeps ==
  ASSUME IInv, NEW c \in CronRuns, MakeTask(c)
  PROVE  IInv'
<1> DEFINE i == Bill(c)
           r == [worker[c] EXCEPT !.at = "log"]
<1>1. /\ r \in WorkerRecord
      /\ r.at = "log" /\ r.bill = i /\ r.stage = worker[c].stage
      /\ i \in Bills
      /\ \A k \in Ladder : k < worker[c].stage => reminders[i][k] > 0
  BY StaysOnStage DEF MakeTask, LadderPlaces
<1>2. worker[c].stage = TaskStage
  BY DEF MakeTask, IInv, WorkersSound, Sound, Workers
<1>3. worker' = [worker EXCEPT ![c] = r]
  BY DEF MakeTask, GoTo
<1> HIDE DEF r
<1>4. SoundRecord(c, r, reminders)
  BY <1>1, <1>2 DEF SoundRecord
<1>5. TableTypes' /\ reminded' = reminded /\ reminders' = reminders
  BY NeedsNoLadder, <1>1 DEF MakeTask, TableTypes, tenants
<1>6. asked' = asked \cup {i}
  BY DEF MakeTask
<1>7. TaskAfterReminders'
  BY <1>1, <1>2, <1>5, <1>6 DEF IInv, TaskAfterReminders, Ladder, TaskStage
<1> HIDE DEF i
<1>8. /\ Grows /\ LoggedWasMailed' /\ asked' \subseteq Bills
      /\ reminded' \in [Bills -> SUBSET Ladder]
      /\ reminders' \in [Bills -> [Ladder -> Nat]]
  BY <1>1, <1>5, <1>6 DEF IInv, CollectionsTypeOK, Grows, LoggedWasMailed
<1> QED
  BY <1>1, <1>3, <1>4, <1>5, <1>7, <1>8, LadderMoves DEF Workers

\* What happens beside the workers.
LEMMA BesideKeeps ==
  ASSUME IInv,
         \/ \E i \in Bills :
              \/ ReceiveInvoices(i) \/ Offboard(i) \/ ResolveTask(i)
              \/ \E to \in {"overdue", "paid", "void"} : Settle(i, to)
         \/ NextDay
  PROVE  IInv'
<1>1. UNCHANGED <<worker, reminded, reminders, asked>>
  BY DEF ReceiveInvoices, Offboard, ResolveTask, Settle, NextDay
<1>2. TableTypes'
  <2>1. CASE \E i \in Bills : ReceiveInvoices(i) \/ Offboard(i)
    BY <2>1, NeedsNoLadder DEF ReceiveInvoices, Offboard, TableTypes
  <2>2. CASE \E i \in Bills : ResolveTask(i)
    BY <2>2, NeedsNoLadder DEF ResolveTask, TableTypes, tenants
  <2>3. CASE \E i \in Bills : \E to \in {"overdue", "paid", "void"} : Settle(i, to)
    BY <2>3, NeedsNoLadder DEF Settle, TableTypes, tenants, BillStatuses
  <2>4. CASE NextDay
    BY <2>4, NeedsNoLadder, LaterDay DEF NextDay, TableTypes, tenants
  <2> QED
    BY <2>1, <2>2, <2>3, <2>4
<1>3. CollectionsTypeOK'
  BY <1>1, <1>2 DEF IInv, CollectionsTypeOK, TableTypes
<1> QED
  BY <1>1, <1>3 DEF IInv, WorkersSound, Sound, LoggedWasMailed, TaskAfterReminders,
     At, Bill

-----------------------------------------------------------------------------
LEMMA Initial == CollectionsInit => IInv
<1> SUFFICES ASSUME CollectionsInit PROVE IInv
  OBVIOUS
<1>1. CollectionsTypeOK
  BY FirstDay, RestingFacts, MishapsAssumption
  DEF CollectionsInit, CollectionsTypeOK, BillStatuses
<1>2. WorkersSound
  BY DEF CollectionsInit, WorkersSound, Sound, At, Bill, Resting, LadderPlaces
<1> QED
  BY <1>1, <1>2 DEF IInv, CollectionsInit, LoggedWasMailed, TaskAfterReminders

LEMMA Step == IInv /\ [CollectionsNext]_collectionsVars => IInv'
<1> SUFFICES ASSUME IInv, [CollectionsNext]_collectionsVars PROVE IInv'
  OBVIOUS
<1> USE DEF Workers
<1>1. ASSUME NEW d \in Desks,
             \/ DeskStep(d) \/ RenderFails(d) \/ MailRefused(d)
             \/ \E list \in SUBSET Bills : BeginIssue(d, list)
             \/ \E i \in Bills : BeginResend(d, i) \/ BeginRewrite(d, i)
      PROVE  IInv'
  BY <1>1, TakeNextKeeps, DeskKeeps, BeginsKeep DEF DeskStep
<1>2. ASSUME NEW c \in CronRuns, LadderStep(c) \/ ReminderRefused(c) \/ BeginLadder(c)
      PROVE  IInv'
  BY <1>2, TakeNextKeeps, MarkOverdueKeeps, CheckStageKeeps, RemindKeeps,
     LogReminderKeeps, SeekTaskKeeps, MakeTaskKeeps, ReminderRefusedKeeps,
     BeginLadderKeeps DEF LadderStep
<1>3. ASSUME NEW w \in Workers, Dies(w) PROVE IInv'
  BY <1>3, DiesKeeps
<1>4. CASE UNCHANGED collectionsVars
  BY <1>4 DEF collectionsVars, tenants, IInv, CollectionsTypeOK, WorkersSound, Sound,
     LoggedWasMailed, TaskAfterReminders, At, Bill
<1> QED
  BY <1>1, <1>2, <1>3, <1>4, BesideKeeps DEF CollectionsNext

LEMMA Invariance == CollectionsSpec => []IInv
<1> QED
  BY Initial, Step, PTL DEF CollectionsSpec

\* Every variable of the collection of invoices keeps its type, whatever the
\* workers do and wherever they die (invoices/issue.ts, billing/dunning.ts).
THEOREM CollectionsTypes == CollectionsSpec => []CollectionsTypeOK
<1>1. IInv => CollectionsTypeOK
  BY DEF IInv
<1> QED
  BY <1>1, Invariance, PTL

\* A suspension task is made only for an invoice whose three reminders the mail
\* service accepted, with any number of ladders at a time, refused mails and
\* crashes (runDunningLadder, createSuspensionTask).
THEOREM NoRungIsSkipped == CollectionsSpec => []TaskAfterReminders
<1>1. IInv => TaskAfterReminders
  BY DEF IInv
<1> QED
  BY <1>1, Invariance, PTL

\* No step takes an invoice out of paid or void, a ladder that works on an old
\* list included: the statuses other than those two are all a step writes over.
THEOREM SettledStays == CollectionsSpec => SettledStaysSettled
<1>1. IInv /\ [CollectionsNext]_collectionsVars =>
        [\A i \in Bills : bill[i].status \in {"paid", "void"}
                            => bill'[i].status = bill[i].status]_collectionsVars
  <2> SUFFICES ASSUME IInv, CollectionsNext,
                      NEW i \in Bills, bill[i].status \in {"paid", "void"}
               PROVE  bill'[i].status = bill[i].status
    OBVIOUS
  <2>1. bill \in [Bills -> [status : BillStatuses, path : BOOLEAN, sent : BOOLEAN]]
    BY DEF IInv, CollectionsTypeOK
  <2>2. \/ bill' = bill
        \/ \E d \in Workers : Issue(d) \/ RecordPath(d) \/ StampSent(d) \/ Repath(d)
                              \/ MarkOverdue(d)
        \/ \E j \in Bills : \E to \in {"overdue", "paid", "void"} : Settle(j, to)
    BY DEF CollectionsNext, DeskStep, LadderStep, TakeNext, Render, LoadMail,
       MailInvoice, Unlink, Rewrite, RenderFails, MailRefused, BeginIssue,
       BeginResend, BeginRewrite, CheckStage, Remind, LogReminder, SeekTask,
       MakeTask, ReminderRefused, BeginLadder, Dies, ReceiveInvoices, Offboard, ResolveTask,
       NextDay, OnlyWorker, Workers
  <2> QED
    BY <2>1, <2>2 DEF Issue, RecordPath, StampSent, Repath, MarkOverdue, Settle, Unpaid
<1> QED
  BY <1>1, Invariance, PTL DEF CollectionsSpec, SettledStaysSettled

-----------------------------------------------------------------------------
(* One ladder at a time.                                                   *)

OneLadder == \A c, d \in CronRuns : c = d

\* The places from which a row of the log is still to be written.
Unlogged == {"remind", "log", "seekTask", "makeTask"}

\* The one run is at a stage the log does not have yet.
NotYetLogged ==
  \A c \in CronRuns : worker[c].at \in Unlogged =>
    worker[c].stage \notin reminded[Bill(c)]

\* A reminder is accounted for by its log row, by the run that is about to
\* write it, or by a mishap.
Pending(i, k) == \E c \in CronRuns : At(c, "log") /\ Bill(c) = i /\ worker[c].stage = k
Counted ==
  \A i \in Bills : \A k \in Ladder :
    reminders[i][k] <= (IF k \in reminded[i] \/ Pending(i, k) THEN 1 ELSE 0) + mishaps

CountInv == IInv /\ NotYetLogged /\ Counted

\* A step that mails and logs nothing, and brings no run to those places.
MailsNothing ==
  /\ UNCHANGED <<reminders, reminded>>
  /\ mishaps' \in {mishaps, mishaps + 1}
  /\ \A c \in CronRuns :
       /\ worker'[c].at \in Unlogged => worker'[c] = worker[c]
       /\ At(c, "log") => worker'[c] = worker[c] \/ mishaps' = mishaps + 1

LEMMA QuietKeeps ==
  ASSUME CountInv, IInv', MailsNothing
  PROVE  CountInv'
<1>1. NotYetLogged'
  BY DEF CountInv, MailsNothing, NotYetLogged, Bill
<1>2. \A i \in Bills : \A k \in Ladder : reminders[i][k] \in Nat
  BY DEF CountInv, IInv, CollectionsTypeOK
<1>3. mishaps \in Nat /\ mishaps' \in Nat
  BY MishapsAssumption DEF CountInv, IInv, CollectionsTypeOK, MailsNothing
<1>4. Counted'
  <2> SUFFICES ASSUME NEW i \in Bills, NEW k \in Ladder
               PROVE  reminders[i][k] <=
                        (IF k \in reminded[i] \/ Pending(i, k)' THEN 1 ELSE 0) + mishaps'
    BY DEF Counted, MailsNothing
  <2>1. Pending(i, k) => Pending(i, k)' \/ mishaps' = mishaps + 1
    BY DEF Pending, MailsNothing, At, Bill
  <2>2. reminders[i][k] <=
          (IF k \in reminded[i] \/ Pending(i, k) THEN 1 ELSE 0) + mishaps
    BY DEF CountInv, Counted
  <2> QED
    BY <1>2, <1>3, <2>1, <2>2 DEF MailsNothing
<1> QED
  BY <1>1, <1>4 DEF CountInv

\* Where a worker stands after a step that ends its work on the invoice.
LEMMA LeavesBill ==
  ASSUME IInv, NEW w \in Workers,
         NextBill(w) \/ Rest(w) \/ \E p \in Places \ Unlogged : GoTo(w, p)
  PROVE  /\ worker'[w].at \notin Unlogged
         /\ \A v \in Workers : v # w => worker'[v] = worker[v]
<1>1. worker \in [Workers -> WorkerRecord]
  BY DEF IInv, CollectionsTypeOK
<1>2. CASE NextBill(w)
  <2> DEFINE r == IF worker[w].todo = {} THEN Resting
                  ELSE [worker[w] EXCEPT !.at = "next", !.bill = NoBill]
  <2>1. worker' = [worker EXCEPT ![w] = r]
    BY <1>2 DEF NextBill
  <2>2. r.at \notin Unlogged
    BY <1>1 DEF WorkerRecord, Resting, Unlogged
  <2> HIDE DEF r
  <2> QED
    BY <1>1, <2>1, <2>2
<1>3. CASE Rest(w)
  BY <1>1, <1>3 DEF Rest, Resting, Unlogged
<1>4. CASE \E p \in Places \ Unlogged : GoTo(w, p)
  BY <1>1, <1>4 DEF GoTo, WorkerRecord
<1> QED
  BY <1>2, <1>3, <1>4

\* Every step but four of the ladder's is quiet.
LEMMA WorkIsQuiet ==
  ASSUME IInv, NEW w \in Workers,
         \/ DeskStep(w) \/ RenderFails(w) \/ MailRefused(w)
         \/ \E list \in SUBSET Bills : BeginIssue(w, list)
         \/ \E i \in Bills : BeginResend(w, i) \/ BeginRewrite(w, i)
         \/ MarkOverdue(w) \/ BeginLadder(w) \/ ReminderRefused(w) \/ Dies(w)
  PROVE  MailsNothing
<1>1. /\ worker \in [Workers -> WorkerRecord]
      /\ \A c \in CronRuns : c \in Workers
  BY DEF IInv, CollectionsTypeOK, Workers
<1>2. UNCHANGED <<reminders, reminded>> /\ mishaps' \in {mishaps, mishaps + 1}
  BY DEF DeskStep, TakeNext, Issue, Render, RecordPath, LoadMail, MailInvoice,
     StampSent, Unlink, Rewrite, Repath, RenderFails, MailRefused, BeginIssue,
     BeginResend, BeginRewrite, MarkOverdue, BeginLadder, ReminderRefused, Dies,
     OnlyWorker, Mishap
<1>3. At(w, "log") => mishaps' = mishaps + 1
  BY DEF DeskStep, TakeNext, Issue, Render, RecordPath, LoadMail, MailInvoice,
     StampSent, Unlink, Rewrite, Repath, RenderFails, MailRefused, BeginIssue,
     BeginResend, BeginRewrite, MarkOverdue, BeginLadder, ReminderRefused, Dies,
     Mishap, At
<1>4. /\ worker'[w].at \notin Unlogged
      /\ \A v \in Workers : v # w => worker'[v] = worker[v]
  <2>1. CASE BeginLadder(w) \/ (\E list \in SUBSET Bills : BeginIssue(w, list))
             \/ (\E i \in Bills : BeginResend(w, i) \/ BeginRewrite(w, i))
    BY <1>1, <2>1 DEF BeginLadder, BeginIssue, BeginResend, BeginRewrite, Resting, Unlogged
  <2>2. CASE TakeNext(w)
    BY <1>1, <2>2 DEF TakeNext, WorkerRecord, Unlogged
  <2>3. CASE \/ Issue(w) \/ Render(w) \/ RecordPath(w) \/ LoadMail(w) \/ MailInvoice(w)
             \/ StampSent(w) \/ Unlink(w) \/ Rewrite(w) \/ Repath(w)
             \/ RenderFails(w) \/ MailRefused(w) \/ MarkOverdue(w)
             \/ ReminderRefused(w) \/ Dies(w)
    <3>1. NextBill(w) \/ Rest(w) \/ \E p \in Places \ Unlogged : GoTo(w, p)
      BY <2>3 DEF Issue, Render, RecordPath, LoadMail, MailInvoice, StampSent, Unlink,
         Rewrite, Repath, RenderFails, MailRefused, MarkOverdue, ReminderRefused, Dies,
         Places, Unlogged
    <3> QED
      BY <3>1, LeavesBill
  <2> QED
    BY <2>1, <2>2, <2>3 DEF DeskStep
<1> QED
  BY <1>1, <1>2, <1>3, <1>4 DEF MailsNothing, Unlogged

LEMMA BesideIsQuiet ==
  ASSUME \/ \E i \in Bills :
              \/ ReceiveInvoices(i) \/ Offboard(i) \/ ResolveTask(i)
              \/ \E to \in {"overdue", "paid", "void"} : Settle(i, to)
         \/ NextDay \/ UNCHANGED collectionsVars
  PROVE  MailsNothing
BY DEF MailsNothing, ReceiveInvoices, Offboard, ResolveTask, Settle, NextDay,
   collectionsVars

\* A run that goes on at a stage the log does not have, or at one it passes.
LEMMA CheckCounts ==
  ASSUME OneLadder, CountInv, IInv', NEW c \in CronRuns, CheckStage(c) \/ SeekTask(c)
  PROVE  CountInv'
<1>1. IInv /\ worker \in [Workers -> WorkerRecord] /\ c \in Workers
  BY DEF CountInv, IInv, CollectionsTypeOK, Workers
<1>2. UNCHANGED <<reminders, reminded, mishaps>> /\ ~At(c, "log")
  BY DEF CheckStage, SeekTask, OnlyWorker, At
<1>3. CASE NextBill(c) \/ (CheckStage(c) /\ Climb(c) /\ worker[c].stage \in reminded[Bill(c)])
  <2>1. worker'[c].at \notin Unlogged
    <3>1. CASE NextBill(c)
      BY <1>1, <3>1, LeavesBill
    <3>2. CASE CheckStage(c) /\ Climb(c) /\ worker[c].stage \in reminded[Bill(c)]
      <4>1. Bill(c) \in Bills /\ worker[c].stage \in Ladder
        BY <1>1, <3>2, NeedsNoLadder DEF CheckStage, At, WorkerRecord
      <4>2. worker[c].stage # TaskStage => reminders[Bill(c)][worker[c].stage] > 0
        BY <1>1, <3>2, <4>1 DEF IInv, LoggedWasMailed
      <4> QED
        BY <1>1, <3>2, <4>2, ClimbIsSound DEF CheckStage, Unlogged
    <3> QED
      BY <1>3, <3>1, <3>2
  <2>2. MailsNothing
    BY <1>2, <2>1 DEF MailsNothing, OneLadder
  <2> QED
    BY <2>2, QuietKeeps
<1>4. CASE \E p \in Unlogged : GoTo(c, p) /\ worker[c].stage \notin reminded[Bill(c)]
  <2>1. /\ worker'[c].bill = Bill(c) /\ worker'[c].stage = worker[c].stage
    BY <1>1, <1>4 DEF GoTo, WorkerRecord, Bill
  <2>2. NotYetLogged'
    BY <1>2, <1>4, <2>1 DEF NotYetLogged, OneLadder, Bill
  <2>3. Counted'
    <3> SUFFICES ASSUME NEW i \in Bills, NEW k \in Ladder
                 PROVE  reminders[i][k] <=
                          (IF k \in reminded[i] \/ Pending(i, k)' THEN 1 ELSE 0) + mishaps
      BY <1>2 DEF Counted
    <3>1. ~Pending(i, k)
      BY <1>2 DEF Pending, OneLadder
    <3>2. reminders[i][k] \in Nat /\ mishaps \in Nat
      BY <1>1, MishapsAssumption DEF IInv, CollectionsTypeOK
    <3> QED
      BY <3>1, <3>2 DEF CountInv, Counted
  <2> QED
    BY <2>2, <2>3 DEF CountInv
<1>5. CASE SeekTask(c)
  <2>1. worker[c].stage \notin reminded[Bill(c)]
    BY <1>5 DEF CountInv, NotYetLogged, SeekTask, At, Unlogged
  <2> QED
    BY <1>4, <1>5, <2>1 DEF SeekTask, Unlogged
<1> QED
  BY <1>3, <1>4, <1>5 DEF CheckStage, Unlogged

\* From the making of the task to its log row: the task's stage is not mailed.
LEMMA MakeTaskCounts ==
  ASSUME OneLadder, CountInv, IInv', NEW c \in CronRuns, MakeTask(c)
  PROVE  CountInv'
<1>1. IInv /\ worker \in [Workers -> WorkerRecord] /\ c \in Workers
  BY DEF CountInv, IInv, CollectionsTypeOK, Workers
<1>2. UNCHANGED <<reminders, reminded, mishaps>> /\ ~At(c, "log")
  BY DEF MakeTask, At
<1>3. worker'[c].bill = Bill(c) /\ worker'[c].stage = worker[c].stage
  BY <1>1 DEF MakeTask, GoTo, WorkerRecord, Bill
<1>4. NotYetLogged'
  BY <1>2, <1>3 DEF CountInv, NotYetLogged, OneLadder, Bill, MakeTask, At, Unlogged
<1>5. Counted'
  <2> SUFFICES ASSUME NEW i \in Bills, NEW k \in Ladder
               PROVE  reminders[i][k] <=
                        (IF k \in reminded[i] \/ Pending(i, k)' THEN 1 ELSE 0) + mishaps
    BY <1>2 DEF Counted
  <2>1. ~Pending(i, k)
    BY <1>2 DEF Pending, OneLadder
  <2>2. reminders[i][k] \in Nat /\ mishaps \in Nat
    BY <1>1, MishapsAssumption DEF IInv, CollectionsTypeOK
  <2> QED
    BY <2>1, <2>2 DEF CountInv, Counted
<1> QED
  BY <1>4, <1>5 DEF CountInv

\* The mail is accounted for by the run until its log row is written.
LEMMA RemindCounts ==
  ASSUME OneLadder, CountInv, IInv', NEW c \in CronRuns, Remind(c)
  PROVE  CountInv'
<1> DEFINE i == Bill(c)
           k == worker[c].stage
<1>1. IInv /\ worker \in [Workers -> WorkerRecord] /\ c \in Workers
  BY DEF CountInv, IInv, CollectionsTypeOK, Workers
<1>2. i \in Bills /\ k \in Ladder
  BY <1>1, NeedsNoLadder DEF Remind, At, WorkerRecord
<1>3. /\ reminders' = [reminders EXCEPT ![i][k] = @ + 1]
      /\ UNCHANGED <<reminded, mishaps>> /\ ~At(c, "log")
  BY DEF Remind, At
<1>4. worker'[c].at = "log" /\ worker'[c].bill = i /\ worker'[c].stage = k
  BY <1>1 DEF Remind, GoTo, WorkerRecord, Bill
<1>5. k \notin reminded[i]
  BY DEF CountInv, NotYetLogged, Remind, At, Unlogged
<1>6. NotYetLogged'
  BY <1>3, <1>4, <1>5 DEF NotYetLogged, OneLadder, Bill
<1>7. Counted'
  <2> SUFFICES ASSUME NEW j \in Bills, NEW m \in Ladder
               PROVE  reminders'[j][m] <=
                        (IF m \in reminded[j] \/ Pending(j, m)' THEN 1 ELSE 0) + mishaps
    BY <1>3 DEF Counted
  <2>1. ~Pending(j, m)
    BY <1>3 DEF Pending, OneLadder
  <2>2. /\ reminders \in [Bills -> [Ladder -> Nat]] /\ mishaps \in Nat
    BY <1>1, MishapsAssumption DEF IInv, CollectionsTypeOK
  <2>3. reminders[j][m] <= (IF m \in reminded[j] THEN 1 ELSE 0) + mishaps
    BY <2>1 DEF CountInv, Counted
  <2>4. CASE j = i /\ m = k
    <3>1. Pending(j, m)'
      BY <1>4, <2>4 DEF Pending, At, Bill
    <3>2. reminders'[j][m] = reminders[j][m] + 1
      BY <1>2, <1>3, <2>2, <2>4
    <3> QED
      BY <1>5, <2>2, <2>3, <2>4, <3>1, <3>2
  <2>5. CASE ~(j = i /\ m = k)
    <3>1. reminders'[j][m] = reminders[j][m] /\ reminders[j][m] \in Nat
      BY <1>2, <1>3, <2>2, <2>5
    <3> QED
      BY <2>2, <2>3, <3>1
  <2> QED
    BY <2>4, <2>5
<1> QED
  BY <1>6, <1>7 DEF CountInv

\* The row takes over the account.
LEMMA LogReminderCounts ==
  ASSUME OneLadder, CountInv, IInv', NEW c \in CronRuns, LogReminder(c)
  PROVE  CountInv'
<1> DEFINE i == Bill(c)
           k == worker[c].stage
<1>1. IInv /\ c \in Workers
  BY DEF CountInv, Workers
<1>2. i \in Bills /\ k \in Ladder
  BY <1>1, NeedsNoLadder DEF LogReminder, At, WorkerRecord
<1>3. k \notin reminded[i]
  BY DEF CountInv, NotYetLogged, LogReminder, At, Unlogged
<1>4. /\ reminded' = [reminded EXCEPT ![i] = @ \cup {k}]
      /\ UNCHANGED <<reminders, mishaps>> /\ Climb(c)
  BY <1>3 DEF LogReminder
<1>5. worker'[c].at \notin Unlogged
  <2>1. k # TaskStage => reminders[i][k] > 0
    BY <1>1, <1>2 DEF LogReminder, IInv, WorkersSound, Sound
  <2>2. worker \in [Workers -> WorkerRecord]
    BY <1>1 DEF IInv, CollectionsTypeOK
  <2> QED
    BY <1>1, <1>4, <2>1, <2>2, ClimbIsSound DEF LogReminder, Unlogged
<1>6. NotYetLogged'
  BY <1>5 DEF NotYetLogged, OneLadder
<1>7. Counted'
  <2> SUFFICES ASSUME NEW j \in Bills, NEW m \in Ladder
               PROVE  reminders[j][m] <=
                        (IF m \in reminded'[j] \/ Pending(j, m)' THEN 1 ELSE 0) + mishaps
    BY <1>4 DEF Counted
  <2>1. Pending(j, m) => j = i /\ m = k
    BY DEF Pending, OneLadder
  <2>2. m \in reminded[j] \/ Pending(j, m) => m \in reminded'[j]
    BY <1>1, <1>2, <1>4, <2>1 DEF IInv, CollectionsTypeOK
  <2>3. reminders[j][m] \in Nat /\ mishaps \in Nat
    BY <1>1, MishapsAssumption DEF IInv, CollectionsTypeOK
  <2> QED
    BY <2>2, <2>3 DEF CountInv, Counted
<1> QED
  BY <1>6, <1>7 DEF CountInv

LEMMA CountStep ==
  ASSUME OneLadder, CountInv, [CollectionsNext]_collectionsVars
  PROVE  CountInv'
<1>1. IInv /\ IInv'
  BY Step DEF CountInv
<1>2. ASSUME MailsNothing PROVE CountInv'
  BY <1>1, <1>2, QuietKeeps
<1>3. ASSUME NEW c \in CronRuns,
             CheckStage(c) \/ Remind(c) \/ LogReminder(c) \/ SeekTask(c) \/ MakeTask(c)
      PROVE  CountInv'
  BY <1>1, <1>3, CheckCounts, RemindCounts, LogReminderCounts, MakeTaskCounts
<1>4. \/ MailsNothing
      \/ \E c \in CronRuns :
           CheckStage(c) \/ Remind(c) \/ LogReminder(c) \/ SeekTask(c) \/ MakeTask(c)
  <2>1. CASE \E d \in Desks :
               \/ DeskStep(d) \/ RenderFails(d) \/ MailRefused(d)
               \/ \E list \in SUBSET Bills : BeginIssue(d, list)
               \/ \E i \in Bills : BeginResend(d, i) \/ BeginRewrite(d, i)
    BY <1>1, <2>1, WorkIsQuiet DEF Workers
  <2>2. CASE \E c \in CronRuns : LadderStep(c) \/ ReminderRefused(c) \/ BeginLadder(c)
    <3>1. PICK c \in CronRuns : LadderStep(c) \/ ReminderRefused(c) \/ BeginLadder(c)
      BY <2>2
    <3>2. TakeNext(c) => DeskStep(c)
      BY DEF DeskStep
    <3> QED
      BY <1>1, <3>1, <3>2, WorkIsQuiet DEF LadderStep, Workers
  <2>3. CASE \E w \in Workers : Dies(w)
    BY <1>1, <2>3, WorkIsQuiet
  <2> QED
    BY <2>1, <2>2, <2>3, BesideIsQuiet DEF CollectionsNext
<1> QED
  BY <1>2, <1>3, <1>4

\* With one ladder at a time, the mail service accepts a stage's reminder once,
\* and once more only for a mishap between the mail and its log row
\* (runDunningLadder, logReminder).
THEOREM RemindersAreBounded ==
  ASSUME OneLadder PROVE CollectionsSpec => []RemindersBounded
<1>1. CollectionsInit => CountInv
  BY Initial, MishapsAssumption
  DEF CountInv, CollectionsInit, NotYetLogged, Counted, Resting, Unlogged, Workers
<1>2. CountInv /\ [CollectionsNext]_collectionsVars => CountInv'
  BY CountStep
<1>3. CountInv => RemindersBounded
  <2>1. ASSUME CountInv, NEW i \in Bills, NEW k \in Ladder
        PROVE  reminders[i][k] <= 1 + mishaps
    BY <2>1, MishapsAssumption DEF CountInv, Counted, IInv, CollectionsTypeOK
  <2> QED
    BY <2>1 DEF RemindersBounded
<1> QED
  BY <1>1, <1>2, <1>3, PTL DEF CollectionsSpec
=============================================================================
