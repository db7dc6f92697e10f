---------------------------- MODULE NoticesProofs ----------------------------
(***************************************************************************)
(* What the nightly analytics job and the two jobs that write to people    *)
(* keep, for every set of tenants, addresses, signals and runs.            *)
(* Digests.tla: its types, and that runs that do not overlap mail an       *)
(* address once a period, but for mishaps.  Alerts.tla: its types, and     *)
(* that the last event of a signal a channel took is what its alert says,  *)
(* with one poll at a time.  Warehouse.tla: its types.  Last, what is      *)
(* checked as one set of services is a behaviour of each of its parts.     *)
(***************************************************************************)
EXTENDS MCServices, SequenceTheorems, TLAPS

-----------------------------------------------------------------------------
(* Digests: types.                                                         *)

DigestPlaces == {"idle", "tenant", "compose", "check", "send", "log", "refused"}

DigestRunRecord ==
  [at : DigestPlaces, tenants : SUBSET Listed, row : SUBSET Listed,
   left : SUBSET Addresses, to : SUBSET Addresses]

\* DigestsTypeOK, and what it leaves out of a run and of the open page.
DigestTypes ==
  /\ DigestsTypeOK
  /\ digestRun \in [DigestRuns -> DigestRunRecord]
  /\ digestForm \in [of : SUBSET DigestTenants, cadence : Cadences, day : Weekdays]

\* Past the choice of a tenant a run has its row, past that of an address that.
InHand ==
  \A r \in DigestRuns :
    /\ digestRun[r].at \notin {"idle", "tenant"} =>
         \E x \in Listed : digestRun[r].row = {x}
    /\ digestRun[r].at \in {"send", "log"} =>
         \E a \in Addresses : digestRun[r].to = {a}

DigestInv == DigestTypes /\ InHand

\* The period of a digest is one of those the keys range over.
LEMMA PeriodNumbers ==
  ASSUME NEW d \in 1 .. LastDay, NEW n \in Nat \ {0}
  PROVE  (d - 1) \div n \in 0 .. LastDay
<1>1. d - 1 \in Nat /\ d - 1 <= LastDay /\ LastDay \in Nat
  BY DigestsAssumption
<1> DEFINE q == (d - 1) \div n
           m == (d - 1) % n
<1>2. q \in Int /\ m \in 0 .. (n - 1) /\ d - 1 = n * q + m
  BY <1>1
<1> HIDE DEF q, m
<1>3. q >= 0
  <2> SUFFICES ASSUME q <= -1 PROVE FALSE
    BY <1>2
  <2>1. n * q <= -n
    BY <1>2
  <2> QED
    BY <1>1, <1>2, <2>1
<1>4. q <= n * q
  BY <1>2, <1>3
<1> QED
  BY <1>1, <1>2, <1>3, <1>4 DEF q

LEMMA KeysOfRuns ==
  ASSUME DigestInv, NEW r \in DigestRuns, digestRun[r].at \notin {"idle", "tenant"},
         NEW a \in Addresses
  PROVE  KeyOf(r, a) \in Keys
<1>1. PICK x \in Listed : digestRun[r].row = {x}
  BY DEF DigestInv, InHand
<1>2. (CHOOSE y \in digestRun[r].row : TRUE) = x
  BY <1>1
<1>3. today \in 1 .. LastDay
  BY DEF DigestInv, DigestTypes, DigestsTypeOK
<1>4. /\ DaysInWeek \in Nat \ {0} /\ DaysInMonth \in Nat \ {0}
  BY DigestsAssumption
<1>5. PeriodsForDigest(x.cadence) \in [of : Cadences \ {"off"}, nr : 0 .. LastDay]
  <2>1. x.cadence \in {"daily", "weekly", "monthly"}
    BY DEF Listed, Cadences
  <2>2. today - 1 \in 0 .. LastDay
    BY <1>3, DigestsAssumption
  <2>3. /\ (today - 1) \div DaysInWeek \in 0 .. LastDay
        /\ (today - 1) \div DaysInMonth \in 0 .. LastDay
    BY <1>3, <1>4, PeriodNumbers, Zenon
  <2> QED
    BY <2>1, <2>2, <2>3 DEF PeriodsForDigest, Cadences
<1> QED
  BY <1>2, <1>5 DEF KeyOf, Keys, Listed

LEMMA ChosenAddress ==
  ASSUME DigestInv, NEW r \in DigestRuns, digestRun[r].at \in {"send", "log"}
  PROVE  Key(r) \in Keys
<1>1. PICK a \in Addresses : digestRun[r].to = {a}
  BY DEF DigestInv, InHand
<1>2. (CHOOSE b \in digestRun[r].to : TRUE) = a
  BY <1>1
<1> QED
  BY <1>2, KeysOfRuns DEF Key

LEMMA IdlingFacts == Idling \in DigestRunRecord
BY DEF Idling, DigestRunRecord, DigestPlaces

LEMMA RecipientsAreAddresses ==
  ASSUME DigestTypes, NEW t \in DigestTenants
  PROVE  DigestRecipients(t) \subseteq Addresses
BY DigestsAssumption DEF DigestTypes, DigestsTypeOK, DigestRecipients

LEMMA DigestsInitial == DigestsInit => DigestInv
<1> SUFFICES ASSUME DigestsInit PROVE DigestInv
  OBVIOUS
<1>1. 1 \in Weekdays /\ 1 \in 1 .. LastDay /\ 0 \in 0 .. MaxDigestFaults
  BY DigestsAssumption DEF Weekdays
<1>2. DigestsTypeOK
  BY <1>1 DEF DigestsInit, DigestsTypeOK, Idling, Closed, AnySettings, Cadences
<1> QED
  BY <1>1, <1>2, IdlingFacts
  DEF DigestInv, DigestTypes, InHand, DigestsInit, Closed, Cadences, Idling

\* The steps of a run.
LEMMA DigestRunTypes ==
  ASSUME DigestInv, NEW r \in DigestRuns,
         BeginDigests(r) \/ DigestStep(r) \/ LogSentFails(r) \/ DigestsAbort(r)
  PROVE  DigestInv'
<1>1. /\ digestRun \in [DigestRuns -> DigestRunRecord]
      /\ settings \in [DigestTenants -> AnySettings]
  BY DEF DigestInv, DigestTypes, DigestsTypeOK
<1>2. /\ UNCHANGED <<settings, receives, digestForm, optedOut, today>>
      /\ digestFaults' \in 0 .. MaxDigestFaults
  <2>1. /\ UNCHANGED <<settings, receives, digestForm, optedOut, today>>
        /\ \/ digestFaults' = digestFaults
           \/ digestFaults < MaxDigestFaults /\ digestFaults' = digestFaults + 1
    BY DEF BeginDigests, DigestStep, NextTenant, BuildDigestPayload, ComposeFails,
       CheckRecipient, SendDigest, SendRefused, LogSent, LogFailed, LogSentFails,
       DigestsAbort
  <2>2. digestFaults \in 0 .. MaxDigestFaults
    BY DEF DigestInv, DigestTypes, DigestsTypeOK
  <2> QED
    BY <2>1, <2>2, DigestsAssumption
<1>3. sentRows' \subseteq Keys
  <2>1. LogSent(r) => Key(r) \in Keys
    BY ChosenAddress DEF LogSent, DigestAt
  <2> QED
    BY <2>1
    DEF BeginDigests, DigestStep, NextTenant, BuildDigestPayload, ComposeFails,
        CheckRecipient, SendDigest, SendRefused, LogSent, LogFailed, LogSentFails,
        DigestsAbort, DigestInv, DigestTypes, DigestsTypeOK
<1>4. accepted' \in [Keys -> Nat]
  <2>1. accepted \in [Keys -> Nat]
    BY DEF DigestInv, DigestTypes, DigestsTypeOK
  <2>2. accepted' = accepted \/ (accepted' = [accepted EXCEPT ![Key(r)] = @ + 1]
                                 /\ Key(r) \in Keys)
    BY ChosenAddress
    DEF BeginDigests, DigestStep, NextTenant, BuildDigestPayload, ComposeFails,
        CheckRecipient, SendDigest, SendRefused, LogSent, LogFailed, LogSentFails,
        DigestsAbort, DigestAt
  <2> QED
    BY <2>1, <2>2
<1>5. /\ digestRun' \in [DigestRuns -> DigestRunRecord]
      /\ \A z \in DigestRuns : z # r => digestRun'[z] = digestRun[z]
      /\ digestRun'[r].at \notin {"idle", "tenant"} =>
           \E x \in Listed : digestRun'[r].row = {x}
      /\ digestRun'[r].at \in {"send", "log"} =>
           \E a \in Addresses : digestRun'[r].to = {a}
  <2> DEFINE OK == /\ digestRun' \in [DigestRuns -> DigestRunRecord]
                   /\ \A z \in DigestRuns : z # r => digestRun'[z] = digestRun[z]
                   /\ digestRun'[r].at \notin {"idle", "tenant"} =>
                        \E x \in Listed : digestRun'[r].row = {x}
                   /\ digestRun'[r].at \in {"send", "log"} =>
                        \E a \in Addresses : digestRun'[r].to = {a}
  <2>1. CASE BeginDigests(r)
    <3> DEFINE list == {[tenant |-> t, cadence |-> settings[t].cadence,
                         day |-> settings[t].day] :
                        t \in {u \in DigestTenants : settings[u].cadence # "off"}}
    <3>1. list \in SUBSET Listed
      BY <1>1 DEF AnySettings, Listed
    <3>2. digestRun' = [digestRun EXCEPT ![r] =
                          [Idling EXCEPT !.at = "tenant", !.tenants = list]]
      BY <2>1 DEF BeginDigests
    <3> HIDE DEF list
    <3>3. [Idling EXCEPT !.at = "tenant", !.tenants = list] \in DigestRunRecord
      BY <3>1 DEF Idling, DigestRunRecord, DigestPlaces
    <3> QED
      BY <1>1, <3>2, <3>3 DEF Idling
  <2>2. CASE NextTenant(r)
    <3>1. CASE digestRun' = [digestRun EXCEPT ![r] = Idling]
      BY <1>1, <3>1, IdlingFacts DEF Idling
    <3>2. ASSUME NEW row \in digestRun[r].tenants,
                 digestRun' = [digestRun EXCEPT
                   ![r].tenants = @ \ {row}, ![r].row = {row}, ![r].at = "compose",
                   ![r].left = DigestRecipients(row.tenant)]
          PROVE  OK
      <4>1. row \in Listed
        BY <1>1 DEF DigestRunRecord
      <4>2. DigestRecipients(row.tenant) \in SUBSET Addresses
        BY <4>1, RecipientsAreAddresses DEF Listed, DigestInv
      <4>3. "compose" \in DigestPlaces
        BY DEF DigestPlaces
      <4> QED
        BY <1>1, <3>2, <4>1, <4>2, <4>3 DEF DigestRunRecord
    <3>3. ASSUME NEW row \in digestRun[r].tenants,
                 digestRun' = [digestRun EXCEPT ![r].tenants = @ \ {row}]
          PROVE  OK
      BY <1>1, <2>2, <3>3 DEF DigestRunRecord, NextTenant, DigestAt
    <3> QED
      BY <2>2, <3>1, <3>2, <3>3 DEF NextTenant
  <2>3. CASE CheckRecipient(r)
    <3>1. CASE TenantDone(r)
      BY <1>1, <3>1 DEF TenantDone, Idling, DigestRunRecord, DigestPlaces
    <3>2. ASSUME NEW a \in digestRun[r].left,
                 \/ digestRun' = [digestRun EXCEPT ![r].left = @ \ {a}]
                 \/ digestRun' = [digestRun EXCEPT
                      ![r].left = @ \ {a}, ![r].to = {a}, ![r].at = "send"]
          PROVE  OK
      <4>1. a \in Addresses /\ "send" \in DigestPlaces
        BY <1>1 DEF DigestRunRecord, DigestPlaces
      <4>2. digestRun[r].at = "check" /\ \E x \in Listed : digestRun[r].row = {x}
        BY <2>3 DEF CheckRecipient, DigestAt, DigestInv, InHand
      <4> QED
        BY <1>1, <3>2, <4>1, <4>2 DEF DigestRunRecord
    <3> QED
      BY <2>3, <3>1, <3>2 DEF CheckRecipient
  <2>4. CASE ComposeFails(r) \/ DigestsAbort(r)
    <3>1. CASE ComposeFails(r)
      BY <1>1, <3>1 DEF ComposeFails, TenantDone, Idling, DigestRunRecord, DigestPlaces
    <3>2. CASE DigestsAbort(r)
      BY <1>1, <3>2, IdlingFacts DEF DigestsAbort, Idling
    <3> QED
      BY <2>4, <3>1, <3>2
  <2>5. CASE BuildDigestPayload(r) \/ SendDigest(r) \/ SendRefused(r) \/ LogSentFails(r)
    <3>1. PICK p \in {"check", "log", "refused"} :
            /\ DigestGoes(r, p)
            /\ p = "check" => digestRun[r].at = "compose"
            /\ p = "log" => digestRun[r].at = "send"
            /\ p = "refused" => digestRun[r].at \in {"send", "log"}
      BY <2>5
      DEF BuildDigestPayload, SendDigest, SendRefused, LogSentFails, DigestAt
    <3>2. p \in DigestPlaces
      BY DEF DigestPlaces
    <3>3. /\ digestRun' \in [DigestRuns -> DigestRunRecord]
          /\ \A z \in DigestRuns : z # r => digestRun'[z] = digestRun[z]
          /\ digestRun'[r].at = p
          /\ digestRun'[r].row = digestRun[r].row
          /\ digestRun'[r].to = digestRun[r].to
      BY <1>1, <3>1, <3>2 DEF DigestGoes, DigestRunRecord
    <3> QED
      BY <3>1, <3>3 DEF DigestInv, InHand
  <2>6. CASE LogSent(r) \/ LogFailed(r)
    BY <1>1, <2>6
    DEF LogSent, LogFailed, NextRecipient, DigestAt, DigestRunRecord, DigestPlaces,
        DigestInv, InHand
  <2> QED
    BY <2>1, <2>2, <2>3, <2>4, <2>5, <2>6 DEF DigestStep
<1>6. DigestsTypeOK'
  BY <1>2, <1>3, <1>4, <1>5
  DEF DigestInv, DigestTypes, DigestsTypeOK, DigestRunRecord, DigestPlaces
<1> QED
  BY <1>2, <1>5, <1>6 DEF DigestInv, DigestTypes, InHand

\* The console, the customer and the calendar.
LEMMA DigestsBesideTypes ==
  ASSUME DigestInv,
         \/ \E t \in DigestTenants :
              \/ OpenSettings(t) \/ SaveSettings(t) \/ TestFromPage(t)
              \/ ProcessUnsubscribe(t) \/ \E a \in Addresses : ReceiveDigests(t, a)
         \/ NextDigestDay
  PROVE  DigestInv'
<1>1. /\ settings \in [DigestTenants -> AnySettings]
      /\ receives \in [DigestTenants -> SUBSET Addresses]
      /\ digestForm \in [of : SUBSET DigestTenants, cadence : Cadences, day : Weekdays]
      /\ optedOut \subseteq DigestTenants
      /\ today \in 1 .. LastDay
  BY DEF DigestInv, DigestTypes, DigestsTypeOK
<1>2. UNCHANGED <<sentRows, accepted, digestRun, digestFaults>>
  BY DEF OpenSettings, SaveSettings, TestFromPage, ProcessUnsubscribe, ReceiveDigests,
     NextDigestDay
<1>3. settings' \in [DigestTenants -> AnySettings]
  <2>1. CASE \E t \in DigestTenants : SaveSettings(t)
    <3>1. PICK t \in DigestTenants, c \in Offered \cup {digestForm.cadence}, d \in Weekdays :
            settings' = [settings EXCEPT ![t] = [cadence |-> c, day |-> d]]
      BY <2>1 DEF SaveSettings
    <3>2. c \in Cadences
      BY <1>1, DigestsAssumption DEF Cadences
    <3> QED
      BY <1>1, <3>1, <3>2 DEF AnySettings
  <2>2. CASE \E t \in DigestTenants : TestFromPage(t) \/ ProcessUnsubscribe(t)
    BY <1>1, <2>2 DEF TestFromPage, ProcessUnsubscribe, AnySettings, Cadences
  <2>3. CASE UNCHANGED settings
    BY <1>1, <2>3
  <2> QED
    BY <2>1, <2>2, <2>3 DEF OpenSettings, ReceiveDigests, NextDigestDay
<1>4. receives' \in [DigestTenants -> SUBSET Addresses]
  <2>1. CASE \E t \in DigestTenants, a \in Addresses : ReceiveDigests(t, a)
    BY <1>1, <2>1 DEF ReceiveDigests
  <2>2. CASE UNCHANGED receives
    BY <1>1, <2>2
  <2> QED
    BY <2>1, <2>2
    DEF OpenSettings, SaveSettings, TestFromPage, ProcessUnsubscribe, NextDigestDay
<1>5. digestForm' \in [of : SUBSET DigestTenants, cadence : Cadences, day : Weekdays]
  <2>1. CASE \E t \in DigestTenants : OpenSettings(t)
    BY <1>1, <2>1 DEF OpenSettings, AnySettings
  <2>2. CASE digestForm' = Closed
    BY <2>2, DigestsAssumption DEF Closed, Cadences, Weekdays
  <2>3. CASE UNCHANGED digestForm
    BY <1>1, <2>3
  <2> QED
    BY <2>1, <2>2, <2>3
    DEF SaveSettings, TestFromPage, ProcessUnsubscribe, ReceiveDigests, NextDigestDay
<1>6. optedOut' \subseteq DigestTenants
  BY <1>1 DEF OpenSettings, SaveSettings, TestFromPage, ProcessUnsubscribe,
     ReceiveDigests, NextDigestDay
<1>7. today' \in 1 .. LastDay
  BY <1>1, DigestsAssumption
  DEF OpenSettings, SaveSettings, TestFromPage, ProcessUnsubscribe, ReceiveDigests,
      NextDigestDay
<1> QED
  BY <1>2, <1>3, <1>4, <1>5, <1>6, <1>7
  DEF DigestInv, DigestTypes, DigestsTypeOK, InHand

LEMMA DigestInvStep == DigestInv /\ [DigestsNext]_digestVars => DigestInv'
<1> SUFFICES ASSUME DigestInv, [DigestsNext]_digestVars PROVE DigestInv'
  OBVIOUS
<1>1. CASE UNCHANGED digestVars
  BY <1>1 DEF digestVars, DigestInv, DigestTypes, DigestsTypeOK, InHand
<1> QED
  BY <1>1, DigestRunTypes, DigestsBesideTypes DEF DigestsNext

\* The digests keep their types: the period a run mails for, the rows it writes
\* and the settings a page saves are ones the program knows (digest/send.ts,
\* period.ts, tenants/service.ts).
THEOREM DigestsTypes == DigestsSpec => []DigestsTypeOK
<1>1. DigestInv => DigestsTypeOK
  BY DEF DigestInv, DigestTypes
<1> QED
  BY <1>1, DigestsInitial, DigestInvStep, PTL DEF DigestsSpec

-----------------------------------------------------------------------------
(* Digests: runs that do not overlap.                                      *)

OneDigestRun == \A r, s \in DigestRuns : r = s

\* The digest in a run's hand has no row yet.
NoRowYet ==
  \A r \in DigestRuns : digestRun[r].at \in {"send", "log"} => Key(r) \notin sentRows

\* A digest that went out is accounted for by its row, by the run that is about
\* to write it, or by a mishap.
AboutToLog(k) == \E r \in DigestRuns : DigestAt(r, "log") /\ Key(r) = k
DigestsCounted ==
  \A k \in Keys :
    accepted[k] <= (IF k \in sentRows \/ AboutToLog(k) THEN 1 ELSE 0) + digestFaults

DigestCountInv == DigestInv /\ NoRowYet /\ DigestsCounted

LEMMA DigestNumbers ==
  ASSUME DigestInv
  PROVE  digestFaults \in Nat /\ \A k \in Keys : accepted[k] \in Nat
BY DigestsAssumption DEF DigestInv, DigestTypes, DigestsTypeOK

\* Steps that mail nothing and write no row: a run that leaves the place before
\* its row is a mishap.
LEMMA NothingMailed ==
  ASSUME DigestCountInv, DigestInv', UNCHANGED <<sentRows, accepted>>,
         digestFaults' \in {digestFaults, digestFaults + 1},
         \A r \in DigestRuns :
           /\ digestRun'[r].at \in {"send", "log"} => Key(r)' \notin sentRows
           /\ DigestAt(r, "log") => \/ DigestAt(r, "log")' /\ Key(r)' = Key(r)
                                    \/ digestFaults' = digestFaults + 1
  PROVE  DigestCountInv'
<1>1. NoRowYet'
  BY DEF NoRowYet
<1>2. DigestsCounted'
  <2> SUFFICES ASSUME NEW k \in Keys
               PROVE  accepted[k] <= (IF k \in sentRows \/ AboutToLog(k)' THEN 1 ELSE 0)
                                       + digestFaults'
    BY DEF DigestsCounted
  <2>1. AboutToLog(k) => AboutToLog(k)' \/ digestFaults' = digestFaults + 1
    BY DEF AboutToLog
  <2>2. accepted[k] <= (IF k \in sentRows \/ AboutToLog(k) THEN 1 ELSE 0) + digestFaults
    BY DEF DigestCountInv, DigestsCounted
  <2> QED
    BY <2>1, <2>2, DigestNumbers DEF DigestCountInv
<1> QED
  BY <1>1, <1>2 DEF DigestCountInv

LEMMA BackAtTenant ==
  ASSUME digestRun \in [DigestRuns -> DigestRunRecord], NEW r \in DigestRuns,
         \/ \E list : digestRun' = [digestRun EXCEPT ![r] =
                                      [Idling EXCEPT !.at = "tenant", !.tenants = list]]
         \/ digestRun' = [digestRun EXCEPT ![r] = Idling]
  PROVE  digestRun'[r].at \in {"idle", "tenant"}
<1>1. ASSUME NEW list
      PROVE  [Idling EXCEPT !.at = "tenant", !.tenants = list].at = "tenant"
  BY DEF Idling
<1>2. Idling.at = "idle"
  BY DEF Idling
<1> QED
  BY <1>1, <1>2

\* A run's place after each of its steps.
LEMMA RunMoves ==
  ASSUME DigestInv, NEW r \in DigestRuns,
         BeginDigests(r) \/ NextTenant(r) \/ BuildDigestPayload(r) \/ ComposeFails(r)
         \/ SendRefused(r) \/ LogSent(r) \/ LogFailed(r) \/ LogSentFails(r)
         \/ DigestsAbort(r)
  PROVE  digestRun'[r].at \notin {"send", "log"}
<1>1. digestRun \in [DigestRuns -> DigestRunRecord]
  BY DEF DigestInv, DigestTypes
<1>2. CASE BeginDigests(r) \/ ComposeFails(r) \/ DigestsAbort(r)
  <2>1. \/ \E list : digestRun' = [digestRun EXCEPT ![r] =
                                     [Idling EXCEPT !.at = "tenant", !.tenants = list]]
        \/ digestRun' = [digestRun EXCEPT ![r] = Idling]
    BY <1>2 DEF BeginDigests, ComposeFails, DigestsAbort, TenantDone
  <2> QED
    BY <1>1, <2>1, BackAtTenant
<1>3. CASE NextTenant(r)
  <2>1. CASE digestRun' = [digestRun EXCEPT ![r] = Idling]
    BY <1>1, <2>1, BackAtTenant
  <2>2. CASE \E row \in digestRun[r].tenants :
               digestRun' = [digestRun EXCEPT
                 ![r].tenants = @ \ {row}, ![r].row = {row}, ![r].at = "compose",
                 ![r].left = DigestRecipients(row.tenant)]
    BY <1>1, <2>2 DEF DigestRunRecord
  <2>3. CASE \E row \in digestRun[r].tenants :
               digestRun' = [digestRun EXCEPT ![r].tenants = @ \ {row}]
    <3>1. digestRun[r].at = "tenant"
      BY <1>3 DEF NextTenant, DigestAt
    <3>2. digestRun'[r].at = digestRun[r].at
      BY <1>1, <2>3 DEF DigestRunRecord
    <3> QED
      BY <3>1, <3>2
  <2> QED
    BY <1>3, <2>1, <2>2, <2>3 DEF NextTenant
<1>4. CASE BuildDigestPayload(r) \/ SendRefused(r) \/ LogSentFails(r)
  BY <1>1, <1>4
  DEF BuildDigestPayload, SendRefused, LogSentFails, DigestGoes, DigestRunRecord
<1>5. CASE LogSent(r) \/ LogFailed(r)
  BY <1>1, <1>5 DEF LogSent, LogFailed, NextRecipient, DigestRunRecord
<1> QED
  BY <1>2, <1>3, <1>4, <1>5

LEMMA CheckRecipientCounts ==
  ASSUME OneDigestRun, DigestCountInv, DigestInv', NEW r \in DigestRuns, CheckRecipient(r)
  PROVE  DigestCountInv'
<1>1. digestRun \in [DigestRuns -> DigestRunRecord]
  BY DEF DigestCountInv, DigestInv, DigestTypes
<1>2. UNCHANGED <<sentRows, accepted, digestFaults, today>> /\ ~DigestAt(r, "log")
  BY DEF CheckRecipient, DigestAt
<1>3. digestRun'[r].at \in {"send", "log"} => Key(r)' \notin sentRows
  <2>1. CASE TenantDone(r)
    BY <1>1, <2>1, BackAtTenant DEF TenantDone
  <2>2. ASSUME NEW a \in digestRun[r].left,
               digestRun' = [digestRun EXCEPT ![r].left = @ \ {a}]
        PROVE  digestRun'[r].at \notin {"send", "log"}
    <3>1. digestRun[r].at = "check"
      BY DEF CheckRecipient, DigestAt
    <3>2. digestRun'[r].at = digestRun[r].at
      BY <1>1, <2>2 DEF DigestRunRecord
    <3> QED
      BY <3>1, <3>2
  <2>3. ASSUME NEW a \in digestRun[r].left, KeyOf(r, a) \notin sentRows,
               digestRun' = [digestRun EXCEPT
                 ![r].left = @ \ {a}, ![r].to = {a}, ![r].at = "send"]
        PROVE  Key(r)' \notin sentRows
    <3>1. digestRun'[r].row = digestRun[r].row /\ digestRun'[r].to = {a}
      BY <1>1, <2>3 DEF DigestRunRecord
    <3>2. (CHOOSE b \in digestRun'[r].to : TRUE) = a
      BY <3>1
    <3>3. KeyOf(r, a)' = KeyOf(r, a)
      BY <1>2, <3>1 DEF KeyOf, PeriodsForDigest
    <3> QED
      BY <2>3, <3>2, <3>3 DEF Key, KeyOf, PeriodsForDigest
  <2> QED
    BY <2>1, <2>2, <2>3 DEF CheckRecipient
<1> QED
  BY <1>2, <1>3, NothingMailed DEF OneDigestRun

LEMMA SendDigestCounts ==
  ASSUME OneDigestRun, DigestCountInv, DigestInv', NEW r \in DigestRuns, SendDigest(r)
  PROVE  DigestCountInv'
<1>1. /\ digestRun \in [DigestRuns -> DigestRunRecord]
      /\ accepted \in [Keys -> Nat]
  BY DEF DigestCountInv, DigestInv, DigestTypes, DigestsTypeOK
<1>2. /\ UNCHANGED <<sentRows, digestFaults, today>> /\ ~DigestAt(r, "log")
      /\ accepted' = [accepted EXCEPT ![Key(r)] = @ + 1]
      /\ Key(r) \in Keys /\ Key(r) \notin sentRows
  BY ChosenAddress DEF SendDigest, DigestAt, DigestCountInv, NoRowYet
<1>3. /\ digestRun'[r].at = "log"
      /\ digestRun'[r].row = digestRun[r].row /\ digestRun'[r].to = digestRun[r].to
  BY <1>1 DEF SendDigest, DigestGoes, DigestRunRecord
<1>4. Key(r)' = Key(r)
  BY <1>2, <1>3 DEF Key, KeyOf, PeriodsForDigest
<1>5. NoRowYet'
  BY <1>2, <1>4 DEF NoRowYet, OneDigestRun
<1>6. DigestsCounted'
  <2> SUFFICES ASSUME NEW k \in Keys
               PROVE  accepted'[k] <= (IF k \in sentRows \/ AboutToLog(k)' THEN 1 ELSE 0)
                                        + digestFaults
    BY <1>2 DEF DigestsCounted
  <2>1. ~AboutToLog(k)
    BY <1>2 DEF AboutToLog, OneDigestRun
  <2>2. accepted[k] <= (IF k \in sentRows THEN 1 ELSE 0) + digestFaults
    BY <2>1 DEF DigestCountInv, DigestsCounted
  <2>3. accepted[k] \in Nat /\ digestFaults \in Nat
    BY DigestNumbers DEF DigestCountInv
  <2>4. CASE k = Key(r)
    <3>1. AboutToLog(k)' /\ accepted'[k] = accepted[k] + 1
      BY <1>1, <1>2, <1>3, <1>4, <2>4 DEF AboutToLog, DigestAt
    <3> QED
      BY <1>2, <2>2, <2>3, <2>4, <3>1
  <2>5. CASE k # Key(r)
    <3>1. accepted'[k] = accepted[k]
      BY <1>1, <1>2, <2>5
    <3> QED
      BY <2>2, <2>3, <3>1
  <2> QED
    BY <2>4, <2>5
<1> QED
  BY <1>5, <1>6 DEF DigestCountInv

LEMMA LogSentCounts ==
  ASSUME OneDigestRun, DigestCountInv, DigestInv', NEW r \in DigestRuns, LogSent(r)
  PROVE  DigestCountInv'
<1>1. digestRun'[r].at \notin {"send", "log"}
  BY RunMoves DEF DigestCountInv
<1>2. UNCHANGED <<accepted, digestFaults>> /\ sentRows' = sentRows \cup {Key(r)}
  BY DEF LogSent
<1>3. NoRowYet'
  BY <1>1 DEF NoRowYet, OneDigestRun
<1>4. DigestsCounted'
  <2> SUFFICES ASSUME NEW k \in Keys
               PROVE  accepted[k] <= (IF k \in sentRows' \/ AboutToLog(k)' THEN 1 ELSE 0)
                                       + digestFaults
    BY <1>2 DEF DigestsCounted
  <2>1. k \in sentRows \/ AboutToLog(k) => k \in sentRows'
    BY <1>2 DEF AboutToLog, OneDigestRun
  <2>2. accepted[k] \in Nat /\ digestFaults \in Nat
    BY DigestNumbers DEF DigestCountInv
  <2> QED
    BY <2>1, <2>2 DEF DigestCountInv, DigestsCounted
<1> QED
  BY <1>3, <1>4 DEF DigestCountInv

\* Every other step mails nothing.
LEMMA OtherStepsMailNothing ==
  ASSUME OneDigestRun, DigestCountInv, DigestInv',
         \/ \E r \in DigestRuns :
              BeginDigests(r) \/ NextTenant(r) \/ BuildDigestPayload(r) \/ ComposeFails(r)
              \/ SendRefused(r) \/ LogFailed(r) \/ LogSentFails(r) \/ DigestsAbort(r)
         \/ \E t \in DigestTenants :
              \/ OpenSettings(t) \/ SaveSettings(t) \/ TestFromPage(t)
              \/ ProcessUnsubscribe(t) \/ \E a \in Addresses : ReceiveDigests(t, a)
         \/ NextDigestDay \/ UNCHANGED digestVars
  PROVE  DigestCountInv'
<1>1. CASE \E r \in DigestRuns :
             BeginDigests(r) \/ NextTenant(r) \/ BuildDigestPayload(r) \/ ComposeFails(r)
             \/ SendRefused(r) \/ LogFailed(r) \/ LogSentFails(r) \/ DigestsAbort(r)
  <2>1. PICK r \in DigestRuns :
             BeginDigests(r) \/ NextTenant(r) \/ BuildDigestPayload(r) \/ ComposeFails(r)
             \/ SendRefused(r) \/ LogFailed(r) \/ LogSentFails(r) \/ DigestsAbort(r)
    BY <1>1
  <2>2. digestRun'[r].at \notin {"send", "log"}
    BY <2>1, RunMoves DEF DigestCountInv
  <2>3. /\ UNCHANGED <<sentRows, accepted>>
        /\ digestFaults' \in {digestFaults, digestFaults + 1}
        /\ DigestAt(r, "log") => digestFaults' = digestFaults + 1
    BY <2>1 DEF BeginDigests, NextTenant, BuildDigestPayload, ComposeFails, SendRefused,
       LogFailed, LogSentFails, DigestsAbort, DigestAt
  <2> QED
    BY <2>2, <2>3, NothingMailed DEF OneDigestRun
<1>2. CASE \/ \E t \in DigestTenants :
                \/ OpenSettings(t) \/ SaveSettings(t) \/ TestFromPage(t)
                \/ ProcessUnsubscribe(t) \/ \E a \in Addresses : ReceiveDigests(t, a)
           \/ UNCHANGED digestVars
  <2>1. UNCHANGED <<sentRows, accepted, digestFaults, digestRun, today>>
    BY <1>2 DEF OpenSettings, SaveSettings, TestFromPage, ProcessUnsubscribe,
       ReceiveDigests, digestVars
  <2>2. \A r \in DigestRuns : Key(r)' = Key(r) /\ DigestAt(r, "log")' = DigestAt(r, "log")
    BY <2>1 DEF Key, KeyOf, PeriodsForDigest, DigestAt
  <2> QED
    BY <2>1, <2>2, NothingMailed DEF DigestCountInv, NoRowYet
<1>3. CASE NextDigestDay
  <2>1. /\ UNCHANGED <<sentRows, accepted, digestFaults, digestRun>>
        /\ \A r \in DigestRuns : digestRun[r].at = "idle"
    BY <1>3 DEF NextDigestDay, DigestAt
  <2> QED
    BY <2>1, NothingMailed DEF DigestAt
<1> QED
  BY <1>1, <1>2, <1>3

\* Runs that do not overlap mail an address once a period, and once more for each
\* mishap, whatever the settings and the contacts are changed to (send.ts).
THEOREM DigestsAreBounded ==
  ASSUME OneDigestRun PROVE DigestsSpec => []DigestsBounded
<1>1. DigestsInit => DigestCountInv
  BY DigestsInitial
  DEF DigestsInit, DigestCountInv, NoRowYet, DigestsCounted, Idling
<1>2. DigestCountInv /\ [DigestsNext]_digestVars => DigestCountInv'
  <2> SUFFICES ASSUME DigestCountInv, [DigestsNext]_digestVars PROVE DigestCountInv'
    OBVIOUS
  <2>1. DigestInv'
    BY DigestInvStep DEF DigestCountInv
  <2> QED
    BY <2>1, CheckRecipientCounts, SendDigestCounts, LogSentCounts, OtherStepsMailNothing
    DEF DigestsNext, DigestStep
<1>3. DigestCountInv => DigestsBounded
  <2>1. ASSUME DigestCountInv, NEW k \in Keys PROVE accepted[k] <= 1 + digestFaults
    BY <2>1, DigestNumbers DEF DigestCountInv, DigestsCounted
  <2> QED
    BY <2>1 DEF DigestsBounded
<1> QED
  BY <1>1, <1>2, <1>3, PTL DEF DigestsSpec

-----------------------------------------------------------------------------
(* Alerts: types.                                                          *)

PollPlaces == {"idle", "probe", "store", "evaluate", "signals", "open", "resolve", "tell"}
PollRecord ==
  [at : PollPlaces, recent : Seq(SUBSET Signals), found : SUBSET Signals,
   left : SUBSET Signals, of : SUBSET Signals, event : Events]

\* A poll that changes or tells an alert has that one signal in hand.
OneInHand ==
  \A p \in Polls : poll[p].at \in {"open", "resolve", "tell"} =>
    \E s \in Signals : poll[p].of = {s}

\* Only warnings are queued.
OnlyWarnings == \A i \in 1 .. Len(queue) : queue[i].signal \notin Critical

AlertInv ==
  /\ AlertsTypeOK
  /\ poll \in [Polls -> PollRecord]
  /\ warning \in [at : {"idle", "send", "mark", "refused"}, rows : Nat]
  /\ OneInHand
  /\ OnlyWarnings

\* The rows a digest has read, and those behind them.
LEMMA QueueParts ==
  ASSUME AlertInv
  PROVE  /\ queue \in Seq(Rows) /\ warning.rows \in Nat /\ warning.rows <= Len(queue)
         /\ RowsRead \in Seq(Rows) /\ Len(RowsRead) = warning.rows
         /\ \A i \in 1 .. warning.rows : RowsRead[i] = queue[i]
         /\ RowsBehind \in Seq(Rows) /\ Len(RowsBehind) = Len(queue) - warning.rows
         /\ \A i \in 1 .. Len(queue) - warning.rows :
              RowsBehind[i] = queue[warning.rows + i]
<1> DEFINE n == warning.rows
           m == Len(queue)
<1>1. /\ queue \in Seq(Rows) /\ n \in Nat /\ m \in Nat /\ n <= m
      /\ \A i \in 1 .. m : queue[i] \in Rows
  BY DEF AlertInv, AlertsTypeOK
<1> HIDE DEF n, m
<1>2. /\ \A i \in 1 .. n : queue[i] \in Rows
      /\ \A i \in n + 1 .. m : queue[i] \in Rows
  BY <1>1
<1>3. /\ SubSeq(queue, 1, n) \in Seq(Rows)
      /\ Len(SubSeq(queue, 1, n)) = IF 1 <= n THEN n - 1 + 1 ELSE 0
      /\ \A i \in 1 .. n - 1 + 1 : SubSeq(queue, 1, n)[i] = queue[1 + i - 1]
  BY <1>1, <1>2, SubSeqProperties
<1>4. /\ SubSeq(queue, n + 1, m) \in Seq(Rows)
      /\ Len(SubSeq(queue, n + 1, m)) = IF n + 1 <= m THEN m - (n + 1) + 1 ELSE 0
      /\ \A i \in 1 .. m - (n + 1) + 1 :
           SubSeq(queue, n + 1, m)[i] = queue[n + 1 + i - 1]
  <2>1. n + 1 \in Int /\ m \in Int
    BY <1>1
  <2> QED
    BY <1>2, <2>1, SubSeqProperties
<1>5. RowsRead = SubSeq(queue, 1, n) /\ RowsBehind = SubSeq(queue, n + 1, m)
  BY DEF RowsRead, RowsBehind, n, m
<1>6. /\ Len(RowsRead) = n /\ \A i \in 1 .. n : RowsRead[i] = queue[i]
      /\ Len(RowsBehind) = m - n
      /\ \A i \in 1 .. m - n : RowsBehind[i] = queue[n + i]
  <2>1. ASSUME NEW i \in 1 .. n PROVE i \in 1 .. n - 1 + 1 /\ 1 + i - 1 = i
    BY <1>1
  <2>2. ASSUME NEW i \in 1 .. m - n
        PROVE  i \in 1 .. m - (n + 1) + 1 /\ n + 1 + i - 1 = n + i
    BY <1>1
  <2>3. \A i \in 1 .. n : SubSeq(queue, 1, n)[i] = queue[i]
    BY <1>3, <2>1
  <2>4. \A i \in 1 .. m - n : SubSeq(queue, n + 1, m)[i] = queue[n + i]
    BY <1>4, <2>2
  <2>5. /\ (IF 1 <= n THEN n - 1 + 1 ELSE 0) = n
        /\ (IF n + 1 <= m THEN m - (n + 1) + 1 ELSE 0) = m - n
    BY <1>1
  <2> QED
    BY <1>3, <1>4, <1>5, <2>3, <2>4, <2>5
<1> QED
  BY <1>1, <1>3, <1>4, <1>5, <1>6 DEF n, m

LEMMA RowAppended ==
  ASSUME NEW rows \in Seq(Rows), NEW row \in Rows
  PROVE  /\ Append(rows, row) \in Seq(Rows) /\ Len(Append(rows, row)) = Len(rows) + 1
         /\ Append(rows, row)[Len(rows) + 1] = row
         /\ \A i \in 1 .. Len(rows) : Append(rows, row)[i] = rows[i]
OBVIOUS

LEMMA LongestIsANumber == Longest \in Nat \ {0}
<1>1. PICK s \in Signals : \A t \in Signals : Consecutive[t] <= Consecutive[s]
  BY AlertsAssumption
<1>2. Consecutive[s] \in {Consecutive[t] : t \in Signals}
  OBVIOUS
<1>3. Longest \in {Consecutive[t] : t \in Signals}
  BY <1>1, <1>2 DEF Longest
<1> QED
  BY <1>3, AlertsAssumption

\* The checks that are kept are fewer than the longest window.
LEMMA KeptFacts ==
  ASSUME NEW all \in Seq(SUBSET Signals)
  PROVE  Kept(all) \in Seq(SUBSET Signals) /\ Len(Kept(all)) < Longest
<1> DEFINE n == IF Len(all) < Longest THEN Len(all) ELSE Longest - 1
<1>1. n \in Nat /\ n <= Len(all) /\ n < Longest
  BY LongestIsANumber
<1>2. Kept(all) = SubSeq(all, 1, n)
  BY DEF Kept
<1> HIDE DEF n
<1>3. \A i \in 1 .. n : all[i] \in SUBSET Signals
  BY <1>1
<1>4. /\ SubSeq(all, 1, n) \in Seq(SUBSET Signals)
      /\ Len(SubSeq(all, 1, n)) = IF 1 <= n THEN n - 1 + 1 ELSE 0
  BY <1>1, <1>3, SubSeqProperties
<1> QED
  BY <1>1, <1>2, <1>4

LEMMA OffFacts == Off \in PollRecord /\ Off.at = "idle"
BY DEF Off, PollRecord, PollPlaces, Events

LEMMA AlertsInitial == AlertsInit => AlertInv
<1> SUFFICES ASSUME AlertsInit PROVE AlertInv
  OBVIOUS
<1>1. checks \in Seq(SUBSET Signals) /\ Len(checks) < Longest
  BY LongestIsANumber DEF AlertsInit
<1>2. turns \in 0 .. MaxTurns /\ alertFaults \in 0 .. MaxAlertFaults
  BY AlertsAssumption DEF AlertsInit
<1>3. queue \in Seq(Rows) /\ Len(queue) = 0 /\ warning.at = "idle" /\ warning.rows = 0
  BY DEF AlertsInit, NoDigest
<1>4. \A p \in Polls : /\ poll[p].at = "idle" /\ poll[p].left = {}
                       /\ poll[p].of = {} /\ poll[p].event = "nothing"
  BY DEF AlertsInit, Off
<1>5. AlertsTypeOK
  <2>1. /\ trouble \subseteq Signals /\ untold \subseteq Signals
        /\ shopActive \in BOOLEAN /\ maintenance \in BOOLEAN
        /\ alerts \in [Signals -> [open : BOOLEAN, cooling : BOOLEAN]]
        /\ told \in [Signals -> Events]
    BY DEF AlertsInit, Events
  <2>2. /\ warning.at \in {"idle", "send", "mark", "refused"}
        /\ warning.rows \in 0 .. Len(queue)
    BY <1>3
  <2>3. \A p \in Polls :
          /\ poll[p].at \in {"idle", "probe", "store", "evaluate", "signals",
                             "open", "resolve", "tell"}
          /\ poll[p].left \subseteq Signals /\ poll[p].of \subseteq Signals
          /\ poll[p].event \in Events
    BY <1>4 DEF Events
  <2> QED
    BY <1>1, <1>2, <1>3, <2>1, <2>2, <2>3 DEF AlertsTypeOK
<1> QED
  <2>1. OnlyWarnings
    BY <1>3 DEF OnlyWarnings
  <2>2. warning \in [at : {"idle", "send", "mark", "refused"}, rows : Nat]
    BY DEF AlertsInit, NoDigest
  <2>3. poll \in [Polls -> PollRecord] /\ OneInHand
    BY OffFacts DEF AlertsInit, OneInHand
  <2> QED
    BY <1>5, <2>1, <2>2, <2>3 DEF AlertInv

\* Where a poll goes, what it has in hand there, and that it keeps its type.
LEMMA PollTypes ==
  ASSUME AlertInv, NEW p \in Polls, BeginPoll(p) \/ PollStep(p) \/ PollFails(p)
  PROVE  /\ poll' \in [Polls -> PollRecord]
         /\ \A q \in Polls : q # p => poll'[q] = poll[q]
         /\ poll'[p].at \in {"open", "resolve", "tell"} =>
              \E s \in Signals : poll'[p].of = {s}
<1>1. /\ poll \in [Polls -> PollRecord]
      /\ checks \in Seq(SUBSET Signals) /\ trouble \subseteq Signals
  BY DEF AlertInv, AlertsTypeOK
<1>2. CASE PollEnds(p)
  BY <1>1, <1>2, OffFacts DEF PollEnds
<1>3. CASE BeginPoll(p)
  <2>1. /\ [Off EXCEPT !.at = "probe", !.recent = checks] \in PollRecord
        /\ [Off EXCEPT !.at = "probe", !.recent = checks].at = "probe"
    BY <1>1 DEF Off, PollRecord, PollPlaces, Events
  <2> QED
    BY <1>1, <1>3, <2>1 DEF BeginPoll
<1>4. CASE PollTenant(p)
  <2>1. "store" \in PollPlaces
    BY DEF PollPlaces
  <2> QED
    BY <1>1, <1>4, <2>1 DEF PollTenant, PollRecord
<1>5. CASE StoreHealthCheck(p)
  <2>1. "evaluate" \in PollPlaces
    BY DEF PollPlaces
  <2> QED
    BY <1>1, <1>5, <2>1 DEF StoreHealthCheck, PollGoes, PollRecord
<1>6. CASE poll' = [poll EXCEPT ![p].at = "signals", ![p].left = Signals]
  <2>1. "signals" \in PollPlaces
    BY DEF PollPlaces
  <2> QED
    BY <1>1, <1>6, <2>1 DEF PollRecord
<1>7. CASE \E s \in Signals : ApplyOneSignal(p, s)
  <2>1. PICK s \in Signals, do \in {"signals", "open", "resolve"} :
          poll' = [poll EXCEPT ![p].at = do,
                               ![p].left = @ \ {s},
                               ![p].of = IF do = "signals" THEN {} ELSE {s}]
    BY <1>7 DEF ApplyOneSignal
  <2> DEFINE inHand == IF do = "signals" THEN {} ELSE {s}
  <2>2. /\ do \in PollPlaces /\ inHand \in SUBSET Signals
        /\ do # "signals" => inHand = {s}
    BY DEF PollPlaces
  <2>3. poll' = [poll EXCEPT ![p].at = do, ![p].left = @ \ {s}, ![p].of = inHand]
    BY <2>1
  <2> HIDE DEF inHand
  <2> QED
    BY <1>1, <2>2, <2>3 DEF PollRecord
<1>8. CASE ChangeAlert(p)
  <2>1. PICK e \in Events : poll' = [poll EXCEPT ![p].at = "tell", ![p].event = e]
    BY <1>8 DEF ChangeAlert, Events
  <2>2. "tell" \in PollPlaces /\ \E s \in Signals : poll[p].of = {s}
    BY <1>8 DEF PollPlaces, ChangeAlert, AlertInv, OneInHand
  <2> QED
    BY <1>1, <2>1, <2>2 DEF PollRecord
<1>9. CASE DispatchAlert(p)
  <2>1. poll' = [poll EXCEPT ![p].at = "signals", ![p].of = {}, ![p].event = "nothing"]
    BY <1>9 DEF DispatchAlert
  <2>2. "signals" \in PollPlaces /\ "nothing" \in Events
    BY DEF PollPlaces, Events
  <2> QED
    BY <1>1, <2>1, <2>2 DEF PollRecord
<1> QED
  BY <1>2, <1>3, <1>4, <1>5, <1>6, <1>7, <1>8, <1>9
  DEF PollStep, ApplySignals, SignalsDone, PollFails

LEMMA PollRunTypes ==
  ASSUME AlertInv, NEW p \in Polls, BeginPoll(p) \/ PollStep(p) \/ PollFails(p)
  PROVE  AlertInv'
<1>1. /\ poll' \in [Polls -> PollRecord]
      /\ \A q \in Polls : q # p => poll'[q] = poll[q]
      /\ poll'[p].at \in {"open", "resolve", "tell"} =>
           \E s \in Signals : poll'[p].of = {s}
  BY PollTypes
<1>2. OneInHand'
  BY <1>1 DEF AlertInv, OneInHand
<1>3. /\ poll \in [Polls -> PollRecord]
      /\ checks \in Seq(SUBSET Signals) /\ Len(checks) < Longest
      /\ alerts \in [Signals -> [open : BOOLEAN, cooling : BOOLEAN]]
      /\ told \in [Signals -> Events] /\ untold \subseteq Signals
      /\ queue \in Seq(Rows) /\ warning.rows \in 0 .. Len(queue)
      /\ alertFaults \in 0 .. MaxAlertFaults
  BY DEF AlertInv, AlertsTypeOK
<1>4. UNCHANGED <<trouble, shopActive, maintenance, warning, turns>>
  BY DEF BeginPoll, PollStep, PollTenant, StoreHealthCheck, ApplySignals, ApplyOneSignal,
     SignalsDone, ChangeAlert, DispatchAlert, PollFails
<1>5. checks' \in Seq(SUBSET Signals) /\ Len(checks') < Longest
  <2>1. CASE StoreHealthCheck(p)
    <3>1. <<poll[p].found>> \o checks \in Seq(SUBSET Signals)
      BY <1>3 DEF PollRecord
    <3> QED
      BY <2>1, <3>1, KeptFacts DEF StoreHealthCheck
  <2>2. CASE UNCHANGED checks
    BY <1>3, <2>2
  <2> QED
    BY <2>1, <2>2
    DEF BeginPoll, PollStep, PollTenant, ApplySignals, ApplyOneSignal, SignalsDone,
        ChangeAlert, DispatchAlert, PollFails
<1>6. alerts' \in [Signals -> [open : BOOLEAN, cooling : BOOLEAN]]
  <2>1. CASE ChangeAlert(p)
    <3> DEFINE row == [open |-> PollAt(p, "open"), cooling |-> TRUE]
    <3>1. row \in [open : BOOLEAN, cooling : BOOLEAN]
      BY DEF PollAt
    <3>2. PICK s \in poll[p].of : alerts' = [alerts EXCEPT ![s] = row]
      BY <2>1 DEF ChangeAlert
    <3> HIDE DEF row
    <3> QED
      BY <1>3, <3>1, <3>2, Zenon
  <2>2. CASE UNCHANGED alerts
    BY <1>3, <2>2
  <2> QED
    BY <2>1, <2>2
    DEF BeginPoll, PollStep, PollTenant, StoreHealthCheck, ApplySignals, ApplyOneSignal,
        SignalsDone, DispatchAlert, PollFails
<1>7. /\ told' \in [Signals -> Events] /\ untold' \subseteq Signals
      /\ queue' \in Seq(Rows) /\ warning.rows \in 0 .. Len(queue')
  <2>1. CASE DispatchAlert(p)
    <3>1. poll[p].event \in Events
      BY <1>3 DEF PollRecord
    <3>2. PICK s \in poll[p].of :
            /\ told' = [told EXCEPT ![s] = poll[p].event] \/ told' = told
            /\ untold' = untold \cup {s} \/ untold' = untold
            /\ \/ queue' = queue
               \/ queue' = Append(queue, [signal |-> s, event |-> poll[p].event])
      BY <2>1 DEF DispatchAlert
    <3>3. s \in Signals
      BY <1>3 DEF PollRecord
    <3> DEFINE row == [signal |-> s, event |-> poll[p].event]
    <3>4. row \in Rows
      BY <3>1, <3>3 DEF Rows
    <3>5. queue' = queue \/ queue' = Append(queue, row)
      BY <3>2
    <3> HIDE DEF row
    <3>6. /\ queue' \in Seq(Rows)
          /\ Len(queue') = Len(queue) \/ Len(queue') = Len(queue) + 1
      BY <1>3, <3>4, <3>5, RowAppended
    <3>7. warning.rows \in 0 .. Len(queue')
      BY <1>3, <3>6
    <3>8. told' \in [Signals -> Events] /\ untold' \subseteq Signals
      BY <1>3, <3>1, <3>2, <3>3
    <3> QED
      BY <3>6, <3>7, <3>8
  <2>2. CASE ChangeAlert(p) \/ PollFails(p)
    BY <1>3, <2>2 DEF ChangeAlert, PollFails, PollRecord
  <2>3. CASE UNCHANGED <<told, untold, queue>>
    BY <1>3, <2>3
  <2> QED
    BY <2>1, <2>2, <2>3
    DEF BeginPoll, PollStep, PollTenant, StoreHealthCheck, ApplySignals, ApplyOneSignal,
        SignalsDone
<1>8. alertFaults' \in 0 .. MaxAlertFaults
  <2>1. \/ alertFaults' = alertFaults
        \/ alertFaults < MaxAlertFaults /\ alertFaults' = alertFaults + 1
    BY DEF BeginPoll, PollStep, PollTenant, StoreHealthCheck, ApplySignals,
       ApplyOneSignal, SignalsDone, ChangeAlert, DispatchAlert, PollFails
  <2> QED
    BY <1>3, <2>1, AlertsAssumption
<1>9. AlertsTypeOK'
  BY <1>1, <1>4, <1>5, <1>6, <1>7, <1>8
  DEF AlertInv, AlertsTypeOK, PollRecord, PollPlaces
<1>10. OnlyWarnings'
  <2>1. CASE DispatchAlert(p)
    <3>1. PICK s \in poll[p].of :
            \/ queue' = queue
            \/ /\ s \notin Critical
               /\ queue' = Append(queue, [signal |-> s, event |-> poll[p].event])
      BY <2>1 DEF DispatchAlert
    <3>2. s \in Signals /\ poll[p].event \in Events
      BY <1>3 DEF PollRecord
    <3> DEFINE row == [signal |-> s, event |-> poll[p].event]
    <3>3. row \in Rows /\ row.signal = s
      BY <3>2 DEF Rows
    <3>4. queue' = queue \/ (s \notin Critical /\ queue' = Append(queue, row))
      BY <3>1
    <3> HIDE DEF row
    <3>5. CASE queue' = queue
      BY <3>5 DEF AlertInv, OnlyWarnings
    <3>6. CASE s \notin Critical /\ queue' = Append(queue, row)
      <4>1. queue \in Seq(Rows) /\ Len(queue) \in Nat
        BY <1>3
      <4>2. /\ Len(queue') = Len(queue) + 1 /\ queue'[Len(queue) + 1].signal = s
            /\ \A i \in 1 .. Len(queue) : queue'[i] = queue[i]
        BY <3>3, <3>6, <4>1, RowAppended
      <4>3. SUFFICES ASSUME NEW i \in 1 .. Len(queue')
                     PROVE  queue'[i].signal \notin Critical
        BY DEF OnlyWarnings
      <4>4. i \in 1 .. Len(queue) \/ i = Len(queue) + 1
        BY <4>1, <4>2
      <4> QED
        BY <3>6, <4>2, <4>4 DEF AlertInv, OnlyWarnings
    <3> QED
      BY <3>4, <3>5, <3>6
  <2>2. CASE UNCHANGED queue
    BY <2>2 DEF AlertInv, OnlyWarnings
  <2> QED
    BY <2>1, <2>2
    DEF BeginPoll, PollStep, PollTenant, StoreHealthCheck, ApplySignals, ApplyOneSignal,
        SignalsDone, ChangeAlert, PollFails
<1> QED
  BY <1>1, <1>2, <1>4, <1>9, <1>10 DEF AlertInv

LEMMA AlertsBesideTypes ==
  ASSUME AlertInv,
         \/ ReadQueue \/ SendWarnings \/ MarkSent \/ WarningsAbort
         \/ \E s \in Signals : TroubleTurns(s) \/ CooldownEnds(s)
         \/ Silence \/ SuspendShop \/ UnsuspendShop \/ WindowEnds
  PROVE  AlertInv'
<1>1. UNCHANGED <<checks, poll>>
  BY DEF ReadQueue, SendWarnings, MarkSent, WarningsAbort, TroubleTurns, CooldownEnds,
     Silence, SuspendShop, UnsuspendShop, WindowEnds
<1>2. /\ alerts \in [Signals -> [open : BOOLEAN, cooling : BOOLEAN]]
      /\ trouble \subseteq Signals /\ untold \subseteq Signals
      /\ shopActive \in BOOLEAN /\ maintenance \in BOOLEAN
      /\ turns \in 0 .. MaxTurns /\ alertFaults \in 0 .. MaxAlertFaults
      /\ told \in [Signals -> Events]
      /\ queue \in Seq(Rows) /\ warning.rows \in 0 .. Len(queue)
      /\ warning \in [at : {"idle", "send", "mark", "refused"}, rows : Nat]
  BY DEF AlertInv, AlertsTypeOK
<1>3. alerts' \in [Signals -> [open : BOOLEAN, cooling : BOOLEAN]]
  <2>1. CASE SuspendShop
    <3>1. \A s \in Signals : [alerts[s] EXCEPT !.open = FALSE]
                               \in [open : BOOLEAN, cooling : BOOLEAN]
      BY <1>2
    <3> QED
      BY <2>1, <3>1 DEF SuspendShop
  <2>2. CASE \E s \in Signals : CooldownEnds(s)
    BY <1>2, <2>2 DEF CooldownEnds
  <2>3. CASE UNCHANGED alerts
    BY <1>2, <2>3
  <2> QED
    BY <2>1, <2>2, <2>3
    DEF ReadQueue, SendWarnings, MarkSent, WarningsAbort, TroubleTurns, Silence,
        UnsuspendShop, WindowEnds
<1>4. turns' \in 0 .. MaxTurns /\ alertFaults' \in 0 .. MaxAlertFaults
  <2>1. /\ turns' = turns \/ (turns < MaxTurns /\ turns' = turns + 1)
        /\ \/ alertFaults' = alertFaults
           \/ alertFaults < MaxAlertFaults /\ alertFaults' = alertFaults + 1
    BY DEF ReadQueue, SendWarnings, MarkSent, WarningsAbort, TroubleTurns, CooldownEnds,
       Silence, SuspendShop, UnsuspendShop, WindowEnds, Turn
  <2> QED
    BY <1>2, <2>1, AlertsAssumption
<1>5. /\ queue' \in Seq(Rows) /\ warning'.rows \in 0 .. Len(queue')
      /\ warning' \in [at : {"idle", "send", "mark", "refused"}, rows : Nat]
  <2>1. CASE ReadQueue
    BY <1>2, <2>1 DEF ReadQueue
  <2>2. CASE SendWarnings
    <3>1. PICK place \in {"mark", "refused"} : warning' = [warning EXCEPT !.at = place]
      BY <2>2 DEF SendWarnings
    <3> QED
      BY <1>2, <2>2, <3>1 DEF SendWarnings
  <2>3. CASE MarkSent
    BY <2>3, QueueParts DEF MarkSent, NoDigest
  <2>4. CASE WarningsAbort
    BY <1>2, <2>4 DEF WarningsAbort, NoDigest
  <2>5. CASE UNCHANGED <<queue, warning>>
    BY <1>2, <2>5
  <2> QED
    BY <2>1, <2>2, <2>3, <2>4, <2>5
    DEF TroubleTurns, CooldownEnds, Silence, SuspendShop, UnsuspendShop, WindowEnds
<1>6. /\ trouble' \subseteq Signals /\ untold' \subseteq Signals
      /\ shopActive' \in BOOLEAN /\ maintenance' \in BOOLEAN
      /\ told' \in [Signals -> Events]
  BY <1>2 DEF ReadQueue, SendWarnings, MarkSent, WarningsAbort, TroubleTurns,
     CooldownEnds, Silence, SuspendShop, UnsuspendShop, WindowEnds
<1>7. AlertsTypeOK'
  BY <1>1, <1>3, <1>4, <1>5, <1>6 DEF AlertInv, AlertsTypeOK
<1>8. OnlyWarnings'
  <2>1. CASE MarkSent
    <3>1. \A i \in 1 .. Len(queue) - warning.rows : warning.rows + i \in 1 .. Len(queue)
      BY QueueParts
    <3> QED
      BY <2>1, <3>1, QueueParts DEF MarkSent, AlertInv, OnlyWarnings
  <2>2. CASE UNCHANGED queue
    BY <2>2 DEF AlertInv, OnlyWarnings
  <2> QED
    BY <2>1, <2>2
    DEF ReadQueue, SendWarnings, WarningsAbort, TroubleTurns, CooldownEnds, Silence,
        SuspendShop, UnsuspendShop, WindowEnds
<1> QED
  BY <1>1, <1>5, <1>7, <1>8 DEF AlertInv, OneInHand

LEMMA AlertInvStep == AlertInv /\ [AlertsNext]_alertVars => AlertInv'
<1> SUFFICES ASSUME AlertInv, [AlertsNext]_alertVars PROVE AlertInv'
  OBVIOUS
<1>1. CASE UNCHANGED alertVars
  BY <1>1 DEF alertVars, AlertInv, AlertsTypeOK, OneInHand, OnlyWarnings
<1> QED
  BY <1>1, PollRunTypes, AlertsBesideTypes DEF AlertsNext

\* The alerts keep their types; the stored checks stay fewer than the longest
\* window of any signal, so that with the current one they fill it (poller.ts).
THEOREM AlertsTypes == AlertsSpec => []AlertsTypeOK
<1>1. AlertInv => AlertsTypeOK
  BY DEF AlertInv
<1> QED
  BY <1>1, AlertsInitial, AlertInvStep, PTL DEF AlertsSpec

-----------------------------------------------------------------------------
(* Alerts: polls that do not overlap.                                      *)

OnePoll == \A p, q \in Polls : p = q

\* What a poll is about to tell is what the alert became, or closed since.
TellsTheChange ==
  \A p \in Polls : PollAt(p, "tell") =>
    /\ poll[p].event \in {"opened", "recovered"}
    /\ \A s \in poll[p].of \ untold : poll[p].event = "opened" <=> alerts[s].open

\* The rows that a channel took and that are not marked yet.
Sent == IF warning.at = "mark" THEN warning.rows ELSE 0

\* The newest row of a signal says what its alert is; and with no row behind those
\* a channel took, the operator knows.
TellsItsState ==
  \A s \in Signals \ untold : ~Telling(s) =>
    /\ \A i \in 1 .. Len(queue) :
         IsLast(i, s, queue) => (queue[i].event = "opened" <=> alerts[s].open)
    /\ (\A i \in Sent + 1 .. Len(queue) : queue[i].signal # s) =>
         (told[s] = "opened" <=> alerts[s].open)

ToldInv == AlertInv /\ TellsTheChange /\ TellsItsState

LEMMA SentIsRead ==
  ASSUME AlertInv
  PROVE  /\ Sent \in Nat /\ Sent <= Len(queue) /\ Len(queue) \in Nat
         /\ warning.rows \in Nat /\ warning.rows <= Len(queue)
BY QueueParts DEF Sent

\* Steps that change and tell no alert and leave the queue.
LEMMA NothingTold ==
  ASSUME ToldInv, AlertInv', UNCHANGED <<told, queue>>,
         untold \subseteq untold', Sent' = Sent \/ Sent' = 0,
         \A s \in Signals \ untold' : alerts'[s].open = alerts[s].open,
         \A s \in Signals \ untold' : Telling(s) => Telling(s)',
         TellsTheChange'
  PROVE  ToldInv'
<1> SUFFICES ASSUME NEW s \in Signals \ untold', ~Telling(s)'
             PROVE  /\ \A i \in 1 .. Len(queue) :
                         IsLast(i, s, queue) => (queue[i].event = "opened" <=> alerts[s].open)
                    /\ (\A i \in Sent' + 1 .. Len(queue) : queue[i].signal # s) =>
                         (told[s] = "opened" <=> alerts[s].open)
  BY DEF ToldInv, TellsItsState, IsLast
<1>1. /\ s \in Signals \ untold /\ ~Telling(s)
  OBVIOUS
<1>2. Sent + 1 .. Len(queue) \subseteq Sent' + 1 .. Len(queue)
  BY SentIsRead DEF ToldInv
<1> QED
  BY <1>1, <1>2 DEF ToldInv, TellsItsState

LEMMA ChangeAlertTold ==
  ASSUME OnePoll, ToldInv, AlertInv', NEW p \in Polls, ChangeAlert(p)
  PROVE  ToldInv'
<1>1. /\ poll \in [Polls -> PollRecord] /\ untold \subseteq Signals
      /\ alerts \in [Signals -> [open : BOOLEAN, cooling : BOOLEAN]]
  BY DEF ToldInv, AlertInv, AlertsTypeOK
<1>2. PICK s \in Signals : poll[p].of = {s}
  BY DEF ChangeAlert, ToldInv, AlertInv, OneInHand
<1> DEFINE e == IF PollAt(p, "open") THEN "opened" ELSE "recovered"
<1>3. /\ poll'[p].at = "tell" /\ poll'[p].of = {s} /\ poll'[p].event = e
      /\ ~PollAt(p, "tell")
  BY <1>1, <1>2 DEF ChangeAlert, PollRecord, PollAt
<1>4. /\ alerts'[s].open <=> PollAt(p, "open")
      /\ \A z \in Signals : z # s => alerts'[z] = alerts[z]
      /\ untold' = untold \ {s} /\ told' = told
      /\ UNCHANGED <<queue, warning>>
  BY <1>1, <1>2 DEF ChangeAlert
<1>5. TellsTheChange'
  BY <1>3, <1>4 DEF TellsTheChange, OnePoll, PollAt
<1>6. Telling(s)' /\ \A z \in Signals : ~Telling(z)
  BY <1>3 DEF Telling, PollAt, OnePoll
<1>7. TellsItsState'
  BY <1>4, <1>6 DEF ToldInv, TellsItsState, IsLast, Sent
<1> QED
  BY <1>5, <1>7 DEF ToldInv

LEMMA DispatchAlertTold ==
  ASSUME OnePoll, ToldInv, AlertInv', NEW p \in Polls, DispatchAlert(p)
  PROVE  ToldInv'
<1>1. /\ poll \in [Polls -> PollRecord] /\ untold \subseteq Signals
      /\ told \in [Signals -> Events] /\ queue \in Seq(Rows)
  BY DEF ToldInv, AlertInv, AlertsTypeOK
<1>2. PICK s \in Signals : poll[p].of = {s}
  BY DEF DispatchAlert, PollAt, ToldInv, AlertInv, OneInHand
<1> DEFINE row == [signal |-> s, event |-> poll[p].event]
<1>3. /\ poll'[p].at = "signals" /\ alerts' = alerts /\ PollAt(p, "tell")
      /\ warning' = warning
  BY <1>1 DEF DispatchAlert, PollRecord
<1>4. s \notin untold => (poll[p].event = "opened" <=> alerts[s].open)
  BY <1>2, <1>3 DEF ToldInv, TellsTheChange
<1>5. TellsTheChange'
  BY <1>3 DEF TellsTheChange, OnePoll, PollAt
<1>6. /\ \A z \in Signals : ~Telling(z)'
      /\ \A z \in Signals : z # s => ~Telling(z)
  BY <1>2, <1>3 DEF Telling, PollAt, OnePoll
<1>7. Sent' = Sent /\ Sent \in Nat /\ Sent <= Len(queue) /\ Len(queue) \in Nat
  BY <1>3, SentIsRead DEF Sent, ToldInv
<1>8. CASE s \in Critical
  <2>1. /\ queue' = queue
        /\ \/ told' = [told EXCEPT ![s] = poll[p].event] /\ untold' = untold
           \/ told' = told /\ untold' = untold \cup {s}
    BY <1>2, <1>8 DEF DispatchAlert
  <2>2. \A i \in 1 .. Len(queue) : queue[i].signal # s
    BY <1>8 DEF ToldInv, AlertInv, OnlyWarnings
  <2> SUFFICES ASSUME NEW z \in Signals \ untold'
               PROVE  /\ \A i \in 1 .. Len(queue) : IsLast(i, z, queue) =>
                           (queue[i].event = "opened" <=> alerts[z].open)
                      /\ (\A i \in Sent + 1 .. Len(queue) : queue[i].signal # z) =>
                           (told'[z] = "opened" <=> alerts[z].open)
    BY <1>3, <1>5, <1>7, <2>1 DEF ToldInv, TellsItsState, IsLast
  <2>3. CASE z = s
    BY <1>1, <1>4, <2>1, <2>2, <2>3 DEF IsLast
  <2>4. CASE z # s
    BY <1>1, <1>6, <2>1, <2>4 DEF ToldInv, TellsItsState
  <2> QED
    BY <2>3, <2>4
<1>9. CASE s \notin Critical
  <2>1. /\ queue' = Append(queue, row) /\ UNCHANGED <<told, untold>>
    BY <1>2, <1>9 DEF DispatchAlert
  <2>2. row \in Rows
    BY <1>1 DEF Rows, PollRecord
  <2> DEFINE n == Len(queue)
  <2>3. /\ queue' \in Seq(Rows) /\ Len(queue') = n + 1 /\ queue'[n + 1] = row
        /\ \A i \in 1 .. n : queue'[i] = queue[i]
    BY <1>1, <2>1, <2>2
  <2>4. row.signal = s /\ row.event = poll[p].event
    OBVIOUS
  <2> SUFFICES ASSUME NEW z \in Signals \ untold
               PROVE  /\ \A i \in 1 .. n + 1 : IsLast(i, z, queue') =>
                           (queue'[i].event = "opened" <=> alerts[z].open)
                      /\ (\A i \in Sent + 1 .. n + 1 : queue'[i].signal # z) =>
                           (told[z] = "opened" <=> alerts[z].open)
    BY <1>3, <1>5, <1>7, <2>1, <2>3 DEF ToldInv, TellsItsState, IsLast
  <2> HIDE DEF row, n
  <2>5. n \in Nat /\ Sent \in Nat /\ Sent <= n
    BY <1>7 DEF n
  <2>6. CASE z = s
    <3>1. \A i \in 1 .. n + 1 : IsLast(i, z, queue') => i = n + 1
      BY <2>3, <2>4, <2>5, <2>6 DEF IsLast
    <3>2. n + 1 \in Sent + 1 .. n + 1
      BY <2>5
    <3> QED
      BY <1>4, <2>3, <2>4, <2>6, <3>1, <3>2
  <2>7. CASE z # s
    <3>1. ASSUME NEW i \in 1 .. n + 1, IsLast(i, z, queue')
          PROVE  queue'[i].event = "opened" <=> alerts[z].open
      <4>1. i \in 1 .. n
        BY <2>3, <2>4, <2>5, <2>7, <3>1 DEF IsLast
      <4>2. \A j \in i + 1 .. n : j \in i + 1 .. n + 1 /\ j \in 1 .. n
        BY <2>5, <4>1
      <4>3. IsLast(i, z, queue)
        BY <2>3, <3>1, <4>1, <4>2 DEF IsLast, n
      <4> QED
        BY <1>6, <2>3, <2>7, <4>1, <4>3 DEF ToldInv, TellsItsState, n
    <3>2. ASSUME \A i \in Sent + 1 .. n + 1 : queue'[i].signal # z
          PROVE  told[z] = "opened" <=> alerts[z].open
      <4>1. \A i \in Sent + 1 .. n : i \in Sent + 1 .. n + 1 /\ i \in 1 .. n
        BY <2>5
      <4>2. \A i \in Sent + 1 .. n : queue[i].signal # z
        BY <2>3, <3>2, <4>1
      <4> QED
        BY <1>6, <2>7, <4>2 DEF ToldInv, TellsItsState, n
    <3> QED
      BY <3>1, <3>2
  <2> QED
    BY <2>6, <2>7
<1> QED
  BY <1>8, <1>9

LEMMA PollFailsTold ==
  ASSUME OnePoll, ToldInv, AlertInv', NEW p \in Polls, PollFails(p)
  PROVE  ToldInv'
<1>1. poll \in [Polls -> PollRecord]
  BY DEF ToldInv, AlertInv
<1>2. poll'[p].at = "idle"
  BY <1>1, OffFacts DEF PollFails, PollEnds
<1>3. UNCHANGED <<alerts, told, queue, warning>>
      /\ untold' = untold \cup (IF PollAt(p, "tell") THEN poll[p].of ELSE {})
  BY DEF PollFails
<1>4. TellsTheChange'
  BY <1>2 DEF TellsTheChange, OnePoll, PollAt
<1>5. \A s \in Signals \ untold' : ~Telling(s)
  BY <1>3 DEF Telling, OnePoll
<1> QED
  BY <1>3, <1>4, <1>5, NothingTold DEF Sent

\* The digest goes out: what it says of a signal is the newest row it has read,
\* and the newest of all if none came behind.
LEMMA SendWarningsTold ==
  ASSUME ToldInv, AlertInv', SendWarnings
  PROVE  ToldInv'
<1>1. UNCHANGED <<poll, alerts, untold, queue>> /\ warning.at = "send"
  BY DEF SendWarnings
<1>2. warning \in [at : {"idle", "send", "mark", "refused"}, rows : Nat]
  BY DEF ToldInv, AlertInv
<1>3. TellsTheChange'
  BY <1>1 DEF ToldInv, TellsTheChange, PollAt
<1>4. \A s \in Signals : Telling(s)' <=> Telling(s)
  BY <1>1 DEF Telling, PollAt
<1>5. CASE warning' = [warning EXCEPT !.at = "refused"] /\ told' = told
  <2>1. Sent' = 0 /\ Sent = 0
    BY <1>1, <1>2, <1>5 DEF Sent
  <2> QED
    BY <1>1, <1>3, <1>4, <1>5, <2>1, NothingTold
<1>6. CASE warning' = [warning EXCEPT !.at = "mark"]
  <2> DEFINE n == warning.rows
  <2>1. Sent' = n /\ Sent = 0
    BY <1>1, <1>2, <1>6 DEF Sent
  <2>2. /\ n \in Nat /\ Len(queue) \in Nat /\ n <= Len(queue) /\ Len(RowsRead) = n
        /\ \A i \in 1 .. n : RowsRead[i] = queue[i]
    BY QueueParts DEF ToldInv
  <2> SUFFICES ASSUME NEW s \in Signals \ untold, ~Telling(s),
                      \A i \in n + 1 .. Len(queue) : queue[i].signal # s
               PROVE  told'[s] = "opened" <=> alerts[s].open
    BY <1>1, <1>3, <1>4, <2>1 DEF ToldInv, TellsItsState, IsLast
  <2>3. IF Queued(s, RowsRead)
        THEN \E i \in 1 .. n : IsLast(i, s, RowsRead) /\ told'[s] = RowsRead[i].event
        ELSE told'[s] = told[s]
    <3>1. warning'.at = "mark"
      BY <1>2, <1>6
    <3>2. [warning EXCEPT !.at = "refused"].at = "refused"
      BY <1>2
    <3> QED
      BY <3>1, <3>2 DEF SendWarnings
  <2>4. CASE Queued(s, RowsRead)
    <3>1. PICK i \in 1 .. n : IsLast(i, s, RowsRead) /\ told'[s] = RowsRead[i].event
      BY <2>3, <2>4
    <3>2. \A j \in i + 1 .. Len(queue) :
            (j \in i + 1 .. n /\ j \in 1 .. n) \/ j \in n + 1 .. Len(queue)
      BY <2>2
    <3>3. IsLast(i, s, queue)
      BY <2>2, <3>1, <3>2 DEF IsLast
    <3>4. i \in 1 .. Len(queue)
      BY <2>2
    <3> QED
      BY <2>2, <3>1, <3>3, <3>4 DEF ToldInv, TellsItsState
  <2>5. CASE ~Queued(s, RowsRead)
    <3>1. \A i \in Sent + 1 .. Len(queue) : i \in 1 .. n \/ i \in n + 1 .. Len(queue)
      BY <2>1, <2>2
    <3>2. \A i \in Sent + 1 .. Len(queue) : queue[i].signal # s
      BY <2>2, <2>5, <3>1 DEF Queued
    <3> QED
      BY <2>3, <2>5, <3>2 DEF ToldInv, TellsItsState
  <2> QED
    BY <2>4, <2>5
<1> QED
  BY <1>5, <1>6 DEF SendWarnings

\* The rows are marked: the newest row behind them is the newest of all.
LEMMA MarkSentTold ==
  ASSUME ToldInv, AlertInv', MarkSent
  PROVE  ToldInv'
<1>1. /\ UNCHANGED <<poll, alerts, told>> /\ queue' = RowsBehind
      /\ untold \subseteq untold' /\ Sent' = 0
  BY DEF MarkSent, NoDigest, Sent
<1>2. TellsTheChange'
  BY <1>1 DEF ToldInv, TellsTheChange, PollAt
<1> DEFINE n == warning.rows
           m == Len(queue)
<1>3. /\ n \in Nat /\ m \in Nat /\ n <= m
      /\ Len(RowsRead) = n /\ \A i \in 1 .. n : RowsRead[i] = queue[i]
      /\ Len(RowsBehind) = m - n /\ \A i \in 1 .. m - n : RowsBehind[i] = queue[n + i]
  BY QueueParts DEF ToldInv
<1> SUFFICES ASSUME NEW s \in Signals \ untold', ~Telling(s)
             PROVE  /\ \A i \in 1 .. m - n : IsLast(i, s, RowsBehind) =>
                         (RowsBehind[i].event = "opened" <=> alerts[s].open)
                    /\ (\A i \in 1 .. m - n : RowsBehind[i].signal # s) =>
                         (told[s] = "opened" <=> alerts[s].open)
  <2>1. \A s \in Signals : Telling(s)' <=> Telling(s)
    BY <1>1 DEF Telling, PollAt
  <2>2. Sent' + 1 = 1
    BY <1>1
  <2> QED
    BY <1>1, <1>2, <1>3, <2>1, <2>2 DEF ToldInv, TellsItsState, IsLast
<1> HIDE DEF n, m
<1>4. ASSUME NEW i \in 1 .. m - n, IsLast(i, s, RowsBehind)
      PROVE  RowsBehind[i].event = "opened" <=> alerts[s].open
  <2>1. /\ n + i \in 1 .. m
        /\ \A j \in n + i + 1 .. m : /\ j - n \in i + 1 .. m - n
                                     /\ j - n \in 1 .. m - n /\ n + (j - n) = j
    BY <1>3
  <2>2. \A j \in n + i + 1 .. m : queue[j].signal # s
    <3> SUFFICES ASSUME NEW j \in n + i + 1 .. m PROVE queue[j].signal # s
      OBVIOUS
    <3>1. RowsBehind[j - n] = queue[j]
      BY <1>3, <2>1
    <3>2. RowsBehind[j - n].signal # s
      BY <1>3, <1>4, <2>1 DEF IsLast
    <3> QED
      BY <3>1, <3>2
  <2>3. RowsBehind[i] = queue[n + i]
    BY <1>3
  <2>4. IsLast(n + i, s, queue)
    BY <1>4, <2>2, <2>3 DEF IsLast, m
  <2> QED
    BY <1>1, <2>1, <2>3, <2>4 DEF ToldInv, TellsItsState, m
<1>5. ASSUME \A i \in 1 .. m - n : RowsBehind[i].signal # s
      PROVE  told[s] = "opened" <=> alerts[s].open
  <2>1. ASSUME NEW j \in n + 1 .. m PROVE queue[j].signal # s
    <3>1. j - n \in 1 .. m - n /\ n + (j - n) = j
      BY <1>3
    <3> QED
      BY <1>3, <1>5, <3>1
  <2>2. CASE warning.at = "mark"
    <3>1. Sent = n
      BY <2>2 DEF Sent, n
    <3> QED
      BY <1>1, <2>1, <3>1 DEF ToldInv, TellsItsState, m
  <2>3. CASE warning.at # "mark"
    <3>1. ~Queued(s, RowsBehind)
      BY <1>3, <1>5 DEF Queued
    <3>2. ~Queued(s, RowsRead)
      BY <2>3, <3>1 DEF MarkSent
    <3>3. Sent = 0
      BY <2>3 DEF Sent
    <3>4. \A j \in Sent + 1 .. m : j \in 1 .. n \/ j \in n + 1 .. m
      BY <1>3, <3>3
    <3>5. \A j \in Sent + 1 .. m : queue[j].signal # s
      BY <1>3, <2>1, <3>2, <3>4 DEF Queued
    <3> QED
      BY <1>1, <3>5 DEF ToldInv, TellsItsState, m
  <2> QED
    BY <2>2, <2>3
<1> QED
  BY <1>4, <1>5

\* Suspension closes alerts and tells nobody, the rest leaves them as they are.
LEMMA BesideTold ==
  ASSUME ToldInv, AlertInv',
         \/ ReadQueue \/ WarningsAbort
         \/ \E s \in Signals : TroubleTurns(s) \/ CooldownEnds(s)
         \/ Silence \/ SuspendShop \/ UnsuspendShop \/ WindowEnds
         \/ UNCHANGED alertVars
  PROVE  ToldInv'
<1>1. alerts \in [Signals -> [open : BOOLEAN, cooling : BOOLEAN]]
  BY DEF ToldInv, AlertInv, AlertsTypeOK
<1>2. UNCHANGED <<poll, told, queue>>
  BY DEF ReadQueue, WarningsAbort, TroubleTurns, CooldownEnds,
     Silence, SuspendShop, UnsuspendShop, WindowEnds, alertVars
<1>3. untold \subseteq untold' /\ \A s \in Signals \ untold' : alerts'[s].open = alerts[s].open
  <2>1. CASE SuspendShop
    BY <1>1, <2>1 DEF SuspendShop
  <2>2. CASE \E s \in Signals : CooldownEnds(s)
    BY <1>1, <2>2 DEF CooldownEnds
  <2>3. CASE UNCHANGED <<alerts, untold>>
    BY <2>3
  <2> QED
    BY <2>1, <2>2, <2>3
    DEF ReadQueue, WarningsAbort, TroubleTurns, Silence, UnsuspendShop, WindowEnds,
        alertVars
<1>4. \A p \in Polls : poll[p].of \subseteq Signals
  BY DEF ToldInv, AlertInv, PollRecord
<1>5. Sent' = Sent \/ Sent' = 0
  BY DEF ReadQueue, WarningsAbort, TroubleTurns, CooldownEnds, Silence, SuspendShop,
     UnsuspendShop, WindowEnds, alertVars, NoDigest, Sent
<1>6. TellsTheChange'
  BY <1>2, <1>3, <1>4 DEF ToldInv, TellsTheChange, PollAt
<1>7. \A s \in Signals : Telling(s)' <=> Telling(s)
  BY <1>2 DEF Telling, PollAt
<1> QED
  BY <1>2, <1>3, <1>5, <1>6, <1>7, NothingTold

\* With polls that do not overlap, the last event of a signal that a channel took
\* is what its alert says, once no poll is about to tell it and no row of it is
\* queued: but for changes the program told nobody, critical alerts and digests
\* that no channel took, polls that ended before telling, suspensions.  Digests may
\* end half-way, be sent again, and have rows queued behind them
\* (health/alerts.ts, notify/index.ts).
THEOREM ToldIsWhatItSays ==
  ASSUME OnePoll PROVE AlertsSpec => []ToldFollowsAlert
<1>1. AlertsInit => ToldInv
  <2> SUFFICES ASSUME AlertsInit PROVE ToldInv
    OBVIOUS
  <2>1. TellsTheChange
    BY OffFacts DEF AlertsInit, TellsTheChange, PollAt
  <2>2. TellsItsState
    BY DEF AlertsInit, TellsItsState, IsLast
  <2> QED
    BY <2>1, <2>2, AlertsInitial DEF ToldInv
<1>2. ToldInv /\ [AlertsNext]_alertVars => ToldInv'
  <2> SUFFICES ASSUME ToldInv, [AlertsNext]_alertVars PROVE ToldInv'
    OBVIOUS
  <2>1. AlertInv'
    BY AlertInvStep DEF ToldInv
  <2>2. ASSUME NEW p \in Polls,
               \/ BeginPoll(p) \/ PollTenant(p) \/ StoreHealthCheck(p)
               \/ ApplySignals(p) \/ SignalsDone(p)
               \/ \E s \in Signals : ApplyOneSignal(p, s)
        PROVE  ToldInv'
    <3>1. UNCHANGED <<told, untold, alerts, queue, warning>> /\ ~PollAt(p, "tell")
      BY <2>2 DEF BeginPoll, PollTenant, StoreHealthCheck, ApplySignals, SignalsDone,
         ApplyOneSignal, PollAt
    <3>2. poll \in [Polls -> PollRecord]
      BY DEF ToldInv, AlertInv
    <3>3. poll'[p].at # "tell"
      <4>1. CASE BeginPoll(p)
        BY <3>2, <4>1 DEF BeginPoll, Off
      <4>2. CASE PollTenant(p) \/ StoreHealthCheck(p)
        BY <3>2, <4>2 DEF PollTenant, StoreHealthCheck, PollGoes, PollRecord
      <4>3. CASE ApplySignals(p) \/ SignalsDone(p)
        BY <3>2, <4>3, OffFacts DEF ApplySignals, SignalsDone, PollEnds, PollRecord
      <4>4. CASE \E s \in Signals : ApplyOneSignal(p, s)
        BY <3>2, <4>4 DEF ApplyOneSignal, PollRecord
      <4> QED
        BY <2>2, <4>1, <4>2, <4>3, <4>4
    <3>4. TellsTheChange' /\ \A s \in Signals : ~Telling(s)
      BY <3>1, <3>3 DEF TellsTheChange, Telling, OnePoll, PollAt
    <3> QED
      BY <2>1, <3>1, <3>4, NothingTold DEF Sent
  <2> QED
    BY <2>1, <2>2, ChangeAlertTold, DispatchAlertTold, PollFailsTold, SendWarningsTold,
       MarkSentTold, BesideTold
    DEF AlertsNext, PollStep
<1>3. ToldInv => ToldFollowsAlert
  <2> SUFFICES ASSUME ToldInv, NEW s \in Signals \ untold, ~Telling(s), ~Queued(s, queue)
               PROVE  told[s] = "opened" <=> alerts[s].open
    BY DEF ToldFollowsAlert
  <2>1. \A i \in Sent + 1 .. Len(queue) : i \in 1 .. Len(queue)
    BY SentIsRead DEF ToldInv
  <2> QED
    BY <2>1 DEF Queued, ToldInv, TellsItsState
<1> QED
  BY <1>1, <1>2, <1>3, PTL DEF AlertsSpec

-----------------------------------------------------------------------------
(* The warehouse.                                                          *)

LEMMA WarehouseDays ==
  ASSUME WarehouseTypeOK
  PROVE  night - 1 \in StoredDays /\ night \in Nat /\ LastNight \in Nat
BY WarehouseAssumption DEF WarehouseTypeOK, StoredDays, Nights

EtlRecord == [at : {"idle", "sales", "detail", "traffic", "clear", "failed"},
              yesterday : StoredDays, property : AnyProperty]

LEMMA WarehouseInitial == WarehouseInit => WarehouseTypeOK
<1> SUFFICES ASSUME WarehouseInit PROVE WarehouseTypeOK
  OBVIOUS
<1>1. 0 \in StoredDays /\ 1 \in Nights /\ 0 \in 0 .. MaxEtlFaults
  BY WarehouseAssumption DEF StoredDays, Nights
<1>2. Asleep \in EtlRecord /\ NoProperty \in AnyProperty
  BY <1>1 DEF Asleep, EtlRecord, AnyProperty
<1>3. etlRun \in [EtlRuns -> EtlRecord]
  BY <1>2 DEF WarehouseInit
<1>4. trafficDay \in [StoredDays -> AnyProperty]
  BY <1>2 DEF WarehouseInit
<1>5. connection \in [property : AnyProperty, verified : BOOLEAN, failures : Nat]
  BY <1>2 DEF WarehouseInit
<1>6. saving \in [at : {"none", "read", "write"}, property : AnyProperty, changed : BOOLEAN]
  BY <1>2 DEF WarehouseInit, NoForm
<1> QED
  BY <1>1, <1>2, <1>3, <1>4, <1>5, <1>6 DEF WarehouseInit, WarehouseTypeOK, EtlRecord

\* A run goes on to another place, or ends.
LEMMA EtlGoesOn ==
  ASSUME WarehouseTypeOK, NEW e \in EtlRuns,
         \/ \E place \in {"detail", "traffic", "clear", "failed"} : EtlGoes(e, place)
         \/ EtlEnds(e) \/ AfterSales(e)
  PROVE  etlRun' \in [EtlRuns -> EtlRecord]
<1>0. etlRun \in [EtlRuns -> EtlRecord]
  BY DEF WarehouseTypeOK, EtlRecord
<1>1. ASSUME NEW place \in {"detail", "traffic", "clear", "failed"}, EtlGoes(e, place)
      PROVE  etlRun' \in [EtlRuns -> EtlRecord]
  BY <1>0, <1>1 DEF EtlGoes, EtlRecord
<1>2. ASSUME EtlEnds(e) PROVE etlRun' \in [EtlRuns -> EtlRecord]
  <2>1. Asleep \in EtlRecord
    BY WarehouseAssumption DEF Asleep, EtlRecord, StoredDays, AnyProperty
  <2> QED
    BY <1>0, <1>2, <2>1 DEF EtlEnds
<1> QED
  BY <1>1, <1>2 DEF AfterSales

LEMMA WarehouseStep ==
  ASSUME WarehouseTypeOK, [WarehouseNext]_warehouseVars
  PROVE  WarehouseTypeOK'
<1>0. /\ salesDay \subseteq StoredDays /\ detailDay \subseteq StoredDays
      /\ trafficDay \in [StoredDays -> AnyProperty]
      /\ connection \in [property : AnyProperty, verified : BOOLEAN, failures : Nat]
      /\ shopAnswers \in BOOLEAN /\ access \subseteq Properties /\ night \in Nights
      /\ etlRun \in [EtlRuns -> EtlRecord]
      /\ saving \in [at : {"none", "read", "write"}, property : AnyProperty, changed : BOOLEAN]
      /\ cached \subseteq Properties /\ reported \in BOOLEAN /\ verifiedFor \in AnyProperty
      /\ etlFaults \in 0 .. MaxEtlFaults
  BY DEF WarehouseTypeOK, EtlRecord
<1>1. \A e \in EtlRuns : etlRun[e].yesterday \in StoredDays
                         /\ etlRun[e].property \in AnyProperty
  BY <1>0 DEF EtlRecord
<1>2. Properties \subseteq AnyProperty /\ NoProperty \in AnyProperty
  BY DEF AnyProperty
<1>3. etlFaults < MaxEtlFaults => etlFaults + 1 \in 0 .. MaxEtlFaults
  BY <1>0, WarehouseAssumption
<1>4. CASE UNCHANGED warehouseVars
  BY <1>4 DEF warehouseVars, WarehouseTypeOK
<1>5. ASSUME NEW e \in EtlRuns, BeginEtl(e) PROVE WarehouseTypeOK'
  <2> DEFINE rec == [at |-> "sales", yesterday |-> night - 1,
                     property |-> IF connection.verified THEN connection.property
                                  ELSE NoProperty]
  <2>1. rec \in EtlRecord
    BY <1>0, <1>2, WarehouseDays DEF EtlRecord
  <2>2. etlRun' = [etlRun EXCEPT ![e] = rec]
    BY <1>5 DEF BeginEtl
  <2> HIDE DEF rec
  <2>3. etlRun' \in [EtlRuns -> EtlRecord]
    BY <1>0, <2>1, <2>2
  <2> QED
    BY <1>0, <1>5, <2>3 DEF BeginEtl, WarehouseTypeOK, EtlRecord
<1>6. ASSUME NEW e \in EtlRuns,
             \/ StoreSales(e) \/ StoreDetail(e) \/ DetailFails(e) \/ EtlDies(e)
             \/ TrafficFails(e)
      PROVE  WarehouseTypeOK'
  <2>1. \/ \E place \in {"detail", "traffic", "clear", "failed"} : EtlGoes(e, place)
        \/ EtlEnds(e) \/ AfterSales(e)
    BY <1>6 DEF StoreSales, StoreDetail, DetailFails, EtlDies, TrafficFails
  <2>2. etlRun' \in [EtlRuns -> EtlRecord]
    BY <2>1, EtlGoesOn
  <2>3. /\ salesDay' \subseteq StoredDays /\ detailDay' \subseteq StoredDays
        /\ etlFaults' \in 0 .. MaxEtlFaults
        /\ UNCHANGED <<trafficDay, connection, shopAnswers, access, night, saving, cached,
                       reported, verifiedFor>>
    BY <1>0, <1>1, <1>3, <1>6
    DEF StoreSales, StoreDetail, DetailFails, EtlDies, TrafficFails
  <2> QED
    BY <1>0, <2>2, <2>3 DEF WarehouseTypeOK, EtlRecord
<1>7. ASSUME NEW e \in EtlRuns, StoreTraffic(e) PROVE WarehouseTypeOK'
  <2>1. etlRun' \in [EtlRuns -> EtlRecord]
    BY <1>7, EtlGoesOn DEF StoreTraffic
  <2>2. trafficDay' \in [StoredDays -> AnyProperty]
    BY <1>0, <1>1, <1>7 DEF StoreTraffic
  <2> QED
    BY <1>0, <1>7, <2>1, <2>2 DEF StoreTraffic, WarehouseTypeOK, EtlRecord
<1>8. ASSUME NEW e \in EtlRuns, ClearFailures(e) \/ RecordFailure(e) PROVE WarehouseTypeOK'
  <2>1. etlRun' \in [EtlRuns -> EtlRecord]
    BY <1>8, EtlGoesOn DEF ClearFailures, RecordFailure
  <2>2. connection' \in [property : AnyProperty, verified : BOOLEAN, failures : Nat]
    BY <1>0, <1>8 DEF ClearFailures, RecordFailure
  <2>3. reported' \in BOOLEAN
    BY <1>0, <1>8, Zenon DEF ClearFailures, RecordFailure
  <2>4. UNCHANGED <<salesDay, detailDay, trafficDay, shopAnswers, access, night, saving,
                    cached, verifiedFor, etlFaults>>
    BY <1>8 DEF ClearFailures, RecordFailure
  <2> QED
    BY <1>0, <2>1, <2>2, <2>3, <2>4 DEF WarehouseTypeOK, EtlRecord
<1>9. ASSUME NEW p \in Properties, TestConnection(p) PROVE WarehouseTypeOK'
  BY <1>0, <1>2, <1>9 DEF TestConnection, WarehouseTypeOK, EtlRecord
<1>10. ASSUME NEW p \in AnyProperty, BeginSave(p) PROVE WarehouseTypeOK'
  BY <1>0, <1>10 DEF BeginSave, WarehouseTypeOK, EtlRecord
<1>11. CASE ReadSettings
  <2>1. (connection.property # saving.property) \in BOOLEAN
    OBVIOUS
  <2>2. saving' \in [at : {"none", "read", "write"}, property : AnyProperty,
                     changed : BOOLEAN]
    BY <1>0, <1>11, <2>1 DEF ReadSettings
  <2> QED
    BY <1>0, <1>11, <2>2 DEF ReadSettings, WarehouseTypeOK, EtlRecord
<1>12. CASE WriteSettings
  <2>1. connection' \in [property : AnyProperty, verified : BOOLEAN, failures : Nat]
    BY <1>0, <1>12 DEF WriteSettings
  <2>2. reported' \in BOOLEAN
    BY <1>0, <1>12, Zenon DEF WriteSettings
  <2>3. saving' \in [at : {"none", "read", "write"}, property : AnyProperty,
                     changed : BOOLEAN]
    BY <1>2, <1>12 DEF WriteSettings, NoForm
  <2> QED
    BY <1>0, <1>12, <2>1, <2>2, <2>3 DEF WriteSettings, WarehouseTypeOK, EtlRecord
<1>13. CASE FetchOverview
  <2>1. connection.property \in access
    BY <1>13 DEF FetchOverview, TrafficShown
  <2> QED
    BY <1>0, <1>13, <2>1 DEF FetchOverview, WarehouseTypeOK, EtlRecord
<1>14. ASSUME NEW p \in Properties, OverviewExpires(p) \/ AccessTurns(p)
       PROVE  WarehouseTypeOK'
  BY <1>0, <1>14 DEF OverviewExpires, AccessTurns, WarehouseTypeOK, EtlRecord
<1>15. CASE ShopAnswersOrNot
  BY <1>0, <1>15 DEF ShopAnswersOrNot, WarehouseTypeOK, EtlRecord
<1>16. CASE NextNight
  BY <1>0, <1>16, WarehouseAssumption DEF NextNight, Nights, WarehouseTypeOK, EtlRecord
<1> QED
  BY <1>4, <1>5, <1>6, <1>7, <1>8, <1>9, <1>10, <1>11, <1>12, <1>13, <1>14, <1>15, <1>16
  DEF WarehouseNext, EtlStep

\* Every state of the stored days, the connection and the runs is well formed.
THEOREM WarehouseTypes == WarehouseSpec => []WarehouseTypeOK
BY WarehouseInitial, WarehouseStep, PTL DEF WarehouseSpec

-----------------------------------------------------------------------------
(* The three jobs together.                                                *)

\* What is checked as one is a behaviour of each: what the theorems above say of a
\* job alone holds of it there.
THEOREM ServicesAreTheirParts ==
  ServicesSpec => WarehouseSpec /\ DigestsSpec /\ AlertsSpec
<1>1. ServicesInit => WarehouseInit /\ DigestsInit /\ AlertsInit
  BY DEF ServicesInit
<1>2. [ServicesNext]_serviceVars =>
        /\ [WarehouseNext]_warehouseVars
        /\ [DigestsNext]_digestVars
        /\ [AlertsNext]_alertVars
  BY DEF ServicesNext, serviceVars
<1> QED
  BY <1>1, <1>2, PTL DEF ServicesSpec, WarehouseSpec, DigestsSpec, AlertsSpec

\* Every state of the warehouse, the digests and the alerts is well formed.
THEOREM ServicesTypes == ServicesSpec => []ServicesTypeOK
<1>1. WarehouseTypeOK /\ DigestsTypeOK /\ AlertsTypeOK => ServicesTypeOK
  BY DEF ServicesTypeOK
<1> QED
  BY <1>1, ServicesAreTheirParts, WarehouseTypes, DigestsTypes, AlertsTypes, PTL
=============================================================================
