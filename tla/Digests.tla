------------------------------- MODULE Digests -------------------------------
(***************************************************************************)
(* The digests customers receive of their own figures: the daily run that  *)
(* composes and mails them (digest/send.ts, compose.ts, period.ts), the    *)
(* settings form of the console, the contacts that receive one, and the    *)
(* unsubscribe link (unsubscribe.ts).                                      *)
(*                                                                         *)
(* A run works on the tenants it listed at its start.  Whether an address  *)
(* has had its digest is a row written after the mail service accepted     *)
(* it; nothing but that row keeps the next run from mailing it again.      *)
(***************************************************************************)
EXTENDS Integers, FiniteSets

CONSTANTS
  DigestTenants,    \* active tenants with a deployment
  Addresses,        \* addresses of their contacts
  Main,             \* those of the primary and the billing contact
  DigestRuns,       \* runs that may overlap
  Offered,          \* cadences the operator tries
  LastDay,          \* days 1 .. LastDay
  DaysInWeek,       \* 7; smaller for the checker
  DaysInMonth,      \* a month's length; smaller for the checker
  MaxDigestFaults   \* bound on runs that end, rows that fail, answers that are lost

ASSUME DigestsAssumption ==
  /\ Main \subseteq Addresses
  /\ Offered \subseteq {"off", "daily", "weekly", "monthly"}
  /\ {LastDay, DaysInWeek, DaysInMonth} \subseteq Nat \ {0}
  /\ MaxDigestFaults \in Nat

VARIABLES
  settings,      \* tenants.digest_cadence, digest_day
  receives,      \* contacts with receive_digests
  sentRows,      \* digest_sends with status sent
  accepted,      \* history: digests the mail service took, of a period, for an address
  digestRun,
  digestForm,    \* the settings page that is open, with the values it was loaded with
  optedOut,      \* history: unsubscribed, and no settings page was loaded since
  today,
  digestFaults

digestVars == <<settings, receives, sentRows, accepted, digestRun, digestForm, optedOut,
                today, digestFaults>>

Cadences == {"off", "daily", "weekly", "monthly"}
Weekdays == 1 .. DaysInWeek
AnySettings == [cadence : Cadences, day : Weekdays]
Listed == [tenant : DigestTenants, cadence : Cadences \ {"off"}, day : Weekdays]

Idling == [at |-> "idle", tenants |-> {}, row |-> {}, left |-> {}, to |-> {}]
Closed == [of |-> {}, cadence |-> "off", day |-> 1]

-----------------------------------------------------------------------------
(* When a digest is due, and of which period.                              *)

WeekdayOf(d) == ((d - 1) % DaysInWeek) + 1

ShouldSendToday(row) ==
  \/ row.cadence = "daily"
  \/ row.cadence = "weekly" /\ WeekdayOf(today) = row.day
  \/ row.cadence = "monthly" /\ (today - 1) % DaysInMonth = 0

\* Yesterday, the last whole week, the last whole month.
PeriodsForDigest(cadence) ==
  [of |-> cadence,
   nr |-> CASE cadence = "daily" -> today - 1
            [] cadence = "weekly" -> (today - 1) \div DaysInWeek
            [] cadence = "monthly" -> (today - 1) \div DaysInMonth]

Keys == [tenant : DigestTenants, address : Addresses,
         period : [of : Cadences \ {"off"}, nr : 0 .. LastDay]]

\* The flagged contacts, or without one the primary and the billing contact.
DigestRecipients(t) == IF receives[t] # {} THEN receives[t] ELSE Main

DigestsTypeOK ==
  /\ settings \in [DigestTenants -> AnySettings]
  /\ receives \in [DigestTenants -> SUBSET Addresses]
  /\ sentRows \subseteq Keys
  /\ accepted \in [Keys -> Nat]
  /\ \A r \in DigestRuns :
       /\ digestRun[r].at \in {"idle", "tenant", "compose", "check", "send", "log", "refused"}
       /\ digestRun[r].tenants \subseteq Listed
       /\ digestRun[r].left \subseteq Addresses
  /\ digestForm.of \subseteq DigestTenants
  /\ optedOut \subseteq DigestTenants
  /\ today \in 1 .. LastDay
  /\ digestFaults \in 0 .. MaxDigestFaults

DigestsInit ==
  /\ settings \in [DigestTenants -> [cadence : {"weekly"}, day : {1}]]
  /\ receives \in [DigestTenants -> {{}, Addresses}]
  /\ sentRows = {} /\ accepted = [k \in Keys |-> 0]
  /\ digestRun = [r \in DigestRuns |-> Idling]
  /\ digestForm = Closed
  /\ optedOut = {}
  /\ today = 1
  /\ digestFaults = 0

-----------------------------------------------------------------------------
(* The daily run.                                                          *)

DigestAt(r, place) == digestRun[r].at = place
DigestGoes(r, place) == digestRun' = [digestRun EXCEPT ![r].at = place]

\* The digest of an address for the tenant a run is at, and the one it has in hand.
KeyOf(r, a) ==
  LET row == CHOOSE x \in digestRun[r].row : TRUE
  IN [tenant |-> row.tenant, address |-> a, period |-> PeriodsForDigest(row.cadence)]
Key(r) == KeyOf(r, CHOOSE a \in digestRun[r].to : TRUE)

\* Done with a tenant, or with an address of one.
TenantDone(r) ==
  digestRun' = [digestRun EXCEPT ![r] =
    [Idling EXCEPT !.at = "tenant", !.tenants = digestRun[r].tenants]]
NextRecipient(r) == digestRun' = [digestRun EXCEPT ![r].at = "check", ![r].to = {}]

BeginDigests(r) ==
  /\ DigestAt(r, "idle")
  /\ digestRun' = [digestRun EXCEPT ![r] =
       [Idling EXCEPT !.at = "tenant",
          !.tenants = {[tenant |-> t, cadence |-> settings[t].cadence,
                        day |-> settings[t].day] :
                       t \in {u \in DigestTenants : settings[u].cadence # "off"}}]]
  /\ UNCHANGED <<settings, receives, sentRows, accepted, digestForm, optedOut, today,
                 digestFaults>>

\* The next tenant of the list whose digest is due today, as the list has it.
NextTenant(r) ==
  /\ DigestAt(r, "tenant")
  /\ IF digestRun[r].tenants = {}
     THEN digestRun' = [digestRun EXCEPT ![r] = Idling]
     ELSE \E row \in digestRun[r].tenants :
            IF ShouldSendToday(row)
            THEN digestRun' = [digestRun EXCEPT
                   ![r].tenants = @ \ {row}, ![r].row = {row}, ![r].at = "compose",
                   ![r].left = DigestRecipients(row.tenant)]
            ELSE digestRun' = [digestRun EXCEPT ![r].tenants = @ \ {row}]
  /\ UNCHANGED <<settings, receives, sentRows, accepted, digestForm, optedOut, today,
                 digestFaults>>

\* One payload for all addresses, of the stored sales, else of the shop's.  Sales
\* that cannot be fetched do not stop it: they count as none.
BuildDigestPayload(r) ==
  /\ DigestAt(r, "compose")
  /\ DigestGoes(r, "check")
  /\ UNCHANGED <<settings, receives, sentRows, accepted, digestForm, optedOut, today,
                 digestFaults>>

ComposeFails(r) ==
  /\ DigestAt(r, "compose")
  /\ TenantDone(r)
  /\ UNCHANGED <<settings, receives, sentRows, accepted, digestForm, optedOut, today,
                 digestFaults>>

\* alreadySent
CheckRecipient(r) ==
  /\ DigestAt(r, "check")
  /\ IF digestRun[r].left = {}
     THEN TenantDone(r)
     ELSE \E a \in digestRun[r].left :
            IF KeyOf(r, a) \in sentRows
            THEN digestRun' = [digestRun EXCEPT ![r].left = @ \ {a}]
            ELSE digestRun' = [digestRun EXCEPT
                   ![r].left = @ \ {a}, ![r].to = {a}, ![r].at = "send"]
  /\ UNCHANGED <<settings, receives, sentRows, accepted, digestForm, optedOut, today,
                 digestFaults>>

SendDigest(r) ==
  /\ DigestAt(r, "send")
  /\ accepted' = [accepted EXCEPT ![Key(r)] = @ + 1]
  /\ DigestGoes(r, "log")
  /\ UNCHANGED <<settings, receives, sentRows, digestForm, optedOut, today,
                 digestFaults>>

SendRefused(r) ==
  /\ DigestAt(r, "send")
  /\ DigestGoes(r, "refused")
  /\ UNCHANGED <<settings, receives, sentRows, accepted, digestForm, optedOut, today,
                 digestFaults>>

LoggedAsFailed(r) ==
  /\ DigestAt(r, "log")
  /\ NextRecipient(r)
  /\ UNCHANGED <<settings, receives, sentRows, accepted, digestForm, optedOut, today,
                 digestFaults>>
LogSent(r) ==
  /\ DigestAt(r, "log")
  /\ sentRows' = sentRows \cup {Key(r)}
  /\ NextRecipient(r)
  /\ UNCHANGED <<settings, receives, accepted, digestForm, optedOut, today, digestFaults>>

\* The row of a failure keeps no later run from trying again.
LogFailed(r) ==
  /\ DigestAt(r, "refused")
  /\ NextRecipient(r)
  /\ UNCHANGED <<settings, receives, sentRows, accepted, digestForm, optedOut, today,
                 digestFaults>>

\* The row of a digest that went out fails, or the answer of the mail service is
\* lost: the catch logs it as failed.
LogSentFails(r) ==
  /\ DigestAt(r, "log")
  /\ digestFaults < MaxDigestFaults
  /\ digestFaults' = digestFaults + 1
  /\ DigestGoes(r, "refused")
  /\ UNCHANGED <<settings, receives, sentRows, accepted, digestForm, optedOut, today>>

\* A process that ends, or the row of a failure that fails too: nobody catches
\* that, and the tenants and addresses still to come get nothing.
DigestsAbort(r) ==
  /\ ~DigestAt(r, "idle")
  /\ digestFaults < MaxDigestFaults
  /\ digestFaults' = digestFaults + 1
  /\ digestRun' = [digestRun EXCEPT ![r] = Idling]
  /\ UNCHANGED <<settings, receives, sentRows, accepted, digestForm, optedOut, today>>

-----------------------------------------------------------------------------
(* The console and the customer.                                           *)

OpenSettings(t) ==
  /\ digestForm' = [of |-> {t}, cadence |-> settings[t].cadence, day |-> settings[t].day]
  /\ optedOut' = optedOut \ {t}
  /\ UNCHANGED <<settings, receives, sentRows, accepted, digestRun, today, digestFaults>>

\* updateDigestSettings writes every field of the page, whatever is stored by now.
SaveSettings(t) ==
  /\ digestForm.of = {t}
  /\ \E c \in Offered \cup {digestForm.cadence}, d \in Weekdays :
       settings' = [settings EXCEPT ![t] = [cadence |-> c, day |-> d]]
  /\ digestForm' = Closed
  /\ UNCHANGED <<receives, sentRows, accepted, digestRun, optedOut, today, digestFaults>>

\* "Test connection" saves the page as it was loaded, cadence and all, first.
TestFromPage(t) ==
  /\ digestForm.of = {t}
  /\ settings' = [settings EXCEPT ![t] = [cadence |-> digestForm.cadence,
                                          day |-> digestForm.day]]
  /\ UNCHANGED <<receives, sentRows, accepted, digestRun, digestForm, optedOut, today,
                 digestFaults>>

\* The link is of an address, the switch of the tenant.
ProcessUnsubscribe(t) ==
  /\ settings' = [settings EXCEPT ![t].cadence = "off"]
  /\ optedOut' = optedOut \cup {t}
  /\ UNCHANGED <<receives, sentRows, accepted, digestRun, digestForm, today, digestFaults>>

\* updateTenantContact, addTenantContact
ReceiveDigests(t, a) ==
  /\ receives' = [receives EXCEPT ![t] = IF a \in @ THEN @ \ {a} ELSE @ \cup {a}]
  /\ UNCHANGED <<settings, sentRows, accepted, digestRun, digestForm, optedOut, today,
                 digestFaults>>

\* A run is cut off after five minutes: it does not last into the next day.
NextDigestDay ==
  /\ today < LastDay
  /\ \A r \in DigestRuns : DigestAt(r, "idle")
  /\ today' = today + 1
  /\ UNCHANGED <<settings, receives, sentRows, accepted, digestRun, digestForm, optedOut,
                 digestFaults>>

DigestStep(r) ==
  \/ NextTenant(r)
  \/ BuildDigestPayload(r)
  \/ ComposeFails(r)
  \/ CheckRecipient(r)
  \/ SendDigest(r)
  \/ SendRefused(r)
  \/ LogSent(r)
  \/ LogFailed(r)

DigestsNext ==
  \/ \E r \in DigestRuns :
       BeginDigests(r) \/ DigestStep(r) \/ LogSentFails(r) \/ DigestsAbort(r)
  \/ \E t \in DigestTenants :
       \/ OpenSettings(t)
       \/ SaveSettings(t)
       \/ TestFromPage(t)
       \/ ProcessUnsubscribe(t)
       \/ \E a \in Addresses : ReceiveDigests(t, a)
  \/ NextDigestDay

DigestsSpec == DigestsInit /\ [][DigestsNext]_digestVars

-----------------------------------------------------------------------------
(* Properties.                                                             *)

\* An address gets one digest of a period; each mishap may add one, whatever the
\* cadence, the weekday and the contacts are changed to, as long as runs do not
\* overlap.
DigestsBounded == \A k \in Keys : accepted[k] <= 1 + digestFaults

\* Refuted: a page that was open when the customer unsubscribed, saved for any
\* other reason, turns the digests on again.
OptOutStands == \A t \in optedOut : settings[t].cadence = "off"
=============================================================================
