------------------------------ MODULE MCConsole ------------------------------
(* Three parts of the console that share no state in their modules: the     *)
(* collection of issued invoices, the billing run and the subscriptions.    *)
(* They are checked in one run: every behaviour is one of a single part,    *)
(* chosen at its start, the other two stay as they begin.                   *)
EXTENDS Collections, BillingRun, Subscriptions, TLC

CONSTANTS i1, c1, d1, k1, b1, s1, e1, e2

VARIABLE part

consoleVars == <<part, collectionsVars, billingRunVars, subscriptionsVars>>

MCDays == {-1, 0, 7, 14, 21}

ConsoleInit ==
  /\ part \in {"collections", "billing run", "subscriptions"}
  /\ CollectionsInit
  /\ part # "collections" => contact = {} /\ receiver = {}
  /\ BillingRunInit
  /\ SubscriptionsInit

ConsoleNext ==
  \/ /\ part = "collections" /\ CollectionsNext
     /\ UNCHANGED <<part, billingRunVars, subscriptionsVars>>
  \/ /\ part = "billing run" /\ BillingRunNext
     /\ UNCHANGED <<part, collectionsVars, subscriptionsVars>>
  \/ /\ part = "subscriptions" /\ SubscriptionsNext
     /\ UNCHANGED <<part, collectionsVars, billingRunVars>>

\* CollectionsFair, where it is collections that runs.
Runs(A) == part = "collections" /\ A /\ UNCHANGED <<part, billingRunVars, subscriptionsVars>>

ConsoleFair ==
  /\ \A c \in CronRuns : /\ WF_collectionsVars(Runs(LadderStep(c)))
                         /\ WF_collectionsVars(Runs(BeginLadder(c)))
  /\ WF_collectionsVars(Runs(NextDay))

ConsoleSpec == ConsoleInit /\ [][ConsoleNext]_consoleVars
ConsoleFairSpec == ConsoleSpec /\ ConsoleFair

\* The types of the three parts.
ConsoleTypeOK == CollectionsTypeOK /\ BillingRunTypeOK /\ SubscriptionsTypeOK
=============================================================================
