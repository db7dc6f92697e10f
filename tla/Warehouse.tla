------------------------------ MODULE Warehouse ------------------------------
(***************************************************************************)
(* The figures of one tenant's shop and site: the nightly job that stores  *)
(* a day's sales and the traffic Google Analytics counted                  *)
(* (analytics/etl.ts, ga4.ts), the connection of the tenant to its         *)
(* property (digest/send.ts, tenants/actions.ts), and the views that read  *)
(* the stored days (analytics/queries.ts, tenant-overview.ts,              *)
(* tenants/commerce.ts).                                                   *)
(*                                                                         *)
(* The job holds the tenant's row as it was when the job began, and writes *)
(* a day in several statements; a form holds the settings as they were     *)
(* when its page was loaded.                                               *)
(***************************************************************************)
EXTENDS Integers, FiniteSets

CONSTANTS
  LastNight,     \* the job runs on the nights 1 .. LastNight, for the day before
  Properties,    \* Google Analytics properties
  EtlRuns,       \* runs of the job that may overlap
  Trailing,      \* how many days of traffic it fetches again (3 in the code)
  MaxFailures,   \* bound: no run begins after so many failures in a row
  MaxEtlFaults   \* bound on runs that end, and statements that fail

ASSUME WarehouseAssumption ==
  LastNight \in Nat \ {0} /\ Trailing \in Nat \ {0} /\ MaxEtlFaults \in Nat

VARIABLES
  salesDay,      \* the days with an internal row in analytics_daily
  detailDay,     \* and with the top products in analytics_daily_detail
  trafficDay,    \* the property the traffic row of each day was counted for
  connection,    \* tenants.ga4_property_id, ga4_verified_at, ga4_consecutive_failures
  shopAnswers,   \* the tenant's deployment answers
  access,        \* the properties the service account can read
  night,
  etlRun,
  saving,        \* the settings form being saved, if one is
  cached,        \* the properties with a live overview in ga4_cache
  reported,      \* history: a task was made for the failures counted since zero
  verifiedFor,   \* history: the property the last successful test was for
  etlFaults

warehouseVars == <<salesDay, detailDay, trafficDay, connection, shopAnswers, access,
                   night, etlRun, saving, cached, reported, verifiedFor, etlFaults>>

Nights == 1 .. LastNight
StoredDays == (1 - Trailing) .. LastNight - 1
NoProperty == "no property"
AnyProperty == Properties \cup {NoProperty}

\* Three failures in a row make a task.
TaskAfter == 3

Asleep == [at |-> "idle", yesterday |-> 0, property |-> NoProperty]
NoForm == [at |-> "none", property |-> NoProperty, changed |-> FALSE]

WarehouseTypeOK ==
  /\ salesDay \subseteq StoredDays /\ detailDay \subseteq StoredDays
  /\ trafficDay \in [StoredDays -> AnyProperty]
  /\ connection \in [property : AnyProperty, verified : BOOLEAN, failures : Nat]
  /\ shopAnswers \in BOOLEAN
  /\ access \subseteq Properties
  /\ night \in Nights
  /\ etlRun \in [EtlRuns -> [at : {"idle", "sales", "detail", "traffic", "clear", "failed"},
                             yesterday : StoredDays, property : AnyProperty]]
  /\ saving \in [at : {"none", "read", "write"}, property : AnyProperty, changed : BOOLEAN]
  /\ cached \subseteq Properties
  /\ reported \in BOOLEAN
  /\ verifiedFor \in AnyProperty
  /\ etlFaults \in 0 .. MaxEtlFaults

WarehouseInit ==
  /\ salesDay = {} /\ detailDay = {}
  /\ trafficDay = [d \in StoredDays |-> NoProperty]
  /\ connection = [property |-> NoProperty, verified |-> FALSE, failures |-> 0]
  /\ shopAnswers = TRUE
  /\ access = Properties
  /\ night = 1
  /\ etlRun = [e \in EtlRuns |-> Asleep]
  /\ saving = NoForm
  /\ cached = {}
  /\ reported = FALSE
  /\ verifiedFor = NoProperty
  /\ etlFaults = 0

-----------------------------------------------------------------------------
(* What the console and the digests show of the stored days.               *)

\* resolveAnalyticsPeriod: the last n days, and the n before them.
LastDays(n) == (night - n) .. (night - 1)
DaysBefore(n) == (night - 2 * n) .. (night - n - 1)

\* Sums over what is stored; a range without any row has none.
SalesFromWarehouse(range) == [days |-> salesDay \cap range, products |-> detailDay \cap range]
TrafficFromWarehouse(range) == {d \in range \cap StoredDays : trafficDay[d] # NoProperty}

\* The analytics tab, and the change it shows against the days before.
TenantAnalyticsView(n) ==
  [sales |-> SalesFromWarehouse(LastDays(n)), hasGa4 |-> TrafficFromWarehouse(LastDays(n)) # {},
   compared |-> SalesFromWarehouse(DaysBefore(n)).days]
\* The fleet strip draws a day without a row as one without sales.
DrawnAsNone(n) == LastDays(n) \ salesDay

\* getCommerce asks the shop first, and calls what is stored complete with up to
\* two days missing.
Commerce(range) ==
  IF shopAnswers THEN [from |-> "fleet", complete |-> TRUE]
  ELSE LET days == SalesFromWarehouse(range).days IN
       [from |-> "warehouse",
        complete |-> days # {} /\ Cardinality(days) >= Cardinality(range) - 2]

\* getTenantTraffic: what is stored, else the overview of the last 15 minutes,
\* else one fetched now.
TrafficShown(range) ==
  IF connection.property = NoProperty THEN "not configured"
  ELSE IF TrafficFromWarehouse(range) # {} THEN "warehouse"
  ELSE IF connection.property \in cached THEN "cached"
  ELSE IF connection.property \in access THEN "live" ELSE "denied"

-----------------------------------------------------------------------------
(* The nightly job.                                                        *)

EtlAt(e, place) == etlRun[e].at = place
EtlGoes(e, place) == etlRun' = [etlRun EXCEPT ![e].at = place]
EtlEnds(e) == etlRun' = [etlRun EXCEPT ![e] = Asleep]

\* Once the day's sales are settled, one way or the other, traffic is fetched
\* for a property that was verified when the job began.
AfterSales(e) == IF etlRun[e].property # NoProperty THEN EtlGoes(e, "traffic") ELSE EtlEnds(e)

BeginEtl(e) ==
  /\ EtlAt(e, "idle")
  /\ connection.failures < MaxFailures
  /\ etlRun' = [etlRun EXCEPT ![e] =
       [at |-> "sales", yesterday |-> night - 1,
        property |-> IF connection.verified THEN connection.property ELSE NoProperty]]
  /\ UNCHANGED <<salesDay, detailDay, trafficDay, connection, shopAnswers, access, night,
                 saving, cached, reported, verifiedFor, etlFaults>>

\* Yesterday's sales, unless there is a row.  A shop that does not answer
\* leaves the day without one, and no later night asks again.
StoreSales(e) ==
  /\ EtlAt(e, "sales")
  /\ IF etlRun[e].yesterday \notin salesDay /\ shopAnswers
     THEN /\ salesDay' = salesDay \cup {etlRun[e].yesterday}
          /\ EtlGoes(e, "detail")
     ELSE AfterSales(e) /\ UNCHANGED salesDay
  /\ UNCHANGED <<detailDay, trafficDay, connection, shopAnswers, access, night, saving,
                 cached, reported, verifiedFor, etlFaults>>

StoreDetail(e) ==
  /\ EtlAt(e, "detail")
  /\ detailDay' = detailDay \cup {etlRun[e].yesterday}
  /\ AfterSales(e)
  /\ UNCHANGED <<salesDay, trafficDay, connection, shopAnswers, access, night, saving,
                 cached, reported, verifiedFor, etlFaults>>

\* A statement that fails is logged, and the job goes on with the traffic.
DetailFails(e) ==
  /\ EtlAt(e, "detail")
  /\ etlFaults < MaxEtlFaults
  /\ etlFaults' = etlFaults + 1
  /\ AfterSales(e)
  /\ UNCHANGED <<salesDay, detailDay, trafficDay, connection, shopAnswers, access, night,
                 saving, cached, reported, verifiedFor>>

\* The trailing days of traffic, over whatever row is there.
StoreTraffic(e) ==
  /\ EtlAt(e, "traffic")
  /\ etlRun[e].property \in access
  /\ trafficDay' = [d \in StoredDays |->
       IF d \in (etlRun[e].yesterday - Trailing + 1) .. etlRun[e].yesterday
       THEN etlRun[e].property ELSE trafficDay[d]]
  /\ EtlGoes(e, "clear")
  /\ UNCHANGED <<salesDay, detailDay, connection, shopAnswers, access, night, saving,
                 cached, reported, verifiedFor, etlFaults>>

ClearFailures(e) ==
  /\ EtlAt(e, "clear")
  /\ connection' = [connection EXCEPT !.failures = 0]
  /\ reported' = FALSE
  /\ EtlEnds(e)
  /\ UNCHANGED <<salesDay, detailDay, trafficDay, shopAnswers, access, night, saving,
                 cached, verifiedFor, etlFaults>>

FailureTakenForNoData(e) ==
  /\ EtlAt(e, "traffic")
  /\ etlRun[e].property \notin access
  /\ EtlGoes(e, "clear")
  /\ UNCHANGED <<salesDay, detailDay, trafficDay, connection, shopAnswers, access, night,
                 saving, cached, reported, verifiedFor, etlFaults>>
TrafficFails(e) ==
  /\ EtlAt(e, "traffic")
  /\ etlRun[e].property \notin access
  /\ EtlGoes(e, "failed")
  /\ UNCHANGED <<salesDay, detailDay, trafficDay, connection, shopAnswers, access, night,
                 saving, cached, reported, verifiedFor, etlFaults>>

\* The counter is raised and read in one transaction; the third failure in a
\* row, and only the third, makes a task.
RecordFailure(e) ==
  /\ EtlAt(e, "failed")
  /\ connection' = [connection EXCEPT !.failures = @ + 1]
  /\ reported' = (reported \/ connection'.failures = TaskAfter)
  /\ EtlEnds(e)
  /\ UNCHANGED <<salesDay, detailDay, trafficDay, shopAnswers, access, night, saving,
                 cached, verifiedFor, etlFaults>>

EtlDies(e) ==
  /\ ~EtlAt(e, "idle")
  /\ etlFaults < MaxEtlFaults
  /\ etlFaults' = etlFaults + 1
  /\ EtlEnds(e)
  /\ UNCHANGED <<salesDay, detailDay, trafficDay, connection, shopAnswers, access, night,
                 saving, cached, reported, verifiedFor>>

-----------------------------------------------------------------------------
(* The connection.                                                         *)

\* testAndStoreGa4Connection
TestConnection(p) ==
  /\ p \in access
  /\ connection' = [property |-> p, verified |-> TRUE, failures |-> 0]
  /\ reported' = FALSE
  /\ verifiedFor' = p
  /\ UNCHANGED <<salesDay, detailDay, trafficDay, shopAnswers, access, night, etlRun,
                 saving, cached, etlFaults>>

\* updateDigestSettings saves the whole form; whether the property changed is
\* read first, in a statement of its own.
BeginSave(p) ==
  /\ saving = NoForm
  /\ saving' = [at |-> "read", property |-> p, changed |-> FALSE]
  /\ UNCHANGED <<salesDay, detailDay, trafficDay, connection, shopAnswers, access, night,
                 etlRun, cached, reported, verifiedFor, etlFaults>>

ReadSettings ==
  /\ saving.at = "read"
  /\ saving' = [saving EXCEPT !.at = "write",
                              !.changed = connection.property # saving.property]
  /\ UNCHANGED <<salesDay, detailDay, trafficDay, connection, shopAnswers, access, night,
                 etlRun, cached, reported, verifiedFor, etlFaults>>

WriteSettings ==
  /\ saving.at = "write"
  /\ saving' = NoForm
  /\ connection' =
       IF saving.changed
       THEN [property |-> saving.property, verified |-> FALSE, failures |-> 0]
       ELSE [connection EXCEPT !.property = saving.property]
  /\ reported' = (reported /\ ~saving.changed)
  /\ UNCHANGED <<salesDay, detailDay, trafficDay, shopAnswers, access, night, etlRun,
                 cached, verifiedFor, etlFaults>>

\* An overview that had to be fetched is kept.
FetchOverview ==
  /\ \E n \in Nights : TrafficShown(LastDays(n)) = "live"
  /\ cached' = cached \cup {connection.property}
  /\ UNCHANGED <<salesDay, detailDay, trafficDay, connection, shopAnswers, access, night,
                 etlRun, saving, reported, verifiedFor, etlFaults>>

-----------------------------------------------------------------------------
OverviewExpires(p) ==
  /\ p \in cached
  /\ cached' = cached \ {p}
  /\ UNCHANGED <<salesDay, detailDay, trafficDay, connection, shopAnswers, access, night,
                 etlRun, saving, reported, verifiedFor, etlFaults>>

ShopAnswersOrNot ==
  /\ shopAnswers' = ~shopAnswers
  /\ UNCHANGED <<salesDay, detailDay, trafficDay, connection, access, night, etlRun,
                 saving, cached, reported, verifiedFor, etlFaults>>

AccessTurns(p) ==
  /\ access' = IF p \in access THEN access \ {p} ELSE access \cup {p}
  /\ UNCHANGED <<salesDay, detailDay, trafficDay, connection, shopAnswers, night, etlRun,
                 saving, cached, reported, verifiedFor, etlFaults>>

NextNight ==
  /\ night < LastNight
  /\ night' = night + 1
  /\ UNCHANGED <<salesDay, detailDay, trafficDay, connection, shopAnswers, access,
                 etlRun, saving, cached, reported, verifiedFor, etlFaults>>

EtlStep(e) ==
  \/ StoreSales(e) \/ StoreDetail(e) \/ StoreTraffic(e) \/ ClearFailures(e)
  \/ TrafficFails(e) \/ RecordFailure(e)

WarehouseNext ==
  \/ \E e \in EtlRuns : BeginEtl(e) \/ EtlStep(e) \/ DetailFails(e) \/ EtlDies(e)
  \/ \E p \in AnyProperty : BeginSave(p)
  \/ \E p \in Properties : TestConnection(p) \/ AccessTurns(p) \/ OverviewExpires(p)
  \/ ReadSettings \/ WriteSettings \/ FetchOverview
  \/ ShopAnswersOrNot \/ NextNight

WarehouseSpec == WarehouseInit /\ [][WarehouseNext]_warehouseVars

\* The cron calls the job every night, and one that has begun goes on.
WarehouseFair ==
  \A e \in EtlRuns : WF_warehouseVars(BeginEtl(e)) /\ WF_warehouseVars(EtlStep(e))

-----------------------------------------------------------------------------
(* Properties.                                                             *)

\* Access that is lost is reported: a verified property the service account
\* cannot read any more becomes a task for the operator, unless it can be read
\* again, or the connection is changed.
LostAccessIsReported ==
  \A p \in Properties :
    connection.property = p /\ connection.verified /\ p \notin access
      ~> \/ reported
         \/ p \in access
         \/ connection.property # p
         \/ ~connection.verified

\* Refuted: a form that read the old property before a test connected another
\* writes it back as verified.
VerifiedWasTested == connection.verified => verifiedFor = connection.property

\* Refuted: the rows of a property the tenant has left stay, and a run that began
\* before writes more of them.
TrafficIsOfProperty ==
  connection.verified =>
    \A d \in StoredDays : trafficDay[d] \in {NoProperty, connection.property}

\* Refuted: a job that ends between its two statements leaves a day whose top
\* products nobody fetches again.
DetailWithSales == (\A e \in EtlRuns : EtlAt(e, "idle")) => salesDay = detailDay

\* Refuted: a sum over a range is shown whole when some of its days are stored.
SumsAreWhole ==
  \A n \in Nights : TenantAnalyticsView(n).sales.days # {} => DrawnAsNone(n) = {}

\* Refuted: up to two days of it may be missing.
CompleteIsWhole ==
  \A n \in Nights : Commerce(LastDays(n)).complete => shopAnswers \/ DrawnAsNone(n) = {}
=============================================================================
