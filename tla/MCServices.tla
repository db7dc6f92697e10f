------------------------------ MODULE MCServices ------------------------------
(* The three jobs that read the shops and tell people about them: the        *)
(* warehouse of figures, the customers' digests and the alerts.  As in the   *)
(* console's module, every behaviour is one of a single part.                *)
EXTENDS Warehouse, Digests, Alerts, TLC

CONSTANTS e1, g1, t1, a1, a2, r1, down, slow, p1

VARIABLE part

serviceVars == <<part, warehouseVars, digestVars, alertVars>>

MCConsecutive == [s \in Signals |-> IF s = down THEN 2 ELSE 1]

ServicesInit ==
  /\ part \in {"warehouse", "digests", "alerts"}
  /\ WarehouseInit
  /\ DigestsInit
  /\ part # "digests" => receives = [t \in DigestTenants |-> {}]
  /\ AlertsInit

ServicesNext ==
  \/ /\ part = "warehouse" /\ WarehouseNext
     /\ UNCHANGED <<part, digestVars, alertVars>>
  \/ /\ part = "digests" /\ DigestsNext
     /\ UNCHANGED <<part, warehouseVars, alertVars>>
  \/ /\ part = "alerts" /\ AlertsNext
     /\ UNCHANGED <<part, warehouseVars, digestVars>>

\* WarehouseFair and AlertsFair, where that part runs.
Stores(A) == part = "warehouse" /\ A /\ UNCHANGED <<part, digestVars, alertVars>>
Watches(A) == part = "alerts" /\ A /\ UNCHANGED <<part, warehouseVars, digestVars>>

ServicesFair ==
  /\ \A e \in EtlRuns : /\ WF_warehouseVars(Stores(BeginEtl(e)))
                        /\ WF_warehouseVars(Stores(EtlStep(e)))
  /\ \A p \in Polls : /\ WF_alertVars(Watches(BeginPoll(p)))
                      /\ WF_alertVars(Watches(PollStep(p)))
  /\ \A s \in Signals : WF_alertVars(Watches(CooldownEnds(s)))
  /\ WF_alertVars(Watches(WindowEnds))

ServicesSpec == ServicesInit /\ [][ServicesNext]_serviceVars
ServicesFairSpec == ServicesSpec /\ ServicesFair

\* The types of the three parts.
ServicesTypeOK == WarehouseTypeOK /\ DigestsTypeOK /\ AlertsTypeOK
=============================================================================
