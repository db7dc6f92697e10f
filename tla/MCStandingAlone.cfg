\* One operation at a time, one fault of any kind but a crash in each.
SPECIFICATION FairSpec
CONSTANTS
  t1 = t1
  t2 = t2
  s1 = s1
  s2 = s2
  None = None
  Tenants = {t1, t2}
  Sessions = {s1}
  Faults = {"caddy", "verify", "rollback", "database"}
  MaxFaults = 1
INVARIANTS TypeOK ActiveIsServed
PROPERTIES RecordedWhenHeld OffboardedIsFinal SuspensionDecided
