\* Two operations at once, every kind of fault, two in each operation.
SPECIFICATION FairSpec
CONSTANTS
  t1 = t1
  t2 = t2
  s1 = s1
  s2 = s2
  None = None
  Tenants = {t1}
  Sessions = {s1, s2}
  Faults = {"caddy", "verify", "rollback", "database", "crash"}
  MaxFaults = 2
PROPERTY OperationEnds
