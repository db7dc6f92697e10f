\* A poll cycle that listed the tenant ends after its suspension.
SPECIFICATION Spec
CONSTANTS
  t1 = t1
  t2 = t2
  s1 = s1
  s2 = s2
  None = None
  Tenants = {t1}
  Sessions = {s1}
  Faults = {}
  MaxFaults = 0
INVARIANT SuspendedIsSilent
