\* An offboarding overtakes the last transaction of an unsuspension.
SPECIFICATION Spec
CONSTANTS
  t1 = t1
  t2 = t2
  s1 = s1
  s2 = s2
  None = None
  Tenants = {t1}
  Sessions = {s1, s2}
  Faults = {}
  MaxFaults = 0
PROPERTY OffboardedIsFinal
