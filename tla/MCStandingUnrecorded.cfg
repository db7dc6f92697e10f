\* One operator unsuspends and the last transaction fails.
SPECIFICATION Spec
CONSTANTS
  t1 = t1
  t2 = t2
  s1 = s1
  s2 = s2
  None = None
  Tenants = {t1}
  Sessions = {s1}
  Faults = {"database"}
  MaxFaults = 1
INVARIANT SuspendedIsHeld
