\* One worker, one request, no failure.
SPECIFICATION Spec
CONSTANTS
  a = a
  b = b
  w1 = w1
  w2 = w2
  o1 = o1
  o2 = o2
  d = d
  None = None
  TenantIds = {a}
  DomainOf <- OneDomain
  Workers = {w1}
  Operators = {o1}
  MaxJobs = 1
  MaxRetries = 0
  MaxFaults = 0
INVARIANT OperatorsPassword
