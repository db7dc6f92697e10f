\* The one worker of the server, two requests at once, two failures.
SPECIFICATION FairSpec
CONSTANTS
  a = a
  b = b
  w1 = w1
  w2 = w2
  o1 = o1
  o2 = o2
  d = d
  None = None
  TenantIds = {a, b}
  DomainOf <- OneDomain
  Workers = {w1}
  Operators = {o1, o2}
  MaxJobs = 2
  MaxRetries = 1
  MaxFaults = 2
INVARIANTS TypeOK SucceededIsUp
PROPERTIES SucceededIsFinal JobEnds
