\* One invoice, one ladder, one operator; one client, one desk and one snapshot;
\* one tenant's subscriptions over a month and the coming one.
SPECIFICATION ConsoleSpec
CONSTANTS
  i1 = i1
  c1 = c1
  d1 = d1
  k1 = k1
  b1 = b1
  s1 = s1
  e1 = e1
  e2 = e2
  Bills = {i1}
  CronRuns = {c1}
  Desks = {d1}
  Days <- MCDays
  MaxMishaps = 1
  Clients = {k1}
  BillingDesks = {b1}
  Snapshots = {s1}
  OneAtATime = TRUE
  MaxSnags = 1
  LastMonth = 1
  DaysInMonth = 2
  Prices = {1, 2}
  Editors = {e1, e2}
  MaxSubs = 3
  MaxEdits = 2
  MaxLosses = 1
INVARIANT PartialNeverBilled
\* The edits of a subscription are bounded.
CHECK_DEADLOCK FALSE
