\* One tenant; one run of each job at a time; a critical signal that takes two
\* bad checks and a warning that takes one.
SPECIFICATION ServicesFairSpec
CONSTANTS
  e1 = e1
  g1 = g1
  t1 = t1
  a1 = a1
  a2 = a2
  r1 = r1
  down = down
  slow = slow
  p1 = p1
  LastNight = 2
  Properties = {g1}
  EtlRuns = {e1}
  Trailing = 1
  MaxFailures = 4
  MaxEtlFaults = 1
  DigestTenants = {t1}
  Addresses = {a1, a2}
  Main = {a1}
  DigestRuns = {r1}
  Offered = {"weekly"}
  LastDay = 3
  DaysInWeek = 2
  DaysInMonth = 2
  MaxDigestFaults = 1
  Signals = {down, slow}
  Critical = {down}
  SiteDown = down
  Consecutive <- MCConsecutive
  Polls = {p1}
  MaxTurns = 3
  MaxAlertFaults = 1
INVARIANTS ServicesTypeOK DigestsBounded ToldFollowsAlert
PROPERTIES LostAccessIsReported TroubleIsRaised
