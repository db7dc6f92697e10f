\* One request at a time: a hand-made draft seeded while sales are unreadable.
SPECIFICATION Spec
CONSTANTS
    InvoiceIds = {i1}
    p1 = p1
    p2 = p2
    Periods <- OnePeriod
    Started <- FirstStarted
    OnceOffs = {a1}
    Sessions = {s1}
    Years <- OneYear
    Outcomes <- CommissionPlan
    Requests <- SeedRequests
    None = None
SYMMETRY Interchangeable
CHECK_DEADLOCK FALSE
INVARIANT UnreadableNeverIssued
