\* Two requests generate the same period.
SPECIFICATION Spec
CONSTANTS
    InvoiceIds = {i1, i2}
    p1 = p1
    p2 = p2
    Periods <- OnePeriod
    Started <- FirstStarted
    OnceOffs = {a1}
    Sessions = {s1, s2}
    Years <- OneYear
    Outcomes <- Readable
    Requests <- QuietRequests
    None = None
SYMMETRY Interchangeable
CHECK_DEADLOCK FALSE
INVARIANT OneLivePerPeriod
