\* One request at a time, every kind of request; two periods.
SPECIFICATION Spec
CONSTANTS
    InvoiceIds = {i1, i2}
    p1 = p1
    p2 = p2
    Periods <- TwoPeriods
    Started <- FirstStarted
    OnceOffs = {a1}
    Sessions = {s1}
    Years <- OneYear
    Outcomes <- Readable
    Requests <- AllRequests
    None = None
SYMMETRY Interchangeable
CHECK_DEADLOCK FALSE
INVARIANTS
    OneLivePerPeriod
    OneAutoCharge
    NumbersGapFree
