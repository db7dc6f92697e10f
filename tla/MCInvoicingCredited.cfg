\* One request at a time: an invoice with a once-off is credited.
SPECIFICATION Spec
CONSTANTS
    InvoiceIds = {i1}
    p1 = p1
    p2 = p2
    Periods <- OnePeriod
    Started <- FirstStarted
    OnceOffs = {a1}
    Sessions = {s1}
    Years <- OneYear
    Outcomes <- Readable
    Requests <- QuietRequests
    None = None
SYMMETRY Interchangeable
CHECK_DEADLOCK FALSE
INVARIANT CreditedIsUnbilled
