\* One request at a time: a paid invoice and the credit note its guard admits.
SPECIFICATION Spec
CONSTANTS
    InvoiceIds = {i1}
    p1 = p1
    p2 = p2
    Periods <- OnePeriod
    Started <- FirstStarted
    OnceOffs = {a1}
    Sessions = {s1}
    Years <- OneYear
    Outcomes <- Readable
    Requests <- QuietRequests
    None = None
SYMMETRY Interchangeable
CHECK_DEADLOCK FALSE
INVARIANT AdmittedCanBeCredited
