\* One request at a time: an expense put on a hand-made draft while an auto draft is open.
SPECIFICATION Spec
CONSTANTS
    InvoiceIds = {i1, i2}
    p1 = p1
    p2 = p2
    Periods <- TwoPeriods
    Started <- FirstStarted
    OnceOffs = {a1}
    Sessions = {s1}
    Years <- OneYear
    Outcomes <- Readable
    Requests <- ExpenseRequests
    None = None
SYMMETRY Interchangeable
CHECK_DEADLOCK FALSE
INVARIANT OneCharge
