\* Two requests race on drafts built from the sources; two periods.
SPECIFICATION Spec
CONSTANTS
    InvoiceIds = {i1, i2}
    p1 = p1
    p2 = p2
    Periods <- TwoPeriods
    Started <- FirstStarted
    OnceOffs = {a1}
    Sessions = {s1, s2}
    Years <- OneYear
    Outcomes <- CommissionPlan
    Requests <- AutoRequests
    None = None
SYMMETRY Interchangeable
CHECK_DEADLOCK FALSE
INVARIANTS
    TypeOK
    CreditNotesMatch
    AutoIssuedAsReviewed
    FlagExcludesApproval
    AutoCommissionAccounted
    BilledIsCharged
PROPERTY RegisterKept
