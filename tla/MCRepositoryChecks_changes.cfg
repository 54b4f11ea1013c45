\* Every repository that differs from the good one in up to three ways.
SPECIFICATION Spec
CONSTANTS
    MaxChanges = 3
    NULL = NULL
INVARIANTS
    TypeOK
    GreenIsEarned
    ReportIsExact
CHECK_DEADLOCK FALSE
