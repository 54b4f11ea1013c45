SPECIFICATION Spec
CONSTANTS
    MaxChanges = 2
    NULL = NULL
INVARIANT EveryViolationIsPrinted
CHECK_DEADLOCK FALSE
