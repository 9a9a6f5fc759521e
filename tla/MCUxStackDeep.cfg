CONSTANTS
    XWORDS = 18
    LOCALS = 2
    Deep = TRUE
SPECIFICATION Spec
INVARIANTS
    StackIntact
CHECK_DEADLOCK FALSE
