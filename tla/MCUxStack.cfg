CONSTANTS
    XWORDS = 50
    LOCALS = 1
    Deep = FALSE
SPECIFICATION Spec
INVARIANTS
    StackIntact
PROPERTIES
    ReturnRestores
CHECK_DEADLOCK FALSE
