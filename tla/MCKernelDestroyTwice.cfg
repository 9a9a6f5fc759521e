CONSTANTS
    CPU = {c1, c2}
    BSP = c1
    NULL = NULL
    NENV = 2
    GENSTEP = 2
    IDLIMIT = 4
    NBOOT = 1
    Dispatched = {"env_destroy", "exofork", "env_set_status"}
    Disciplined = {"env_set_status"}
    Values = {1}
SPECIFICATION Spec
INVARIANTS
    ExecutingIsMarked
CHECK_DEADLOCK FALSE
