CONSTANTS
    CPU = {c1, c2}
    BSP = c1
    NULL = NULL
    NENV = 3
    GENSTEP = 3
    IDLIMIT = 6
    NBOOT = 1
    Dispatched = {"env_destroy", "exofork", "env_set_status"}
    Disciplined = {"env_set_status", "env_destroy"}
    Values = {1}
SPECIFICATION FairSpec
INVARIANTS
    OneCpu
    ExecutingIsMarked
    FreeListExact
    ChildReturnsZero
    LockOncePerTrap
PROPERTIES
    ZombieFreed
    RunnableRuns
CHECK_DEADLOCK FALSE
