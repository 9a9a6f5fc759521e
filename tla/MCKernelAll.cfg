CONSTANTS
    CPU = {c1, c2}
    BSP = c1
    NULL = NULL
    NENV = 2
    GENSTEP = 2
    IDLIMIT = 6
    NBOOT = 1
    Dispatched = {"env_destroy", "exofork", "env_set_status",
                  "ipc_try_send", "ipc_recv"}
    Disciplined = {"env_set_status", "env_destroy"}
    Values = {1}
SPECIFICATION Spec
INVARIANTS
    KernelInv
    IdNamesSlot
    NoSpuriousReceive
PROPERTIES
    FrameStable
    DeliveredIsKept
CHECK_DEADLOCK FALSE
