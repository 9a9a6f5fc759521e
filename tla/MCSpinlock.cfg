CONSTANTS
    CPU = {c1, c2, c3}
    NULL = NULL
SPECIFICATION FairSpec
INVARIANTS
    MutualExclusion
    NoFalsePanic
PROPERTIES
    LockProgress
    Refinement
