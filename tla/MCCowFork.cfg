CONSTANTS
    Env = {e1, e2}
    NULL = NULL
    Page = {p1, p2, p3, p4, p5, p6, p7}
    NVA = 3
    Layout <- ThreeKinds
    Values = {0, 1}
    ZERO = 0
SPECIFICATION FairSpec
INVARIANTS
    Private
    FaultsAreHandled
PROPERTIES
    IsACopy
    ForkEnds
CHECK_DEADLOCK FALSE
