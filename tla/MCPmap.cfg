CONSTANTS
    CPU = {c1, c2}
    Env = {e1, e2}
    NULL = NULL
    Page = {p1, p2, p3, p4, p5}
    Pdx = {0, 1}
    Ptx = {0, 1}
    Image <- OnePage
    REFLIMIT = 16
SPECIFICATION Spec
SYMMETRY PageSymmetry
INVARIANTS
    RefCountExact
    FreeIsUnreferenced
    WellFormed
PROPERTIES
    StaleOnlyByParent
