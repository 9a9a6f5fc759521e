CONSTANTS
    NPTENTRIES = 20
    NPDENTRIES = 9
    WINDOW = 2
    IOPHYSMEM = 5
    EXTPHYSMEM = 7
    MPENTRY = 2
    NCPU = 3
    MAXAPICID = 4
    KSTKSIZE = 1
    KSTKGAP = 1
    KernelPages = 4
    PageInfoSize = 12
    EnvsSize = 2
    Machines <- MCMachines
SPECIFICATION Spec
INVARIANTS
    TouchedIsMapped
    MemoryRight
    CpusRight
PROPERTIES
    AllCpusStart
CHECK_DEADLOCK FALSE
