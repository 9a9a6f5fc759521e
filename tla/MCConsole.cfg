CONSTANTS
    CONSBUFSIZE = 3
    CRT_COLS = 3
    CRT_ROWS = 3
    BUFLEN = 4
    Keys <- MCKeys
    SerialChars = {127}
    MAXEVENTS = 4
SPECIFICATION Spec
INVARIANTS
    ConsoleInv
PROPERTIES
    RingIsQueue
    InputIsConsumed
CHECK_DEADLOCK FALSE
