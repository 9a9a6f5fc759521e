CONSTANTS
    NENV = 5
    LIMIT = 9
    LAST = 3
    NONE = NONE
SPECIFICATION Spec
INVARIANTS
    ProgramsRight
PROPERTIES
    IpcIsRendezvous
    Outcome
