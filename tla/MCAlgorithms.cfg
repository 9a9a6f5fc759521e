SPECIFICATION Spec
CONSTANTS
    WORD = 2
    LONGBITS = 7
    BUFSIZE = 4
    MAXERROR = 3
    NULL = NULL
    MAXARGS = 3
    Commands <- MCCommands
    SECTSIZE = 3
    MEMSIZE = 8
    MAXWIDTH = 5
    MAXSTR = 3
    MAXLINE = 5
    NSTAB = 6
    MAXSEG = 4
INVARIANTS
    CopiesRight
    OutputRight
    LookupRight
    SegmentsLoaded
CHECK_DEADLOCK FALSE
