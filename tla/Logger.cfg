SPECIFICATION FairSpec
CONSTANTS
    Room = 2
    MaxLines = 7
    Null = Null
INVARIANTS LinesKept
PROPERTIES LineWritten
CHECK_DEADLOCK FALSE
