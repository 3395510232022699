SPECIFICATION WalkSpec
CHECK_DEADLOCK FALSE
CONSTANTS
    Source <- Loops
    Entry = "main"
    Chunk = 6
    Intervals = {0, 1, 2}
    Limits = {17}
    MaxDepth = 2
    NumberedFirst = TRUE
INVARIANTS
    ReadByItsWriter
