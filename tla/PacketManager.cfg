CONSTANTS
    Span = 4
    Erase = 2
    Offsets = {0, 1, 5}
    Largest = 3
    Sizes = {1, 3}
    Lengths = {0, 1, 3}
    Deltas <- MCDeltas
    MaxWrites = 4
    MaxReads = 2
    MaxBegins = 1
    MaxShifts = 1
    FarShifts = FALSE
SPECIFICATION Spec
INVARIANTS LogIsTheBuffer NothingReplayed
PROPERTIES ImplementsPlayout
CHECK_DEADLOCK FALSE
