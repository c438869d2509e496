CONSTANTS
    Span = 6
    Erase = 3
    Offsets = {0, 1, 2, 3, 5, 8, 11}
    Largest = 3
    Sizes = {1, 3}
    Lengths = {0, 2, 3}
    Deltas <- MCFarDeltas
    MaxWrites = 3
    MaxReads = 3
    MaxBegins = 1
    MaxShifts = 1
    FarShifts = TRUE
SPECIFICATION Spec
INVARIANT NothingReplayed
CHECK_DEADLOCK FALSE
