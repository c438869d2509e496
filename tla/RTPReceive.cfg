CONSTANTS
    None = None
    Span = 40
    Erase = 20
    TsWrap = 32
    SeqWrap = 16
    AudioRate = 2
    EventRate = 1
    PcmRate = 2
    MaxDuration = 2
    Memory = 8
    Scripts <- MCScripts
    Window = 4
    MaxRepeats = 2
    MaxReads = 2
    Lengths = {2, 3}
    MaxRestarts = 1
    MayLose = TRUE
    Faults = {"decode"}
SPECIFICATION Spec
INVARIANTS HeardInOrder TimelineFaithful PressIsOneDigit
CHECK_DEADLOCK FALSE
