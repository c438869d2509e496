CONSTANTS
    None = None
    Frame = 4
    Align = 2
    Period = 2
    Latency = 2
    Lead = 1
    TsWrap = 32
    SeqWrap = 4
    AudioRate = 2
    EventRate = 1
    Tone = 1
    Finals = 2
    Poll = 1
    MaxTime = 4
    MaxDials = 2
    MaxNow = 1
    Sizes = {3, 5}
    MaxWrites = 2
    MaxHolds = 2
    MaxStops = 1
    MaxCalls = 3
    Modes = {"buffered", "realtime"}
    Faults = {"encode"}
SPECIFICATION Spec
INVARIANTS DigitsInOrder SamplesStayWhole
PROPERTIES FollowsTheClock
CHECK_DEADLOCK FALSE
