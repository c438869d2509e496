CONSTANTS
    Apps = {a1, a2}
    Recv = recv
    Calls = {c1}
    Ports = {p1}
    None = None
    Kinds = {"ringing", "ok"}
    Faults = {}
    MaxRetries = 0
    MaxMsgs = 2
SPECIFICATION Spec
INVARIANTS NoAnswerLost
CHECK_DEADLOCK FALSE
