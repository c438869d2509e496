CONSTANTS
    Apps = {a1, a2}
    Recv = recv
    Calls = {c1}
    Ports = {p1}
    None = None
    Kinds = {"ringing", "ok", "reject", "bye"}
    Faults = {"send", "sdp", "bind"}
    MaxRetries = 0
    MaxMsgs = 4
SPECIFICATION FairSpec
INVARIANTS AnswerExclusive LateAnswerRecognised
PROPERTIES ImplementsLifecycle EndedIsReleased CallReturns
CHECK_DEADLOCK FALSE
