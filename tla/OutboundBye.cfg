CONSTANTS
    Apps = {a1, a2}
    Recv = recv
    Calls = {c1}
    Ports = {p1}
    None = None
    Kinds = {"ringing", "ok", "bye"}
    Faults = {}
    MaxRetries = 0
    MaxMsgs = 3
SPECIFICATION Spec
INVARIANTS AnsweredIsRegistered
CHECK_DEADLOCK FALSE
