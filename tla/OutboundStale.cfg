CONSTANTS
    Apps = {a1, a2}
    Recv = recv
    Calls = {c1}
    Ports = {p1}
    None = None
    Kinds = {"ringing", "challenge"}
    Faults = {}
    MaxRetries = 1
    MaxMsgs = 3
SPECIFICATION Spec
INVARIANTS StaleFailureIgnored
CHECK_DEADLOCK FALSE
