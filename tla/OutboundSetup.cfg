CONSTANTS
    Apps = {a1, a2}
    Recv = recv
    Calls = {c1, c2}
    Ports = {p1}
    None = None
    Kinds = {"ringing", "challenge", "reject"}
    Faults = {"send"}
    MaxRetries = 2
    MaxMsgs = 5
SPECIFICATION Spec
INVARIANTS HeldPortsReserved FailedCallLeavesNothing ChallengesMatchRetries
SYMMETRY FullSymmetry
CHECK_DEADLOCK FALSE
