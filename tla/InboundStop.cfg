CONSTANTS
    Apps = {a1, a2}
    Recv = recv
    Calls = {c1}
    Invites = {i1}
    Ports = {p1}
    None = None
    Faults = {}
    MaxMsgs = 3
SPECIFICATION Spec
INVARIANTS StopEndsCalls
