CONSTANTS
    Apps = {a1}
    Recv = recv
    Calls = {c1, c2}
    Invites = {i1}
    Ports = {p1, p2}
    None = None
    Faults = {}
    MaxMsgs = 4
SPECIFICATION Spec
INVARIANTS IInv OneCallPerInvite
