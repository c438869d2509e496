CONSTANTS
    Apps = {a1}
    Recv = recv
    Calls = {c1, c2}
    Invites = {i1, i2}
    Ports = {p1}
    None = None
    Faults = {}
    MaxMsgs = 4
SPECIFICATION Spec
INVARIANTS HeldPortsReserved TagOfRegisteredCall
SYMMETRY FullSymmetry
