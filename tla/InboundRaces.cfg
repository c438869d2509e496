CONSTANTS
    Apps = {a1, a2}
    Recv = recv
    Calls = {c1}
    Invites = {i1}
    Ports = {p1}
    None = None
    Faults = {"send", "bind", "thread"}
    MaxMsgs = 3
SPECIFICATION FairSpec
INVARIANTS AnswerExclusive AcceptExcludesReject EndedIsRemembered
PROPERTIES ImplementsLifecycle EndedIsReleased

