CONSTANTS
    Desired = "sendrecv"
    Family = "IP4"
    Codecs = {"pcmu", "event"}
    Speech = {"pcmu"}
    LastPort = 9
    Initials <- MCInitials
    MaxCSeq = 3
    MaxFaults = 1
SPECIFICATION Spec
INVARIANT AlwaysAgreed
CHECK_DEADLOCK FALSE
