CONSTANTS
    Desired = "sendrecv"
    Family = "IP4"
    Codecs = {"pcmu", "event"}
    Speech = {"pcmu"}
    LastPort = 9
    Initials <- MCSlotInitials
    MaxCSeq = 3
    MaxFaults = 1
SPECIFICATION Spec
INVARIANT AnswerKeepsSlots
CHECK_DEADLOCK FALSE
