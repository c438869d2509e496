CONSTANTS
    None = None
    Bad = Bad
    URIs <- MCURIs
    Defaults <- MCDefaults
    Naptrs <- MCNaptrs
    Srvs <- MCSrvs
    MaxAddresses = 2
    Streams <- MCStreams
    Layout <- MCLayout
    Lengths <- MCLengths
    Senders = {s1, s2}
    Size = 2
    MaxSends = 3
    Early = TRUE
SPECIFICATION Spec
INVARIANTS ResolvedAsAdvertised WeightsDecide FramesAreMessages WireWhole
CHECK_DEADLOCK FALSE
