SPECIFICATION FairSpec
CONSTANTS
    d1 = d1
    None = None
    Versions <- MCVersions
    Devices = {d1}
    Keyed = {d1}
    FirstVersion <- Ahead
    requireActivation = TRUE
    requireSignature = FALSE
    serverSigns = TRUE
    MaxBuilds = 2
    MaxOps = 2
    MaxFaults = 1
INVARIANTS ReleaseInv NoSurpriseDowngrade Bootable
PROPERTIES CatchesUp
CHECK_DEADLOCK FALSE
