CONSTANTS
    Autos = {"auto1"}
    HasIp6tables = TRUE
    MaxEnables = 2
    MaxReleases = 0
    MaxFaults = 0
    MaxProbes = 0
    MaxCrashes = 0
SPECIFICATION Spec
INVARIANTS QuarantineHasDeadline
