CONSTANTS
    Autos = {"auto1", "auto2"}
    HasIp6tables = TRUE
    MaxEnables = 2
    MaxReleases = 2
    MaxFaults = 2
    MaxProbes = 0
    MaxCrashes = 1
SPECIFICATION Spec
INVARIANTS ReleaseRestores DeadlineInv
