CONSTANTS
    Autos = {"auto1", "auto2"}
    HasIp6tables = FALSE
    MaxEnables = 2
    MaxReleases = 1
    MaxFaults = 1
    MaxProbes = 1
    MaxCrashes = 2
SPECIFICATION FairSpec
PROPERTIES DeadlineHonoured PollerReturns
