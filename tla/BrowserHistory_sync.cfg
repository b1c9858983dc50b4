SPECIFICATION FairSpec
CONSTANTS
    p1 = p1
    s1 = s1
    NoHost = NoHost
    Databases = {d1}
    PerVisit = {d1}
    Pages = {p1}
    Site <- MCSite
    Title <- MCTitle
    Policies <- MCPolicies
    FirstPolicy <- Domains
    ScanLimit = 3
    UploadLimit = 2
    SentLimit = 3
    DayLength = 2
    MaxVisits = 3
    MaxPolicies = 1
    MaxFaults = 1
INVARIANTS SentInv AgainOnlyIfForgotten ArchiveCovers
PROPERTIES VisitsShown
CHECK_DEADLOCK FALSE
