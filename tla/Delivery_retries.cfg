CONSTANTS
    root = root
    window = window
    Collectors = {root, window}
    WindowCollectors = {window}
    RootCollector = root
    Slots = {s1, s2}
    Sizes = {1, 2, 3}
    Unstorable = {2}
    MaxPayloadBytes = 2
    QueueMaxBytes = 3
    QueueMaxAge = 0
    PruneEveryNPushes = 2
    BatchLimit = 2
    LeaseTime = 1
    MaxRows = 3
    MaxTime = 1
    MaxFaults = 1
ACTION_CONSTRAINT Scenarios
SPECIFICATION FairSpec
INVARIANTS NoSilentLoss StoredOnce ShownIsStored
PROPERTIES ImplementsLedger PruneKeepsNewest EveryRowLeaves
