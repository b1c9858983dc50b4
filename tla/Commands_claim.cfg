CONSTANTS
    root = root
    window = window
    Processes = {root, window}
    Root = root
    Types = {"quarantine_enable", "quarantine_release", "restart_agent", "collect_now", "wipe_agent"}
    ClaimLimit = 2
    TTL = 1
    MaxCommands = 2
    MaxTime = 1
    MaxFailures = 2
ACTION_CONSTRAINTS Menu Expiry Rekeyed
SPECIFICATION CommandsFairSpec
INVARIANTS ClaimInv ExecutedOnce ResultTruthful
PROPERTIES NoOvertaking PollersRecover
CHECK_DEADLOCK FALSE
