CONSTANTS
    Users = {"ann", "bob"}
    Passwords = {"p1", "p2"}
    Roles = {"admin", "viewer"}
    Slots = {s1, s2}
    FailLimit = 1
    Window = 2
    LockTTL = 1
    MaxOps = 3
    MaxTime = 1
    MaxFaults = 1
SPECIFICATION Spec
SYMMETRY SlotSymmetry
INVARIANTS SessionInv AdminRemains GuessesBounded BootstrapExclusive
