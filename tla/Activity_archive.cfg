SPECIFICATION Spec
CONSTANTS
    a = a
    b = b
    hidden = hidden
    u = u
    e1 = e1
    e2 = e2
    e3 = e3
    Apps = {a, b, hidden}
    Hidden = {hidden}
    DayLength = 12
    MergeGap = 3
    OnlineCap = 4
    Users = {u}
    Events = {e1, e2, e3}
    Payload <- MCPayload
    Slots = {s1, s2}
    maxWriteAttempts = 2
    MaxUploads = 4
    MaxFaults = 1
SYMMETRY SlotSymmetry
INVARIANTS ArchiveInv DayInv ReportInv FocusInv
CHECK_DEADLOCK FALSE
