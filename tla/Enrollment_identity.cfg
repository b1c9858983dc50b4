SPECIFICATION FairSpec
CONSTANTS
    m1 = m1
    m2 = m2
    Machines = {m1, m2}
    Agents = {m1}
    HW <- MCHW
    MAC <- MCMAC
    Slots = {s1, s2}
    MaxOps = 2
    MaxFaults = 1
INVARIANTS IdentityInv DeletedIsGone
PROPERTIES MachineRecovers
