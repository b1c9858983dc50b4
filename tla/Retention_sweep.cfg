SPECIFICATION FairSpec
CONSTANTS
  d1 = d1
  NaN = NaN
  Never = Never
  None = None
  Events = {1, 2}
  Key <- MCKey
  Requests <- MCRequests
  MinDays = 1
  MaxDays = 4
  DefaultDays = 4
  SafetyFloor = 2
  Every = 2
  MaxTime = 3
  MaxRequests = 3
  MaxFaults = 1
INVARIANTS HistoryInv PolicySurvives SnapshotRegular
PROPERTIES SweptEventually
CHECK_DEADLOCK FALSE
