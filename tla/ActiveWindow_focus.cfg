SPECIFICATION WindowSpec
CONSTANTS
  a1 = a1
  a2 = a2
  NoApp = NoApp
  None = None
  Programs = {a1, a2}
  Display = "x11"
  AllowProcGuess = TRUE
  MaxSampleGap = 1
  StaleAt = 2
  MaxTime = 5
  MaxSleeps = 1
  SleepTime = 5
  MaxFailures = 1
INVARIANTS CreditInv TotalsAgree
CHECK_DEADLOCK FALSE
