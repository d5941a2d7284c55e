SPECIFICATION Spec
CONSTANTS
  Providers = {p1}
  IsTask = TRUE
  CallerQueue = TRUE
  DefQueue = TRUE
  OnePoller = TRUE
  RingCap = 1
  Evicts = {TRUE, FALSE}
  Syncs = {TRUE, FALSE}
  Drops = TRUE
  SilentCalls = TRUE
  Returns = TRUE
  StaleTokens = FALSE
  Cells = {c1}
  MaxCalls = 2
  MaxProgress = 1
  MaxFaults = 1
INVARIANTS
    OneOutcome
    NoProviderNeverRan
    ProgressWithinCall
CHECK_DEADLOCK FALSE
