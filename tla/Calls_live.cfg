SPECIFICATION FairSpec
CONSTANTS
  Providers = {p1, p2}
  IsTask = TRUE
  CallerQueue = FALSE
  DefQueue = FALSE
  OnePoller = FALSE
  RingCap = 4
  Evicts = {FALSE}
  Syncs = {TRUE, FALSE}
  Drops = TRUE
  SilentCalls = FALSE
  Returns = FALSE
  StaleTokens = FALSE
  Cells = {c1}
  MaxCalls = 1
  MaxProgress = 0
  MaxFaults = 2
PROPERTIES
    EveryCallEnds
CHECK_DEADLOCK FALSE
