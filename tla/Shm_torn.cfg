SPECIFICATION SharedSpec
CONSTANTS
  Readers = {r1}
  SameHost = {r1}
  Classes = {k1}
  BigCount = 2
  MaxRetry = 2
  Directed = FALSE
  Dests = {"all"}
  KeepLast = 1
  CatchUp = 0
  NackWindow = 2
  FragCounts = {1}
  Patient = FALSE
  Accepts = {0, 2}
  MemChoices = {TRUE, FALSE}
  AskChoices = {TRUE}
  Duplicates = FALSE
  FreshWindow = FALSE
  Sleeps = FALSE
  WriterForgets = FALSE
  MaxSamples = 3
  MaxEpoch = 1
  MaxData = 1
  MaxHbs = 1
  MaxAcks = 1
INVARIANTS
  Untorn
CHECK_DEADLOCK FALSE
