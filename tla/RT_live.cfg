SPECIFICATION LiveSpec
CONSTANTS
  Readers = {r1}
  Directed = FALSE
  Dests = {"all"}
  KeepLast = 1
  CatchUp = 0
  NackWindow = 2
  FragCounts = {2}
  Patient = FALSE
  Accepts = {0, 2}
  MemChoices = {TRUE}
  AskChoices = {FALSE}
  Duplicates = FALSE
  FreshWindow = FALSE
  Sleeps = FALSE
  WriterForgets = FALSE
  MaxSamples = 2
  MaxEpoch = 1
  MaxData = 1
  MaxHbs = 1
  MaxAcks = 1
  MaxLosses = 1
INVARIANTS
  TypeOK
  NoSilentLoss
  WholeSamples
  RequestsFitWindow
PROPERTIES
  ImplementsOrderedDelivery
  CatchesUp
CHECK_DEADLOCK FALSE
