SPECIFICATION FairSpec
CONSTANTS
    n1 = n1
    n2 = n2
    n3 = n3
    t = t
    Node = {n1, n2}
    Interest <- PairInterest
    Reach <- PairReach
    External = {n2}
    Observers = {}
    Leavers = {n2}
    Cap = 1
    Setups <- PairSetups
    AskTries = 2
    Margin = 0
    MaxInFlight = 1
    Gathering = FALSE
INVARIANTS
    LeftStaysGone
    NeverBothAssume
PROPERTIES
    Converges
CHECK_DEADLOCK FALSE
