SPECIFICATION Spec
CONSTANTS
    n1 = n1
    n2 = n2
    n3 = n3
    t = t
    Node = {n1, n2, n3}
    Interest <- HubInterest
    Reach <- HubReach
    External = {}
    Observers = {}
    Leavers = {}
    Cap = 1
    Setups <- HubSetups
    AskTries = 2
    Margin = 0
    MaxInFlight = 1
    Gathering = FALSE
INVARIANTS
    SlotsSound
PROPERTIES
    NoMatchEvicted
CHECK_DEADLOCK FALSE
