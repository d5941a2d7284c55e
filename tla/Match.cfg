SPECIFICATION Spec
CONSTANTS
    n1 = n1
    n2 = n2
    Node = {n1, n2}
    Slot = {1, 2}
    Hash <- MCHash
    Narrower <- MCNarrower
    Stem <- MCStem
    Channel <- MCChannel
    Setups <- MCSetups
    MaxInFlight = 2
INVARIANTS
    RightTopic
    Answerable
    CalmIsMatched
    ReadyIsMatched
    ShownTrue
CHECK_DEADLOCK FALSE
