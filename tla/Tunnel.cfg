SPECIFICATION FairSpec
CONSTANTS
    Slot = {1, 2}
    Group = {"g1", "g2"}
    Numbers = 4
    QueueMax = 2
    BatchMax = 2
    Backlog = 1
    Setups <- MCSetups
INVARIANTS
    Synced
    OwnBinding
PROPERTIES
    Reopens
