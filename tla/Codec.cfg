SPECIFICATION Spec
CONSTANTS
    MaxDepth = 4
    Limit = 12
    Cap = 11
    MapCap = 10
    KeyMax = 1
    CountMax = 2
    EnumMax = 2
    MaxDefs = 4
    Std <- MCStd
    Setups <- MCSetups
INVARIANTS
    Canonical
    ReadersAgree
    ExactlyMessages
    MapReadsBack
    PrintInverse
