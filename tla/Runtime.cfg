SPECIFICATION Spec
CONSTANTS
    t1 = t1
    t2 = t2
    A = A
    B = B
    Svc = svc
    None = none
    App = {t1, t2}
    Topic = {A, B}
    HeaderUnits = 2
    PageUnits = 4
    Setups <- MCSetups
INVARIANTS
    EachOnce
    ViewIntact
    NoStrand
    CallbackRules
    ClosedAlone
