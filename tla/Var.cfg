SPECIFICATION Spec
CONSTANTS
    o1 = o1
    o2 = o2
    a1 = a1
    t1 = t1
    t2 = t2
    t3 = t3
    None = None
    Owner = {o1, o2}
    Accessor = {a1}
    Thread = {t1, t2, t3}
    W = 16
    KeepLast = 4
    Setups <- MCSetups
INVARIANTS
    ValueTrue
    KnownTrue
