SPECIFICATION Spec
CONSTANTS
    a1 = a1
    a2 = a2
    a3 = a3
    Row = {a1, a2, a3}
    Time = {1, 2, 3}
    Asks <- MCEvery
    NoAsk = NoAsk
    Omitted = Omitted
    DefaultSize = 2
    MaxSize = 3
    Half = 8
    MaxFaults = 1
INVARIANT TotalCoversPage
INVARIANT NoneMissed
INVARIANT IndInv
PROPERTY RepeatedForCause
SYMMETRY MCSymmetry
CHECK_DEADLOCK FALSE
