SPECIFICATION Spec
CONSTANTS
    r1 = r1
    r2 = r2
    r3 = r3
    o1 = o1
    u1 = u1
    n1 = n1
    n2 = n2
    t1 = t1
    t2 = t2
    Req = {r1, r2, r3}
    OldRule = {o1}
    UserId = {u1}
    Name = {n1, n2}
    Text = {t1, t2}
    None = None
    NoRow = NoRow
    NoCall = NoCall
    Calls <- MCEvery
    MaxFaults = 1
    MaxCrashes = 1
    MaxWrites = 1
INVARIANT CreationsTrue
INVARIANT IndInv
PROPERTY AtomicUnlessOverlapped
PROPERTY ReenabledOnRequest
PROPERTY RefusedForCause
SYMMETRY MCSymmetry
CHECK_DEADLOCK FALSE
