SPECIFICATION Spec
CONSTANTS
    r1 = r1
    r2 = r2
    alice = alice
    bob = bob
    Req = {r1, r2}
    UserId = {alice, bob}
    RuleId = {x1, x2}
    NoUser = NoUser
    NoTxn = NoTxn
    NoCall = NoCall
    Calls <- MCMixed
    MaxOpenConns = 2
    MaxFaults = 1
    MaxCrashes = 1
    MaxWrites = 1
INVARIANT IndInv
INVARIANT SavedWhole
INVARIANT RulesOfOneInstant
INVARIANT ListingSound
PROPERTY ImplementsLedger
SYMMETRY MCSymmetry
CHECK_DEADLOCK FALSE
