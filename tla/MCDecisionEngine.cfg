SPECIFICATION Spec
CONSTANTS
    r1 = r1
    r2 = r2
    u1 = u1
    u2 = u2
    Req = {r1}
    UserId = {u1, u2}
    RuleId = {1, 2}
    Priority = {1, 2}
    NoUser = NoUser
    NoRule = NoRule
    NoCall = NoCall
    Calls <- MCEvery
    MaxCents = 2000000
    MaxFaults = 1
    MaxWrites = 1
INVARIANT OutcomeTrue
INVARIANT ConnectionReturned
INVARIANT DecidedByRules
INVARIANT ResponseOrdered
INVARIANT IndInv
CHECK_DEADLOCK FALSE
