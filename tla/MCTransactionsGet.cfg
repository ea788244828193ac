SPECIFICATION Spec
CONSTANTS
    r1 = r1
    r2 = r2
    alice = alice
    bob = bob
    Req = {r1, r2}
    UserId = {alice, bob}
    RuleId = {x1}
    NoUser = NoUser
    NoTxn = NoTxn
    NoCall = NoCall
    Calls <- MCCreateThenGet
    MaxOpenConns = 1
    MaxFaults = 0
    MaxCrashes = 0
    MaxWrites = 0
INVARIANT OwnTransactionReadable
CHECK_DEADLOCK FALSE
