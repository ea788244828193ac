SPECIFICATION FairSpec
CONSTANTS
    r1 = r1
    r2 = r2
    alice = alice
    bob = bob
    Req = {r1}
    UserId = {alice, bob}
    RuleId = {x1}
    NoUser = NoUser
    NoTxn = NoTxn
    NoCall = NoCall
    Calls <- MCCalls
    MaxOpenConns = 1
    MaxFaults = 1
    MaxCrashes = 1
    MaxWrites = 2
INVARIANT AnswerMatchesStore
INVARIANT CheckedActive
PROPERTY ConnectionsComeBack
CHECK_DEADLOCK FALSE
