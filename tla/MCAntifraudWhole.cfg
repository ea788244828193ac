SPECIFICATION FairSystem
CONSTANTS
    a1 = a1
    a2 = a2
    a3 = a3
    a4 = a4
    root = root
    adminMail = adminMail
    mail = mail
    p1 = p1
    p2 = p2
    o1 = o1
    n1 = n1
    n2 = n2
    t1 = t1
    Req = {a1, a2}
    Root = root
    Email = {adminMail, mail}
    AdminEmail = adminMail
    Profile = {p1, p2}
    AdminProfile = p1
    NoRow = NoRow
    NoToken = NoToken
    NoCall = NoCall
    Calls <- MCRootsCalls
    MaxFaults = 0
    MaxCrashes = 1
    TxnReq = {x1}
    TxnCalls <- MCByRoot
    RuleReq = {f1}
    RuleCalls <- MCRulesByRoot
    OldRule = {o1}
    Name = {n1}
    Text = {t1}
    None = None
    NoUser = NoUser
    NoTxn = NoTxn
    MaxOpenConns = 1
    MaxTxnFaults = 1
    MaxRuleFaults = 0
    MaxWrites = 9
INVARIANT ServedWithAdmin
PROPERTY ServesTransactions
PROPERTY ServesRules
PROPERTY NobodyStarves
PROPERTY ServerComesUp
CHECK_DEADLOCK FALSE
