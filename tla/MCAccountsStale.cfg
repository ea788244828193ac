SPECIFICATION Spec
CONSTANTS
    r1 = r1
    r2 = r2
    r3 = r3
    r4 = r4
    root = root
    adminMail = adminMail
    mail = mail
    p1 = p1
    p2 = p2
    Req = {r1, r2, r3, r4}
    Root = root
    Email = {adminMail, mail}
    AdminEmail = adminMail
    Profile = {p1, p2}
    AdminProfile = p1
    NoRow = NoRow
    NoToken = NoToken
    NoCall = NoCall
    Calls <- MCWrites
    MaxFaults = 0
    MaxCrashes = 0
PROPERTY AdminsOnly
SYMMETRY MCSymmetry
CHECK_DEADLOCK FALSE
