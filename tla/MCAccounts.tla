------------------------------ MODULE MCAccounts ------------------------------
(* Small instances of Accounts for TLC. *)
EXTENDS Accounts, TLC

CONSTANTS r1, r2, r3, r4, root, adminMail, mail, p1, p2

Plain == [op |-> "login", email |-> mail, password |-> "right",
          profile |-> p1, role |-> "none", active |-> "none",
          target |-> root, body |-> "valid"]

AdminLogin == [Plain EXCEPT !.email = adminMail]
Registration == [Plain EXCEPT !.op = "register"]
CreateAdmin == [Plain EXCEPT !.op = "createUser", !.role = "ADMIN"]
UpdateOf(u, role, active) ==
    [Plain EXCEPT !.op = "update", !.profile = p2, !.target = u,
                  !.role = role, !.active = active]
DeactivationOf(u) == [Plain EXCEPT !.op = "deactivate", !.target = u]

\* r2 registers; the first administrator and r2 write the row of r2.
MCWrites ==
    {AdminLogin, Registration, UpdateOf(r2, "none", "none"),
     UpdateOf(r2, "ADMIN", "true"), DeactivationOf(r2)}

\* The first administrator is demoted or deactivated, by itself or by others
\* who try.
MCDemotions ==
    {AdminLogin, Registration, UpdateOf(root, "USER", "none"), DeactivationOf(root)}

\* All of these, the creation of an account by an administrator, and a login that
\* is refused.
MCEvery ==
    MCWrites \cup MCDemotions \cup {CreateAdmin}
    \cup {[Plain EXCEPT !.password = "wrong"]}

\* The first administrator creates another one.
MCCreations == {AdminLogin, CreateAdmin}

\* r2 is named by calls; the other requests are interchangeable.
MCSymmetry == Permutations({r1, r3, r4})
=============================================================================
