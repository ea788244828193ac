----------------------------- MODULE MCAntifraud -----------------------------
(* Small instances of Antifraud for TLC. *)
EXTENDS Antifraud, TLC

CONSTANTS a1, a2, a3, a4, root, adminMail, mail, p1, p2, o1, n1, n2, t1

Plain == [op |-> "login", email |-> mail, password |-> "right",
          profile |-> p1, role |-> "none", active |-> "none",
          target |-> root, body |-> "valid"]

AdminLogin   == [Plain EXCEPT !.email = adminMail]
Registration == [Plain EXCEPT !.op = "register"]
Promotion    == [Plain EXCEPT !.op = "update", !.target = a1, !.role = "ADMIN",
                              !.active = "true"]

\* a1 becomes an administrator, or tries to, and logs in again.
MCPromotions == {AdminLogin, Plain, Registration, Promotion}

\* The first administrator deactivates itself.
MCRootsCalls == {AdminLogin, [Plain EXCEPT !.op = "deactivate"]}

Creation(caller, u) ==
    [op |-> "create", token |-> "good", caller |-> caller, role |-> "ADMIN", userId |-> u,
     body |-> "valid", id |-> NoTxn]
MCByPromoted == {Creation(a1, root)}
MCByRoot     == {Creation(root, root)}

RulePlain == [op |-> "deactivate", token |-> "good", caller |-> root,
              role |-> "ADMIN", target |-> o1, name |-> None, text |-> None,
              enabled |-> "none", body |-> "valid"]
RuleCreation == [RulePlain EXCEPT !.op = "create", !.name = n1, !.text = t1,
                                  !.enabled = "true"]
MCRulesByRoot     == {RuleCreation, RulePlain}
MCRulesByPromoted == {[RulePlain EXCEPT !.caller = a1], [RulePlain EXCEPT !.token = "bad"]}

\* The requests that no call names.
MCSymmetry == Permutations({a2, a3, a4})
=============================================================================
