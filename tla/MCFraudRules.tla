----------------------------- MODULE MCFraudRules -----------------------------
(* Small instances of FraudRules for TLC. *)
EXTENDS FraudRules, TLC

CONSTANTS r1, r2, r3, o1, u1, n1, n2, t1, t2

Plain == [op |-> "get", token |-> "good", caller |-> u1, role |-> "ADMIN", target |-> o1,
          name |-> None, text |-> None, enabled |-> "none", body |-> "valid"]

Creation(n) == [Plain EXCEPT !.op = "create", !.name = n, !.text = t1,
                             !.enabled = "true"]
UpdateWith(n, e) == [Plain EXCEPT !.op = "update", !.name = n, !.enabled = e]
Deactivation == [Plain EXCEPT !.op = "deactivate"]
AsUser(c) == [c EXCEPT !.role = "USER"]

\* Two names that rules give up and take, and the switch of the rule o1.
MCWrites ==
    {Creation(n1), UpdateWith(n2, "none"), [UpdateWith(None, "true") EXCEPT !.text = t2],
     Deactivation}

\* All of these, and one call for every way a request ends early.
MCEvery ==
    MCWrites
    \cup {Plain, AsUser(Creation(n1)), [Deactivation EXCEPT !.token = "bad"], [Creation(n1) EXCEPT !.text = None],
          [Creation(n2) EXCEPT !.body = "unstorable"]}

\* No request is named.
MCSymmetry == Permutations({r1, r2, r3})
=============================================================================
