--------------------------- MODULE MCDecisionEngine ---------------------------
(* Small instances of DecisionEngine for TLC. *)
EXTENDS DecisionEngine, TLC

CONSTANTS r1, r2, u1, u2

\* By day, in another currency, of the limit exactly.
Plain == [userId |-> u1, caller |-> u1, role |-> "USER", amount |-> 10000 * 1000,
          usd |-> FALSE, hour |-> 6, body |-> "valid"]

\* One request for every way a call can end early.
MCEnds ==
    {[Plain EXCEPT !.body = "incomplete"],
     [Plain EXCEPT !.amount = 20000010], [Plain EXCEPT !.userId = NoUser],
     [Plain EXCEPT !.userId = u2]}

\* On either side of each condition, and for somebody else.
MCDecisions ==
    {[Plain EXCEPT !.amount = a] : a \in {10000000, 10000004, 10000005}}
    \cup {[Plain EXCEPT !.usd = TRUE], [Plain EXCEPT !.hour = 5],
          [Plain EXCEPT !.userId = u2, !.role = "ADMIN"]}

MCEvery == MCDecisions \cup MCEnds
=============================================================================
