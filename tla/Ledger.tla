------------------------------- MODULE Ledger -------------------------------
(***************************************************************************)
(* What the transactions endpoint promises its clients, with no database   *)
(* in sight: a request adds at most one entry to an append-only ledger, in *)
(* one step, for a user that was active and with a set of rules that was   *)
(* in force at some instant since the request arrived; and what the client *)
(* is told about it is true.                                               *)
(***************************************************************************)
CONSTANTS Req, UserId, RuleId

VARIABLES
    active,     \* the users that are active now
    enabled,    \* the rules that are in force now
    ledger,     \* the entries saved
    told,       \* what the client of each request knows
    eligible,   \* per request, the users active at some instant so far
    inForce     \* per request, the rule sets in force at some instant so far

vars == <<active, enabled, ledger, told, eligible, inForce>>

Entry == [id : Req, user : UserId, rules : SUBSET RuleId]

\* "unknown": the request is over and may or may not have left an entry.
Told == {"new", "open", "saved", "notsaved", "unknown"}

Init ==
    /\ active \in SUBSET UserId
    /\ enabled \in SUBSET RuleId
    /\ ledger = {}
    /\ told = [r \in Req |-> "new"]
    /\ eligible = [r \in Req |-> {}]
    /\ inForce = [r \in Req |-> {}]

Open(r) ==
    /\ told[r] = "new"
    /\ told' = [told EXCEPT ![r] = "open"]
    /\ eligible' = [eligible EXCEPT ![r] = active]
    /\ inForce' = [inForce EXCEPT ![r] = {enabled}]
    /\ UNCHANGED <<active, enabled, ledger>>

Save(r) ==
    /\ told[r] = "open"
    /\ \E u \in eligible[r], R \in inForce[r] :
          ledger' = ledger \cup {[id |-> r, user |-> u, rules |-> R]}
    /\ \E t \in {"saved", "unknown"} : told' = [told EXCEPT ![r] = t]
    /\ UNCHANGED <<active, enabled, eligible, inForce>>

End(r) ==
    /\ told[r] = "open"
    /\ \E t \in {"notsaved", "unknown"} : told' = [told EXCEPT ![r] = t]
    /\ UNCHANGED <<active, enabled, ledger, eligible, inForce>>

\* Every open request dies at once.
LoseAll ==
    /\ told' = [r \in Req |-> IF told[r] = "open" THEN "unknown" ELSE told[r]]
    /\ UNCHANGED <<active, enabled, ledger, eligible, inForce>>

\* Users and rules change under the open requests.
Change ==
    /\ active' \in SUBSET UserId
    /\ enabled' \in SUBSET RuleId
    /\ eligible' = [r \in Req |-> IF told[r] = "open"
                                  THEN eligible[r] \cup active' ELSE eligible[r]]
    /\ inForce' = [r \in Req |-> IF told[r] = "open"
                                 THEN inForce[r] \cup {enabled'} ELSE inForce[r]]
    /\ UNCHANGED <<ledger, told>>

Next == (\E r \in Req : Open(r) \/ Save(r) \/ End(r)) \/ LoseAll \/ Change

Spec == Init /\ [][Next]_vars
=============================================================================
