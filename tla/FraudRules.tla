----------------------------- MODULE FraudRules -----------------------------
(***************************************************************************)
(* POST /fraud-rules and GET, PUT, DELETE /fraud-rules/:id, from the token *)
(* middleware to the table fraud and back.  Every request runs in a        *)
(* goroutine of its own, and one action is one statement with the code up  *)
(* to the next: a creation looks for the name before it inserts, an update *)
(* and a deactivation read the row and later write back every column.      *)
(***************************************************************************)
EXTENDS Naturals, FiniteSets

CONSTANTS
    Req,            \* HTTP requests; each is sent at most once.  The uuid of
                    \* the rule that request r creates is r itself
    OldRule,        \* ids of the rules that are stored at the beginning
    UserId,         \* ids of users
    Name,           \* names of rules
    Text,           \* contents of description, dslexpression and priority
    None,           \* a field that the JSON leaves out, or leaves empty
    NoRow,          \* what a query for a row that is not there returns
    NoCall,         \* the call of a request that has not arrived yet
    Calls,          \* the calls a client may make, a subset of Call
    MaxFaults,      \* bound: how many requests meet a failing database call
    MaxCrashes,     \* bound: how many times the server process dies
    MaxWrites       \* bound: how many times users are written

RuleId == Req \cup OldRule
Role   == {"USER", "ADMIN"}

\* A body is not parseable, storable, or refused only by the schema (a name
\* longer than its column; in an update also a priority outside 1..100).
Body == {"malformed", "unstorable", "valid"}

\* A token is good, or it is refused when it is parsed: there is none, its
\* signature is not the server's, or its time is over.
Token == {"good", "bad"}

\* caller and role are the claims in the token, target the id in the path.
Call == [op : {"create", "get", "update", "deactivate"}, token : Token,
         caller : UserId, role : Role, target : RuleId, name : Name \cup {None},
         text : Text \cup {None}, enabled : {"none", "true", "false"},
         body : Body]

Row  == [name : Name, text : Text, enabled : BOOLEAN]
Code == {0, 200, 201, 204, 400, 401, 403, 404, 409, 500}

ASSUME OldRuleAssumption == OldRule \cap Req = {}
ASSUME NoneAssumption == None \notin Name /\ None \notin Text
ASSUME NoRowAssumption == NoRow \notin Row
ASSUME CallsAssumption == Calls \subseteq Call /\ NoCall \notin Call
ASSUME BoundsAssumption ==
    MaxFaults \in Nat /\ MaxCrashes \in Nat /\ MaxWrites \in Nat

VARIABLES
    users,          \* per user id: no row, or the is_active column
    rules,          \* the table fraud: per id a row, or NoRow
    pc,             \* what the handler of a request does next
    call,           \* what its client asked for
    answer,         \* the status code sent, 0 before that
    snap,           \* the row GetBYID returned
    faulted,        \* requests that met a failing database call
    crashes,        \* times the process died
    writes,         \* times users were written
    overlapped      \* history: requests whose row another one wrote between
                    \* their read of it and their write

vars == <<users, rules, pc, call, answer, snap, faulted, crashes, writes,
          overlapped>>
others == <<users, crashes, writes>>

PC == {"idle", "ProvToken", "route", "CheckName", "Create", "GetByID",
       "Update", "answered", "lost"}

InFlight(r) == pc[r] \notin {"idle", "answered", "lost"}
Stored(x)   == rules[x] # NoRow

\* SELECT ... FROM fraud WHERE name = $1
WithName(n) == {x \in RuleId : Stored(x) /\ rules[x].name = n}

Init ==
    /\ users \in [UserId -> {"absent", "active", "inactive"}]
    /\ \E old \in [OldRule -> Row \cup {NoRow}] :
          rules = [x \in RuleId |-> IF x \in OldRule THEN old[x] ELSE NoRow]
    /\ \A x \in OldRule : Stored(x) => WithName(rules[x].name) = {x}
    /\ pc = [r \in Req |-> "idle"]
    /\ call = [r \in Req |-> NoCall]
    /\ answer = [r \in Req |-> 0]
    /\ snap = [r \in Req |-> NoRow]
    /\ faulted = {}
    /\ crashes = 0
    /\ writes = 0
    /\ overlapped = {}

\* A database call of r fails: the database refuses it, the network breaks, or
\* the client left and the request's context is done.  Every handler stops at
\* its first failing call.
Fault(r) ==
    /\ r \notin faulted
    /\ Cardinality(faulted) < MaxFaults
    /\ faulted' = faulted \cup {r}
Succeeds == UNCHANGED faulted

Goto(r, to) == pc' = [pc EXCEPT ![r] = to] /\ UNCHANGED answer
Reply(r, code) ==
    /\ pc' = [pc EXCEPT ![r] = "answered"]
    /\ answer' = [answer EXCEPT ![r] = code]

(***************************************************************************)
(* A request arrives and passes the token middleware.                      *)
(***************************************************************************)
Arrive(r) ==
    /\ pc[r] = "idle"
    /\ Goto(r, "ProvToken")
    /\ \E c \in Calls : call' = [call EXCEPT ![r] = c]
    /\ UNCHANGED <<rules, snap, faulted, others, overlapped>>

Untouched == UNCHANGED <<rules, call, snap, others, overlapped>>

\* A bad token is refused without a query.  With a good one the row decides
\* whether the caller may go on; a failing query is answered like a deactivated
\* user.
ProvToken(r) ==
    /\ pc[r] = "ProvToken"
    /\ \/ call[r].token = "bad" /\ Succeeds /\ Reply(r, 401)
       \/ /\ call[r].token = "good"
          /\ \/ /\ Succeeds
                /\ IF users[call[r].caller] = "active"
                   THEN Goto(r, "route") ELSE Reply(r, 401)
             \/ Fault(r) /\ Reply(r, 401)
    /\ Untouched

\* Every handler begins with it; the role is the token's.
Refused(r) == call[r].role # "ADMIN"

(***************************************************************************)
(* POST /api/v1/fraud-rules                                                *)
(***************************************************************************)
\* All fields are required by the binding, and a required boolean that is
\* false counts as missing: a rule can only be created enabled.
Complete(c) == c.name # None /\ c.text # None /\ c.enabled = "true"

CreateFraud(r) ==
    /\ pc[r] = "route" /\ call[r].op = "create"
    /\ \/ Refused(r) /\ Reply(r, 403)
       \/ /\ ~Refused(r)
          /\ IF call[r].body = "malformed" \/ ~Complete(call[r])
             THEN Reply(r, 400) ELSE Goto(r, "CheckName")
    /\ Succeeds
    /\ Untouched

\* NewFraud returns "fraud rule already exists", which is not the text that
\* the handler compares with.
CheckNameExist(r) ==
    /\ pc[r] = "CheckName"
    /\ \/ /\ Succeeds
          /\ IF WithName(call[r].name) # {} THEN Reply(r, 500) ELSE Goto(r, "Create")
       \/ Fault(r) /\ Reply(r, 500)
    /\ Untouched

NewRow(c) == [name |-> c.name, text |-> c.text, enabled |-> c.enabled = "true"]

\* Mutant: the column is not UNIQUE.
StorableTwice(c, x, n) == c.body = "valid"

\* Mutant: a rule that keeps its name counts as another one that has it.
StorableUnlessTaken(c, x, n) == c.body = "valid" /\ WithName(n) = {}

\* The constraints of the table on a row x that is to have name n.
Storable(c, x, n) == c.body = "valid" /\ WithName(n) \subseteq {x}

Inserted(r) == rules' = [rules EXCEPT ![r] = NewRow(call[r])]

\* Mutant: an INSERT that fails is answered 201.
CreateErrorIgnored(r) ==
    /\ pc[r] = "Create"
    /\ \/ Succeeds /\ Storable(call[r], r, call[r].name) /\ Inserted(r)
       \/ /\ Fault(r) \/ (Succeeds /\ ~Storable(call[r], r, call[r].name))
          /\ UNCHANGED rules
    /\ Reply(r, 201)
    /\ UNCHANGED <<call, snap, others, overlapped>>

\* The INSERT, which the database may refuse, or apply without the handler
\* learning of it.
Create(r) ==
    /\ pc[r] = "Create"
    /\ LET ok == Storable(call[r], r, call[r].name) IN
       \/ Succeeds /\ ok /\ Inserted(r) /\ Reply(r, 201)
       \/ Succeeds /\ ~ok /\ UNCHANGED rules /\ Reply(r, 500)
       \/ Fault(r) /\ (UNCHANGED rules \/ (ok /\ Inserted(r))) /\ Reply(r, 500)
    /\ UNCHANGED <<call, snap, others, overlapped>>

(***************************************************************************)
(* GET, PUT and DELETE /api/v1/fraud-rules/:id                             *)
(***************************************************************************)
GetFraud(r) ==
    /\ pc[r] = "route" /\ call[r].op = "get"
    /\ IF Refused(r) THEN Reply(r, 403) ELSE Goto(r, "GetByID")
    /\ Succeeds
    /\ Untouched

UpdateFraudID(r) ==
    /\ pc[r] = "route" /\ call[r].op = "update"
    /\ \/ Refused(r) /\ Reply(r, 403)
       \/ /\ ~Refused(r)
          /\ IF call[r].body = "malformed" THEN Reply(r, 400) ELSE Goto(r, "GetByID")
    /\ Succeeds
    /\ Untouched

DeactivateFraudID(r) ==
    /\ pc[r] = "route" /\ call[r].op = "deactivate"
    /\ IF Refused(r) THEN Reply(r, 403) ELSE Goto(r, "GetByID")
    /\ Succeeds
    /\ Untouched

\* Mutant: the row is read without the column enabled, whose default is true.
RowReadPartly(x) == [rules[x] EXCEPT !.enabled = TRUE]

RowRead(x) == rules[x]

\* The services wrap "fraud not found", which the handlers then do not
\* recognise: an id that is not there is answered like a failing query, and so
\* is one that is not a uuid.
GetBYID(r) ==
    /\ pc[r] = "GetByID"
    /\ LET x == call[r].target IN
       \/ Succeeds /\ ~Stored(x) /\ Reply(r, 500) /\ UNCHANGED snap
       \/ /\ Succeeds /\ Stored(x) /\ call[r].op = "get"
          /\ Reply(r, 200)
          /\ UNCHANGED snap
       \/ /\ Succeeds /\ Stored(x) /\ call[r].op # "get"
          /\ snap' = [snap EXCEPT ![r] = RowRead(x)]
          /\ Goto(r, "Update")
       \/ Fault(r) /\ Reply(r, 500) /\ UNCHANGED snap
    /\ UNCHANGED <<rules, call, others, overlapped>>

\* What a call makes of the row it read.
Changed(c, row) ==
    IF c.op = "deactivate" THEN [row EXCEPT !.enabled = FALSE]
    ELSE [name |-> IF c.name = None THEN row.name ELSE c.name,
          text |-> IF c.text = None THEN row.text ELSE c.text,
          enabled |-> IF c.enabled = "none" THEN row.enabled
                      ELSE c.enabled = "true"]

Written(r) == Changed(call[r], snap[r])
Done(r)    == IF call[r].op = "update" THEN 200 ELSE 204

\* The body of a DELETE is not looked at.
Accepted(r) ==
    Storable([call[r] EXCEPT !.body = IF call[r].op = "update" THEN @ ELSE "valid"],
             call[r].target, Written(r).name)

\* UPDATE fraud SET every column WHERE id = $1
WriteRow(r) ==
    /\ rules' = [rules EXCEPT ![call[r].target] = Written(r)]
    /\ overlapped' = overlapped \cup
          {q \in Req \ {r} : pc[q] = "Update" /\ call[q].target = call[r].target}
RowKept == UNCHANGED <<rules, overlapped>>

\* Mutant: the error of the UPDATE is dropped.
UpdateErrorIgnored(r) ==
    /\ pc[r] = "Update"
    /\ \/ Succeeds /\ Accepted(r) /\ WriteRow(r)
       \/ (Fault(r) \/ (Succeeds /\ ~Accepted(r))) /\ RowKept
    /\ Reply(r, Done(r))
    /\ UNCHANGED <<call, snap, others>>

Update(r) ==
    /\ pc[r] = "Update"
    /\ \/ Succeeds /\ Accepted(r) /\ WriteRow(r) /\ Reply(r, Done(r))
       \/ Succeeds /\ ~Accepted(r) /\ RowKept /\ Reply(r, 500)
       \/ Fault(r) /\ (RowKept \/ (Accepted(r) /\ WriteRow(r))) /\ Reply(r, 500)
    /\ UNCHANGED <<call, snap, others>>

(***************************************************************************)
(* The server around the handlers.                                         *)
(***************************************************************************)
\* The process dies and is started again; every statement was autocommitted.
\* One that is applied while the process dies is one whose answer is lost: a
\* Fault that applies it, after which nobody learns of the code either.
Crash ==
    /\ crashes < MaxCrashes
    /\ crashes' = crashes + 1
    /\ pc' = [r \in Req |-> IF InFlight(r) THEN "lost" ELSE pc[r]]
    /\ UNCHANGED <<users, rules, call, answer, snap, faulted, writes, overlapped>>

\* What the endpoints of users do to is_active.
UserWritten(u, s) ==
    /\ writes < MaxWrites
    /\ writes' = writes + 1
    /\ IF users[u] = "absent" THEN s = "active" ELSE s # users[u]
    /\ users' = [users EXCEPT ![u] = s]
    /\ UNCHANGED <<rules, pc, call, answer, snap, faulted, crashes, overlapped>>

Handler(r) ==
    \/ ProvToken(r)
    \/ CreateFraud(r) \/ CheckNameExist(r) \/ Create(r)
    \/ GetFraud(r) \/ UpdateFraudID(r) \/ DeactivateFraudID(r)
    \/ GetBYID(r) \/ Update(r)

Next ==
    \/ \E r \in Req : Arrive(r) \/ Handler(r)
    \/ \E u \in UserId, s \in {"active", "inactive"} : UserWritten(u, s)
    \/ Crash

Spec == Init /\ [][Next]_vars

-----------------------------------------------------------------------------
(***************************************************************************)
(* Properties.                                                             *)
(***************************************************************************)

\* Every variable stays within its type: in particular no row lacks a name or
\* a text, although the fields of an update may be empty.
TypeOK ==
    /\ users \in [UserId -> {"absent", "active", "inactive"}]
    /\ rules \in [RuleId -> Row \cup {NoRow}]
    /\ pc \in [Req -> PC]
    /\ call \in [Req -> Calls \cup {NoCall}]
    /\ answer \in [Req -> Code]
    /\ snap \in [Req -> Row \cup {NoRow}]
    /\ faulted \subseteq Req
    /\ crashes \in 0..MaxCrashes
    /\ writes \in 0..MaxWrites
    /\ overlapped \subseteq Req

\* NewFraud looks for the name and inserts later, Update renames without
\* looking and may write back a name that another rule took in between: still
\* no two rules share a name.
UniqueName ==
    \A x, y \in RuleId :
        Stored(x) /\ Stored(y) /\ rules[x].name = rules[y].name => x = y

\* A client that is told 201 has its rule, and one that is not told so does
\* not have it, unless the database failed its request.
CreationTrue(r) ==
    /\ answer[r] = 201 => Stored(r)
    /\ Stored(r) => answer[r] = 201 \/ r \in faulted
CreationsTrue == \A r \in Req : CreationTrue(r)

\* The step answers an update or a deactivation with success.
Succeeded(r) == pc[r] = "Update" /\ answer'[r] \in {200, 204}

AtomicStep(r) ==
    rules' = [rules EXCEPT ![call[r].target] =
                  Changed(call[r], rules[call[r].target])]
\* An update or deactivation that no other write to its rule overlapped is
\* atomic: the rule becomes what the call makes of it as it is, and no other
\* rule changes.
AtomicUnlessOverlapped ==
    [][\A r \in Req : Succeeded(r) /\ r \notin overlapped => AtomicStep(r)]_vars

\* A step writes the rule x on behalf of r.
WritesFor(r, x) == pc[r] = "Update" /\ pc'[r] = "answered" /\ call[r].target = x
Switched(x) == Stored(x) /\ ~rules[x].enabled /\ rules'[x].enabled
AsksToEnable(r) == call[r].op = "update" /\ call[r].enabled = "true"

\* A deactivated rule only comes back because an update asked for it, or
\* wrote back a row that it had read before the deactivation.
ReenabledOnRequest ==
    [][\A x \in RuleId : Switched(x) =>
          \E r \in Req : WritesFor(r, x) /\ (AsksToEnable(r) \/ r \in overlapped)]_vars

\* A well-formed call that leaves the name of the rule alone.
KeepsName(c) == c.op = "deactivate" \/ (c.op = "update" /\ c.name = None /\ c.body = "valid")
Refuses(r)   == pc[r] = "Update" /\ answer'[r] = 500 /\ r \notin faulted'

\* A call that does not rename is never refused over a name, unless the name
\* it read was given up by another request, and taken, in between.
RefusedForCause ==
    [][\A r \in Req : Refuses(r) /\ KeepsName(call[r]) => r \in overlapped]_vars

-----------------------------------------------------------------------------
(***************************************************************************)
(* The inductive strengthening of the safety properties above.             *)
(***************************************************************************)
\* What the table and the answers owe to r.
Settled(r) ==
    /\ pc[r] # "idle" => call[r] \in Calls
    /\ pc[r] # "answered" => answer[r] = 0 /\ ~Stored(r)

\* What the handler of r has checked.
Checked(r) ==
    /\ pc[r] \in {"CheckName", "Create"} =>
          call[r].op = "create" /\ Complete(call[r])
    /\ pc[r] \in {"GetByID", "Update"} => call[r].op # "create"

\* What the row r has read still has to do with the row in the table.
SnapInv(r) ==
    pc[r] = "Update" =>
        /\ call[r].op \in {"update", "deactivate"}
        /\ Stored(call[r].target) /\ snap[r] \in Row
        /\ r \notin overlapped => snap[r] = rules[call[r].target]

\* The inductive invariant.
IndInv ==
    /\ TypeOK /\ UniqueName /\ CreationsTrue
    /\ \A r \in Req : Settled(r) /\ Checked(r) /\ SnapInv(r)
=============================================================================
