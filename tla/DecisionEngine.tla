---------------------------- MODULE DecisionEngine ----------------------------
(***************************************************************************)
(* TransactionService.CreateTransaction: the service that decides whether  *)
(* a transaction is approved or declined by evaluating the active rules.   *)
(* The server is wired to TransactionServiceQQ (see Transactions), which   *)
(* evaluates none; this one can be given repositories, or go without.      *)
(* One action is one call of the database with the code around it; users   *)
(* and rules are written by others in between.                             *)
(***************************************************************************)
EXTENDS Integers, Sequences, FiniteSets

CONSTANTS
    Req,            \* calls of CreateTransaction; the uuid of the transaction
                    \* that call r creates is r itself
    UserId,         \* ids of users
    RuleId,         \* ids of rules, in the order of their strings
    Priority,       \* priorities of rules
    NoUser,         \* the userId of a request that gives none
    NoRule,         \* no row for a rule
    NoCall,         \* the request of a call that has not been made yet
    Calls,          \* the requests, a subset of Call
    MaxCents,       \* the largest amount in DECIMAL(12,2), in cents
    MaxFaults,      \* bound: how many calls meet a failing database call
    MaxWrites       \* bound: how many times users and rules are written

\* What the texts of rules can be: "amount > 10000", "currency = 'USD'", one that
\* contains "hour(timestamp)", or any other.
Condition == {"amount", "currency", "hour", "other"}
Status    == {"APPROVED", "DECLINED"}

\* amount is in thousandths; a body lacks a currency or a timestamp, or has a
\* currency that does not fit into its column, or is fine.
Call == [userId : UserId \cup {NoUser}, caller : UserId, role : {"USER", "ADMIN"},
         amount : Int, usd : BOOLEAN, hour : 0..23,
         body : {"incomplete", "unstorable", "valid"}]

ASSUME RuleIdAssumption == RuleId \subseteq Nat /\ IsFiniteSet(RuleId)
ASSUME PriorityAssumption == Priority \subseteq Nat
ASSUME SentinelAssumption == NoUser \notin UserId /\ NoCall \notin Call
ASSUME CallsAssumption == Calls \subseteq Call
ASSUME BoundsAssumption ==
    MaxCents \in Nat /\ MaxFaults \in Nat /\ MaxWrites \in Nat

RuleRow == [priority : Priority, dsl : Condition, enabled : BOOLEAN]
ASSUME NoRuleAssumption == NoRule \notin RuleRow

VARIABLES
    ruleRepo,       \* whether the service was given a repository of rules,
    transactionRepo,\* and one of transactions
    users,          \* per user id: no row, or the is_active column
    rules,          \* per rule id: NoRule or a row
    transactions,   \* rows of transactions
    results,        \* rows of transaction_rule_results
    pc,             \* what a call does next
    call,           \* its request
    outcome,        \* what it returned: "created", an error, or "none" yet
    tx,             \* its database transaction
    wrote,          \* what that has inserted, published by Commit only
    ruleResults,    \* the results in the response, in their order
    next,           \* the number of the result to be inserted next
    faulted,        \* calls that met a failing database call
    writes,         \* times users or rules were written
    seen            \* history: the sets of active rules since a call began

wiring == <<ruleRepo, transactionRepo>>
tables == <<transactions, results>>
others == <<wiring, users, rules, writes>>
vars   == <<others, tables, pc, call, outcome, tx, wrote, ruleResults, next,
            faulted, seen>>

Entry  == [id : RuleId, priority : Priority, dsl : Condition]
Result == [rule : RuleId, priority : Priority, matched : BOOLEAN]
Row    == [id : Req, user : UserId, cents : Int, status : Status, isFraud : BOOLEAN]
Saved  == [txn : Req, rule : RuleId, matched : BOOLEAN]
Empty  == [transactions |-> {}, results |-> {}]

PC == {"idle", "CreateTransaction", "GetByID", "GetAllActive", "BeginTx",
       "InsertTransaction", "InsertRuleResults", "returned"}
Failure == {"validation error", "access denied", "user not found",
            "user account is deactivated", "failed"}

\* SELECT ... FROM fraud WHERE enabled = true
Active == {e \in Entry : /\ rules[e.id] # NoRule /\ rules[e.id].enabled
                         /\ rules[e.id].priority = e.priority
                         /\ rules[e.id].dsl = e.dsl}
Running(r) == pc[r] \notin {"idle", "returned"}
Stored(r)  == \E t \in transactions : t.id = r

Init ==
    /\ ruleRepo \in BOOLEAN /\ transactionRepo \in BOOLEAN
    /\ users \in [UserId -> {"absent", "active", "inactive"}]
    /\ rules \in [RuleId -> RuleRow \cup {NoRule}]
    /\ transactions = {} /\ results = {}
    /\ pc = [r \in Req |-> "idle"]
    /\ call = [r \in Req |-> NoCall]
    /\ outcome = [r \in Req |-> "none"]
    /\ tx = [r \in Req |-> "none"]
    /\ wrote = [r \in Req |-> Empty]
    /\ ruleResults = [r \in Req |-> <<>>]
    /\ next = [r \in Req |-> 1]
    /\ faulted = {}
    /\ writes = 0
    /\ seen = [r \in Req |-> {}]

\* A database call of r fails, on its own or because the context is done; a
\* call stops at its first failure.
Fault(r) ==
    /\ r \notin faulted
    /\ Cardinality(faulted) < MaxFaults
    /\ faulted' = faulted \cup {r}
Succeeds == UNCHANGED faulted

Goto(r, to) == pc' = [pc EXCEPT ![r] = to] /\ UNCHANGED outcome
Return(r, what) ==
    /\ pc' = [pc EXCEPT ![r] = "returned"]
    /\ outcome' = [outcome EXCEPT ![r] = what]

\* Somebody calls the service.
Begin(r) ==
    /\ pc[r] = "idle"
    /\ Goto(r, "CreateTransaction")
    /\ \E c \in Calls : call' = [call EXCEPT ![r] = c]
    /\ seen' = [seen EXCEPT ![r] = {Active}]
    /\ UNCHANGED <<others, tables, tx, wrote, ruleResults, next, faulted>>

Untouched == UNCHANGED <<others, tables, call, tx, wrote, seen>>

(***************************************************************************)
(* The checks.                                                             *)
(***************************************************************************)
Valid(c) == c.userId # NoUser /\ c.amount > 0 /\ c.body # "incomplete"

MayCreate(c) == c.role = "USER" => c.userId = c.caller

CreateTransaction(r) ==
    /\ pc[r] = "CreateTransaction"
    /\ LET c == call[r] IN
       \/ ~Valid(c) /\ Return(r, "validation error")
       \/ Valid(c) /\ ~MayCreate(c) /\ Return(r, "access denied")
       \/ Valid(c) /\ MayCreate(c) /\ Goto(r, "GetByID")
    /\ Succeeds
    /\ Untouched /\ UNCHANGED <<ruleResults, next>>

\* An error of the query is reported like a user that is not there.
GetByID(r) ==
    /\ pc[r] = "GetByID"
    /\ LET status == users[call[r].userId] IN
       \/ Succeeds /\ status = "active" /\ Goto(r, "GetAllActive")
       \/ Succeeds /\ status = "inactive" /\ Return(r, "user account is deactivated")
       \/ (Fault(r) \/ (Succeeds /\ status = "absent")) /\ Return(r, "user not found")
    /\ Untouched /\ UNCHANGED <<ruleResults, next>>

(***************************************************************************)
(* The decision.                                                           *)
(***************************************************************************)
\* Mutant: rules of one priority come in any order.
BeforeByPriority(d, e) == d.priority <= e.priority

\* By priority, then by the id as a string.
Before(d, e) ==
    \/ d.priority < e.priority
    \/ d.priority = e.priority /\ d.id < e.id

\* sort.Slice
Sorted(set) ==
    {s \in [1..Cardinality(set) -> set] :
        /\ \A e \in set : \E i \in DOMAIN s : s[i] = e
        /\ \A i, j \in DOMAIN s : i < j => Before(s[i], s[j])}

\* Mutant: the limit itself counts as above it.
EvaluateFromLimit(dsl, c) ==
    \/ dsl = "amount" /\ c.amount >= 10000 * 1000
    \/ dsl = "currency" /\ c.usd
    \/ dsl = "hour" /\ c.hour >= 0 /\ c.hour <= 5

\* evaluateSimpleDSL; a condition that is not recognised does not match.
Evaluate(dsl, c) ==
    \/ dsl = "amount" /\ c.amount > 10000 * 1000
    \/ dsl = "currency" /\ c.usd
    \/ dsl = "hour" /\ c.hour >= 0 /\ c.hour <= 5

\* applyAllRules
Applied(s, c) ==
    [i \in DOMAIN s |-> [rule |-> s[i].id, priority |-> s[i].priority,
                         matched |-> Evaluate(s[i].dsl, c)]]

\* Without a repository of rules there are none.
RulesRead == IF ruleRepo THEN Active ELSE {}

GetAllActive(r) ==
    /\ pc[r] = "GetAllActive"
    /\ \/ /\ Succeeds
          /\ \E s \in Sorted(RulesRead) :
                ruleResults' = [ruleResults EXCEPT ![r] = Applied(s, call[r])]
          /\ Goto(r, "BeginTx")
       \/ ruleRepo /\ Fault(r) /\ Return(r, "failed") /\ UNCHANGED ruleResults
    /\ Untouched /\ UNCHANGED next

AnyMatched(rs) == \E i \in DOMAIN rs : rs[i].matched

\* The column is DECIMAL(12,2): the database rounds the amount to cents, after
\* the rules have looked at it.
Cents(amount) == (amount + 5) \div 10

NewRow(r) ==
    LET declined == AnyMatched(ruleResults[r]) IN
    [id |-> r, user |-> call[r].userId, cents |-> Cents(call[r].amount),
     status |-> IF declined THEN "DECLINED" ELSE "APPROVED", isFraud |-> declined]
NewResult(r, i) == [txn |-> r, rule |-> ruleResults[r][i].rule,
                    matched |-> ruleResults[r][i].matched]

(***************************************************************************)
(* Saving: by the repository's CreateWithResults, or directly.             *)
(***************************************************************************)
BeginTx(r) ==
    /\ pc[r] = "BeginTx"
    /\ \/ Succeeds /\ Goto(r, "InsertTransaction") /\ tx' = [tx EXCEPT ![r] = "open"]
       \/ Fault(r) /\ Return(r, "failed") /\ UNCHANGED tx
    /\ UNCHANGED <<others, tables, call, wrote, ruleResults, next, seen>>

Rollback(r) ==
    /\ tx' = [tx EXCEPT ![r] = "none"]
    /\ wrote' = [wrote EXCEPT ![r] = Empty]

Storable(c) == c.body # "unstorable" /\ Cents(c.amount) \in 1..MaxCents

InsertTransaction(r) ==
    /\ pc[r] = "InsertTransaction"
    /\ \/ /\ Succeeds /\ Storable(call[r])
          /\ wrote' = [wrote EXCEPT ![r].transactions = @ \cup {NewRow(r)}]
          /\ Goto(r, "InsertRuleResults")
          /\ UNCHANGED tx
       \/ /\ Fault(r) \/ (Succeeds /\ ~Storable(call[r]))
          /\ Return(r, "failed")
          /\ Rollback(r)
    /\ UNCHANGED <<others, tables, call, ruleResults, next, seen>>

\* Mutant: without a repository, too, a failed insert leaves the transaction open.
AbandonForgetting(r) == UNCHANGED <<tx, wrote>>

\* The direct way rolls back whenever it returns.  The repository looks at an
\* error that the failing insert of a result did not set.
Abandon(r) == IF transactionRepo THEN UNCHANGED <<tx, wrote>> ELSE Rollback(r)

\* Mutant: a result whose insert fails is passed over.
InsertRuleResultErrorIgnored(r) ==
    /\ pc[r] = "InsertRuleResults" /\ next[r] \in DOMAIN ruleResults[r]
    /\ \/ /\ Succeeds /\ transactionRepo
          /\ wrote' = [wrote EXCEPT ![r].results = @ \cup {NewResult(r, next[r])}]
       \/ /\ Fault(r) \/ (Succeeds /\ ~transactionRepo)
          /\ UNCHANGED wrote
    /\ next' = [next EXCEPT ![r] = @ + 1]
    /\ UNCHANGED <<others, tables, tx, pc, outcome, call, ruleResults, seen>>

\* The direct way names columns that transaction_rule_results does not have.
InsertRuleResult(r) ==
    /\ pc[r] = "InsertRuleResults" /\ next[r] \in DOMAIN ruleResults[r]
    /\ \/ /\ Succeeds /\ transactionRepo
          /\ wrote' = [wrote EXCEPT ![r].results = @ \cup {NewResult(r, next[r])}]
          /\ next' = [next EXCEPT ![r] = @ + 1]
          /\ UNCHANGED <<tx, pc, outcome>>
       \/ /\ Fault(r) \/ (Succeeds /\ ~transactionRepo)
          /\ Return(r, "failed")
          /\ Abandon(r)
          /\ UNCHANGED next
    /\ UNCHANGED <<others, tables, call, ruleResults, seen>>

Publish(r) ==
    /\ transactions' = transactions \cup wrote[r].transactions
    /\ results' = results \cup wrote[r].results

\* Mutant: the error of Commit is ignored.
CommitErrorIgnored(r) ==
    /\ pc[r] = "InsertRuleResults" /\ next[r] \notin DOMAIN ruleResults[r]
    /\ \/ Succeeds /\ Publish(r)
       \/ Fault(r) /\ (Publish(r) \/ UNCHANGED tables)
    /\ Return(r, "created")
    /\ Rollback(r)
    /\ UNCHANGED <<others, call, ruleResults, next, seen>>

\* COMMIT may be refused, or applied without its answer coming back.
Commit(r) ==
    /\ pc[r] = "InsertRuleResults" /\ next[r] \notin DOMAIN ruleResults[r]
    /\ \/ Succeeds /\ Publish(r) /\ Return(r, "created")
       \/ Fault(r) /\ (Publish(r) \/ UNCHANGED tables) /\ Return(r, "failed")
    /\ Rollback(r)
    /\ UNCHANGED <<others, call, ruleResults, next, seen>>

\* The caller's context is done: database/sql rolls back what is still open.
AwaitDone(r) ==
    /\ pc[r] = "returned" /\ tx[r] = "open"
    /\ Rollback(r)
    /\ UNCHANGED <<others, tables, pc, outcome, call, ruleResults, next, faulted, seen>>

(***************************************************************************)
(* What others do to users and rules.                                      *)
(***************************************************************************)
UserWritten(u, s) ==
    /\ writes < MaxWrites
    /\ writes' = writes + 1
    /\ IF users[u] = "absent" THEN s = "active" ELSE s # users[u]
    /\ users' = [users EXCEPT ![u] = s]
    /\ UNCHANGED <<wiring, rules, tables, pc, outcome, call, tx, wrote, ruleResults,
                   next, faulted, seen>>

RuleWritten(x, row) ==
    /\ writes < MaxWrites
    /\ writes' = writes + 1
    /\ row # rules[x]
    /\ rules' = [rules EXCEPT ![x] = row]
    /\ seen' = [r \in Req |-> IF Running(r) THEN seen[r] \cup {Active'} ELSE seen[r]]
    /\ UNCHANGED <<wiring, users, tables, pc, outcome, call, tx, wrote, ruleResults,
                   next, faulted>>

Service(r) ==
    \/ CreateTransaction(r) \/ GetByID(r) \/ GetAllActive(r)
    \/ BeginTx(r) \/ InsertTransaction(r) \/ InsertRuleResult(r) \/ Commit(r)

Next ==
    \/ \E r \in Req : Begin(r) \/ Service(r) \/ AwaitDone(r)
    \/ \E u \in UserId, s \in {"active", "inactive"} : UserWritten(u, s)
    \/ \E x \in RuleId, row \in RuleRow : RuleWritten(x, row)

Spec == Init /\ [][Next]_vars

-----------------------------------------------------------------------------
(***************************************************************************)
(* Properties.                                                             *)
(***************************************************************************)

\* Every variable stays within its type; in particular a status is one that
\* the schema knows.
TypeOK ==
    /\ ruleRepo \in BOOLEAN /\ transactionRepo \in BOOLEAN
    /\ users \in [UserId -> {"absent", "active", "inactive"}]
    /\ rules \in [RuleId -> RuleRow \cup {NoRule}]
    /\ transactions \subseteq Row /\ results \subseteq Saved
    /\ pc \in [Req -> PC]
    /\ call \in [Req -> Calls \cup {NoCall}]
    /\ outcome \in [Req -> Failure \cup {"none", "created"}]
    /\ tx \in [Req -> {"none", "open"}]
    /\ wrote \in [Req -> [transactions : SUBSET Row, results : SUBSET Saved]]
    /\ ruleResults \in [Req -> Seq(Result)]
    /\ next \in [Req -> Nat \ {0}]
    /\ faulted \subseteq Req
    /\ writes \in 0..MaxWrites
    /\ seen \in [Req -> SUBSET SUBSET Entry]

\* The sets of rules that were active at an instant of the call.
Instants(r) == IF ruleRepo THEN seen[r] ELSE {{}}

\* An amount above the limit that the database rounds down to it.
RoundedToLimit(c) == c.amount > 10000000 /\ Cents(c.amount) = 1000000

\* When a condition holds of a row as it is stored.  The rules see an amount
\* before the database rounds it, so a row of the limit exactly may be above it,
\* by less than what is rounded.
HoldsOf(t, dsl) ==
    \/ dsl = "amount" /\ (t.cents > 1000000 \/ RoundedToLimit(call[t.id]))
    \/ dsl = "currency" /\ call[t.id].usd
    \/ dsl = "hour" /\ call[t.id].hour \in 0..5

\* A saved transaction is declined, and marked as fraud, if and only if one of
\* the rules active at one instant of the call holds of the row; and exactly
\* those rules are recorded, each with its own result, although rules are
\* rewritten meanwhile.
DecidedByRules ==
    \A t \in transactions :
        /\ t.isFraud <=> t.status = "DECLINED"
        /\ \E set \in Instants(t.id) :
              /\ t.isFraud <=> \E e \in set : HoldsOf(t, e.dsl)
              /\ {x \in results : x.txn = t.id} =
                    {[txn |-> t.id, rule |-> e.id, matched |-> HoldsOf(t, e.dsl)] : e \in set}

\* The response lists the rules by priority, those of one priority by id: the
\* order does not depend on the one in which the database returned them.
ResponseOrdered ==
    \A r \in Req : \A i, j \in DOMAIN ruleResults[r] : i < j =>
        \/ ruleResults[r][i].priority < ruleResults[r][j].priority
        \/ /\ ruleResults[r][i].priority = ruleResults[r][j].priority
           /\ ruleResults[r][i].rule < ruleResults[r][j].rule

\* What the caller is told: created is stored, and what is stored was created,
\* unless the database failed the call.
OutcomeTrue ==
    \A r \in Req :
        /\ outcome[r] = "created" => Stored(r)
        /\ Stored(r) => outcome[r] = "created" \/ (outcome[r] = "failed" /\ r \in faulted)

\* A transaction for another user was asked for by an ADMIN.
SavedForWhomItMay ==
    \A t \in transactions :
        t.user = call[t.id].caller \/ call[t.id].role = "ADMIN"

\* The direct way never returns with a database transaction open; the way of
\* the repository only after a failed database call.
ConnectionReturned ==
    \A r \in Req : pc[r] = "returned" /\ tx[r] = "open"
                   => transactionRepo /\ r \in faulted

-----------------------------------------------------------------------------
(***************************************************************************)
(* The inductive strengthening of the safety properties above.             *)
(***************************************************************************)
Saving == {"InsertTransaction", "InsertRuleResults"}

\* The results are those of the rules that were read, at one instant.
Recorded(rs) == {[rule |-> rs[i].rule, matched |-> rs[i].matched] : i \in DOMAIN rs}
ResultsOf(set, c) == {[rule |-> e.id, matched |-> Evaluate(e.dsl, c)] : e \in set}
ReadAtOneInstant(r) ==
    \E set \in Instants(r) : Recorded(ruleResults[r]) = ResultsOf(set, call[r])

Inserted(r) == {NewResult(r, i) : i \in {j \in DOMAIN ruleResults[r] : j < next[r]}}

\* What a call has checked and done by the time it gets so far.
CallInv(r) ==
    /\ pc[r] # "idle" => call[r] \in Calls
    /\ pc[r] # "returned" => outcome[r] = "none" /\ ~Stored(r)
    /\ Running(r) => Active \in seen[r]
    /\ pc[r] \in {"GetByID", "GetAllActive", "BeginTx"} \cup Saving =>
          Valid(call[r]) /\ MayCreate(call[r])
    /\ pc[r] \in {"BeginTx"} \cup Saving => ReadAtOneInstant(r)
    /\ pc[r] \notin {"InsertRuleResults", "returned"} => next[r] = 1
    /\ tx[r] = "none" => wrote[r] = Empty
    /\ pc[r] \in Saving => tx[r] = "open"
    /\ tx[r] = "open" => pc[r] \in Saving \cup {"returned"}
    /\ pc[r] = "InsertTransaction" => wrote[r] = Empty
    /\ pc[r] = "InsertRuleResults" =>
          wrote[r] = [transactions |-> {NewRow(r)}, results |-> Inserted(r)]

\* What is known of a row that is stored.
RowInv(t) ==
    /\ pc[t.id] = "returned" /\ call[t.id] \in Calls
    /\ MayCreate(call[t.id]) /\ t = NewRow(t.id) /\ ReadAtOneInstant(t.id)
    /\ {x \in results : x.txn = t.id} =
          {NewResult(t.id, i) : i \in DOMAIN ruleResults[t.id]}

IndInv ==
    /\ TypeOK /\ ResponseOrdered /\ OutcomeTrue /\ ConnectionReturned
    /\ \A r \in Req : CallInv(r)
    /\ \A t \in transactions : RowInv(t)
    /\ \A x \in results : Stored(x.txn)
=============================================================================
