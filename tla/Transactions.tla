---------------------------- MODULE Transactions ----------------------------
(***************************************************************************)
(* POST, GET-list and GET-by-id of /api/v1/transactions, from the token    *)
(* middleware to the database and back.  Every request runs in a goroutine *)
(* of its own; one action below is one stretch of a handler between two    *)
(* calls of the database, so that the steps of concurrent requests, and    *)
(* the writes other endpoints make to users and rules, interleave freely.  *)
(***************************************************************************)
EXTENDS Naturals, FiniteSets

CONSTANTS
    Req,            \* HTTP requests; each is sent at most once.  The uuid of
                    \* the transaction that request r creates is r itself
    UserId,         \* ids of users
    RuleId,         \* ids of fraud rules
    NoUser,         \* the optional userId of a request, when it is not given
    NoTxn,          \* the id of a call that is not about one transaction
    NoCall,         \* the call of a request that has not arrived yet
    Calls,          \* the calls a client may make, a subset of Call
    MaxOpenConns,   \* size of the connection pool (25 in dataBase.go)
    MaxFaults,      \* bound: how many requests meet a failing database call
    MaxCrashes,     \* bound: how many times the server process dies
    MaxWrites       \* bound: how many times users and rules are written

(***************************************************************************)
(* What the body (or the query string, or the id in the path) of a call    *)
(* can be: not parseable, refused by the handler's field checks, accepted  *)
(* by them but refused by the schema (a merchantId longer than the column, *)
(* an unknown channel), or fine.                                           *)
(***************************************************************************)
Body == {"malformed", "invalid", "unstorable", "valid"}
Role == {"USER", "ADMIN"}

\* A token is good, or it is refused when it is parsed: there is none, its
\* signature is not the server's, or its time is over.
Token == {"good", "bad"}

\* caller and role are the claims in the token, userId the optional parameter,
\* id the transaction a "get" asks for.
Call == [op : {"create", "list", "get"}, token : Token, caller : UserId,
         role : Role, userId : UserId \cup {NoUser}, body : Body,
         id : Req \cup {NoTxn}]

ASSUME CallsAssumption == Calls \subseteq Call
ASSUME NoUserAssumption == NoUser \notin UserId
ASSUME NoCallAssumption == NoCall \notin Call
ASSUME BoundsAssumption ==
    /\ MaxOpenConns \in Nat \ {0}
    /\ MaxFaults \in Nat
    /\ MaxCrashes \in Nat
    /\ MaxWrites \in Nat

VARIABLES
    (* the database: what is committed *)
    users,          \* per user id: no row, or the is_active column
    rules,          \* per rule id: no row, or the enabled column
    transactions,   \* rows of transactions
    results,        \* rows of transaction_rule_results
    (* one entry per request *)
    pc,             \* what its handler does next
    call,           \* what the client asked for
    answer,         \* the status code sent, 0 before that
    ctx,            \* c.Request.Context(): live, or done
    tx,             \* its database transaction; open holds a connection
    wrote,          \* rows written in tx, published by Commit only
    snap,           \* the rules GetAllActive returned
    todo,           \* the rules whose result is still to be inserted
    listed,         \* [total, items] of a listing
    (* environment *)
    faulted,        \* requests that met a failing database call
    crashes,        \* times the process died
    writes,         \* times users or rules were written
    (* history, read by properties only *)
    seen,           \* per request: the sets of enabled rules since it arrived
    activeSeen,     \* per request: the users active at some time since then
    before          \* per request: the transactions committed when it arrived

tables  == <<transactions, results>>
request == <<call, ctx, tx, wrote, snap, todo, listed>>
history == <<seen, activeSeen, before>>
others  == <<users, rules, writes, crashes>>
vars    == <<users, rules, transactions, results, pc, call, answer, ctx, tx,
             wrote, snap, todo, listed, faulted, crashes, writes,
             seen, activeSeen, before>>

Row    == [id : Req, user : UserId, status : {"APPROVED", "DECLINED"},
           isFraud : BOOLEAN]
Result == [txn : Req, rule : RuleId, matched : BOOLEAN]
Buffer == [transactions : SUBSET Row, results : SUBSET Result]
Empty  == [transactions |-> {}, results |-> {}]
Code   == {0, 200, 201, 400, 401, 403, 404, 422, 423, 500}

\* The program counter of a handler, by the call it is about to make.
PC == {"idle", "ProvToken", "route", "GetByID", "GetAllActive", "BeginTx",
       "InsertTransaction", "InsertRuleResults", "ListQuery",
       "answered", "closed", "lost"}

InFlight(r) == pc[r] \notin {"idle", "answered", "closed", "lost"}
Stored(r)   == \E t \in transactions : t.id = r
ResultsOf(id) == {x \in results : x.txn = id}
EnabledIn(table) == {x \in RuleId : table[x] = "enabled"}
ActiveIn(table)  == {u \in UserId : table[u] = "active"}

Init ==
    /\ users \in [UserId -> {"absent", "active", "inactive"}]
    /\ rules \in [RuleId -> {"absent", "enabled", "disabled"}]
    /\ transactions = {}
    /\ results = {}
    /\ pc = [r \in Req |-> "idle"]
    /\ call = [r \in Req |-> NoCall]
    /\ answer = [r \in Req |-> 0]
    /\ ctx = [r \in Req |-> "live"]
    /\ tx = [r \in Req |-> "none"]
    /\ wrote = [r \in Req |-> Empty]
    /\ snap = [r \in Req |-> {}]
    /\ todo = [r \in Req |-> {}]
    /\ listed = [r \in Req |-> [total |-> 0, items |-> {}]]
    /\ faulted = {}
    /\ crashes = 0
    /\ writes = 0
    /\ seen = [r \in Req |-> {}]
    /\ activeSeen = [r \in Req |-> {}]
    /\ before = [r \in Req |-> {}]

(***************************************************************************)
(* Database calls.  A call on the pool waits for a free connection; an     *)
(* open transaction keeps one.  Every call gets the request's context and  *)
(* fails at once when that is done; it may also fail on its own.           *)
(***************************************************************************)
ConnFree == Cardinality({r \in Req : tx[r] = "open"}) < MaxOpenConns

Fault(r) ==
    /\ r \notin faulted
    /\ Cardinality(faulted) < MaxFaults
    /\ faulted' = faulted \cup {r}

Cancelled(r) == ctx[r] = "done" /\ UNCHANGED faulted

Succeeds(r) == ctx[r] = "live" /\ ConnFree /\ UNCHANGED faulted
Fails(r)    == Cancelled(r) \/ (ctx[r] = "live" /\ ConnFree /\ Fault(r))

\* On the connection that the request's own transaction already holds.
TxSucceeds(r) == ctx[r] = "live" /\ tx[r] = "open" /\ UNCHANGED faulted
TxFails(r)    == Cancelled(r) \/ (ctx[r] = "live" /\ Fault(r))

Goto(r, from, to) == pc[r] = from /\ pc' = [pc EXCEPT ![r] = to]
Reply(r, code) ==
    /\ pc' = [pc EXCEPT ![r] = "answered"]
    /\ answer' = [answer EXCEPT ![r] = code]

(***************************************************************************)
(* A request arrives, passes the token middleware, and is answered.        *)
(***************************************************************************)
Arrive(r) ==
    /\ Goto(r, "idle", "ProvToken")
    /\ \E c \in Calls : call' = [call EXCEPT ![r] = c]
    /\ seen' = [seen EXCEPT ![r] = {EnabledIn(rules)}]
    /\ activeSeen' = [activeSeen EXCEPT ![r] = ActiveIn(users)]
    /\ before' = [before EXCEPT ![r] = transactions]
    /\ UNCHANGED <<tables, answer, ctx, tx, wrote, snap, todo, listed, faulted,
                   others>>

\* A bad token is refused without a query.  With a good one the handler goes on
\* only if the caller's row exists and is active; a failing query is answered
\* like a deactivated user.
ProvToken(r) ==
    /\ pc[r] = "ProvToken"
    /\ \/ call[r].token = "bad" /\ UNCHANGED faulted /\ Reply(r, 401)
       \/ /\ call[r].token = "good"
          /\ \/ /\ Succeeds(r)
                /\ users[call[r].caller] = "active"
                /\ pc' = [pc EXCEPT ![r] = "route"]
                /\ UNCHANGED answer
             \/ /\ Succeeds(r)
                /\ users[call[r].caller] # "active"
                /\ Reply(r, 401)
             \/ Fails(r) /\ Reply(r, 401)
    /\ UNCHANGED <<tables, request, others, history>>

(***************************************************************************)
(* POST /api/v1/transactions                                               *)
(***************************************************************************)
Target(c) == IF c.role = "ADMIN" THEN c.userId ELSE c.caller

Creates(r) == pc[r] = "route" /\ call[r].op = "create"

ForOther(c) == c.role = "USER" /\ c.userId \notin {NoUser, c.caller}
ForNobody(c) == c.role = "ADMIN" /\ c.userId = NoUser

\* Field checks first, then who the transaction is for.
CreateTransaction(r) ==
    /\ Creates(r)
    /\ LET c == call[r] IN
       \/ c.body = "malformed" /\ Reply(r, 400)
       \/ c.body = "invalid" /\ Reply(r, 422)
       \/ /\ c.body \in {"unstorable", "valid"}
          /\ \/ ForNobody(c) /\ Reply(r, 400)
             \/ ForOther(c) /\ Reply(r, 403)
             \/ /\ ~ForNobody(c) /\ ~ForOther(c)
                /\ Goto(r, "route", "GetByID")
                /\ UNCHANGED answer
    /\ UNCHANGED <<tables, request, faulted, others, history>>

\* Mutant: is_active is not looked at.
GetTargetUserInactiveToo(r) ==
    /\ pc[r] = "GetByID"
    /\ LET status == users[Target(call[r])] IN
       \/ /\ Succeeds(r)
          /\ \/ status = "absent" /\ Reply(r, 404)
             \/ /\ status # "absent"
                /\ Goto(r, "GetByID", "GetAllActive")
                /\ UNCHANGED answer
       \/ Fails(r) /\ Reply(r, 500)
    /\ UNCHANGED <<tables, request, others, history>>

\* Mutant: an error of the query is taken for a user found.
GetTargetUserErrorIgnored(r) ==
    /\ pc[r] = "GetByID"
    /\ users[Target(call[r])] = "active" \/ Fails(r)
    /\ Succeeds(r) \/ Fails(r)
    /\ Goto(r, "GetByID", "GetAllActive")
    /\ UNCHANGED <<tables, answer, request, others, history>>

GetTargetUser(r) ==
    /\ pc[r] = "GetByID"
    /\ LET status == users[Target(call[r])] IN
       \/ /\ Succeeds(r)
          /\ \/ status = "absent" /\ Reply(r, 404)
             \/ status = "inactive" /\ Reply(r, 423)
             \/ /\ status = "active"
                /\ Goto(r, "GetByID", "GetAllActive")
                /\ UNCHANGED answer
       \/ Fails(r) /\ Reply(r, 500)
    /\ UNCHANGED <<tables, request, others, history>>

\* Mutant: the WHERE clause is missing.
RulesReadDisabledToo == {x \in RuleId : rules[x] # "absent"}

\* SELECT ... FROM fraud WHERE enabled = true
RulesRead == EnabledIn(rules)

GetAllActive(r) ==
    /\ pc[r] = "GetAllActive"
    /\ \/ /\ Succeeds(r)
          /\ Goto(r, "GetAllActive", "BeginTx")
          /\ snap' = [snap EXCEPT ![r] = RulesRead]
          /\ todo' = [todo EXCEPT ![r] = RulesRead]
          /\ UNCHANGED answer
       \/ Fails(r) /\ Reply(r, 500) /\ UNCHANGED <<snap, todo>>
    /\ UNCHANGED <<tables, call, ctx, tx, wrote, listed, others, history>>

\* The row Create builds: no rule is evaluated, every transaction is approved.
NewRow(r) == [id |-> r, user |-> Target(call[r]),
              status |-> "APPROVED", isFraud |-> FALSE]
NewResult(r, rule) == [txn |-> r, rule |-> rule, matched |-> FALSE]

Rollback(r) ==
    /\ tx' = [tx EXCEPT ![r] = "none"]
    /\ wrote' = [wrote EXCEPT ![r] = Empty]

BeginTx(r) ==
    /\ pc[r] = "BeginTx"
    /\ \/ /\ Succeeds(r)
          /\ Goto(r, "BeginTx", "InsertTransaction")
          /\ tx' = [tx EXCEPT ![r] = "open"]
          /\ UNCHANGED answer
       \/ Fails(r) /\ Reply(r, 500) /\ UNCHANGED tx
    /\ UNCHANGED <<tables, call, ctx, wrote, snap, todo, listed, others, history>>

\* A failing insert is rolled back by the deferred function.
InsertTransaction(r) ==
    /\ pc[r] = "InsertTransaction"
    /\ \/ /\ TxSucceeds(r)
          /\ call[r].body = "valid"
          /\ wrote' = [wrote EXCEPT ![r].transactions = @ \cup {NewRow(r)}]
          /\ Goto(r, "InsertTransaction", "InsertRuleResults")
          /\ UNCHANGED <<tx, answer>>
       \/ /\ TxFails(r) \/ (TxSucceeds(r) /\ call[r].body = "unstorable")
          /\ Rollback(r)
          /\ Reply(r, 500)
    /\ UNCHANGED <<tables, call, ctx, snap, todo, listed, others, history>>

\* Mutant: a failing insert of a result is skipped over.
InsertRuleResultErrorIgnored(r) ==
    /\ pc[r] = "InsertRuleResults"
    /\ \E rule \in todo[r] :
       /\ \/ /\ TxSucceeds(r)
             /\ wrote' = [wrote EXCEPT ![r].results = @ \cup {NewResult(r, rule)}]
          \/ TxFails(r) /\ UNCHANGED wrote
       /\ todo' = [todo EXCEPT ![r] = @ \ {rule}]
    /\ UNCHANGED <<tables, pc, answer, call, ctx, tx, snap, listed, others, history>>

\* One turn of the loop.  The error of a failing insert is a variable of the
\* loop, so the deferred function sees none and leaves the transaction open.
InsertRuleResult(r) ==
    /\ pc[r] = "InsertRuleResults"
    /\ \E rule \in todo[r] :
       \/ /\ TxSucceeds(r)
          /\ wrote' = [wrote EXCEPT ![r].results = @ \cup {NewResult(r, rule)}]
          /\ todo' = [todo EXCEPT ![r] = @ \ {rule}]
          /\ UNCHANGED <<pc, answer>>
       \/ TxFails(r) /\ Reply(r, 500) /\ UNCHANGED <<wrote, todo>>
    /\ UNCHANGED <<tables, call, ctx, tx, snap, listed, others, history>>

Publish(r) ==
    /\ transactions' = transactions \cup wrote[r].transactions
    /\ results' = results \cup wrote[r].results

\* Mutant: the error of Commit is dropped.
CommitErrorIgnored(r) ==
    /\ pc[r] = "InsertRuleResults" /\ todo[r] = {}
    /\ \/ TxSucceeds(r) /\ Publish(r)
       \/ TxFails(r) /\ UNCHANGED tables
    /\ Reply(r, 201)
    /\ Rollback(r)
    /\ UNCHANGED <<call, ctx, snap, todo, listed, others, history>>

\* COMMIT may be refused, or applied without its answer coming back.
Commit(r) ==
    /\ pc[r] = "InsertRuleResults" /\ todo[r] = {}
    /\ \/ TxSucceeds(r) /\ Publish(r) /\ Reply(r, 201)
       \/ TxFails(r) /\ UNCHANGED tables /\ Reply(r, 500)
       \/ ctx[r] = "live" /\ Fault(r) /\ Publish(r) /\ Reply(r, 500)
    /\ Rollback(r)
    /\ UNCHANGED <<call, ctx, snap, todo, listed, others, history>>

(***************************************************************************)
(* GET /api/v1/transactions: COUNT(star), then the rows, two statements    *)
(* outside any transaction.                                                *)
(***************************************************************************)
\* Mutant: the userId of the query string is honoured whatever the role.
ListTargetAnyRole(c) == IF c.userId # NoUser THEN c.userId ELSE c.caller

ListTarget(c) ==
    IF c.role = "ADMIN" /\ c.userId # NoUser THEN c.userId ELSE c.caller

Matching(r) == {t \in transactions : t.user = ListTarget(call[r])}

GetTransactions(r) ==
    /\ pc[r] = "route" /\ call[r].op = "list"
    /\ \/ /\ call[r].body = "malformed"
          /\ Reply(r, 400)
          /\ UNCHANGED <<listed, faulted>>
       \/ /\ call[r].body # "malformed"
          /\ \/ /\ Succeeds(r)
                /\ listed' = [listed EXCEPT ![r].total = Cardinality(Matching(r))]
                /\ Goto(r, "route", "ListQuery")
                /\ UNCHANGED answer
             \/ Fails(r) /\ Reply(r, 500) /\ UNCHANGED listed
    /\ UNCHANGED <<tables, call, ctx, tx, wrote, snap, todo, others, history>>

\* The loop over the rows does not ask why it ended: when the connection breaks
\* or the client leaves between two rows, the ones read so far are the page.
ListQuery(r) ==
    /\ pc[r] = "ListQuery"
    /\ \/ /\ Succeeds(r)
          /\ listed' = [listed EXCEPT ![r].items = Matching(r)]
          /\ Reply(r, 200)
       \/ Fails(r) /\ Reply(r, 500) /\ UNCHANGED listed
       \/ /\ Fails(r)
          /\ \E part \in SUBSET Matching(r) :
                listed' = [listed EXCEPT ![r].items = part]
          /\ Reply(r, 200)
    /\ UNCHANGED <<tables, call, ctx, tx, wrote, snap, todo, others, history>>

\* The statement that reads by id has a comma before FROM: the database refuses
\* it whether or not the transaction exists, and so does a call that fails.
ReadById(r) == Succeeds(r) \/ Fails(r)

\* GET /api/v1/transactions/:id
GetTransaction(r) ==
    /\ pc[r] = "route" /\ call[r].op = "get"
    /\ \/ call[r].body = "malformed" /\ Reply(r, 400) /\ UNCHANGED faulted
       \/ /\ call[r].body # "malformed"
          /\ ReadById(r)
          /\ Reply(r, 500)
    /\ UNCHANGED <<tables, request, others, history>>

(***************************************************************************)
(* The server and the driver around the handlers.                          *)
(***************************************************************************)
\* ServeHTTP returns, and net/http cancels the request's context.
Finish(r) ==
    /\ Goto(r, "answered", "closed")
    /\ ctx' = [ctx EXCEPT ![r] = "done"]
    /\ UNCHANGED <<tables, answer, call, tx, wrote, snap, todo, listed, faulted,
                   others, history>>

\* The client goes away; the handler runs on with a context that is done.
Disconnect(r) ==
    /\ InFlight(r) /\ ctx[r] = "live"
    /\ ctx' = [ctx EXCEPT ![r] = "done"]
    /\ UNCHANGED <<tables, pc, answer, call, tx, wrote, snap, todo, listed,
                   faulted, others, history>>

\* Mutant: BeginTx is given a context that is never done.
AwaitDoneBackground(r) == FALSE

\* database/sql watches the context given to BeginTx and rolls back.
AwaitDone(r) ==
    /\ ctx[r] = "done" /\ tx[r] = "open"
    /\ Rollback(r)
    /\ UNCHANGED <<tables, pc, answer, call, ctx, snap, todo, listed, faulted,
                   others, history>>

\* The process dies and is started again: the database keeps what is
\* committed and rolls back the rest.
Crash ==
    /\ crashes < MaxCrashes
    /\ crashes' = crashes + 1
    /\ pc' = [r \in Req |-> IF InFlight(r) THEN "lost"
                            ELSE IF pc[r] = "answered" THEN "closed" ELSE pc[r]]
    /\ ctx' = [r \in Req |-> IF pc[r] = "idle" THEN ctx[r] ELSE "done"]
    /\ tx' = [r \in Req |-> "none"]
    /\ wrote' = [r \in Req |-> Empty]
    /\ UNCHANGED <<users, rules, tables, answer, call, snap, todo, listed,
                   faulted, writes, history>>

(***************************************************************************)
(* What the other endpoints do to users and rules.  Rows are never         *)
(* deleted; users are created active and rules enabled; an update writes   *)
(* the whole row.                                                          *)
(***************************************************************************)
UserWritten(u, s) ==
    /\ writes < MaxWrites
    /\ writes' = writes + 1
    /\ IF users[u] = "absent" THEN s = "active" ELSE s # users[u]
    /\ users' = [users EXCEPT ![u] = s]
    /\ activeSeen' = [r \in Req |-> IF InFlight(r)
                                    THEN activeSeen[r] \cup ActiveIn(users')
                                    ELSE activeSeen[r]]
    /\ UNCHANGED <<rules, tables, pc, answer, request, faulted, crashes,
                   seen, before>>

RuleWritten(x, s) ==
    /\ writes < MaxWrites
    /\ writes' = writes + 1
    /\ IF rules[x] = "absent" THEN s = "enabled" ELSE s # rules[x]
    /\ rules' = [rules EXCEPT ![x] = s]
    /\ seen' = [r \in Req |-> IF InFlight(r)
                              THEN seen[r] \cup {EnabledIn(rules')}
                              ELSE seen[r]]
    /\ UNCHANGED <<users, tables, pc, answer, request, faulted, crashes,
                   activeSeen, before>>

Handler(r) ==
    \/ ProvToken(r)
    \/ CreateTransaction(r) \/ GetTargetUser(r) \/ GetAllActive(r)
    \/ BeginTx(r) \/ InsertTransaction(r) \/ InsertRuleResult(r) \/ Commit(r)
    \/ GetTransactions(r) \/ ListQuery(r)
    \/ GetTransaction(r)

Environment ==
    \/ \E u \in UserId, s \in {"active", "inactive"} : UserWritten(u, s)
    \/ \E x \in RuleId, s \in {"enabled", "disabled"} : RuleWritten(x, s)
    \/ Crash

Next ==
    \/ \E r \in Req : \/ Arrive(r) \/ Handler(r) \/ Finish(r)
                      \/ Disconnect(r) \/ AwaitDone(r)
    \/ Environment

Spec == Init /\ [][Next]_vars

\* The runtime schedules every goroutine, and database/sql serves waiters for
\* a connection in the order they came: a step of a handler that stays
\* possible is taken.  Clients, other endpoints and faults owe nothing.
Fairness == \A r \in Req : WF_vars(Handler(r)) /\ WF_vars(Finish(r))
                           /\ WF_vars(AwaitDone(r))

FairSpec == Spec /\ Fairness

-----------------------------------------------------------------------------
(***************************************************************************)
(* Properties.                                                             *)
(***************************************************************************)

\* Every variable stays within its type: in particular the tables only hold
\* rows that their CHECK and NOT NULL constraints allow.
TypeOK ==
    /\ users \in [UserId -> {"absent", "active", "inactive"}]
    /\ rules \in [RuleId -> {"absent", "enabled", "disabled"}]
    /\ transactions \subseteq Row
    /\ results \subseteq Result
    /\ pc \in [Req -> PC]
    /\ call \in [Req -> Calls \cup {NoCall}]
    /\ answer \in [Req -> Code]
    /\ ctx \in [Req -> {"live", "done"}]
    /\ tx \in [Req -> {"none", "open"}]
    /\ wrote \in [Req -> Buffer]
    /\ snap \in [Req -> SUBSET RuleId]
    /\ todo \in [Req -> SUBSET RuleId]
    /\ listed \in [Req -> [total : Nat, items : SUBSET Row]]
    /\ faulted \subseteq Req
    /\ crashes \in 0..MaxCrashes
    /\ writes \in 0..MaxWrites
    /\ seen \in [Req -> SUBSET SUBSET RuleId]
    /\ activeSeen \in [Req -> SUBSET UserId]
    /\ before \in [Req -> SUBSET Row]

\* CreateWithResults is all or nothing: a saved transaction has exactly one
\* result for every rule its request read, and no result is without its
\* transaction, whatever insert failed, client left or process died on the way.
SavedWhole ==
    /\ \A t \in transactions :
          ResultsOf(t.id) = {NewResult(t.id, rule) : rule \in snap[t.id]}
    /\ \A x \in results : Stored(x.txn)

\* Create reads the rules before it opens its database transaction: rules may
\* change in between, but what is recorded is the set of rules enabled at one
\* instant of the request, never a mixture of two.
RulesOfOneInstant ==
    \A t \in transactions : {x.rule : x \in ResultsOf(t.id)} \in seen[t.id]

\* What CreateTransaction tells its client about the database: 201 only for a
\* saved transaction, any refusal (4xx) only for one that is not saved, and a
\* 500 may hide a saved one only if the database itself failed the request.
AnswerMatchesStore ==
    \A r \in Req :
        /\ answer[r] = 201 => Stored(r)
        /\ answer[r] \in 400..499 => ~Stored(r)
        /\ answer[r] = 500 /\ Stored(r) => r \in faulted

\* A transaction saved for a USER is that user's own, and the request named
\* nobody else; one saved for an ADMIN belongs to the user the request named.
SavedForWhomItMay ==
    \A t \in transactions :
        LET c == call[t.id] IN
        IF c.role = "USER"
        THEN t.user = c.caller /\ c.userId \in {NoUser, c.caller}
        ELSE t.user = c.userId

\* Nobody locks the user's row between the check of is_active and the commit,
\* so a user may be deactivated meanwhile; but both the caller and the owner of
\* a saved transaction were active at some time during the request.
CheckedActive ==
    \A t \in transactions : {t.user, call[t.id].caller} \subseteq activeSeen[t.id]

\* A listing answered 200 holds only the target user's transactions.  Unless a
\* call of the request failed or its client left, it holds all that were saved
\* before it arrived and at least as many as total says: COUNT runs before
\* SELECT and rows are only ever added.
ListingSound ==
    \A r \in Req : answer[r] = 200 =>
        LET c == call[r]
            owner == IF c.role = "USER" \/ c.userId = NoUser THEN c.caller ELSE c.userId
            mine(set) == {t \in set : t.user = owner} IN
        /\ listed[r].items \subseteq mine(transactions)
        /\ pc[r] = "answered" /\ ctx[r] = "live" /\ r \notin faulted =>
              /\ mine(before[r]) \subseteq listed[r].items
              /\ Cardinality(mine(before[r])) <= listed[r].total
              /\ listed[r].total <= Cardinality(listed[r].items)

\* The ledger is append-only, and a transaction appears together with its
\* results: no later step adds a result to a transaction already visible.
AppendOnlyStep ==
    /\ transactions \subseteq transactions'
    /\ results \subseteq results'
    /\ \A x \in results' \ results : ~Stored(x.txn)
AppendOnly == [][AppendOnlyStep]_vars

\* Every request that arrives is answered and closed, or dies with the process,
\* even with one connection in the pool and a failed insert that leaves a
\* transaction open: nobody waits for a connection for ever.
EveryRequestEnds ==
    \A r \in Req : pc[r] = "ProvToken" ~> pc[r] \in {"closed", "lost"}

\* The connection that CreateWithResults leaves in an open transaction after a
\* failed rule result is given back once the context of the request is done.
ConnectionsComeBack == \A r \in Req : tx[r] = "open" ~> tx[r] = "none"

\* GetTransaction reads a transaction by id, checking rights: a client asking
\* for its own saved transaction is not answered 500 while nothing fails.
OwnTransactionReadable ==
    \A r \in Req :
        pc[r] = "answered" /\ ctx[r] = "live" /\ call[r].op = "get" /\ r \notin faulted
        /\ (\E t \in before[r] : t.id = call[r].id /\ t.user = call[r].caller)
        => answer[r] # 500

-----------------------------------------------------------------------------
(***************************************************************************)
(* The endpoint implements the Ledger.                                     *)
(***************************************************************************)
RulesOf(id) == {x.rule : x \in ResultsOf(id)}
EntryOf(t) == [id |-> t.id, user |-> t.user, rules |-> RulesOf(t.id)]
ToldTo(r) == IF pc[r] = "idle" THEN "new"
             ELSE IF InFlight(r) THEN "open"
             ELSE IF answer[r] = 201 THEN "saved"
             ELSE IF answer[r] \in {0, 500} THEN "unknown"
             ELSE "notsaved"

Promise == INSTANCE Ledger WITH
    active <- ActiveIn(users),
    enabled <- EnabledIn(rules),
    ledger <- {EntryOf(t) : t \in transactions},
    told <- [r \in Req |-> ToldTo(r)],
    eligible <- activeSeen,
    inForce <- seen

\* Whatever the interleaving, the steps of CreateTransaction, with their failed
\* inserts, lost commits and crashes, look to a client like one atomic entry.
ImplementsLedger == Promise!Spec

-----------------------------------------------------------------------------
(***************************************************************************)
(* The inductive strengthening of the safety properties above.             *)
(***************************************************************************)
Creating == {"GetByID", "GetAllActive", "BeginTx", "InsertTransaction",
             "InsertRuleResults"}
Inserting == {"InsertTransaction", "InsertRuleResults"}

\* What a handler has already checked, by how far it got.
Checked(r) ==
    /\ pc[r] # "idle" => call[r] \in Calls
    /\ InFlight(r) => /\ ActiveIn(users) \subseteq activeSeen[r]
                      /\ EnabledIn(rules) \in seen[r]
    /\ InFlight(r) /\ pc[r] # "ProvToken" => call[r].caller \in activeSeen[r]
    /\ pc[r] \in Creating =>
          /\ call[r].op = "create"
          /\ ~ForNobody(call[r]) /\ ~ForOther(call[r])
    /\ pc[r] \in Creating \ {"GetByID"} => Target(call[r]) \in activeSeen[r]
    /\ pc[r] \in {"BeginTx"} \cup Inserting => snap[r] \in seen[r]

\* What an open transaction has buffered: the row, and a result for every rule
\* that is done.
Buffered(r) ==
    /\ tx[r] = "none" => wrote[r] = Empty
    /\ tx[r] = "open" => pc[r] \in Inserting \cup {"answered", "closed"}
    /\ pc[r] = "InsertTransaction" => wrote[r] = Empty /\ todo[r] = snap[r]
    /\ pc[r] = "BeginTx" => todo[r] = snap[r]
    /\ pc[r] = "InsertRuleResults" =>
          /\ todo[r] \subseteq snap[r]
          /\ tx[r] = "open" =>
                /\ wrote[r].transactions = {NewRow(r)}
                /\ wrote[r].results =
                      {NewResult(r, rule) : rule \in snap[r] \ todo[r]}

\* What is known of a saved transaction: everything its handler had checked.
SavedRow(t) ==
    /\ pc[t.id] \in {"answered", "closed"}
    /\ answer[t.id] = 201 \/ (answer[t.id] = 500 /\ t.id \in faulted)
    /\ call[t.id] \in Calls /\ call[t.id].op = "create"
    /\ ~ForNobody(call[t.id]) /\ ~ForOther(call[t.id])
    /\ call[t.id].caller \in activeSeen[t.id]
    /\ Target(call[t.id]) \in activeSeen[t.id]
    /\ snap[t.id] \in seen[t.id]
    /\ t = NewRow(t.id)
    /\ ResultsOf(t.id) = {NewResult(t.id, rule) : rule \in snap[t.id]}

RequestInv(r) ==
    /\ Checked(r)
    /\ Buffered(r)
    /\ answer[r] = 201 => Stored(r)
    /\ pc[r] \notin {"answered", "closed"} => answer[r] = 0

LedgerInv ==
    /\ IsFiniteSet(transactions)
    /\ \A t \in transactions : SavedRow(t)
    /\ \A x \in results : Stored(x.txn)

\* A handler's progress is backed by what it checked, a buffer by the handler's
\* progress, and the ledger by both.
CreationInv == TypeOK /\ (\A r \in Req : RequestInv(r)) /\ LedgerInv

\* Between COUNT and SELECT rows are only added, so the count a listing holds
\* lies between the rows committed when it arrived and those committed now.
MineBefore(r) == {t \in before[r] : t.user = ListTarget(call[r])}

ListingInv(r) ==
    /\ before[r] \subseteq transactions
    /\ pc[r] = "ListQuery" =>
          /\ Cardinality(MineBefore(r)) <= listed[r].total
          /\ listed[r].total <= Cardinality(Matching(r))
    /\ answer[r] = 200 => listed[r].items \subseteq Matching(r)
    /\ answer[r] = 200 /\ pc[r] = "answered" /\ ctx[r] = "live" /\ r \notin faulted =>
          /\ MineBefore(r) \subseteq listed[r].items
          /\ Cardinality(MineBefore(r)) <= listed[r].total
          /\ listed[r].total <= Cardinality(listed[r].items)

\* The inductive invariant of the whole module.
IndInv == CreationInv /\ \A r \in Req : ListingInv(r)

====
