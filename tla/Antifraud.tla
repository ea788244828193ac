------------------------------ MODULE Antifraud ------------------------------
(***************************************************************************)
(* The server as a whole: the endpoints of Accounts, FraudRules and        *)
(* Transactions in one process, over one database and one pool of          *)
(* connections.  Accounts is extended; the other two are instances that    *)
(* see its table users, and Transactions sees the table of FraudRules, so  *)
(* that the writes which each of them supposes of the others are here the  *)
(* steps of handlers.                                                      *)
(***************************************************************************)
EXTENDS Accounts

CONSTANTS
    TxnReq, TxnCalls,       \* requests for transactions, and what they may ask
    RuleReq, RuleCalls,     \* the same for fraud rules
    OldRule, Name, Text, None,  \* the constants of FraudRules
    NoUser, NoTxn,          \* the constants of Transactions
    MaxOpenConns,           \* size of the connection pool
    MaxTxnFaults, MaxRuleFaults,    \* bounds, as MaxFaults
    MaxWrites               \* bound: how many writes one part sees of others

VARIABLES
    \* of Transactions
    transactions, results, tpc, tcall, tanswer, ctx, tx, wrote, tsnap, todo,
    listed, tfaulted, tcrashes, twrites, seen, activeSeen, before,
    \* of FraudRules
    rules, fpc, fcall, fanswer, fsnap, ffaulted, fcrashes, fwrites, foverlapped

\* What the other parts read of a row of users: is it there, is it active.
UserStatus ==
    [u \in UserId |-> IF ~Stored(u) THEN "absent"
                      ELSE IF users[u].active THEN "active" ELSE "inactive"]

F == INSTANCE FraudRules WITH
        Req <- RuleReq, Calls <- RuleCalls, MaxFaults <- MaxRuleFaults,
        users <- UserStatus, pc <- fpc, call <- fcall, answer <- fanswer,
        snap <- fsnap, faulted <- ffaulted, crashes <- fcrashes,
        writes <- fwrites, overlapped <- foverlapped

\* What Transactions reads of a row of fraud: is it there, is it enabled.
RuleStatus ==
    [x \in F!RuleId |-> IF rules[x] = NoRow THEN "absent"
                        ELSE IF rules[x].enabled THEN "enabled" ELSE "disabled"]

T == INSTANCE Transactions WITH
        Req <- TxnReq, Calls <- TxnCalls, MaxFaults <- MaxTxnFaults,
        RuleId <- F!RuleId, users <- UserStatus, rules <- RuleStatus,
        pc <- tpc, call <- tcall, answer <- tanswer, snap <- tsnap,
        faulted <- tfaulted, crashes <- tcrashes, writes <- twrites

ASSUME PartsAssumption ==
    /\ TxnCalls \subseteq T!Call /\ NoCall \notin T!Call /\ NoUser \notin UserId
    /\ RuleCalls \subseteq F!Call /\ NoCall \notin F!Call /\ NoRow \notin F!Row
    /\ OldRule \cap RuleReq = {} /\ None \notin Name \cup Text
ASSUME PartsBoundsAssumption ==
    /\ MaxOpenConns \in Nat \ {0}
    /\ MaxTxnFaults \in Nat /\ MaxRuleFaults \in Nat /\ MaxWrites \in Nat

txnOwn  == <<transactions, results, tpc, tcall, tanswer, ctx, tx, wrote, tsnap,
             todo, listed, tfaulted, tcrashes, before>>
ruleOwn == <<fpc, fcall, fanswer, fsnap, ffaulted, fcrashes, foverlapped>>
txnSees == <<twrites, seen, activeSeen>>
systemVars == <<vars, txnOwn, txnSees, rules, ruleOwn, fwrites>>

SystemInit == Init /\ F!Init /\ T!Init

(***************************************************************************)
(* The pool.  A statement waits for a connection that no open transaction  *)
(* holds; a request whose client leaves, here one that meets a fault, need *)
(* not wait any longer.                                                    *)
(***************************************************************************)
PoolFree == T!ConnFree

Statement == {"CheckEmail", "CheckEmailAgain", "Create", "GetByEmail", "GetByID",
              "Update"}
AsksDatabase(r) == pc[r] \in Statement \/ (pc[r] = "ProvToken" /\ Genuine(r))
RuleAsksDatabase(r) ==
    \/ fpc[r] \in {"CheckName", "Create", "GetByID", "Update"}
    \/ fpc[r] = "ProvToken" /\ fcall[r].token = "good"

\* The other endpoints find a token good if it was issued and has not expired;
\* sub and role are read from it.  What is said to be in a bad one is not used.
Holds(c) ==
    c.token = "good" =>
        \E q \in Req : /\ token[q] # NoToken /\ q \notin expired
                       /\ c.caller = token[q].sub /\ c.role = token[q].role

(***************************************************************************)
(* What the history of Transactions, and the counters, note of the writes. *)
(***************************************************************************)
UsersSeen ==
    IF UserStatus' = UserStatus THEN UNCHANGED <<twrites, fwrites, activeSeen>>
    ELSE /\ twrites < MaxWrites /\ fwrites < MaxWrites
         /\ twrites' = twrites + 1 /\ fwrites' = fwrites + 1
         /\ activeSeen' = [r \in TxnReq |->
                IF T!InFlight(r) THEN activeSeen[r] \cup T!ActiveIn(UserStatus')
                ELSE activeSeen[r]]
RulesSeen ==
    IF RuleStatus' = RuleStatus THEN UNCHANGED <<twrites, seen>>
    ELSE /\ twrites < MaxWrites
         /\ twrites' = twrites + 1
         /\ seen' = [r \in TxnReq |->
                IF T!InFlight(r) THEN seen[r] \cup {T!EnabledIn(RuleStatus')}
                ELSE seen[r]]

AccountsAlone == UNCHANGED <<txnOwn, seen, rules, ruleOwn>>
RulesAlone    == UNCHANGED <<vars, txnOwn, fwrites, activeSeen>>
TxnAlone      == UNCHANGED <<vars, rules, ruleOwn, fwrites>>

\* Registrations, logins, updates of users, and the start of the server.
AccountHandler(r) ==
    /\ Handler(r)
    /\ AsksDatabase(r) => PoolFree \/ faulted' # faulted
    /\ UsersSeen
    /\ AccountsAlone

SystemBoot == Boot /\ UsersSeen /\ AccountsAlone

AccountArrive(r) == (Arrive(r) \/ Expire(r)) /\ UsersSeen /\ AccountsAlone

RuleArrive(r) ==
    /\ server = "up"
    /\ RulesAlone
    /\ F!Arrive(r) /\ Holds(fcall'[r])
    /\ UNCHANGED <<twrites, seen>>

RuleHandler(r) ==
    /\ RulesAlone
    /\ F!Handler(r)
    /\ RuleAsksDatabase(r) => PoolFree \/ ffaulted' # ffaulted
    /\ RulesSeen

TxnArrive(r) == server = "up" /\ TxnAlone /\ T!Arrive(r) /\ Holds(tcall'[r])

TxnHandler(r) == TxnAlone /\ T!Handler(r)
TxnFinish(r)  == TxnAlone /\ T!Finish(r)
TxnLeave(r)   == TxnAlone /\ T!Disconnect(r)
TxnAwait(r)   == TxnAlone /\ T!AwaitDone(r)

\* The process ends, and with it the handlers of all parts; before it serves
\* there are none.
SystemCrash ==
    /\ Crash
    /\ UsersSeen
    /\ UNCHANGED <<rules, seen>>
    /\ IF server = "up" THEN F!Crash /\ T!Crash ELSE UNCHANGED <<txnOwn, ruleOwn>>

SystemNext ==
    \/ SystemBoot \/ SystemCrash
    \/ \E r \in Req : AccountArrive(r) \/ AccountHandler(r)
    \/ \E r \in RuleReq : RuleArrive(r) \/ RuleHandler(r)
    \/ \E r \in TxnReq : \/ TxnArrive(r) \/ TxnHandler(r) \/ TxnFinish(r)
                          \/ TxnLeave(r) \/ TxnAwait(r)

System == SystemInit /\ [][SystemNext]_systemVars

\* Every goroutine is scheduled, database/sql serves those who wait for a
\* connection in their order, net/http and database/sql end what a handler
\* leaves, and the container is started again.
FairSystem ==
    /\ System
    /\ WF_systemVars(SystemBoot)
    /\ \A r \in Req : WF_systemVars(AccountHandler(r))
    /\ \A r \in RuleReq : WF_systemVars(RuleHandler(r))
    /\ \A r \in TxnReq : /\ WF_systemVars(TxnHandler(r))
                         /\ WF_systemVars(TxnFinish(r))
                         /\ WF_systemVars(TxnAwait(r))

-----------------------------------------------------------------------------
(***************************************************************************)
(* Properties.                                                             *)
(***************************************************************************)

\* Transactions supposes of the other endpoints that they create users active
\* and rules enabled, never delete a row, and switch one at a time: whatever
\* UpdateUser, DeactivateUser, CreateFraud, UpdateFraudID and CreateInitialAdmin
\* do, with rows read long before, is no more than that.  So what was shown of
\* Transactions is true of the whole server.
ServesTransactions == T!Spec

\* The same of what FraudRules supposes of the endpoints of users.
ServesRules == F!Spec

\* Whose transaction it may be, from the login on: it was asked for with a good
\* token, the owner has a row, and whoever saved one for somebody else is an
\* administrator because another one made him one, not by his own registration
\* or update.
SavedByRight ==
    \A t \in transactions :
        LET c == tcall[t.id] IN
        /\ c.token = "good" /\ Stored(t.user)
        /\ t.user # c.caller => Granted(c.caller)

\* The rules that decide about everybody's transactions are only written with
\* good tokens of callers whom an administrator made one, whatever tokens are
\* still about.
RulesByRight ==
    [][\A x \in F!RuleId : rules'[x] # rules[x] =>
          \E r \in RuleReq : /\ fpc'[r] # fpc[r]
                             /\ fcall[r].token = "good" /\ Granted(fcall[r].caller)]_systemVars

\* A transaction that failed may keep its connection after the answer, and all
\* endpoints wait for one: still each of their requests ends.
NobodyStarves ==
    /\ \A r \in Req : InFlight(r) ~> ~InFlight(r)
    /\ \A r \in RuleReq : F!InFlight(r) ~> ~F!InFlight(r)
    /\ T!EveryRequestEnds
=============================================================================
