--------------------------- MODULE AntifraudProofs ---------------------------
(***************************************************************************)
(* Theorems about the server as a whole, for every set of requests, rules  *)
(* and addresses and every value of the bounds.  The invariant of Accounts *)
(* holds of the whole because no other part writes its variables.          *)
(***************************************************************************)
EXTENDS Antifraud, AccountsProofs

\* To Accounts, every step of the server is one of its own or none.
LEMMA AccountSteps == [SystemNext]_systemVars => [Next]_vars
<1> SUFFICES ASSUME [SystemNext]_systemVars PROVE [Next]_vars
  OBVIOUS
<1>1. CASE SystemBoot \/ SystemCrash
  BY <1>1 DEF SystemBoot, SystemCrash, Next
<1>2. CASE \E r \in Req : AccountArrive(r) \/ AccountHandler(r)
  BY <1>2 DEF AccountArrive, AccountHandler, Next
<1>3. CASE \E r \in RuleReq : RuleArrive(r) \/ RuleHandler(r)
  BY <1>3 DEF RuleArrive, RuleHandler, RulesAlone
<1>4. CASE \E r \in TxnReq : \/ TxnArrive(r) \/ TxnHandler(r) \/ TxnFinish(r)
                             \/ TxnLeave(r) \/ TxnAwait(r)
  BY <1>4 DEF TxnArrive, TxnHandler, TxnFinish, TxnLeave, TxnAwait, TxnAlone
<1>5. CASE UNCHANGED systemVars
  BY <1>5 DEF systemVars
<1> QED
  BY <1>1, <1>2, <1>3, <1>4, <1>5 DEF SystemNext

\* So the handlers of users behave in the whole server as Accounts says, whatever
\* the others do in between (main.go runs them in one process).
THEOREM AccountsServed == System => Spec
<1>1. SystemInit => Init
  BY DEF SystemInit
<1> QED
  BY <1>1, AccountSteps, PTL DEF System, Spec

LEMMA SystemAccounts == System => []IndInv
BY AccountsServed, AccountsConsistent, PTL

\* And what they promise holds of the whole: answers agree with the table, nobody
\* is an administrator but by one, the first stays one, addresses and passwords
\* are kept, updates that nothing overlaps are atomic and within the caller's
\* rights (user_handler.go, service.go).
THEOREM AccountsPromises ==
    System => /\ []AnswerMatchesTable /\ []AdminsGranted /\ []AdminKept
              /\ CredentialsStable /\ AtomicUnlessOverlapped
              /\ AdminsOnlyUnlessOverlapped
BY AccountsServed, AccountAnswers, NoEscalation, AdminNotLost, Credentials,
   UpdatesAtomic, Privileges, PTL

-----------------------------------------------------------------------------
(***************************************************************************)
(* What the handlers of fraud rules owe to the others.                     *)
(***************************************************************************)
RuleTypes ==
    /\ rules \in [F!RuleId -> F!Row \cup {NoRow}]
    /\ fpc \in [RuleReq -> F!PC]
    /\ fcall \in [RuleReq -> RuleCalls \cup {NoCall}]
    /\ fsnap \in [RuleReq -> F!Row \cup {NoRow}]

\* The statements behind the middleware: only a good token gets there.
RuleAsks == {"CheckName", "Create", "GetByID", "Update"}

RulePart(r) ==
    /\ fpc[r] # "idle" => fcall[r] \in RuleCalls
    /\ fpc[r] # "answered" => rules[r] = NoRow
    /\ fpc[r] \in {"route"} \cup RuleAsks => fcall[r].token = "good"
    /\ fpc[r] \in {"CheckName", "Create"} => F!Complete(fcall[r])
    /\ fpc[r] \in RuleAsks =>
          fcall[r].role = "ADMIN"
    /\ fpc[r] = "Update" =>
          /\ rules[fcall[r].target] # NoRow
          /\ fsnap[r] \in F!Row

RulesInv == RuleTypes /\ \A r \in RuleReq : RulePart(r)

\* At most the row x is written, and a new one is enabled.
RuleWrite(x) ==
    /\ rules[x] = NoRow => rules'[x].enabled
    /\ rules'[x] \in F!Row
    /\ rules' = [rules EXCEPT ![x] = rules'[x]]

\* What an INSERT and an UPDATE store is a row.
LEMMA RuleRows ==
    ASSUME RulesInv, NEW r \in RuleReq, fpc[r] # "idle"
    PROVE  /\ fcall[r] \in F!Call /\ fcall[r].target \in F!RuleId /\ r \in F!RuleId
           /\ F!Complete(fcall[r]) => F!NewRow(fcall[r]) \in F!Row /\ F!NewRow(fcall[r]).enabled
           /\ fsnap[r] \in F!Row => F!Written(r) \in F!Row
<1>1. fcall[r] \in F!Call
  BY PartsAssumption DEF RulesInv, RulePart
<1>2. fcall[r].target \in F!RuleId /\ r \in F!RuleId
  BY <1>1 DEF F!Call, F!RuleId
<1>3. F!Complete(fcall[r]) => F!NewRow(fcall[r]) \in F!Row /\ F!NewRow(fcall[r]).enabled
  BY <1>1 DEF F!Call, F!Complete, F!NewRow, F!Row
<1>4. fsnap[r] \in F!Row => F!Written(r) \in F!Row
  BY <1>1 DEF F!Call, F!Written, F!Changed, F!Row
<1> QED
  BY <1>1, <1>2, <1>3, <1>4

\* A handler that does not write the table.
LEMMA RuleQuiet ==
    ASSUME RulesInv, NEW r \in RuleReq, F!InFlight(r), rules' = rules, fcall' = fcall,
           NEW to \in F!PC \ {"idle"}, fpc' = [fpc EXCEPT ![r] = to],
           fsnap' \in [RuleReq -> F!Row \cup {NoRow}],
           \A q \in RuleReq \ {r} : fsnap'[q] = fsnap[q],
           to \in {"route"} \cup RuleAsks => fcall[r].token = "good",
           to \in {"CheckName", "Create"} => F!Complete(fcall[r]),
           to \in RuleAsks => fcall[r].role = "ADMIN",
           to = "Update" => rules[fcall[r].target] # NoRow /\ fsnap'[r] \in F!Row
    PROVE  RulesInv'
<1>1. fpc'[r] = to /\ \A q \in RuleReq \ {r} : fpc'[q] = fpc[q]
  BY DEF RulesInv, RuleTypes
<1>2. fpc[r] # "idle" /\ fpc[r] # "answered"
  BY DEF F!InFlight
<1>3. ASSUME NEW q \in RuleReq \ {r} PROVE RulePart(q)'
  BY <1>1 DEF RulesInv, RulePart, F!Complete
<1>4. RulePart(r)'
  BY <1>1, <1>2 DEF RulesInv, RulePart, RuleAsks, F!Complete
<1>5. RuleTypes'
  BY DEF RulesInv, RuleTypes
<1> QED
  BY <1>3, <1>4, <1>5 DEF RulesInv

\* A handler that writes the row x and answers.
LEMMA RuleWrites ==
    ASSUME RulesInv, NEW r \in RuleReq, F!InFlight(r), fcall' = fcall, fsnap' = fsnap,
           fpc' = [fpc EXCEPT ![r] = "answered"],
           NEW x \in F!RuleId, x = r \/ rules[x] # NoRow,
           NEW row \in F!Row, rules' = [rules EXCEPT ![x] = row]
    PROVE  RulesInv'
<1>1. fpc'[r] = "answered" /\ \A q \in RuleReq \ {r} : fpc'[q] = fpc[q]
  BY DEF RulesInv, RuleTypes
<1>2. \A y \in F!RuleId : rules[y] # NoRow => rules'[y] # NoRow
  BY PartsAssumption DEF RulesInv, RuleTypes
<1>3. ASSUME NEW q \in RuleReq \ {r} PROVE RulePart(q)'
  <2>1. fpc[q] # "answered" => rules'[q] = NoRow
    <3>1. q \in F!RuleId /\ (fpc[q] # "answered" => rules[q] = NoRow)
      BY DEF RulesInv, RulePart, F!RuleId
    <3> QED
      BY <3>1 DEF RulesInv, RuleTypes
  <2>2. fpc[q] = "Update" => fcall[q].target \in F!RuleId
    BY RuleRows
  <2> QED
    BY <1>1, <1>2, <2>1, <2>2 DEF RulesInv, RulePart, F!Complete
<1>4. RulePart(r)'
  BY <1>1 DEF RulesInv, RulePart, RuleAsks, F!InFlight
<1>5. RuleTypes'
  BY DEF RulesInv, RuleTypes, F!PC
<1> QED
  BY <1>3, <1>4, <1>5 DEF RulesInv

\* A step of the handlers keeps the invariant; what it stores is as
\* Transactions supposes.
LEMMA RuleHandlerStep ==
    ASSUME RulesInv, NEW r \in RuleReq, F!Handler(r)
    PROVE  /\ RulesInv'
           /\ \/ rules' = rules
              \/ \E x \in F!RuleId : RuleWrite(x) /\ fpc[r] \in {"Create", "Update"}
           /\ fpc'[r] # fpc[r]
<1>a. /\ RuleTypes /\ RulePart(r) /\ F!InFlight(r)
      /\ fpc[r] \notin {"idle", "answered", "lost"}
  BY DEF RulesInv, F!Handler, F!ProvToken, F!CreateFraud, F!CheckNameExist, F!Create,
     F!GetFraud, F!UpdateFraudID, F!DeactivateFraudID, F!GetBYID, F!Update, F!InFlight
<1>b. fsnap \in [RuleReq -> F!Row \cup {NoRow}]
  BY <1>a DEF RuleTypes
<1>1. CASE /\ rules' = rules /\ fcall' = fcall /\ fsnap' = fsnap
           /\ \E code : F!Reply(r, code)
  <2>1. fpc' = [fpc EXCEPT ![r] = "answered"]
    BY <1>1 DEF F!Reply
  <2>2. RulesInv'
    BY <1>1, <1>a, <1>b, <2>1, RuleQuiet DEF F!PC, RuleAsks
  <2> QED
    BY <1>1, <1>a, <2>1, <2>2 DEF RuleTypes
<1>2. CASE F!ProvToken(r)
  <2>1. CASE F!Goto(r, "route")
    <3>1. /\ fpc' = [fpc EXCEPT ![r] = "route"] /\ fpc[r] = "ProvToken"
          /\ fcall[r].token = "good"
      BY <1>2, <1>a, <2>1 DEF F!Goto, F!Reply, F!ProvToken, RuleTypes
    <3>2. rules' = rules /\ fcall' = fcall /\ fsnap' = fsnap
      BY <1>2 DEF F!ProvToken, F!Untouched
    <3>3. RulesInv'
      BY <1>a, <1>b, <3>1, <3>2, RuleQuiet DEF F!PC, RuleAsks
    <3> QED
      BY <1>a, <3>1, <3>2, <3>3 DEF RuleTypes
  <2> QED
    BY <1>1, <1>2, <2>1 DEF F!ProvToken, F!Untouched
<1>3. CASE F!CreateFraud(r) \/ F!GetFraud(r) \/ F!UpdateFraudID(r) \/ F!DeactivateFraudID(r)
  <2>1. rules' = rules /\ fcall' = fcall /\ fsnap' = fsnap /\ fpc[r] = "route"
    BY <1>3 DEF F!CreateFraud, F!GetFraud, F!UpdateFraudID, F!DeactivateFraudID, F!Untouched
  <2>2. CASE \E to \in {"CheckName", "GetByID"} :
                /\ F!Goto(r, to) /\ fcall[r].role = "ADMIN"
                /\ to = "CheckName" => F!Complete(fcall[r])
    <3>1. PICK to \in {"CheckName", "GetByID"} :
                /\ F!Goto(r, to) /\ fcall[r].role = "ADMIN"
                /\ to = "CheckName" => F!Complete(fcall[r])
      BY <2>2
    <3>2. fpc' = [fpc EXCEPT ![r] = to]
      BY <3>1 DEF F!Goto
    <3>3. RulesInv'
      BY <1>a, <1>b, <2>1, <3>1, <3>2, RuleQuiet DEF F!PC, RulePart, RuleAsks
    <3> QED
      BY <1>a, <2>1, <3>2, <3>3 DEF RuleTypes
  <2> QED
    BY <1>1, <1>3, <2>1, <2>2
    DEF F!CreateFraud, F!GetFraud, F!UpdateFraudID, F!DeactivateFraudID, F!Refused
<1>4. CASE F!CheckNameExist(r)
  <2>1. rules' = rules /\ fcall' = fcall /\ fsnap' = fsnap /\ fpc[r] = "CheckName"
    BY <1>4 DEF F!CheckNameExist, F!Untouched
  <2>2. CASE F!Goto(r, "Create")
    <3>1. fpc' = [fpc EXCEPT ![r] = "Create"]
      BY <2>2 DEF F!Goto
    <3>2. RulesInv'
      BY <1>a, <1>b, <2>1, <3>1, RuleQuiet DEF F!PC, RulePart, RuleAsks
    <3> QED
      BY <1>a, <2>1, <3>1, <3>2 DEF RuleTypes
  <2> QED
    BY <1>1, <1>4, <2>1, <2>2 DEF F!CheckNameExist
<1>5. CASE F!Create(r)
  <2>1. fcall' = fcall /\ fsnap' = fsnap /\ fpc[r] = "Create" /\ \E code : F!Reply(r, code)
    BY <1>5 DEF F!Create
  <2>2. CASE F!Inserted(r)
    <3>1. /\ F!NewRow(fcall[r]) \in F!Row /\ F!NewRow(fcall[r]).enabled
          /\ r \in F!RuleId /\ rules' = [rules EXCEPT ![r] = F!NewRow(fcall[r])]
      BY <1>a, <2>1, <2>2, RuleRows DEF RulePart, F!Inserted
    <3>2. fpc' = [fpc EXCEPT ![r] = "answered"]
      BY <2>1 DEF F!Reply
    <3>3. RulesInv'
      BY <1>a, <2>1, <3>1, <3>2, RuleWrites
    <3>4. RuleWrite(r)
      BY <1>a, <3>1 DEF RuleWrite, RuleTypes
    <3> QED
      BY <1>a, <2>1, <3>1, <3>2, <3>3, <3>4 DEF RuleTypes
  <2> QED
    BY <1>1, <1>5, <2>1, <2>2 DEF F!Create
<1>6. CASE F!GetBYID(r)
  <2>1. rules' = rules /\ fcall' = fcall /\ fpc[r] = "GetByID"
    BY <1>6 DEF F!GetBYID
  <2>2. CASE /\ F!Stored(fcall[r].target) /\ F!Goto(r, "Update")
             /\ fsnap' = [fsnap EXCEPT ![r] = F!RowRead(fcall[r].target)]
    <3>1. fpc' = [fpc EXCEPT ![r] = "Update"]
      BY <2>2 DEF F!Goto
    <3>2. rules[fcall[r].target] \in F!Row
      BY <1>a, <2>1, <2>2, RuleRows DEF RuleTypes, F!Stored
    <3>3. fsnap'[r] \in F!Row /\ fsnap' \in [RuleReq -> F!Row \cup {NoRow}]
      BY <1>b, <2>2, <3>2 DEF F!RowRead
    <3>4. RulesInv'
      <4>1. \A q \in RuleReq \ {r} : fsnap'[q] = fsnap[q]
        BY <1>b, <2>2
      <4>2. rules[fcall[r].target] # NoRow /\ fcall[r].role = "ADMIN"
        BY <1>a, <2>1, <2>2 DEF F!Stored, RulePart, RuleAsks
      <4>3. fcall[r].token = "good"
        BY <1>a, <2>1 DEF RulePart, RuleAsks
      <4> QED
        BY <1>a, <2>1, <3>1, <3>3, <4>1, <4>2, <4>3, RuleQuiet DEF F!PC
    <3> QED
      BY <1>a, <2>1, <3>1, <3>4 DEF RuleTypes
  <2> QED
    BY <1>1, <1>6, <2>1, <2>2 DEF F!GetBYID
<1>7. CASE F!Update(r)
  <2>1. fcall' = fcall /\ fsnap' = fsnap /\ fpc[r] = "Update" /\ \E code : F!Reply(r, code)
    BY <1>7 DEF F!Update
  <2>2. CASE F!WriteRow(r)
    <3>1. /\ F!Written(r) \in F!Row /\ fcall[r].target \in F!RuleId
          /\ rules[fcall[r].target] # NoRow
          /\ rules' = [rules EXCEPT ![fcall[r].target] = F!Written(r)]
      BY <1>a, <2>1, <2>2, RuleRows DEF RulePart, F!WriteRow
    <3>2. fpc' = [fpc EXCEPT ![r] = "answered"]
      BY <2>1 DEF F!Reply
    <3>3. RulesInv'
      BY <1>a, <2>1, <3>1, <3>2, RuleWrites
    <3>4. RuleWrite(fcall[r].target)
      BY <1>a, <3>1 DEF RuleWrite, RuleTypes
    <3> QED
      BY <1>a, <2>1, <3>1, <3>2, <3>3, <3>4 DEF RuleTypes
  <2> QED
    BY <1>1, <1>7, <2>1, <2>2 DEF F!Update, F!RowKept
<1> QED
  BY <1>2, <1>3, <1>4, <1>5, <1>6, <1>7 DEF F!Handler

LEMMA RuleArriveStep ==
    ASSUME RulesInv, NEW r \in RuleReq, F!Arrive(r)
    PROVE  /\ RulesInv' /\ rules' = rules
           /\ fpc[r] = "idle" /\ fpc' = [fpc EXCEPT ![r] = "ProvToken"]
           /\ \E c \in RuleCalls : fcall' = [fcall EXCEPT ![r] = c]
<1>1. /\ rules' = rules /\ fsnap' = fsnap /\ fpc[r] = "idle"
      /\ fpc' = [fpc EXCEPT ![r] = "ProvToken"]
      /\ \E c \in RuleCalls : fcall' = [fcall EXCEPT ![r] = c]
  BY DEF F!Arrive, F!Goto
<1>2. RuleTypes'
  BY <1>1 DEF RulesInv, RuleTypes, F!PC
<1>3. fpc'[r] = "ProvToken" /\ fcall'[r] \in RuleCalls
  BY <1>1 DEF RulesInv, RuleTypes
<1>4. \A q \in RuleReq \ {r} : fpc'[q] = fpc[q] /\ fcall'[q] = fcall[q]
  BY <1>1 DEF RulesInv, RuleTypes
<1>5. ASSUME NEW q \in RuleReq \ {r} PROVE RulePart(q)'
  BY <1>1, <1>4 DEF RulesInv, RulePart, F!Complete
<1>6. RulePart(r)'
  BY <1>1, <1>3 DEF RulesInv, RulePart, RuleAsks
<1> QED
  BY <1>1, <1>2, <1>5, <1>6 DEF RulesInv

LEMMA RulesStep == RulesInv /\ [SystemNext]_systemVars => RulesInv'
<1> SUFFICES ASSUME RulesInv, [SystemNext]_systemVars PROVE RulesInv'
  OBVIOUS
<1>1. CASE UNCHANGED <<rules, fpc, fcall, fsnap>>
  BY <1>1 DEF RulesInv, RuleTypes, RulePart, F!Complete
<1>2. CASE \E r \in RuleReq : RuleArrive(r) \/ RuleHandler(r)
  BY <1>2, RuleArriveStep, RuleHandlerStep DEF RuleArrive, RuleHandler
<1>3. CASE SystemCrash
  <2>1. CASE F!Crash
    <3>1. /\ UNCHANGED <<rules, fcall, fsnap>>
          /\ fpc' = [r \in RuleReq |-> IF F!InFlight(r) THEN "lost" ELSE fpc[r]]
      BY <2>1 DEF F!Crash
    <3>2. ASSUME NEW r \in RuleReq
          PROVE  fpc'[r] = fpc[r]
                 \/ (fpc'[r] = "lost" /\ fpc[r] \notin {"idle", "answered", "lost"})
      BY <3>1 DEF F!InFlight
    <3>3. RuleTypes'
      BY <3>1 DEF RulesInv, RuleTypes, F!PC
    <3>4. ASSUME NEW r \in RuleReq PROVE RulePart(r)'
      BY <3>1, <3>2 DEF RulesInv, RulePart, RuleAsks, F!Complete
    <3> QED
      BY <3>3, <3>4 DEF RulesInv
  <2> QED
    BY <1>1, <1>3, <2>1 DEF SystemCrash, ruleOwn
<1>4. CASE SystemBoot \/ \E r \in Req : AccountArrive(r) \/ AccountHandler(r)
  BY <1>1, <1>4 DEF SystemBoot, AccountArrive, AccountHandler, AccountsAlone, ruleOwn
<1>5. CASE \E r \in TxnReq : \/ TxnArrive(r) \/ TxnHandler(r) \/ TxnFinish(r)
                             \/ TxnLeave(r) \/ TxnAwait(r)
  BY <1>1, <1>5 DEF TxnArrive, TxnHandler, TxnFinish, TxnLeave, TxnAwait, TxnAlone, ruleOwn
<1>6. CASE UNCHANGED systemVars
  BY <1>1, <1>6 DEF systemVars, ruleOwn
<1> QED
  BY <1>2, <1>3, <1>4, <1>5, <1>6 DEF SystemNext

LEMMA SystemRules == System => []RulesInv
<1>1. SystemInit => RulesInv
  <2> SUFFICES ASSUME F!Init PROVE RulesInv
    BY DEF SystemInit
  <2>1. RuleTypes
    BY DEF F!Init, RuleTypes, F!PC
  <2>2. ASSUME NEW r \in RuleReq PROVE RulePart(r)
    BY PartsAssumption DEF F!Init, RulePart, RuleAsks, F!RuleId
  <2> QED
    BY <2>1, <2>2 DEF RulesInv
<1> QED
  BY <1>1, RulesStep, PTL DEF System

-----------------------------------------------------------------------------
(***************************************************************************)
(* The writes that each part sees of the others.                           *)
(***************************************************************************)
\* A step switches user u to s, a new one active.
Switch(u, s) ==
    /\ IF UserStatus[u] = "absent" THEN s = "active" ELSE s # UserStatus[u]
    /\ UserStatus' = [UserStatus EXCEPT ![u] = s]

\* Whatever Accounts does, to the others it is at most one switch of one user.
LEMMA AccountWrites ==
    ASSUME IndInv, [Next]_vars
    PROVE  \/ UserStatus' = UserStatus
           \/ \E u \in UserId, s \in {"active", "inactive"} : Switch(u, s)
<1>a. users \in [UserId -> Row \cup {NoRow}] /\ Root \in UserId
  BY DEF IndInv, TypeOK, UserId
<1>1. ASSUME NEW u \in UserId, NEW row \in Row, users' = [users EXCEPT ![u] = row],
             ~Stored(u) => row.active
      PROVE  \/ UserStatus' = UserStatus
             \/ \E s \in {"active", "inactive"} : Switch(u, s)
  <2> DEFINE s == IF row.active THEN "active" ELSE "inactive"
  <2>1. users'[u] = row /\ row # NoRow /\ \A v \in UserId \ {u} : users'[v] = users[v]
    BY <1>a, <1>1, NoRowAssumption
  <2>2. UserStatus' = [UserStatus EXCEPT ![u] = s]
    BY <2>1 DEF UserStatus, Stored
  <2>3. UserStatus[u] = "absent" <=> ~Stored(u)
    BY DEF UserStatus
  <2>4. CASE UserStatus[u] = s
    <3>1. UserStatus' = UserStatus
      BY <2>2, <2>4 DEF UserStatus
    <3> QED
      BY <3>1
  <2>5. CASE UserStatus[u] # s
    BY <1>1, <2>2, <2>3, <2>5 DEF Switch
  <2> QED
    BY <2>4, <2>5
<1>2. CASE users' = users
  BY <1>2 DEF UserStatus, Stored
<1>3. CASE WithEmail(AdminEmail) = {} /\ AdminInserted
  <2>1. InitialAdmin.active
    BY DEF InitialAdmin
  <2> QED
    BY <1>1, <1>3, <1>a, <2>1, InitialAdminRow DEF AdminInserted
<1>4. CASE \E r \in Req : InsertUser(r) /\ users' = [users EXCEPT ![r] = NewRow(call[r])]
  <2>1. PICK r \in Req : InsertUser(r) /\ users' = [users EXCEPT ![r] = NewRow(call[r])]
    BY <1>4
  <2>2. NewRow(call[r]) \in Row /\ NewRow(call[r]).active /\ r \in UserId
    BY <2>1, AtWork DEF InsertUser, InFlight, NewRow, Row, Call, Role
  <2> QED
    BY <1>1, <2>1, <2>2
<1>5. CASE \E r \in Req : Update(r) /\ WriteRow(r)
  <2>1. PICK r \in Req : Update(r) /\ WriteRow(r)
    BY <1>5
  <2>2. /\ call[r].target \in UserId /\ Stored(call[r].target)
        /\ Changed(call[r], snap[r]) \in Row
    BY <2>1, AtWork, ChangedRow DEF Update, InFlight, SnapInv
  <2> QED
    BY <1>1, <2>1, <2>2 DEF WriteRow
<1> QED
  BY <1>2, <1>3, <1>4, <1>5, UsersWritten

\* To Transactions, a write of a rule is at most one switch of it.
LEMMA RuleWriteSeen ==
    ASSUME RulesInv, NEW x \in F!RuleId, RuleWrite(x)
    PROVE  \/ RuleStatus' = RuleStatus
           \/ \E s \in {"enabled", "disabled"} :
                 /\ IF RuleStatus[x] = "absent" THEN s = "enabled" ELSE s # RuleStatus[x]
                 /\ RuleStatus' = [RuleStatus EXCEPT ![x] = s]
<1> DEFINE s == IF rules'[x].enabled THEN "enabled" ELSE "disabled"
<1>1. rules'[x] # NoRow /\ \A y \in F!RuleId \ {x} : rules'[y] = rules[y]
  BY PartsAssumption DEF RuleWrite, RulesInv, RuleTypes
<1>2. RuleStatus' = [RuleStatus EXCEPT ![x] = s]
  BY <1>1 DEF RuleStatus
<1>3. CASE RuleStatus[x] = s
  <2>1. RuleStatus' = RuleStatus
    BY <1>2, <1>3 DEF RuleStatus
  <2> QED
    BY <2>1
<1>4. CASE RuleStatus[x] # s
  <2>1. RuleStatus[x] = "absent" => s = "enabled"
    BY DEF RuleStatus, RuleWrite
  <2>2. s \in {"enabled", "disabled"}
    OBVIOUS
  <2> QED
    BY <1>2, <1>4, <2>1, <2>2
<1> QED
  BY <1>3, <1>4

-----------------------------------------------------------------------------
(***************************************************************************)
(* The server implements what each part supposes.                          *)
(***************************************************************************)
LEMMA AccountsSeen ==
    ASSUME IndInv, [Next]_vars, UsersSeen, AccountsAlone
    PROVE  [T!Next]_(T!vars) /\ [F!Next]_(F!vars)
<1>a. /\ RuleStatus' = RuleStatus /\ rules' = rules
      /\ UNCHANGED <<transactions, results, tpc, tcall, tanswer, ctx, tx, wrote,
                     tsnap, todo, listed, tfaulted, tcrashes, before, seen>>
      /\ UNCHANGED <<fpc, fcall, fanswer, fsnap, ffaulted, fcrashes, foverlapped>>
  BY DEF AccountsAlone, RuleStatus, txnOwn, ruleOwn
<1>1. CASE UserStatus' = UserStatus
  BY <1>a, <1>1 DEF UsersSeen, T!vars, F!vars
<1>2. CASE UserStatus' # UserStatus
  <2>1. PICK u \in UserId, s \in {"active", "inactive"} : Switch(u, s)
    BY <1>2, AccountWrites
  <2>2. T!UserWritten(u, s)
    BY <1>a, <1>2, <2>1 DEF UsersSeen, Switch, T!UserWritten, T!tables, T!request
  <2>3. F!UserWritten(u, s)
    BY <1>a, <1>2, <2>1 DEF UsersSeen, Switch, F!UserWritten
  <2> QED
    BY <2>2, <2>3 DEF T!Next, T!Environment, F!Next
<1> QED
  BY <1>1, <1>2

LEMMA RulesWatched ==
    ASSUME RulesInv, NEW r \in RuleReq, RuleHandler(r)
    PROVE  [T!Next]_(T!vars)
<1>a. /\ UserStatus' = UserStatus /\ RulesSeen
      /\ UNCHANGED <<transactions, results, tpc, tcall, tanswer, ctx, tx, wrote,
                     tsnap, todo, listed, tfaulted, tcrashes, before, activeSeen>>
  BY DEF RuleHandler, RulesAlone, UserStatus, Stored, txnOwn, vars
<1>1. CASE RuleStatus' = RuleStatus
  BY <1>a, <1>1 DEF RulesSeen, T!vars
<1>2. CASE RuleStatus' # RuleStatus
  <2>1. rules' # rules
    BY <1>2 DEF RuleStatus
  <2>2. PICK x \in F!RuleId : RuleWrite(x)
    BY <2>1, RuleHandlerStep DEF RuleHandler
  <2>3. PICK s \in {"enabled", "disabled"} :
            /\ IF RuleStatus[x] = "absent" THEN s = "enabled" ELSE s # RuleStatus[x]
            /\ RuleStatus' = [RuleStatus EXCEPT ![x] = s]
    BY <1>2, <2>2, RuleWriteSeen
  <2>4. T!RuleWritten(x, s)
    BY <1>a, <1>2, <2>3 DEF RulesSeen, T!RuleWritten, T!tables, T!request
  <2> QED
    BY <2>4 DEF T!Next, T!Environment
<1> QED
  BY <1>1, <1>2

LEMMA PartSteps ==
    ASSUME IndInv, RulesInv, [SystemNext]_systemVars
    PROVE  [T!Next]_(T!vars) /\ [F!Next]_(F!vars)
<1>1. CASE SystemBoot \/ \E r \in Req : AccountArrive(r) \/ AccountHandler(r)
  BY <1>1, AccountSteps, AccountsSeen DEF SystemBoot, AccountArrive, AccountHandler
<1>2. CASE SystemCrash
  <2>1. CASE server = "up"
    BY <1>2, <2>1 DEF SystemCrash, T!Next, T!Environment, F!Next
  <2>2. CASE server # "up"
    BY <1>2, <2>2, AccountSteps, AccountsSeen DEF SystemCrash, AccountsAlone
  <2> QED
    BY <2>1, <2>2
<1>3. CASE \E r \in RuleReq : RuleArrive(r)
  <2>1. PICK r \in RuleReq : RuleArrive(r)
    BY <1>3
  <2>2. UserStatus' = UserStatus /\ F!Next
    BY <2>1 DEF RuleArrive, RulesAlone, UserStatus, Stored, vars, F!Next
  <2>3. RuleStatus' = RuleStatus
    BY <2>1, RuleArriveStep DEF RuleArrive, RuleStatus
  <2>4. UNCHANGED T!vars
    BY <2>1, <2>2, <2>3 DEF RuleArrive, RulesAlone, txnOwn, T!vars
  <2> QED
    BY <2>2, <2>4
<1>4. CASE \E r \in RuleReq : RuleHandler(r)
  <2>1. F!Next
    BY <1>4 DEF RuleHandler, F!Next
  <2> QED
    BY <1>4, <2>1, RulesWatched
<1>5. CASE \E r \in TxnReq : \/ TxnArrive(r) \/ TxnHandler(r) \/ TxnFinish(r)
                             \/ TxnLeave(r) \/ TxnAwait(r)
  <2>1. T!Next
    BY <1>5 DEF TxnArrive, TxnHandler, TxnFinish, TxnLeave, TxnAwait, T!Next
  <2>2. TxnAlone
    BY <1>5 DEF TxnArrive, TxnHandler, TxnFinish, TxnLeave, TxnAwait
  <2>3. UserStatus' = UserStatus
    BY <2>2 DEF TxnAlone, UserStatus, Stored, vars
  <2>4. UNCHANGED F!vars
    BY <2>2, <2>3 DEF TxnAlone, ruleOwn, F!vars
  <2> QED
    BY <2>1, <2>4
<1>6. CASE UNCHANGED systemVars
  <2>1. UserStatus' = UserStatus
    BY <1>6 DEF systemVars, vars, UserStatus, Stored
  <2>2. RuleStatus' = RuleStatus
    BY <1>6 DEF systemVars, RuleStatus
  <2> QED
    BY <1>6, <2>1, <2>2 DEF systemVars, txnOwn, txnSees, ruleOwn, T!vars, F!vars
<1> QED
  BY <1>1, <1>2, <1>3, <1>4, <1>5, <1>6 DEF SystemNext

\* Every step of the server is, to Transactions, a step of its own or a write
\* that it supposes the other endpoints to make: what is proved of Transactions
\* is true of the server.
THEOREM TransactionsServed == System => ServesTransactions
<1>1. SystemInit => T!Init
  BY DEF SystemInit
<1>2. IndInv /\ RulesInv /\ [SystemNext]_systemVars => [T!Next]_(T!vars)
  BY PartSteps
<1> QED
  BY <1>1, <1>2, SystemAccounts, SystemRules, PTL
  DEF System, ServesTransactions, T!Spec

\* The same of FraudRules.
THEOREM RulesServed == System => ServesRules
<1>1. SystemInit => F!Init
  BY DEF SystemInit
<1>2. IndInv /\ RulesInv /\ [SystemNext]_systemVars => [F!Next]_(F!vars)
  BY PartSteps
<1> QED
  BY <1>1, <1>2, SystemAccounts, SystemRules, PTL DEF System, ServesRules, F!Spec

-----------------------------------------------------------------------------
(***************************************************************************)
(* Whose right it was.  Callers of the other parts hold tokens, whose role *)
(* Accounts gave to nobody but by an administrator.                        *)
(***************************************************************************)
LEMMA GrantedForGood ==
    ASSUME IndInv, [Next]_vars, NEW u \in UserId, Granted(u)
    PROVE  Granted(u)'
<1>1. CASE u = Root
  BY <1>1 DEF Granted
<1>2. CASE \E p \in Req : Grants(p, u)
  <2>1. PICK p \in Req : Grants(p, u)
    BY <1>2
  <2>2. bearer[p] \in Req /\ token[bearer[p]] # NoToken
    BY <2>1 DEF IndInv, TypeOK, Entitled, Grants
  <2>3. token'[bearer[p]] = token[bearer[p]]
    BY <2>2, AskedStaysAll
  <2>4. pc'[p] # "idle" /\ call'[p] = call[p] /\ bearer'[p] = bearer[p]
    BY <2>1, AskedStaysAll DEF Grants
  <2>5. Grants(p, u)'
    BY <2>1, <2>3, <2>4 DEF Grants, Claim
  <2> QED
    BY <2>5 DEF Granted
<1> QED
  BY <1>1, <1>2 DEF Granted

MayCall(c)  ==
    c.token = "good" /\ c.role = "ADMIN" => c.caller \in UserId /\ Granted(c.caller)
CallersInv ==
    /\ \A r \in RuleReq : fpc[r] # "idle" => MayCall(fcall[r])
    /\ \A r \in TxnReq : tpc[r] # "idle" => MayCall(tcall[r])

LEMMA HoldersMayCall ==
    ASSUME IndInv, NEW c, Holds(c) PROVE MayCall(c)
<1> SUFFICES ASSUME c.token = "good" PROVE MayCall(c)
  BY DEF MayCall
<1>1. PICK q \in Req : /\ token[q] # NoToken /\ c.caller = token[q].sub
                       /\ c.role = token[q].role
  BY DEF Holds
<1>2. token[q] \in Token /\ TokenGranted(q)
  BY <1>1 DEF IndInv, TypeOK, AdminsGranted
<1> QED
  BY <1>1, <1>2 DEF Token, TokenGranted, MayCall

\* What the steps of Transactions do to the place and the call of a request.
TxnTypes ==
    /\ tpc \in [TxnReq -> T!PC]
    /\ tcall \in [TxnReq -> TxnCalls \cup {NoCall}]
    /\ wrote \in [TxnReq -> T!Buffer]
    /\ todo \in [TxnReq -> SUBSET F!RuleId]

LEMMA TxnHandlerMoves ==
    ASSUME TxnTypes, NEW r \in TxnReq, T!Handler(r) \/ T!Finish(r)
    PROVE  /\ tpc[r] # "idle" /\ tcall' = tcall
           /\ \A q \in TxnReq \ {r} : tpc'[q] = tpc[q]
<1>1. /\ tcall' = tcall /\ tpc[r] # "idle"
      /\ tpc' = tpc \/ \E to \in T!PC \ {"idle"} : tpc' = [tpc EXCEPT ![r] = to]
  BY DEF T!Handler, T!ProvToken, T!CreateTransaction, T!GetTargetUser,
     T!GetAllActive, T!BeginTx, T!InsertTransaction, T!InsertRuleResult, T!Commit,
     T!GetTransactions, T!ListQuery, T!GetTransaction, T!Finish, T!Reply, T!Goto,
     T!Creates, T!request, T!PC
<1> QED
  BY <1>1 DEF TxnTypes

LEMMA CallersStep ==
    ASSUME IndInv, RulesInv, TxnTypes, CallersInv, [SystemNext]_systemVars
    PROVE  CallersInv'
<1>a. [Next]_vars
  BY AccountSteps
<1>b. ASSUME NEW c, MayCall(c) 
      PROVE  c.token = "good" /\ c.role = "ADMIN" =>
                c.caller \in UserId /\ Granted(c.caller)'
  BY <1>a, <1>b, GrantedForGood DEF MayCall
<1>1. ASSUME NEW q \in RuleReq, fpc'[q] # "idle"
      PROVE  MayCall(fcall'[q])
  <2>1. CASE \E r \in RuleReq : RuleArrive(r)
    <3>1. PICK r \in RuleReq : RuleArrive(r)
      BY <2>1
    <3>2. MayCall(fcall'[r])
      BY <3>1, HoldersMayCall DEF RuleArrive
    <3>3. q # r => fpc'[q] = fpc[q] /\ fcall'[q] = fcall[q]
      BY <3>1, RuleArriveStep DEF RuleArrive, RulesInv, RuleTypes
    <3> QED
      BY <1>1, <3>2, <3>3 DEF CallersInv
  <2>2. CASE \E r \in RuleReq : RuleHandler(r)
    <3>1. PICK r \in RuleReq : RuleHandler(r)
      BY <2>2
    <3>2. /\ fcall' = fcall /\ fpc[r] # "idle"
          /\ \E to \in F!PC : fpc' = [fpc EXCEPT ![r] = to]
      BY <3>1 DEF RuleHandler, F!Handler, F!ProvToken, F!CreateFraud, F!CheckNameExist,
         F!Create, F!GetFraud, F!UpdateFraudID, F!DeactivateFraudID, F!GetBYID, F!Update,
         F!Untouched, F!Reply, F!Goto, F!PC
    <3>3. q # r => fpc'[q] = fpc[q]
      BY <3>2 DEF RulesInv, RuleTypes
    <3> QED
      BY <1>1, <3>2, <3>3 DEF CallersInv
  <2>3. CASE SystemCrash
    <3>1. fcall' = fcall /\ fpc[q] # "idle"
      BY <1>1, <2>3 DEF SystemCrash, F!Crash, F!InFlight, ruleOwn
    <3> QED
      BY <3>1 DEF CallersInv
  <2>4. CASE UNCHANGED <<fpc, fcall>>
    BY <1>1, <2>4 DEF CallersInv
  <2>5. CASE SystemBoot \/ \E r \in Req : AccountArrive(r) \/ AccountHandler(r)
    BY <2>4, <2>5 DEF SystemBoot, AccountArrive, AccountHandler, AccountsAlone, ruleOwn
  <2>6. CASE \E r \in TxnReq : \/ TxnArrive(r) \/ TxnHandler(r) \/ TxnFinish(r)
                               \/ TxnLeave(r) \/ TxnAwait(r)
    BY <2>4, <2>6 DEF TxnArrive, TxnHandler, TxnFinish, TxnLeave, TxnAwait, TxnAlone, ruleOwn
  <2>7. CASE UNCHANGED systemVars
    BY <2>4, <2>7 DEF systemVars, ruleOwn
  <2> QED
    BY <2>1, <2>2, <2>3, <2>5, <2>6, <2>7 DEF SystemNext
<1>2. ASSUME NEW q \in TxnReq, tpc'[q] # "idle"
      PROVE  MayCall(tcall'[q])
  <2>1. CASE \E r \in TxnReq : TxnArrive(r)
    <3>1. PICK r \in TxnReq : TxnArrive(r)
      BY <2>1
    <3>2. MayCall(tcall'[r])
      BY <3>1, HoldersMayCall DEF TxnArrive
    <3>3. q # r => tpc'[q] = tpc[q] /\ tcall'[q] = tcall[q]
      BY <3>1 DEF TxnArrive, T!Arrive, T!Goto, TxnTypes
    <3> QED
      BY <1>2, <3>2, <3>3 DEF CallersInv
  <2>2. CASE \E r \in TxnReq : TxnHandler(r) \/ TxnFinish(r)
    <3>1. PICK r \in TxnReq : T!Handler(r) \/ T!Finish(r)
      BY <2>2 DEF TxnHandler, TxnFinish
    <3>2. tcall' = tcall /\ tpc[q] # "idle"
      BY <1>2, <3>1, TxnHandlerMoves
    <3> QED
      BY <3>2 DEF CallersInv
  <2>3. CASE SystemCrash
    <3>1. tcall' = tcall /\ tpc[q] # "idle"
      BY <1>2, <2>3 DEF SystemCrash, T!Crash, T!InFlight, T!request, txnOwn
    <3> QED
      BY <3>1 DEF CallersInv
  <2>4. CASE UNCHANGED <<tpc, tcall>>
    BY <1>2, <2>4 DEF CallersInv
  <2>5. CASE SystemBoot \/ \E r \in Req : AccountArrive(r) \/ AccountHandler(r)
    BY <2>4, <2>5 DEF SystemBoot, AccountArrive, AccountHandler, AccountsAlone, txnOwn
  <2>6. CASE \E r \in RuleReq : RuleArrive(r) \/ RuleHandler(r)
    BY <2>4, <2>6 DEF RuleArrive, RuleHandler, RulesAlone, txnOwn
  <2>7. CASE \E r \in TxnReq : TxnLeave(r) \/ TxnAwait(r)
    BY <2>4, <2>7 DEF TxnLeave, TxnAwait, T!Disconnect, T!AwaitDone
  <2>8. CASE UNCHANGED systemVars
    BY <2>4, <2>8 DEF systemVars, txnOwn
  <2> QED
    BY <2>1, <2>2, <2>3, <2>5, <2>6, <2>7, <2>8 DEF SystemNext
<1> QED
  BY <1>b, <1>1, <1>2 DEF CallersInv, MayCall

-----------------------------------------------------------------------------
(***************************************************************************)
(* Whom a transaction belongs to.                                          *)
(***************************************************************************)
Saving == {"GetAllActive", "BeginTx", "InsertTransaction", "InsertRuleResults"}

\* Where only a request with a good token gets.
Past == {"route", "GetByID"} \cup Saving

Fit(r)   == T!Target(tcall[r]) \in UserId /\ Stored(T!Target(tcall[r]))
Owned(t) == /\ t.id \in TxnReq /\ tpc[t.id] # "idle" /\ Fit(t.id)
            /\ tcall[t.id].token = "good"
            /\ t.user = T!Target(tcall[t.id])

TxnPart(r) ==
    /\ tpc[r] # "idle" => tcall[r] \in TxnCalls
    /\ tpc[r] = "GetByID" => T!Target(tcall[r]) \in UserId
    /\ tpc[r] \in Past => tcall[r].token = "good"
    /\ tpc[r] \in Saving => Fit(r)
    /\ \A t \in wrote[r].transactions : Owned(t)

TxnInv ==
    /\ TxnTypes
    /\ \A r \in TxnReq : TxnPart(r)
    /\ \A t \in transactions : Owned(t)

\* A step of one request keeps the invariant if it keeps the part of it.
LEMMA TxnKeeps ==
    ASSUME TxnInv, TxnTypes', NEW r \in TxnReq,
           \A u \in UserId : Stored(u) => Stored(u)',
           \A q \in TxnReq \ {r} : /\ tpc'[q] = tpc[q] /\ tcall'[q] = tcall[q]
                                   /\ wrote'[q].transactions = wrote[q].transactions,
           tpc'[r] # "idle", tpc[r] # "idle" => tcall'[r] = tcall[r],
           transactions' \subseteq transactions \cup wrote[r].transactions,
           tcall'[r] \in TxnCalls,
           tpc'[r] = "GetByID" => T!Target(tcall'[r]) \in UserId,
           tpc'[r] \in Past => tcall'[r].token = "good",
           tpc'[r] \in Saving => Fit(r)',
           \A t \in wrote'[r].transactions :
              t \in wrote[r].transactions
              \/ (t.id = r /\ t.user = T!Target(tcall[r]) /\ Fit(r) /\ tpc[r] # "idle"
                  /\ tcall[r].token = "good")
    PROVE  TxnInv'
<1>1. ASSUME NEW q \in TxnReq, tpc[q] # "idle", Fit(q)
      PROVE  tpc'[q] # "idle" /\ Fit(q)' /\ tcall'[q] = tcall[q]
  BY <1>1 DEF Fit
<1>2. ASSUME NEW t, Owned(t) PROVE Owned(t)'
  BY <1>1, <1>2 DEF Owned
<1>3. ASSUME NEW t \in wrote'[r].transactions PROVE Owned(t)'
  BY <1>1, <1>2 DEF TxnInv, TxnPart, Owned
<1>4. TxnPart(r)'
  BY <1>3 DEF TxnPart
<1>5. ASSUME NEW q \in TxnReq \ {r} PROVE TxnPart(q)'
  BY <1>1, <1>2 DEF TxnInv, TxnPart, Past, Saving
<1>6. ASSUME NEW t \in transactions' PROVE Owned(t)'
  BY <1>2 DEF TxnInv, TxnPart
<1> QED
  BY <1>4, <1>5, <1>6 DEF TxnInv

\* A step that only ends requests, or rolls back.
LEMMA TxnRests ==
    ASSUME TxnInv, TxnTypes', \A u \in UserId : Stored(u) => Stored(u)',
           tcall' = tcall, transactions' = transactions,
           \A q \in TxnReq : /\ tpc'[q] = tpc[q]
                                \/ (tpc[q] # "idle" /\ tpc'[q] \in {"lost", "closed"})
                             /\ wrote'[q].transactions \subseteq wrote[q].transactions
    PROVE  TxnInv'
<1>1. ASSUME NEW q \in TxnReq PROVE Fit(q) => Fit(q)'
  BY DEF Fit
<1>2. ASSUME NEW t, Owned(t) PROVE Owned(t)'
  BY <1>1, <1>2 DEF Owned
<1>3. ASSUME NEW q \in TxnReq PROVE TxnPart(q)'
  BY <1>1, <1>2 DEF TxnInv, TxnPart, Past, Saving
<1> QED
  BY <1>2, <1>3 DEF TxnInv

\* What a handler of Transactions does to one request, in four lines.
LEMMA TxnEffect ==
    ASSUME NEW r \in TxnReq, T!Handler(r)
    PROVE  /\ tcall' = tcall
           /\ transactions' \subseteq transactions \cup wrote[r].transactions
           /\ \/ wrote' = wrote
              \/ wrote' = [wrote EXCEPT ![r] = T!Empty]
              \/ /\ tpc[r] = "InsertTransaction"
                 /\ wrote' = [wrote EXCEPT ![r].transactions = @ \cup {T!NewRow(r)}]
              \/ \E rule \in todo[r] :
                    wrote' = [wrote EXCEPT ![r].results = @ \cup {T!NewResult(r, rule)}]
           /\ \/ todo' = todo
              \/ todo' = [todo EXCEPT ![r] = T!RulesRead]
              \/ \E rule : todo' = [todo EXCEPT ![r] = @ \ {rule}]
<1>1. CASE \/ T!ProvToken(r) \/ T!CreateTransaction(r) \/ T!GetTargetUser(r)
           \/ T!GetTransactions(r) \/ T!ListQuery(r) \/ T!GetTransaction(r)
  BY <1>1 DEF T!ProvToken, T!CreateTransaction, T!GetTargetUser, T!GetTransactions,
     T!ListQuery, T!GetTransaction, T!request, T!tables
<1>2. CASE T!GetAllActive(r) \/ T!BeginTx(r)
  BY <1>2 DEF T!GetAllActive, T!BeginTx, T!tables
<1>3. CASE T!InsertTransaction(r) \/ T!InsertRuleResult(r) \/ T!Commit(r)
  BY <1>3 DEF T!InsertTransaction, T!InsertRuleResult, T!Commit, T!Rollback, T!Publish,
     T!tables
<1> QED
  BY <1>1, <1>2, <1>3 DEF T!Handler

\* Where it goes.
LEMMA TxnGoes ==
    ASSUME NEW r \in TxnReq, T!Handler(r)
    PROVE  /\ tpc[r] # "idle"
           /\ \/ tpc' = tpc
              \/ \E to \in T!PC \ {"idle"} :
                    /\ tpc' = [tpc EXCEPT ![r] = to]
                    /\ to = "GetByID" => ~T!ForNobody(tcall[r])
                    /\ to \in Past => tpc[r] \in Past \/ tcall[r].token = "good"
                    /\ to \in Saving => tpc[r] \in Saving
                          \/ /\ tpc[r] = "GetByID"
                             /\ UserStatus[T!Target(tcall[r])] = "active"
<1>1. CASE \/ T!ProvToken(r) \/ T!CreateTransaction(r)
           \/ T!GetTransactions(r) \/ T!ListQuery(r) \/ T!GetTransaction(r)
  BY <1>1 DEF T!ProvToken, T!CreateTransaction, T!Creates, T!GetTransactions,
     T!ListQuery, T!GetTransaction, T!Reply, T!Goto, T!PC, Past, Saving
<1>2. CASE T!GetTargetUser(r)
  BY <1>2 DEF T!GetTargetUser, T!Reply, T!Goto, T!PC, Past, Saving
<1>3. CASE T!GetAllActive(r) \/ T!BeginTx(r)
  BY <1>3 DEF T!GetAllActive, T!BeginTx, T!Reply, T!Goto, T!PC, Past, Saving
<1>4. CASE T!InsertTransaction(r) \/ T!InsertRuleResult(r) \/ T!Commit(r)
  BY <1>4 DEF T!InsertTransaction, T!InsertRuleResult, T!Commit, T!Reply, T!Goto,
     T!PC, Past, Saving
<1> QED
  BY <1>1, <1>2, <1>3, <1>4 DEF T!Handler

LEMMA TxnHandlerStep ==
    ASSUME TxnInv, NEW r \in TxnReq, T!Handler(r), users' = users
    PROVE  TxnInv'
<1>a. /\ TxnTypes /\ TxnPart(r) /\ tpc[r] # "idle" /\ tcall[r] \in T!Call
      /\ tcall'[r] = tcall[r]
  BY TxnGoes, TxnEffect, PartsAssumption DEF TxnInv, TxnPart
<1>b. T!NewRow(r).id = r /\ T!NewRow(r).user = T!Target(tcall[r])
  BY DEF T!NewRow
<1>c. tpc[r] = "InsertTransaction" =>
            Fit(r) /\ tcall[r].token = "good" /\ T!NewRow(r) \in T!Row
  BY <1>a DEF TxnPart, Past, Saving, Fit, T!NewRow, T!Row
<1>d. wrote[r] \in T!Buffer
  BY <1>a DEF TxnTypes
<1>1. wrote' \in [TxnReq -> T!Buffer]
  <2>1. CASE wrote' = wrote \/ wrote' = [wrote EXCEPT ![r] = T!Empty]
    BY <1>a, <2>1 DEF TxnTypes, T!Empty, T!Buffer
  <2>2. CASE /\ tpc[r] = "InsertTransaction"
             /\ wrote' = [wrote EXCEPT ![r].transactions = @ \cup {T!NewRow(r)}]
    BY <1>a, <1>c, <1>d, <2>2 DEF TxnTypes, T!Buffer
  <2>3. CASE \E rule \in todo[r] :
                wrote' = [wrote EXCEPT ![r].results = @ \cup {T!NewResult(r, rule)}]
    <3>1. PICK rule \in todo[r] :
                wrote' = [wrote EXCEPT ![r].results = @ \cup {T!NewResult(r, rule)}]
      BY <2>3
    <3>2. T!NewResult(r, rule) \in T!Result
      BY <1>a DEF TxnTypes, T!NewResult, T!Result
    <3> QED
      BY <1>a, <1>d, <3>1, <3>2 DEF TxnTypes, T!Buffer
  <2> QED
    BY <2>1, <2>2, <2>3, TxnEffect
<1>2. todo' \in [TxnReq -> SUBSET F!RuleId]
  <2>1. T!RulesRead \subseteq F!RuleId
    BY DEF T!RulesRead, T!EnabledIn
  <2> QED
    BY <1>a, <2>1, TxnEffect DEF TxnTypes
<1>3. tpc' \in [TxnReq -> T!PC] /\ tcall' = tcall
  BY <1>a, TxnGoes, TxnEffect DEF TxnTypes
<1>4. TxnTypes'
  BY <1>a, <1>1, <1>2, <1>3 DEF TxnTypes
<1>5. ASSUME NEW q \in TxnReq \ {r}
      PROVE  tpc'[q] = tpc[q] /\ wrote'[q].transactions = wrote[q].transactions
  <2>1. tpc'[q] = tpc[q]
    BY <1>a, TxnGoes DEF TxnTypes
  <2>2. wrote'[q] = wrote[q]
    BY <1>a, TxnEffect DEF TxnTypes
  <2> QED
    BY <2>1, <2>2
<1>6. /\ tpc'[r] # "idle"
      /\ tpc'[r] = "GetByID" => T!Target(tcall[r]) \in UserId
      /\ tpc'[r] \in Past => tcall[r].token = "good"
      /\ tpc'[r] \in Saving => Fit(r)
  <2>1. ~T!ForNobody(tcall[r]) => T!Target(tcall[r]) \in UserId
    BY <1>a DEF T!ForNobody, T!Target, T!Call, T!Role
  <2>2. /\ T!Target(tcall[r]) \in UserId
        /\ UserStatus[T!Target(tcall[r])] = "active"
        => Fit(r)
    BY DEF UserStatus, Fit
  <2>3. CASE tpc' = tpc
    BY <1>a, <2>3 DEF TxnPart
  <2>4. ASSUME NEW to \in T!PC \ {"idle"}, tpc' = [tpc EXCEPT ![r] = to],
               to = "GetByID" => ~T!ForNobody(tcall[r]),
               to \in Past => tpc[r] \in Past \/ tcall[r].token = "good",
               to \in Saving => tpc[r] \in Saving
                   \/ (tpc[r] = "GetByID" /\ UserStatus[T!Target(tcall[r])] = "active")
        PROVE  /\ tpc'[r] # "idle"
               /\ tpc'[r] = "GetByID" => T!Target(tcall[r]) \in UserId
               /\ tpc'[r] \in Past => tcall[r].token = "good"
               /\ tpc'[r] \in Saving => Fit(r)
    BY <1>a, <2>1, <2>2, <2>4 DEF TxnPart, TxnTypes
  <2> QED
    BY <2>3, <2>4, TxnGoes
<1>7. ASSUME NEW t \in wrote'[r].transactions
      PROVE  t \in wrote[r].transactions \/ (t = T!NewRow(r) /\ tpc[r] = "InsertTransaction")
  BY <1>a, <1>d, <1>7, TxnEffect DEF TxnTypes, T!Empty, T!Buffer
<1>8. \A u \in UserId : Stored(u) => Stored(u)'
  BY DEF Stored
<1>9. Fit(r) => Fit(r)'
  BY <1>3, <1>8 DEF Fit
<1> QED
  BY <1>a, <1>b, <1>c, <1>3, <1>4, <1>5, <1>6, <1>7, <1>8, <1>9, TxnEffect, TxnKeeps
  DEF TxnPart

LEMMA TxnArriveStep ==
    ASSUME TxnInv, NEW r \in TxnReq, T!Arrive(r), users' = users PROVE TxnInv'
<1>1. /\ tpc[r] = "idle" /\ tpc' = [tpc EXCEPT ![r] = "ProvToken"]
      /\ \E c \in TxnCalls : tcall' = [tcall EXCEPT ![r] = c]
      /\ UNCHANGED <<transactions, wrote, todo>>
  BY DEF T!Arrive, T!Goto, T!tables
<1>2. TxnTypes'
  BY <1>1 DEF TxnInv, TxnTypes, T!PC
<1>3. tpc'[r] = "ProvToken" /\ tcall'[r] \in TxnCalls
  BY <1>1 DEF TxnInv, TxnTypes
<1>4. \A q \in TxnReq \ {r} : tpc'[q] = tpc[q] /\ tcall'[q] = tcall[q]
  BY <1>1 DEF TxnInv, TxnTypes
<1>5. \A u \in UserId : Stored(u) => Stored(u)'
  BY DEF Stored
<1> QED
  BY <1>1, <1>2, <1>3, <1>4, <1>5, TxnKeeps DEF Past, Saving

LEMMA TxnInvStep ==
    ASSUME IndInv, TxnInv, [SystemNext]_systemVars PROVE TxnInv'
<1>a. \A u \in UserId : Stored(u) => Stored(u)'
  BY AccountSteps, StoredRows DEF RowKept
<1>1. CASE UNCHANGED <<transactions, tpc, tcall, wrote, todo>>
  <2>1. TxnTypes'
    BY <1>1 DEF TxnInv, TxnTypes
  <2> QED
    BY <1>a, <1>1, <2>1, TxnRests
<1>2. CASE \E r \in TxnReq : TxnArrive(r) \/ TxnHandler(r)
  BY <1>2, TxnArriveStep, TxnHandlerStep DEF TxnArrive, TxnHandler, TxnAlone, vars
<1>3. CASE \E r \in TxnReq : TxnFinish(r) \/ TxnLeave(r) \/ TxnAwait(r)
  <2>1. PICK r \in TxnReq : T!Finish(r) \/ T!Disconnect(r) \/ T!AwaitDone(r)
    BY <1>3 DEF TxnFinish, TxnLeave, TxnAwait
  <2>2. /\ UNCHANGED <<transactions, tcall, todo>>
        /\ tpc' = tpc \/ (tpc[r] = "answered" /\ tpc' = [tpc EXCEPT ![r] = "closed"])
        /\ wrote' = wrote \/ wrote' = [wrote EXCEPT ![r] = T!Empty]
    BY <2>1 DEF T!Finish, T!Disconnect, T!AwaitDone, T!Goto, T!Rollback, T!tables
  <2>3. TxnTypes'
    BY <2>2 DEF TxnInv, TxnTypes, T!PC, T!Empty, T!Buffer
  <2>4. ASSUME NEW q \in TxnReq
        PROVE  /\ tpc'[q] = tpc[q] \/ (tpc[q] # "idle" /\ tpc'[q] \in {"lost", "closed"})
               /\ wrote'[q].transactions \subseteq wrote[q].transactions
    BY <2>2 DEF TxnInv, TxnTypes, T!Empty
  <2> QED
    BY <1>a, <2>2, <2>3, <2>4, TxnRests
<1>4. CASE SystemCrash
  <2>1. CASE T!Crash
    <3>1. /\ UNCHANGED <<transactions, tcall, todo>>
          /\ tpc' = [r \in TxnReq |-> IF T!InFlight(r) THEN "lost"
                                      ELSE IF tpc[r] = "answered" THEN "closed" ELSE tpc[r]]
          /\ wrote' = [r \in TxnReq |-> T!Empty]
      BY <2>1 DEF T!Crash, T!tables
    <3>2. TxnTypes'
      BY <3>1 DEF TxnInv, TxnTypes, T!PC, T!Empty, T!Buffer
    <3>3. ASSUME NEW q \in TxnReq
          PROVE  /\ tpc'[q] = tpc[q] \/ (tpc[q] # "idle" /\ tpc'[q] \in {"lost", "closed"})
                 /\ wrote'[q].transactions \subseteq wrote[q].transactions
      BY <3>1 DEF T!InFlight, T!Empty
    <3> QED
      BY <1>a, <3>1, <3>2, <3>3, TxnRests
  <2> QED
    BY <1>1, <1>4, <2>1 DEF SystemCrash, txnOwn
<1>5. CASE SystemBoot \/ \E r \in Req : AccountArrive(r) \/ AccountHandler(r)
  BY <1>1, <1>5 DEF SystemBoot, AccountArrive, AccountHandler, AccountsAlone, txnOwn
<1>6. CASE \E r \in RuleReq : RuleArrive(r) \/ RuleHandler(r)
  BY <1>1, <1>6 DEF RuleArrive, RuleHandler, RulesAlone, txnOwn
<1>7. CASE UNCHANGED systemVars
  BY <1>1, <1>7 DEF systemVars, txnOwn
<1> QED
  BY <1>2, <1>3, <1>4, <1>5, <1>6, <1>7 DEF SystemNext

RightsInv == TxnInv /\ CallersInv

LEMMA SystemRights == System => []RightsInv
<1>1. SystemInit => RightsInv
  <2>1. T!Init => TxnInv
    BY DEF T!Init, T!Empty, T!Buffer, T!PC, TxnInv, TxnTypes, TxnPart, Past, Saving
  <2>2. F!Init /\ T!Init => CallersInv
    BY DEF F!Init, T!Init, CallersInv
  <2> QED
    BY <2>1, <2>2 DEF SystemInit, RightsInv
<1>2. IndInv /\ RulesInv /\ RightsInv /\ [SystemNext]_systemVars => RightsInv'
  BY TxnInvStep, CallersStep DEF RightsInv, TxnInv
<1> QED
  BY <1>1, <1>2, SystemAccounts, SystemRules, PTL DEF System

\* A transaction belongs to a user that has a row, and only callers whom an
\* administrator made one save a transaction for somebody else.
THEOREM TransactionsByRight == System => []SavedByRight
<1>1. RightsInv => SavedByRight
  <2>1. ASSUME RightsInv, NEW t \in transactions
        PROVE  /\ tcall[t.id].token = "good" /\ Stored(t.user)
               /\ (t.user # tcall[t.id].caller => Granted(tcall[t.id].caller))
    <3>1. Owned(t) /\ MayCall(tcall[t.id])
      BY <2>1 DEF RightsInv, TxnInv, CallersInv, Owned
    <3>2. t.user # tcall[t.id].caller => tcall[t.id].role = "ADMIN"
      BY <3>1 DEF Owned, T!Target
    <3> QED
      BY <3>1, <3>2 DEF Owned, Fit, MayCall
  <2> QED
    BY <2>1 DEF SavedByRight
<1> QED
  BY <1>1, SystemRights, PTL

\* Rules are only written with good tokens of callers whom an administrator made one.
THEOREM RuleWritesByRight == System => RulesByRight
<1>1. ASSUME RulesInv, RightsInv, [SystemNext]_systemVars, NEW x \in F!RuleId, rules'[x] # rules[x]
      PROVE  \E r \in RuleReq : /\ fpc'[r] # fpc[r]
                               /\ fcall[r].token = "good" /\ Granted(fcall[r].caller)
  <2>1. PICK r \in RuleReq : F!Handler(r)
    <3>1. ~UNCHANGED rules
      BY <1>1
    <3>2. ASSUME NEW r \in RuleReq, RuleArrive(r) PROVE FALSE
      BY <3>1, <3>2 DEF RuleArrive, F!Arrive
    <3>3. ~SystemCrash
      BY <3>1 DEF SystemCrash
    <3> QED
      BY <1>1, <3>1, <3>2, <3>3
      DEF SystemNext, SystemBoot, AccountArrive, AccountHandler, AccountsAlone,
          RuleHandler, TxnArrive, TxnHandler, TxnFinish, TxnLeave, TxnAwait, TxnAlone,
          systemVars
  <2>2. fpc'[r] # fpc[r] /\ fpc[r] \in {"Create", "Update"}
    BY <1>1, <2>1, RuleHandlerStep
  <2>3. fcall[r].token = "good" /\ fcall[r].role = "ADMIN" /\ MayCall(fcall[r])
    BY <1>1, <2>2 DEF RightsInv, RulesInv, RulePart, RuleAsks, CallersInv
  <2> QED
    BY <2>2, <2>3 DEF MayCall
<1>2. RulesInv /\ RightsInv /\ [SystemNext]_systemVars =>
        [\A x \in F!RuleId : rules'[x] # rules[x] =>
          \E r \in RuleReq : /\ fpc'[r] # fpc[r]
                             /\ fcall[r].token = "good" /\ Granted(fcall[r].caller)]_systemVars
  BY <1>1
<1> QED
  BY <1>2, SystemRules, SystemRights, PTL DEF System, RulesByRight
=============================================================================
