------------------------- MODULE TransactionsProofs -------------------------
(***************************************************************************)
(* Theorems about Transactions, for every set of requests, users and rules *)
(* and every value of the bounds.                                          *)
(***************************************************************************)
EXTENDS Transactions, FiniteSetTheorems, TLAPS

\* Nothing that RequestInv and SavedRow say of request q changes.
Untouched(q) ==
    /\ pc'[q] = pc[q] /\ call'[q] = call[q] /\ answer'[q] = answer[q]
    /\ tx'[q] = tx[q] /\ wrote'[q] = wrote[q]
    /\ snap'[q] = snap[q] /\ todo'[q] = todo[q]
    /\ seen'[q] = seen[q] /\ activeSeen'[q] = activeSeen[q]

\* The requests a step does not touch keep their part of the invariant.
LEMMA OthersFrame ==
    ASSUME NEW q \in Req, RequestInv(q), Untouched(q),
           UNCHANGED <<users, rules>>, transactions \subseteq transactions'
    PROVE  RequestInv(q)'
<1> USE DEF Untouched
<1>1. Checked(q)'
  BY DEF RequestInv, Checked, InFlight, ForNobody, ForOther, Target,
         ActiveIn, EnabledIn
<1>2. Buffered(q)'
  BY DEF RequestInv, Buffered, NewRow, NewResult, Target
<1>3. Stored(q) => Stored(q)'
  BY DEF Stored
<1> QED
  BY <1>1, <1>2, <1>3 DEF RequestInv

\* A step of a handler still at work leaves the ledger's part alone: a saved
\* transaction belongs to a request that has been answered.
LEMMA LedgerFrame ==
    ASSUME TypeOK, LedgerInv, UNCHANGED tables, faulted \subseteq faulted',
           NEW r \in Req, pc[r] \notin {"answered", "closed"},
           \A q \in Req \ {r} : Untouched(q)
    PROVE  LedgerInv'
<1>1. ASSUME NEW t \in transactions PROVE SavedRow(t)'
  <2>1. SavedRow(t)
    BY DEF LedgerInv
  <2>2. t.id \in Req
    BY DEF TypeOK, Row
  <2>3. Untouched(t.id)
    BY <2>1, <2>2 DEF SavedRow
  <2>4. ResultsOf(t.id)' = ResultsOf(t.id)
    BY DEF ResultsOf, tables
  <2> QED
    BY <2>1, <2>3, <2>4 DEF SavedRow, Untouched, NewRow, NewResult, Target,
                            ForNobody, ForOther
<1> QED
  BY <1>1 DEF LedgerInv, Stored, tables


\* A handler that answers anything but 201, with its transaction rolled back or
\* left as it is, keeps the invariant: all the error exits are of this form.
LEMMA ReplyKeeps ==
    ASSUME CreationInv, NEW r \in Req, InFlight(r),
           NEW code \in Code \ {0, 201}, Reply(r, code),
           UNCHANGED <<tx, wrote>> \/ Rollback(r),
           listed' \in [Req -> [total : Nat, items : SUBSET Row]],
           faulted \subseteq faulted', faulted' \subseteq Req,
           UNCHANGED <<tables, others, call, ctx, snap, todo, history>>
    PROVE  CreationInv'
<1>a. TypeOK /\ RequestInv(r)
  BY DEF CreationInv
<1>b. /\ pc' = [pc EXCEPT ![r] = "answered"]
      /\ answer' = [answer EXCEPT ![r] = code]
  BY DEF Reply
<1>c. \/ tx' = tx /\ wrote' = wrote
      \/ /\ tx' = [tx EXCEPT ![r] = "none"]
         /\ wrote' = [wrote EXCEPT ![r] = Empty]
  BY DEF Rollback
<1>1. TypeOK'
  <2>1. pc' \in [Req -> PC]
    BY <1>a, <1>b DEF TypeOK, PC
  <2>2. answer' \in [Req -> Code]
    BY <1>a, <1>b DEF TypeOK
  <2>3. tx' \in [Req -> {"none", "open"}]
    BY <1>a, <1>c DEF TypeOK
  <2>4. Empty \in Buffer
    BY DEF Empty, Buffer
  <2>5. wrote' \in [Req -> Buffer]
    BY <1>a, <1>c, <2>4 DEF TypeOK
  <2> QED
    BY <1>a, <2>1, <2>2, <2>3, <2>5 DEF TypeOK, tables, others, history
<1>2. \A q \in Req \ {r} : Untouched(q)
  BY <1>a, <1>b, <1>c DEF TypeOK, Untouched, history
<1>3. RequestInv(r)'
  <2>1. pc'[r] = "answered" /\ answer'[r] = code
    BY <1>a, <1>b DEF TypeOK
  <2>2. tx'[r] = "none" => wrote'[r] = Empty
    BY <1>a, <1>c DEF TypeOK, RequestInv, Buffered
  <2>3. call'[r] \in Calls
    BY <1>a DEF RequestInv, Checked, InFlight
  <2> QED
    BY <2>1, <2>2, <2>3 DEF RequestInv, Checked, Buffered, InFlight, Creating,
                            Inserting
<1>4. LedgerInv'
  BY <1>a, <1>2, LedgerFrame DEF CreationInv, InFlight
<1> QED
  BY <1>1, <1>2, <1>3, <1>4, OthersFrame DEF CreationInv, tables, others

\* What a database call does to the set of requests that met a fault.
LEMMA FaultedGrows ==
    ASSUME TypeOK, NEW r \in Req,
           \/ Succeeds(r) \/ Fails(r) \/ TxSucceeds(r) \/ TxFails(r) \/ Fault(r)
    PROVE  faulted \subseteq faulted' /\ faulted' \subseteq Req
BY DEF TypeOK, Succeeds, Fails, TxSucceeds, TxFails, Cancelled, Fault

\* One lemma per action: it preserves the inductive invariant.
LEMMA ArriveStep ==
    ASSUME CreationInv, NEW r \in Req, Arrive(r) PROVE CreationInv'
<1>a. TypeOK /\ RequestInv(r) /\ pc[r] = "idle"
  BY DEF CreationInv, Arrive, Goto
<1>b. /\ pc' = [pc EXCEPT ![r] = "ProvToken"]
      /\ \E c \in Calls : call' = [call EXCEPT ![r] = c]
      /\ seen' = [seen EXCEPT ![r] = {EnabledIn(rules)}]
      /\ activeSeen' = [activeSeen EXCEPT ![r] = ActiveIn(users)]
      /\ before' = [before EXCEPT ![r] = transactions]
      /\ UNCHANGED <<transactions, results, answer, ctx, tx, wrote, snap, todo,
                     listed, faulted, users, rules, writes, crashes>>
  BY DEF Arrive, Goto, tables, others
<1>1. TypeOK'
  BY <1>a, <1>b DEF TypeOK, PC, EnabledIn, ActiveIn
<1>2. \A q \in Req \ {r} : Untouched(q)
  BY <1>a, <1>b DEF TypeOK, Untouched
<1>3. RequestInv(r)'
  <2>1. /\ pc'[r] = "ProvToken" /\ call'[r] \in Calls
        /\ seen'[r] = {EnabledIn(rules)} /\ activeSeen'[r] = ActiveIn(users)
    BY <1>a, <1>b DEF TypeOK
  <2>2. Checked(r)'
    BY <1>b, <2>1 DEF Checked, Creating, Inserting, ActiveIn, EnabledIn
  <2>3. Buffered(r)'
    BY <1>a, <1>b, <2>1 DEF RequestInv, Buffered, Inserting
  <2>4. answer'[r] = 0
    BY <1>a, <1>b DEF RequestInv
  <2> QED
    BY <2>2, <2>3, <2>4 DEF RequestInv
<1>4. LedgerInv'
  BY <1>a, <1>b, <1>2, LedgerFrame DEF CreationInv, tables
<1> QED
  BY <1>1, <1>2, <1>3, <1>4, <1>b, OthersFrame DEF CreationInv

\* A handler that goes on to its next call, touching no other request and no
\* table, keeps the invariant if it keeps its types and its own part.
LEMMA MoveKeeps ==
    ASSUME CreationInv, NEW r \in Req, InFlight(r), NEW p \in PC,
           pc' = [pc EXCEPT ![r] = p], TypeOK', RequestInv(r)',
           faulted \subseteq faulted',
           UNCHANGED <<tables, others, call, answer, history>>,
           \A q \in Req \ {r} : /\ tx'[q] = tx[q] /\ wrote'[q] = wrote[q]
                                /\ snap'[q] = snap[q] /\ todo'[q] = todo[q]
    PROVE  CreationInv'
<1>1. \A q \in Req \ {r} : Untouched(q)
  BY DEF CreationInv, TypeOK, Untouched, history
<1>2. LedgerInv'
  BY <1>1, LedgerFrame DEF CreationInv, InFlight
<1> QED
  BY <1>1, <1>2, OthersFrame DEF CreationInv, tables, others

LEMMA ProvTokenStep ==
    ASSUME CreationInv, NEW r \in Req, ProvToken(r) PROVE CreationInv'
<1>a. TypeOK /\ RequestInv(r) /\ InFlight(r) /\ pc[r] = "ProvToken"
  BY DEF CreationInv, ProvToken, InFlight
<1>b. UNCHANGED <<tables, request, others, history>>
  BY DEF ProvToken
<1>c. faulted \subseteq faulted' /\ faulted' \subseteq Req
  <2>1. faulted' = faulted \/ Succeeds(r) \/ Fails(r)
    BY DEF ProvToken
  <2> QED
    BY <1>a, <2>1, FaultedGrows DEF TypeOK
<1>1. CASE Reply(r, 401)
  BY <1>a, <1>b, <1>c, <1>1, ReplyKeeps DEF Code, TypeOK, request
<1>2. CASE /\ users[call[r].caller] = "active"
           /\ pc' = [pc EXCEPT ![r] = "route"] /\ answer' = answer
  <2>1. TypeOK'
    BY <1>a, <1>b, <1>c, <1>2 DEF TypeOK, PC, tables, request, others, history
  <2>2. RequestInv(r)'
    <3>1. Checked(r)'
      BY <1>a, <1>b, <1>2, CallsAssumption
      DEF TypeOK, RequestInv, Checked, InFlight, Creating, Inserting, ActiveIn,
          EnabledIn, Call, request, others, history
    <3>2. Buffered(r)'
      BY <1>a, <1>b, <1>2 DEF TypeOK, RequestInv, Buffered, Inserting, request
    <3> QED
      BY <1>a, <1>b, <1>2, <3>1, <3>2 DEF TypeOK, RequestInv, Stored, tables
  <2> QED
    BY <1>a, <1>b, <1>c, <1>2, <2>1, <2>2, MoveKeeps DEF PC, request
<1> QED
  BY <1>1, <1>2 DEF ProvToken

LEMMA CreateTransactionStep ==
    ASSUME CreationInv, NEW r \in Req, CreateTransaction(r) PROVE CreationInv'
<1>a. TypeOK /\ RequestInv(r) /\ InFlight(r) /\ Creates(r)
  BY DEF CreationInv, CreateTransaction, Creates, InFlight
<1>b. UNCHANGED <<tables, request, faulted, others, history>>
  BY DEF CreateTransaction
<1>1. CASE \E code \in {400, 403, 422} : Reply(r, code)
  BY <1>a, <1>b, <1>1, ReplyKeeps DEF Code, TypeOK, request
<1>2. CASE /\ ~ForNobody(call[r]) /\ ~ForOther(call[r])
           /\ pc' = [pc EXCEPT ![r] = "GetByID"] /\ answer' = answer
  <2>1. TypeOK'
    BY <1>a, <1>b, <1>2 DEF TypeOK, PC, tables, request, others, history
  <2>2. RequestInv(r)'
    <3>1. Checked(r)'
      BY <1>a, <1>b, <1>2
      DEF Creates, TypeOK, RequestInv, Checked, InFlight, Creating, Inserting,
          ForNobody, ForOther, ActiveIn, EnabledIn, request, others, history
    <3>2. Buffered(r)'
      BY <1>a, <1>b, <1>2 DEF Creates, TypeOK, RequestInv, Buffered, Inserting, request
    <3> QED
      BY <1>a, <1>b, <1>2, <3>1, <3>2
      DEF Creates, TypeOK, RequestInv, Stored, tables
  <2> QED
    BY <1>a, <1>b, <1>2, <2>1, <2>2, MoveKeeps DEF PC, request
<1> QED
  BY <1>1, <1>2 DEF CreateTransaction, Goto

LEMMA GetTargetUserStep ==
    ASSUME CreationInv, NEW r \in Req, GetTargetUser(r) PROVE CreationInv'
<1>a. TypeOK /\ RequestInv(r) /\ InFlight(r) /\ pc[r] = "GetByID"
  BY DEF CreationInv, GetTargetUser, InFlight
<1>b. UNCHANGED <<tables, request, others, history>>
  BY DEF GetTargetUser
<1>c. faulted \subseteq faulted' /\ faulted' \subseteq Req
  BY <1>a, FaultedGrows DEF GetTargetUser
<1>1. CASE \E code \in {404, 423, 500} : Reply(r, code)
  BY <1>a, <1>b, <1>c, <1>1, ReplyKeeps DEF Code, TypeOK, request
<1>2. CASE /\ users[Target(call[r])] = "active"
           /\ pc' = [pc EXCEPT ![r] = "GetAllActive"] /\ answer' = answer
  <2>0. Target(call[r]) \in activeSeen[r]
    <3>1. call[r] \in Call /\ ~ForNobody(call[r])
      BY <1>a, CallsAssumption DEF RequestInv, Checked, Creating
    <3>2. Target(call[r]) \in UserId
      BY <3>1 DEF Call, ForNobody, Target
    <3> QED
      BY <1>a, <1>2, <3>2 DEF RequestInv, Checked, ActiveIn
  <2>1. TypeOK'
    BY <1>a, <1>b, <1>c, <1>2 DEF TypeOK, PC, tables, request, others, history
  <2>2. RequestInv(r)'
    <3>1. Checked(r)'
      BY <1>a, <1>b, <1>2, <2>0
      DEF TypeOK, RequestInv, Checked, InFlight, Creating, Inserting, Target,
          ForNobody, ForOther, ActiveIn, EnabledIn, request, others, history
    <3>2. Buffered(r)'
      BY <1>a, <1>b, <1>2 DEF TypeOK, RequestInv, Buffered, Inserting, request
    <3> QED
      BY <1>a, <1>b, <1>2, <3>1, <3>2 DEF TypeOK, RequestInv, Stored, tables
  <2> QED
    BY <1>a, <1>b, <1>c, <1>2, <2>1, <2>2, MoveKeeps DEF PC, request
<1> QED
  BY <1>1, <1>2 DEF GetTargetUser, Goto

LEMMA GetAllActiveStep ==
    ASSUME CreationInv, NEW r \in Req, GetAllActive(r) PROVE CreationInv'
<1>a. TypeOK /\ RequestInv(r) /\ InFlight(r) /\ pc[r] = "GetAllActive"
  BY DEF CreationInv, GetAllActive, InFlight
<1>b. UNCHANGED <<tables, call, ctx, tx, wrote, listed, others, history>>
  BY DEF GetAllActive
<1>c. faulted \subseteq faulted' /\ faulted' \subseteq Req
  BY <1>a, FaultedGrows DEF GetAllActive
<1>1. CASE Reply(r, 500) /\ UNCHANGED <<snap, todo>>
  BY <1>a, <1>b, <1>c, <1>1, ReplyKeeps DEF Code, TypeOK
<1>2. CASE /\ pc' = [pc EXCEPT ![r] = "BeginTx"] /\ answer' = answer
           /\ snap' = [snap EXCEPT ![r] = EnabledIn(rules)]
           /\ todo' = [todo EXCEPT ![r] = EnabledIn(rules)]
  <2>0. EnabledIn(rules) \subseteq RuleId /\ EnabledIn(rules) \in seen[r]
    BY <1>a DEF RequestInv, Checked, EnabledIn
  <2>1. TypeOK'
    BY <1>a, <1>b, <1>c, <1>2, <2>0 DEF TypeOK, PC, tables, others, history
  <2>2. RequestInv(r)'
    <3>1. Checked(r)'
      BY <1>a, <1>b, <1>2, <2>0
      DEF TypeOK, RequestInv, Checked, InFlight, Creating, Inserting, Target,
          ForNobody, ForOther, ActiveIn, EnabledIn, others, history
    <3>2. Buffered(r)'
      BY <1>a, <1>b, <1>2 DEF TypeOK, RequestInv, Buffered, Inserting
    <3> QED
      BY <1>a, <1>b, <1>2, <3>1, <3>2 DEF TypeOK, RequestInv, Stored, tables
  <2>3. \A q \in Req \ {r} : snap'[q] = snap[q] /\ todo'[q] = todo[q]
    BY <1>a, <1>2 DEF TypeOK
  <2> QED
    BY <1>a, <1>b, <1>c, <1>2, <2>1, <2>2, <2>3, MoveKeeps DEF PC
<1> QED
  BY <1>1, <1>2 DEF GetAllActive, Goto, RulesRead

LEMMA BeginTxStep ==
    ASSUME CreationInv, NEW r \in Req, BeginTx(r) PROVE CreationInv'
<1>a. TypeOK /\ RequestInv(r) /\ InFlight(r) /\ pc[r] = "BeginTx"
  BY DEF CreationInv, BeginTx, InFlight
<1>b. UNCHANGED <<tables, call, ctx, wrote, snap, todo, listed, others, history>>
  BY DEF BeginTx
<1>c. faulted \subseteq faulted' /\ faulted' \subseteq Req
  BY <1>a, FaultedGrows DEF BeginTx
<1>1. CASE Reply(r, 500) /\ UNCHANGED tx
  BY <1>a, <1>b, <1>c, <1>1, ReplyKeeps DEF Code, TypeOK
<1>2. CASE /\ pc' = [pc EXCEPT ![r] = "InsertTransaction"] /\ answer' = answer
           /\ tx' = [tx EXCEPT ![r] = "open"]
  <2>1. TypeOK'
    BY <1>a, <1>b, <1>c, <1>2 DEF TypeOK, PC, tables, others, history
  <2>2. RequestInv(r)'
    <3>1. Checked(r)'
      BY <1>a, <1>b, <1>2
      DEF TypeOK, RequestInv, Checked, InFlight, Creating, Inserting, Target,
          ForNobody, ForOther, ActiveIn, EnabledIn, others, history
    <3>2. wrote[r] = Empty
      BY <1>a DEF TypeOK, RequestInv, Buffered, Inserting
    <3>3. Buffered(r)'
      BY <1>a, <1>b, <1>2, <3>2 DEF TypeOK, RequestInv, Buffered, Inserting
    <3> QED
      BY <1>a, <1>b, <1>2, <3>1, <3>3 DEF TypeOK, RequestInv, Stored, tables
  <2>3. \A q \in Req \ {r} : tx'[q] = tx[q]
    BY <1>a, <1>2 DEF TypeOK
  <2> QED
    BY <1>a, <1>b, <1>c, <1>2, <2>1, <2>2, <2>3, MoveKeeps DEF PC
<1> QED
  BY <1>1, <1>2 DEF BeginTx, Goto


LEMMA InsertTransactionStep ==
    ASSUME CreationInv, NEW r \in Req, InsertTransaction(r) PROVE CreationInv'
<1>a. TypeOK /\ RequestInv(r) /\ InFlight(r) /\ pc[r] = "InsertTransaction"
  BY DEF CreationInv, InsertTransaction, InFlight
<1>b. UNCHANGED <<tables, call, ctx, snap, todo, listed, others, history>>
  BY DEF InsertTransaction
<1>c. faulted \subseteq faulted' /\ faulted' \subseteq Req
  BY <1>a, FaultedGrows DEF InsertTransaction
<1>1. CASE Reply(r, 500) /\ Rollback(r)
  BY <1>a, <1>b, <1>c, <1>1, ReplyKeeps DEF Code, TypeOK
<1>2. CASE /\ pc' = [pc EXCEPT ![r] = "InsertRuleResults"]
           /\ answer' = answer /\ tx' = tx
           /\ wrote' = [wrote EXCEPT ![r].transactions = @ \cup {NewRow(r)}]
  <2>1. wrote[r] = Empty /\ wrote \in [Req -> Buffer] /\ todo[r] = snap[r]
    BY <1>a DEF TypeOK, RequestInv, Buffered
  <2>2. NewRow(r) \in Row
    <3>1. call[r] \in Call /\ ~ForNobody(call[r])
      BY <1>a, CallsAssumption DEF RequestInv, Checked, Creating, Inserting
    <3> QED
      BY <3>1 DEF Call, ForNobody, Target, NewRow, Row
  <2>3. /\ wrote'[r] = [transactions |-> {NewRow(r)}, results |-> {}]
        /\ \A q \in Req \ {r} : wrote'[q] = wrote[q]
        /\ wrote' \in [Req -> Buffer]
    <3>1. /\ [wrote[r] EXCEPT !.transactions = @ \cup {NewRow(r)}]
                = [transactions |-> {NewRow(r)}, results |-> {}]
          /\ [transactions |-> {NewRow(r)}, results |-> {}] \in Buffer
      BY <2>1, <2>2 DEF Empty, Buffer
    <3>2. wrote' = [wrote EXCEPT ![r] = [transactions |-> {NewRow(r)}, results |-> {}]]
      BY <1>2, <3>1
    <3> QED
      BY <2>1, <3>1, <3>2
  <2>4. TypeOK'
    BY <1>a, <1>b, <1>c, <1>2, <2>3 DEF TypeOK, PC, tables, others, history
  <2>5. RequestInv(r)'
    <3>1. Checked(r)'
      BY <1>a, <1>b, <1>2
      DEF TypeOK, RequestInv, Checked, InFlight, Creating, Inserting, Target,
          ForNobody, ForOther, ActiveIn, EnabledIn, others, history
    <3>2. NewRow(r)' = NewRow(r)
      BY <1>b DEF NewRow, Target
    <3>3. tx[r] = "open"
      BY <1>a, <1>2, <2>1, <2>3 DEF TypeOK, InsertTransaction, TxSucceeds, TxFails,
                                    Cancelled, Fault, Rollback, Reply, Empty
    <3>4. Buffered(r)'
      BY <1>a, <1>b, <1>2, <2>1, <2>3, <3>2, <3>3
      DEF TypeOK, Buffered, Inserting
    <3> QED
      BY <1>a, <1>b, <1>2, <3>1, <3>4 DEF TypeOK, RequestInv, Stored, tables
  <2> QED
    BY <1>a, <1>b, <1>c, <1>2, <2>3, <2>4, <2>5, MoveKeeps DEF PC
<1> QED
  BY <1>1, <1>2 DEF InsertTransaction, Goto

LEMMA InsertRuleResultStep ==
    ASSUME CreationInv, NEW r \in Req, InsertRuleResult(r) PROVE CreationInv'
<1>a. TypeOK /\ RequestInv(r) /\ InFlight(r) /\ pc[r] = "InsertRuleResults"
  BY DEF CreationInv, InsertRuleResult, InFlight
<1>b. UNCHANGED <<tables, call, ctx, tx, snap, listed, others, history>>
  BY DEF InsertRuleResult
<1>c. faulted \subseteq faulted' /\ faulted' \subseteq Req
  BY <1>a, FaultedGrows DEF InsertRuleResult
<1>1. CASE Reply(r, 500) /\ UNCHANGED <<wrote, todo>>
  BY <1>a, <1>b, <1>c, <1>1, ReplyKeeps DEF Code, TypeOK
<1>2. ASSUME NEW rule \in todo[r], UNCHANGED <<pc, answer>>, tx[r] = "open",
             wrote' = [wrote EXCEPT ![r].results = @ \cup {NewResult(r, rule)}],
             todo' = [todo EXCEPT ![r] = @ \ {rule}]
      PROVE  CreationInv'
  <2>1. /\ wrote \in [Req -> Buffer] /\ rule \in RuleId
        /\ todo[r] \subseteq snap[r]
        /\ wrote[r].transactions = {NewRow(r)}
        /\ wrote[r].results = {NewResult(r, x) : x \in snap[r] \ todo[r]}
    BY <1>a, <1>2 DEF TypeOK, RequestInv, Buffered
  <2>2. NewResult(r, rule) \in Result
    BY <2>1 DEF NewResult, Result
  <2>3. /\ wrote'[r].transactions = wrote[r].transactions
        /\ wrote'[r].results = wrote[r].results \cup {NewResult(r, rule)}
        /\ \A q \in Req \ {r} : wrote'[q] = wrote[q]
        /\ wrote' \in [Req -> Buffer]
    BY <1>2, <2>1, <2>2 DEF Buffer
  <2>4. /\ todo'[r] = todo[r] \ {rule}
        /\ \A q \in Req \ {r} : todo'[q] = todo[q]
        /\ todo' \in [Req -> SUBSET RuleId]
    BY <1>a, <1>2 DEF TypeOK
  <2>5. TypeOK'
    BY <1>a, <1>b, <1>c, <1>2, <2>3, <2>4 DEF TypeOK, tables, others, history
  <2>6. RequestInv(r)'
    <3>1. Checked(r)'
      BY <1>a, <1>b, <1>2
      DEF RequestInv, Checked, InFlight, Target, ForNobody, ForOther, ActiveIn,
          EnabledIn, others, history
    <3>2. NewRow(r)' = NewRow(r)
      BY <1>b DEF NewRow, Target
    <3>3. wrote'[r].results = {NewResult(r, x) : x \in snap[r] \ todo'[r]}
      BY <1>2, <2>1, <2>3, <2>4 DEF NewResult
    <3>4. Buffered(r)'
      BY <1>a, <1>b, <1>2, <2>1, <2>3, <2>4, <3>2, <3>3
      DEF RequestInv, Buffered, Inserting, NewResult
    <3> QED
      BY <1>a, <1>b, <1>2, <3>1, <3>4 DEF RequestInv, Stored, tables
  <2>7. pc' = [pc EXCEPT ![r] = "InsertRuleResults"]
    BY <1>a, <1>2 DEF TypeOK
  <2> QED
    BY <1>a, <1>b, <1>c, <1>2, <2>3, <2>4, <2>5, <2>6, <2>7, MoveKeeps DEF PC
<1> QED
  BY <1>1, <1>2 DEF InsertRuleResult, TxSucceeds


LEMMA CommitStep ==
    ASSUME CreationInv, NEW r \in Req, Commit(r) PROVE CreationInv'
<1>a. /\ TypeOK /\ RequestInv(r) /\ LedgerInv /\ InFlight(r)
      /\ pc[r] = "InsertRuleResults" /\ todo[r] = {}
  BY DEF CreationInv, Commit, InFlight
<1>b. UNCHANGED <<call, ctx, snap, todo, listed, others, history>>
  BY DEF Commit
<1>c. faulted \subseteq faulted' /\ faulted' \subseteq Req
  BY <1>a, FaultedGrows DEF Commit
<1>d. Rollback(r)
  BY DEF Commit
<1>1. CASE Reply(r, 500) /\ UNCHANGED tables
  BY <1>a, <1>b, <1>c, <1>d, <1>1, ReplyKeeps DEF Code, TypeOK
<1>2. ASSUME NEW code \in {201, 500}, Reply(r, code), Publish(r), ctx[r] = "live",
             tx[r] = "open", code = 500 => r \in faulted'
      PROVE  CreationInv'
  <2>1. /\ wrote[r].transactions = {NewRow(r)}
        /\ wrote[r].results = {NewResult(r, rule) : rule \in snap[r]}
        /\ NewRow(r) \in Row /\ wrote[r] \in Buffer
    BY <1>a, <1>2 DEF TypeOK, RequestInv, Buffered, Buffer
  <2>2. /\ transactions' = transactions \cup {NewRow(r)}
        /\ results' = results \cup {NewResult(r, rule) : rule \in snap[r]}
    BY <1>2, <2>1 DEF Publish
  <2>3. /\ pc' = [pc EXCEPT ![r] = "answered"]
        /\ answer' = [answer EXCEPT ![r] = code]
        /\ tx' = [tx EXCEPT ![r] = "none"]
        /\ wrote' = [wrote EXCEPT ![r] = Empty]
    BY <1>2, <1>d DEF Reply, Rollback
  <2>4. TypeOK'
    <3>1. pc' \in [Req -> PC]
      BY <1>a, <2>3 DEF TypeOK, PC
    <3>2. answer' \in [Req -> Code]
      BY <1>a, <2>3 DEF TypeOK, Code
    <3>3. Empty \in Buffer
      BY DEF Empty, Buffer
    <3>4. wrote' \in [Req -> Buffer] /\ tx' \in [Req -> {"none", "open"}]
      BY <1>a, <2>3, <3>3 DEF TypeOK
    <3>5. transactions' \subseteq Row /\ results' \subseteq Result
      BY <1>a, <1>2, <2>1 DEF TypeOK, Publish, Buffer
    <3> QED
      BY <1>a, <1>b, <1>c, <3>1, <3>2, <3>4, <3>5 DEF TypeOK, others, history
  <2>5. \A q \in Req \ {r} : Untouched(q)
    BY <1>a, <1>b, <2>3 DEF TypeOK, Untouched, history
  <2>6. RequestInv(r)'
    <3>1. Stored(r)'
      <4>1. NewRow(r) \in transactions' /\ NewRow(r).id = r
        BY <2>2 DEF NewRow
      <4> QED
        BY <4>1 DEF Stored
    <3>2. pc'[r] = "answered" /\ tx'[r] = "none" /\ wrote'[r] = Empty
      BY <1>a, <2>3 DEF TypeOK
    <3>3. call'[r] \in Calls
      BY <1>a, <1>b DEF RequestInv, Checked, InFlight
    <3> QED
      BY <3>1, <3>2, <3>3 DEF RequestInv, Checked, Buffered, InFlight, Creating,
                              Inserting
  <2>7. ASSUME NEW t \in transactions PROVE SavedRow(t)'
    <3>1. SavedRow(t) /\ t.id \in Req \ {r}
      <4>1. SavedRow(t)
        BY <1>a DEF LedgerInv
      <4> QED
        BY <1>a, <4>1 DEF TypeOK, Row, SavedRow
    <3>2. Untouched(t.id)
      BY <2>5, <3>1
    <3>3. ResultsOf(t.id)' = ResultsOf(t.id)
      BY <2>2, <3>1 DEF ResultsOf, NewResult
    <3> QED
      BY <1>c, <3>1, <3>2, <3>3 DEF SavedRow, Untouched, NewRow, NewResult, Target,
                                    ForNobody, ForOther
  <2>8. SavedRow(NewRow(r))'
    <3>1. ~\E x \in results : x.txn = r
      BY <1>a DEF LedgerInv, SavedRow, Stored
    <3>2. ResultsOf(r)' = {NewResult(r, rule) : rule \in snap[r]}
      BY <2>2, <3>1 DEF ResultsOf, NewResult
    <3>3. /\ NewRow(r).id = r /\ NewRow(r)' = NewRow(r)
          /\ pc'[r] = "answered" /\ answer'[r] = code
      BY <1>a, <1>b, <2>3 DEF TypeOK, NewRow, Target
    <3> QED
      BY <1>a, <1>b, <1>2, <3>2, <3>3
      DEF RequestInv, Checked, InFlight, Creating, Inserting, SavedRow, NewRow,
          NewResult, Target, ForNobody, ForOther, history
  <2>9. LedgerInv'
    <3>1. NewRow(r)' = NewRow(r) /\ NewRow(r).id = r
      BY <1>b DEF NewRow, Target
    <3>2. \A t \in transactions' : SavedRow(t)'
      BY <2>2, <2>7, <2>8, <3>1
    <3>3. \A x \in results' : \E t \in transactions' : t.id = x.txn
      BY <1>a, <2>2, <3>1 DEF LedgerInv, Stored, NewResult
    <3>4. IsFiniteSet(transactions')
      BY <1>a, <2>2, FS_AddElement DEF LedgerInv
    <3> QED
      BY <3>2, <3>3, <3>4 DEF LedgerInv, Stored
  <2> QED
    BY <1>a, <1>b, <2>2, <2>4, <2>5, <2>6, <2>9, OthersFrame DEF CreationInv, others
<1>3. CASE ctx[r] = "live" /\ tx[r] = "none" /\ Publish(r) /\ Reply(r, 500)
  <2>1. wrote[r] = Empty
    BY <1>a, <1>3 DEF RequestInv, Buffered
  <2>2. UNCHANGED tables
    BY <1>3, <2>1 DEF Publish, Empty, tables
  <2> QED
    BY <1>1, <1>3, <2>2
<1> QED
  BY <1>a, <1>1, <1>2, <1>3 DEF Commit, TxSucceeds, Fault, TypeOK


LEMMA GetTransactionsStep ==
    ASSUME CreationInv, NEW r \in Req, GetTransactions(r) PROVE CreationInv'
<1>a. TypeOK /\ RequestInv(r) /\ InFlight(r) /\ pc[r] = "route"
  BY DEF CreationInv, GetTransactions, InFlight
<1>b. UNCHANGED <<tables, call, ctx, tx, wrote, snap, todo, others, history>>
  BY DEF GetTransactions
<1>c. faulted \subseteq faulted' /\ faulted' \subseteq Req
  BY <1>a, FaultedGrows DEF GetTransactions, TypeOK
<1>1. CASE UNCHANGED listed /\ \E code \in {400, 500} : Reply(r, code)
  BY <1>a, <1>b, <1>c, <1>1, ReplyKeeps DEF Code, TypeOK
<1>2. CASE /\ pc' = [pc EXCEPT ![r] = "ListQuery"] /\ answer' = answer
           /\ listed' = [listed EXCEPT ![r].total = Cardinality(Matching(r))]
  <2>1. listed' \in [Req -> [total : Nat, items : SUBSET Row]]
    <3>1. Cardinality(Matching(r)) \in Nat
      <4>1. IsFiniteSet(Matching(r))
        BY FS_Subset DEF CreationInv, LedgerInv, Matching
      <4> QED
        BY <4>1, FS_CardinalityType
    <3> QED
      BY <1>a, <1>2, <3>1 DEF TypeOK
  <2>2. TypeOK'
    BY <1>a, <1>b, <1>c, <1>2, <2>1 DEF TypeOK, PC, tables, others, history
  <2>3. RequestInv(r)'
    <3>1. Checked(r)'
      BY <1>a, <1>b, <1>2
      DEF TypeOK, RequestInv, Checked, InFlight, Creating, Inserting, ActiveIn,
          EnabledIn, others, history
    <3>2. Buffered(r)'
      BY <1>a, <1>b, <1>2 DEF TypeOK, RequestInv, Buffered, Inserting
    <3> QED
      BY <1>a, <1>b, <1>2, <3>1, <3>2 DEF TypeOK, RequestInv, Stored, tables
  <2> QED
    BY <1>a, <1>b, <1>c, <1>2, <2>2, <2>3, MoveKeeps DEF PC
<1> QED
  BY <1>1, <1>2 DEF GetTransactions, Goto

LEMMA ListQueryStep ==
    ASSUME CreationInv, NEW r \in Req, ListQuery(r) PROVE CreationInv'
<1>a. TypeOK /\ InFlight(r)
  BY DEF CreationInv, ListQuery, InFlight
<1>b. UNCHANGED <<tables, call, ctx, tx, wrote, snap, todo, others, history>>
  BY DEF ListQuery
<1>c. faulted \subseteq faulted' /\ faulted' \subseteq Req
  BY <1>a, FaultedGrows DEF ListQuery
<1>1. listed' \in [Req -> [total : Nat, items : SUBSET Row]]
  <2>1. ASSUME NEW part \in SUBSET Matching(r),
               listed' = [listed EXCEPT ![r].items = part]
        PROVE  listed' \in [Req -> [total : Nat, items : SUBSET Row]]
    BY <1>a, <2>1 DEF TypeOK, Matching
  <2>2. CASE listed' = [listed EXCEPT ![r].items = Matching(r)]
    BY <2>1, <2>2
  <2>3. CASE listed' = listed
    BY <1>a, <2>3 DEF TypeOK
  <2>4. CASE \E part \in SUBSET Matching(r) :
                listed' = [listed EXCEPT ![r].items = part]
    BY <2>1, <2>4
  <2> QED
    BY <2>2, <2>3, <2>4 DEF ListQuery
<1>2. \E code \in {200, 500} : Reply(r, code)
  BY DEF ListQuery
<1> QED
  BY <1>a, <1>b, <1>c, <1>1, <1>2, ReplyKeeps DEF Code

LEMMA GetTransactionStep ==
    ASSUME CreationInv, NEW r \in Req, GetTransaction(r) PROVE CreationInv'
<1>a. TypeOK /\ InFlight(r)
  BY DEF CreationInv, GetTransaction, InFlight
<1>b. UNCHANGED <<tables, request, others, history>>
  BY DEF GetTransaction
<1>c. faulted \subseteq faulted' /\ faulted' \subseteq Req
  BY <1>a, FaultedGrows DEF GetTransaction, ReadById, TypeOK
<1>1. \E code \in {400, 500} : Reply(r, code)
  BY DEF GetTransaction
<1> QED
  BY <1>a, <1>b, <1>c, <1>1, ReplyKeeps DEF Code, TypeOK, request

LEMMA FinishStep ==
    ASSUME CreationInv, NEW r \in Req, Finish(r) PROVE CreationInv'
<1>a. TypeOK /\ RequestInv(r) /\ LedgerInv /\ pc[r] = "answered"
  BY DEF CreationInv, Finish, Goto
<1>b. /\ pc' = [pc EXCEPT ![r] = "closed"] /\ ctx' = [ctx EXCEPT ![r] = "done"]
      /\ UNCHANGED <<tables, answer, call, tx, wrote, snap, todo, listed, faulted,
                     others, history>>
  BY DEF Finish, Goto
<1>1. TypeOK'
  BY <1>a, <1>b DEF TypeOK, PC, tables, others, history
<1>2. \A q \in Req \ {r} : Untouched(q)
  BY <1>a, <1>b DEF TypeOK, Untouched, history
<1>3. RequestInv(r)'
  <2>1. Checked(r)'
    BY <1>a, <1>b DEF TypeOK, RequestInv, Checked, InFlight, Creating, Inserting
  <2>2. Buffered(r)'
    BY <1>a, <1>b DEF TypeOK, RequestInv, Buffered, Inserting
  <2> QED
    BY <1>a, <1>b, <2>1, <2>2 DEF TypeOK, RequestInv, Stored, tables
<1>4. ASSUME NEW t \in transactions PROVE SavedRow(t)'
  <2>1. SavedRow(t) /\ t.id \in Req
    BY <1>a DEF LedgerInv, TypeOK, Row
  <2>2. pc'[t.id] \in {"answered", "closed"}
    BY <1>a, <1>b, <2>1 DEF TypeOK, SavedRow
  <2>3. ResultsOf(t.id)' = ResultsOf(t.id)
    BY <1>b DEF ResultsOf, tables
  <2> QED
    BY <1>b, <2>1, <2>2, <2>3
    DEF SavedRow, NewRow, NewResult, Target, ForNobody, ForOther, history
<1>5. LedgerInv'
  BY <1>a, <1>b, <1>4 DEF LedgerInv, Stored, tables
<1> QED
  BY <1>1, <1>2, <1>3, <1>5, <1>b, OthersFrame DEF CreationInv, tables, others

LEMMA DisconnectStep ==
    ASSUME CreationInv, NEW r \in Req, Disconnect(r) PROVE CreationInv'
<1>a. TypeOK /\ (\A q \in Req : RequestInv(q)) /\ InFlight(r)
  BY DEF CreationInv, Disconnect
<1>b. /\ ctx' = [ctx EXCEPT ![r] = "done"]
      /\ UNCHANGED <<tables, pc, answer, call, tx, wrote, snap, todo, listed,
                     faulted, others, history>>
  BY DEF Disconnect
<1>1. TypeOK'
  BY <1>a, <1>b DEF TypeOK, tables, others, history
<1>2. \A q \in Req : Untouched(q)
  BY <1>b DEF Untouched, history
<1>3. LedgerInv'
  BY <1>a, <1>b, <1>2, LedgerFrame DEF CreationInv, InFlight
<1> QED
  BY <1>1, <1>2, <1>3, <1>a, <1>b, OthersFrame DEF CreationInv, tables, others

LEMMA AwaitDoneStep ==
    ASSUME CreationInv, NEW r \in Req, AwaitDone(r) PROVE CreationInv'
<1>a. TypeOK /\ RequestInv(r) /\ LedgerInv /\ tx[r] = "open"
  BY DEF CreationInv, AwaitDone
<1>b. /\ tx' = [tx EXCEPT ![r] = "none"] /\ wrote' = [wrote EXCEPT ![r] = Empty]
      /\ UNCHANGED <<tables, pc, answer, call, ctx, snap, todo, listed, faulted,
                     others, history>>
  BY DEF AwaitDone, Rollback
<1>1. TypeOK'
  <2>1. Empty \in Buffer
    BY DEF Empty, Buffer
  <2> QED
    BY <1>a, <1>b, <2>1 DEF TypeOK, tables, others, history
<1>2. \A q \in Req \ {r} : Untouched(q)
  BY <1>a, <1>b DEF TypeOK, Untouched, history
<1>3. RequestInv(r)'
  <2>1. Checked(r)'
    BY <1>a, <1>b DEF RequestInv, Checked, InFlight, ForNobody, ForOther, Target,
                      ActiveIn, EnabledIn, others, history
  <2>2. tx'[r] = "none" /\ wrote'[r] = Empty
    BY <1>a, <1>b DEF TypeOK
  <2>3. Buffered(r)'
    BY <1>a, <1>b, <2>2 DEF RequestInv, Buffered
  <2> QED
    BY <1>a, <1>b, <2>1, <2>3 DEF RequestInv, Stored, tables
<1>4. ASSUME NEW t \in transactions PROVE SavedRow(t)'
  <2>1. SavedRow(t)
    BY <1>a DEF LedgerInv
  <2>2. ResultsOf(t.id)' = ResultsOf(t.id)
    BY <1>b DEF ResultsOf, tables
  <2> QED
    BY <1>b, <2>1, <2>2
    DEF SavedRow, NewRow, NewResult, Target, ForNobody, ForOther, history
<1>5. LedgerInv'
  BY <1>a, <1>b, <1>4 DEF LedgerInv, Stored, tables
<1> QED
  BY <1>1, <1>2, <1>3, <1>5, <1>b, OthersFrame DEF CreationInv, tables, others


LEMMA CrashStep ==
    ASSUME CreationInv, Crash PROVE CreationInv'
<1>a. TypeOK /\ (\A r \in Req : RequestInv(r)) /\ LedgerInv
  BY DEF CreationInv
<1>b. UNCHANGED <<users, rules, tables, answer, call, snap, todo, listed,
                  faulted, writes, history>>
  BY DEF Crash
<1>c. ASSUME NEW r \in Req
      PROVE  /\ InFlight(r) => pc'[r] = "lost"
             /\ ~InFlight(r) => pc'[r] = IF pc[r] = "answered" THEN "closed" ELSE pc[r]
             /\ tx'[r] = "none" /\ wrote'[r] = Empty
  BY DEF Crash
<1>1. TypeOK'
  <2>1. pc' \in [Req -> PC]
    BY <1>a DEF TypeOK, Crash, PC
  <2>2. ctx' \in [Req -> {"live", "done"}] /\ tx' \in [Req -> {"none", "open"}]
    BY <1>a DEF TypeOK, Crash
  <2>3. wrote' \in [Req -> Buffer]
    BY DEF Crash, Empty, Buffer
  <2>4. crashes' \in 0..MaxCrashes
    BY <1>a, BoundsAssumption DEF TypeOK, Crash
  <2> QED
    BY <1>a, <1>b, <2>1, <2>2, <2>3, <2>4 DEF TypeOK, tables, history
<1>2. ASSUME NEW r \in Req PROVE RequestInv(r)'
  <2>1. RequestInv(r)
    BY <1>a
  <2>2. Checked(r)'
    BY <1>b, <1>c, <2>1
    DEF RequestInv, Checked, InFlight, Creating, Inserting
  <2>3. Buffered(r)'
    BY <1>b, <1>c, <2>1 DEF RequestInv, Buffered, Inserting, InFlight
  <2> QED
    BY <1>b, <1>c, <2>1, <2>2, <2>3 DEF RequestInv, Stored, InFlight, tables
<1>3. ASSUME NEW t \in transactions PROVE SavedRow(t)'
  <2>1. SavedRow(t)
    BY <1>a DEF LedgerInv
  <2>2. t.id \in Req
    BY <1>a DEF TypeOK, Row
  <2>3. pc'[t.id] \in {"answered", "closed"}
    BY <1>c, <2>1, <2>2 DEF SavedRow, InFlight
  <2>4. ResultsOf(t.id)' = ResultsOf(t.id)
    BY <1>b DEF ResultsOf, tables
  <2> QED
    BY <1>b, <2>1, <2>3, <2>4
    DEF SavedRow, NewRow, NewResult, Target, ForNobody, ForOther, history
<1>4. LedgerInv'
  BY <1>a, <1>b, <1>3 DEF LedgerInv, Stored, tables
<1> QED
  BY <1>1, <1>2, <1>4 DEF CreationInv

\* Other endpoints change users and rules, and with them what the requests in
\* flight have seen; what a request has seen is only ever added to.
LEMMA WrittenKeeps ==
    ASSUME CreationInv, TypeOK', UNCHANGED <<tables, pc, answer, request, faulted>>,
           \A r \in Req :
              /\ activeSeen[r] \subseteq activeSeen'[r] /\ seen[r] \subseteq seen'[r]
              /\ InFlight(r) => /\ ActiveIn(users') \subseteq activeSeen'[r]
                                /\ EnabledIn(rules') \in seen'[r]
    PROVE  CreationInv'
<1>a. TypeOK /\ (\A r \in Req : RequestInv(r)) /\ LedgerInv
  BY DEF CreationInv
<1>b. UNCHANGED <<transactions, results, pc, answer, call, tx, wrote, snap, todo>>
  BY DEF tables, request
<1>1. ASSUME NEW r \in Req PROVE RequestInv(r)'
  <2>1. Checked(r)'
    BY <1>a, <1>b DEF RequestInv, Checked, InFlight, ForNobody, ForOther, Target,
                      ActiveIn, EnabledIn
  <2>2. Buffered(r)'
    BY <1>a, <1>b DEF RequestInv, Buffered, NewRow, NewResult, Target
  <2> QED
    BY <1>a, <1>b, <2>1, <2>2 DEF RequestInv, Stored
<1>2. ASSUME NEW t \in transactions PROVE SavedRow(t)'
  <2>1. SavedRow(t)
    BY <1>a DEF LedgerInv
  <2>2. t.id \in Req
    BY <1>a DEF TypeOK, Row
  <2>3. ResultsOf(t.id)' = ResultsOf(t.id)
    BY <1>b DEF ResultsOf
  <2> QED
    BY <1>b, <2>1, <2>2, <2>3
    DEF SavedRow, NewRow, NewResult, Target, ForNobody, ForOther
<1> QED
  BY <1>a, <1>b, <1>1, <1>2 DEF CreationInv, LedgerInv, Stored

LEMMA UserWrittenStep ==
    ASSUME CreationInv, NEW u \in UserId, NEW s \in {"active", "inactive"},
           UserWritten(u, s)
    PROVE  CreationInv'
<1>a. TypeOK /\ (\A r \in Req : RequestInv(r))
  BY DEF CreationInv
<1>1. TypeOK'
  <2>1. users' \in [UserId -> {"absent", "active", "inactive"}]
    BY <1>a DEF TypeOK, UserWritten
  <2>2. activeSeen' \in [Req -> SUBSET UserId]
    BY <1>a DEF TypeOK, UserWritten, ActiveIn
  <2>3. writes' \in 0..MaxWrites
    BY <1>a, BoundsAssumption DEF TypeOK, UserWritten
  <2> QED
    BY <1>a, <2>1, <2>2, <2>3 DEF TypeOK, UserWritten, tables, request
<1>2. ASSUME NEW r \in Req
      PROVE  /\ activeSeen[r] \subseteq activeSeen'[r]
             /\ seen'[r] = seen[r] /\ rules' = rules
             /\ InFlight(r) => ActiveIn(users') \subseteq activeSeen'[r]
  BY DEF UserWritten
<1>3. UNCHANGED <<tables, pc, answer, request, faulted>>
  BY DEF UserWritten
<1> QED
  BY <1>a, <1>1, <1>2, <1>3, WrittenKeeps DEF RequestInv, Checked

LEMMA RuleWrittenStep ==
    ASSUME CreationInv, NEW x \in RuleId, NEW s \in {"enabled", "disabled"},
           RuleWritten(x, s)
    PROVE  CreationInv'
<1>a. TypeOK /\ (\A r \in Req : RequestInv(r))
  BY DEF CreationInv
<1>1. TypeOK'
  <2>1. rules' \in [RuleId -> {"absent", "enabled", "disabled"}]
    BY <1>a DEF TypeOK, RuleWritten
  <2>2. seen' \in [Req -> SUBSET SUBSET RuleId]
    BY <1>a DEF TypeOK, RuleWritten, EnabledIn
  <2>3. writes' \in 0..MaxWrites
    BY <1>a, BoundsAssumption DEF TypeOK, RuleWritten
  <2> QED
    BY <1>a, <2>1, <2>2, <2>3 DEF TypeOK, RuleWritten, tables, request
<1>2. ASSUME NEW r \in Req
      PROVE  /\ seen[r] \subseteq seen'[r]
             /\ activeSeen'[r] = activeSeen[r] /\ users' = users
             /\ InFlight(r) => EnabledIn(rules') \in seen'[r]
  BY DEF RuleWritten
<1>3. UNCHANGED <<tables, pc, answer, request, faulted>>
  BY DEF RuleWritten
<1> QED
  BY <1>a, <1>1, <1>2, <1>3, WrittenKeeps DEF RequestInv, Checked

\* The initial states satisfy the inductive invariant.
LEMMA InitCreationInv == Init => CreationInv
<1> SUFFICES ASSUME Init PROVE CreationInv
  OBVIOUS
<1>1. TypeOK
  BY BoundsAssumption DEF Init, TypeOK, PC, Code, Empty, Buffer
<1>2. ASSUME NEW r \in Req PROVE RequestInv(r)
  BY DEF Init, RequestInv, Checked, Buffered, InFlight, Creating, Inserting
<1>3. LedgerInv
  BY FS_EmptySet DEF Init, LedgerInv
<1> QED
  BY <1>1, <1>2, <1>3 DEF CreationInv

\* Every step preserves it.
LEMMA NextCreationInv == CreationInv /\ [Next]_vars => CreationInv'
<1> SUFFICES ASSUME CreationInv, [Next]_vars PROVE CreationInv'
  OBVIOUS
<1>1. ASSUME NEW r \in Req,
             Arrive(r) \/ Handler(r) \/ Finish(r) \/ Disconnect(r) \/ AwaitDone(r)
      PROVE  CreationInv'
  BY <1>1, ArriveStep, ProvTokenStep, CreateTransactionStep, GetTargetUserStep,
     GetAllActiveStep, BeginTxStep, InsertTransactionStep, InsertRuleResultStep,
     CommitStep, GetTransactionsStep, ListQueryStep, GetTransactionStep,
     FinishStep, DisconnectStep, AwaitDoneStep DEF Handler
<1>2. CASE Environment
  BY <1>2, CrashStep, UserWrittenStep, RuleWrittenStep DEF Environment
<1>3. CASE UNCHANGED vars
  <2>1. TypeOK'
    BY <1>3 DEF vars, CreationInv, TypeOK
  <2>2. UNCHANGED <<tables, pc, answer, request, faulted, users, rules, history>>
    BY <1>3 DEF vars, tables, request, history
  <2> QED
    BY <2>1, <2>2, WrittenKeeps DEF CreationInv, RequestInv, Checked, history
<1> QED
  BY <1>1, <1>2, <1>3 DEF Next

\* What creations rest on holds of every reachable state.
LEMMA CreationAlways == Spec => []CreationInv
<1>1. Init => CreationInv
  BY InitCreationInv
<1>2. CreationInv /\ [Next]_vars => CreationInv'
  BY NextCreationInv
<1> QED
  BY <1>1, <1>2, PTL DEF Spec

-----------------------------------------------------------------------------
(***************************************************************************)
(* What follows from the inductive invariant.                              *)
(***************************************************************************)

\* The variables stay within their types, so the tables never hold a row that
\* their constraints refuse.
THEOREM TypeCorrect == Spec => []TypeOK
<1>1. CreationInv => TypeOK
  BY DEF CreationInv
<1> QED
  BY <1>1, CreationAlways, PTL

\* CreateWithResults is all or nothing, whatever fails on the way.
THEOREM AllOrNothing == Spec => []SavedWhole
<1>1. CreationInv => SavedWhole
  BY DEF CreationInv, LedgerInv, SavedRow, SavedWhole
<1> QED
  BY <1>1, CreationAlways, PTL

\* The rules recorded with a transaction were all in force at one instant of
\* the request, although they are read before its database transaction opens.
THEOREM OneInstant == Spec => []RulesOfOneInstant
<1>1. ASSUME CreationInv, NEW t \in transactions
      PROVE  {x.rule : x \in ResultsOf(t.id)} \in seen[t.id]
  <2>1. SavedRow(t)
    BY <1>1 DEF CreationInv, LedgerInv
  <2>2. {x.rule : x \in ResultsOf(t.id)} = snap[t.id]
    <3>1. \A x \in ResultsOf(t.id) : x.rule \in snap[t.id]
      BY <2>1 DEF SavedRow, NewResult
    <3>2. ASSUME NEW rule \in snap[t.id] PROVE \E x \in ResultsOf(t.id) : rule = x.rule
      <4>1. NewResult(t.id, rule) \in ResultsOf(t.id)
        BY <2>1 DEF SavedRow
      <4>2. NewResult(t.id, rule).rule = rule
        BY DEF NewResult
      <4> QED
        BY <4>1, <4>2
    <3> QED
      BY <3>1, <3>2
  <2> QED
    BY <2>1, <2>2 DEF SavedRow
<1>2. CreationInv => RulesOfOneInstant
  BY <1>1 DEF RulesOfOneInstant
<1> QED
  BY <1>2, CreationAlways, PTL

\* A client may believe what it is told about its transaction.
THEOREM TruthfulAnswers == Spec => []AnswerMatchesStore
<1>1. ASSUME CreationInv, NEW r \in Req, Stored(r)
      PROVE  answer[r] = 201 \/ (answer[r] = 500 /\ r \in faulted)
  BY <1>1 DEF CreationInv, LedgerInv, SavedRow, Stored
<1>2. CreationInv => AnswerMatchesStore
  BY <1>1 DEF CreationInv, RequestInv, AnswerMatchesStore
<1> QED
  BY <1>2, CreationAlways, PTL

\* Nobody but an ADMIN saves a transaction for somebody else.
THEOREM OwnTransactions == Spec => []SavedForWhomItMay
<1>1. ASSUME CreationInv, NEW t \in transactions
      PROVE  LET c == call[t.id] IN
             IF c.role = "USER"
             THEN t.user = c.caller /\ c.userId \in {NoUser, c.caller}
             ELSE t.user = c.userId
  <2>1. SavedRow(t) /\ call[t.id] \in Call
    BY <1>1, CallsAssumption DEF CreationInv, LedgerInv, SavedRow
  <2>2. t.user = Target(call[t.id])
    BY <2>1 DEF SavedRow, NewRow
  <2> QED
    BY <2>1, <2>2 DEF SavedRow, Target, ForOther, Call, Role
<1>2. CreationInv => SavedForWhomItMay
  BY <1>1 DEF SavedForWhomItMay
<1> QED
  BY <1>2, CreationAlways, PTL

\* Caller and owner of a saved transaction were active during the request,
\* although nothing keeps them active until it commits.
THEOREM ActiveOwners == Spec => []CheckedActive
<1>1. CreationInv => CheckedActive
  BY DEF CreationInv, LedgerInv, SavedRow, CheckedActive, NewRow
<1> QED
  BY <1>1, CreationAlways, PTL

\* Only Commit writes the tables.
LEMMA TablesOnlyByCommit ==
    ASSUME [Next]_vars, ~\E r \in Req : Commit(r) PROVE UNCHANGED tables
<1>1. ASSUME NEW r \in Req, Handler(r) PROVE UNCHANGED tables
  BY <1>1 DEF Handler, ProvToken, CreateTransaction, GetTargetUser, GetAllActive,
     BeginTx, InsertTransaction, InsertRuleResult, GetTransactions, ListQuery,
     GetTransaction
<1>2. ASSUME NEW r \in Req, Arrive(r) \/ Finish(r) \/ Disconnect(r) \/ AwaitDone(r)
      PROVE  UNCHANGED tables
  BY <1>2 DEF Arrive, Finish, Disconnect, AwaitDone
<1>3. CASE Environment
  BY <1>3 DEF Environment, UserWritten, RuleWritten, Crash
<1>4. CASE UNCHANGED vars
  BY <1>4 DEF vars, tables
<1> QED
  BY <1>1, <1>2, <1>3, <1>4 DEF Next

\* Rows are only ever added, and a transaction appears with all its results.
LEMMA CreationAppends ==
    ASSUME CreationInv, [Next]_vars PROVE AppendOnlyStep
<1>1. ASSUME NEW r \in Req, Commit(r) PROVE AppendOnlyStep
  <2>1. ~Stored(r)
    BY <1>1 DEF CreationInv, LedgerInv, SavedRow, Stored, Commit
  <2>2. \A x \in wrote[r].results : x.txn = r
    BY <1>1 DEF CreationInv, TypeOK, RequestInv, Buffered, NewResult, Empty, Commit
  <2>3. UNCHANGED tables \/ Publish(r)
    BY <1>1 DEF Commit
  <2> QED
    BY <2>1, <2>2, <2>3 DEF AppendOnlyStep, Publish, tables
<1> QED
  BY <1>1, TablesOnlyByCommit DEF AppendOnlyStep, tables

\* The ledger is append-only, whatever the interleaving.
THEOREM LedgerAppendOnly == Spec => AppendOnly
<1>1. CreationInv /\ [Next]_vars => [AppendOnlyStep]_vars
  BY CreationAppends
<1> QED
  BY <1>1, CreationAlways, PTL DEF Spec, AppendOnly

-----------------------------------------------------------------------------
(***************************************************************************)
(* Listings.                                                               *)
(***************************************************************************)
\* A step that does not take the listing of q any further.
Quiet(q) ==
    /\ UNCHANGED <<listed[q], before[q], call[q]>>
    /\ pc'[q] = "ListQuery" => pc[q] = "ListQuery"
    /\ answer'[q] = 200 => answer[q] = 200
    /\ answer'[q] = 200 /\ pc'[q] = "answered" /\ ctx'[q] = "live" =>
          pc[q] = "answered" /\ ctx[q] = "live"

\* Rows that appear only bring the count of the matching rows further up.
LEMMA QuietKeeps ==
    ASSUME NEW q \in Req, ListingInv(q), Quiet(q), IsFiniteSet(transactions),
           IsFiniteSet(transactions'), transactions \subseteq transactions',
           faulted \subseteq faulted', listed[q].total \in Nat
    PROVE  ListingInv(q)'
<1>1. MineBefore(q)' = MineBefore(q) /\ listed'[q] = listed[q]
  BY DEF Quiet, MineBefore, ListTarget
<1>2. Matching(q) \subseteq Matching(q)'
  BY DEF Quiet, Matching, ListTarget
<1>3. Cardinality(Matching(q)) <= Cardinality(Matching(q)')
      /\ Cardinality(Matching(q)) \in Nat /\ Cardinality(Matching(q)') \in Nat
  <2>1. IsFiniteSet(Matching(q)')
    BY FS_Subset DEF Matching
  <2> QED
    BY <1>2, <2>1, FS_Subset, FS_CardinalityType
<1>4. before'[q] \subseteq transactions'
  BY DEF ListingInv, Quiet
<1>5. pc'[q] = "ListQuery" =>
          /\ Cardinality(MineBefore(q)') <= listed'[q].total
          /\ listed'[q].total <= Cardinality(Matching(q)')
  BY <1>1, <1>3 DEF ListingInv, Quiet
<1>6. answer'[q] = 200 => listed'[q].items \subseteq Matching(q)'
  BY <1>1, <1>2 DEF ListingInv, Quiet
<1>7. answer'[q] = 200 /\ pc'[q] = "answered" /\ ctx'[q] = "live"
      /\ q \notin faulted' =>
          /\ MineBefore(q)' \subseteq listed'[q].items
          /\ Cardinality(MineBefore(q)') <= listed'[q].total
          /\ listed'[q].total <= Cardinality(listed'[q].items)
  BY <1>1 DEF ListingInv, Quiet
<1> QED
  BY <1>4, <1>5, <1>6, <1>7 DEF ListingInv

\* A handler's step says nothing about the listing of any other request.
LEMMA OthersQuiet ==
    ASSUME TypeOK, NEW r \in Req, Handler(r), NEW q \in Req \ {r}
    PROVE  Quiet(q)
<1>1. \/ pc' = pc
      \/ \E to : pc' = [pc EXCEPT ![r] = to]
  BY DEF Handler, ProvToken, CreateTransaction, GetTargetUser, GetAllActive,
     BeginTx, InsertTransaction, InsertRuleResult, Commit, GetTransactions,
     ListQuery, GetTransaction, Reply, Goto
<1>2. answer' = answer \/ \E code : answer' = [answer EXCEPT ![r] = code]
  BY DEF Handler, ProvToken, CreateTransaction, GetTargetUser, GetAllActive,
     BeginTx, InsertTransaction, InsertRuleResult, Commit, GetTransactions,
     ListQuery, GetTransaction, Reply
<1>3. UNCHANGED <<call, ctx, before>>
  BY DEF Handler, ProvToken, CreateTransaction, GetTargetUser, GetAllActive,
     BeginTx, InsertTransaction, InsertRuleResult, Commit, GetTransactions,
     ListQuery, GetTransaction, request, history
<1>4. \/ listed' = listed
      \/ \E t : listed' = [listed EXCEPT ![r] = t]
  <2>1. CASE GetTransactions(r) \/ ListQuery(r)
    BY <2>1 DEF GetTransactions, ListQuery, request
  <2>2. CASE ~(GetTransactions(r) \/ ListQuery(r))
    BY <2>2 DEF Handler, ProvToken, CreateTransaction, GetTargetUser, GetAllActive,
       BeginTx, InsertTransaction, InsertRuleResult, Commit, GetTransaction, request
  <2> QED
    BY <2>1, <2>2
<1> QED
  BY <1>1, <1>2, <1>3, <1>4 DEF Quiet, TypeOK

\* Only the two statements of a listing take it further.
LEMMA CreatorQuiet ==
    ASSUME TypeOK, NEW r \in Req, RequestInv(r), Handler(r),
           ~GetTransactions(r), ~ListQuery(r)
    PROVE  Quiet(r)
<1>1. UNCHANGED <<call, ctx, before, listed>>
  BY DEF Handler, ProvToken, CreateTransaction, GetTargetUser, GetAllActive,
     BeginTx, InsertTransaction, InsertRuleResult, Commit, GetTransaction,
     request, history
<1>2. \/ pc' = pc /\ pc[r] = "InsertRuleResults" /\ answer' = answer
      \/ /\ \E to \in PC \ {"ListQuery", "answered"} : pc' = [pc EXCEPT ![r] = to]
         /\ answer' = answer
      \/ \E code \in Code \ {200} : Reply(r, code)
  BY DEF Handler, ProvToken, CreateTransaction, GetTargetUser, GetAllActive,
     BeginTx, InsertTransaction, InsertRuleResult, Commit, GetTransaction, Goto,
     PC, Code
<1> QED
  BY <1>1, <1>2 DEF Quiet, TypeOK, Reply

LEMMA GetTransactionsListing ==
    ASSUME CreationInv, NEW r \in Req, ListingInv(r), GetTransactions(r)
    PROVE  ListingInv(r)'
<1>a. TypeOK /\ answer[r] = 0 /\ pc[r] = "route" /\ IsFiniteSet(transactions)
  BY DEF CreationInv, RequestInv, GetTransactions, LedgerInv
<1>b. UNCHANGED <<transactions, call, before>>
  BY DEF GetTransactions, tables, history
<1>1. CASE UNCHANGED listed /\ \E code \in {400, 500} : Reply(r, code)
  <2>1. answer'[r] # 200 /\ pc'[r] # "ListQuery"
    BY <1>a, <1>1 DEF TypeOK, Reply
  <2> QED
    BY <1>b, <2>1 DEF ListingInv
<1>2. CASE /\ pc' = [pc EXCEPT ![r] = "ListQuery"] /\ answer' = answer
           /\ listed' = [listed EXCEPT ![r].total = Cardinality(Matching(r))]
  <2>1. MineBefore(r)' = MineBefore(r) /\ Matching(r)' = Matching(r)
    BY <1>b DEF MineBefore, Matching, ListTarget
  <2>2. listed'[r].total = Cardinality(Matching(r))
    BY <1>a, <1>2 DEF TypeOK
  <2>3. MineBefore(r) \subseteq Matching(r)
    BY DEF ListingInv, MineBefore, Matching
  <2>4. Cardinality(MineBefore(r)) <= Cardinality(Matching(r))
        /\ Cardinality(Matching(r)) \in Nat
    <3>1. IsFiniteSet(Matching(r))
      BY <1>a, FS_Subset DEF Matching
    <3> QED
      BY <2>3, <3>1, FS_Subset, FS_CardinalityType
  <2> QED
    BY <1>a, <1>b, <1>2, <2>1, <2>2, <2>4 DEF ListingInv, TypeOK
<1> QED
  BY <1>1, <1>2 DEF GetTransactions, Goto

LEMMA ListQueryListing ==
    ASSUME CreationInv, NEW r \in Req, ListingInv(r), ListQuery(r)
    PROVE  ListingInv(r)'
<1>a. TypeOK /\ pc[r] = "ListQuery" /\ IsFiniteSet(transactions)
  BY DEF CreationInv, ListQuery, LedgerInv
<1>b. UNCHANGED <<transactions, call, before, ctx>>
  BY DEF ListQuery, tables, history
<1>c. MineBefore(r)' = MineBefore(r) /\ Matching(r)' = Matching(r)
  BY <1>b DEF MineBefore, Matching, ListTarget
<1>1. CASE /\ listed' = [listed EXCEPT ![r].items = Matching(r)]
           /\ Reply(r, 200)
  <2>1. listed'[r].items = Matching(r) /\ listed'[r].total = listed[r].total
    BY <1>a, <1>1 DEF TypeOK
  <2>2. pc'[r] = "answered"
    BY <1>a, <1>1 DEF TypeOK, Reply
  <2>3. MineBefore(r) \subseteq Matching(r)
    BY DEF ListingInv, MineBefore, Matching
  <2> QED
    BY <1>a, <1>b, <1>c, <2>1, <2>2, <2>3 DEF ListingInv
<1>2. CASE Fails(r) /\ Reply(r, 500)
  <2>1. answer'[r] = 500 /\ pc'[r] = "answered"
    BY <1>a, <1>2 DEF TypeOK, Reply
  <2> QED
    BY <1>b, <2>1 DEF ListingInv
<1>3. CASE /\ Fails(r) /\ Reply(r, 200)
           /\ \E part \in SUBSET Matching(r) :
                 listed' = [listed EXCEPT ![r].items = part]
  <2>1. listed'[r].items \subseteq Matching(r)
    BY <1>a, <1>3 DEF TypeOK
  <2>2. pc'[r] = "answered"
    BY <1>a, <1>3 DEF TypeOK, Reply
  <2>3. ctx'[r] # "live" \/ r \in faulted'
    BY <1>b, <1>3 DEF Fails, Cancelled, Fault
  <2> QED
    BY <1>b, <1>c, <2>1, <2>2, <2>3 DEF ListingInv
<1> QED
  BY <1>1, <1>2, <1>3 DEF ListQuery

\* Every step keeps what a listing has read in its bounds.
LEMMA NextListingInv ==
    ASSUME CreationInv, CreationInv', \A q \in Req : ListingInv(q), [Next]_vars,
           AppendOnlyStep, NEW q \in Req
    PROVE  ListingInv(q)'
<1>a. TypeOK /\ RequestInv(q) /\ listed[q].total \in Nat
  BY DEF CreationInv, TypeOK
<1>b. IsFiniteSet(transactions) /\ IsFiniteSet(transactions')
      /\ transactions \subseteq transactions'
  BY DEF CreationInv, LedgerInv, AppendOnlyStep
<1>1. ASSUME NEW r \in Req, Handler(r) PROVE ListingInv(q)'
  <2>1. faulted \subseteq faulted'
    BY <1>a, <1>1, FaultedGrows DEF Handler, ProvToken, CreateTransaction,
       GetTargetUser, GetAllActive, BeginTx, InsertTransaction, InsertRuleResult,
       Commit, GetTransactions, ListQuery, GetTransaction, ReadById
  <2>2. CASE q # r
    BY <1>a, <1>b, <1>1, <2>1, <2>2, OthersQuiet, QuietKeeps
  <2>3. CASE q = r /\ (GetTransactions(r) \/ ListQuery(r))
    BY <2>3, GetTransactionsListing, ListQueryListing
  <2>4. CASE q = r /\ ~GetTransactions(r) /\ ~ListQuery(r)
    BY <1>a, <1>b, <1>1, <2>1, <2>4, CreatorQuiet, QuietKeeps
  <2> QED
    BY <2>2, <2>3, <2>4
<1>2. ASSUME NEW r \in Req, Arrive(r) PROVE ListingInv(q)'
  <2>1. CASE q # r
    <3>1. Quiet(q)
      BY <1>a, <1>2, <2>1 DEF Arrive, Goto, Quiet, TypeOK
    <3> QED
      BY <1>a, <1>b, <1>2, <3>1, QuietKeeps DEF Arrive
  <2>2. CASE q = r
    <3>1. answer'[q] = 0 /\ pc'[q] = "ProvToken" /\ before'[q] = transactions
      BY <1>a, <1>2, <2>2 DEF Arrive, Goto, TypeOK, RequestInv
    <3> QED
      BY <1>b, <3>1 DEF ListingInv
  <2> QED
    BY <2>1, <2>2
<1>3. ASSUME NEW r \in Req, Finish(r) \/ Disconnect(r) \/ AwaitDone(r)
      PROVE  ListingInv(q)'
  <2>1. Quiet(q)
    BY <1>a, <1>3 DEF Finish, Disconnect, AwaitDone, Goto, Quiet, TypeOK, history
  <2> QED
    BY <1>a, <1>b, <1>3, <2>1, QuietKeeps DEF Finish, Disconnect, AwaitDone
<1>4. CASE Environment \/ UNCHANGED vars
  <2>1. Quiet(q)
    <3>1. CASE Crash
      BY <1>a, <3>1 DEF Crash, Quiet, TypeOK, InFlight, history
    <3>2. CASE UNCHANGED <<pc, answer, call, ctx, listed, before>>
      BY <3>2 DEF Quiet
    <3> QED
      BY <1>4, <3>1, <3>2 DEF Environment, UserWritten, RuleWritten, vars, request
  <2>2. faulted' = faulted
    BY <1>4 DEF Environment, UserWritten, RuleWritten, Crash, vars
  <2> QED
    BY <1>a, <1>b, <2>1, <2>2, QuietKeeps
<1> QED
  BY <1>1, <1>2, <1>3, <1>4 DEF Next

\* The inductive invariant holds of every reachable state: whatever requests,
\* faults, disconnections, crashes and administration calls interleave.
THEOREM Consistent == Spec => []IndInv
<1>1. Init => IndInv
  <2>1. ASSUME Init, NEW r \in Req PROVE ListingInv(r)
    BY <2>1 DEF Init, ListingInv
  <2> QED
    BY <2>1, InitCreationInv DEF IndInv
<1>2. IndInv /\ [Next]_vars => IndInv'
  <2>1. ASSUME IndInv, [Next]_vars PROVE IndInv'
    <3>1. CreationInv /\ CreationInv'
      BY <2>1, NextCreationInv DEF IndInv
    <3>2. AppendOnlyStep
      BY <2>1, <3>1, CreationAppends
    <3> QED
      BY <2>1, <3>1, <3>2, NextListingInv DEF IndInv
  <2> QED
    BY <2>1
<1> QED
  BY <1>1, <1>2, PTL DEF Spec

\* A listing answered 200 is a page of the target user's own transactions, none
\* missing that was there when it was asked for, unless a call failed.
THEOREM ListingsSound == Spec => []ListingSound
<1>1. ASSUME IndInv, NEW r \in Req, answer[r] = 200
      PROVE  LET c == call[r]
                 owner == IF c.role = "USER" \/ c.userId = NoUser
                          THEN c.caller ELSE c.userId
                 mine(set) == {t \in set : t.user = owner} IN
             /\ listed[r].items \subseteq mine(transactions)
             /\ pc[r] = "answered" /\ ctx[r] = "live" /\ r \notin faulted =>
                   /\ mine(before[r]) \subseteq listed[r].items
                   /\ Cardinality(mine(before[r])) <= listed[r].total
                   /\ listed[r].total <= Cardinality(listed[r].items)
  <2> DEFINE owner == IF call[r].role = "USER" \/ call[r].userId = NoUser
                      THEN call[r].caller ELSE call[r].userId
             mine(set) == {t \in set : t.user = owner}
  <2>1. call[r] \in Call
    BY <1>1, CallsAssumption DEF IndInv, CreationInv, RequestInv, Checked
  <2>2. ListTarget(call[r]) = owner
    BY <2>1 DEF ListTarget, Call, Role
  <2>3. mine(transactions) = Matching(r) /\ mine(before[r]) = MineBefore(r)
    BY <2>2 DEF Matching, MineBefore
  <2> HIDE DEF owner, mine
  <2>4. ListingInv(r)
    BY <1>1 DEF IndInv
  <2>5. /\ listed[r].items \subseteq mine(transactions)
        /\ pc[r] = "answered" /\ ctx[r] = "live" /\ r \notin faulted =>
              /\ mine(before[r]) \subseteq listed[r].items
              /\ Cardinality(mine(before[r])) <= listed[r].total
              /\ listed[r].total <= Cardinality(listed[r].items)
    BY <1>1, <2>3, <2>4 DEF ListingInv
  <2> QED
    BY <2>5 DEF owner, mine
<1>2. IndInv => ListingSound
  BY <1>1 DEF ListingSound
<1> QED
  BY <1>2, Consistent, PTL

-----------------------------------------------------------------------------
(***************************************************************************)
(* Refinement of Ledger.                                                   *)
(***************************************************************************)
ToldNow == [r \in Req |-> ToldTo(r)]
LedgerNow == {EntryOf(t) : t \in transactions}

\* A handler that goes on is not seen by the client.
LEMMA SameTold ==
    ASSUME TypeOK, \A r \in Req : ToldTo(r)' = ToldTo(r) PROVE ToldNow' = ToldNow
BY DEF ToldNow

LEMMA SameLedger ==
    ASSUME UNCHANGED tables PROVE LedgerNow' = LedgerNow
BY DEF LedgerNow, EntryOf, RulesOf, ResultsOf, tables

\* What a reply tells the client.
LEMMA ToldByReply ==
    ASSUME TypeOK, NEW r \in Req, InFlight(r), NEW code \in Code, Reply(r, code)
    PROVE  ToldNow' = [ToldNow EXCEPT ![r] =
                          IF code = 201 THEN "saved"
                          ELSE IF code \in {0, 500} THEN "unknown" ELSE "notsaved"]
<1>1. /\ pc'[r] = "answered" /\ answer'[r] = code
      /\ \A q \in Req \ {r} : pc'[q] = pc[q] /\ answer'[q] = answer[q]
  BY DEF Reply, TypeOK
<1>2. ASSUME NEW q \in Req \ {r} PROVE ToldTo(q)' = ToldTo(q)
  BY <1>1 DEF ToldTo, InFlight
<1>3. ToldTo(r)' = IF code = 201 THEN "saved"
                   ELSE IF code \in {0, 500} THEN "unknown" ELSE "notsaved"
  BY <1>1 DEF ToldTo, InFlight
<1> DEFINE now == IF code = 201 THEN "saved"
                  ELSE IF code \in {0, 500} THEN "unknown" ELSE "notsaved"
<1>4. ToldNow' = [q \in Req |-> ToldTo(q)']
  BY DEF ToldNow
<1>5. \A q \in Req : ToldTo(q)' = IF q = r THEN now ELSE ToldTo(q)
  BY <1>2, <1>3
<1>6. [ToldNow EXCEPT ![r] = now] = [q \in Req |-> IF q = r THEN now ELSE ToldTo(q)]
  <2> HIDE DEF now
  <2> QED
    BY DEF ToldNow
<1> QED
  BY <1>4, <1>5, <1>6

\* How a step of a handler can end: with a commit that takes effect, with any
\* other answer, or at the next call.
LEMMA HandlerOutcome ==
    ASSUME CreationInv, NEW r \in Req, Handler(r)
    PROVE  \/ Commit(r) /\ Publish(r) /\ \E code \in {201, 500} : Reply(r, code)
           \/ UNCHANGED tables /\ \E code \in Code \ {0, 201} : Reply(r, code)
           \/ /\ UNCHANGED tables /\ answer' = answer
              /\ \E p \in PC : /\ p \notin {"idle", "answered", "closed", "lost"}
                               /\ pc' = [pc EXCEPT ![r] = p]
<1>a. TypeOK
  BY DEF CreationInv
<1>1. CASE ProvToken(r)
  BY <1>1 DEF ProvToken, PC, Code
<1>2. CASE CreateTransaction(r)
  BY <1>2 DEF CreateTransaction, Goto, PC, Code
<1>3. CASE GetTargetUser(r)
  BY <1>3 DEF GetTargetUser, Goto, PC, Code
<1>4. CASE GetAllActive(r)
  BY <1>4 DEF GetAllActive, Goto, PC, Code
<1>5. CASE BeginTx(r)
  BY <1>5 DEF BeginTx, Goto, PC, Code
<1>6. CASE InsertTransaction(r)
  BY <1>6 DEF InsertTransaction, Goto, PC, Code
<1>7. CASE InsertRuleResult(r)
  <2>1. pc = [pc EXCEPT ![r] = "InsertRuleResults"]
    BY <1>a, <1>7 DEF TypeOK, InsertRuleResult
  <2> QED
    BY <1>7, <2>1 DEF InsertRuleResult, PC, Code
<1>8. CASE Commit(r)
  BY <1>8 DEF Commit, Code
<1>9. CASE GetTransactions(r)
  BY <1>9 DEF GetTransactions, Goto, PC, Code
<1>10. CASE ListQuery(r)
  BY <1>10 DEF ListQuery, Code
<1>11. CASE GetTransaction(r)
  BY <1>11 DEF GetTransaction, Code
<1> QED
  BY <1>1, <1>2, <1>3, <1>4, <1>5, <1>6, <1>7, <1>8, <1>9, <1>10, <1>11 DEF Handler

\* What every step of a handler finds and leaves alone.
LEMMA HandlerFrame ==
    ASSUME NEW r \in Req, Handler(r)
    PROVE  InFlight(r) /\ UNCHANGED <<users, rules, activeSeen, seen, call, before>>
BY DEF Handler, InFlight, ProvToken, CreateTransaction, Creates, GetTargetUser,
       GetAllActive, BeginTx, InsertTransaction, InsertRuleResult, Commit,
       GetTransactions, ListQuery, GetTransaction, others, history, request

\* A commit that takes effect is the one step of the Ledger that saves.
LEMMA CommitRefines ==
    ASSUME CreationInv, NEW r \in Req, Commit(r), Publish(r),
           NEW code \in {201, 500}, Reply(r, code), tx[r] = "open"
    PROVE  Promise!Save(r)
<1>a. TypeOK /\ RequestInv(r) /\ LedgerInv /\ InFlight(r)
  BY DEF CreationInv, Commit, InFlight
<1>b. UNCHANGED <<users, rules, activeSeen, seen, call, snap>>
  BY DEF Commit, others, history
<1>1. /\ wrote[r].transactions = {NewRow(r)}
      /\ wrote[r].results = {NewResult(r, rule) : rule \in snap[r]}
  BY <1>a DEF RequestInv, Buffered, Commit
<1>2. /\ transactions' = transactions \cup {NewRow(r)}
      /\ results' = results \cup {NewResult(r, rule) : rule \in snap[r]}
  BY <1>1 DEF Publish
<1>3. ~Stored(r)
  BY <1>a DEF LedgerInv, SavedRow, Stored, InFlight
<1>4. ASSUME NEW t \in transactions PROVE EntryOf(t)' = EntryOf(t)
  <2>1. t.id # r
    BY <1>3 DEF Stored
  <2>2. ResultsOf(t.id)' = ResultsOf(t.id)
    BY <1>2, <2>1 DEF ResultsOf, NewResult
  <2> QED
    BY <2>2 DEF EntryOf, RulesOf
<1>5. EntryOf(NewRow(r))' = [id |-> r, user |-> Target(call[r]), rules |-> snap[r]]
  <2>1. ResultsOf(r)' = {NewResult(r, rule) : rule \in snap[r]}
    BY <1>2, <1>3, <1>a DEF ResultsOf, NewResult, LedgerInv
  <2>2. RulesOf(r)' = snap[r]
    <3>1. \A x \in ResultsOf(r)' : x.rule \in snap[r]
      BY <2>1 DEF NewResult
    <3>2. ASSUME NEW rule \in snap[r] PROVE \E x \in ResultsOf(r)' : rule = x.rule
      <4>1. NewResult(r, rule) \in ResultsOf(r)'
        BY <2>1
      <4>2. NewResult(r, rule).rule = rule
        BY DEF NewResult
      <4> QED
        BY <4>1, <4>2
    <3> QED
      BY <3>1, <3>2 DEF RulesOf
  <2>3. /\ NewRow(r).id = r /\ NewRow(r).user = Target(call[r])
        /\ NewRow(r)' = NewRow(r)
    BY <1>b DEF NewRow, Target
  <2> QED
    BY <2>2, <2>3 DEF EntryOf
<1>6. LedgerNow' = LedgerNow \cup
                   {[id |-> r, user |-> Target(call[r]), rules |-> snap[r]]}
  <2>1. NewRow(r)' = NewRow(r)
    BY <1>b DEF NewRow, Target
  <2>2. LedgerNow' = {EntryOf(t)' : t \in transactions'}
    BY DEF LedgerNow
  <2> QED
    BY <1>2, <1>4, <1>5, <2>1, <2>2 DEF LedgerNow
<1>7. Target(call[r]) \in activeSeen[r] /\ snap[r] \in seen[r]
  BY <1>a DEF RequestInv, Checked, Creating, Inserting, Commit
<1>8. ToldNow[r] = "open"
  BY <1>a DEF ToldNow, ToldTo, InFlight
<1>9. \E t \in {"saved", "unknown"} : ToldNow' = [ToldNow EXCEPT ![r] = t]
  BY <1>a, ToldByReply DEF Code
<1>10. \E u \in activeSeen[r], R \in seen[r] :
          LedgerNow' = LedgerNow \cup {[id |-> r, user |-> u, rules |-> R]}
  BY <1>6, <1>7
<1>11. ActiveIn(users)' = ActiveIn(users) /\ EnabledIn(rules)' = EnabledIn(rules)
  BY <1>b DEF ActiveIn, EnabledIn
<1> QED
  BY <1>b, <1>8, <1>9, <1>10, <1>11 DEF Promise!Save, ToldNow, LedgerNow

\* Every step of a handler is a step of the Ledger, or none.
LEMMA HandlerRefines ==
    ASSUME CreationInv, NEW r \in Req, Handler(r)
    PROVE  [Promise!Next]_(Promise!vars)
<1>a. TypeOK /\ InFlight(r) /\ UNCHANGED <<users, rules, activeSeen, seen>>
  BY HandlerFrame DEF CreationInv
<1>b. ToldNow[r] = "open"
  BY <1>a DEF ToldNow, ToldTo, InFlight
<1>1. CASE UNCHANGED tables /\ \E code \in Code \ {0, 201} : Reply(r, code)
  <2>1. PICK code \in Code \ {0, 201} : Reply(r, code)
    BY <1>1
  <2>2. \E t \in {"notsaved", "unknown"} : ToldNow' = [ToldNow EXCEPT ![r] = t]
    BY <1>a, <2>1, ToldByReply
  <2>3. LedgerNow' = LedgerNow
    BY <1>1, SameLedger
  <2>4. Promise!End(r)
    BY <1>a, <1>b, <2>2, <2>3
    DEF Promise!End, ToldNow, LedgerNow, ActiveIn, EnabledIn
  <2> QED
    BY <2>4 DEF Promise!Next
<1>2. CASE /\ UNCHANGED tables /\ answer' = answer
           /\ \E p \in PC : /\ p \notin {"idle", "answered", "closed", "lost"}
                            /\ pc' = [pc EXCEPT ![r] = p]
  <2>1. ToldNow' = ToldNow
    BY <1>a, <1>2 DEF TypeOK, ToldNow, ToldTo, InFlight
  <2>2. LedgerNow' = LedgerNow
    BY <1>2, SameLedger
  <2> QED
    BY <1>a, <2>1, <2>2 DEF Promise!vars, ToldNow, LedgerNow, ActiveIn, EnabledIn
<1>3. CASE Commit(r) /\ Publish(r) /\ \E code \in {201, 500} : Reply(r, code)
  <2>1. CASE tx[r] = "open"
    BY <1>3, <2>1, CommitRefines DEF Promise!Next
  <2>2. CASE tx[r] = "none"
    <3>1. wrote[r] = Empty /\ ~Stored(r)
      BY <1>a, <2>2 DEF CreationInv, RequestInv, Buffered, LedgerInv, SavedRow, Stored, InFlight
    <3>2. UNCHANGED tables
      BY <1>3, <3>1 DEF Publish, Empty, tables
    <3>3. Reply(r, 500)
      BY <1>3, <2>2 DEF Commit, TxSucceeds
    <3> QED
      BY <1>1, <3>2, <3>3 DEF Code
  <2> QED
    BY <1>a, <2>1, <2>2 DEF TypeOK
<1> QED
  BY <1>1, <1>2, <1>3, HandlerOutcome

\* Writes of users and rules are the Ledger's Change.
LEMMA ChangeRefines ==
    ASSUME UNCHANGED <<tables, pc, answer>>,
           activeSeen' = [r \in Req |-> IF InFlight(r)
                                        THEN activeSeen[r] \cup ActiveIn(users')
                                        ELSE activeSeen[r]],
           seen' = [r \in Req |-> IF InFlight(r)
                                  THEN seen[r] \cup {EnabledIn(rules')}
                                  ELSE seen[r]]
    PROVE  Promise!Change
<1>1. \A r \in Req : (ToldNow[r] = "open") = InFlight(r)
  BY DEF ToldNow, ToldTo, InFlight
<1>2. ToldNow' = ToldNow
  BY DEF ToldNow, ToldTo, InFlight
<1>3. LedgerNow' = LedgerNow
  BY SameLedger
<1>4. ActiveIn(users') \in SUBSET UserId /\ EnabledIn(rules') \in SUBSET RuleId
  BY DEF ActiveIn, EnabledIn
<1>5. ActiveIn(users)' = ActiveIn(users') /\ EnabledIn(rules)' = EnabledIn(rules')
  BY DEF ActiveIn, EnabledIn
<1> QED
  BY <1>1, <1>2, <1>3, <1>4, <1>5 DEF Promise!Change, ToldNow, LedgerNow

\* Every step is a step of the Ledger, or none.
LEMMA StepRefines == CreationInv /\ [Next]_vars => [Promise!Next]_(Promise!vars)
<1> SUFFICES ASSUME CreationInv, [Next]_vars PROVE [Promise!Next]_(Promise!vars)
  OBVIOUS
<1>a. TypeOK /\ \A r \in Req : RequestInv(r)
  BY DEF CreationInv
<1>1. ASSUME NEW r \in Req, Arrive(r) PROVE [Promise!Next]_(Promise!vars)
  <2>1. ToldNow[r] = "new"
    BY <1>1 DEF ToldNow, ToldTo, Arrive, Goto
  <2>2. /\ pc'[r] = "ProvToken"
        /\ \A q \in Req \ {r} : pc'[q] = pc[q] /\ answer'[q] = answer[q]
    BY <1>a, <1>1 DEF Arrive, Goto, TypeOK
  <2>3. \A q \in Req : ToldTo(q)' = IF q = r THEN "open" ELSE ToldTo(q)
    BY <2>2 DEF ToldTo, InFlight
  <2>4. ToldNow' = [ToldNow EXCEPT ![r] = "open"]
    BY <2>3 DEF ToldNow
  <2>5. LedgerNow' = LedgerNow
    BY <1>1, SameLedger DEF Arrive
  <2>6. Promise!Open(r)
    BY <1>1, <2>1, <2>4, <2>5
    DEF Arrive, Promise!Open, ToldNow, LedgerNow, ActiveIn, EnabledIn, others
  <2> QED
    BY <2>6 DEF Promise!Next
<1>2. ASSUME NEW r \in Req, Handler(r) PROVE [Promise!Next]_(Promise!vars)
  BY <1>2, HandlerRefines
<1>3. ASSUME NEW r \in Req, Finish(r) \/ Disconnect(r) \/ AwaitDone(r)
      PROVE  [Promise!Next]_(Promise!vars)
  <2>1. /\ \A q \in Req : pc'[q] = IF q = r /\ pc[r] = "answered" THEN pc'[q] ELSE pc[q]
        /\ pc[r] = "answered" => pc'[r] \in {"answered", "closed"}
        /\ UNCHANGED <<tables, answer, users, rules, activeSeen, seen>>
    BY <1>a, <1>3
    DEF Finish, Disconnect, AwaitDone, Goto, TypeOK, others, history, InFlight
  <2>2. \A q \in Req : ToldTo(q)' = ToldTo(q)
    BY <2>1 DEF ToldTo, InFlight
  <2>3. ToldNow' = ToldNow /\ LedgerNow' = LedgerNow
    BY <1>a, <2>1, <2>2, SameTold, SameLedger
  <2> QED
    BY <2>1, <2>3 DEF Promise!vars, ToldNow, LedgerNow, ActiveIn, EnabledIn
<1>4. CASE Crash
  <2>1. ASSUME NEW q \in Req
        PROVE  ToldTo(q)' = IF ToldTo(q) = "open" THEN "unknown" ELSE ToldTo(q)
    <3>1. /\ pc'[q] = IF InFlight(q) THEN "lost"
                      ELSE IF pc[q] = "answered" THEN "closed" ELSE pc[q]
          /\ answer'[q] = answer[q]
      BY <1>4 DEF Crash
    <3>2. InFlight(q) => answer[q] = 0
      BY <1>a DEF RequestInv, InFlight
    <3> QED
      BY <3>1, <3>2 DEF ToldTo, InFlight
  <2>2. ToldNow' = [q \in Req |-> IF ToldNow[q] = "open" THEN "unknown" ELSE ToldNow[q]]
    BY <2>1 DEF ToldNow
  <2>3. LedgerNow' = LedgerNow
    BY <1>4, SameLedger DEF Crash
  <2>4. Promise!LoseAll
    BY <1>4, <2>2, <2>3
    DEF Crash, Promise!LoseAll, ToldNow, LedgerNow, ActiveIn, EnabledIn, history
  <2> QED
    BY <2>4 DEF Promise!Next
<1>5. ASSUME NEW u \in UserId, NEW s \in {"active", "inactive"}, UserWritten(u, s)
      PROVE  [Promise!Next]_(Promise!vars)
  <2>1. seen' = [r \in Req |-> IF InFlight(r) THEN seen[r] \cup {EnabledIn(rules')}
                                              ELSE seen[r]]
    <3>1. \A r \in Req : InFlight(r) => seen[r] = seen[r] \cup {EnabledIn(rules')}
      BY <1>a, <1>5 DEF RequestInv, Checked, UserWritten
    <3> QED
      BY <1>a, <1>5, <3>1 DEF UserWritten, TypeOK
  <2>2. Promise!Change
    BY <1>a, <1>5, <2>1, ChangeRefines DEF UserWritten
  <2> QED
    BY <2>2 DEF Promise!Next
<1>6. ASSUME NEW x \in RuleId, NEW s \in {"enabled", "disabled"}, RuleWritten(x, s)
      PROVE  [Promise!Next]_(Promise!vars)
  <2>1. activeSeen' = [r \in Req |-> IF InFlight(r)
                                     THEN activeSeen[r] \cup ActiveIn(users')
                                     ELSE activeSeen[r]]
    <3>1. \A r \in Req : InFlight(r) =>
             activeSeen[r] = activeSeen[r] \cup ActiveIn(users')
      BY <1>a, <1>6 DEF RequestInv, Checked, RuleWritten
    <3> QED
      BY <1>a, <1>6, <3>1 DEF RuleWritten, TypeOK
  <2>2. Promise!Change
    BY <1>a, <1>6, <2>1, ChangeRefines DEF RuleWritten
  <2> QED
    BY <2>2 DEF Promise!Next
<1>7. CASE UNCHANGED vars
  <2>1. ToldNow' = ToldNow /\ LedgerNow' = LedgerNow
    BY <1>7 DEF vars, ToldNow, ToldTo, InFlight, LedgerNow, EntryOf, RulesOf, ResultsOf
  <2> QED
    BY <1>7, <2>1
    DEF vars, Promise!vars, ToldNow, LedgerNow, ActiveIn, EnabledIn
<1> QED
  BY <1>1, <1>2, <1>3, <1>4, <1>5, <1>6, <1>7 DEF Next, Environment

\* To its clients the endpoint is the Ledger: every step of its handlers, its
\* failures and crashes included, is one atomic step of Ledger or none at all.
THEOREM RefinesLedger == Spec => ImplementsLedger
<1>1. Init => Promise!Init
  <2> SUFFICES ASSUME Init PROVE Promise!Init
    OBVIOUS
  <2>1. LedgerNow = {}
    BY DEF Init, LedgerNow
  <2>2. ToldNow = [r \in Req |-> "new"]
    BY DEF Init, ToldNow, ToldTo
  <2> QED
    BY <2>1, <2>2
    DEF Init, Promise!Init, LedgerNow, ToldNow, ActiveIn, EnabledIn
<1>2. CreationInv /\ [Next]_vars => [Promise!Next]_(Promise!vars)
  BY StepRefines
<1> QED
  BY <1>1, <1>2, CreationAlways, PTL DEF Spec, ImplementsLedger, Promise!Spec
====
