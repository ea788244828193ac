------------------------- MODULE DecisionEngineProofs -------------------------
(***************************************************************************)
(* Theorems about DecisionEngine, for every set of calls, users, rules and *)
(* priorities and every value of the bounds.                               *)
(***************************************************************************)
EXTENDS DecisionEngine, FiniteSetTheorems, TLAPS

\* The parts of the inductive invariant that are about one call.
OrderedFor(r) ==
    \A i, j \in DOMAIN ruleResults[r] : i < j =>
        \/ ruleResults[r][i].priority < ruleResults[r][j].priority
        \/ /\ ruleResults[r][i].priority = ruleResults[r][j].priority
           /\ ruleResults[r][i].rule < ruleResults[r][j].rule
OutcomeFor(r) ==
    /\ outcome[r] = "created" => Stored(r)
    /\ Stored(r) => outcome[r] = "created" \/ (outcome[r] = "failed" /\ r \in faulted)
ReturnedFor(r) ==
    pc[r] = "returned" /\ tx[r] = "open" => transactionRepo /\ r \in faulted
RowsFor(r) == \A t \in transactions : t.id = r => RowInv(t)
Part(r) == CallInv(r) /\ OrderedFor(r) /\ OutcomeFor(r) /\ ReturnedFor(r) /\ RowsFor(r)
Ownerless == \A x \in results : Stored(x.txn)

LEMMA Parts == IndInv => TypeOK /\ (\A r \in Req : Part(r)) /\ Ownerless
  BY DEF IndInv, Part, OrderedFor, OutcomeFor, ReturnedFor, RowsFor, Ownerless,
     ResponseOrdered, OutcomeTrue, ConnectionReturned, TypeOK, Row

\* A step of call r leaves the others alone.
Others(r) ==
    \A q \in Req \ {r} :
        /\ pc'[q] = pc[q] /\ call'[q] = call[q] /\ outcome'[q] = outcome[q]
        /\ tx'[q] = tx[q] /\ wrote'[q] = wrote[q] /\ next'[q] = next[q]
        /\ ruleResults'[q] = ruleResults[q] /\ seen'[q] = seen[q]

\* The tables only grow, by rows of r.
Grown(r) ==
    /\ transactions \subseteq transactions' /\ results \subseteq results'
    /\ \A t \in transactions' \ transactions : t.id = r
    /\ \A x \in results' \ results : x.txn = r

\* What is known of call q depends on its own state, on the rows of its own
\* transaction and on the rules.
LEMMA PartKept ==
    ASSUME IndInv, NEW r \in Req, Others(r), Grown(r), NEW q \in Req \ {r},
           UNCHANGED <<wiring, rules>>, faulted \subseteq faulted'
    PROVE  Part(q)'
<1>1. Part(q)
  BY Parts
<1>2. /\ pc'[q] = pc[q] /\ call'[q] = call[q] /\ outcome'[q] = outcome[q]
      /\ tx'[q] = tx[q] /\ wrote'[q] = wrote[q] /\ next'[q] = next[q]
      /\ ruleResults'[q] = ruleResults[q] /\ seen'[q] = seen[q]
  BY DEF Others
<1>3. Stored(q)' <=> Stored(q)
  BY DEF Stored, Grown
<1>4. Active' = Active
  BY DEF Active
<1>5. ReadAtOneInstant(q)' <=> ReadAtOneInstant(q)
  BY <1>2 DEF ReadAtOneInstant, Instants, wiring
<1>6. NewRow(q)' = NewRow(q)
  BY <1>2 DEF NewRow
<1>7. \A i : NewResult(q, i)' = NewResult(q, i)
  BY <1>2 DEF NewResult
<1>8. Inserted(q)' = Inserted(q)
  BY <1>2, <1>7 DEF Inserted
<1>9. CallInv(q)'
  BY <1>1, <1>2, <1>3, <1>4, <1>5, <1>6, <1>8 DEF Part, CallInv, Running
<1>10. ASSUME NEW t \in transactions', t.id = q PROVE RowInv(t)'
  <2>1. t \in transactions /\ RowInv(t)
    BY <1>1, <1>10 DEF Grown, Part, RowsFor
  <2>2. {x \in results' : x.txn = q} = {x \in results : x.txn = q}
    BY DEF Grown
  <2> QED
    BY <1>10, <2>1, <2>2, <1>2, <1>5, <1>6, <1>7 DEF RowInv
<1> QED
  BY <1>1, <1>2, <1>3, <1>9, <1>10
     DEF Part, OrderedFor, OutcomeFor, ReturnedFor, RowsFor, wiring

\* A step of call r keeps the invariant if it keeps the types and the part of
\* r, and what it adds to the tables is its own.
LEMMA StepKeeps ==
    ASSUME IndInv, TypeOK', NEW r \in Req, Others(r), Grown(r),
           UNCHANGED <<wiring, rules>>, faulted \subseteq faulted',
           Part(r)', (\E x \in results' : x.txn = r) => Stored(r)'
    PROVE  IndInv'
<1>1. \A q \in Req : Part(q)'
  BY PartKept
<1>2. ASSUME NEW x \in results' PROVE Stored(x.txn)'
  <2>1. CASE x \in results
    BY <2>1, Parts DEF Ownerless, Stored, Grown
  <2>2. CASE x \notin results
    BY <2>2 DEF Grown
  <2> QED
    BY <2>1, <2>2
<1> QED
  BY <1>1, <1>2 DEF IndInv, Part, OrderedFor, OutcomeFor, ReturnedFor, RowsFor,
     ResponseOrdered, OutcomeTrue, ConnectionReturned, TypeOK, Row

\* Facts about a call at work that every action below starts from.
LEMMA AtWork ==
    ASSUME IndInv, NEW r \in Req, Running(r)
    PROVE  /\ TypeOK /\ Part(r) /\ CallInv(r) /\ OrderedFor(r)
           /\ call[r] \in Calls /\ call[r] \in Call
           /\ outcome[r] = "none" /\ ~Stored(r)
           /\ \A x \in results : x.txn # r
           /\ \A t \in transactions : t.id # r
  BY Parts, CallsAssumption DEF Part, CallInv, Running, Ownerless, Stored

\* The steps of the service that write no table.
Quiet(r) ==
    /\ UNCHANGED <<others, tables, call, seen>>
    /\ faulted \subseteq faulted' /\ faulted' \subseteq Req

Writes == [transactions : SUBSET Row, results : SUBSET Saved]

LEMMA RolledBack ==
    ASSUME TypeOK, NEW r \in Req, Rollback(r)
    PROVE  /\ tx' \in [Req -> {"none", "open"}] /\ tx'[r] = "none"
           /\ wrote' \in [Req -> Writes] /\ wrote'[r] = Empty
           /\ \A q \in Req \ {r} : tx'[q] = tx[q] /\ wrote'[q] = wrote[q]
<1>1. Empty \in Writes
  BY DEF Empty, Writes
<1>2. wrote \in [Req -> Writes]
  BY DEF TypeOK, Writes
<1> QED
  BY <1>1, <1>2 DEF Rollback, TypeOK

\* A return that leaves no trace in the tables.
LEMMA ReturnKeeps ==
    ASSUME IndInv, NEW r \in Req, Running(r),
           NEW what \in Failure, Return(r, what), Quiet(r),
           UNCHANGED <<ruleResults, next>>,
           \/ tx' = tx /\ wrote' = wrote /\ (tx[r] = "open" => transactionRepo /\ r \in faulted')
           \/ Rollback(r)
    PROVE  IndInv'
<1> USE AtWork
<1>1. pc' = [pc EXCEPT ![r] = "returned"] /\ outcome' = [outcome EXCEPT ![r] = what]
  BY DEF Return
<1>2. pc'[r] = "returned" /\ outcome'[r] = what /\ what \notin {"none", "created"}
  BY <1>1 DEF TypeOK, Failure
<1>3. TypeOK'
  BY <1>1, RolledBack DEF TypeOK, PC, Quiet, Writes, others, tables, wiring
<1>4. Others(r)
  BY <1>1, RolledBack DEF TypeOK, Others, Quiet
<1>5. transactions' = transactions /\ results' = results /\ ~Stored(r)'
  BY DEF Quiet, tables, Stored
<1>6. tx'[r] = "none" => wrote'[r] = Empty
  BY RolledBack DEF CallInv
<1>7. tx'[r] = "open" => transactionRepo /\ r \in faulted'
  BY RolledBack
<1>8. CallInv(r)'
  BY <1>2, <1>6, <1>7 DEF CallInv, Running, Quiet, Saving
<1>9. Part(r)'
  BY <1>2, <1>5, <1>7, <1>8
     DEF Part, OrderedFor, OutcomeFor, ReturnedFor, RowsFor, Quiet, others, wiring
<1> QED
  BY <1>3, <1>4, <1>5, <1>9, StepKeeps DEF Quiet, others, tables, Grown

\* The service goes on to its next call of the database.
LEMMA GotoKeeps ==
    ASSUME IndInv, NEW r \in Req, Running(r),
           NEW p \in PC \ {"idle", "returned"}, Goto(r, p), Quiet(r),
           TypeOK', Others(r), CallInv(r)', OrderedFor(r)'
    PROVE  IndInv'
<1> USE AtWork
<1>1. pc'[r] = p /\ outcome'[r] = "none"
  BY DEF Goto, TypeOK
<1>2. transactions' = transactions /\ results' = results /\ ~Stored(r)'
  BY DEF Quiet, tables, Stored
<1>3. Part(r)'
  BY <1>1, <1>2 DEF Part, OutcomeFor, ReturnedFor, RowsFor
<1> QED
  BY <1>2, <1>3, StepKeeps DEF Quiet, others, Grown

\* The service repeats its call of the database.
LEMMA StillInserting ==
    ASSUME IndInv, NEW r \in Req, Running(r), UNCHANGED <<pc, outcome>>, Quiet(r),
           TypeOK', Others(r), CallInv(r)', OrderedFor(r)'
    PROVE  IndInv'
<1> USE AtWork
<1>1. pc'[r] \notin {"idle", "returned"} /\ outcome'[r] = "none"
  BY DEF Running
<1>2. transactions' = transactions /\ results' = results /\ ~Stored(r)'
  BY DEF Quiet, tables, Stored
<1>3. Part(r)'
  BY <1>1, <1>2 DEF Part, OutcomeFor, ReturnedFor, RowsFor
<1> QED
  BY <1>2, <1>3, StepKeeps DEF Quiet, others, Grown

\* One lemma per action: it preserves the inductive invariant.
LEMMA BeginStep ==
    ASSUME IndInv, NEW r \in Req, Begin(r) PROVE IndInv'
<1>1. TypeOK /\ Part(r) /\ CallInv(r) /\ pc[r] = "idle"
  BY Parts DEF Begin, Part
<1>2. PICK c \in Calls : call' = [call EXCEPT ![r] = c]
  BY DEF Begin
<1>3. /\ pc' = [pc EXCEPT ![r] = "CreateTransaction"] /\ outcome' = outcome
      /\ seen' = [seen EXCEPT ![r] = {Active}]
  BY DEF Begin, Goto
<1>4. pc'[r] = "CreateTransaction" /\ call'[r] = c /\ seen'[r] = {Active}
  BY <1>1, <1>2, <1>3 DEF TypeOK
<1>5. Active \subseteq Entry /\ Active' = Active
  BY DEF Active, Begin, others
<1>6. TypeOK'
  BY <1>1, <1>2, <1>3, <1>5 DEF TypeOK, PC, Begin, others, tables, wiring
<1>7. Others(r)
  BY <1>1, <1>2, <1>3 DEF TypeOK, Others, Begin
<1>8. /\ transactions' = transactions /\ results' = results
      /\ ~Stored(r) /\ ~Stored(r)' /\ \A t \in transactions : t.id # r
  BY <1>1 DEF Begin, tables, Stored, CallInv
<1>9. CallInv(r)'
  BY <1>1, <1>3, <1>4, <1>5, <1>8 DEF CallInv, Running, Saving, Begin
<1>10. Part(r)'
  BY <1>1, <1>3, <1>4, <1>8, <1>9
     DEF Part, OrderedFor, OutcomeFor, ReturnedFor, RowsFor, Begin
<1>11. \A x \in results' : x.txn # r
  BY <1>8, Parts DEF Ownerless, Stored
<1> QED
  BY <1>6, <1>7, <1>8, <1>10, <1>11, StepKeeps DEF Begin, others, Grown

LEMMA CreateTransactionStep ==
    ASSUME IndInv, NEW r \in Req, CreateTransaction(r) PROVE IndInv'
<1>1. Running(r) /\ pc[r] = "CreateTransaction"
  BY DEF CreateTransaction, Running
<1>2. Quiet(r) /\ TypeOK /\ CallInv(r) /\ OrderedFor(r)
  BY <1>1, AtWork DEF CreateTransaction, Quiet, Succeeds, Untouched, TypeOK
<1>3. CASE Valid(call[r]) /\ MayCreate(call[r]) /\ Goto(r, "GetByID")
  <2>1. pc' = [pc EXCEPT ![r] = "GetByID"] /\ outcome' = outcome
    BY <1>3 DEF Goto
  <2>2. TypeOK' /\ Others(r)
    BY <1>2, <2>1 DEF CreateTransaction, Succeeds, Untouched, others, tables, wiring,
       TypeOK, PC, Others
  <2>3. pc'[r] = "GetByID" /\ Active' = Active
    BY <1>2, <2>1 DEF TypeOK, Active, Quiet, others
  <2>4. CallInv(r)'
    BY <1>1, <1>2, <1>3, <2>1, <2>3 DEF CallInv, Running, Saving, Stored, Quiet, tables,
       CreateTransaction, Untouched
  <2>5. OrderedFor(r)'
    BY <1>2 DEF OrderedFor, CreateTransaction
  <2> QED
    BY <1>1, <1>2, <1>3, <2>2, <2>4, <2>5, GotoKeeps DEF PC
<1>4. CASE Return(r, "validation error") \/ Return(r, "access denied")
  BY <1>1, <1>2, <1>4, ReturnKeeps DEF CreateTransaction, Untouched, CallInv, Saving, Failure
<1> QED
  BY <1>3, <1>4 DEF CreateTransaction

LEMMA GetByIDStep ==
    ASSUME IndInv, NEW r \in Req, GetByID(r) PROVE IndInv'
<1>1. Running(r) /\ pc[r] = "GetByID"
  BY DEF GetByID, Running
<1>2. Quiet(r) /\ TypeOK /\ CallInv(r) /\ OrderedFor(r)
  BY <1>1, AtWork DEF GetByID, Quiet, Fault, Succeeds, Untouched, TypeOK
<1>3. CASE Goto(r, "GetAllActive")
  <2>1. pc' = [pc EXCEPT ![r] = "GetAllActive"] /\ outcome' = outcome
    BY <1>3 DEF Goto
  <2>2. TypeOK' /\ Others(r)
    BY <1>2, <2>1 DEF GetByID, Untouched, others, tables, wiring, Quiet, TypeOK, PC, Others
  <2>3. pc'[r] = "GetAllActive" /\ Active' = Active
    BY <1>2, <2>1 DEF TypeOK, Active, Quiet, others
  <2>4. CallInv(r)'
    BY <1>1, <1>2, <1>3, <2>1, <2>3 DEF CallInv, Running, Saving, Stored, Quiet, tables,
       GetByID, Untouched
  <2>5. OrderedFor(r)'
    BY <1>2 DEF OrderedFor, GetByID
  <2> QED
    BY <1>1, <1>2, <1>3, <2>2, <2>4, <2>5, GotoKeeps DEF PC
<1>4. CASE Return(r, "user account is deactivated") \/ Return(r, "user not found")
  BY <1>1, <1>2, <1>4, ReturnKeeps DEF GetByID, Untouched, CallInv, Saving, Failure
<1> QED
  BY <1>3, <1>4 DEF GetByID

\* The rules read.
LEMMA FiniteActive ==
    ASSUME TypeOK PROVE Active \subseteq Entry /\ IsFiniteSet(Active)
<1> DEFINE f == [e \in Active |-> e.id]
<1>1. Active \subseteq Entry
  BY DEF Active
<1>2. f \in [Active -> RuleId]
  BY <1>1 DEF Entry
<1>3. ASSUME NEW d \in Active, NEW e \in Active, f[d] = f[e] PROVE d = e
  <2>1. d \in Entry /\ e \in Entry /\ d.id = e.id
    BY <1>1, <1>3
  <2>2. d.priority = e.priority /\ d.dsl = e.dsl
    BY <2>1 DEF Active
  <2> QED
    BY <2>1, <2>2 DEF Entry
<1>4. f \in Injection(Active, RuleId)
  BY <1>2, <1>3 DEF Injection, IsInjective
<1> QED
  BY <1>1, <1>4, FS_Injection, RuleIdAssumption

LEMMA ReadRules ==
    ASSUME TypeOK, NEW s \in Sorted(RulesRead)
    PROVE  /\ \E n \in Nat : s \in [1..n -> RulesRead]
           /\ s \in Seq(Entry) /\ \A i \in DOMAIN s : s[i] \in RulesRead
           /\ \A e \in RulesRead : \E i \in DOMAIN s : s[i] = e
           /\ \A i, j \in DOMAIN s : i < j => Before(s[i], s[j])
<1>1. RulesRead \subseteq Entry /\ IsFiniteSet(RulesRead)
  BY FiniteActive, FS_EmptySet DEF RulesRead
<1>2. Cardinality(RulesRead) \in Nat
  BY <1>1, FS_CardinalityType
<1>3. s \in [1..Cardinality(RulesRead) -> RulesRead]
  BY DEF Sorted
<1>4. s \in Seq(Entry)
  BY <1>1, <1>2, <1>3
<1>5. /\ \A e \in RulesRead : \E i \in DOMAIN s : s[i] = e
      /\ \A i, j \in DOMAIN s : i < j => Before(s[i], s[j])
  BY DEF Sorted
<1> QED
  BY <1>2, <1>3, <1>4, <1>5

LEMMA AppliedRules ==
    ASSUME TypeOK, NEW s \in Sorted(RulesRead), NEW c \in Call,
           NEW rs, rs = Applied(s, c)
    PROVE  /\ rs \in Seq(Result)
           /\ Recorded(rs) = ResultsOf(RulesRead, c)
           /\ \A i, j \in DOMAIN rs : i < j =>
                 \/ rs[i].priority < rs[j].priority
                 \/ rs[i].priority = rs[j].priority /\ rs[i].rule < rs[j].rule
<1>1. PICK n \in Nat : s \in [1..n -> RulesRead]
  BY ReadRules
<1>2. RulesRead \subseteq Entry
  BY FiniteActive DEF RulesRead
<1>3. DOMAIN rs = 1..n /\ DOMAIN s = 1..n
  BY <1>1 DEF Applied
<1>4. \A i \in 1..n : rs[i] = [rule |-> s[i].id, priority |-> s[i].priority,
                                matched |-> Evaluate(s[i].dsl, c)]
  BY <1>1, <1>3 DEF Applied
<1>5. ASSUME NEW i \in 1..n
      PROVE  /\ rs[i] \in Result
             /\ [rule |-> rs[i].rule, matched |-> rs[i].matched]
                   = [rule |-> s[i].id, matched |-> Evaluate(s[i].dsl, c)]
  <2> DEFINE m == Evaluate(s[i].dsl, c)
  <2>1. s[i] \in Entry
    BY <1>1, <1>2
  <2>2. m \in BOOLEAN
    BY DEF Evaluate
  <2>3. rs[i] = [rule |-> s[i].id, priority |-> s[i].priority, matched |-> m]
    BY <1>4, Zenon
  <2> HIDE DEF m
  <2>4. rs[i] \in Result /\ rs[i].rule = s[i].id /\ rs[i].matched = m
    BY <2>1, <2>2, <2>3 DEF Entry, Result
  <2>5. [rule |-> rs[i].rule, matched |-> rs[i].matched] = [rule |-> s[i].id, matched |-> m]
    BY <2>4
  <2> QED
    BY <2>4, <2>5 DEF m
<1>6. rs = [i \in 1..n |-> rs[i]]
  <2> DEFINE R(i) == [rule |-> s[i].id, priority |-> s[i].priority,
                      matched |-> Evaluate(s[i].dsl, c)]
  <2>1. rs = [i \in DOMAIN s |-> R(i)]
    BY DEF Applied
  <2> HIDE DEF R
  <2> QED
    BY <1>3, <2>1
<1>7. rs \in Seq(Result)
  <2>1. \A i \in 1..n : rs[i] \in Result
    BY <1>5
  <2> QED
    BY <1>6, <2>1
<1>9. Recorded(rs) = ResultsOf(RulesRead, c)
  <2> DEFINE F(i) == [rule |-> rs[i].rule, matched |-> rs[i].matched]
             E(e) == [rule |-> e.id, matched |-> Evaluate(e.dsl, c)]
  <2>1. \A i \in 1..n : s[i] \in RulesRead
    BY <1>1
  <2>2. \A e \in RulesRead : \E i \in 1..n : s[i] = e
    BY <1>3, ReadRules
  <2>3. \A i \in 1..n : F(i) = E(s[i])
    BY <1>5
  <2>4. Recorded(rs) = {F(i) : i \in 1..n} /\ ResultsOf(RulesRead, c) = {E(e) : e \in RulesRead}
    BY <1>3 DEF Recorded, ResultsOf
  <2> HIDE DEF F, E
  <2> QED
    BY <2>1, <2>2, <2>3, <2>4
<1>10. \A i, j \in DOMAIN rs : i < j => Before(s[i], s[j])
  BY <1>3, ReadRules
<1> QED
  BY <1>3, <1>4, <1>7, <1>9, <1>10 DEF Before

LEMMA GetAllActiveStep ==
    ASSUME IndInv, NEW r \in Req, GetAllActive(r) PROVE IndInv'
<1>1. Running(r) /\ pc[r] = "GetAllActive"
  BY DEF GetAllActive, Running
<1>2. Quiet(r) /\ TypeOK /\ CallInv(r) /\ call[r] \in Call
  BY <1>1, AtWork DEF GetAllActive, Quiet, Fault, Succeeds, Untouched, TypeOK
<1>3. CASE Return(r, "failed") /\ UNCHANGED ruleResults
  BY <1>1, <1>2, <1>3, ReturnKeeps DEF GetAllActive, Untouched, CallInv, Saving, Failure
<1>4. CASE ~(Return(r, "failed") /\ UNCHANGED ruleResults)
  <2>1. PICK s \in Sorted(RulesRead) :
            ruleResults' = [ruleResults EXCEPT ![r] = Applied(s, call[r])]
    BY <1>4 DEF GetAllActive
  <2>2. Goto(r, "BeginTx")
    BY <1>4 DEF GetAllActive
  <2>3. pc' = [pc EXCEPT ![r] = "BeginTx"] /\ outcome' = outcome
    BY <2>2 DEF Goto
  <2>4. ruleResults'[r] = Applied(s, call[r])
    BY <1>2, <2>1 DEF TypeOK
  <2>5. ruleResults' \in [Req -> Seq(Result)]
    BY <1>2, <2>1, AppliedRules DEF TypeOK
  <2>6. TypeOK'
    BY <1>2, <2>3, <2>5 DEF GetAllActive, Untouched, others, tables, wiring, Quiet, TypeOK, PC
  <2>7. Others(r)
    BY <1>2, <2>1, <2>3 DEF GetAllActive, Untouched, TypeOK, Others
  <2>8. pc'[r] = "BeginTx" /\ Active' = Active
    BY <1>2, <2>3 DEF TypeOK, Active, Quiet, others
  <2>9. RulesRead \in Instants(r)
    BY <1>1, <1>2 DEF CallInv, RulesRead, Instants
  <2>10. call'[r] = call[r] /\ Instants(r)' = Instants(r)
    BY <1>2 DEF Quiet, Instants, others, wiring
  <2>11. ReadAtOneInstant(r)'
    <3>1. Recorded(Applied(s, call[r])) = ResultsOf(RulesRead, call[r])
      BY <1>2, AppliedRules
    <3> QED
      BY <2>4, <2>9, <2>10, <3>1 DEF ReadAtOneInstant
  <2>12. CallInv(r)'
    BY <1>1, <1>2, <2>3, <2>8, <2>11 DEF CallInv, Running, Saving, Stored, Quiet, tables,
       GetAllActive, Untouched
  <2>13. OrderedFor(r)'
    BY <1>2, <2>4, AppliedRules DEF OrderedFor
  <2> QED
    BY <1>1, <1>2, <2>2, <2>6, <2>7, <2>12, <2>13, GotoKeeps DEF PC
<1> QED
  BY <1>3, <1>4

LEMMA BeginTxStep ==
    ASSUME IndInv, NEW r \in Req, BeginTx(r) PROVE IndInv'
<1>1. Running(r) /\ pc[r] = "BeginTx"
  BY DEF BeginTx, Running
<1>2. Quiet(r) /\ TypeOK /\ CallInv(r) /\ OrderedFor(r) /\ tx[r] # "open"
  BY <1>1, AtWork DEF BeginTx, Quiet, Fault, Succeeds, TypeOK, CallInv, Saving
<1>3. CASE Goto(r, "InsertTransaction") /\ tx' = [tx EXCEPT ![r] = "open"]
  <2>1. pc' = [pc EXCEPT ![r] = "InsertTransaction"] /\ outcome' = outcome
    BY <1>3 DEF Goto
  <2>2. TypeOK' /\ Others(r)
    BY <1>2, <1>3, <2>1 DEF BeginTx, others, tables, wiring, Quiet, TypeOK, PC, Others
  <2>3. pc'[r] = "InsertTransaction" /\ Active' = Active /\ tx'[r] = "open"
    BY <1>2, <1>3, <2>1 DEF TypeOK, Active, Quiet, others
  <2>4. wrote'[r] = Empty
    BY <1>2 DEF BeginTx, CallInv, TypeOK
  <2>5. ReadAtOneInstant(r)'
    BY <1>1, <1>2 DEF CallInv, ReadAtOneInstant, Instants, BeginTx, Quiet, others, wiring
  <2>6. CallInv(r)'
    BY <1>1, <1>2, <2>1, <2>3, <2>4, <2>5 DEF CallInv, Running, Saving, Stored, Quiet,
       tables, BeginTx
  <2>7. OrderedFor(r)'
    BY <1>2 DEF OrderedFor, BeginTx
  <2> QED
    BY <1>1, <1>2, <1>3, <2>2, <2>6, <2>7, GotoKeeps DEF PC
<1>4. CASE Return(r, "failed") /\ UNCHANGED tx
  BY <1>1, <1>2, <1>4, ReturnKeeps DEF BeginTx, Failure
<1> QED
  BY <1>3, <1>4 DEF BeginTx

LEMMA RowType ==
    ASSUME TypeOK, NEW r \in Req, call[r] \in Call, Valid(call[r])
    PROVE  NewRow(r) \in Row /\ NewRow(r).id = r
<1>1. call[r].userId \in UserId /\ call[r].amount \in Int
  BY DEF Valid, Call
<1>2. Cents(call[r].amount) \in Int
  BY <1>1 DEF Cents
<1>3. AnyMatched(ruleResults[r]) \in BOOLEAN
  BY DEF AnyMatched
<1> DEFINE d == AnyMatched(ruleResults[r])
<1>4. NewRow(r) = [id |-> r, user |-> call[r].userId, cents |-> Cents(call[r].amount),
                   status |-> IF d THEN "DECLINED" ELSE "APPROVED", isFraud |-> d]
  BY Zenon DEF NewRow
<1> HIDE DEF d
<1>5. d \in BOOLEAN
  BY <1>3 DEF d
<1> QED
  BY <1>1, <1>2, <1>4, <1>5 DEF Row, Status

LEMMA InsertTransactionStep ==
    ASSUME IndInv, NEW r \in Req, InsertTransaction(r) PROVE IndInv'
<1>1. Running(r) /\ pc[r] = "InsertTransaction"
  BY DEF InsertTransaction, Running
<1>2. Quiet(r) /\ TypeOK /\ CallInv(r) /\ OrderedFor(r) /\ tx[r] = "open"
  BY <1>1, AtWork DEF InsertTransaction, Quiet, Fault, Succeeds, TypeOK, CallInv, Saving
<1>3. CASE /\ Goto(r, "InsertRuleResults") /\ UNCHANGED tx
           /\ wrote' = [wrote EXCEPT ![r].transactions = @ \cup {NewRow(r)}]
  <2>1. pc' = [pc EXCEPT ![r] = "InsertRuleResults"] /\ outcome' = outcome
    BY <1>3 DEF Goto
  <2>2. NewRow(r) \in Row
    BY <1>1, <1>2, AtWork, RowType DEF CallInv, Saving
  <2>3. wrote[r] = Empty /\ wrote \in [Req -> Writes]
    BY <1>1, <1>2 DEF CallInv, TypeOK, Writes
  <2>4. [wrote[r] EXCEPT !.transactions = @ \cup {NewRow(r)}]
          = [transactions |-> {NewRow(r)}, results |-> {}]
    BY <2>3 DEF Empty
  <2>5. wrote' = [wrote EXCEPT ![r] = [transactions |-> {NewRow(r)}, results |-> {}]]
    BY <1>3, <2>4
  <2>6. /\ wrote'[r] = [transactions |-> {NewRow(r)}, results |-> {}]
        /\ wrote' \in [Req -> Writes] /\ \A q \in Req \ {r} : wrote'[q] = wrote[q]
    <3>1. [transactions |-> {NewRow(r)}, results |-> {}] \in Writes
      BY <2>2 DEF Writes
    <3> QED
      BY <2>3, <2>5, <3>1
  <2>7. TypeOK'
    BY <1>2, <1>3, <2>1, <2>6 DEF InsertTransaction, others, tables, wiring, Quiet,
       TypeOK, PC, Writes
  <2>8. Others(r)
    BY <1>2, <1>3, <2>1, <2>6 DEF InsertTransaction, TypeOK, Others
  <2>9. pc'[r] = "InsertRuleResults" /\ Active' = Active
    BY <1>2, <2>1 DEF TypeOK, Active, Quiet, others
  <2>10. ReadAtOneInstant(r)'
    BY <1>1, <1>2 DEF CallInv, Saving, ReadAtOneInstant, Instants, InsertTransaction,
       Quiet, others, wiring
  <2>11. NewRow(r)' = NewRow(r)
    BY DEF NewRow, InsertTransaction
  <2>12. Inserted(r)' = {}
    BY <1>1, <1>2 DEF Inserted, CallInv, InsertTransaction, TypeOK
  <2>13. CallInv(r)'
    BY <1>1, <1>2, <1>3, <2>1, <2>6, <2>9, <2>10, <2>11, <2>12
       DEF CallInv, Running, Saving, Stored, Quiet, tables, InsertTransaction
  <2>14. OrderedFor(r)'
    BY <1>2 DEF OrderedFor, InsertTransaction
  <2> QED
    BY <1>1, <1>2, <1>3, <2>7, <2>8, <2>13, <2>14, GotoKeeps DEF PC
<1>4. CASE Return(r, "failed") /\ Rollback(r)
  BY <1>1, <1>2, <1>4, ReturnKeeps DEF InsertTransaction, Failure
<1> QED
  BY <1>3, <1>4 DEF InsertTransaction

LEMMA InsertRuleResultStep ==
    ASSUME IndInv, NEW r \in Req, InsertRuleResult(r) PROVE IndInv'
<1>1. Running(r) /\ pc[r] = "InsertRuleResults" /\ next[r] \in DOMAIN ruleResults[r]
  BY DEF InsertRuleResult, Running
<1>2. Quiet(r) /\ TypeOK /\ CallInv(r) /\ OrderedFor(r) /\ tx[r] = "open"
  BY <1>1, AtWork DEF InsertRuleResult, Quiet, Fault, Succeeds, TypeOK, CallInv, Saving
<1>3. CASE /\ UNCHANGED <<tx, pc, outcome>> /\ next' = [next EXCEPT ![r] = @ + 1]
           /\ wrote' = [wrote EXCEPT ![r].results = @ \cup {NewResult(r, next[r])}]
  <2> DEFINE i == next[r]
             w == [transactions |-> {NewRow(r)}, results |-> Inserted(r) \cup {NewResult(r, i)}]
  <2>1. i \in Nat \ {0} /\ next' \in [Req -> Nat \ {0}] /\ next'[r] = i + 1
        /\ \A q \in Req \ {r} : next'[q] = next[q]
    BY <1>2, <1>3 DEF TypeOK
  <2>2. ruleResults[r] \in Seq(Result) /\ DOMAIN ruleResults[r] \subseteq Nat
    BY <1>2 DEF TypeOK
  <2>3. ruleResults[r][i] \in Result
    BY <1>1, <2>2
  <2>4. NewResult(r, i) \in Saved
    <3> DEFINE m == ruleResults[r][i].matched
    <3>1. ruleResults[r][i].rule \in RuleId /\ m \in BOOLEAN
      BY <2>3 DEF Result
    <3>2. NewResult(r, i) = [txn |-> r, rule |-> ruleResults[r][i].rule, matched |-> m]
      BY DEF NewResult
    <3> HIDE DEF m
    <3> QED
      BY <3>1, <3>2 DEF Saved
  <2>5. wrote[r] = [transactions |-> {NewRow(r)}, results |-> Inserted(r)]
        /\ wrote \in [Req -> Writes]
    BY <1>1, <1>2 DEF CallInv, TypeOK, Writes
  <2>6. [wrote[r] EXCEPT !.results = @ \cup {NewResult(r, i)}] = w
    BY <2>5
  <2>7. wrote' = [wrote EXCEPT ![r] = w]
    BY <1>3, <2>6
  <2>8. w \in Writes
    BY <2>4, <2>5 DEF Writes
  <2>9. wrote'[r] = w /\ wrote' \in [Req -> Writes]
        /\ \A q \in Req \ {r} : wrote'[q] = wrote[q]
    BY <2>5, <2>7, <2>8
  <2>10. TypeOK'
    BY <1>2, <1>3, <2>1, <2>9 DEF InsertRuleResult, others, tables, wiring, Quiet,
       TypeOK, Writes
  <2>11. Others(r)
    BY <1>2, <1>3, <2>1, <2>9 DEF InsertRuleResult, TypeOK, Others
  <2>12. NewRow(r)' = NewRow(r) /\ \A j : NewResult(r, j)' = NewResult(r, j)
    BY DEF NewRow, NewResult, InsertRuleResult
  <2>13. Inserted(r)' = Inserted(r) \cup {NewResult(r, i)}
    <3>1. DOMAIN ruleResults'[r] = DOMAIN ruleResults[r]
      BY DEF InsertRuleResult
    <3>2. \A j \in DOMAIN ruleResults[r] : j < i + 1 <=> j < i \/ j = i
      BY <2>1, <2>2
    <3> DEFINE N(j) == NewResult(r, j)
    <3>3. Inserted(r)' = {N(j) : j \in {k \in DOMAIN ruleResults[r] : k < i + 1}}
      BY <2>1, <2>12, <3>1 DEF Inserted
    <3>4. Inserted(r) = {N(j) : j \in {k \in DOMAIN ruleResults[r] : k < i}}
      BY DEF Inserted
    <3> HIDE DEF N
    <3>5. Inserted(r)' = Inserted(r) \cup {N(i)}
      BY <1>1, <3>2, <3>3, <3>4
    <3> QED
      BY <3>5 DEF N
  <2>14. Active' = Active /\ pc' = pc
    BY <1>2, <1>3 DEF Active, Quiet, others
  <2>15. ReadAtOneInstant(r)'
    BY <1>1, <1>2 DEF CallInv, Saving, ReadAtOneInstant, Instants, InsertRuleResult,
       Quiet, others, wiring
  <2>16. CallInv(r)'
    BY <1>1, <1>2, <1>3, <2>9, <2>12, <2>13, <2>14, <2>15
       DEF CallInv, Running, Saving, Stored, Quiet, tables, InsertRuleResult
  <2>17. OrderedFor(r)'
    BY <1>2 DEF OrderedFor, InsertRuleResult
  <2> QED
    BY <1>1, <1>2, <1>3, <2>10, <2>11, <2>16, <2>17, StillInserting
<1>4. CASE Return(r, "failed") /\ Abandon(r) /\ UNCHANGED next
  <2>1. transactionRepo => r \in faulted'
    <3>1. pc' # pc
      BY <1>1, <1>2, <1>4 DEF Return, TypeOK
    <3> QED
      BY <3>1 DEF InsertRuleResult, Fault, Succeeds
  <2> QED
    BY <1>1, <1>2, <1>4, <2>1, ReturnKeeps DEF InsertRuleResult, Failure, Abandon
<1> QED
  BY <1>3, <1>4 DEF InsertRuleResult

\* What Commit publishes is the row of the call with its results.
LEMMA Published ==
    ASSUME IndInv, NEW r \in Req, Running(r), pc[r] = "InsertRuleResults",
           next[r] \notin DOMAIN ruleResults[r], Publish(r)
    PROVE  /\ transactions' = transactions \cup {NewRow(r)}
           /\ transactions' \subseteq Row /\ NewRow(r).id = r
           /\ results' = results \cup {NewResult(r, i) : i \in DOMAIN ruleResults[r]}
           /\ results' \subseteq Saved
           /\ \A i : NewResult(r, i).txn = r
<1>1. /\ TypeOK /\ CallInv(r) /\ call[r] \in Call /\ Valid(call[r])
      /\ wrote[r] = [transactions |-> {NewRow(r)}, results |-> Inserted(r)]
      /\ wrote[r] \in Writes
  BY AtWork DEF CallInv, Saving, TypeOK, Writes
<1>2. \A i \in DOMAIN ruleResults[r] : i < next[r]
  <2>1. ruleResults[r] \in Seq(Result) /\ next[r] \in Nat \ {0}
    BY <1>1 DEF TypeOK
  <2>2. DOMAIN ruleResults[r] = 1..Len(ruleResults[r]) /\ Len(ruleResults[r]) \in Nat
    BY <2>1
  <2> QED
    BY <2>1, <2>2
<1>3. Inserted(r) = {NewResult(r, i) : i \in DOMAIN ruleResults[r]}
  <2>1. {j \in DOMAIN ruleResults[r] : j < next[r]} = DOMAIN ruleResults[r]
    BY <1>2
  <2> QED
    BY <2>1 DEF Inserted
<1>4. transactions' = transactions \cup {NewRow(r)} /\ results' = results \cup Inserted(r)
  BY <1>1 DEF Publish
<1>5. transactions' \subseteq Row /\ results' \subseteq Saved
  BY <1>1, <1>4 DEF Writes, TypeOK
<1>6. NewRow(r).id = r
  BY <1>1, RowType
<1>7. \A i : NewResult(r, i).txn = r
  <2> SUFFICES ASSUME NEW i PROVE NewResult(r, i).txn = r
    OBVIOUS
  <2> DEFINE m == ruleResults[r][i].matched
  <2>1. NewResult(r, i) = [txn |-> r, rule |-> ruleResults[r][i].rule, matched |-> m]
    BY DEF NewResult
  <2> HIDE DEF m
  <2> QED
    BY <2>1
<1> QED
  BY <1>3, <1>4, <1>5, <1>6, <1>7

LEMMA CommitStep ==
    ASSUME IndInv, NEW r \in Req, Commit(r) PROVE IndInv'
<1>1. Running(r) /\ pc[r] = "InsertRuleResults" /\ next[r] \notin DOMAIN ruleResults[r]
  BY DEF Commit, Running
<1>2. TypeOK /\ CallInv(r) /\ OrderedFor(r) /\ ~Stored(r)
      /\ (\A x \in results : x.txn # r) /\ (\A t \in transactions : t.id # r)
  BY <1>1, AtWork
<1>3. CASE Return(r, "failed") /\ UNCHANGED tables /\ Fault(r)
  <2>1. Quiet(r)
    BY <1>2, <1>3 DEF Commit, Quiet, Fault, TypeOK
  <2> QED
    BY <1>1, <1>3, <2>1, ReturnKeeps DEF Commit, Failure
<1>4. CASE /\ Publish(r)
           /\ \/ Succeeds /\ Return(r, "created")
              \/ Fault(r) /\ Return(r, "failed")
  <2>1. PICK what \in {"created", "failed"} :
            /\ Return(r, what) /\ (what = "failed" => r \in faulted')
            /\ faulted \subseteq faulted' /\ faulted' \subseteq Req
    BY <1>2, <1>4 DEF Fault, Succeeds, TypeOK
  <2>2. /\ pc' = [pc EXCEPT ![r] = "returned"] /\ outcome' = [outcome EXCEPT ![r] = what]
        /\ pc'[r] = "returned" /\ outcome'[r] = what
    BY <1>2, <2>1 DEF Return, TypeOK
  <2>3. TypeOK'
    BY <1>1, <1>2, <2>1, <2>2, Published, RolledBack, <1>4
       DEF Commit, TypeOK, PC, Failure, others, wiring, Writes
  <2>4. Others(r)
    BY <1>2, <2>2, RolledBack DEF Commit, TypeOK, Others
  <2>5. Grown(r)
    BY <1>1, <1>4, Published DEF Grown
  <2>6. NewRow(r) \in transactions' /\ Stored(r)'
    BY <1>1, <1>4, Published DEF Stored
  <2>7. tx'[r] = "none" /\ wrote'[r] = Empty
    BY <1>2, RolledBack DEF Commit
  <2>8. CallInv(r)'
    BY <1>2, <2>2, <2>7 DEF CallInv, Running, Saving, Commit
  <2>9. ASSUME NEW t \in transactions', t.id = r PROVE RowInv(t)'
    <3>1. t = NewRow(r)
      BY <1>1, <1>2, <1>4, <2>9, Published
    <3>2. NewRow(r)' = NewRow(r) /\ \A i : NewResult(r, i)' = NewResult(r, i)
      BY DEF NewRow, NewResult, Commit
    <3>3. ReadAtOneInstant(r)'
      BY <1>1, <1>2 DEF CallInv, Saving, ReadAtOneInstant, Instants, Commit, others, wiring
    <3>4. {x \in results' : x.txn = r} = {NewResult(r, i) : i \in DOMAIN ruleResults[r]}
      <4> DEFINE own == {NewResult(r, i) : i \in DOMAIN ruleResults[r]}
      <4>1. \A x \in own : x.txn = r
        BY <1>1, <1>4, Published
      <4>2. results' = results \cup own
        BY <1>1, <1>4, Published
      <4> HIDE DEF own
      <4>3. {x \in results' : x.txn = r} = own
        BY <1>2, <4>1, <4>2
      <4> QED
        BY <4>3 DEF own
    <3>5. call[r] \in Calls /\ MayCreate(call[r])
      BY <1>1, <1>2 DEF CallInv, Saving
    <3>6. /\ pc'[r] = "returned" /\ call' = call /\ ruleResults' = ruleResults
      BY <2>2 DEF Commit
    <3> QED
      BY <2>9, <3>1, <3>2, <3>3, <3>4, <3>5, <3>6 DEF RowInv
  <2>10. Part(r)'
    BY <1>2, <2>1, <2>2, <2>6, <2>7, <2>8, <2>9
       DEF Part, OrderedFor, OutcomeFor, ReturnedFor, RowsFor, Commit
  <2> QED
    BY <2>1, <2>3, <2>4, <2>5, <2>6, <2>10, StepKeeps DEF Commit, others
<1> QED
  BY <1>3, <1>4 DEF Commit

LEMMA AwaitDoneStep ==
    ASSUME IndInv, NEW r \in Req, AwaitDone(r) PROVE IndInv'
<1>1. TypeOK /\ Part(r) /\ CallInv(r) /\ pc[r] = "returned"
  BY Parts DEF AwaitDone, Part
<1>2. TypeOK' /\ Others(r)
  BY <1>1, RolledBack DEF AwaitDone, TypeOK, Others, others, tables, wiring, Writes
<1>3. tx'[r] = "none" /\ wrote'[r] = Empty
  BY <1>1, RolledBack DEF AwaitDone
<1>4. /\ pc' = pc /\ call' = call /\ outcome' = outcome /\ next' = next /\ seen' = seen
      /\ ruleResults' = ruleResults /\ faulted' = faulted
      /\ transactions' = transactions /\ results' = results
      /\ rules' = rules /\ UNCHANGED wiring
  BY DEF AwaitDone, others, tables
<1>5. CallInv(r)'
  BY <1>1, <1>3, <1>4 DEF CallInv, Running, Saving
<1>6. ReadAtOneInstant(r)' <=> ReadAtOneInstant(r)
  BY <1>4 DEF ReadAtOneInstant, Instants, wiring
<1>7. NewRow(r)' = NewRow(r) /\ \A i : NewResult(r, i)' = NewResult(r, i)
  BY <1>4 DEF NewRow, NewResult
<1>8. ASSUME NEW t \in transactions', t.id = r PROVE RowInv(t)'
  BY <1>1, <1>4, <1>6, <1>7, <1>8 DEF Part, RowsFor, RowInv
<1>9. Part(r)'
  BY <1>1, <1>3, <1>4, <1>5, <1>8
     DEF Part, OrderedFor, OutcomeFor, ReturnedFor, RowsFor, Stored
<1>10. (\E x \in results' : x.txn = r) => Stored(r)'
  BY <1>4, Parts DEF Ownerless, Stored
<1> QED
  BY <1>2, <1>4, <1>9, <1>10, StepKeeps DEF Grown

\* Users and rules are written by others: a call at work has then seen the new
\* set of active rules as well.
LEMMA WriteKeeps ==
    ASSUME IndInv, TypeOK',
           UNCHANGED <<wiring, tables, pc, outcome, call, tx, wrote, ruleResults, next, faulted>>,
           \A q \in Req : seen[q] \subseteq seen'[q] /\ (Running(q) => Active' \in seen'[q])
    PROVE  IndInv'
<1>1. ASSUME NEW q \in Req PROVE Part(q)'
  <2>1. Part(q)
    BY Parts
  <2>2. /\ pc'[q] = pc[q] /\ call'[q] = call[q] /\ outcome'[q] = outcome[q]
        /\ tx'[q] = tx[q] /\ wrote'[q] = wrote[q] /\ next'[q] = next[q]
        /\ ruleResults'[q] = ruleResults[q] /\ transactions' = transactions
        /\ results' = results /\ faulted' = faulted /\ UNCHANGED wiring
    BY DEF tables
  <2>3. Instants(q) \subseteq Instants(q)'
    BY DEF Instants, wiring
  <2>4. ReadAtOneInstant(q) => ReadAtOneInstant(q)'
    BY <2>2, <2>3 DEF ReadAtOneInstant
  <2>5. NewRow(q)' = NewRow(q) /\ \A i : NewResult(q, i)' = NewResult(q, i)
    BY <2>2 DEF NewRow, NewResult
  <2>6. Inserted(q)' = Inserted(q)
    BY <2>2, <2>5 DEF Inserted
  <2>7. CallInv(q)'
    BY <2>1, <2>2, <2>4, <2>5, <2>6 DEF Part, CallInv, Running, Stored
  <2>8. ASSUME NEW t \in transactions, t.id = q PROVE RowInv(t)'
    BY <2>1, <2>2, <2>4, <2>5, <2>8 DEF Part, RowsFor, RowInv
  <2> QED
    BY <2>1, <2>2, <2>7, <2>8
       DEF Part, OrderedFor, OutcomeFor, ReturnedFor, RowsFor, Stored, wiring
<1>2. Ownerless'
  BY Parts DEF Ownerless, Stored, tables
<1> QED
  BY <1>1, <1>2 DEF Ownerless, IndInv, Part, OrderedFor, OutcomeFor, ReturnedFor,
     RowsFor, ResponseOrdered, OutcomeTrue, ConnectionReturned, TypeOK, Row

LEMMA UserWrittenStep ==
    ASSUME IndInv, NEW u \in UserId, NEW s \in {"active", "inactive"}, UserWritten(u, s)
    PROVE  IndInv'
<1>1. TypeOK /\ \A q \in Req : CallInv(q)
  BY DEF IndInv
<1>2. Active' = Active
  BY DEF UserWritten, Active
<1>3. TypeOK'
  BY <1>1, BoundsAssumption DEF UserWritten, TypeOK, tables, wiring
<1> QED
  BY <1>1, <1>2, <1>3, WriteKeeps DEF UserWritten, CallInv

LEMMA RuleWrittenStep ==
    ASSUME IndInv, NEW x \in RuleId, NEW row \in RuleRow, RuleWritten(x, row)
    PROVE  IndInv'
<1>1. TypeOK /\ \A q \in Req : CallInv(q)
  BY DEF IndInv
<1>2. Active' \subseteq Entry
  BY DEF Active
<1>3. seen' \in [Req -> SUBSET SUBSET Entry]
  BY <1>1, <1>2 DEF RuleWritten, TypeOK
<1>4. rules' \in [RuleId -> RuleRow \cup {NoRule}]
  BY <1>1 DEF RuleWritten, TypeOK
<1>5. TypeOK'
  BY <1>1, <1>3, <1>4, BoundsAssumption DEF RuleWritten, TypeOK, tables, wiring
<1>6. \A q \in Req : seen[q] \subseteq seen'[q] /\ (Running(q) => Active' \in seen'[q])
  BY DEF RuleWritten
<1> QED
  BY <1>5, <1>6, WriteKeeps DEF RuleWritten

(***************************************************************************)
(* The theorems.                                                           *)
(***************************************************************************)
\* The inductive invariant of the engine holds in every reachable state.
THEOREM EngineConsistent == Spec => []IndInv
<1>1. Init => IndInv
  <2> SUFFICES ASSUME Init PROVE IndInv
    OBVIOUS
  <2>1. TypeOK
    <3>1. Empty \in Writes
      BY DEF Empty, Writes
    <3>2. <<>> \in Seq(Result)
      OBVIOUS
    <3> QED
      BY <3>1, <3>2, BoundsAssumption DEF Init, TypeOK, PC, Writes
  <2>2. ASSUME NEW q \in Req PROVE Part(q)
    BY DEF Init, Part, CallInv, OrderedFor, OutcomeFor, ReturnedFor, RowsFor, Running,
       Saving, Stored
  <2> QED
    BY <2>1, <2>2 DEF Init, IndInv, Part, OrderedFor, OutcomeFor, ReturnedFor,
       ResponseOrdered, OutcomeTrue, ConnectionReturned
<1>2. IndInv /\ [Next]_vars => IndInv'
  <2> SUFFICES ASSUME IndInv, [Next]_vars PROVE IndInv'
    OBVIOUS
  <2>1. CASE UNCHANGED vars
    <3>1. Active' = Active
      BY <2>1 DEF vars, others, Active
    <3>2. TypeOK /\ \A q \in Req : CallInv(q)
      BY DEF IndInv
    <3>3. TypeOK'
      BY <2>1, <3>2 DEF vars, others, tables, wiring, TypeOK
    <3> QED
      BY <2>1, <3>1, <3>2, <3>3, WriteKeeps DEF vars, others, CallInv
  <2>2. ASSUME NEW r \in Req, Begin(r) \/ Service(r) \/ AwaitDone(r) PROVE IndInv'
    BY <2>2, BeginStep, CreateTransactionStep, GetByIDStep, GetAllActiveStep,
       BeginTxStep, InsertTransactionStep, InsertRuleResultStep, CommitStep,
       AwaitDoneStep DEF Service
  <2> QED
    BY <2>1, <2>2, UserWrittenStep, RuleWrittenStep DEF Next
<1> QED
  BY <1>1, <1>2, PTL DEF Spec

\* Every variable of the engine stays within its type.
THEOREM EngineTypes == Spec => []TypeOK
  BY EngineConsistent, PTL DEF IndInv

\* The response lists the rules by priority, then by id.
THEOREM ResponsesOrdered == Spec => []ResponseOrdered
  BY EngineConsistent, PTL DEF IndInv

\* created means stored, and what is stored was created, unless the database
\* failed the call.
THEOREM OutcomesTrue == Spec => []OutcomeTrue
  BY EngineConsistent, PTL DEF IndInv

\* A database transaction is left open only by the repository, after a failure.
THEOREM ConnectionsReturned == Spec => []ConnectionReturned
  BY EngineConsistent, PTL DEF IndInv

\* A transaction for another user was asked for by an ADMIN.
THEOREM SavedForWhom == Spec => []SavedForWhomItMay
<1>1. IndInv => SavedForWhomItMay
  <2> SUFFICES ASSUME IndInv, NEW t \in transactions
               PROVE  t.user = call[t.id].caller \/ call[t.id].role = "ADMIN"
    BY DEF SavedForWhomItMay
  <2>1. t = NewRow(t.id) /\ call[t.id] \in Call /\ MayCreate(call[t.id])
    BY CallsAssumption DEF IndInv, RowInv
  <2>2. t.user = call[t.id].userId
    <3> DEFINE d == AnyMatched(ruleResults[t.id])
    <3>1. t = [id |-> t.id, user |-> call[t.id].userId, cents |-> Cents(call[t.id].amount),
               status |-> IF d THEN "DECLINED" ELSE "APPROVED", isFraud |-> d]
      BY <2>1, Zenon DEF NewRow
    <3> HIDE DEF d
    <3> QED
      BY <3>1
  <2> QED
    BY <2>1, <2>2 DEF MayCreate, Call
<1> QED
  BY <1>1, EngineConsistent, PTL

\* A condition holds of the row that is stored just if the rule matched the
\* request: rounding takes no amount over the limit, and below it only to it.
LEMMA RoundingHarmless ==
    ASSUME NEW c \in Call, NEW dsl, NEW t,
           call[t.id] = c, t.cents = Cents(c.amount)
    PROVE  Evaluate(dsl, c) <=> HoldsOf(t, dsl)
<1>1. c.amount \in Int /\ c.hour \in 0..23 /\ c.usd \in BOOLEAN
  BY DEF Call
<1>2. c.amount > 10000 * 1000 <=> t.cents > 1000000 \/ RoundedToLimit(c)
  BY <1>1, SMT DEF RoundedToLimit, Cents
<1>3. CASE dsl = "amount"
  BY <1>2, <1>3, SMT DEF Evaluate, HoldsOf
<1>4. CASE dsl = "currency"
  BY <1>4, SMT DEF Evaluate, HoldsOf
<1>5. CASE dsl = "hour"
  BY <1>1, <1>5, SMT DEF Evaluate, HoldsOf
<1>6. CASE dsl \notin {"amount", "currency", "hour"}
  BY <1>6, SMT DEF Evaluate, HoldsOf
<1> QED
  BY <1>3, <1>4, <1>5, <1>6, SMT

\* A saved transaction was decided by the rules of one instant of its call, and
\* exactly those are recorded with it.
THEOREM Decisions == Spec => []DecidedByRules
<1>1. IndInv => DecidedByRules
  <2> SUFFICES ASSUME IndInv, NEW t \in transactions
               PROVE  /\ t.isFraud <=> t.status = "DECLINED"
                      /\ \E set \in Instants(t.id) :
                            /\ t.isFraud <=> \E e \in set : HoldsOf(t, e.dsl)
                            /\ {x \in results : x.txn = t.id} =
                                  {[txn |-> t.id, rule |-> e.id, matched |-> HoldsOf(t, e.dsl)] :
                                      e \in set}
    BY DEF DecidedByRules
  <2> DEFINE r == t.id
             rs == ruleResults[r]
             c == call[r]
             d == AnyMatched(rs)
  <2>1. /\ t = NewRow(r) /\ c \in Call /\ ReadAtOneInstant(r)
        /\ {x \in results : x.txn = r} = {NewResult(r, i) : i \in DOMAIN rs}
    BY CallsAssumption DEF IndInv, RowInv
  <2>2. PICK set \in Instants(r) : Recorded(rs) = ResultsOf(set, c)
    BY <2>1 DEF ReadAtOneInstant
  <2>3. t.cents = Cents(c.amount) /\ (t.isFraud <=> d) /\ (t.status = "DECLINED" <=> d)
    <3> DEFINE k == Cents(c.amount)
    <3>1. t = [id |-> r, user |-> c.userId, cents |-> k,
               status |-> IF d THEN "DECLINED" ELSE "APPROVED", isFraud |-> d]
      BY <2>1, Zenon DEF NewRow
    <3>2. d \in BOOLEAN
      BY DEF AnyMatched
    <3> HIDE DEF d, k
    <3>3. t.cents = k /\ t.isFraud = d /\ (t.status = "DECLINED" <=> d)
      BY <3>1, <3>2
    <3> QED
      BY <3>2, <3>3 DEF k
  <2>4. \A e \in set : Evaluate(e.dsl, c) <=> HoldsOf(t, e.dsl)
    BY <2>1, <2>3, RoundingHarmless
  <2> DEFINE V(e) == Evaluate(e.dsl, c)
             H(e) == HoldsOf(t, e.dsl)
             F(i) == [rule |-> rs[i].rule, matched |-> rs[i].matched]
             E(e) == [rule |-> e.id, matched |-> V(e)]
             N(i) == [txn |-> r, rule |-> rs[i].rule, matched |-> rs[i].matched]
             W(e) == [txn |-> r, rule |-> e.id, matched |-> H(e)]
  <2>5. \A e \in set : V(e) \in BOOLEAN /\ H(e) \in BOOLEAN /\ V(e) = H(e)
    <3>1. \A e \in set : V(e) \in BOOLEAN
      BY SMT DEF Evaluate
    <3>2. \A e \in set : H(e) \in BOOLEAN
      BY SMT DEF HoldsOf
    <3>3. \A e \in set : V(e) <=> H(e)
      BY <2>4, SMT
    <3> HIDE DEF V, H
    <3> QED
      BY <3>1, <3>2, <3>3, SMT
  <2>6. {F(i) : i \in DOMAIN rs} = {E(e) : e \in set}
    BY <2>2 DEF Recorded, ResultsOf
  <2>7. {x \in results : x.txn = r} = {N(i) : i \in DOMAIN rs}
    BY <2>1 DEF NewResult
  <2>8. d <=> \E i \in DOMAIN rs : rs[i].matched
    BY DEF AnyMatched
  <2>9. (\E e \in set : H(e)) <=> d
    <3> HIDE DEF V, H
    <3>1. ASSUME NEW e \in set, H(e) PROVE \E i \in DOMAIN rs : rs[i].matched
      <4>1. PICK i \in DOMAIN rs : F(i) = E(e)
        BY <2>6
      <4> QED
        BY <2>5, <3>1, <4>1
    <3>2. ASSUME NEW i \in DOMAIN rs, rs[i].matched PROVE \E e \in set : H(e)
      <4>1. PICK e \in set : F(i) = E(e)
        BY <2>6
      <4> QED
        BY <2>5, <3>2, <4>1
    <3> HIDE DEF d
    <3> QED
      BY <2>8, <3>1, <3>2
  <2>10. {N(i) : i \in DOMAIN rs} = {W(e) : e \in set}
    <3> HIDE DEF V, H
    <3>1. \A i \in DOMAIN rs, e \in set : F(i) = E(e) => N(i) = W(e)
      BY <2>5
    <3>2. \A i \in DOMAIN rs : \E e \in set : N(i) = W(e)
      BY <2>6, <3>1
    <3>3. \A e \in set : \E i \in DOMAIN rs : N(i) = W(e)
      BY <2>6, <3>1
    <3> HIDE DEF N, W
    <3> QED
      BY <3>2, <3>3
  <2>11. {x \in results : x.txn = r} = {W(e) : e \in set}
    BY <2>7, <2>10
  <2>12. t.isFraud <=> \E e \in set : H(e)
    BY <2>3, <2>9, Zenon
  <2>13. t.isFraud <=> t.status = "DECLINED"
    BY <2>3, Zenon
  <2> QED
    BY <2>11, <2>12, <2>13, Zenon
<1> QED
  BY <1>1, EngineConsistent, PTL
=============================================================================
