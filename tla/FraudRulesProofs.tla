--------------------------- MODULE FraudRulesProofs ---------------------------
(***************************************************************************)
(* Theorems about FraudRules, for every set of requests, rules and names   *)
(* and every value of the bounds.                                          *)
(***************************************************************************)
EXTENDS FraudRules, TLAPS

\* A step of request r leaves the others alone.
Others(r) ==
    \A q \in Req \ {r} :
        /\ pc'[q] = pc[q] /\ call'[q] = call[q]
        /\ answer'[q] = answer[q] /\ snap'[q] = snap[q]

LEMMA CallFacts == \A c \in Calls : c \in Call /\ c.target \in RuleId
  BY CallsAssumption DEF Call

\* A step of request r keeps the invariant if it keeps the types, the unique
\* names and the part of r, adds no row but that of r, and changes no row that
\* a request not marked as overlapped has read.
LEMMA StepKeeps ==
    ASSUME IndInv, TypeOK', UniqueName', NEW r \in Req, Others(r),
           faulted \subseteq faulted',
           \A x \in RuleId : Stored(x) => Stored(x)',
           \A x \in RuleId : Stored(x)' => Stored(x) \/ x = r,
           \A q \in Req \ {r} : pc[q] = "Update" /\ q \notin overlapped' =>
               q \notin overlapped /\ rules'[call[q].target] = rules[call[q].target],
           Settled(r)', Checked(r)', SnapInv(r)', CreationTrue(r)'
    PROVE  IndInv'
<1>1. ASSUME NEW q \in Req \ {r}
      PROVE  Settled(q)' /\ Checked(q)' /\ SnapInv(q)' /\ CreationTrue(q)'
  <2>1. Settled(q) /\ Checked(q) /\ SnapInv(q) /\ CreationTrue(q) /\ q \in RuleId
    BY DEF IndInv, CreationsTrue, RuleId
  <2>2. /\ pc'[q] = pc[q] /\ call'[q] = call[q]
        /\ answer'[q] = answer[q] /\ snap'[q] = snap[q]
        /\ Stored(q)' <=> Stored(q)
    BY <2>1 DEF Others
  <2>3. Settled(q)' /\ Checked(q)' /\ CreationTrue(q)'
    BY <2>1, <2>2 DEF Settled, Checked, CreationTrue
  <2>4. pc[q] = "Update" => call[q].target \in RuleId
    BY <2>1, CallFacts DEF Settled
  <2>5. SnapInv(q)'
    BY <2>1, <2>2, <2>4 DEF SnapInv
  <2> QED
    BY <2>3, <2>5
<1> QED
  BY <1>1 DEF IndInv, CreationsTrue

\* Facts about a request in flight that every action below starts from.
LEMMA AtWork ==
    ASSUME IndInv, NEW r \in Req, InFlight(r)
    PROVE  /\ TypeOK /\ UniqueName
           /\ pc[r] \notin {"idle", "answered", "lost"}
           /\ Settled(r) /\ Checked(r) /\ SnapInv(r)
           /\ call[r] \in Call /\ call[r].target \in RuleId
           /\ answer[r] = 0 /\ ~Stored(r) /\ r \in RuleId
<1>1. TypeOK /\ UniqueName /\ Settled(r) /\ Checked(r) /\ SnapInv(r)
  BY DEF IndInv
<1> QED
  BY <1>1, CallFacts DEF Settled, InFlight, RuleId

\* The steps of a handler that do not write the table.
Quiet(r) ==
    /\ UNCHANGED <<users, rules, call, crashes, writes, overlapped>>
    /\ faulted \subseteq faulted' /\ faulted' \subseteq Req

\* An answer that leaves no trace in the table.
LEMMA ReplyKeeps ==
    ASSUME IndInv, NEW r \in Req, InFlight(r),
           NEW code \in Code \ {201}, Reply(r, code), Quiet(r), snap' = snap
    PROVE  IndInv'
<1> USE AtWork
<1>1. /\ pc' = [pc EXCEPT ![r] = "answered"]
      /\ answer' = [answer EXCEPT ![r] = code]
  BY DEF Reply
<1>2. pc'[r] = "answered" /\ answer'[r] = code
  BY <1>1 DEF TypeOK
<1>3. TypeOK'
  BY <1>1 DEF TypeOK, PC, Quiet
<1>4. UniqueName' /\ \A x \in RuleId : Stored(x)' <=> Stored(x)
  BY DEF UniqueName, Stored, Quiet
<1>5. Others(r)
  BY <1>1 DEF TypeOK, Others, Quiet
<1>6. Settled(r)' /\ Checked(r)' /\ SnapInv(r)' /\ CreationTrue(r)'
  BY <1>2, <1>4 DEF Settled, Checked, SnapInv, CreationTrue, Quiet
<1> QED
  BY <1>3, <1>4, <1>5, <1>6, StepKeeps DEF Quiet

\* A handler that goes on to its next call.
LEMMA GotoKeeps ==
    ASSUME IndInv, NEW r \in Req, InFlight(r),
           NEW p \in PC \ {"idle", "answered", "lost"}, Goto(r, p), Quiet(r),
           snap' \in [Req -> Row \cup {NoRow}],
           \A q \in Req \ {r} : snap'[q] = snap[q],
           Checked(r)', SnapInv(r)'
    PROVE  IndInv'
<1> USE AtWork
<1>1. pc' = [pc EXCEPT ![r] = p] /\ answer' = answer
  BY DEF Goto
<1>2. pc'[r] = p
  BY <1>1 DEF TypeOK
<1>3. TypeOK'
  BY <1>1 DEF TypeOK, Quiet
<1>4. UniqueName' /\ \A x \in RuleId : Stored(x)' <=> Stored(x)
  BY DEF UniqueName, Stored, Quiet
<1>5. Others(r)
  BY <1>1 DEF TypeOK, Others, Quiet
<1>6. Settled(r)' /\ CreationTrue(r)'
  BY <1>1, <1>2, <1>4 DEF Settled, CreationTrue, Quiet
<1> QED
  BY <1>3, <1>4, <1>5, <1>6, StepKeeps DEF Quiet

\* One lemma per action: it preserves the inductive invariant.
LEMMA ArriveStep ==
    ASSUME IndInv, NEW r \in Req, Arrive(r) PROVE IndInv'
<1>1. /\ TypeOK /\ UniqueName /\ Settled(r) /\ pc[r] = "idle" /\ r \in RuleId
      /\ answer[r] = 0 /\ ~Stored(r)
  BY DEF IndInv, Arrive, Settled, RuleId
<1>2. PICK c \in Calls : call' = [call EXCEPT ![r] = c]
  BY DEF Arrive
<1>3. /\ pc' = [pc EXCEPT ![r] = "ProvToken"]
      /\ UNCHANGED <<users, rules, answer, snap, faulted, crashes, writes, overlapped>>
  BY DEF Arrive, Goto, others
<1>4. pc'[r] = "ProvToken" /\ call'[r] = c
  BY <1>1, <1>2, <1>3 DEF TypeOK
<1>5. TypeOK'
  BY <1>1, <1>2, <1>3 DEF TypeOK, PC
<1>6. UniqueName' /\ \A x \in RuleId : Stored(x)' <=> Stored(x)
  BY <1>1, <1>3 DEF UniqueName, Stored
<1>7. Others(r)
  BY <1>1, <1>2, <1>3 DEF TypeOK, Others
<1>8. Settled(r)' /\ Checked(r)' /\ SnapInv(r)' /\ CreationTrue(r)'
  BY <1>1, <1>3, <1>4, <1>6 DEF Settled, Checked, SnapInv, CreationTrue
<1> QED
  BY <1>3, <1>5, <1>6, <1>7, <1>8, StepKeeps

\* The checks of the caller, the body and the name.
LEMMA CheckStep ==
    ASSUME IndInv, NEW r \in Req,
           \/ ProvToken(r) \/ CreateFraud(r) \/ CheckNameExist(r)
           \/ GetFraud(r) \/ UpdateFraudID(r) \/ DeactivateFraudID(r)
    PROVE  IndInv'
<1>1. InFlight(r) /\ snap' = snap
  BY DEF ProvToken, CreateFraud, CheckNameExist, GetFraud, UpdateFraudID,
     DeactivateFraudID, InFlight, Untouched
<1>2. Quiet(r)
  BY <1>1, AtWork DEF ProvToken, CreateFraud, CheckNameExist, GetFraud,
     UpdateFraudID, DeactivateFraudID, Quiet, Untouched, others, Fault, Succeeds, TypeOK
<1>3. CASE \E code \in {400, 401, 403, 500} : Reply(r, code)
  BY <1>1, <1>2, <1>3, ReplyKeeps DEF Code
<1>4. ASSUME NEW p \in {"route", "CheckName", "Create", "GetByID"}, Goto(r, p),
             p \in {"CheckName", "Create"} => call[r].op = "create" /\ Complete(call[r]),
             p = "GetByID" => call[r].op # "create"
      PROVE  IndInv'
  <2>1. pc'[r] = p
    BY <1>1, <1>4, AtWork DEF Goto, TypeOK
  <2>2. Checked(r)' /\ SnapInv(r)'
    BY <1>2, <1>4, <2>1 DEF Checked, SnapInv, Quiet, Complete
  <2>3. snap' \in [Req -> Row \cup {NoRow}]
    BY <1>1, AtWork DEF TypeOK
  <2> QED
    BY <1>1, <1>2, <1>4, <2>2, <2>3, GotoKeeps DEF PC
<1>5. CASE ProvToken(r)
  BY <1>3, <1>4, <1>5 DEF ProvToken
<1>6. CASE CreateFraud(r)
  BY <1>3, <1>4, <1>6 DEF CreateFraud
<1>7. CASE CheckNameExist(r)
  BY <1>1, <1>3, <1>4, <1>7, AtWork DEF CheckNameExist, Checked
<1>8. CASE GetFraud(r) \/ UpdateFraudID(r) \/ DeactivateFraudID(r)
  BY <1>3, <1>4, <1>8 DEF GetFraud, UpdateFraudID, DeactivateFraudID
<1> QED
  BY <1>5, <1>6, <1>7, <1>8

LEMMA GetBYIDStep ==
    ASSUME IndInv, NEW r \in Req, GetBYID(r) PROVE IndInv'
<1>1. InFlight(r) /\ pc[r] = "GetByID"
  BY DEF GetBYID, InFlight
<1>2. Quiet(r)
  BY <1>1, AtWork DEF GetBYID, Quiet, others, Fault, Succeeds, TypeOK
<1>3. CASE snap' = snap /\ \E code \in {200, 500} : Reply(r, code)
  BY <1>1, <1>2, <1>3, ReplyKeeps DEF Code
<1>4. CASE /\ Stored(call[r].target) /\ call[r].op # "get"
           /\ snap' = [snap EXCEPT ![r] = RowRead(call[r].target)]
           /\ Goto(r, "Update")
  <2>1. rules[call[r].target] \in Row /\ call[r].op \in {"update", "deactivate"}
    BY <1>1, <1>4, AtWork DEF Stored, TypeOK, Checked, Call
  <2>2. pc'[r] = "Update" /\ snap'[r] = rules[call[r].target]
    BY <1>1, <1>4, AtWork DEF Goto, TypeOK, RowRead
  <2>3. /\ snap' \in [Req -> Row \cup {NoRow}]
        /\ \A q \in Req \ {r} : snap'[q] = snap[q]
    BY <1>1, <1>4, <2>1, AtWork DEF TypeOK, RowRead
  <2>4. Checked(r)' /\ SnapInv(r)'
    BY <1>2, <1>4, <2>1, <2>2 DEF Checked, SnapInv, Quiet, Stored
  <2> QED
    BY <1>1, <1>2, <1>4, <2>3, <2>4, GotoKeeps DEF PC
<1> QED
  BY <1>3, <1>4 DEF GetBYID

\* A creation with all its fields makes a row that the table can hold.
LEMMA CompleteRow ==
    ASSUME NEW c \in Call, Complete(c) PROVE NewRow(c) \in Row
<1>1. c.name \in Name /\ c.text \in Text
  BY DEF Complete, Call
<1>2. (c.enabled = "true") \in BOOLEAN
  OBVIOUS
<1> QED
  BY <1>1, <1>2 DEF NewRow, Row

\* A new row has a name that no other row has.
LEMMA CreateStep ==
    ASSUME IndInv, NEW r \in Req, Create(r) PROVE IndInv'
<1>1. /\ InFlight(r) /\ pc[r] = "Create" /\ snap' = snap
      /\ UNCHANGED <<users, call, crashes, writes, overlapped>>
  BY DEF Create, InFlight, others
<1>2. faulted \subseteq faulted' /\ faulted' \subseteq Req
  BY <1>1, AtWork DEF Create, Fault, Succeeds, TypeOK
<1>3. CASE rules' = rules /\ Reply(r, 500)
  BY <1>1, <1>2, <1>3, ReplyKeeps DEF Code, Quiet
<1>4. ASSUME NEW code \in {201, 500}, Reply(r, code), code = 201 \/ r \in faulted',
             Storable(call[r], r, call[r].name), Inserted(r)
      PROVE  IndInv'
  <2>1. NewRow(call[r]) \in Row /\ NewRow(call[r]) # NoRow
    BY <1>1, AtWork, CompleteRow, NoRowAssumption DEF Checked
  <2>2. /\ pc' = [pc EXCEPT ![r] = "answered"]
        /\ answer' = [answer EXCEPT ![r] = code]
    BY <1>4 DEF Reply
  <2>3. /\ pc'[r] = "answered" /\ answer'[r] = code
        /\ rules'[r] = NewRow(call[r])
        /\ \A x \in RuleId \ {r} : rules'[x] = rules[x]
    BY <1>1, <1>4, <2>2, AtWork DEF TypeOK, Inserted
  <2>4. TypeOK'
    <3>1. rules' \in [RuleId -> Row \cup {NoRow}]
      BY <1>1, <1>4, <2>1, AtWork DEF TypeOK, Inserted
    <3> QED
      BY <1>1, <1>2, <2>2, <3>1, AtWork DEF TypeOK, PC, Code
  <2>5. \A x \in RuleId \ {r} : Stored(x) => rules[x].name # call[r].name
    BY <1>1, <1>4, AtWork DEF Storable, WithName
  <2>6. UniqueName'
    <3>1. rules'[r].name = call[r].name
      BY <2>3 DEF NewRow
    <3> QED
      BY <1>1, <2>3, <2>5, <3>1, AtWork DEF UniqueName, Stored
  <2>7. Others(r)
    BY <1>1, <2>2, AtWork DEF TypeOK, Others
  <2>8. /\ Stored(r)' /\ ~Stored(r)
        /\ \A x \in RuleId \ {r} : Stored(x)' <=> Stored(x)
    BY <1>1, <2>1, <2>3, AtWork DEF Stored
  <2>9. Settled(r)' /\ Checked(r)' /\ SnapInv(r)' /\ CreationTrue(r)'
    BY <1>1, <1>4, <2>3, <2>8, AtWork DEF Settled, Checked, SnapInv, CreationTrue
  <2>10. \A q \in Req \ {r} : pc[q] = "Update" =>
             rules'[call[q].target] = rules[call[q].target]
    <3>1. ASSUME NEW q \in Req \ {r}, pc[q] = "Update"
          PROVE  call[q].target \in RuleId /\ Stored(call[q].target)
      BY <3>1, AtWork DEF InFlight, SnapInv
    <3> QED
      BY <2>3, <2>8, <3>1
  <2> QED
    BY <1>1, <1>2, <2>4, <2>6, <2>7, <2>8, <2>9, <2>10, StepKeeps
<1>5. Fault(r) => r \in faulted'
  BY DEF Fault
<1> QED
  BY <1>3, <1>4, <1>5 DEF Create

\* What a call makes of a row that was read is again a row.
LEMMA ChangedRow ==
    ASSUME NEW c \in Call, NEW row \in Row
    PROVE  /\ Changed(c, row) \in Row
           /\ KeepsName(c) => Changed(c, row).name = row.name
           /\ Changed(c, row).enabled =>
                 row.enabled \/ (c.op # "deactivate" /\ c.enabled = "true")
<1>1. CASE c.op = "deactivate"
  BY <1>1 DEF Changed, Row
<1>2. CASE c.op # "deactivate"
  <2> DEFINE name == IF c.name = None THEN row.name ELSE c.name
             text == IF c.text = None THEN row.text ELSE c.text
             enabled == IF c.enabled = "none" THEN row.enabled ELSE c.enabled = "true"
  <2>1. name \in Name /\ text \in Text
    BY DEF Call, Row
  <2>2. row.enabled \in BOOLEAN
    BY DEF Row
  <2>3. enabled \in BOOLEAN
    BY <2>2
  <2>4. enabled => row.enabled \/ c.enabled = "true"
    OBVIOUS
  <2>5. KeepsName(c) => name = row.name
    BY <1>2 DEF KeepsName
  <2>6. Changed(c, row) = [name |-> name, text |-> text, enabled |-> enabled]
    BY <1>2 DEF Changed
  <2> HIDE DEF name, text, enabled
  <2>7. [name |-> name, text |-> text, enabled |-> enabled] \in Row
    BY <2>1, <2>3 DEF Row
  <2>8. Changed(c, row).enabled = enabled /\ Changed(c, row).name = name
    BY <2>6
  <2> QED
    BY <1>2, <2>4, <2>5, <2>6, <2>7, <2>8
<1> QED
  BY <1>1, <1>2

\* What an accepted write does, whatever its client is told.
LEMMA WriteKeeps ==
    ASSUME IndInv, NEW r \in Req, pc[r] = "Update", snap' = snap,
           UNCHANGED <<users, call, crashes, writes>>,
           faulted \subseteq faulted', faulted' \subseteq Req,
           Accepted(r), WriteRow(r), NEW code \in {200, 204, 500}, Reply(r, code)
    PROVE  IndInv'
<1> DEFINE x == call[r].target
<1>1. InFlight(r)
  BY DEF InFlight
<1>2. x \in RuleId /\ Stored(x) /\ snap[r] \in Row /\ call[r] \in Call
  BY <1>1, AtWork DEF SnapInv
<1>3. Written(r) \in Row /\ Written(r) # NoRow
  BY <1>2, ChangedRow, NoRowAssumption DEF Written
<1>4. /\ pc' = [pc EXCEPT ![r] = "answered"]
      /\ answer' = [answer EXCEPT ![r] = code]
      /\ rules' = [rules EXCEPT ![x] = Written(r)]
      /\ overlapped' = overlapped \cup
            {q \in Req \ {r} : pc[q] = "Update" /\ call[q].target = x}
  BY DEF Reply, WriteRow
<1>5. /\ pc'[r] = "answered" /\ answer'[r] = code
      /\ rules'[x] = Written(r)
      /\ \A y \in RuleId \ {x} : rules'[y] = rules[y]
  BY <1>1, <1>2, <1>4, AtWork DEF TypeOK
<1>6. TypeOK'
  <2>1. rules' \in [RuleId -> Row \cup {NoRow}]
    BY <1>1, <1>2, <1>3, <1>4, AtWork DEF TypeOK
  <2> QED
    BY <1>1, <1>4, <2>1, AtWork DEF TypeOK, PC, Code
<1>7. \A y \in RuleId : Stored(y)' <=> Stored(y)
  BY <1>2, <1>3, <1>5 DEF Stored
<1>8. UniqueName'
  <2>1. \A y \in RuleId \ {x} : Stored(y) => rules[y].name # Written(r).name
    BY <1>2 DEF Accepted, Storable, WithName
  <2> QED
    BY <1>1, <1>5, <1>7, <2>1, AtWork DEF UniqueName
<1>9. Others(r)
  BY <1>1, <1>4, AtWork DEF TypeOK, Others
<1>10. Settled(r)' /\ Checked(r)' /\ SnapInv(r)' /\ CreationTrue(r)'
  BY <1>1, <1>5, <1>7, AtWork DEF Settled, Checked, SnapInv, CreationTrue
<1>11. \A q \in Req \ {r} : pc[q] = "Update" /\ q \notin overlapped' =>
           q \notin overlapped /\ rules'[call[q].target] = rules[call[q].target]
  <2>1. ASSUME NEW q \in Req \ {r}, pc[q] = "Update", q \notin overlapped'
        PROVE  /\ q \notin overlapped /\ call[q].target # x
               /\ call[q].target \in RuleId
    BY <1>4, <2>1, AtWork DEF InFlight
  <2> QED
    BY <1>5, <2>1
<1> QED
  BY <1>6, <1>7, <1>8, <1>9, <1>10, <1>11, StepKeeps

LEMMA UpdateStep ==
    ASSUME IndInv, NEW r \in Req, Update(r) PROVE IndInv'
<1>1. /\ InFlight(r) /\ pc[r] = "Update" /\ snap' = snap
      /\ UNCHANGED <<users, call, crashes, writes>>
  BY DEF Update, InFlight, others
<1>2. faulted \subseteq faulted' /\ faulted' \subseteq Req
  BY <1>1, AtWork DEF Update, Fault, Succeeds, TypeOK
<1>3. CASE RowKept /\ Reply(r, 500)
  BY <1>1, <1>2, <1>3, ReplyKeeps DEF Code, Quiet, RowKept
<1>4. CASE Accepted(r) /\ WriteRow(r) /\ \E code \in {200, 204, 500} : Reply(r, code)
  BY <1>1, <1>2, <1>4, WriteKeeps
<1> QED
  BY <1>3, <1>4 DEF Update, Done

\* The end of the process, and the writes of users.
LEMMA SurroundStep ==
    ASSUME IndInv,
           Crash \/ (\E u \in UserId, s \in {"active", "inactive"} : UserWritten(u, s))
                 \/ UNCHANGED vars
    PROVE  IndInv'
<1>1. UNCHANGED <<rules, call, answer, snap, faulted, overlapped>>
  BY DEF Crash, UserWritten, vars
<1>2. \A q \in Req : pc'[q] = pc[q] \/ (InFlight(q) /\ pc'[q] = "lost")
  BY DEF Crash, UserWritten, vars
<1>3. TypeOK'
  <2>1. TypeOK
    BY DEF IndInv
  <2>2. users' \in [UserId -> {"absent", "active", "inactive"}]
    BY <2>1 DEF TypeOK, Crash, UserWritten, vars
  <2>3. pc' \in [Req -> PC]
    BY <2>1 DEF TypeOK, Crash, UserWritten, vars, PC
  <2>4. crashes' \in 0..MaxCrashes /\ writes' \in 0..MaxWrites
    BY <2>1, BoundsAssumption DEF TypeOK, Crash, UserWritten, vars
  <2> QED
    BY <1>1, <2>1, <2>2, <2>3, <2>4 DEF TypeOK
<1>4. UniqueName'
  BY <1>1 DEF IndInv, UniqueName, Stored
<1>5. CreationsTrue'
  BY <1>1 DEF IndInv, CreationsTrue, CreationTrue, Stored
<1>6. ASSUME NEW q \in Req PROVE Settled(q)' /\ Checked(q)' /\ SnapInv(q)'
  BY <1>1, <1>2 DEF IndInv, Settled, Checked, SnapInv, Stored, InFlight
<1> QED
  BY <1>3, <1>4, <1>5, <1>6 DEF IndInv

LEMMA InitIndInv == Init => IndInv
<1> SUFFICES ASSUME Init PROVE IndInv
  OBVIOUS
<1>1. PICK old \in [OldRule -> Row \cup {NoRow}] :
          rules = [x \in RuleId |-> IF x \in OldRule THEN old[x] ELSE NoRow]
  BY DEF Init
<1>2. \A r \in Req : ~Stored(r)
  BY <1>1, OldRuleAssumption DEF Stored, RuleId
<1>3. TypeOK
  <2>1. rules \in [RuleId -> Row \cup {NoRow}]
    BY <1>1
  <2> QED
    BY <2>1, BoundsAssumption DEF Init, TypeOK, PC, Code
<1>4. UniqueName
  <2>1. ASSUME NEW x \in RuleId, NEW y \in RuleId, Stored(x), Stored(y),
               rules[x].name = rules[y].name
        PROVE  x = y
    <3>1. x \in OldRule
      BY <1>2, <2>1 DEF RuleId
    <3>2. WithName(rules[x].name) = {x}
      BY <2>1, <3>1 DEF Init
    <3> QED
      BY <2>1, <3>2 DEF WithName
  <2> QED
    BY <2>1 DEF UniqueName
<1>5. CreationsTrue /\ \A r \in Req : Settled(r) /\ Checked(r) /\ SnapInv(r)
  BY <1>2 DEF Init, CreationsTrue, CreationTrue, Settled, Checked, SnapInv
<1> QED
  BY <1>3, <1>4, <1>5 DEF IndInv

LEMMA NextIndInv == IndInv /\ [Next]_vars => IndInv'
<1> SUFFICES ASSUME IndInv, [Next]_vars PROVE IndInv'
  OBVIOUS
<1>1. ASSUME NEW r \in Req, Arrive(r) \/ Handler(r) PROVE IndInv'
  BY <1>1, ArriveStep, CheckStep, GetBYIDStep, CreateStep, UpdateStep DEF Handler
<1> QED
  BY <1>1, SurroundStep DEF Next

\* The inductive invariant holds of every reachable state: whatever requests,
\* faults, restarts and writes of users interleave.
THEOREM RulesConsistent == Spec => []IndInv
<1>1. Init => IndInv
  BY InitIndInv
<1>2. IndInv /\ [Next]_vars => IndInv'
  BY NextIndInv
<1> QED
  BY <1>1, <1>2, PTL DEF Spec

-----------------------------------------------------------------------------
(***************************************************************************)
(* What follows from the inductive invariant.                              *)
(***************************************************************************)

\* The variables stay within their types, so the table never holds a rule
\* without its fields.
THEOREM RuleTypes == Spec => []TypeOK
<1>1. IndInv => TypeOK
  BY DEF IndInv
<1> QED
  BY <1>1, RulesConsistent, PTL

\* Two rules never share a name, although creations look for it long before
\* they insert and updates do not look at all.
THEOREM NamesUnique == Spec => []UniqueName
<1>1. IndInv => UniqueName
  BY DEF IndInv
<1> QED
  BY <1>1, RulesConsistent, PTL

\* A client may believe what it is told about the rule it asked for.
THEOREM CreationAnswers == Spec => []CreationsTrue
<1>1. IndInv => CreationsTrue
  BY DEF IndInv
<1> QED
  BY <1>1, RulesConsistent, PTL

\* Only the handler of a request answers it.
LEMMA AnswersOwn ==
    ASSUME IndInv, [Next]_vars, NEW r \in Req, pc[r] = "Update", answer'[r] # 0
    PROVE  Update(r)
<1>1. answer \in [Req -> Code] /\ answer[r] = 0
  BY AtWork DEF InFlight, IndInv, TypeOK
<1>2. ASSUME NEW q \in Req, Handler(q)
      PROVE  answer' = answer \/ \E code : answer' = [answer EXCEPT ![q] = code]
  BY <1>2 DEF Handler, ProvToken, CreateFraud, CheckNameExist, Create, GetFraud,
     UpdateFraudID, DeactivateFraudID, GetBYID, Update, Reply, Goto
<1>3. PICK q \in Req : Handler(q)
  <2>1. \A q \in Req : Arrive(q) => answer' = answer
    BY DEF Arrive, Goto
  <2> QED
    BY <1>1, <2>1 DEF Next, Crash, UserWritten, vars
<1>4. q = r
  BY <1>1, <1>2, <1>3
<1> QED
  BY <1>3, <1>4 DEF Handler, ProvToken, CreateFraud, CheckNameExist, Create, GetFraud,
     UpdateFraudID, DeactivateFraudID, GetBYID

\* An update or deactivation that no write overlapped is atomic.
THEOREM RuleUpdatesAtomic == Spec => AtomicUnlessOverlapped
<1>1. ASSUME IndInv, [Next]_vars, NEW r \in Req, Succeeded(r), r \notin overlapped
      PROVE  AtomicStep(r)
  <2>1. Update(r) /\ pc[r] = "Update" /\ answer \in [Req -> Code]
    BY <1>1, AnswersOwn DEF Succeeded, IndInv, TypeOK
  <2>2. snap[r] = rules[call[r].target]
    BY <1>1, <2>1, AtWork DEF InFlight, SnapInv
  <2>3. ~Reply(r, 500)
    BY <1>1, <2>1 DEF Reply, Succeeded
  <2>4. WriteRow(r)
    BY <2>1, <2>3 DEF Update
  <2> QED
    BY <2>2, <2>4 DEF WriteRow, AtomicStep, Written
<1>2. IndInv /\ [Next]_vars =>
          [\A r \in Req : Succeeded(r) /\ r \notin overlapped => AtomicStep(r)]_vars
  BY <1>1
<1> QED
  BY <1>2, RulesConsistent, PTL DEF Spec, AtomicUnlessOverlapped

\* A call that does not rename is refused over a name only when it overlapped.
THEOREM Refusals == Spec => RefusedForCause
<1>1. ASSUME IndInv, [Next]_vars, NEW r \in Req, Refuses(r), KeepsName(call[r])
      PROVE  r \in overlapped
  <2>1. Update(r) /\ pc[r] = "Update" /\ InFlight(r) /\ answer \in [Req -> Code]
    BY <1>1, AnswersOwn DEF Refuses, IndInv, TypeOK, InFlight
  <2>2. ~Reply(r, Done(r)) /\ ~Fault(r)
    BY <1>1, <2>1 DEF Reply, Refuses, Done, Fault
  <2>3. ~Accepted(r)
    BY <2>1, <2>2 DEF Update
  <2>4. SUFFICES ASSUME r \notin overlapped PROVE FALSE
    OBVIOUS
  <2>5. /\ Stored(call[r].target) /\ call[r].target \in RuleId
        /\ snap[r] = rules[call[r].target] /\ snap[r] \in Row /\ call[r] \in Call
    BY <1>1, <2>1, <2>4, AtWork DEF SnapInv
  <2>6. Written(r).name = rules[call[r].target].name
    BY <1>1, <2>5, ChangedRow DEF Written
  <2>7. WithName(Written(r).name) \subseteq {call[r].target}
    BY <1>1, <2>5, <2>6 DEF WithName, IndInv, UniqueName
  <2>8. call[r].op = "update" => call[r].body = "valid"
    BY <1>1 DEF KeepsName
  <2> QED
    BY <2>3, <2>5, <2>7, <2>8 DEF Accepted, Storable, Call
<1>2. IndInv /\ [Next]_vars =>
          [\A r \in Req : Refuses(r) /\ KeepsName(call[r]) => r \in overlapped]_vars
  BY <1>1
<1> QED
  BY <1>2, RulesConsistent, PTL DEF Spec, RefusedForCause

\* The ways the table is written.
LEMMA RulesWritten ==
    ASSUME [Next]_vars
    PROVE  \/ rules' = rules
           \/ \E r \in Req : Create(r) /\ Inserted(r)
           \/ \E r \in Req : Update(r) /\ WriteRow(r)
<1>1. ASSUME NEW r \in Req, Arrive(r) \/ (Handler(r) /\ ~Create(r) /\ ~Update(r))
      PROVE  rules' = rules
  BY <1>1 DEF Arrive, Handler, ProvToken, CreateFraud, CheckNameExist, GetFraud,
     UpdateFraudID, DeactivateFraudID, GetBYID, Untouched
<1>2. CASE Crash \/ (\E u \in UserId, s \in {"active", "inactive"} : UserWritten(u, s))
           \/ UNCHANGED vars
  BY <1>2 DEF Crash, UserWritten, vars
<1>3. ASSUME NEW r \in Req, Create(r) PROVE rules' = rules \/ Inserted(r)
  BY <1>3 DEF Create
<1>4. ASSUME NEW r \in Req, Update(r) PROVE rules' = rules \/ WriteRow(r)
  BY <1>4 DEF Update, RowKept
<1> QED
  BY <1>1, <1>2, <1>3, <1>4 DEF Next, Handler

\* A rule that was switched off is only switched on by a call that asks for it
\* or one that was overlapped.
THEOREM Reenabling == Spec => ReenabledOnRequest
<1>1. ASSUME IndInv, [Next]_vars, NEW x \in RuleId, Switched(x)
      PROVE  \E r \in Req : WritesFor(r, x) /\ (AsksToEnable(r) \/ r \in overlapped)
  <2>1. TypeOK /\ Stored(x) /\ ~rules[x].enabled /\ rules'[x].enabled
    BY <1>1 DEF IndInv, Switched
  <2>2. ASSUME NEW r \in Req, Create(r), Inserted(r) PROVE FALSE
    <3>1. ~Stored(r)
      BY <1>1, <2>2, AtWork DEF Create, InFlight
    <3>2. rules'[x] = rules[x]
      BY <2>1, <2>2, <3>1 DEF Inserted, TypeOK
    <3> QED
      BY <2>1, <3>2
  <2>3. rules' # rules
    BY <2>1
  <2>4. PICK r \in Req : Update(r) /\ WriteRow(r)
    BY <1>1, <2>2, <2>3, RulesWritten
  <2>5. /\ pc[r] = "Update" /\ InFlight(r)
        /\ rules' = [rules EXCEPT ![call[r].target] = Written(r)]
    BY <2>4 DEF Update, WriteRow, InFlight
  <2>6. /\ SnapInv(r) /\ call[r] \in Call /\ snap[r] \in Row
        /\ call[r].op \in {"update", "deactivate"}
    BY <1>1, <2>5, AtWork DEF SnapInv
  <2>7. call[r].target = x /\ rules'[x] = Written(r)
    BY <2>1, <2>5 DEF TypeOK
  <2>8. WritesFor(r, x)
    BY <2>1, <2>4, <2>7 DEF Update, Reply, WritesFor, TypeOK
  <2>9. AsksToEnable(r) \/ r \in overlapped
    <3>1. Changed(call[r], snap[r]).enabled
      BY <2>1, <2>7 DEF Written
    <3>2. snap[r].enabled \/ (call[r].op # "deactivate" /\ call[r].enabled = "true")
      BY <2>6, <3>1, ChangedRow
    <3>3. r \notin overlapped => ~snap[r].enabled
      BY <2>1, <2>5, <2>6, <2>7 DEF SnapInv
    <3> QED
      BY <2>6, <3>2, <3>3 DEF AsksToEnable
  <2> QED
    BY <2>8, <2>9
<1>2. IndInv /\ [Next]_vars =>
          [\A x \in RuleId : Switched(x) =>
              \E r \in Req : WritesFor(r, x) /\ (AsksToEnable(r) \/ r \in overlapped)]_vars
  BY <1>1
<1> QED
  BY <1>2, RulesConsistent, PTL DEF Spec, ReenabledOnRequest
=============================================================================
