---------------------------- MODULE AccountsProofs ----------------------------
(***************************************************************************)
(* Theorems about Accounts, for every set of requests and addresses and    *)
(* every value of the bounds.                                              *)
(***************************************************************************)
EXTENDS Accounts, TLAPS

\* A step of request r leaves the others alone, and what r asked for stays.
Others(r) ==
    \A q \in Req \ {r} :
        /\ pc'[q] = pc[q] /\ call'[q] = call[q] /\ bearer'[q] = bearer[q]
        /\ answer'[q] = answer[q] /\ snap'[q] = snap[q] /\ token'[q] = token[q]
AskedStays(r) ==
    /\ pc'[r] # "idle"
    /\ pc[r] # "idle" => call'[r] = call[r] /\ bearer'[r] = bearer[r]

\* Whoever was made an administrator by a request remains so.
LEMMA GrantedStays ==
    ASSUME TypeOK, \A q \in Req : Entitled(q),
           NEW r \in Req, Others(r), AskedStays(r), token[r] = NoToken,
           NEW u \in UserId, Granted(u)
    PROVE  Granted(u)'
<1>1. CASE u = Root
  BY <1>1 DEF Granted
<1>2. CASE \E p \in Req : Grants(p, u)
  <2>1. PICK p \in Req : Grants(p, u)
    BY <1>2
  <2>2. bearer[p] \in Req /\ token[bearer[p]] # NoToken
    BY <2>1 DEF TypeOK, Entitled, Grants
  <2>3. call'[p] = call[p] /\ bearer'[p] = bearer[p] /\ pc'[p] # "idle"
    BY <2>1 DEF Others, AskedStays, Grants
  <2>4. token'[bearer[p]] = token[bearer[p]]
    BY <2>2 DEF Others
  <2>5. Grants(p, u)'
    BY <2>1, <2>3, <2>4 DEF Grants, Claim
  <2> QED
    BY <2>5 DEF Granted
<1> QED
  BY <1>1, <1>2 DEF Granted

\* A step of a request that is still at work keeps the invariant if it keeps
\* the types and the part of that request, and if the only rows it adds or
\* changes are as the next four assumptions say.
LEMMA StepKeeps ==
    ASSUME IndInv, TypeOK', NEW r \in Req, pc[r] \notin {"answered", "lost"},
           server = "up", server' = "up",
           Others(r), AskedStays(r), faulted \subseteq faulted',
           \A v \in UserId : Stored(v) => RowKept(v),
           \A v \in UserId : Stored(v)' /\ ~Stored(v) =>
               v = r /\ WithEmail(users'[v].email) = {},
           \A v \in UserId : RowGranted(v)',
           \A q \in Req \ {r} : pc[q] = "Update" /\ q \notin overlapped' =>
               q \notin overlapped /\ users'[call[q].target] = users[call[q].target],
           Settled(r)', Entitled(r)', SnapInv(r)', AnswerTrue(r)', TokenGranted(r)'
    PROVE  IndInv'
<1>a. TypeOK /\ UniqueEmail /\ AnswerMatchesTable /\ AdminsGranted /\ Bootstrapped
  BY DEF IndInv
<1>b. \A q \in Req : Settled(q) /\ Entitled(q) /\ SnapInv(q)
  BY DEF IndInv
<1>c. token[r] = NoToken
  BY <1>b DEF Settled
<1>d. \A u \in UserId : Granted(u) => Granted(u)'
  BY <1>a, <1>b, <1>c, GrantedStays
<1>e. \A e : WithEmail(e) # {} => WithEmail(e)' # {}
  BY DEF WithEmail, RowKept
<1>f. \A q \in Req : q \in UserId /\ q # Root
  BY RootAssumption DEF UserId
<1>g. Stored(Root) /\ users[Root].email = AdminEmail
  BY <1>a DEF Bootstrapped, ServedWithAdmin
<1>1. UniqueEmail'
  <2>1. ASSUME NEW v \in UserId, Stored(v)', ~Stored(v), NEW u \in UserId, Stored(u)',
               users'[u].email = users'[v].email
        PROVE  u = v
    BY <2>1 DEF WithEmail, RowKept
  <2>2. ASSUME NEW v \in UserId, Stored(v)', ~Stored(v)
        PROVE  users'[v].email # AdminEmail
    BY <2>2, <1>g DEF WithEmail, UserId
  <2> QED
    BY <1>a, <2>1, <2>2 DEF UniqueEmail, RowKept
<1>2. AnswerMatchesTable'
  <2>1. ASSUME NEW q \in Req \ {r} PROVE AnswerTrue(q)'
    BY <1>a, <1>e, <1>f DEF AnswerMatchesTable, AnswerTrue, Others, RowKept
  <2> QED
    BY <2>1 DEF AnswerMatchesTable
<1>3. AdminsGranted'
  <2>1. ASSUME NEW q \in Req \ {r} PROVE TokenGranted(q)'
    <3>1. token'[q] = token[q] /\ TokenGranted(q)
      BY <1>a DEF AdminsGranted, Others
    <3>2. token[q] # NoToken => token[q].sub \in UserId
      BY <1>a DEF TypeOK, Token
    <3> QED
      BY <1>d, <3>1, <3>2 DEF TokenGranted
  <2> QED
    BY <2>1 DEF AdminsGranted
<1>4. Bootstrapped'
  BY <1>g, <1>f DEF Bootstrapped, ServedWithAdmin, RowKept, UserId
<1>5. ASSUME NEW q \in Req \ {r} PROVE Settled(q)' /\ Entitled(q)' /\ SnapInv(q)'
  <2>1. Settled(q) /\ Entitled(q) /\ SnapInv(q)
    BY <1>b
  <2>2. Settled(q)'
    BY <2>1, <1>f DEF Settled, InFlight, Others, RowKept
  <2>3. bearer[q] # NoToken => token'[bearer[q]] = token[bearer[q]]
    BY <1>a, <1>c, <2>1 DEF TypeOK, Entitled, Others
  <2>4. Entitled(q)'
    BY <2>1, <2>3 DEF Entitled, Others, Claim, Forbidden
  <2>5. SnapInv(q)'
    <3>1. SUFFICES ASSUME pc[q] = "Update" PROVE SnapInv(q)'
      BY DEF SnapInv, Others
    <3>2. call[q].target \in UserId
      BY <2>1, <3>1, CallsAssumption DEF Settled, Call
    <3>3. RowKept(call[q].target)
      BY <2>1, <3>1, <3>2 DEF SnapInv
    <3> QED
      BY <1>d, <2>1, <3>1, <3>2, <3>3 DEF SnapInv, Others, RowKept
  <2> QED
    BY <2>2, <2>4, <2>5
<1> QED
  BY <1>1, <1>2, <1>3, <1>4, <1>5 DEF IndInv

\* Facts about a request in flight that every action below starts from.
LEMMA AtWork ==
    ASSUME IndInv, NEW r \in Req, InFlight(r)
    PROVE  /\ TypeOK /\ server = "up"
           /\ pc[r] \notin {"idle", "answered", "lost"}
           /\ Settled(r) /\ Entitled(r) /\ SnapInv(r)
           /\ call[r] \in Call /\ call[r].target \in UserId
           /\ answer[r] = 0 /\ token[r] = NoToken /\ ~Stored(r)
           /\ r \in UserId /\ r # Root
<1>1. TypeOK /\ Settled(r) /\ Entitled(r) /\ SnapInv(r)
  BY DEF IndInv
<1>2. call[r] \in Call
  BY <1>1, CallsAssumption DEF Settled, InFlight
<1>3. call[r].target \in UserId
  BY <1>2 DEF Call
<1> QED
  BY <1>1, <1>2, <1>3, RootAssumption DEF Settled, InFlight, UserId

\* The steps of a handler that write neither the table nor a token.
Quiet(r) ==
    /\ UNCHANGED <<users, server, crashes, call, bearer, token, expired, overlapped>>
    /\ faulted \subseteq faulted' /\ faulted' \subseteq Req

\* An error exit, and the other answers that leave no trace in the table.
LEMMA ReplyKeeps ==
    ASSUME IndInv, NEW r \in Req, InFlight(r),
           NEW code \in Code \ {0, 201}, Reply(r, code), Quiet(r), snap' = snap,
           code \in {409, 422} /\ r \notin faulted' /\ AsksForAccount(call[r])
               => WithEmail(call[r].email) # {}
    PROVE  IndInv'
<1> USE AtWork
<1>a. /\ pc' = [pc EXCEPT ![r] = "answered"]
      /\ answer' = [answer EXCEPT ![r] = code]
  BY DEF Reply
<1>b. pc'[r] = "answered" /\ answer'[r] = code
  BY <1>a DEF TypeOK
<1>1. TypeOK'
  BY <1>a DEF TypeOK, PC, Quiet
<1>2. Others(r) /\ AskedStays(r)
  BY <1>a, <1>b DEF TypeOK, Others, AskedStays, Quiet
<1>3. \A v \in UserId : (Stored(v) => RowKept(v)) /\ (Stored(v)' <=> Stored(v))
  BY DEF RowKept, Stored, Quiet
<1>4. \A v \in UserId : RowGranted(v)'
  <2>1. ASSUME NEW v \in UserId, Granted(v) PROVE Granted(v)'
    BY <1>2, <2>1, GrantedStays DEF IndInv
  <2> QED
    BY <2>1 DEF IndInv, AdminsGranted, RowGranted, Quiet, Stored
<1>5. Settled(r)'
  BY <1>b DEF Settled, InFlight, Stored, Quiet
<1>6. Entitled(r)' /\ SnapInv(r)'
  BY <1>b DEF Entitled, SnapInv, Quiet
<1>7. AnswerTrue(r)'
  BY <1>b DEF AnswerTrue, AsksForAccount, Stored, WithEmail, Quiet
<1>8. TokenGranted(r)'
  BY DEF TokenGranted, Quiet
<1> QED
  BY <1>1, <1>2, <1>3, <1>4, <1>5, <1>6, <1>7, <1>8, StepKeeps DEF Quiet

\* A handler that goes on to its next call.
LEMMA GotoKeeps ==
    ASSUME IndInv, NEW r \in Req, InFlight(r),
           NEW p \in PC \ {"idle", "answered", "lost"}, Goto(r, p), Quiet(r),
           snap' \in [Req -> Row \cup {NoRow}],
           \A q \in Req \ {r} : snap'[q] = snap[q],
           Entitled(r)', SnapInv(r)'
    PROVE  IndInv'
<1> USE AtWork
<1>a. pc' = [pc EXCEPT ![r] = p] /\ answer' = answer
  BY DEF Goto
<1>b. pc'[r] = p
  BY <1>a DEF TypeOK
<1>1. TypeOK'
  BY <1>a DEF TypeOK, Quiet
<1>2. Others(r) /\ AskedStays(r)
  BY <1>a, <1>b DEF TypeOK, Others, AskedStays, Quiet
<1>3. \A v \in UserId : (Stored(v) => RowKept(v)) /\ (Stored(v)' <=> Stored(v))
  BY DEF RowKept, Stored, Quiet
<1>4. \A v \in UserId : RowGranted(v)'
  <2>1. ASSUME NEW v \in UserId, Granted(v) PROVE Granted(v)'
    BY <1>2, <2>1, GrantedStays DEF IndInv
  <2> QED
    BY <2>1 DEF IndInv, AdminsGranted, RowGranted, Quiet, Stored
<1>5. Settled(r)'
  BY <1>a, <1>b DEF Settled, InFlight, Stored, Quiet
<1>6. AnswerTrue(r)'
  BY <1>a, <1>b DEF AnswerTrue, Stored, Quiet
<1>7. TokenGranted(r)'
  BY DEF TokenGranted, Quiet
<1> QED
  BY <1>1, <1>2, <1>3, <1>4, <1>5, <1>6, <1>7, StepKeeps DEF Quiet

\* One lemma per action: it preserves the inductive invariant.
LEMMA ArriveStep ==
    ASSUME IndInv, NEW r \in Req, Arrive(r) PROVE IndInv'
<1>a. /\ TypeOK /\ Settled(r) /\ Entitled(r) /\ AnswerTrue(r) /\ TokenGranted(r)
      /\ pc[r] = "idle" /\ server = "up" /\ token[r] = NoToken /\ ~Stored(r)
  BY RootAssumption
  DEF IndInv, Arrive, Settled, AnswerMatchesTable, AdminsGranted
<1>b. /\ UNCHANGED <<users, server, crashes, snap, token, expired, faulted,
                     overlapped, answer>>
      /\ \E c \in Calls, p \in {"route", "ProvToken"},
            b \in {q \in Req : token[q] # NoToken} \cup {NoToken} :
            /\ call' = [call EXCEPT ![r] = c]
            /\ pc' = [pc EXCEPT ![r] = p]
            /\ bearer' = [bearer EXCEPT ![r] = b]
            /\ p = "route" => c.op \in Open
  BY DEF Arrive, Goto, process
<1>c. PICK c \in Calls, p \in {"route", "ProvToken"},
           b \in {q \in Req : token[q] # NoToken} \cup {NoToken} :
           /\ call' = [call EXCEPT ![r] = c]
           /\ pc' = [pc EXCEPT ![r] = p]
           /\ bearer' = [bearer EXCEPT ![r] = b]
           /\ p = "route" => c.op \in Open
  BY <1>b
<1>d. pc'[r] = p /\ call'[r] = c /\ bearer'[r] = b
  BY <1>a, <1>c DEF TypeOK
<1>1. TypeOK'
  BY <1>a, <1>b, <1>c DEF TypeOK, PC
<1>2. Others(r) /\ AskedStays(r)
  BY <1>a, <1>b, <1>c, <1>d DEF TypeOK, Others, AskedStays
<1>3. \A v \in UserId : (Stored(v) => RowKept(v)) /\ (Stored(v)' <=> Stored(v))
  BY <1>b DEF RowKept, Stored
<1>4. \A v \in UserId : RowGranted(v)'
  <2>1. ASSUME NEW v \in UserId, Granted(v) PROVE Granted(v)'
    BY <1>a, <1>2, <2>1, GrantedStays DEF IndInv
  <2> QED
    BY <1>b, <2>1 DEF IndInv, AdminsGranted, RowGranted, Stored
<1>5. Settled(r)'
  BY <1>a, <1>b, <1>d DEF Settled, InFlight, Stored
<1>6. Entitled(r)' /\ SnapInv(r)'
  BY <1>b, <1>c, <1>d DEF Entitled, SnapInv
<1>7. AnswerTrue(r)'
  BY <1>a, <1>b, <1>d DEF AnswerTrue, Settled, Stored
<1>8. TokenGranted(r)'
  BY <1>a, <1>b DEF TokenGranted
<1> QED
  BY <1>a, <1>b, <1>1, <1>2, <1>3, <1>4, <1>5, <1>6, <1>7, <1>8, StepKeeps

LEMMA ProvTokenStep ==
    ASSUME IndInv, NEW r \in Req, ProvToken(r) PROVE IndInv'
<1>a. InFlight(r) /\ pc[r] = "ProvToken" /\ snap' = snap
  BY DEF ProvToken, InFlight
<1>b. Quiet(r)
  BY <1>a, AtWork DEF ProvToken, Quiet, process, asked, Fault, Succeeds, TypeOK
<1>1. CASE Reply(r, 401)
  BY <1>1, <1>a, <1>b, ReplyKeeps DEF Code
<1>2. CASE Genuine(r) /\ Goto(r, "route")
  <2>1. pc'[r] = "route"
    BY <1>2, <1>a, AtWork DEF Goto, TypeOK
  <2>2. Entitled(r)' /\ SnapInv(r)'
    BY <1>2, <1>a, <1>b, <2>1, AtWork DEF Entitled, SnapInv, Genuine, Quiet
  <2>3. snap' \in [Req -> Row \cup {NoRow}]
    BY <1>a, AtWork DEF TypeOK
  <2> QED
    BY <1>2, <1>a, <1>b, <2>2, <2>3, GotoKeeps DEF PC
<1> QED
  BY <1>1, <1>2 DEF ProvToken

\* The handlers' checks of the body and of the caller's role.
LEMMA RouteStep ==
    ASSUME IndInv, NEW r \in Req,
           Register(r) \/ CreateUser(r) \/ Login(r) \/ UpdateUser(r) \/ DeactivateUser(r)
    PROVE  IndInv'
<1>a. InFlight(r) /\ pc[r] = "route" /\ snap' = snap
  BY DEF Register, CreateUser, Login, UpdateUser, DeactivateUser, InFlight, Unchecked
<1>b. Quiet(r)
  BY <1>a, AtWork DEF Register, CreateUser, Login, UpdateUser, DeactivateUser, Quiet,
     Unchecked, process, asked, Succeeds, TypeOK
<1>c. snap' \in [Req -> Row \cup {NoRow}]
  BY <1>a, AtWork DEF TypeOK
<1>1. CASE \E code \in {400, 403} : Reply(r, code)
  BY <1>1, <1>a, <1>b, ReplyKeeps DEF Code
<1>2. CASE Reply(r, 422) /\ ~AsksForAccount(call[r])
  BY <1>2, <1>a, <1>b, ReplyKeeps DEF Code
<1>3. CASE \E p \in {"CheckEmail", "GetByEmail"} : Goto(r, p)
  <2>1. PICK p \in {"CheckEmail", "GetByEmail"} : Goto(r, p)
    BY <1>3
  <2>2. pc'[r] = p
    BY <1>a, <2>1, AtWork DEF Goto, TypeOK
  <2>3. Entitled(r)' /\ SnapInv(r)'
    BY <1>a, <1>b, <2>2, AtWork DEF Entitled, SnapInv, Quiet
  <2> QED
    BY <1>a, <1>b, <1>c, <2>1, <2>3, GotoKeeps DEF PC
<1>4. CASE /\ Goto(r, "GetByID")
           /\ call[r].op \in {"update", "deactivate"}
           /\ call[r].op = "deactivate" => Claim(r) = "ADMIN"
  <2>1. pc'[r] = "GetByID"
    BY <1>a, <1>4, AtWork DEF Goto, TypeOK
  <2>2. Entitled(r)' /\ SnapInv(r)'
    BY <1>a, <1>b, <1>4, <2>1, AtWork DEF Entitled, SnapInv, Quiet, Open, Claim
  <2> QED
    BY <1>a, <1>b, <1>c, <1>4, <2>2, GotoKeeps DEF PC
<1>5. CreateUser(r) => \/ \E code \in {400, 403} : Reply(r, code)
                       \/ Reply(r, 422) /\ ~AsksForAccount(call[r])
                       \/ \E p \in {"CheckEmail", "GetByEmail"} : Goto(r, p)
  BY DEF CreateUser, AsksForAccount
<1> QED
  BY <1>1, <1>2, <1>3, <1>4, <1>5
  DEF Register, Login, UpdateUser, DeactivateUser, AsksForAccount

LEMMA CheckEmailStep ==
    ASSUME IndInv, NEW r \in Req, CheckEmailExist(r) \/ NewUser(r) PROVE IndInv'
<1>a. InFlight(r) /\ pc[r] \in {"CheckEmail", "CheckEmailAgain"} /\ snap' = snap
  BY DEF CheckEmailExist, NewUser, InFlight, Unchecked
<1>b. Quiet(r)
  BY <1>a, AtWork DEF CheckEmailExist, NewUser, Quiet, Unchecked, process, asked,
     Fault, Succeeds, TypeOK
<1>c. snap' \in [Req -> Row \cup {NoRow}]
  BY <1>a, AtWork DEF TypeOK
<1>1. CASE Reply(r, 500)
  BY <1>1, <1>a, <1>b, ReplyKeeps DEF Code
<1>2. CASE \E code \in {409, 422} :
              Reply(r, code) /\ (WithEmail(call[r].email) # {} \/ r \in faulted')
  BY <1>2, <1>a, <1>b, ReplyKeeps DEF Code
<1>3. CASE \E p \in {"CheckEmailAgain", "Create"} : Goto(r, p)
  <2>1. PICK p \in {"CheckEmailAgain", "Create"} : Goto(r, p)
    BY <1>3
  <2>2. pc'[r] = p
    BY <1>a, <2>1, AtWork DEF Goto, TypeOK
  <2>3. Entitled(r)' /\ SnapInv(r)'
    BY <1>a, <1>b, <2>2, AtWork DEF Entitled, SnapInv, Quiet
  <2> QED
    BY <1>a, <1>b, <1>c, <2>1, <2>3, GotoKeeps DEF PC
<1>4. Fault(r) => r \in faulted'
  BY DEF Fault
<1> QED
  BY <1>1, <1>2, <1>3, <1>4 DEF CheckEmailExist, NewUser

LEMMA GetByIDStep ==
    ASSUME IndInv, NEW r \in Req, GetByID(r) PROVE IndInv'
<1>a. InFlight(r) /\ pc[r] = "GetByID"
  BY DEF GetByID, InFlight
<1>b. Quiet(r)
  BY <1>a, AtWork DEF GetByID, Quiet, process, asked, Fault, Succeeds, TypeOK
<1>1. CASE snap' = snap /\ \E code \in {403, 404, 500} : Reply(r, code)
  BY <1>1, <1>a, <1>b, ReplyKeeps DEF Code
<1>2. CASE /\ Stored(call[r].target) /\ ~Forbidden(r)
           /\ snap' = [snap EXCEPT ![r] = RowRead(call[r].target)]
           /\ Goto(r, "Update")
  <2>1. users[call[r].target] \in Row
    BY <1>2, <1>a, AtWork DEF Stored, TypeOK
  <2>2. pc'[r] = "Update" /\ snap'[r] = users[call[r].target]
    BY <1>2, <1>a, AtWork DEF Goto, TypeOK, RowRead
  <2>3. snap' \in [Req -> Row \cup {NoRow}]
    BY <1>2, <1>a, <2>1, AtWork DEF TypeOK, RowRead
  <2>4. \A q \in Req \ {r} : snap'[q] = snap[q]
    BY <1>2, <1>a, AtWork DEF TypeOK
  <2>5. Entitled(r)'
    BY <1>2, <1>a, <1>b, <2>2, AtWork DEF Entitled, Quiet, Claim, Forbidden
  <2>6. \A v \in UserId : Granted(v) => Granted(v)'
    <3>1. Others(r) /\ AskedStays(r)
      BY <1>2, <1>a, <1>b, <2>2, <2>4, AtWork DEF Goto, TypeOK, Others, AskedStays, Quiet
    <3>2. TypeOK /\ token[r] = NoToken /\ \A q \in Req : Entitled(q)
      BY <1>a, AtWork DEF IndInv
    <3> QED
      BY <3>1, <3>2, GrantedStays
  <2>7. SnapInv(r)'
    <3>1. users[call[r].target].role = "ADMIN" => Granted(call[r].target)
      BY <1>2, <1>a, AtWork DEF IndInv, AdminsGranted, RowGranted
    <3>2. call' = call /\ users' = users /\ call[r].target \in UserId
      BY <1>a, <1>b, AtWork DEF Quiet
    <3> QED
      BY <1>2, <2>1, <2>2, <2>6, <3>1, <3>2 DEF SnapInv, Stored
  <2> QED
    BY <1>2, <1>a, <1>b, <2>3, <2>4, <2>5, <2>7, GotoKeeps DEF PC
<1> QED
  BY <1>1, <1>2 DEF GetByID, NotRead

\* A request that is answered with a token: a login, or a registration.
LEMMA AuthenticateStep ==
    ASSUME IndInv, NEW r \in Req, Authenticate(r) PROVE IndInv'
<1>a. /\ InFlight(r) /\ pc[r] = "GetByEmail" /\ snap' = snap
      /\ UNCHANGED <<users, server, crashes, call, bearer, expired, overlapped>>
  BY DEF Authenticate, InFlight, process, asked
<1>b. faulted \subseteq faulted' /\ faulted' \subseteq Req
  BY <1>a, AtWork DEF Authenticate, Fault, Succeeds, TypeOK
<1>1. CASE token' = token /\ \E code \in {401, 423, 500} : Reply(r, code)
  BY <1>1, <1>a, <1>b, ReplyKeeps DEF Code, Quiet
<1>2. CASE \E u \in WithEmail(call[r].email) :
              /\ Reply(r, 200)
              /\ token' = [token EXCEPT ![r] = [sub |-> u, role |-> users[u].role]]
  <2>1. PICK u \in WithEmail(call[r].email) :
              /\ Reply(r, 200)
              /\ token' = [token EXCEPT ![r] = [sub |-> u, role |-> users[u].role]]
    BY <1>2
  <2>2. u \in UserId /\ users[u] \in Row
    BY <1>a, AtWork DEF WithEmail, Stored, TypeOK
  <2>3. [sub |-> u, role |-> users[u].role] \in Token
    BY <2>2 DEF Token, Row
  <2>4. /\ pc' = [pc EXCEPT ![r] = "answered"]
        /\ answer' = [answer EXCEPT ![r] = 200]
    BY <2>1 DEF Reply
  <2>5. /\ pc'[r] = "answered" /\ answer'[r] = 200
        /\ token'[r] = [sub |-> u, role |-> users[u].role]
    BY <1>a, <2>1, <2>4, AtWork DEF TypeOK
  <2>6. TypeOK'
    BY <1>a, <1>b, <2>1, <2>3, <2>4, AtWork DEF TypeOK, PC, Code
  <2>7. Others(r) /\ AskedStays(r)
    BY <1>a, <2>1, <2>4, <2>5, AtWork DEF TypeOK, Others, AskedStays
  <2>8. \A v \in UserId : (Stored(v) => RowKept(v)) /\ (Stored(v)' <=> Stored(v))
    BY <1>a DEF RowKept, Stored
  <2>9. \A v \in UserId : Granted(v) => Granted(v)'
    <3>1. TypeOK /\ token[r] = NoToken /\ \A q \in Req : Entitled(q)
      BY <1>a, AtWork DEF IndInv
    <3> QED
      BY <2>7, <3>1, GrantedStays
  <2>10. \A v \in UserId : RowGranted(v)'
    BY <1>a, <2>9 DEF IndInv, AdminsGranted, RowGranted, Stored
  <2>11. Settled(r)' /\ AnswerTrue(r)'
    BY <1>a, <2>5, AtWork DEF Settled, AnswerTrue, InFlight, Stored
  <2>12. Entitled(r)' /\ SnapInv(r)'
    <3>1. bearer[r] # NoToken => token'[bearer[r]] # NoToken
      BY <1>a, <2>7, AtWork DEF Entitled, TypeOK, Others
    <3> QED
      BY <1>a, <2>5, <3>1 DEF Entitled, SnapInv
  <2>13. TokenGranted(r)'
    <3>1. users[u].role = "ADMIN" => Granted(u)
      BY <2>1, <2>2 DEF IndInv, AdminsGranted, RowGranted, WithEmail
    <3> QED
      BY <2>2, <2>5, <2>9, <3>1 DEF TokenGranted
  <2> QED
    BY <1>a, <1>b, <2>6, <2>7, <2>8, <2>10, <2>11, <2>12, <2>13, AtWork, StepKeeps
<1> QED
  BY <1>1, <1>2 DEF Authenticate

\* A new row, with or without its answer.
LEMMA InsertUserStep ==
    ASSUME IndInv, NEW r \in Req, InsertUser(r) PROVE IndInv'
<1>a. /\ InFlight(r) /\ pc[r] = "Create" /\ snap' = snap
      /\ UNCHANGED <<server, crashes, call, bearer, expired, overlapped>>
  BY DEF InsertUser, InFlight, process, asked
<1>b. faulted \subseteq faulted' /\ faulted' \subseteq Req
  BY <1>a, AtWork DEF InsertUser, Fault, Succeeds, TypeOK
<1>c. Fault(r) => r \in faulted'
  BY DEF Fault
<1>1. CASE /\ users' = users /\ token' = token /\ Reply(r, 422)
           /\ ~Storable(call[r]) \/ r \in faulted'
  <2>1. AsksForAccount(call[r]) => Storable(call[r]) \/ WithEmail(call[r].email) # {}
    BY DEF AsksForAccount, Storable
  <2> QED
    BY <1>1, <1>a, <1>b, <2>1, ReplyKeeps DEF Code, Quiet
<1>2. CASE /\ Storable(call[r])
           /\ users' = [users EXCEPT ![r] = NewRow(call[r])]
           /\ \/ /\ Reply(r, 201)
                 /\ \/ token' = token
                    \/ token' = [token EXCEPT ![r] = [sub |-> r, role |-> "USER"]]
              \/ Reply(r, 422) /\ token' = token /\ r \in faulted'
  <2>1. PICK code \in {201, 422} : Reply(r, code) /\ (code = 201 \/ r \in faulted')
    BY <1>2
  <2>2. NewRow(call[r]) \in Row
    BY <1>a, AtWork DEF NewRow, Row, Call, Role
  <2>3. NewRow(call[r]) # NoRow
    BY <2>2, NoRowAssumption
  <2>4. /\ pc' = [pc EXCEPT ![r] = "answered"]
        /\ answer' = [answer EXCEPT ![r] = code]
    BY <2>1 DEF Reply
  <2>5. /\ pc'[r] = "answered" /\ answer'[r] = code
        /\ users'[r] = NewRow(call[r])
        /\ \A v \in UserId \ {r} : users'[v] = users[v]
    BY <1>2, <1>a, <2>4, AtWork DEF TypeOK
  <2>6. [sub |-> r, role |-> "USER"] \in Token
    BY <1>a, AtWork DEF Token, Role
  <2>7. users' \in [UserId -> Row \cup {NoRow}] /\ token' \in [Req -> Token \cup {NoToken}]
    BY <1>2, <1>a, <2>2, <2>6, AtWork DEF TypeOK
  <2>8. TypeOK'
    BY <1>a, <1>b, <2>4, <2>7, AtWork DEF TypeOK, PC, Code
  <2>9. Others(r) /\ AskedStays(r)
    BY <1>2, <1>a, <2>4, <2>5, AtWork DEF TypeOK, Others, AskedStays
  <2>10. \A v \in UserId : Stored(v) => RowKept(v)
    BY <1>a, <2>5, AtWork DEF RowKept, Stored
  <2>11. \A v \in UserId : Stored(v)' /\ ~Stored(v) =>
             v = r /\ WithEmail(users'[v].email) = {}
    BY <1>2, <2>5 DEF Stored, Storable, NewRow
  <2>12. \A v \in UserId : Granted(v) => Granted(v)'
    <3>1. TypeOK /\ token[r] = NoToken /\ \A q \in Req : Entitled(q)
      BY <1>a, AtWork DEF IndInv
    <3> QED
      BY <2>9, <3>1, GrantedStays
  <2>13. \A v \in UserId : RowGranted(v)'
    <3>1. RowGranted(r)'
      BY <2>5 DEF RowGranted, NewRow
    <3> QED
      BY <2>5, <2>12, <3>1 DEF IndInv, AdminsGranted, RowGranted, Stored
  <2>14. Stored(r)' /\ users'[r].email = call'[r].email
    BY <1>a, <2>3, <2>5 DEF Stored, NewRow
  <2>15. Settled(r)'
    BY <1>a, <2>1, <2>5, <2>14, AtWork DEF Settled, InFlight
  <2>16. AnswerTrue(r)'
    BY <2>1, <2>5, <2>14 DEF AnswerTrue
  <2>17. Entitled(r)' /\ SnapInv(r)'
    <3>1. bearer[r] # NoToken => token'[bearer[r]] # NoToken
      BY <1>a, <2>9, AtWork DEF Entitled, TypeOK, Others
    <3> QED
      BY <1>a, <2>5, <3>1 DEF Entitled, SnapInv
  <2>18. TokenGranted(r)'
    <3>1. token'[r] = NoToken \/ token'[r].role = "USER"
      BY <1>2, <1>a, AtWork DEF TypeOK
    <3> QED
      BY <3>1 DEF TokenGranted
  <2>19. \A q \in Req \ {r} : pc[q] = "Update" =>
             users'[call[q].target] = users[call[q].target]
    <3>1. ASSUME NEW q \in Req \ {r}, pc[q] = "Update"
          PROVE  call[q].target \in UserId /\ Stored(call[q].target)
      BY <3>1, AtWork DEF InFlight, SnapInv
    <3> QED
      BY <1>a, <2>5, <3>1, AtWork
  <2> QED
    BY <1>a, <1>b, <2>8, <2>9, <2>10, <2>11, <2>13, <2>15, <2>16, <2>17, <2>18,
       <2>19, AtWork, StepKeeps
<1> QED
  BY <1>1, <1>2, <1>c DEF InsertUser, Created

\* What an UPDATE makes of a row that was read keeps its address, its password
\* and, unless an administrator asked for it, its role.
LEMMA ChangedRow ==
    ASSUME NEW c \in Call, NEW row \in Row
    PROVE  /\ Changed(c, row) \in Row
           /\ Changed(c, row).email = row.email
           /\ Changed(c, row).password = row.password
           /\ Changed(c, row).role = "ADMIN" =>
                 row.role = "ADMIN" \/ (c.op # "deactivate" /\ c.role = "ADMIN")
<1>1. CASE c.op = "deactivate"
  BY <1>1 DEF Changed, Row
<1>2. CASE c.op # "deactivate"
  <2>1. (IF c.role = "none" THEN row.role ELSE c.role) \in Role
    BY DEF Call, Row, Role
  <2>2. (IF c.active = "none" THEN row.active ELSE c.active = "true") \in BOOLEAN
    BY DEF Row
  <2>3. Changed(c, row) =
            [row EXCEPT !.profile = c.profile,
                        !.role = IF c.role = "none" THEN row.role ELSE c.role,
                        !.active = IF c.active = "none" THEN row.active
                                   ELSE c.active = "true"]
    BY <1>2 DEF Changed, Row
  <2> QED
    BY <1>2, <2>1, <2>2, <2>3 DEF Row, Call
<1> QED
  BY <1>1, <1>2

LEMMA UpdateStep ==
    ASSUME IndInv, NEW r \in Req, Update(r) PROVE IndInv'
<1>a. /\ InFlight(r) /\ pc[r] = "Update" /\ snap' = snap
      /\ UNCHANGED <<server, crashes, call, bearer, token, expired>>
  BY DEF Update, InFlight, process, asked
<1>b. faulted \subseteq faulted' /\ faulted' \subseteq Req
  BY <1>a, AtWork DEF Update, Fault, Succeeds, TypeOK
<1>c. call[r].op \in {"update", "deactivate"}
  BY <1>a, AtWork DEF Entitled
<1>1. CASE UNCHANGED <<users, overlapped>> /\ Reply(r, 500)
  BY <1>1, <1>a, <1>b, ReplyKeeps DEF Code, Quiet
<1>2. CASE WriteRow(r) /\ \E code \in {200, 204, 500} : Reply(r, code)
  <2> DEFINE u == call[r].target
             row == Changed(call[r], snap[r])
  <2>1. PICK code \in {200, 204, 500} : Reply(r, code)
    BY <1>2
  <2>2. u \in UserId /\ call[r] \in Call
    BY <1>a, AtWork
  <2>3. /\ Stored(u) /\ snap[r] \in Row
        /\ snap[r].email = users[u].email
        /\ snap[r].password = users[u].password
        /\ snap[r].role = "ADMIN" => Granted(u)
    BY <1>a, AtWork DEF SnapInv
  <2>4. /\ row \in Row
        /\ row.email = users[u].email /\ row.password = users[u].password
        /\ row.role = "ADMIN" =>
              snap[r].role = "ADMIN" \/ (call[r].op # "deactivate" /\ call[r].role = "ADMIN")
    BY <2>2, <2>3, ChangedRow
  <2>5. row # NoRow
    BY <2>4, NoRowAssumption
  <2>6. /\ pc' = [pc EXCEPT ![r] = "answered"]
        /\ answer' = [answer EXCEPT ![r] = code]
        /\ users' = [users EXCEPT ![u] = row]
        /\ overlapped' = overlapped \cup
              {q \in Req \ {r} : pc[q] = "Update" /\ call[q].target = u}
    BY <1>2, <2>1 DEF Reply, WriteRow
  <2> HIDE DEF row
  <2>7. /\ pc'[r] = "answered" /\ answer'[r] = code
        /\ users'[u] = row /\ \A v \in UserId \ {u} : users'[v] = users[v]
    BY <1>a, <2>2, <2>6, AtWork DEF TypeOK
  <2>8. TypeOK'
    <3>1. users' \in [UserId -> Row \cup {NoRow}]
      BY <1>a, <2>2, <2>4, <2>6, AtWork DEF TypeOK
    <3> QED
      BY <1>a, <1>b, <2>6, <3>1, AtWork DEF TypeOK, PC, Code
  <2>9. Others(r) /\ AskedStays(r)
    BY <1>a, <2>6, <2>7, AtWork DEF TypeOK, Others, AskedStays
  <2>10. \A v \in UserId : Stored(v) => RowKept(v)
    BY <2>4, <2>5, <2>7 DEF RowKept, Stored
  <2>11. \A v \in UserId : Stored(v)' => Stored(v)
    BY <2>3, <2>7 DEF Stored
  <2>12. \A v \in UserId : Granted(v) => Granted(v)'
    <3>1. TypeOK /\ token[r] = NoToken /\ \A q \in Req : Entitled(q)
      BY <1>a, AtWork DEF IndInv
    <3> QED
      BY <2>9, <3>1, GrantedStays
  <2>13. row.role = "ADMIN" => Granted(u)
    <3>1. CASE snap[r].role = "ADMIN"
      BY <2>3, <3>1
    <3>2. CASE call[r].op # "deactivate" /\ call[r].role = "ADMIN"
      <4>1. bearer[r] # NoToken /\ Claim(r) = "ADMIN"
        BY <1>a, <1>c, <3>2, AtWork DEF Entitled, Forbidden
      <4>2. Grants(r, u)
        BY <1>a, <1>c, <3>2, <4>1, AtWork DEF Grants
      <4> QED
        BY <4>2 DEF Granted
    <3> QED
      BY <2>4, <3>1, <3>2
  <2>14. \A v \in UserId : RowGranted(v)'
    <3>1. ASSUME NEW v \in UserId, v # u PROVE RowGranted(v)'
      BY <2>7, <2>12, <3>1 DEF IndInv, AdminsGranted, RowGranted, Stored
    <3>2. ASSUME NEW v \in UserId, v = u PROVE RowGranted(v)'
      BY <2>7, <2>12, <2>13, <3>2 DEF RowGranted
    <3> QED
      BY <3>1, <3>2
  <2>15. Settled(r)'
    BY <1>a, <2>7, <2>11, AtWork DEF Settled, InFlight
  <2>16. AnswerTrue(r)'
    BY <1>a, <1>c, <2>7, <2>11, AtWork DEF AnswerTrue
  <2>17. Entitled(r)' /\ SnapInv(r)' /\ TokenGranted(r)'
    BY <1>a, <2>7, AtWork DEF Entitled, SnapInv, TokenGranted
  <2>18. \A q \in Req \ {r} : pc[q] = "Update" /\ q \notin overlapped' =>
             q \notin overlapped /\ users'[call[q].target] = users[call[q].target]
    <3>1. ASSUME NEW q \in Req \ {r}, pc[q] = "Update", q \notin overlapped'
          PROVE  /\ q \notin overlapped /\ call[q].target # u
                 /\ call[q].target \in UserId
      BY <2>6, <3>1, AtWork DEF InFlight
    <3> QED
      BY <2>7, <3>1
  <2> QED
    BY <1>a, <1>b, <2>8, <2>9, <2>10, <2>11, <2>14, <2>15, <2>16, <2>17, <2>18,
       AtWork, StepKeeps
<1> QED
  BY <1>1, <1>2, <1>c DEF Update, Done

\* The start and the end of the process, and time: requests are lost or left
\* alone, and at most the first administrator's row is added.
LEMMA ProcessKeeps ==
    ASSUME IndInv, TypeOK',
           UNCHANGED <<call, bearer, answer, snap, token, faulted, overlapped>>,
           \A q \in Req : \/ pc'[q] = pc[q]
                          \/ InFlight(q) /\ pc'[q] = "lost",
           \A q \in Req : InFlight(q)' => server' = "up",
           server' = "up" => Stored(Root)',
           \/ users' = users
           \/ server # "up" /\ WithEmail(AdminEmail) = {} /\ AdminInserted
    PROVE  IndInv'
<1>a. TypeOK /\ UniqueEmail /\ AnswerMatchesTable /\ AdminsGranted /\ Bootstrapped
  BY DEF IndInv
<1>b. \A q \in Req : /\ Settled(q) /\ Entitled(q) /\ SnapInv(q)
                     /\ q \in UserId /\ q # Root
  BY RootAssumption DEF IndInv, UserId
<1>c. Root \in UserId
  BY DEF UserId
<1>1. \A u \in UserId : Granted(u) => Granted(u)'
  <2>1. ASSUME NEW q \in Req, NEW u \in UserId, Grants(q, u) PROVE Grants(q, u)'
    BY <2>1 DEF Grants, Claim, InFlight
  <2> QED
    BY <2>1 DEF Granted
<1>2. \A u \in UserId : u = Root \/ users'[u] = users[u]
  BY <1>a DEF AdminInserted, TypeOK
<1>3. /\ Stored(Root) => users'[Root] = users[Root]
      /\ Stored(Root)' => users'[Root].email = AdminEmail
  <2>1. CASE users' = users
    BY <2>1, <1>a DEF Bootstrapped, Stored
  <2>2. CASE WithEmail(AdminEmail) = {} /\ AdminInserted
    <3>1. ~Stored(Root)
      BY <1>a, <1>c, <2>2 DEF Bootstrapped, WithEmail
    <3>2. users'[Root].email = AdminEmail
      BY <1>a, <1>c, <2>2 DEF AdminInserted, InitialAdmin, TypeOK
    <3> QED
      BY <3>1, <3>2
  <2> QED
    BY <2>1, <2>2
<1>4. \A u \in UserId : Stored(u) => Stored(u)' /\ users'[u] = users[u]
  BY <1>2, <1>3 DEF Stored
<1>5. UniqueEmail'
  <2>1. CASE users' = users
    BY <2>1, <1>a DEF UniqueEmail, Stored
  <2>2. CASE WithEmail(AdminEmail) = {} /\ AdminInserted
    <3>1. \A u \in UserId : u # Root /\ Stored(u)' => users'[u].email # AdminEmail
      BY <1>2, <2>2 DEF WithEmail, Stored
    <3> QED
      BY <1>a, <1>2, <1>3, <3>1 DEF UniqueEmail, Stored
  <2> QED
    BY <2>1, <2>2
<1>6. AnswerMatchesTable'
  <2>1. ASSUME NEW q \in Req PROVE AnswerTrue(q)'
    <3>1. AnswerTrue(q) /\ (Stored(q)' <=> Stored(q)) /\ users'[q] = users[q]
      BY <1>a, <1>b, <1>2 DEF AnswerMatchesTable, Stored
    <3>2. \A e : WithEmail(e) # {} => WithEmail(e)' # {}
      BY <1>4 DEF WithEmail
    <3>3. pc'[q] = "answered" => pc[q] = "answered"
      OBVIOUS
    <3> QED
      BY <3>1, <3>2, <3>3 DEF AnswerTrue
  <2> QED
    BY <2>1 DEF AnswerMatchesTable
<1>7. AdminsGranted'
  <2>1. \A u \in UserId : RowGranted(u)'
    BY <1>a, <1>1, <1>2 DEF AdminsGranted, RowGranted, Stored, Granted
  <2>2. \A q \in Req : TokenGranted(q)'
    BY <1>a, <1>1 DEF AdminsGranted, TokenGranted, TypeOK, Token
  <2> QED
    BY <2>1, <2>2 DEF AdminsGranted
<1>8. Bootstrapped'
  BY <1>3 DEF Bootstrapped, ServedWithAdmin
<1>9. ASSUME NEW q \in Req PROVE Settled(q)' /\ Entitled(q)' /\ SnapInv(q)'
  <2>1. Settled(q) /\ Entitled(q) /\ SnapInv(q)
    BY <1>b
  <2>2. Settled(q)'
    BY <1>b, <1>2, <2>1 DEF Settled, InFlight, Stored
  <2>3. Entitled(q)'
    BY <2>1 DEF Entitled, Claim, Forbidden
  <2>4. SnapInv(q)'
    <3>1. SUFFICES ASSUME pc[q] = "Update", pc'[q] = "Update" PROVE SnapInv(q)'
      BY DEF SnapInv
    <3>2. call[q].target \in UserId
      BY <2>1, <3>1, CallsAssumption DEF Settled, Call
    <3> QED
      BY <1>1, <1>4, <2>1, <3>1, <3>2 DEF SnapInv
  <2> QED
    BY <2>2, <2>3, <2>4
<1> QED
  BY <1>5, <1>6, <1>7, <1>8, <1>9 DEF IndInv

\* The row of the first administrator is one the table allows.
LEMMA InitialAdminRow == InitialAdmin \in Row /\ InitialAdmin # NoRow
<1>1. InitialAdmin \in Row
  BY AdminAssumption DEF InitialAdmin, Row, Role
<1> QED
  BY <1>1, NoRowAssumption

LEMMA ProcessStep ==
    ASSUME IndInv, Boot \/ Crash \/ \E q \in Req : Expire(q) PROVE IndInv'
<1>a. /\ TypeOK /\ Bootstrapped /\ Root \in UserId
      /\ \A q \in Req : InFlight(q) => server = "up"
  BY DEF IndInv, Settled, UserId
<1>1. CASE Start
  <2>1. TypeOK'
    BY <1>a, <1>1 DEF Start, TypeOK, asked
  <2> QED
    BY <1>a, <1>1, <2>1, ProcessKeeps DEF Start, asked, InFlight
<1>2. CASE CheckInitialAdmin
  <2>1. TypeOK'
    BY <1>a, <1>2 DEF CheckInitialAdmin, TypeOK, asked
  <2>2. WithEmail(AdminEmail) # {} => Stored(Root)
    BY DEF IndInv, UniqueEmail, WithEmail
  <2> QED
    BY <1>a, <1>2, <2>1, <2>2, ProcessKeeps
    DEF CheckInitialAdmin, asked, InFlight, Stored
<1>3. CASE CreateInitialAdmin
  <2>1. TypeOK'
    BY <1>a, <1>3, InitialAdminRow DEF CreateInitialAdmin, AdminInserted, TypeOK, asked
  <2>2. AdminInserted => Stored(Root)'
    BY <1>a, InitialAdminRow DEF AdminInserted, Stored, TypeOK
  <2> QED
    BY <1>a, <1>3, <2>1, <2>2, ProcessKeeps DEF CreateInitialAdmin, asked, InFlight
<1>4. CASE Crash
  <2>1. \A q \in Req : \/ ~InFlight(q) /\ pc'[q] = pc[q]
                       \/ InFlight(q) /\ pc'[q] = "lost"
    BY <1>4 DEF Crash
  <2>2. TypeOK'
    <3>1. users' \in [UserId -> Row \cup {NoRow}]
      BY <1>a, <1>4, InitialAdminRow DEF Crash, AdminInserted, TypeOK
    <3>2. pc' \in [Req -> PC]
      BY <1>a, <1>4 DEF Crash, TypeOK, PC
    <3>3. crashes' \in 0..MaxCrashes
      BY <1>a, <1>4, BoundsAssumption DEF Crash, TypeOK
    <3> QED
      BY <1>a, <1>4, <3>1, <3>2, <3>3 DEF Crash, TypeOK, asked
  <2>3. \A q \in Req : ~InFlight(q)'
    BY <2>1 DEF InFlight
  <2> QED
    BY <1>4, <2>1, <2>2, <2>3, ProcessKeeps DEF Crash, asked
<1>5. CASE \E q \in Req : Expire(q)
  <2>1. /\ expired' \subseteq Req
        /\ UNCHANGED <<users, server, pc, call, bearer, answer, snap, token,
                       faulted, crashes, overlapped>>
    BY <1>a, <1>5 DEF Expire, TypeOK, process, asked
  <2>2. TypeOK'
    BY <1>a, <2>1 DEF TypeOK
  <2> QED
    BY <1>a, <2>1, <2>2, ProcessKeeps DEF InFlight, Bootstrapped, ServedWithAdmin, Stored
<1> QED
  BY <1>1, <1>2, <1>3, <1>4, <1>5 DEF Boot

LEMMA InitIndInv == Init => IndInv
<1> SUFFICES ASSUME Init PROVE IndInv
  OBVIOUS
<1>1. \A u \in UserId : ~Stored(u)
  BY DEF Init, Stored
<1>2. TypeOK
  BY BoundsAssumption DEF Init, TypeOK, PC, Code
<1>3. UniqueEmail /\ AnswerMatchesTable /\ AdminsGranted /\ Bootstrapped
  BY <1>1 DEF Init, UniqueEmail, AnswerMatchesTable, AnswerTrue, AdminsGranted,
     RowGranted, TokenGranted, Bootstrapped, ServedWithAdmin, UserId
<1>4. \A r \in Req : Settled(r) /\ Entitled(r) /\ SnapInv(r)
  BY <1>1 DEF Init, Settled, Entitled, SnapInv, InFlight, UserId
<1> QED
  BY <1>2, <1>3, <1>4 DEF IndInv

LEMMA NextIndInv == IndInv /\ [Next]_vars => IndInv'
<1> SUFFICES ASSUME IndInv, [Next]_vars PROVE IndInv'
  OBVIOUS
<1>1. ASSUME NEW r \in Req, Arrive(r) \/ Handler(r) PROVE IndInv'
  BY <1>1, ArriveStep, ProvTokenStep, RouteStep, CheckEmailStep, InsertUserStep,
     AuthenticateStep, GetByIDStep, UpdateStep DEF Handler
<1>2. CASE UNCHANGED vars
  <2>1. TypeOK' /\ \A q \in Req : InFlight(q) => server = "up"
    BY <1>2 DEF vars, IndInv, TypeOK, Settled
  <2> QED
    BY <1>2, <2>1, ProcessKeeps
    DEF vars, InFlight, IndInv, Bootstrapped, ServedWithAdmin, Stored
<1> QED
  BY <1>1, <1>2, ProcessStep DEF Next

\* The inductive invariant holds of every reachable state: whatever requests,
\* faults, restarts and expiring tokens interleave.
THEOREM AccountsConsistent == Spec => []IndInv
<1>1. Init => IndInv
  BY InitIndInv
<1>2. IndInv /\ [Next]_vars => IndInv'
  BY NextIndInv
<1> QED
  BY <1>1, <1>2, PTL DEF Spec

-----------------------------------------------------------------------------
(***************************************************************************)
(* What follows from the inductive invariant.                              *)
(***************************************************************************)

\* The variables stay within their types, so the table never holds a row that
\* its constraints refuse.
THEOREM AccountTypes == Spec => []TypeOK
<1>1. IndInv => TypeOK
  BY DEF IndInv
<1> QED
  BY <1>1, AccountsConsistent, PTL

\* Two rows never share an address, although it is checked long before it is
\* inserted, and the first administrator's address is never another user's.
THEOREM AddressesUnique == Spec => []UniqueEmail
<1>1. IndInv => UniqueEmail
  BY DEF IndInv
<1> QED
  BY <1>1, AccountsConsistent, PTL

\* A client may believe what it is told about the account it asked for.
THEOREM AccountAnswers == Spec => []AnswerMatchesTable
<1>1. IndInv => AnswerMatchesTable
  BY DEF IndInv
<1> QED
  BY <1>1, AccountsConsistent, PTL

\* Nobody becomes an administrator but by an administrator.
THEOREM NoEscalation == Spec => []AdminsGranted
<1>1. IndInv => AdminsGranted
  BY DEF IndInv
<1> QED
  BY <1>1, AccountsConsistent, PTL

\* Requests are only served while the first administrator has its row.
THEOREM AdminBeforeService == Spec => []ServedWithAdmin
<1>1. IndInv => ServedWithAdmin
  BY DEF IndInv, Bootstrapped
<1> QED
  BY <1>1, AccountsConsistent, PTL

\* The three ways a row is written.
LEMMA UsersWritten ==
    ASSUME [Next]_vars
    PROVE  \/ users' = users
           \/ WithEmail(AdminEmail) = {} /\ AdminInserted
           \/ \E r \in Req : InsertUser(r) /\ users' = [users EXCEPT ![r] = NewRow(call[r])]
           \/ \E r \in Req : Update(r) /\ WriteRow(r)
<1>1. ASSUME NEW r \in Req, Handler(r), ~InsertUser(r), ~Update(r) PROVE users' = users
  BY <1>1 DEF Handler, ProvToken, Register, CreateUser, CheckEmailExist, NewUser,
     Login, Authenticate, UpdateUser, DeactivateUser, GetByID, Unchecked
<1>2. ASSUME NEW r \in Req, Arrive(r) \/ Expire(r) PROVE users' = users
  BY <1>2 DEF Arrive, Expire
<1>3. CASE Boot \/ Crash
  BY <1>3 DEF Boot, Start, CheckInitialAdmin, CreateInitialAdmin, Crash
<1>4. CASE UNCHANGED vars
  BY <1>4 DEF vars
<1>5. ASSUME NEW r \in Req, InsertUser(r)
      PROVE  users' = users \/ users' = [users EXCEPT ![r] = NewRow(call[r])]
  BY <1>5 DEF InsertUser, Created
<1>6. ASSUME NEW r \in Req, Update(r) PROVE users' = users \/ WriteRow(r)
  BY <1>6 DEF Update
<1> QED
  BY <1>1, <1>2, <1>3, <1>4, <1>5, <1>6 DEF Next

\* A row that is stored is only changed by an Update of it, which keeps its
\* address and password.
LEMMA StoredRows ==
    ASSUME IndInv, [Next]_vars, NEW u \in UserId, Stored(u)
    PROVE  /\ RowKept(u)
           /\ users'[u] = users[u]
              \/ \E r \in Req : Update(r) /\ WriteRow(r) /\ call[r].target = u
<1>a. TypeOK /\ Bootstrapped
  BY DEF IndInv
<1>1. CASE users' = users
  BY <1>1 DEF RowKept, Stored
<1>2. CASE WithEmail(AdminEmail) = {} /\ AdminInserted
  <2>1. u # Root
    BY <1>a, <1>2 DEF Bootstrapped, WithEmail
  <2> QED
    BY <1>a, <1>2, <2>1 DEF AdminInserted, RowKept, Stored, TypeOK
<1>3. CASE \E r \in Req : InsertUser(r) /\ users' = [users EXCEPT ![r] = NewRow(call[r])]
  <2>1. PICK r \in Req : InsertUser(r) /\ users' = [users EXCEPT ![r] = NewRow(call[r])]
    BY <1>3
  <2>2. ~Stored(r)
    BY <2>1, AtWork DEF InsertUser, InFlight
  <2> QED
    BY <1>a, <2>1, <2>2 DEF RowKept, Stored, TypeOK
<1>4. CASE \E r \in Req : Update(r) /\ WriteRow(r)
  <2>1. PICK r \in Req : Update(r) /\ WriteRow(r)
    BY <1>4
  <2>2. /\ pc[r] = "Update" /\ call[r] \in Call /\ call[r].target \in UserId
        /\ snap[r] \in Row /\ SnapInv(r)
    BY <2>1, AtWork DEF Update, InFlight, SnapInv
  <2>3. /\ users' = [users EXCEPT ![call[r].target] = Changed(call[r], snap[r])]
    BY <2>1 DEF WriteRow
  <2>4. CASE call[r].target # u
    BY <1>a, <2>2, <2>3, <2>4 DEF RowKept, Stored, TypeOK
  <2>5. CASE call[r].target = u
    <3>1. users'[u] = Changed(call[r], snap[r])
      BY <1>a, <2>3, <2>5 DEF TypeOK
    <3>2. /\ Changed(call[r], snap[r]) \in Row
          /\ Changed(call[r], snap[r]).email = users[u].email
          /\ Changed(call[r], snap[r]).password = users[u].password
      BY <2>2, <2>5, ChangedRow DEF SnapInv
    <3> QED
      BY <2>1, <2>5, <3>1, <3>2, NoRowAssumption DEF RowKept, Stored
  <2> QED
    BY <2>4, <2>5
<1> QED
  BY <1>1, <1>2, <1>3, <1>4, UsersWritten

\* Stale whole-row writes never change an address or a password.
THEOREM Credentials == Spec => CredentialsStable
<1>1. IndInv /\ [Next]_vars => [\A u \in UserId : Stored(u) => RowKept(u)]_vars
  BY StoredRows
<1> QED
  BY <1>1, AccountsConsistent, PTL DEF Spec, CredentialsStable

\* Only the handler of a request answers it.
LEMMA AnswersOwn ==
    ASSUME IndInv, [Next]_vars, NEW r \in Req, Succeeded(r) PROVE Update(r)
<1>a. answer \in [Req -> Code] /\ pc[r] = "Update" /\ answer[r] = 0 /\ answer'[r] # 0
  BY AtWork DEF Succeeded, InFlight, IndInv, TypeOK
<1>1. ASSUME NEW q \in Req, Handler(q)
      PROVE  answer' = answer \/ \E code : answer' = [answer EXCEPT ![q] = code]
  BY <1>1 DEF Handler, ProvToken, Register, CreateUser, CheckEmailExist, NewUser,
     InsertUser, Created, Login, Authenticate, UpdateUser, DeactivateUser, GetByID,
     Update, Reply, Goto
<1>2. ASSUME NEW q \in Req, Arrive(q) \/ Expire(q) PROVE answer' = answer
  BY <1>2 DEF Arrive, Expire, Goto
<1>3. ASSUME NEW q \in Req, Handler(q), q # r PROVE FALSE
  <2>1. answer'[r] = answer[r]
    BY <1>a, <1>1, <1>3
  <2> QED
    BY <1>a, <2>1
<1>4. answer' # answer
  BY <1>a
<1>5. Handler(r)
  <2>1. ~(Boot \/ Crash) /\ ~UNCHANGED vars
    BY <1>4 DEF vars, Boot, Start, CheckInitialAdmin, CreateInitialAdmin, Crash
  <2>2. PICK q \in Req : Arrive(q) \/ Handler(q) \/ Expire(q)
    BY <2>1 DEF Next
  <2> QED
    BY <1>2, <1>3, <1>4, <2>2
<1> QED
  BY <1>a, <1>5 DEF Handler, ProvToken, Register, CreateUser, CheckEmailExist,
     NewUser, InsertUser, Login, Authenticate, UpdateUser, DeactivateUser, GetByID

\* An update or deactivation that no write overlapped is atomic.
THEOREM UpdatesAtomic == Spec => AtomicUnlessOverlapped
<1>1. ASSUME IndInv, [Next]_vars, NEW r \in Req, Succeeded(r), r \notin overlapped
      PROVE  AtomicStep(r)
  <2>1. Update(r)
    BY <1>1, AnswersOwn
  <2>2. pc[r] = "Update" /\ answer \in [Req -> Code] /\ snap[r] = users[call[r].target]
    BY <1>1, <2>1, AtWork DEF Update, InFlight, SnapInv, IndInv, TypeOK
  <2>3. WriteRow(r)
    <3>1. ~Reply(r, 500)
      BY <1>1, <2>2 DEF Reply, Succeeded
    <3> QED
      BY <2>1, <3>1 DEF Update
  <2> QED
    BY <2>2, <2>3 DEF WriteRow, AtomicStep
<1>2. IndInv /\ [Next]_vars =>
          [\A r \in Req : Succeeded(r) /\ r \notin overlapped => AtomicStep(r)]_vars
  BY <1>1
<1> QED
  BY <1>2, AccountsConsistent, PTL DEF Spec, AtomicUnlessOverlapped

\* Only administrators change roles and the active status, but for writes of a
\* row that another request wrote in between.
THEOREM Privileges == Spec => AdminsOnlyUnlessOverlapped
<1>1. ASSUME IndInv, [Next]_vars, NEW u \in UserId, Privileged(u)
      PROVE  \E r \in Req : WritesFor(r, u) /\ (Claim(r) = "ADMIN" \/ r \in overlapped)
  <2>1. PICK r \in Req : Update(r) /\ WriteRow(r) /\ call[r].target = u
    BY <1>1, StoredRows DEF Privileged
  <2>2. /\ TypeOK /\ pc[r] = "Update" /\ SnapInv(r) /\ Entitled(r) /\ call[r] \in Call
    BY <1>1, <2>1, AtWork DEF Update, InFlight
  <2>3. WritesFor(r, u)
    BY <2>1, <2>2 DEF Update, Reply, WritesFor, TypeOK
  <2>4. ASSUME r \notin overlapped, Claim(r) # "ADMIN" PROVE FALSE
    <3>1. /\ call[r].op = "update" /\ call[r].role = "none" /\ call[r].active = "none"
          /\ snap[r] = users[u] /\ users[u] \in Row
      BY <2>1, <2>2, <2>4 DEF Entitled, Forbidden, SnapInv
    <3>2. users'[u] = Changed(call[r], users[u])
      BY <2>1, <2>2, <3>1 DEF WriteRow, TypeOK
    <3>3. /\ Changed(call[r], users[u]).role = users[u].role
          /\ Changed(call[r], users[u]).active = users[u].active
      BY <3>1 DEF Changed, Row
    <3> QED
      BY <1>1, <3>2, <3>3 DEF Privileged
  <2> QED
    BY <2>3, <2>4
<1>2. IndInv /\ [Next]_vars =>
          [\A u \in UserId : Privileged(u) =>
              \E r \in Req : WritesFor(r, u) /\ (Claim(r) = "ADMIN" \/ r \in overlapped)]_vars
  BY <1>1
<1> QED
  BY <1>2, AccountsConsistent, PTL DEF Spec, AdminsOnlyUnlessOverlapped

-----------------------------------------------------------------------------
(***************************************************************************)
(* The first administrator stays one until an administrator asks for the   *)
(* contrary.                                                               *)
(***************************************************************************)
KeptInv == AdminKept /\ AdminSnapsKept

\* What a request asked for, once it has arrived, and a token, once it is sent,
\* do not change.
LEMMA AskedStaysAll ==
    ASSUME IndInv, [Next]_vars, NEW p \in Req
    PROVE  /\ pc[p] # "idle" => /\ pc'[p] # "idle" /\ call'[p] = call[p]
                               /\ bearer'[p] = bearer[p]
           /\ token[p] # NoToken => token'[p] = token[p]
<1>a. TypeOK /\ Settled(p) /\ p \in UserId
  BY DEF IndInv, UserId
<1>1. ASSUME NEW r \in Req, Arrive(r)
      PROVE  /\ token' = token /\ pc[r] = "idle"
             /\ p # r => /\ pc'[p] = pc[p] /\ call'[p] = call[p]
                         /\ bearer'[p] = bearer[p]
  BY <1>a, <1>1 DEF Arrive, Goto, TypeOK
<1>2. ASSUME NEW r \in Req, Handler(r)
      PROVE  /\ call' = call /\ bearer' = bearer
             /\ pc[r] # "answered"
             /\ \E to \in PC \ {"idle"} : pc' = [pc EXCEPT ![r] = to]
             /\ token' = token \/ \E t : token' = [token EXCEPT ![r] = t]
  BY <1>2 DEF Handler, ProvToken, Register, CreateUser, CheckEmailExist, NewUser,
     InsertUser, Created, Login, Authenticate, UpdateUser, DeactivateUser, GetByID,
     Update, Reply, Goto, Unchecked, asked, PC
<1>3. CASE Boot \/ Crash \/ UNCHANGED vars \/ \E q \in Req : Expire(q)
  <2>1. /\ token' = token /\ call' = call /\ bearer' = bearer
        /\ pc' = pc \/ pc' = [r \in Req |-> IF InFlight(r) THEN "lost" ELSE pc[r]]
    BY <1>3 DEF Boot, Start, CheckInitialAdmin, CreateInitialAdmin, Crash, Expire,
       asked, vars
  <2> QED
    BY <2>1
<1>4. ASSUME NEW r \in Req, Handler(r)
      PROVE  /\ pc[p] # "idle" => pc'[p] # "idle"
             /\ token[p] # NoToken => token'[p] = token[p]
  <2>1. CASE p = r
    BY <1>a, <1>2, <1>4, <2>1 DEF TypeOK, Settled
  <2>2. CASE p # r
    BY <1>a, <1>2, <1>4, <2>2 DEF TypeOK
  <2> QED
    BY <2>1, <2>2
<1> QED
  BY <1>1, <1>2, <1>3, <1>4 DEF Next

LEMMA LowersStays ==
    ASSUME IndInv, [Next]_vars, NEW p \in Req, Lowers(p) PROVE Lowers(p)'
<1>1. bearer[p] \in Req /\ token[bearer[p]] # NoToken
  BY DEF IndInv, TypeOK, Entitled, Lowers
<1>2. token'[bearer[p]] = token[bearer[p]]
  BY <1>1, AskedStaysAll
<1>3. pc'[p] # "idle" /\ call'[p] = call[p] /\ bearer'[p] = bearer[p]
  BY AskedStaysAll DEF Lowers
<1> QED
  BY <1>2, <1>3 DEF Lowers, Claim

\* A row is only read by GetByID, and only written back as it was read.
LEMMA SnapOrigin ==
    ASSUME IndInv, [Next]_vars, NEW r \in Req, pc'[r] = "Update"
    PROVE  /\ pc[r] # "idle"
           /\ \/ pc[r] = "Update" /\ snap'[r] = snap[r]
              \/ Stored(call[r].target) /\ snap'[r] = users[call[r].target]
<1>a. TypeOK
  BY DEF IndInv
<1>1. ASSUME NEW q \in Req, Handler(q), ~GetByID(q)
      PROVE  snap' = snap /\ \E to \in PC \ {"Update"} : pc' = [pc EXCEPT ![q] = to]
  BY <1>1 DEF Handler, ProvToken, Register, CreateUser, CheckEmailExist, NewUser,
     InsertUser, Created, Login, Authenticate, UpdateUser, DeactivateUser, Update,
     Reply, Goto, Unchecked, PC
<1>2. ASSUME NEW q \in Req, GetByID(q), q # r PROVE pc'[r] = pc[r] /\ snap'[r] = snap[r]
  BY <1>a, <1>2 DEF GetByID, Reply, Goto, TypeOK
<1>3. ASSUME GetByID(r)
      PROVE  pc[r] = "GetByID" /\ Stored(call[r].target)
             /\ snap'[r] = users[call[r].target]
  BY <1>a, <1>3 DEF GetByID, Reply, Goto, TypeOK, RowRead
<1>4. ASSUME NEW q \in Req, Arrive(q) PROVE pc[r] = "Update" /\ snap' = snap
  BY <1>a, <1>4 DEF Arrive, Goto, TypeOK
<1>5. CASE Boot \/ Crash \/ UNCHANGED vars \/ \E q \in Req : Expire(q)
  BY <1>a, <1>5 DEF Boot, Start, CheckInitialAdmin, CreateInitialAdmin, Crash, Expire,
     vars, TypeOK, InFlight
<1>6. ASSUME NEW q \in Req, Handler(q), ~GetByID(q)
      PROVE  pc[r] = "Update" /\ snap' = snap
  BY <1>a, <1>1, <1>6 DEF TypeOK
<1> QED
  BY <1>2, <1>3, <1>4, <1>5, <1>6 DEF Next

LEMMA KeptStep == IndInv /\ KeptInv /\ [Next]_vars => KeptInv'
<1> SUFFICES ASSUME IndInv, KeptInv, [Next]_vars PROVE KeptInv'
  OBVIOUS
<1>a. TypeOK /\ Root \in UserId /\ InitialAdmin # NoRow
  BY InitialAdminRow DEF IndInv, UserId
<1>b. (\E q \in Req : Lowers(q)) => (\E q \in Req : Lowers(q))'
  BY LowersStays
<1>1. AdminSnapsKept'
  <2>1. SUFFICES ASSUME NEW r \in Req, pc'[r] = "Update", call'[r].target = Root
                 PROVE  Administers(snap'[r]) \/ (\E q \in Req : Lowers(q))'
    BY DEF AdminSnapsKept
  <2>2. call'[r] = call[r]
    BY <2>1, SnapOrigin, AskedStaysAll
  <2> QED
    BY <1>b, <2>1, <2>2, SnapOrigin DEF KeptInv, AdminKept, AdminSnapsKept
<1>2. AdminKept'
  <2>1. CASE ~Stored(Root)
    <3>1. users'[Root] = users[Root] \/ users'[Root] = InitialAdmin
      <4>1. ASSUME NEW r \in Req, InsertUser(r),
                   users' = [users EXCEPT ![r] = NewRow(call[r])]
            PROVE  users'[Root] = users[Root]
        BY <1>a, <4>1, RootAssumption DEF TypeOK
      <4>2. ASSUME NEW r \in Req, Update(r), WriteRow(r)
            PROVE  users'[Root] = users[Root]
        <5>1. call[r].target \in UserId /\ Stored(call[r].target)
          BY <4>2, AtWork DEF Update, InFlight, SnapInv
        <5> QED
          BY <1>a, <2>1, <4>2, <5>1 DEF WriteRow, TypeOK
      <4>3. AdminInserted => users'[Root] = InitialAdmin
        BY <1>a DEF AdminInserted, TypeOK
      <4> QED
        BY <4>1, <4>2, <4>3, UsersWritten
    <3>2. Administers(InitialAdmin)
      BY DEF Administers, InitialAdmin
    <3> QED
      BY <2>1, <3>1, <3>2 DEF AdminKept, Stored
  <2>2. CASE Stored(Root)
    <3>1. CASE users'[Root] = users[Root]
      BY <1>b, <2>2, <3>1 DEF KeptInv, AdminKept
    <3>2. CASE \E r \in Req : Update(r) /\ WriteRow(r) /\ call[r].target = Root
      <4>1. PICK r \in Req : Update(r) /\ WriteRow(r) /\ call[r].target = Root
        BY <3>2
      <4>2. /\ pc[r] = "Update" /\ snap[r] \in Row /\ call[r] \in Call /\ Entitled(r)
        BY <1>a, <4>1, AtWork DEF Update, InFlight, SnapInv
      <4>3. users'[Root] = Changed(call[r], snap[r])
        BY <1>a, <4>1 DEF WriteRow, TypeOK
      <4>4. CASE Lowers(r)
        BY <1>b, <4>4 DEF AdminKept
      <4>5. CASE ~Lowers(r)
        <5>1. /\ call[r].op = "update" /\ call[r].role # "USER"
              /\ call[r].active # "false"
          BY <4>1, <4>2, <4>5, NoTokenAssumption
          DEF Lowers, Entitled, Forbidden, Call, Role
        <5>2. Administers(snap[r]) => Administers(Changed(call[r], snap[r]))
          BY <4>2, <5>1 DEF Administers, Changed, Row, Call, Role
        <5> QED
          BY <1>b, <4>1, <4>2, <4>3, <5>2 DEF KeptInv, AdminSnapsKept, AdminKept
      <4> QED
        BY <4>4, <4>5
    <3> QED
      BY <1>a, <2>2, <3>1, <3>2, StoredRows
  <2> QED
    BY <2>1, <2>2
<1> QED
  BY <1>1, <1>2 DEF KeptInv

\* The first administrator stays an active administrator, whatever stale rows
\* are written back, until a request with an administrator's token asks for the
\* contrary.
THEOREM AdminNotLost == Spec => []AdminKept
<1>1. Init => KeptInv
  BY DEF Init, KeptInv, AdminKept, AdminSnapsKept, Stored, UserId
<1>2. IndInv /\ KeptInv /\ [Next]_vars => KeptInv'
  BY KeptStep
<1>3. KeptInv => AdminKept
  BY DEF KeptInv
<1> QED
  BY <1>1, <1>2, <1>3, AccountsConsistent, PTL DEF Spec
=============================================================================
