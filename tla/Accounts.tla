------------------------------- MODULE Accounts -------------------------------
(***************************************************************************)
(* Users, their registration, login and tokens, and the start of the       *)
(* server that creates the first administrator.  Every request runs in a   *)
(* goroutine of its own, and one action is one call of the database with   *)
(* the code up to the next one: each is an autocommitted statement, so an  *)
(* UpdateUser or a DeactivateUser is a read and, later, a write of the     *)
(* whole row it read.                                                      *)
(***************************************************************************)
EXTENDS Naturals, FiniteSets

CONSTANTS
    Req,            \* HTTP requests; each is sent at most once.  The uuid of
                    \* the user that request r creates is r itself
    Root,           \* the uuid of the user that CreateInitialAdmin creates
    Email,          \* e-mail addresses
    AdminEmail,     \* ADMIN_EMAIL of the configuration
    Profile,        \* contents of full_name, age, region, gender, ...
    AdminProfile,   \* those of the first administrator
    NoRow,          \* what a query for a row that is not there returns
    NoToken,        \* no token, or one that is not signed by the server
    NoCall,         \* the call of a request that has not arrived yet
    Calls,          \* the calls a client may make, a subset of Call
    MaxFaults,      \* bound: how many requests meet a failing database call
    MaxCrashes      \* bound: how many times the server process ends

UserId == Req \cup {Root}
Role   == {"USER", "ADMIN"}
Body   == {"malformed", "invalid", "unstorable", "valid"}

\* The bodies and paths of all endpoints.  role and active are "none" where
\* the JSON leaves them out; password says whether the one sent at a login is
\* that of the user found; /users/me is the target that names the caller.  A
\* body is not parseable, refused by the handler's field checks, refused only
\* by the schema (an e-mail longer than the column), or fine.
Call == [op : {"register", "login", "createUser", "update", "deactivate"},
         email : Email, password : {"right", "wrong"}, profile : Profile,
         role : Role \cup {"none"}, active : {"none", "true", "false"},
         target : UserId, body : Body]

Row   == [email : Email, password : {"hash", "blank"}, profile : Profile,
          role : Role, active : BOOLEAN]
Token == [sub : UserId, role : Role]
Code  == {0, 200, 201, 204, 400, 401, 403, 404, 409, 422, 423, 500}

ASSUME RootAssumption == Root \notin Req
ASSUME AdminAssumption == AdminEmail \in Email /\ AdminProfile \in Profile
ASSUME NoRowAssumption == NoRow \notin Row
ASSUME NoTokenAssumption == NoToken \notin Token /\ NoToken \notin Req
ASSUME CallsAssumption == Calls \subseteq Call /\ NoCall \notin Call
ASSUME BoundsAssumption == MaxFaults \in Nat /\ MaxCrashes \in Nat

VARIABLES
    users,          \* the table: per id a row, or NoRow
    server,         \* the process: down, checking or creating, up
    pc,             \* what the handler of a request does next
    call,           \* what its client asked for
    bearer,         \* the request that was answered with the token it carries
    answer,         \* the status code sent, 0 before that
    snap,           \* the row GetByID returned
    token,          \* the token sent with the answer of a request
    expired,        \* the requests whose token has expired
    faulted,        \* requests that met a failing database call
    crashes,        \* times the process ended
    overlapped      \* history: requests whose row another one wrote between
                    \* their read of it and their write

vars == <<users, server, pc, call, bearer, answer, snap, token, expired,
          faulted, crashes, overlapped>>
process == <<server, crashes>>
asked   == <<call, bearer>>

PC == {"idle", "ProvToken", "route", "CheckEmail", "CheckEmailAgain", "Create",
       "GetByEmail", "GetByID", "Update", "answered", "lost"}

InFlight(r) == pc[r] \notin {"idle", "answered", "lost"}
Stored(u)   == users[u] # NoRow
Caller(r)   == token[bearer[r]].sub
Claim(r)    == token[bearer[r]].role

\* SELECT ... WHERE email = $1
WithEmail(e) == {u \in UserId : Stored(u) /\ users[u].email = e}

Init ==
    /\ users = [u \in UserId |-> NoRow]
    /\ server = "down"
    /\ pc = [r \in Req |-> "idle"]
    /\ call = [r \in Req |-> NoCall]
    /\ bearer = [r \in Req |-> NoToken]
    /\ answer = [r \in Req |-> 0]
    /\ snap = [r \in Req |-> NoRow]
    /\ token = [r \in Req |-> NoToken]
    /\ expired = {}
    /\ faulted = {}
    /\ crashes = 0
    /\ overlapped = {}

\* A database call of r fails: the database refuses it, the network breaks, or
\* the client left and the request's context is done.  Every handler stops at
\* its first failing call.
Fault(r) ==
    /\ r \notin faulted
    /\ Cardinality(faulted) < MaxFaults
    /\ faulted' = faulted \cup {r}
Succeeds == UNCHANGED faulted

Goto(r, to) == pc' = [pc EXCEPT ![r] = to] /\ UNCHANGED answer
Reply(r, code) ==
    /\ pc' = [pc EXCEPT ![r] = "answered"]
    /\ answer' = [answer EXCEPT ![r] = code]

(***************************************************************************)
(* The start of the process.  It serves requests only after                *)
(* CreateInitialAdmin; an error ends it and its container restarts it.     *)
(***************************************************************************)
Start ==
    /\ server = "down"
    /\ server' = "checking"
    /\ UNCHANGED <<users, pc, asked, answer, snap, token, expired, faulted,
                   crashes, overlapped>>

\* Mutant: the first administrator is created at every start.
CheckInitialAdminNever ==
    /\ server = "checking"
    /\ server' = "creating"
    /\ UNCHANGED <<users, pc, asked, answer, snap, token, expired, faulted,
                   crashes, overlapped>>

\* GetByEmail of the configured administrator.
CheckInitialAdmin ==
    /\ server = "checking"
    /\ server' = IF WithEmail(AdminEmail) = {} THEN "creating" ELSE "up"
    /\ UNCHANGED <<users, pc, asked, answer, snap, token, expired, faulted,
                   crashes, overlapped>>

\* Mutant: the field IsActive is left at its zero value.
InitialAdminInactive == [email |-> AdminEmail, password |-> "hash",
                         profile |-> AdminProfile, role |-> "ADMIN", active |-> FALSE]

InitialAdmin == [email |-> AdminEmail, password |-> "hash",
                 profile |-> AdminProfile,
                 role |-> "ADMIN", active |-> TRUE]

AdminInserted == users' = [users EXCEPT ![Root] = InitialAdmin]

\* Mutant: an INSERT that fails is logged, and the server starts.
CreateInitialAdminErrorIgnored ==
    /\ server = "creating"
    /\ server' = "up"
    /\ UNCHANGED users \/ AdminInserted
    /\ UNCHANGED <<pc, asked, answer, snap, token, expired, faulted, crashes,
                   overlapped>>

\* The INSERT; were the address taken, log.Fatal would end the process.
CreateInitialAdmin ==
    /\ server = "creating"
    /\ IF WithEmail(AdminEmail) = {}
       THEN server' = "up" /\ AdminInserted
       ELSE server' = "down" /\ UNCHANGED users
    /\ UNCHANGED <<pc, asked, answer, snap, token, expired, faulted, crashes,
                   overlapped>>

\* The process ends, at any time, also by log.Fatal when a call fails while it
\* starts, whether or not the INSERT it was waiting for has been applied.
Crash ==
    /\ server # "down" /\ crashes < MaxCrashes
    /\ crashes' = crashes + 1
    /\ server' = "down"
    /\ \/ UNCHANGED users
       \/ server = "creating" /\ WithEmail(AdminEmail) = {} /\ AdminInserted
    /\ pc' = [r \in Req |-> IF InFlight(r) THEN "lost" ELSE pc[r]]
    /\ UNCHANGED <<asked, answer, snap, token, expired, faulted, overlapped>>

(***************************************************************************)
(* A request arrives.  Registration and login are open to all; the others  *)
(* pass the token middleware first.                                        *)
(***************************************************************************)
Open == {"register", "login"}

Arrive(r) ==
    /\ server = "up" /\ pc[r] = "idle"
    /\ \E c \in Calls :
          /\ call' = [call EXCEPT ![r] = c]
          /\ Goto(r, IF c.op \in Open THEN "route" ELSE "ProvToken")
          /\ \E q \in {p \in Req : token[p] # NoToken} \cup {NoToken} :
                bearer' = [bearer EXCEPT ![r] = q]
    /\ UNCHANGED <<users, process, snap, token, expired, faulted, overlapped>>

\* The time-to-live of a token (an hour) runs out.
Expire(q) ==
    /\ token[q] # NoToken /\ q \notin expired
    /\ expired' = expired \cup {q}
    /\ UNCHANGED <<users, process, pc, asked, answer, snap, token, faulted,
                   overlapped>>

Genuine(r) == bearer[r] # NoToken /\ bearer[r] \notin expired

\* The row decides whether the caller may go on, the token what role it has.
ProvToken(r) ==
    /\ pc[r] = "ProvToken"
    /\ \/ ~Genuine(r) /\ Succeeds /\ Reply(r, 401)
       \/ /\ Genuine(r)
          /\ \/ /\ Succeeds
                /\ IF Stored(Caller(r)) /\ users[Caller(r)].active
                   THEN Goto(r, "route")
                   ELSE Reply(r, 401)
             \/ Fault(r) /\ Reply(r, 401)
    /\ UNCHANGED <<users, process, asked, snap, token, expired, overlapped>>

(***************************************************************************)
(* POST /auth/register and POST /users                                     *)
(***************************************************************************)
Unchecked(r) ==
    UNCHANGED <<users, process, asked, snap, token, expired, overlapped>>

Register(r) ==
    /\ pc[r] = "route" /\ call[r].op = "register"
    /\ IF call[r].body \in {"malformed", "invalid"}
       THEN Reply(r, 400) ELSE Goto(r, "CheckEmail")
    /\ Succeeds
    /\ Unchecked(r)

\* AdminOnly, then the handler: the body must name a role.
CreateUser(r) ==
    /\ pc[r] = "route" /\ call[r].op = "createUser"
    /\ \/ Claim(r) # "ADMIN" /\ Reply(r, 403)
       \/ /\ Claim(r) = "ADMIN"
          /\ \/ call[r].body \in {"malformed", "invalid"} /\ Reply(r, 400)
             \/ /\ call[r].body \in {"unstorable", "valid"}
                /\ IF call[r].role = "none"
                   THEN Reply(r, 422) ELSE Goto(r, "CheckEmail")
    /\ Succeeds
    /\ Unchecked(r)

CheckEmailExist(r) ==
    /\ pc[r] = "CheckEmail"
    /\ \/ /\ Succeeds
          /\ IF WithEmail(call[r].email) # {}
             THEN Reply(r, 409) ELSE Goto(r, "CheckEmailAgain")
       \/ Fault(r) /\ Reply(r, 500)
    /\ Unchecked(r)

\* NewUser asks again; its errors are all answered 422.
NewUser(r) ==
    /\ pc[r] = "CheckEmailAgain"
    /\ \/ /\ Succeeds
          /\ IF WithEmail(call[r].email) # {}
             THEN Reply(r, 422) ELSE Goto(r, "Create")
       \/ Fault(r) /\ Reply(r, 422)
    /\ Unchecked(r)

\* NewUser ignores the role of the request.
NewRow(c) == [email |-> c.email, password |-> "hash", profile |-> c.profile,
              role |-> "USER", active |-> TRUE]

\* Mutant: the column is not UNIQUE.
StorableTwice(c) == c.body = "valid"

\* The constraints of the table on an INSERT.
Storable(c) == c.body = "valid" /\ WithEmail(c.email) = {}

\* A registration is answered with a token, a createUser with the user only.
Created(r) ==
    /\ users' = [users EXCEPT ![r] = NewRow(call[r])]
    /\ Reply(r, 201)
    /\ token' = IF call[r].op = "register"
                THEN [token EXCEPT ![r] = [sub |-> r, role |-> "USER"]]
                ELSE token

\* Mutant: an INSERT that fails is answered 201.
InsertUserErrorIgnored(r) ==
    /\ pc[r] = "Create"
    /\ \/ Succeeds /\ Storable(call[r]) /\ Created(r)
       \/ /\ (Succeeds /\ ~Storable(call[r])) \/ Fault(r)
          /\ Reply(r, 201)
          /\ UNCHANGED <<users, token>>
    /\ UNCHANGED <<process, asked, snap, expired, overlapped>>

\* The INSERT, which the database may refuse, or apply without the handler
\* learning of it.
InsertUser(r) ==
    /\ pc[r] = "Create"
    /\ \/ Succeeds /\ Storable(call[r]) /\ Created(r)
       \/ /\ Succeeds /\ ~Storable(call[r])
          /\ Reply(r, 422)
          /\ UNCHANGED <<users, token>>
       \/ /\ Fault(r)
          /\ \/ UNCHANGED users
             \/ /\ Storable(call[r])
                /\ users' = [users EXCEPT ![r] = NewRow(call[r])]
          /\ Reply(r, 422)
          /\ UNCHANGED token
    /\ UNCHANGED <<process, asked, snap, expired, overlapped>>

(***************************************************************************)
(* POST /auth/login                                                        *)
(***************************************************************************)
Login(r) ==
    /\ pc[r] = "route" /\ call[r].op = "login"
    /\ IF call[r].body = "malformed" THEN Reply(r, 400) ELSE Goto(r, "GetByEmail")
    /\ Succeeds
    /\ Unchecked(r)

\* The token carries the role of the row as this query returned it.
Authenticate(r) ==
    /\ pc[r] = "GetByEmail"
    /\ \/ /\ Succeeds /\ WithEmail(call[r].email) = {}
          /\ Reply(r, 401)
          /\ UNCHANGED token
       \/ /\ Succeeds
          /\ \E u \in WithEmail(call[r].email) :
             \/ /\ ~users[u].active
                /\ Reply(r, 423)
                /\ UNCHANGED token
             \/ /\ users[u].active /\ call[r].password = "wrong"
                /\ Reply(r, 401)
                /\ UNCHANGED token
             \/ /\ users[u].active /\ call[r].password = "right"
                /\ Reply(r, 200)
                /\ token' = [token EXCEPT ![r] = [sub |-> u, role |-> users[u].role]]
       \/ Fault(r) /\ Reply(r, 500) /\ UNCHANGED token
    /\ UNCHANGED <<users, process, asked, snap, expired, overlapped>>

(***************************************************************************)
(* PUT /users/:id and DELETE /users/:id                                    *)
(***************************************************************************)
UpdateUser(r) ==
    /\ pc[r] = "route" /\ call[r].op = "update"
    /\ LET c == call[r] IN
       \/ c.body = "malformed" /\ Reply(r, 400)
       \/ c.body \in {"invalid", "unstorable"} /\ Reply(r, 422)
       \/ /\ c.body = "valid"
          /\ IF Claim(r) = "USER" /\ c.target # Caller(r)
             THEN Reply(r, 403) ELSE Goto(r, "GetByID")
    /\ Succeeds
    /\ Unchecked(r)

\* Mutant: the handler leaves the check of the role to the middleware.
DeactivateUserAnyRole(r) ==
    /\ pc[r] = "route" /\ call[r].op = "deactivate"
    /\ Goto(r, "GetByID")
    /\ Succeeds
    /\ Unchecked(r)

DeactivateUser(r) ==
    /\ pc[r] = "route" /\ call[r].op = "deactivate"
    /\ IF Claim(r) = "ADMIN" THEN Goto(r, "GetByID") ELSE Reply(r, 403)
    /\ Succeeds
    /\ Unchecked(r)

\* Mutant: a USER may change any field of its own row.
ForbiddenNever(r) == FALSE

\* role and isActive are for administrators.
Forbidden(r) ==
    /\ call[r].op = "update"
    /\ call[r].role # "none" \/ call[r].active # "none"
    /\ Claim(r) # "ADMIN"

RowRead(u) == users[u]

\* What is answered when the row cannot be read: UpdateUser calls every error
\* "user not found"; DeactivateUser's text matches nothing its handler knows.
NotRead(r) == IF call[r].op = "update" THEN 404 ELSE 500

GetByID(r) ==
    /\ pc[r] = "GetByID"
    /\ \/ /\ Succeeds /\ ~Stored(call[r].target)
          /\ Reply(r, NotRead(r))
          /\ UNCHANGED snap
       \/ /\ Succeeds /\ Stored(call[r].target) /\ Forbidden(r)
          /\ Reply(r, 403)
          /\ UNCHANGED snap
       \/ /\ Succeeds /\ Stored(call[r].target) /\ ~Forbidden(r)
          /\ snap' = [snap EXCEPT ![r] = RowRead(call[r].target)]
          /\ Goto(r, "Update")
       \/ Fault(r) /\ Reply(r, NotRead(r)) /\ UNCHANGED snap
    /\ UNCHANGED <<users, process, asked, token, expired, overlapped>>

\* Mutant: a DELETE deletes the row.
ChangedDeleted(c, row) ==
    IF c.op = "deactivate" THEN NoRow
    ELSE [row EXCEPT !.profile = c.profile,
                     !.role = IF c.role = "none" THEN @ ELSE c.role,
                     !.active = IF c.active = "none" THEN @ ELSE c.active = "true"]

\* What a call makes of the row it read.
Changed(c, row) ==
    IF c.op = "deactivate" THEN [row EXCEPT !.active = FALSE]
    ELSE [row EXCEPT !.profile = c.profile,
                     !.role = IF c.role = "none" THEN @ ELSE c.role,
                     !.active = IF c.active = "none" THEN @ ELSE c.active = "true"]

Done(r) == IF call[r].op = "update" THEN 200 ELSE 204

\* UPDATE users SET every column WHERE id = $1
WriteRow(r) ==
    /\ users' = [users EXCEPT ![call[r].target] = Changed(call[r], snap[r])]
    /\ overlapped' = overlapped \cup
          {q \in Req \ {r} : pc[q] = "Update" /\ call[q].target = call[r].target}

\* Mutant: the error of the UPDATE is dropped.
UpdateErrorIgnored(r) ==
    /\ pc[r] = "Update"
    /\ \/ Succeeds /\ WriteRow(r)
       \/ Fault(r) /\ UNCHANGED <<users, overlapped>>
    /\ Reply(r, Done(r))
    /\ UNCHANGED <<process, asked, snap, token, expired>>

Update(r) ==
    /\ pc[r] = "Update"
    /\ \/ Succeeds /\ WriteRow(r) /\ Reply(r, Done(r))
       \/ /\ Fault(r)
          /\ WriteRow(r) \/ UNCHANGED <<users, overlapped>>
          /\ Reply(r, 500)
    /\ UNCHANGED <<process, asked, snap, token, expired>>

-----------------------------------------------------------------------------
Handler(r) ==
    \/ ProvToken(r)
    \/ Register(r) \/ CreateUser(r)
    \/ CheckEmailExist(r) \/ NewUser(r) \/ InsertUser(r)
    \/ Login(r) \/ Authenticate(r)
    \/ UpdateUser(r) \/ DeactivateUser(r) \/ GetByID(r) \/ Update(r)

Boot == Start \/ CheckInitialAdmin \/ CreateInitialAdmin

Next ==
    \/ Boot \/ Crash
    \/ \E r \in Req : Arrive(r) \/ Handler(r) \/ Expire(r)

Spec == Init /\ [][Next]_vars

-----------------------------------------------------------------------------
(***************************************************************************)
(* Properties.                                                             *)
(***************************************************************************)

\* Every variable stays within its type: in particular the table only holds
\* rows that its CHECK and NOT NULL constraints allow.
TypeOK ==
    /\ users \in [UserId -> Row \cup {NoRow}]
    /\ server \in {"down", "checking", "creating", "up"}
    /\ pc \in [Req -> PC]
    /\ call \in [Req -> Calls \cup {NoCall}]
    /\ bearer \in [Req -> Req \cup {NoToken}]
    /\ answer \in [Req -> Code]
    /\ snap \in [Req -> Row \cup {NoRow}]
    /\ token \in [Req -> Token \cup {NoToken}]
    /\ expired \subseteq Req
    /\ faulted \subseteq Req
    /\ crashes \in 0..MaxCrashes
    /\ overlapped \subseteq Req

\* Register and CreateUser ask twice whether an address is taken and insert
\* later, so two of them may both find it free: still no two rows share one,
\* and the first administrator's address is never another user's.
UniqueEmail ==
    /\ \A u, v \in UserId :
          Stored(u) /\ Stored(v) /\ users[u].email = users[v].email => u = v
    /\ \A u \in UserId : Stored(u) /\ users[u].email = AdminEmail => u = Root

\* A well-formed request for a new account.
AsksForAccount(c) ==
    /\ c.op \in {"register", "createUser"} /\ c.body = "valid"
    /\ c.op = "createUser" => c.role # "none"
AnswerTrue(r) ==
    /\ answer[r] = 201 => Stored(r) /\ users[r].email = call[r].email
    /\ Stored(r) /\ pc[r] = "answered" => answer[r] = 201 \/ r \in faulted
    /\ answer[r] \in {409, 422} /\ r \notin faulted /\ AsksForAccount(call[r])
          => WithEmail(call[r].email) # {}
\* What a client is told about an account it asked for: 201 only for a stored
\* one with its address, a refusal only for one that is not stored (unless the
\* database failed the request), and "email exists" only if somebody has it,
\* also for the loser of the race, which is told 422.
AnswerMatchesTable == \A r \in Req : AnswerTrue(r)

RowKept(u) ==
    /\ Stored(u)'
    /\ users'[u].email = users[u].email
    /\ users'[u].password = users[u].password
\* Rows are never deleted, and the whole-row writes of UpdateUser and
\* DeactivateUser, stale as they may be, never change an address or password.
CredentialsStable == [][\A u \in UserId : Stored(u) => RowKept(u)]_vars

\* r asked, with an administrator's token, that u become an administrator.
Grants(r, u) ==
    /\ pc[r] # "idle" /\ bearer[r] # NoToken
    /\ Claim(r) = "ADMIN"
    /\ call[r].op = "update" /\ call[r].role = "ADMIN" /\ call[r].target = u
Granted(u) == u = Root \/ \E r \in Req : Grants(r, u)

RowGranted(u) == Stored(u) /\ users[u].role = "ADMIN" => Granted(u)
TokenGranted(q) ==
    token[q] # NoToken /\ token[q].role = "ADMIN" => Granted(token[q].sub)
\* However registrations, updates from stale rows and old tokens interleave,
\* the role ADMIN, in a row or a token, is the first administrator's or was
\* given to its holder by a request that carried an administrator's token.
AdminsGranted ==
    /\ \A u \in UserId : RowGranted(u)
    /\ \A q \in Req : TokenGranted(q)

\* The step answers an update or a deactivation with success.
Succeeded(r) == pc[r] = "Update" /\ answer'[r] \in {200, 204}

AtomicStep(r) ==
    users' = [users EXCEPT ![call[r].target] =
                  Changed(call[r], users[call[r].target])]
\* An update or deactivation that no other write to its row overlapped is
\* atomic: the row becomes what the call makes of the row as it is, and no
\* other row changes.
AtomicUnlessOverlapped ==
    [][\A r \in Req : Succeeded(r) /\ r \notin overlapped => AtomicStep(r)]_vars

\* A step writes u on behalf of r.
WritesFor(r, u) == pc[r] = "Update" /\ pc'[r] = "answered" /\ call[r].target = u
Privileged(u) == Stored(u) /\ (users'[u].role # users[u].role
                               \/ users'[u].active # users[u].active)

\* "forbidden: only ADMIN can update role", "... active status": whoever is
\* not an administrator changes neither, unless by writing back a row that
\* another request wrote in between.
AdminsOnlyUnlessOverlapped ==
    [][\A u \in UserId : Privileged(u) =>
          \E r \in Req : WritesFor(r, u) /\ (Claim(r) = "ADMIN" \/ r \in overlapped)]_vars

\* The two messages as they stand: only ADMIN can update role or active status.
AdminsOnly ==
    [][\A u \in UserId : Privileged(u) =>
          \E r \in Req : WritesFor(r, u) /\ Claim(r) = "ADMIN"]_vars

\* POST /users asks for a role, USER or ADMIN: it creates a user of that role.
CreatedAsAsked ==
    [][\A r \in Req : answer'[r] = 201 /\ answer[r] # 201 /\ call[r].op = "createUser"
          => users'[r].role = call[r].role]_vars

\* r asked, with an administrator's token, that the first administrator be one
\* no longer.
Lowers(r) ==
    /\ pc[r] # "idle" /\ bearer[r] # NoToken
    /\ Claim(r) = "ADMIN" /\ call[r].target = Root
    /\ \/ call[r].op = "deactivate"
       \/ call[r].op = "update" /\ (call[r].role = "USER" \/ call[r].active = "false")
Administers(row) == row.role = "ADMIN" /\ row.active

\* No start of the server repairs the row of the first administrator, so losing
\* it may leave nobody to administer: it stays an active administrator whatever
\* others do, also by writing back old rows, until a request with an
\* administrator's token asks for the contrary.
AdminKept ==
    Stored(Root) => Administers(users[Root]) \/ \E r \in Req : Lowers(r)

\* Requests are only served while the first administrator has its row, whatever
\* call failed or process ended during CreateInitialAdmin.
ServedWithAdmin ==
    server = "up" => Stored(Root) /\ users[Root].email = AdminEmail

\* A process that ends, even between the INSERT of the first administrator and
\* its answer, is not stuck in restarts: a later start serves.
ServerComesUp == server = "down" ~> server = "up"

-----------------------------------------------------------------------------
(***************************************************************************)
(* The inductive strengthening of the safety properties above.             *)
(***************************************************************************)
\* The first administrator's row, from the first complete start on.
Bootstrapped ==
    /\ ServedWithAdmin
    /\ Stored(Root) => users[Root].email = AdminEmail

\* What the table and the answers owe to r.
Settled(r) ==
    /\ InFlight(r) => server = "up"
    /\ pc[r] # "idle" => call[r] \in Calls
    /\ pc[r] # "answered" => answer[r] = 0 /\ token[r] = NoToken
    /\ Stored(r) => /\ pc[r] = "answered"
                    /\ users[r].email = call[r].email
                    /\ answer[r] = 201 \/ r \in faulted

\* What r has shown so far to be allowed.
Entitled(r) ==
    /\ bearer[r] # NoToken => token[bearer[r]] # NoToken
    /\ pc[r] = "route" /\ call[r].op \notin Open => bearer[r] # NoToken
    /\ pc[r] \in {"GetByID", "Update"} =>
          /\ bearer[r] # NoToken
          /\ call[r].op \in {"update", "deactivate"}
          /\ call[r].op = "deactivate" => Claim(r) = "ADMIN"
    /\ pc[r] = "Update" => ~Forbidden(r)

\* What the row r has read still has to do with the row in the table.
SnapInv(r) ==
    pc[r] = "Update" =>
        LET u == call[r].target IN
        /\ Stored(u) /\ snap[r] \in Row
        /\ snap[r].email = users[u].email
        /\ snap[r].password = users[u].password
        /\ snap[r].role = "ADMIN" => Granted(u)
        /\ r \notin overlapped => snap[r] = users[u]

\* The rows of the first administrator that are still to be written back.
AdminSnapsKept ==
    \A r \in Req : pc[r] = "Update" /\ call[r].target = Root =>
        Administers(snap[r]) \/ \E q \in Req : Lowers(q)

\* The inductive invariant.
IndInv ==
    /\ TypeOK
    /\ UniqueEmail /\ AnswerMatchesTable /\ AdminsGranted /\ Bootstrapped
    /\ \A r \in Req : Settled(r) /\ Entitled(r) /\ SnapInv(r)
=============================================================================
