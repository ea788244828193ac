# A verification project for the Antifraud API

The program under `src/solution` is an HTTP service (Go, gin, `database/sql` on
PostgreSQL) with three groups of endpoints: users and their tokens, fraud rules,
and transactions, which record the rules in force when they are created. It has
no tests; what is hard about it is what a test would hardly reach: handlers run
concurrently, each as a sequence of separate database statements, and any
statement may fail, be cancelled by the client's departure, or be the last one
before the process dies.

The project models that in TLA+, one module per group of endpoints and one for the
server that they make up, checks it with TLC on small instances, and proves the
safety properties with TLAPS for every number of requests, users, rules, rows and
faults.

## The system

| Component | State it keeps | Operations | What must be right |
|---|---|---|---|
| Startup (`pkg/server.go`, `migration/`, `service/service.go` CreateInitialAdmin) | the schema, the first administrator's row | create the tables, look for the administrator, insert it, serve | it serves only with an administrator; a crash between check and insert does no harm; a restart always gets through |
| Token middleware (`handler/user_handler.go` ProvToken, AdminOnly; `utils/jwtm.go`) | none: tokens are signed and carry user, role, expiry | check a token, read the caller's row | only active users pass; the role is the token's, so it may be stale |
| Users (`handler/auth.go`, `handler/user_handler.go`, `service/service.go`, `repository/User_db.go`) | table `users` | register, log in, create, update, deactivate, read, list | unique addresses in spite of check-then-insert; no escalation; updates are read-modify-write of the whole row without a lock |
| Fraud rules (`handler/fraud_handler.go`, `service/fraud_service.go`, `repository/Fraud_db.go`) | table `fraud` | create, update, deactivate, read, list, validate an expression | unique names; the same unlocked read-modify-write |
| Transactions (`handler/Traction_handler.go`, `service/traction_servic.go`, `repository/tractions_repository.go`) | tables `transactions`, `transaction_rule_results`; per request a database transaction | create, list, get | all or nothing; one consistent set of rules; for the right user; true answers; no connection kept for ever |
| Connection pool (`repository/dataBase.go`, `database/sql`) | 25 connections | lend one per statement or database transaction | nobody waits for ever |
| Listings (the list handlers of all three groups) | none | COUNT, and SELECT with LIMIT and OFFSET | a client that reads page after page misses nothing; totals fit pages |
| DSL validator (`service/dlsValidator.go`) | none | validate, normalise | the verdict is what the words say; the normal form says the same |
| Legacy engine (`service/tracrion_service.go`) | a database transaction, if it has no repository | decide by rules and priorities, save | declined just if a rule holds; the rules of one instant; not reachable from the server |
| `CreateBatch`, `EvaluateRule` (`service/fraud_eval.go`) | none | as Create; an expression library | no caller |

The components meet in the database only. A handler of transactions reads `users`
(middleware, then the owner of the transaction) and `fraud`, then opens a
database transaction; meanwhile the handlers of users and rules write those
tables with autocommitted statements. There are no callbacks and no shared memory
besides the pool. Rows are never deleted by any endpoint.

### What is hard

* *Interleaving.* A rule is switched off or a user deactivated between the reads
  of `Create` and its commit; two registrations of one address; an `UpdateUser`
  and a `DeactivateUser` of one row.
* *Failure.* A result insert fails: its error is assigned to a variable of the
  loop (`tractions_repository.go:132`), so the deferred rollback sees none and
  leaves the transaction open. A COMMIT or INSERT is applied and its answer is lost.
* *Cancellation.* Every statement gets the context of the request. When the client
  leaves, or the handler returns, `database/sql` rolls an open transaction back,
  concurrently with the handler.
* *Crash and restart.* The container restarts the process; the database keeps what
  was committed.
* *Staleness.* The role in a token, the row an update read, the count of a listing.
* *Order.* Pages are cut by a timestamp that a client may have chosen; rules of one
  priority come from the database in any order.
* *Composition.* Each group of endpoints relies on what the others do to its tables,
  and all of them wait for the same connections.

`PROJECT.json` lists these hazards at their lines, with the properties that would
catch each going wrong.

## The modules

| Module | What it is |
|---|---|
| `Transactions` | POST, GET-list and GET-by-id of `/transactions`, with the middleware, the pool, faults, cancellation and crashes; users and rules are written by an environment |
| `Ledger` | the abstract promise of `Transactions`: each request adds at most one entry to an append-only ledger, atomically |
| `Accounts` | registration, login, user administration and the start of the server |
| `FraudRules` | POST, GET, PUT and DELETE of `/fraud-rules`; users are written by an environment |
| `Antifraud` | the server: `Accounts`, `FraudRules` and `Transactions` in one process over the same tables, tokens and pool, in place of the environments |
| `Listings` | the three listings and a client that reads page after page |
| `DecisionEngine` | `TransactionService.CreateTransaction`, the service that evaluates rules |
| `DslValidator` | POST `/fraud-rules/validate` |
| `Subsequences` | parts of a sequence by the places they are taken from, which `DslValidator` is built of |
| `TransactionsProofs`, `AccountsProofs`, `FraudRulesProofs`, `AntifraudProofs`, `ListingsProofs`, `DecisionEngineProofs`, `DslValidatorProofs`, `SubsequencesProofs` | theorems about the module they are named after |
| `MC...` | instances for TLC: the calls of each run, and symmetry |

An operator named in a comment `Mutant: ...` is a faulty version of the definition
that follows it. No specification uses it; substituted for that definition, it
shows that a property can tell the difference.

### Transactions

*State.* `users` and `rules` are tables reduced to the column the endpoint looks at
(`is_active`, `enabled`); `transactions` and `results` are sets of committed rows.
Per request: the program counter `pc` (named after the call the handler makes next),
the `call` (with a token that is good, or missing, forged or expired), the `answer`, the context `ctx`, the database transaction `tx` with its
uncommitted rows `wrote`, the rules read (`snap`) and still to insert (`todo`), and a
listing's result. `seen`, `activeSeen` and `before` are history variables that only
properties read.

*Actions.* One action is the code between two calls of the database:
`ProvToken` (401 without a query for a bad token, then the caller's row); `CreateTransaction` (field checks and whose transaction it is),
`GetTargetUser`, `GetAllActive`, `BeginTx`, `InsertTransaction`, `InsertRuleResult`
(one turn of the loop), `Commit`; `GetTransactions` (COUNT) and `ListQuery` (SELECT);
`GetTransaction`. Around them, `Finish` and `Disconnect` end a context, `AwaitDone` is
the driver's rollback, `Crash` the end of the process, and `UserWritten` and
`RuleWritten` are what other endpoints do to the two tables.
Every call of the database may fail on its own (`Fault`), fails once the context is
done, and waits for a connection while the pool is exhausted. `Commit` may be applied
although the handler is told that it failed.

*Abstraction.* The body of a request is one of four classes (not parseable; refused by
the field checks; refused by the schema; fine). The uuid of a transaction is its request.
Amounts, merchants, locations and timestamps are left out: no step depends on them. The
listing is the unfiltered, unpaged one; pages are in `Listings`. The rules'
loop is in any order, which covers the order of priorities.

### Ledger

`Open`, `Save`, `End` and `LoseAll`, with users and rules changing freely (`Change`).
`Transactions` implements it under the mapping `Promise`: the entry of a transaction is
its user and the set of its rules; a client that got 201 was told "saved", one that got a
4xx was told "notsaved", and one that got a 500 or nothing was told "unknown". `Commit`
implements `Save` or `End`; every other step of a creation but its refusals is a stutter.

### Accounts

*State.* `users` maps ids to rows (address, password hash, profile, role, active); `server`
is the phase of the process; per request `pc`, `call`, the `bearer` (the request that was
answered with the token this one carries), `answer`, the row it read (`snap`) and the
`token` its answer contained. `overlapped` is a history variable: the requests whose row
someone else wrote between their read and their write.

*Actions.* `Start`, `CheckInitialAdmin`, `CreateInitialAdmin` (the start of the process);
`Arrive`, `ProvToken`; `Register` and `CreateUser`, then `CheckEmailExist` (the handler's
check), `NewUser` (the service's own check) and `InsertUser`; `Login` and `Authenticate`;
`UpdateUser` and `DeactivateUser`, then `GetByID` and `Update`, the write of every column;
`Expire` and `Crash`. `log.Fatal` during the start is a `Crash`.

*Abstraction.* A handler stops at its first failing call, so the departure of a client and a
database error are one thing, a `Fault`. Single statements hold a connection for their own
duration only: the pool is in `Antifraud`. The clock is left out: a token may expire at
any time. `/users/me` is the caller naming itself. Reading the row and signing the token of
a login are one action: signing depends on nothing another request does, and the token can
only be used later in either case.
A statement that is applied while the process dies is a `Fault` that applies it, followed by a
`Crash`: nobody learns of its answer either way.

### FraudRules

*State.* `rules` maps ids to rows (name, text, enabled); `users` is reduced to `is_active`; per
request `pc`, `call`, `answer` and the row it read (`snap`); `overlapped` as in `Accounts`.

*Actions.* `ProvToken`, with the token of the call as in `Transactions`; `CreateFraud`, then `CheckNameExist` and `Create` (the INSERT);
`GetFraud`; `UpdateFraudID` and `DeactivateFraudID`, then `GetBYID` and `Update`, the write of
every column; `UserWritten` and `Crash`.

*Abstraction.* Description, expression and priority change together as `text`: no step looks
into them, and the handlers of rules never call the validator. A creation can only be of an
enabled rule, because the binding takes a required `false` for a missing field. The answers are
the code's, that is 500 for a taken name and for a missing rule (see below). As in `Accounts`, a statement
that is applied while the process dies is a `Fault` that applies it, followed by a `Crash`: the client hears 500
or nothing, and may know no more from either.

### Antifraud

`Antifraud` extends `Accounts` and instantiates `FraudRules` (`F`) and `Transactions` (`T`).
`users` of the other two is the projection `UserStatus` of the table of `Accounts`, and `rules` of
`Transactions` is the projection `RuleStatus` of the table of `FraudRules`. The actions
`UserWritten` and `RuleWritten` do not occur in it: the tables only change by steps of handlers,
and `UsersSeen` and `RulesSeen` keep the history variables and counters of the other parts.
What is added:

* *tokens*: `RuleArrive` and `TxnArrive` with a good token are of callers who hold one that some registration
  or login was answered with (`Holds`), with its `sub` and `role`; a bad token may say anything, and `SavedByRight` and `RulesByRight`
  say that nothing is saved with one;
* *the pool*: statements of `Accounts` and `FraudRules` wait while the transactions of
  `Transactions` hold all connections (`PoolFree`), unless their client leaves;
* *the process*: handlers only run while it serves, and `SystemCrash` takes all of them down.

*Abstraction.* A token is looked at once, when the request arrives, though it might expire before
the middleware reads it; whether it is good is decided then. Listings and the validator write nothing, and are left out.

### Listings

*State.* `table`, with the `stamp` of each row and whether the owner and filters let it through
(`shown`); the query (`asked`), what its two statements returned (`items`, `total`), and the
`answer`. `walk`, `start` and `got` are history: whether this page continues an unbroken reading,
what its first page had to choose from, and what it has shown.

*Actions.* `AskPage`, `List` (the checks of the handler), `Count` and `Select`, in the order of
each listing (transactions are counted first, users and rules last), and `Insert`, by others.
`Select` may break between two rows, which the loops over the rows do not notice.

*Abstraction.* Rows of one time come in any order, another one in each statement. Machine
integers are `-Half .. Half - 1`. A filter is a part of `shown`. A crash only ends a reading.

### DecisionEngine

*State.* Whether the service was given its two repositories; users, rules with priority and
condition, transactions and results; per call `pc`, `outcome`, the database transaction (`tx`,
`wrote`), the rule results of the response (`ruleResults`) and the `next` one to insert.

*Actions.* `CreateTransaction` (validation and access), `GetByID`, `GetAllActive` with the sort
and the evaluation, `BeginTx`, `InsertTransaction`, `InsertRuleResult`, `Commit`, for both the
way through the repository and the direct one; `AwaitDone`; `UserWritten` and `RuleWritten`.

*Abstraction.* Conditions are the three texts that `evaluateSimpleDSL` knows, and any other. An
amount is in thousandths, so that the rounding to cents of `DECIMAL(12,2)` shows. As nothing ever
constructs this service, the process around it, and its crash, are left out.

### DslValidator

One action, `ValiteDLS`: role, binding, length in bytes, and `Validate` with `normalizeExpression`
as operators over sequences of lexemes, a lexeme being a name, a connective or a character.

Each function of Go's `strings` is stated by the places of the text that it takes or changes, without
recursion. `Fields`: a word begins at a place whose predecessor is blank (`Starts`), and the n-th word at the
n-th such place. `TrimSpace`, `WithoutParentheses` and `Squeeze` (`Join` of `Fields`) leave out places (`Only`).
`ReplaceAll` of `" and "` goes from left to right without overlap, so that of occurrences that share their
spaces every second is replaced: one at `i` is, when an even number of them stand before it, two places apart
(`Replaced`).

*Abstraction.* Positions count lexemes, not bytes. The two messages about operators are one. Names that
contain the name of a field are two lexemes side by side.

## The runs

Every run leaves the deadlock check off, because the system really stops: each request is
sent once, and the bounds on faults, crashes and writes of others run out.

| Run | Instance | Shows |
|---|---|---|
| `any_call` | 1 request of any kind, 1 connection, 1 fault, 1 crash, 2 writes of users or rules | `AnswerMatchesStore`, `CheckedActive`, `ConnectionsComeBack` (liveness) |
| `ledger` | 2 requests (create for oneself or another, list), 2 rules, 2 connections, 1 fault, 1 crash, 1 write | `IndInv`, `SavedWhole`, `RulesOfOneInstant`, `ListingSound`, refinement of `Ledger` |
| `own_transaction_unreadable` | a creation and a GET of it | *violated*, see findings |
| `accounts` | 4 requests: logins, registrations, creations, overlapping writes of two rows, 1 fault, 1 crash | `IndInv`, `AnswerMatchesTable`, `AdminsGranted`, `AdminKept`, `AtomicUnlessOverlapped`, `AdminsOnlyUnlessOverlapped` |
| `stale_write_reactivates` | as `accounts`, one row, no fault | *violated*, see findings |
| `created_admin_is_user` | 2 requests | *violated*, see findings |
| `rules` | 3 requests of every kind, 1 old rule, 2 names, 1 fault, 1 crash, 1 write of the caller | `IndInv`, `CreationsTrue`, `AtomicUnlessOverlapped`, `ReenabledOnRequest`, `RefusedForCause` |
| `listings` | 3 rows, 3 times, pages 0 to 8 of sizes 0 to 4, integers of 4 bits, 1 fault | `IndInv`, `NoneMissed`, `RepeatedForCause`, `TotalCoversPage` |
| `decision` | 1 call, 2 rules of any content, with and without each repository, 1 fault, 1 write | `IndInv`, `DecidedByRules`, `ResponseOrdered`, `OutcomeTrue`, `ConnectionReturned` |
| `validator` | all texts of up to 6 fields and operators, of up to 5 connectives, blanks and parentheses, of up to 4 of both, of up to 9 `and`s and spaces, of up to 8 `and`s and tabs; two that are too long, in characters and in bytes | `IndInv`, `ValidAsRead`, `NormalFormSays`, `NormalInThree`, `PositionIsNear` |
| `by_right` | the server: 4 account requests by which a user is promoted or tries to be, 1 creation for another user, 1 rule request, of the promoted or with a bad token | `SavedByRight`, `RulesByRight` |
| `whole_server` | the server: 2 account, 1 rule and 1 transaction request, 1 connection, 1 fault, 1 crash (also during the start) | `ServesTransactions`, `ServesRules`, `ServedWithAdmin`, `NobodyStarves`, `ServerComesUp` (the last two liveness) |

Each `IndInv` has the type invariant of its module as its first part, and with it the
invariants `UniqueEmail`, `UniqueName` and, of `Transactions`, everything that is known of a
saved row: they are checked there, and proved one by one.

*Why the bounds are enough.* Requests only meet in the tables and the pool, and each
property relates at most two requests: the reader of a row and its writer; `rules` has a third
because a name can be read by one, given up by a second and taken by a third. Two rules are
the fewest that a mixture of two rule sets, or a tie of priorities, needs; one connection is the
tightest pool. One fault lets each statement fail once, in every interleaving; requests do not
retry, so a second fault only repeats the exits of the first. Four requests in `accounts` are
the fewest in which an administrator logs in, a user registers, and both write the user's
row. Three rows make two pages and a last one that is short; among the
pages are one and a size beyond the limits, and offsets that become negative or wrap round to another page. The texts of the
validator are longer than any pattern that the code looks for, twice over; the long ones of `and`s are there because
the third round of the normal form differs from the second only from `and tab and tab and tab and` on. In `decision` one
call is enough, since no call reads what another one writes. In `by_right` only the
rule request may have a bad token; `any_call` sends creations with one, and `TransactionsByRight` is about all. Symmetry is over requests and rows that
no call names, and never used in a run with liveness.

### Fairness

`Transactions!FairSpec` (in `any_call`) is weakly fair to each request's handler, to `Finish`
and to `AwaitDone`. `Antifraud!FairSystem` (in `whole_server`) is weakly fair to these, to the handlers of
accounts and rules, and to the start of the process. The Go runtime schedules every runnable
goroutine; `awaitDone` is such a goroutine of `database/sql`; a statement is answered or fails
(with the driver's fault as a step of its own); and waiters for a connection are served in the
order they came, so that a handler is not overtaken for ever. Since each request is sent once, a
handler that waits for the pool cannot be disabled infinitely often. `docker-compose.yml` says
`restart: unless-stopped`, so that a process that died is started again, and the start is one
goroutine. Arrivals, disconnections, faults and crashes are never owed.

## The proofs

All theorems hold for every set of requests, users, rules and rows, and every value of the
bounds, under the named assumptions on constants (`CallsAssumption`, `RootAssumption` and
so on): the sentinels differ from the values, calls are well-typed, bounds are numbers.

**Transactions.** No property is inductive by itself: that a committed transaction
has a result for every rule depends on what the open transaction has buffered, and that on
how far the loop got. `IndInv` therefore adds, per request, `Checked` (what the handler has
verified by the time it reaches each call), `Buffered` (the content of the open transaction
by `pc` and `todo`), and, per saved row, `SavedRow` (everything its handler had checked).
One lemma per action shows that it is preserved; the error exits share `ReplyKeeps` and the
steps forward `MoveKeeps`, and `OthersFrame` and `LedgerFrame` say that what a step does not touch
stays true. `ListingInv` is about listings: what was saved
before the request (`before`) is still there, so its COUNT is no less than that, and when it comes to the SELECT no more
than the rows there are to see. The rows only ever grow, by one at a commit (`Publish`), so that the bound
survives every step of the others. From `Consistent` follow `ListingsSound`, `TypeCorrect`, `AllOrNothing`, `OneInstant`,
`TruthfulAnswers`, `OwnTransactions`, `ActiveOwners`, `LedgerAppendOnly` (only `Commit`
writes the tables) and `RefinesLedger` (initial states map to initial states; each
action maps to a step of `Ledger` or a stutter).

**Accounts.** `IndInv` adds to the properties `Settled` (a stored row belongs to an answered
request), `Entitled` (which right a request has shown at each point) and `SnapInv` (the row that
was read still has the address and password of the row in the table, makes an administrator
only of one who was granted the role, and equals the row unless `overlapped`). `StepKeeps`
is the frame for every step of a handler and `ProcessKeeps` that of the process; each
action then needs its own part only. From `AccountsConsistent` follow the invariants,
with `AdminBeforeService` (no request is served without the first administrator's row) and
`AdminNotLost` (it stays an active administrator's until an administrator asks for the contrary), and, with `StoredRows` (a stored row is only changed by an `Update`), the action properties
`Credentials`, `UpdatesAtomic` and `Privileges`.

**FraudRules.** `IndInv` is made like that of `Accounts`: `Settled`, `Checked` and `SnapInv`, with
the unique names. `StepKeeps` is the frame of a handler's step, `ReplyKeeps` and `GotoKeeps` its
error exits and its steps forward. `RulesWritten` says which steps write the table, and for whom; from
it and `RulesConsistent` follow `RuleUpdatesAtomic`, `Reenabling` and `Refusals`. Names stay unique in spite
of the check that is made too early because the constraint refuses the row; what the proof adds is
that every write passes through it, those of old rows too.

**Antifraud.** A step of the system is a step of `Accounts` or leaves it alone (`AccountSteps`): the system
implements `Accounts` (`AccountsServed`), and what is promised there holds of the whole (`AccountsPromises`). `RulesInv` relates `FraudRules` to its
real writers. From both, `PartSteps` shows that each step of the system is, seen through the projections, a
step of `Transactions`, and of `FraudRules`, or a stutter of it: a row of users appears active, is switched
one at a time, and never goes away, and so for rules. Thus `TransactionsServed` and `RulesServed`: all that is
proved of these modules, with environments that write as they like, is true of the server.
`RightsInv` adds that whoever has a request beyond the middleware holds, or held, a token with its role, and
`GrantedForGood` that a grant is never taken back; `TransactionsByRight` and `RuleWritesByRight` follow.

**Listings.** That nothing is missed is a fact about ranks: a row that was there at the beginning
and was not shown yet has at least as many rows before it as the pages have passed over
(`MissingIsAhead`), for insertions only push it further; a last page is one after which there is no such rank.
`Ranking` is the lemma about LIMIT and OFFSET that this rests on. `OffsetInRange` shows that no offset of a
reading wraps round: the first one beyond the range is negative, and the database refuses it. From
`ListingsConsistent` follow `ReadingComplete`, `TotalsCoverPages` and `Repetitions`.

**DecisionEngine.** `IndInv` carries the instant at which the rules were read from the query to the commit:
the results of the response are those of a set in `seen`, the open transaction holds the first `next - 1` of them, and
a saved row holds all. `Decisions` needs `RoundingHarmless` besides, which is arithmetic: the rules see the amount as sent and the
row stores it rounded, and the two say the same but for amounts that are rounded down to the limit. For these the
property says that they count as above it, and so pins down which of the two amounts decides.

**DslValidator.** The state is simple (`ValidatorConsistent` says that an answer is what the text is worth); the
theorems are about the operators, for texts of any length.

* *Places.* `SubsequencesProofs` is about sets of numbers counted from below: `Nth` and `Rank` are inverse (`NthRank`,
  `RankNth`) and keep the order, between two neighbours there is nothing (`NthNext`), and a stretch of a set is
  taken as a stretch (`NthStretch`). With it `FieldsAre`, `NextField` and `WordIs` say that the words of
  `Fields` are what a reader finds between blanks, one after the other. `ValidIsRead` and `PositionsNear` follow;
  the latter says of each error about an operator that it stands behind a field that it may not compare, and that the
  position is the first occurrence of this field, wherever that is.
* *Words.* `PartOf(u, t, K)` says that `u` is what stands at the places `K` of `t`, with nothing but blanks left out, and
  of these never the end of a word before another one. Then `u` has the words of `t` (`SameWords`), which
  `TrimSpace` and `Squeeze` are cases of. Connectives are neither fields nor operators, so changing their case
  changes no verdict (`CasedKinds`): `NormalFormTrue`.
* *Rounds.* `Parity` says that an occurrence of a connective which is left shares its first space with one that is replaced.
  So what a round leaves stands directly behind what it replaced (`Behind`), and no two that are left share a
  space (`Separate`): if the blanks stay as they are, the next round leaves none (`None`). The normal form of a
  first round is `Tight`, one space between words, and the blanks of a tight text stay. In the first
  round they may not, but without a tab `Squeeze` brings no two closer together (`PartSeparate`), while
  with tabs it may. Hence two rounds without a tab and three with one: `NormalSettles`. That two rounds are
  enough for every text had seemed true from texts of five lexemes; the proof did not go through, and
  TLC gave `and tab and tab and tab and`.

*Only model-checked:* the liveness properties (`ConnectionsComeBack`, `NobodyStarves`, `ServerComesUp`), which are out
of the prover's reach, as is ENABLED; and of course the violations. The invariants of `Transactions` and `FraudRules` are
theorems of those modules, and `TransactionsServed` and `RulesServed` say that the server is a behaviour of each. They are not
stated once more of the server, since the prover cannot cite a theorem through an `INSTANCE` with substitutions.

## Findings

1. `tractions_repository.go:155`: `GetByID` selects `created_at, FROM transactions`. The comma
   makes the statement invalid, so GET `/transactions/:id` answers 500 for every id, where the
   handler has 200, 403 and 404 (`own_transaction_unreadable`).
2. `service.go:200-278`: `UpdateUser` writes back every column of a row it read earlier. A user's
   own update that overlaps an administrator's deactivation reactivates the user, and one that
   overlaps a change of role undoes it, although "only ADMIN can update active status" (`:258`)
   and role (`:251`) (`stale_write_reactivates`). `AdminsOnlyUnlessOverlapped` is proved: an overlap is the only way.
3. `service.go:110`: an administrator who creates a user with role ADMIN is answered 201 with
   a USER, although the handler requires the field and checks its value
   (`user_handler.go:325-341`) (`created_admin_is_user`).

Seen while modelling, and built into the models as the code has it, without a run of its own:

* A taken name and a missing rule are answered 500: the handlers compare with texts that the
  services never return (`fraud_handler.go:102` with `fraud_service.go:27`; `fraud_handler.go:227` with
  `fraud_service.go:64,74,86`), where they mean 409 and 404.
* The listing of transactions applies page and size only if both are given
  (`tractions_repository.go:299`), although the answer names a size of 20; `page * size` wraps round for
  very far pages (`:303`); and the loops over rows do not ask `rows.Err()` (`:361`, `User_db.go:156-167`,
  `Fraud_db.go:116-133`), so that a connection that breaks is a short page with 200. `NoneMissed` is about readings
  with both parameters and without such a break; `OffsetInRange` shows that wrapping does no harm to them.
* Without a repository, the service of `DecisionEngine` inserts columns into `transaction_rule_results`
  that the migration does not create (`tracrion_service.go:419`, `run_migration.go:101-108`): with one
  active rule nothing is saved.
* The validator counts parentheses without matching them (`dlsValidator.go:74`), gives the position of
  the first occurrence of a field rather than of the one in error (`:106`), and refuses by bytes what
  the binding admits by characters (`fraud_service.go:151`). The normal form drops all parentheses
  (`:40`), and with them what they grouped; it leaves connectives in lower case that share a space with another or
  stand beside a tab (`:43`). Its names of fields are not the parameters of `EvaluateRule`.
* A rule that is stored never goes through the validator.

## What is not modelled

* `CreateBatch` has neither a route nor a caller; it makes each transaction through
  `CreateWithResults`, which is in `Transactions`.
* `EvaluateRule` has no caller and hands its text to an expression library.
* The reads of `/users/me` and `/users/:id`, and those of the legacy service, are a single query and
  change no state. The repositories' unused `Delete`, `DELETE` and `GetByName` are not reachable.
* Configuration, logging, the formats of fields (regular expressions, currencies), hashing and
  signing, and `CREATE TABLE`: no state, or I/O that nothing in the system interleaves with.
* The clock: a token may expire at any time, and how long a demoted administrator keeps a good one is
  not bounded by any property. Idle connections of the pool are the library's own affair.

What could follow: the safety part of the liveness properties, such as that a request holds a connection only
while some step of it is enabled; and the listings and the validator as parts of `Antifraud`, should they come to write.
