------------------------------- MODULE Listings -------------------------------
(***************************************************************************)
(* GET /transactions, /users and /fraud-rules: what a client sees that     *)
(* reads page after page while others insert rows.  A listing is two       *)
(* statements outside any transaction, COUNT and SELECT ... ORDER BY ...   *)
(* LIMIT ... OFFSET; one action is one statement with the code around it.  *)
(* The token middleware is in Transactions and Accounts.                   *)
(***************************************************************************)
EXTENDS Integers, FiniteSets

CONSTANTS
    Row,            \* rows that are or will be in the table
    Time,           \* values of the column that the listing is ordered by
    Asks,           \* the queries of the client, a subset of Ask
    NoAsk,          \* the query before the first
    Omitted,        \* a parameter that is not in the query string
    DefaultSize,    \* 20: the size when none is given
    MaxSize,        \* 100: the largest size that is accepted
    Half,           \* machine integers are -Half .. Half - 1
    MaxFaults       \* bound: how many statements fail

\* role is the claim in the token.  A text that is not a number, or one that
\* is too large for a machine integer, is a number outside the range.
Ask == [page : Int \cup {Omitted}, size : Int \cup {Omitted},
        role : {"USER", "ADMIN"}]
Kind == {"transactions", "users", "rules"}

ASSUME RowAssumption == IsFiniteSet(Row) /\ Cardinality(Row) < Half
ASSUME TimeAssumption == Time \subseteq Int
ASSUME AsksAssumption == Asks \subseteq Ask /\ NoAsk \notin Ask
ASSUME OmittedAssumption == Omitted \notin Int
ASSUME SizeAssumption ==
    /\ MaxSize \in Nat /\ Half \in Nat /\ MaxFaults \in Nat
    /\ DefaultSize \in 1..MaxSize /\ MaxSize < Half

VARIABLES
    kind,           \* which listing the client reads
    stamp,          \* created_at, or the timestamp that a client gave
    shown,          \* the rows that the owner and the filters let through
    table,          \* the rows in the table
    pc,             \* what the handler does next
    asked,          \* the query
    answer,         \* the status code sent, 0 before that
    items, total,   \* what the two statements returned
    failed,         \* a statement of this request failed
    faults,         \* statements that failed
    walk,           \* history: this is the next page of an unbroken reading,
    start,          \* the rows that its first page had to choose from
    got             \* and the rows that its pages showed so far

fixed   == <<kind, stamp, shown>>
reading == <<walk, start, got>>
vars    == <<fixed, table, pc, asked, answer, items, total, failed, faults, reading>>

\* SELECT ... FROM transactions WHERE ...; the other two have no filter.
Matching == IF kind = "transactions" THEN table \cap shown ELSE table

PageOf(a) == IF a.page = Omitted THEN 0 ELSE a.page
SizeOf(a) == IF a.size = Omitted THEN DefaultSize ELSE a.size

\* The repository of transactions uses page and size only if both are given.
Limited(a) == kind = "transactions" => a.page # Omitted /\ a.size # Omitted

Init ==
    /\ kind \in Kind
    /\ stamp \in [Row -> Time]
    /\ shown \in SUBSET Row
    /\ table = {}
    /\ pc = "idle" /\ asked = NoAsk /\ answer = 0
    /\ items = {} /\ total = 0
    /\ failed = FALSE /\ faults = 0
    /\ walk = FALSE /\ start = {} /\ got = {}

\* The client asks: for its first page, for the next one after a page, or for
\* whatever it likes.
Continues(a) ==
    /\ walk /\ answer = 200 /\ ~failed
    /\ PageOf(a) = PageOf(asked) + 1 /\ SizeOf(a) = SizeOf(asked)

AskPage(a) ==
    /\ pc \in {"idle", "answered"}
    /\ pc' = "route"
    /\ asked' = a
    /\ answer' = 0 /\ items' = {} /\ total' = 0 /\ failed' = FALSE
    /\ walk' = (Limited(a) /\ (PageOf(a) = 0 \/ Continues(a)))
    /\ start' = IF PageOf(a) = 0 THEN Matching ELSE start
    /\ got' = IF PageOf(a) = 0 THEN {} ELSE got
    /\ UNCHANGED <<fixed, table, faults>>

Reply(code) == pc' = "answered" /\ answer' = code

Accepts(a) == PageOf(a) >= 0 /\ PageOf(a) < Half /\ SizeOf(a) \in 1..MaxSize

\* Mutant: all three listings count first.
FirstIsCount == "Count"

\* Transactions are counted before they are selected, users and rules after.
First  == IF kind = "transactions" THEN "Count" ELSE "Select"
Second == IF First = "Count" THEN "Select" ELSE "Count"

\* The handlers of the three listings, up to their first statement.
List ==
    /\ pc = "route"
    /\ \/ /\ kind # "transactions" /\ asked.role # "ADMIN"
          /\ Reply(403)
       \/ /\ kind = "transactions" \/ asked.role = "ADMIN"
          /\ IF Accepts(asked) THEN pc' = First /\ UNCHANGED answer ELSE Reply(400)
    /\ UNCHANGED <<fixed, table, asked, items, total, failed, faults, reading>>

Fault ==
    /\ faults < MaxFaults
    /\ faults' = faults + 1
    /\ failed' = TRUE
Succeeds == UNCHANGED <<faults, failed>>

\* A statement is followed by the other one, or by the answer.
Proceed(statement) ==
    IF statement = First THEN pc' = Second /\ UNCHANGED answer ELSE Reply(200)

Count ==
    /\ pc = "Count"
    /\ \/ Succeeds /\ total' = Cardinality(Matching) /\ Proceed("Count")
       \/ Fault /\ Reply(500) /\ UNCHANGED total
    /\ UNCHANGED <<fixed, table, asked, items, reading>>

Smaller(m, n) == IF m < n THEN m ELSE n

\* Two's complement.
Wrapped(n) == IF n < Half THEN n ELSE ((n + Half) % (2 * Half)) - Half

\* Mutant: the number of the page is taken for the offset.
OffsetIsPage == IF Limited(asked) THEN PageOf(asked) ELSE 0

Offset == IF Limited(asked) THEN Wrapped(PageOf(asked) * SizeOf(asked)) ELSE 0
Limit == IF Limited(asked) THEN SizeOf(asked) ELSE Cardinality(Row)

\* Mutant: there is no ORDER BY.
NewestUnordered(set) == TRUE

\* The set can come first in the order: no other row has a later time.  Rows of
\* one time come in any order, and in another order the next time.
Newest(set) == \A x \in set, y \in Matching \ set : stamp[x] >= stamp[y]

\* SELECT ... ORDER BY ... DESC LIMIT limit OFFSET offset may return rows.
Selects(rows, offset, limit) ==
    \E skipped \in SUBSET (Matching \ rows) :
        /\ Newest(skipped) /\ Newest(skipped \cup rows)
        /\ Cardinality(skipped) = Smaller(offset, Cardinality(Matching))
        /\ Cardinality(rows) =
              Smaller(limit, Cardinality(Matching) - Cardinality(skipped))

\* Mutant: the two arguments of the statement are swapped.
PageReadSwapped(rows, limit) == Selects(rows, limit, Offset)

PageRead(rows, limit) == Selects(rows, Offset, limit)

\* The database refuses a negative offset.  The loop over the rows does not
\* ask why it ended: when the connection breaks between two rows, the ones
\* read so far are the page.
Select ==
    /\ pc = "Select"
    /\ \/ /\ Succeeds /\ Offset < 0
          /\ Reply(500)
          /\ UNCHANGED <<items, got>>
       \/ /\ Succeeds /\ Offset >= 0
          /\ \E rows \in SUBSET Matching :
                PageRead(rows, Limit) /\ items' = rows /\ got' = got \cup rows
          /\ Proceed("Select")
       \/ /\ Fault
          /\ Reply(500)
          /\ UNCHANGED <<items, got>>
       \/ /\ Fault /\ Offset >= 0
          /\ \E rows \in SUBSET Matching, n \in 0..(Limit - 1) :
                PageRead(rows, n) /\ items' = rows /\ got' = got \cup rows
          /\ Proceed("Select")
    /\ UNCHANGED <<fixed, table, asked, total, walk, start>>

\* Another request stores a row, of any time: the clock of the process is read
\* before the INSERT, and a client chooses the timestamp of a transaction.
Insert(x) ==
    /\ x \notin table
    /\ table' = table \cup {x}
    /\ UNCHANGED <<fixed, pc, asked, answer, items, total, failed, faults, reading>>

Next ==
    \/ \E a \in Asks : AskPage(a)
    \/ List \/ Count \/ Select
    \/ \E x \in Row : Insert(x)

Spec == Init /\ [][Next]_vars

-----------------------------------------------------------------------------
(***************************************************************************)
(* Properties.                                                             *)
(***************************************************************************)

\* Every variable stays within its type; a statement is only made for a page
\* and a size that are in their range.
TypeOK ==
    /\ kind \in Kind /\ stamp \in [Row -> Time] /\ shown \subseteq Row
    /\ table \subseteq Row
    /\ pc \in {"idle", "route", "Count", "Select", "answered"}
    /\ IF pc = "idle" THEN asked = NoAsk ELSE asked \in Asks
    /\ pc \in {"Count", "Select"} \/ answer = 200 =>
          PageOf(asked) \in 0..(Half - 1) /\ SizeOf(asked) \in 1..MaxSize
    /\ answer \in {0, 200, 400, 403, 500}
    /\ items \subseteq Matching /\ total \in Nat
    /\ failed \in BOOLEAN /\ faults \in 0..MaxFaults
    /\ walk \in BOOLEAN /\ start \subseteq Matching /\ got \subseteq Matching

\* No other matching row has the time of x.
Alone(x) == \A y \in Matching \ {x} : stamp[y] # stamp[x]
Ahead(x) == {y \in Matching : stamp[y] > stamp[x]}

\* The page that a client takes for the last one: a short one, or, where
\* total is counted after the page was selected, the one that reaches total.
LastPage ==
    \/ Cardinality(items) < SizeOf(asked)
    \/ kind # "transactions" /\ total <= (PageOf(asked) + 1) * SizeOf(asked)

Shown200 == pc = "answered" /\ answer = 200 /\ ~failed

\* A client that reads page after page to the last one has seen every row that
\* was there when it began, whatever was inserted meanwhile: pages only shift
\* towards later ones.  Rows of the same time are excepted: their order is not
\* the same in two statements.
NoneMissed ==
    Shown200 /\ walk /\ LastPage => \A x \in start : Alone(x) => x \in got

\* A row is only shown twice in one reading if a row that comes before it was
\* inserted during the reading, or shares its time.
RepeatedForCause ==
    [][pc = "Select" /\ walk =>
          \A x \in items' \cap got : Alone(x) => ~(Ahead(x) \subseteq start)]_vars

\* The total beside a page of users or rules reaches to the end of the page:
\* COUNT comes after SELECT, and nothing is ever deleted.
TotalCoversPage ==
    Shown200 /\ kind # "transactions" /\ items # {}
        => Offset + Cardinality(items) <= total

-----------------------------------------------------------------------------
(***************************************************************************)
(* The inductive strengthening.                                            *)
(***************************************************************************)
\* How many rows the pages of the reading have passed over.
Selected == pc = "answered" \/ (pc = "Count" /\ First = "Select")
Passed   == (IF Selected THEN PageOf(asked) + 1 ELSE PageOf(asked)) * SizeOf(asked)

\* A row of the beginning that was not shown is further down.
MissingIsAhead ==
    walk /\ ~failed /\ (pc = "answered" => answer = 200) =>
        \A x \in start \ got : Alone(x) =>
            /\ Cardinality(Ahead(x)) >= Passed
            /\ Selected => Cardinality(items) = SizeOf(asked)
            /\ pc = "answered" /\ kind # "transactions" => total > Passed

\* A row that was shown is not further down, unless rows came before it.
ShownIsPassed ==
    walk /\ answer \in {0, 200} =>
        \A x \in got : Alone(x) /\ Ahead(x) \subseteq start
                        => Cardinality(Ahead(x)) < Passed

\* A reading ends before its offset wraps round: sizes are small, and the first
\* offset beyond the range is a negative one, which is refused.
OffsetInRange ==
    walk => LET n == PageOf(asked) * SizeOf(asked) IN
            /\ pc # "idle" /\ Limited(asked)
            /\ n >= 0 /\ n < 2 * Half
            /\ Selected /\ answer \in {0, 200} => n < Half

\* What is left from the request before is gone.
Fresh ==
    /\ pc # "answered" => answer = 0
    /\ ~Selected => items = {}

\* Users and rules are counted last.
CountedLast ==
    pc = "Count" /\ kind # "transactions" /\ items # {}
        => Offset + Cardinality(items) <= Cardinality(Matching)

\* The inductive invariant.
IndInv == /\ TypeOK /\ MissingIsAhead /\ ShownIsPassed /\ OffsetInRange
          /\ Fresh /\ CountedLast /\ TotalCoversPage
=============================================================================
