---------------------------- MODULE ListingsProofs ----------------------------
(***************************************************************************)
(* Theorems about Listings, for every set of rows and queries, every order *)
(* of the rows and every width of the machine's integers.                  *)
(***************************************************************************)
EXTENDS Listings, FiniteSetTheorems, TLAPS

(***************************************************************************)
(* Facts about numbers and finite sets.                                    *)
(***************************************************************************)
\* Every set of matching rows is finite and smaller than Half.
LEMMA FiniteRows ==
    ASSUME TypeOK, NEW set \in SUBSET Matching
    PROVE  /\ IsFiniteSet(set) /\ Cardinality(set) \in Nat
           /\ Cardinality(set) < Half
           /\ Cardinality(set) <= Cardinality(Matching)
<1>1. Matching \subseteq Row
  BY DEF TypeOK, Matching
<1>2. IsFiniteSet(Row) /\ Cardinality(Row) \in Nat /\ Cardinality(Row) < Half
  BY RowAssumption, FS_CardinalityType
<1>3. IsFiniteSet(Matching) /\ Cardinality(Matching) <= Cardinality(Row)
  BY <1>1, <1>2, FS_Subset
<1>4. IsFiniteSet(set) /\ Cardinality(set) <= Cardinality(Matching)
  BY <1>3, FS_Subset
<1>5. Cardinality(set) \in Nat /\ Cardinality(Matching) \in Nat
  BY <1>3, <1>4, FS_CardinalityType
<1> QED
  BY <1>2, <1>3, <1>4, <1>5, SizeAssumption

LEMMA Stamps ==
    ASSUME TypeOK PROVE \A x \in Matching : stamp[x] \in Int
<1>1. Matching \subseteq Row
  BY DEF TypeOK, Matching
<1>2. stamp \in [Row -> Time]
  BY DEF TypeOK
<1> QED
  BY <1>1, <1>2, TimeAssumption

LEMMA NextPage ==
    ASSUME NEW p \in Int, NEW s \in Int
    PROVE  /\ p * s \in Int /\ (p + 1) * s = p * s + s
           /\ 0 * s = 0
           /\ p \in Nat /\ s \in Nat => p * s \in Nat
  OBVIOUS

\* The remainder of one that is less than twice the divisor.
LEMMA Remainder ==
    ASSUME NEW a \in Nat, NEW b \in Nat, b <= a, a < 2 * b
    PROVE  a % b = a - b
  OBVIOUS

\* A product within the range is kept, the first ones beyond it are negative.
LEMMA Wrapping ==
    ASSUME NEW n \in Nat, n < 2 * Half
    PROVE  /\ Wrapped(n) \in Int
           /\ n < Half => Wrapped(n) = n
           /\ n >= Half => Wrapped(n) < 0
<1>1. Half \in Nat
  BY SizeAssumption
<1>2. CASE n >= Half
  <2>1. \A a, b \in Nat : b <= a /\ a < 2 * b => a % b = a - b
    BY Remainder
  <2>2. n + Half \in Nat /\ 2 * Half \in Nat /\ 2 * Half <= n + Half
        /\ n + Half < 2 * (2 * Half)
    BY <1>1, <1>2
  <2>3. (n + Half) % (2 * Half) = (n + Half) - (2 * Half)
    BY <2>1, <2>2
  <2> QED
    BY <1>1, <1>2, <2>3 DEF Wrapped
<1> QED
  BY <1>1, <1>2 DEF Wrapped

(***************************************************************************)
(* What LIMIT and OFFSET select.                                           *)
(***************************************************************************)
\* A page skips offset rows and shows at most limit.  A row whose time no other
\* has is on it if and only if its rank is; and if its rank is beyond the page,
\* the page is a full one.
LEMMA Ranking ==
    ASSUME TypeOK, NEW rows \in SUBSET Matching, NEW offset \in Nat,
           NEW limit \in Nat, Selects(rows, offset, limit)
    PROVE  /\ rows # {} => offset + Cardinality(rows) <= Cardinality(Matching)
           /\ \A x \in rows : Alone(x) =>
                 /\ Cardinality(Ahead(x)) >= offset
                 /\ Cardinality(Ahead(x)) < offset + limit
           /\ \A x \in Matching \ rows :
                 Alone(x) /\ Cardinality(Ahead(x)) >= offset =>
                    /\ Cardinality(Ahead(x)) >= offset + limit
                    /\ Cardinality(rows) = limit
<1>1. PICK skipped \in SUBSET (Matching \ rows) :
        /\ Newest(skipped) /\ Newest(skipped \cup rows)
        /\ Cardinality(skipped) = Smaller(offset, Cardinality(Matching))
        /\ Cardinality(rows) =
              Smaller(limit, Cardinality(Matching) - Cardinality(skipped))
  BY DEF Selects
<1> DEFINE front == skipped \cup rows
<1>a. skipped \in SUBSET Matching /\ front \in SUBSET Matching
  OBVIOUS
<1>b. /\ IsFiniteSet(Matching) /\ Cardinality(Matching) \in Nat
      /\ Cardinality(Matching) < Half
      /\ IsFiniteSet(skipped) /\ Cardinality(skipped) \in Nat
      /\ IsFiniteSet(rows) /\ Cardinality(rows) \in Nat
      /\ IsFiniteSet(front) /\ Cardinality(front) \in Nat
  BY <1>a, FiniteRows
<1>c. \A x \in Matching : /\ Ahead(x) \subseteq Matching \ {x}
                          /\ Cardinality(Ahead(x)) \in Nat
                          /\ Cardinality(Ahead(x)) < Cardinality(Matching)
  <2> SUFFICES ASSUME NEW x \in Matching
               PROVE  /\ Ahead(x) \subseteq Matching \ {x}
                      /\ Cardinality(Ahead(x)) \in Nat
                      /\ Cardinality(Ahead(x)) < Cardinality(Matching)
    OBVIOUS
  <2>2. Ahead(x) \subseteq Matching \ {x}
    BY Stamps DEF Ahead
  <2>3. Cardinality(Matching \ {x}) = Cardinality(Matching) - 1
    BY <1>b, FS_RemoveElement
  <2>4. IsFiniteSet(Matching \ {x}) /\ Cardinality(Ahead(x)) <= Cardinality(Matching \ {x})
    BY <1>b, <2>2, FS_RemoveElement, FS_Subset
  <2>5. Cardinality(Ahead(x)) \in Nat
    BY <2>2, FiniteRows
  <2> QED
    BY <1>b, <2>2, <2>3, <2>4, <2>5
<1>d. Cardinality(front) = Cardinality(skipped) + Cardinality(rows)
  <2>1. skipped \cap rows = {}
    OBVIOUS
  <2>2. Cardinality(skipped \cap rows) = 0
    BY <2>1, FS_EmptySet
  <2>3. Cardinality(front) = Cardinality(skipped) + Cardinality(rows)
                              - Cardinality(skipped \cap rows)
    BY <1>b, FS_Union
  <2> QED
    BY <1>b, <2>2, <2>3
<1>e. \A x \in Matching : stamp[x] \in Int
  BY Stamps
\* A row that is alone comes after everything in a front part it is not in,
\* and only has rows of a front part it is in before it.
<1>f. ASSUME NEW part \in SUBSET Matching, Newest(part), NEW x \in Matching, Alone(x)
      PROVE  /\ x \notin part => part \subseteq Ahead(x)
             /\ x \in part => Ahead(x) \subseteq part \ {x}
  BY <1>e, <1>f, <1>c DEF Newest, Alone, Ahead
<1>g. \A s, t \in SUBSET Matching : s \subseteq t => Cardinality(s) <= Cardinality(t)
  BY <1>b, FS_Subset
<1>2. rows # {} => offset + Cardinality(rows) <= Cardinality(Matching)
  <2>1. rows # {} => Cardinality(rows) > 0
    BY <1>b, FS_EmptySet
  <2> QED
    BY <1>1, <1>b, <2>1 DEF Smaller
<1>3. ASSUME NEW x \in rows, Alone(x)
      PROVE  /\ Cardinality(Ahead(x)) >= offset
             /\ Cardinality(Ahead(x)) < offset + limit
  <2>1. skipped \subseteq Ahead(x) /\ Ahead(x) \subseteq front \ {x}
    BY <1>1, <1>3, <1>a, <1>f
  <2>2. Cardinality(skipped) <= Cardinality(Ahead(x))
    BY <2>1, <1>a, <1>c, <1>g
  <2>3. Cardinality(Ahead(x)) <= Cardinality(front) - 1
    <3>1. Cardinality(front \ {x}) = Cardinality(front) - 1
      BY <1>b, FS_RemoveElement
    <3>2. Cardinality(Ahead(x)) <= Cardinality(front \ {x})
      BY <2>1, <1>a, <1>c, <1>g
    <3> QED
      BY <3>1, <3>2
  <2>4. rows # {} /\ Cardinality(rows) > 0
    BY <1>b, FS_EmptySet
  <2>5. Cardinality(Ahead(x)) \in Nat
    BY <1>c
  <2> QED
    BY <1>1, <1>b, <1>d, <2>2, <2>3, <2>4, <2>5 DEF Smaller
<1>4. ASSUME NEW x \in Matching \ rows, Alone(x), Cardinality(Ahead(x)) >= offset
      PROVE  Cardinality(Ahead(x)) >= offset + limit /\ Cardinality(rows) = limit
  <2>1. Cardinality(Ahead(x)) \in Nat /\ Cardinality(Ahead(x)) < Cardinality(Matching)
    BY <1>c
  <2>2. Cardinality(skipped) = offset
    BY <1>1, <1>4, <1>b, <2>1 DEF Smaller
  <2>3. x \notin skipped
    <3>1. SUFFICES ASSUME x \in skipped PROVE FALSE
      OBVIOUS
    <3>2. Ahead(x) \subseteq skipped \ {x}
      BY <1>1, <1>4, <1>a, <1>f, <3>1
    <3>3. Cardinality(skipped \ {x}) = Cardinality(skipped) - 1
      BY <1>b, <3>1, FS_RemoveElement
    <3>4. Cardinality(Ahead(x)) <= Cardinality(skipped \ {x})
      BY <3>2, <1>a, <1>c, <1>g
    <3> QED
      BY <1>4, <1>b, <2>1, <2>2, <3>3, <3>4
  <2>4. front \subseteq Ahead(x)
    BY <1>1, <1>4, <1>a, <1>f, <2>3
  <2>5. Cardinality(front) <= Cardinality(Ahead(x))
    BY <2>4, <1>a, <1>c, <1>g
  <2> QED
    BY <1>1, <1>b, <1>d, <2>1, <2>2, <2>5 DEF Smaller
<1> QED
  BY <1>2, <1>3, <1>4

(***************************************************************************)
(* The inductive invariant.                                                *)
(***************************************************************************)
LEMMA AskedNumbers ==
    ASSUME NEW a \in Asks
    PROVE  PageOf(a) \in Int /\ SizeOf(a) \in Int
  BY AsksAssumption, SizeAssumption DEF Ask, PageOf, SizeOf

LEMMA InitTypes == Init => TypeOK
<1> SUFFICES ASSUME Init PROVE TypeOK
  OBVIOUS
<1>1. /\ kind \in Kind /\ stamp \in [Row -> Time] /\ shown \subseteq Row
      /\ table = {} /\ pc = "idle" /\ asked = NoAsk /\ answer = 0 /\ items = {}
      /\ total = 0 /\ faults = 0 /\ start = {} /\ got = {}
  BY DEF Init
<1>2. failed \in BOOLEAN /\ walk \in BOOLEAN
  BY Zenon DEF Init
<1>3. faults \in 0..MaxFaults
  BY <1>1, SizeAssumption
<1> QED
  BY <1>1, <1>2, <1>3 DEF TypeOK

LEMMA TypeStep ==
    ASSUME TypeOK, [Next]_vars PROVE TypeOK'
<1>a. Cardinality(Matching) \in Nat
  BY FiniteRows
<1>1. ASSUME NEW a \in Asks, AskPage(a) PROVE TypeOK'
  <2>1. walk' \in BOOLEAN /\ failed' \in BOOLEAN
    BY <1>1, Zenon DEF AskPage
  <2>2. /\ pc' = "route" /\ asked' = a /\ answer' = 0 /\ items' = {} /\ total' = 0
        /\ start' \in {start, Matching} /\ got' \in {got, {}}
        /\ UNCHANGED <<fixed, table, faults>>
    BY <1>1 DEF AskPage
  <2> QED
    BY <2>1, <2>2 DEF TypeOK, fixed, Matching
<1>2. CASE List
  <2>1. asked \in Asks /\ pc' \in {"Count", "Select", "answered"} /\ answer' \in {answer, 400, 403}
    BY <1>2 DEF TypeOK, List, Reply, First
  <2>2. pc' \in {"Count", "Select"} => Accepts(asked)
    BY <1>2 DEF List, Reply
  <2>3. UNCHANGED <<fixed, table, asked, items, total, failed, faults, reading>>
    BY <1>2 DEF List
  <2>4. Accepts(asked) => PageOf(asked) \in 0..(Half - 1) /\ SizeOf(asked) \in 1..MaxSize
    BY <2>1, AskedNumbers, SizeAssumption DEF Accepts
  <2> QED
    BY <2>1, <2>2, <2>3, <2>4 DEF TypeOK, fixed, reading, Matching, PageOf, SizeOf
<1>b. pc \in {"Count", "Select"} => asked \in Asks
  BY DEF TypeOK
<1>c. Fault \/ Succeeds => faults' \in 0..MaxFaults
  BY SizeAssumption DEF TypeOK, Fault, Succeeds
<1>d. Fault \/ Succeeds => failed' \in BOOLEAN
  BY Zenon DEF TypeOK, Fault, Succeeds
<1>3. CASE Count
  <2>1. /\ UNCHANGED <<fixed, table, asked, items, reading>> /\ total' \in {total, Cardinality(Matching)}
        /\ pc = "Count" /\ pc' \in {"Select", "answered"} /\ answer' \in {answer, 200, 500}
    BY <1>3 DEF Count, Reply, Proceed, First, Second
  <2>2. faults' \in 0..MaxFaults /\ failed' \in BOOLEAN
    BY <1>3, <1>c, <1>d DEF Count
  <2> QED
    BY <1>a, <1>b, <2>1, <2>2 DEF TypeOK, fixed, reading, Matching, PageOf, SizeOf
<1>4. CASE Select
  <2>1. /\ UNCHANGED <<fixed, table, asked, total, walk, start>>
        /\ pc = "Select" /\ pc' \in {"Count", "answered"} /\ answer' \in {answer, 200, 500}
    BY <1>4 DEF Select, Reply, Proceed, First, Second
  <2>2. items' \subseteq Matching /\ got' \subseteq Matching
    BY <1>4 DEF TypeOK, Select
  <2>3. faults' \in 0..MaxFaults /\ failed' \in BOOLEAN
    BY <1>4, <1>c, <1>d DEF Select
  <2> QED
    BY <1>b, <2>1, <2>2, <2>3 DEF TypeOK, fixed, Matching, PageOf, SizeOf
<1>5. ASSUME NEW x \in Row, Insert(x) PROVE TypeOK'
  BY <1>5 DEF TypeOK, Insert, fixed, reading, Matching, PageOf, SizeOf
<1>6. CASE UNCHANGED vars
  BY <1>6 DEF TypeOK, vars, fixed, reading, Matching, PageOf, SizeOf
<1> QED
  BY <1>1, <1>2, <1>3, <1>4, <1>5, <1>6 DEF Next

\* Only Insert adds a matching row.
LEMMA SameRows ==
    ASSUME UNCHANGED <<fixed, table>>
    PROVE  /\ Matching' = Matching
           /\ \A x : (Alone(x)' <=> Alone(x)) /\ Ahead(x)' = Ahead(x)
  BY DEF fixed, Matching, Alone, Ahead

LEMMA InitConsistent == Init => IndInv
<1> SUFFICES ASSUME Init PROVE IndInv
  OBVIOUS
<1>1. TypeOK
  BY InitTypes
<1> QED
  BY <1>1 DEF Init, IndInv, MissingIsAhead, ShownIsPassed, OffsetInRange, Fresh,
     CountedLast, TotalCoversPage, Shown200, Selected

\* The client asks for the first page, or for the one after a page it was shown.
LEMMA AskStep ==
    ASSUME IndInv, NEW a \in Asks, AskPage(a) PROVE IndInv'
<1>1. TypeOK /\ TypeOK'
  BY TypeStep DEF IndInv, Next
<1>2. /\ pc' = "route" /\ asked' = a /\ answer' = 0 /\ items' = {} /\ failed' = FALSE
      /\ pc \in {"idle", "answered"} /\ UNCHANGED <<fixed, table>>
  BY DEF AskPage
<1>3. Matching' = Matching /\ \A x : (Alone(x)' <=> Alone(x)) /\ Ahead(x)' = Ahead(x)
  BY <1>2, SameRows
<1>4. Fresh' /\ CountedLast' /\ TotalCoversPage'
  BY <1>2 DEF Fresh, CountedLast, TotalCoversPage, Shown200
<1>5. ~Selected' /\ Passed' = PageOf(a) * SizeOf(a)
  BY <1>2 DEF Selected, Passed, PageOf, SizeOf
<1>6. PageOf(a) \in Int /\ SizeOf(a) \in Int
  BY AskedNumbers
<1>7. \A x \in Matching : Cardinality(Ahead(x)) \in Nat
  <2>1. \A x \in Matching : Ahead(x) \in SUBSET Matching
    BY DEF Ahead
  <2> QED
    BY <1>1, <2>1, FiniteRows
<1>8. CASE PageOf(a) = 0
  <2>1. Passed' = 0 /\ got' = {} /\ start' = Matching
    BY <1>5, <1>6, <1>8, NextPage DEF AskPage
  <2>2. MissingIsAhead'
    BY <1>2, <1>3, <1>5, <1>7, <2>1 DEF MissingIsAhead
  <2>3. ShownIsPassed'
    BY <2>1 DEF ShownIsPassed
  <2>4. OffsetInRange'
    <3>1. PageOf(a) * SizeOf(a) = 0
      BY <1>6, <1>8, NextPage
    <3>2. (PageOf(asked) * SizeOf(asked))' = PageOf(a) * SizeOf(a)
      BY <1>2 DEF PageOf, SizeOf
    <3>3. walk' => Limited(asked)'
      BY <1>2 DEF AskPage, Limited, fixed
    <3>4. 0 < 2 * Half
      BY SizeAssumption
    <3> QED
      BY <1>2, <1>5, <3>1, <3>2, <3>3, <3>4 DEF OffsetInRange
  <2> QED
    BY <1>1, <1>4, <2>2, <2>3, <2>4 DEF IndInv
<1>9. CASE PageOf(a) # 0 /\ walk'
  <2>1. /\ walk /\ answer = 200 /\ ~failed /\ got' = got /\ start' = start
        /\ PageOf(a) = PageOf(asked) + 1 /\ SizeOf(a) = SizeOf(asked)
    BY <1>9 DEF AskPage, Continues
  <2>2. pc = "answered" /\ Selected /\ asked \in Asks
    BY <1>1, <1>2, <2>1 DEF IndInv, OffsetInRange, Selected, TypeOK
  <2>3. /\ PageOf(asked) \in Nat /\ SizeOf(asked) \in Nat /\ SizeOf(asked) < Half
    BY <1>1, <2>1, SizeAssumption DEF TypeOK
  <2>4. Passed = PageOf(a) * SizeOf(a)
    BY <2>1, <2>2 DEF Passed
  <2>5. MissingIsAhead'
    BY <1>2, <1>3, <1>5, <2>1, <2>2, <2>4 DEF IndInv, MissingIsAhead
  <2>6. ShownIsPassed'
    BY <1>3, <1>5, <2>1, <2>4 DEF IndInv, ShownIsPassed
  <2>7. OffsetInRange'
    <3> DEFINE n == PageOf(asked) * SizeOf(asked)
    <3>1. n \in Nat /\ n < Half
      BY <2>1, <2>2, <2>3, NextPage DEF IndInv, OffsetInRange
    <3>2. PageOf(a) * SizeOf(a) = n + SizeOf(asked)
      BY <2>1, <2>3, NextPage
    <3>3. (PageOf(asked) * SizeOf(asked))' = PageOf(a) * SizeOf(a)
      BY <1>2 DEF PageOf, SizeOf
    <3>4. walk' => Limited(asked)'
      BY <1>2 DEF AskPage, Limited, fixed
    <3>5. n + SizeOf(asked) >= 0 /\ n + SizeOf(asked) < 2 * Half
      BY <2>3, <3>1, SizeAssumption
    <3> HIDE DEF n
    <3> QED
      BY <1>2, <1>5, <3>2, <3>3, <3>4, <3>5 DEF OffsetInRange
  <2> QED
    BY <1>1, <1>4, <2>5, <2>6, <2>7 DEF IndInv
<1>10. CASE ~walk'
  BY <1>1, <1>4, <1>10 DEF IndInv, MissingIsAhead, ShownIsPassed, OffsetInRange
<1> QED
  BY <1>8, <1>9, <1>10, <1>1 DEF TypeOK

LEMMA ListStep ==
    ASSUME IndInv, List PROVE IndInv'
<1>1. TypeOK /\ TypeOK'
  BY TypeStep DEF IndInv, Next
<1>2. /\ pc = "route" /\ pc' \in {First, "answered"}
      /\ pc' = "answered" => answer' \in {400, 403}
      /\ pc' # "answered" => answer' = answer
      /\ UNCHANGED <<fixed, table, asked, items, total, failed, faults, reading>>
  BY DEF List, Reply, First
<1>3. Matching' = Matching /\ \A x : (Alone(x)' <=> Alone(x)) /\ Ahead(x)' = Ahead(x)
  BY <1>2, SameRows
<1>4. /\ First' = First /\ First \in {"Count", "Select"} /\ Offset' = Offset
      /\ PageOf(asked)' = PageOf(asked) /\ SizeOf(asked)' = SizeOf(asked)
      /\ Limited(asked)' = Limited(asked)
  BY <1>2 DEF First, fixed, PageOf, SizeOf, Limited, Offset, Wrapped
<1>5. ~Selected /\ (Selected' => pc' = "answered") /\ items = {}
  BY <1>2, <1>4 DEF Selected, IndInv, Fresh, First
<1>6. Fresh' /\ CountedLast' /\ TotalCoversPage'
  BY <1>2, <1>5 DEF IndInv, Fresh, CountedLast, TotalCoversPage, Shown200
<1>7. MissingIsAhead'
  <2>1. pc' # "answered" => Passed' = Passed /\ ~Selected'
    BY <1>4, <1>5 DEF Passed
  <2> QED
    BY <1>2, <1>3, <1>5, <2>1 DEF IndInv, MissingIsAhead, reading
<1>8. ShownIsPassed'
  <2>1. answer' \in {0, 200} => pc' # "answered" /\ answer' = answer
    BY <1>2
  <2>2. pc' # "answered" => Passed' = Passed
    BY <1>4, <1>5 DEF Passed
  <2> QED
    BY <1>2, <1>3, <2>1, <2>2 DEF IndInv, ShownIsPassed, reading
<1>9. OffsetInRange'
  BY <1>2, <1>4, <1>5 DEF IndInv, OffsetInRange, reading
<1> QED
  BY <1>1, <1>6, <1>7, <1>8, <1>9 DEF IndInv

\* The number of rows before one that matches.
LEMMA Rank ==
    ASSUME TypeOK, NEW x \in Matching
    PROVE  /\ Ahead(x) \subseteq Matching /\ Cardinality(Ahead(x)) \in Nat
           /\ Cardinality(Ahead(x)) < Half
           /\ Cardinality(Ahead(x)) < Cardinality(Matching)
<1>1. Ahead(x) \in SUBSET Matching /\ Ahead(x) # Matching
  BY Stamps DEF Ahead
<1>2. /\ IsFiniteSet(Matching) /\ Cardinality(Matching) \in Nat
      /\ Cardinality(Ahead(x)) \in Nat /\ Cardinality(Ahead(x)) < Half
  BY <1>1, FiniteRows
<1>3. /\ Cardinality(Ahead(x)) <= Cardinality(Matching)
      /\ Cardinality(Matching) = Cardinality(Ahead(x)) => Matching = Ahead(x)
  BY <1>1, <1>2, FS_Subset
<1> QED
  BY <1>1, <1>2, <1>3

\* What a statement finds: numbers in range, and in a reading an offset that
\* has not wrapped round unless it is negative.
LEMMA AtStatement ==
    ASSUME IndInv, pc \in {"Count", "Select"}
    PROVE  /\ TypeOK /\ answer = 0
           /\ PageOf(asked) \in Nat /\ SizeOf(asked) \in Nat
           /\ PageOf(asked) * SizeOf(asked) \in Nat
           /\ (PageOf(asked) + 1) * SizeOf(asked) = PageOf(asked) * SizeOf(asked) + SizeOf(asked)
           /\ walk => /\ Limited(asked) /\ Limit = SizeOf(asked)
                      /\ PageOf(asked) * SizeOf(asked) < 2 * Half
                      /\ Offset >= 0 => PageOf(asked) * SizeOf(asked) < Half
                      /\ PageOf(asked) * SizeOf(asked) < Half =>
                            Offset = PageOf(asked) * SizeOf(asked)
<1>1. TypeOK /\ answer = 0
  BY DEF IndInv, Fresh
<1>2. PageOf(asked) \in Nat /\ SizeOf(asked) \in Nat
  BY <1>1, SizeAssumption DEF TypeOK
<1>3. /\ PageOf(asked) * SizeOf(asked) \in Nat
      /\ (PageOf(asked) + 1) * SizeOf(asked) = PageOf(asked) * SizeOf(asked) + SizeOf(asked)
  BY <1>2, NextPage
<1>4. ASSUME walk PROVE Limited(asked) /\ PageOf(asked) * SizeOf(asked) < 2 * Half
  BY <1>4 DEF IndInv, OffsetInRange
<1>5. ASSUME walk
      PROVE  /\ Offset >= 0 => PageOf(asked) * SizeOf(asked) < Half
             /\ PageOf(asked) * SizeOf(asked) < Half => Offset = PageOf(asked) * SizeOf(asked)
  <2> DEFINE n == PageOf(asked) * SizeOf(asked)
  <2>1. Offset = Wrapped(n)
    BY <1>4, <1>5 DEF Offset
  <2>2. n \in Nat /\ n < 2 * Half /\ Half \in Nat
    BY <1>3, <1>4, <1>5, SizeAssumption
  <2> HIDE DEF n
  <2>3. /\ Wrapped(n) \in Int
        /\ n < Half => Wrapped(n) = n
        /\ n >= Half => Wrapped(n) < 0
    BY <2>2, Wrapping
  <2>4. (Offset >= 0 => n < Half) /\ (n < Half => Offset = n)
    BY <2>1, <2>2, <2>3
  <2> QED
    BY <2>4 DEF n
<1> QED
  BY <1>1, <1>2, <1>3, <1>4, <1>5 DEF Limit

\* What a statement leaves alone.
LEMMA StatementFrame ==
    ASSUME UNCHANGED <<fixed, table, asked, walk, start>>
    PROVE  /\ Matching' = Matching
           /\ \A x : (Alone(x)' <=> Alone(x)) /\ Ahead(x)' = Ahead(x)
           /\ First' = First /\ Second' = Second /\ Offset' = Offset
           /\ PageOf(asked)' = PageOf(asked) /\ SizeOf(asked)' = SizeOf(asked)
           /\ Limited(asked)' = Limited(asked) /\ kind' = kind
<1>1. Matching' = Matching /\ \A x : (Alone(x)' <=> Alone(x)) /\ Ahead(x)' = Ahead(x)
  BY SameRows
<1> QED
  BY <1>1 DEF First, Second, Offset, Wrapped, PageOf, SizeOf, Limited, fixed

LEMMA CountStep ==
    ASSUME IndInv, Count PROVE IndInv'
<1>1. TypeOK /\ TypeOK'
  BY TypeStep DEF IndInv, Next
<1>2. pc = "Count" /\ UNCHANGED <<fixed, table, asked, walk, start, got, items>>
  BY DEF Count, reading
<1>3. /\ answer = 0 /\ PageOf(asked) * SizeOf(asked) \in Nat /\ SizeOf(asked) \in Nat
      /\ (PageOf(asked) + 1) * SizeOf(asked) = PageOf(asked) * SizeOf(asked) + SizeOf(asked)
  BY <1>2, AtStatement
<1>4. /\ Matching' = Matching
      /\ \A x : (Alone(x)' <=> Alone(x)) /\ Ahead(x)' = Ahead(x)
      /\ First' = First /\ Second' = Second /\ Offset' = Offset
      /\ PageOf(asked)' = PageOf(asked) /\ SizeOf(asked)' = SizeOf(asked)
      /\ Limited(asked)' = Limited(asked) /\ kind' = kind
  BY <1>2, StatementFrame
<1>5. CASE Fault /\ Reply(500)
  <2>1. pc' = "answered" /\ answer' = 500 /\ Selected'
    BY <1>5 DEF Reply, Selected
  <2> QED
    BY <1>1, <1>2, <1>4, <2>1
       DEF IndInv, Fresh, CountedLast, TotalCoversPage, Shown200, MissingIsAhead,
           ShownIsPassed, OffsetInRange
<1>6. CASE kind = "transactions" /\ Succeeds /\ Proceed("Count")
  <2>1. /\ pc' = "Select" /\ answer' = answer /\ failed' = failed
        /\ ~Selected /\ ~Selected' /\ Passed' = Passed
    BY <1>2, <1>4, <1>6 DEF Succeeds, Proceed, First, Second, Selected, Passed
  <2>2. MissingIsAhead'
    BY <1>2, <1>4, <2>1 DEF IndInv, MissingIsAhead
  <2>3. ShownIsPassed'
    BY <1>2, <1>4, <2>1 DEF IndInv, ShownIsPassed
  <2>4. OffsetInRange'
    BY <1>2, <1>4, <2>1 DEF IndInv, OffsetInRange
  <2> QED
    BY <1>1, <1>2, <1>3, <1>4, <2>1, <2>2, <2>3, <2>4
       DEF IndInv, Fresh, CountedLast, TotalCoversPage, Shown200
<1>7. CASE kind # "transactions" /\ Succeeds /\ total' = Cardinality(Matching) /\ Proceed("Count")
  <2>1. /\ pc' = "answered" /\ answer' = 200 /\ failed' = failed
        /\ Selected /\ Selected' /\ Passed' = Passed
    BY <1>2, <1>4, <1>7 DEF Succeeds, Proceed, Reply, First, Second, Selected, Passed
  <2>2. MissingIsAhead'
    <3> SUFFICES ASSUME walk, ~failed, NEW x \in start \ got, Alone(x)
                 PROVE  /\ Cardinality(Ahead(x)) >= Passed
                        /\ Cardinality(items) = SizeOf(asked)
                        /\ total' > Passed
      BY <1>2, <1>4, <2>1 DEF MissingIsAhead
    <3>1. Cardinality(Ahead(x)) >= Passed /\ Cardinality(items) = SizeOf(asked)
      BY <1>2, <2>1 DEF IndInv, MissingIsAhead
    <3>2. x \in Matching
      BY <1>1 DEF TypeOK
    <3>3. Cardinality(Ahead(x)) \in Nat /\ Cardinality(Ahead(x)) < total'
      BY <1>1, <1>7, <3>2, Rank
    <3>4. Cardinality(Matching) \in Nat
      BY <1>1, FiniteRows
    <3>5. Passed \in Nat
      BY <1>3, <2>1 DEF Passed
    <3> QED
      BY <1>7, <3>1, <3>3, <3>4, <3>5
  <2>3. ShownIsPassed'
    BY <1>2, <1>3, <1>4, <2>1 DEF IndInv, ShownIsPassed
  <2>4. OffsetInRange'
    BY <1>2, <1>3, <1>4, <2>1 DEF IndInv, OffsetInRange
  <2>5. TotalCoversPage'
    BY <1>2, <1>4, <1>7, <2>1 DEF IndInv, CountedLast, TotalCoversPage, Shown200
  <2> QED
    BY <1>1, <1>2, <1>3, <2>1, <2>2, <2>3, <2>4, <2>5 DEF IndInv, Fresh, CountedLast
<1> QED
  BY <1>5, <1>6, <1>7 DEF Count

\* The rows of a page, whole or cut, are what the passed ones grow by.
LEMMA SelectStep ==
    ASSUME IndInv, Select PROVE IndInv'
<1>1. TypeOK /\ TypeOK'
  BY TypeStep DEF IndInv, Next
<1>2. pc = "Select" /\ UNCHANGED <<fixed, table, asked, total, walk, start>>
  BY DEF Select
<1>3. /\ answer = 0 /\ PageOf(asked) * SizeOf(asked) \in Nat /\ SizeOf(asked) \in Nat
      /\ (PageOf(asked) + 1) * SizeOf(asked) = PageOf(asked) * SizeOf(asked) + SizeOf(asked)
      /\ walk => /\ Limited(asked) /\ Limit = SizeOf(asked)
                 /\ Offset >= 0 => PageOf(asked) * SizeOf(asked) < Half
                 /\ PageOf(asked) * SizeOf(asked) < Half =>
                       Offset = PageOf(asked) * SizeOf(asked)
  BY <1>2, AtStatement
<1>4. /\ Matching' = Matching
      /\ \A x : (Alone(x)' <=> Alone(x)) /\ Ahead(x)' = Ahead(x)
      /\ First' = First /\ Second' = Second /\ Offset' = Offset
      /\ PageOf(asked)' = PageOf(asked) /\ SizeOf(asked)' = SizeOf(asked)
      /\ Limited(asked)' = Limited(asked) /\ kind' = kind
  BY <1>2, StatementFrame
<1>5. CASE Reply(500)
  <2>1. pc' = "answered" /\ answer' = 500 /\ Selected'
    BY <1>5 DEF Reply, Selected
  <2> QED
    BY <1>1, <1>2, <1>4, <2>1
       DEF IndInv, Fresh, CountedLast, TotalCoversPage, Shown200, MissingIsAhead,
           ShownIsPassed, OffsetInRange
<1>6. ASSUME NEW rows \in SUBSET Matching, NEW n \in Nat, n <= Limit,
             Limit \in Nat, Offset \in Nat, Selects(rows, Offset, n),
             items' = rows, got' = got \cup rows, Proceed("Select"),
             (Succeeds /\ n = Limit) \/ Fault
      PROVE  IndInv'
  <2>1. /\ rows # {} => Offset + Cardinality(rows) <= Cardinality(Matching)
        /\ \A x \in rows : Alone(x) => Cardinality(Ahead(x)) < Offset + n
        /\ \A x \in Matching \ rows :
              Alone(x) /\ Cardinality(Ahead(x)) >= Offset =>
                 Cardinality(Ahead(x)) >= Offset + n /\ Cardinality(rows) = n
    BY <1>1, <1>6, Ranking
  <2>2. /\ ~Selected /\ Selected' /\ answer' \in {0, 200}
        /\ pc' = "answered" => kind = "transactions"
        /\ pc' # "answered" => pc' = "Count" /\ kind # "transactions" /\ answer' = 0
    BY <1>2, <1>3, <1>4, <1>6 DEF Proceed, Reply, First, Second, Selected
  <2>3. /\ Passed = PageOf(asked) * SizeOf(asked)
        /\ Passed' = PageOf(asked) * SizeOf(asked) + SizeOf(asked)
    BY <1>3, <1>4, <2>2 DEF Passed
  <2>4. walk => n <= SizeOf(asked) /\ Offset = Passed /\ Passed < Half
    BY <1>3, <1>6, <2>3
  <2>5. MissingIsAhead'
    <3> SUFFICES ASSUME walk, ~failed', NEW x \in start \ got', Alone(x)
                 PROVE  /\ Cardinality(Ahead(x)) >= Passed'
                        /\ Cardinality(items') = SizeOf(asked)
      BY <1>2, <1>4, <2>2 DEF MissingIsAhead
    <3>1. ~failed /\ n = SizeOf(asked)
      BY <1>3, <1>6 DEF Fault, Succeeds
    <3>2. x \in Matching \ rows /\ x \in start \ got
      BY <1>1, <1>6 DEF TypeOK
    <3>3. Cardinality(Ahead(x)) >= Passed
      BY <1>2, <3>1, <3>2 DEF IndInv, MissingIsAhead
    <3> QED
      BY <1>6, <2>1, <2>3, <2>4, <3>1, <3>2, <3>3
  <2>6. ShownIsPassed'
    <3> SUFFICES ASSUME walk, NEW x \in got \cup rows, Alone(x), Ahead(x) \subseteq start
                 PROVE  Cardinality(Ahead(x)) < Passed'
      BY <1>2, <1>4, <1>6 DEF ShownIsPassed
    <3>1. x \in Matching
      BY <1>1 DEF TypeOK
    <3>2. Cardinality(Ahead(x)) \in Nat
      BY <1>1, <3>1, Rank
    <3>3. CASE x \in got
      <4>1. Cardinality(Ahead(x)) < Passed
        BY <1>3, <3>3 DEF IndInv, ShownIsPassed
      <4> QED
        BY <1>3, <2>3, <3>2, <4>1
    <3>4. CASE x \in rows
      BY <1>3, <1>6, <2>1, <2>3, <2>4, <3>2, <3>4
    <3> QED
      BY <3>3, <3>4
  <2>7. OffsetInRange'
    BY <1>2, <1>3, <1>4, <2>2, <2>3, <2>4 DEF IndInv, OffsetInRange
  <2>8. Fresh' /\ CountedLast' /\ TotalCoversPage'
    BY <1>4, <1>6, <2>1, <2>2 DEF Fresh, CountedLast, TotalCoversPage, Shown200
  <2> QED
    BY <1>1, <2>5, <2>6, <2>7, <2>8 DEF IndInv
<1>7. Limit \in Nat /\ Offset \in Int
  <2>1. Cardinality(Row) \in Nat
    BY RowAssumption, FS_CardinalityType
  <2>2. \A n \in Nat : Wrapped(n) \in Int
    BY SizeAssumption DEF Wrapped
  <2> QED
    BY <1>3, <2>1, <2>2 DEF Limit, Offset
<1>8. CASE /\ Succeeds /\ Offset >= 0 /\ Proceed("Select")
           /\ \E rows \in SUBSET Matching :
                 PageRead(rows, Limit) /\ items' = rows /\ got' = got \cup rows
  BY <1>6, <1>7, <1>8 DEF PageRead
<1>9. CASE /\ Fault /\ Offset >= 0 /\ Proceed("Select")
           /\ \E rows \in SUBSET Matching, n \in 0..(Limit - 1) :
                 PageRead(rows, n) /\ items' = rows /\ got' = got \cup rows
  <2>1. PICK rows \in SUBSET Matching, n \in 0..(Limit - 1) :
               PageRead(rows, n) /\ items' = rows /\ got' = got \cup rows
    BY <1>9
  <2>2. n \in Nat /\ n <= Limit /\ Offset \in Nat
    BY <1>7, <1>9
  <2> QED
    BY <1>6, <1>7, <1>9, <2>1, <2>2 DEF PageRead
<1> QED
  BY <1>5, <1>8, <1>9 DEF Select

LEMMA InsertStep ==
    ASSUME IndInv, NEW r \in Row, Insert(r) PROVE IndInv'
<1>1. TypeOK /\ TypeOK'
  BY TypeStep DEF IndInv, Next
<1>2. /\ UNCHANGED <<fixed, pc, asked, answer, items, total, failed, faults, reading>>
      /\ UNCHANGED <<kind, stamp, walk, start, got>>
  BY DEF Insert, fixed, reading
<1>3. /\ First' = First /\ Offset' = Offset /\ Passed' = Passed
      /\ (Selected' <=> Selected) /\ (Limited(asked)' <=> Limited(asked))
      /\ PageOf(asked)' = PageOf(asked) /\ SizeOf(asked)' = SizeOf(asked)
  BY <1>2 DEF First, Offset, Wrapped, PageOf, SizeOf, Limited, Selected, Passed
<1>4. Matching \subseteq Matching'
  BY DEF Insert, Matching, fixed
<1>5. /\ IsFiniteSet(Matching)' /\ Cardinality(Matching)' \in Nat /\ Cardinality(Matching) \in Nat
      /\ Cardinality(Matching) <= Cardinality(Matching)'
  <2>1. IsFiniteSet(Matching)' /\ Cardinality(Matching)' \in Nat
    <3>1. Matching' \subseteq Row
      BY <1>1 DEF TypeOK, Matching
    <3> QED
      BY <3>1, RowAssumption, FS_Subset, FS_CardinalityType
  <2> QED
    BY <1>1, <1>4, <2>1, FiniteRows, FS_Subset
<1>6. ASSUME NEW x \in Matching, Alone(x)'
      PROVE  /\ Alone(x) /\ Ahead(x) \subseteq Ahead(x)'
             /\ Cardinality(Ahead(x)) \in Nat /\ Cardinality(Ahead(x)') \in Nat
             /\ Cardinality(Ahead(x)) <= Cardinality(Ahead(x)')
  <2>1. Alone(x) /\ Ahead(x) \subseteq Ahead(x)' /\ Ahead(x)' \subseteq Matching'
    BY <1>2, <1>4, <1>6 DEF Alone, Ahead
  <2>2. IsFiniteSet(Ahead(x)')
    BY <1>5, <2>1, FS_Subset
  <2>3. Cardinality(Ahead(x)') \in Nat /\ Cardinality(Ahead(x)) <= Cardinality(Ahead(x)')
    BY <2>1, <2>2, FS_Subset, FS_CardinalityType
  <2> QED
    BY <1>1, <2>1, <2>3, Rank
<1>7. start \subseteq Matching /\ got \subseteq Matching
  BY <1>1 DEF TypeOK
<1>8. MissingIsAhead'
  <2> SUFFICES ASSUME walk, ~failed, pc = "answered" => answer = 200,
                      NEW x \in start \ got, Alone(x)'
               PROVE  /\ Cardinality(Ahead(x)') >= Passed
                      /\ Selected => Cardinality(items) = SizeOf(asked)
                      /\ pc = "answered" /\ kind # "transactions" => total > Passed
    BY <1>2, <1>3 DEF MissingIsAhead
  <2>1. /\ Cardinality(Ahead(x)) >= Passed
        /\ Selected => Cardinality(items) = SizeOf(asked)
        /\ pc = "answered" /\ kind # "transactions" => total > Passed
    BY <1>6, <1>7 DEF IndInv, MissingIsAhead
  <2>2. Passed \in Int
    <3>1. asked \in Asks
      BY <1>1 DEF IndInv, OffsetInRange, TypeOK
    <3> QED
      BY <3>1, AskedNumbers, NextPage DEF Passed
  <2> QED
    BY <1>6, <1>7, <2>1, <2>2
<1>9. ShownIsPassed'
  <2> SUFFICES ASSUME walk, answer \in {0, 200}, NEW x \in got, Alone(x)',
                      Ahead(x)' \subseteq start
               PROVE  Cardinality(Ahead(x)') < Passed
    BY <1>2, <1>3 DEF ShownIsPassed
  <2>1. Ahead(x)' = Ahead(x)
    BY <1>2, <1>4, <1>7 DEF Ahead
  <2> QED
    BY <1>6, <1>7, <2>1 DEF IndInv, ShownIsPassed
<1>10. OffsetInRange'
  BY <1>2, <1>3 DEF IndInv, OffsetInRange
<1>11. Fresh'
  BY <1>2, <1>3 DEF IndInv, Fresh
<1>12. CountedLast'
  <2> SUFFICES ASSUME pc = "Count", kind # "transactions", items # {}
               PROVE  Offset + Cardinality(items) <= Cardinality(Matching)'
    BY <1>2, <1>3 DEF CountedLast
  <2>1. Offset + Cardinality(items) <= Cardinality(Matching)
    BY DEF IndInv, CountedLast
  <2>2. Cardinality(items) \in Nat
    BY <1>1, FiniteRows DEF TypeOK
  <2>3. Offset \in Int
    <3>1. PageOf(asked) * SizeOf(asked) \in Nat
      BY AtStatement
    <3> QED
      BY <3>1, SizeAssumption DEF Offset, Wrapped
  <2> QED
    BY <1>5, <2>1, <2>2, <2>3
<1>13. TotalCoversPage'
  BY <1>2, <1>3 DEF IndInv, TotalCoversPage, Shown200
<1> QED
  BY <1>1, <1>8, <1>9, <1>10, <1>11, <1>12, <1>13 DEF IndInv

(***************************************************************************)
(* The theorems.                                                           *)
(***************************************************************************)
\* Pages only shift towards later ones, and a client's reading keeps up.
THEOREM ListingsConsistent == Spec => []IndInv
<1>1. ASSUME IndInv, [Next]_vars PROVE IndInv'
  <2>1. CASE UNCHANGED vars
    <3>1. UNCHANGED <<fixed, table, asked, walk, start, got, pc, answer, items, total, failed>>
      BY <2>1 DEF vars, reading
    <3>2. /\ Matching' = Matching
          /\ \A x : (Alone(x)' <=> Alone(x)) /\ Ahead(x)' = Ahead(x)
          /\ First' = First /\ Offset' = Offset
          /\ PageOf(asked)' = PageOf(asked) /\ SizeOf(asked)' = SizeOf(asked)
          /\ Limited(asked)' = Limited(asked) /\ kind' = kind
      BY <3>1, StatementFrame
    <3>3. (Selected' <=> Selected) /\ Passed' = Passed
      BY <3>1, <3>2 DEF Selected, Passed
    <3>4. TypeOK'
      BY <1>1, TypeStep DEF IndInv
    <3>5. MissingIsAhead' /\ ShownIsPassed'
      BY <1>1, <3>1, <3>2, <3>3 DEF IndInv, MissingIsAhead, ShownIsPassed
    <3>6. OffsetInRange' /\ Fresh' /\ CountedLast' /\ TotalCoversPage'
      BY <1>1, <3>1, <3>2, <3>3
         DEF IndInv, OffsetInRange, Fresh, CountedLast, TotalCoversPage, Shown200
    <3> QED
      BY <3>4, <3>5, <3>6 DEF IndInv
  <2> QED
    BY <1>1, <2>1, AskStep, ListStep, CountStep, SelectStep, InsertStep DEF Next
<1> QED
  BY <1>1, InitConsistent, PTL DEF Spec

\* Every variable of Listings stays within its type, and a statement is made
\* for a page and a size in range only.
THEOREM ListingTypes == Spec => []TypeOK
  BY ListingsConsistent, PTL DEF IndInv

\* A reading of users, rules or transactions to its last page misses no row
\* that was there at the beginning, except among rows of one time.
THEOREM ReadingComplete == Spec => []NoneMissed
<1>1. IndInv => NoneMissed
  <2> SUFFICES ASSUME IndInv, Shown200, walk, LastPage,
                      NEW x \in start \ got, Alone(x)
               PROVE  FALSE
    BY DEF NoneMissed
  <2>1. Selected /\ Passed = (PageOf(asked) + 1) * SizeOf(asked)
    BY DEF Shown200, Selected, Passed
  <2>2. /\ Cardinality(items) = SizeOf(asked)
        /\ kind # "transactions" => total > Passed
    BY <2>1 DEF IndInv, MissingIsAhead, Shown200
  <2>3. SizeOf(asked) \in Int /\ PageOf(asked) \in Int /\ total \in Int
    BY SizeAssumption DEF IndInv, TypeOK, Shown200
  <2>4. Passed \in Int
    BY <2>1, <2>3, NextPage
  <2> QED
    BY <2>1, <2>2, <2>3, <2>4 DEF LastPage
<1> QED
  BY <1>1, ListingsConsistent, PTL

\* The total beside a page of users or rules reaches to the end of the page.
THEOREM TotalsCoverPages == Spec => []TotalCoversPage
  BY ListingsConsistent, PTL DEF IndInv

\* No row is shown twice in one reading unless a row was inserted before it.
THEOREM Repetitions == Spec => RepeatedForCause
<1> DEFINE Step == pc = "Select" /\ walk =>
                     \A x \in items' \cap got : Alone(x) => ~(Ahead(x) \subseteq start)
<1>1. ASSUME IndInv, [Next]_vars PROVE [Step]_vars
  <2> SUFFICES ASSUME Next, pc = "Select", walk, NEW x \in items' \cap got, Alone(x),
                      Ahead(x) \subseteq start
               PROVE  FALSE
    BY <1>1
  <2>1. /\ PageOf(asked) * SizeOf(asked) \in Nat /\ TypeOK /\ answer = 0
        /\ Offset >= 0 => Offset = PageOf(asked) * SizeOf(asked)
    BY <1>1, AtStatement
  <2>2. ~Selected /\ items = {} /\ Passed = PageOf(asked) * SizeOf(asked)
    BY <1>1 DEF IndInv, Fresh, Selected, Passed
  <2>3. x \in Matching /\ Cardinality(Ahead(x)) \in Nat
    BY <2>1, Rank DEF TypeOK
  <2>4. Cardinality(Ahead(x)) < Passed
    BY <1>1, <2>1 DEF IndInv, ShownIsPassed
  <2>5. PICK limit \in Nat : Offset >= 0 /\ Selects(items', Offset, limit)
                             /\ items' \in SUBSET Matching
    <3>1. Cardinality(Row) \in Nat /\ Limit \in Nat
      BY <1>1, AtStatement, RowAssumption, FS_CardinalityType DEF Limit
    <3>2. Select
      BY <2>2 DEF Next, AskPage, List, Count, Insert
    <3> QED
      BY <2>2, <3>1, <3>2 DEF Select, PageRead
  <2>6. Offset \in Nat
    BY <2>1, <2>5
  <2>7. Cardinality(Ahead(x)) >= Offset
    BY <2>1, <2>5, <2>6, Ranking
  <2> QED
    BY <2>1, <2>2, <2>3, <2>4, <2>5, <2>7
<1> QED
  BY <1>1, ListingsConsistent, PTL DEF Spec, RepeatedForCause
=============================================================================
