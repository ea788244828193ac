-------------------------- MODULE DslValidatorProofs --------------------------
(***************************************************************************)
(* Theorems about DslValidator, for texts of any length and any limits.    *)
(* Words and the parts of a text are found by their places, so the proofs  *)
(* are about places in order (SubsequencesProofs).                         *)
(***************************************************************************)
EXTENDS DslValidator, SubsequencesProofs, SequenceTheorems, TLAPS

-----------------------------------------------------------------------------
(***************************************************************************)
(* Words.                                                                  *)
(***************************************************************************)
LEMMA StartsPlaces ==
    ASSUME NEW t \in Seq(Lexeme)
    PROVE  /\ Starts(t) \subseteq 1..Len(t) /\ Places(Starts(t))
           /\ Cardinality(Starts(t)) \in Nat
<1>1. Starts(t) \subseteq 1..Len(t) /\ Len(t) \in Nat
  BY DEF Starts
<1>2. Places(Starts(t)) /\ Cardinality(Starts(t)) \in 0..Len(t)
  BY <1>1, PlacesOf
<1> QED
  BY <1>1, <1>2

\* e is the last place of the word that begins at i.
EndsAt(t, i, e) ==
    /\ e \in i..Len(t)
    /\ \A k \in i..e : t[k] \notin Blank
    /\ e < Len(t) => t[e + 1] \in Blank

\* A word has one end.
LEMMA WordEnds ==
    ASSUME NEW t \in Seq(Lexeme), NEW i \in Starts(t)
    PROVE  /\ EndsAt(t, i, WordEnd(t, i))
           /\ \A e : EndsAt(t, i, e) => e = WordEnd(t, i)
<1> DEFINE S == {e \in i..Len(t) : e = Len(t) \/ t[e + 1] \in Blank}
<1>1. i \in 1..Len(t) /\ Len(t) \in Nat /\ t[i] \notin Blank
  BY DEF Starts
<1>2. S \in SUBSET Nat /\ Len(t) \in S
  BY <1>1
<1>3. PICK e \in S : \A x \in S : e <= x
  BY <1>2, LeastElement
<1>4. EndsAt(t, i, e)
  <2>1. ASSUME NEW k \in i..e PROVE t[k] \notin Blank
    <3>1. CASE k = i
      BY <1>1, <3>1
    <3>2. CASE k # i
      <4>1. k - 1 \in i..Len(t) /\ k - 1 < e /\ k - 1 # Len(t) /\ (k - 1) + 1 = k
        BY <1>1, <3>2
      <4>2. k - 1 \notin S
        BY <1>2, <1>3, <4>1
      <4> QED
        BY <4>1, <4>2
    <3> QED
      BY <3>1, <3>2
  <2> QED
    BY <1>1, <2>1 DEF EndsAt
<1>5. EndsAt(t, i, WordEnd(t, i))
  BY <1>4 DEF EndsAt, WordEnd
<1>6. ASSUME NEW x, NEW y, EndsAt(t, i, x), EndsAt(t, i, y) PROVE ~(x < y)
  <2>1. x < y => x + 1 \in i..y /\ x < Len(t)
    BY <1>1, <1>6 DEF EndsAt
  <2> QED
    BY <1>6, <2>1 DEF EndsAt
<1>7. ASSUME NEW x, EndsAt(t, i, x) PROVE x = WordEnd(t, i)
  <2>1. x \in Nat /\ WordEnd(t, i) \in Nat
    BY <1>1, <1>5, <1>7 DEF EndsAt
  <2>2. ~(x < WordEnd(t, i)) /\ ~(WordEnd(t, i) < x)
    BY <1>5, <1>6, <1>7
  <2> QED
    BY <2>1, <2>2
<1> QED
  BY <1>5, <1>7

WordAt(t, i) == SubSeq(t, i, WordEnd(t, i))

LEMMA WordAtType ==
    ASSUME NEW t \in Seq(Lexeme), NEW i \in Starts(t)
    PROVE  /\ WordAt(t, i) \in Seq(Lexeme)
           /\ Len(WordAt(t, i)) = WordEnd(t, i) - i + 1
           /\ Len(WordAt(t, i)) \in 1..Len(t)
           /\ \A k \in 1..Len(WordAt(t, i)) :
                 /\ i + k - 1 \in 1..Len(t)
                 /\ WordAt(t, i)[k] = t[i + k - 1]
                 /\ t[i + k - 1] \notin Blank
<1> DEFINE e == WordEnd(t, i)
<1>1. i \in 1..Len(t) /\ Len(t) \in Nat
  BY DEF Starts
<1>2. EndsAt(t, i, e)
  BY WordEnds
<1> HIDE DEF e
<1>3. /\ e \in i..Len(t) /\ \A k \in i..e : t[k] \notin Blank
  BY <1>2 DEF EndsAt
<1>4. /\ SubSeq(t, i, e) \in Seq(Lexeme) /\ Len(SubSeq(t, i, e)) = e - i + 1
      /\ \A k \in 1..(e - i + 1) : SubSeq(t, i, e)[k] = t[i + k - 1]
  BY <1>1, <1>3
<1> QED
  BY <1>1, <1>3, <1>4 DEF WordAt, e

\* The words of a text are those of its starts, in their order.
LEMMA FieldsAre ==
    ASSUME NEW t \in Seq(Lexeme)
    PROVE  /\ Fields(t) \in Seq(Seq(Lexeme))
           /\ Len(Fields(t)) = Cardinality(Starts(t))
           /\ \A n \in 1..Len(Fields(t)) :
                 /\ Nth(Starts(t), n) \in Starts(t)
                 /\ Fields(t)[n] = WordAt(t, Nth(Starts(t), n))
           /\ \A i \in Starts(t) : \E n \in 1..Len(Fields(t)) : Nth(Starts(t), n) = i
<1>1. Places(Starts(t)) /\ Cardinality(Starts(t)) \in Nat
  BY StartsPlaces
<1>2. \A n \in 1..Cardinality(Starts(t)) : Nth(Starts(t), n) \in Starts(t)
  BY <1>1, NthRank
<1>3. Fields(t) = [n \in 1..Cardinality(Starts(t)) |-> WordAt(t, Nth(Starts(t), n))]
  BY DEF Fields, WordAt
<1>4. \A n \in 1..Cardinality(Starts(t)) : WordAt(t, Nth(Starts(t), n)) \in Seq(Lexeme)
  BY <1>2, WordAtType
<1>5. /\ Fields(t) \in Seq(Seq(Lexeme)) /\ Len(Fields(t)) = Cardinality(Starts(t))
      /\ \A n \in 1..Cardinality(Starts(t)) : Fields(t)[n] = WordAt(t, Nth(Starts(t), n))
  BY <1>1, <1>3, <1>4
<1>6. \A i \in Starts(t) : \E n \in 1..Len(Fields(t)) : Nth(Starts(t), n) = i
  BY <1>1, <1>5, RankOfElement, RankNth
<1> QED
  BY <1>2, <1>5, <1>6

\* No word begins between one and the next.
LEMMA NextField ==
    ASSUME NEW t \in Seq(Lexeme), NEW n \in 1..Len(Fields(t)), NEW x \in Starts(t),
           x > Nth(Starts(t), n)
    PROVE  n + 1 \in 1..Len(Fields(t)) /\ Nth(Starts(t), n + 1) <= x
BY StartsPlaces, FieldsAre, NthNext

\* After a word of one lexeme, the next nonblank begins the next word.
LEMMA NextBegins ==
    ASSUME NEW t \in Seq(Lexeme), NEW i \in Starts(t), WordEnd(t, i) = i,
           NEW j \in 1..Len(t), j > i, t[j] \notin Blank,
           \A k \in (i + 1)..(j - 1) : t[k] \in Blank
    PROVE  j \in Starts(t) /\ \A x \in Starts(t) : ~(i < x /\ x < j)
<1>1. i \in 1..Len(t) /\ Len(t) \in Nat /\ EndsAt(t, i, i)
  BY WordEnds DEF Starts
<1>2. t[i + 1] \in Blank
  BY <1>1 DEF EndsAt
<1>3. j # i + 1
  BY <1>2
<1>4. t[j - 1] \in Blank
  BY <1>1, <1>3
<1> QED
  BY <1>1, <1>4 DEF Starts

\* Between such a word and the next there are only blanks.
LEMMA NextIsClear ==
    ASSUME NEW t \in Seq(Lexeme), NEW i \in Starts(t), WordEnd(t, i) = i,
           NEW j \in Starts(t), j > i, \A x \in Starts(t) : ~(i < x /\ x < j)
    PROVE  \A k \in (i + 1)..(j - 1) : t[k] \in Blank
<1> DEFINE S == {k \in (i + 1)..(j - 1) : t[k] \notin Blank}
<1>1. i \in 1..Len(t) /\ j \in 1..Len(t) /\ Len(t) \in Nat /\ EndsAt(t, i, i)
  BY WordEnds DEF Starts
<1>2. SUFFICES ASSUME S # {} PROVE FALSE
  OBVIOUS
<1>3. S \in SUBSET Nat
  BY <1>1
<1>4. PICK k \in S : \A y \in S : k <= y
  BY <1>2, <1>3, LeastElement
<1>5. k \in (i + 1)..(j - 1) /\ t[k] \notin Blank /\ k \in 1..Len(t)
  BY <1>1, <1>4
<1>6. t[k - 1] \in Blank
  <2>1. CASE k = i + 1
    BY <1>1, <1>5, <2>1 DEF EndsAt
  <2>2. CASE k # i + 1
    <3>1. k - 1 \in (i + 1)..(j - 1) /\ k - 1 < k
      BY <1>1, <1>5, <2>2
    <3>2. k - 1 \notin S
      BY <1>1, <1>4, <1>5, <3>1
    <3> QED
      BY <3>1, <3>2
  <2> QED
    BY <2>1, <2>2
<1>7. k \in Starts(t) /\ i < k /\ k < j
  BY <1>1, <1>5, <1>6 DEF Starts
<1> QED
  BY <1>7

-----------------------------------------------------------------------------
(***************************************************************************)
(* Words as the properties see them.                                       *)
(***************************************************************************)
Plain(w) == w \in Seq(Lexeme) /\ Len(w) > 0 /\ \A k \in 1..Len(w) : w[k] \notin Blank

LEMMA BlankAround == " " \in Blank /\ \A i : i \notin DOMAIN Text => At(i) = " "
BY DEF Blank, At

\* Where a word stands alone it is the one that Fields finds there.
LEMMA WordIs ==
    ASSUME Text \in Seq(Lexeme), NEW i \in 1..Len(Text), NEW w, Plain(w)
    PROVE  Word(w, i) <=> i \in Starts(Text) /\ WordAt(Text, i) = w
<1> DEFINE t == Text
<1>a. t \in Seq(Lexeme) /\ DOMAIN t = 1..Len(t) /\ Len(t) \in Nat
  OBVIOUS
<1>b. \A k \in DOMAIN t : At(k) = t[k]
  BY DEF At
<1>c. \A k : k \notin DOMAIN t => At(k) \in Blank
  BY BlankAround
<1>d. w \in Seq(Lexeme) /\ Len(w) \in Nat /\ Len(w) > 0 /\ DOMAIN w = 1..Len(w)
      /\ \A k \in 1..Len(w) : w[k] \notin Blank
  BY DEF Plain
<1> HIDE DEF t
<1>1. ASSUME Word(w, i) PROVE i \in Starts(t) /\ WordAt(t, i) = w
  <2>1. /\ \A k \in 1..Len(w) : At(i + k - 1) = w[k]
        /\ At(i - 1) \in Blank /\ At(i + Len(w)) \in Blank
    BY <1>1, <1>d DEF Word
  <2>2. ASSUME NEW k \in 1..Len(w) PROVE i + k - 1 \in 1..Len(t) /\ t[i + k - 1] = w[k]
    BY <1>a, <1>b, <1>c, <1>d, <2>1
  <2>3. t[i] \notin Blank
    <3>1. 1 \in 1..Len(w) /\ i + 1 - 1 = i
      BY <1>d, <1>a
    <3> QED
      BY <1>d, <2>2, <3>1
  <2>4. i > 1 => t[i - 1] \in Blank
    BY <1>a, <1>b, <2>1 DEF t
  <2>5. i \in Starts(t)
    BY <1>a, <2>3, <2>4 DEF Starts, t
  <2>6. EndsAt(t, i, i + Len(w) - 1)
    <3>1. i + Len(w) - 1 \in i..Len(t)
      BY <1>a, <1>d, <2>2
    <3>2. ASSUME NEW k \in i..(i + Len(w) - 1) PROVE t[k] \notin Blank
      <4>1. k - i + 1 \in 1..Len(w) /\ i + (k - i + 1) - 1 = k
        BY <1>a, <1>d
      <4> QED
        BY <1>d, <2>2, <4>1
    <3>3. i + Len(w) - 1 < Len(t) => t[i + Len(w) - 1 + 1] \in Blank
      BY <1>a, <1>b, <1>d, <2>1
    <3> QED
      BY <3>1, <3>2, <3>3 DEF EndsAt
  <2>7. WordEnd(t, i) = i + Len(w) - 1
    BY <1>a, <2>5, <2>6, WordEnds
  <2>8. /\ WordAt(t, i) \in Seq(Lexeme) /\ Len(WordAt(t, i)) = Len(w)
        /\ \A k \in 1..Len(w) : WordAt(t, i)[k] = w[k]
    BY <1>a, <1>d, <2>2, <2>5, <2>7, WordAtType
  <2> QED
    BY <1>d, <2>5, <2>8, SeqEqual
<1>2. ASSUME i \in Starts(t), WordAt(t, i) = w PROVE Word(w, i)
  <2>1. /\ Len(w) = WordEnd(t, i) - i + 1
        /\ \A k \in 1..Len(w) : i + k - 1 \in 1..Len(t) /\ w[k] = t[i + k - 1]
    BY <1>a, <1>2, WordAtType
  <2>2. EndsAt(t, i, WordEnd(t, i))
    BY <1>a, <1>2, WordEnds
  <2>3. \A k \in DOMAIN w : At(i + k - 1) = w[k]
    BY <1>a, <1>b, <1>d, <2>1
  <2>4. At(i - 1) \in Blank
    <3>1. i - 1 \in DOMAIN t => t[i - 1] \in Blank
      BY <1>2, <1>a DEF Starts
    <3> QED
      BY <1>b, <1>c, <3>1
  <2>5. At(i + Len(w)) \in Blank
    <3>1. WordEnd(t, i) \in i..Len(t) /\ i + Len(w) = WordEnd(t, i) + 1
      BY <1>a, <1>d, <2>1, <2>2 DEF EndsAt, t
    <3>2. i + Len(w) \in DOMAIN t => t[i + Len(w)] \in Blank
      BY <1>a, <2>2, <3>1 DEF EndsAt
    <3> QED
      BY <1>b, <1>c, <3>2
  <2> QED
    BY <2>3, <2>4, <2>5 DEF Word
<1> QED
  BY <1>1, <1>2 DEF t

\* One lexeme taken out.
LEMMA OneLong ==
    ASSUME NEW t \in Seq(Lexeme), NEW x \in 1..Len(t)
    PROVE  SubSeq(t, x, x) = <<t[x]>>
<1>1. /\ SubSeq(t, x, x) \in Seq(Lexeme) /\ Len(SubSeq(t, x, x)) = 1
      /\ SubSeq(t, x, x)[1] = t[x]
  OBVIOUS
<1>2. t[x] \in Lexeme
  OBVIOUS
<1>3. <<t[x]>> \in Seq(Lexeme) /\ Len(<<t[x]>>) = 1 /\ <<t[x]>>[1] = t[x]
  BY <1>2
<1>4. \A k \in 1..1 : k = 1
  OBVIOUS
<1> QED
  BY <1>1, <1>3, <1>4, SeqEqual

\* A word of one lexeme.
LEMMA OneLexeme ==
    ASSUME NEW t \in Seq(Lexeme), NEW i \in Starts(t), Len(WordAt(t, i)) = 1
    PROVE  WordEnd(t, i) = i /\ WordAt(t, i) = <<t[i]>>
<1>1. i \in 1..Len(t) /\ Len(t) \in Nat
  BY DEF Starts
<1>2. WordEnd(t, i) \in i..Len(t)
  BY WordEnds DEF EndsAt
<1>3. Len(WordAt(t, i)) = WordEnd(t, i) - i + 1
  BY WordAtType
<1>4. WordEnd(t, i) = i
  BY <1>1, <1>2, <1>3
<1> QED
  BY <1>1, <1>4, OneLong DEF WordAt

\* Every word that Fields finds is a plain one.
LEMMA FieldsPlain ==
    ASSUME NEW t \in Seq(Lexeme), NEW n \in 1..Len(Fields(t))
    PROVE  Plain(Fields(t)[n])
<1> DEFINE i == Nth(Starts(t), n)
<1>1. i \in Starts(t) /\ Fields(t)[n] = WordAt(t, i)
  BY FieldsAre
<1> HIDE DEF i
<1>2. /\ WordAt(t, i) \in Seq(Lexeme) /\ Len(WordAt(t, i)) > 0
      /\ \A k \in 1..Len(WordAt(t, i)) : WordAt(t, i)[k] \notin Blank
  BY <1>1, WordAtType
<1> QED
  BY <1>1, <1>2 DEF Plain

\* Sequences of one and of two elements, of any kind.
LEMMA ShortSeq ==
    ASSUME NEW S, NEW x \in S, NEW y \in S
    PROVE  /\ <<x>> \in Seq(S) /\ Len(<<x>>) = 1 /\ <<x>>[1] = x
           /\ <<x, y>> \in Seq(S) /\ Len(<<x, y>>) = 2
           /\ <<x, y>>[1] = x /\ <<x, y>>[2] = y
OBVIOUS

LEMMA FieldsAndOperatorsPlain ==
    /\ \A w \in NumberField \cup StringField : Plain(w) /\ Len(w) = 1 /\ w[1] \notin Blank
    /\ \A w \in NumberOperator \cup StringOperator : Plain(w)
    /\ NumberField \cap StringField = {}
<1>1. ASSUME NEW l \in Lexeme, l \notin Blank
      PROVE  Plain(<<l>>) /\ Len(<<l>>) = 1 /\ <<l>>[1] \notin Blank
  <2>1. <<l>> \in Seq(Lexeme) /\ Len(<<l>>) = 1 /\ <<l>>[1] = l
    BY ShortSeq
  <2>2. \A k \in 1..1 : k = 1
    OBVIOUS
  <2> QED
    BY <1>1, <2>1, <2>2 DEF Plain
<1>2. ASSUME NEW l \in Lexeme, l \notin Blank, NEW m \in Lexeme, m \notin Blank
      PROVE  Plain(<<l, m>>)
  <2>1. <<l, m>> \in Seq(Lexeme) /\ Len(<<l, m>>) = 2
        /\ <<l, m>>[1] = l /\ <<l, m>>[2] = m
    BY ShortSeq
  <2>2. \A k \in 1..2 : k = 1 \/ k = 2
    OBVIOUS
  <2> QED
    BY <1>2, <2>1, <2>2 DEF Plain
<1>3. \A l \in {"amount", "currency", "country", "=", "<", ">", "!"} :
         l \in Lexeme /\ l \notin Blank
  BY LexemeAssumption DEF Blank
<1>4. \A w \in NumberField \cup StringField :
         \E l \in {"amount", "currency", "country"} : w = <<l>>
  BY DEF NumberField, StringField
<1>5. \A w \in NumberOperator \cup StringOperator :
         \/ \E l \in {"=", "<", ">"} : w = <<l>>
         \/ \E l \in {"!", "<", ">"} : w = <<l, "=">>
  BY DEF NumberOperator, StringOperator
<1>6. \A w \in NumberField \cup StringField : Plain(w) /\ Len(w) = 1 /\ w[1] \notin Blank
  BY <1>1, <1>3, <1>4
<1>7. \A w \in NumberOperator \cup StringOperator : Plain(w)
  BY <1>1, <1>2, <1>3, <1>5
<1>8. NumberField \cap StringField = {}
  <2>1. <<"amount">>[1] = "amount" /\ <<"currency">>[1] = "currency"
        /\ <<"country">>[1] = "country"
    OBVIOUS
  <2>2. "amount" # "currency" /\ "amount" # "country"
    OBVIOUS
  <2> QED
    BY <2>1, <2>2 DEF NumberField, StringField
<1> QED
  BY <1>6, <1>7, <1>8

\* In the text, the next word after a field is what Fields lists after it.
LEMMA NextWord ==
    ASSUME Text \in Seq(Lexeme), NEW n \in 1..Len(Fields(Text)),
           Len(Fields(Text)[n]) = 1
    PROVE  LET i == Nth(Starts(Text), n) IN
           /\ n + 1 \in 1..Len(Fields(Text)) =>
                 /\ Nth(Starts(Text), n + 1) \in 1..Len(Text)
                 /\ NextAt(i, Nth(Starts(Text), n + 1))
                 /\ Word(Fields(Text)[n + 1], Nth(Starts(Text), n + 1))
           /\ \A j \in 1..Len(Text) : NextAt(i, j) =>
                 n + 1 \in 1..Len(Fields(Text)) /\ j = Nth(Starts(Text), n + 1)
<1> DEFINE t == Text
           i == Nth(Starts(t), n)
           j == Nth(Starts(t), n + 1)
<1>a. t \in Seq(Lexeme) /\ DOMAIN t = 1..Len(t) /\ Len(t) \in Nat
  OBVIOUS
<1>d. n \in 1..Len(Fields(t)) /\ Len(Fields(t)[n]) = 1
  OBVIOUS
<1>b. /\ i \in Starts(t) /\ i \in 1..Len(t) /\ t[i] \notin Blank
      /\ Fields(t)[n] = WordAt(t, i) /\ WordEnd(t, i) = i
  <2>1. i \in Starts(t) /\ Fields(t)[n] = WordAt(t, i)
    BY FieldsAre
  <2> HIDE DEF i
  <2>2. WordEnd(t, i) = i
    BY <2>1, OneLexeme
  <2> QED
    BY <2>1, <2>2 DEF Starts
<1>c. Len(Fields(t)) \in Nat /\ Places(Starts(t)) /\ Len(Fields(t)) = Cardinality(Starts(t))
  BY FieldsAre, StartsPlaces
<1> HIDE DEF t, i
<1>1. ASSUME n + 1 \in 1..Len(Fields(t))
      PROVE  j \in 1..Len(t) /\ NextAt(i, j) /\ Word(Fields(t)[n + 1], j)
  <2>1. j \in Starts(t) /\ j \in 1..Len(t) /\ t[j] \notin Blank
        /\ Fields(t)[n + 1] = WordAt(t, j)
    BY <1>a, <1>1, FieldsAre DEF Starts
  <2>2. i < j
    BY <1>c, <1>d, <1>1, NthOrder DEF i
  <2>3. \A x \in Starts(t) : ~(i < x /\ x < j)
    <3>1. ASSUME NEW x \in Starts(t), x > i PROVE j <= x
      BY <1>a, <1>d, <3>1, NextField DEF i
    <3>2. \A x \in Starts(t) : x \in Nat /\ i \in Nat /\ j \in Nat
      BY <1>b, <2>1, <1>a DEF Starts
    <3> QED
      BY <3>1, <3>2
  <2>4. \A k \in (i + 1)..(j - 1) : t[k] \in Blank
    <3> HIDE DEF j
    <3> QED
      BY <1>a, <1>b, <2>1, <2>2, <2>3, NextIsClear
  <2>5. NextAt(i, j)
    BY <1>a, <1>b, <2>1, <2>2, <2>4 DEF NextAt, t
  <2>6. Word(Fields(t)[n + 1], j)
    <3>1. Plain(Fields(t)[n + 1])
      BY <1>a, <1>1, FieldsPlain
    <3> QED
      BY <1>a, <2>1, <3>1, WordIs DEF t
  <2> QED
    BY <2>1, <2>5, <2>6
<1>2. ASSUME NEW x \in 1..Len(t), NextAt(i, x)
      PROVE  n + 1 \in 1..Len(Fields(t)) /\ x = j
  <2>1. x > i /\ t[x] \notin Blank /\ \A k \in (i + 1)..(x - 1) : t[k] \in Blank
    BY <1>2 DEF NextAt, t
  <2>2. x \in Starts(t) /\ \A y \in Starts(t) : ~(i < y /\ y < x)
    BY <1>a, <1>b, <2>1, NextBegins
  <2>3. n + 1 \in 1..Len(Fields(t)) /\ j <= x
    BY <1>a, <1>d, <2>1, <2>2, NextField DEF i
  <2>4. j \in Starts(t) /\ i < j
    BY <1>a, <1>c, <1>d, <2>3, FieldsAre, NthOrder DEF i
  <2>5. j \in Nat /\ x \in Nat
    BY <1>a, <2>4 DEF Starts
  <2> QED
    BY <2>2, <2>3, <2>4, <2>5
<1> QED
  BY <1>1, <1>2 DEF t, i

-----------------------------------------------------------------------------
(***************************************************************************)
(* The errors.                                                             *)
(***************************************************************************)
\* What is wrong with the n-th word: it is a field, and the next may not
\* compare it.
Wrong(words, n) ==
    /\ words[n] \in NumberField \cup StringField
    /\ ~MayFollow(words[n + 1], words[n])

NothingWrong(words) == \A n \in 1..(Len(words) - 1) : ~Wrong(words, n)

LEMMA NoErrors ==
    ASSUME NEW t \in Seq(Lexeme)
    PROVE  Validate(t) = {} <=>
              /\ ~Occurs(<<"(", ")">>, t) /\ Occurrences("(", t) = Occurrences(")", t)
              /\ NothingWrong(Fields(t))
<1>1. validateBasicSyntax(t) = {} <=>
         ~Occurs(<<"(", ")">>, t) /\ Occurrences("(", t) = Occurrences(")", t)
  BY DEF validateBasicSyntax
<1>2. validateFieldsAndOperators(t) = {} <=> NothingWrong(Fields(t))
  BY DEF validateFieldsAndOperators, NothingWrong, Wrong
<1>3. Validate(t) = {} <=> validateBasicSyntax(t) = {} /\ validateFieldsAndOperators(t) = {}
  BY DEF Validate
<1> QED
  BY <1>1, <1>2, <1>3

\* The error of the n-th word.
ErrorOf(t, n) ==
    [message |-> "Invalid operator", near |-> Fields(t)[n + 1],
     position |-> Index(Fields(t)[n], t) + 1]

\* That of empty parentheses.
EmptyError(t) ==
    [message |-> "Empty parentheses", near |-> <<"(", ")">>,
     position |-> Index(<<"(", ")">>, t)]

LEMMA ErrorsAre ==
    ASSUME NEW t \in Seq(Lexeme), NEW e \in Validate(t)
    PROVE  \/ e.position = 0 /\ e.near = <<>>
           \/ Occurs(<<"(", ")">>, t) /\ e = EmptyError(t)
           \/ \E n \in 1..(Len(Fields(t)) - 1) : Wrong(Fields(t), n) /\ e = ErrorOf(t, n)
<1>1. CASE e \in validateBasicSyntax(t)
  <2>1. \/ Occurs(<<"(", ")">>, t) /\ e = EmptyError(t)
        \/ \E m : e = About(m)
    BY <1>1, Zenon DEF validateBasicSyntax, EmptyError
  <2> QED
    BY <2>1 DEF About
<1>2. CASE e \in validateFieldsAndOperators(t)
  BY <1>2 DEF validateFieldsAndOperators, Wrong, ErrorOf
<1> QED
  BY <1>1, <1>2 DEF Validate

\* Two lexemes taken out.
LEMMA PairAt ==
    ASSUME NEW t \in Seq(Lexeme), NEW i \in 1..Len(t), i + 1 <= Len(t)
    PROVE  SubSeq(t, i, i + 1) = <<"(", ")">> <=> t[i] = "(" /\ t[i + 1] = ")"
<1>1. /\ SubSeq(t, i, i + 1) \in Seq(Lexeme) /\ Len(SubSeq(t, i, i + 1)) = 2
      /\ SubSeq(t, i, i + 1)[1] = t[i] /\ SubSeq(t, i, i + 1)[2] = t[i + 1]
  OBVIOUS
<1>2. /\ <<"(", ")">> \in Seq(Lexeme) /\ Len(<<"(", ")">>) = 2
      /\ <<"(", ")">>[1] = "(" /\ <<"(", ")">>[2] = ")"
  BY ShortSeq, LexemeAssumption
<1>3. \A k \in 1..2 : k = 1 \/ k = 2
  OBVIOUS
<1> QED
  BY <1>1, <1>2, <1>3, SeqEqual

\* Empty parentheses are found after as many lexemes as the error says.
LEMMA EmptyPosition ==
    ASSUME NEW t \in Seq(Lexeme), Occurs(<<"(", ")">>, t)
    PROVE  LET p == EmptyError(t).position IN
           /\ p \in 0..Len(t) /\ p + 1 \in 1..Len(t) /\ p + 2 \in 1..Len(t)
           /\ t[p + 1] = "(" /\ t[p + 2] = ")"
<1> DEFINE w == <<"(", ")">>
           First(x) == /\ SubSeq(t, x, x + Len(w) - 1) = w
                       /\ \A y \in 1..(x - 1) : SubSeq(t, y, y + Len(w) - 1) # w
           q == CHOOSE x \in 1..Len(t) : First(x)
           S == {x \in 1..Len(t) : SubSeq(t, x, x + Len(w) - 1) = w}
<1>1. Len(w) = 2 /\ Len(t) \in Nat
  OBVIOUS
<1>2. EmptyError(t).position = q - 1
  BY DEF EmptyError, Index
<1>3. PICK z \in 1..Len(t) : z + Len(w) - 1 <= Len(t) /\ SubSeq(t, z, z + Len(w) - 1) = w
  BY DEF Occurs
<1> HIDE DEF w
<1>4. \E x \in 1..Len(t) : First(x)
  <2>1. S \in SUBSET Nat /\ z \in S
    BY <1>1, <1>3
  <2>2. PICK x \in S : \A y \in S : x <= y
    <3> HIDE DEF S
    <3> QED
      BY <2>1, LeastElement
  <2>3. ASSUME NEW y \in 1..(x - 1) PROVE SubSeq(t, y, y + Len(w) - 1) # w
    <3>1. y \in 1..Len(t) /\ ~(x <= y)
      BY <1>1, <2>2
    <3>2. y \notin S
      <4> HIDE DEF S
      <4> QED
        BY <2>2, <3>1
    <3> QED
      BY <3>1, <3>2
  <2> QED
    BY <2>2, <2>3
<1>5. q \in 1..Len(t) /\ First(q)
  BY <1>4, Zenon
<1> HIDE DEF q
<1>6. q <= z
  <2>1. z \notin 1..(q - 1)
    BY <1>3, <1>5
  <2> QED
    BY <1>1, <1>5, <2>1
<1>7. q + 1 <= Len(t) /\ q + Len(w) - 1 = q + 1
  BY <1>1, <1>3, <1>5, <1>6
<1>8. SubSeq(t, q, q + 1) = <<"(", ")">>
  BY <1>5, <1>7 DEF w
<1>9. t[q] = "(" /\ t[q + 1] = ")"
  BY <1>5, <1>7, <1>8, PairAt
<1>10. q - 1 \in 0..Len(t) /\ (q - 1) + 1 = q /\ (q - 1) + 2 = q + 1 /\ q + 1 \in 1..Len(t)
  BY <1>1, <1>5, <1>7
<1> QED
  BY <1>2, <1>5, <1>9, <1>10

\* The position of an error is the first place of its field.
LEMMA ErrorPosition ==
    ASSUME NEW t \in Seq(Lexeme), NEW n \in 1..(Len(Fields(t)) - 1), Wrong(Fields(t), n)
    PROVE  LET i == Nth(Starts(t), n)
               p == ErrorOf(t, n).position IN
           /\ n \in 1..Len(Fields(t)) /\ n + 1 \in 1..Len(Fields(t))
           /\ Len(Fields(t)[n]) = 1 /\ i \in 1..Len(t) /\ p \in 1..Len(t) /\ t[p] = t[i]
           /\ \A k \in 1..(p - 1) : t[k] # t[p]
<1> DEFINE i == Nth(Starts(t), n)
           w == Fields(t)[n]
           First(x) == /\ SubSeq(t, x, x + Len(w) - 1) = w
                       /\ \A y \in 1..(x - 1) : SubSeq(t, y, y + Len(w) - 1) # w
<1>1. Len(Fields(t)) \in Nat /\ n \in 1..Len(Fields(t)) /\ n + 1 \in 1..Len(Fields(t))
  BY FieldsAre
<1>2. Len(w) = 1
  BY FieldsAndOperatorsPlain DEF Wrong
<1>3. i \in Starts(t) /\ i \in 1..Len(t) /\ w = <<t[i]>> /\ Len(t) \in Nat
  <2>1. i \in Starts(t) /\ w = WordAt(t, i)
    BY <1>1, FieldsAre
  <2> HIDE DEF i, w
  <2>2. w = <<t[i]>>
    BY <1>2, <2>1, OneLexeme
  <2> QED
    BY <2>1, <2>2 DEF Starts
<1>4. ASSUME NEW x \in 1..Len(t) PROVE SubSeq(t, x, x + Len(w) - 1) = <<t[x]>>
  <2>1. x + Len(w) - 1 = x
    BY <1>2
  <2> QED
    BY <2>1, OneLong
<1> HIDE DEF i, w
<1>5. \A x \in 1..Len(t) : SubSeq(t, x, x + Len(w) - 1) = w <=> t[x] = t[i]
  <2>1. ASSUME NEW x \in 1..Len(t) PROVE <<t[x]>> = <<t[i]>> <=> t[x] = t[i]
    <3>1. <<t[x]>>[1] = t[x] /\ <<t[i]>>[1] = t[i]
      OBVIOUS
    <3> QED
      BY <3>1
  <2> QED
    BY <1>3, <1>4, <2>1
<1>6. \E x \in 1..Len(t) : First(x)
  <2> DEFINE S == {x \in 1..Len(t) : t[x] = t[i]}
  <2>1. S \in SUBSET Nat /\ i \in S
    BY <1>3
  <2>2. PICK x \in S : \A y \in S : x <= y
    BY <2>1, LeastElement
  <2>3. ASSUME NEW y \in 1..(x - 1) PROVE SubSeq(t, y, y + Len(w) - 1) # w
    <3>1. y \in 1..Len(t) /\ y < x /\ x \in Nat
      BY <1>3, <2>2
    <3>2. y \notin S
      BY <2>2, <3>1
    <3> QED
      BY <1>5, <3>1, <3>2
  <2> QED
    BY <1>5, <2>2, <2>3
<1> DEFINE p == CHOOSE x \in 1..Len(t) : First(x)
<1>7. ErrorOf(t, n).position = p - 1 + 1
  BY DEF ErrorOf, Index, w
<1>8. p \in 1..Len(t) /\ First(p)
  BY <1>6
<1> HIDE DEF p
<1>9. t[p] = t[i]
  BY <1>5, <1>8
<1>10. ErrorOf(t, n).position = p
  BY <1>3, <1>7, <1>8
<1>11. ASSUME NEW k \in 1..(p - 1) PROVE t[k] # t[p]
  <2>1. k \in 1..Len(t)
    BY <1>3, <1>8
  <2> QED
    BY <1>5, <1>8, <1>9, <2>1
<1> QED
  BY <1>1, <1>2, <1>3, <1>8, <1>9, <1>10, <1>11 DEF i, w

-----------------------------------------------------------------------------
(***************************************************************************)
(* What is valid, as a reader sees it.                                     *)
(***************************************************************************)
ComparedBy(i, set) == \A j \in DOMAIN Text : NextAt(i, j) => \E w \in set : Word(w, j)

LEMMA NextCompares ==
    ASSUME Text \in Seq(Lexeme), NEW n \in 1..Len(Fields(Text)),
           Len(Fields(Text)[n]) = 1, NEW set, \A w \in set : Plain(w)
    PROVE  ComparedBy(Nth(Starts(Text), n), set) <=>
              (n + 1 \in 1..Len(Fields(Text)) => Fields(Text)[n + 1] \in set)
<1> DEFINE i == Nth(Starts(Text), n)
           j == Nth(Starts(Text), n + 1)
<1>a. DOMAIN Text = 1..Len(Text)
  OBVIOUS
<1>1. /\ n + 1 \in 1..Len(Fields(Text)) =>
            j \in 1..Len(Text) /\ NextAt(i, j) /\ Word(Fields(Text)[n + 1], j)
      /\ \A x \in 1..Len(Text) : NextAt(i, x) => n + 1 \in 1..Len(Fields(Text)) /\ x = j
  BY NextWord
<1>2. n + 1 \in 1..Len(Fields(Text)) => Fields(Text)[n + 1] = WordAt(Text, j)
  BY FieldsAre
<1> HIDE DEF i, j
<1>3. ASSUME ComparedBy(i, set), n + 1 \in 1..Len(Fields(Text))
      PROVE  Fields(Text)[n + 1] \in set
  <2>1. PICK w \in set : Word(w, j)
    BY <1>a, <1>1, <1>3 DEF ComparedBy
  <2>2. WordAt(Text, j) = w
    BY <1>1, <1>3, <2>1, WordIs
  <2> QED
    BY <1>2, <1>3, <2>2
<1>4. ASSUME n + 1 \in 1..Len(Fields(Text)) => Fields(Text)[n + 1] \in set
      PROVE  ComparedBy(i, set)
  BY <1>a, <1>1, <1>4 DEF ComparedBy
<1> QED
  BY <1>3, <1>4 DEF i

\* A word of one kind of field, and the operators that may follow it.
LEMMA FieldCompared ==
    ASSUME Text \in Seq(Lexeme), NEW kind, NEW set,
           kind \subseteq NumberField \cup StringField, \A w \in set : Plain(w)
    PROVE  (\A i \in DOMAIN Text : (\E w \in kind : Word(w, i)) => ComparedBy(i, set))
           <=> \A n \in 1..(Len(Fields(Text)) - 1) :
                  Fields(Text)[n] \in kind => Fields(Text)[n + 1] \in set
<1> DEFINE words == Fields(Text)
<1>a. DOMAIN Text = 1..Len(Text) /\ Len(words) \in Nat
  BY FieldsAre
<1>b. \A w \in kind : Plain(w) /\ Len(w) = 1
  BY FieldsAndOperatorsPlain
<1>1. ASSUME NEW n \in 1..Len(words), words[n] \in kind
      PROVE  LET i == Nth(Starts(Text), n) IN
             /\ i \in DOMAIN Text /\ \E w \in kind : Word(w, i)
             /\ ComparedBy(i, set) <=> (n + 1 \in 1..Len(words) => words[n + 1] \in set)
  <2> DEFINE i == Nth(Starts(Text), n)
  <2>1. i \in Starts(Text) /\ words[n] = WordAt(Text, i)
    BY FieldsAre
  <2>2. i \in 1..Len(Text)
    BY <2>1 DEF Starts
  <2>3. Len(words[n]) = 1
    BY <1>1, <1>b
  <2>4. ComparedBy(i, set) <=> (n + 1 \in 1..Len(words) => words[n + 1] \in set)
    BY <2>3, NextCompares
  <2> HIDE DEF i
  <2>5. Word(words[n], i)
    BY <1>1, <1>b, <2>1, <2>2, WordIs
  <2> QED
    BY <1>1, <1>a, <2>2, <2>4, <2>5 DEF i
<1>2. ASSUME NEW i \in DOMAIN Text, NEW w \in kind, Word(w, i)
      PROVE  \E n \in 1..Len(words) : words[n] \in kind /\ Nth(Starts(Text), n) = i
  <2>1. i \in Starts(Text) /\ WordAt(Text, i) = w
    BY <1>2, <1>a, <1>b, WordIs
  <2> QED
    BY <2>1, FieldsAre
<1> HIDE DEF words
<1>3. ASSUME \A i \in DOMAIN Text : (\E w \in kind : Word(w, i)) => ComparedBy(i, set),
             NEW n \in 1..(Len(words) - 1), words[n] \in kind
      PROVE  words[n + 1] \in set
  <2>1. n \in 1..Len(words) /\ n + 1 \in 1..Len(words)
    BY <1>a
  <2> QED
    BY <1>1, <1>3, <2>1
<1>4. ASSUME \A n \in 1..(Len(words) - 1) : words[n] \in kind => words[n + 1] \in set,
             NEW i \in DOMAIN Text, NEW w \in kind, Word(w, i)
      PROVE  ComparedBy(i, set)
  <2>1. PICK n \in 1..Len(words) : words[n] \in kind /\ Nth(Starts(Text), n) = i
    BY <1>2, <1>4
  <2>2. n + 1 \in 1..Len(words) => n \in 1..(Len(words) - 1)
    BY <1>a
  <2> QED
    BY <1>1, <1>4, <2>1, <2>2
<1> QED
  BY <1>3, <1>4 DEF words

LEMMA ValidRead ==
    ASSUME Text \in Seq(Lexeme)
    PROVE  Validate(Text) = {} <=>
              /\ \A i \in DOMAIN Text : ~(At(i) = "(" /\ At(i + 1) = ")")
              /\ Occurrences("(", Text) = Occurrences(")", Text)
              /\ \A i \in DOMAIN Text :
                    /\ (\E w \in NumberField : Word(w, i)) => ComparedBy(i, NumberOperator)
                    /\ (\E w \in StringField : Word(w, i)) => ComparedBy(i, StringOperator)
<1> DEFINE words == Fields(Text)
<1>1. Occurs(<<"(", ")">>, Text) <=> \E i \in DOMAIN Text : At(i) = "(" /\ At(i + 1) = ")"
  <2>a. DOMAIN Text = 1..Len(Text) /\ Len(Text) \in Nat /\ Len(<<"(", ")">>) = 2
    OBVIOUS
  <2>1. ASSUME NEW i \in 1..Len(Text), i + 1 <= Len(Text)
        PROVE  SubSeq(Text, i, i + 1) = <<"(", ")">> <=> Text[i] = "(" /\ Text[i + 1] = ")"
    BY <2>1, PairAt
  <2>2. ASSUME NEW i \in 1..Len(Text)
        PROVE  At(i) = "(" /\ At(i + 1) = ")" <=>
                  i + 1 <= Len(Text) /\ Text[i] = "(" /\ Text[i + 1] = ")"
    <3>1. " " # ")"
      OBVIOUS
    <3> QED
      BY <2>a, <3>1 DEF At
  <2>3. \A i \in 1..Len(Text) : i + Len(<<"(", ")">>) - 1 = i + 1
    BY <2>a
  <2> QED
    BY <2>a, <2>1, <2>2, <2>3 DEF Occurs
<1>2. NothingWrong(words) <=>
         /\ \A n \in 1..(Len(words) - 1) :
               words[n] \in NumberField => words[n + 1] \in NumberOperator
         /\ \A n \in 1..(Len(words) - 1) :
               words[n] \in StringField => words[n + 1] \in StringOperator
  BY FieldsAndOperatorsPlain DEF NothingWrong, Wrong, MayFollow
<1>3. (\A i \in DOMAIN Text : (\E w \in NumberField : Word(w, i)) => ComparedBy(i, NumberOperator))
      <=> \A n \in 1..(Len(words) - 1) :
             words[n] \in NumberField => words[n + 1] \in NumberOperator
  BY FieldCompared, FieldsAndOperatorsPlain
<1>4. (\A i \in DOMAIN Text : (\E w \in StringField : Word(w, i)) => ComparedBy(i, StringOperator))
      <=> \A n \in 1..(Len(words) - 1) :
             words[n] \in StringField => words[n + 1] \in StringOperator
  BY FieldCompared, FieldsAndOperatorsPlain
<1>5. Validate(Text) = {} <=>
         /\ ~Occurs(<<"(", ")">>, Text) /\ Occurrences("(", Text) = Occurrences(")", Text)
         /\ NothingWrong(words)
  BY NoErrors
<1> HIDE DEF words
<1> QED
  BY <1>1, <1>2, <1>3, <1>4, <1>5

-----------------------------------------------------------------------------
(***************************************************************************)
(* The inductive invariant.                                                *)
(***************************************************************************)
LEMMA TextIs == \A q \in Request : q.text \in Seq(Lexeme) /\ q.role \in {"USER", "ADMIN"}
BY TextsAssumption DEF Request

LEMMA ErrorsType ==
    ASSUME NEW t \in Seq(Lexeme), NEW e \in Validate(t)
    PROVE  e.position \in 0..Len(t) /\ e.near \in Seq(Lexeme)
<1>1. CASE e.position = 0 /\ e.near = <<>>
  <2>1. <<>> \in Seq(Lexeme) /\ Len(t) \in Nat
    OBVIOUS
  <2> QED
    BY <1>1, <2>1
<1>2. ASSUME NEW n \in 1..(Len(Fields(t)) - 1), Wrong(Fields(t), n), e = ErrorOf(t, n)
      PROVE  e.position \in 0..Len(t) /\ e.near \in Seq(Lexeme)
  <2>1. e.position \in 1..Len(t) /\ n + 1 \in 1..Len(Fields(t))
    BY <1>2, ErrorPosition
  <2>2. Fields(t)[n + 1] \in Seq(Lexeme)
    BY <2>1, FieldsAre
  <2>3. e.near = Fields(t)[n + 1]
    BY <1>2 DEF ErrorOf
  <2>4. 0..Len(t) = {0} \cup 1..Len(t)
    OBVIOUS
  <2> QED
    BY <2>1, <2>2, <2>3, <2>4
<1>3. ASSUME Occurs(<<"(", ")">>, t), e = EmptyError(t)
      PROVE  e.position \in 0..Len(t) /\ e.near \in Seq(Lexeme)
  <2>1. e.position \in 0..Len(t)
    BY <1>3, EmptyPosition
  <2>2. e.near = <<"(", ")">>
    BY <1>3 DEF EmptyError
  <2>3. <<"(", ")">> \in Seq(Lexeme)
    BY ShortSeq, LexemeAssumption
  <2> QED
    BY <2>1, <2>2, <2>3
<1> QED
  BY <1>1, <1>2, <1>3, ErrorsAre

LEMMA UppercaseType ==
    ASSUME NEW t \in Seq(Lexeme), NEW low, NEW up \in Lexeme
    PROVE  /\ Uppercase(low, up, t) \in Seq(Lexeme) /\ Len(Uppercase(low, up, t)) = Len(t)
           /\ \A i \in 1..Len(t) : Uppercase(low, up, t)[i] =
                 IF t[i] = low /\ Replaced(low, t, i - 1) THEN up ELSE t[i]
BY DEF Uppercase

\* Where Squeeze leaves a lexeme.
SqueezeKept(t) == {i \in DOMAIN t : t[i] \in Blank =>
                      i > 1 /\ t[i - 1] \notin Blank /\ Later(t, i)}
SqueezeFrom(t) == [i \in DOMAIN t |-> IF t[i] \in Blank THEN " " ELSE t[i]]

LEMMA SqueezeType ==
    ASSUME NEW t \in Seq(Lexeme)
    PROVE  /\ Squeeze(t) = Only(SqueezeFrom(t), SqueezeKept(t))
           /\ Squeeze(t) \in Seq(Lexeme)
           /\ SqueezeFrom(t) \in Seq(Lexeme) /\ Len(SqueezeFrom(t)) = Len(t)
           /\ SqueezeKept(t) \subseteq DOMAIN t
<1>1. Squeeze(t) = Only(SqueezeFrom(t), SqueezeKept(t))
  BY DEF Squeeze, SqueezeFrom, SqueezeKept
<1>2. " " \in Lexeme
  BY LexemeAssumption
<1>3. SqueezeFrom(t) \in Seq(Lexeme) /\ Len(SqueezeFrom(t)) = Len(t)
  <2> DEFINE one(i) == IF t[i] \in Blank THEN " " ELSE t[i]
  <2>1. DOMAIN t = 1..Len(t) /\ Len(t) \in Nat /\ \A i \in 1..Len(t) : t[i] \in Lexeme
    OBVIOUS
  <2>2. SqueezeFrom(t) = [i \in 1..Len(t) |-> one(i)]
    BY <2>1 DEF SqueezeFrom
  <2>3. \A i \in 1..Len(t) : one(i) \in Lexeme
    BY <1>2, <2>1
  <2> HIDE DEF one
  <2> QED
    BY <2>1, <2>2, <2>3
<1>4. SqueezeKept(t) \subseteq DOMAIN t /\ DOMAIN t = DOMAIN SqueezeFrom(t)
  BY <1>3 DEF SqueezeKept
<1>5. Only(SqueezeFrom(t), SqueezeKept(t)) \in Seq(Lexeme)
  BY <1>3, <1>4, OnlyType
<1> QED
  BY <1>1, <1>3, <1>4, <1>5

LEMMA NormalType ==
    ASSUME NEW t \in Seq(Lexeme)
    PROVE  /\ TrimSpace(t) \in Seq(Lexeme) /\ WithoutParentheses(t) \in Seq(Lexeme)
           /\ normalizeExpression(t) \in Seq(Lexeme)
<1>1. ASSUME NEW s \in Seq(Lexeme)
      PROVE  TrimSpace(s) \in Seq(Lexeme) /\ WithoutParentheses(s) \in Seq(Lexeme)
  <2>1. {i \in DOMAIN s : Earlier(s, i) /\ Later(s, i)} \subseteq DOMAIN s
        /\ {i \in DOMAIN s : s[i] \notin {"(", ")"}} \subseteq DOMAIN s
    OBVIOUS
  <2> QED
    BY <2>1, OnlyType DEF TrimSpace, WithoutParentheses
<1>2. "AND" \in Lexeme /\ "OR" \in Lexeme
  BY LexemeAssumption
<1> QED
  BY <1>1, <1>2, UppercaseType, SqueezeType DEF normalizeExpression

\* A verdict that the validator reached, and one on a text of too many bytes.
LEMMA AboutLength ==
    ASSUME NEW t \in Seq(Lexeme)
    PROVE  About(LengthError) \notin Validate(t)
<1>1. About(LengthError).message = LengthError /\ \A m : About(m).message = m
  BY DEF About
<1>2. /\ LengthError # "Invalid operator" /\ LengthError # "Empty parentheses"
      /\ LengthError # "Mismatched parentheses"
  BY DEF LengthError
<1>3. \A e \in validateBasicSyntax(t) :
         e.message \in {"Empty parentheses", "Mismatched parentheses"}
  <2>1. \A e \in validateBasicSyntax(t) :
           e = EmptyError(t) \/ e = About("Mismatched parentheses")
    BY Zenon DEF validateBasicSyntax, EmptyError
  <2>2. EmptyError(t).message = "Empty parentheses"
    BY DEF EmptyError
  <2> QED
    BY <1>1, <2>1, <2>2
<1>4. \A e \in validateFieldsAndOperators(t) : e.message = "Invalid operator"
  <2>1. \A e \in validateFieldsAndOperators(t) :
           \E n \in 1..(Len(Fields(t)) - 1) : e = ErrorOf(t, n)
    BY DEF validateFieldsAndOperators, ErrorOf
  <2>2. \A n : ErrorOf(t, n).message = "Invalid operator"
    BY DEF ErrorOf
  <2> QED
    BY <2>1, <2>2
<1> QED
  BY <1>1, <1>2, <1>3, <1>4 DEF Validate

LEMMA InitInv == ASSUME Init PROVE IndInv
<1>1. <<>> \in Seq(Lexeme)
  OBVIOUS
<1> QED
  <2>1. TypeOK
    <3>1. /\ request \in Request \cup {NoRequest} /\ code = 0 /\ isValid \in BOOLEAN
          /\ normalizedExpression \in Seq(Lexeme)
      BY <1>1 DEF Init
    <3>2. \A e : e \notin errors
      BY DEF Init
    <3> QED
      BY <3>1, <3>2 DEF TypeOK
  <2>2. Answered
    BY DEF Init, Answered
  <2> QED
    BY <2>1, <2>2 DEF IndInv

LEMMA ValiteDLSInv ==
    ASSUME NEW q \in Request, ValiteDLS(q), IndInv
    PROVE  IndInv'
<1>a. /\ request = NoRequest /\ request' = q /\ q # NoRequest
      /\ q.text \in Seq(Lexeme) /\ q.role \in {"USER", "ADMIN"}
  BY TextIs, NoRequestAssumption DEF ValiteDLS
<1>b. code = 0 /\ ~isValid /\ errors = {} /\ normalizedExpression = <<>> /\ isValid \in BOOLEAN
  BY <1>a DEF IndInv, TypeOK, Answered
<1>c. Text' = q.text
  BY <1>a DEF Text
<1>d. <<>> \in Seq(Lexeme) /\ Len(q.text) \in Nat
  BY <1>a
<1>1. ASSUME NEW c \in {403, 400}, Refuse(c) PROVE IndInv'
  BY <1>a, <1>b, <1>d, <1>1 DEF Refuse, IndInv, TypeOK, Answered
<1>2. ASSUME q.role = "ADMIN", Bound(q.text), Bytes(q.text) \notin MinLength..MaxLength,
             Verdict({About(LengthError)}, <<>>)
      PROVE  IndInv'
  <2>1. About(LengthError).position = 0 /\ About(LengthError).near = <<>>
    BY DEF About
  <2>2. /\ errors' = {About(LengthError)} /\ ~isValid' /\ isValid' \in BOOLEAN
        /\ normalizedExpression' = <<>> /\ code' = 200
    BY <1>2 DEF Verdict
  <2> HIDE DEF About
  <2>3. TypeOK'
    <3>1. \A e \in errors' : e.position \in 0..Len(q.text) /\ e.near \in Seq(Lexeme)
      <4>1. \A e \in errors' : e = About(LengthError)
        BY <2>2
      <4>2. 0 \in 0..Len(q.text)
        BY <1>d
      <4> QED
        BY <1>d, <2>1, <4>1, <4>2, Zenon
    <3> QED
      BY <1>a, <1>c, <1>d, <1>2, <2>2, <3>1 DEF TypeOK, Bound
  <2>4. Answered'
    BY <1>a, <1>c, <1>2, <2>2 DEF Answered
  <2> QED
    BY <2>3, <2>4 DEF IndInv
<1>3. ASSUME q.role = "ADMIN", Bound(q.text), Bytes(q.text) \in MinLength..MaxLength,
             Verdict(Validate(q.text), normalizeExpression(q.text))
      PROVE  IndInv'
  <2>1. /\ errors' = Validate(q.text) /\ isValid' = (errors' = {}) /\ isValid' \in BOOLEAN
        /\ normalizedExpression' = normalizeExpression(q.text) /\ code' = 200
    BY <1>3 DEF Verdict
  <2>2. /\ \A e \in Validate(q.text) : e.position \in 0..Len(q.text) /\ e.near \in Seq(Lexeme)
        /\ normalizeExpression(q.text) \in Seq(Lexeme)
    BY <1>a, ErrorsType, NormalType
  <2>3. TypeOK'
    BY <1>a, <1>c, <1>3, <2>1, <2>2 DEF TypeOK, Bound
  <2>4. Answered'
    BY <1>a, <1>c, <1>3, <2>1 DEF Answered
  <2> QED
    BY <2>3, <2>4 DEF IndInv
<1> QED
  BY <1>1, <1>2, <1>3 DEF ValiteDLS

\* What is answered is what the text is worth, and within its type.
THEOREM ValidatorConsistent == Spec => []IndInv
<1>1. Init => IndInv
  BY InitInv
<1>2. IndInv /\ [Next]_vars => IndInv'
  <2>1. ASSUME IndInv, UNCHANGED vars PROVE IndInv'
    BY <2>1 DEF vars, IndInv, TypeOK, Answered, Text
  <2> QED
    BY <2>1, ValiteDLSInv DEF Next
<1> QED
  BY <1>1, <1>2, PTL DEF Spec

\* Every variable stays within its type (ValiteDLS in fraud_handler.go).
THEOREM ValidatorTypes == Spec => []TypeOK
<1>1. IndInv => TypeOK
  BY DEF IndInv
<1> QED
  BY <1>1, ValidatorConsistent, PTL

-----------------------------------------------------------------------------
(***************************************************************************)
(* The theorems about errors.                                              *)
(***************************************************************************)
\* A verdict is on a text of the right type, and of the validator unless the
\* text has too many bytes.
LEMMA VerdictIs ==
    ASSUME IndInv, code = 200
    PROVE  /\ Text \in Seq(Lexeme)
           /\ isValid <=> errors = {}
           /\ Bytes(Text) \in MinLength..MaxLength =>
                 errors = Validate(Text) /\ normalizedExpression = normalizeExpression(Text)
           /\ Bytes(Text) \notin MinLength..MaxLength => errors = {About(LengthError)}
<1>1. request \in Request
  BY DEF IndInv, TypeOK, Answered
<1>2. Text \in Seq(Lexeme)
  BY <1>1, TextIs DEF Text
<1> QED
  BY <1>2 DEF IndInv, Answered

LEMMA CheckedIs ==
    ASSUME IndInv, Checked
    PROVE  /\ Text \in Seq(Lexeme)
           /\ isValid <=> errors = {}
           /\ errors = Validate(Text) /\ normalizedExpression = normalizeExpression(Text)
BY VerdictIs DEF Checked

LEMMA ReadInv == ASSUME IndInv PROVE ValidAsRead
<1> SUFFICES ASSUME code = 200 PROVE ValidAsRead
  BY DEF ValidAsRead
<1>1. /\ Text \in Seq(Lexeme)
      /\ isValid <=> errors = {}
      /\ Bytes(Text) \in MinLength..MaxLength => errors = Validate(Text)
      /\ Bytes(Text) \notin MinLength..MaxLength => errors # {}
  BY VerdictIs
<1>2. Validate(Text) = {} <=>
              /\ \A i \in DOMAIN Text : ~(At(i) = "(" /\ At(i + 1) = ")")
              /\ Occurrences("(", Text) = Occurrences(")", Text)
              /\ \A i \in DOMAIN Text :
                    /\ (\E w \in NumberField : Word(w, i)) => ComparedBy(i, NumberOperator)
                    /\ (\E w \in StringField : Word(w, i)) => ComparedBy(i, StringOperator)
  BY <1>1, ValidRead
<1> QED
  BY <1>1, <1>2 DEF ValidAsRead, ComparedBy

\* A text is declared valid exactly when a reader would call it so: the limits,
\* the parentheses, and every field that stands alone before an operator that
\* may compare it (Validate in dlsValidator.go).
THEOREM ValidIsRead == Spec => []ValidAsRead
<1>1. IndInv => ValidAsRead
  BY ReadInv
<1> QED
  BY <1>1, ValidatorConsistent, PTL

LEMMA TextPlace ==
    ASSUME Text \in Seq(Lexeme)
    PROVE  \A i \in 1..Len(Text) : i \in DOMAIN Text /\ At(i) = Text[i]
<1>1. DOMAIN Text = 1..Len(Text)
  OBVIOUS
<1> QED
  BY <1>1 DEF At

\* What PositionIsNear says of an error about the operator w at position p.
OperatorAt(p, w) ==
    /\ p \in DOMAIN Text /\ \A k \in 1..(p - 1) : Text[k] # Text[p]
    /\ ~MayFollow(w, <<Text[p]>>)
    /\ \E i \in DOMAIN Text :
          /\ Text[i] = Text[p]
          /\ Word(<<Text[i]>>, i)
          /\ \E j \in DOMAIN Text : NextAt(i, j) /\ Word(w, j)

LEMMA OperatorQuoted ==
    ASSUME Text \in Seq(Lexeme), NEW n \in 1..(Len(Fields(Text)) - 1), Wrong(Fields(Text), n)
    PROVE  OperatorAt(ErrorOf(Text, n).position, Fields(Text)[n + 1])
<1> DEFINE p == ErrorOf(Text, n).position
           i == Nth(Starts(Text), n)
           j == Nth(Starts(Text), n + 1)
           w == Fields(Text)[n]
<1>1. /\ n \in 1..Len(Fields(Text)) /\ n + 1 \in 1..Len(Fields(Text))
      /\ Len(w) = 1 /\ i \in 1..Len(Text)
      /\ p \in 1..Len(Text) /\ Text[p] = Text[i]
      /\ \A k \in 1..(p - 1) : Text[k] # Text[p]
  BY ErrorPosition
<1>2. j \in 1..Len(Text) /\ NextAt(i, j) /\ Word(Fields(Text)[n + 1], j)
  BY <1>1, NextWord
<1>3. Plain(w) /\ ~MayFollow(Fields(Text)[n + 1], w)
  BY FieldsAndOperatorsPlain DEF Wrong
<1>4. i \in Starts(Text) /\ w = WordAt(Text, i)
  BY <1>1, FieldsAre
<1> HIDE DEF i, j, p, w
<1>5. w = <<Text[i]>>
  BY <1>1, <1>4, OneLexeme
<1>6. Word(w, i)
  BY <1>1, <1>3, <1>4, WordIs
<1>7. i \in DOMAIN Text /\ j \in DOMAIN Text /\ p \in DOMAIN Text
  BY <1>1, <1>2, TextPlace
<1>8. OperatorAt(p, Fields(Text)[n + 1])
  BY <1>1, <1>2, <1>3, <1>5, <1>6, <1>7 DEF OperatorAt
<1> QED
  BY <1>8 DEF p

LEMMA EmptyQuoted ==
    ASSUME Text \in Seq(Lexeme), Occurs(<<"(", ")">>, Text)
    PROVE  LET p == EmptyError(Text).position IN At(p + 1) = "(" /\ At(p + 2) = ")"
<1> DEFINE p == EmptyError(Text).position
<1>1. /\ p + 1 \in 1..Len(Text) /\ p + 2 \in 1..Len(Text)
      /\ Text[p + 1] = "(" /\ Text[p + 2] = ")"
  BY EmptyPosition
<1> HIDE DEF p
<1>2. At(p + 1) = "(" /\ At(p + 2) = ")"
  BY <1>1, TextPlace
<1> QED
  BY <1>2 DEF p

LEMMA NearInv == ASSUME IndInv PROVE PositionIsNear
<1> SUFFICES ASSUME Checked, NEW e \in errors, e.near # <<>>
             PROVE  IF e.message # "Invalid operator"
                    THEN /\ e.near = <<"(", ")">>
                         /\ At(e.position + 1) = "(" /\ At(e.position + 2) = ")"
                    ELSE OperatorAt(e.position, e.near)
  BY DEF PositionIsNear, OperatorAt
<1>1. Text \in Seq(Lexeme) /\ e \in Validate(Text)
  BY CheckedIs
<1>2. ASSUME NEW n \in 1..(Len(Fields(Text)) - 1), Wrong(Fields(Text), n), e = ErrorOf(Text, n)
      PROVE  e.message = "Invalid operator" /\ OperatorAt(e.position, e.near)
  <2>1. e.message = "Invalid operator" /\ e.near = Fields(Text)[n + 1]
    BY <1>2 DEF ErrorOf
  <2> QED
    BY <1>1, <1>2, <2>1, OperatorQuoted
<1>3. ASSUME Occurs(<<"(", ")">>, Text), e = EmptyError(Text)
      PROVE  /\ e.message # "Invalid operator" /\ e.near = <<"(", ")">>
             /\ At(e.position + 1) = "(" /\ At(e.position + 2) = ")"
  <2>1. e.message # "Invalid operator" /\ e.near = <<"(", ")">>
    BY <1>3 DEF EmptyError
  <2> QED
    BY <1>1, <1>3, <2>1, EmptyQuoted
<1> QED
  BY <1>1, <1>2, <1>3, ErrorsAre

\* Every error is about something that the text says: the parentheses are at
\* their position, and the operator is behind the field that the position is the
\* first occurrence of (dlsValidator.go).
THEOREM PositionsNear == Spec => []PositionIsNear
<1>1. IndInv => PositionIsNear
  BY NearInv
<1> QED
  BY <1>1, ValidatorConsistent, PTL

-----------------------------------------------------------------------------
(***************************************************************************)
(* A part of a text that has its words.                                    *)
(***************************************************************************)
\* u is what stands at the places K of t, as far as words go; nothing but
\* blanks is left out, and of those never the one that ends a word before
\* another.
PartOf(u, t, K) ==
    /\ K \subseteq 1..Len(t) /\ Len(u) = Cardinality(K)
    /\ \A k \in 1..Len(u) : IF t[Nth(K, k)] \in Blank THEN u[k] \in Blank
                            ELSE u[k] = t[Nth(K, k)]
    /\ \A i \in 1..Len(t) : t[i] \notin Blank => i \in K
    /\ \A i, j \in 1..Len(t) :
          i < j /\ t[i] \notin Blank /\ t[j] \notin Blank /\ t[i + 1] \in Blank => i + 1 \in K

LEMMA PartPlaces ==
    ASSUME NEW t \in Seq(Lexeme), NEW u \in Seq(Lexeme), NEW K, PartOf(u, t, K)
    PROVE  /\ Places(K) /\ Cardinality(K) = Len(u) /\ Len(u) \in Nat /\ Len(t) \in Nat
           /\ \A k \in 1..Len(u) : /\ Nth(K, k) \in K /\ Nth(K, k) \in 1..Len(t)
                                   /\ u[k] \in Blank <=> t[Nth(K, k)] \in Blank
                                   /\ u[k] \notin Blank => u[k] = t[Nth(K, k)]
           /\ \A i \in K : Rank(K, i) \in 1..Len(u) /\ Nth(K, Rank(K, i)) = i
<1>1. K \subseteq 1..Len(t) /\ Len(u) = Cardinality(K) /\ Len(t) \in Nat /\ Len(u) \in Nat
  BY DEF PartOf
<1>2. Places(K)
  BY <1>1, PlacesOf
<1>3. \A k \in 1..Len(u) : Nth(K, k) \in K /\ Nth(K, k) \in 1..Len(t)
  BY <1>1, <1>2, NthRank
<1>4. \A k \in 1..Len(u) : /\ u[k] \in Blank <=> t[Nth(K, k)] \in Blank
                           /\ u[k] \notin Blank => u[k] = t[Nth(K, k)]
  BY DEF PartOf
<1>5. \A i \in K : Rank(K, i) \in 1..Len(u) /\ Nth(K, Rank(K, i)) = i
  BY <1>1, <1>2, RankOfElement, RankNth
<1> QED
  BY <1>1, <1>2, <1>3, <1>4, <1>5

\* After a word and before the next, there is the end of a word.
LEMMA BlankAfter ==
    ASSUME NEW t \in Seq(Lexeme), NEW j \in 1..Len(t), NEW i \in 1..Len(t), j < i,
           t[j] \notin Blank, t[i - 1] \in Blank
    PROVE  \E e \in 1..Len(t) : /\ j <= e /\ e + 1 < i
                                /\ t[e] \notin Blank /\ t[e + 1] \in Blank
<1> DEFINE S == {e \in j..(i - 2) : t[e + 1] \in Blank}
<1>1. Len(t) \in Nat /\ j # i - 1 /\ (i - 2) + 1 = i - 1
  OBVIOUS
<1>2. S \in SUBSET Nat /\ i - 2 \in S
  BY <1>1
<1>3. PICK e \in S : \A x \in S : e <= x
  BY <1>2, LeastElement
<1>4. e \in j..(i - 2) /\ t[e + 1] \in Blank
  BY <1>3
<1>5. t[e] \notin Blank
  <2>1. CASE e = j
    BY <2>1
  <2>2. CASE e # j
    <3>1. e - 1 \in j..(i - 2) /\ ~(e <= e - 1) /\ (e - 1) + 1 = e
      BY <1>1, <1>4, <2>2
    <3>2. e - 1 \notin S
      <4> HIDE DEF S
      <4> QED
        BY <1>3, <3>1
    <3> QED
      BY <3>1, <3>2
  <2> QED
    BY <2>1, <2>2
<1> QED
  BY <1>1, <1>4, <1>5

\* Words begin at the same places.
LEMMA PartStarts ==
    ASSUME NEW t \in Seq(Lexeme), NEW u \in Seq(Lexeme), NEW K, PartOf(u, t, K)
    PROVE  /\ \A k \in Starts(u) : Nth(K, k) \in Starts(t)
           /\ \A i \in Starts(t) : \E k \in Starts(u) : Nth(K, k) = i
<1>a. /\ Places(K) /\ Cardinality(K) = Len(u) /\ Len(u) \in Nat /\ Len(t) \in Nat
      /\ \A k \in 1..Len(u) : /\ Nth(K, k) \in K /\ Nth(K, k) \in 1..Len(t)
                              /\ u[k] \in Blank <=> t[Nth(K, k)] \in Blank
      /\ \A i \in K : Rank(K, i) \in 1..Len(u) /\ Nth(K, Rank(K, i)) = i
  BY PartPlaces
<1>b. /\ \A i \in 1..Len(t) : t[i] \notin Blank => i \in K
      /\ \A i, j \in 1..Len(t) :
            i < j /\ t[i] \notin Blank /\ t[j] \notin Blank /\ t[i + 1] \in Blank => i + 1 \in K
  BY DEF PartOf
<1>c. DOMAIN t = 1..Len(t) /\ DOMAIN u = 1..Len(u)
  OBVIOUS
<1>1. ASSUME NEW k \in Starts(u) PROVE Nth(K, k) \in Starts(t)
  <2> DEFINE i == Nth(K, k)
  <2>1. k \in 1..Len(u) /\ u[k] \notin Blank /\ (k > 1 => u[k - 1] \in Blank)
    BY <1>c DEF Starts
  <2>2. i \in 1..Len(t) /\ t[i] \notin Blank
    BY <1>a, <2>1
  <2>3. ASSUME i > 1, t[i - 1] \notin Blank PROVE FALSE
    <3>1. i - 1 \in K /\ i - 1 < i /\ i - 1 \in 1..Len(t)
      BY <1>a, <1>b, <2>2, <2>3
    <3>2. k - 1 \in 1..Len(u) /\ i - 1 <= Nth(K, k - 1)
      <4> HIDE DEF i
      <4>1. i - 1 < Nth(K, k)
        BY <3>1 DEF i
      <4> QED
        BY <1>a, <2>1, <3>1, <4>1, NthNext
    <3>3. Nth(K, k - 1) < i
      BY <1>a, <2>1, <3>2, NthOrder
    <3>4. Nth(K, k - 1) = i - 1
      <4> HIDE DEF i
      <4>1. Nth(K, k - 1) \in Nat
        BY <1>a, <3>2
      <4> QED
        BY <2>2, <3>2, <3>3, <4>1
    <3>5. u[k - 1] \notin Blank /\ k > 1
      BY <1>a, <2>1, <2>3, <3>2, <3>4
    <3> QED
      BY <2>1, <3>5
  <2> QED
    BY <1>c, <2>2, <2>3 DEF Starts
<1>2. ASSUME NEW i \in Starts(t) PROVE \E k \in Starts(u) : Nth(K, k) = i
  <2> DEFINE k == Rank(K, i)
  <2>1. i \in 1..Len(t) /\ t[i] \notin Blank /\ (i > 1 => t[i - 1] \in Blank)
    BY <1>c DEF Starts
  <2>2. i \in K
    BY <1>b, <2>1
  <2>3. k \in 1..Len(u) /\ Nth(K, k) = i /\ u[k] \notin Blank
    BY <1>a, <2>1, <2>2
  <2> HIDE DEF k
  <2>4. ASSUME k > 1, u[k - 1] \notin Blank PROVE FALSE
    <3> DEFINE j == Nth(K, k - 1)
    <3>1. k - 1 \in 1..Len(u) /\ k - 1 < k
      BY <1>a, <2>3, <2>4
    <3>2. j \in 1..Len(t) /\ t[j] \notin Blank
      BY <1>a, <2>4, <3>1
    <3>3. j < i
      BY <1>a, <2>3, <3>1, NthOrder
    <3> HIDE DEF j
    <3>4. PICK e \in 1..Len(t) : /\ j <= e /\ e + 1 < i
                                 /\ t[e] \notin Blank /\ t[e + 1] \in Blank
      <4>1. t[i - 1] \in Blank
        BY <2>1, <3>2, <3>3
      <4> QED
        BY <2>1, <3>2, <3>3, <4>1, BlankAfter
    <3>5. e + 1 \in K /\ e + 1 > j
      <4>1. e < i
        BY <2>1, <3>4
      <4>2. e + 1 \in K
        BY <1>b, <2>1, <3>4, <4>1
      <4> QED
        BY <3>2, <3>4, <4>2
    <3>6. Nth(K, (k - 1) + 1) <= e + 1
      <4>1. e + 1 > Nth(K, k - 1)
        BY <3>5 DEF j
      <4> QED
        BY <1>a, <3>1, <3>5, <4>1, NthNext
    <3>7. (k - 1) + 1 = k
      BY <1>a, <2>3
    <3> QED
      BY <2>1, <2>3, <3>4, <3>6, <3>7
  <2> QED
    BY <1>c, <2>3, <2>4 DEF Starts
<1> QED
  BY <1>1, <1>2

\* And are the same there.
LEMMA PartWord ==
    ASSUME NEW t \in Seq(Lexeme), NEW u \in Seq(Lexeme), NEW K, PartOf(u, t, K),
           NEW k \in Starts(u)
    PROVE  WordAt(u, k) = WordAt(t, Nth(K, k))
<1> DEFINE i == Nth(K, k)
           E == WordEnd(t, i)
           d == E - i
<1>a. /\ Places(K) /\ Cardinality(K) = Len(u) /\ Len(u) \in Nat /\ Len(t) \in Nat
      /\ \A x \in 1..Len(u) : /\ Nth(K, x) \in K /\ Nth(K, x) \in 1..Len(t)
                              /\ u[x] \in Blank <=> t[Nth(K, x)] \in Blank
                              /\ u[x] \notin Blank => u[x] = t[Nth(K, x)]
  BY PartPlaces
<1>b. /\ \A x \in 1..Len(t) : t[x] \notin Blank => x \in K
      /\ \A x, y \in 1..Len(t) :
            x < y /\ t[x] \notin Blank /\ t[y] \notin Blank /\ t[x + 1] \in Blank => x + 1 \in K
  BY DEF PartOf
<1>c. DOMAIN t = 1..Len(t) /\ DOMAIN u = 1..Len(u)
  OBVIOUS
<1>d. k \in 1..Len(u) /\ i \in Starts(t) /\ i \in 1..Len(t)
  BY <1>a, <1>c, PartStarts DEF Starts
<1>e. EndsAt(t, i, E)
  BY <1>d, WordEnds
<1>f. i = Nth(K, k)
  OBVIOUS
<1> HIDE DEF i, E
<1>1. E \in i..Len(t) /\ E \in 1..Len(t) /\ d \in Nat /\ i + d = E
      /\ \A x \in i..E : t[x] \notin Blank /\ x \in K
  BY <1>a, <1>b, <1>d, <1>e DEF EndsAt
<1>g. d = E - i
  OBVIOUS
<1> HIDE DEF d
<1>2. ASSUME NEW x \in 0..d
      PROVE  /\ k + x \in 1..Len(u) /\ Nth(K, k + x) = i + x
             /\ u[k + x] = t[i + x] /\ u[k + x] \notin Blank
  <2>1. x \in Nat /\ i + x \in i..E
    BY <1>1, <1>d
  <2>2. i..(i + x) \subseteq K
    BY <1>1, <1>d, <2>1
  <2>3. k + x \in 1..Len(u) /\ Nth(K, k + x) = i + x
    <3>1. Nth(K, k)..(Nth(K, k) + x) \subseteq K
      BY <1>f, <2>2
    <3> QED
      BY <1>a, <1>d, <1>f, <2>1, <3>1, NthStretch
  <2> QED
    BY <1>1, <1>a, <2>1, <2>3
<1>3. ASSUME k + d < Len(u) PROVE u[k + d + 1] \in Blank
  <2> DEFINE q == Nth(K, k + d + 1)
  <2>1. k + d \in 1..Len(u) /\ k + d + 1 \in 1..Len(u) /\ k + d < k + d + 1
        /\ Nth(K, k + d) = E
    <3>1. d \in 0..d
      BY <1>1
    <3>2. k + d \in 1..Len(u) /\ Nth(K, k + d) = i + d
      BY <1>2, <3>1
    <3>3. k + d + 1 \in 1..Len(u) /\ k + d < k + d + 1
      BY <1>1, <1>3, <1>a, <1>d
    <3> QED
      BY <1>1, <3>2, <3>3
  <2>2. E < q /\ q \in 1..Len(t)
    BY <1>a, <2>1, NthOrder
  <2> HIDE DEF q
  <2>3. t[E + 1] \in Blank
    BY <1>1, <1>a, <1>e, <2>2 DEF EndsAt
  <2>4. t[E] \notin Blank
    BY <1>1
  <2>5. ASSUME t[q] \notin Blank PROVE FALSE
    <3>1. E + 1 \in K /\ E + 1 > E
      BY <1>1, <1>b, <2>2, <2>3, <2>4, <2>5
    <3>2. q <= E + 1
      <4>1. E + 1 > Nth(K, k + d)
        BY <2>1, <3>1
      <4> QED
        BY <1>a, <2>1, <3>1, <4>1, NthNext DEF q
    <3>3. q = E + 1
      BY <1>1, <2>2, <3>2
    <3> QED
      BY <2>3, <2>5, <3>3
  <2> QED
    BY <1>a, <2>1, <2>5 DEF q
<1>4. EndsAt(u, k, k + d)
  <2>1. k + d \in k..Len(u)
    BY <1>1, <1>2, <1>a, <1>d
  <2>2. ASSUME NEW y \in k..(k + d) PROVE u[y] \notin Blank
    <3>1. y - k \in 0..d /\ k + (y - k) = y
      BY <1>1, <1>d
    <3> QED
      BY <1>2, <3>1
  <2> QED
    BY <1>3, <2>1, <2>2 DEF EndsAt
<1>5. WordEnd(u, k) = k + d
  BY <1>4, WordEnds
<1>6. /\ WordAt(u, k) \in Seq(Lexeme) /\ Len(WordAt(u, k)) = d + 1
      /\ \A x \in 1..(d + 1) : WordAt(u, k)[x] = u[k + x - 1]
  <2>1. /\ WordAt(u, k) \in Seq(Lexeme) /\ Len(WordAt(u, k)) = WordEnd(u, k) - k + 1
        /\ \A x \in 1..Len(WordAt(u, k)) : WordAt(u, k)[x] = u[k + x - 1]
    BY WordAtType
  <2>2. Len(WordAt(u, k)) = d + 1
    BY <1>1, <1>d, <1>5, <2>1
  <2> QED
    BY <2>1, <2>2
<1>7. /\ WordAt(t, i) \in Seq(Lexeme) /\ Len(WordAt(t, i)) = d + 1
      /\ \A x \in 1..(d + 1) : WordAt(t, i)[x] = t[i + x - 1]
  <2>1. /\ WordAt(t, i) \in Seq(Lexeme) /\ Len(WordAt(t, i)) = E - i + 1
        /\ \A x \in 1..Len(WordAt(t, i)) : WordAt(t, i)[x] = t[i + x - 1]
    BY <1>d, WordAtType DEF E
  <2>2. E - i + 1 = d + 1
    BY <1>g
  <2> QED
    BY <2>1, <2>2
<1>8. ASSUME NEW x \in 1..(d + 1) PROVE u[k + x - 1] = t[i + x - 1]
  <2>1. x - 1 \in 0..d /\ k + (x - 1) = k + x - 1 /\ i + (x - 1) = i + x - 1
    BY <1>1, <1>d
  <2> QED
    BY <1>2, <2>1
<1>9. WordAt(u, k) = WordAt(t, i)
  <2> QED
    BY <1>6, <1>7, <1>8, SeqEqual
<1> QED
  BY <1>9 DEF i

LEMMA SameWords ==
    ASSUME NEW t \in Seq(Lexeme), NEW u \in Seq(Lexeme), NEW K, PartOf(u, t, K)
    PROVE  Fields(u) = Fields(t)
<1> DEFINE f == [k \in Starts(u) |-> Nth(K, k)]
<1>1. /\ Places(K) /\ Cardinality(K) = Len(u)
      /\ Places(Starts(u)) /\ Places(Starts(t)) /\ Starts(u) \subseteq 1..Len(u)
      /\ Cardinality(Starts(u)) \in Nat
  BY PartPlaces, StartsPlaces
<1>2. f \in [Starts(u) -> Starts(t)]
  BY PartStarts
<1>3. \A x, y \in Starts(u) : x < y => f[x] < f[y]
  BY <1>1, NthOrder
<1>4. \A z \in Starts(t) : \E x \in Starts(u) : f[x] = z
  BY PartStarts
<1>5. /\ Cardinality(Starts(t)) = Cardinality(Starts(u))
      /\ \A k \in 1..Cardinality(Starts(u)) : Nth(Starts(t), k) = f[Nth(Starts(u), k)]
  <2> HIDE DEF f
  <2> QED
    BY <1>1, <1>2, <1>3, <1>4, NthMapped
<1>6. /\ Fields(u) \in Seq(Seq(Lexeme)) /\ Fields(t) \in Seq(Seq(Lexeme))
      /\ Len(Fields(u)) = Cardinality(Starts(u)) /\ Len(Fields(t)) = Len(Fields(u))
  BY <1>5, FieldsAre
<1>7. ASSUME NEW n \in 1..Len(Fields(u)) PROVE Fields(u)[n] = Fields(t)[n]
  <2> DEFINE k == Nth(Starts(u), n)
  <2>1. k \in Starts(u) /\ Fields(u)[n] = WordAt(u, k)
    BY <1>6, FieldsAre
  <2>2. Fields(t)[n] = WordAt(t, Nth(K, k))
    <3>1. Nth(Starts(t), n) = Nth(K, k)
      BY <1>5, <1>6, <2>1
    <3> QED
      BY <1>6, <3>1, FieldsAre
  <2> HIDE DEF k
  <2> QED
    BY <2>1, <2>2, PartWord
<1> QED
  BY <1>6, <1>7, SeqEqual

\* TrimSpace and Squeeze leave the words as they are.
LEMMA TrimWords ==
    ASSUME NEW t \in Seq(Lexeme)
    PROVE  Fields(TrimSpace(t)) = Fields(t)
<1> DEFINE K == {i \in DOMAIN t : Earlier(t, i) /\ Later(t, i)}
           u == TrimSpace(t)
<1>1. DOMAIN t = 1..Len(t) /\ Len(t) \in Nat /\ K \subseteq 1..Len(t)
  OBVIOUS
<1>2. /\ u \in Seq(Lexeme) /\ Len(u) = Cardinality(K)
      /\ \A k \in 1..Len(u) : u[k] = t[Nth(K, k)]
  BY <1>1, OnlyType DEF TrimSpace
<1>3. \A i \in 1..Len(t) : t[i] \notin Blank => i \in K
  BY <1>1 DEF Earlier, Later
<1>4. \A i, j \in 1..Len(t) : i < j /\ t[i] \notin Blank /\ t[j] \notin Blank => i + 1 \in K
  BY <1>1 DEF Earlier, Later
<1> HIDE DEF K, u
<1>5. PartOf(u, t, K)
  BY <1>1, <1>2, <1>3, <1>4 DEF PartOf
<1> QED
  BY <1>2, <1>5, SameWords DEF u

LEMMA SqueezePart ==
    ASSUME NEW t \in Seq(Lexeme)
    PROVE  /\ PartOf(Squeeze(t), t, SqueezeKept(t))
           /\ \A k \in 1..Len(Squeeze(t)) : Squeeze(t)[k] \in Blank => Squeeze(t)[k] = " "
<1> DEFINE K == SqueezeKept(t)
           v == SqueezeFrom(t)
           u == Squeeze(t)
<1>1. DOMAIN t = 1..Len(t) /\ Len(t) \in Nat /\ K \subseteq 1..Len(t) /\ v \in Seq(Lexeme)
      /\ Len(v) = Len(t) /\ K \subseteq DOMAIN v /\ u = Only(v, K)
  <2>1. u = Only(v, K) /\ v \in Seq(Lexeme) /\ Len(v) = Len(t) /\ K \subseteq DOMAIN t
    BY SqueezeType
  <2> HIDE DEF K, v, u
  <2> QED
    BY <2>1
<1>2. /\ u \in Seq(Lexeme) /\ Len(u) = Cardinality(K)
      /\ \A k \in 1..Len(u) : u[k] = v[Nth(K, k)] /\ Nth(K, k) \in 1..Len(t)
  <2> HIDE DEF K, v, u
  <2> QED
    BY <1>1, OnlyType
<1>3. \A i \in 1..Len(t) : IF t[i] \in Blank THEN v[i] \in Blank ELSE v[i] = t[i]
  BY <1>1, BlankAround DEF SqueezeFrom
<1>4. \A i \in 1..Len(t) : t[i] \notin Blank => i \in K
  BY <1>1 DEF SqueezeKept
<1>5. ASSUME NEW i \in 1..Len(t), NEW j \in 1..Len(t),
             i < j, t[i] \notin Blank, t[j] \notin Blank, t[i + 1] \in Blank
      PROVE  i + 1 \in K
  <2>1. i + 1 \in 1..Len(t) /\ i + 1 > 1 /\ (i + 1) - 1 = i /\ i + 1 <= j
    BY <1>1, <1>5
  <2>2. Later(t, i + 1)
    BY <1>1, <1>5, <2>1 DEF Later
  <2> QED
    BY <1>1, <1>5, <2>1, <2>2 DEF SqueezeKept
<1>6. \A i \in 1..Len(t) : v[i] \in Blank => v[i] = " "
  BY <1>1 DEF SqueezeFrom
<1> HIDE DEF K, v, u
<1>7. PartOf(u, t, K)
  BY <1>1, <1>2, <1>3, <1>4, <1>5 DEF PartOf
<1> QED
  BY <1>2, <1>6, <1>7 DEF u, K

LEMMA SqueezeWords ==
    ASSUME NEW t \in Seq(Lexeme)
    PROVE  Fields(Squeeze(t)) = Fields(t)
BY SqueezeType, SqueezePart, SameWords

-----------------------------------------------------------------------------
(***************************************************************************)
(* Connectives in upper case.                                              *)
(***************************************************************************)
\* The words of a text, and of another one that differs in connectives only.
Raised(low, up, v, w) ==
    /\ Len(v) = Len(w)
    /\ \A n \in 1..Len(v) : v[n] = w[n] \/ (v[n] = <<low>> /\ w[n] = <<up>>)

LEMMA ReplacedBetween ==
    ASSUME NEW low, NEW t \in Seq(Lexeme), NEW i \in Int, Replaced(low, t, i)
    PROVE  Between(low, t, i)
<1>1. PICK n \in 0..Len(t) : \A k \in 0..(2 * n) : Between(low, t, i - 2 * k)
  BY DEF Replaced
<1>2. 0 \in 0..(2 * n) /\ i - 2 * 0 = i
  OBVIOUS
<1> QED
  BY <1>1, <1>2

LEMMA UpperWords ==
    ASSUME NEW t \in Seq(Lexeme), NEW low, NEW up \in Lexeme,
           low \notin Blank, up \notin Blank
    PROVE  Raised(low, up, Fields(t), Fields(Uppercase(low, up, t)))
<1> DEFINE u == Uppercase(low, up, t)
<1>1. /\ u \in Seq(Lexeme) /\ Len(u) = Len(t) /\ DOMAIN u = 1..Len(u) /\ DOMAIN t = 1..Len(t)
      /\ Len(t) \in Nat
      /\ \A i \in 1..Len(t) :
            u[i] = IF t[i] = low /\ Replaced(low, t, i - 1) THEN up ELSE t[i]
  BY UppercaseType
<1> HIDE DEF u
<1>2. \A i \in 1..Len(t) : u[i] \in Blank <=> t[i] \in Blank
  BY <1>1
<1>3. Starts(u) = Starts(t)
  <2>1. \A i \in 1..Len(t) : i > 1 => i - 1 \in 1..Len(t)
    BY <1>1
  <2> QED
    BY <1>1, <1>2, <2>1 DEF Starts
<1>4. ASSUME NEW i \in Starts(t) PROVE WordEnd(u, i) = WordEnd(t, i)
  <2>1. EndsAt(t, i, WordEnd(t, i)) /\ i \in 1..Len(t)
    BY <1>1, WordEnds DEF Starts
  <2> DEFINE e == WordEnd(t, i)
  <2> HIDE DEF e
  <2>2. e \in i..Len(t) /\ \A k \in i..e : k \in 1..Len(t) /\ t[k] \notin Blank
    BY <2>1, <1>1 DEF EndsAt, e
  <2>3. e < Len(t) => e + 1 \in 1..Len(t) /\ t[e + 1] \in Blank
    BY <2>1, <2>2, <1>1 DEF EndsAt, e
  <2>4. EndsAt(u, i, e)
    BY <1>1, <1>2, <2>2, <2>3 DEF EndsAt
  <2>5. e = WordEnd(u, i)
    BY <1>1, <1>3, <2>4, WordEnds
  <2> QED
    BY <2>5 DEF e
<1>5. ASSUME NEW i \in Starts(t)
      PROVE  \/ WordAt(t, i) = WordAt(u, i)
             \/ WordAt(t, i) = <<low>> /\ WordAt(u, i) = <<up>>
  <2> DEFINE e == WordEnd(t, i)
  <2>1. EndsAt(t, i, e) /\ i \in 1..Len(t)
    BY <1>1, WordEnds DEF Starts
  <2>2. /\ WordAt(t, i) \in Seq(Lexeme) /\ Len(WordAt(t, i)) = e - i + 1
        /\ \A k \in 1..Len(WordAt(t, i)) :
              i + k - 1 \in 1..Len(t) /\ WordAt(t, i)[k] = t[i + k - 1]
    BY WordAtType
  <2>3. /\ WordAt(u, i) \in Seq(Lexeme) /\ Len(WordAt(u, i)) = e - i + 1
        /\ \A k \in 1..Len(WordAt(u, i)) : WordAt(u, i)[k] = u[i + k - 1]
    BY <1>1, <1>3, <1>4, WordAtType
  <2> HIDE DEF e
  <2>4. e \in i..Len(t) /\ \A k \in i..e : t[k] \notin Blank
    BY <2>1 DEF EndsAt
  <2>5. CASE \A k \in 1..(e - i + 1) : u[i + k - 1] = t[i + k - 1]
    <3>1. \A k \in 1..(e - i + 1) : WordAt(t, i)[k] = WordAt(u, i)[k]
      BY <2>2, <2>3, <2>5
    <3> QED
      BY <2>2, <2>3, <3>1, SeqEqual
  <2>6. ASSUME NEW k \in 1..(e - i + 1), u[i + k - 1] # t[i + k - 1]
        PROVE  WordAt(t, i) = <<low>> /\ WordAt(u, i) = <<up>>
    <3> DEFINE p == i + k - 1
    <3>1. p \in i..e /\ p \in 1..Len(t)
      BY <1>1, <2>1, <2>4
    <3>2. t[p] = low /\ Replaced(low, t, p - 1) /\ u[p] = up
      BY <1>1, <2>6, <3>1
    <3> HIDE DEF p
    <3>3. Between(low, t, p - 1)
      BY <1>1, <3>1, <3>2, ReplacedBetween
    <3>4. p > 1 /\ p < Len(t) /\ t[p - 1] \in Blank /\ t[p + 1] \in Blank
      <4>1. p \in Int /\ Len(t) \in Int
        BY <1>1, <3>1
      <4>2. p - 1 >= 1 /\ (p - 1) + 2 <= Len(t) /\ t[p - 1] = " " /\ t[(p - 1) + 2] = " "
        BY <3>3 DEF Between
      <4>3. (p - 1) + 2 = p + 1
        BY <4>1
      <4>4. t[p + 1] = " "
        BY <4>2, <4>3
      <4>5. p > 1 /\ p < Len(t)
        <5>1. p - 1 >= 1 /\ (p - 1) + 2 <= Len(t)
          BY <4>2
        <5> QED
          BY <4>1, <5>1
      <4> QED
        BY <4>2, <4>4, <4>5, BlankAround
    <3>5. p = i
      <4>1. p # i => p - 1 \in i..e
        BY <1>1, <2>1, <2>4, <3>1
      <4> QED
        BY <2>4, <3>4, <4>1
    <3>6. p = e
      <4>1. p # e => p + 1 \in i..e
        BY <1>1, <2>1, <2>4, <3>1
      <4> QED
        BY <2>4, <3>4, <4>1
    <3>7. Len(WordAt(t, i)) = 1 /\ Len(WordAt(u, i)) = 1
      BY <2>1, <2>2, <2>3, <3>5, <3>6
    <3>8. WordAt(t, i) = <<t[i]>>
      BY <3>7, OneLexeme
    <3>9. WordAt(u, i) = <<u[i]>>
      BY <1>1, <1>3, <3>7, OneLexeme
    <3> QED
      BY <3>2, <3>5, <3>8, <3>9
  <2> QED
    BY <2>5, <2>6
<1>6. ASSUME NEW n \in 1..Len(Fields(t))
      PROVE  \/ Fields(t)[n] = Fields(u)[n]
             \/ Fields(t)[n] = <<low>> /\ Fields(u)[n] = <<up>>
  <2> DEFINE i == Nth(Starts(t), n)
  <2>1. i \in Starts(t) /\ Fields(t)[n] = WordAt(t, i)
    BY FieldsAre
  <2>2. Fields(u)[n] = WordAt(u, i)
    BY <1>1, <1>3, FieldsAre
  <2> HIDE DEF i
  <2> QED
    BY <1>5, <2>1, <2>2
<1>7. Len(Fields(u)) = Len(Fields(t))
  BY <1>1, <1>3, FieldsAre
<1> QED
  BY <1>6, <1>7 DEF Raised, u

-----------------------------------------------------------------------------
(***************************************************************************)
(* The normal form of a text without parentheses.                          *)
(***************************************************************************)
Clean(t) == \A i \in 1..Len(t) : t[i] \notin {"(", ")"}

LEMMA CleanIs ==
    ASSUME NEW t \in Seq(Lexeme)
    PROVE  Clean(t) <=> WithoutParentheses(t) = t
<1> DEFINE S == {i \in DOMAIN t : t[i] \notin {"(", ")"}}
<1>1. DOMAIN t = 1..Len(t) /\ S \subseteq DOMAIN t
  OBVIOUS
<1>2. WithoutParentheses(t) = Only(t, S)
  BY DEF WithoutParentheses
<1>3. ASSUME Clean(t) PROVE Only(t, S) = t
  <2>1. S = DOMAIN t
    BY <1>1, <1>3 DEF Clean
  <2> QED
    BY <2>1, OnlyAll
<1>4. ASSUME Only(t, S) = t PROVE Clean(t)
  <2>1. \A x \in S : t[x] \notin {"(", ")"}
    OBVIOUS
  <2> HIDE DEF S
  <2>2. /\ Len(Only(t, S)) = Cardinality(S)
        /\ \A k \in 1..Cardinality(S) : Only(t, S)[k] = t[Nth(S, k)] /\ Nth(S, k) \in S
    BY <1>1, OnlyType
  <2> QED
    BY <1>4, <2>1, <2>2 DEF Clean
<1> QED
  BY <1>2, <1>3, <1>4

LEMMA CleanKept ==
    ASSUME NEW t \in Seq(Lexeme), Clean(t)
    PROVE  Clean(TrimSpace(t)) /\ Clean(Squeeze(t))
<1>1. \A S : S \subseteq DOMAIN t => Clean(Only(t, S))
  <2>1. ASSUME NEW S, S \subseteq DOMAIN t PROVE Clean(Only(t, S))
    <3>1. /\ Len(Only(t, S)) = Cardinality(S)
          /\ \A k \in 1..Cardinality(S) :
                Only(t, S)[k] = t[Nth(S, k)] /\ Nth(S, k) \in 1..Len(t)
      BY <2>1, OnlyType
    <3> QED
      BY <3>1 DEF Clean
  <2> QED
    BY <2>1
<1>2. Clean(TrimSpace(t))
  <2>1. {i \in DOMAIN t : Earlier(t, i) /\ Later(t, i)} \subseteq DOMAIN t
    OBVIOUS
  <2> QED
    BY <1>1, <2>1 DEF TrimSpace
<1>3. Clean(Squeeze(t))
  <2> DEFINE v == SqueezeFrom(t)
             K == SqueezeKept(t)
  <2>1. Squeeze(t) = Only(v, K) /\ v \in Seq(Lexeme) /\ Len(v) = Len(t) /\ K \subseteq DOMAIN t
    BY SqueezeType
  <2>2. \A i \in 1..Len(t) : v[i] \notin {"(", ")"}
    <3>1. \A i \in 1..Len(t) : v[i] = " " \/ v[i] = t[i]
      <4>1. DOMAIN t = 1..Len(t)
        OBVIOUS
      <4> QED
        BY <4>1 DEF SqueezeFrom
    <3>2. " " \notin {"(", ")"}
      OBVIOUS
    <3> HIDE DEF v
    <3> QED
      BY <3>1, <3>2 DEF Clean
  <2> HIDE DEF v, K
  <2>3. K \subseteq DOMAIN v
    BY <2>1
  <2>4. /\ Len(Only(v, K)) = Cardinality(K)
        /\ \A k \in 1..Cardinality(K) :
              Only(v, K)[k] = v[Nth(K, k)] /\ Nth(K, k) \in 1..Len(v)
    BY <2>1, <2>3, OnlyType
  <2> QED
    BY <2>1, <2>2, <2>4 DEF Clean
<1> QED
  BY <1>2, <1>3

Ands(t) == Uppercase("and", "AND", t)
Ors(t)  == Uppercase("or", "OR", t)

LEMMA Connectives ==
    /\ "AND" \in Lexeme /\ "OR" \in Lexeme /\ " " \in Lexeme
    /\ "and" \notin Blank /\ "AND" \notin Blank /\ "or" \notin Blank /\ "OR" \notin Blank
    /\ "AND" \notin {"(", ")"} /\ "OR" \notin {"(", ")"}
BY LexemeAssumption DEF Blank

LEMMA CaseType ==
    ASSUME NEW t \in Seq(Lexeme)
    PROVE  /\ Ands(t) \in Seq(Lexeme) /\ Len(Ands(t)) = Len(t)
           /\ \A i \in 1..Len(t) : Ands(t)[i] =
                 IF t[i] = "and" /\ Replaced("and", t, i - 1) THEN "AND" ELSE t[i]
           /\ Ors(t) \in Seq(Lexeme) /\ Len(Ors(t)) = Len(t)
           /\ \A i \in 1..Len(t) : Ors(t)[i] =
                 IF t[i] = "or" /\ Replaced("or", t, i - 1) THEN "OR" ELSE t[i]
BY Connectives, UppercaseType DEF Ands, Ors

LEMMA CaseClean ==
    ASSUME NEW t \in Seq(Lexeme), Clean(t)
    PROVE  Clean(Ands(t)) /\ Clean(Ors(t))
BY CaseType, Connectives DEF Clean

\* The normal form of such a text, step by step.
LEMMA CleanNormal ==
    ASSUME NEW t \in Seq(Lexeme), Clean(t)
    PROVE  /\ normalizeExpression(t) = Squeeze(Ors(Ands(TrimSpace(t))))
           /\ Clean(normalizeExpression(t))
<1>1. TrimSpace(t) \in Seq(Lexeme) /\ Clean(TrimSpace(t))
  BY NormalType, CleanKept
<1>2. normalizeExpression(t) = Squeeze(Ors(Ands(TrimSpace(t))))
  BY <1>1, CleanIs DEF normalizeExpression, Ands, Ors
<1>3. /\ Ors(Ands(TrimSpace(t))) \in Seq(Lexeme) /\ Clean(Ors(Ands(TrimSpace(t))))
  BY <1>1, CaseType, CaseClean
<1> QED
  BY <1>2, <1>3, CleanKept

\* A word and what it is in the normal form.
Cased(v, w) == \/ v = w
               \/ v = <<"and">> /\ w = <<"AND">>
               \/ v = <<"or">> /\ w = <<"OR">>

LEMMA NormalWords ==
    ASSUME NEW t \in Seq(Lexeme), Clean(t)
    PROVE  /\ Len(Fields(t)) = Len(Fields(normalizeExpression(t)))
           /\ \A n \in 1..Len(Fields(t)) :
                 Cased(Fields(t)[n], Fields(normalizeExpression(t))[n])
<1> DEFINE x == TrimSpace(t)
           a == Ands(x)
           o == Ors(a)
<1>1. x \in Seq(Lexeme) /\ a \in Seq(Lexeme) /\ o \in Seq(Lexeme)
  BY NormalType, CaseType
<1>2. Fields(x) = Fields(t)
  BY TrimWords
<1>3. Raised("and", "AND", Fields(x), Fields(a))
  BY <1>1, Connectives, UpperWords DEF Ands
<1>4. Raised("or", "OR", Fields(a), Fields(o))
  BY <1>1, Connectives, UpperWords DEF Ors
<1>5. Fields(normalizeExpression(t)) = Fields(o)
  BY <1>1, CleanNormal, SqueezeWords
<1> HIDE DEF x, a, o
<1>6. <<"AND">> # <<"or">>
  <2>1. <<"AND">>[1] = "AND" /\ <<"or">>[1] = "or"
    OBVIOUS
  <2> QED
    BY <2>1
<1>7. /\ Len(Fields(t)) = Len(Fields(a)) /\ Len(Fields(a)) = Len(Fields(o))
      /\ \A n \in 1..Len(Fields(t)) : /\ \/ Fields(t)[n] = Fields(a)[n]
                                         \/ Fields(t)[n] = <<"and">> /\ Fields(a)[n] = <<"AND">>
                                      /\ \/ Fields(a)[n] = Fields(o)[n]
                                         \/ Fields(a)[n] = <<"or">> /\ Fields(o)[n] = <<"OR">>
  BY <1>2, <1>3, <1>4 DEF Raised
<1>8. ASSUME NEW n \in 1..Len(Fields(t)) PROVE Cased(Fields(t)[n], Fields(o)[n])
  BY <1>6, <1>7 DEF Cased
<1> QED
  BY <1>5, <1>7, <1>8

\* Connectives are neither fields nor operators.
LEMMA CasedKinds ==
    ASSUME NEW v, NEW w, Cased(v, w)
    PROVE  /\ v \in NumberField <=> w \in NumberField
           /\ v \in StringField <=> w \in StringField
           /\ v \in NumberOperator <=> w \in NumberOperator
           /\ v \in StringOperator <=> w \in StringOperator
<1>1. CASE v = w
  BY <1>1
<1>2. ASSUME NEW l \in {"and", "AND", "or", "OR"}
      PROVE  <<l>> \notin NumberField \cup StringField \cup NumberOperator \cup StringOperator
  <2>1. <<l>>[1] = l
    OBVIOUS
  <2>2. \A m \in {"amount", "currency", "country", "=", "<", ">", "!"} :
           /\ l # m /\ <<m>>[1] = m /\ <<m, "=">>[1] = m
    BY <1>2
  <2>3. \A m \in {"amount", "currency", "country", "=", "<", ">", "!"} :
           <<l>> # <<m>> /\ <<l>> # <<m, "=">>
    BY <2>1, <2>2
  <2> QED
    BY <2>3 DEF NumberField, StringField, NumberOperator, StringOperator
<1>3. ASSUME v # w
      PROVE  \E l, m \in {"and", "AND", "or", "OR"} : v = <<l>> /\ w = <<m>>
  BY <1>3 DEF Cased
<1> QED
  BY <1>1, <1>2, <1>3

LEMMA CleanValid ==
    ASSUME NEW t \in Seq(Lexeme), Clean(t)
    PROVE  Validate(t) = {} <=> NothingWrong(Fields(t))
<1>1. ~Occurs(<<"(", ")">>, t)
  <2>1. ASSUME NEW i \in 1..Len(t), i + Len(<<"(", ")">>) - 1 <= Len(t),
               SubSeq(t, i, i + Len(<<"(", ")">>) - 1) = <<"(", ")">>
        PROVE  FALSE
    <3>1. Len(<<"(", ")">>) = 2 /\ <<"(", ")">>[1] = "("
      OBVIOUS
    <3>2. i + 1 <= Len(t) /\ SubSeq(t, i, i + 1) = <<"(", ")">>
      BY <2>1, <3>1
    <3>3. SubSeq(t, i, i + 1)[1] = t[i]
      BY <3>2
    <3> QED
      BY <3>1, <3>2, <3>3 DEF Clean
  <2> QED
    BY <2>1 DEF Occurs
<1>2. \A l \in {"(", ")"} : Occurrences(l, t) = 0
  <2>1. \A l \in {"(", ")"} : {i \in DOMAIN t : t[i] = l} = {}
    BY DEF Clean
  <2> QED
    BY <2>1, FS_EmptySet DEF Occurrences
<1> QED
  BY <1>1, <1>2, NoErrors

LEMMA FormInv == ASSUME IndInv PROVE NormalFormSays
<1> DEFINE t == Text
           n == normalizedExpression
           Low(w) == IF w = <<"AND">> THEN <<"and">>
                     ELSE IF w = <<"OR">> THEN <<"or">> ELSE w
           Same(v, w) == Len(v) = Len(w) /\ \A i \in DOMAIN v : Low(v[i]) = Low(w[i])
<1> SUFFICES ASSUME Checked, t = WithoutParentheses(t)
             PROVE  (isValid <=> Validate(n) = {}) /\ Same(Fields(t), Fields(n))
  BY DEF NormalFormSays
<1>1. t \in Seq(Lexeme) /\ n = normalizeExpression(t) /\ n \in Seq(Lexeme)
      /\ (isValid <=> Validate(t) = {})
  BY CheckedIs, NormalType
<1>2. Clean(t) /\ Clean(n)
  BY <1>1, CleanIs, CleanNormal
<1> HIDE DEF t, n
<1>3. /\ Len(Fields(t)) = Len(Fields(n)) /\ Len(Fields(t)) \in Nat
      /\ DOMAIN Fields(t) = 1..Len(Fields(t))
      /\ \A k \in 1..Len(Fields(t)) : Cased(Fields(t)[k], Fields(n)[k])
  <2>1. Fields(t) \in Seq(Seq(Lexeme))
    BY <1>1, FieldsAre
  <2>2. /\ Len(Fields(t)) = Len(Fields(n))
        /\ \A k \in 1..Len(Fields(t)) : Cased(Fields(t)[k], Fields(n)[k])
    BY <1>1, <1>2, NormalWords
  <2> QED
    BY <2>1, <2>2
<1>4. \A k \in 1..(Len(Fields(t)) - 1) : Wrong(Fields(t), k) <=> Wrong(Fields(n), k)
  <2>1. ASSUME NEW k \in 1..(Len(Fields(t)) - 1)
        PROVE  Wrong(Fields(t), k) <=> Wrong(Fields(n), k)
    <3>1. Cased(Fields(t)[k], Fields(n)[k]) /\ Cased(Fields(t)[k + 1], Fields(n)[k + 1])
      BY <1>3
    <3> QED
      BY <3>1, CasedKinds DEF Wrong, MayFollow
  <2> QED
    BY <2>1
<1>5. Validate(t) = {} <=> Validate(n) = {}
  BY <1>1, <1>2, <1>3, <1>4, CleanValid DEF NothingWrong
<1>6. \A v, w : Cased(v, w) => Low(v) = Low(w)
  <2>1. <<"and">> # <<"AND">> /\ <<"and">> # <<"OR">> /\ <<"or">> # <<"AND">> /\ <<"or">> # <<"OR">>
        /\ <<"AND">> # <<"OR">>
    <3>1. \A l, m : l # m => <<l>> # <<m>>
      <4>1. \A l : <<l>>[1] = l
        OBVIOUS
      <4> QED
        BY <4>1
    <3>2. "and" # "AND" /\ "and" # "OR" /\ "or" # "AND" /\ "or" # "OR" /\ "AND" # "OR"
      OBVIOUS
    <3> QED
      BY <3>1, <3>2
  <2> QED
    BY <2>1 DEF Cased
<1> HIDE DEF Low
<1>7. Same(Fields(t), Fields(n))
  BY <1>3, <1>6
<1> QED
  BY <1>1, <1>5, <1>7

\* A text without parentheses is as valid as its normal form, and has the same
\* words, but for the case of the connectives (normalizeExpression).
THEOREM NormalFormTrue == Spec => []NormalFormSays
<1>1. IndInv => NormalFormSays
  BY FormInv
<1> QED
  BY <1>1, ValidatorConsistent, PTL

-----------------------------------------------------------------------------
(***************************************************************************)
(* The rounds of the normal form.                                          *)
(***************************************************************************)
LEMMA BetweenPlaces ==
    ASSUME NEW low, NEW t \in Seq(Lexeme), NEW i \in Int, Between(low, t, i)
    PROVE  /\ i \in 1..Len(t) /\ i + 1 \in 1..Len(t) /\ i + 2 \in 1..Len(t)
           /\ t[i] = " " /\ t[i + 1] = low /\ t[i + 2] = " "
<1>1. i >= 1 /\ i + 2 <= Len(t)
  BY DEF Between
<1>2. t[i] = " " /\ t[i + 1] = low /\ t[i + 2] = " "
  BY DEF Between
<1>3. Len(t) \in Nat
  OBVIOUS
<1>4. i \in 1..Len(t) /\ i + 1 \in 1..Len(t) /\ i + 2 \in 1..Len(t)
  BY <1>1, <1>3
<1> QED
  BY <1>2, <1>4

\* Two that share a space.
LEMMA BetweenTwice ==
    ASSUME NEW low, NEW t \in Seq(Lexeme), NEW b \in 1..Len(t),
           Between(low, t, b), Between(low, t, b + 2)
    PROVE  /\ b + 1 \in 1..Len(t) /\ b + 2 \in 1..Len(t) /\ b + 3 \in 1..Len(t)
           /\ b + 4 \in 1..Len(t)
           /\ t[b + 1] = low /\ t[b + 2] = " " /\ t[b + 3] = low /\ t[b + 4] = " "
<1>1. /\ b \in Int /\ b + 2 \in Int /\ (b + 2) + 1 = b + 3 /\ (b + 2) + 2 = b + 4
  OBVIOUS
<1>2. /\ b + 1 \in 1..Len(t) /\ b + 2 \in 1..Len(t) /\ t[b + 1] = low /\ t[b + 2] = " "
  BY <1>1, BetweenPlaces
<1>3. /\ (b + 2) + 1 \in 1..Len(t) /\ (b + 2) + 2 \in 1..Len(t)
      /\ t[(b + 2) + 1] = low /\ t[(b + 2) + 2] = " "
  BY <1>1, BetweenPlaces
<1> QED
  BY <1>1, <1>2, <1>3

\* A connective that is between its spaces and is not replaced shares the
\* first of them with one that is.
LEMMA Parity ==
    ASSUME NEW low, NEW t \in Seq(Lexeme), NEW i \in Int, Between(low, t, i),
           ~Replaced(low, t, i)
    PROVE  Between(low, t, i - 2) /\ Replaced(low, t, i - 2)
<1> DEFINE S == {m \in Nat : ~Between(low, t, i - 2 * m)}
<1>1. i \in Nat /\ i >= 1 /\ i <= Len(t) /\ Len(t) \in Nat
  <2>1. i \in 1..Len(t)
    BY BetweenPlaces
  <2> QED
    BY <2>1
<1>2. i \in S
  <2>1. ~(i - 2 * i >= 1)
    BY <1>1
  <2> QED
    BY <1>1, <2>1 DEF Between
<1>3. PICK m \in S : \A x \in S : m <= x
  <2>1. S \in SUBSET Nat /\ S # {}
    BY <1>2
  <2> HIDE DEF S
  <2> QED
    BY <2>1, LeastElement
<1>4. m \in Nat /\ ~Between(low, t, i - 2 * m)
  BY <1>3
<1>5. ASSUME NEW x \in Nat, x < m PROVE Between(low, t, i - 2 * x)
  <2>1. ~(m <= x)
    BY <1>4, <1>5
  <2>2. x \notin S
    <3> HIDE DEF S
    <3> QED
      BY <1>3, <2>1
  <2> QED
    BY <1>5, <2>2
<1>6. m <= i
  BY <1>2, <1>3
<1> HIDE DEF S
<1>7. m # 0
  <2>1. i - 2 * 0 = i
    BY <1>1
  <2> QED
    BY <1>4, <2>1
<1>8. \A n \in Nat : m # 2 * n + 1
  <2>1. ASSUME NEW n \in Nat, m = 2 * n + 1 PROVE FALSE
    <3>1. n \in 0..Len(t)
      BY <1>1, <1>6, <2>1
    <3>2. \A k \in 0..(2 * n) : Between(low, t, i - 2 * k)
      <4>1. \A k \in 0..(2 * n) : k \in Nat /\ k < m
        BY <2>1
      <4> QED
        BY <1>5, <4>1
    <3>3. ~Between(low, t, i - 2 * (2 * n + 1))
      BY <1>4, <2>1
    <3> QED
      BY <3>1, <3>2, <3>3 DEF Replaced
  <2> QED
    BY <2>1
<1>9. PICK n \in Nat : m = 2 * n + 2
  <2>1. m \div 2 \in Nat /\ (m = 2 * (m \div 2) \/ m = 2 * (m \div 2) + 1)
    BY <1>4
  <2>2. m = 2 * (m \div 2)
    BY <1>8, <2>1
  <2>3. m \div 2 - 1 \in Nat /\ m = 2 * (m \div 2 - 1) + 2
    BY <1>4, <1>7, <2>1, <2>2
  <2> QED
    BY <2>3
<1>10. Between(low, t, i - 2)
  <2>1. 1 \in Nat /\ 1 < m /\ i - 2 * 1 = i - 2
    BY <1>1, <1>9
  <2>2. Between(low, t, i - 2 * 1)
    BY <1>5, <2>1
  <2> QED
    BY <2>1, <2>2
<1>11. Replaced(low, t, i - 2)
  <2>1. n \in 0..Len(t)
    BY <1>1, <1>6, <1>9
  <2>2. ASSUME NEW k \in 0..(2 * n) PROVE Between(low, t, (i - 2) - 2 * k)
    <3>1. k + 1 \in Nat /\ k + 1 < m /\ i - 2 * (k + 1) = (i - 2) - 2 * k
      BY <1>1, <1>9
    <3>2. Between(low, t, i - 2 * (k + 1))
      BY <1>5, <3>1
    <3> QED
      BY <3>1, <3>2
  <2>3. ~Between(low, t, (i - 2) - 2 * (2 * n + 1))
    <3>1. (i - 2) - 2 * (2 * n + 1) = i - 2 * m
      BY <1>1, <1>9
    <3> QED
      BY <1>4, <3>1
  <2> QED
    BY <2>1, <2>2, <2>3 DEF Replaced
<1> QED
  BY <1>10, <1>11

\* A connective, its upper case, and the other connective.
Apart3(low, up, other) ==
    /\ up \in Lexeme /\ low \notin Blank /\ up \notin Blank /\ other \notin Blank
    /\ low # up /\ other # low /\ other # up

LEMMA Both == Apart3("and", "AND", "or") /\ Apart3("or", "OR", "and")
BY Connectives DEF Apart3

None(low, t)       == \A i \in 1..Len(t) : ~Between(low, t, i)
Separate(low, t)   == \A i \in 1..Len(t) : ~(Between(low, t, i) /\ Between(low, t, i + 2))
Behind(low, up, t) == \A i \in 1..Len(t) : Between(low, t, i) => i > 1 /\ t[i - 1] = up

\* What stands between spaces after Uppercase.
LEMMA BetweenUpper ==
    ASSUME NEW t \in Seq(Lexeme), NEW low, NEW up, NEW other, Apart3(low, up, other),
           NEW i \in 1..Len(t)
    PROVE  LET u == Uppercase(low, up, t) IN
           /\ Between(low, u, i) <=> Between(low, t, i) /\ ~Replaced(low, t, i)
           /\ Between(other, u, i) <=> Between(other, t, i)
<1> DEFINE u == Uppercase(low, up, t)
<1>1. /\ u \in Seq(Lexeme) /\ Len(u) = Len(t) /\ Len(t) \in Nat
      /\ \A k \in 1..Len(t) :
            u[k] = IF t[k] = low /\ Replaced(low, t, k - 1) THEN up ELSE t[k]
  BY UppercaseType DEF Apart3
<1>2. low # " " /\ up # " " /\ low # up /\ other # low /\ other # up
  BY BlankAround DEF Apart3
<1> HIDE DEF u
<1>3. \A k \in 1..Len(t) : /\ u[k] = " " <=> t[k] = " "
                           /\ u[k] = low <=> t[k] = low /\ ~Replaced(low, t, k - 1)
                           /\ u[k] = other <=> t[k] = other
  BY <1>1, <1>2
<1>4. i + 1 - 1 = i /\ i \in Nat
  OBVIOUS
<1>5. CASE i + 2 <= Len(t)
  <2>1. i + 1 \in 1..Len(t) /\ i + 2 \in 1..Len(t)
    BY <1>1, <1>5
  <2>2. /\ u[i] = " " <=> t[i] = " "
        /\ u[i + 2] = " " <=> t[i + 2] = " "
        /\ u[i + 1] = low <=> t[i + 1] = low /\ ~Replaced(low, t, i)
        /\ u[i + 1] = other <=> t[i + 1] = other
    <3>1. u[i + 1] = low <=> t[i + 1] = low /\ ~Replaced(low, t, (i + 1) - 1)
      BY <1>3, <2>1
    <3>2. u[i + 1] = low <=> t[i + 1] = low /\ ~Replaced(low, t, i)
      <4>1. Replaced(low, t, (i + 1) - 1) = Replaced(low, t, i)
        BY <1>4
      <4> QED
        BY <3>1, <4>1, Zenon
    <3> QED
      BY <1>3, <2>1, <3>2
  <2> QED
    BY <1>1, <2>2 DEF Between, u
<1>6. CASE ~(i + 2 <= Len(t))
  BY <1>1, <1>6 DEF Between, u
<1> QED
  BY <1>5, <1>6

LEMMA UpperBehind ==
    ASSUME NEW t \in Seq(Lexeme), NEW low, NEW up, NEW other, Apart3(low, up, other)
    PROVE  Behind(low, up, Uppercase(low, up, t))
<1> DEFINE u == Uppercase(low, up, t)
<1>1. /\ u \in Seq(Lexeme) /\ Len(u) = Len(t) /\ Len(t) \in Nat
      /\ \A k \in 1..Len(t) :
            u[k] = IF t[k] = low /\ Replaced(low, t, k - 1) THEN up ELSE t[k]
  BY UppercaseType DEF Apart3
<1>2. ASSUME NEW i \in 1..Len(t), Between(low, u, i) PROVE i > 1 /\ u[i - 1] = up
  <2>1. Between(low, t, i) /\ ~Replaced(low, t, i)
    BY <1>2, BetweenUpper
  <2>2. Between(low, t, i - 2) /\ Replaced(low, t, i - 2)
    BY <2>1, Parity
  <2>3. i - 2 >= 1 /\ t[(i - 2) + 1] = low
    BY <2>2 DEF Between
  <2>4. (i - 2) + 1 = i - 1 /\ (i - 1) - 1 = i - 2
    OBVIOUS
  <2>5. i > 1 /\ i - 1 \in 1..Len(t)
    BY <1>1, <2>3
  <2> HIDE DEF u
  <2> QED
    BY <1>1, <2>2, <2>3, <2>4, <2>5
<1> QED
  BY <1>1, <1>2 DEF Behind

\* What Uppercase of one connective leaves of the other.
LEMMA UpperKeeps ==
    ASSUME NEW t \in Seq(Lexeme), NEW low, NEW up, NEW other, Apart3(low, up, other)
    PROVE  LET u == Uppercase(low, up, t) IN
           /\ None(other, t) => None(other, u)
           /\ Separate(other, t) => Separate(other, u)
           /\ \A raised : Behind(other, raised, t) /\ raised # low => Behind(other, raised, u)
<1> DEFINE u == Uppercase(low, up, t)
<1>1. /\ u \in Seq(Lexeme) /\ Len(u) = Len(t) /\ Len(t) \in Nat
      /\ \A k \in 1..Len(t) :
            u[k] = IF t[k] = low /\ Replaced(low, t, k - 1) THEN up ELSE t[k]
  BY UppercaseType DEF Apart3
<1>2. \A i \in 1..Len(t) : Between(other, u, i) <=> Between(other, t, i)
  BY BetweenUpper
<1>3. \A i \in 1..Len(t) : Between(other, u, i + 2) <=> Between(other, t, i + 2)
  <2>1. ASSUME NEW i \in 1..Len(t) PROVE Between(other, u, i + 2) <=> Between(other, t, i + 2)
    <3>1. CASE i + 2 \in 1..Len(t)
      BY <1>2, <3>1
    <3>2. CASE i + 2 \notin 1..Len(t)
      <4>1. ~((i + 2) + 2 <= Len(t))
        BY <1>1, <3>2
      <4> QED
        BY <1>1, <4>1 DEF Between
    <3> QED
      BY <3>1, <3>2
  <2> QED
    BY <2>1
<1> HIDE DEF u
<1>4. ASSUME NEW raised, Behind(other, raised, t), raised # low PROVE Behind(other, raised, u)
  <2>1. ASSUME NEW i \in 1..Len(t), Between(other, u, i) PROVE i > 1 /\ u[i - 1] = raised
    <3>1. i > 1 /\ t[i - 1] = raised
      BY <1>2, <1>4, <2>1 DEF Behind
    <3>2. i - 1 \in 1..Len(t)
      BY <1>1, <3>1
    <3> QED
      BY <1>1, <1>4, <3>1, <3>2
  <2> QED
    BY <1>1, <2>1 DEF Behind
<1> QED
  BY <1>1, <1>2, <1>3, <1>4 DEF None, Separate, u

\* Without overlaps Uppercase replaces every one.
LEMMA SeparateNone ==
    ASSUME NEW t \in Seq(Lexeme), NEW low, NEW up, NEW other, Apart3(low, up, other),
           Separate(low, t)
    PROVE  None(low, Uppercase(low, up, t))
<1>1. ASSUME NEW i \in 1..Len(t), Between(low, t, i) PROVE Replaced(low, t, i)
  <2>1. ~Between(low, t, i - 2)
    <3>1. ASSUME Between(low, t, i - 2) PROVE FALSE
      <4>1. i - 2 \in Int /\ (i - 2) + 2 = i
        OBVIOUS
      <4>2. i - 2 \in 1..Len(t)
        BY <3>1, <4>1, BetweenPlaces
      <4> QED
        BY <1>1, <3>1, <4>1, <4>2 DEF Separate
    <3> QED
      BY <3>1
  <2>2. 0 \in 0..Len(t) /\ i - 2 * (2 * 0 + 1) = i - 2
        /\ \A k \in 0..(2 * 0) : i - 2 * k = i
    OBVIOUS
  <2>3. \A k \in 0..(2 * 0) : Between(low, t, i - 2 * k)
    BY <1>1, <2>2
  <2>4. ~Between(low, t, i - 2 * (2 * 0 + 1))
    BY <2>1, <2>2
  <2> QED
    BY <2>2, <2>3, <2>4 DEF Replaced
<1>2. Len(Uppercase(low, up, t)) = Len(t)
  BY UppercaseType DEF Apart3
<1> QED
  BY <1>1, <1>2, BetweenUpper DEF None

LEMMA NoneSame ==
    ASSUME NEW t \in Seq(Lexeme), NEW low, NEW up \in Lexeme, None(low, t)
    PROVE  Uppercase(low, up, t) = t
<1> DEFINE u == Uppercase(low, up, t)
<1>1. /\ u \in Seq(Lexeme) /\ Len(u) = Len(t) /\ Len(t) \in Nat
      /\ \A k \in 1..Len(t) :
            u[k] = IF t[k] = low /\ Replaced(low, t, k - 1) THEN up ELSE t[k]
  BY UppercaseType
<1>2. ASSUME NEW k \in 1..Len(t) PROVE ~Replaced(low, t, k - 1)
  <2>1. ASSUME Between(low, t, k - 1) PROVE FALSE
    <3>1. k - 1 \in 1..Len(t)
      <4>1. k - 1 \in Int
        OBVIOUS
      <4> QED
        BY <2>1, <4>1, BetweenPlaces
    <3> QED
      BY <2>1, <3>1 DEF None
  <2>2. k - 1 \in Int
    OBVIOUS
  <2> QED
    BY <2>1, <2>2, ReplacedBetween
<1> HIDE DEF u
<1>3. \A k \in 1..Len(t) : u[k] = t[k]
  BY <1>1, <1>2
<1> QED
  BY <1>1, <1>3, SeqEqual DEF u

\* One round is both connectives.
Round(t) == Ors(Ands(t))

LEMMA RoundBehind ==
    ASSUME NEW t \in Seq(Lexeme)
    PROVE  Behind("and", "AND", Round(t)) /\ Behind("or", "OR", Round(t))
<1>1. Ands(t) \in Seq(Lexeme)
  BY CaseType
<1>2. Behind("and", "AND", Ands(t))
  BY Both, UpperBehind DEF Ands
<1>3. Behind("and", "AND", Ors(Ands(t)))
  <2>1. "AND" # "or"
    OBVIOUS
  <2> QED
    BY <1>1, <1>2, <2>1, Both, UpperKeeps DEF Ors
<1>4. Behind("or", "OR", Ors(Ands(t)))
  BY <1>1, Both, UpperBehind DEF Ors
<1> QED
  BY <1>3, <1>4 DEF Round

LEMMA BehindSeparate ==
    ASSUME NEW t \in Seq(Lexeme), NEW low, NEW up, low # up, Behind(low, up, t)
    PROVE  Separate(low, t)
<1>1. ASSUME NEW i \in 1..Len(t), Between(low, t, i), Between(low, t, i + 2) PROVE FALSE
  <2>1. i \in Int /\ i + 2 \in Int /\ (i + 2) - 1 = i + 1
    OBVIOUS
  <2>2. t[i + 1] = low /\ i + 2 \in 1..Len(t)
    BY <1>1, <2>1, BetweenPlaces
  <2>3. t[(i + 2) - 1] = up
    BY <1>1, <2>2 DEF Behind
  <2> QED
    BY <2>1, <2>2, <2>3
<1> QED
  BY <1>1 DEF Separate

LEMMA RoundNone ==
    ASSUME NEW t \in Seq(Lexeme), Separate("and", t), Separate("or", t)
    PROVE  None("and", Round(t)) /\ None("or", Round(t))
<1>1. Ands(t) \in Seq(Lexeme)
  BY CaseType
<1>2. None("and", Ands(t)) /\ Separate("or", Ands(t))
  BY Both, SeparateNone, UpperKeeps DEF Ands
<1>3. None("and", Ors(Ands(t))) /\ None("or", Ors(Ands(t)))
  BY <1>1, <1>2, Both, SeparateNone, UpperKeeps DEF Ors
<1> QED
  BY <1>3 DEF Round

LEMMA RoundSame ==
    ASSUME NEW t \in Seq(Lexeme), None("and", t), None("or", t)
    PROVE  Round(t) = t
BY NoneSame, Connectives DEF Round, Ands, Ors

-----------------------------------------------------------------------------
(***************************************************************************)
(* Normal forms: one space between two words, and nothing else.            *)
(***************************************************************************)
Tight(t) ==
    /\ Clean(t)
    /\ \A i \in 1..Len(t) : t[i] \in Blank =>
          /\ t[i] = " " /\ i > 1 /\ i < Len(t)
          /\ t[i - 1] \notin Blank /\ t[i + 1] \notin Blank

\* A place that Squeeze leaves and the next.
LEMMA KeptNext ==
    ASSUME NEW t \in Seq(Lexeme), NEW k \in 1..Len(Squeeze(t)),
           t[Nth(SqueezeKept(t), k)] \in Blank
    PROVE  LET K == SqueezeKept(t)
               i == Nth(K, k) IN
           /\ k - 1 \in 1..Len(Squeeze(t)) /\ Nth(K, k - 1) = i - 1
           /\ i - 1 \in 1..Len(t) /\ t[i - 1] \notin Blank
           /\ k + 1 \in 1..Len(Squeeze(t)) /\ t[Nth(K, k + 1)] \notin Blank
<1> DEFINE K == SqueezeKept(t)
           u == Squeeze(t)
           i == Nth(K, k)
<1>1. PartOf(u, t, K) /\ u \in Seq(Lexeme)
  BY SqueezePart, SqueezeType
<1>2. \A x \in K : x \in 1..Len(t) /\ (t[x] \in Blank => x > 1 /\ t[x - 1] \notin Blank
                                                          /\ Later(t, x))
  <2>1. DOMAIN t = 1..Len(t)
    OBVIOUS
  <2> QED
    BY <2>1 DEF SqueezeKept
<1>3. k \in 1..Len(u) /\ t[i] \in Blank
  OBVIOUS
<1> HIDE DEF K, u
<1>4. /\ Places(K) /\ Cardinality(K) = Len(u) /\ Len(u) \in Nat /\ Len(t) \in Nat
      /\ \A x \in 1..Len(u) : Nth(K, x) \in K /\ Nth(K, x) \in 1..Len(t)
  BY <1>1, PartPlaces
<1>5. \A x \in 1..Len(t) : t[x] \notin Blank => x \in K
  BY <1>1 DEF PartOf
<1>6. /\ i \in K /\ i \in 1..Len(t) /\ i > 1 /\ i - 1 \in 1..Len(t)
      /\ t[i - 1] \notin Blank /\ i - 1 \in K /\ Later(t, i)
  <2>1. i \in K /\ i \in 1..Len(t)
    BY <1>3, <1>4
  <2> HIDE DEF i
  <2>2. i > 1 /\ t[i - 1] \notin Blank /\ Later(t, i)
    BY <1>2, <1>3, <2>1
  <2>3. i - 1 \in 1..Len(t)
    BY <1>4, <2>1, <2>2
  <2> QED
    BY <1>5, <2>1, <2>2, <2>3
<1>7. k - 1 \in 1..Len(u) /\ Nth(K, k - 1) = i - 1
  <2>1. i - 1 < Nth(K, k)
    BY <1>6
  <2>2. k - 1 \in 1..Len(u) /\ i - 1 <= Nth(K, k - 1)
    <3> HIDE DEF i
    <3> QED
      BY <1>3, <1>4, <1>6, <2>1, NthNext
  <2>3. Nth(K, k - 1) < i
    BY <1>3, <1>4, <2>2, NthOrder
  <2>4. Nth(K, k - 1) \in 1..Len(t)
    BY <1>4, <2>2
  <2> HIDE DEF i
  <2> QED
    BY <1>4, <1>6, <2>2, <2>3, <2>4
<1>8. PICK j \in 1..Len(t) : j > i /\ t[j] \notin Blank /\ j \in K
  <2>1. PICK j \in DOMAIN t : i <= j /\ t[j] \notin Blank
    BY <1>6 DEF Later
  <2>2. j # i /\ j \in 1..Len(t)
    BY <1>3, <2>1
  <2> HIDE DEF i
  <2> QED
    BY <1>5, <1>6, <2>1, <2>2
<1>9. k + 1 \in 1..Len(u)
  <2>1. j > Nth(K, k)
    BY <1>8
  <2> QED
    BY <1>3, <1>4, <1>8, <2>1, NthNext
<1>10. ASSUME t[Nth(K, k + 1)] \in Blank PROVE FALSE
  <2> DEFINE q == Nth(K, k + 1)
  <2>1. q \in K /\ q \in 1..Len(t)
    BY <1>4, <1>9
  <2>2. t[q] \in Blank
    BY <1>10
  <2>3. i < q
    BY <1>3, <1>4, <1>9, NthOrder
  <2> HIDE DEF q
  <2>4. q > 1 /\ t[q - 1] \notin Blank
    BY <1>2, <2>1, <2>2
  <2>5. q - 1 \in 1..Len(t) /\ q - 1 \in K
    BY <1>4, <1>5, <2>1, <2>4
  <2>6. q - 1 < Nth(K, k + 1)
    BY <2>1 DEF q
  <2>7. q - 1 <= Nth(K, (k + 1) - 1)
    BY <1>4, <1>9, <2>5, <2>6, NthNext
  <2>8. (k + 1) - 1 = k
    BY <1>4, <1>3
  <2>9. q - 1 <= i
    BY <2>7, <2>8
  <2> HIDE DEF i
  <2>10. q - 1 = i
    BY <1>6, <2>1, <2>3, <2>9
  <2> QED
    BY <1>3, <2>4, <2>10
<1> QED
  BY <1>6, <1>7, <1>9, <1>10 DEF i, K, u

LEMMA SqueezeIsTight ==
    ASSUME NEW t \in Seq(Lexeme), Clean(t)
    PROVE  Tight(Squeeze(t))
<1> DEFINE K == SqueezeKept(t)
           u == Squeeze(t)
<1>1. Clean(u) /\ PartOf(u, t, K) /\ u \in Seq(Lexeme)
  BY CleanKept, SqueezePart, SqueezeType
<1>2. \A k \in 1..Len(u) : u[k] \in Blank => u[k] = " "
  BY SqueezePart
<1>3. \A k \in 1..Len(u) : t[Nth(K, k)] \in Blank =>
         /\ k - 1 \in 1..Len(u) /\ Nth(K, k - 1) = Nth(K, k) - 1
         /\ t[Nth(K, k) - 1] \notin Blank
         /\ k + 1 \in 1..Len(u) /\ t[Nth(K, k + 1)] \notin Blank
  BY KeptNext
<1> HIDE DEF K, u
<1>4. \A k \in 1..Len(u) : u[k] \in Blank <=> t[Nth(K, k)] \in Blank
  BY <1>1, PartPlaces
<1>5. ASSUME NEW k \in 1..Len(u), u[k] \in Blank
      PROVE  k > 1 /\ k < Len(u) /\ u[k - 1] \notin Blank /\ u[k + 1] \notin Blank
  <2>1. /\ k - 1 \in 1..Len(u) /\ t[Nth(K, k - 1)] \notin Blank
        /\ k + 1 \in 1..Len(u) /\ t[Nth(K, k + 1)] \notin Blank
    BY <1>3, <1>4, <1>5
  <2>2. k > 1 /\ k < Len(u)
    BY <1>1, <2>1
  <2> QED
    BY <1>4, <2>1, <2>2
<1> QED
  BY <1>1, <1>2, <1>5 DEF Tight, u

\* Of a tight text nothing is taken.
LEMMA TightKept ==
    ASSUME NEW t \in Seq(Lexeme), Tight(t)
    PROVE  TrimSpace(t) = t /\ Squeeze(t) = t
<1>1. DOMAIN t = 1..Len(t) /\ Len(t) \in Nat
  OBVIOUS
<1>2. ASSUME NEW i \in 1..Len(t), t[i] \in Blank
      PROVE  /\ t[i] = " " /\ i > 1 /\ i - 1 \in 1..Len(t) /\ i + 1 \in 1..Len(t)
             /\ t[i - 1] \notin Blank /\ t[i + 1] \notin Blank
  <2>1. /\ t[i] = " " /\ i > 1 /\ i < Len(t)
        /\ t[i - 1] \notin Blank /\ t[i + 1] \notin Blank
    BY <1>2 DEF Tight
  <2>2. i - 1 \in 1..Len(t) /\ i + 1 \in 1..Len(t)
    <3>1. i > 1 /\ i < Len(t)
      BY <2>1
    <3> QED
      BY <1>1, <3>1
  <2> QED
    BY <2>1, <2>2
<1>3. ASSUME NEW i \in 1..Len(t) PROVE Earlier(t, i) /\ Later(t, i)
  <2>1. CASE t[i] \notin Blank
    BY <1>1, <2>1 DEF Earlier, Later
  <2>2. CASE t[i] \in Blank
    <3>1. i - 1 <= i /\ i <= i + 1
      OBVIOUS
    <3> QED
      BY <1>1, <1>2, <2>2, <3>1 DEF Earlier, Later
  <2> QED
    BY <2>1, <2>2
<1>4. TrimSpace(t) = t
  <2>1. {i \in DOMAIN t : Earlier(t, i) /\ Later(t, i)} = DOMAIN t
    BY <1>1, <1>3
  <2> QED
    BY <2>1, OnlyAll DEF TrimSpace
<1>5. Squeeze(t) = t
  <2>1. SqueezeFrom(t) \in Seq(Lexeme) /\ Len(SqueezeFrom(t)) = Len(t)
        /\ Squeeze(t) = Only(SqueezeFrom(t), SqueezeKept(t))
    BY SqueezeType
  <2>2. \A i \in 1..Len(t) : SqueezeFrom(t)[i] = t[i]
    BY <1>1, <1>2 DEF SqueezeFrom
  <2>3. SqueezeFrom(t) = t
    BY <2>1, <2>2, SeqEqual
  <2>4. SqueezeKept(t) = DOMAIN t
    BY <1>1, <1>2, <1>3 DEF SqueezeKept
  <2> QED
    BY <2>1, <2>3, <2>4, OnlyAll
<1> QED
  BY <1>4, <1>5

LEMMA UpperTight ==
    ASSUME NEW t \in Seq(Lexeme), Tight(t), NEW low, NEW up \in Lexeme,
           low \notin Blank, up \notin Blank, up \notin {"(", ")"}
    PROVE  Tight(Uppercase(low, up, t))
<1> DEFINE u == Uppercase(low, up, t)
<1>1. /\ u \in Seq(Lexeme) /\ Len(u) = Len(t) /\ Len(t) \in Nat
      /\ \A k \in 1..Len(t) :
            u[k] = IF t[k] = low /\ Replaced(low, t, k - 1) THEN up ELSE t[k]
  BY UppercaseType
<1> HIDE DEF u
<1>2. \A k \in 1..Len(t) : /\ u[k] \in Blank <=> t[k] \in Blank
                           /\ u[k] \in Blank => u[k] = t[k]
                           /\ t[k] \notin {"(", ")"} => u[k] \notin {"(", ")"}
  BY <1>1
<1>3. Clean(u)
  BY <1>1, <1>2 DEF Tight, Clean
<1>4. ASSUME NEW i \in 1..Len(u), u[i] \in Blank
      PROVE  /\ u[i] = " " /\ i > 1 /\ i < Len(u)
             /\ u[i - 1] \notin Blank /\ u[i + 1] \notin Blank
  <2>1. /\ t[i] = " " /\ i > 1 /\ i < Len(t)
        /\ t[i - 1] \notin Blank /\ t[i + 1] \notin Blank
    BY <1>1, <1>2, <1>4 DEF Tight
  <2>2. i - 1 \in 1..Len(t) /\ i + 1 \in 1..Len(t)
    <3>1. i > 1 /\ i < Len(t)
      BY <2>1
    <3> QED
      BY <1>1, <3>1
  <2> QED
    BY <1>1, <1>2, <1>4, <2>1, <2>2
<1> QED
  BY <1>3, <1>4 DEF Tight, u

\* The normal form of a tight text is one round.
LEMMA TightNormal ==
    ASSUME NEW t \in Seq(Lexeme), Tight(t)
    PROVE  normalizeExpression(t) = Round(t) /\ Round(t) \in Seq(Lexeme) /\ Tight(Round(t))
<1>1. Ands(t) \in Seq(Lexeme) /\ Tight(Ands(t))
  BY CaseType, Connectives, UpperTight DEF Ands
<1>2. Round(t) \in Seq(Lexeme) /\ Tight(Round(t))
  BY <1>1, CaseType, Connectives, UpperTight DEF Round, Ors
<1>3. normalizeExpression(t) = Squeeze(Round(t))
  BY CleanNormal, TightKept DEF Tight, Round
<1> QED
  BY <1>2, <1>3, TightKept

\* What the first round comes to.
LEMMA FirstRound ==
    ASSUME NEW t \in Seq(Lexeme)
    PROVE  \E y \in Seq(Lexeme) :
              /\ normalizeExpression(t) = Squeeze(Round(y)) /\ Clean(y)
              /\ (\A i \in 1..Len(t) : t[i] # "tab") => \A i \in 1..Len(y) : y[i] # "tab"
<1> DEFINE x == TrimSpace(t)
           y == WithoutParentheses(x)
           S == {i \in DOMAIN t : Earlier(t, i) /\ Later(t, i)}
           T == {i \in DOMAIN x : x[i] \notin {"(", ")"}}
<1>1. x \in Seq(Lexeme) /\ y \in Seq(Lexeme)
  BY NormalType
<1>2. normalizeExpression(t) = Squeeze(Round(y))
  BY DEF normalizeExpression, Round, Ands, Ors
<1>3. /\ Len(x) = Cardinality(S)
      /\ \A k \in 1..Len(x) : x[k] = t[Nth(S, k)] /\ Nth(S, k) \in 1..Len(t)
  <2>1. S \subseteq DOMAIN t /\ x = Only(t, S)
    BY DEF TrimSpace
  <2> HIDE DEF S, x
  <2> QED
    BY <2>1, OnlyType
<1>4. /\ Len(y) = Cardinality(T)
      /\ \A k \in 1..Len(y) : /\ y[k] = x[Nth(T, k)] /\ Nth(T, k) \in 1..Len(x)
                              /\ x[Nth(T, k)] \notin {"(", ")"}
  <2>1. T \subseteq DOMAIN x /\ y = Only(x, T) /\ \A i \in T : x[i] \notin {"(", ")"}
    BY DEF WithoutParentheses
  <2> HIDE DEF T, x, y
  <2> QED
    BY <1>1, <2>1, OnlyType
<1> HIDE DEF S, T, x, y
<1>5. Clean(y)
  BY <1>4 DEF Clean
<1>6. (\A i \in 1..Len(t) : t[i] # "tab") => \A i \in 1..Len(y) : y[i] # "tab"
  BY <1>3, <1>4
<1> QED
  BY <1>1, <1>2, <1>5, <1>6

\* Without tabs nothing comes to stand between two spaces that did not before.
NoTab(t) == \A i \in 1..Len(t) : t[i] # "tab"
\* The blanks that are left stand directly after words.
AfterWords(u, t, K) ==
    \A k \in 1..Len(u) : t[Nth(K, k)] \in Blank =>
        Nth(K, k - 1) = Nth(K, k) - 1 /\ Nth(K, k) - 1 \in 1..Len(t)

LEMMA NotSeparate ==
    ASSUME NEW low, NEW t \in Seq(Lexeme), ~Separate(low, t)
    PROVE  \E b \in Nat :
              /\ b + 1 \in 1..Len(t) /\ b + 2 \in 1..Len(t) /\ b + 3 \in 1..Len(t)
              /\ b + 4 \in 1..Len(t)
              /\ t[b + 1] = low /\ t[b + 2] = " " /\ t[b + 3] = low /\ t[b + 4] = " "
<1>1. PICK b \in 1..Len(t) : Between(low, t, b) /\ Between(low, t, b + 2)
  BY DEF Separate
<1>2. b \in Nat
  OBVIOUS
<1> QED
  BY <1>1, <1>2, BetweenTwice

LEMMA PartSeparate ==
    ASSUME NEW t \in Seq(Lexeme), NoTab(t),
           NEW low, NEW up, NEW other, Apart3(low, up, other), Behind(low, up, t),
           NEW u \in Seq(Lexeme), NEW K, PartOf(u, t, K), AfterWords(u, t, K)
    PROVE  Separate(low, u)
<1> SUFFICES ASSUME ~Separate(low, u) PROVE FALSE
  OBVIOUS
<1>1. PartOf(u, t, K)
  OBVIOUS
<1>a. low # up /\ low \notin Blank /\ up \notin Blank
  BY DEF Apart3
<1>2. \A k \in 1..Len(u) : t[Nth(K, k)] \in Blank =>
         Nth(K, k - 1) = Nth(K, k) - 1 /\ Nth(K, k) - 1 \in 1..Len(t)
  BY DEF AfterWords
<1>3. /\ Places(K) /\ Cardinality(K) = Len(u) /\ Len(u) \in Nat /\ Len(t) \in Nat
      /\ \A x \in 1..Len(u) : /\ Nth(K, x) \in K /\ Nth(K, x) \in 1..Len(t)
                              /\ u[x] \in Blank <=> t[Nth(K, x)] \in Blank
                              /\ u[x] \notin Blank => u[x] = t[Nth(K, x)]
  BY <1>1, PartPlaces
<1>4. \A x \in 1..Len(t) : t[x] \notin Blank => x \in K
  BY <1>1 DEF PartOf
<1>5. PICK b \in Nat :
      /\ b + 1 \in 1..Len(u) /\ b + 2 \in 1..Len(u) /\ b + 3 \in 1..Len(u)
      /\ b + 4 \in 1..Len(u)
      /\ u[b + 1] = low /\ u[b + 2] = " " /\ u[b + 3] = low /\ u[b + 4] = " "
  BY NotSeparate
<1>b. /\ b \in Nat /\ (b + 2) - 1 = b + 1 /\ (b + 4) - 1 = b + 3 /\ (b + 3) - 1 = b + 2
      /\ b + 2 < b + 3
  OBVIOUS
<1> DEFINE p == Nth(K, b + 1)
           s == Nth(K, b + 2)
           q == Nth(K, b + 3)
           r == Nth(K, b + 4)
<1>6. /\ p \in 1..Len(t) /\ s \in 1..Len(t) /\ q \in 1..Len(t) /\ r \in 1..Len(t)
      /\ t[p] = low /\ t[s] \in Blank /\ t[q] = low /\ t[r] \in Blank
  BY <1>3, <1>5, BlankAround, <1>a
<1>7. p = s - 1
  <2>1. (b + 2) - 1 = b + 1
    BY <1>b
  <2>2. Nth(K, (b + 2) - 1) = Nth(K, b + 2) - 1
    BY <1>2, <1>5, <1>6
  <2> QED
    BY <2>1, <2>2
<1>8. q = r - 1
  <2>1. (b + 4) - 1 = b + 3
    BY <1>b
  <2>2. Nth(K, (b + 4) - 1) = Nth(K, b + 4) - 1
    BY <1>2, <1>5, <1>6
  <2> QED
    BY <2>1, <2>2
<1>9. s < q
  <2>1. b + 2 < b + 3
    BY <1>b
  <2> QED
    BY <1>3, <1>5, <2>1, NthOrder
<1>10. q - 1 \in 1..Len(t) /\ t[q - 1] \in Blank
  <2>1. q - 1 \in 1..Len(t)
    <3> HIDE DEF q, s
    <3> QED
      BY <1>3, <1>6, <1>9
  <2>2. ASSUME t[q - 1] \notin Blank PROVE FALSE
    <3>1. q - 1 \in K /\ q - 1 < Nth(K, b + 3)
      BY <1>4, <2>1, <2>2, <1>6
    <3>2. q - 1 <= Nth(K, (b + 3) - 1)
      <4> HIDE DEF q
      <4> QED
        BY <1>3, <1>5, <3>1, NthNext
    <3>3. (b + 3) - 1 = b + 2
      BY <1>b
    <3>4. q - 1 <= s
      BY <3>2, <3>3
    <3> HIDE DEF q, s
    <3>5. q - 1 = s
      BY <1>6, <1>9, <3>4
    <3> QED
      BY <1>6, <2>2, <3>5
  <2> QED
    BY <2>1, <2>2
<1> HIDE DEF p, s, q, r
<1>11. t[q - 1] = " " /\ t[q + 1] = " "
  <2>1. r = q + 1
    BY <1>6, <1>8
  <2> QED
    BY <1>6, <1>10, <2>1 DEF Blank, NoTab
<1>12. Between(low, t, q - 1)
  <2>1. q - 1 >= 1 /\ (q - 1) + 1 = q /\ (q - 1) + 2 = q + 1 /\ q + 1 <= Len(t)
    BY <1>3, <1>6, <1>8, <1>10
  <2> QED
    BY <1>6, <1>11, <2>1 DEF Between
<1>13. q - 1 > 1 /\ t[(q - 1) - 1] = up
  BY <1>10, <1>12 DEF Behind
<1>14. s = q - 1
  <2>1. (q - 1) - 1 \in 1..Len(t)
    BY <1>6, <1>10, <1>13
  <2>2. (q - 1) - 1 \in K
    BY <1>4, <1>13, <1>a, <2>1
  <2>3. (q - 1) - 1 < Nth(K, b + 3)
    BY <1>6 DEF q
  <2>4. (q - 1) - 1 <= Nth(K, (b + 3) - 1)
    BY <1>3, <1>5, <2>2, <2>3, NthNext
  <2>5. (b + 3) - 1 = b + 2
    BY <1>b
  <2>6. (q - 1) - 1 <= s
    BY <2>4, <2>5 DEF s
  <2>7. (q - 1) - 1 # s
    BY <1>a, <1>6, <1>13
  <2> QED
    BY <1>6, <1>9, <2>6, <2>7
<1>15. p = (q - 1) - 1
  BY <1>7, <1>14
<1> QED
  BY <1>a, <1>6, <1>13, <1>15

LEMMA SqueezeSeparate ==
    ASSUME NEW t \in Seq(Lexeme), NoTab(t),
           NEW low, NEW up, NEW other, Apart3(low, up, other), Behind(low, up, t)
    PROVE  Separate(low, Squeeze(t))
<1> DEFINE K == SqueezeKept(t)
           u == Squeeze(t)
<1>1. PartOf(u, t, K) /\ u \in Seq(Lexeme)
  BY SqueezePart, SqueezeType
<1>2. AfterWords(u, t, K)
  BY KeptNext DEF AfterWords
<1> HIDE DEF K, u
<1> QED
  BY <1>1, <1>2, PartSeparate DEF u

LEMMA ThreeInv == ASSUME IndInv PROVE NormalInThree
<1> DEFINE first  == normalizedExpression
           second == normalizeExpression(first)
           third  == normalizeExpression(second)
<1> SUFFICES ASSUME Checked
             PROVE  /\ normalizeExpression(third) = third
                    /\ (\A i \in DOMAIN Text : Text[i] # "tab") => third = second
  BY DEF NormalInThree
<1>1. Text \in Seq(Lexeme) /\ first = normalizeExpression(Text)
  BY CheckedIs
<1>2. PICK y \in Seq(Lexeme) :
         /\ first = Squeeze(Round(y)) /\ Clean(y)
         /\ (\A i \in 1..Len(Text) : Text[i] # "tab") => \A i \in 1..Len(y) : y[i] # "tab"
  BY <1>1, FirstRound
<1>3. Round(y) \in Seq(Lexeme) /\ Clean(Round(y))
  BY <1>2, CaseType, CaseClean DEF Round
<1>4. first \in Seq(Lexeme) /\ Tight(first)
  BY <1>2, <1>3, SqueezeType, SqueezeIsTight
<1>5. second = Round(first) /\ second \in Seq(Lexeme) /\ Tight(second)
  BY <1>4, TightNormal
<1>6. third = Round(second) /\ third \in Seq(Lexeme) /\ Tight(third)
  <2> HIDE DEF second
  <2> QED
    BY <1>5, TightNormal
<1>7. normalizeExpression(third) = Round(third)
  <2> HIDE DEF third
  <2> QED
    BY <1>6, TightNormal
<1> HIDE DEF first, second, third
<1>8. None("and", third) /\ None("or", third)
  <2>1. Behind("and", "AND", second) /\ Behind("or", "OR", second)
    BY <1>4, <1>5, RoundBehind
  <2>2. Separate("and", second) /\ Separate("or", second)
    BY <1>5, <2>1, BehindSeparate
  <2> QED
    BY <1>5, <1>6, <2>2, RoundNone
<1>9. normalizeExpression(third) = third
  BY <1>6, <1>7, <1>8, RoundSame
<1>10. ASSUME \A i \in DOMAIN Text : Text[i] # "tab" PROVE third = second
  <2>1. \A i \in 1..Len(y) : y[i] # "tab"
    <3>1. DOMAIN Text = 1..Len(Text)
      BY <1>1
    <3> QED
      BY <1>2, <1>10, <3>1
  <2>2. \A i \in 1..Len(Round(y)) : Round(y)[i] # "tab"
    <3>1. "AND" # "tab" /\ "OR" # "tab"
      OBVIOUS
    <3>2. Ands(y) \in Seq(Lexeme) /\ \A i \in 1..Len(Ands(y)) : Ands(y)[i] # "tab"
      BY <2>1, <3>1, CaseType
    <3> QED
      BY <3>1, <3>2, CaseType DEF Round
  <2>3. Separate("and", first) /\ Separate("or", first)
    BY <1>2, <1>3, <2>2, RoundBehind, Both, SqueezeSeparate DEF NoTab
  <2>4. None("and", second) /\ None("or", second)
    BY <1>4, <1>5, <2>3, RoundNone
  <2> QED
    BY <1>5, <1>6, <2>4, RoundSame
<1> QED
  BY <1>9, <1>10 DEF first, second, third

\* The normal form has settled after three rounds, and after two when the text
\* has no tab (normalizeExpression).
THEOREM NormalSettles == Spec => []NormalInThree
<1>1. IndInv => NormalInThree
  BY ThreeInv
<1> QED
  BY <1>1, ValidatorConsistent, PTL
=============================================================================
