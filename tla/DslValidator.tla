----------------------------- MODULE DslValidator -----------------------------
(***************************************************************************)
(* POST /fraud-rules/validate: what an administrator is told about the     *)
(* text of a rule.  A text is a sequence of lexemes: names, connectives    *)
(* and single characters; a word is what stands between two blanks.  The   *)
(* answer takes one step: nothing is read from the database, and no rule   *)
(* that is stored has gone through here.                                   *)
(***************************************************************************)
EXTENDS Subsequences

CONSTANTS
    Lexeme,         \* what texts are made of, names in the code among them
    Texts,          \* the texts that are sent
    Wide,           \* lexemes of one character that takes two bytes
    MinLength,      \* 3
    MaxLength,      \* 2000
    NoRequest       \* before the request

Blank          == {" ", "tab"}
NumberField    == {<<"amount">>}
StringField    == {<<"currency">>, <<"country">>}
StringOperator == {<<"=">>, <<"!", "=">>}
NumberOperator == StringOperator \cup {<<">">>, <<"<">>, <<">", "=">>, <<"<", "=">>}

Request == [role : {"USER", "ADMIN"}, text : Texts]

ASSUME LengthAssumption == MinLength \in Nat /\ MaxLength \in Nat
ASSUME LexemeAssumption ==
    {" ", "tab", "(", ")", "and", "or", "AND", "OR", "amount", "currency", "country",
     "=", "!", "<", ">"} \subseteq Lexeme
ASSUME TextsAssumption == \A t \in Texts : t \in Seq(Lexeme)
ASSUME NoRequestAssumption == NoRequest \notin Request

VARIABLES
    request,
    code,           \* the status code, 0 before that
    isValid, errors, normalizedExpression

vars == <<request, code, isValid, errors, normalizedExpression>>

About(message) == [message |-> message, position |-> 0, near |-> <<>>]

\* A lexeme stands for one character.  ShouldBindJSON counts characters, len()
\* counts bytes.
Characters(t) == Len(t)
Bytes(t)      == Len(t) + Cardinality({i \in DOMAIN t : t[i] \in Wide})

Occurs(w, t) == \E i \in 1..Len(t) : i + Len(w) - 1 <= Len(t)
                                     /\ SubSeq(t, i, i + Len(w) - 1) = w
Occurrences(l, t) == Cardinality({i \in DOMAIN t : t[i] = l})

\* A word goes from a lexeme that no other word ends before to the last one
\* before a blank.
Starts(t) == {i \in DOMAIN t : t[i] \notin Blank /\ (i > 1 => t[i - 1] \in Blank)}
WordEnd(t, i) == CHOOSE e \in i..Len(t) : /\ \A k \in i..e : t[k] \notin Blank
                                          /\ e < Len(t) => t[e + 1] \in Blank

\* strings.Fields: the words of a text.
Fields(t) == [n \in 1..Cardinality(Starts(t)) |->
                LET i == Nth(Starts(t), n) IN SubSeq(t, i, WordEnd(t, i))]

(***************************************************************************)
(* The normal form.                                                        *)
(***************************************************************************)
Later(t, i)   == \E j \in DOMAIN t : i <= j /\ t[j] \notin Blank
Earlier(t, i) == \E j \in DOMAIN t : j <= i /\ t[j] \notin Blank

TrimSpace(t) == Only(t, {i \in DOMAIN t : Earlier(t, i) /\ Later(t, i)})

WithoutParentheses(t) == Only(t, {i \in DOMAIN t : t[i] \notin {"(", ")"}})

\* Mutant: strings.Replace with a count of one.
UppercaseFirst(low, up, t) ==
    LET Matches(i) == /\ i > 1 /\ i < Len(t)
                      /\ t[i - 1] = " " /\ t[i] = low /\ t[i + 1] = " "
    IN [i \in 1..Len(t) |->
            IF Matches(i) /\ \A j \in 1..(i - 1) : ~Matches(j) THEN up ELSE t[i]]

\* The connective low stands in t between two spaces, the first of them at i.
Between(low, t, i) ==
    i >= 1 /\ i + 2 <= Len(t) /\ t[i] = " " /\ t[i + 1] = low /\ t[i + 2] = " "

\* strings.ReplaceAll(t, " and ", " AND "), from left to right: a space that
\* ends one occurrence does not begin the next, so of occurrences that share
\* their spaces every second is replaced, beginning with the first.
Replaced(low, t, i) ==
    \E n \in 0..Len(t) : /\ \A k \in 0..(2 * n) : Between(low, t, i - 2 * k)
                         /\ ~Between(low, t, i - 2 * (2 * n + 1))
Uppercase(low, up, t) ==
    [i \in 1..Len(t) |-> IF t[i] = low /\ Replaced(low, t, i - 1) THEN up ELSE t[i]]

\* Mutant: words are joined without a space.
SqueezeTight(t) == Only(t, {i \in DOMAIN t : t[i] \notin Blank})

\* strings.Join(strings.Fields(t), " "): of the blanks after a word that is not
\* the last one, a space is left.
Squeeze(t) ==
    LET Kept == {i \in DOMAIN t : t[i] \in Blank =>
                    i > 1 /\ t[i - 1] \notin Blank /\ Later(t, i)}
    IN Only([i \in DOMAIN t |-> IF t[i] \in Blank THEN " " ELSE t[i]], Kept)

normalizeExpression(t) ==
    Squeeze(Uppercase("or", "OR",
        Uppercase("and", "AND", WithoutParentheses(TrimSpace(t)))))

(***************************************************************************)
(* The errors.                                                             *)
(***************************************************************************)
\* Mutant: the position of the operator.
IndexBehind(w, t) ==
    (CHOOSE i \in 1..Len(t) :
        /\ SubSeq(t, i, i + Len(w) - 1) = w
        /\ \A j \in 1..(i - 1) : SubSeq(t, j, j + Len(w) - 1) # w) + Len(w)

\* strings.Index: lexemes before the first occurrence, wherever that is.
Index(w, t) ==
    (CHOOSE i \in 1..Len(t) :
        /\ SubSeq(t, i, i + Len(w) - 1) = w
        /\ \A j \in 1..(i - 1) : SubSeq(t, j, j + Len(w) - 1) # w) - 1

\* Errors about parentheses; the second says nothing of a place.
validateBasicSyntax(t) ==
    {[message |-> "Empty parentheses", near |-> w, position |-> Index(w, t)] :
        w \in {x \in {<<"(", ")">>} : Occurs(x, t)}}
    \cup {About(m) : m \in {x \in {"Mismatched parentheses"} :
                                Occurrences("(", t) # Occurrences(")", t)}}

MayFollow(operator, field) ==
    operator \in IF field \in NumberField THEN NumberOperator ELSE StringOperator

\* Mutant: the loop ends one word early.
validateFieldsAndOperatorsShort(t) ==
    LET words == Fields(t) IN
    {[message |-> "Invalid operator", near |-> words[i + 1],
      position |-> Index(words[i], t) + 1] :
        i \in {j \in 1..(Len(words) - 2) :
                 /\ words[j] \in NumberField \cup StringField
                 /\ ~MayFollow(words[j + 1], words[j])}}

\* A field that is the last word is let through.
validateFieldsAndOperators(t) ==
    LET words == Fields(t) IN
    {[message |-> "Invalid operator", near |-> words[i + 1],
      position |-> Index(words[i], t) + 1] :
        i \in {j \in 1..(Len(words) - 1) :
                 /\ words[j] \in NumberField \cup StringField
                 /\ ~MayFollow(words[j + 1], words[j])}}

\* Fields are not looked at in a text whose parentheses are wrong.
Validate(t) ==
    IF validateBasicSyntax(t) # {} THEN validateBasicSyntax(t)
    ELSE validateFieldsAndOperators(t)

(***************************************************************************)
(* The handler.                                                            *)
(***************************************************************************)
Init ==
    /\ request = NoRequest /\ code = 0
    /\ isValid = FALSE /\ errors = {} /\ normalizedExpression = <<>>

\* ShouldBindJSON
Bound(t) == Characters(t) \in MinLength..MaxLength

\* Mutant: the verdict is set before the errors are looked for.
VerdictEarly(e, n) ==
    /\ code' = 200
    /\ errors' = e /\ isValid' = TRUE /\ normalizedExpression' = n

Verdict(e, n) ==
    /\ code' = 200
    /\ errors' = e /\ isValid' = (e = {}) /\ normalizedExpression' = n

Refuse(c) ==
    /\ code' = c
    /\ UNCHANGED <<isValid, errors, normalizedExpression>>

LengthError == "DSL expression must be between 3 and 2000 characters"

ValiteDLS(q) ==
    /\ request = NoRequest
    /\ request' = q
    /\ \/ q.role # "ADMIN" /\ Refuse(403)
       \/ q.role = "ADMIN" /\ ~Bound(q.text) /\ Refuse(400)
       \/ /\ q.role = "ADMIN" /\ Bound(q.text)
          /\ Bytes(q.text) \notin MinLength..MaxLength
          /\ Verdict({About(LengthError)}, <<>>)
       \/ /\ q.role = "ADMIN" /\ Bound(q.text)
          /\ Bytes(q.text) \in MinLength..MaxLength
          /\ Verdict(Validate(q.text), normalizeExpression(q.text))

Next == \E q \in Request : ValiteDLS(q)
Spec == Init /\ [][Next]_vars

-----------------------------------------------------------------------------
(***************************************************************************)
(* Properties.                                                             *)
(***************************************************************************)
\* A text has come all the way to the validator.
Checked == code = 200 /\ About(LengthError) \notin errors

Text == request.text
At(i) == IF i \in DOMAIN Text THEN Text[i] ELSE " "

\* w is a word of the text, and begins at i.
Word(w, i) == /\ \A k \in DOMAIN w : At(i + k - 1) = w[k]
              /\ At(i - 1) \in Blank /\ At(i + Len(w)) \in Blank
\* The next word after i begins at j.
NextAt(i, j) == /\ j \in DOMAIN Text /\ j > i /\ Text[j] \notin Blank
                /\ \A k \in (i + 1)..(j - 1) : Text[k] \in Blank

\* Every variable stays within its type; a verdict is on a text that fits the
\* binding, and positions are within it.
TypeOK ==
    /\ request \in Request \cup {NoRequest}
    /\ code \in {0, 200, 400, 403}
    /\ code = 200 => request.role = "ADMIN" /\ Characters(Text) \in MinLength..MaxLength
    /\ isValid \in BOOLEAN
    /\ \A e \in errors : e.position \in 0..Len(Text) /\ e.near \in Seq(Lexeme)
    /\ normalizedExpression \in Seq(Lexeme)

\* What is declared valid, said without words and loops: its bytes are within the
\* limits of the characters, there are as many opening as closing parentheses,
\* none directly after its opening one, and wherever a field stands alone, the
\* next word, if any, may compare it.
ValidAsRead ==
    LET Compared(i, set) == \A j \in DOMAIN Text :
            NextAt(i, j) => \E w \in set : Word(w, j)
    IN code = 200 =>
        (isValid <=>
            /\ Bytes(Text) \in MinLength..MaxLength
            /\ \A i \in DOMAIN Text : ~(At(i) = "(" /\ At(i + 1) = ")")
            /\ Occurrences("(", Text) = Occurrences(")", Text)
            /\ \A i \in DOMAIN Text :
                  /\ (\E w \in NumberField : Word(w, i)) => Compared(i, NumberOperator)
                  /\ (\E w \in StringField : Word(w, i)) => Compared(i, StringOperator))

\* A connective stays in lower case when it shares a space with the one before
\* it or stands beside a tab, so the normal form of a normal form may be another
\* one.  The third round has the last word, the second if there is no tab.
NormalInThree ==
    LET second == normalizeExpression(normalizedExpression)
        third  == normalizeExpression(second) IN
    Checked => /\ normalizeExpression(third) = third
               /\ (\A i \in DOMAIN Text : Text[i] # "tab") => third = second

\* A text without parentheses is as valid as its normal form, and has the same
\* words, but for the case of the connectives.
NormalFormSays ==
    LET Low(w) == IF w = <<"AND">> THEN <<"and">> ELSE IF w = <<"OR">> THEN <<"or">> ELSE w
        Same(v, w) == Len(v) = Len(w) /\ \A i \in DOMAIN v : Low(v[i]) = Low(w[i])
    IN Checked /\ Text = WithoutParentheses(Text) =>
          /\ isValid <=> Validate(normalizedExpression) = {}
          /\ Same(Fields(Text), Fields(normalizedExpression))

\* What errors say of the text.  Empty parentheses come next after their
\* position.  An operator that is quoted stands behind a field that it may not
\* compare; the position is that of this field's first occurrence in the text,
\* be it in another place or within a longer word.
PositionIsNear ==
    LET FirstPlace(p)  == p \in DOMAIN Text /\ \A k \in 1..(p - 1) : Text[k] # Text[p]
        Follows(w, i)  == \E j \in DOMAIN Text : NextAt(i, j) /\ Word(w, j)
        Pair(p)        == At(p + 1) = "(" /\ At(p + 2) = ")"
    IN Checked => \A e \in errors : e.near # <<>> =>
          IF e.message # "Invalid operator"
          THEN e.near = <<"(", ")">> /\ Pair(e.position)
          ELSE /\ FirstPlace(e.position)
               /\ ~MayFollow(e.near, <<Text[e.position]>>)
               /\ \E i \in DOMAIN Text : /\ Text[i] = Text[e.position]
                                         /\ Word(<<Text[i]>>, i) /\ Follows(e.near, i)

\* The inductive invariant: what is answered is what the text is worth.
Answered ==
    /\ code = 0 <=> request = NoRequest
    /\ code # 200 => ~isValid /\ errors = {} /\ normalizedExpression = <<>>
    /\ code = 200 =>
          /\ isValid = (errors = {})
          /\ IF Bytes(Text) \in MinLength..MaxLength
             THEN /\ errors = Validate(Text)
                  /\ normalizedExpression = normalizeExpression(Text)
             ELSE errors = {About(LengthError)} /\ normalizedExpression = <<>>

IndInv == TypeOK /\ Answered
=============================================================================
