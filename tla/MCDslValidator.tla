---------------------------- MODULE MCDslValidator ----------------------------
(* Small instances of DslValidator for TLC. *)
EXTENDS DslValidator, SequencesExt

MCLexeme == {" ", "tab", "(", ")", "and", "or", "AND", "OR", "amount", "currency",
             "country", "=", "!", "<", ">", "a:"}

\* Texts of fields and operators.
MCComparisons == SeqOf({"amount", "currency", ">", "=", " "}, 6)

\* Texts of connectives, blanks and parentheses, and long ones of one connective
\* and one blank.
MCConnectives == SeqOf({"and", "or", " ", "tab", "(", ")"}, 5)
                 \cup SeqOf({"and", " "}, 9) \cup SeqOf({"and", "tab"}, 8)

\* Both together, shorter; one character takes two bytes.
MCAll == SeqOf({"amount", ">", "and", " ", "tab", "(", ")", "a:"}, 4)

\* Too long in bytes, and in characters.
MCLong == {[i \in 1..n |-> "a:"] : n \in {9, 10}}

MCEvery == MCLong \cup MCComparisons \cup MCConnectives \cup MCAll
MCWide == {"a:"}
=============================================================================
