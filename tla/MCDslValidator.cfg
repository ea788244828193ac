SPECIFICATION Spec
CONSTANTS
    Lexeme <- MCLexeme
    Texts <- MCEvery
    Wide <- MCWide
    MinLength = 2
    MaxLength = 9
    NoRequest = NoRequest
INVARIANT IndInv
INVARIANT ValidAsRead
INVARIANT NormalFormSays
INVARIANT NormalInThree
INVARIANT PositionIsNear
CHECK_DEADLOCK FALSE
