SPECIFICATION Spec
CONSTANTS
    IntBits = 5
    CharBits = 3
    Mantissa = 3
    Universe <- MCUniverse
    Texts <- MCTexts
    MaxLiterals = 2
    MaxPower = 3
CHECK_DEADLOCK FALSE
INVARIANT TypeOK
INVARIANT LiteralsDenote
INVARIANT NamesReadBack
INVARIANT CastsFit
INVARIANT KeysOrdered
INVARIANT EqualMeansSame
INVARIANT DivisionReconstructs
