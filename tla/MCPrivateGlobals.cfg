SPECIFICATION Spec
CONSTANTS
    IntBits = 12
    CharBits = 8
    Mantissa = 10
    CustomLiterals <- MCLiterals
    Alphabet <- MCAlphabet
    Sources <- MCPrivateSources
CHECK_DEADLOCK FALSE
INVARIANT PrivateGlobalsKept
