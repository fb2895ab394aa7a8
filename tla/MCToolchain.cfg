SPECIFICATION Spec
CONSTANTS
    IntBits = 12
    CharBits = 8
    Mantissa = 10
    CustomLiterals <- MCLiterals
    Alphabet <- MCAlphabet
    Sources <- MCSources
CHECK_DEADLOCK FALSE
INVARIANT TypeOK
INVARIANT DecodesAsAssembled
INVARIANT AcceptedLinks
INVARIANT StackDisciplined
INVARIANT SlotsInWindow
INVARIANT PrivateKept
INVARIANT MeaningKept
PROPERTY Ends
