SPECIFICATION Spec
CONSTANTS
    main = main
    plain = plain
    lambda = lambda
    local = local
    variad = variad
    cor = cor
    corloc = corloc
    Null = Null
    NoFx = NoFx
    Functions = {main, cor}
    Data = {d}
    ExitPos <- MCExitPos
    FrameSize <- MCFrameSize
    Arity <- MCArity
    Captures <- MCCaptures
    ExceptAlloc <- MCExceptAlloc
    HasExcept <- MCHasExcept
    IsCoroutine <- MCIsCoroutine
    IsVariadic <- MCIsVariadic
    NGlobals = 0
    InitSlots = 0
    Shapes = {}
    MaxStack = 3
    MaxDepth = 2
    MaxNatives = 1
    MaxObjects = 3
    MaxArgs = 0
CHECK_DEADLOCK FALSE
INVARIANT CoroutinesFit
PROPERTY ImplementsActivations
