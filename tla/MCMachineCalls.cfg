SPECIFICATION Spec
CONSTANTS
    main = main
    plain = plain
    lambda = lambda
    local = local
    variad = variad
    cor = cor
    corloc = corloc
    Null = Null
    NoFx = NoFx
    Functions = {main, lambda, variad}
    Data = {d}
    ExitPos <- MCExitPos
    FrameSize <- MCFrameSize
    Arity <- MCArity
    Captures <- MCCaptures
    ExceptAlloc <- MCExceptAlloc
    HasExcept <- MCHasExcept
    IsCoroutine <- MCIsCoroutine
    IsVariadic <- MCIsVariadic
    NGlobals = 1
    InitSlots = 0
    Shapes = {}
    MaxStack = 5
    MaxDepth = 3
    MaxNatives = 2
    MaxObjects = 1
    MaxArgs = 1
CHECK_DEADLOCK FALSE
INVARIANT TypeOK
INVARIANT CodeMatchesFrames
INVARIANT NativesMatchFrames
INVARIANT WindowsFit
INVARIANT HostFindsStackClean
INVARIANT GlobalsBelowWindows
PROPERTY GlobalsKept
PROPERTY ImplementsActivations
