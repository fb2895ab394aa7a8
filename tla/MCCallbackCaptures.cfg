SPECIFICATION Spec
CONSTANTS
    main = main
    plain = plain
    lambda = lambda
    local = local
    variad = variad
    cor = cor
    corloc = corloc
    Null = Null
    NoFx = NoFx
    Functions = {main, local}
    Data = {d}
    ExitPos <- MCExitPos
    FrameSize <- MCFrameSize
    Arity <- MCArity
    Captures <- MCCaptures
    ExceptAlloc <- MCExceptAlloc
    HasExcept <- MCHasExcept
    IsCoroutine <- MCIsCoroutine
    IsVariadic <- MCIsVariadic
    NGlobals = 1
    InitSlots = 0
    Shapes = {"captures_in_callback"}
    MaxStack = 5
    MaxDepth = 3
    MaxNatives = 1
    MaxObjects = 1
    MaxArgs = 1
CHECK_DEADLOCK FALSE
PROPERTY CapturesInPlace
