SPECIFICATION Spec
CONSTANTS
    o1 = o1
    o2 = o2
    o3 = o3
    m = m
    Ids = {o1, o2, o3}
    MemberFunctions = {m}
    FirstCollection = 2
    MinCollection = 3
    Growth = 2
    Shapes = {"coroutines"}
    MaxStack = 2
    MaxRefs = 1
    MaxNatives = 0
CHECK_DEADLOCK FALSE
PROPERTY FirstMarkingExact
PROPERTY FirstMarkingEnds
