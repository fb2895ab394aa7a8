SPECIFICATION Spec
CONSTANTS
    o1 = o1
    o2 = o2
    o3 = o3
    m = m
    Ids = {o1, o2, o3}
    MemberFunctions = {}
    FirstCollection = 1
    MinCollection = 2
    Growth = 2
    Shapes = {"coroutines"}
    MaxStack = 2
    MaxRefs = 1
    MaxNatives = 2
INVARIANT NoDangling
