SPECIFICATION Spec
INVARIANT UniqueDirs
CONSTANTS
    a = a
    b = b
    v1 = v1
    v2 = v2
    Absent = Absent
    Whiteout = Whiteout
    Keep = Keep
    UseOverlay = TRUE
    MaxPrepares = 3
    Client = {c1, c2}
    Name <- MCName
    Val <- MCVal
    Base <- MCBase
    BaseTree <- MCBaseTree
    Effects <- MCEffects
CHECK_DEADLOCK FALSE
