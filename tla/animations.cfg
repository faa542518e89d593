SPECIFICATION Spec
CONSTANTS
    Elements = {e1, e2}
    Styles <- SomeStyles
    Offsets <- SomeOffsets
    Horizon = 4
INVARIANTS TypeOK OverWhenResolved TimeoutIsLongest
PROPERTIES AllResolve
CHECK_DEADLOCK FALSE
