SPECIFICATION Spec
CONSTANTS
    Elements = {e1}
    Styles <- SomeStyles
    Offsets <- SomeOffsets
    Horizon = 4
INVARIANTS AllOverWhenResolved
CHECK_DEADLOCK FALSE
