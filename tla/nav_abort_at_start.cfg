SPECIFICATION Spec
CONSTANTS
    Visits = {v1, v2}
    NoVisit = NoVisit
    HandledHooks <- StartHook
INVARIANTS LiveIsCurrent
CHECK_DEADLOCK FALSE
