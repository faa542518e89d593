SPECIFICATION Spec
CONSTANTS
    Visits = {v1, v2}
    NoVisit = NoVisit
    HandledHooks <- TransitionHook
INVARIANTS DocumentReleased
CHECK_DEADLOCK FALSE
