SPECIFICATION Spec
CONSTANTS
    Visits = {v1, v2}
    NoVisit = NoVisit
    HandledHooks <- AbortHook
INVARIANTS ShownNotAborted
CHECK_DEADLOCK FALSE
