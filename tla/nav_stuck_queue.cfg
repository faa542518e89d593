SPECIFICATION Spec
CONSTANTS
    Visits = {v1, v2}
    NoVisit = NoVisit
    HandledHooks <- NoHooks
INVARIANTS QueueIsServed
CHECK_DEADLOCK FALSE
