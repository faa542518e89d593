SPECIFICATION Spec
CONSTANTS
    Visits = {v1, v2, v3}
    NoVisit = NoVisit
    HandledHooks <- HooksOfRunningVisit
SYMMETRY Symmetry
INVARIANTS LiveIsCurrent LatestWins QueueWaits
PROPERTIES NoRevival
CHECK_DEADLOCK FALSE
