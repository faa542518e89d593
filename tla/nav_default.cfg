SPECIFICATION FairSpec
CONSTANTS
    Visits = {v1, v2, v3}
    NoVisit = NoVisit
    HandledHooks <- NoHooks
INVARIANTS TypeOK LiveIsCurrent LatestWins QueueWaits ShownNotAborted DocumentReleased
PROPERTIES NoRevival ImplementsVisitQueue Settles
CHECK_DEADLOCK FALSE
