SPECIFICATION ContentSpec
CONSTANTS
    main = main
    aside = aside
    Visits = {v1, v2}
    NoVisit = NoVisit
    HandledHooks <- NoHooks
    Containers <- Both
    Kinds <- SomeKinds
SYMMETRY VisitSymmetry
INVARIANTS MarksOwnType
CHECK_DEADLOCK FALSE
