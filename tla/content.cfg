SPECIFICATION ContentSpec
CONSTANTS
    main = main
    aside = aside
    Visits = {v1, v2, v3}
    NoVisit = NoVisit
    HandledHooks <- NoHooks
    Containers <- Both
    Kinds <- SomeKinds
SYMMETRY VisitSymmetry
INVARIANTS ContentTypeOK IdleIsUnmarked PlainIsUnmarked LeavingOrRendering PageIsWhole
CHECK_DEADLOCK FALSE
