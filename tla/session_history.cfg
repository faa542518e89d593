SPECIFICATION SessionSpec
CONSTANTS
    home = home
    alias = alias
    about = about
    Visits = {v1, v2}
    NoVisit = NoVisit
    HandledHooks <- NoHooks
    Urls = {home, alias, about}
    Resolve <- Rewrites
    Tab <- Reloaded
SYMMETRY VisitSymmetry
INVARIANTS SessionTypeOK IdleAgrees IndexIsCurrent IndexesIncrease
PROPERTIES DirectionIsTrue
CHECK_DEADLOCK FALSE
