SPECIFICATION SessionSpec
CONSTANTS
    home = home
    alias = alias
    about = about
    Visits = {v1}
    NoVisit = NoVisit
    HandledHooks <- NoHooks
    Urls = {home, alias, about}
    Resolve <- Rewrites
    Tab <- Reloaded
PROPERTIES BackAtShownPage
CHECK_DEADLOCK FALSE
