SPECIFICATION LifecycleSpec
CONSTANTS
    configured = configured
    added = added
    incompatible = incompatible
    Visits = {v1}
    NoVisit = NoVisit
    HandledHooks <- NoHooks
    Plugins <- AllPlugins
    Configured <- OptionsPlugins
    Unmet <- Incompatible
    MaxCalls = 4
PROPERTIES DestroyRemovesClasses
CHECK_DEADLOCK FALSE
