SPECIFICATION Spec
CONSTANTS
    Handlers = {h1}
    DefaultHandler = DefaultHandler
    Calls = {c1, c2}
    Options <- OnceOption
    MaxRegistrations = 1
INVARIANTS OnceRunsOnce
CHECK_DEADLOCK FALSE
