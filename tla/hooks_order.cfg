SPECIFICATION Spec
CONSTANTS
    Handlers = {h1, h2, h3}
    DefaultHandler = DefaultHandler
    Calls = {c1}
    Options <- PlainOption
    MaxRegistrations = 4
INVARIANTS RegistrationOrder
CHECK_DEADLOCK FALSE
