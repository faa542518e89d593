SPECIFICATION Spec
CONSTANTS
    Handlers = {h1, h2}
    DefaultHandler = DefaultHandler
    Calls = {c1, c2}
    Options <- MixedOptions
    MaxRegistrations = 2
SYMMETRY Symmetry
INVARIANTS TypeOK OnceIsSpent NoneLost RunsInOrder ReplacersWrapDefault
CHECK_DEADLOCK FALSE
