SPECIFICATION Spec
CONSTANTS
    main = main
    alias = alias
    Urls = {main, alias}
    Loads = {l1, l2}
    Application = Application
    Resolve <- Rewrites
    Asked <- Mixed
    MaxVersion = 1
SYMMETRY Symmetry
INVARIANTS TypeOK CacheIsFaithful ReloadIsFresh SharedPagesAreAnswers
CHECK_DEADLOCK FALSE
