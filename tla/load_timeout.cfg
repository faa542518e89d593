SPECIFICATION TimerSpec
CONSTANTS
    main = main
    alias = alias
    Urls = {main}
    Loads = {l1}
    Application = Application
    Resolve <- Rewrites
    Asked <- Timed
    MaxVersion = 0
PROPERTIES TimeoutEndsRequest
CHECK_DEADLOCK FALSE
