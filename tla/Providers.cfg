SPECIFICATION HttpFairSpec
CONSTANTS
    main = main
    backup = backup
    broken = broken
    spare = spare
    slicer = slicer
    gem = gem
    None = None
    Blank = Blank
    Provider = {main, backup, broken, spare, slicer, gem}
    Usable = {main, backup, spare, slicer, gem}
    Default = main
    Fallbacks <- MCFallbacks
    Style <- MCStyle
    RetryCount = 2
    MaxChunks = 3
    MaxTokens = 2
INVARIANTS
    NeverMixes
    CallsAreInOrder
    FailsOnlyWhenAllFailed
    UsageIsTheLastReported
PROPERTIES
    RequestEnds
CHECK_DEADLOCK FALSE
