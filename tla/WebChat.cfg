SPECIFICATION FairSpec
CONSTANTS
    c1 = c1
    c2 = c2
    c3 = c3
    Conv = {c1, c2, c3}
    Old = {c1}
    MaxSends = 2
    MaxViews = 3
    MaxSignOuts = 1
    None = None
INVARIANTS ScreenIsOneConversation OneLiveStream AnswersAreShown
PROPERTY ComposerReturns
CHECK_DEADLOCK FALSE
