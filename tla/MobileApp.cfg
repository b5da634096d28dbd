SPECIFICATION Spec
CONSTANTS
    c1 = c1
    c2 = c2
    c3 = c3
    t1 = t1
    t2 = t2
    t3 = t3
    Conv = {c1, c2, c3}
    Old = {c1}
    Id = {t1, t2, t3}
    MaxViews = 1
    MaxLogins = 2
    MaxExpiries = 1
    None = None
SYMMETRY MCSymmetry
INVARIANT ScreenIsOneConversation
PROPERTY ClearedForAReason
CHECK_DEADLOCK FALSE
