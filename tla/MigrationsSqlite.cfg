SPECIFICATION Spec
CONSTANTS
    u1 = u1
    u2 = u2
    p1 = p1
    c1 = c1
    gone = gone
    None = None
    Id <- MCId
    Long = {u2}
    Dialect = {"sqlite"}
    Legacy <- InUse
    MaxCrashes = 0
    MaxDowns = 0
INVARIANT SamePath
CHECK_DEADLOCK FALSE
