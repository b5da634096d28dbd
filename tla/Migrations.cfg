SPECIFICATION FairSpec
CONSTANTS
    u1 = u1
    u2 = u2
    p1 = p1
    c1 = c1
    gone = gone
    None = None
    Id <- MCId
    Long = {u2}
    Dialect = {"postgresql", "sqlite"}
    Legacy <- MCLegacy
    MaxCrashes = 1
    MaxDowns = 1
INVARIANTS CleanupIsExact VersionIsSchema ModelsAgree
PROPERTY UpgradeSucceeds
CHECK_DEADLOCK FALSE
