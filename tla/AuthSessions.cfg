SPECIFICATION FairSpec
CONSTANTS
    Req = {r1, r2}
    User = {u1}
    MaxRequests = 3
    MaxTime = 1
    RefreshLife = 1
    None = None
INVARIANTS
    OneWinner
    WinnerKeepsSession
    RowExpiresWithItsToken
    LogoutIsFinal
    OneLateRotation
PROPERTIES
    RevokedIsFrozen
    LedgerSpec
    EveryRequestEnds
CHECK_DEADLOCK FALSE
