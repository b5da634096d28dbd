SPECIFICATION Spec
CONSTANTS
    r1 = r1
    r2 = r2
    r3 = r3
    r4 = r4
    s1 = s1
    s2 = s2
    s3 = s3
    Req = {r1, r2, r3, r4}
    Conv = {c1, c2, c3, c4}
    Project = {p1}
    Provider = {mock}
    Recent = 6
    Trigger = 8
    HistoryCap = 500
    CharLimit = 9
    Lengths <- MCLengths
    Pasts = {8}
    First = c1
    Socket = {s1, s2, s3}
    Wirings <- MCWirings
    Kinds <- AllKinds
    None = None
SYMMETRY Symmetry
INVARIANTS ExchangesAreWhole ReferencesResolve HistoryIsCurrent QuestionInContext NothingForgotten NoDeadlock
PROPERTY UpdatesAreKept
