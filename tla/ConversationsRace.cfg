SPECIFICATION Spec
CONSTANTS
    r1 = r1
    r2 = r2
    r3 = r3
    r4 = r4
    s1 = s1
    s2 = s2
    s3 = s3
    Req = {r1, r2, r3, r4}
    Conv = {c1}
    Project = {}
    Provider = {mock}
    Recent = 4
    Trigger = 8
    HistoryCap = 500
    CharLimit = 9
    Lengths <- MCLengths
    Pasts = {8}
    First = c1
    Socket = {s1, s2, s3}
    Wirings <- NoSocket
    Kinds <- ChatOnly
    None = None
SYMMETRY Symmetry
INVARIANT NothingForgotten
