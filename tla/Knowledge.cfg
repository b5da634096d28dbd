SPECIFICATION Spec
CONSTANTS
    r1 = r1
    r2 = r2
    u1 = u1
    u2 = u2
    p1 = p1
    p2 = p2
    a = a
    b = b
    c = c
    z = z
    Req = {r1, r2}
    User = {u1, u2}
    Project = {p1, p2}
    Owner <- MCOwner
    Library <- Shelves
    Uploads <- MCUploads
    Pieces = {4, 20}
    Envelope = 1
    MaxBody = 9
    FileLimit = 7
    Word = {a, b, c, z}
    Norm <- MCNorm
    Within <- MCWithin
    MaxTerms = 2
    Newest = 2
    Best = 1
    Queries <- Messages
    None = None
SYMMETRY Symmetry
INVARIANTS UploadsArriveWhole SearchFindsTheBest
PROPERTY DocumentsOutliveProjects
