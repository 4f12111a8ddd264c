CONSTANTS
    Sock = {s1, s2, s3}
    Port = {p1, p2, p3}
    RandPort = {p1, p2, p3}
    Peer = {a, b}
    Own = {b}
    None = None
    Tries = 3
    MaxQ = 1
    OsSock = {1, 2}
    Fd = {3, 4, 5}
    OsAddr4 = {x, y}
    OsAddr6 = {z}
    OsPort = {1, 2}
    OsPeer = {1}
SPECIFICATION MCSpec
INVARIANTS TableSound FdsOwned OptsApplied AddrsKnown
PROPERTIES RightSocket DemuxSpec
SYMMETRY Symmetry
