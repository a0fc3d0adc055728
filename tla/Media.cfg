SPECIFICATION Spec
CONSTANTS
    Item = {i1, i2}
    Photo = {m1, m2}
    Viewer = {v1, v2}
    Owner = o1
    o1 = o1
    v1 = v1
    i1 = i1
    m1 = m1
    x1 = x1
    w1 = w1
    Worker = {w1, w2}
    Visit = {x1, x2}
INVARIANTS
    DiskMatchesRows
    ServedByLeave
    ListingsTellTheTruth
    LikeIsKept
PROPERTIES
    ExpiredGoesAway
CHECK_DEADLOCK FALSE
