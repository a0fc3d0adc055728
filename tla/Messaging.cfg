SPECIFICATION Spec
CONSTANTS
    Creator = {c1}
    Subscriber = {s1}
    Desk = {d1, d2}
    d1 = d1
    d2 = d2
    p1 = p1
    p2 = p2
    w1 = w1
    w2 = w2
    s1 = s1
    Process = {p1, p2}
    Home <- MCHome
    Socket = {w1, w2}
    Key = {k1}
    NoKey = NoKey
    MaxMessages = 3
    PageSize = 1
    CacheSize = 1
INVARIANTS
    TypeOK
    WrittenByLeave
    StatusMirrorsGate
    FilesMatchRows
    HistoryIsComplete
    TwiceOnlyIfEvicted
    FramesAreCommitted
    NobodyForgotten
PROPERTIES
    EventuallyHeard
    FramesArrive
