SPECIFICATION MCSpec
CONSTANTS
    Subscriber = {s1}
    Creator = {c1}
    Gateway = {"wompi", "mock"}
    Checkout = {k1}
    TierPeriod = 1
    None = None
    Worker = {w1, w2}
    EventId = {e1, e2}
    MaxTime = 0
    PlatformGateway = "mock"
    Post = {p1}
    Message = {m1}
    Link = {l1, l2}
    Owner <- MCOwner
SYMMETRY Symmetry
INVARIANTS StraysAreWompi
PROPERTIES EndpointLedger UnlocksUndisturbed
