SPECIFICATION Spec
CONSTANTS
    Subscriber = {s1}
    Creator = {c1}
    Gateway = {"stripe"}
    Checkout = {k1, k2}
    TierPeriod = 1
    None = None
    Worker = {w1, w2}
    EventId = {e1, e2}
    MaxTime = 1
    PlatformGateway = "stripe"
SYMMETRY Symmetry
INVARIANTS NoticedOnce
PROPERTIES ImplementsLedger CancelIsKept PageKeepsRef
