SPECIFICATION RSpec
CONSTANTS
    Subscriber = {s1}
    Creator = {c1}
    Gateway = {"wompi"}
    Checkout = {k1}
    TierPeriod = 1
    None = None
    Worker = {w1}
    EventId = {e1, e2}
    MaxTime = 0
    PlatformGateway = "mock"
    Post = {p1}
    Message = {}
    Link = {l1}
    Owner <- MCOwner
SYMMETRY Symmetry
INVARIANTS OneTimeIsNotMonthly
