SPECIFICATION Spec
CONSTANTS
    Subscriber = {s1}
    Creator = {c1}
    Gateway = {"stripe"}
    Checkout = {k1, k2}
    TierPeriod = 1
    None = None
    Worker = {w1}
    EventId = {e1, e2, e3}
    MaxTime = 0
    PlatformGateway = "stripe"
PROPERTY RenewedIsNotCanceled
