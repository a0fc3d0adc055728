SPECIFICATION Spec
CONSTANTS
    Subscriber = {s1}
    Creator = {c1}
    Gateway = {"wompi"}
    Checkout = {k1}
    TierPeriod = 1
    None = None
    Worker = {w1, w2}
    EventId = {e1, e2}
    MaxTime = 0
    PlatformGateway = "stripe"
PROPERTY PaymentBuysMonth
