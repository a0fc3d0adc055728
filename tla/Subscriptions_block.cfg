SPECIFICATION Spec
CONSTANTS
    Subscriber = {s1}
    Creator = {c1}
    Gateway = {"paypal"}
    Checkout = {k1}
    TierPeriod = 1
    None = None
    Worker = {w1, w2}
    EventId = {e1}
    MaxTime = 1
    PlatformGateway = "paypal"
PROPERTY BlockStands
