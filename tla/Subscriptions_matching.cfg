SPECIFICATION Spec
CONSTANTS
    s1 = s1
    c1 = c1
    k3 = k3
    Subscriber = {s1, s2}
    Creator = {c1, c2}
    Gateway = {"stripe", "wompi", "mock"}
    Checkout = {k1, k2, k3}
    TierPeriod = 1
    None = None
    Worker = {w1, w2}
    EventId = {e1}
    MaxTime = 0
    PlatformGateway = "stripe"
SYMMETRY Symmetry
CONSTRAINT Within
INVARIANTS TypeOK BookedToPayer AccessEarned
PROPERTIES GatewayKeepsRef
