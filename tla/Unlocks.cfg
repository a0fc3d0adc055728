CONSTANTS
    Subscriber = {s1}
    Post = {p1}
    Message = {m1}
    Gateway = {"mock", "wompi", "stripe"}
    Worker = {w1, w2}
    Link = {l1, l2}
    EventId = {e1, e2, e3}
    None = None
SPECIFICATION Spec
SYMMETRY Symmetry
INVARIANT OpenIsPaid OpenIsCounted AckedIsOpened
PROPERTY ImplementsLedger
CHECK_DEADLOCK FALSE
