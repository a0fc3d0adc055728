CONSTANTS
    User = {u1}
    MaxPairs = 3
    MaxSignIns = 1
    Server = {w1, w2}
    AccessLife = 1
    RefreshLife = 1
    Email = {e1, e2}
    Seeded = {e1}
    Password = {x1, x2}
    Challenge = {c1}
    Code = {k1}
    Handler = {w1, w2}
    PowLife = 1
    CodeLife = 1
    Budget <- MCBudget
    Span <- MCSpan
    TicksPerSecond = 2
    Horizon = 2
    None = None
    Nothing = Nothing
    Thread = {t1, t2}
    NoThread = NoThread
    Slot = {o1, o2}
    o1 = o1
    o2 = o2
    LastId = 2
    PageLimit = 1
    WireLimit = 1
    BubbleLimit = 2
SPECIFICATION Spec
SYMMETRY Symmetry
INVARIANTS
    ChatTypeOK
    RefreshOnce
    ProofOnce
    BudgetKept
    LoggedOutStaysOut
    ShownOnce
    PageIsComplete
    NoPhantom
