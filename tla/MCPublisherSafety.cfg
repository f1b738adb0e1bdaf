SPECIFICATION Spec
CONSTANTS
    p1 = p1
    p2 = p2
    p3 = p3
    MaxCalls = 1
    MaxStops = 1
    N = 2
    Provider <- TwoProviders
    ProviderAt <- Each
    Libp2p = FALSE
    Copy = {h1, h2}
    Ans = {a1, a2}
    Faults = {"attempt", "message", "answer", "load"}
INVARIANTS
    EventsOnce
    NoDanglingSubscription
PROPERTIES
    LiveExchangeKept
CHECK_DEADLOCK FALSE
SYMMETRY Alike
