SPECIFICATION FairSpec
CONSTANTS
    p1 = p1
    p2 = p2
    p3 = p3
    MaxCalls = 1
    MaxStops = 0
    N = 3
    Provider <- ThreeProviders
    ProviderAt <- EachOfThree
    Libp2p = FALSE
    Copy = {h1}
    Ans = {}
    Faults = {"attempt", "message", "load", "unsubscribe"}
PROPERTIES
    EndsWithoutResponse
CHECK_DEADLOCK FALSE
