SPECIFICATION HostsSpec
CONSTANTS
    po = po  ra = ra  rb = rb  rq = rq  qa = qa  qb = qb  ap = ap  aq = aq  di = di  rj = rj  pp = pp
    pr = pr  pq = pq  ba = ba  de = de  vo = vo  a1 = a1  a2 = a2  xa = xa  xb = xb  ka = ka
    ha = ha  hb = hb  sa = sa  sb = sb  re = re  ta = ta  tb = tb  ed = ed  dl = dl
    ua = ua  ub = ub  pu = pu  un = un  ga = ga  gb = gb  cm = cm
    w1 = w1  w2 = w2  f1 = f1  f2 = f2
    h1 = h1  h2 = h2  b1 = b1  b2 = b2  None = None  Nil = Nil
    Comment = {po, ra, rb, rq, qa, qb}
    Act = {ap, aq, di, rj, pp, pr, pq, ba, de, vo}
    Author = {a1, a2}
    ModAuthor = {}
    HeldBack = {rq, qa, qb}
    Again = {ra, rq}
    MaxPending = 1
    Mode = "per-post"
    StoreFaults = {"resolve", "ipfs", "restart"}
    Parent <- StoreParents
    KindOf <- StoreKinds
    Target <- StoreTargets
    By <- StoreAuthors
    Workload <- StoreWork
    Client = {xa, xb}
    Community = {ka}
    Address = {ha, hb}
    Home <- HostHome
    NewName <- HostNewName
    RpcCall <- HostCalls
    Method <- HostMethods
    From <- HostFrom
    On <- HostOn
    Sub <- HostSub
    RpcWorkload <- HostWork
    AutoRetries = 1
    Uses = {"w", "p", "l", "s"}
    MaxIds = 4
    MaxVersions = 2
    ClientWorkload <- ClientWork
    Owners = {"o1", "o2", "o3"}
    Processes = {"p1", "p2"}
    Addresses = {"a1", "a2"}
    LcWorkload <- LifeWork
    HnUser = {w1, w2}
    HnCat = {f1, f2}
    HnHandler = {h1, h2}
    HnPublish = {b1, b2}
    MaxNodes = 3
    HnWorkload <- HeliaWork
INVARIANTS
    StoreIsConsistent
    ServerKeepsUp
    ClientKeepsUp
    CommunityIsSafe
    NodeIsShared
PROPERTIES
    HostStepsAreClean
CHECK_DEADLOCK FALSE
