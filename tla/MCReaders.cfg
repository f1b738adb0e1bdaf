SPECIFICATION ReadersSpec
CONSTANTS
  A = A  B = B  M = M  N = N  n1 = n1  n2 = n2  a1 = a1  a2 = a2  b1 = b1  b2 = b2  m1 = m1  m2 = m2  x1 = x1  f1 = f1  f2 = f2  f3 = f3  f4 = f4  g1 = g1  g2 = g2  g3 = g3  l1 = l1  l2 = l2  l3 = l3  l4 = l4  u1 = u1  u2 = u2  u3 = u3  i1 = i1  i2 = i2  i3 = i3  k1 = k1  k2 = k2  r1 = r1  r2 = r2  s1 = s1  s2 = s2  p1 = p1  p2 = p2  c1 = c1  c2 = c2  pp = pp  rr = rr  va = va  vb = vb  vc = vc  na = na  nb = nb  da = da  db1 = db1
    Nothing = Nothing
    Key = {A, B, M}
    Name = {n1}
    Cid = {a1, a2, b1, b2, m1, x1}
    Loader = {l1, l2, l3, l4}
    Updater = {u1, u2}
    rec <- UpdRecords
    Asks <- UpdAsks
    UpdWorkload <- UpdWork
    NoCid = NoCid
    Folder = {f1, f2, f3, f4, g1, g2}
    fileOf <- CuFiles
    PageOf <- CuPages
    CuWorkload <- CuWork
    User = {u1, u2, u3}
    Inst = {i1, i2, i3}
    NoInst = NoInst
    PostCid = pp
    ReplyCid = rr
    cidOf <- MirCids
    MaxUpdates <- MirCalls
    MirFaults = {"invalid"}
    GwNothing = GwNothing
    Gateway = {g1, g2, g3}
    GwLimit = 2
    GwKey = {A, M, N}
    GwCid = {a1, a2, m1, m2, f1}
    gwRec <- GwRecords
    GwWorkload <- GwWork
    NotAKey = NotAKey
    NoRecord = NoRecord
    Entry <- Entries
    Sweep = {s1, s2}
    Resolvers <- TwoResolvers
    canResolve <- Handles
    NameLimit = 1
    NameWorkload <- NameWork
    SearchPeer = {p1, p2}
    MaxPeers = 2
    SearchWorkload <- SearchWork
    IpnsCall = {c1, c2}
    IpnsGossip = {g1, g2}
    IpnsTtl = 1
    IpnsWatchdog = 2
    IpnsWorkload <- IpnsWork
    BcOp <- BlockOps
    BcBlock <- Blocks
    BcSize <- BlockSizes
    BcMax = 3
    BcLow = 2
    BcWorkload <- BlockWork
    Instance = {va, vb, vc}
    Identity = {na, nb}
    DataPath = {da, db1}
    dataPath <- RegistryPaths
    equivalent <- RegistryTwins
INVARIANTS
    UpdatesAreTrue
    CommentIsCurrent
    ListenersAreCounted
    FetchIsSound
    ResolutionIsEarned
    SearchIsThorough
    CacheAnswersTruly
    CacheIsAccounted
    RegistryIsSound
PROPERTIES
    ReadersNeverGoBack
CHECK_DEADLOCK FALSE
