SPECIFICATION Spec
CONSTANTS
    p1 = p1  p2 = p2  v1 = v1  v2 = v2  c0 = c0  c1 = c1  c2 = c2  l0 = l0  l1 = l1
    Post = {p1, p2}
    Vote = {v1, v2}
    Target <- TwoTargets
    InitialPosts = {p1}
    Config = {c0}
    InitialConfig = c0
    Layout <- SameLayout
    Bucket <- BucketEach
    SliceSize = 1
    MaxEdits = 0
    MaxStops = 1
    Faults = {"cycle", "stat", "crash"}
    None = None
INVARIANTS
    NoWriteLost
PROPERTIES
    RefinesBoardFeed
