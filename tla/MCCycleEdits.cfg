SPECIFICATION LoopSpec
CONSTANTS
    p1 = p1  p2 = p2  v1 = v1  v2 = v2  c0 = c0  c1 = c1  c2 = c2  l0 = l0  l1 = l1
    Post = {p1}
    Vote = {}
    Target <- OneTarget
    InitialPosts = {p1}
    Config = {c0, c1, c2}
    InitialConfig = c0
    Layout <- SameLayout
    Bucket <- OneBucket
    SliceSize = 2
    MaxEdits = 3
    MaxStops = 1
    Faults = {"cycle", "save"}
    None = None
INVARIANTS
    EditsAreKept
PROPERTIES
    StopIsClean
