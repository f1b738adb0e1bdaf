SPECIFICATION Spec
CONSTANTS
    p1 = p1  p2 = p2  v1 = v1  v2 = v2  c0 = c0  c1 = c1  c2 = c2  l0 = l0  l1 = l1
    Post = {p1}
    Vote = {v1}
    Target <- OneTarget
    InitialPosts = {p1}
    Config = {c0, c1}
    InitialConfig = c0
    Layout <- NewLayout
    Bucket <- OneBucket
    SliceSize = 1
    MaxEdits = 1
    MaxStops = 0
    Faults = {}
    None = None
INVARIANT
    LayoutReachesEveryRow
