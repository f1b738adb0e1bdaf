SPECIFICATION Spec
CONSTANTS
    r1 = r1  r2 = r2  r3 = r3  i1 = i1  i2 = i2  i3 = i3  p1 = p1  p2 = p2  a1 = a1  a2 = a2
    Req = {r1, r2}
    Id = {i1, i2}
    Pub = {p1}
    Ans = {a1, a2}
    IdOf <- RetryIds
    PubOf <- OnePublication
    AnsId <- AnswersToBoth
    KindOf <- AllComments
    LocalId = {i2}
    Faults = {"evict", "stop", "badMessage", "pubsubFails", "storeFails", "purge", "timeout"}
    Nobody = Nobody
INVARIANTS
    ResolverIsAwaited
PROPERTIES
    RefinesIntake
CHECK_DEADLOCK FALSE
