-------------------- MODULE MCReaders --------------------
(***************************************************************************)
(* What a reader does to follow a community and its comments, one part in  *)
(* each behaviour: the update loop of a community, the search for comment  *)
(* updates, mirrored comment instances, gateways, author names, the search *)
(* for peers, the IPNS push channel, the block cache and the registry of   *)
(* instances. The parts share no state, so that each behaviour picks one.  *)
(***************************************************************************)
EXTENDS CommunityUpdating, CommentUpdating, CommentMirrors, GatewayFetch, NameResolution,
        PeerSearch, IpnsPushChannel, BlockCache, InstanceRegistry, TLC

CONSTANTS A, B, M, N, n1, n2, a1, a2, b1, b2, m1, m2, x1, f1, f2, f3, f4, g1, g2, g3,
          l1, l2, l3, l4, u1, u2, u3, i1, i2, i3, k1, k2, r1, r2, s1, s2, p1, p2, c1, c2, pp, rr,
          va, vb, vc, na, nb, da, db1

VARIABLE part

----------------------------------------
(* A community under two keys, one of which endorses a minter; loaders that *)
(* ask by name, by key or by both. *)
RecordOf(signer, anchor, name, t) == [signer |-> signer, anchor |-> anchor, name |-> name, at |-> t]
UpdRecords == a1 :> RecordOf(A, Nothing, n1, 1) @@ a2 :> RecordOf(A, Nothing, Nothing, 2) @@ b1 :> RecordOf(B, Nothing, n1, 1)
              @@ b2 :> RecordOf(B, Nothing, Nothing, 1)
              @@ m1 :> RecordOf(M, A, n1, 2) @@ x1 :> RecordOf(B, A, n1, 2)
UpdAsks == l1 :> [name |-> n1, key |-> A] @@ l2 :> [name |-> Nothing, key |-> A] @@ l3 :> [name |-> n1, key |-> Nothing]
           @@ l4 :> [name |-> Nothing, key |-> B]
UpdJobOf(i, t, s, ls, p, f) == [ipns |-> i, txt |-> n1 :> t, script |-> s, loaders |-> ls, push |-> p, faults |-> f]
Ipns(a, b, m) == A :> a @@ B :> b @@ M :> m
Change(k, v) == [at |-> k, to |-> v]
UpdWork ==
    {UpdJobOf(Ipns(M, b1, m1), M, <<>>, {l1}, FALSE, {}),
     UpdJobOf(Ipns(a1, b1, Nothing), A, <<Change(n1, B)>>, {l1, l3}, FALSE, {}),
     UpdJobOf(Ipns(a1, b1, Nothing), A, <<Change(A, a2), Change(n1, B)>>, {l1, l2}, TRUE, {}),
     UpdJobOf(Ipns(a1, x1, m1), A, <<Change(A, M)>>, {l2}, TRUE, {"fetch"}),
     UpdJobOf(Ipns(M, x1, m1), M, <<>>, {l3}, FALSE, {"name", "resolve"}), UpdJobOf(Ipns(a1, b1, Nothing), B, <<>>, {l1}, TRUE, {"fetch"}),
     UpdJobOf(Ipns(a1, b2, Nothing), B, <<>>, {l2, l4}, FALSE, {}),
     UpdJobOf(Ipns(a1, x1, m1), B, <<Change(A, M), Change(n1, A)>>, {l3}, FALSE, {})}

----------------------------------------
(* A post whose update moves between folders, a reply that moves between *)
(* pages. *)
FileAt(t, v) == [at |-> t, valid |-> v]
CuFiles == f1 :> FileAt(1, TRUE) @@ f2 :> FileAt(1, TRUE) @@ f3 :> FileAt(2, TRUE) @@ f4 :> FileAt(3, FALSE)
           @@ g1 :> FileAt(0, TRUE) @@ g2 :> FileAt(2, TRUE)
CuPage(at, c, past) == [reply |-> at, next |-> c, past |-> past]
CuPages == a1 :> CuPage(0, a2, FALSE) @@ a2 :> CuPage(1, NoCid, FALSE) @@ b1 :> CuPage(0, b2, FALSE) @@ b2 :> CuPage(2, NoCid, TRUE)
           @@ m1 :> CuPage(0, m2, TRUE) @@ m2 :> CuPage(2, NoCid, FALSE)
CuRecord(p, s) == [pages |-> p, ranges |-> s]
CuPost(pre, first) == [pre |-> pre, first |-> first]
CuRecords == {<<CuRecord(0, <<f1, g1>>), CuRecord(0, <<f2, g1>>), CuRecord(0, <<f3, g1>>)>>,
              <<CuRecord(1, <<f1>>), CuRecord(1, <<f2>>), CuRecord(0, <<g1, g2>>)>>,
              <<CuRecord(0, <<f1>>), CuRecord(2, <<f3>>), CuRecord(0, <<f4>>)>>}
CuPosts == {<<CuPost(0, NoCid), CuPost(0, a1), CuPost(0, b1)>>, <<CuPost(0, a1), CuPost(0, a1), CuPost(2, b1)>>,
            <<CuPost(1, a1), CuPost(0, b1), CuPost(0, b1)>>, <<CuPost(0, a1), CuPost(0, m1), CuPost(0, m1)>>}
CuWork == {[records |-> r, posts |-> <<>>, faults |-> f] : r \in CuRecords, f \in {{"resolve", "fetch"}, {"timeout", "stop"}}}
          \cup {[records |-> <<>>, posts |-> p, faults |-> f] : p \in CuPosts, f \in {{}, {"page"}}}

(* Two users of a post and one of a reply to it. *)
MirCids == u1 :> pp @@ u2 :> pp @@ u3 :> rr
MirCalls == [u \in User |-> 1]

----------------------------------------
GwRecordOf(s, a, t) == [signer |-> s, anchor |-> a, at |-> t]
GwRecords == a1 :> GwRecordOf(A, GwNothing, 1) @@ a2 :> GwRecordOf(A, GwNothing, 2) @@ m1 :> GwRecordOf(M, A, 2)
             @@ m2 :> GwRecordOf(N, A, 3) @@ f1 :> GwRecordOf(A, GwNothing, 1)
ChainTo(hops, cid) == [hops |-> hops, cid |-> cid]
Serves(x, y, z) == g1 :> x @@ g2 :> y @@ g3 :> z
GwJobOf(k, n, h, c, s, p, f) == [kind |-> k, name |-> n, held |-> h, chains |-> c, serves |-> s, polls |-> p, faults |-> f]
GwWork ==
    {GwJobOf("community", A, GwNothing, {ChainTo(<<A>>, a1), ChainTo(<<A>>, a2)}, Serves({a1}, {a1, a2}, {a2}), 2, {"stop"}),
     GwJobOf("community", A, GwNothing, {ChainTo(<<A>>, a1), ChainTo(<<A, M>>, m1), ChainTo(<<A, N>>, m2), ChainTo(<<M>>, m1)},
             Serves({a1}, {m1}, {m2}), 2, {"chain"}),
     GwJobOf("community", M, GwNothing, {ChainTo(<<M>>, m1), ChainTo(<<A, M>>, m1)}, Serves({m1}, {m1}, {m2}), 2, {"timeout"}),
     GwJobOf("community", A, m1, {ChainTo(<<A, M>>, m1), ChainTo(<<A, N>>, m2)}, Serves({m1}, {m1}, {}), 2, {"fetch", "stop"}),
     GwJobOf("file", f1, GwNothing, {}, Serves({f1}, {a1}, {f1}), 1, {"fetch", "stop"})}

----------------------------------------
(* Two names, one claimed by two signers; resolvers that fail. *)
NameEntry(n, k) == [name |-> n, signer |-> k]
Entries == {NameEntry(n1, k1), NameEntry(n1, k2), NameEntry(n2, k2)}
TwoResolvers == <<r1, r2>>
Handles == r1 :> {n1} @@ r2 :> {n1, n2}
Texts(x, y) == n1 :> x @@ n2 :> y
AskedBy(x, y) == s1 :> x @@ s2 :> y
NameWork ==
    {[txt |-> Texts(k1, NoRecord), later |-> Texts(k2, k2), down |-> {r1},
      asks |-> AskedBy({NameEntry(n1, k1), NameEntry(n1, k2)}, {NameEntry(n1, k2)}), aborts |-> {}],
     [txt |-> Texts(NoRecord, NotAKey), later |-> Texts(k1, k2), down |-> {r1, r2},
      asks |-> AskedBy({NameEntry(n1, k1)}, {NameEntry(n1, k1), NameEntry(n2, k2)}), aborts |-> {s1}]}

(* Two peers: announced through a relay, directly, without addresses, or *)
(* with a relay beside an address this client cannot dial; one whose relay *)
(* address the peer store knows already. *)
SrJobOf(m, a, b, k, l, s, f) ==
    [mode |-> m, announced |-> p1 :> a @@ p2 :> b, known |-> p1 :> k @@ p2 :> {}, late |-> l, subscribers |-> s, faults |-> f]
Mixed == {"relay", "undialable"}
SearchWork ==
    {SrJobOf("fetch", {"relay"}, {"direct"}, {}, {p1}, 0, {"routers"}), SrJobOf("fetch", {"relay"}, {}, {}, {p1, p2}, 0, {}),
     SrJobOf("fetch", {}, {"direct"}, {}, {p1}, 1, {"abort"}), SrJobOf("fetch", Mixed, {"undialable"}, {}, {p1, p2}, 0, {}),
     SrJobOf("fetch", {}, {"relay", "direct"}, {"relay"}, {p1}, 0, {}), SrJobOf("fetch", {"relay"}, Mixed, {"direct"}, {p2}, 0, {}),
     SrJobOf("warmup", {"relay"}, {}, {}, {p1, p2}, 0, {"routers"}), SrJobOf("warmup", {"direct"}, {}, {}, {p2}, 0, {"abort"})}

(* Two gossiped records that arrive in either order, calls that fetch. *)
IpJobOf(x, y, f, c, n, j, t, e) ==
    [gossip |-> g1 :> x @@ g2 :> y, fetched |-> f, calls |-> c, nocache |-> n, joined |-> j, time |-> t, faults |-> e]
IpnsWork ==
    {IpJobOf(2, 1, {2}, {c1}, FALSE, TRUE, 3, {"mesh"}), IpJobOf(3, 2, {1}, {c1, c2}, FALSE, FALSE, 0, {}),
     IpJobOf(1, 1, {2}, {c1}, FALSE, TRUE, 3, {}), IpJobOf(2, 3, {1}, {c1}, TRUE, TRUE, 0, {}),
     IpJobOf(2, 3, {1}, {c1}, FALSE, TRUE, 0, {"expired", "store"})}

(* Three calls of a cache that holds three blocks of size one. *)
BlockOps == {"o1", "o2", "o3"}
Blocks == {"a", "b", "c"}
BlockSizes == [k \in Blocks |-> IF k = "c" THEN 2 ELSE 1]
OpOf(k, b) == [kind |-> k, block |-> b]
BcJobOf(x, y, z, h, f) == [calls |-> "o1" :> x @@ "o2" :> y @@ "o3" :> z, held |-> h, fails |-> f]
BlockWork ==
    {BcJobOf(OpOf("put", "a"), OpOf("put", "b"), OpOf("put", "c"), {}, {"delete"}),
     BcJobOf(OpOf("put", "a"), OpOf("delete", "a"), OpOf("get", "a"), {}, {}),
     BcJobOf(OpOf("get", "b"), OpOf("delete", "a"), OpOf("put", "a"), {"a", "b", "c"}, {}),
     BcJobOf(OpOf("get", "a"), OpOf("put", "a"), OpOf("get", "a"), {"a", "c"}, {"read"})}

(* The registry: two instances on one data path, one on another. *)
RegistryPaths == va :> da @@ vb :> da @@ vc :> db1
RegistryTwins == na :> {na, nb} @@ nb :> {nb}

----------------------------------------
(* The job of a part that does not run is any one of its workload. *)
Fix(p, j, S) == IF part = p THEN TRUE ELSE j = CHOOSE w \in S : TRUE

ReadersInit ==
    /\ part \in {"community", "comment", "mirrors", "gateways", "names", "peers", "ipns", "blocks", "registry"}
    /\ Fix("community", job, UpdWorkload) /\ UpdInit
    /\ Fix("comment", cuJob, CuWorkload) /\ CuInit
    /\ MirInit
    /\ Fix("gateways", gwJob, GwWorkload) /\ GwInit
    /\ Fix("names", nameJob, NameWorkload) /\ NameInit
    /\ Fix("peers", srJob, SearchWorkload) /\ SearchInit
    /\ Fix("ipns", ipJob, IpnsWorkload) /\ IpnsInit
    /\ Fix("blocks", bcJob, BcWorkload) /\ BcInit
    /\ RegistryInit

CommunityStep == part = "community" /\ UpdNext /\ UNCHANGED <<part, cuVars, mirVars, gwVars, nameVars, searchVars, ipnsVars, bcVars, registryVars>>
CommentStep == part = "comment" /\ CuNext /\ UNCHANGED <<part, updVars, mirVars, gwVars, nameVars, searchVars, ipnsVars, bcVars, registryVars>>
MirrorsStep == part = "mirrors" /\ MirNext /\ UNCHANGED <<part, updVars, cuVars, gwVars, nameVars, searchVars, ipnsVars, bcVars, registryVars>>
GatewaysStep == part = "gateways" /\ GwNext /\ UNCHANGED <<part, updVars, cuVars, mirVars, nameVars, searchVars, ipnsVars, bcVars, registryVars>>
NamesStep == part = "names" /\ NameNext /\ UNCHANGED <<part, updVars, cuVars, mirVars, gwVars, searchVars, ipnsVars, bcVars, registryVars>>
PeersStep == part = "peers" /\ SearchNext /\ UNCHANGED <<part, updVars, cuVars, mirVars, gwVars, nameVars, ipnsVars, bcVars, registryVars>>
IpnsStep == part = "ipns" /\ IpnsNext /\ UNCHANGED <<part, updVars, cuVars, mirVars, gwVars, nameVars, searchVars, bcVars, registryVars>>
BlocksStep == part = "blocks" /\ BcNext /\ UNCHANGED <<part, updVars, cuVars, mirVars, gwVars, nameVars, searchVars, ipnsVars, registryVars>>
RegistryStep == part = "registry" /\ RegistryNext /\ UNCHANGED <<part, updVars, cuVars, mirVars, gwVars, nameVars, searchVars, ipnsVars, bcVars>>

ReadersNext ==
    \/ CommunityStep \/ CommentStep \/ MirrorsStep \/ GatewaysStep
    \/ NamesStep \/ PeersStep \/ IpnsStep \/ BlocksStep \/ RegistryStep

ReadersSpec == ReadersInit /\ [][ReadersNext]_<<part, updVars, cuVars, mirVars, gwVars, nameVars, searchVars, ipnsVars, bcVars, registryVars>>

(* No step takes a reader back: to an older record or CommentUpdate, to *)
(* another key without telling it, or to a stop while somebody still *)
(* listens. *)
ReadersNeverGoBack ==
    SilentReKeyIsReAnchor /\ NeverBack /\ StopsWithLastListener /\ NeverOlder /\ HeldNeverGoesBack
========================================
