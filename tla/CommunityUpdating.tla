-------------------- MODULE CommunityUpdating --------------------
(***************************************************************************)
(* Reading a community: the updating instance that pkc shares between the  *)
(* instances of the application (the loaders), its update loop over kubo   *)
(* or libp2p-js, the IPNS chain from an anchor to its minter, the name     *)
(* that is resolved in the background, and the migration to a new key.     *)
(*                                                                         *)
(* A step runs from one await to the next.  An await that was aborted      *)
(* throws; one that settled goes on at once.  Creating the instance that   *)
(* the loaders share is one step, and names that are aliases (.eth, .bso)  *)
(* are one name.  The race of several gateways is in GatewayFetch.         *)
(***************************************************************************)
EXTENDS Naturals, Sequences, FiniteSets

CONSTANTS
    Key, Name, Cid,
    rec,          \* rec[c]: the community record with that cid
    Loader,
    Asks,         \* Asks[l] = [name, key]: what a loader was created with
    Updater,      \* updating instances that may be created
    UpdWorkload,  \* [ipns, txt, script, loaders, push, faults]
    Nothing

ASSUME UpdAssumption ==
    /\ rec \in [Cid -> [signer : Key, anchor : Key \cup {Nothing}, name : Name \cup {Nothing}, at : Nat \ {0}]]
    /\ Asks \in [Loader -> [name : Name \cup {Nothing}, key : Key \cup {Nothing}]]
    /\ \A l \in Loader : Asks[l].name # Nothing \/ Asks[l].key # Nothing
    /\ Nothing \notin Key \cup Name \cup Cid /\ "deeper" \notin Key \cup Cid
    /\ Key \cap Cid = {} /\ Key \cap Name = {}
    /\ UpdWorkload \subseteq [ipns : [Key -> Key \cup Cid \cup {Nothing}], txt : [Name -> Key \cup {Nothing}],
                              script : Seq([at : Key, to : Key \cup Cid] \cup [at : Name, to : Key \cup {Nothing}]),
                              loaders : SUBSET Loader, push : BOOLEAN, faults : SUBSET {"name", "resolve", "fetch"}]

VARIABLES
    net,     \* [ipns, txt, script, endorsed, vouched]: what is published, what will be, what ever was
    cache,   \* [ipns, named]: the routing cache that gossip feeds, the cache of resolved names
    upd,     \* the updating instances with their loops
    loader,
    job      \* the workload chosen

updVars == <<net, cache, upd, loader, job>>

Range2(s) == {s[n] : n \in 1..Len(s)}
Last2(s) == s[Len(s)]
RecAt(c) == IF c = Nothing THEN 0 ELSE rec[c].at
Either(a, b) == IF a # Nothing THEN a ELSE b
First2(hops) == IF hops = << >> THEN Nothing ELSE hops[1]
Fails(f) == f \in job.faults

(* astray is history: the instance fetched from another key than the one it *)
(* shows a record of; or the loader was shown a record by one that had. *)
(* The loop is off, begins a cycle, attempts again, resolves the name, walks *)
(* the IPNS chain, fetches the file, proves the claim, verifies, is parked. *)
NoUpdater == [
    state |-> "none", addr |-> Nothing, publicKey |-> Nothing, name |-> Nothing, anchor |-> Nothing,
    ipnsName |-> Nothing, hops |-> << >>, cid |-> Nothing, loaded |-> {}, verdict |-> "unknown", floors |-> {},
    bg |-> Nothing, bgSig |-> 0, sig |-> 0, aliases |-> {}, topics |-> {}, news |-> {}, heard |-> {}, revalidate |-> FALSE,
    pc |-> "off", keyAt |-> Nothing, sigOnce |-> 0, sigAt |-> 0, astray |-> FALSE, walk |-> << >>, got |-> Nothing]

NoLoader == [
    state |-> "none", publicKey |-> Nothing, name |-> Nothing, cid |-> Nothing, verdict |-> "unknown",
    told |-> {}, refused |-> {}, on |-> Nothing, owed |-> Nothing, astray |-> FALSE]

LoaderAddress(l) == Either(Asks[l].name, Asks[l].key)

----------------------------------------
(* The IPNS name a fetch goes to without resolving anything. *)
_pinnedIpnsName(x) ==
    IF x.publicKey # Nothing /\ (x.addr \in Name \/ x.anchor # Nothing \/ (x.name # Nothing /\ x.verdict = "yes"))
    THEN x.publicKey ELSE Nothing

WatchedNames(x) ==
    LET pre == Either(x.ipnsName, Either(_pinnedIpnsName(x), IF x.addr \in Key THEN x.addr ELSE Nothing)) IN
        IF x.hops # << >> THEN Range2(x.hops) ELSE {pre} \ {Nothing}

_syncIpnsArrivalSubscriptions(x) == IF job.push THEN [x EXCEPT !.topics = WatchedNames(x)] ELSE x

Unconsumed(x, v) == IF v \in Key THEN v \notin Range2(x.hops) ELSE v \notin x.loaded \cup {x.cid}

_onIpnsRecordArrival_OnlyParked(x, names, at) ==
    LET new == {k \in names \cap x.topics : Unconsumed(x, at[k])}
        y == [x EXCEPT !.heard = {p \in @ : p[1] \notin names} \cup {<<k, at[k]>> : k \in new}] IN
        IF new # {} /\ x.pc = "parked" THEN [y EXCEPT !.pc = "begin", !.news = {}, !.revalidate = FALSE] ELSE y

(* Records land in the routing cache.  A parked loop wakes; one in a cycle *)
(* keeps what arrived until it parks. *)
_onIpnsRecordArrival(x, names, at) ==
    LET new == {k \in names \cap x.topics : Unconsumed(x, at[k])}
        y == [x EXCEPT !.heard = {p \in @ : p[1] \notin names} \cup {<<k, at[k]>> : k \in new}] IN
        IF new # {} /\ x.pc = "parked" THEN [y EXCEPT !.pc = "begin", !.news = {}, !.revalidate = FALSE]
        ELSE [y EXCEPT !.news = @ \cup {at[k] : k \in new}]

(* The end of a cycle: subscriptions follow the chain, and what arrived *)
(* meanwhile and was not consumed starts the next cycle at once. *)
_sleepUntilIpnsArrival(x) ==
    LET y == _syncIpnsArrivalSubscriptions(x)
        new == {v \in y.news : Unconsumed(y, v)} IN
        IF new # {} THEN [y EXCEPT !.pc = "begin", !.news = {}, !.revalidate = FALSE]
        ELSE [y EXCEPT !.pc = "parked", !.news = {}]

_resolveNameInBackground(x, n) ==
    IF x.bg # Nothing \/ "failed" \in x.floors \/ (x.verdict = "no" /\ "no" \in x.floors) THEN x
    ELSE [x EXCEPT !.bg = n, !.bgSig = x.sig]

----------------------------------------
(* initRemoteCommunityPropsNoMerge: the record is the authority for anchor, *)
(* key and name; a name that changed loses its verdict. *)
RecordKey(c, hops) == Either(rec[c].anchor, Either(First2(hops), rec[c].signer))

ProvenName(x) == IF x.addr \in Name /\ x.name # x.addr THEN Nothing ELSE x.name

Aliased(x, before) ==
    LET now == {ProvenName(x), x.publicKey} \ {Nothing}
        stale == IF before # Nothing /\ before # x.name THEN {before} ELSE {} IN
        [x EXCEPT !.aliases = (@ \ (stale \ now)) \cup now]

initCommunityIpfsPropsNoMerge(x, c) ==
    LET key == RecordKey(c, x.hops)
        y == [x EXCEPT !.cid = c, !.anchor = rec[c].anchor, !.name = rec[c].name, !.publicKey = key,
                       !.ipnsName = Either(rec[c].anchor, First2(x.hops)),
                       !.verdict = IF x.name # Nothing /\ x.name # rec[c].name THEN "unknown" ELSE @, !.astray = FALSE] IN
        Aliased(y, x.name)

_clearDataForKeyMigration(x, k) ==
    [x EXCEPT !.cid = Nothing, !.anchor = Nothing, !.publicKey = k, !.ipnsName = k, !.hops = <<k>>, !.astray = FALSE]

(* findCommunityRecordNameMismatch *)
NameMismatch(l, c) == Asks[l].name # Nothing /\ rec[c].name # Asks[l].name

_adoptMirroredNameResolved(y, x, before) ==
    LET classified == IF x.addr \in Name THEN x.addr ELSE x.name IN
        IF y.name # Nothing /\ y.name = classified THEN IF x.verdict # "unknown" THEN x.verdict ELSE y.verdict
        ELSE IF y.name # Nothing /\ y.name = before.name THEN before.verdict
        ELSE "unknown"

ShowRecord(y, c, hops) ==
    [y EXCEPT !.cid = c, !.name = rec[c].name, !.publicKey = RecordKey(c, hops),
              !.verdict = IF y.name # Nothing /\ y.name # rec[c].name THEN "unknown" ELSE @]

(* The update handler of a loader that mirrors an updating instance. *)
Mirror(l, y, x) ==
    IF x.cid # Nothing /\ NameMismatch(l, x.cid) THEN [y EXCEPT !.refused = {rec[x.cid].at}]
    ELSE LET z == IF x.cid = Nothing THEN [y EXCEPT !.cid = Nothing, !.publicKey = x.publicKey]
                  ELSE [ShowRecord(y, x.cid, x.hops) EXCEPT !.astray = x.astray] IN
             [z EXCEPT !.verdict = _adoptMirroredNameResolved(z, x, y)]

Emit(u, x) == [l \in Loader |-> IF loader[l].on = u THEN Mirror(l, loader[l], x) ELSE loader[l]]
Set(u, x) == upd' = [upd EXCEPT ![u] = x]

----------------------------------------
(* The cycle.  Each attempt runs under the stop signal of its own moment; *)
(* what it brings is judged by the key and signal the cycle began under. *)
FetchFrom(x, k) ==
    LET verify == IF x.addr \in Key /\ x.name # Nothing /\ x.publicKey # Nothing /\ x.verdict # "yes"
                  THEN _resolveNameInBackground(x, x.name) ELSE x
        seeded == IF x.ipnsName = k THEN verify
                  ELSE _syncIpnsArrivalSubscriptions([verify EXCEPT !.ipnsName = k, !.hops = <<k>>]) IN
        [seeded EXCEPT !.loaded = @ \cup ({x.cid} \ {Nothing}), !.walk = <<k>>, !.pc = "resolve",
                       !.astray = @ \/ (x.cid # Nothing /\ k # x.publicKey)]

Attempt(x) ==
    LET pinned == _pinnedIpnsName(x) IN
        IF pinned # Nothing
        THEN FetchFrom(IF x.addr \in Name THEN _resolveNameInBackground(x, x.addr) ELSE x, pinned)
        ELSE IF x.addr \in Key THEN FetchFrom(x, x.addr)
        ELSE [x EXCEPT !.pc = "naming"]

updateOnce(u) ==
    LET x == upd[u] IN
    /\ x.pc \in {"begin", "retry"}
    /\ Set(u, Attempt(IF x.pc = "begin" THEN [x EXCEPT !.keyAt = x.publicKey, !.sigOnce = x.sig, !.sigAt = x.sig]
                  ELSE [x EXCEPT !.sigAt = x.sig]))
    /\ UNCHANGED <<net, cache, loader, job>>

(* _resolveViaNameResolvers: a cached answer or a new one, which is cached. *)
NameAnswer(n, k) ==
    \/ k = cache.named[n] /\ k # Nothing /\ UNCHANGED cache
    \/ k = net.txt[n] /\ cache' = IF k = Nothing THEN cache ELSE [cache EXCEPT !.named[n] = k]

resolveAddress(u) ==
    LET x == upd[u] IN
    /\ x.pc = "naming"
    /\ \/ x.sig # x.sigAt /\ Set(u, _sleepUntilIpnsArrival(x)) /\ UNCHANGED cache
       \/ Fails("name") /\ Set(u, [x EXCEPT !.pc = "retry"]) /\ UNCHANGED cache
       \/ x.sig = x.sigAt
          /\ \E k \in Key \cup {Nothing} :
                NameAnswer(x.addr, k) /\ Set(u, IF k = Nothing THEN [x EXCEPT !.pc = "retry"] ELSE FetchFrom(x, k))
    /\ UNCHANGED <<net, loader, job>>

(* resolveIpnsToCidP2P: hop by hop, at most one delegation.  libp2p-js may *)
(* answer from the cache that gossip feeds; what it fetches goes into it. *)
Walk(view, k) ==
    IF view[k] \notin Key THEN [hops |-> <<k>>, value |-> view[k]]
    ELSE [hops |-> <<k, view[k]>>, value |-> IF view[view[k]] \in Key THEN "deeper" ELSE view[view[k]]]

Views(x) ==
    {[k \in Key |-> IF k \in cached THEN cache.ipns[k] ELSE net.ipns[k]] :
        cached \in IF job.push /\ ~x.revalidate THEN SUBSET {k \in Key : cache.ipns[k] # Nothing} ELSE {{}}}

(* What a walk fetches goes into the cache, and all who watch the name are *)
(* told, the loop that walks included. *)
NewlyFetched(view, hops) == {k \in Range2(hops) : job.push /\ view[k] \notin {Nothing, cache.ipns[k]}}
Cached(view, hops) == [cache EXCEPT !.ipns = [k \in Key |-> IF k \in NewlyFetched(view, hops) THEN view[k] ELSE @[k]]]
Told(view, hops) == [v \in Updater |-> _onIpnsRecordArrival(upd[v], NewlyFetched(view, hops), view)]

_fetchCommunityIpnsP2PAndVerify(u) ==
    LET x == upd[u] IN
    /\ x.pc = "resolve"
    /\ \/ x.sig # x.sigAt /\ Set(u, _sleepUntilIpnsArrival(x)) /\ UNCHANGED cache
       \/ Fails("resolve") /\ Set(u, [x EXCEPT !.pc = "retry", !.revalidate = FALSE]) /\ UNCHANGED cache
       \/ x.sig = x.sigAt /\ \E view \in Views(x) :
            LET w == Walk(view, x.walk[1])
                told == Told(view, w.hops)
                y == [told[u] EXCEPT !.revalidate = FALSE]
                z == [y EXCEPT !.hops = w.hops, !.walk = w.hops, !.got = w.value] IN
            /\ cache' = Cached(view, w.hops)
            /\ upd' = [told EXCEPT ![u] = IF w.value = Nothing THEN [y EXCEPT !.pc = "retry"]
                                         ELSE IF w.value = "deeper" THEN _sleepUntilIpnsArrival(y)
                                         ELSE IF w.value \in x.loaded THEN _sleepUntilIpnsArrival(z)
                                         ELSE [z EXCEPT !.pc = "fetch"]]
    /\ UNCHANGED <<net, loader, job>>

(* _fetchCidP2P: the cid counts as loaded from now on. *)
fetchRecord(u) ==
    LET x == upd[u] IN
    /\ x.pc = "fetch"
    /\ \/ x.sig # x.sigAt /\ Set(u, _sleepUntilIpnsArrival(x))
       \/ Fails("fetch") /\ Set(u, [x EXCEPT !.pc = "retry"])
       \/ x.sig = x.sigAt /\ Set(u, [x EXCEPT !.loaded = @ \cup {x.got}, !.pc = "prove"])
    /\ UNCHANGED <<net, cache, loader, job>>

(* _proveAnchorClaimIfUnwalked: a claim that no walked hop vouches for is *)
(* proved by walking the chain of the anchor it names.  The hops of a cycle *)
(* that needs no proof are kept, whatever became of the community meanwhile. *)
NeedsProof(x) == Len(x.walk) = 1 /\ rec[x.got].anchor \notin {Nothing, x.walk[1]}

proveClaim(u) ==
    LET x == upd[u] IN
    /\ x.pc = "prove"
    /\ \/ ~NeedsProof(x) /\ Set(u, [x EXCEPT !.hops = x.walk, !.pc = "verify"]) /\ UNCHANGED cache
       \/ NeedsProof(x) /\ x.sig # x.sigAt /\ Set(u, _sleepUntilIpnsArrival(x)) /\ UNCHANGED cache
       \/ NeedsProof(x) /\ Fails("resolve") /\ Set(u, [x EXCEPT !.pc = "retry"]) /\ UNCHANGED cache
       \/ NeedsProof(x) /\ x.sig = x.sigAt /\ \E view \in Views(x) :
            LET w == Walk(view, rec[x.got].anchor)
                told == Told(view, w.hops)
                y == told[u] IN
            /\ cache' = Cached(view, w.hops)
            /\ upd' = [told EXCEPT ![u] = IF w.value = Nothing THEN [y EXCEPT !.pc = "retry"]
                                         ELSE IF w.value = "deeper" \/ Last2(w.hops) # x.walk[1] THEN _sleepUntilIpnsArrival(y)
                                         ELSE [y EXCEPT !.hops = w.hops, !.walk = w.hops, !.pc = "verify"]]
    /\ UNCHANGED <<net, loader, job>>

(* _findErrorInCommunityRecord with the chain rule of verifyCommunity. *)
ValidRecord(c, walk) == rec[c].signer = Last2(walk) /\ (Len(walk) > 1 => rec[c].anchor = walk[1])

verifyRecord(u) ==
    LET x == upd[u] IN
    /\ x.pc = "verify"
    /\ Set(u, IF ValidRecord(x.got, x.walk) THEN [x EXCEPT !.pc = "apply"] ELSE _sleepUntilIpnsArrival(x))
    /\ UNCHANGED <<net, cache, loader, job>>

StaleResult(x) == x.sig # x.sigOnce \/ x.publicKey # x.keyAt

Applied(x) ==
    LET y == initCommunityIpfsPropsNoMerge(x, x.got)
        z == IF x.publicKey # Nothing /\ y.publicKey # x.publicKey
             THEN [y EXCEPT !.verdict = "unknown", !.floors = {}] ELSE y
        name == IF z.addr \in Name THEN z.addr ELSE z.name IN
        IF name # Nothing /\ z.verdict # "yes" THEN _resolveNameInBackground(z, name) ELSE z

applyUpdate(u) ==
    LET x == upd[u] IN
    /\ x.pc = "apply"
    /\ IF StaleResult(x) \/ RecAt(x.got) <= RecAt(x.cid)
       THEN Set(u, _sleepUntilIpnsArrival(x)) /\ UNCHANGED loader
       ELSE LET y == Applied(x) IN Set(u, _sleepUntilIpnsArrival(y)) /\ loader' = Emit(u, y)
    /\ UNCHANGED <<net, cache, job>>

(* The park ends by the safety-net timer, or by the poll of kubo. *)
safetyNet(u) ==
    LET x == upd[u] IN
    /\ x.pc = "parked"
    /\ \E revalidate \in IF job.push THEN BOOLEAN ELSE {FALSE} : Set(u, [x EXCEPT !.pc = "begin", !.revalidate = revalidate])
    /\ UNCHANGED <<net, cache, loader, job>>

----------------------------------------
(* The answer to a name resolved in the background. *)
nameStillIdentifiesCommunity(x) == x.bg = IF x.addr \in Name THEN x.addr ELSE x.name

OwnHops(x) == IF x.cid = Nothing THEN {} ELSE (Range2(x.hops) \cup {rec[x.cid].signer}) \ {x.publicKey}

(* _applyKeyMigration: everything of the old key goes, the subscriptions *)
(* move, the fetch under way is aborted; the abort also ends a park. *)
Migrated(x, k) ==
    _syncIpnsArrivalSubscriptions(
        [_clearDataForKeyMigration(x, k) EXCEPT
            !.loaded = {}, !.verdict = "yes", !.news = {}, !.heard = {}, !.sig = @ + 1,
            !.pc = IF @ = "parked" THEN "begin" ELSE @])

Verdict(x, v) ==
    [x EXCEPT !.verdict = v, !.floors = IF v = "no" THEN {"no"} ELSE {}]

EmitVerdict(u, x, y) == IF x.verdict # y.verdict /\ x.cid # Nothing THEN loader' = Emit(u, y) ELSE UNCHANGED loader

answerName(u) ==
    LET x == upd[u]
        done == [x EXCEPT !.bg = Nothing] IN
    /\ x.bg # Nothing /\ x.state = "updating"
    /\ \/ x.bgSig # x.sig /\ Set(u, done) /\ UNCHANGED <<cache, loader>>
       \/ /\ x.bgSig = x.sig /\ Fails("name")
          /\ Set(u, [done EXCEPT !.floors = @ \cup {"failed"}]) /\ UNCHANGED <<cache, loader>>
       \/ /\ x.bgSig = x.sig
          /\ \E k \in Key \cup {Nothing} :
              /\ NameAnswer(x.bg, k)
              /\ IF ~nameStillIdentifiesCommunity(x) THEN Set(u, done) /\ UNCHANGED loader
                 ELSE IF k # Nothing /\ k # x.publicKey /\ k \notin OwnHops(x)
                 THEN \E revalidate \in IF job.push /\ x.pc = "parked" THEN BOOLEAN ELSE {x.revalidate} :
                      LET y == [Migrated(done, k) EXCEPT !.revalidate = revalidate] IN
                      /\ Set(u, y)
                      /\ loader' = [l \in Loader |-> IF loader[l].on = u
                                      THEN [Mirror(l, loader[l], y) EXCEPT !.told = @ \cup {k}] ELSE loader[l]]
                 ELSE LET y == Verdict(done, IF k = x.publicKey THEN "yes" ELSE "no") IN
                      Set(u, y) /\ EmitVerdict(u, x, y)
    /\ UNCHANGED <<net, job>>

floorExpires(u) ==
    /\ upd[u].floors # {} /\ upd[u].state = "updating"
    /\ Set(u, [upd[u] EXCEPT !.floors = {}])
    /\ UNCHANGED <<net, cache, loader, job>>

----------------------------------------
(* The loaders.  A lookup that matches two instances throws. *)
findUpdatingCommunity(y) ==
    {u \in Updater : upd[u].state = "updating" /\ upd[u].aliases \cap {y.publicKey, y.name} # {}}

(* createCommunity: a new instance starts from the record of the updating *)
(* instance, unless that moved to another key or lost the name. *)
WarmStart(l, y, x) ==
    IF RecAt(x.cid) = 0 THEN y
    ELSE IF y.publicKey # Nothing /\ y.publicKey # x.publicKey THEN [y EXCEPT !.owed = x.publicKey]
    ELSE IF NameMismatch(l, x.cid) THEN y
    ELSE LET z == ShowRecord(y, x.cid, << >>) IN [z EXCEPT !.verdict = _adoptMirroredNameResolved(z, x, y)]

createCommunity(l) ==
    LET y == [NoLoader EXCEPT !.state = "stopped", !.publicKey = Asks[l].key, !.name = Asks[l].name]
        found == findUpdatingCommunity(y) IN
    /\ l \in job.loaders /\ loader[l].state = "none"
    /\ Cardinality(found) < 2
    /\ loader' = [loader EXCEPT ![l] = IF found = {} THEN y ELSE WarmStart(l, y, upd[CHOOSE u \in found : TRUE])]
    /\ UNCHANGED <<net, cache, upd, job>>

(* _announcePendingWarmStartKeyMigrationIfAny *)
Announced(y, k) ==
    IF k = Nothing THEN y
    ELSE [y EXCEPT !.cid = Nothing, !.publicKey = k, !.told = @ \cup {k}, !.owed = Nothing,
                   !.verdict = IF y.name # Nothing THEN "yes" ELSE @]

NewUpdater(l, y) ==
    LET a == LoaderAddress(l)
        x == [NoUpdater EXCEPT !.state = "updating", !.addr = a, !.name = IF a \in Name THEN a ELSE Nothing,
                               !.publicKey = IF a \in Key THEN a ELSE y.publicKey, !.pc = "begin", !.sig = 1] IN
        _syncIpnsArrivalSubscriptions(Aliased(x, Nothing))

(* fetchLatestCommunityOrSubscribeToEvent, once the listeners are attached: *)
(* a migration the loader has not seen is announced, a newer record replayed.*)
Attached(l, y, u, x) ==
    LET moved == IF {y.publicKey, x.publicKey} # {Nothing} /\ Nothing \notin {y.publicKey, x.publicKey}
                    /\ y.publicKey # x.publicKey THEN x.publicKey ELSE Nothing
        z == Announced([y EXCEPT !.on = u], moved) IN
        IF RecAt(z.cid) < RecAt(x.cid) THEN Mirror(l, z, x) ELSE z

update(l) ==
    LET y == Announced([loader[l] EXCEPT !.state = "updating"], loader[l].owed)
        found == findUpdatingCommunity(y) IN
    /\ loader[l].state = "stopped" /\ Cardinality(found) < 2
    /\ IF found # {}
       THEN LET u == CHOOSE v \in found : TRUE IN
            loader' = [loader EXCEPT ![l] = Attached(l, y, u, upd[u])] /\ UNCHANGED upd
       ELSE \E u \in Updater :
            /\ upd[u].state = "none"
            /\ LET x == NewUpdater(l, y) IN
               /\ upd' = [v \in Updater |-> IF v = u THEN x ELSE [upd[v] EXCEPT !.aliases = @ \ x.aliases]]
               /\ loader' = [loader EXCEPT ![l] = Attached(l, y, u, x)]
    /\ UNCHANGED <<net, cache, job>>

(* stop: the last loader that leaves untracks the instance and ends its loop.*)
stop(l) ==
    LET u == loader[l].on IN
    /\ loader[l].state = "updating"
    /\ loader' = [loader EXCEPT ![l].state = "done", ![l].on = Nothing]
    /\ upd' = IF \E m \in Loader \ {l} : loader[m].on = u THEN upd
              ELSE [upd EXCEPT ![u] = [NoUpdater EXCEPT !.state = "stopped"]]
    /\ UNCHANGED <<net, cache, job>>

----------------------------------------
(* The network: records and names change as the workload says, and a record *)
(* is pushed to those who watch its name, or the push is lost. *)
Changed(c) == IF c.at \in Key THEN [net EXCEPT !.ipns[c.at] = c.to] ELSE [net EXCEPT !.txt[c.at] = c.to]

publish ==
    LET c == Head(net.script)
        n == Changed(c) IN
    /\ net.script # << >>
    /\ net' = [n EXCEPT !.script = Tail(@),
                        !.endorsed = @ \cup {<<k, n.ipns[k]>> : k \in {j \in Key : n.ipns[j] \in Key}},
                        !.vouched = @ \cup {<<m, n.txt[m]>> : m \in Name}]
    /\ \/ c.at \in Key /\ job.push
          /\ cache' = [cache EXCEPT !.ipns[c.at] = c.to]
          /\ upd' = [u \in Updater |-> _onIpnsRecordArrival(upd[u], {c.at}, n.ipns)]
       \/ UNCHANGED <<cache, upd>>
    /\ UNCHANGED <<loader, job>>

UpdInit ==
    /\ job \in UpdWorkload
    /\ net = [ipns |-> job.ipns, txt |-> job.txt, script |-> job.script,
              endorsed |-> {<<k, job.ipns[k]>> : k \in {j \in Key : job.ipns[j] \in Key}},
              vouched |-> {<<m, job.txt[m]>> : m \in Name}]
    /\ cache = [ipns |-> [k \in Key |-> Nothing], named |-> [m \in Name |-> Nothing]]
    /\ upd = [u \in Updater |-> NoUpdater]
    /\ loader = [l \in Loader |-> NoLoader]

UpdaterStep(u) ==
    \/ updateOnce(u) \/ resolveAddress(u) \/ _fetchCommunityIpnsP2PAndVerify(u) \/ fetchRecord(u)
    \/ proveClaim(u) \/ verifyRecord(u) \/ applyUpdate(u) \/ safetyNet(u) \/ answerName(u) \/ floorExpires(u)

UpdNext ==
    \/ publish
    \/ \E u \in Updater : UpdaterStep(u)
    \/ \E l \in Loader : createCommunity(l) \/ update(l) \/ stop(l)

UpdSpec == UpdInit /\ [][UpdNext]_updVars

----------------------------------------
(* A community is shown under a key only with a record of that key: signed *)
(* by it, or by a minter it has delegated to.  What a fetch brings after the *)
(* name moved to another key is not shown (updateOnce), and an anchor that a *)
(* record merely claims is not believed (_proveAnchorClaimIfUnwalked).  An *)
(* instance addressed by a key, that its name moved to another one, is not *)
(* pinned while the record of that one claims no name that was looked up *)
(* (_pinnedIpnsName): the next cycle goes to the address again, and who is *)
(* shown its record then is shown it under the key of the address. *)
Endorses(k, c) == rec[c].signer = k \/ <<k, rec[c].signer>> \in net.endorsed

ShownUnderItsKey ==
    /\ \A u \in Updater : upd[u].cid # Nothing => Endorses(upd[u].publicKey, upd[u].cid)
    /\ \A l \in Loader : loader[l].cid # Nothing /\ ~loader[l].astray => Endorses(loader[l].publicKey, loader[l].cid)

(* A loop that sleeps has consumed every record that was pushed to it, until *)
(* the name it watches says something else: what arrived during the cycle is *)
(* not lost (_consumePendingIpnsArrivals).  A chain of more than one *)
(* delegation is refused, and a loop sleeps on what was pushed to it there. *)
ChainsAreShort == \A p, q \in net.endorsed : p[2] # q[1]

NoMissedArrival ==
    ChainsAreShort => \A u \in Updater : upd[u].pc = "parked" /\ job.push =>
        \A p \in upd[u].heard : p[1] \in upd[u].topics => ~Unconsumed(upd[u], p[2])

(* Not checked, and not so: what a sleeping loop heard it shows, or shows *)
(* something as new.  An attempt that a migration found in its backoff *)
(* fetches the record of the new key, which counts as loaded from then on, *)
(* and whose result is thrown away (updateOnce). *)
HeardIsShown ==
    \A u \in Updater : upd[u].pc = "parked" /\ job.push =>
        \A p \in upd[u].heard : p[1] \in upd[u].topics /\ p[2] \in Cid => rec[p[2]].at <= RecAt(upd[u].cid)

(* A name counts as resolved only for a key it once resolved to: a record *)
(* that moves the identity to its anchor takes the verdict away.  (The *)
(* loaders that mirror the instance keep theirs until the next verdict.) *)
ClassifiedName(x) == IF x.addr \in Name THEN x.addr ELSE x.name

VerdictIsVouched ==
    \A u \in Updater : LET x == upd[u] IN
        (x.verdict = "yes" /\ ClassifiedName(x) # Nothing) => <<ClassifiedName(x), x.publicKey>> \in net.vouched

(* A loader that asked for a name shows only records that claim it, although *)
(* it shares its updating instance with loaders that asked for the key. *)
RequestedNameClaimed == \A l \in Loader : loader[l].cid # Nothing => ~NameMismatch(l, loader[l].cid)

(* A delegated community whose TXT record points at its own minter has not *)
(* moved: its loaders are not told of a migration to the minter. *)
MinterIsNoMigration == \A l \in Loader : \A k \in loader[l].told : <<Asks[l].key, k>> \notin net.endorsed

(* A loader never changes to another key without an error, except to the *)
(* anchor its record claims (the #332 window included).  Left out: a loader *)
(* that joined an instance which did not know its key yet has nothing to be *)
(* compared with, and follows the key that instance finds; and one that is *)
(* shown the record of an instance gone astray. *)
JoinedBlind(l) == loader[l].on # Nothing /\ upd[loader[l].on].publicKey = Nothing

SilentReKeyIsReAnchor ==
    [][\A l \in Loader :
        LET old == loader[l].publicKey
            new == loader'[l].publicKey IN
        (old # Nothing /\ new # old /\ ~JoinedBlind(l) /\ ~loader'[l].astray)
            => new \in loader'[l].told \/ (loader'[l].cid # Nothing /\ rec[loader'[l].cid].anchor = new)]_updVars

(* What a community shows is what its identity vouches for, for every loader *)
(* that shares its updating instance, and nothing pushed to it is slept *)
(* through: re-keyed communities, names and late results included. *)
UpdatesAreTrue ==
    ShownUnderItsKey /\ NoMissedArrival /\ VerdictIsVouched /\ RequestedNameClaimed
========================================
