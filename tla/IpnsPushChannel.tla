-------------------- MODULE IpnsPushChannel --------------------
(***************************************************************************)
(* Resolving one IPNS name on a helia node: the record the routing layer   *)
(* holds, the gossip that renews it, the watchdog that says whether the    *)
(* gossip can be trusted, and the calls of name.resolve that are answered  *)
(* from the held record or from the network.                               *)
(*                                                                         *)
(* Records are their sequence numbers; a gossiped or fetched record is any *)
(* one published so far, since the validator checks the signature and the  *)
(* expiry but not the order.  A step runs from one await to the next.      *)
(***************************************************************************)
EXTENDS Integers, Sequences, FiniteSets

CONSTANTS
    IpnsCall,       \* calls of name.resolve
    IpnsGossip,     \* gossiped messages
    IpnsTtl,        \* the record's ttl, jitter included
    IpnsWatchdog,   \* IPNS_PUSH_CHANNEL_WATCHDOG_MS
    IpnsWorkload    \* [gossip, fetched, calls, nocache, joined, time, faults]; time bounds the clock

ASSUME IpnsAssumption ==
    /\ IpnsTtl \in Nat /\ IpnsWatchdog \in Nat
    /\ IpnsTtl <= IpnsWatchdog
    /\ IpnsCall \cap IpnsGossip = {}
    /\ \A j \in IpnsWorkload : j.gossip \in [IpnsGossip -> Nat] /\ j.fetched \subseteq Nat /\ j.joined \in BOOLEAN

VARIABLES
    ipJob,      \* the workload chosen
    ipNow,      \* the clock
    localStore, \* the record held: [seq, created]; 0 is none
    channel,    \* the topic and the watchdog: [joined, registered, subscribers, highest, arrival, validated]
    writer,     \* writer[w] = [pc, seq]: a message or a call on its way into the store
    writeChain, \* the per-name lock: writers of put in the order they came
    resolving,  \* resolving[c] = [pc, seq, ...]: the calls
    seen        \* [told, at, raw]: what the listeners were told, when a record as new as the held one
                \* last came, the messages the watchdog is validating

ipnsVars == <<ipJob, ipNow, localStore, channel, writer, writeChain, resolving, seen>>

IdleCall == [pc |-> "idle", seq |-> 0]
NotAsked == [pc |-> "idle", seq |-> 0, from |-> "none", told |-> 0, past |-> FALSE, healthy |-> FALSE, attested |-> FALSE]
Never == -100    \* before any window

----------------------------------------
(* The one place that moves the watchdog: a record older than the newest *)
(* seen proves nothing. *)
stampIpnsPushChannelArrival(ch, seq) ==
    IF seq < ch.highest THEN ch ELSE [ch EXCEPT !.highest = seq, !.arrival = ipNow]

isIpnsPushChannelHealthy == channel.subscribers > 0 /\ ipNow - channel.arrival < IpnsWatchdog

(* What the network just showed, whatever the watchdog makes of it. *)
Attest(seq) == [seen EXCEPT !.at = IF seq >= localStore.seq THEN ipNow ELSE @]

----------------------------------------
(* put, under the per-name lock: the record is compared with the one held at *)
(* that moment, written if it is newer, and then told to the listeners. *)
Turn(w) == Head(writeChain) = w

enterPut(w) ==
    /\ writer[w].pc = "newer"
    /\ writeChain' = Append(writeChain, w)
    /\ writer' = [writer EXCEPT ![w].pc = "queued"]
    /\ UNCHANGED <<ipJob, ipNow, localStore, channel, resolving, seen>>

(* Whoever has the turn passes it on to the next in the chain. *)
TurnPassed == Tail(writeChain)

comparePut_TellFirst(w) ==
    /\ writer[w].pc = "queued" /\ Turn(w)
    /\ \/ /\ writer[w].seq <= localStore.seq
          /\ writer' = [writer EXCEPT ![w].pc = "done"] /\ writeChain' = TurnPassed
          /\ UNCHANGED seen
       \/ /\ writer[w].seq > localStore.seq
          /\ writer' = [writer EXCEPT ![w].pc = "writing"] /\ UNCHANGED writeChain
          /\ seen' = [seen EXCEPT !.told = writer[w].seq]
    /\ UNCHANGED <<ipJob, ipNow, localStore, channel, resolving>>

comparePut(w) ==
    /\ writer[w].pc = "queued" /\ Turn(w)
    /\ \/ /\ writer[w].seq <= localStore.seq
          /\ writer' = [writer EXCEPT ![w].pc = "done"] /\ writeChain' = TurnPassed
       \/ /\ writer[w].seq > localStore.seq
          /\ writer' = [writer EXCEPT ![w].pc = "writing"] /\ UNCHANGED writeChain
    /\ UNCHANGED <<ipJob, ipNow, localStore, channel, resolving, seen>>

finishPut(w) ==
    /\ writer[w].pc = "writing"
    /\ writeChain' = TurnPassed
    /\ writer' = [writer EXCEPT ![w].pc = "done"]
    /\ \/ /\ localStore' = [seq |-> writer[w].seq, created |-> ipNow]
          /\ channel' = stampIpnsPushChannelArrival(channel, writer[w].seq)
          /\ seen' = [Attest(writer[w].seq) EXCEPT !.told = writer[w].seq]
       \/ "store" \in ipJob.faults /\ UNCHANGED <<localStore, channel, seen>>
    /\ UNCHANGED <<ipJob, ipNow, resolving>>

----------------------------------------
(* A gossiped message reaches two listeners, each with a validation of its *)
(* own: the watchdog's, which stamps, and the router's handleRecord, which *)
(* writes what is newer.  Both ignore a topic nobody registered. *)
deliver(g) ==
    /\ writer[g].pc = "idle" /\ channel.joined
    /\ writer' = [writer EXCEPT ![g] = [pc |-> IF channel.registered THEN "handled" ELSE "done", seq |-> ipJob.gossip[g]]]
    /\ seen' = [seen EXCEPT !.raw = IF channel.registered THEN @ \cup {g} ELSE @]
    /\ UNCHANGED <<ipJob, ipNow, localStore, channel, writeChain, resolving>>

onGossip(g) ==
    /\ g \in seen.raw
    /\ channel' = stampIpnsPushChannelArrival(channel, writer[g].seq)
    /\ seen' = [Attest(writer[g].seq) EXCEPT !.raw = @ \ {g}]
    /\ UNCHANGED <<ipJob, ipNow, localStore, writer, writeChain, resolving>>

(* handleRecord, and cacheIpnsRecordInPubsubLocalStore for a fetched record: *)
(* both look at the held record before they call put. *)
isNewer(w) ==
    /\ writer[w].pc = "handled"
    /\ writer' = [writer EXCEPT ![w].pc = IF writer[w].seq > localStore.seq THEN "newer" ELSE "done"]
    /\ UNCHANGED <<ipJob, ipNow, localStore, channel, writeChain, resolving, seen>>

----------------------------------------
(* name.resolve: the cache gate, on a topic already joined.  The health is *)
(* read first, the held record after an await. *)
resolve(c) ==
    /\ resolving[c].pc = "idle" /\ c \in ipJob.calls
    /\ resolving' = [resolving EXCEPT ![c] =
          [NotAsked EXCEPT !.pc = IF ~ipJob.nocache /\ channel.joined THEN "gate" ELSE "network",
                           !.told = seen.told, !.healthy = isIpnsPushChannelHealthy,
                           !.attested = ipNow - seen.at < IpnsWatchdog]]
    /\ UNCHANGED <<ipJob, ipNow, localStore, channel, writer, writeChain, seen>>

LaterOf(a, b) == IF a > b THEN a ELSE b

InsideTtl == ipNow - LaterOf(localStore.created, channel.validated) < IpnsTtl

readFreshCachedIpnsRecord(c) ==
    LET r == resolving[c]
        usable == localStore.seq > 0 /\ "expired" \notin ipJob.faults /\ (r.healthy \/ InsideTtl)
    IN /\ r.pc = "gate"
       /\ resolving' = [resolving EXCEPT ![c] =
             IF usable THEN [r EXCEPT !.pc = "done", !.seq = localStore.seq, !.from = "cache", !.past = ~InsideTtl]
                       ELSE [r EXCEPT !.pc = "network"]]
       /\ UNCHANGED <<ipJob, ipNow, localStore, channel, writer, writeChain, seen>>

(* The network path joins the topic and registers it with the router and the *)
(* watchdog before it fetches. *)
joinTopic(c) ==
    /\ resolving[c].pc = "network"
    /\ channel' = [channel EXCEPT !.joined = TRUE, !.registered = TRUE]
    /\ resolving' = [resolving EXCEPT ![c].pc = "fetching"]
    /\ UNCHANGED <<ipJob, ipNow, localStore, writer, writeChain, seen>>

(* A record from the direct fetch is stamped, then cached; one from the *)
(* fallback's router.get() is written by the router before it returns. *)
directFetched(c) ==
    /\ resolving[c].pc = "fetching"
    /\ \E seq \in ipJob.fetched :
         /\ channel' = stampIpnsPushChannelArrival([channel EXCEPT !.validated = ipNow], seq)
         /\ seen' = Attest(seq)
         /\ writer' = [writer EXCEPT ![c] = [pc |-> "handled", seq |-> seq]]
    /\ resolving' = [resolving EXCEPT ![c].pc = "caching"]
    /\ UNCHANGED <<ipJob, ipNow, localStore, writeChain>>

directMissed(c) ==
    /\ resolving[c].pc = "fetching"
    /\ resolving' = [resolving EXCEPT ![c].pc = "fallback"]
    /\ UNCHANGED <<ipJob, ipNow, localStore, channel, writer, writeChain, seen>>

answerFetched(c) ==
    /\ resolving[c].pc = "caching" /\ writer[c].pc = "done"
    /\ resolving' = [resolving EXCEPT ![c].pc = "done", ![c].seq = writer[c].seq, ![c].from = "network"]
    /\ UNCHANGED <<ipJob, ipNow, localStore, channel, writer, writeChain, seen>>

routerGet(c) ==
    /\ resolving[c].pc = "fallback"
    /\ \E seq \in ipJob.fetched : writer' = [writer EXCEPT ![c] = [pc |-> "handled", seq |-> seq]]
    /\ resolving' = [resolving EXCEPT ![c].pc = "got"]
    /\ UNCHANGED <<ipJob, ipNow, localStore, channel, writeChain, seen>>

answerFallback(c) ==
    /\ resolving[c].pc = "got" /\ writer[c].pc = "done"
    /\ channel' = stampIpnsPushChannelArrival([channel EXCEPT !.validated = ipNow], writer[c].seq)
    /\ seen' = Attest(writer[c].seq)
    /\ resolving' = [resolving EXCEPT ![c].pc = "done", ![c].seq = writer[c].seq, ![c].from = "network"]
    /\ UNCHANGED <<ipJob, ipNow, localStore, writer, writeChain>>

resolveFails(c) ==
    /\ resolving[c].pc = "fallback"
    /\ resolving' = [resolving EXCEPT ![c].pc = "done"]
    /\ UNCHANGED <<ipJob, ipNow, localStore, channel, writer, writeChain, seen>>

----------------------------------------
ipTick ==
    /\ ipNow < ipJob.time
    /\ ipNow' = ipNow + 1
    /\ UNCHANGED <<ipJob, localStore, channel, writer, writeChain, resolving, seen>>

subscribersChange ==
    /\ "mesh" \in ipJob.faults /\ channel.joined
    /\ channel' = [channel EXCEPT !.subscribers = 1 - @]
    /\ UNCHANGED <<ipJob, ipNow, localStore, writer, writeChain, resolving, seen>>

IpnsInit ==
    /\ ipJob \in IpnsWorkload
    /\ ipNow = 0
    /\ localStore = [seq |-> IF ipJob.joined THEN 1 ELSE 0, created |-> IF ipJob.joined THEN 0 ELSE Never]
    /\ channel = [joined |-> ipJob.joined, registered |-> ipJob.joined, subscribers |-> 1,
                  highest |-> localStore.seq, arrival |-> localStore.created, validated |-> localStore.created]
    /\ writer = [w \in IpnsCall \cup IpnsGossip |-> IdleCall]
    /\ writeChain = << >>
    /\ resolving = [c \in IpnsCall |-> NotAsked]
    /\ seen = [told |-> localStore.seq, at |-> localStore.created, raw |-> {}]

IpnsNext ==
    \/ \E w \in IpnsCall \cup IpnsGossip : isNewer(w) \/ enterPut(w) \/ comparePut(w) \/ finishPut(w)
    \/ \E g \in IpnsGossip : deliver(g) \/ onGossip(g)
    \/ \E c \in IpnsCall :
         \/ resolve(c) \/ readFreshCachedIpnsRecord(c) \/ joinTopic(c) \/ directFetched(c) \/ directMissed(c)
         \/ answerFetched(c) \/ routerGet(c) \/ answerFallback(c) \/ resolveFails(c)
    \/ ipTick \/ subscribersChange

IpnsSpec == IpnsInit /\ [][IpnsNext]_ipnsVars

----------------------------------------
(* The held record is never replaced by an older one, however gossip, direct *)
(* fetches and the fallback interleave between their checks and their puts. *)
HeldNeverGoesBack == [][localStore'.seq >= localStore.seq]_ipnsVars

(* A listener that is told of a record and resolves the name again is not *)
(* answered from the cache with the one before it. *)
AnswersWhatWasTold ==
    \A c \in IpnsCall : resolving[c].from = "cache" => resolving[c].seq >= resolving[c].told

(* The held record is served past its ttl only if, when the call came, the *)
(* network had shown a record at least as new as the held one inside the *)
(* watchdog's window: replays of old records do not keep the window open. *)
PastTtlIsAttested ==
    \A c \in IpnsCall : resolving[c].from = "cache" /\ resolving[c].past => resolving[c].attested

(* The record a resolve is given without asking the network is one the *)
(* network still stands behind: not older than one already told of, and past *)
(* its ttl only while the topic attests it. *)
CacheAnswersTruly ==
    AnswersWhatWasTold /\ PastTtlIsAttested
========================================
