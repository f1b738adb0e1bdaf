-------------------- MODULE GatewayFetch --------------------
(***************************************************************************)
(* Fetching through untrusted HTTP gateways: polls of a community's IPNS   *)
(* name, in which several gateways race and the newest record wins, and    *)
(* fetches of a file by cid, in which the first correct answer wins.       *)
(*                                                                         *)
(* A step runs from one await to the next.  A gateway may serve any record *)
(* ever published, an IPNS chain as old as it likes, or fail; it cannot    *)
(* forge a signature.                                                      *)
(***************************************************************************)
EXTENDS Naturals, Sequences, FiniteSets

CONSTANTS
    Gateway,
    GwLimit,      \* concurrencyLimit
    GwKey, GwCid,
    gwRec,        \* gwRec[c] = [signer, anchor, at]: the record (or file) with that cid
    GwWorkload,   \* [kind, name, held, chains, serves, polls, faults]
    GwNothing

ASSUME GwAssumption ==
    /\ GwLimit \in Nat \ {0}
    /\ gwRec \in [GwCid -> [signer : GwKey, anchor : GwKey \cup {GwNothing}, at : Nat \ {0}]]
    /\ GwNothing \notin GwKey \cup GwCid /\ GwKey \cap GwCid = {}
    /\ Gateway # {}
    /\ \A j \in GwWorkload :
          /\ j.kind \in {"community", "file"} /\ j.polls \in Nat
          /\ j.name \in GwKey \cup GwCid /\ j.held \in GwCid \cup {GwNothing}
          /\ j.serves \in [Gateway -> SUBSET GwCid]
          /\ \A ch \in j.chains : ch.hops \in Seq(GwKey) /\ ch.hops # << >> /\ ch.cid \in GwCid

(* A name publishes records its own key signed. *)
ASSUME GwPublishing ==
    \A j \in GwWorkload : \A ch \in j.chains : gwRec[ch.cid].signer = ch.hops[Len(ch.hops)]

VARIABLES
    gwJob,    \* the workload chosen
    gwMem,    \* what the client remembers between polls: record, chain, cids and etags seen
    gwFetch,  \* the request to each gateway
    gwPoll    \* the fetch as a whole

gwVars == <<gwJob, gwMem, gwFetch, gwPoll>>

Idle == [pc |-> "idle", got |-> GwNothing, hops |-> << >>, record |-> FALSE, err |-> "none"]

GwAt(c) == IF c = GwNothing THEN 0 ELSE gwRec[c].at
Over(f) == f.pc \in {"idle", "done", "cleared"}
Fault(x) == x \in gwJob.faults

----------------------------------------
(* A record with an anchor claim is followed through its anchor. *)
Pinned == IF gwMem.anchor # GwNothing THEN gwMem.anchor ELSE gwJob.name

(* A poll or a fetch starts: every gateway is queued. *)
beginPoll ==
    /\ gwPoll.state = "idle" /\ gwPoll.left > 0 /\ ~gwPoll.stopped
    /\ gwFetch' = [g \in Gateway |-> [Idle EXCEPT !.pc = "queued"]]
    /\ gwPoll' = [gwPoll EXCEPT !.state = "open", !.left = @ - 1, !.kept = GwNothing, !.name = Pinned]
    /\ gwMem' = [gwMem EXCEPT !.loaded = @ \cup ({gwMem.cid} \ {GwNothing})]
    /\ UNCHANGED gwJob

(* pLimit: at most GwLimit requests are under way. *)
Running == {g \in Gateway : gwFetch[g].pc \notin {"idle", "queued", "done", "cleared"}}

request(g) ==
    /\ gwFetch[g].pc = "queued" /\ Cardinality(Running) < GwLimit
    /\ gwFetch' = [gwFetch EXCEPT ![g].pc = "requested"]
    /\ UNCHANGED <<gwJob, gwMem, gwPoll>>

----------------------------------------
(* selectWinningGatewayCommunity: the newest record, if it is newer than the *)
(* one held, with the chain of the gateway that served it. *)
Serving(fs) == {g \in Gateway : fs[g].record}

selectWinningGatewayCommunity_AnyAge(fs) ==
    {g \in Serving(fs) : \A h \in Serving(fs) : GwAt(fs[h].got) <= GwAt(fs[g].got)}

selectWinningGatewayCommunity(fs) ==
    {g \in Serving(fs) : /\ \A h \in Serving(fs) : GwAt(fs[h].got) <= GwAt(fs[g].got)
                         /\ GwAt(fs[g].got) > GwAt(gwMem.cid)}

(* cleanUp: queued gateways are rejected, the requests under way aborted. *)
CleanedUp(fs) ==
    [g \in Gateway |-> IF fs[g].pc = "queued" THEN [fs[g] EXCEPT !.pc = "cleared"] ELSE fs[g]]

Confirming(fs) == \E g \in Gateway : fs[g].err = "confirmed"
AllFailed(fs) == \A g \in Gateway : fs[g].err # "none"

Kept_LastHops(mem, fs, g) ==
    [mem EXCEPT !.cid = fs[g].got, !.anchor = gwRec[fs[g].got].anchor,
                !.hops = fs[CHOOSE h \in Gateway : fs[h].hops # << >>].hops]

(* _findRecentCommunity and updateOnce: the record that won is applied, with *)
(* the chain bound to its gateway. *)
Kept(mem, fs, g) ==
    [mem EXCEPT !.cid = fs[g].got, !.anchor = gwRec[fs[g].got].anchor, !.hops = fs[g].hops]

(* The handler of every settled gateway of a community poll. *)
CommunitySettled(fs, mem) ==
    IF gwPoll.state # "open" THEN gwFetch' = fs /\ gwMem' = mem /\ UNCHANGED gwPoll
    ELSE IF AllFailed(fs)
    THEN /\ gwFetch' = CleanedUp(fs)
         /\ gwMem' = mem
         /\ gwPoll' = [gwPoll EXCEPT !.state =
                IF gwPoll.stopped THEN "aborted"
                ELSE IF ~Confirming(fs) THEN "failed"
                ELSE IF mem.anchor # GwNothing /\ (mem.hops = << >> \/ mem.hops[1] # gwPoll.name) THEN "upgrade" ELSE "unchanged"]
    ELSE IF selectWinningGatewayCommunity(fs) # {}
    THEN \E g \in selectWinningGatewayCommunity(fs) :
            /\ gwFetch' = CleanedUp(fs)
            /\ gwMem' = Kept(mem, fs, g)
            /\ gwPoll' = [gwPoll EXCEPT !.state = "resolved", !.kept = fs[g].got]
    ELSE gwFetch' = fs /\ gwMem' = mem /\ UNCHANGED gwPoll

(* Promise.race of the first success and of all settled. *)
FileSettled(fs) ==
    /\ IF gwPoll.state # "open" THEN gwFetch' = fs /\ UNCHANGED gwPoll
       ELSE IF Serving(fs) # {}
       THEN /\ gwFetch' = CleanedUp(fs)
            /\ gwPoll' = [gwPoll EXCEPT !.state = "resolved",
                                        !.kept = fs[CHOOSE g \in Serving(fs) : TRUE].got]
       ELSE IF \A g \in Gateway : Over(fs[g])
       THEN /\ gwFetch' = fs
            /\ gwPoll' = [gwPoll EXCEPT !.state = IF gwPoll.stopped THEN "aborted" ELSE "failed"]
       ELSE gwFetch' = fs /\ UNCHANGED gwPoll
    /\ UNCHANGED gwMem

Settle(g, f, mem) ==
    LET fs == [gwFetch EXCEPT ![g] = [f EXCEPT !.pc = "done"]] IN
        IF gwJob.kind = "community" THEN CommunitySettled(fs, mem) ELSE gwMem' = mem /\ FileSettled(fs)

Failed(g, why) == Settle(g, [gwFetch[g] EXCEPT !.err = why], gwMem)
GoOn(g, f, mem) == gwFetch' = [gwFetch EXCEPT ![g] = f] /\ gwMem' = mem /\ UNCHANGED gwPoll

----------------------------------------
(* The answer's headers.  The request names the records already consumed; *)
(* 304, or an etag of one of them, ends it as a confirmation. *)
respond(g) ==
    LET f == gwFetch[g] IN
    /\ f.pc = "requested"
    /\ \/ /\ Fault("fetch") /\ Failed(g, "failed")
       \/ \E c \in gwJob.serves[g], tagged \in BOOLEAN :
            LET known == gwJob.kind = "community" /\ c \in gwMem.loaded \cup {gwMem.cid} \cup gwMem.etags IN
            IF tagged /\ known
            THEN Settle(g, [f EXCEPT !.err = "confirmed"], [gwMem EXCEPT !.etags = @ \cup {c}])
            ELSE GoOn(g, [f EXCEPT !.pc = "body", !.got = c], gwMem)
    /\ UNCHANGED gwJob

(* The body.  A file must hash to its cid; a record counts as loaded from *)
(* now on, whatever its validation says. *)
body(g) ==
    LET f == gwFetch[g]
        c == f.got IN
    /\ f.pc = "body"
    /\ IF gwJob.kind = "file"
       THEN IF c = gwPoll.name THEN Settle(g, [f EXCEPT !.record = TRUE], gwMem) ELSE Failed(g, "failed")
       ELSE IF c \in gwMem.loaded THEN Failed(g, "confirmed")
       ELSE GoOn(g, [f EXCEPT !.pc = IF gwRec[c].signer = gwPoll.name THEN "prove" ELSE "walk",
                              !.hops = <<gwPoll.name>>], [gwMem EXCEPT !.loaded = @ \cup {c}])
    /\ UNCHANGED gwJob

(* _resolveIpnsChainViaGateway: the chains this name ever had, or a failure. *)
Chains(k) == {ch \in gwJob.chains : ch.hops[1] = k}

walk(g) ==
    LET f == gwFetch[g]
        c == f.got IN
    /\ f.pc = "walk"
    /\ \/ Fault("chain") /\ Failed(g, "failed")
       \/ \E ch \in Chains(gwPoll.name) :
            IF ch.cid = c /\ gwRec[c].signer = ch.hops[Len(ch.hops)]
            THEN GoOn(g, [f EXCEPT !.pc = "prove", !.hops = ch.hops], gwMem)
            ELSE Failed(g, "failed")
    /\ UNCHANGED gwJob

Unproven(f) == Len(f.hops) = 1 /\ gwRec[f.got].anchor \notin {GwNothing, f.hops[1]}

(* _proveAnchorClaimIfUnwalked through the same gateway. *)
proveAnchorClaim(g) ==
    LET f == gwFetch[g] IN
    /\ f.pc = "prove"
    /\ IF ~Unproven(f) THEN GoOn(g, [f EXCEPT !.pc = "verify"], gwMem)
       ELSE \/ Fault("chain") /\ Failed(g, "failed")
            \/ \E ch \in Chains(gwRec[f.got].anchor) :
                IF ch.hops[Len(ch.hops)] = f.hops[1]
                THEN GoOn(g, [f EXCEPT !.pc = "verify", !.hops = ch.hops], gwMem)
                ELSE Failed(g, "failed")
    /\ UNCHANGED gwJob

Valid(f) ==
    /\ gwRec[f.got].signer = f.hops[Len(f.hops)]
    /\ Len(f.hops) > 1 => gwRec[f.got].anchor = f.hops[1]

verifyBody(g) ==
    LET f == gwFetch[g] IN
    /\ f.pc = "verify"
    /\ IF Valid(f)
       THEN Settle(g, [f EXCEPT !.record = TRUE], [gwMem EXCEPT !.etags = @ \cup {f.got}])
       ELSE Failed(g, "failed")
    /\ UNCHANGED gwJob

(* A request that its timer, cleanUp or the stop signal aborted throws at *)
(* its next network call. *)
abortRequest(g) ==
    /\ gwFetch[g].pc \in {"requested", "walk"} \cup (IF gwFetch[g].pc = "prove" /\ Unproven(gwFetch[g]) THEN {"prove"} ELSE {})
    /\ Fault("timeout") \/ gwPoll.stopped \/ gwPoll.state # "open"
    /\ Failed(g, "failed")
    /\ UNCHANGED gwJob

(* rejectOnClear: a cleared gateway rejects the community poll, and counts *)
(* as settled in a file fetch. *)
SettledByClearing(poll, fs) ==
    IF poll.state = "open" /\ (\E g \in Gateway : fs[g].pc = "cleared")
       /\ (gwJob.kind = "community" \/ \A g \in Gateway : Over(fs[g]))
    THEN [poll EXCEPT !.state = "aborted"] ELSE poll

(* The stop signal runs cleanUp. *)
stopFetch ==
    LET fs == CleanedUp(gwFetch) IN
    /\ ~gwPoll.stopped /\ Fault("stop")
    /\ gwFetch' = fs
    /\ gwPoll' = SettledByClearing([gwPoll EXCEPT !.stopped = TRUE], fs)
    /\ UNCHANGED <<gwJob, gwMem>>

(* A confirmed record whose chain was never walked: walk it once, and adopt *)
(* it only if it ends at the record held. *)
upgradeChain ==
    /\ gwPoll.state = "upgrade"
    /\ \/ (Fault("chain") \/ gwPoll.stopped) /\ UNCHANGED gwMem
       \/ \E ch \in Chains(gwPoll.name) :
            gwMem' = IF ch.cid = gwMem.cid THEN [gwMem EXCEPT !.hops = ch.hops] ELSE gwMem
    /\ gwPoll' = [gwPoll EXCEPT !.state = "unchanged"]
    /\ UNCHANGED <<gwJob, gwFetch>>

(* The fetch returned; the loop waits for the next poll. *)
Settled == gwPoll.state \in {"resolved", "failed", "unchanged", "aborted"}

endPoll ==
    /\ Settled /\ \A g \in Gateway : Over(gwFetch[g])
    /\ gwPoll' = [gwPoll EXCEPT !.state = "idle"]
    /\ gwFetch' = [g \in Gateway |-> Idle]
    /\ UNCHANGED <<gwJob, gwMem>>

GwInit ==
    /\ gwJob \in GwWorkload
    /\ gwMem = [cid |-> gwJob.held, anchor |-> IF gwJob.held = GwNothing THEN GwNothing ELSE gwRec[gwJob.held].anchor,
                hops |-> << >>, loaded |-> {}, etags |-> {}]
    /\ gwFetch = [g \in Gateway |-> Idle]
    /\ gwPoll = [state |-> "idle", left |-> gwJob.polls, name |-> gwJob.name, kept |-> GwNothing, stopped |-> FALSE]

GatewayStep(g) ==
    request(g) \/ respond(g) \/ body(g) \/ walk(g) \/ proveAnchorClaim(g) \/ verifyBody(g) \/ abortRequest(g)

GwNext == beginPoll \/ (\E g \in Gateway : GatewayStep(g)) \/ stopFetch \/ upgradeChain \/ endPoll

GwSpec == GwInit /\ [][GwNext]_gwVars

----------------------------------------
(* The chain a client holds is that of the record it holds: it ends at the *)
(* record's signer and begins at the anchor the record claims, although the *)
(* gateways that race resolve different chains. *)
HopsOfRecordHeld ==
    (gwMem.cid # GwNothing /\ gwMem.hops # << >>) => Valid([got |-> gwMem.cid, hops |-> gwMem.hops])

(* A fetch whose gateways are all done has settled, stopped or not, unless a *)
(* gateway served a valid record that is not newer than the one held. *)
FetchSettles == (gwPoll.state = "open" /\ \A g \in Gateway : Over(gwFetch[g])) => Serving(gwFetch) # {}

(* The same without the exception. *)
FetchAlwaysSettles == ~(gwPoll.state = "open" /\ \A g \in Gateway : Over(gwFetch[g]))

(* A poll never goes back to an older record, whatever order the gateways *)
(* answer in. *)
NeverOlder == [][GwAt(gwMem'.cid) >= GwAt(gwMem.cid)]_gwVars

(* Between polls, no valid record newer than the one held counts as loaded. *)
Endorsed(c) == \E ch \in Chains(Pinned) : ch.cid = c /\ Valid([got |-> c, hops |-> ch.hops])

LoadedIsHeld == gwPoll.state = "idle" => \A c \in gwMem.loaded : Endorsed(c) => GwAt(c) <= GwAt(gwMem.cid)

(* A race of gateways ends, and the winner's record and chain of keys belong *)
(* together. *)
FetchIsSound ==
    HopsOfRecordHeld /\ FetchSettles
========================================
