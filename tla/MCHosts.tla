-------------------- MODULE MCHosts --------------------
(***************************************************************************)
(* The processes that host communities, one part in each behaviour: the    *)
(* comments they store, the RPC server and its clients, the life of a      *)
(* community and the helia node they share. The parts share no state, so   *)
(* that each behaviour picks one and leaves the others at their first      *)
(* state.                                                                  *)
(***************************************************************************)
EXTENDS CommentStore, RpcServer, RpcClient, CommunityLifecycle, HeliaNode, TLC

CONSTANTS po, ra, rb, rq, qa, qb, ap, aq, di, rj, pp, pr, pq, ba, de, vo, a1, a2,
          xa, xb, ka, ha, hb, sa, sb, re, ta, tb, ed, dl, ua, ub, pu, un, ga, gb, cm,
          w1, w2, f1, f2, h1, h2, b1, b2

VARIABLE part

----------------------------------------
(* Comments: a post with two replies, two posts that wait for approval. *)
StoreParents == po :> Nil @@ ra :> po @@ rb :> po @@ rq :> po @@ qa :> Nil @@ qb :> Nil
StoreKinds ==
    ap :> "approve" @@ aq :> "approve" @@ di :> "disapprove" @@ rj :> "reject" @@ pp :> "purge" @@ pr :> "purge" @@ pq :> "purge" @@ ba :> "ban" @@ de :> "delete" @@ vo :> "vote"
StoreTargets == ap :> qa @@ aq :> rq @@ pq :> rq @@ di :> qa @@ rj :> qa @@ pp :> po @@ pr :> ra @@ ba :> ra @@ de :> qa @@ vo :> ra
StoreAuthors == [p \in Comment \cup Act |-> IF p \in {ra, rb} THEN a1 ELSE a2]
StoreWork ==
    {{po, ra, rb, pr}, {po, ra, rb, pp, vo}, {po, qa, qb, ap, di}, {po, qa, ap, rj, de}, {qa, qb, de, ap}, {po, ra, pp, ba}, {po, rq, aq, pq}}

----------------------------------------
(* The RPC server: two clients, one community with two addresses. *)
HostHome == ka :> ha
HostNewName == ka :> hb
HostCalls == {cm, sa, sb, re, ta, tb, ed, dl, ua, ub, pu, un, ga, gb}
HostMethods ==
    cm :> "comment" @@ sa :> "start" @@ sb :> "start" @@ re :> "resubscribe" @@ ta :> "stop" @@ tb :> "stop" @@ ed :> "edit"
    @@ dl :> "delete" @@ ua :> "update" @@ ub :> "update" @@ pu :> "publish" @@ un :> "unsubscribe" @@ ga :> "settings" @@ gb :> "settings"
HostFrom == [c \in HostCalls |-> IF c \in {sa, ua, pu, un, ta} THEN xa ELSE xb]
HostOn == [c \in HostCalls |-> ka]
HostSub == [c \in HostCalls |-> IF c = un THEN ua ELSE None]
HostJob(c, f, st) == [calls |-> c, faults |-> f, started |-> st]
HostWork ==
    {HostJob({sa, ta, sb}, {"disconnect", "start"}, {}), HostJob({sa, ta, tb}, {"blip"}, {ka}), HostJob({sa, re}, {"crash"}, {}),
     HostJob({sa, ta, ed}, {}, {}), HostJob({sa, pu, ga}, {"disconnect", "create"}, {}), HostJob({sa, ub, ga}, {"restart", "disconnect"}, {}),
     HostJob({ua, un, ub}, {"create", "disconnect"}, {}), HostJob({sa, dl, ed}, {}, {ka}), HostJob({ga, ua, cm}, {}, {}),
     HostJob({ga, gb, ua}, {}, {}), HostJob({ua, un, ga}, {"disconnect"}, {}), HostJob({ed}, {"blip", "crash"}, {ka})}

(* Its clients: one instance of each kind, a connection that drops. *)
ClientJobOf(k, d, up, h, r) == [kind |-> k, drops |-> d, updates |-> up, early |-> FALSE, halts |-> h, refuses |-> r, fails |-> FALSE]
ClientWork ==
    {ClientJobOf([w |-> "watched", p |-> "publication"], 1, FALSE, FALSE, FALSE), ClientJobOf([w |-> "watched"], 2, TRUE, FALSE, FALSE),
     ClientJobOf([s |-> "started"], 2, TRUE, TRUE, TRUE), ClientJobOf([l |-> "list"], 2, TRUE, FALSE, FALSE),
     [ClientJobOf([w |-> "watched"], 1, TRUE, FALSE, FALSE) EXCEPT !.early = TRUE],
     [ClientJobOf([w |-> "watched"], 2, TRUE, FALSE, FALSE) EXCEPT !.fails = TRUE],
     [ClientJobOf([l |-> "list"], 2, TRUE, FALSE, FALSE) EXCEPT !.fails = TRUE]}

----------------------------------------
(* The life of a community: two instances in one process, one in another. *)
OwnerHomes == "o1" :> "p1" @@ "o2" :> "p2" @@ "o3" :> "p1"
LcJobOf(c) == [home |-> OwnerHomes, calls |-> c, crash |-> {"p1"}, stall |-> {}, overlap |-> FALSE, fails |-> TRUE]
LifeWork ==
    {LcJobOf("o1" :> {"start", "stop"} @@ "o2" :> {"start", "stop"} @@ "o3" :> {"start", "stop", "update"}),
     LcJobOf("o1" :> {"start", "stop", "rename"} @@ "o2" :> {} @@ "o3" :> {"start", "update", "stop", "delete"}),
     [LcJobOf("o1" :> {"start", "stop", "rename"} @@ "o2" :> {"start", "stop"} @@ "o3" :> {"start", "update"})
        EXCEPT !.stall = {"p1"}, !.overlap = TRUE],
     [LcJobOf("o1" :> {"start", "rename"} @@ "o2" :> {"start", "stop"} @@ "o3" :> {"delete", "stop"})
        EXCEPT !.stall = {"p2"}, !.overlap = TRUE]}

(* The helia node: two PKC instances with one key. *)
HnJobOf(u, c, q, h, p, f) == [uses |-> u, cats |-> c, paths |-> q, handlers |-> h, publishes |-> p, faults |-> f]
HeliaWork ==
    {HnJobOf(2, {f1}, {}, {}, {}, {"create"}), HnJobOf(2, {}, {f2}, {}, {}, {"create"}),
     HnJobOf(1, {f1}, {f2}, {}, {}, {"create"}), HnJobOf(1, {f1, f2}, {}, {}, {}, {"unwind"}),
     HnJobOf(1, {f1, f2}, {}, {}, {}, {}), HnJobOf(1, {}, {}, {h1, h2}, {b1, b2}, {})}

----------------------------------------
(* The job of a part that does not run is any one of its workload. *)
Fix(p, job, S) == IF part = p THEN TRUE ELSE job = CHOOSE w \in S : TRUE
Arriving == {p \in Pub : handler[p].at # "never"}
Made == [calls |-> {c \in RpcCall : call[c].pc = "ready"}, faults |-> world.faults,
         started |-> {k \in Community : disk.row[Home[k]] = "started"}]

HostsInit ==
    /\ part \in {"store", "server", "client", "life", "helia"}
    /\ Fix("client", clientJob, ClientWorkload) /\ ClientInit
    /\ Fix("life", lcJob, LcWorkload) /\ LcInit
    /\ Fix("helia", hnJob, HnWorkload) /\ HnInit
    /\ StoreInit /\ Fix("store", Arriving, Workload)
    /\ RpcInit /\ Fix("server", Made, RpcWorkload)

StoreStep == part = "store" /\ StoreNext /\ UNCHANGED <<part, rpcVars, clientVars, lcVars, hnVars>>
ServerStep == part = "server" /\ RpcNext /\ UNCHANGED <<part, storeVars, clientVars, lcVars, hnVars>>
ClientStep == part = "client" /\ ClientNext /\ UNCHANGED <<part, storeVars, rpcVars, lcVars, hnVars>>
LifeStep == part = "life" /\ LcNext /\ UNCHANGED <<part, storeVars, rpcVars, clientVars, hnVars>>
HeliaStep == part = "helia" /\ HnNext /\ UNCHANGED <<part, storeVars, rpcVars, clientVars, lcVars>>

HostsNext == StoreStep \/ ServerStep \/ ClientStep \/ LifeStep \/ HeliaStep

HostsSpec == HostsInit /\ [][HostsNext]_<<part, storeVars, rpcVars, clientVars, lcVars, hnVars>>

(* What a host takes away is gone in that step: a purge leaves no *)
(* CommentUpdate marked that counts what it removed, and an instance that *)
(* gave its subscription back is not notified again. *)
HostStepsAreClean ==
    PurgeUnmarks /\ StoppedStaysQuiet
========================================
