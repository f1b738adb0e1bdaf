-------------------- MODULE HeliaNode --------------------
(***************************************************************************)
(* The helia node several PKC instances of a process share: its creation,  *)
(* which callers join, the count of its users, the files read through it,  *)
(* the pubsub topic it joins for handlers and publishes, and its stop.     *)
(*                                                                         *)
(* A step runs from one await to the next.  A caller that waited for the   *)
(* creation resumes in the same round of reactions as its creator, before  *)
(* anybody can act on the new client.                                      *)
(***************************************************************************)
EXTENDS Naturals, FiniteSets, FiniteSetsExt

CONSTANTS
    HnUser,        \* PKC instances with the same client key
    HnCat,         \* calls of cat() and resolve()
    HnHandler,     \* subscribers of one pubsub topic
    HnPublish,     \* publishes on it
    MaxNodes,
    HnWorkload     \* [uses, cats, paths, handlers, publishes, faults]

ASSUME HnAssumption ==
    /\ MaxNodes \in Nat \ {0} /\ IsFiniteSet(HnUser)
    /\ \A j \in HnWorkload : j.uses \in Nat /\ j.cats \subseteq HnCat /\ j.cats \cap j.paths = {}

NoNode == 0
HnNode == 1..MaxNodes

VARIABLES
    hnJob,      \* the workload chosen
    hnClient,   \* libp2pJsClients[key]: the node in use, or NoNode
    hnCreating, \* creatingLibp2pJsClients[key]: the node being created, or NoNode
    hnNode,     \* hnNode[n] = [status, count, blockstore, awaited, joined]
    hnUser,     \* hnUser[u] = [pc, node, left]
    hnCat,      \* hnCat[c] = [pc, node]
    hnTopic     \* [handlers, publishing, published, deaf]: the handlers attached, the publishes under way
                \* and what each found, and as history the handlers under whom a publish left the topic

hnVars == <<hnJob, hnClient, hnCreating, hnNode, hnUser, hnCat, hnTopic>>

Fresh == [status |-> "none", count |-> 0, blockstore |-> FALSE, awaited |-> {}, joined |-> FALSE]
Up(n) == n # NoNode /\ hnNode[n].status = "up"
UnusedNodes == {n \in HnNode : hnNode[n].status = "none"}

----------------------------------------
(* createLibp2pJsClientOrUseExistingOne: share the client, wait for the one *)
(* being created, or create it. *)
useExisting(u) ==
    /\ hnUser[u].pc = "idle" /\ hnUser[u].left > 0 /\ hnClient # NoNode
    /\ hnNode' = [hnNode EXCEPT ![hnClient].count = @ + 1]
    /\ hnUser' = [hnUser EXCEPT ![u] = [pc |-> "using", node |-> hnClient, left |-> @.left - 1]]
    /\ UNCHANGED <<hnJob, hnClient, hnCreating, hnCat, hnTopic>>

awaitCreation(u) ==
    /\ hnUser[u].pc = "idle" /\ hnUser[u].left > 0 /\ hnClient = NoNode /\ hnCreating # NoNode
    /\ hnUser' = [hnUser EXCEPT ![u] = [pc |-> "waiting", node |-> hnCreating, left |-> @.left - 1]]
    /\ UNCHANGED <<hnJob, hnClient, hnCreating, hnNode, hnCat, hnTopic>>

beginCreation(u) ==
    /\ hnUser[u].pc = "idle" /\ hnUser[u].left > 0 /\ hnClient = NoNode /\ hnCreating = NoNode
    /\ UnusedNodes # {}
    /\ LET n == Min(UnusedNodes)
       IN /\ hnCreating' = n
          /\ hnNode' = [hnNode EXCEPT ![n] = [Fresh EXCEPT !.status = "opening"]]
          /\ hnUser' = [hnUser EXCEPT ![u] = [pc |-> "creating", node |-> n, left |-> @.left - 1]]
    /\ UNCHANGED <<hnJob, hnClient, hnCat, hnTopic>>

openBlockstore(n) ==
    /\ hnNode[n].status = "opening"
    /\ hnNode' = [hnNode EXCEPT ![n].status = "starting", ![n].blockstore = TRUE]
    /\ UNCHANGED <<hnJob, hnClient, hnCreating, hnUser, hnCat, hnTopic>>

Waiting(n) == {u \in HnUser : hnUser[u].node = n /\ hnUser[u].pc \in {"creating", "waiting"}}

CountOf(n) == Cardinality(Waiting(n))

startNode(n) ==
    /\ hnNode[n].status = "starting"
    /\ hnNode' = [hnNode EXCEPT ![n].status = "up", ![n].count = CountOf(n)]
    /\ hnUser' = [u \in HnUser |-> IF u \in Waiting(n) THEN [hnUser[u] EXCEPT !.pc = "using"] ELSE hnUser[u]]
    /\ hnClient' = n
    /\ hnCreating' = NoNode
    /\ UNCHANGED <<hnJob, hnCat, hnTopic>>

(* The factory throws: what it started is stopped and closed before anybody *)
(* hears of the failure. *)
creationThrows(n) ==
    /\ "create" \in hnJob.faults /\ hnNode[n].status \in {"opening", "starting"}
    /\ hnNode' = [hnNode EXCEPT ![n].status = "cleaning"]
    /\ UNCHANGED <<hnJob, hnClient, hnCreating, hnUser, hnCat, hnTopic>>

Released_HalfStarted(node) == [node EXCEPT !.status = "stopped"]

Released(node) == [node EXCEPT !.status = "stopped", !.blockstore = FALSE]

creationFails(n) ==
    /\ hnNode[n].status = "cleaning"
    /\ hnNode' = [hnNode EXCEPT ![n] = Released(@)]
    /\ hnUser' = [u \in HnUser |-> IF u \in Waiting(n) THEN [hnUser[u] EXCEPT !.pc = "idle", !.node = NoNode] ELSE hnUser[u]]
    /\ hnCreating' = NoNode
    /\ UNCHANGED <<hnJob, hnClient, hnCat, hnTopic>>

----------------------------------------
(* stop: the last user takes the client out of the table before the first *)
(* await, so that nobody is given a node that is going down. *)
stopNode(u) ==
    LET n == hnClient IN
    /\ hnUser[u].pc = "using"
    /\ hnUser' = [hnUser EXCEPT ![u].pc = "idle", ![u].node = NoNode]
    /\ IF n = NoNode \/ hnNode[n].count = 0 THEN UNCHANGED <<hnClient, hnNode>>
       ELSE /\ hnNode' = [hnNode EXCEPT ![n].count = @ - 1, ![n].status = IF hnNode[n].count = 1 THEN "leaving" ELSE @]
            /\ hnClient' = IF hnNode[n].count = 1 THEN NoNode ELSE n
    /\ UNCHANGED <<hnJob, hnCreating, hnCat, hnTopic>>

(* Routers stopped: topics are left, every cat under way is aborted and *)
(* awaited. *)
InFlight(n) == {c \in HnCat : hnCat[c].node = n /\ hnCat[c].pc \in {"session", "racing", "backoff"}}

AwaitedCats(n) == InFlight(n) \ hnJob.paths

abortCats(n) ==
    /\ hnNode[n].status = "leaving"
    /\ hnNode' = [hnNode EXCEPT ![n].status = "unwinding", ![n].joined = FALSE, ![n].awaited = AwaitedCats(n)]
    /\ UNCHANGED <<hnJob, hnClient, hnCreating, hnUser, hnCat, hnTopic>>

stopHelia(n) ==
    /\ hnNode[n].status = "unwinding"
    /\ (hnNode[n].awaited \cap InFlight(n) = {}) \/ "unwind" \in hnJob.faults
    /\ hnNode' = [hnNode EXCEPT ![n].status = "stopping"]
    /\ UNCHANGED <<hnJob, hnClient, hnCreating, hnUser, hnCat, hnTopic>>

closeBlockstore(n) ==
    /\ hnNode[n].status = "stopping"
    /\ hnNode' = [hnNode EXCEPT ![n] = Released(@)]
    /\ hnClient' = IF hnClient = n THEN NoNode ELSE hnClient
    /\ UNCHANGED <<hnJob, hnCreating, hnUser, hnCat, hnTopic>>

----------------------------------------
(* cat: a session over the file's blocks.  A stalled block is also asked of *)
(* every connected peer, whose failure is ignored; a session that finds no *)
(* providers is tried again after a delay; the node's stop aborts. *)
Stopping(n) == hnNode[n].status \in {"stopping", "stopped"}
Aborted(n) == hnNode[n].status \in {"unwinding", "stopping", "stopped"}

CatAt(c, pc) == hnCat' = [hnCat EXCEPT ![c].pc = pc]

openSession(c, u) ==
    /\ hnCat[c].pc = "idle" /\ hnUser[u].pc = "using"
    /\ hnCat' = [hnCat EXCEPT ![c] = IF Stopping(hnUser[u].node) THEN [@ EXCEPT !.pc = "done"]
                                     ELSE [pc |-> "session", node |-> hnUser[u].node]]
    /\ UNCHANGED <<hnJob, hnClient, hnCreating, hnNode, hnUser, hnTopic>>

cat(c, u) == c \in hnJob.cats /\ openSession(c, u)

(* resolve of an /ipfs/ path runs the same loop, and stop() does not wait *)
(* for it. *)
resolvePath(c, u) == c \in hnJob.paths /\ openSession(c, u)

fetchBlock(c) ==
    /\ hnCat[c].pc \in {"session", "racing"}
    /\ \/ CatAt(c, "done")                                                    \* delivered, or the session failed
       \/ hnCat[c].pc = "session" /\ CatAt(c, "racing")                       \* stalled: the fallback races it
       \/ ~Aborted(hnCat[c].node) /\ CatAt(c, "backoff")                      \* no providers
    /\ UNCHANGED <<hnJob, hnClient, hnCreating, hnNode, hnUser, hnTopic>>

delayAbortable(c) ==
    /\ hnCat[c].pc = "backoff"
    /\ CatAt(c, IF Aborted(hnCat[c].node) THEN "done" ELSE "session")
    /\ UNCHANGED <<hnJob, hnClient, hnCreating, hnNode, hnUser, hnTopic>>

----------------------------------------
(* pubsub: a handler joins the topic, the last to go leaves it.  A publish *)
(* goes through the mesh, so it joins too, for as long as it takes. *)
subscribeTopic(h) ==
    /\ h \in hnJob.handlers \ hnTopic.handlers /\ Up(hnClient)
    /\ hnTopic' = [hnTopic EXCEPT !.handlers = @ \cup {h}, !.deaf = {}]
    /\ hnNode' = [hnNode EXCEPT ![hnClient].joined = TRUE]
    /\ UNCHANGED <<hnJob, hnClient, hnCreating, hnUser, hnCat>>

unsubscribeTopic(h) ==
    /\ h \in hnTopic.handlers /\ Up(hnClient)
    /\ hnTopic' = [hnTopic EXCEPT !.handlers = @ \ {h}, !.deaf = @ \ {h}]
    /\ hnNode' = IF hnTopic.handlers = {h} THEN [hnNode EXCEPT ![hnClient].joined = FALSE] ELSE hnNode
    /\ UNCHANGED <<hnJob, hnClient, hnCreating, hnUser, hnCat>>

WasAlreadySubscribed == hnNode[hnClient].joined

beginPublish(p) ==
    /\ p \in hnJob.publishes \ hnTopic.published /\ Up(hnClient)
    /\ hnTopic' = [hnTopic EXCEPT !.publishing = @ \cup {[publish |-> p, already |-> WasAlreadySubscribed]},
                                  !.published = @ \cup {p}, !.deaf = {}]
    /\ hnNode' = [hnNode EXCEPT ![hnClient].joined = TRUE]
    /\ UNCHANGED <<hnJob, hnClient, hnCreating, hnUser, hnCat>>

endPublish(p) ==
    /\ Up(hnClient)
    /\ \E x \in hnTopic.publishing :
         /\ x.publish = p
         /\ hnTopic' = [hnTopic EXCEPT !.publishing = @ \ {x}, !.deaf = IF x.already THEN @ ELSE hnTopic.handlers]
         /\ hnNode' = IF x.already THEN hnNode ELSE [hnNode EXCEPT ![hnClient].joined = FALSE]
    /\ UNCHANGED <<hnJob, hnClient, hnCreating, hnUser, hnCat>>

----------------------------------------
HnInit ==
    /\ hnJob \in HnWorkload
    /\ hnClient = NoNode /\ hnCreating = NoNode
    /\ hnNode = [n \in HnNode |-> Fresh]
    /\ hnUser = [u \in HnUser |-> [pc |-> "idle", node |-> NoNode, left |-> hnJob.uses]]
    /\ hnCat = [c \in HnCat |-> [pc |-> "idle", node |-> NoNode]]
    /\ hnTopic = [handlers |-> {}, publishing |-> {}, published |-> {}, deaf |-> {}]

(* A PKC instance stops its publications and communities, and so leaves *)
(* their topics, before it lets the node go. *)
HnNext ==
    \/ \E u \in HnUser :
         \/ useExisting(u) \/ awaitCreation(u) \/ beginCreation(u)
         \/ (hnTopic.handlers = {} /\ hnTopic.publishing = {} /\ stopNode(u))
         \/ \E c \in HnCat : cat(c, u) \/ resolvePath(c, u)
    \/ \E n \in HnNode :
         \/ openBlockstore(n) \/ startNode(n) \/ creationThrows(n) \/ creationFails(n)
         \/ abortCats(n) \/ stopHelia(n) \/ closeBlockstore(n)
    \/ \E c \in HnCat : fetchBlock(c) \/ delayAbortable(c)
    \/ \E h \in HnHandler : subscribeTopic(h) \/ unsubscribeTopic(h)
    \/ \E p \in HnPublish : beginPublish(p) \/ endPublish(p)

HnSpec == HnInit /\ [][HnNext]_hnVars

----------------------------------------
(* A PKC instance that holds the shared node can use it: the node is up *)
(* until its last user has let go, whoever created, joined or stopped it. *)
HolderHasNode ==
    \A u \in HnUser : hnUser[u].pc = "using" => hnNode[hnUser[u].node].status = "up"

(* No node runs that nobody can find: one that is up is in the table, one on *)
(* its way up is awaited, and one that was stopped, or whose creation *)
(* failed, has closed its blockstore. *)
NoOrphanNode ==
    \A n \in HnNode :
        /\ hnNode[n].status = "up" => hnClient = n
        /\ hnNode[n].status \in {"opening", "starting", "cleaning"} => hnCreating = n /\ Waiting(n) # {}
        /\ hnNode[n].status = "stopped" => ~hnNode[n].blockstore

(* Once stop() has let helia go down no file read that began before it is *)
(* still under way, unless one did not unwind in time. *)
NoCatOutlivesStop ==
    "unwind" \notin hnJob.faults =>
        \A c \in hnJob.cats : hnCat[c].pc \in {"session", "racing", "backoff"} => ~Stopping(hnCat[c].node)

(* A topic with a handler stays joined, publishes on it notwithstanding, but *)
(* for the handlers that came while a publish was under way that had found *)
(* the topic without any: it leaves the topic when it ends. *)
HandlerHearsTopic ==
    hnTopic.handlers \ hnTopic.deaf # {} /\ Up(hnClient) => hnNode[hnClient].joined

(* What would hold if a publish looked again for handlers before it leaves. *)
PublishLeavesToHandlers == hnTopic.deaf = {}

(* The shared helia node serves all its users and ends with the last: nobody *)
(* holds a node that is down, no node runs on unseen, no read outlives it, *)
(* and one user's publish does not take the topic from a handler that was *)
(* there before it. *)
NodeIsShared ==
    HolderHasNode /\ NoOrphanNode /\ NoCatOutlivesStop /\ HandlerHearsTopic
========================================
