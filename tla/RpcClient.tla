-------------------- MODULE RpcClient --------------------
(***************************************************************************)
(* The RPC client across dropped connections.  A subscription lives on the *)
(* server only as long as its connection, so after a reconnect the client  *)
(* issues each one again; the instance keeps its first id, and the new one *)
(* is mapped back to it.  Notifications that arrive before their handler   *)
(* are buffered.  A publication is not issued again: it fails.             *)
(***************************************************************************)
EXTENDS Naturals, Sequences, SequencesExt, FiniteSets

CONSTANTS
    Uses,          \* the subscribers: communities, publications, the lists of the client
    MaxIds,        \* bound: subscription ids the server gives out
    MaxVersions,   \* bound: versions of what a subscriber watches
    ClientWorkload \* [kind, drops, updates, early, halts, refuses, fails]

Stopped == 99       \* the version that says the community was stopped on purpose

ASSUME ClientAssumption ==
    /\ MaxIds \in Nat \ {0} /\ MaxVersions \in Nat \ {0} /\ Stopped \notin 1..MaxVersions
    /\ \A w \in ClientWorkload : DOMAIN w.kind \subseteq Uses

VARIABLES
    clientJob,
    link,          \* [state, before, drops], of the web socket
    users,         \* [use -> [state, id, attached, seen, told]]
    resubscribeCalls, publishIds, \* local ids
    serverIds,     \* [local id -> id on the current connection, 0 for its own]
    buffers,       \* [id -> versions buffered]
    retry,         \* _backgroundSubscriptionsToRetry
    sent, handled, \* calls the server has not begun, has not answered
    wire,          \* what the server has sent, in order
    onServer,      \* [use, id] subscribed on this connection
    overdue,       \* those whose answer came after the time limit of the call
    versions,      \* [use -> version the server has]
    ids            \* ids given out

clientVars == <<clientJob, link, users, resubscribeCalls, publishIds, serverIds, buffers, retry, sent, handled, wire, onServer, overdue, versions, ids>>

ClientTables == <<resubscribeCalls, publishIds, serverIds, buffers, retry>>
Server == <<sent, handled, wire, onServer, overdue, versions, ids>>
UserKind(u) == clientJob.kind[u]
Connected == link.state = "connected"
Call(m, u, l) == [method |-> m, use |-> u, id |-> l]
Owner(l) == CHOOSE u \in Uses : users[u].id = l
LocalId(s) == IF \E l \in 1..MaxIds : serverIds[l] = s THEN CHOOSE l \in 1..MaxIds : serverIds[l] = s ELSE s
ServerId(l) == IF serverIds[l] = 0 THEN l ELSE serverIds[l]

----------------------------------------
(* Calls: sent when the socket is open, else held by _init until it opens. *)
subscribe(u) ==
    /\ users[u].state = "idle" /\ link.state # "failed"
    /\ users' = [users EXCEPT ![u].state = IF Connected THEN "calling" ELSE "waiting"]
    /\ sent' = IF Connected THEN sent \cup {Call("subscribe", u, 0)} ELSE sent
    /\ UNCHANGED <<clientJob, link, ClientTables, handled, wire, onServer, overdue, versions, ids>>

(* _runBackgroundSubscription: what failed with the connection waits for the *)
(* next open. *)
Retried(U) == {u \in U : UserKind(u) = "list"}

(* The wait of _init ends after 20 s; the reconnect attempts go on. *)
waitTimesOut(u) ==
    /\ users[u].state = "waiting"
    /\ users' = [users EXCEPT ![u].state = "threw"] /\ retry' = retry \cup Retried({u})
    /\ UNCHANGED <<clientJob, link, resubscribeCalls, publishIds, serverIds, buffers, Server>>

(* The open event: every live subscription is issued again, also one that *)
(* was reported lost, and the lists that failed with a connection. *)
open ==
    /\ link.state = "connecting"
    /\ link' = [link EXCEPT !.state = "connected", !.before = TRUE]
    /\ LET again == IF link.before THEN {Call("resubscribe", Owner(l), l) : l \in resubscribeCalls} ELSE {}
           first == {u \in Uses : users[u].state = "waiting"} \cup retry
       IN /\ sent' = again \cup {Call("subscribe", u, 0) : u \in first}
          /\ users' = [u \in Uses |-> IF u \in first THEN [users[u] EXCEPT !.state = "calling"]
                                       ELSE IF users[u].id \in resubscribeCalls THEN [users[u] EXCEPT !.told = FALSE] ELSE users[u]]
    /\ retry' = {}
    /\ UNCHANGED <<clientJob, resubscribeCalls, publishIds, serverIds, buffers, handled, wire, onServer, overdue, versions, ids>>

(* A 403: the client gives up. *)
refused ==
    /\ clientJob.refuses /\ link.state = "connecting"
    /\ link' = [link EXCEPT !.state = "failed"]
    /\ users' = [u \in Uses |-> IF users[u].state = "waiting" THEN [users[u] EXCEPT !.state = "threw"] ELSE users[u]]
    /\ UNCHANGED <<clientJob, ClientTables, Server>>

(* _failPublicationsLostWithConnection *)
LostPublications == {u \in Uses : users[u].id \in publishIds}

(* The close event: calls without an answer reject, publications fail, and *)
(* the server drops what the connection had subscribed. *)
drop ==
    /\ Connected /\ link.drops < clientJob.drops
    /\ link' = [link EXCEPT !.state = "connecting", !.drops = @ + 1]
    /\ LET threw == {u \in Uses : users[u].state = "calling"}
       IN /\ users' = [u \in Uses |->
                 IF u \in threw THEN [users[u] EXCEPT !.state = "threw"]
                 ELSE IF users[u].state = "stopping" THEN [users[u] EXCEPT !.state = "stopped"]
                 ELSE IF u \in LostPublications THEN [users[u] EXCEPT !.told = TRUE]
                 ELSE users[u]]
          /\ retry' = retry \cup Retried(threw)
    /\ publishIds' = publishIds \ {users[u].id : u \in LostPublications}
    /\ sent' = {} /\ handled' = {} /\ wire' = <<>> /\ onServer' = {} /\ overdue' = {}
    /\ UNCHANGED <<clientJob, resubscribeCalls, serverIds, buffers, versions, ids>>

----------------------------------------
(* The server: a snapshot goes out before the answer to the subscription. *)
Note(s, v) == [type |-> "note", id |-> s, version |-> v]
Answer(c, s) == [type |-> "answer", id |-> s, call |-> c]

serverSubscribes(c) ==
    /\ c \in sent /\ c.method # "unsubscribe" /\ ids < MaxIds
    /\ sent' = sent \ {c} /\ UNCHANGED <<clientJob, link, users, ClientTables, overdue, versions>>
    /\ \/ /\ ids' = ids + 1 /\ ~(versions[c.use] = Stopped /\ c.method = "resubscribe")
          /\ onServer' = onServer \cup {[use |-> c.use, id |-> ids + 1]}
          /\ wire' = Append(wire, Note(ids + 1, versions[c.use])) /\ handled' = handled \cup {[call |-> c, id |-> ids + 1]}
       \/ /\ versions[c.use] = Stopped /\ c.method = "resubscribe"
          /\ wire' = Append(wire, Answer(c, 0)) /\ UNCHANGED <<handled, onServer, ids>>

serverAnswers(h) ==
    /\ h \in handled /\ handled' = handled \ {h} /\ wire' = Append(wire, Answer(h.call, h.id))
    /\ UNCHANGED <<clientJob, link, users, ClientTables, sent, onServer, overdue, versions, ids>>

(* A call that fails while the connection is up is not made again: a         *)
(* subscribing call throws, a list is not asked for any more, and an         *)
(* instance whose resubscription failed is told with an error event and      *)
(* stays as it was until the next open. *)
callFailed(c) ==
    users' = [users EXCEPT ![c.use] =
                  IF c.method = "subscribe" THEN [@ EXCEPT !.state = "rejected"]
                  ELSE IF c.id \in resubscribeCalls THEN [@ EXCEPT !.told = TRUE] ELSE @]

(* The server rejects it; when the client reads that makes no difference. *)
callRejected(c) ==
    /\ clientJob.fails /\ c \in sent /\ c.method # "unsubscribe"
    /\ sent' = sent \ {c} /\ callFailed(c)
    /\ UNCHANGED <<clientJob, link, ClientTables, handled, wire, onServer, overdue, versions, ids>>

(* The server answers after the time limit of the call: what it subscribed   *)
(* stays, under an id nobody maps. *)
callTimesOut(h) ==
    /\ clientJob.fails /\ h \in handled /\ handled' = handled \ {h} /\ callFailed(h.call)
    /\ overdue' = overdue \cup {[use |-> h.call.use, id |-> h.id]}
    /\ UNCHANGED <<clientJob, link, ClientTables, sent, wire, onServer, versions, ids>>

serverUnsubscribes(c) ==
    /\ c \in sent /\ c.method = "unsubscribe"
    /\ sent' = sent \ {c} /\ wire' = Append(wire, Answer(c, 0))
    /\ onServer' = {o \in onServer : o.id # c.id}
    /\ UNCHANGED <<clientJob, link, users, ClientTables, handled, overdue, versions, ids>>

(* What is watched changes; a started community may be stopped by another *)
(* client. *)
serverUpdates(u, v) ==
    /\ UserKind(u) # "publication" /\ versions[u] < MaxVersions
    /\ \/ v = versions[u] + 1 /\ clientJob.updates
       \/ v = Stopped /\ clientJob.halts /\ UserKind(u) = "started" /\ users[u].id # 0
    /\ versions' = [versions EXCEPT ![u] = v]
    /\ wire' = wire \o SetToSeq({Note(o.id, v) : o \in {x \in onServer : x.use = u}})
    /\ UNCHANGED <<clientJob, link, users, ClientTables, sent, handled, onServer, overdue, ids>>

----------------------------------------
(* _dispatchNotification: to the handler, or to the buffer of its id. *)
Listens(l) == \E u \in Uses : users[u].id = l /\ users[u].attached

Dispatched(l, vs, U, B) ==
    IF Listens(l) THEN /\ users' = [U EXCEPT ![Owner(l)].seen = Last(vs)] /\ buffers' = B
    ELSE /\ users' = U /\ buffers' = [B EXCEPT ![l] = @ \o vs]

receiveNotification ==
    /\ wire # <<>> /\ Head(wire).type = "note" /\ wire' = Tail(wire)
    /\ Dispatched(LocalId(Head(wire).id), <<Head(wire).version>>, users, buffers)
    /\ UNCHANGED <<clientJob, link, resubscribeCalls, publishIds, serverIds, retry, sent, handled, onServer, overdue, versions, ids>>

Answered(m) == wire # <<>> /\ Head(wire).type = "answer" /\ Head(wire).call.method = m /\ wire' = Tail(wire)

(* _subscribe gets its id; a stop() that came first is not looked for. *)
subscribed ==
    /\ Answered("subscribe")
    /\ LET u == Head(wire).call.use  s == Head(wire).id
       IN /\ users' = [users EXCEPT ![u].id = s, ![u].state = IF @ = "calling" THEN "live" ELSE @]
          /\ IF UserKind(u) = "publication" THEN publishIds' = publishIds \cup {s} /\ UNCHANGED resubscribeCalls
             ELSE resubscribeCalls' = resubscribeCalls \cup {s} /\ UNCHANGED publishIds
    /\ UNCHANGED <<clientJob, link, serverIds, buffers, retry, sent, handled, onServer, overdue, versions, ids>>

ownsSubscription(u) == users[u].state \in {"live", "unwanted"}

(* attachSubscriptionHandlersDeferred: a later task attaches the handlers *)
(* and replays the buffer, if the caller still owns the subscription. *)
attach(u) ==
    /\ users[u].id # 0 /\ ~users[u].attached /\ ownsSubscription(u)
    /\ LET b == buffers[users[u].id]
       IN users' = [users EXCEPT ![u].attached = TRUE, ![u].seen = IF b = <<>> THEN @ ELSE Last(b)]
    /\ buffers' = [buffers EXCEPT ![users[u].id] = <<>>]
    /\ UNCHANGED <<clientJob, link, resubscribeCalls, publishIds, serverIds, retry, Server>>

StillWanted(l) == l \in resubscribeCalls

Early_Dropped(s) == <<>>

(* The snapshot that came under the new id, before anything mapped it. *)
Early(s) == buffers[s]

(* _resubscribe: take over the new id, or give it back when the use was *)
(* unsubscribed while the call was in flight. *)
resubscribed ==
    /\ Answered("resubscribe") /\ Head(wire).id # 0
    /\ LET l == Head(wire).call.id  s == Head(wire).id  rest == [buffers EXCEPT ![s] = <<>>]
       IN IF ~StillWanted(l)
          THEN /\ sent' = sent \cup {Call("unsubscribe", Head(wire).call.use, s)}
               /\ buffers' = rest /\ UNCHANGED <<users, serverIds>>
          ELSE /\ serverIds' = [serverIds EXCEPT ![l] = s] /\ UNCHANGED sent
               /\ IF Early(s) = <<>> THEN buffers' = rest /\ UNCHANGED users ELSE Dispatched(l, Early(s), users, rest)
    /\ UNCHANGED <<clientJob, link, resubscribeCalls, publishIds, retry, handled, onServer, overdue, versions, ids>>

(* ERR_RPC_COMMUNITY_NOT_RUNNING: the instance is told of the stop, and the *)
(* subscription is not issued again. *)
notRunning ==
    /\ Answered("resubscribe") /\ Head(wire).id = 0
    /\ LET l == Head(wire).call.id
       IN /\ resubscribeCalls' = resubscribeCalls \ {l}
          /\ IF l \in resubscribeCalls THEN Dispatched(l, <<Stopped>>, users, buffers) ELSE UNCHANGED <<users, buffers>>
    /\ UNCHANGED <<clientJob, link, publishIds, serverIds, retry, sent, handled, onServer, overdue, versions, ids>>

----------------------------------------
(* stop() of the instance: unsubscribe() has nothing to call when the server *)
(* dropped the subscription with its connection. *)
sendUnsubscribe(u) ==
    /\ users[u].state = "live" /\ UserKind(u) # "list"
    /\ LET l == users[u].id  liveOnServer == Connected /\ l \in resubscribeCalls \cup publishIds
       IN /\ resubscribeCalls' = resubscribeCalls \ {l} /\ publishIds' = publishIds \ {l}
          /\ IF liveOnServer
             THEN /\ sent' = sent \cup {Call("unsubscribe", u, ServerId(l))}
                  /\ users' = [users EXCEPT ![u].state = "stopping"] /\ UNCHANGED <<serverIds, buffers>>
             ELSE /\ users' = [users EXCEPT ![u].state = "stopped", ![u].attached = FALSE, ![u].id = 0]
                  /\ serverIds' = [serverIds EXCEPT ![l] = 0] /\ buffers' = [buffers EXCEPT ![l] = <<>>] /\ UNCHANGED sent
    /\ UNCHANGED <<clientJob, link, retry, handled, wire, onServer, overdue, versions, ids>>

unsubscribed ==
    /\ Answered("unsubscribe")
    /\ LET u == Head(wire).call.use  l == users[u].id
       IN IF users[u].state = "stopping" /\ Head(wire).call.id = ServerId(l)
          THEN /\ users' = [users EXCEPT ![u].state = "stopped", ![u].attached = FALSE, ![u].id = 0]
               /\ serverIds' = [serverIds EXCEPT ![l] = 0] /\ buffers' = [buffers EXCEPT ![l] = <<>>]
          ELSE UNCHANGED <<users, serverIds, buffers>>
    /\ UNCHANGED <<clientJob, link, resubscribeCalls, publishIds, retry, sent, handled, onServer, overdue, versions, ids>>

(* stop() while the subscribing call is in flight finds no id to give back. *)
stopEarly(u) ==
    /\ clientJob.early /\ users[u].state = "calling" /\ UserKind(u) = "watched"
    /\ users' = [users EXCEPT ![u].state = "unwanted"]
    /\ UNCHANGED <<clientJob, link, ClientTables, Server>>

ClientInit ==
    /\ clientJob \in ClientWorkload
    /\ link = [state |-> "connecting", before |-> FALSE, drops |-> 0]
    /\ users = [u \in Uses |-> [state |-> IF u \in DOMAIN clientJob.kind THEN "idle" ELSE "absent", id |-> 0, attached |-> FALSE, seen |-> 0, told |-> FALSE]]
    /\ resubscribeCalls = {} /\ publishIds = {} /\ retry = {}
    /\ serverIds = [l \in 1..MaxIds |-> 0] /\ buffers = [l \in 1..MaxIds |-> <<>>]
    /\ sent = {} /\ handled = {} /\ wire = <<>> /\ onServer = {} /\ overdue = {} /\ versions = [u \in Uses |-> 1] /\ ids = 0

ClientNext ==
    \/ open \/ refused \/ drop \/ receiveNotification \/ subscribed \/ resubscribed \/ notRunning \/ unsubscribed
    \/ \E u \in DOMAIN clientJob.kind :
          \/ subscribe(u) \/ waitTimesOut(u) \/ attach(u) \/ sendUnsubscribe(u) \/ stopEarly(u)
          \/ \E v \in 1..MaxVersions \cup {Stopped} : serverUpdates(u, v)
    \/ \E c \in sent : serverSubscribes(c) \/ serverUnsubscribes(c) \/ callRejected(c)
    \/ \E h \in handled : serverAnswers(h) \/ callTimesOut(h)

ClientSpec == ClientInit /\ [][ClientNext]_clientVars

----------------------------------------
Quiet == Connected /\ sent = {} /\ handled = {} /\ wire = <<>>

(* Once the connection is up and quiet, a live instance has the latest *)
(* version, however often the connection dropped: nothing is lost between *)
(* two connections, between an id and its mapping, or before the handlers. *)
(* Or it was told that it is not subscribed any more. *)
Current(u) == (users[u].state = "live" /\ users[u].attached /\ UserKind(u) # "publication") => users[u].seen = versions[u]
QuietMeansCurrent == Quiet => \A u \in Uses : users[u].told \/ Current(u)

(* Telling it is all that is done: it is current again after another drop. *)
FailuresAreMended == Quiet => \A u \in Uses : Current(u)

(* Nothing is subscribed on the server for an instance that stopped, unless *)
(* its stop() overtook its own subscribing call and had no id to give back, *)
(* or the id came too late. *)
NoOrphanSubscription ==
    Quiet => \A o \in onServer :
        \/ users[o.use].state = "live" /\ ServerId(users[o.use].id) = o.id
        \/ users[o.use].state = "unwanted"
        \/ o \in overdue

NothingOverdue == overdue = {}

(* A publication is on the server, or its publisher was told that it failed. *)
PublicationIsTold ==
    \A u \in Uses : (users[u].state = "live" /\ UserKind(u) = "publication" /\ ~users[u].told) =>
                        [use |-> u, id |-> users[u].id] \in onServer

(* A client that is connected has its lists, or is asking for them, unless *)
(* the call failed on a connection that was up. *)
ListsAreSubscribed ==
    Connected => \A u \in DOMAIN clientJob.kind : UserKind(u) = "list" => users[u].state \in {"idle", "calling", "live", "rejected"}

ListsStaySubscribed ==
    Quiet => \A u \in DOMAIN clientJob.kind : UserKind(u) = "list" => users[u].state # "rejected" /\ ~users[u].told

(* An instance that gave its subscription back gets no more notifications, *)
(* whatever was on the wire or in the buffer of its id. *)
StoppedStaysQuiet == [][\A u \in Uses : users[u].state = "stopped" => users'[u].seen = users[u].seen]_clientVars

(* A client that reconnects ends up where one that never lost the connection *)
(* is, or knows that it is not: with the latest versions, its lists and its *)
(* publications accounted for, and with no subscription on the server that it gave up. *)
ClientKeepsUp ==
    QuietMeansCurrent /\ NoOrphanSubscription /\ PublicationIsTold /\ ListsAreSubscribed
========================================
