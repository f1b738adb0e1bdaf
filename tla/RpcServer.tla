-------------------- MODULE RpcServer --------------------
(***************************************************************************)
(* PKCWsServer: the table of started communities, the subscriptions of the *)
(* connected clients, and setSettings, which moves everything to a new pkc *)
(* instance and destroys the old one a minute later.                       *)
(*                                                                         *)
(* Every JSON-RPC method is an async function: it is suspended at its      *)
(* awaits and the calls of all clients interleave there.  A call goes on   *)
(* after its connection is gone.  Starting a community is one step that    *)
(* begins and one that ends; what happens in between is CommunityLifecycle. *)
(***************************************************************************)
EXTENDS Naturals, Sequences, FiniteSets

CONSTANTS
    Client, Community, Address,
    Home, NewName,   \* the address of a community at first, and after an edit of its name
    RpcCall,         \* calls that may be made, each at most once
    Method,          \* Method[c], one of Methods
    From,            \* From[c]: the client that makes the call
    On,              \* On[c]: the community the call is about
    Sub,             \* Sub[c]: the subscription an unsubscribe ends, else None
    RpcWorkload,     \* [calls, faults, started]: calls made together, what goes wrong
                     \* meanwhile, communities the last run of the server left started
    AutoRetries,     \* bound on the retries of an automatic start
    None

RpcFaults == {"create", "start", "restart", "blip", "disconnect", "crash"}
Methods == {"start", "resubscribe", "stop", "edit", "delete", "update", "comment", "publish", "unsubscribe", "settings"}

ASSUME RpcAssumption ==
    /\ Home \in [Community -> Address] /\ NewName \in [Community -> Address]
    /\ Method \in [RpcCall -> Methods] /\ From \in [RpcCall -> Client] /\ On \in [RpcCall -> Community]
    /\ Sub \in [RpcCall -> RpcCall \cup {None}]
    /\ RpcWorkload \subseteq [calls : SUBSET RpcCall, faults : SUBSET RpcFaults, started : SUBSET Community]
    /\ AutoRetries \in Nat
    /\ None \notin RpcCall \cup Address \cup Community
    /\ "pending" \notin RpcCall \cup Address \cup {None} /\ RpcCall \cap Address = {}

VARIABLES
    disk,    \* [file, row]: where a community's database is; the auto-start row of an address
    table,   \* _startedCommunities
    inst,    \* LocalCommunity instances, named by the call, or the booted address, that made them
    sub,     \* the subscription a call has made
    conn,    \* connections: "open", "cleaning" with the cleanups still to run, "gone"
    pkcs,    \* the pkc instances, _setSettingsQueue and timers
    call,    \* where a call is suspended and what it holds
    boot,    \* the automatic start of an address
    world,   \* the workload chosen, and whether the server was restarted
    late     \* calls in flight while their connection was cleaned or the settings changed

rpcVars == <<disk, table, inst, sub, conn, pkcs, call, boot, world, late>>

RpcInstance == RpcCall \cup Address
NoInst == [life |-> "none", of |-> None, pkc |-> 0]
NoSub == [cleanup |-> FALSE, handler |-> FALSE, listens |-> None, object |-> "none", pkc |-> 0, publishing |-> FALSE]
NoCall == [pc |-> "idle", wait |-> {}, addr |-> None, i |-> None, conns |-> {}, subs |-> {}]
FreshPkcs == [cur |-> 1, queue |-> << >>, timer |-> {}, ending |-> {}, destroyed |-> {}]
Fault(f) == f \in world.faults
Queued == {pkcs.queue[n] : n \in 1..Len(pkcs.queue)}

(* _findCommunityAddress, for a client that sends the community's first name *)
(* and its public key. *)
_findCommunityAddress(k) ==
    LET byKey == {a \in Address : table[a] \in RpcInstance /\ inst[table[a]].of = k} IN
        IF table[Home[k]] # None THEN Home[k]
        ELSE IF byKey # {} THEN CHOOSE a \in byKey : TRUE
        ELSE disk.file[k]

_moveCommunityState(d, old, new) ==
    IF old = new \/ d.row[old] = "absent" THEN d ELSE [d EXCEPT !.row[new] = d.row[old], !.row[old] = "absent"]

(* _fileStartedCommunityUnderItsAddress: an instance is filed under the *)
(* address it has now, and its auto-start row goes with it. *)
FiledAt(t, i) == {a \in Address : t[a] = i}

Refiled(t, i, a) ==
    IF FiledAt(t, i) = {} THEN t ELSE [x \in Address |-> IF x = a THEN i ELSE IF t[x] = i THEN None ELSE t[x]]

RefiledRow(d, t, i, a) ==
    IF FiledAt(t, i) = {} THEN d ELSE _moveCommunityState(d, CHOOSE x \in FiledAt(t, i) : TRUE, a)

Active(k) == \E i \in RpcInstance : inst[i].of = k /\ inst[i].life \in {"starting", "running", "stopping"}

(* createCommunity finds it on disk, and start finds no instance started. *)
Startable(k) == disk.file[k] # None /\ ~Active(k)

Step(c, pc) == call' = [call EXCEPT ![c].pc = pc]
Done(c) == Step(c, "done")
Open(c) == conn[From[c]].is # "gone"

(* A method is called, and first waits for the settings changes under way. *)
arrive(c) ==
    /\ call[c].pc = "ready" /\ conn[From[c]].is = "open"
    /\ call' = [call EXCEPT ![c].pc = "called", ![c].wait = Queued]
    /\ pkcs' = IF Method[c] = "settings" THEN [pkcs EXCEPT !.queue = Append(@, c)] ELSE pkcs
    /\ UNCHANGED <<disk, table, inst, sub, conn, boot, world, late>>

(* _getPKCInstance *)
Called(c, m) == call[c].pc = "called" /\ Method[c] \in m /\ call[c].wait \cap Queued = {}

----------------------------------------
(* startCommunity.  The settings handler is registered before the community *)
(* is looked at again, after one more wait for the settings queue. *)
startCommunity(c) ==
    LET a == _findCommunityAddress(On[c]) IN
    /\ Called(c, {"start"}) \/ (call[c].pc = "start" /\ call[c].wait \cap Queued = {})
    /\ IF a = None \/ ~Open(c) THEN Done(c) /\ UNCHANGED sub
       ELSE /\ sub' = [sub EXCEPT ![c].handler = TRUE]
            /\ call' = [call EXCEPT ![c].pc = "impl", ![c].addr = a, ![c].wait = Queued]
    /\ UNCHANGED <<disk, table, inst, conn, pkcs, boot, world, late>>

(* startedCommunitySubscribe: only a community that runs, or that its row *)
(* says was started and not stopped; the rest is startCommunity. *)
startedCommunitySubscribe(c) ==
    LET a == _findCommunityAddress(On[c]) IN
    /\ Called(c, {"resubscribe"})
    /\ IF a # None /\ (table[a] # None \/ disk.row[a] = "started")
       THEN call' = [call EXCEPT ![c].pc = "start", ![c].wait = Queued]
       ELSE Done(c)
    /\ UNCHANGED <<disk, table, inst, sub, conn, pkcs, boot, world, late>>

startCommunityImpl(c) ==
    LET a == call[c].addr IN
    /\ call[c].pc = "impl" /\ call[c].wait \cap Queued = {}
    /\ IF table[a] # None THEN Step(c, "attach") /\ UNCHANGED <<table, inst>>
       ELSE /\ table' = [table EXCEPT ![a] = "pending"]
            /\ inst' = [inst EXCEPT ![c] = [life |-> "new", of |-> On[c], pkc |-> pkcs.cur]]
            /\ Step(c, "create")
    /\ UNCHANGED <<disk, sub, conn, pkcs, boot, world, late>>

(* getStartedCommunity polls while the entry is pending; an entry that is *)
(* removed meanwhile makes the call throw.  _setupStartedEvents attaches the *)
(* listeners, then throws when the connection is gone. *)
attachToStarted(c) ==
    LET i == table[call[c].addr] IN
    /\ call[c].pc = "attach" /\ i # "pending"
    /\ sub' = IF i = None THEN sub ELSE [sub EXCEPT ![c].listens = i, ![c].cleanup = Open(c)]
    /\ Done(c)
    /\ UNCHANGED <<disk, table, inst, conn, pkcs, boot, world, late>>

beginStart(c) ==
    /\ call[c].pc = "create" /\ Open(c) /\ Startable(On[c])
    /\ sub' = [sub EXCEPT ![c].listens = c, ![c].cleanup = TRUE]
    /\ inst' = [inst EXCEPT ![c].life = "starting"]
    /\ Step(c, "starting")
    /\ UNCHANGED <<disk, table, conn, pkcs, boot, world, late>>

finishStart(c) ==
    LET a == call[c].addr
        t == [table EXCEPT ![a] = c]
        d == [disk EXCEPT !.row[a] = "started"]
        now == disk.file[On[c]] IN
    /\ call[c].pc = "starting" /\ inst[c].life = "starting"
    /\ inst' = [inst EXCEPT ![c].life = "running"]
    /\ table' = Refiled(t, c, now) /\ disk' = RefiledRow(d, t, c, now)
    /\ Done(c)
    /\ UNCHANGED <<sub, conn, pkcs, boot, world, late>>

(* Any error on the way: the listeners go, the entry goes. *)
failStart(c) ==
    /\ call[c].pc \in {"create", "starting"}
    /\ \/ call[c].pc = "create" /\ (~Open(c) \/ ~Startable(On[c]) \/ Fault("create"))
       \/ call[c].pc = "starting" /\ (inst[c].life = "stopped" \/ Fault("start"))
    /\ inst' = [inst EXCEPT ![c].life = "stopped"]
    /\ sub' = IF sub[c].cleanup THEN [sub EXCEPT ![c].listens = None, ![c].handler = FALSE] ELSE sub
    /\ table' = [table EXCEPT ![call[c].addr] = None]
    /\ Done(c)
    /\ UNCHANGED <<disk, conn, pkcs, boot, world, late>>

----------------------------------------
(* stopCommunity, deleteCommunity and editCommunity find the community by *)
(* its address, wait for a pending start, and use that address afterwards. *)
locate(c) ==
    LET a == _findCommunityAddress(On[c])
        filed == a # None /\ table[a] # None IN
    /\ Called(c, {"stop", "edit", "delete"})
    /\ IF a = None \/ (Method[c] = "stop" /\ ~filed) THEN Done(c) /\ UNCHANGED inst
       ELSE IF filed THEN call' = [call EXCEPT ![c].pc = "get", ![c].addr = a] /\ UNCHANGED inst
       ELSE /\ inst' = [inst EXCEPT ![c] = [life |-> "new", of |-> On[c], pkc |-> pkcs.cur]]
            /\ call' = [call EXCEPT ![c].pc = "have", ![c].addr = a, ![c].i = c]
    /\ UNCHANGED <<disk, table, sub, conn, pkcs, boot, world, late>>

(* An edit whose entry went away loads an instance of its own; a stop or a *)
(* delete throws. *)
getStarted(c) ==
    LET i == table[call[c].addr] IN
    /\ call[c].pc = "get" /\ i # "pending"
    /\ IF i # None THEN call' = [call EXCEPT ![c].pc = "have", ![c].i = i] /\ UNCHANGED inst
       ELSE IF Method[c] = "edit"
       THEN /\ inst' = [inst EXCEPT ![c] = [life |-> "new", of |-> On[c], pkc |-> pkcs.cur]]
            /\ call' = [call EXCEPT ![c].pc = "have", ![c].i = c]
       ELSE Done(c) /\ UNCHANGED inst
    /\ UNCHANGED <<disk, table, sub, conn, pkcs, boot, world, late>>

beginStop(c) ==
    LET i == call[c].i IN
    /\ call[c].pc = "have" /\ Method[c] \in {"stop", "delete"} /\ inst[i].life # "starting"
    /\ inst' = IF inst[i].life = "running" THEN [inst EXCEPT ![i].life = "stopping"] ELSE inst
    /\ Step(c, "stopping")
    /\ UNCHANGED <<disk, table, sub, conn, pkcs, boot, world, late>>

(* _postStoppingOrDeleting: the last events are sent, then every tracked *)
(* listener of the instance is removed; the cleanups stay registered. *)
Silenced(i) == [x \in RpcCall |-> IF sub[x].listens = i /\ Method[x] # "update" THEN [sub[x] EXCEPT !.listens = None] ELSE sub[x]]

finishStop(c) ==
    LET i == call[c].i  a == call[c].addr IN
    /\ call[c].pc = "stopping"
    /\ inst' = [x \in RpcInstance |-> IF x = i \/ (Method[c] = "delete" /\ inst[x].of = On[c])
                                   THEN [inst[x] EXCEPT !.life = "stopped"] ELSE inst[x]]
    /\ sub' = Silenced(i)
    /\ table' = [table EXCEPT ![a] = None]
    /\ disk' = IF Method[c] = "stop" THEN [disk EXCEPT !.row[a] = "stopped"]
               ELSE [disk EXCEPT !.row[a] = "absent", !.file[On[c]] = None]
    /\ Done(c)
    /\ UNCHANGED <<conn, pkcs, boot, world, late>>

(* editCommunity with a new name.  The database moves; a filed instance and *)
(* its row move with the update event, the row of another one right after. *)
editCommunity(c) ==
    LET i == call[c].i  k == On[c]  new == NewName[k] IN
    /\ call[c].pc = "have" /\ Method[c] = "edit"
    /\ IF disk.file[k] \in {None, new} THEN UNCHANGED <<disk, table>>
       ELSE LET d == [disk EXCEPT !.file[k] = new] IN
            IF FiledAt(table, i) # {} THEN table' = Refiled(table, i, new) /\ disk' = RefiledRow(d, table, i, new)
            ELSE disk' = _moveCommunityState(d, call[c].addr, new) /\ UNCHANGED table
    /\ Done(c)
    /\ UNCHANGED <<inst, sub, conn, pkcs, boot, world, late>>

----------------------------------------
(* communityUpdateSubscribe for a community this pkc has started: only      *)
(* listens to it.  No stop of the community removes these listeners, and    *)
(* the settings handler of the subscription does nothing.                   *)
StartedHere(k) ==
    {i \in RpcInstance : inst[i].of = k /\ inst[i].pkc = pkcs.cur /\ inst[i].life \in {"starting", "running", "stopping"}}

listenToStarted(c) ==
    /\ Called(c, {"update"})
    /\ \E i \in StartedHere(On[c]) :
        sub' = [sub EXCEPT ![c].pkc = pkcs.cur, ![c].listens = i, ![c].cleanup = Open(c), ![c].handler = Open(c)]
    /\ Done(c)
    /\ UNCHANGED <<disk, table, inst, conn, pkcs, boot, world, late>>

Watches(s) == Method[s] = "update" /\ sub[s].listens # None

(* communityUpdateSubscribe, commentUpdateSubscribe and the publish methods: *)
(* an object is created on the pkc of the call, its cleanup registered, then *)
(* it is updated or published.  Registering throws when the connection is *)
(* gone; a publication is entered in publishing before that. *)
createObject(c) ==
    /\ Called(c, {"update", "comment", "publish"})
    /\ Method[c] = "update" => StartedHere(On[c]) = {}
    /\ sub' = [sub EXCEPT ![c].pkc = pkcs.cur]
    /\ Step(c, "created")
    /\ UNCHANGED <<disk, table, inst, conn, pkcs, boot, world, late>>

createFails(c) ==
    /\ Fault("create") /\ call[c].pc = "created" /\ Done(c)
    /\ UNCHANGED <<disk, table, inst, sub, conn, pkcs, boot, world, late>>

registerObject(c) ==
    /\ call[c].pc = "created"
    /\ sub' = [sub EXCEPT ![c].publishing = (Method[c] = "publish"), ![c].cleanup = Open(c),
                          ![c].handler = (Open(c) /\ Method[c] # "publish"),
                          ![c].object = IF Open(c) THEN "live" ELSE "none"]
    /\ Step(c, IF Open(c) THEN "publishing" ELSE "done")
    /\ UNCHANGED <<disk, table, inst, conn, pkcs, boot, world, late>>

publishReturns(c) ==
    /\ call[c].pc = "publishing" /\ Done(c)
    /\ UNCHANGED <<disk, table, inst, sub, conn, pkcs, boot, world, late>>

(* A cleanup removes the listeners, stops the object and forgets it. *)
CleanedUp(s) ==
    [s EXCEPT !.cleanup = FALSE, !.handler = FALSE, !.listens = None, !.publishing = FALSE,
              !.object = IF @ = "live" THEN "stopped" ELSE @]

(* publish or update throws: the cleanup runs, and stays registered. *)
publishFails(c) ==
    /\ Fault("create") /\ call[c].pc = "publishing"
    /\ sub' = IF sub[c].cleanup THEN [sub EXCEPT ![c] = [CleanedUp(@) EXCEPT !.cleanup = TRUE]] ELSE sub
    /\ Done(c)
    /\ UNCHANGED <<disk, table, inst, conn, pkcs, boot, world, late>>

unsubscribe(c) ==
    /\ call[c].pc = "called" /\ Method[c] = "unsubscribe" /\ call[Sub[c]].pc = "done"
    /\ sub' = IF sub[Sub[c]].cleanup THEN [sub EXCEPT ![Sub[c]] = CleanedUp(@)] ELSE sub
    /\ Done(c)
    /\ UNCHANGED <<disk, table, inst, conn, pkcs, boot, world, late>>

(* The disconnection listener runs the cleanups that are registered when it *)
(* starts, one after the other, and then forgets the connection. *)
Registered(x) == {c \in RpcCall : From[c] = x /\ sub[c].cleanup}

CallInFlight(c) == call[c].pc \notin {"idle", "ready", "done"}

disconnect(x) ==
    /\ Fault("disconnect") /\ conn[x].is = "open"
    /\ conn' = [conn EXCEPT ![x] = [is |-> "cleaning", todo |-> Registered(x)]]
    /\ late' = late \cup {c \in RpcCall : From[c] = x /\ CallInFlight(c)}
    /\ UNCHANGED <<disk, table, inst, sub, pkcs, call, boot, world>>

cleanUpNext(x) ==
    /\ conn[x].is = "cleaning"
    /\ \E c \in conn[x].todo :
        /\ sub' = IF sub[c].cleanup THEN [sub EXCEPT ![c] = CleanedUp(@)] ELSE sub
        /\ conn' = [conn EXCEPT ![x].todo = @ \ {c}]
    /\ UNCHANGED <<disk, table, inst, pkcs, call, boot, world, late>>

cleanUpEnds(x) ==
    /\ conn[x].is = "cleaning" /\ conn[x].todo = {}
    /\ conn' = [conn EXCEPT ![x].is = "gone"]
    /\ sub' = [c \in RpcCall |-> IF From[c] = x THEN [sub[c] EXCEPT !.cleanup = FALSE, !.handler = FALSE] ELSE sub[c]]
    /\ UNCHANGED <<disk, table, inst, pkcs, call, boot, world, late>>

----------------------------------------
(* setSettings: the runs are queued.  A run swaps in a new pkc and then, one *)
(* connection and one subscription at a time, calls the settings handlers *)
(* registered at that moment; a handler that throws does not end the loop. *)
swapPkc(c) ==
    /\ call[c].pc = "called" /\ Method[c] = "settings" /\ pkcs.queue[1] = c
    /\ pkcs' = [pkcs EXCEPT !.cur = @ + 1]
    /\ late' = late \cup {x \in RpcCall : CallInFlight(x) /\ Method[x] # "settings"}
    /\ call' = [call EXCEPT ![c].pc = "handlers", ![c].conns = {x \in Client : conn[x].is # "gone"}]
    /\ UNCHANGED <<disk, table, inst, sub, conn, boot, world>>

swapFails(c) ==
    /\ Fault("create") /\ call[c].pc = "called" /\ Method[c] = "settings" /\ pkcs.queue[1] = c
    /\ pkcs' = [pkcs EXCEPT !.queue = Tail(@)] /\ Done(c)
    /\ UNCHANGED <<disk, table, inst, sub, conn, boot, world, late>>

nextConnection(c) ==
    /\ call[c].pc = "handlers" /\ call[c].subs = {}
    /\ \E x \in call[c].conns :
        call' = [call EXCEPT ![c].conns = @ \ {x}, ![c].subs = {s \in RpcCall : From[s] = x /\ sub[s].handler}]
    /\ UNCHANGED <<disk, table, inst, sub, conn, pkcs, boot, world, late>>

(* The handler of an update subscription stops its object and updates it on *)
(* the new pkc.  A cleanup that runs meanwhile ends a stopped object, or one *)
(* that is updated again afterwards, and then nobody can end it.  A handler  *)
(* that has no object, of a subscription that only listens, does nothing.    *)
moveCommunity(c) ==
    /\ call[c].pc = "handlers"
    /\ \E s \in call[c].subs :
        /\ Method[s] = "update"
        /\ sub' = IF ~sub[s].handler THEN sub
                  ELSE [sub EXCEPT ![s].pkc = pkcs.cur, ![s].object = IF Watches(s) THEN @ ELSE "moving"]
        /\ call' = IF ~sub[s].handler \/ Watches(s) THEN [call EXCEPT ![c].subs = @ \ {s}]
                   ELSE [call EXCEPT ![c].subs = @ \ {s}, ![c].pc = "moving", ![c].i = s]
    /\ UNCHANGED <<disk, table, inst, conn, pkcs, boot, world, late>>

finishMove(c) ==
    /\ call[c].pc = "moving"
    /\ \E o \in IF sub[call[c].i].handler THEN {"live"} ELSE {"stopped", "revived"} :
        sub' = [sub EXCEPT ![call[c].i].object = o]
    /\ Step(c, "handlers")
    /\ UNCHANGED <<disk, table, inst, conn, pkcs, boot, world, late>>

(* That of a comment calls update on a comment that is updating already, *)
(* which does nothing: the comment stays on the old pkc. *)
keepComment(c) ==
    /\ call[c].pc = "handlers"
    /\ \E s \in call[c].subs : Method[s] = "comment" /\ call' = [call EXCEPT ![c].subs = @ \ {s}]
    /\ UNCHANGED <<disk, table, inst, sub, conn, pkcs, boot, world, late>>

(* The handler of a start subscription marks the entry pending and stops the *)
(* community; a community that is not filed, or is pending, is left alone. *)
beginRestart(c) ==
    /\ call[c].pc = "handlers"
    /\ \E s \in call[c].subs :
        LET a == _findCommunityAddress(On[s])
            i == IF a = None THEN None ELSE table[a] IN
        /\ Method[s] \in {"start", "resubscribe"}
        /\ IF ~sub[s].handler \/ i \notin RpcInstance
           THEN call' = [call EXCEPT ![c].subs = @ \ {s}] /\ UNCHANGED <<table, inst>>
           ELSE /\ table' = [table EXCEPT ![a] = "pending"]
                /\ inst' = IF inst[i].life = "running" THEN [inst EXCEPT ![i].life = "stopping"] ELSE inst
                /\ call' = [call EXCEPT ![c].subs = @ \ {s}, ![c].pc = "restarting", ![c].addr = a, ![c].i = i]
    /\ UNCHANGED <<disk, sub, conn, pkcs, boot, world, late>>

finishRestart(c) ==
    LET i == call[c].i  ok == ~\E j \in RpcInstance \ {i} : inst[j].of = inst[i].of /\ inst[j].life \in {"starting", "running", "stopping"} IN
    /\ call[c].pc = "restarting" /\ ok
    /\ inst' = [inst EXCEPT ![i].life = "running", ![i].pkc = pkcs.cur]
    /\ table' = [table EXCEPT ![call[c].addr] = i]
    /\ Step(c, "handlers")
    /\ UNCHANGED <<disk, sub, conn, pkcs, boot, world, late>>

restartFails_Aborts(c) ==
    /\ Fault("restart") /\ call[c].pc = "restarting"
    /\ inst' = [inst EXCEPT ![call[c].i].life = "stopped"]
    /\ table' = [table EXCEPT ![call[c].addr] = None]
    /\ pkcs' = [pkcs EXCEPT !.queue = Tail(@)] /\ Done(c)
    /\ UNCHANGED <<disk, sub, conn, boot, world, late>>

restartFails(c) ==
    LET i == call[c].i IN
    /\ call[c].pc = "restarting"
    /\ Fault("restart") \/ \E j \in RpcInstance \ {i} : inst[j].of = inst[i].of /\ inst[j].life \in {"starting", "running", "stopping"}
    /\ inst' = [inst EXCEPT ![i].life = "stopped"]
    /\ table' = [table EXCEPT ![call[c].addr] = None]
    /\ Step(c, "handlers")
    /\ UNCHANGED <<disk, sub, conn, pkcs, boot, world, late>>

(* The loop is over: publications on the old pkc are to end in a minute, and *)
(* the old pkc is to be retired. *)
settingsApplied(c) ==
    LET old == pkcs.cur - 1 IN
    /\ call[c].pc = "handlers" /\ call[c].conns = {} /\ call[c].subs = {}
    /\ pkcs' = [pkcs EXCEPT !.queue = Tail(@), !.timer = @ \cup {old},
                            !.ending = @ \cup {s \in RpcCall : sub[s].publishing /\ sub[s].pkc = old}]
    /\ Done(c)
    /\ UNCHANGED <<disk, table, inst, sub, conn, boot, world, late>>

(* _retirePKCIfNeeded: a pkc no publication is using is destroyed, and that *)
(* stops whatever else still runs on it. *)
retireIfNeeded(g, subs, timers) ==
    LET used == \E s \in RpcCall : subs[s].publishing /\ subs[s].pkc = g IN
    /\ pkcs' = IF used THEN timers ELSE [timers EXCEPT !.destroyed = @ \cup {g}]
    /\ sub' = [s \in RpcCall |-> IF ~used /\ subs[s].pkc = g /\ subs[s].object \in {"live", "revived"}
                                 THEN [subs[s] EXCEPT !.object = "stopped"] ELSE subs[s]]
    /\ inst' = [i \in RpcInstance |-> IF ~used /\ inst[i].pkc = g /\ inst[i].life \in {"starting", "running"}
                                   THEN [inst[i] EXCEPT !.life = "stopped"] ELSE inst[i]]

_forceCleanupPublication(s) ==
    /\ s \in pkcs.ending
    /\ LET timers == [pkcs EXCEPT !.ending = @ \ {s}] IN
        IF ~sub[s].publishing THEN pkcs' = timers /\ UNCHANGED <<sub, inst>>
        ELSE retireIfNeeded(sub[s].pkc,
                            [sub EXCEPT ![s] = IF @.cleanup THEN CleanedUp(@) ELSE [@ EXCEPT !.publishing = FALSE]], timers)
    /\ UNCHANGED <<disk, table, conn, call, boot, world, late>>

retirePkc(g) ==
    /\ g \in pkcs.timer
    /\ retireIfNeeded(g, sub, [pkcs EXCEPT !.timer = @ \ {g}])
    /\ UNCHANGED <<disk, table, conn, call, boot, world, late>>

----------------------------------------
(* _autoStartPreviousCommunities: the rows are read when the server starts; *)
(* after the node has settled the stored and not yet filed ones are started, *)
(* again after a transient error, with no second look at the table. *)
Booting(d) == [a \in Address |-> [pc |-> IF d.row[a] = "started" THEN "listed" ELSE "done", left |-> AutoRetries]]

autoStartFilter(a) ==
    LET stored == \E k \in Community : disk.file[k] = a IN
    /\ boot[a].pc = "listed"
    /\ disk' = IF stored THEN disk ELSE [disk EXCEPT !.row[a] = "absent"]
    /\ boot' = [boot EXCEPT ![a].pc = IF stored /\ table[a] = None THEN "start" ELSE "done"]
    /\ UNCHANGED <<table, inst, sub, conn, pkcs, call, world, late>>

_internalStartCommunity(a) ==
    /\ boot[a].pc = "start"
    /\ table' = [table EXCEPT ![a] = "pending"]
    /\ \E k \in Community : disk.file[k] = a /\ inst' = [inst EXCEPT ![a] = [life |-> "new", of |-> k, pkc |-> pkcs.cur]]
    /\ boot' = [boot EXCEPT ![a].pc = "create"]
    /\ UNCHANGED <<disk, sub, conn, pkcs, call, world, late>>

autoStartGone(a) ==
    /\ boot[a].pc = "start" /\ \A k \in Community : disk.file[k] # a
    /\ boot' = [boot EXCEPT ![a].pc = "done"] /\ table' = [table EXCEPT ![a] = None]
    /\ UNCHANGED <<disk, inst, sub, conn, pkcs, call, world, late>>

autoStartBegins(a) ==
    /\ boot[a].pc = "create" /\ Startable(inst[a].of)
    /\ inst' = [inst EXCEPT ![a].life = "starting"]
    /\ boot' = [boot EXCEPT ![a].pc = "starting"]
    /\ UNCHANGED <<disk, table, sub, conn, pkcs, call, world, late>>

autoStartDone(a) ==
    LET t == [table EXCEPT ![a] = a]  d == [disk EXCEPT !.row[a] = "started"]  now == disk.file[inst[a].of] IN
    /\ boot[a].pc = "starting" /\ inst[a].life = "starting"
    /\ inst' = [inst EXCEPT ![a].life = "running"]
    /\ table' = Refiled(t, a, now) /\ disk' = RefiledRow(d, t, a, now)
    /\ boot' = [boot EXCEPT ![a].pc = "done"]
    /\ UNCHANGED <<sub, conn, pkcs, call, world, late>>

autoStartFails(a) ==
    /\ \/ boot[a].pc = "create" /\ ~Startable(inst[a].of) /\ boot' = [boot EXCEPT ![a].pc = "done"]
       \/ boot[a].pc = "starting" /\ inst[a].life = "stopped" /\ boot' = [boot EXCEPT ![a].pc = "done"]
       \/ /\ boot[a].pc \in {"create", "starting"} /\ Fault("blip")
          /\ boot' = [boot EXCEPT ![a] = IF @.left = 0 THEN [@ EXCEPT !.pc = "done"]
                                         ELSE [pc |-> "start", left |-> @.left - 1]]
    /\ inst' = [inst EXCEPT ![a].life = "stopped"]
    /\ table' = [table EXCEPT ![a] = None]
    /\ UNCHANGED <<disk, sub, conn, pkcs, call, world, late>>

(* The server's process ends and is started again, the clients reconnect: *)
(* what is on disk stays. *)
crash ==
    /\ Fault("crash") /\ ~world.restarted
    /\ table' = [a \in Address |-> None] /\ inst' = [i \in RpcInstance |-> NoInst]
    /\ sub' = [c \in RpcCall |-> NoSub] /\ late' = {}
    /\ conn' = [x \in Client |-> [is |-> "open", todo |-> {}]]
    /\ call' = [c \in RpcCall |-> IF CallInFlight(c) THEN [NoCall EXCEPT !.pc = "done"] ELSE call[c]]
    /\ pkcs' = FreshPkcs /\ boot' = Booting(disk) /\ world' = [world EXCEPT !.restarted = TRUE]
    /\ UNCHANGED disk

RpcInit ==
    /\ \E w \in RpcWorkload :
        /\ world = [faults |-> w.faults, restarted |-> FALSE]
        /\ call = [c \in RpcCall |-> [NoCall EXCEPT !.pc = IF c \in w.calls THEN "ready" ELSE "idle"]]
        /\ disk = [file |-> Home, row |-> [a \in Address |-> IF \E k \in w.started : Home[k] = a THEN "started" ELSE "absent"]]
    /\ table = [a \in Address |-> None] /\ inst = [i \in RpcInstance |-> NoInst]
    /\ sub = [c \in RpcCall |-> NoSub] /\ conn = [x \in Client |-> [is |-> "open", todo |-> {}]]
    /\ pkcs = FreshPkcs /\ boot = Booting(disk) /\ late = {}

callStep(c) ==
    \/ arrive(c) \/ startCommunity(c) \/ startedCommunitySubscribe(c) \/ startCommunityImpl(c) \/ attachToStarted(c)
    \/ beginStart(c) \/ finishStart(c) \/ failStart(c) \/ locate(c) \/ getStarted(c) \/ beginStop(c) \/ finishStop(c)
    \/ editCommunity(c) \/ listenToStarted(c) \/ createObject(c) \/ registerObject(c) \/ createFails(c)
    \/ publishReturns(c) \/ publishFails(c) \/ unsubscribe(c)
    \/ swapPkc(c) \/ swapFails(c) \/ nextConnection(c) \/ moveCommunity(c) \/ finishMove(c) \/ keepComment(c) \/ beginRestart(c)
    \/ finishRestart(c) \/ restartFails(c) \/ settingsApplied(c)

bootStep(a) ==
    \/ autoStartFilter(a) \/ _internalStartCommunity(a) \/ autoStartGone(a) \/ autoStartBegins(a)
    \/ autoStartDone(a) \/ autoStartFails(a)

RpcNext ==
    \/ \E c \in RpcCall : callStep(c) \/ _forceCleanupPublication(c)
    \/ \E a \in Address : bootStep(a)
    \/ \E x \in Client : disconnect(x) \/ cleanUpNext(x) \/ cleanUpEnds(x)
    \/ \E g \in 1..pkcs.cur : retirePkc(g)
    \/ crash

RpcSpec == RpcInit /\ [][RpcNext]_rpcVars

----------------------------------------
(* getStartedCommunity polls for as long as an entry is pending: somebody *)
(* must be about to replace it, or every later call about that community *)
(* would hang. *)
PendingIsBeingStarted ==
    \A a \in Address : table[a] = "pending" =>
        \/ \E c \in RpcCall : call[c].addr = a /\ call[c].pc \in {"create", "starting", "restarting"}
        \/ boot[a].pc \in {"create", "starting"}

(* When the settings queue is empty, a subscription that was complete before *)
(* the settings changed follows the new pkc, whatever the other handlers did *)
(* (issue 129): else it would die in silence with the old one. *)
SettingsReachSubscribers ==
    Queued = {} => \A s \in RpcCall \ late :
        Method[s] = "update" /\ sub[s].cleanup /\ sub[s].object = "live" => sub[s].pkc = pkcs.cur

(* A viewer of a community that runs here follows the new pkc with it, as *)
(* long as somebody is subscribed to its start. *)
Starters(k) == {t \in RpcCall \ late : Method[t] \in {"start", "resubscribe"} /\ On[t] = k /\ sub[t].handler}

ViewersFollow ==
    Queued = {} => \A s \in RpcCall \ late :
        Watches(s) /\ sub[s].cleanup /\ inst[sub[s].listens].life = "running" /\ Starters(On[s]) # {}
            => inst[sub[s].listens].pkc = pkcs.cur

(* Without anybody subscribed to its start, nobody moves the community. *)
EveryViewerFollows ==
    Queued = {} => \A s \in RpcCall \ late :
        Watches(s) /\ sub[s].cleanup /\ inst[sub[s].listens].life = "running" => inst[sub[s].listens].pkc = pkcs.cur

(* An object of a subscription lives only as long as somebody can end it: *)
(* its cleanup is registered, unless the connection went away during the *)
(* call that made it, or the cleanup ran while the settings moved it. *)
NoOrphanObject ==
    \A s \in RpcCall \ late : sub[s].object = "live" => sub[s].cleanup

NothingRevived == \A s \in RpcCall : sub[s].object # "revived"

(* What a call in flight waits for, if anything: settings changes that were *)
(* queued before it, its own turn in that queue, the call it unsubscribes, *)
(* an entry that is pending, a start under way. *)
WaitsForSettings(c) ==
    \/ call[c].pc = "called" /\ Method[c] = "settings" /\ pkcs.queue[1] # c
    \/ call[c].pc = "called" /\ Method[c] \notin {"settings", "unsubscribe"} /\ call[c].wait \cap Queued # {}
    \/ call[c].pc \in {"start", "impl"} /\ call[c].wait \cap Queued # {}

WaitsForStart(c) ==
    \/ call[c].pc \in {"attach", "get"} /\ table[call[c].addr] = "pending"
    \/ call[c].pc = "have" /\ Method[c] \in {"stop", "delete"} /\ inst[call[c].i].life = "starting"

IsStarting(i) == inst[i].life \in {"starting", "stopped"}

CallGoesOn(c) ==
    /\ CallInFlight(c) /\ ~WaitsForSettings(c) /\ ~WaitsForStart(c)
    /\ call[c].pc = "starting" => IsStarting(c)
    /\ call[c].pc = "called" /\ Method[c] = "unsubscribe" => call[Sub[c]].pc = "done"

BootGoesOn(a) == boot[a].pc # "done" /\ (boot[a].pc = "starting" => IsStarting(a))

(* Nobody waits for ever: while a call is unanswered some call, automatic *)
(* start or cleanup can go on, and none of them ever goes back. *)
EveryCallReturns ==
    (\E c \in RpcCall : CallInFlight(c) /\ Method[c] # "unsubscribe") =>
        \/ \E c \in RpcCall : CallGoesOn(c)
        \/ \E a \in Address : BootGoesOn(a)
        \/ \E x \in Client : conn[x].is = "cleaning"

(* The comment on startedCommunitySubscribe: "Unlike startCommunity this *)
(* never overrides a stop". *)
NeverOverridesAStop ==
    [][\A c \in RpcCall : Method[c] = "resubscribe" /\ inst[c].life # "starting" /\ inst'[c].life = "starting"
          => disk.row[call[c].addr] # "stopped"]_rpcVars

(* The RPC server leaves nobody behind: no caller waits on a start nobody *)
(* makes, no subscription dies with the old settings, no object outlives its *)
(* connection, and every call can still return. *)
ServerKeepsUp ==
    PendingIsBeingStarted /\ SettingsReachSubscribers /\ ViewersFollow /\ NoOrphanObject /\ EveryCallReturns
========================================
