-------------------- MODULE CommunityLifecycle --------------------
(***************************************************************************)
(* Starting, stopping, renaming, deleting and mirroring one local          *)
(* community, through several instances in several processes that share a  *)
(* data path: the start lock, the register of started communities of each  *)
(* process, the database file and the folder of post updates.              *)
(***************************************************************************)
EXTENDS Naturals

CONSTANTS
    Owners,      \* instances of LocalCommunity
    Processes, Addresses,
    LcWorkload   \* [home, calls, crash, stall, overlap, fails]: home process of each owner,
                 \* the calls each may make (at most once), faults that may happen

NoOwner == "none"
LcCalls == {"start", "stop", "rename", "delete", "update"}

ASSUME LcAssumption ==
    /\ Addresses # {} /\ (\A a \in Addresses : \E b \in Addresses : b # a) /\ Processes # {} /\ NoOwner \notin Owners /\ {"none", "dead"} \cap Processes = {}
    /\ \A j \in LcWorkload : j.home \in [Owners -> Processes] /\ j.calls \in [Owners -> SUBSET LcCalls]

FirstAddress == CHOOSE a \in Addresses : TRUE

VARIABLES
    lcJob,
    lc,        \* [owner -> [state, op, at, addr, mirror]]
    left,      \* calls an owner may still make
    lock,      \* [address -> process holding the start lock, "dead" or "none"]
    started,   \* processStartedCommunities: owners
    files,     \* [address -> "none", "partial", "whole"], the database
    folder,    \* address of the postUpdates folder
    gone,      \* the database was moved to the deleted directory
    stalled,   \* processes whose event loop has stood still for longer than `stale`
    stranded,  \* history: a rename was cut off, or could not be undone
    unguarded, \* history: instances whose lock was lost while they hold it
    uprooted   \* history: started instances whose database another one moved away

lostVars == <<stalled, unguarded, uprooted>>
lcVars == <<lcJob, lc, left, lock, started, files, folder, gone, stranded, lostVars>>

HomeOf(o) == lcJob.home[o]
Addr(o) == lc[o].addr
Peers(o) == {p \in started : HomeOf(p) = HomeOf(o)}
Set(o, r) == lc' = [lc EXCEPT ![o] = r]
StandsAt(o, place) == lc[o].at = place /\ HomeOf(o) \notin stalled
Idle(o) == lc[o].at = "idle"
MayFail == lcJob.fails

(* Calls of one process overlap only in the workloads that say so. *)
Free(o) == Idle(o) /\ (lcJob.overlap \/ \A p \in Owners : HomeOf(p) = HomeOf(o) => Idle(p))
TakesCall(o, call) == Free(o) /\ HomeOf(o) \notin stalled /\ call \in left[o] /\ left' = [left EXCEPT ![o] = @ \ {call}]

(* lockfile.check and lock: a lock that nobody has refreshed for ten seconds *)
(* is stale, also when its holder is only slow. *)
Held(a) == lock[a] \in Processes \ stalled

(* Started instances at the address of o, other than o; another instance that *)
(* is moving the database of that address. *)
Others(o) == {p \in started : p # o /\ Addr(p) = Addr(o)}
Uproots(o) == uprooted' = uprooted \cup Others(o)
MovedByOther(o) == \E p \in Owners \ {o} : Addr(p) = Addr(o) /\ lc[p].at \in {"copy", "copied", "clean"}

----------------------------------------
(* start(): the checks come before the try block, so they throw and leave *)
(* everything as it is. *)
start(o) ==
    /\ TakesCall(o, "start") /\ lc[o].state # "updating" /\ ~Held(Addr(o)) /\ Peers(o) = {}
    /\ files[Addr(o)] = "whole"
    /\ Set(o, [lc[o] EXCEPT !.op = "start", !.at = "prepare"])
    /\ UNCHANGED <<lcJob, lock, started, files, folder, gone, stranded, lostVars>>

(* initBeforeStarting and the challenges: a failure finds stop() with *)
(* nothing to undo. *)
prepareStart(o) ==
    /\ StandsAt(o, "prepare")
    /\ \/ MayFail /\ lc[o].op = "start" /\ Set(o, [lc[o] EXCEPT !.at = "idle"])
       \/ Set(o, [lc[o] EXCEPT !.state = "started", !.at = "lock"])
    /\ UNCHANGED <<lcJob, left, lock, started, files, folder, gone, stranded, lostVars>>

(* lockCommunityStart throws when the lock is held, and start() then stops *)
(* the instance. *)
lockCommunityStart(o) ==
    /\ StandsAt(o, "lock")
    /\ \/ /\ Held(Addr(o))
          /\ Set(o, [lc[o] EXCEPT !.at = "unlock"]) /\ UNCHANGED <<lock, started>>
       \/ /\ ~Held(Addr(o)) /\ lock' = [lock EXCEPT ![Addr(o)] = HomeOf(o)]
          /\ started' = started \cup {o}
          /\ Set(o, [lc[o] EXCEPT !.at = "open"])
    /\ unguarded' = IF Held(Addr(o)) THEN unguarded
                    ELSE (unguarded \ {o}) \cup {p \in Others(o) : HomeOf(p) = lock[Addr(o)]}
    /\ uprooted' = IF ~Held(Addr(o)) /\ MovedByOther(o) THEN uprooted \cup {o} ELSE uprooted
    /\ UNCHANGED <<lcJob, left, files, folder, gone, stranded, stalled>>

(* Migration, internal state, challenges, keys, topics, repinning; then the *)
(* publish loop runs. *)
openCommunity(o) ==
    /\ StandsAt(o, "open")
    /\ \/ (MayFail \/ files[Addr(o)] # "whole") /\ Set(o, [lc[o] EXCEPT !.at = "unlock"])
       \/ files[Addr(o)] = "whole" /\ Set(o, [lc[o] EXCEPT !.at = "idle", !.op = "none"])
    /\ UNCHANGED <<lcJob, left, lock, started, files, folder, gone, stranded, lostVars>>

Running(o) == lc[o].state = "started" /\ lc[o].at \in {"idle", "closing"}

----------------------------------------
(* stop(): the loop is awaited, then the lock goes, then the register entry. *)
stop(o) ==
    /\ TakesCall(o, "stop") /\ lc[o].state = "started"
    /\ Set(o, [lc[o] EXCEPT !.op = "stop", !.at = "closing"])
    /\ UNCHANGED <<lcJob, lock, started, files, folder, gone, stranded, lostVars>>

loopEnds(o) ==
    /\ StandsAt(o, "closing") /\ Set(o, [lc[o] EXCEPT !.at = "unlock"])
    /\ UNCHANGED <<lcJob, left, lock, started, files, folder, gone, stranded, lostVars>>

unlockCommunityStart_Tracked(o) == IF o \in started /\ lock[Addr(o)] = HomeOf(o) /\ lc[o].op # "start" THEN [lock EXCEPT ![Addr(o)] = "none"] ELSE lock

(* The lock of the process is released, whichever instance took it. *)
unlockCommunityStart(o) == IF lock[Addr(o)] = HomeOf(o) THEN [lock EXCEPT ![Addr(o)] = "none"] ELSE lock

Mirrors(o) == {p \in Owners : lc[p].mirror = o}

finishStopCommunity(o) ==
    /\ StandsAt(o, "unlock")
    /\ lock' = unlockCommunityStart(o) /\ started' = started \ {o}
    /\ lc' = [p \in Owners |->
           IF p = o THEN [lc[o] EXCEPT !.state = "stopped", !.op = IF @ \in {"rename", "delete"} THEN @ ELSE "none",
                           !.at = IF lc[o].op = "rename" THEN "move" ELSE IF lc[o].op = "delete" THEN "remove" ELSE "idle"]
           ELSE IF p \in Mirrors(o) THEN [lc[p] EXCEPT !.mirror = NoOwner] ELSE lc[p]]
    /\ unguarded' = (unguarded \ {o}) \cup {p \in Others(o) : lock'[Addr(o)] # lock[Addr(o)]}
    /\ uprooted' = uprooted \ {o}
    /\ UNCHANGED <<lcJob, left, files, folder, gone, stranded, stalled>>

----------------------------------------
(* editPropsOnStartedCommunity with a new address: everything happens while *)
(* the community is stopped. *)
NewAddress(o) == CHOOSE a \in Addresses : a # Addr(o)

rename(o) ==
    /\ TakesCall(o, "rename") /\ lc[o].state = "started"
    /\ files[NewAddress(o)] = "none"
    /\ Set(o, [lc[o] EXCEPT !.op = "rename", !.at = "closing"])
    /\ UNCHANGED <<lcJob, lock, started, files, folder, gone, stranded, lostVars>>

Restart(o) == Set(o, [lc[o] EXCEPT !.op = "start", !.at = IF Held(Addr(o)) \/ Peers(o) # {} THEN "idle" ELSE "prepare"])

movePostUpdatesFolder(o) ==
    /\ StandsAt(o, "move")
    /\ \/ MayFail /\ Restart(o) /\ UNCHANGED <<folder, uprooted>>
       \/ folder' = NewAddress(o) /\ Uproots(o) /\ Set(o, [lc[o] EXCEPT !.at = "copy"])
    /\ UNCHANGED <<lcJob, left, lock, started, files, gone, stranded, stalled, unguarded>>

(* changeDbFilename: a backup of the file, if it is still there, then the old *)
(* one is removed. *)
copyDb(o) ==
    /\ StandsAt(o, "copy") /\ Set(o, [lc[o] EXCEPT !.at = "copied"])
    /\ files' = IF files[Addr(o)] = "whole" THEN [files EXCEPT ![NewAddress(o)] = "partial"] ELSE files
    /\ UNCHANGED <<lcJob, left, lock, started, folder, gone, stranded, lostVars>>

Renamed(o) == IF files[NewAddress(o)] = "none" THEN files ELSE [files EXCEPT ![Addr(o)] = "none", ![NewAddress(o)] = "whole"]

changeDbFilename(o) ==
    /\ StandsAt(o, "copied")
    /\ \/ MayFail /\ Set(o, [lc[o] EXCEPT !.at = "clean"]) /\ UNCHANGED <<files, uprooted>>
       \/ MayFail /\ Set(o, [lc[o] EXCEPT !.at = "clean"]) /\ files' = Renamed(o) /\ Uproots(o)
       \/ /\ files' = Renamed(o) /\ Uproots(o)
          /\ Set(o, [lc[o] EXCEPT !.op = "restart", !.addr = NewAddress(o), !.at = "prepare"])
    /\ UNCHANGED <<lcJob, left, lock, started, folder, gone, stranded, stalled, unguarded>>

(* The copy only goes while the old database is there. *)
removePartialDbCopy(o) == IF files[Addr(o)] = "whole" THEN [files EXCEPT ![NewAddress(o)] = "none"] ELSE files

restoredFolder(o) == Addr(o)

restoreCommunityAfterFailedRename(o) ==
    /\ StandsAt(o, "clean")
    /\ files' = removePartialDbCopy(o)
    /\ \/ /\ MayFail /\ UNCHANGED folder /\ stranded' = TRUE
          /\ Set(o, [lc[o] EXCEPT !.at = "idle", !.op = "none"])
       \/ /\ folder' = restoredFolder(o) /\ stranded' = (files'[Addr(o)] # "whole")
          /\ IF files'[Addr(o)] = "whole" THEN Restart(o) ELSE Set(o, [lc[o] EXCEPT !.at = "idle", !.op = "none"])
    /\ UNCHANGED <<lcJob, left, lock, started, gone, lostVars>>

----------------------------------------
(* deleteCommunity of an instance asks the started one of its process. *)
deleteCommunity(o) ==
    /\ TakesCall(o, "delete") /\ ~gone /\ files[Addr(o)] = "whole"
    /\ LET target == IF Peers(o) # {} THEN CHOOSE p \in Peers(o) : TRUE ELSE o IN
       /\ Idle(target)
       /\ Set(target, IF lc[target].state = "started" THEN [lc[target] EXCEPT !.op = "delete", !.at = "closing"]
                      ELSE [lc[target] EXCEPT !.op = "delete", !.at = "remove", !.state = "stopped", !.mirror = NoOwner])
    /\ UNCHANGED <<lcJob, lock, started, files, folder, gone, stranded, lostVars>>

(* Keys, folder and pins go first and their failures are only logged; the *)
(* file is moved away last. *)
moveCommunityDb(o) ==
    /\ StandsAt(o, "remove")
    /\ files' = [files EXCEPT ![Addr(o)] = "none"] /\ gone' = (gone \/ files[Addr(o)] = "whole")
    /\ Uproots(o) /\ Set(o, [lc[o] EXCEPT !.at = "idle", !.op = "none", !.state = "stopped"])
    /\ UNCHANGED <<lcJob, left, lock, started, folder, stranded, stalled, unguarded>>

----------------------------------------
(* updateOnce: mirror the started community of the process, if there is one. *)
Mirrored(o) == IF Peers(o) = {} THEN NoOwner ELSE CHOOSE p \in Peers(o) : TRUE

update(o) ==
    /\ TakesCall(o, "update") /\ lc[o].state = "stopped"
    /\ Set(o, [lc[o] EXCEPT !.state = "updating", !.mirror = Mirrored(o)])
    /\ UNCHANGED <<lcJob, lock, started, files, folder, gone, stranded, lostVars>>

updateLoop(o) ==
    /\ HomeOf(o) \notin stalled /\ lc[o].state = "updating" /\ lc[o].mirror = NoOwner /\ Mirrored(o) # NoOwner
    /\ Set(o, [lc[o] EXCEPT !.mirror = Mirrored(o)])
    /\ UNCHANGED <<lcJob, left, lock, started, files, folder, gone, stranded, lostVars>>

stopUpdating(o) ==
    /\ TakesCall(o, "stop") /\ lc[o].state = "updating"
    /\ Set(o, [lc[o] EXCEPT !.state = "stopped", !.mirror = NoOwner])
    /\ UNCHANGED <<lcJob, lock, started, files, folder, gone, stranded, lostVars>>

(* A process dies: its locks are no longer refreshed. *)
processCrash(p) ==
    /\ p \in lcJob.crash /\ \E o \in Owners : HomeOf(o) = p /\ lc[o].at # "dead"
    /\ lc' = [o \in Owners |-> IF HomeOf(o) = p THEN [lc[o] EXCEPT !.at = "dead", !.state = "stopped", !.mirror = NoOwner] ELSE lc[o]]
    /\ lock' = [a \in Addresses |-> IF lock[a] = p THEN "dead" ELSE lock[a]]
    /\ started' = {o \in started : HomeOf(o) # p}
    /\ stranded' = (stranded \/ \E o \in Owners : HomeOf(o) = p /\ lc[o].at \in {"copy", "copied", "clean"})
    /\ stalled' = stalled \ {p} /\ unguarded' = unguarded \cap started' /\ uprooted' = uprooted \cap started'
    /\ UNCHANGED <<lcJob, left, files, folder, gone>>

(* The event loop of a process stands still, for longer than a lock stays *)
(* fresh, and goes on. A lock nobody took meanwhile is refreshed again; of one *)
(* that was taken the process learns nothing, as onCompromised does nothing. *)
processStalls(p) ==
    /\ p \in lcJob.stall \ stalled /\ stalled' = stalled \cup {p}
    /\ UNCHANGED <<lcJob, lc, left, lock, started, files, folder, gone, stranded, unguarded, uprooted>>

onCompromised(p) ==
    /\ p \in stalled /\ stalled' = stalled \ {p}
    /\ UNCHANGED <<lcJob, lc, left, lock, started, files, folder, gone, stranded, unguarded, uprooted>>

LcInit ==
    /\ lcJob \in LcWorkload
    /\ lc = [o \in Owners |-> [state |-> "stopped", op |-> "none", at |-> "idle", addr |-> FirstAddress, mirror |-> NoOwner]]
    /\ left = lcJob.calls
    /\ lock = [a \in Addresses |-> "none"] /\ started = {}
    /\ files = [a \in Addresses |-> IF a = FirstAddress THEN "whole" ELSE "none"]
    /\ folder = FirstAddress /\ gone = FALSE /\ stranded = FALSE
    /\ stalled = {} /\ unguarded = {} /\ uprooted = {}

LcNext ==
    \/ \E o \in Owners :
           \/ start(o) \/ prepareStart(o) \/ lockCommunityStart(o) \/ openCommunity(o)
           \/ stop(o) \/ loopEnds(o) \/ finishStopCommunity(o)
           \/ rename(o) \/ movePostUpdatesFolder(o) \/ copyDb(o) \/ changeDbFilename(o) \/ restoreCommunityAfterFailedRename(o)
           \/ deleteCommunity(o) \/ moveCommunityDb(o)
           \/ update(o) \/ updateLoop(o) \/ stopUpdating(o)
    \/ \E p \in Processes : processCrash(p) \/ processStalls(p) \/ onCompromised(p)

LcSpec == LcInit /\ [][LcNext]_lcVars

----------------------------------------
(* One instance at a time publishes under an address, also when a start loses *)
(* the race for the lock, fails half way or follows a crash, unless the lock *)
(* of one of them was taken while its process stood still, or went with the *)
(* failed start of another instance of its process. *)
OneRunnerPerAddress ==
    \A o, p \in Owners : (Running(o) /\ Running(p) /\ Addr(o) = Addr(p)) => o = p \/ {o, p} \cap unguarded # {}

(* And under one address at a time, unless a process renamed the database *)
(* while an instance of another one ran on it. *)
OneRunner ==
    \A o, p \in Owners : (Running(o) /\ Running(p)) => o = p \/ {o, p} \cap (unguarded \cup uprooted) # {}

(* A runner holds the lock of its address, with the same exemption: nobody *)
(* else can start what it runs. *)
RunnerHoldsLock == \A o \in Owners : Running(o) => lock[Addr(o)] = HomeOf(o) \/ o \in unguarded

(* A start lock that is refreshed belongs to a process in which an instance *)
(* runs, starts or stops: nobody is shut out for ever. *)
LockHasAnOwner ==
    \A a \in Addresses : Held(a) => \E o \in started : HomeOf(o) = lock[a] /\ Addr(o) = a

(* The community runs on a whole database, with its post updates under the *)
(* same address, whatever step of a rename failed, unless undoing it failed *)
(* too, the process died meanwhile or another instance moved the database *)
(* from under it. *)
RunsOnItsFiles ==
    \A o \in Owners \ uprooted : Running(o) =>
        files[Addr(o)] = "whole" /\ (stranded \/ folder = Addr(o))

(* No failed or interrupted rename loses the database. *)
DatabaseIsKept == gone \/ \E a \in Addresses : files[a] = "whole"

(* An instance never mirrors one that has stopped. *)
MirrorsARunner == \A o \in Owners : lc[o].mirror # NoOwner => lc[lc[o].mirror].state = "started"

(* What would hold if a slow process learned that its lock was taken, and if a *)
(* start that fails left the lock of its process alone. *)
NobodyLosesItsLock == unguarded = {}

(* Starting, stopping, renaming and deleting from several instances and *)
(* processes, some of which crash or stand still, leave one runner at most, a *)
(* lock that somebody will release, and a database that is whole and under *)
(* one address. *)
CommunityIsSafe ==
    /\ OneRunnerPerAddress /\ OneRunner /\ RunnerHoldsLock /\ LockHasAnOwner
    /\ RunsOnItsFiles /\ DatabaseIsKept /\ MirrorsARunner
========================================
