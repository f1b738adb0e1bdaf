-------------------- MODULE CommentMirrors --------------------
(***************************************************************************)
(* Who keeps whom updating: the comment objects of the user mirror one     *)
(* updating instance per cid, a reply's instance hangs on the instance of  *)
(* its post, and an instance stops with its last listener.                 *)
(*                                                                         *)
(* A step runs from one await to the next.  Every object awaits its own    *)
(* calls; different objects interleave.  pkc.destroy(), which stops        *)
(* instances that still have mirrors, is not modelled.                     *)
(***************************************************************************)
EXTENDS Naturals, FiniteSets

CONSTANTS
    User,        \* the user's comment objects
    Inst,        \* updating instances the client may create
    PostCid, ReplyCid,
    cidOf,       \* cidOf[u]
    MaxUpdates,  \* bound: MaxUpdates[u] calls of update() on an object
    MirFaults,   \* "invalid": a CommentIpfs that cannot be used
    NoInst

ASSUME MirAssumption ==
    /\ NoInst \notin Inst /\ PostCid # ReplyCid /\ cidOf \in [User -> {PostCid, ReplyCid}] /\ MaxUpdates \in [User -> Nat]
    /\ IsFiniteSet(User) /\ IsFiniteSet(Inst)

VARIABLES
    tracked,   \* pkc._updatingComments
    user,      \* user[u]: state, the instance mirrored, the step of its call
    inst       \* inst[i]: state, listeners counted, step of its loading, links

mirVars == <<tracked, user, inst>>

MirrorCid == {PostCid, ReplyCid}
Unused == [cid |-> NoInst, state |-> "none", n |-> 0, stage |-> "none", community |-> FALSE, post |-> NoInst, after |-> NoInst, pc |-> "idle", late |-> FALSE]

(* An instance that nobody refers to any more is collected; which free one a *)
(* new instance gets makes no difference. *)
Collected(i) ==
    /\ inst[i].state = "stopped" /\ inst[i].pc = "idle" /\ inst[i].stage # "linking"
    /\ ~inst[i].community /\ inst[i].post = NoInst /\ inst[i].n = 0
    /\ (\A c \in MirrorCid : tracked[c] # i) /\ (\A u \in User : user[u].at # i)

Free ==
    LET free == {i \in Inst : inst[i].state = "none" \/ Collected(i)} IN
        IF free = {} THEN {} ELSE {CHOOSE i \in free : TRUE}


(* untrackUpdatingComment removes the entry only if it is this instance's. *)
Untracked(t, i) == [c \in MirrorCid |-> IF t[c] = i THEN NoInst ELSE t[c]]

----------------------------------------
(* update(): mirror the instance that is there, or create one. *)
updateComment(u) ==
    LET i == tracked[cidOf[u]] IN
    /\ user[u].state = "stopped" /\ user[u].pc = "idle" /\ user[u].calls < MaxUpdates[u]
    /\ user' = [user EXCEPT ![u].state = "updating", ![u].at = i, ![u].calls = @ + 1, ![u].pc = IF i # NoInst THEN "idle" ELSE "creating"]
    /\ inst' = IF i # NoInst THEN [inst EXCEPT ![i].n = @ + 1] ELSE inst
    /\ UNCHANGED tracked

NewInst(c) == [Unused EXCEPT !.cid = c, !.state = "updating", !.stage = "loading"]

(* _setUpNewUpdatingCommentInstance, after createComment: another object may *)
(* have filed an instance meanwhile; the newer one takes the entry. *)
setUpNewUpdatingCommentInstance(u) ==
    /\ user[u].pc = "creating"
    /\ \E i \in Free :
        /\ inst' = [inst EXCEPT ![i] = [NewInst(cidOf[u]) EXCEPT !.n = 1]]
        /\ tracked' = [tracked EXCEPT ![cidOf[u]] = i]
        /\ user' = [user EXCEPT ![u].at = i, ![u].pc = "idle"]

(* _attemptInfintelyToLoadCommentIpfs: it retries until it has the comment. *)
loadCommentIpfs(i) ==
    /\ inst[i].stage = "loading" /\ inst[i].state = "updating"
    /\ inst' = [inst EXCEPT ![i].stage = "linking"]
    /\ UNCHANGED <<tracked, user>>

(* A comment that cannot be used ends the loop of the instance and, through *)
(* the error event, of every mirror. *)
loadFailsForGood(i) ==
    /\ inst[i].stage = "loading" /\ inst[i].state = "updating" /\ "invalid" \in MirFaults
    /\ inst' = [inst EXCEPT ![i].state = "stopped", ![i].stage = "none",
                            ![i].n = @ - Cardinality({u \in User : user[u].at = i /\ user[u].pc = "idle"})]
    /\ user' = [u \in User |-> IF user[u].at = i /\ user[u].pc = "idle" THEN [user[u] EXCEPT !.state = "stopped", !.at = NoInst] ELSE user[u]]
    /\ tracked' = Untracked(tracked, i)

(* startCommentUpdateCommunitySubscription: a post subscribes to its *)
(* community, a reply counts itself on its post's instance or on one it has *)
(* created.  A tracked instance that is stopping is started again, with the *)
(* comment it has; if its stop is not over when it links itself, it keeps the *)
(* subscription that the stop is about to end.  What was awaited is linked *)
(* even if stop() came in between. *)
StartedAgain(x) == IF x.state = "stopped" THEN [x EXCEPT !.state = "updating", !.stage = "linking"] ELSE x

link(i) ==
    LET p == tracked[PostCid]
        late == inst[i].state # "updating"
        linked == [inst[i] EXCEPT !.stage = "ready", !.late = late \/ inst[i].pc # "idle"]
        heard == [inst EXCEPT ![i] = [linked EXCEPT !.post = p], ![p].n = @ + 1] IN
    /\ inst[i].stage = "linking"
    /\ IF inst[i].cid = PostCid
       THEN inst' = [inst EXCEPT ![i] = [linked EXCEPT !.community = @ \/ inst[i].pc = "idle"]] /\ UNCHANGED tracked
       ELSE IF p # NoInst
       THEN inst' = (IF late THEN heard ELSE [heard EXCEPT ![p] = StartedAgain(@)]) /\ UNCHANGED tracked
       ELSE IF late
       THEN inst' = [inst EXCEPT ![i] = linked] /\ UNCHANGED tracked
       ELSE \E j \in Free :
            /\ inst' = [inst EXCEPT ![i] = [linked EXCEPT !.post = j], ![j] = [NewInst(PostCid) EXCEPT !.n = 1]]
            /\ tracked' = [tracked EXCEPT ![PostCid] = j]
    /\ UNCHANGED user

----------------------------------------
(* stop() of an instance, up to its first await: without links it is *)
(* untracked and done at once. *)
Linked(x) == x.community \/ x.post # NoInst

StopOf(x) ==
    [x EXCEPT !.state = "stopped", !.pc = IF Linked(x) THEN "unlink" ELSE @, !.stage = IF @ = "loading" THEN "none" ELSE @]

StopBegun(ins, i) ==
    /\ inst' = [ins EXCEPT ![i] = StopOf(@)]
    /\ tracked' = IF Linked(ins[i]) THEN tracked ELSE Untracked(tracked, i)

(* _stopUpdateLoop of a mirror: the last one stops the instance. *)
stopComment(u) ==
    LET i == user[u].at
        left == [inst EXCEPT ![i].n = @ - 1] IN
    /\ user[u].state = "updating" /\ user[u].pc = "idle" /\ i # NoInst
    /\ IF left[i].n = 0 /\ left[i].state # "stopped"
       THEN StopBegun(left, i) /\ user' = [user EXCEPT ![u].state = "stopped", ![u].pc = "left"]
       ELSE /\ inst' = left
            /\ user' = [user EXCEPT ![u].state = "stopped", ![u].at = NoInst]
            /\ tracked' = IF left[i].n = 0 THEN Untracked(tracked, i) ELSE tracked

(* The instance it waited for has stopped. *)
stopReturns(u) ==
    /\ user[u].pc = "left" /\ inst[user[u].at].pc = "idle"
    /\ user' = [user EXCEPT ![u].at = NoInst, ![u].pc = "idle"]
    /\ UNCHANGED <<tracked, inst>>

(* cleanUpUpdatingCommunityInstance and cleanUpUpdatingPostInstance: the *)
(* last reply that leaves stops the instance of the post. *)
unlink(i) ==
    LET p == inst[i].post
        left == [inst EXCEPT ![p].n = @ - 1, ![i].post = NoInst, ![i].pc = "untrack"] IN
    /\ inst[i].pc = "unlink"
    /\ IF p = NoInst
       THEN inst' = [inst EXCEPT ![i].community = FALSE, ![i].pc = "untrack"] /\ UNCHANGED <<tracked, user>>
       ELSE IF left[p].n = 0 /\ left[p].state # "stopped"
       THEN StopBegun([left EXCEPT ![i].after = IF Linked(left[p]) THEN p ELSE NoInst], p) /\ UNCHANGED user
       ELSE inst' = left /\ UNCHANGED user /\ tracked' = IF left[p].n = 0 THEN Untracked(tracked, p) ELSE tracked

finishStop_Tracked(i) ==
    /\ inst[i].pc = "untrack" /\ (inst[i].after # NoInst => inst[inst[i].after].pc = "idle")
    /\ inst' = [inst EXCEPT ![i].pc = "idle"]
    /\ UNCHANGED <<tracked, user>>

finishStop(i) ==
    /\ inst[i].pc = "untrack" /\ (inst[i].after # NoInst => inst[inst[i].after].pc = "idle")
    /\ tracked' = Untracked(tracked, i)
    /\ inst' = [inst EXCEPT ![i].pc = "idle", ![i].after = NoInst]
    /\ UNCHANGED user

MirInit ==
    /\ tracked = [c \in MirrorCid |-> NoInst]
    /\ user = [u \in User |-> [state |-> "stopped", at |-> NoInst, pc |-> "idle", calls |-> 0]]
    /\ inst = [i \in Inst |-> Unused]

MirNext ==
    \/ \E u \in User : updateComment(u) \/ setUpNewUpdatingCommentInstance(u) \/ stopComment(u) \/ stopReturns(u)
    \/ \E i \in Inst : loadCommentIpfs(i) \/ loadFailsForGood(i) \/ link(i) \/ unlink(i) \/ finishStop(i)

MirSpec == MirInit /\ [][MirNext]_mirVars

----------------------------------------
UsersOf(i) == {u \in User : user[u].at = i /\ user[u].pc # "left"}
Hanging(i) == {j \in Inst : inst[j].post = i}

(* The count of an instance is the number of mirrors and replies on it, so *)
(* that neither a leak nor an early stop can come from it. *)
CountIsListeners == \A i \in Inst : inst[i].state # "none" => inst[i].n = Cardinality(UsersOf(i)) + Cardinality(Hanging(i))

(* When every object is stopped and nothing is under way, nothing runs on, *)
(* except behind an instance whose stop overlapped with linking itself. *)
AllQuiet ==
    /\ \A u \in User : user[u].state = "stopped" /\ user[u].pc = "idle"
    /\ \A i \in Inst : inst[i].pc = "idle" /\ inst[i].stage # "linking"

NothingRunsOn ==
    (AllQuiet /\ \A i \in Inst : ~inst[i].late) =>
        \A i \in Inst : inst[i].state # "updating" /\ ~inst[i].community /\ \A c \in MirrorCid : tracked[c] # i

(* An instance that runs and is linked hears of updates, unless it was *)
(* started again before its stop was over and linked itself meanwhile. *)
RunsSubscribed ==
    \A i \in Inst : (inst[i].state = "updating" /\ inst[i].stage = "ready" /\ ~inst[i].late) => Linked(inst[i])

(* The same two without the exception. *)
EveryInstanceHears == \A i \in Inst : (inst[i].state = "updating" /\ inst[i].stage = "ready") => Linked(inst[i])
NothingEverRunsOn == AllQuiet => \A i \in Inst : inst[i].state # "updating" /\ ~inst[i].community

(* An object that is updating mirrors an instance that runs. *)
MirrorsARunningInstance ==
    \A u \in User : (user[u].state = "updating" /\ user[u].at # NoInst) => inst[user[u].at].state = "updating"

(* An instance stops only with its last listener, or for a comment that *)
(* cannot be used. *)
StopsWithLastListener ==
    [][\A i \in Inst : (inst[i].state = "updating" /\ inst'[i].state = "stopped") =>
            (inst'[i].n = 0 \/ inst[i].stage = "loading")]_mirVars

(* The shared updating instance of a comment knows its listeners, and *)
(* neither it nor the post it listens to runs on without any, nor deaf. *)
ListenersAreCounted ==
    CountIsListeners /\ NothingRunsOn /\ RunsSubscribed
========================================
