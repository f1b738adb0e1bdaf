-------------------- MODULE CommunityLists --------------------
(***************************************************************************)
(* One CommunityList instance: publish(), update(), getCommunityList()'s   *)
(* load and stop() called in any order, where a run that was stopped may   *)
(* still settle after a newer one took over the instance.                  *)
(***************************************************************************)
EXTENDS Naturals, FiniteSets

CONSTANTS
    ClRuns,      \* bound: runs of publish() and update(), 1..n in the order they begin
    ClTries,     \* bound: failed attempts of a load, of a name
    ClWorkload   \* [calls, cid, loaded, bad, domain, verdict]: the kinds of call that may be
                 \* made, whether the instance has a cid and the record, whether the record is
                 \* unusable, whether its author has a domain to settle, and the answer to it

ASSUME ClAssumption ==
    /\ ClRuns \in Nat /\ ClTries \in Nat
    /\ \A j \in ClWorkload : j.loaded \in BOOLEAN

VARIABLES
    clJob,
    state,              \* of the instance
    owner,              \* run whose controller is _stopAbortController, 0 for none
    aborted,            \* runs whose signal was aborted
    clRun,              \* [1..ClRuns -> [kind, pc, tries, timer]]
    tracked,            \* in _updatingCommunityLists
    record, nameOk,     \* raw.communityList is there; author.nameResolved
    clCache,            \* nameResolvedCache
    lastEmit            \* [run, n]: who emitted last, and how often

clVars == <<clJob, state, owner, aborted, clRun, tracked, record, nameOk, clCache, lastEmit>>

Begun == {r \in 1..ClRuns : clRun[r].pc # "none"}
Next1 == Cardinality(Begun) + 1
Is(r, pc) == clRun[r].pc = pc
Moves(r, pc) == clRun' = [clRun EXCEPT ![r].pc = pc]
Cut(r) == r \in aborted
Emits(r) == lastEmit' = [run |-> r, n |-> lastEmit.n + 1]
Instance == <<state, owner, aborted, tracked>>
ShownVars == <<record, nameOk, clCache, lastEmit>>

----------------------------------------
publish ==
    /\ "publish" \in clJob.calls /\ state \notin {"publishing", "updating"} /\ Next1 <= ClRuns
    /\ state' = "publishing" /\ owner' = Next1
    /\ clRun' = [clRun EXCEPT ![Next1] = [kind |-> "publishing", pc |-> "sign", tries |-> 0, timer |-> FALSE]]
    /\ UNCHANGED <<clJob, aborted, tracked, ShownVars>>

\* Mutant: any run that settles resets the state.
Reset_Any(r) == state' = "stopped"

(* Only the run that still owns the controller may reset the state. *)
Reset(r) == state' = IF owner = r THEN "stopped" ELSE state

publishSigned(r) ==
    /\ Is(r, "sign")
    /\ IF Cut(r) THEN Moves(r, "done") /\ Reset(r) ELSE Moves(r, "add") /\ UNCHANGED state
    /\ UNCHANGED <<clJob, owner, aborted, tracked, ShownVars>>

publishFails(r) ==
    /\ clRun[r].pc \in {"sign", "add"} /\ Moves(r, "done") /\ Reset(r)
    /\ UNCHANGED <<clJob, owner, aborted, tracked, ShownVars>>

\* Mutant: what was added after a stop is taken all the same.
publishAdded_Late(r) ==
    /\ Is(r, "add") /\ Moves(r, "done") /\ Reset(r) /\ record' = TRUE
    /\ UNCHANGED <<clJob, owner, aborted, tracked, nameOk, clCache, lastEmit>>

(* The add takes no signal: a stopped publish throws once it is over. *)
publishAdded(r) ==
    /\ Is(r, "add") /\ Moves(r, "done") /\ Reset(r)
    /\ record' = (record \/ ~Cut(r))
    /\ UNCHANGED <<clJob, owner, aborted, tracked, nameOk, clCache, lastEmit>>

----------------------------------------
update ==
    /\ "update" \in clJob.calls /\ state \notin {"publishing", "updating"} /\ Next1 <= ClRuns
    /\ clJob.cid \/ record
    /\ state' = "updating" /\ owner' = Next1 /\ tracked' = TRUE
    /\ clRun' = [clRun EXCEPT ![Next1] = [kind |-> "updating", pc |-> "tick", tries |-> 0, timer |-> FALSE]]
    /\ UNCHANGED <<clJob, aborted, ShownVars>>

(* getCommunityList loads once, with no loop around it. *)
getCommunityList ==
    /\ "get" \in clJob.calls /\ state = "stopped" /\ Begun = {} /\ ~record
    /\ clRun' = [clRun EXCEPT ![1] = [kind |-> "loading", pc |-> "fetch", tries |-> 0, timer |-> FALSE]]
    /\ UNCHANGED <<clJob, state, owner, aborted, tracked, ShownVars>>

_runUpdateLoop(r) ==
    /\ Is(r, "tick")
    /\ IF Cut(r) THEN Moves(r, "done") /\ UNCHANGED lastEmit
       ELSE IF record THEN Moves(r, "settle") /\ Emits(r)
       ELSE Moves(r, "fetch") /\ UNCHANGED lastEmit
    /\ UNCHANGED <<clJob, Instance, record, nameOk, clCache>>

(* stop() from within a run. *)
StopsItself(r) == state' = "stopped" /\ tracked' = FALSE /\ aborted' = aborted \cup ({owner} \ {0})

AfterLoad(r) == IF clRun[r].kind = "loading" THEN "done" ELSE "settle"

fetched(r) ==
    /\ Is(r, "fetch") /\ ~clJob.bad
    /\ IF Cut(r) THEN Moves(r, "done") /\ UNCHANGED <<record, lastEmit>>
       ELSE Moves(r, AfterLoad(r)) /\ record' = TRUE /\ Emits(r)
    /\ UNCHANGED <<clJob, Instance, nameOk, clCache>>

(* A record error is final, a transport error is tried again. *)
recordError(r) ==
    /\ Is(r, "fetch") /\ clJob.bad /\ Moves(r, "done")
    /\ IF Cut(r) \/ clRun[r].kind = "loading" THEN UNCHANGED <<Instance, lastEmit>>
       ELSE StopsItself(r) /\ Emits(r) /\ UNCHANGED owner
    /\ UNCHANGED <<clJob, record, nameOk, clCache>>

transportError(r) ==
    /\ Is(r, "fetch") /\ clRun[r].tries < ClTries
    /\ IF Cut(r) THEN Moves(r, "done") /\ UNCHANGED lastEmit
       ELSE clRun' = [clRun EXCEPT ![r].pc = "wait", ![r].tries = @ + 1, ![r].timer = TRUE] /\ Emits(r)
    /\ UNCHANGED <<clJob, Instance, record, nameOk, clCache>>

retryLoad(r) ==
    /\ Is(r, "wait") /\ clRun[r].timer
    /\ clRun' = [clRun EXCEPT ![r] = [@ EXCEPT !.pc = IF Cut(r) THEN "done" ELSE "fetch", !.timer = FALSE]]
    /\ UNCHANGED <<clJob, Instance, ShownVars>>

----------------------------------------
(* The verdict of the author's name, from the cache or the resolvers. *)
settleName(r) ==
    /\ Is(r, "settle")
    /\ IF Cut(r) THEN Moves(r, "done") /\ UNCHANGED <<Instance, nameOk, clCache, lastEmit>>
       ELSE IF clJob.domain THEN Moves(r, "resolve") /\ UNCHANGED <<Instance, nameOk, clCache, lastEmit>>
       ELSE Moves(r, "done") /\ StopsItself(r) /\ UNCHANGED <<owner, nameOk, clCache, lastEmit>>
    /\ UNCHANGED <<clJob, record>>

NameVerdict == IF clCache # "none" THEN clCache ELSE clJob.verdict

(* An answer is cached whether or not the run is still wanted; a name no *)
(* resolver handles counts as a no, and is not cached. *)
resolved(r) ==
    /\ Is(r, "resolve") /\ Moves(r, "done")
    /\ clCache' = IF NameVerdict = "unhandled" THEN clCache ELSE NameVerdict
    /\ IF Cut(r) THEN UNCHANGED <<Instance, nameOk, lastEmit>>
       ELSE nameOk' = (IF NameVerdict = "yes" THEN "yes" ELSE "no") /\ Emits(r) /\ StopsItself(r) /\ UNCHANGED owner
    /\ UNCHANGED <<clJob, record>>

resolveFails(r) ==
    /\ Is(r, "resolve") /\ clCache = "none" /\ clRun[r].tries < ClTries
    /\ clRun' = [clRun EXCEPT ![r].pc = IF Cut(r) THEN "done" ELSE "delay", ![r].tries = @ + 1]
    /\ UNCHANGED <<clJob, Instance, ShownVars>>

_delayWithAbort(r) ==
    /\ Is(r, "delay") /\ Moves(r, IF Cut(r) THEN "done" ELSE "resolve")
    /\ UNCHANGED <<clJob, Instance, ShownVars>>

----------------------------------------
(* The retry timer of a load is cleared, and its promise settled at once. *)
Settled(r) == [clRun[r] EXCEPT !.timer = FALSE, !.pc = IF @ = "wait" THEN "done" ELSE @]

Loading == {r \in Begun : clRun[r].pc \in {"fetch", "wait"}}

stop ==
    /\ "stop" \in clJob.calls /\ (state # "stopped" \/ Loading # {})
    /\ tracked' = FALSE /\ state' = "stopped"
    /\ LET current == {r \in Loading : \A q \in Loading : q <= r}
           cut == ({owner} \ {0}) \cup current
       IN /\ aborted' = aborted \cup cut
          /\ clRun' = [r \in 1..ClRuns |-> IF r \in cut \cap Loading THEN Settled(r) ELSE clRun[r]]
    /\ UNCHANGED <<clJob, owner, ShownVars>>

----------------------------------------
ClInit ==
    /\ clJob \in ClWorkload /\ state = "stopped" /\ owner = 0 /\ aborted = {} /\ tracked = FALSE
    /\ clRun = [r \in 1..ClRuns |-> [kind |-> "none", pc |-> "none", tries |-> 0, timer |-> FALSE]]
    /\ record = clJob.loaded /\ nameOk = "none" /\ clCache = "none" /\ lastEmit = [run |-> 0, n |-> 0]

ClNext ==
    \/ publish \/ update \/ getCommunityList \/ stop
    \/ \E r \in 1..ClRuns :
          \/ publishSigned(r) \/ publishFails(r) \/ publishAdded(r)
          \/ _runUpdateLoop(r) \/ fetched(r) \/ recordError(r) \/ transportError(r) \/ retryLoad(r)
          \/ settleName(r) \/ resolved(r) \/ resolveFails(r) \/ _delayWithAbort(r)

ClSpec == ClInit /\ [][ClNext]_clVars

----------------------------------------
Alive == {r \in Begun : clRun[r].pc # "done"}

(* The state says what runs: a run that was not stopped is the one the *)
(* instance says it is in and is tracked while it updates, and an instance *)
(* that says it publishes or updates has a run that will end it. A stopped *)
(* run that settles late does not end a newer one. *)
StateHasRun ==
    /\ \A r \in Alive \ aborted : clRun[r].kind # "loading" => r = owner /\ state = clRun[r].kind /\ (state = "updating" => tracked)
    /\ state # "stopped" => owner \in Alive \ aborted
    /\ tracked => state = "updating"

(* Every load that was aborted is on its way to its end: none waits for an *)
(* attempt whose timer was cleared. *)
AbortedLoadSettles ==
    \A r \in Begun : (clRun[r].pc = "wait" /\ r \in aborted) => clRun[r].timer

(* A run that was stopped neither changes the record nor emits. *)
StoppedRunIsQuiet ==
    [][(record' # record \/ nameOk' # nameOk \/ lastEmit' # lastEmit) =>
          \E r \in (1..ClRuns) \ aborted : clRun'[r] # clRun[r] /\ (lastEmit' # lastEmit => lastEmit'.run = r)]_clVars

(* An instance never shows a state that no run of its own will end, and no *)
(* load it aborted is waited for (CommunityList: publish, update, stop). *)
ListsSettle ==
    StateHasRun /\ AbortedLoadSettles
========================================
