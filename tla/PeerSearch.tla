-------------------- MODULE PeerSearch --------------------
(***************************************************************************)
(* Looking for the peers of one pubsub topic through the HTTP routers: the *)
(* direct fetch of an IPNS record, which dials every provider found and    *)
(* asks it for the record, and the warm-up of a topic, which dials until   *)
(* somebody subscribed to it shows up.                                     *)
(*                                                                         *)
(* The routers yield a provider once.  A better record of the same         *)
(* provider from a slower router only reaches the peer store, so a dial    *)
(* that failed for want of addresses is retried when the store changes and *)
(* once more when the provider stream ends.                                *)
(***************************************************************************)
EXTENDS Naturals, FiniteSets

CONSTANTS
    SearchPeer,
    MaxPeers,        \* WARMUP_MAX_PEERS
    SearchWorkload   \* [mode, announced, known, late, subscribers, faults]

(* What the addresses of a provider are worth to this client: a circuit    *)
(* through a relay it can dial, an address of the provider itself that it  *)
(* can dial, or one that its gater or its transports refuse.               *)
Address == {"relay", "direct", "undialable"}

ASSUME SearchAssumption ==
    /\ IsFiniteSet(SearchPeer)
    /\ MaxPeers \in Nat \ {0}
    /\ \A w \in SearchWorkload :
         /\ w.mode \in {"fetch", "warmup"}
         /\ w.announced \in [SearchPeer -> SUBSET Address] /\ w.known \in [SearchPeer -> SUBSET Address]
         /\ w.late \in SUBSET SearchPeer /\ w.subscribers \in Nat

VARIABLES
    srJob,    \* the workload chosen
    peer,     \* peer[p] = [task, retry, verdict, addrs, used, tried]; used: the addresses its dial read
    sr        \* the search as a whole

searchVars == <<srJob, peer, sr>>

Unseen == [task |-> "unseen", retry |-> "none", verdict |-> "none", addrs |-> {}, used |-> {}, tried |-> FALSE]
Known(p) == [Unseen EXCEPT !.addrs = srJob.known[p]]   \* what the peer store holds before the search

Fetching == srJob.mode = "fetch"
Won == sr.winner # {}
Cut == Won \/ sr.aborted     \* resultController or the caller's signal
BusyStates == {"merging", "dialing", "fetching"}
RetryBusy == {"reading", "releasing", "dialing", "fetching"}

----------------------------------------
(* createAddrMergeRetryScheduler: one retry of a peer at a time, and none *)
(* once it is done. *)
trigger(r) == IF r.retry = "none" THEN [r EXCEPT !.retry = "reading"] ELSE r

markRetryable_OnlyUpdates(p, r) == [r EXCEPT !.task = "retryable"]

markRetryable(p, r) ==
    LET marked == [r EXCEPT !.task = "retryable"]
    IN IF sr.stream = "ended" THEN trigger(marked) ELSE marked

onPeerUpdate(r) == IF sr.listening /\ r.task = "retryable" THEN trigger(r) ELSE r

onProviderStreamEnded(ps) ==
    [p \in SearchPeer |-> IF ps[p].task = "retryable" THEN trigger(ps[p]) ELSE ps[p]]

StreamEnded(s) == [s EXCEPT !.stream = "ended", !.listening = FALSE]

----------------------------------------
(* findProviders yields a provider.  A direct fetch does not dial one that *)
(* only a relay can reach, and stops at the MaxPeers-th that has an address *)
(* it can dial, a relay's among others counting as one.                    *)
isDialable(addrs) == addrs \cap {"relay", "direct"} # {}

announce(p) ==
    LET addrs == srJob.announced[p]
        skipped == Fetching /\ addrs = {"relay"}
        verdict == CASE skipped -> "relay-only"
                     [] ~skipped /\ isDialable(addrs) -> "dialed"
                     [] OTHER -> "no-dialable-addrs"
        seen == [peer EXCEPT ![p] = IF skipped
                   THEN markRetryable(p, [peer[p] EXCEPT !.verdict = verdict, !.addrs = @ \cup addrs])
                   ELSE [peer[p] EXCEPT !.verdict = IF Fetching THEN verdict ELSE @, !.task = "merging"]]
        attempted == sr.attempted + (IF Fetching /\ verdict = "dialed" THEN 1 ELSE 0)
        enough == IF Fetching THEN attempted >= MaxPeers ELSE sr.connected >= MaxPeers
    IN /\ sr.outcome = "running" /\ sr.stream = "open" /\ ~Cut /\ peer[p].task = "unseen"
       /\ peer' = IF enough THEN onProviderStreamEnded(seen) ELSE seen
       /\ sr' = [(IF enough THEN StreamEnded(sr) ELSE sr) EXCEPT !.attempted = attempted]
       /\ UNCHANGED srJob

(* The stream runs dry, breaks, or is aborted: by a winner, the caller, a *)
(* subscriber, the end of the wait for one, or enough connections. *)
endStream ==
    /\ sr.outcome = "running" /\ sr.stream = "open"
    /\ \/ \A p \in SearchPeer : peer[p].task # "unseen"
       \/ Cut \/ sr.wait \notin {"none", "waiting"} \/ (~Fetching /\ sr.connected >= MaxPeers)
       \/ "routers" \in srJob.faults
    /\ peer' = onProviderStreamEnded(peer)
    /\ \/ sr' = StreamEnded(sr)
       \/ /\ ~Fetching /\ "routers" \in srJob.faults /\ sr.wait = "waiting" /\ sr.connected < MaxPeers
          /\ sr' = [StreamEnded(sr) EXCEPT !.outcome = "threw"]
    /\ UNCHANGED srJob

----------------------------------------
(* The first dial of a provider, by its id: its addresses are merged into *)
(* the peer store first. *)
mergeAddrs(p) ==
    /\ peer[p].task = "merging"
    /\ LET known == peer[p].addrs \cup srJob.announced[p]
       IN peer' = [peer EXCEPT ![p].task = "dialing", ![p].addrs = known, ![p].used = known]
    /\ UNCHANGED <<srJob, sr>>

(* DialDeniedError and NoValidAddressesError: nothing could be dialled. *)
DialResult(r) == IF isDialable(r.used) THEN {"connected", "refused"} ELSE {"no address"}

Tried(r) == [r EXCEPT !.tried = @ \/ "direct" \in r.used]

markProviderDialed(r) == IF r.verdict = "none" THEN r ELSE [r EXCEPT !.verdict = "dialed"]

Connected(s) == IF Fetching THEN s ELSE [s EXCEPT !.connected = @ + 1]

(* A dial by id that only a relay's address carried: the fetch over such a *)
(* connection fails, and the peer is not marked for a retry.               *)
OverRelay(r) == Fetching /\ isDialable(r.used) /\ "direct" \notin r.used

dial(p) ==
    /\ peer[p].task = "dialing" /\ ~Cut
    /\ \E how \in DialResult(peer[p]) :
         /\ peer' = [peer EXCEPT ![p] =
               CASE how = "connected" -> [markProviderDialed(Tried(@)) EXCEPT !.task = IF Fetching THEN "fetching" ELSE "done"]
                 [] how = "refused" -> [markProviderDialed(Tried(@)) EXCEPT !.task = "done"]
                 [] OTHER -> markRetryable(p, @)]
         /\ sr' = [(IF how = "connected" THEN Connected(sr) ELSE sr)
                      EXCEPT !.relayed = IF OverRelay(peer[p]) THEN @ \cup {p} ELSE @]
    /\ UNCHANGED srJob

(* runRetry: a direct fetch reads the peer store and dials the addresses *)
(* that need no relay; a warm-up dials by id again.  "not-ready" releases *)
(* the peer for another try. *)
readStore(p) ==
    /\ peer[p].retry = "reading"
    /\ peer' = [peer EXCEPT ![p] =
         CASE Cut -> [@ EXCEPT !.retry = "done"]
           [] ~Cut /\ (~Fetching \/ "direct" \in @.addrs) ->
                [(IF Fetching THEN markProviderDialed(@) ELSE @) EXCEPT !.retry = "dialing", !.used = peer[p].addrs]
           [] OTHER -> [@ EXCEPT !.retry = "releasing"]]
    /\ UNCHANGED <<srJob, sr>>

release(p) ==
    /\ peer[p].retry = "releasing"
    /\ peer' = [peer EXCEPT ![p].retry = "none"]
    /\ UNCHANGED <<srJob, sr>>

redial(p) ==
    /\ peer[p].retry = "dialing" /\ ~Cut
    /\ \E how \in DialResult(peer[p]) :
         /\ peer' = [peer EXCEPT ![p] = [Tried(@) EXCEPT !.retry =
               CASE how = "connected" /\ Fetching -> "fetching"
                 [] how = "no address" /\ ~Fetching -> "releasing"
                 [] OTHER -> "done"]]
         /\ sr' = IF how = "connected" THEN Connected(sr) ELSE sr
    /\ UNCHANGED srJob

(* tryFetchFromPeer: the first record whose signature is valid wins and *)
(* cancels everybody else.  A connection through a relay serves no fetch. *)
Finished(r) == IF r.task = "fetching" THEN [r EXCEPT !.task = "done"] ELSE [r EXCEPT !.retry = "done"]

tryFetchFromPeer(p) ==
    /\ peer[p].task = "fetching" \/ peer[p].retry = "fetching"
    /\ peer' = [peer EXCEPT ![p] = Finished(@)]
    /\ \/ UNCHANGED sr
       \/ ~Cut /\ "direct" \in peer[p].used /\ sr' = [sr EXCEPT !.winner = {p}]
    /\ UNCHANGED srJob

(* A dial or a fetch under way when the search is cut rejects. *)
cancelled(p) ==
    /\ Cut
    /\ \/ peer[p].task = "dialing" /\ peer' = [peer EXCEPT ![p] = [markProviderDialed(@) EXCEPT !.task = "done"]]
       \/ peer[p].retry = "dialing" /\ peer' = [peer EXCEPT ![p].retry = "done"]
    /\ UNCHANGED <<srJob, sr>>

(* The subscribers known at the start are asked at once. *)
askSubscriber ==
    /\ Fetching /\ sr.asking > 0
    /\ \/ sr' = [sr EXCEPT !.asking = @ - 1]
       \/ ~Cut /\ sr' = [sr EXCEPT !.asking = @ - 1, !.winner = {"subscriber"}]
    /\ UNCHANGED <<srJob, peer>>

----------------------------------------
(* The rest of the program and the network: a slower router's record or an *)
(* identify exchange adds a direct address, a peer subscribes, the wait for *)
(* one runs out, the caller aborts. *)
laterMerge(p) ==
    /\ p \in srJob.late /\ "direct" \notin peer[p].addrs
    /\ peer' = [peer EXCEPT ![p] = onPeerUpdate([peer[p] EXCEPT !.addrs = @ \cup {"direct"}])]
    /\ sr' = IF peer[p].retry \in {"releasing", "dialing"} THEN [sr EXCEPT !.overtaken = @ \cup {p}]
             ELSE IF sr.stream = "ended" THEN [sr EXCEPT !.tooLate = @ \cup {p}] ELSE sr
    /\ UNCHANGED srJob

waitForTopicSubscriber(how) ==
    /\ ~Fetching /\ sr.wait = "waiting"
    /\ how = "aborted" => sr.aborted \/ sr.connected >= MaxPeers
    /\ sr' = [sr EXCEPT !.wait = how]
    /\ UNCHANGED <<srJob, peer>>

callerAborts ==
    /\ "abort" \in srJob.faults /\ ~sr.aborted /\ sr.outcome = "running"
    /\ sr' = [sr EXCEPT !.aborted = TRUE]
    /\ UNCHANGED <<srJob, peer>>

----------------------------------------
(* A direct fetch returns once every dial, fetch and retry has settled; its *)
(* miss says why no provider could be reached. *)
Drained == \A p \in SearchPeer : peer[p].task \notin BusyStates /\ peer[p].retry \notin RetryBusy

summarizeProviderReachability ==
    LET seen == {p \in SearchPeer : peer[p].verdict # "none"} IN
    IF srJob.subscribers > 0 \/ seen = {} \/ (\E p \in seen : peer[p].verdict = "dialed") THEN "none"
    ELSE IF \A p \in seen : peer[p].verdict = "relay-only" THEN "relay-only-providers"
    ELSE "no-dialable-provider-addrs"

fetchReturns ==
    /\ Fetching /\ sr.outcome = "running" /\ sr.stream = "ended" /\ sr.asking = 0 /\ Drained
    /\ sr' = [sr EXCEPT !.outcome = CASE Won -> "found" [] ~Won /\ sr.aborted -> "aborted" [] OTHER -> "miss",
                        !.reason = IF Cut THEN "none" ELSE summarizeProviderReachability]
    /\ UNCHANGED <<srJob, peer>>

(* A warm-up waits for a subscriber, and without one for a dial to settle. *)
SomeDialSettled ==
    LET dialled == {p \in SearchPeer : peer[p].task # "unseen"}
    IN dialled = {} \/ \E p \in dialled : peer[p].task = "done" \/ (peer[p].task = "retryable" /\ peer[p].retry \notin RetryBusy)

warmupReturns ==
    /\ ~Fetching /\ sr.outcome = "running" /\ sr.stream = "ended" /\ sr.wait # "waiting"
    /\ sr.wait # "appeared" => SomeDialSettled
    /\ sr' = [sr EXCEPT !.outcome =
          CASE sr.wait # "appeared" /\ sr.aborted -> "aborted"
            [] sr.wait # "appeared" /\ ~sr.aborted /\ sr.connected = 0 -> "failed"
            [] OTHER -> "found"]
    /\ UNCHANGED <<srJob, peer>>

----------------------------------------
SearchInit ==
    /\ srJob \in SearchWorkload
    /\ peer = [p \in SearchPeer |-> Known(p)]
    /\ sr = [stream |-> "open", listening |-> TRUE, attempted |-> 0, connected |-> 0, aborted |-> FALSE,
             winner |-> {}, wait |-> IF srJob.mode = "warmup" THEN "waiting" ELSE "none",
             asking |-> srJob.subscribers, outcome |-> "running", reason |-> "none", overtaken |-> {}, tooLate |-> {}, relayed |-> {}]

SearchNext ==
    \/ \E p \in SearchPeer :
         \/ announce(p) \/ mergeAddrs(p) \/ dial(p) \/ readStore(p) \/ release(p) \/ redial(p)
         \/ tryFetchFromPeer(p) \/ cancelled(p) \/ laterMerge(p)
    \/ endStream \/ askSubscriber \/ callerAborts \/ fetchReturns \/ warmupReturns
    \/ \E how \in {"appeared", "timeout", "aborted"} : waitForTopicSubscriber(how)

SearchSpec == SearchInit /\ [][SearchNext]_searchVars

----------------------------------------
(* A direct fetch leaves nothing behind: when it returns no dial, request or *)
(* retry of its own is under way. *)
ReturnedIsQuiet ==
    Fetching /\ sr.outcome # "running" =>
        \A p \in SearchPeer : peer[p].task \notin BusyStates /\ peer[p].retry \notin RetryBusy

(* The providers that the scheduler can lose, by the step that loses them. *)
Lost == sr.overtaken \cup sr.tooLate \cup sr.relayed

(* A provider whose usable address reached the peer store while the routers *)
(* were still answering has been dialled at it before a direct fetch reports *)
(* a miss, however its dials, its retries and that merge interleave.  Two  *)
(* kinds are lost: a merge that lands while a retry that read the store    *)
(* before it is still giving the peer back, and a provider announced with a *)
(* relay beside addresses of its own that this client cannot dial.         *)
MissIsExhausted ==
    Fetching /\ sr.outcome = "miss" =>
        \A p \in SearchPeer \ Lost :
            peer[p].task # "unseen" /\ "direct" \in peer[p].addrs => peer[p].tried

(* Without the second exception, which the comment at the retry scheduler  *)
(* calls curable the same way; not checked, because it is false.           *)
RelayedIsCurable ==
    Fetching /\ sr.outcome = "miss" =>
        \A p \in sr.relayed \ (sr.overtaken \cup sr.tooLate) : "direct" \in peer[p].addrs => peer[p].tried

(* "Unreachable from this client" is said only when no dial ran against an *)
(* address that needs no relay, the retries included. *)
UnreachableIsLocal ==
    sr.reason # "none" => \A p \in SearchPeer : ~peer[p].tried

(* A direct fetch that fails has tried what could be tried, says rightly *)
(* why, and leaves nothing running. *)
SearchIsThorough ==
    ReturnedIsQuiet /\ MissIsExhausted /\ UnreachableIsLocal
========================================
