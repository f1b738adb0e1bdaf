-------------------- MODULE BlockCache --------------------
(***************************************************************************)
(* The size-capped cache in front of a helia node's block store: writes,   *)
(* reads, deletes and the scan of a store left by an earlier session run   *)
(* side by side, share one eviction, and keep an index of what the store   *)
(* holds and how large it is.                                              *)
(***************************************************************************)
EXTENDS Naturals, FiniteSetsExt, SequencesExt

CONSTANTS
    BcOp,        \* calls
    BcBlock,     \* blocks
    BcSize,      \* [BcBlock -> size]
    BcMax,       \* maxBytes
    BcLow,       \* lowWaterRatio of it
    BcWorkload   \* [calls, held, fails]: the calls made, [kind, block] each, the blocks a
                 \* persistent store holds at first, and which of its calls may fail

ASSUME BcAssumption == BcLow \in Nat /\ BcMax \in Nat /\ BcLow <= BcMax

VARIABLES
    bcJob,
    child,              \* blocks in the store behind the cache
    _sizes,             \* blocks of the index, least recently used first
    _totalBytes,
    _evicting,          \* "none", "deleting", "ended": over, and not yet cleared
    victim,             \* the block a run is deleting
    call,               \* [BcOp -> [pc, known]]
    scan,               \* blocks the rebuild has yet to read, and the one it is reading
    missed, givenUp,    \* history: registered behind the last look of a run; blocks whose
                        \* delete failed, or was overtaken by another call's write;
    misread             \* blocks that a failed read left uncounted, though the store holds them

bcVars == <<bcJob, child, _sizes, _totalBytes, _evicting, victim, call, scan, missed, givenUp, misread>>

Kind(o) == bcJob.calls[o].kind
Block(o) == bcJob.calls[o].block
Indexed == ToSet(_sizes)
Without(k) == SelectSeq(_sizes, LAMBDA x : x # k)
Bytes(S) == MapThenSumSet(LAMBDA k : BcSize[k], S)
OnRun == <<_evicting, victim>>

_touch(k) == _sizes' = IF k \in Indexed THEN Append(Without(k), k) ELSE _sizes

\* Mutant: a block that is written again is counted again.
_register_Twice(k) == _sizes' = Append(Without(k), k) /\ _totalBytes' = _totalBytes + BcSize[k]

_register(k) ==
    /\ _sizes' = Append(Without(k), k)
    /\ _totalBytes' = (_totalBytes - IF k \in Indexed THEN BcSize[k] ELSE 0) + BcSize[k]

_unregister(k) ==
    /\ _sizes' = Without(k)
    /\ _totalBytes' = IF k \in Indexed THEN _totalBytes - BcSize[k] ELSE _totalBytes

(* After a registration: a call over the cap waits for the run in flight, *)
(* the one it starts where there is none. *)
_evictIfNeeded(waits, goesOn) ==
    IF _totalBytes' <= BcMax THEN goesOn /\ UNCHANGED <<OnRun, missed>>
    ELSE /\ waits /\ UNCHANGED victim
         /\ missed' = (missed \/ _evicting = "ended")
         /\ _evicting' = IF _evicting = "none" THEN "looping" ELSE _evicting

----------------------------------------
At(o, pc) == call[o].pc = pc
Goes(o, pc) == call' = [call EXCEPT ![o].pc = pc]

begin(o) ==
    /\ At(o, "new")
    /\ call' = [call EXCEPT ![o] = [pc |-> "child", known |-> Block(o) \in Indexed]]
    /\ IF Kind(o) = "get" THEN _touch(Block(o)) ELSE UNCHANGED _sizes
    /\ UNCHANGED <<bcJob, child, _totalBytes, OnRun, scan, missed, givenUp, misread>>

putChild(o) ==
    /\ Kind(o) = "put" /\ At(o, "child")
    /\ child' = child \cup {Block(o)} /\ givenUp' = givenUp \ {Block(o)} /\ Goes(o, "register")
    /\ UNCHANGED <<bcJob, _sizes, _totalBytes, OnRun, scan, missed, misread>>

put(o) ==
    /\ Kind(o) = "put" /\ At(o, "register") /\ _register(Block(o))
    /\ _evictIfNeeded(Goes(o, "waits"), Goes(o, "done"))
    /\ misread' = misread \ {Block(o)}
    /\ UNCHANGED <<bcJob, child, scan, givenUp>>

(* The store yields the block, or throws: it is gone, or cannot be read. *)
Unreadable(o) == Block(o) \notin child \/ "read" \in bcJob.fails

getChild(o) ==
    /\ Kind(o) = "get" /\ At(o, "child")
    /\ (Block(o) \in child /\ Goes(o, "read")) \/ (Unreadable(o) /\ Goes(o, "thrown"))
    /\ UNCHANGED <<bcJob, child, _sizes, _totalBytes, OnRun, scan, missed, givenUp, misread>>

(* Whatever was thrown, the block leaves the index, as if it were gone. *)
getThrows(o) ==
    /\ Kind(o) = "get" /\ _unregister(Block(o)) /\ Goes(o, "failed")
    /\ At(o, "thrown") \/ (At(o, "read") /\ "read" \in bcJob.fails)
    /\ misread' = misread \cup ({Block(o)} \cap child)
    /\ UNCHANGED <<bcJob, child, OnRun, scan, missed, givenUp>>

(* Read to its end: a block the index did not know is registered; a caller *)
(* that leaves it half read leaves the index as it is. *)
get(o) ==
    /\ Kind(o) = "get" /\ At(o, "read")
    /\ IF call[o].known THEN Goes(o, "done") /\ UNCHANGED <<_sizes, _totalBytes, OnRun, missed, misread>>
       ELSE /\ _register(Block(o)) /\ _evictIfNeeded(Goes(o, "waits"), Goes(o, "done"))
            /\ misread' = misread \ {Block(o)}
    /\ UNCHANGED <<bcJob, child, scan, givenUp>>

abandonRead(o) ==
    /\ Kind(o) = "get" /\ At(o, "read") /\ Goes(o, "left")
    /\ UNCHANGED <<bcJob, child, _sizes, _totalBytes, OnRun, scan, missed, givenUp, misread>>

deleteChild(o) ==
    /\ Kind(o) = "delete" /\ At(o, "child")
    /\ child' = child \ {Block(o)} /\ Goes(o, "unregister")
    /\ UNCHANGED <<bcJob, _sizes, _totalBytes, OnRun, scan, missed, givenUp, misread>>

(* A write that landed in between is no longer counted. *)
delete(o) ==
    /\ Kind(o) = "delete" /\ At(o, "unregister") /\ _unregister(Block(o)) /\ Goes(o, "done")
    /\ givenUp' = givenUp \cup ({Block(o)} \cap child)
    /\ UNCHANGED <<bcJob, child, OnRun, scan, missed, misread>>

----------------------------------------
(* One run: the oldest leaves the index first, then the store. *)
_evict ==
    /\ _evicting = "looping"
    /\ IF _totalBytes > BcLow /\ _sizes # <<>>
       THEN /\ victim' = Head(_sizes) /\ _sizes' = Tail(_sizes)
            /\ _totalBytes' = _totalBytes - BcSize[Head(_sizes)] /\ _evicting' = "deleting"
       ELSE _evicting' = "ended" /\ UNCHANGED <<victim, _sizes, _totalBytes>>
    /\ UNCHANGED <<bcJob, child, call, scan, missed, givenUp, misread>>

evictDelete ==
    /\ _evicting = "deleting" /\ _evicting' = "looping"
    /\ \/ child' = child \ {victim} /\ UNCHANGED givenUp
       \/ "delete" \in bcJob.fails /\ givenUp' = givenUp \cup {victim} /\ UNCHANGED child
    /\ UNCHANGED <<bcJob, _sizes, _totalBytes, victim, call, scan, missed, misread>>

evictEnds ==
    /\ _evicting = "ended" /\ _evicting' = "none"
    /\ call' = [o \in BcOp |-> IF At(o, "waits") THEN [call[o] EXCEPT !.pc = "done"] ELSE call[o]]
    /\ UNCHANGED <<bcJob, child, _sizes, _totalBytes, victim, scan, missed, givenUp, misread>>

----------------------------------------
(* The scan of a persistent store. A block that went meanwhile ends it. *)
scanNext ==
    /\ scan.on /\ scan.reading = {} /\ scan.left # {}
    /\ \E k \in scan.left :
          scan' = IF k \notin child THEN [scan EXCEPT !.left = {}, !.partial = TRUE]
                  ELSE [scan EXCEPT !.left = @ \ {k}, !.reading = IF k \in Indexed THEN {} ELSE {k}]
    /\ UNCHANGED <<bcJob, child, _sizes, _totalBytes, OnRun, call, missed, givenUp, misread>>

scanRead ==
    /\ \E k \in scan.reading : _register(k)
    /\ misread' = misread \ scan.reading
    /\ scan' = [scan EXCEPT !.reading = {}]
    /\ UNCHANGED <<bcJob, child, OnRun, call, missed, givenUp>>

rebuildIndex ==
    /\ scan.on /\ scan.reading = {} /\ scan.left = {} /\ scan' = [scan EXCEPT !.on = FALSE]
    /\ UNCHANGED <<bcJob, child, _sizes, _totalBytes, call, givenUp, misread>> /\ _evictIfNeeded(TRUE, TRUE)

----------------------------------------
BcInit ==
    /\ bcJob \in BcWorkload /\ child = bcJob.held /\ _sizes = <<>> /\ _totalBytes = 0
    /\ _evicting = "none" /\ victim = CHOOSE k \in BcBlock : TRUE
    /\ call = [o \in BcOp |-> [pc |-> IF o \in DOMAIN bcJob.calls THEN "new" ELSE "none", known |-> FALSE]]
    /\ scan = [on |-> TRUE, left |-> bcJob.held, reading |-> {}, partial |-> FALSE]
    /\ missed = FALSE /\ givenUp = {} /\ misread = {}

BcNext ==
    \/ \E o \in DOMAIN bcJob.calls :
          begin(o) \/ putChild(o) \/ put(o) \/ getChild(o) \/ getThrows(o) \/ get(o) \/ abandonRead(o) \/ deleteChild(o) \/ delete(o)
    \/ _evict \/ evictDelete \/ evictEnds \/ scanNext \/ scanRead \/ rebuildIndex

BcSpec == BcInit /\ [][BcNext]_bcVars

----------------------------------------
EndedCalls == {o \in DOMAIN bcJob.calls : call[o].pc \in {"done", "left", "failed"}}
AtRest == EndedCalls = DOMAIN bcJob.calls /\ _evicting = "none" /\ ~scan.on

(* The byte total is what the index adds up to, whatever overtakes what: a *)
(* block written twice, read while it is evicted, deleted while it is *)
(* scanned. Otherwise the cap no longer means what it says. *)
TotalIsSum ==
    _totalBytes = Bytes({_sizes[i] : i \in DOMAIN _sizes})

(* At rest the cache is within its cap, unless something was registered *)
(* after the last look of the run it was folded into. *)
CapHolds ==
    (AtRest /\ ~missed) => _totalBytes <= BcMax

(* A block the store holds is counted once every call has ended, so that it *)
(* can be evicted: all of them after a complete scan, those written or read *)
(* to their end after one that broke off. Only a failed delete, a delete *)
(* overtaken by a write, and a failed read leave one out. *)
Counted(S) ==
    AtRest => \A k \in child \ S :
        (~scan.partial \/ \E o \in DOMAIN bcJob.calls : Block(o) = k /\ Kind(o) # "delete" /\ call[o].pc = "done")
            => \E i \in DOMAIN _sizes : _sizes[i] = k

HeldIsCounted == Counted(givenUp \cup misread)

(* Not checked, and not so: a read that failed although the store holds the *)
(* block, or that a write overtook, takes the block out of the count, and *)
(* out of the reach of eviction, until it is read or written again. *)
MisreadIsCounted == Counted(givenUp)

(* The bounded blockstore knows what it holds: every block is counted, once, *)
(* and at rest the total is within the cap, whatever gets, puts, deletes, *)
(* scans and evictions overlapped. *)
CacheIsAccounted ==
    TotalIsSum /\ CapHolds /\ HeldIsCounted
========================================
