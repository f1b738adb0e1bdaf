-------------------- MODULE PurgeCleanup --------------------
(***************************************************************************)
(* What a community leaves pinned in its IPFS node and written in its MFS  *)
(* folder: purges that land at any moment of a publish cycle, the grace    *)
(* period of superseded cids, the removal of blocks, garbage collection,   *)
(* and the repinning of a node that lost its pins.                         *)
(***************************************************************************)
EXTENDS Naturals, FiniteSets

CONSTANTS
    Posts,       \* rowids of comments, 1..n
    BatchSize,   \* REPIN_COMMENTS_BATCH_SIZE
    MaxRecords,  \* bound: records published
    PgWorkload   \* [rows, stores, records, fails, losesPins], the first rows, the stores and
                 \* records to come, and the faults that may happen

ASSUME PgAssumption ==
    /\ BatchSize \in Nat \ {0} /\ MaxRecords \in Nat /\ Posts \subseteq Nat /\ IsFiniteSet(Posts)
    /\ \A w \in PgWorkload : w.rows \subseteq Posts

Post(p) == <<"post", p>>
Rec(n) == <<"record", n>>
Stats(S) == <<"stats", Cardinality(S)>>

VARIABLES
    pgJob,
    rows, purged,
    mfs, toRemove,      \* files in the postUpdates folder, _mfsPathsToRemove
    removing,           \* paths a purge is just removing
    pins, blocks,       \* of the IPFS node
    toUnpin, aged,      \* _cidsToUnPin, and those past their grace period
    blocksToRm,
    armed, during,      \* communitiesWithPendingPurgeFlush, and whether it was set during the cycle
    lost,               \* history: a restart dropped it while a purge was pending
    cycleAt, captured,    \* place in the cycle, rows it writes
    shows, served,      \* [record -> posts it shows], record the name points to
    updateCid,          \* the record this community holds for its last one
    node                \* "up", "stopped", "repin"

pgVars == <<pgJob, rows, purged, mfs, toRemove, removing, pins, blocks, toUnpin, aged, blocksToRm, armed, during, lost, cycleAt, captured, shows, served, updateCid, node>>

Board == <<rows, purged>>
Files == <<mfs, toRemove, removing>>
Repo == <<pins, blocks>>
Queue == <<toUnpin, aged, blocksToRm, armed, during, lost>>
Fails == pgJob.fails
AllCids == {Post(p) : p \in Posts} \cup {Rec(n) : n \in 1..MaxRecords} \cup {<<"stats", n>> : n \in 0..Cardinality(Posts)}
StoredCid == IF updateCid = 0 THEN {} ELSE {Rec(updateCid)}

----------------------------------------
(* A post is stored, and pinned by its store. *)
storePost(p) ==
    /\ node = "up" /\ p \in pgJob.stores \ (rows \cup purged) /\ \A q \in rows \cup purged : q < p
    /\ rows' = rows \cup {p} /\ pins' = pins \cup {Post(p)} /\ blocks' = blocks \cup {Post(p)}
    /\ UNCHANGED <<pgJob, purged, Files, Queue, cycleAt, captured, shows, served, updateCid, node>>

(* addAllCidsUnderPurgedCommentToBeRemoved and the record that shows it; the *)
(* MFS removal that follows is awaited, and only logged when it fails. *)
purge(p) ==
    /\ node = "up" /\ p \in rows /\ removing = {}
    /\ rows' = rows \ {p} /\ purged' = purged \cup {p}
    /\ toUnpin' = toUnpin \cup {Post(p)} \cup StoredCid /\ blocksToRm' = blocksToRm \cup {Post(p)} \cup StoredCid
    /\ toRemove' = toRemove \cup {p} /\ removing' = toRemove'
    /\ armed' = TRUE /\ during' = (cycleAt \in {"stamped", "built", "added", "published", "unpinned"})
    /\ UNCHANGED <<pgJob, mfs, Repo, aged, lost, cycleAt, captured, shows, served, updateCid, node>>

purgeRemovesFiles ==
    /\ removing # {} /\ removing' = {}
    /\ \/ mfs' = mfs \ removing /\ toRemove' = toRemove \ removing
       \/ Fails /\ UNCHANGED <<mfs, toRemove>>
    /\ UNCHANGED <<pgJob, Board, Repo, Queue, cycleAt, captured, shows, served, updateCid, node>>

----------------------------------------
(* rmUnneededMfsPaths of the cycle: a failure ends the cycle. *)
Removed == mfs' = mfs \ toRemove /\ toRemove' = {}

CycleFails == Fails /\ cycleAt' = "idle" /\ captured' = {} /\ UNCHANGED <<mfs, toRemove>>

beginCycle ==
    /\ node = "up" /\ cycleAt = "idle" /\ Cardinality(DOMAIN shows) < pgJob.records
    /\ cycleAt' = "calculated" /\ captured' = rows
    /\ UNCHANGED <<pgJob, Board, Files, Repo, Queue, shows, served, updateCid, node>>

(* writePostUpdatesToMfs: what was purged meanwhile is left out. *)
filterPurged ==
    /\ cycleAt = "calculated"
    /\ \/ Removed /\ captured' = captured \cap rows /\ cycleAt' = "writing"
       \/ CycleFails
    /\ UNCHANGED <<pgJob, Board, removing, Repo, Queue, shows, served, updateCid, node>>

writeFile(p) ==
    /\ cycleAt = "writing" /\ p \in captured /\ p \notin mfs
    /\ mfs' = mfs \cup {p}
    /\ UNCHANGED <<pgJob, Board, toRemove, removing, Repo, Queue, cycleAt, captured, shows, served, updateCid, node>>

PurgedDuringWrites_None == {}

PurgedDuringWrites == captured \ rows

recheckPurged ==
    /\ cycleAt = "writing" /\ (captured \cap rows) \subseteq mfs
    /\ captured' = {}
    /\ \/ PurgedDuringWrites = {} /\ cycleAt' = "written" /\ UNCHANGED <<mfs, toRemove>>
       \/ /\ PurgedDuringWrites # {}
          /\ \/ cycleAt' = "written" /\ mfs' = mfs \ (toRemove \cup PurgedDuringWrites) /\ toRemove' = {}
             \/ Fails /\ cycleAt' = "idle" /\ UNCHANGED mfs /\ toRemove' = toRemove \cup PurgedDuringWrites
    /\ UNCHANGED <<pgJob, Board, removing, Repo, Queue, shows, served, updateCid, node>>

(* syncIpnsWithDb drains the paths left, then the record's cycle is stamped. *)
stampCycle ==
    /\ cycleAt = "written"
    /\ \/ Removed /\ cycleAt' = "stamped" /\ during' = FALSE /\ UNCHANGED captured
       \/ CycleFails /\ UNCHANGED during
    /\ UNCHANGED <<pgJob, Board, removing, Repo, toUnpin, aged, blocksToRm, armed, lost, shows, served, updateCid, node>>

(* calculateNextCommunityRecord: pages from the rows, postUpdates from MFS; *)
(* the statistics are pinned, and those of the last record queued. *)
buildRecord ==
    /\ cycleAt = "stamped" /\ cycleAt' = "built"
    /\ LET n == Cardinality(DOMAIN shows) + 1
           old == IF updateCid = 0 THEN {} ELSE {shows[updateCid].stats} \ {Stats(rows)}
       IN /\ shows' = [k \in 1..n |-> IF k = n THEN [posts |-> rows \cup mfs, stats |-> Stats(rows), kept |-> FALSE] ELSE shows[k]]
          /\ toUnpin' = toUnpin \cup old
    /\ pins' = pins \cup {Stats(rows)} /\ blocks' = blocks \cup {Stats(rows)}
    /\ UNCHANGED <<pgJob, Board, Files, aged, blocksToRm, armed, during, lost, captured, served, updateCid, node>>

Newest == Cardinality(DOMAIN shows)

Superseded == StoredCid

(* The record is added and pinned, and only then named; whatever fails in *)
(* between ends the cycle and leaves the record pinned. *)
addRecord ==
    /\ cycleAt = "built"
    /\ \/ cycleAt' = "added" /\ pins' = pins \cup {Rec(Newest)} /\ blocks' = blocks \cup {Rec(Newest)}
       \/ Fails /\ cycleAt' = "idle" /\ UNCHANGED Repo
    /\ UNCHANGED <<pgJob, Board, Files, Queue, captured, shows, served, updateCid, node>>

(* A publish may have named the record although its answer is an error. *)
publishRecord ==
    /\ cycleAt = "added"
    /\ \/ cycleAt' = "published" /\ served' = Newest /\ toUnpin' = toUnpin \cup Superseded
       \/ Fails /\ cycleAt' = "idle" /\ served' \in {served, Newest} /\ UNCHANGED toUnpin
    /\ UNCHANGED <<pgJob, Board, Files, Repo, aged, blocksToRm, armed, during, lost, captured, shows, updateCid, node>>

(* Only a cycle stamped after the purge has every older record in its queue. *)
DisarmedBy(rest) == rest = {} /\ ~during

(* unpinStaleCids: a pending purge ends the grace period of the whole queue. *)
unpinStaleCids ==
    LET flush == armed \/ blocksToRm # {}
        due == IF flush THEN toUnpin ELSE toUnpin \cap aged
    IN \E kept \in SUBSET due :
           /\ kept # {} => Fails
           /\ pins' = pins \ (due \ kept)
           /\ toUnpin' = toUnpin \ (due \ kept) /\ aged' = aged \ (due \ kept)
           /\ armed' = (armed /\ ~(flush /\ DisarmedBy(toUnpin')))

unpinAfterPublish ==
    /\ cycleAt = "published" /\ cycleAt' = "unpinned"
    /\ unpinStaleCids
    /\ UNCHANGED <<pgJob, Board, Files, blocks, blocksToRm, during, lost, captured, shows, served, updateCid, node>>

(* removeBlocksFromKuboNode: a pinned block stays, and stays queued; when *)
(* it fails, part of them may be gone. Only then is the record kept as the *)
(* last one. *)
removeBlocks ==
    /\ cycleAt = "unpinned" /\ cycleAt' = "idle"
    /\ \/ /\ blocks' = blocks \ (blocksToRm \ pins) /\ blocksToRm' = blocksToRm \cap pins
          /\ updateCid' = served /\ shows' = [shows EXCEPT ![served].kept = TRUE]
       \/ /\ Fails /\ \E gone \in SUBSET (blocksToRm \ pins) : blocks' = blocks \ gone
          /\ UNCHANGED <<blocksToRm, updateCid, shows>>
    /\ UNCHANGED <<pgJob, Board, Files, pins, toUnpin, aged, armed, during, lost, captured, served, node>>

(* Half an hour passes; _runRepoGcIfDue sweeps what is not pinned. *)
graceEnds(c) ==
    /\ c \in toUnpin \ aged /\ aged' = aged \cup {c}
    /\ UNCHANGED <<pgJob, Board, Files, Repo, toUnpin, blocksToRm, armed, during, lost, cycleAt, captured, shows, served, updateCid, node>>

cleanUpIpfsRepoIfDue ==
    /\ cycleAt = "idle" /\ node = "up" /\ blocks \cap pins # blocks
    /\ blocks' = blocks \cap pins
    /\ UNCHANGED <<pgJob, Board, Files, pins, Queue, cycleAt, captured, shows, served, updateCid, node>>

----------------------------------------
(* stop() unpins without grace and saves what is left, start() asks for the *)
(* pin of the latest comment and repins in batches, each started only when *)
(* the one before ended. *)
stopNode ==
    /\ node = "up" /\ cycleAt = "idle" /\ removing = {} /\ node' = "stopped"
    /\ \E left \in SUBSET toUnpin :
           /\ left # {} => Fails
           /\ pins' = pins \ (toUnpin \ left) /\ toUnpin' = left /\ aged' = aged \cap left
    /\ UNCHANGED <<pgJob, Board, Files, blocks, blocksToRm, armed, during, lost, cycleAt, captured, shows, served, updateCid>>

losePins ==
    /\ pgJob.losesPins /\ node = "stopped" /\ pins' = {} /\ pins # {}
    /\ UNCHANGED <<pgJob, Board, Files, blocks, Queue, cycleAt, captured, shows, served, updateCid, node>>

Latest == CHOOSE p \in rows : \A q \in rows : q <= p
Place(p) == Cardinality({q \in rows : q < p})
Batch(p) == Place(p) \div BatchSize
Unpinned == {p \in rows : Post(p) \notin pins}

(* A new instance has the cids and paths that were saved; what else the old *)
(* one knew of a purge is gone with it. *)
startNode ==
    /\ node = "stopped"
    /\ node' = IF rows = {} THEN "up" ELSE IF Post(Latest) \in pins THEN "up" ELSE "repin"
    /\ \/ UNCHANGED Queue
       \/ /\ armed' = FALSE /\ blocksToRm' = {} /\ aged' = {} /\ lost' = (lost \/ armed \/ blocksToRm # {})
          /\ UNCHANGED <<toUnpin, during>>
    /\ UNCHANGED <<pgJob, Board, Files, Repo, cycleAt, captured, shows, served, updateCid>>

NextBatch == {p \in Unpinned : \A q \in Unpinned : Batch(p) <= Batch(q)}

(* One comment of the batch is pinned, or fails and with it the start. *)
repinComment(p) ==
    /\ node = "repin" /\ p \in NextBatch
    /\ pins' = pins \cup {Post(p)} /\ blocks' = blocks \cup {Post(p)}
    /\ UNCHANGED <<pgJob, Board, Files, Queue, cycleAt, captured, shows, served, updateCid, node>>

repinEnds ==
    /\ node = "repin"
    /\ \/ Unpinned = {} /\ node' = "up"
       \/ Fails /\ Unpinned # {} /\ node' = "stopped"
    /\ UNCHANGED <<pgJob, Board, Files, Repo, Queue, cycleAt, captured, shows, served, updateCid>>

PgInit ==
    /\ pgJob \in PgWorkload
    /\ rows = pgJob.rows /\ purged = {} /\ mfs = {} /\ toRemove = {} /\ removing = {}
    /\ pins = {Post(p) : p \in rows} /\ blocks = pins
    /\ toUnpin = {} /\ aged = {} /\ blocksToRm = {} /\ armed = FALSE /\ during = FALSE /\ lost = FALSE
    /\ cycleAt = "idle" /\ captured = {} /\ shows = [n \in {} |-> {}] /\ served = 0 /\ updateCid = 0 /\ node = "up"

PgNext ==
    \/ \E p \in Posts : storePost(p) \/ purge(p) \/ writeFile(p) \/ repinComment(p)
    \/ purgeRemovesFiles \/ beginCycle \/ filterPurged \/ recheckPurged \/ stampCycle \/ buildRecord
    \/ addRecord \/ publishRecord \/ unpinAfterPublish \/ removeBlocks \/ cleanUpIpfsRepoIfDue
    \/ \E c \in AllCids : graceEnds(c)
    \/ stopNode \/ losePins \/ startNode \/ repinEnds

PgSpec == PgInit /\ [][PgNext]_pgVars

----------------------------------------
(* A file of a purged post is always queued for removal, or still before *)
(* the check that follows the writes of this cycle. *)
NoOrphanFile == \A p \in mfs \ rows : p \in toRemove \cup removing \/ (cycleAt = "writing" /\ p \in captured)

ShowsPurged(c) == \/ \E p \in purged : c = Post(p)
                  \/ \E n \in DOMAIN shows : c = Rec(n) /\ shows[n].posts \cap purged # {}

(* Pinned by a cycle that failed before it kept the record as its last. *)
Forgotten(c) == \E n \in DOMAIN shows : c = Rec(n) /\ ~shows[n].kept

(* Once no purge is pending any more, nothing that shows a purged post is *)
(* pinned: not the post, and no record built while it was there. Where a *)
(* restart lost the purge, it may still wait out its grace, or be the last *)
(* record; and what a failed cycle pinned is out of anybody's reach. *)
PurgedIsUnpinned ==
    (~armed /\ cycleAt = "idle" /\ node = "up") =>
        \A c \in pins : ShowsPurged(c) => Forgotten(c) \/ (lost /\ c \in toUnpin \cup StoredCid)

(* The record the name points to stays pinned and can be fetched, unless *)
(* the node stopped or a purge took it away, one lost by a restart too. *)
RecordIsServed ==
    (/\ served # 0 /\ node = "up" /\ ~pgJob.losesPins
     /\ ~ShowsPurged(Rec(served)) /\ Rec(served) \notin blocksToRm /\ ~lost) => {Rec(served)} \subseteq pins \cap blocks

(* The repin reaches the newest comment last: when it fails part way, the *)
(* probe of the next start can take for pinned no batch before the newest *)
(* comment's own.  Posts stored and purged after such a start move the *)
(* batches, so nothing of the kind holds later on. *)
LatestIsWalkedLast ==
    (node = "repin" /\ Post(Latest) \in pins) => \A p \in rows : Batch(p) < Batch(Latest) => Post(p) \in pins

(* That the probe of a start stands for every comment. *)
LatestStandsForAll ==
    (node = "stopped" /\ rows # {} /\ Post(Latest) \in pins) => \A p \in rows : Post(p) \in pins

(* The statistics the current record names stay pinned. *)
StatisticsAreServed ==
    (served # 0 /\ node = "up" /\ cycleAt = "idle" /\ ~pgJob.losesPins) => shows[served].stats \in pins

(* Unpinning takes away what a purge asked for and nothing else: no file and *)
(* no pin of a purged post outlives its grace, the current record stays *)
(* fetchable, and a repin that fails leaves the newest comment for the last. *)
PurgeIsThorough ==
    NoOrphanFile /\ PurgedIsUnpinned /\ RecordIsServed /\ LatestIsWalkedLast
========================================
