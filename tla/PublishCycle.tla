-------------------- MODULE PublishCycle --------------------
(***************************************************************************)
(* The publish loop of a started community (lifecycle.ts, publishLoop) and *)
(* one cycle of it (ipns-publishing.ts, syncIpnsWithDb): recalculate the   *)
(* CommentUpdates the DB flags, write the posts' files to MFS, and publish *)
(* a record when the update trigger asks for one.  Votes, posts and        *)
(* community edits land at any await of the cycle; the cycle may fail at   *)
(* any of its calls; the process may stop, crash and start again.          *)
(*                                                                         *)
(* Every action is the code from one await to the next.  A vote stands for *)
(* any write that sets the trigger and that the flag query finds by its    *)
(* insertedAt (vote, comment edit, moderation), a post for an approved     *)
(* comment.  Timestamps have a granularity of one second and are compared  *)
(* with >= only, so time is the set of votes of the current second.        *)
(***************************************************************************)
EXTENDS Naturals, Sequences, FiniteSets

CONSTANTS
    Post, Vote,
    Target,        \* the post a vote is for
    InitialPosts,  \* posts published before the model starts
    Config,        \* values of the properties that community.edit() changes
    InitialConfig,
    Layout,        \* the settings.pages of a configuration
    Bucket,        \* the postUpdates bucket a post's file is in
    SliceSize,     \* COMMENT_UPDATE_SLICE_SIZE
    MaxEdits,      \* bound: calls of edit()
    MaxStops,      \* bound: stops and crashes
    Faults,        \* the faults that may happen: see FaultKinds
    None           \* "no post yet"

\* A call of the cycle throws; the MFS stat of a bucket fails; the save in
\* stop() throws; the process dies.
FaultKinds == {"cycle", "stat", "save", "crash"}

ASSUME ConstantsAssumption ==
    /\ Target \in [Vote -> Post]
    /\ InitialPosts \subseteq Post
    /\ InitialConfig \in Config
    /\ SliceSize \in Nat \ {0}
    /\ MaxEdits \in Nat
    /\ MaxStops \in Nat
    /\ Faults \subseteq FaultKinds
    /\ None \notin Post
    /\ Post \cap Vote = {}
    /\ DOMAIN Layout = Config
    /\ DOMAIN Bucket = Post

Layouts == {Layout[c] : c \in Config}
Buckets == {Bucket[p] : p \in Post}

VARIABLES
    \* the database
    posts,       \* rows of the comments table
    latest,      \* queryLatestPostCid
    cast,        \* rows of the votes table
    thisSecond,  \* votes whose insertedAt is the current second
    rows,        \* commentUpdates: the posts that have a row, the votes counted
    newer,       \* votes with insertedAt >= the insertedAt of their post's row
    marked,      \* posts whose row has publishedToPostUpdatesMFS = 1
    rowLayout,   \* the settings.pages a post's row was generated with
    db,          \* INTERNAL_COMMUNITY and the page sorts fingerprint
    \* Kubo
    files,       \* the postUpdates files in MFS: posts and votes counted
    record,      \* what the IPNS name points to
    \* the community instance
    trigger,     \* _communityUpdateTrigger
    requested,   \* _updateTriggerGeneration moved since the wait's snapshot
    pending,     \* _pendingEditProps (the edit id is the hash of the edit)
    props,       \* the instance's own record properties
    raw,         \* raw.communityIpfs
    layout,      \* settings.pages
    stopCalled,  \* _stopHasBeenCalled
    \* the publish loop
    pc,          \* where the loop is suspended
    failed,      \* lastSyncFailed
    failedSinceStop, \* syncFailedSinceStop
    remaining,   \* flagged posts not calculated yet
    slice,       \* posts of the slice in work
    calc,        \* what the slice's rows will hold
    sinceStamp,  \* votes with insertedAt >= batchStartTimestamp
    updated,     \* cidsUpdatedInThisCycle
    draft,       \* the record being published
    draftIds,    \* editIdsToIncludeInNextUpdate
    \* history and bounds
    lastEdit,    \* the configuration of the owner's last edit
    repeats,     \* whether it repeats one of the record being published
    edits, stops

dbVars    == <<posts, latest, cast, thisSecond>>
rowVars   == <<rows, newer, marked, rowLayout>>
editVars  == <<pending, props, raw, layout, lastEdit, repeats, edits>>
waitVars  == <<trigger, requested, failed, failedSinceStop>>
batchVars == <<remaining, slice, calc, sinceStamp, updated>>
draftVars == <<draft, draftIds>>
stopVars  == <<stopCalled, stops>>
vars == <<dbVars, rowVars, db, files, record, editVars, waitVars, batchVars, draftVars, stopVars, pc>>

Content == [posts : SUBSET Post, votes : SUBSET Vote]
Props   == [config : Config, lastPost : Post \cup {None}]
Record  == [lists : Content, missed : SUBSET Buckets, config : Config, lastPost : Post \cup {None}]

Phases == {"waiting", "syncing", "slicing", "signing", "writing", "deciding", "building",
           "publishing", "adopting", "saving", "stopping", "stopped", "down"}

VotesOn(S) == {v \in Vote : Target[v] \in S}

\* Rows or files of the posts S replaced by ones that count the votes V.
Replace(content, S, V) ==
    [posts |-> content.posts \cup S, votes |-> (content.votes \ VotesOn(S)) \cup (V \cap VotesOn(S))]

\* What readers find through a record: the files it was built over, except
\* those of the buckets whose cid it lacks.
PostsIn(B) == {p \in Post : Bucket[p] \in B}
Shows(rec) == [posts |-> rec.lists.posts \ PostsIn(rec.missed), votes |-> rec.lists.votes \ VotesOn(PostsIn(rec.missed))]

PropsOf(rec) == [config |-> rec.config, lastPost |-> rec.lastPost]

BoardTypeOK ==
    /\ posts \subseteq Post
    /\ cast \subseteq Vote /\ thisSecond \subseteq cast
    /\ rows \in Content /\ newer \subseteq Vote /\ marked \subseteq Post
    /\ files \in Content /\ record.lists \in Content /\ draft.lists \in Content
    /\ record.missed \subseteq Buckets /\ draft.missed \subseteq Buckets
    /\ trigger \in BOOLEAN /\ requested \in BOOLEAN
    /\ pc \in Phases
    /\ failed \in BOOLEAN /\ failedSinceStop \in BOOLEAN /\ stopCalled \in BOOLEAN
    /\ remaining \subseteq Post /\ slice \subseteq Post /\ updated \subseteq Post
    /\ calc.votes \subseteq Vote /\ sinceStamp \subseteq Vote

EditTypeOK ==
    /\ latest \in Post \cup {None}
    /\ rowLayout \in [Post -> Layouts]
    /\ calc.layout \in Layouts
    /\ db \in [props : Props, layout : Layouts, fingerprint : Layouts]
    /\ record \in Record /\ draft \in Record /\ draftIds \subseteq Config
    /\ pending \in Seq(Config)
    /\ props \in Props /\ raw \in Props /\ layout \in Layouts
    /\ lastEdit \in Config /\ repeats \in BOOLEAN
    /\ edits \in Nat /\ stops \in Nat

TypeOK == BoardTypeOK /\ EditTypeOK

\* A community that has published its initial posts and sits in its first wait.
Init ==
    /\ posts = InitialPosts
    /\ latest \in InitialPosts \cup {None}
    /\ latest = None <=> InitialPosts = {}
    /\ cast = {} /\ thisSecond = {}
    /\ rows = [posts |-> InitialPosts, votes |-> {}] /\ files = rows
    /\ newer = {} /\ marked = InitialPosts
    /\ rowLayout = [p \in Post |-> Layout[InitialConfig]]
    /\ record = [lists |-> files, missed |-> {}, config |-> InitialConfig, lastPost |-> latest]
    /\ props = PropsOf(record) /\ raw = props
    /\ layout = Layout[InitialConfig]
    /\ db = [props |-> props, layout |-> layout, fingerprint |-> layout]
    /\ trigger = FALSE /\ requested = FALSE
    /\ pending = <<>> /\ lastEdit = InitialConfig /\ repeats = FALSE /\ edits = 0
    /\ stopCalled = FALSE /\ stops = 0
    /\ pc = "waiting" /\ failed = FALSE /\ failedSinceStop = FALSE
    /\ remaining = {} /\ slice = {} /\ updated = {} /\ sinceStamp = {}
    /\ calc = [votes |-> {}, layout |-> layout]
    /\ draft = record /\ draftIds = {}

Up == pc \notin {"stopped", "down"}

----------------------------------------
(* Writes that land while the community is up. *)

\* The setter of _communityUpdateTrigger counts every assignment of true.
Request == trigger' = TRUE /\ requested' = TRUE

\* storeComment of an approved post: it does not set the trigger, the change
\* of the latest post is what calculateLatestUpdateTrigger looks for.
storeComment(p) ==
    /\ Up /\ p \notin posts
    /\ posts' = posts \cup {p}
    /\ latest' = p
    /\ UNCHANGED <<cast, thisSecond, rowVars, db, files, record, editVars, waitVars, batchVars, draftVars, stopVars, pc>>

storeVote(v) ==
    /\ Up /\ v \notin cast /\ Target[v] \in posts
    /\ cast' = cast \cup {v}
    /\ thisSecond' = thisSecond \cup {v}
    /\ newer' = newer \cup {v}
    /\ sinceStamp' = IF pc = "waiting" THEN {} ELSE sinceStamp \cup {v}
    /\ Request
    /\ UNCHANGED <<posts, latest, rows, marked, rowLayout, db, files, record, editVars, failed, failedSinceStop,
                   remaining, slice, calc, updated, draftVars, stopVars, pc>>

\* The clock's next second begins.
NextSecond ==
    /\ thisSecond # {}
    /\ thisSecond' = {}
    /\ UNCHANGED <<posts, latest, cast, rowVars, db, files, record, editVars, waitVars, batchVars, draftVars, stopVars, pc>>

\* applyPagesEdit: a change of settings.pages clears the mark of every row.
MarksAfterLayout(l) == IF Layout[l] # layout THEN {} ELSE marked

\* editPropsOnStartedCommunity, an edit that keeps the address.
editPropsOnStartedCommunity(c) ==
    /\ Up /\ edits < MaxEdits
    /\ pending' = Append(pending, c)
    /\ raw' = [raw EXCEPT !.config = c]
    /\ props' = raw'
    /\ marked' = MarksAfterLayout(c)
    /\ layout' = Layout[c]
    /\ db' = [db EXCEPT !.fingerprint = Layout[c]]
    /\ Request
    /\ lastEdit' = c /\ edits' = edits + 1
    /\ repeats' = (pc \in {"publishing", "adopting"} /\ c \in draftIds)
    /\ UNCHANGED <<dbVars, rows, newer, rowLayout, files, record, failed, failedSinceStop, batchVars, draftVars, stopVars, pc>>

\* editPropsOnNotStartedCommunity: the edit goes to the DB and to the instance.
editPropsOnNotStartedCommunity(c) ==
    /\ pc = "stopped" /\ edits < MaxEdits
    /\ db' = [props |-> [db.props EXCEPT !.config = c], layout |-> Layout[c], fingerprint |-> Layout[c]]
    /\ props' = db'.props /\ raw' = db'.props /\ layout' = Layout[c]
    /\ marked' = MarksAfterLayout(c)
    /\ lastEdit' = c /\ repeats' = FALSE /\ edits' = edits + 1
    /\ UNCHANGED <<dbVars, rows, newer, rowLayout, files, record, pending, waitVars, batchVars, draftVars, stopVars, pc>>

----------------------------------------
(* The wait between two cycles. *)

\* What calculateLatestUpdateTrigger finds without the trigger; the age of the
\* last record is left to chance (tooOld).
NeedsRecord == pending # <<>> \/ props.lastPost # latest

calculateLatestUpdateTrigger(tooOld) == trigger \/ tooOld \/ NeedsRecord

\* Mutant: stop() does not wait for pending edits.
shouldStopPublishLoop_IgnoresEdits == stopCalled

shouldStopPublishLoop == stopCalled /\ (pending = <<>> \/ failedSinceStop)

\* Whether the next tick of the wait ends it for the trigger's sake.
WokenByTrigger(tooOld) ==
    LET now == calculateLatestUpdateTrigger(tooOld)
    IN  IF failed THEN requested \/ (now /\ ~trigger) ELSE now

\* waitUntilNextSync resolves: woken by the trigger, by stop() or by the sync
\* interval, which is longer than anything the model measures.
waitUntilNextSync ==
    /\ pc = "waiting"
    /\ \E tooOld, intervalPassed \in BOOLEAN :
           /\ WokenByTrigger(tooOld) \/ shouldStopPublishLoop \/ intervalPassed
           /\ trigger' = calculateLatestUpdateTrigger(tooOld)
    /\ pc' = IF shouldStopPublishLoop THEN "stopping" ELSE "syncing"
    /\ UNCHANGED <<dbVars, rowVars, db, files, record, editVars, requested, failed, failedSinceStop, batchVars, draftVars, stopVars>>

\* The cycle's local variables end with it.
DropLocals ==
    /\ remaining' = {} /\ slice' = {} /\ updated' = {} /\ sinceStamp' = {}
    /\ calc' = [votes |-> {}, layout |-> layout]
    /\ draft' = record /\ draftIds' = {}

\* A cycle that ends normally goes to the wait.
CycleDone ==
    /\ pc' = "waiting"
    /\ failed' = FALSE /\ requested' = FALSE
    /\ DropLocals
    /\ UNCHANGED failedSinceStop

\* The catch of publishLoop and the start of the wait after it: the trigger is
\* brought up to date before the generation is remembered.
CycleFails(trig) ==
    /\ "cycle" \in Faults
    /\ pc' = "waiting"
    /\ failed' = TRUE
    /\ failedSinceStop' = (failedSinceStop \/ stopCalled)
    /\ \E tooOld \in BOOLEAN : trigger' = (trig \/ tooOld \/ NeedsRecord)
    /\ requested' = FALSE
    /\ DropLocals

----------------------------------------
(* One cycle. *)

\* Mutant: the query looks at the mark only.
Flagged_ByMark ==
    {p \in posts : \/ p \notin rows.posts
                   \/ p \notin marked}

\* The posts the flag query returns, without the cascades.
Flagged ==
    {p \in posts : \/ p \notin rows.posts
                   \/ p \notin marked
                   \/ \E v \in newer : Target[v] = p}

\* queryCidsToBeUpdatedByDepth and the stamp taken before it.  Other comments
\* of a flagged comment's author are flagged with it.
flagComments ==
    /\ pc = "syncing"
    /\ \E S \in SUBSET posts :
           /\ Flagged \subseteq S
           /\ Flagged = {} => S = {}
           /\ remaining' = S
           /\ IF S # {} THEN Request /\ pc' = "slicing"
                        ELSE UNCHANGED <<trigger, requested>> /\ pc' = "deciding"
    /\ sinceStamp' = thisSecond
    /\ updated' = {}
    /\ UNCHANGED <<dbVars, rowVars, db, files, record, editVars, failed, failedSinceStop, slice, calc, draftVars, stopVars>>

\* A slice's rows are read: the votes of its posts, then pages and signature.
readSlice ==
    /\ pc = "slicing"
    /\ slice' \in {S \in SUBSET remaining : S # {} /\ Cardinality(S) <= SliceSize}
    /\ remaining' = remaining \ slice'
    /\ calc' = [votes |-> cast \cap VotesOn(slice'), layout |-> layout]
    /\ pc' = "signing"
    /\ UNCHANGED <<dbVars, rowVars, db, files, record, editVars, waitVars, sinceStamp, updated, draftVars, stopVars>>

\* upsertCommentUpdates: the rows carry the batch's stamp and are not marked.
upsertCommentUpdates ==
    /\ pc = "signing"
    /\ rows' = Replace(rows, slice, calc.votes)
    /\ newer' = (newer \ VotesOn(slice)) \cup (sinceStamp \cap VotesOn(slice))
    /\ marked' = marked \ slice
    /\ rowLayout' = [p \in Post |-> IF p \in slice THEN calc.layout ELSE rowLayout[p]]
    /\ pc' = "writing"
    /\ UNCHANGED <<dbVars, db, files, record, editVars, waitVars, batchVars, draftVars, stopVars>>

\* writePostUpdatesToMfs of the slice.
writePostUpdatesToMfs ==
    /\ pc = "writing"
    /\ files' = Replace(files, slice, calc.votes)
    /\ updated' = updated \cup slice
    /\ pc' = IF remaining = {} THEN "deciding" ELSE "slicing"
    /\ UNCHANGED <<dbVars, rowVars, db, record, editVars, waitVars, remaining, slice, calc, sinceStamp, draftVars, stopVars>>

\* Some of the slice's files are written before one write fails.
writePostUpdatesFails ==
    /\ pc = "writing"
    /\ CycleFails(trigger)
    /\ \E done \in SUBSET slice : files' = Replace(files, done, calc.votes)
    /\ UNCHANGED <<dbVars, rowVars, db, record, editVars, stopVars>>

\* updateCommunityIpnsIfNeeded returns early.
noRecordNeeded ==
    /\ pc = "deciding"
    /\ ~calculateLatestUpdateTrigger(FALSE)
    /\ CycleDone
    /\ UNCHANGED <<dbVars, rowVars, db, files, record, editVars, trigger, stopVars>>

\* updateCommunityIpnsIfNeeded consumes the trigger and marks the cycle's rows;
\* the record's latest post is read in the same step.
consumeTrigger ==
    /\ pc = "deciding"
    /\ \E tooOld \in BOOLEAN : calculateLatestUpdateTrigger(tooOld)
    /\ trigger' = FALSE
    /\ marked' = marked \cup updated
    /\ draft' = [lists |-> draft.lists, missed |-> draft.missed, config |-> draft.config, lastPost |-> latest]
    /\ pc' = "building"
    /\ UNCHANGED <<dbVars, rows, newer, rowLayout, db, files, record, editVars, requested, failed, failedSinceStop,
                   batchVars, draftIds, stopVars>>

\* The configuration a record is built with: the last pending edit wins.
ConfigToPublish == IF pending = <<>> THEN props.config ELSE pending[Len(pending)]

EditIds(s) == {s[i] : i \in 1..Len(s)}

\* calculateNewPostUpdates: a bucket whose stat still fails after the retries is
\* left out, and nothing remembers it.
Missed == IF "stat" \in Faults THEN SUBSET Buckets ELSE {{}}

\* Mutant: the record lists only the posts this cycle wrote.
calculateNextCommunityRecord_OnlyUpdated ==
    /\ pc = "building"
    /\ \E missed \in Missed :
           draft' = [lists |-> [posts |-> updated, votes |-> files.votes \cap VotesOn(updated)], missed |-> missed,
                     config |-> ConfigToPublish, lastPost |-> draft.lastPost]
    /\ draftIds' = EditIds(pending)
    /\ pc' = "publishing"
    /\ UNCHANGED <<dbVars, rowVars, db, files, record, editVars, waitVars, batchVars, stopVars>>

\* calculateNextCommunityRecord from the MFS stats on, and the signature.
calculateNextCommunityRecord ==
    /\ pc = "building"
    /\ \E missed \in Missed :
           draft' = [lists |-> files, missed |-> missed, config |-> ConfigToPublish, lastPost |-> draft.lastPost]
    /\ draftIds' = EditIds(pending)
    /\ pc' = "publishing"
    /\ UNCHANGED <<dbVars, rowVars, db, files, record, editVars, waitVars, batchVars, stopVars>>

\* name.publish succeeds.
namePublish ==
    /\ pc = "publishing"
    /\ record' = draft
    /\ pc' = "adopting"
    /\ UNCHANGED <<dbVars, rowVars, db, files, editVars, waitVars, batchVars, draftVars, stopVars>>

\* Mutant: the catch does not arm the trigger again.
namePublishFails_NoRearm ==
    /\ pc = "publishing"
    /\ CycleFails(trigger)
    /\ record' \in {record, draft}
    /\ UNCHANGED <<dbVars, rowVars, db, files, editVars, stopVars>>

\* name.publish fails, or times out after Kubo took the record.
namePublishFails ==
    /\ pc = "publishing"
    /\ CycleFails(TRUE)
    /\ record' \in {record, draft}
    /\ UNCHANGED <<dbVars, rowVars, db, files, editVars, stopVars>>

\* The edits that the published record does not carry stay, in their order.
DropPublishedEdits ==
    \E n \in 0..Len(pending) : \E place \in [1..n -> DOMAIN pending] :
        /\ \A i, j \in 1..n : i < j => place[i] < place[j]
        /\ {place[i] : i \in 1..n} = {i \in DOMAIN pending : pending[i] \notin draftIds}
        /\ pending' = [i \in 1..n |-> pending[place[i]]]

\* Mutant: edits made during the publish are not applied again.
adoptRecord_NoReapply ==
    /\ pc = "adopting"
    /\ raw' = PropsOf(draft)
    /\ DropPublishedEdits
    /\ props' = raw'
    /\ pc' = "saving"
    /\ UNCHANGED <<dbVars, rowVars, db, files, record, layout, lastEdit, repeats, edits, waitVars, batchVars, draftVars, stopVars>>

\* The published record becomes the instance's state, the edits it carries are
\* dropped and the ones made since are applied to the instance again.
adoptRecord ==
    /\ pc = "adopting"
    /\ raw' = PropsOf(draft)
    /\ DropPublishedEdits
    /\ props' = IF pending' = <<>> THEN raw' ELSE [raw' EXCEPT !.config = pending'[Len(pending')]]
    /\ pc' = "saving"
    /\ UNCHANGED <<dbVars, rowVars, db, files, record, layout, lastEdit, repeats, edits, waitVars, batchVars, draftVars, stopVars>>

\* updateDbInternalState(toJSONInternalAfterFirstUpdate()): raw, not the
\* instance's own properties; the pending edits it stores are never read back.
Saved == [db EXCEPT !.props = raw, !.layout = layout]

saveState ==
    /\ pc = "saving"
    /\ db' = Saved
    /\ CycleDone
    /\ UNCHANGED <<dbVars, rowVars, files, record, editVars, trigger, stopVars>>

\* Any other call of the cycle throws.  From the build on, the catch of
\* updateCommunityIpnsIfNeeded arms the trigger again.
syncIpnsWithDbFails ==
    /\ \/ pc \in {"syncing", "slicing", "signing", "deciding"} /\ CycleFails(trigger)
       \/ pc \in {"building", "adopting", "saving"} /\ CycleFails(TRUE)
    /\ UNCHANGED <<dbVars, rowVars, db, files, record, editVars, stopVars>>

----------------------------------------
(* Stop, crash and start. *)

stop ==
    /\ Up /\ ~stopCalled /\ stops < MaxStops
    /\ stopCalled' = TRUE /\ stops' = stops + 1
    /\ UNCHANGED <<dbVars, rowVars, db, files, record, editVars, waitVars, batchVars, draftVars, pc>>

\* stop() after the loop has ended: the state is saved, a failure is logged.
finishStop ==
    /\ pc = "stopping"
    /\ db' = Saved \/ ("save" \in Faults /\ db' = db)
    /\ pc' = "stopped"
    /\ UNCHANGED <<dbVars, rowVars, files, record, editVars, waitVars, batchVars, draftVars, stopVars>>

\* The process dies; nothing in memory survives.
crash ==
    /\ "crash" \in Faults /\ Up /\ stops < MaxStops
    /\ stops' = stops + 1
    /\ pc' = "down"
    /\ DropLocals
    /\ UNCHANGED <<dbVars, rowVars, db, files, record, editVars, waitVars, stopCalled>>

\* start(), in a new process or on the instance that was stopped, which still
\* holds its pending edits.
start ==
    /\ ~Up
    /\ \/ pending' = <<>> /\ lastEdit' = db.props.config
       \/ pc = "stopped" /\ UNCHANGED <<pending, lastEdit>>
    /\ props' = db.props /\ raw' = db.props /\ layout' = db.layout
    /\ marked' = IF db.fingerprint # db.layout THEN {} ELSE marked
    /\ db' = [db EXCEPT !.fingerprint = db.layout]
    /\ trigger' = TRUE /\ requested' = FALSE
    /\ stopCalled' = FALSE /\ failed' = FALSE /\ failedSinceStop' = FALSE
    /\ pc' = "syncing"
    /\ UNCHANGED <<dbVars, rows, newer, rowLayout, files, record, repeats, edits, batchVars, draftVars, stops>>

Next ==
    \/ \E p \in Post : storeComment(p)
    \/ \E v \in Vote : storeVote(v)
    \/ \E c \in Config : editPropsOnStartedCommunity(c) \/ editPropsOnNotStartedCommunity(c)
    \/ NextSecond
    \/ waitUntilNextSync
    \/ flagComments
    \/ readSlice
    \/ upsertCommentUpdates
    \/ writePostUpdatesToMfs
    \/ writePostUpdatesFails
    \/ noRecordNeeded
    \/ consumeTrigger
    \/ calculateNextCommunityRecord
    \/ namePublish
    \/ namePublishFails
    \/ adoptRecord
    \/ saveState
    \/ syncIpnsWithDbFails
    \/ stop
    \/ finishStop
    \/ crash
    \/ start

Spec == Init /\ [][Next]_vars

\* The steps of the publish loop, whether its calls succeed or fail.
LoopStep ==
    \/ waitUntilNextSync \/ flagComments \/ readSlice \/ upsertCommentUpdates
    \/ writePostUpdatesToMfs \/ writePostUpdatesFails
    \/ noRecordNeeded \/ consumeTrigger \/ calculateNextCommunityRecord
    \/ namePublish \/ namePublishFails \/ adoptRecord \/ saveState \/ syncIpnsWithDbFails

\* The event loop runs every continuation and the interval timer fires; calls
\* may fail every time.
LoopSpec == Spec /\ WF_vars(LoopStep) /\ WF_vars(finishStop)

\* As well, a stopped community is started again, no call fails every time it
\* is made, and the stats do not fail in just those cycles that publish.
FairSpec ==
    /\ LoopSpec /\ WF_vars(start)
    /\ SF_vars(flagComments) /\ SF_vars(readSlice) /\ SF_vars(upsertCommentUpdates)
    /\ SF_vars(writePostUpdatesToMfs) /\ SF_vars(consumeTrigger)
    /\ SF_vars(calculateNextCommunityRecord /\ draft'.missed = {})
    /\ SF_vars(namePublish /\ draft.missed = {})
    /\ SF_vars(adoptRecord) /\ SF_vars(saveState)

----------------------------------------
(* Safety. *)

\* Issue #209: a stored vote is counted by its post's row, or its insertedAt
\* still makes the flag query return the post.  A vote that lands between the
\* query and the upsert must not compare as older than the row for ever.
UncountedIsFlagged ==
    \A v \in cast : v \in rows.votes \/ v \in newer \/ Target[v] \notin rows.posts

\* A row marked publishedToPostUpdatesMFS has its content in MFS, whatever
\* failed or crashed between the upsert, the writes and the marking.
MarkedIsInMfs ==
    \A p \in marked : /\ p \in files.posts
                      /\ files.votes \cap VotesOn({p}) = rows.votes \cap VotesOn({p})

Items(content) == content.posts \cup content.votes
ItemsIn(b) == PostsIn({b}) \cup VotesOn(PostsIn({b}))

\* A loop that waits with the trigger off owes its readers nothing the flag
\* query would not find: every stored post and vote is in the published record,
\* its post is flagged, or it is in a bucket whose stat failed as that record
\* was built.  A write must not be marked done and then dropped by a failed
\* publish, a crash, or the consumed trigger.
QuietMeansShown ==
    pc = "waiting" /\ ~trigger =>
        /\ posts \subseteq Shows(record).posts \cup Flagged \cup PostsIn(record.missed)
        /\ \A v \in cast : v \in Shows(record).votes \/ Target[v] \in Flagged \cup PostsIn(record.missed)

\* The record shows only what was stored, and takes back nothing it has shown
\* (BoardFeed), through failed cycles, crashes and restarts, except whole
\* buckets whose stat failed: the next record that finds them shows them again.
Feed == INSTANCE BoardFeed WITH
            Item <- Post \cup Vote, Parts <- {ItemsIn(b) : b \in Buckets},
            stored <- posts \cup cast, listed <- Items(record.lists),
            shown <- Items(Shows(record))

RefinesBoardFeed == Feed!Spec

\* Until it is stopped the instance shows the owner's last edit at all times,
\* also when the record published meanwhile was built before it
\* (ipns-publishing.ts, re-apply).  An edit that repeats one of the record being
\* published is dropped with it: its id is the same.  An edit left pending by a
\* stop is published over a later edit of the stopped community: see the README.
InstanceShowsLastEdit == Up /\ stops = 0 /\ ~repeats => props.config = lastEdit

\* A loop that waits with nothing pending has published the last edit.
EditPublished == pc = "waiting" /\ pending = <<>> /\ stops = 0 /\ ~repeats => record.config = lastEdit

\* After stop() the loop runs on until the pending edits are published: a loop
\* that ends with no failed cycle since leaves the last edit in the record.
StopDrainsEdits ==
    [][pc = "waiting" /\ pc' = "stopping" /\ ~failedSinceStop /\ ~repeats => record.config = lastEdit]_vars

\* "If edit() was called during the long IPNS publish await, those edits are
\* still in _pendingEditProps" (ipns-publishing.ts, re-apply), also when the
\* edit goes back to a configuration of the record being published.
RepeatedEditIsKept == pc = "waiting" /\ pending = <<>> /\ stops = 0 => record.config = lastEdit

\* A post or a vote that arrives during the wait ends it at the next tick: after
\* a failure "the loop wakes only for a new request for a record (an edit, a new
\* publication)" (lifecycle.ts, waitUntilNextSync).
PublicationEndsWait ==
    [][pc = "waiting" /\ pc' = "waiting" /\ (posts' # posts \/ cast' # cast) => WokenByTrigger(FALSE)']_vars

\* A write that lands while a cycle is in flight and is not in its record "sets
\* the trigger again and that must survive into the next cycle"
\* (ipns-publishing.ts, updateCommunityIpnsIfNeeded).
InFlightWriteKeepsTrigger ==
    pc = "waiting" /\ ~failed /\ ~(cast \subseteq record.lists.votes) => WokenByTrigger(FALSE)

\* "Any change to settings.pages, however small, regenerates every
\* CommentUpdate" (editing.ts, applyPagesEdit): a row generated with other
\* settings is flagged whenever the loop waits.
LayoutReachesEveryRow ==
    pc = "waiting" => \A p \in rows.posts : rowLayout[p] = layout \/ p \in Flagged

\* An edit that stop() could not publish "is in the DB and ships on the next
\* start" (lifecycle.ts, publishLoop).
EditShipsOnNextStart == pc = "stopped" => db.props.config = lastEdit

----------------------------------------
(* Liveness. *)

\* Every stored vote and post reaches the published record.
EveryWriteIsPublished ==
    /\ \A v \in Vote : (v \in cast) ~> (v \in Shows(record).votes)
    /\ \A p \in Post : (p \in posts) ~> (p \in Shows(record).posts)

\* stop() ends, also when every cycle after it fails with an edit pending.
StopEnds == stopCalled ~> ~Up

\* No post or vote is lost between the database, MFS and the record, at
\* whichever await of a cycle it was stored and whatever failed: it is in the
\* record, or the next flag query finds it, and no mark says otherwise.
NoWriteLost ==
    UncountedIsFlagged /\ MarkedIsInMfs /\ QuietMeansShown

\* The owner's last edit is what the running instance shows and what a loop at
\* rest has published, although the record published meanwhile was built before
\* it; except for an edit that repeats one of that record.
EditsAreKept ==
    EditTypeOK /\ InstanceShowsLastEdit /\ EditPublished

\* stop() ends, and ends late enough: with the pending edits published, unless
\* a cycle failed after the call.
StopIsClean ==
    StopEnds /\ StopDrainsEdits
========================================
