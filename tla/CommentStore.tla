-------------------- MODULE CommentStore --------------------
(***************************************************************************)
(* What storePublication does to the community's tables once a publication *)
(* has passed its checks: comments with their numbers, the approval queue, *)
(* pseudonymous aliases, votes, author edits, moderations and purges.      *)
(*                                                                         *)
(* A handler is suspended at every await, so the handlers of different     *)
(* publications interleave; a block of code without an await, and so every *)
(* database transaction, is one step.  The cid of a comment stands for its *)
(* publication: a publication that is sent again after a purge gets the    *)
(* same cid when its siblings have not changed, the case modelled here.    *)
(***************************************************************************)
EXTENDS Naturals, Sequences, FiniteSets

CONSTANTS
    Comment,       \* comment publications
    Parent,        \* Parent[c]: the comment c replies to, Nil for a post
    Act,           \* votes, author edits and moderations
    KindOf,        \* KindOf[a], one of Kinds below
    Target,        \* Target[a]: the comment a is about
    Author,        \* authors of the publications
    By,            \* By[p]: the author of publication p
    HeldBack,      \* comments whose challenges ask for a moderator's approval
    ModAuthor,     \* authors with a role, who are never given an alias
    Mode,          \* features.pseudonymityMode
    MaxPending,    \* settings.maxPendingApprovalCount
    Again,         \* comments whose author publishes them a second time
    Workload,      \* sets of publications that arrive together, one is chosen
    StoreFaults,   \* "resolve", "ipfs", "restart"
    Nil

Kinds == {"vote", "delete", "approve", "reject", "disapprove", "purge", "ban"}

(* A reply names the cid of its parent, so no chain of parents comes back. *)
(* A post under an alias of its own gets another cid when it is published a *)
(* second time: it is another comment. *)
ASSUME StoreAssumption ==
    /\ Parent \in [Comment -> Comment \cup {Nil}]
    /\ KindOf \in [Act -> Kinds] /\ Target \in [Act -> Comment]
    /\ By \in [Comment \cup Act -> Author]
    /\ Mode \in {"off", "per-post", "per-reply", "per-author"}
    /\ HeldBack \subseteq Comment /\ Again \subseteq Comment /\ ModAuthor \subseteq Author
    /\ Workload \subseteq SUBSET (Comment \cup Act)
    /\ MaxPending \in Nat \ {0}
    /\ Nil \notin Comment \cup Author \cup (Author \X {Nil}) \cup (Author \X Comment)
    /\ Comment \cap Act = {}
    /\ \A S \in SUBSET Comment : S # {} => \E c \in S : Parent[c] \notin S
    /\ \A c \in Again : Parent[c] = Nil /\ Mode = "per-post" => By[c] \in ModAuthor

VARIABLES
    db,        \* the tables, see StoreInit
    ipfs,      \* [pinned, unpin]: blocks the node pins, cids queued for unpinning
    handler,   \* handler[p]: where the handler of p is suspended and what it holds
    aliasLock, \* aliasLock[k]: the handlers chained on alias key k, the holder first
    shown      \* shown[c]: the comments counted by c's last CommentUpdate

storeVars == <<db, ipfs, handler, aliasLock, shown>>

Pub == Comment \cup Act
Absent == [stored |-> FALSE, pending |-> FALSE, number |-> 0, post |-> 0, rowid |-> 0, signer |-> Nil]

Ancestors[c \in Comment] ==
    IF Parent[c] = Nil THEN {} ELSE {Parent[c]} \cup Ancestors[Parent[c]]

PostOf(c) == IF Parent[c] = Nil THEN c ELSE CHOOSE a \in Ancestors[c] : Parent[a] = Nil

MaxOf(S) == CHOOSE n \in S \cup {0} : \A m \in S : m <= n

StoredIn(d) == {c \in Comment : d.rows[c].stored}

(* queryIsCommentApproved: the newest moderation that mentions approval. *)
Verdicts(d, c) == {i \in 1..Len(d.mods) : d.mods[i].target = c /\ d.mods[i].kind \in {"approve", "reject", "disapprove"}}

ApprovedByMod(d, c) == \E i \in Verdicts(d, c) : d.mods[i].kind = "approve" /\ \A j \in Verdicts(d, c) : j <= i

DisapprovedByMod(d, c) == Verdicts(d, c) # {} /\ ~ApprovedByMod(d, c)

(* queryAuthorModEdits: a ban is found by the signer address it was stored *)
(* for, whether or not the comment it was given for still exists. *)
Banned(d, a) == \E i \in 1..Len(d.mods) : d.mods[i].kind = "ban" /\ d.mods[i].author = a

(* getNextCommentNumbers: one above the highest number of a row that is not *)
(* waiting for approval; posts have a second count of their own. *)
Numbered(d) == {c \in StoredIn(d) : ~d.rows[c].pending /\ d.rows[c].number > 0}

getNextCommentNumbers(d, c) ==
    [number |-> 1 + MaxOf({d.rows[x].number : x \in Numbered(d)}),
     post   |-> IF Parent[c] # Nil THEN 0
                ELSE 1 + MaxOf({d.rows[x].post : x \in {y \in Numbered(d) : Parent[y] = Nil}})]

(* purgeComment: the comment and its whole tree leave every table but the *)
(* moderations; the CommentUpdates of the ancestors, of everything the *)
(* purged signers wrote, voted on or edited, and of one more comment, are *)
(* published again. *)
Subtree(d, c) == {x \in StoredIn(d) : x = c \/ c \in Ancestors[x]}

ForcedByPurge_Parent(d, gone) == {Parent[x] : x \in gone}

ForcedByPurge(d, gone) ==
    LET signers == {d.rows[x].signer : x \in gone} IN
        UNION {Ancestors[x] : x \in gone}
          \cup {x \in StoredIn(d) : d.rows[x].signer \in signers}
          \cup {Target[a] : a \in {b \in d.votes : By[b] \in signers}}
          \cup {Target[a] : a \in {b \in d.edits : d.rows[Target[b]].signer \in signers}}

purgeComment(d, c, random) ==
    LET gone == Subtree(d, c) IN
        [d EXCEPT !.rows = [x \in Comment |-> IF x \in gone THEN Absent ELSE @[x]],
                  !.alias = [x \in Comment |-> IF x \in gone THEN Nil ELSE @[x]],
                  !.votes = {a \in @ : Target[a] \notin gone},
                  !.edits = {a \in @ : Target[a] \notin gone},
                  !.marked = @ \ (gone \cup ForcedByPurge(d, gone) \cup {random}),
                  !.inCycle = @ \ gone,
                  !.purged = @ \cup gone]

(* The random comment is drawn from the rows the purge leaves. *)
Spared(d, c) == IF StoredIn(d) \ Subtree(d, c) = {} THEN {Nil} ELSE StoredIn(d) \ Subtree(d, c)

(* removeOldestPendingCommentIfWeHitMaxPendingCount *)
PendingIn(d) == {c \in StoredIn(d) : d.rows[c].pending}

OldestPending(d) == CHOOSE c \in PendingIn(d) : \A x \in PendingIn(d) : d.rows[c].rowid <= d.rows[x].rowid

evictOldestPending(d, random) ==
    IF Cardinality(PendingIn(d)) <= MaxPending THEN d ELSE purgeComment(d, OldestPending(d), random)

(* approvePendingComment: a row that already has a number keeps it. *)
approvedRow(d, c) ==
    LET r == [d.rows[c] EXCEPT !.pending = FALSE]
        n == getNextCommentNumbers(d, c) IN
        IF r.number > 0 THEN r ELSE [r EXCEPT !.number = n.number, !.post = n.post]

insertModeration(d, a, author) ==
    [d EXCEPT !.mods = Append(@, [target |-> Target[a], kind |-> KindOf[a], author |-> author])]

----------------------------------------
(* Pseudonymous authors.  The key two comments of an author share, and the *)
(* lock under which a store looks the alias up and inserts it. *)
pseudonymityAliasLockKey(c) ==
    CASE Mode = "per-author" -> <<By[c], Nil>>
      [] Mode = "per-post" /\ Parent[c] # Nil -> <<By[c], PostOf(c)>>
      [] OTHER -> Nil

SharedAliases(d, c) ==
    {x \in StoredIn(d) : /\ d.alias[x] # Nil /\ By[x] = By[c]
                         /\ \/ Mode = "per-author"
                            \/ Mode = "per-post" /\ Parent[c] # Nil /\ PostOf(x) = PostOf(c)}

(* resolveAliasPrivateKeyForCommentPublication: the oldest alias row of the *)
(* author (of the author in this thread), a fresh key otherwise. *)
aliasFor(d, c) ==
    LET S == SharedAliases(d, c) IN
        IF Mode = "off" \/ By[c] \in ModAuthor THEN Nil
        ELSE IF S = {} THEN <<"alias", c>>
        ELSE d.alias[CHOOSE x \in S : \A y \in S : d.rows[x].rowid <= d.rows[y].rowid]

LockKeys == (Author \X {Nil}) \cup (Author \X Comment)

HoldsAliasLock(c) ==
    LET k == pseudonymityAliasLockKey(c) IN k # Nil => Head(aliasLock[k]) = c

JoinAliasLock(c) ==
    LET k == pseudonymityAliasLockKey(c) IN
        aliasLock' = IF k = Nil THEN aliasLock ELSE [aliasLock EXCEPT ![k] = Append(@, c)]

ReleaseAliasLock(c) ==
    LET k == pseudonymityAliasLockKey(c) IN
        aliasLock' = IF k = Nil THEN aliasLock ELSE [aliasLock EXCEPT ![k] = Tail(@)]

----------------------------------------
IdleHandler == [at |-> "idle", key |-> Nil, pending |-> FALSE, author |-> Nil]
At(p, stage) == handler[p].at = stage
Goto(p, stage) == handler' = [handler EXCEPT ![p].at = stage]

StoreInit ==
    /\ db = [rows   |-> [c \in Comment |-> Absent],
             mods   |-> << >>,
             votes  |-> {}, edits |-> {},
             alias  |-> [c \in Comment |-> Nil],
             marked |-> {},                       \* publishedToPostUpdatesMFS = 1
             inCycle |-> {},                      \* calculated, not yet marked
             purged |-> {}]                       \* history: cids ever purged
    /\ ipfs = [pinned |-> {}, unpin |-> {}]
    /\ \E arriving \in Workload :
         handler = [p \in Pub |-> IF p \in arriving THEN IdleHandler ELSE [IdleHandler EXCEPT !.at = "never"]]
    /\ aliasLock = [k \in LockKeys |-> << >>]
    /\ shown = [c \in Comment |-> {}]

Fails(p) == /\ Goto(p, "failed") /\ UNCHANGED <<db, ipfs, shown>>
            /\ IF p \in Comment THEN ReleaseAliasLock(p) ELSE UNCHANGED aliasLock

(* checkPublicationValidity, the part that reads these tables.  A publisher *)
(* knows the cid of a comment once the handler that stored it has answered. *)
Known(c) == c # Nil => At(c, "done")

OpenToReplies(c) == c # Nil => /\ db.rows[c].stored /\ ~db.rows[c].pending
                                /\ ~DisapprovedByMod(db, c)

checkComment(c) ==
    /\ \/ At(c, "idle")
       \/ At(c, "done") /\ c \in Again /\ ~db.rows[c].stored
    /\ Known(Parent[c]) /\ OpenToReplies(Parent[c])
    /\ ~db.rows[c].stored
    /\ ~Banned(db, By[c])
    /\ handler' = [handler EXCEPT ![c] = [IdleHandler EXCEPT !.at = "lock"]]
    /\ JoinAliasLock(c)
    /\ UNCHANGED <<db, ipfs, shown>>

checkAct(a) ==
    /\ At(a, "idle") /\ Known(Target[a])
    /\ db.rows[Target[a]].stored
    /\ KindOf[a] = "vote" => OpenToReplies(Target[a])
    /\ KindOf[a] \in {"approve", "reject", "disapprove"} => db.rows[Target[a]].pending
    /\ KindOf[a] \in {"vote", "delete"} => ~Banned(db, By[a])
    /\ KindOf[a] = "delete" => By[a] = By[Target[a]]
    /\ Goto(a, "checked")
    /\ UNCHANGED <<db, ipfs, aliasLock, shown>>

(* storePublication for a comment: prepareCommentWithAnonymity under the *)
(* alias lock, which fails when a role cannot be matched ... *)
prepareCommentWithAnonymity(c) ==
    /\ At(c, "lock") /\ HoldsAliasLock(c)
    /\ handler' = [handler EXCEPT ![c].at = "prepared", ![c].key = aliasFor(db, c)]
    /\ UNCHANGED <<db, ipfs, aliasLock, shown>>

prepareFails(c) ==
    /\ "resolve" \in StoreFaults
    /\ At(c, "lock") /\ HoldsAliasLock(c) /\ Mode # "off"
    /\ Fails(c)

(* ... calculateReplyProps needs the parent, and the record is added and *)
(* pinned unless it waits for approval ... *)
addCommentToIpfs(c) ==
    /\ At(c, "prepared")
    /\ Parent[c] # Nil => db.rows[Parent[c]].stored
    /\ Goto(c, "added")
    /\ ipfs' = IF c \in HeldBack THEN ipfs ELSE [ipfs EXCEPT !.pinned = @ \cup {c}]
    /\ UNCHANGED <<db, aliasLock, shown>>

addCommentFails(c) ==
    /\ At(c, "prepared")
    /\ \/ Parent[c] # Nil /\ ~db.rows[Parent[c]].stored
       \/ "ipfs" \in StoreFaults
    /\ Fails(c)

(* ... assertStoredCommentIsVerbatim queues what it refuses ... *)
notVerbatim(c) ==
    /\ "ipfs" \in StoreFaults /\ At(c, "added")
    /\ Goto(c, "failed") /\ ReleaseAliasLock(c)
    /\ ipfs' = [ipfs EXCEPT !.unpin = @ \cup {c}]
    /\ UNCHANGED <<db, shown>>

(* ... and the transaction numbers the row, inserts it and evicts the oldest *)
(* pending one.  The parent may be gone by now: SQLite refuses the row. *)
NewRow(d, c) ==
    LET n == IF c \in HeldBack THEN [number |-> 0, post |-> 0] ELSE getNextCommentNumbers(d, c) IN
        [stored |-> TRUE, pending |-> c \in HeldBack, number |-> n.number, post |-> n.post,
         rowid |-> 1 + MaxOf({d.rows[x].rowid : x \in Comment}),
         signer |-> IF handler[c].key = Nil THEN By[c] ELSE handler[c].key]

insertComment(c) ==
    /\ At(c, "added")
    /\ Parent[c] # Nil => db.rows[Parent[c]].stored
    /\ LET d == [db EXCEPT !.rows[c] = NewRow(db, c)] IN
         \E random \in StoredIn(d) : db' = evictOldestPending(d, random)
    /\ Goto(c, "inserted")
    /\ UNCHANGED <<ipfs, aliasLock, shown>>

insertCommentFails(c) ==
    /\ At(c, "added") /\ Parent[c] # Nil /\ ~db.rows[Parent[c]].stored
    /\ Fails(c)

(* insertPseudonymityAliases; an evicted comment makes it fail. *)
insertAlias(c) ==
    /\ At(c, "inserted")
    /\ handler[c].key # Nil => db.rows[c].stored
    /\ db' = [db EXCEPT !.alias[c] = handler[c].key]
    /\ Goto(c, "done") /\ ReleaseAliasLock(c)
    /\ UNCHANGED <<ipfs, shown>>

insertAliasFails(c) ==
    /\ At(c, "inserted") /\ handler[c].key # Nil /\ ~db.rows[c].stored
    /\ Fails(c)

----------------------------------------
(* storeVote: after its only await the vote replaces the author's last one. *)
storeVote(a) ==
    /\ KindOf[a] = "vote" /\ At(a, "checked")
    /\ LET kept == {b \in db.votes : ~(By[b] = By[a] /\ Target[b] = Target[a])} IN
         IF db.rows[Target[a]].stored
         THEN db' = [db EXCEPT !.votes = kept \cup {a}] /\ Goto(a, "done")
         ELSE db' = [db EXCEPT !.votes = kept] /\ Goto(a, "failed")
    /\ UNCHANGED <<ipfs, aliasLock, shown>>

(* storeCommentEdit of an author who deletes the comment: whether it waits *)
(* for approval is read before the awaits, the moderator's verdict after. *)
storeCommentEdit(a) ==
    /\ KindOf[a] = "delete" /\ At(a, "checked")
    /\ IF db.rows[Target[a]].stored
       THEN handler' = [handler EXCEPT ![a] = [@ EXCEPT !.at = "awaiting", !.pending = db.rows[Target[a]].pending]]
       ELSE Goto(a, "failed")
    /\ UNCHANGED <<db, ipfs, aliasLock, shown>>

insertCommentEdit(a) ==
    /\ KindOf[a] = "delete" /\ At(a, "awaiting")
    /\ IF ~db.rows[Target[a]].stored THEN Goto(a, "failed") /\ UNCHANGED db
       ELSE /\ Goto(a, "done")
            /\ LET d == [db EXCEPT !.edits = @ \cup {a}] IN
                 IF handler[a].pending \/ DisapprovedByMod(db, Target[a])
                 THEN \E random \in Spared(d, Target[a]) : db' = purgeComment(d, Target[a], random)
                 ELSE db' = d
    /\ UNCHANGED <<ipfs, aliasLock, shown>>

(* storeCommentModeration reads the comment and awaits; the author a ban is *)
(* for is looked up after that, through the alias row if there is one. *)
storeCommentModeration(a) ==
    /\ KindOf[a] \in {"approve", "reject", "disapprove", "purge", "ban"} /\ At(a, "checked")
    /\ LET row == db.rows[Target[a]] IN
         IF row.stored
         THEN handler' = [handler EXCEPT ![a] = [@ EXCEPT !.at = "awaiting", !.author = row.signer]]
         ELSE Goto(a, "failed")
    /\ UNCHANGED <<db, ipfs, aliasLock, shown>>

banAuthor(a) ==
    /\ KindOf[a] = "ban" /\ At(a, "awaiting")
    /\ db' = insertModeration(db, a, IF db.alias[Target[a]] # Nil THEN By[Target[a]] ELSE handler[a].author)
    /\ Goto(a, "done")
    /\ UNCHANGED <<ipfs, aliasLock, shown>>

(* A purge commits with its moderation row and queues the cids it removed. *)
purgeByMod(a) ==
    /\ KindOf[a] = "purge" /\ At(a, "awaiting")
    /\ IF ~db.rows[Target[a]].stored THEN Goto(a, "failed") /\ UNCHANGED <<db, ipfs>>
       ELSE /\ \E random \in Spared(db, Target[a]) :
                 db' = insertModeration(purgeComment(db, Target[a], random), a, Nil)
            /\ ipfs' = [ipfs EXCEPT !.unpin = @ \cup Subtree(db, Target[a])]
            /\ Goto(a, "done")
    /\ UNCHANGED <<aliasLock, shown>>

(* Rejecting a pending comment purges it without queueing anything; with *)
(* another property in the moderation the row stays, no longer pending.  The *)
(* purge of a comment that is gone fails. *)
rejectPending(a) ==
    /\ KindOf[a] = "reject" /\ At(a, "awaiting")
    /\ IF ~db.rows[Target[a]].stored THEN Goto(a, "failed") /\ UNCHANGED db
       ELSE /\ \E random \in Spared(db, Target[a]) :
                 db' = insertModeration(purgeComment(db, Target[a], random), a, Nil)
            /\ Goto(a, "done")
    /\ UNCHANGED <<ipfs, aliasLock, shown>>

disapprovePending(a) ==
    /\ KindOf[a] = "disapprove" /\ At(a, "awaiting")
    /\ LET c == Target[a] IN
         db' = insertModeration([db EXCEPT !.rows[c].pending = FALSE], a, Nil)
    /\ Goto(a, "done")
    /\ UNCHANGED <<ipfs, aliasLock, shown>>

(* The approval as it would be without the await: the row is numbered first. *)
addApprovedToIpfs_After(a) ==
    LET c == Target[a] IN
    /\ KindOf[a] = "approve" /\ At(a, "awaiting")
    /\ db' = IF db.rows[c].stored THEN [db EXCEPT !.rows[c] = approvedRow(db, c)] ELSE db
    /\ Goto(a, "added")
    /\ UNCHANGED <<ipfs, aliasLock, shown>>

(* Approving adds the record the handler read to IPFS, an await, and only *)
(* then clears the flag and numbers the row, which must still be there. *)
addApprovedToIpfs(a) ==
    /\ KindOf[a] = "approve" /\ At(a, "awaiting")
    /\ ipfs' = [ipfs EXCEPT !.pinned = @ \cup {Target[a]}]
    /\ Goto(a, "added")
    /\ UNCHANGED <<db, aliasLock, shown>>

addApprovedFails(a) ==
    /\ "ipfs" \in StoreFaults
    /\ KindOf[a] = "approve" /\ At(a, "awaiting")
    /\ Fails(a)

approvePendingComment(a) ==
    LET c == Target[a] IN
    /\ KindOf[a] = "approve" /\ At(a, "added")
    /\ IF db.rows[c].stored
       THEN db' = insertModeration([db EXCEPT !.rows[c] = approvedRow(db, c)], a, Nil) /\ Goto(a, "done")
       ELSE UNCHANGED db /\ Goto(a, "failed")
    /\ UNCHANGED <<ipfs, aliasLock, shown>>

----------------------------------------
(* The publish cycle calculates a CommentUpdate from what is stored and, once *)
(* its file is written, marks it published; unpinStaleCids, past its grace *)
(* period or flushed by a purge. *)
Counted(d, c) ==
    {x \in StoredIn(d) : ~d.rows[x].pending /\ (c \in Ancestors[x] \/ d.rows[x].signer = d.rows[c].signer)}

calculateUpdate(c) ==
    /\ db.rows[c].stored /\ ~db.rows[c].pending /\ c \notin db.marked \cup db.inCycle
    /\ db' = [db EXCEPT !.inCycle = @ \cup {c}]
    /\ shown' = [shown EXCEPT ![c] = Counted(db, c)]
    /\ UNCHANGED <<ipfs, handler, aliasLock>>

markCommentsAsPublished ==
    /\ db.inCycle # {}
    /\ db' = [db EXCEPT !.marked = @ \cup db.inCycle, !.inCycle = {}]
    /\ UNCHANGED <<ipfs, handler, aliasLock, shown>>

unpinStaleCids ==
    /\ ipfs.unpin # {}
    /\ ipfs' = [pinned |-> ipfs.pinned \ ipfs.unpin, unpin |-> {}]
    /\ UNCHANGED <<db, handler, aliasLock, shown>>

(* The process is restarted: every handler is lost, the tables, the pins and *)
(* the unpin queue, which the internal state stores, are kept. *)
restart ==
    /\ "restart" \in StoreFaults
    /\ \E p \in Pub : handler[p].at \notin {"never", "idle", "done", "failed"}
    /\ handler' = [p \in Pub |-> IF handler[p].at \in {"never", "idle", "done"} THEN handler[p] ELSE [IdleHandler EXCEPT !.at = "failed"]]
    /\ aliasLock' = [k \in LockKeys |-> << >>]
    /\ UNCHANGED <<db, ipfs, shown>>

StoreNext ==
    \/ \E c \in Comment :
         \/ checkComment(c) \/ prepareCommentWithAnonymity(c) \/ prepareFails(c)
         \/ addCommentToIpfs(c) \/ addCommentFails(c) \/ notVerbatim(c)
         \/ insertComment(c) \/ insertCommentFails(c)
         \/ insertAlias(c) \/ insertAliasFails(c)
         \/ calculateUpdate(c)
    \/ \E a \in Act :
         \/ checkAct(a) \/ storeVote(a)
         \/ storeCommentEdit(a) \/ insertCommentEdit(a)
         \/ storeCommentModeration(a) \/ banAuthor(a) \/ purgeByMod(a)
         \/ rejectPending(a) \/ disapprovePending(a)
         \/ addApprovedToIpfs(a) \/ addApprovedFails(a) \/ approvePendingComment(a)
    \/ markCommentsAsPublished
    \/ unpinStaleCids
    \/ restart

StoreSpec == StoreInit /\ [][StoreNext]_storeVars

----------------------------------------
StoreTypeOK ==
    /\ DOMAIN db.rows = Comment /\ DOMAIN db.alias = Comment
    /\ \A c \in Comment : db.rows[c].pending \in BOOLEAN /\ db.rows[c].number \in Nat
    /\ db.votes \subseteq Act /\ db.edits \subseteq Act /\ db.marked \subseteq Comment
    /\ ipfs.pinned \subseteq Comment /\ ipfs.unpin \subseteq Comment
    /\ \A k \in LockKeys : aliasLock[k] \in Seq(Comment)
    /\ shown \in [Comment -> SUBSET Comment]

(* No two stored comments have the same number, nor two posts the same post *)
(* number, although numbers are handed out by two paths (storeComment and *)
(* approvePendingComment) and purges take numbered rows away in between. *)
NumbersUnique ==
    \A c, x \in StoredIn(db) :
        c # x => /\ db.rows[c].number > 0 => db.rows[c].number # db.rows[x].number
                 /\ db.rows[c].post > 0 => db.rows[c].post # db.rows[x].post

(* When the newest verdict on a stored comment approves it, the row is out *)
(* of the queue and numbered, whatever two moderators' handlers did while *)
(* the approval waited for IPFS.  (A purge leaves the moderations, so a *)
(* comment that is published again after it waits for approval under the *)
(* approval it once had; the property leaves those out.) *)
VerdictMatchesRow ==
    \A c \in StoredIn(db) \ db.purged : ApprovedByMod(db, c) => ~db.rows[c].pending /\ db.rows[c].number > 0

(* The same for every comment. *)
VerdictAlwaysMatchesRow ==
    \A c \in StoredIn(db) : ApprovedByMod(db, c) => ~db.rows[c].pending /\ db.rows[c].number > 0

(* A numbered comment that was never purged is pinned: it can be served by *)
(* its cid.  (One that is published again after a purge may be taken down by *)
(* the unpinning its purge queued, so the property leaves those out.) *)
NumberedIsPinned ==
    \A c \in StoredIn(db) : db.rows[c].number > 0 /\ c \notin db.purged => c \in ipfs.pinned

(* The approval queue never holds more than maxPendingApprovalCount rows. *)
PendingBounded == Cardinality(PendingIn(db)) <= MaxPending

(* The aliases stored for one author in one scope are one key: readers see *)
(* one pseudonym, although a lookup and its insert are several awaits apart. *)
AliasShared ==
    \A c \in StoredIn(db) : \A x \in SharedAliases(db, c) :
        db.alias[c] # Nil => db.alias[c] = db.alias[x]

(* A purge leaves no CommentUpdate marked as published that counts what the *)
(* purge removed, as a reply in its tree or among its author's comments: the *)
(* ancestors and the authors of the whole tree are found, not the parent's. *)
PurgeUnmarks ==
    [][\A c \in db'.marked \cap db.marked : shown[c] \cap (StoredIn(db) \ StoredIn(db')) = {}]_storeVars

(* The comments table stays consistent with itself, with the moderation log, *)
(* with the pins and with the aliases, although storing, approving, *)
(* evicting, purging and the restarts between them overlap at every await. *)
StoreIsConsistent ==
    /\ StoreTypeOK /\ NumbersUnique /\ VerdictMatchesRow
    /\ NumberedIsPinned /\ PendingBounded /\ AliasShared
========================================
