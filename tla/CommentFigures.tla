-------------------- MODULE CommentFigures --------------------
(***************************************************************************)
(* What a CommentUpdate says about a comment: its votes, its replies, what *)
(* its moderators and its author decided, and what its author has earned.  *)
(* A cycle flags the comments whose figures may have changed and reads     *)
(* them again, deepest first and slice by slice, while votes, replies,     *)
(* moderations, edits and purges go on being stored between two slices.    *)
(***************************************************************************)
EXTENDS Integers, FiniteSetsExt, Sequences

CONSTANTS
    FgComment,   \* rowids of comments, 1..n
    FgSlice,     \* COMMENT_UPDATE_SLICE_SIZE
    FgSeconds,   \* bound: seconds that pass
    FgAhead,     \* bound: seconds a row is stamped ahead of the clock
    FgWorkload   \* [above, author, original, sent, first, writes, latePurge, maxAge]: the ancestors,
                 \* the author's address, the author behind an alias ("" for none) and the timestamp
                 \* of each comment, those stored at first, the writes to come, whether a purge may
                 \* land in a cycle, and the window of the reply sorts (0 for none)

ASSUME FgAssumption == FgSlice \in Nat \ {0} /\ {FgSeconds, FgAhead} \subseteq Nat /\ FgComment \subseteq Nat \ {0}

VARIABLES
    fgJob, left,            \* writes still to come
    comments, pending,      \* rows of the comments table, those with pendingApproval
    born,                   \* insertedAt of each comment
    votes, mods, edits,     \* the other tables; the last two in rowid order
    updates,                \* rows of commentUpdates
    second, generation,     \* the clock, _publicationWriteGeneration
    batch                   \* the update cycle: see Idle

fgTables == <<comments, pending, born, votes, mods, edits>>
fgVars == <<fgJob, left, fgTables, updates, second, generation, batch>>

Above(c) == fgJob.above[c]
Depth(c) == Cardinality(Above(c))
IsParent(p, c) == p \in Above(c) /\ Depth(p) + 1 = Depth(c)
AuthorOf(c) == fgJob.author[c]
HasUpdate(c) == c \in DOMAIN updates
SubtreeOf(c) == {d \in comments : c = d \/ c \in Above(d)}

----------------------------------------
(* The figures of a comment, each read by a statement of its own. *)
VoteCount(c, v) == Cardinality({x \in votes : x.on = c /\ x.v = v})

Present(d) == ~updates[d].removed /\ ~updates[d].deleted /\ updates[d].approved # "no"

Walked(p) == {d \in comments : p \in Above(d) /\ \A e \in Above(d) \cup {d} : p \in Above(e) => HasUpdate(e)}

ReplyCount(p) == Cardinality({d \in Walked(p) : Present(d)})

ChildCount(p) == Cardinality({d \in Walked(p) : Present(d) /\ IsParent(p, d)})

LastReply(p) == Max({0} \cup {fgJob.sent[d] : d \in {e \in Walked(p) \ pending : Present(e)}})

Counted(p) == {d \in (comments \ pending) \cap DOMAIN updates : IsParent(p, d) /\ Present(d)}

LastChild(p) == Max({0} \cup {d \in (comments \ pending) \cap DOMAIN updates : IsParent(p, d) /\ Present(d)})

(* The latest value a moderator set for a field, "" for none. *)
LatestOf(log, c, field) ==
    LET said == {i \in DOMAIN log : log[i].on = c /\ log[i].sets = field}
    IN IF said = {} THEN "" ELSE log[Max(said)].v

RemovedSaid(c) ==
    LET removed == LatestOf(mods, c, "removed")
    IN removed = "yes" \/ (removed = "" /\ LatestOf(mods, c, "approved") = "no")

(* The whole of the author's latest edit counts: one that says nothing of *)
(* deletion takes an earlier deletion back. *)
DeletedSaid(c) ==
    LET own == {i \in DOMAIN edits : edits[i].on = c}
    IN own # {} /\ edits[Max(own)].sets = "deleted" /\ edits[Max(own)].v = "yes"

(* What an author earned. An alias counts alone; a plain address counts its *)
(* aliases too, and the author behind it where it is itself an alias. *)
Originals(a) == {fgJob.original[d] : d \in {e \in comments : AuthorOf(e) = a}} \ {""}

AliasesOf(a) == {AuthorOf(d) : d \in {e \in comments : fgJob.original[e] = a}}

Karma(c) == {AuthorOf(c)} \cup IF fgJob.original[c] # "" THEN {} ELSE AliasesOf(AuthorOf(c)) \cup Originals(AuthorOf(c))

Targets(c) == IF fgJob.original[c] # "" THEN {AuthorOf(c), fgJob.original[c]} ELSE Karma(c)

Score(own) ==
    Cardinality({x \in votes : x.on \in own /\ x.v = "up"}) - Cardinality({x \in votes : x.on \in own /\ x.v = "down"})

Banned(who) == \E i \in DOMAIN mods : mods[i].sets = "ban" /\ mods[i].v \in who

Earned(karma, who) ==
    LET own == {d \in comments : AuthorOf(d) \in karma}
    IN [post |-> Score({d \in own : Depth(d) = 0}), reply |-> Score({d \in own : Depth(d) > 0}),
        last |-> Max(own), first |-> Min(own), banned |-> Banned(who)]

\* Mutant: the memo is kept for the whole cycle.
Remembered_Always == batch.memo

(* The memo of the cycle starts over after any write to these tables. *)
Remembered == IF batch.memoAt # generation THEN {} ELSE batch.memo

FigureIn(known, c) == (CHOOSE k \in known : k.karma = Karma(c) /\ k.who = Targets(c)).is

Known(S) ==
    LET kept == Remembered
        fresh == {c \in S : ~\E k \in kept : k.karma = Karma(c) /\ k.who = Targets(c)}
    IN kept \cup {[karma |-> Karma(c), who |-> Targets(c), is |-> Earned(Karma(c), Targets(c))] : c \in fresh}

(* The reply pages of a comment: each child inside the window, as its own *)
(* CommentUpdate is by now. *)
Pages(c) ==
    LET shown == {d \in Counted(c) : fgJob.maxAge = 0 \/ fgJob.sent[d] >= second - fgJob.maxAge}
    IN [d \in shown |-> updates[d].updatedAt]

(* No two CommentUpdates of a comment have the same updatedAt. *)
IsAhead(c) == HasUpdate(c) /\ updates[c].updatedAt >= second
NewUpdatedAt(c) == IF IsAhead(c) THEN updates[c].updatedAt + 1 ELSE second

_calculateCommentUpdates(S) ==
    LET known == Known(S)
    IN [c \in S |-> [up |-> VoteCount(c, "up"), down |-> VoteCount(c, "down"),
                     replies |-> ReplyCount(c), children |-> ChildCount(c),
                     lastChild |-> LastChild(c), lastReply |-> LastReply(c),
                     removed |-> RemovedSaid(c), deleted |-> DeletedSaid(c),
                     approved |-> LatestOf(mods, c, "approved"),
                     author |-> FigureIn(known, c), pages |-> Pages(c), updatedAt |-> NewUpdatedAt(c),
                     ahead |-> IsAhead(c), at |-> batch.start, published |-> FALSE]]

----------------------------------------
(* Which comments a cycle reads again. *)
WrittenSince(c, at) ==
    \/ \E x \in votes : x.on = c /\ x.at >= at
    \/ \E i \in DOMAIN mods : mods[i].on = c /\ mods[i].at >= at
    \/ \E i \in DOMAIN edits : edits[i].on = c /\ edits[i].at >= at
    \/ \E d \in comments : IsParent(c, d) /\ born[d] >= at

(* A reply in the stored pages has been recalculated since. *)
ChildIsNewer(c) == \E d \in DOMAIN updates[c].pages : HasUpdate(d) /\ updates[d].updatedAt > updates[c].updatedAt

(* A reply was inside the window when the pages were made, and no more. *)
LeavesWindow(c) ==
    \E d \in comments : /\ fgJob.maxAge # 0 /\ IsParent(c, d)
                        /\ fgJob.sent[d] >= updates[c].updatedAt - fgJob.maxAge /\ fgJob.sent[d] < second - fgJob.maxAge

Stale(c) ==
    \/ ~HasUpdate(c)
    \/ /\ HasUpdate(c)
       /\ \/ ~updates[c].published
          \/ WrittenSince(c, updates[c].at)
          \/ Cardinality(Counted(c)) # updates[c].children
          \/ Max({0} \cup Counted(c)) # updates[c].lastChild
          \/ ChildIsNewer(c) \/ LeavesWindow(c)

SameAuthor(S) == S \cup {c \in comments \ pending : \E d \in S : AuthorOf(d) = AuthorOf(c)}

ParentChain(S) == S \cup {p \in comments \ pending : \E d \in S : p \in Above(d)}

_collectCommentsToBeUpdated == ParentChain(SameAuthor({c \in comments \ pending : Stale(c)}))

----------------------------------------
(* The cycle. quiet: the last cycle found nothing to do and nothing was *)
(* written since, in the same second. settled: it ran to its end, and what *)
(* was written or calculated before came before the second it started in. *)
Idle == [pc |-> "idle", start |-> 0, todo |-> {}, slice |-> <<>>, done |-> {}, memo |-> {}, memoAt |-> 0 - 1,
         quiet |-> FALSE, settled |-> FALSE, undisturbed |-> FALSE]

Stamps == {x.at : x \in votes} \cup {mods[i].at : i \in DOMAIN mods} \cup {edits[i].at : i \in DOMAIN edits} \cup {born[c] : c \in comments}
    \cup {updates[c].updatedAt : c \in DOMAIN updates}

updateCommentsThatNeedToBeUpdated ==
    /\ batch.pc = "idle" /\ ~batch.quiet
    /\ \A c \in DOMAIN updates : updates[c].updatedAt < second + FgAhead
    /\ LET flagged == _collectCommentsToBeUpdated
       IN batch' = IF flagged = {} THEN [Idle EXCEPT !.quiet = TRUE]
                   ELSE [Idle EXCEPT !.pc = "slices", !.start = second, !.todo = flagged, !.undisturbed = \A at \in Stamps : at < second]
    /\ UNCHANGED <<fgJob, left, fgTables, updates, second, generation>>

(* The next slice of the deepest depth; what was purged has no row any more. *)
NextSlice ==
    LET deepest == {c \in batch.todo : \A d \in batch.todo : Depth(d) <= Depth(c)}
    IN {c \in deepest : Cardinality({d \in deepest : d < c}) < FgSlice}

readSlice ==
    /\ batch.pc = "slices" /\ batch.todo # {}
    /\ LET S == NextSlice \cap comments
       IN batch' = IF S = {} THEN [batch EXCEPT !.todo = @ \ NextSlice]
                   ELSE [batch EXCEPT !.pc = "signing", !.todo = @ \ NextSlice, !.slice = _calculateCommentUpdates(S),
                                      !.memo = Known(S), !.memoAt = generation]
    /\ UNCHANGED <<fgJob, left, fgTables, updates, second, generation>>

(* A row whose comment was purged meanwhile breaks its foreign key, and the *)
(* cycle with it. *)
upsertCommentUpdates ==
    /\ batch.pc = "signing"
    /\ IF DOMAIN batch.slice \subseteq comments
       THEN /\ updates' = [c \in DOMAIN updates \cup DOMAIN batch.slice |->
                              IF c \in DOMAIN batch.slice THEN batch.slice[c] ELSE updates[c]]
            /\ batch' = [batch EXCEPT !.pc = "slices", !.done = @ \cup DOMAIN batch.slice, !.slice = <<>>]
       ELSE batch' = Idle /\ UNCHANGED updates
    /\ UNCHANGED <<fgJob, left, fgTables, second, generation>>

(* The record of the cycle is built: all that it wrote counts as published. *)
markCommentsAsPublished ==
    /\ batch.pc = "slices" /\ batch.todo = {}
    /\ updates' = [c \in DOMAIN updates |-> IF c \in batch.done THEN [updates[c] EXCEPT !.published = TRUE] ELSE updates[c]]
    /\ batch' = [Idle EXCEPT !.settled = batch.undisturbed]
    /\ UNCHANGED <<fgJob, left, fgTables, second, generation>>

cycleFails ==
    /\ batch.pc # "idle" /\ batch' = Idle
    /\ UNCHANGED <<fgJob, left, fgTables, updates, second, generation>>

----------------------------------------
(* The writes, each one transaction. *)
Write(w) ==
    /\ w \in left /\ left' = left \ {w} /\ second < FgSeconds
    /\ generation' = generation + 1
    /\ batch' = [batch EXCEPT !.quiet = FALSE, !.settled = FALSE, !.undisturbed = FALSE]
    /\ UNCHANGED <<fgJob, second>>

insertComments(w) ==
    /\ w.op = "comment" /\ Write(w) /\ Above(w.on) \subseteq comments \ pending
    /\ comments' = comments \cup {w.on} /\ born' = [born EXCEPT ![w.on] = second]
    /\ pending' = IF w.v = "pending" THEN pending \cup {w.on} ELSE pending
    /\ UNCHANGED <<votes, mods, edits, updates>>

storeVote(w) ==
    /\ w.op = "vote" /\ Write(w) /\ w.on \in comments \ pending
    /\ votes' = {x \in votes : x.on # w.on \/ x.by # w.by} \cup {[on |-> w.on, by |-> w.by, v |-> w.v, at |-> second]}
    /\ UNCHANGED <<comments, pending, born, mods, edits, updates>>

(* A ban names its author, the one behind the alias where there is one. *)
Said(w) ==
    IF w.by = "ban" THEN IF fgJob.original[w.on] # "" THEN fgJob.original[w.on] ELSE AuthorOf(w.on) ELSE w.v

insertModeration(w) ==
    /\ w.op = "moderate" /\ Write(w) /\ w.on \in comments
    /\ (w.on \in pending) = (w.by = "approved")
    /\ mods' = Append(mods, [on |-> w.on, sets |-> w.by, v |-> Said(w), at |-> second])
    /\ pending' = IF w.by = "approved" THEN pending \ {w.on} ELSE pending
    /\ UNCHANGED <<comments, born, votes, edits, updates>>

insertEdit(w) ==
    /\ w.op = "edit" /\ Write(w) /\ w.on \in comments \ pending
    /\ edits' = Append(edits, [on |-> w.on, sets |-> w.by, v |-> w.v, at |-> second])
    /\ UNCHANGED <<comments, pending, born, votes, mods, updates>>

(* The other comments of the authors purged, those they voted on or edited *)
(* and the ancestors are forced, and so is one comment chosen at random. *)
ForcedBy(gone) ==
    LET who == {AuthorOf(d) : d \in gone}
    IN {c \in comments : AuthorOf(c) \in who} \cup {x.on : x \in {y \in votes : y.by \in who}}
        \cup {edits[i].on : i \in {j \in DOMAIN edits : AuthorOf(edits[j].on) \in who}} \cup UNION {Above(d) : d \in gone}

purgeComment(w) ==
    /\ w.op = "purge" /\ Write(w) /\ w.on \in comments /\ (batch.pc = "idle" \/ fgJob.latePurge)
    /\ LET gone == SubtreeOf(w.on)
           rest == comments \ gone
       IN /\ comments' = rest /\ pending' = pending \ gone
          /\ votes' = {x \in votes : x.on \notin gone}
          /\ edits' = SelectSeq(edits, LAMBDA e : e.on \notin gone)
          /\ \E spared \in IF rest = {} THEN {{}} ELSE {{c} : c \in rest} :
                updates' = [c \in DOMAIN updates \ gone |->
                               IF c \in ForcedBy(gone) \cup spared THEN [updates[c] EXCEPT !.published = FALSE] ELSE updates[c]]
    /\ UNCHANGED <<born, mods>>

tickSecond ==
    /\ second < FgSeconds /\ second' = second + 1
    /\ batch' = [batch EXCEPT !.quiet = FALSE, !.settled = FALSE, !.undisturbed = @ /\ fgJob.maxAge = 0]
    /\ UNCHANGED <<fgJob, left, fgTables, updates, generation>>

----------------------------------------
FgInit ==
    /\ fgJob \in FgWorkload /\ left = fgJob.writes
    /\ comments = fgJob.first /\ pending = {} /\ born = [c \in FgComment |-> 0]
    /\ votes = {} /\ mods = <<>> /\ edits = <<>>
    /\ updates = [c \in {} |-> 0] /\ second = 0 /\ generation = 0 /\ batch = Idle

FgNext ==
    \/ updateCommentsThatNeedToBeUpdated \/ readSlice \/ upsertCommentUpdates \/ markCommentsAsPublished \/ cycleFails
    \/ \E w \in left : insertComments(w) \/ storeVote(w) \/ insertModeration(w) \/ insertEdit(w) \/ purgeComment(w)
    \/ tickSecond

FgSpec == FgInit /\ [][FgNext]_fgVars

----------------------------------------
(* The properties, against the tables themselves. *)
Gone(d) ==
    LET by(log, field, v) == \E i \in DOMAIN log : /\ log[i].on = d /\ log[i].sets = field /\ log[i].v = v
                                                   /\ ~\E j \in DOMAIN log : j > i /\ log[j].on = d /\ log[j].sets = field
    IN by(mods, "removed", "yes") \/ by(mods, "approved", "no") \/ DeletedSaid(d)

Thread(p) == {d \in comments \ pending : p \in Above(d) /\ ~Gone(d)}

(* Once a cycle finds nothing to do, every stored CommentUpdate says what *)
(* the tables say: its votes, the replies under it that are still there, *)
(* those under a removed one too, the newest of them and its newest child, *)
(* whatever was written between which slices, and whichever cycle failed. *)
CountsAreRight ==
    batch.quiet => \A c \in comments \ pending :
        LET u == updates[c]
            children == {d \in Thread(c) : Depth(d) = Depth(c) + 1}
        IN /\ u.up = Cardinality({x \in votes : x.on = c /\ x.v = "up"})
           /\ u.down = Cardinality({x \in votes : x.on = c /\ x.v = "down"})
           /\ u.replies = Cardinality(Thread(c)) /\ u.children = Cardinality(children)
           /\ u.lastReply = Max({0} \cup {fgJob.sent[d] : d \in Thread(c)})
           /\ u.lastChild = Max({0} \cup children)
           /\ (u.removed \/ u.deleted) = Gone(c)

(* The author's figures on every comment are then those of all the comments *)
(* of that address, and a ban shows on all of them; a pending comment may *)
(* or may not yet be named as the last one. Authors with aliases, *)
(* and boards where a purge landed in a cycle, are excepted: a flag does not *)
(* reach the first, and the mark of the cycle takes that of the second. *)
AuthorFiguresAreRight ==
    (batch.quiet /\ ~fgJob.latePurge) => \A c \in comments \ pending :
        LET a == AuthorOf(c)
            own == {d \in comments : AuthorOf(d) = a}
        IN (\A d \in FgComment : fgJob.original[d] = "") =>
              /\ updates[c].author.post + updates[c].author.reply =
                    Cardinality({x \in votes : x.on \in own /\ x.v = "up"}) - Cardinality({x \in votes : x.on \in own /\ x.v = "down"})
              /\ updates[c].author.last \in {Max(own), Max(own \ pending)}
              /\ updates[c].author.banned = (\E i \in DOMAIN mods : mods[i].sets = "ban" /\ AuthorOf(mods[i].on) = a)

(* Where an author has votes on one comment only, the score beside that *)
(* comment's votes is that of those votes: the author's figures were not *)
(* remembered from before a vote the same slice counts. *)
VotesMatchScore ==
    \A c \in DOMAIN updates :
        LET others == {w \in fgJob.writes : w.op = "vote" /\ w.on # c /\ AuthorOf(w.on) \in Karma(c)}
        IN others = {} => updates[c].author.post + updates[c].author.reply = updates[c].up - updates[c].down

(* Nor do the reply pages keep an older CommentUpdate of a reply than its *)
(* own, or a reply that has left the window. A row stamped ahead of the *)
(* clock is excepted: its replies seem to have left the window before. *)
PagesAreFresh ==
    batch.quiet => \A c \in comments \ pending : \A d \in DOMAIN updates[c].pages :
        /\ HasUpdate(d) /\ updates[c].pages[d] = updates[d].updatedAt
        /\ fgJob.maxAge = 0 \/ updates[c].ahead \/ fgJob.sent[d] >= second - fgJob.maxAge

(* A cycle that ran to its end undisturbed, after the second of the last *)
(* write, leaves nothing for the next: the loop does not go on publishing. *)
OneCycleSettles ==
    batch.settled => _collectCommentsToBeUpdated = {}

(* The figures of the CommentUpdates come to rest, and rest on what the *)
(* tables say: counts, the author's karma and bans, whichever write fell *)
(* between which slices of a cycle, and then no cycle starts another. *)
FiguresSettle ==
    CountsAreRight /\ AuthorFiguresAreRight /\ VotesMatchScore /\ PagesAreFresh /\ OneCycleSettles
========================================
