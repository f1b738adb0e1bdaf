-------------------- MODULE CommentUpdating --------------------
(***************************************************************************)
(* How the updating instance of a post, and of a reply under it, finds its *)
(* newest CommentUpdate.  A post looks in the pages of each community      *)
(* record and then in the record's postUpdates folders; a reply looks in   *)
(* the pages of its post, page after page.                                 *)
(*                                                                         *)
(* A step runs from one await to the next; a new event supersedes the      *)
(* lookups before it, which run on until their next check.  CommentUpdates *)
(* are numbered by updatedAt, 0 being none.                                *)
(***************************************************************************)
EXTENDS Naturals, Sequences, FiniteSets

CONSTANTS
    Folder,       \* cids of postUpdates folders
    fileOf,       \* fileOf[f] = [at, valid]: the post's file in a folder, at = 0 if it has none
    PageOf,       \* PageOf[c] = [reply, next, past]: the reply's CommentUpdate in a page, the next page,
                  \* and whether a comment there lies past the reply in the order of the list
    CuWorkload,   \* [records, posts, faults]
    NoCid

(* The records of one community.  Its pages and its folders come from one *)
(* publish cycle, and a post that moves to another folder leaves the last. *)
RecordIsCoherent(r) ==
    /\ r.pages > 0 /\ r.ranges # << >> => fileOf[r.ranges[1]].at = r.pages
    /\ \A i, j \in DOMAIN r.ranges : fileOf[r.ranges[i]].at > 0 /\ fileOf[r.ranges[j]].at > 0 => i = j

(* The pages that follow a page. *)
PagesBehind(c) ==
    {d \in DOMAIN PageOf : \A S \in SUBSET DOMAIN PageOf :
        c \in S /\ (\A e \in S : PageOf[e].next \in S \cup {NoCid}) => d \in S}

OnPages(p) == {PageOf[d].reply : d \in IF p.first = NoCid THEN {} ELSE PagesBehind(p.first)}
InPages(p) == {p.pre} \cup OnPages(p)

(* A reply is on one page of a list, and what is preloaded is no older. *)
PostIsCoherent(p) ==
    /\ \A at, other \in OnPages(p) : at > 0 /\ other > 0 => at = other
    /\ p.pre > 0 => \A at \in OnPages(p) : at <= p.pre

ASSUME CuAssumption ==
    /\ NoCid \notin Folder \cup DOMAIN PageOf
    /\ \A f \in Folder : fileOf[f].at \in Nat /\ fileOf[f].valid \in BOOLEAN /\ fileOf[f] # NoCid
    /\ \A c \in DOMAIN PageOf : PageOf[c].reply \in Nat /\ PageOf[c].next \in DOMAIN PageOf \cup {NoCid}
                                /\ PageOf[c].past \in BOOLEAN
    /\ \A w \in CuWorkload :
        /\ w.records \in Seq([pages : Nat, ranges : Seq(Folder)])
        /\ w.posts \in Seq([pre : Nat, first : DOMAIN PageOf \cup {NoCid}])
        /\ \A n \in DOMAIN w.records : RecordIsCoherent(w.records[n])
        /\ \A n \in DOMAIN w.posts : PostIsCoherent(w.posts[n])

VARIABLES
    cuJob,    \* records: [pages, ranges] in publishing order; posts: [pre, first] of the post's updates
    post,     \* the post instance: CommentUpdate held, file judged last, records seen
    lookup,   \* lookup[n]: the handler of the n-th record
    reply,    \* the reply instance: CommentUpdate held, first pages loaded, post updates seen
    search    \* search[n]: the handler of the n-th update of the post

cuVars == <<cuJob, post, lookup, reply, search>>

CuFault(x) == x \in cuJob.faults
Path(n, i) == cuJob.records[n].ranges[i]

----------------------------------------
(* The post.  Judged files are known by their folder, and by their cid where *)
(* it was resolved: the same cid means the same CommentUpdate. *)
FileCid(f) == IF fileOf[f].at = 0 THEN NoCid ELSE fileOf[f]

NoLookup == [pc |-> "none", i |-> 1, cid |-> NoCid, known |-> NoCid, aborted |-> FALSE, outcome |-> "none"]

(* _useLoadedCommentUpdateIfNewInfo *)
useLoadedPost(p, at) == IF at > p.held THEN [p EXCEPT !.held = at] ELSE p

(* The record's own pages carry the update held: its file is judged unread. *)
PagesHoldHeld(n, p) == cuJob.records[n].pages = p.held /\ p.held > 0 /\ cuJob.records[n].ranges # << >>

markRecordJudged(n, p) ==
    IF PagesHoldHeld(n, p) /\ p.judged.path # Path(n, 1)
    THEN [p EXCEPT !.judged = [path |-> Path(n, 1), cid |-> NoCid]] ELSE p

End(l, outcome) == [l EXCEPT !.pc = "over", !.outcome = outcome]

(* handleUpdateEventFromCommunity: earlier lookups are aborted. *)
handleUpdateEventFromCommunity ==
    LET n == post.seen + 1
        r == cuJob.records[n]
        old == [m \in DOMAIN lookup |-> [lookup[m] EXCEPT !.aborted = m < n]] IN
    /\ post.seen < Len(cuJob.records) /\ ~post.stopped
    /\ \/ /\ r.pages > post.held
          /\ post' = markRecordJudged(n, useLoadedPost([post EXCEPT !.seen = n], r.pages))
          /\ lookup' = [old EXCEPT ![n] = End(NoLookup, "current")]
       \/ /\ r.pages <= post.held /\ PagesHoldHeld(n, post)
          /\ post' = markRecordJudged(n, [post EXCEPT !.seen = n])
          /\ lookup' = [old EXCEPT ![n] = End(NoLookup, "current")]
       \/ /\ r.pages <= post.held /\ ~PagesHoldHeld(n, post)
          /\ post' = [post EXCEPT !.seen = n]
          /\ lookup' = [old EXCEPT ![n] = IF r.ranges = << >> THEN End(NoLookup, "failed") ELSE [NoLookup EXCEPT !.pc = "range"]]
    /\ UNCHANGED <<cuJob, reply, search>>

(* On to the next folder, unless the lookup was superseded meanwhile. *)
NextRange(n, l) ==
    IF l.aborted THEN End(l, "aborted")
    ELSE IF l.i = Len(cuJob.records[n].ranges) THEN End(l, "failed") ELSE [l EXCEPT !.pc = "range", !.i = @ + 1]

tryRange(n) ==
    LET l == lookup[n] IN
    /\ l.pc = "range"
    /\ lookup' = [lookup EXCEPT ![n] =
            IF l.aborted THEN End(l, "aborted")
            ELSE IF post.judged.path = Path(n, l.i) THEN End(l, "current")
            ELSE [l EXCEPT !.pc = "resolve", !.known = post.judged.cid]]
    /\ UNCHANGED <<cuJob, post, reply, search>>

(* _isPostUpdateFileAlreadyJudged, with what was judged before the await. *)
resolveFile(n) ==
    LET l == lookup[n]
        f == Path(n, l.i) IN
    /\ l.pc = "resolve"
    /\ \E cid \in {FileCid(f)} \cup (IF CuFault("resolve") THEN {NoCid} ELSE {}) :
        IF ~l.aborted /\ cid # NoCid /\ cid = l.known
        THEN /\ post' = [post EXCEPT !.judged = [path |-> f, cid |-> cid]]
             /\ lookup' = [lookup EXCEPT ![n] = End(l, "current")]
        ELSE /\ lookup' = [lookup EXCEPT ![n] = IF l.aborted THEN End(l, "aborted") ELSE [l EXCEPT !.pc = "fetch", !.cid = cid]]
             /\ UNCHANGED post
    /\ UNCHANGED <<cuJob, reply, search>>

resolveTimesOut(n) ==
    /\ lookup[n].pc = "resolve" /\ CuFault("timeout")
    /\ lookup' = [lookup EXCEPT ![n] = NextRange(n, @)]
    /\ UNCHANGED <<cuJob, post, reply, search>>

Judged(p, n, l) == [p EXCEPT !.judged = [path |-> Path(n, l.i), cid |-> l.cid]]

fetchFile_JudgeFirst(n) ==
    LET l == lookup[n] IN
    /\ l.pc = "fetch"
    /\ post' = Judged(post, n, l)
    /\ \/ lookup' = [lookup EXCEPT ![n] = NextRange(n, l)]
       \/ lookup' = [lookup EXCEPT ![n] = [l EXCEPT !.pc = "verify"]]
    /\ UNCHANGED <<cuJob, reply, search>>

(* A file no newer than the update held is judged before its signature. *)
fetchFile(n) ==
    LET l == lookup[n]
        file == fileOf[Path(n, l.i)] IN
    /\ l.pc = "fetch"
    /\ \/ /\ CuFault("fetch") \/ file.at = 0 \/ l.aborted
          /\ lookup' = [lookup EXCEPT ![n] = NextRange(n, l)]
          /\ UNCHANGED post
       \/ /\ file.at > 0 /\ file.at <= post.held
          /\ post' = Judged(post, n, l)
          /\ lookup' = [lookup EXCEPT ![n] = End(l, "current")]
       \/ /\ file.at > post.held
          /\ lookup' = [lookup EXCEPT ![n].pc = "verify"]
          /\ UNCHANGED post
    /\ UNCHANGED <<cuJob, reply, search>>

(* The signature of a newer file; what was held may have moved on meanwhile. *)
verifyFile(n) ==
    LET l == lookup[n]
        file == fileOf[Path(n, l.i)] IN
    /\ l.pc = "verify"
    /\ IF file.valid
       THEN /\ post' = useLoadedPost(Judged(post, n, l), file.at)
            /\ lookup' = [lookup EXCEPT ![n] = End(l, "current")]
       ELSE /\ lookup' = [lookup EXCEPT ![n] = End(l, "failed")]
            /\ UNCHANGED post
    /\ UNCHANGED <<cuJob, reply, search>>

(* stop() aborts the lookups. *)
stopPost ==
    /\ CuFault("stop") /\ ~post.stopped
    /\ post' = [post EXCEPT !.stopped = TRUE]
    /\ lookup' = [n \in DOMAIN lookup |-> [lookup[n] EXCEPT !.aborted = TRUE]]
    /\ UNCHANGED <<cuJob, reply, search>>

----------------------------------------
(* The reply, a child of the post.  Its searches read the post as it is when *)
(* they run, not as it was when they were asked for. *)
Pages == cuJob.posts[reply.seen]
NoSearch == [pc |-> "none", from |-> NoCid, page |-> NoCid, first |-> TRUE, found |-> FALSE, after |-> 0]

useLoadedReply(r, at) == IF at > r.held THEN [r EXCEPT !.held = at] ELSE r

Searching == {n \in DOMAIN search : search[n].pc \in {"begin", "page"}}

(* handleUpdateEventFromPostToFetchReplyCommentUpdate: an update found in *)
(* the preloaded pages is used; else it waits for the search under way. *)
handleUpdateEventFromPost ==
    LET n == reply.seen + 1
        p == cuJob.posts[n] IN
    /\ reply.seen < Len(cuJob.posts)
    /\ reply' = useLoadedReply([reply EXCEPT !.seen = n], p.pre)
    /\ search' = [search EXCEPT ![n] =
            IF p.pre > reply.held \/ (p.pre = 0 /\ p.first = NoCid) THEN [NoSearch EXCEPT !.pc = "over"]
            ELSE IF Searching = {} THEN [NoSearch EXCEPT !.pc = "begin"]
            ELSE [NoSearch EXCEPT !.pc = "queued", !.after = CHOOSE m \in Searching : \A k \in Searching : k <= m]]
    /\ UNCHANGED <<cuJob, post, lookup>>

(* The promise it waited for settled; others may have waited for it too. *)
searchAfterPrevious(n) ==
    /\ search[n].pc = "queued" /\ search[search[n].after].pc = "over"
    /\ search' = [search EXCEPT ![n].pc = "begin"]
    /\ UNCHANGED <<cuJob, post, lookup, reply>>

(* usePageCidsOfParentToFetchCommentUpdateForReply, to its first page. *)
beginSearch(n) ==
    LET again == Pages.first \in reply.loaded IN
    /\ search[n].pc = "begin"
    /\ reply' = useLoadedReply([reply EXCEPT !.failed = FALSE], Pages.pre)
    /\ search' = [search EXCEPT ![n] =
            IF Pages.pre > reply.held \/ Pages.first = NoCid \/ again THEN [@ EXCEPT !.pc = "over"]
            ELSE [@ EXCEPT !.pc = "page", !.from = Pages.first, !.page = Pages.first]]
    /\ UNCHANGED <<cuJob, post, lookup>>

(* One page.  The first is remembered as loaded; the reply found in it, or *)
(* meanwhile in the preloaded pages, ends the search if it is newer.  So does *)
(* a comment past the reply, which a pinned one is on the first page already. *)
HasReply(c) == c # NoCid /\ \E d \in PagesBehind(c) : PageOf[d].reply > 0

searchPage(n) ==
    LET s == search[n]
        page == PageOf[s.page]
        loaded == IF s.first THEN [reply EXCEPT !.loaded = @ \cup {s.page}] ELSE reply
        best == IF page.reply > 0 THEN page.reply ELSE Pages.pre
        newer == best > reply.held
        last == page.next = NoCid \/ (page.reply = 0 /\ page.past)
        next == [s EXCEPT !.first = FALSE, !.found = @ \/ best > 0, !.page = page.next] IN
    /\ s.pc = "page"
    /\ IF newer THEN reply' = useLoadedReply(loaded, best)
       ELSE reply' = [loaded EXCEPT !.failed = @ \/ (last /\ ~next.found),
                                    !.broken = IF page.reply = 0 /\ page.past /\ HasReply(page.next) THEN @ \cup {s.from} ELSE @]
    /\ search' = [search EXCEPT ![n] = IF newer \/ page.reply > 0 \/ last THEN [next EXCEPT !.pc = "over"] ELSE next]
    /\ UNCHANGED <<cuJob, post, lookup>>

(* A page that cannot be loaded breaks the search off. *)
pageFails(n) ==
    LET s == search[n] IN
    /\ s.pc = "page" /\ CuFault("page")
    /\ search' = [search EXCEPT ![n].pc = "over"]
    /\ reply' = [reply EXCEPT !.failed = @ \/ ~s.found, !.broken = IF s.first THEN @ ELSE @ \cup {s.from}]
    /\ UNCHANGED <<cuJob, post, lookup>>

CuInit ==
    /\ cuJob \in CuWorkload
    /\ post = [held |-> 0, judged |-> [path |-> NoCid, cid |-> NoCid], seen |-> 0, stopped |-> FALSE]
    /\ lookup = [n \in DOMAIN cuJob.records |-> NoLookup]
    /\ reply = [held |-> 0, loaded |-> {}, seen |-> 0, failed |-> FALSE, broken |-> {}]
    /\ search = [n \in DOMAIN cuJob.posts |-> NoSearch]

LookupStep(n) == tryRange(n) \/ resolveFile(n) \/ resolveTimesOut(n) \/ fetchFile(n) \/ verifyFile(n)
SearchStep(n) == searchAfterPrevious(n) \/ beginSearch(n) \/ searchPage(n) \/ pageFails(n)

CuNext ==
    \/ handleUpdateEventFromCommunity \/ stopPost \/ handleUpdateEventFromPost
    \/ \E n \in DOMAIN lookup : LookupStep(n)
    \/ \E n \in DOMAIN search : SearchStep(n)

CuSpec == CuInit /\ [][CuNext]_cuVars

----------------------------------------
(* A file judged once is never read again, so it must hold nothing newer *)
(* than what the post already holds, whatever lookups overlapped. *)
JudgedIsHeld == post.judged.path # NoCid => fileOf[post.judged.path].at <= post.held

(* When the lookup of the newest record ended without an error, the post *)
(* holds what the record has: nothing was skipped that it should have read. *)
Reachable(n) == {fileOf[Path(n, i)].at : i \in {j \in DOMAIN cuJob.records[n].ranges : fileOf[Path(n, j)].valid}}

CurrentMeansNewest ==
    \A n \in DOMAIN lookup : (n = post.seen /\ lookup[n].outcome = "current") => \A at \in Reachable(n) : at <= post.held

(* A comment never goes back to an older CommentUpdate, although superseded *)
(* lookups and overlapping searches end in any order. *)
NeverBack == [][post'.held >= post.held /\ reply'.held >= reply.held]_cuVars

(* When no search is under way, a reply holds what the pages of its post *)
(* have, unless a page could not be loaded, or a pinned comment broke off *)
(* the search before the page the reply is on. *)
Quiet == reply.seen > 0 /\ \A n \in DOMAIN search : search[n].pc \in {"none", "over"}

ReplyIsCurrent ==
    Quiet /\ ~reply.failed /\ Pages.first \notin reply.broken => \A at \in InPages(Pages) : at <= reply.held

(* Not so for these two: the first page is remembered although the search *)
(* behind it broke off. *)
BrokenSearchIsRepeated == Quiet /\ ~reply.failed => \A at \in InPages(Pages) : at <= reply.held

(* A comment that is up to date with its community is up to date with the *)
(* newest CommentUpdate there, in a folder or on a page, whatever lookups *)
(* were superseded or failed on the way. *)
CommentIsCurrent ==
    JudgedIsHeld /\ CurrentMeansNewest /\ ReplyIsCurrent
========================================
