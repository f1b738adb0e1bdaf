-------------------- MODULE PublicationRules --------------------
(***************************************************************************)
(* checkPublicationValidity: what a community asks of a publication before *)
(* it runs any challenge.  The checks of one request are interrupted where *)
(* a name is resolved; other requests, purges and the owner's edits of the *)
(* roles come in between.  A publication that passes is applied to the     *)
(* board here: the exchange in between is module ChallengeExchange's.      *)
(*                                                                         *)
(* What a comment holds is a set of traits ("image", "spoiler", "flair"    *)
(* ...), and the community's features forbid or require traits.  A second  *)
(* copy of an edit or a moderation is ChallengeExchange's too.             *)
(***************************************************************************)
EXTENDS Naturals, Sequences, FiniteSets

CONSTANTS
    PrRequest,    \* requests
    PrWorkload    \* [board, features, roles, txt, pub, acts]

\* board: cid -> [depth, parent, post, signer, original, traits]; original is the author behind an alias
\* roles: role key (a signer or a name) -> role;  txt: name -> signer, or "none"
\* pub: request -> [kind, signer, name, wire, target, post, quotes, traits, vote, act, cid, early]
\* acts: what else happens: [op, ...] of Acts below

(* A row of the comments table. *)
IsRow(x) ==
    x = [depth |-> x.depth, parent |-> x.parent, post |-> x.post, signer |-> x.signer, original |-> x.original,
         traits |-> x.traits, removed |-> x.removed, locked |-> x.locked, archived |-> x.archived, deleted |-> x.deleted,
         pending |-> x.pending, disapproved |-> x.disapproved, voters |-> x.voters]

(* The roots that the board and the requests give a cid.  A cid is a hash of *)
(* its comment, which names its root: one at most. *)
Threads(w, c) ==
    {IF w.board[d].depth = 0 THEN d ELSE w.board[d].post : d \in DOMAIN w.board \cap {c}}
    \cup {IF w.pub[r].target = "none" THEN c ELSE w.pub[r].post :
             r \in {x \in DOMAIN w.pub : w.pub[x].kind \in {"post", "reply"} /\ w.pub[x].cid = c}}

(* What a stored board and a parsed publication are, by their schemas. *)
ASSUME PrAssumption ==
    \A w \in PrWorkload :
        /\ DOMAIN w.pub \subseteq PrRequest /\ "none" \notin DOMAIN w.board \cup DOMAIN w.roles
        /\ \A c \in DOMAIN w.board :
              /\ IsRow(w.board[c]) /\ w.board[c].depth \in Nat
              /\ IF w.board[c].depth = 0 THEN w.board[c].post = c /\ w.board[c].parent = "none"
                 ELSE w.board[c].post \in DOMAIN w.board /\ w.board[w.board[c].post].depth = 0
        /\ \A r \in DOMAIN w.pub :
              /\ w.pub[r].kind \in {"post", "reply", "vote", "edit", "moderation", "communityEdit"}
              /\ w.pub[r].kind = "post" => w.pub[r].target = "none" /\ w.pub[r].post = w.pub[r].cid
              /\ w.pub[r].kind = "reply" => w.pub[r].target # "none"
              /\ w.pub[r].kind = "edit" => w.pub[r].traits \subseteq {"markdown", "spoiler", "flair", "otherFlair"}
              /\ w.pub[r].name \in DOMAIN w.txt \cup {"none"} /\ w.pub[r].cid # "none"
              /\ w.pub[r].signer \notin {"none", "unreachable"}
              /\ \A x, y \in Threads(w, w.pub[r].cid) : x = y
        /\ \A a \in w.acts : a.op = "purge" => a.of # "none"

VARIABLES
    prJob,     \* the workload chosen
    board,     \* the comments, with what moderators and authors made of them
    prRoles,   \* community.roles
    prTxt,     \* what each name resolves to now
    prActs,    \* what may still happen besides the requests
    check,     \* check[r]: where its checks are
    held       \* held[r]: the grounds for a rejection that held at some time since it arrived, and
               \* the ones that at some time did not

prVars == <<prJob, board, prRoles, prTxt, prActs, check, held>>

Nobody == "nobody"
Pub(r) == prJob.pub[r]
On(feature) == feature \in prJob.features
Exists(c) == c \in DOMAIN board

----------------------------------------
(* The community's features.  A media trait stands for the link's or a *)
(* gallery item's. *)
Forbidden(isReply, depth) ==
    {t \in {"image", "video", "audio", "spoiler"} :
        \/ On(CASE t = "image" -> "noImages" [] t = "video" -> "noVideos" [] t = "audio" -> "noAudio" [] OTHER -> "noSpoilers")
        \/ isReply /\ On(CASE t = "image" -> "noImageReplies" [] t = "video" -> "noVideoReplies"
                           [] t = "audio" -> "noAudioReplies" [] OTHER -> "noSpoilerReplies")}
    \cup {t \in {"markdown", "crosspost"} : On(IF t = "markdown" THEN "noMarkdown" ELSE "noCrossposts")}
    \cup (IF isReply /\ On("noReplyLinks") THEN {"link"} ELSE {})
    \cup (IF On(IF isReply THEN "replyGallery" ELSE "postGallery") THEN {} ELSE {"gallery"})
    \cup (IF depth > 1 /\ On("noNestedReplies") THEN {"comment"} ELSE {})
    \cup (IF On("postFlairs") THEN {"otherFlair"} ELSE {"flair", "otherFlair"})
    \cup (IF On("pseudonymityMode") THEN {} ELSE IF On("authorFlairs") THEN {"otherAuthorFlair"} ELSE {"authorFlair", "otherAuthorFlair"})
    \cup (IF On("requirePostLinkIsMedia") \/ (isReply /\ On("requireReplyLinkIsMedia")) THEN {"plainLink"} ELSE {})

Required(isReply) ==
    (IF On(IF isReply THEN "requireReplyLink" ELSE "requirePostLink") THEN {"link"} ELSE {})
    \cup (IF ~isReply /\ On("requirePostFlairs") THEN {"flair"} ELSE {})
    \cup (IF On("requireAuthorFlairs") /\ ~On("pseudonymityMode") THEN {"authorFlair"} ELSE {})

DepthOf(p) == IF p.target = "none" THEN 0 ELSE board[p.target].depth + 1

checkCommentContent(p) ==
    \/ (p.traits \cup {"comment"}) \cap Forbidden(p.target # "none", DepthOf(p)) # {}
    \/ ~(Required(p.target # "none") \subseteq p.traits)

(* An edit changes the text, the spoiler and the flairs. *)
EditableTraits == {"markdown", "spoiler", "flair", "otherFlair"}

checkEditContent(p) ==
    p.traits \cap Forbidden(board[p.target].depth > 0, 0) \cap EditableTraits # {}

----------------------------------------
(* The thread a comment says it is in. *)
RootOf(c) == IF board[c].depth = 0 THEN c ELSE board[c].post

checkThread(p) == p.target # "none" /\ p.post # RootOf(p.target)

checkQuotes(p) ==
    \E q \in p.quotes : p.target = "none" \/ (IF Exists(q) THEN RootOf(q) # p.post \/ board[q].pending ELSE TRUE)

(* Who may edit: the author behind the alias, if there is one. *)
Author(c) == IF board[c].original # Nobody THEN board[c].original ELSE board[c].signer

checkVotePublication(p) ==
    LET root == board[p.target].depth = 0 IN
    \/ p.vote = 1 /\ (On("noUpvotes") \/ On(IF root THEN "noPostUpvotes" ELSE "noReplyUpvotes"))
    \/ p.vote = 2 /\ (On("noDownvotes") \/ On(IF root THEN "noPostDownvotes" ELSE "noReplyDownvotes"))
    \/ p.vote = 0 /\ p.signer \notin board[p.target].voters

checkModeration(p) ==
    \/ p.act \in {"lock", "archive"} /\ board[p.target].depth # 0
    \/ p.act = "archive" /\ On("noArchive") /\ ~board[p.target].archived
    \/ p.act \in {"approve", "disapprove"} /\ ~board[p.target].pending

----------------------------------------
(* matchPublicationAuthorAgainstRoles reads the roles, then resolves the *)
(* author's name if a role is held under it, and only then. *)
Mods == {"owner", "admin", "moderator"}

RoleKeys(roles) == {k \in DOMAIN prRoles : prRoles[k] \in roles}

matchesKey(r, keys) == Pub(r).signer \in keys
NameListed(r, keys) == Pub(r).name # "none" /\ Pub(r).name \in keys

(* The rules that turn on the state of the board, each a ground for a *)
(* rejection, as the board is now. *)
UnderTarget(p) == p.kind \in {"reply", "vote", "edit", "moderation"}
Regular(p) == UnderTarget(p) /\ p.kind # "moderation"

MayBypassLock(p) == p.kind # "vote" /\ (p.signer \in RoleKeys(Mods) \/ (p.name \in RoleKeys(Mods) /\ prTxt[p.name] = p.signer))

IsMod(p, roles) == p.signer \in RoleKeys(roles) \/ (p.name \in RoleKeys(roles) /\ prTxt[p.name] = p.signer)

AllGrounds == {"missing", "removed", "deleted", "locked", "archived", "pending", "disapproved", "not a moderator",
               "not the author", "not an owner"}

(* Under a comment that is gone, whatever is given as the reason holds. *)
Grounds(p) ==
    IF UnderTarget(p) /\ ~Exists(p.target) THEN AllGrounds
    ELSE LET post == RootOf(p.target)
             flag(g, b) == IF b THEN {g} ELSE {}
             deleting == p.kind = "edit" /\ p.act = "delete"
         IN (IF ~Regular(p) THEN {} ELSE
                flag("removed", board[p.target].removed \/ (Exists(post) /\ board[post].removed))
                \cup flag("deleted", board[p.target].deleted \/ (Exists(post) /\ board[post].deleted))
                \cup flag("locked", Exists(post) /\ board[post].locked /\ ~MayBypassLock(p))
                \cup flag("archived", Exists(post) /\ board[post].archived)
                \cup flag("pending", board[p.target].pending /\ ~deleting)
                \cup flag("disapproved", board[p.target].disapproved /\ ~deleting))
            \cup flag("not a moderator", p.kind = "moderation" /\ ~IsMod(p, Mods))
            \cup flag("not the author", p.kind = "edit" /\ p.signer # (IF board[p.target].original # Nobody THEN board[p.target].original
                                                                       ELSE board[p.target].signer))
            \cup flag("not an owner", p.kind = "communityEdit" /\ ~IsMod(p, IF p.act = "roles" THEN {"owner"} ELSE {"owner", "admin"}))

----------------------------------------
(* checkParentAndPostState, in its order, on what was read: the parent's *)
(* row, its flags and the post's. *)
PostFlagsOf_Parent(c) == board[c]

PostFlagsOf(c) == IF Exists(RootOf(c)) THEN board[RootOf(c)] ELSE [board[c] EXCEPT !.removed = FALSE, !.deleted = FALSE, !.locked = FALSE, !.archived = FALSE]

BeforeLock(p, parent, post) ==
    IF ~Regular(p) THEN "go on"
    ELSE IF parent.removed THEN "removed"
    ELSE IF parent.deleted THEN "deleted"
    ELSE IF post.removed THEN "removed"
    ELSE IF post.deleted THEN "deleted"
    ELSE IF post.locked THEN "locked"
    ELSE "go on"

AfterLock(p, parent, post) ==
    LET deleting == p.kind = "edit" /\ p.act = "delete" IN
    IF Regular(p) /\ post.archived THEN "archived"
    ELSE IF p.early THEN "early"
    ELSE IF Regular(p) /\ parent.pending /\ ~deleting THEN "pending"
    ELSE IF Regular(p) /\ parent.disapproved /\ ~deleting THEN "disapproved"
    ELSE "go on"

(* The checks of each kind that need no role. *)
OwnChecks(p) ==
    CASE p.kind \in {"post", "reply"} ->
            IF p.kind = "reply" /\ ~Exists(p.target) THEN "threw"
            ELSE IF checkCommentContent(p) THEN "content"
            ELSE IF checkThread(p) THEN "thread"
            ELSE IF checkQuotes(p) THEN "quote"
            ELSE IF Exists(p.cid) THEN "duplicate" ELSE "accepted"
      [] p.kind = "vote" -> IF checkVotePublication(p) THEN "vote" ELSE "accepted"
      [] p.kind = "edit" ->
            IF ~Exists(p.target) THEN "missing"
            ELSE IF p.signer # Author(p.target) THEN "not the author"
            ELSE IF checkEditContent(p) THEN "content" ELSE "accepted"
      [] OTHER -> "roles"

----------------------------------------
(* Steps.  Every step notes which grounds hold in the state it leaves. *)
Note == held' = [r \in PrRequest |->
                   IF check[r].at \in {"new", "done"} THEN held[r]
                   ELSE [did |-> held[r].did \cup Grounds(Pub(r))', didnt |-> held[r].didnt \cup (AllGrounds \ Grounds(Pub(r))')]]

NewRow(p) == [depth |-> DepthOf(p), parent |-> p.target, post |-> p.post, signer |-> p.signer, original |-> Nobody, traits |-> p.traits,
              removed |-> FALSE, locked |-> FALSE, archived |-> FALSE, deleted |-> FALSE, pending |-> FALSE, disapproved |-> FALSE,
              voters |-> {}]

Moderated(row, act) ==
    CASE act = "remove" -> [row EXCEPT !.removed = TRUE]
      [] act = "restore" -> [row EXCEPT !.removed = FALSE]
      [] act = "lock" -> [row EXCEPT !.locked = TRUE]
      [] act = "archive" -> [row EXCEPT !.archived = TRUE]
      [] act = "approve" -> [row EXCEPT !.pending = FALSE]
      [] OTHER -> [row EXCEPT !.pending = FALSE, !.disapproved = TRUE]

Applied(p) ==
    CASE p.kind \in {"post", "reply"} -> [c \in DOMAIN board \cup {p.cid} |-> IF c = p.cid THEN NewRow(p) ELSE board[c]]
      [] p.kind = "vote" -> [board EXCEPT ![p.target].voters = @ \cup {p.signer}]
      [] p.kind = "edit" -> IF p.act = "delete" THEN [board EXCEPT ![p.target].deleted = TRUE]
                            ELSE [board EXCEPT ![p.target].traits = (@ \ EditableTraits) \cup p.traits]
      [] p.kind = "moderation" -> [board EXCEPT ![p.target] = Moderated(@, p.act)]
      [] OTHER -> board

Conclude(r, verdict) ==
    /\ check' = [check EXCEPT ![r] = [@ EXCEPT !.at = "done", !.verdict = verdict]]
    /\ board' = IF verdict = "accepted" THEN Applied(Pub(r)) ELSE board

GoOn(r, at) ==
    /\ check' = [check EXCEPT ![r] = [@ EXCEPT !.at = at]]
    /\ UNCHANGED board

(* The request arrives: wire format, community key and name, timestamp, ban. *)
checkWireFormatAndCommunityAuthor(r) ==
    /\ check[r].at = "new"
    /\ IF Pub(r).wire # "ok" THEN Conclude(r, "wire") ELSE GoOn(r, "author")
    /\ held' = [held EXCEPT ![r] = [did |-> Grounds(Pub(r)), didnt |-> AllGrounds \ Grounds(Pub(r))]]
    /\ UNCHANGED <<prJob, prRoles, prTxt, prActs>>

(* A claimed name must resolve to the signer; a binding of the last half *)
(* hour will do. *)
checkAuthorIdentity(r) ==
    /\ check[r].at = "author"
    /\ IF Pub(r).name = "none" THEN GoOn(r, "parent")
       ELSE \E known \in {prJob.txt[Pub(r).name], prTxt[Pub(r).name]} :
              IF known = Pub(r).signer THEN GoOn(r, "parent") ELSE Conclude(r, "name")
    /\ UNCHANGED <<prJob, prRoles, prTxt, prActs>>
    /\ Note

(* The parent, the flags and, if the post is locked, the moderators are read *)
(* here; the rest of the checks follow at once unless a name has to be *)
(* resolved to tell whether the author is one. *)
RestOfChecks(r) ==
    LET own == OwnChecks(Pub(r)) IN IF own = "roles" THEN GoOn(r, "roles") ELSE Conclude(r, own)

AfterLockThenRest(r, parent, post) ==
    LET after == AfterLock(Pub(r), parent, post) IN IF after # "go on" THEN Conclude(r, after) ELSE RestOfChecks(r)

checkParentAndPostState(r) ==
    LET p == Pub(r)
        parent == board[p.target]
        post == PostFlagsOf(p.target)
        before == BeforeLock(p, parent, post)
        mods == RoleKeys(Mods)
    IN /\ check[r].at = "parent"
       /\ IF ~UnderTarget(p) THEN RestOfChecks(r)
          ELSE IF ~Exists(p.target) THEN Conclude(r, "missing")
          ELSE IF before = "go on" THEN AfterLockThenRest(r, parent, post)
          ELSE IF before # "locked" \/ p.kind = "vote" THEN Conclude(r, before)
          ELSE IF matchesKey(r, mods) THEN AfterLockThenRest(r, parent, post)
          ELSE IF ~NameListed(r, mods) THEN Conclude(r, "locked")
          ELSE /\ check' = [check EXCEPT ![r] = [@ EXCEPT !.at = "lock", !.parent = parent, !.post = post]]
               /\ UNCHANGED board
       /\ UNCHANGED <<prJob, prRoles, prTxt, prActs>>
       /\ Note

(* The name of a possible moderator resolves, once for the request. *)
lockBypass(r) ==
    /\ check[r].at = "lock"
    /\ \E known \in {prTxt[Pub(r).name], "unreachable"} :
         IF known = Pub(r).signer THEN AfterLockThenRest(r, check[r].parent, check[r].post)
         ELSE IF known \in {"none", "unreachable"} THEN Conclude(r, "name")
         ELSE Conclude(r, "locked")
    /\ UNCHANGED <<prJob, prRoles, prTxt, prActs>>
    /\ Note

(* A moderation needs a moderator; an edit of the roles or the name an *)
(* owner, any other edit of the community an owner or an admin. *)
RolesNeeded(p) == IF p.kind = "moderation" THEN Mods ELSE IF p.act = "roles" THEN {"owner"} ELSE {"owner", "admin"}

WithRole(p) ==
    IF p.kind # "moderation" THEN IF p.act = "settings" THEN "not public" ELSE "accepted"
    ELSE IF ~Exists(p.target) THEN "missing"
    ELSE IF checkModeration(p) THEN "moderation" ELSE "accepted"

WithoutRole(p) == IF p.kind = "moderation" THEN "not a moderator" ELSE "not an owner"

checkRoles(r) ==
    LET keys == RoleKeys(RolesNeeded(Pub(r))) IN
    /\ check[r].at = "roles"
    /\ IF matchesKey(r, keys) THEN Conclude(r, WithRole(Pub(r)))
       ELSE IF NameListed(r, keys) THEN GoOn(r, "resolving")
       ELSE Conclude(r, WithoutRole(Pub(r)))
    /\ UNCHANGED <<prJob, prRoles, prTxt, prActs>>
    /\ Note

roleResolved(r) ==
    /\ check[r].at = "resolving"
    /\ \E known \in {prTxt[Pub(r).name], "unreachable"} :
         Conclude(r, IF known = Pub(r).signer THEN WithRole(Pub(r))
                     ELSE IF known \in {"none", "unreachable"} THEN "name" ELSE WithoutRole(Pub(r)))
    /\ UNCHANGED <<prJob, prRoles, prTxt, prActs>>
    /\ Note

----------------------------------------
(* What happens meanwhile: a comment is purged with what is under it, the *)
(* owner takes a role away, a name is pointed at another signer. *)
Under(c) == {d \in DOMAIN board : d = c \/ board[d].parent = c \/ board[d].post = c}

meanwhile ==
    \E a \in prActs :
        /\ prActs' = prActs \ {a}
        /\ board' = IF a.op = "purge" THEN [c \in DOMAIN board \ Under(a.of) |-> board[c]] ELSE board
        /\ prRoles' = IF a.op = "dismiss" THEN [k \in DOMAIN prRoles \ {a.of} |-> prRoles[k]] ELSE prRoles
        /\ prTxt' = IF a.op = "point" THEN [prTxt EXCEPT ![a.of] = a.to] ELSE prTxt
        /\ UNCHANGED <<prJob, check>>
        /\ Note

PrInit ==
    /\ prJob \in PrWorkload
    /\ board = prJob.board /\ prRoles = prJob.roles /\ prTxt = prJob.txt /\ prActs = prJob.acts
    /\ check = [r \in PrRequest |-> [at |-> IF r \in DOMAIN prJob.pub THEN "new" ELSE "done", verdict |-> "none",
                                     parent |-> Nobody, post |-> Nobody]]
    /\ held = [r \in PrRequest |-> [did |-> {}, didnt |-> {}]]

PrNext ==
    \/ meanwhile
    \/ \E r \in DOMAIN prJob.pub :
         \/ checkWireFormatAndCommunityAuthor(r) \/ checkAuthorIdentity(r) \/ checkParentAndPostState(r) \/ lockBypass(r)
         \/ checkRoles(r) \/ roleResolved(r)

PrSpec == PrInit /\ [][PrNext]_prVars

----------------------------------------
Verdict(r) == check[r].verdict

(* The roles are read before the name resolves.  A name that loses its role *)
(* and is pointed at the author again is a moderator's at no one moment, and *)
(* passes: the two have happened since the board was as it is in prJob. *)
Dismissed(r) == \E a \in prJob.acts \ prActs : a.op = "dismiss" /\ a.of = Pub(r).name
PointedBack(r) == \E a \in prJob.acts \ prActs : a.op = "point" /\ a.of = Pub(r).name /\ a.to = Pub(r).signer
Excused(r) == IF Dismissed(r) /\ PointedBack(r) THEN {"locked", "not a moderator", "not an owner"} ELSE {}

(* Nothing passes that was against the rules all along: whatever the awaits *)
(* let in between, each rule was kept at some time while it was checked. *)
AcceptedWasLawful ==
    \A r \in DOMAIN prJob.pub : Verdict(r) = "accepted" => AllGrounds \ Excused(r) \subseteq held[r].didnt

(* Nobody is turned away for a reason that never held meanwhile. *)
RejectedHasGround == \A r \in DOMAIN prJob.pub : Verdict(r) \in AllGrounds => Verdict(r) \in held[r].did

(* What a comment showed before the features were as they are. *)
ShownAtFirst(c) == IF c \in DOMAIN prJob.board THEN prJob.board[c].traits \cup {"comment"} ELSE {}

(* No comment on the board shows what the features forbid, not even after *)
(* the edits that passed, unless it was there and showed it before them. *)
NothingForbiddenIsShown ==
    \A c \in DOMAIN board :
        (board[c].traits \cup {"comment"}) \cap Forbidden(board[c].depth > 0, board[c].depth) \subseteq ShownAtFirst(c)

(* A reply quotes and names only comments of the thread it really is in. *)
ThreadsHoldTogether ==
    \A r \in DOMAIN prJob.pub : LET p == Pub(r) IN
        Verdict(r) = "accepted" /\ p.kind = "reply" /\ Exists(p.cid) =>
            \A q \in {p.target} \cup p.quotes : Exists(q) => RootOf(q) = p.post

(* checkPublicationValidity lets through what the rules allow and nothing *)
(* else, although the board changes at its awaits: each verdict has a *)
(* ground, and the board that results shows nothing forbidden and no reply *)
(* that quotes another thread. *)
RulesAreKept ==
    AcceptedWasLawful /\ RejectedHasGround /\ NothingForbiddenIsShown /\ ThreadsHoldTogether
========================================
