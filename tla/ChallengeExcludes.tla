-------------------- MODULE ChallengeExcludes --------------------
(***************************************************************************)
(* What excuses an author from a challenge, for several requests at once:  *)
(* a rate limit, a key or a name in the settings, a comment the author     *)
(* made in a friendly community.  The limiters, the comments looked up and *)
(* the locks on them are shared by every request of the process; what a    *)
(* name resolved to is kept per request, until the author had to answer.   *)
(***************************************************************************)
EXTENDS Naturals, FiniteSets

CONSTANTS
    Requests,     \* challenge requests
    Cids,         \* comments authors refer to
    Limit,        \* rateLimit of the rule
    MaxRefills,   \* bound: tokens that come back
    ExWorkload    \* [rule, signer, name, cid, home, writer], functions of requests and cids

ASSUME ExAssumption == Limit \in Nat /\ MaxRefills \in Nat /\ IsFiniteSet(Requests)

None == "none"
NewRequest == [at |-> "new", memo |-> None, excused |-> FALSE, answered |-> FALSE, alone |-> TRUE, owned |-> FALSE, accepted |-> FALSE, granted |-> FALSE]

VARIABLES
    exJob,
    exReq,        \* [request -> at, memo of the name, excused, ...]
    tokens,       \* [address -> tokens left], the limiters of accepted publications
    refills,      \* history: tokens given back
    txt,          \* [name -> signer it resolves to]
    locked,       \* getCommentPending
    commentCache, updateCache

exVars == <<exJob, exReq, tokens, refills, txt, locked, commentCache, updateCache>>

Signer(r) == exJob.signer[r]
Cid(r) == exJob.cid[r]
Names == {exJob.name[r] : r \in Requests} \ {None}
Keys == {exJob.signer[r] : r \in Requests} \cup {"other"}

(* author.address: the name claimed, whoever owns it, and else the key. *)
Address(r) == IF exJob.name[r] = None THEN Signer(r) ELSE exJob.name[r]

Active(r) == exReq[r].at \notin {"new", "done"}
Move(r, q) == exReq' = [exReq EXCEPT ![r] = q]
At(r, place) == [exReq[r] EXCEPT !.at = place]

(* owned, a history: since the answer, or since the start, the name pointed *)
(* to the signer at some moment. *)
Owns(r) == exJob.name[r] # None /\ txt[exJob.name[r]] = Signer(r)

----------------------------------------
testRateLimit(r) == exJob.rule.rate => tokens[Address(r)] >= 1

(* The cheap predicates of an exclude item; the name comes last. *)
CheapPass(r) == testRateLimit(r) /\ (exJob.rule.key # None => exJob.rule.key = Signer(r))

NeedsName(r) == exJob.rule.name # None /\ exJob.rule.name = exJob.name[r]

(* matchesAnyIdentity: a name that is not the author's is no match at all. *)
NameCanMatch(r) == exJob.rule.name # None => NeedsName(r)

Friendly(r) == exJob.rule.friend /\ Cid(r) \in Cids

HasAuthorRule == exJob.rule.rate \/ exJob.rule.key # None \/ exJob.rule.name # None

(* shouldExcludePublication, then the comment the author refers to. *)
shouldExcludePublication(r) ==
    /\ exReq[r].at = "new"
    /\ LET others == {o \in Requests : Active(o)}
           q == [exReq[r] EXCEPT !.owned = Owns(r), !.alone = others = {}]
       IN \E place \in {"resolve", "friend", "excused", "asked"} :
              /\ place = "resolve" => HasAuthorRule /\ CheapPass(r) /\ NeedsName(r)
              /\ place = "excused" => HasAuthorRule /\ CheapPass(r) /\ exJob.rule.name = None
              /\ place \in {"friend", "asked"} => ~(HasAuthorRule /\ CheapPass(r) /\ NameCanMatch(r))
              /\ place = "friend" => Friendly(r)
              /\ place = "asked" => ~Friendly(r)
              /\ exReq' = [o \in Requests |->
                     IF o = r THEN [q EXCEPT !.at = place, !.excused = place = "excused"]
                     ELSE IF o \in others THEN [exReq[o] EXCEPT !.alone = FALSE] ELSE exReq[o]]
    /\ UNCHANGED <<exJob, tokens, refills, txt, locked, commentCache, updateCache>>

(* nameResolvesToSigner, bypassing the cache; a resolver that fails is no *)
(* match. *)
nameResolvesToSigner(r) ==
    /\ exReq[r].at = "resolve"
    /\ \E memo \in {IF Owns(r) THEN "match" ELSE "other", "failed"} :
           Move(r, [exReq[r] EXCEPT !.memo = memo, !.excused = memo = "match",
                    !.at = IF memo = "match" THEN "excused" ELSE IF Friendly(r) THEN "friend" ELSE "asked"])
    /\ UNCHANGED <<exJob, tokens, refills, txt, locked, commentCache, updateCache>>

----------------------------------------
(* getComment: one fetch of a cid at a time. *)
takeLock(r) ==
    /\ exReq[r].at = "friend" /\ Cid(r) \notin locked
    /\ locked' = locked \cup {Cid(r)}
    /\ Move(r, At(r, "fetch"))
    /\ UNCHANGED <<exJob, tokens, refills, txt, commentCache, updateCache>>

Released(r, ok) == locked \ {Cid(r)}

(* The comment must be of a friendly community and of this signer. *)
Qualifies(r) == exJob.writer[Cid(r)] = Signer(r) /\ exJob.home[Cid(r)] = "friendly"

Looked(r, ok) ==
    /\ locked' = Released(r, ok)
    /\ Move(r, [exReq[r] EXCEPT !.at = IF ok THEN "excused" ELSE "asked", !.excused = ok])

(* _getComment: the comment, unless cached, then its update; a comment *)
(* whose update has no author part is cached nowhere and throws. *)
_getComment(r) ==
    /\ exReq[r].at = "fetch"
    /\ \/ /\ Cid(r) \notin commentCache /\ Looked(r, FALSE)
          /\ UNCHANGED <<commentCache, updateCache>>
       \/ /\ commentCache' = commentCache \cup {Cid(r)}
          /\ ~Qualifies(r) /\ Looked(r, FALSE) /\ UNCHANGED updateCache
       \/ /\ commentCache' = commentCache \cup {Cid(r)}
          /\ Qualifies(r) /\ Cid(r) \in updateCache /\ UNCHANGED updateCache
          /\ \E enough \in BOOLEAN : Looked(r, enough)
       \/ /\ commentCache' = commentCache \cup {Cid(r)}
          /\ Qualifies(r) /\ Cid(r) \notin updateCache
          /\ Move(r, At(r, "update")) /\ UNCHANGED <<locked, updateCache>>
    /\ UNCHANGED <<exJob, tokens, refills, txt>>

commentUpdated(r) ==
    /\ exReq[r].at = "update"
    /\ \/ updateCache' = updateCache \cup {Cid(r)} /\ \E enough \in BOOLEAN : Looked(r, enough)
       \/ UNCHANGED updateCache /\ Looked(r, FALSE)
    /\ UNCHANGED <<exJob, tokens, refills, txt, commentCache>>

expireUpdate(c) ==
    /\ c \in updateCache /\ updateCache' = updateCache \ {c}
    /\ UNCHANGED <<exJob, exReq, tokens, refills, txt, locked, commentCache>>

----------------------------------------
MatcherAfterAnswer_Kept(r) == exReq[r].memo

(* postAnswerAuthorIdentityMatcher: the answer may have taken long. *)
MatcherAfterAnswer(r) == None

(* An author excused from one challenge may have to answer another. *)
answer(r) ==
    /\ exReq[r].at \in {"asked", "excused"}
    /\ Move(r, [exReq[r] EXCEPT !.at = "answered", !.answered = TRUE, !.memo = MatcherAfterAnswer(r), !.owned = Owns(r)])
    /\ UNCHANGED <<exJob, tokens, refills, txt, locked, commentCache, updateCache>>

(* tryRemoveTokens: nothing is taken from an empty limiter. *)
addToRateLimiter(r, success) ==
    IF exJob.rule.rate /\ success /\ tokens[Address(r)] >= 1
    THEN [tokens EXCEPT ![Address(r)] = @ - 1] ELSE tokens

(* The verdict; another challenge may still have failed. *)
conclude(r) ==
    /\ exReq[r].at \in {"excused", "answered"}
    /\ \E success \in BOOLEAN :
           /\ tokens' = addToRateLimiter(r, success)
           /\ Move(r, [exReq[r] EXCEPT !.at = IF success THEN "store" ELSE "done", !.accepted = success])
    /\ UNCHANGED <<exJob, refills, txt, locked, commentCache, updateCache>>

(* What is stored is checked again for the authority of its author. *)
grantAuthority(r) ==
    /\ exReq[r].at = "store"
    /\ LET memo == IF exReq[r].memo # None THEN exReq[r].memo ELSE IF Owns(r) THEN "match" ELSE "other" IN
       Move(r, [exReq[r] EXCEPT !.at = "done", !.memo = memo, !.granted = exJob.name[r] # None /\ memo = "match"])
    /\ UNCHANGED <<exJob, tokens, refills, txt, locked, commentCache, updateCache>>

(* The limiter refills over an hour; the owner of a name repoints it. *)
refill ==
    /\ refills < MaxRefills
    /\ \E s \in DOMAIN tokens : tokens[s] < Limit /\ tokens' = [tokens EXCEPT ![s] = @ + 1]
    /\ refills' = refills + 1
    /\ UNCHANGED <<exJob, exReq, txt, locked, commentCache, updateCache>>

repoint ==
    /\ \E n \in Names, k \in Keys : txt[n] # k /\ txt' = [txt EXCEPT ![n] = k]
    /\ UNCHANGED <<exJob, tokens, refills, locked, commentCache, updateCache>>
    /\ exReq' = [r \in Requests |-> [exReq[r] EXCEPT !.owned = exReq[r].owned \/ (Active(r) /\ Owns(r)')]]

ExInit ==
    /\ exJob \in ExWorkload
    /\ exReq = [r \in Requests |-> NewRequest]
    /\ tokens = [a \in {Address(r) : r \in Requests} |-> Limit]
    /\ refills = 0 /\ txt \in [Names -> Keys]
    /\ locked = {} /\ commentCache = {} /\ updateCache = {}

ExNext ==
    \/ \E r \in Requests :
           \/ shouldExcludePublication(r) \/ nameResolvesToSigner(r)
           \/ takeLock(r) \/ _getComment(r) \/ commentUpdated(r)
           \/ answer(r) \/ conclude(r) \/ grantAuthority(r)
    \/ \E c \in Cids : expireUpdate(c)
    \/ refill \/ repoint

ExSpec == ExInit /\ [][ExNext]_exVars

----------------------------------------
(* The authority of a name is only granted to a signer the name pointed to *)
(* at some moment since the author answered, however long that took. *)
AuthorityIsFresh == \A r \in Requests : exReq[r].granted => exReq[r].owned

(* A cid is locked exactly while a request looks it up, so that no failure *)
(* leaves the requests behind it waiting for ever. *)
LockedIsLookedUp ==
    /\ locked = {Cid(r) : r \in {o \in Requests : exReq[o].at \in {"fetch", "update"}}}
    /\ \A r, o \in Requests : (r # o /\ {exReq[r].at, exReq[o].at} \subseteq {"fetch", "update"}) => Cid(r) # Cid(o)

(* Whoever is excused by a comment wrote it in a friendly community, although *)
(* the comment may have been looked up for another author before. *)
FriendIsAuthor ==
    \A r \in Requests : (exReq[r].excused /\ ~HasAuthorRule) =>
        (exJob.writer[Cid(r)] = Signer(r) /\ exJob.home[Cid(r)] = "friendly")

ExcusedBy(a) == {r \in Requests : Address(r) = a /\ exReq[r].excused /\ exReq[r].accepted}

(* As long as its requests do not overlap, an address is excused at most as *)
(* often as the limit allows; a comment excuses beyond any limit. *)
LimitHoldsOneByOne ==
    \A a \in DOMAIN tokens :
        (exJob.rule.rate /\ ~exJob.rule.friend /\ \A r \in ExcusedBy(a) : exReq[r].alone)
            => Cardinality(ExcusedBy(a)) <= Limit + refills

(* The same for every request: publications per hour stay below the limit. *)
LimitHolds ==
    \A a \in DOMAIN tokens : exJob.rule.rate => Cardinality(ExcusedBy(a)) <= Limit + refills

(* The same for a signer, under whatever names it publishes. *)
LimitHoldsForSigners ==
    \A k \in Keys : exJob.rule.rate =>
        Cardinality({r \in Requests : Signer(r) = k /\ exReq[r].excused /\ exReq[r].accepted}) <= Limit + refills

(* Nobody is excused from a challenge on the strength of what is stale, of *)
(* somebody else or over the limit, and no lookup that fails holds up the *)
(* requests behind it (shouldExcludePublication, *)
(* shouldExcludeChallengeCommentCids). *)
ExclusionsAreSound ==
    AuthorityIsFresh /\ LockedIsLookedUp /\ FriendIsAuthor /\ LimitHoldsOneByOne
========================================
