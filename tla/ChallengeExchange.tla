-------------------- MODULE ChallengeExchange --------------------
(***************************************************************************)
(* The community side of the challenge exchange: handleChallengeRequest    *)
(* and handleChallengeAnswer of local-community/challenges.ts, with the    *)
(* store step of local-community/publication-store.ts and the part of      *)
(* stop() that the handlers observe.                                       *)
(*                                                                         *)
(* Node runs one handler at a time between two awaits, so every action     *)
(* below is the code from one await to the next.  A request delivery is a  *)
(* member of Req; several deliveries may carry the same challengeRequestId *)
(* (a pubsub message delivered twice) and several request ids may carry    *)
(* the same signed publication (a publisher that switched provider).       *)
(***************************************************************************)
EXTENDS Naturals, FiniteSets

CONSTANTS
    Req,      \* deliveries of CHALLENGEREQUEST messages
    Id,       \* challenge request ids
    Pub,      \* signed publications, identified by their signature
    Ans,      \* deliveries of CHALLENGEANSWER messages
    IdOf,     \* the request id a delivery carries
    PubOf,    \* the publication a delivery carries
    AnsId,    \* the request id an answer carries
    KindOf,   \* what a publication is: see Kinds
    LocalId,  \* ids of requests made by a publisher in the same process
    Faults,   \* the environment's faults that may happen: see FaultKinds
    Nobody      \* "no entry" in a map

\* A comment is duplicate-checked and answered with its encrypted record; an
\* edit or a moderation is duplicate-checked; a vote replaces the author's
\* previous one and is never a duplicate.
Kinds == {"comment", "edit", "vote"}

FaultKinds == {"evict", "stop", "badMessage", "pubsubFails", "storeFails", "purge", "timeout"}

ASSUME ConstantsAssumption ==
    /\ IdOf \in [Req -> Id]
    /\ PubOf \in [Req -> Pub]
    /\ AnsId \in [Ans -> Id]
    /\ KindOf \in [Pub -> Kinds]
    /\ LocalId \subseteq Id
    /\ Faults \subseteq FaultKinds
    /\ Nobody \notin Req

VARIABLES
    pc,         \* [Req -> where the handler of the delivery is suspended]
    waitOn,     \* [Req -> the handler whose inFlightExchange promise it awaits]
    waited,     \* handlers with waitedForInFlightExchange = true
    answered,   \* handlers whose challengeAnswerPromise is resolved
    verdict,    \* [Req -> the verification the handler settled on]
    ongoing,    \* _ongoingChallengeExchanges
    localMarks, \* _challengeExchangesFromLocalPublishers
    resolver,   \* _challengeAnswerResolveReject: [Id -> handler to resolve]
    inFlight,   \* _inFlightPublicationExchanges: [Pub -> handler]
    unsettled,  \* handlers whose own inFlightExchange promise is pending
    attempts,   \* _duplicatePublicationAttempts
    rows,       \* [Pub -> number of rows stored under this signature]
    state,      \* how far start() or stop() of the community is
    challenged, \* ids whose CHALLENGE reached the author
    onPubsub,   \* ids whose CHALLENGEVERIFICATION was sent over pubsub
    answerPc,   \* [Ans -> where the handler of the answer is]
    overtaken,  \* history: handlers whose inFlight entry was replaced or cleared
    replays,    \* history: deliveries of a publication stored then and since
    inserted    \* history: handlers that inserted the row of their publication

handlerVars == <<pc, waitOn, waited, answered, verdict>>
lockVars == <<inFlight, unsettled, overtaken>>
exchangeVars == <<ongoing, localMarks, resolver>>
storeVars == <<rows, attempts, inserted>>
netVars == <<challenged, onPubsub, answerPc>>
vars == <<handlerVars, lockVars, exchangeVars, storeVars, netVars, state, replays>>

Ended == {"done", "thrown", "ignored"}
UnderLock == {"validating", "challenging", "sendingChallenge", "challengeSent", "awaitingAnswer",
              "storing", "inserting", "encrypting", "rebuilding", "publishing", "published"}
PC == {"idle", "verifying", "waiting"} \cup UnderLock \cup Ended

Verdicts == {"none", "stored", "idempotent", "replayRejected", "failed"}
AnswerPC == {"undelivered", "verifying", "publishing", "published", "resolved", "rejected", "critical"}
CommunityState == {"started", "unsubscribed", "cleared", "stopped"}

TypeOK ==
    /\ pc \in [Req -> PC]
    /\ waitOn \in [Req -> Req \cup {Nobody}]
    /\ waited \subseteq Req
    /\ answered \subseteq Req
    /\ verdict \in [Req -> Verdicts]
    /\ ongoing \subseteq Id
    /\ localMarks \subseteq Id
    /\ resolver \in [Id -> Req \cup {Nobody}]
    /\ inFlight \in [Pub -> Req \cup {Nobody}]
    /\ unsettled \subseteq Req
    /\ attempts \in [Pub -> Nat]
    /\ rows \in [Pub -> Nat]
    /\ state \in CommunityState
    /\ challenged \subseteq Id
    /\ onPubsub \subseteq Id
    /\ answerPc \in [Ans -> AnswerPC]
    /\ overtaken \subseteq Req
    /\ replays \subseteq Req
    /\ inserted \subseteq Req

Init ==
    /\ pc = [h \in Req |-> "idle"]
    /\ waitOn = [h \in Req |-> Nobody]
    /\ waited = {} /\ answered = {}
    /\ verdict = [h \in Req |-> "none"]
    /\ ongoing = {} /\ localMarks = {}
    /\ resolver = [i \in Id |-> Nobody]
    /\ inFlight = [p \in Pub |-> Nobody]
    /\ unsettled = {}
    /\ attempts = [p \in Pub |-> 0]
    /\ rows = [p \in Pub |-> 0]
    /\ state = "started"
    /\ challenged = {} /\ onPubsub = {}
    /\ answerPc = [a \in Ans |-> "undelivered"]
    /\ overtaken = {} /\ replays = {} /\ inserted = {}

----------------------------------------
(* Steps shared by the handlers. *)

GoTo(h, label) == pc' = [pc EXCEPT ![h] = label]

\* The connection is destroyed at the very end of stop(); any query throws then.
dbUsable == state # "stopped"

\* cleanUpChallengeAnswerPromise: the local-publisher mark goes with the promise.
cleanUpChallengeAnswerPromise(i) ==
    /\ resolver' = [resolver EXCEPT ![i] = Nobody]
    /\ localMarks' = localMarks \ {i}

\* The tail every verification ends with: the exchange is over.
endExchange(i) ==
    /\ ongoing' = ongoing \ {i}
    /\ cleanUpChallengeAnswerPromise(i)

\* Bug: the finally block deletes whatever entry the signature has.
releaseLock_AnyEntry(h) ==
    /\ inFlight' = [inFlight EXCEPT ![PubOf[h]] = Nobody]
    /\ unsettled' = unsettled \ {h}
    /\ UNCHANGED overtaken

\* The finally block of handleChallengeRequest, for handlers that entered it.
releaseLock(h) ==
    /\ inFlight' = [inFlight EXCEPT ![PubOf[h]] = IF @ = h THEN Nobody ELSE @]
    /\ unsettled' = unsettled \ {h}
    /\ UNCHANGED overtaken

\* Register this handler's promise, replacing whatever entry is there.
register(h) ==
    /\ inFlight' = [inFlight EXCEPT ![PubOf[h]] = h]
    /\ unsettled' = unsettled \cup {h}
    /\ overtaken' = overtaken \cup ({inFlight[PubOf[h]]} \ {Nobody})
    /\ GoTo(h, "validating")

\* One turn of the while loop: wait on the entry that is there, or register.
waitOrRegister(h) ==
    \/ /\ inFlight[PubOf[h]] = Nobody
       /\ register(h)
       /\ UNCHANGED <<waitOn, waited>>
    \/ /\ inFlight[PubOf[h]] # Nobody
       /\ waitOn' = [waitOn EXCEPT ![h] = inFlight[PubOf[h]]]
       /\ waited' = waited \cup {h}
       /\ GoTo(h, "waiting")
       /\ UNCHANGED lockVars

\* Settle on a verification and go on to `label` to publish it.
settleOn(h, v, label) ==
    /\ verdict' = [verdict EXCEPT ![h] = v]
    /\ GoTo(h, label)

respondWithFailure(h) == settleOn(h, "failed", "publishing")

----------------------------------------
(* handleChallengeRequest, up to the per-signature lock. *)

ReceiveRequest(h) ==
    /\ pc[h] = "idle" /\ state = "started"
    /\ replays' = IF rows[PubOf[h]] > 0 THEN replays \cup {h} ELSE replays
    /\ \/ /\ IdOf[h] \in ongoing
          /\ GoTo(h, "ignored")
          /\ UNCHANGED exchangeVars
       \/ /\ IdOf[h] \notin ongoing
          /\ ongoing' = ongoing \cup {IdOf[h]}
          /\ localMarks' = localMarks \cup ({IdOf[h]} \cap LocalId)
          /\ GoTo(h, "verifying")
          /\ UNCHANGED resolver
    /\ UNCHANGED <<waitOn, waited, answered, verdict, lockVars, storeVars, netVars, state>>

\* verifyChallengeRequest rejects the message: the handler throws, no answer.
RejectRequestSignature(h) ==
    /\ pc[h] = "verifying" /\ "badMessage" \in Faults
    /\ GoTo(h, "thrown")
    /\ UNCHANGED <<waitOn, waited, answered, verdict, lockVars, exchangeVars, storeVars, netVars, state, replays>>

\* Undecryptable, unparsable or wrongly signed publication: a failure answer.
RejectRequestContent(h) ==
    /\ pc[h] = "verifying" /\ "badMessage" \in Faults
    /\ respondWithFailure(h)
    /\ UNCHANGED <<waitOn, waited, answered, lockVars, exchangeVars, storeVars, netVars, state, replays>>

\* The author query of parseChallengeRequest on a destroyed connection throws.
ParseOnClosedDb(h) ==
    /\ pc[h] = "verifying" /\ ~dbUsable
    /\ GoTo(h, "thrown")
    /\ UNCHANGED <<waitOn, waited, answered, verdict, lockVars, exchangeVars, storeVars, netVars, state, replays>>

ReachLock(h) ==
    /\ pc[h] = "verifying" /\ dbUsable
    /\ waitOrRegister(h)
    /\ UNCHANGED <<answered, verdict, exchangeVars, storeVars, netVars, state, replays>>

\* The awaited exchange settled; the loop condition is evaluated again.
WakeUp(h) ==
    /\ pc[h] = "waiting" /\ waitOn[h] \notin unsettled
    /\ waitOrRegister(h)
    /\ UNCHANGED <<answered, verdict, exchangeVars, storeVars, netVars, state, replays>>

\* Bug: the wait on an in-flight exchange has no timer.
WaitTimesOut_NoTimer(h) == FALSE

\* The backstop: one ttl passed, break out of the loop and register regardless.
WaitTimesOut(h) ==
    /\ pc[h] = "waiting" /\ waitOn[h] \in unsettled /\ "timeout" \in Faults
    /\ register(h)
    /\ UNCHANGED <<waitOn, waited, answered, verdict, exchangeVars, storeVars, netVars, state, replays>>

----------------------------------------
(* Under the lock: validation. *)

\* Bug: the duplicate check misses comments.
isDuplicate_EditsOnly(p) == KindOf[p] = "edit" /\ rows[p] > 0

\* Bug: everything but a vote is taken for a duplicate.
isDuplicate_Always(p) == KindOf[p] # "vote"

\* hasCommentWithSignatureEncoded and its siblings for edits and moderations.
isDuplicate(p) == KindOf[p] # "vote" /\ rows[p] > 0

\* Where the idempotent answer goes on: only a comment is rebuilt from its row.
idempotentLabel(p) == IF KindOf[p] = "comment" THEN "rebuilding" ELSE "publishing"

ValidateOnClosedDb(h) ==
    /\ pc[h] = "validating" /\ ~dbUsable
    /\ GoTo(h, "thrown") /\ releaseLock(h)
    /\ UNCHANGED <<waitOn, waited, answered, verdict, exchangeVars, storeVars, netVars, state, replays>>

\* `attempts` of validatePublicationOrRespondWithFailure: 0 for a request that waited.
countedAttempts(h) == IF h \in waited THEN 0 ELSE attempts[PubOf[h]] + 1

ValidatePublication(h) ==
    LET p == PubOf[h] IN
    /\ pc[h] = "validating" /\ dbUsable
    /\ \/ /\ "badMessage" \in Faults
          /\ respondWithFailure(h)
          /\ UNCHANGED attempts
       \/ /\ isDuplicate(p)
          /\ attempts' = IF h \in waited THEN attempts ELSE [attempts EXCEPT ![p] = countedAttempts(h)]
          /\ IF countedAttempts(h) <= 1 THEN settleOn(h, "idempotent", idempotentLabel(p))
                           ELSE settleOn(h, "replayRejected", "publishing")
       \/ /\ ~isDuplicate(p)
          /\ GoTo(h, "challenging")
          /\ UNCHANGED <<verdict, attempts>>
    /\ UNCHANGED <<waitOn, waited, answered, lockVars, exchangeVars, rows, inserted, netVars, state, replays>>

----------------------------------------
(* Under the lock: the challenge (runChallengeExchangeIfNeeded). *)

\* getChallengeVerification decides without the author, fails, or needs answers.
RunChallenge(h) ==
    /\ pc[h] = "challenging"
    /\ \/ GoTo(h, "storing") /\ UNCHANGED verdict
       \/ GoTo(h, "sendingChallenge") /\ UNCHANGED verdict
       \/ respondWithFailure(h)
    /\ UNCHANGED <<waitOn, waited, answered, lockVars, exchangeVars, storeVars, netVars, state, replays>>

\* publishChallenges for a remote author: the message is on the wire while the
\* publish call is still outstanding.
SendChallenge(h) ==
    /\ pc[h] = "sendingChallenge" /\ IdOf[h] \notin localMarks
    /\ challenged' = challenged \cup {IdOf[h]}
    /\ GoTo(h, "challengeSent")
    /\ UNCHANGED <<waitOn, waited, answered, verdict, lockVars, exchangeVars, storeVars, onPubsub, answerPc, state, replays>>

\* After publishChallenges: refresh the ongoing entry and set the resolver.
awaitAnswer(h) ==
    /\ ongoing' = ongoing \cup {IdOf[h]}
    /\ resolver' = [resolver EXCEPT ![IdOf[h]] = h]
    /\ GoTo(h, "awaitingAnswer")
    /\ UNCHANGED localMarks

ChallengePublished(h) ==
    /\ pc[h] = "challengeSent"
    /\ awaitAnswer(h)
    /\ UNCHANGED <<waitOn, waited, answered, verdict, lockVars, storeVars, netVars, state, replays>>

\* publishChallenges for a local publisher only emits; nothing is awaited after it.
EmitLocalChallenge(h) ==
    /\ pc[h] = "sendingChallenge" /\ IdOf[h] \in localMarks
    /\ challenged' = challenged \cup {IdOf[h]}
    /\ awaitAnswer(h)
    /\ UNCHANGED <<waitOn, waited, answered, verdict, lockVars, storeVars, onPubsub, answerPc, state, replays>>

\* A pubsub failure surfaces as a misconfigured challenge: a failure answer.
ChallengePublishFails(h) ==
    /\ pc[h] = "challengeSent" /\ "pubsubFails" \in Faults
    /\ respondWithFailure(h)
    /\ UNCHANGED <<waitOn, waited, answered, lockVars, exchangeVars, storeVars, netVars, state, replays>>

\* The answer is in; the challenge's verify accepts or refuses it.
AnswerReceived(h) ==
    /\ pc[h] = "awaitingAnswer" /\ h \in answered
    /\ cleanUpChallengeAnswerPromise(IdOf[h])
    /\ \/ GoTo(h, "storing") /\ UNCHANGED verdict
       \/ respondWithFailure(h)
    /\ UNCHANGED <<waitOn, waited, answered, lockVars, ongoing, storeVars, netVars, state, replays>>

\* Bug: the timed-out exchange leaves its resolver behind.
AnswerTimesOut_LeavesResolver(h) ==
    /\ pc[h] = "awaitingAnswer" /\ h \notin answered
    /\ respondWithFailure(h)
    /\ UNCHANGED <<waitOn, waited, answered, lockVars, exchangeVars, storeVars, netVars, state, replays>>

\* ERR_COMMUNITY_TIMED_OUT_WAITING_FOR_CHALLENGE_ANSWER
AnswerTimesOut(h) ==
    /\ pc[h] = "awaitingAnswer" /\ h \notin answered
    /\ cleanUpChallengeAnswerPromise(IdOf[h])
    /\ respondWithFailure(h)
    /\ UNCHANGED <<waitOn, waited, answered, lockVars, ongoing, storeVars, netVars, state, replays>>

----------------------------------------
(* Under the lock: storing (publication-store.ts). *)

\* The last-resort duplicate check, before the awaited verbatim check.
CheckStoredDuplicate(h) ==
    LET p == PubOf[h] IN
    /\ pc[h] = "storing"
    /\ \/ /\ ~dbUsable \/ "storeFails" \in Faults
          /\ respondWithFailure(h)
       \/ /\ dbUsable /\ isDuplicate(p)
          /\ settleOn(h, "idempotent", idempotentLabel(p))
       \/ /\ dbUsable /\ ~isDuplicate(p)
          /\ GoTo(h, "inserting") /\ UNCHANGED verdict
    /\ UNCHANGED <<waitOn, waited, answered, lockVars, exchangeVars, storeVars, netVars, state, replays>>

\* The synchronous insert.  A row that an overlapping exchange stored since the
\* check is not looked for again: the insert violates the primary key when the
\* records hash alike, and adds a second row when they do not.
InsertPublication(h) ==
    LET p == PubOf[h] IN
    /\ pc[h] = "inserting"
    /\ \/ /\ ~dbUsable \/ "storeFails" \in Faults \/ isDuplicate(p)
          /\ respondWithFailure(h)
          /\ UNCHANGED <<rows, inserted>>
       \/ /\ dbUsable
          /\ rows' = [rows EXCEPT ![p] = IF KindOf[p] = "vote" THEN 1 ELSE @ + 1]
          /\ inserted' = inserted \cup {h}
          /\ IF KindOf[p] = "comment" THEN GoTo(h, "encrypting") /\ UNCHANGED verdict
                                      ELSE settleOn(h, "stored", "publishing")
    /\ UNCHANGED <<waitOn, waited, answered, lockVars, exchangeVars, attempts, netVars, state, replays>>

\* storePublicationAndEncryptForChallengeVerification after storePublication: it
\* queries the author again, so a connection closed in between fails the answer.
EncryptStoredComment(h) ==
    /\ pc[h] = "encrypting"
    /\ settleOn(h, IF dbUsable THEN "stored" ELSE "failed", "publishing")
    /\ UNCHANGED <<waitOn, waited, answered, lockVars, exchangeVars, storeVars, netVars, state, replays>>

\* publishIdempotentDuplicateVerification, after the stored row was read.
RebuildStoredComment(h) ==
    /\ pc[h] = "rebuilding"
    /\ \/ /\ dbUsable
          /\ GoTo(h, "publishing") /\ UNCHANGED <<lockVars>>
       \/ /\ ~dbUsable
          /\ GoTo(h, "thrown") /\ releaseLock(h)
    /\ UNCHANGED <<waitOn, waited, answered, verdict, exchangeVars, storeVars, netVars, state, replays>>

----------------------------------------
(* Publishing the verification. *)

EmitLocalVerification(h) ==
    /\ pc[h] = "publishing" /\ IdOf[h] \in localMarks
    /\ endExchange(IdOf[h])
    /\ releaseLock(h)
    /\ GoTo(h, "done")
    /\ UNCHANGED <<waitOn, waited, answered, verdict, storeVars, netVars, state, replays>>

SendVerification(h) ==
    /\ pc[h] = "publishing" /\ IdOf[h] \notin localMarks
    /\ onPubsub' = onPubsub \cup {IdOf[h]}
    /\ GoTo(h, "published")
    /\ UNCHANGED <<waitOn, waited, answered, verdict, lockVars, exchangeVars, storeVars, challenged, answerPc, state, replays>>

VerificationPublished(h) ==
    /\ pc[h] = "published"
    /\ endExchange(IdOf[h])
    /\ releaseLock(h)
    /\ GoTo(h, "done")
    /\ UNCHANGED <<waitOn, waited, answered, verdict, storeVars, netVars, state, replays>>

\* pubsubPublish rejects: the handler throws, only the finally block runs.
VerificationPublishFails(h) ==
    /\ pc[h] = "published" /\ "pubsubFails" \in Faults
    /\ releaseLock(h)
    /\ GoTo(h, "thrown")
    /\ UNCHANGED <<waitOn, waited, answered, verdict, exchangeVars, storeVars, netVars, state, replays>>

----------------------------------------
(* handleChallengeAnswer. *)

AnswerTo(a, label) == answerPc' = [answerPc EXCEPT ![a] = label]

\* An author answers only a challenge it was sent; a publisher in this process
\* calls the handler directly, also while the community stops.
ReceiveAnswer(a) ==
    /\ answerPc[a] = "undelivered" /\ AnsId[a] \in challenged
    /\ state = "started" \/ AnsId[a] \in LocalId
    /\ AnswerTo(a, IF AnsId[a] \in ongoing THEN "verifying" ELSE "publishing")
    /\ UNCHANGED <<handlerVars, lockVars, exchangeVars, storeVars, challenged, onPubsub, state, replays>>

RejectAnswerSignature(a) ==
    /\ answerPc[a] = "verifying" /\ "badMessage" \in Faults
    /\ endExchange(AnsId[a])
    /\ AnswerTo(a, "rejected")
    /\ UNCHANGED <<handlerVars, lockVars, storeVars, challenged, onPubsub, state, replays>>

RejectAnswerContent(a) ==
    /\ answerPc[a] = "verifying" /\ "badMessage" \in Faults
    /\ AnswerTo(a, "publishing")
    /\ UNCHANGED <<handlerVars, lockVars, exchangeVars, storeVars, challenged, onPubsub, state, replays>>

ResolveAnswer(a) ==
    LET h == resolver[AnsId[a]] IN
    /\ answerPc[a] = "verifying"
    /\ \/ /\ h # Nobody
          /\ answered' = answered \cup {h}
          /\ AnswerTo(a, "resolved")
       \/ /\ h = Nobody
          /\ AnswerTo(a, "critical")
          /\ UNCHANGED answered
    /\ UNCHANGED <<pc, waitOn, waited, verdict, lockVars, exchangeVars, storeVars, challenged, onPubsub, state, replays>>

\* publishFailedChallengeVerification called by the answer handler.
EmitLocalAnswerFailure(a) ==
    /\ answerPc[a] = "publishing" /\ AnsId[a] \in localMarks
    /\ endExchange(AnsId[a])
    /\ AnswerTo(a, "rejected")
    /\ UNCHANGED <<handlerVars, lockVars, storeVars, challenged, onPubsub, state, replays>>

SendAnswerFailure(a) ==
    /\ answerPc[a] = "publishing" /\ AnsId[a] \notin localMarks
    /\ onPubsub' = onPubsub \cup {AnsId[a]}
    /\ AnswerTo(a, "published")
    /\ UNCHANGED <<handlerVars, lockVars, exchangeVars, storeVars, challenged, state, replays>>

AnswerFailurePublished(a) ==
    /\ answerPc[a] = "published"
    /\ \/ endExchange(AnsId[a])
       \/ "pubsubFails" \in Faults /\ UNCHANGED exchangeVars
    /\ AnswerTo(a, "rejected")
    /\ UNCHANGED <<handlerVars, lockVars, storeVars, challenged, onPubsub, state, replays>>

----------------------------------------
(* The caches' limits, moderation, stop() and start(). *)

\* An entry leaves an LRU cache when its ttl passes or 1000 newer ones push it out.
EvictExchange(i) ==
    /\ "evict" \in Faults
    /\ \/ i \in ongoing /\ ongoing' = ongoing \ {i} /\ UNCHANGED resolver
       \/ resolver[i] # Nobody /\ resolver' = [resolver EXCEPT ![i] = Nobody] /\ UNCHANGED ongoing
    /\ UNCHANGED <<handlerVars, lockVars, localMarks, storeVars, netVars, state, replays>>

EvictAttempts(p) ==
    /\ "evict" \in Faults /\ attempts[p] # 0
    /\ attempts' = [attempts EXCEPT ![p] = 0]
    /\ UNCHANGED <<handlerVars, lockVars, exchangeVars, rows, inserted, netVars, state, replays>>

\* A purge by a moderator, or the oldest pending comment making room.
PurgeRows(p) ==
    /\ "purge" \in Faults /\ rows[p] # 0
    /\ rows' = [rows EXCEPT ![p] = 0]
    /\ replays' = {h \in replays : PubOf[h] # p}
    /\ UNCHANGED <<handlerVars, lockVars, exchangeVars, attempts, inserted, netVars, state>>

StopUnsubscribes ==
    /\ "stop" \in Faults /\ state = "started"
    /\ state' = "unsubscribed"
    /\ UNCHANGED <<handlerVars, lockVars, exchangeVars, storeVars, netVars, replays>>

StopClearsMaps ==
    /\ state = "unsubscribed"
    /\ state' = "cleared"
    /\ attempts' = [p \in Pub |-> 0]
    /\ inFlight' = [p \in Pub |-> Nobody]
    /\ overtaken' = overtaken \cup {h \in Req : inFlight[PubOf[h]] = h}
    /\ UNCHANGED <<handlerVars, unsettled, exchangeVars, rows, inserted, netVars, replays>>

StopClosesDb ==
    /\ state = "cleared"
    /\ state' = "stopped"
    /\ UNCHANGED <<handlerVars, lockVars, exchangeVars, storeVars, netVars, replays>>

\* initBeforeStarting reopens the connection and keeps the caches that exist.
Start ==
    /\ state = "stopped"
    /\ state' = "started"
    /\ UNCHANGED <<handlerVars, lockVars, exchangeVars, storeVars, netVars, replays>>

----------------------------------------

\* What a handler does by itself once its await settles, the timers included.
HandlerStep(h) ==
    \/ RejectRequestSignature(h) \/ RejectRequestContent(h) \/ ParseOnClosedDb(h)
    \/ ReachLock(h) \/ WakeUp(h) \/ WaitTimesOut(h)
    \/ ValidateOnClosedDb(h) \/ ValidatePublication(h)
    \/ SendChallenge(h) \/ ChallengePublished(h) \/ EmitLocalChallenge(h) \/ ChallengePublishFails(h)
    \/ AnswerReceived(h) \/ AnswerTimesOut(h)
    \/ CheckStoredDuplicate(h) \/ InsertPublication(h) \/ EncryptStoredComment(h) \/ RebuildStoredComment(h)
    \/ EmitLocalVerification(h) \/ SendVerification(h)
    \/ VerificationPublished(h) \/ VerificationPublishFails(h)

AnswerStep(a) ==
    \/ RejectAnswerSignature(a) \/ RejectAnswerContent(a) \/ ResolveAnswer(a)
    \/ EmitLocalAnswerFailure(a) \/ SendAnswerFailure(a) \/ AnswerFailurePublished(a)

StopStep == StopClearsMaps \/ StopClosesDb

Next ==
    \/ \E h \in Req : ReceiveRequest(h) \/ RunChallenge(h) \/ HandlerStep(h)
    \/ \E a \in Ans : ReceiveAnswer(a) \/ AnswerStep(a)
    \/ \E i \in Id : EvictExchange(i)
    \/ \E p \in Pub : EvictAttempts(p) \/ PurgeRows(p)
    \/ StopUnsubscribes \/ StopStep \/ Start

Spec == Init /\ [][Next]_vars

\* The event loop resumes every handler whose await settled and every timer
\* fires.  A challenge script may run forever, so RunChallenge is not fair; the
\* network, the author, moderators and the owner owe nothing.
Fairness ==
    /\ \A h \in Req : WF_vars(HandlerStep(h))
    /\ \A a \in Ans : WF_vars(AnswerStep(a))
    /\ WF_vars(StopStep)

FairSpec == Spec /\ Fairness
----------------------------------------
(* Safety. *)

accepted == {PubOf[h] : h \in inserted}

\* One exchange at a time per signed publication (issue #228): of two handlers
\* between registration and the finally block with the same publication, one has
\* had its _inFlightPublicationExchanges entry replaced after a full ttl or
\* cleared by stop().
LockExclusion ==
    \A g, h \in unsettled :
        g # h /\ PubOf[g] = PubOf[h] => g \in overtaken \/ h \in overtaken

\* An entry of _inFlightPublicationExchanges always belongs to a handler that has
\* yet to settle it, so a request that finds an entry never waits on a promise
\* nobody will resolve.
NoDanglingLock ==
    \A p \in Pub : inFlight[p] # Nobody => inFlight[p] \in unsettled /\ PubOf[inFlight[p]] = p

\* A signed publication is stored at most once as long as none of its exchanges
\* was overtaken, whatever was purged, evicted or failed in between.
StoredOnce ==
    \A p \in Pub : (\A h \in Req : PubOf[h] = p => h \notin overtaken) => rows[p] <= 1

\* The author keeps the single idempotent retry: a request is rejected as a
\* replay only if it never waited on an in-flight exchange and another request
\* that had not waited either has already been given the idempotent success.
SingleRetryKept ==
    \A h \in Req : verdict[h] = "replayRejected" =>
        /\ h \notin waited
        /\ \E g \in Req \ waited : PubOf[g] = PubOf[h] /\ verdict[g] = "idempotent"

\* A resolver in _challengeAnswerResolveReject belongs to the handler that is
\* awaiting that very answer: an accepted answer is never delivered to an
\* exchange that has moved on or to the exchange of another request id.
ResolverIsAwaited ==
    \A i \in Id : resolver[i] # Nobody =>
        pc[resolver[i]] = "awaitingAnswer" /\ IdOf[resolver[i]] = i

\* A request for a publication whose row is already there when it arrives never
\* adds a row, whether or not it was overtaken, evicted or answered twice; a vote
\* is replaced.
ReplayStoresNothing ==
    \A h \in replays \cap inserted : KindOf[PubOf[h]] = "vote"

----------------------------------------
(* What the repository says and the code does not do. *)

\* challenges.ts:118 and :776: an exchange with a local publisher stays off
\* pubsub.
LocalExchangeOffPubsub == onPubsub \cap LocalId = {}

\* challenges.ts:910: an answer to an ongoing exchange always finds its promise.
AnswerFindsItsPromise == \A a \in Ans : answerPc[a] # "critical"

\* challenge-flow.md, "Already stored": once a signature is stored, one request
\* that arrives later is answered idempotently and further ones are rejected.
ReplayAnsweredOnce ==
    \A g, h \in replays :
        g # h /\ PubOf[g] = PubOf[h] => ~(verdict[g] = "idempotent" /\ verdict[h] = "idempotent")

----------------------------------------
(* Liveness. *)

\* No request is parked behind another forever, not even behind a challenge
\* script that never returns: the ttl backstop lets it go on.
WaitersProceed == \A h \in Req : pc[h] = "waiting" ~> pc[h] # "waiting"

\* A signature is released again unless a challenge script never returns.
LockReleased ==
    \A p \in Pub :
        inFlight[p] # Nobody ~> (inFlight[p] = Nobody \/ \E h \in Req : [](pc[h] = "challenging"))

\* Every request that enters an exchange is answered, or its handler throws, or
\* its challenge script never returns.
EveryRequestEnds ==
    \A h \in Req : pc[h] = "verifying" ~> (pc[h] \in Ended \/ [](pc[h] = "challenging"))

----------------------------------------
(* The promise of the exchange, as an abstract specification. *)

told == [h \in Req |->
            IF pc[h] # "done" THEN "none"
            ELSE IF verdict[h] \in {"stored", "idempotent"} THEN "accepted" ELSE "rejected"]

Promise == INSTANCE PublicationIntake WITH stored <- accepted

\* Every step of the handlers is a step of the abstract intake or invisible to it.
RefinesIntake == Promise!Spec

\* The in-flight map of handleChallengeRequest both excludes and lets go: two
\* exchanges of one signed publication never run side by side unless a ttl or
\* stop() took the entry away, and no entry is left for a later request to wait
\* on.
ExchangeLocks ==
    LockExclusion /\ NoDanglingLock

\* A publication sent again, by its author, by the network or by somebody who
\* kept a copy, is stored once and costs the author nothing: neither a second
\* row, nor the single idempotent retry (handleChallengeRequest,
\* storePublication).
ReplaySafety ==
    StoredOnce /\ SingleRetryKept /\ ReplayStoresNothing

\* No request is stuck: those that wait for an exchange go on, the exchange's
\* entry goes away, and every request that enters one is answered or throws,
\* unless a challenge script never returns.
ExchangeEnds ==
    WaitersProceed /\ LockReleased /\ EveryRequestEnds
========================================
