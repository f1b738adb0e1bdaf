-------------------- MODULE PublicationExchange --------------------
(***************************************************************************)
(* The publisher's half of a challenge exchange (publication.ts): publish() *)
(* sends the signed comment as a challenge request to one pubsub provider   *)
(* after another, a watchdog tries the next provider when no answer comes,  *)
(* the messages of the community arrive in any number of copies, the user   *)
(* answers the challenge and may stop the publication at any time.          *)
(*                                                                         *)
(* Every action is the code from one await to the next.  publish() and the  *)
(* watchdog it leaves behind are one process, a call; a stopped publication *)
(* may be published again while earlier calls still sleep.  Publishing to a *)
(* community of the same process and over RPC are not part of this module.  *)
(***************************************************************************)
EXTENDS Naturals, FiniteSets

CONSTANTS
    MaxCalls,    \* bound: calls of publish()
    MaxStops,    \* bound: calls of stop()
    N,           \* length of the provider list, at least 2
    Provider,
    ProviderAt,  \* the list: a single provider is listed twice
    Libp2p,      \* whether the providers are libp2p clients
    Copy,        \* handlers of incoming messages (a bound on deliveries)
    Ans,         \* calls of publishChallengeAnswers
    Faults       \* the faults that may happen: see FaultKinds

\* A subscribe or publish call throws; a message is not valid; the answer
\* cannot be signed or published; an unsubscribe call throws; the community
\* cannot be loaded.
FaultKinds == {"attempt", "message", "answer", "unsubscribe", "load"}

Call == 1..MaxCalls
Exchange == Call \X (1..N)   \* a challenge request: the call, the place in the list
StopCall == 0                \* stop(), beside the calls of publish()
Unsubscriber == {StopCall} \cup Call \cup Copy

ASSUME ConstantsAssumption ==
    /\ MaxCalls \in Nat /\ MaxStops \in Nat
    /\ N \in Nat /\ N >= 2
    /\ ProviderAt \in [1..N -> Provider]
    /\ Libp2p \in BOOLEAN
    /\ Faults \subseteq FaultKinds
    /\ Copy \cap ({StopCall} \cup Call) = {}

VARIABLES
    state, publishingState,
    community,    \* _community: not loaded, without or with a pubsubTopic
    subscribed,   \* providers that deliver the topic's messages to the handler
    todo,         \* providers a pubsubUnsubscribe call has still to visit
    \* _challengeExchanges
    created, published, errored, challenged, verified, answerFailed,
    claimed,      \* challengeAnswerPublishInFlight
    answered,     \* challengeAnswer
    sent,         \* requests that may have reached the community
    aged,         \* requests published two minutes ago
    \* the calls of publish()
    pc, at,
    retrying,     \* calls in the loop of the watchdog
    aborted,      \* calls whose load of the community stop() aborted
    \* the other processes
    stopPc, msg, apc,
    \* history and bounds
    challengeEvents, verdictEvents, acks, stops,
    outcome       \* what last ended the publication: stop() or a verification

exchangeVars == <<created, published, errored, challenged, verified, answerFailed, claimed, answered, sent, aged>>
callVars == <<pc, at, retrying, aborted>>
historyVars == <<challengeEvents, verdictEvents, acks, outcome, stops>>
vars == <<state, publishingState, community, subscribed, todo, exchangeVars, callVars, stopPc, msg, apc, historyVars>>

PublishingState == {"stopped", "fetching", "publishing-challenge-request", "waiting-challenge",
                    "waiting-challenge-answers", "publishing-challenge-answer",
                    "waiting-challenge-verification", "succeeded", "failed"}
CallPC == {"idle", "preparing", "generating", "subscribing", "abandoning", "requesting",
           "watching", "pausing", "lastwait", "failing", "fading", "done"}
NoMsg == [phase |-> "idle"]
Msg == {NoMsg} \cup [phase : {"verifying", "updating", "unsubscribing", "done"},
                     kind : {"challenge", "success", "failure"}, of : Exchange]

TypeOK ==
    /\ state \in {"stopped", "publishing"} /\ publishingState \in PublishingState
    /\ community \in {"unknown", "disabled", "open"}
    /\ subscribed \subseteq Provider /\ todo \in [Unsubscriber -> SUBSET Provider]
    /\ created \subseteq Exchange /\ published \subseteq created /\ errored \subseteq created
    /\ challenged \subseteq sent /\ verified \subseteq sent /\ sent \subseteq created
    /\ claimed \subseteq challenged /\ answered \subseteq challenged /\ answerFailed \subseteq challenged
    /\ aged \subseteq published
    /\ pc \in [Call -> CallPC] /\ at \in [Call -> 1..(N + 2)] /\ retrying \subseteq Call /\ aborted \subseteq Call
    /\ stopPc \in {"idle", "unsubscribing"}
    /\ msg \in [Copy -> Msg]
    /\ apc \in [Ans -> {"idle", "signing", "sending", "done"}]
    /\ challengeEvents \in Nat /\ verdictEvents \in [Exchange -> Nat] /\ acks \in Nat
    /\ outcome \in {"none", "stopped", "succeeded", "failed"} /\ stops \in Nat

Init ==
    /\ state = "stopped" /\ publishingState = "stopped" /\ community = "unknown"
    /\ subscribed = {} /\ todo = [u \in Unsubscriber |-> {}]
    /\ created = {} /\ published = {} /\ errored = {} /\ challenged = {} /\ verified = {}
    /\ answerFailed = {} /\ claimed = {} /\ answered = {} /\ sent = {} /\ aged = {}
    /\ pc = [c \in Call |-> "idle"] /\ at = [c \in Call |-> 1] /\ retrying = {} /\ aborted = {}
    /\ stopPc = "idle" /\ msg = [h \in Copy |-> NoMsg] /\ apc = [a \in Ans |-> "idle"]
    /\ challengeEvents = 0 /\ verdictEvents = [e \in Exchange |-> 0] /\ acks = 0
    /\ outcome = "none" /\ stops = 0

Request(c) == <<c, at[c]>>

GoTo(c, where) == pc' = [pc EXCEPT ![c] = where]

\* Mutant: only a verification counts as a response.
Responded_Verified == verified # {}

\* _didWeReceiveChallengeOrChallengeVerification
Responded == challenged \cup verified # {}

\* _isAllAttemptsExhausted: over the exchanges of every call.
isAllAttemptsExhausted(failedOnes, oldOnes) ==
    /\ Cardinality(created) = N
    /\ \A e \in created : e \notin challenged \cup verified /\ e \in failedOnes \cup answerFailed \cup oldOnes

\* _postSucessOrFailurePublishing up to the unsubscribe calls: pubsubUnsubscribe
\* visits the kubo providers only.
postSucessOrFailurePublishing(u) ==
    /\ state' = "stopped"
    /\ todo' = [todo EXCEPT ![u] = IF community = "open" /\ ~Libp2p THEN Provider ELSE {}]

\* pubsubUnsubscribe visits the next provider; an error is emitted and passed over.
UnsubscribeNext(u) ==
    /\ \E p \in todo[u] :
           /\ todo' = [todo EXCEPT ![u] = @ \ {p}]
           /\ subscribed' = subscribed \ {p} \/ ("unsubscribe" \in Faults /\ subscribed' = subscribed)
    /\ UNCHANGED <<state, publishingState, community, exchangeVars, callVars, stopPc, msg, apc, historyVars>>

----------------------------------------
(* publish() and its watchdog. *)

\* publish(); a caller that publishes again has seen the publication stop and
\* has awaited its stop().
publish(c) ==
    /\ pc[c] = "idle" /\ \A d \in Call : d < c => pc[d] # "idle"
    /\ state = "stopped" /\ stopPc = "idle"
    /\ state' = "publishing"
    /\ publishingState' = IF community = "unknown" THEN "fetching" ELSE publishingState
    /\ GoTo(c, "preparing")
    /\ outcome' = "none"
    /\ UNCHANGED <<community, subscribed, todo, exchangeVars, at, retrying, aborted, stopPc, msg, apc,
                   challengeEvents, verdictEvents, acks, stops>>

\* The head of the loops over the providers.
tryProvider(c, i, inWatchdog) ==
    /\ at' = [at EXCEPT ![c] = i]
    /\ GoTo(c, IF ~Responded /\ i <= N THEN "generating" ELSE IF inWatchdog THEN "lastwait" ELSE "watching")

\* The community is loaded and the publication signed; a community that runs no
\* challenge exchange ends the call.
Prepared(c) ==
    /\ pc[c] = "preparing"
    /\ community' \in IF community = "unknown" THEN {"open", "disabled"} ELSE {community}
    /\ IF community' = "disabled"
         THEN /\ state' = "stopped" /\ publishingState' = "failed"
              /\ GoTo(c, "done") /\ UNCHANGED at
         ELSE tryProvider(c, 1, FALSE) /\ UNCHANGED <<state, publishingState>>
    /\ UNCHANGED <<subscribed, todo, exchangeVars, retrying, aborted, stopPc, msg, apc, historyVars>>

\* The community cannot be loaded, or the load was aborted by stop().
PrepareFails(c) ==
    /\ pc[c] = "preparing" /\ community = "unknown"
    /\ "load" \in Faults \/ c \in aborted
    /\ state' = "stopped" /\ publishingState' = "failed"
    /\ GoTo(c, "done")
    /\ UNCHANGED <<community, subscribed, todo, exchangeVars, at, retrying, aborted, stopPc, msg, apc, historyVars>>

\* _generateChallengeRequestToPublish and the start of the subscribe call.
generateChallengeRequestToPublish(c) ==
    /\ pc[c] = "generating"
    /\ created' = created \cup {Request(c)}
    /\ publishingState' = "publishing-challenge-request"
    /\ GoTo(c, "subscribing")
    /\ UNCHANGED <<state, community, subscribed, todo, published, errored, challenged, verified, answerFailed,
                   claimed, answered, sent, aged, at, retrying, aborted, stopPc, msg, apc, historyVars>>

\* Mutant: a stopped publication is not abandoned (issue #270).
pubsubSubscribeOnProvider_NoAbandon(c) ==
    /\ pc[c] = "subscribing"
    /\ subscribed' = subscribed \cup {ProviderAt[at[c]]}
    /\ sent' = sent \cup {Request(c)} /\ GoTo(c, "requesting")
    /\ UNCHANGED <<state, publishingState, community, todo, created, published, errored, challenged, verified,
                   answerFailed, claimed, answered, aged, at, retrying, aborted, stopPc, msg, apc, historyVars>>

\* The subscribe call returns; a publication stopped meanwhile abandons the
\* provider (_abandonProviderIfStoppedWhileSubscribing), else the request goes out.
pubsubSubscribeOnProvider(c) ==
    /\ pc[c] = "subscribing"
    /\ subscribed' = subscribed \cup {ProviderAt[at[c]]}
    /\ IF state = "stopped"
         THEN GoTo(c, "abandoning") /\ UNCHANGED sent
         ELSE GoTo(c, "requesting") /\ sent' = sent \cup {Request(c)}
    /\ UNCHANGED <<state, publishingState, community, todo, created, published, errored, challenged, verified,
                   answerFailed, claimed, answered, aged, at, retrying, aborted, stopPc, msg, apc, historyVars>>

abandonProvider(c) ==
    /\ pc[c] = "abandoning"
    /\ \/ subscribed' = subscribed \ {ProviderAt[at[c]]}
       \/ "unsubscribe" \in Faults /\ subscribed' = subscribed
    /\ GoTo(c, "done")
    /\ UNCHANGED <<state, publishingState, community, todo, exchangeVars, at, retrying, aborted, stopPc, msg, apc, historyVars>>

\* The request is published: publish() goes to the watchdog, the watchdog to its
\* next provider or, after the last, to its last wait.
requestPublished(c) ==
    /\ pc[c] = "requesting"
    /\ published' = published \cup {Request(c)}
    /\ IF c \notin retrying
         THEN /\ publishingState' = "waiting-challenge"
              /\ GoTo(c, "watching") /\ UNCHANGED at
         ELSE /\ publishingState' = IF Responded THEN publishingState ELSE "waiting-challenge"
              /\ IF at[c] # N
                   THEN at' = [at EXCEPT ![c] = @ + 1] /\ GoTo(c, "pausing")
                   ELSE tryProvider(c, at[c] + 1, TRUE)
    /\ UNCHANGED <<state, community, subscribed, todo, created, errored, challenged, verified, answerFailed,
                   claimed, answered, sent, aged, retrying, aborted, stopPc, msg, apc, historyVars>>

\* The subscribe or the publish call throws.
attemptFails(c) ==
    /\ "attempt" \in Faults /\ pc[c] \in {"subscribing", "requesting"}
    /\ errored' = errored \cup {Request(c)}
    /\ IF c \notin retrying /\ isAllAttemptsExhausted(errored', aged)
         THEN /\ postSucessOrFailurePublishing(c)
              /\ at' = [at EXCEPT ![c] = @ + 1] /\ GoTo(c, "failing")
         ELSE /\ tryProvider(c, at[c] + 1, c \in retrying)
              /\ UNCHANGED <<state, todo>>
    /\ UNCHANGED <<publishingState, community, subscribed, created, published, challenged, verified, answerFailed,
                   claimed, answered, sent, aged, retrying, aborted, stopPc, msg, apc, historyVars>>

\* Timers fire late at will, so any request may be old when a sleep ends.
AgedAfter(old, atLeast) == old \in SUBSET published /\ aged \cup atLeast \subseteq old

\* _handleNotReceivingResponseToChallengeRequest after its first sleep.
watchdogWakes(c) ==
    /\ pc[c] = "watching"
    /\ \E old \in SUBSET published :
           /\ AgedAfter(old, {}) /\ aged' = old
           /\ \/ /\ Responded
                 /\ GoTo(c, "done") /\ UNCHANGED <<state, todo, at, retrying>>
              \/ /\ ~Responded /\ isAllAttemptsExhausted(errored, old)
                 /\ postSucessOrFailurePublishing(c)
                 /\ GoTo(c, "failing") /\ UNCHANGED <<at, retrying>>
              \/ /\ ~Responded /\ ~isAllAttemptsExhausted(errored, old) /\ (state = "stopped" \/ at[c] = N)
                 /\ postSucessOrFailurePublishing(c)
                 /\ GoTo(c, "fading") /\ UNCHANGED <<at, retrying>>
              \/ /\ ~Responded /\ ~isAllAttemptsExhausted(errored, old) /\ state # "stopped" /\ at[c] # N
                 /\ retrying' = retrying \cup {c}
                 /\ tryProvider(c, at[c] + 1, TRUE)
                 /\ UNCHANGED <<state, todo>>
    /\ UNCHANGED <<publishingState, community, subscribed, created, published, errored, challenged, verified, answerFailed,
                   claimed, answered, sent, aborted, stopPc, msg, apc, historyVars>>

\* The watchdog's sleep between two providers ends.
pauseEnds(c) ==
    /\ pc[c] = "pausing"
    /\ tryProvider(c, at[c], TRUE)
    /\ UNCHANGED <<state, publishingState, community, subscribed, todo, exchangeVars, retrying, aborted, stopPc, msg, apc, historyVars>>

\* Mutant: the last sleep is shorter than the age a request must have.
lastWaitEnds_Short(c) ==
    /\ pc[c] = "lastwait"
    /\ IF state # "stopped" /\ ~Responded /\ isAllAttemptsExhausted(errored, aged)
         THEN postSucessOrFailurePublishing(c) /\ GoTo(c, "failing")
         ELSE GoTo(c, "done") /\ UNCHANGED <<state, todo>>
    /\ UNCHANGED <<publishingState, community, subscribed, exchangeVars, at, retrying, aborted, stopPc, msg, apc, historyVars>>

\* The watchdog's last sleep, of two minutes, ends.
lastWaitEnds(c) ==
    /\ pc[c] = "lastwait"
    /\ \E old \in SUBSET published :
           /\ AgedAfter(old, {e \in published : e[1] = c}) /\ aged' = old
           /\ IF state # "stopped" /\ ~Responded /\ isAllAttemptsExhausted(errored, old)
                THEN postSucessOrFailurePublishing(c) /\ GoTo(c, "failing")
                ELSE GoTo(c, "done") /\ UNCHANGED <<state, todo>>
    /\ UNCHANGED <<publishingState, community, subscribed, created, published, errored, challenged, verified, answerFailed,
                   claimed, answered, sent, at, retrying, aborted, stopPc, msg, apc, historyVars>>

\* After its unsubscribe calls a call that gave up reports the failure; one that
\* found the publication stopped, or had no provider left, says nothing.
callEnds(c) ==
    /\ pc[c] \in {"failing", "fading"} /\ todo[c] = {}
    /\ publishingState' = IF pc[c] = "failing" THEN "failed" ELSE publishingState
    /\ GoTo(c, "done")
    /\ UNCHANGED <<state, community, subscribed, todo, exchangeVars, at, retrying, aborted, stopPc, msg, apc, historyVars>>

----------------------------------------
(* stop(). *)

\* stop() aborts a load of the community and marks the publication stopped.
stop ==
    /\ stops < MaxStops /\ stopPc = "idle" /\ pc # [c \in Call |-> "idle"]
    /\ stops' = stops + 1
    /\ aborted' = {c \in Call : pc[c] = "preparing" /\ community = "unknown"}
    /\ postSucessOrFailurePublishing(StopCall)
    /\ stopPc' = "unsubscribing"
    /\ UNCHANGED <<publishingState, community, subscribed, exchangeVars, pc, at, retrying, msg, apc,
                   challengeEvents, verdictEvents, acks, outcome>>

stopEnds ==
    /\ stopPc = "unsubscribing" /\ todo[StopCall] = {}
    /\ publishingState' = "stopped" /\ outcome' = "stopped"
    /\ stopPc' = "idle"
    /\ UNCHANGED <<state, community, subscribed, todo, exchangeVars, callVars, msg, apc,
                   challengeEvents, verdictEvents, acks, stops>>

----------------------------------------
(* The messages of the community. *)

HandlerEnds(h) == msg' = [msg EXCEPT ![h].phase = "done"]

\* _handleChallengeExchange up to the first await: a message about one of our
\* requests, from any provider and in any number of copies.
handleChallengeExchange(h, kind, e) ==
    /\ msg[h] = NoMsg /\ subscribed # {} /\ e \in sent
    /\ IF kind = "challenge" THEN challenged = {} ELSE e \notin verified
    /\ msg' = [msg EXCEPT ![h] = [phase |-> "verifying", kind |-> kind, of |-> e]]
    /\ UNCHANGED <<state, publishingState, community, subscribed, todo, exchangeVars, callVars, stopPc, apc, historyVars>>

\* A bad signature or an unreadable challenge is reported as a failure; an
\* unreadable verification is an error event only.
rejectMessage(h) ==
    /\ "message" \in Faults /\ msg[h].phase = "verifying"
    /\ \/ publishingState' = "failed"
       \/ msg[h].kind = "success" /\ UNCHANGED publishingState
    /\ HandlerEnds(h)
    /\ UNCHANGED <<state, community, subscribed, todo, exchangeVars, callVars, stopPc, apc, historyVars>>

\* _handleIncomingChallengePubsubMessage after its awaits: a copy is dropped.
handleIncomingChallenge(h) ==
    /\ msg[h].phase = "verifying" /\ msg[h].kind = "challenge"
    /\ IF challenged # {}
         THEN UNCHANGED <<challenged, publishingState, challengeEvents>>
         ELSE /\ challenged' = {msg[h].of}
              /\ publishingState' = "waiting-challenge-answers"
              /\ challengeEvents' = challengeEvents + 1
    /\ HandlerEnds(h)
    /\ UNCHANGED <<state, community, subscribed, todo, created, published, errored, verified, answerFailed, claimed,
                   answered, sent, aged, callVars, stopPc, apc, verdictEvents, acks, outcome, stops>>

\* The end of _handleIncomingChallengeVerificationPubsubMessage.
ReportVerdict(h) ==
    /\ publishingState' = IF msg[h].kind = "success" THEN "succeeded" ELSE "failed"
    /\ outcome' = publishingState'
    /\ verdictEvents' = [verdictEvents EXCEPT ![msg[h].of] = @ + 1]
    /\ postSucessOrFailurePublishing(h)
    /\ msg' = [msg EXCEPT ![h].phase = "unsubscribing"]

\* Mutant: the verdict is recorded without the second look (issue #349).
handleIncomingChallengeVerification_NoRecheck(h) ==
    /\ msg[h].phase = "verifying" /\ msg[h].kind # "challenge"
    /\ verified' = verified \cup {msg[h].of} /\ ReportVerdict(h)
    /\ UNCHANGED <<community, subscribed, created, published, errored, challenged, answerFailed, claimed,
                   answered, sent, aged, callVars, stopPc, apc, challengeEvents, acks, stops>>

\* A copy of a verification that was read meanwhile is dropped.
VerificationCopy(h) ==
    /\ msg[h].of \in verified
    /\ HandlerEnds(h)
    /\ UNCHANGED <<verified, state, publishingState, todo, outcome, verdictEvents>>

VerificationFailed(h) ==
    /\ msg[h].of \notin verified /\ msg[h].kind = "failure"
    /\ verified' = verified \cup {msg[h].of}
    /\ ReportVerdict(h)

\* A successful verification carries the comment, which is verified next.
VerificationSucceeded(h) ==
    /\ msg[h].of \notin verified /\ msg[h].kind = "success"
    /\ verified' = verified \cup {msg[h].of}
    /\ msg' = [msg EXCEPT ![h].phase = "updating"]
    /\ UNCHANGED <<state, publishingState, todo, outcome, verdictEvents>>

\* _handleIncomingChallengeVerificationPubsubMessage after its awaits.
handleIncomingChallengeVerification(h) ==
    /\ msg[h].phase = "verifying" /\ msg[h].kind # "challenge"
    /\ VerificationCopy(h) \/ VerificationFailed(h) \/ VerificationSucceeded(h)
    /\ UNCHANGED <<community, subscribed, created, published, errored, challenged, answerFailed, claimed,
                   answered, sent, aged, callVars, stopPc, apc, challengeEvents, acks, stops>>

\* _verifyDecryptedChallengeVerificationAndUpdateCommentProps returns.
updateCommentProps(h) ==
    /\ msg[h].phase = "updating"
    /\ ReportVerdict(h)
    /\ UNCHANGED <<community, subscribed, exchangeVars, callVars, stopPc, apc, challengeEvents, acks, stops>>

handlerEnds(h) ==
    /\ msg[h].phase = "unsubscribing" /\ todo[h] = {}
    /\ HandlerEnds(h)
    /\ UNCHANGED <<state, publishingState, community, subscribed, todo, exchangeVars, callVars, stopPc, apc, historyVars>>

----------------------------------------
(* publishChallengeAnswers, called after the "challenge" event. *)

AnswerTo(a, where) == apc' = [apc EXCEPT ![a] = where]

\* A challenge that is answered, or being answered, makes the call throw; else
\* the exchange is claimed before the first await.
publishChallengeAnswers(a) ==
    /\ apc[a] = "idle" /\ challenged # {}
    /\ IF challenged \subseteq claimed \cup answered
         THEN AnswerTo(a, "done") /\ UNCHANGED claimed
         ELSE AnswerTo(a, "signing") /\ claimed' = challenged
    /\ UNCHANGED <<state, publishingState, community, subscribed, todo, created, published, errored, challenged, verified,
                   answerFailed, answered, sent, aged, callVars, stopPc, msg, historyVars>>

answerSigned(a) ==
    /\ apc[a] = "signing"
    /\ publishingState' = "publishing-challenge-answer"
    /\ AnswerTo(a, "sending")
    /\ UNCHANGED <<state, community, subscribed, todo, exchangeVars, callVars, stopPc, msg, historyVars>>

\* Encrypting or signing throws: the claim is given back.
answerSignFails(a) ==
    /\ "answer" \in Faults /\ apc[a] = "signing"
    /\ claimed' = {} /\ AnswerTo(a, "done")
    /\ UNCHANGED <<state, publishingState, community, subscribed, todo, created, published, errored, challenged, verified,
                   answerFailed, answered, sent, aged, callVars, stopPc, msg, historyVars>>

\* pubsubPublishOnProvider returns: the answer is recorded and "challengeanswer" emitted.
answerPublished(a) ==
    /\ apc[a] = "sending"
    /\ answered' = challenged /\ acks' = acks + 1
    /\ publishingState' = "waiting-challenge-verification"
    /\ AnswerTo(a, "done")
    /\ UNCHANGED <<state, community, subscribed, todo, created, published, errored, challenged, verified, answerFailed,
                   claimed, sent, aged, callVars, stopPc, msg, challengeEvents, verdictEvents, outcome, stops>>

answerPublishFails(a) ==
    /\ "answer" \in Faults /\ apc[a] = "sending"
    /\ answerFailed' = challenged /\ claimed' = {}
    /\ publishingState' = "failed"
    /\ AnswerTo(a, "done")
    /\ UNCHANGED <<state, community, subscribed, todo, created, published, errored, challenged, verified,
                   answered, sent, aged, callVars, stopPc, msg, historyVars>>

----------------------------------------
CallStep(c) ==
    \/ Prepared(c) \/ PrepareFails(c) \/ generateChallengeRequestToPublish(c) \/ pubsubSubscribeOnProvider(c)
    \/ abandonProvider(c) \/ requestPublished(c) \/ attemptFails(c) \/ watchdogWakes(c) \/ pauseEnds(c)
    \/ lastWaitEnds(c) \/ callEnds(c)

Handle(h) ==
    \/ rejectMessage(h) \/ handleIncomingChallenge(h) \/ handleIncomingChallengeVerification(h)
    \/ updateCommentProps(h) \/ handlerEnds(h)

Answer(a) == answerSigned(a) \/ answerSignFails(a) \/ answerPublished(a) \/ answerPublishFails(a)

Next ==
    \/ \E c \in Call : publish(c) \/ CallStep(c)
    \/ stop \/ stopEnds
    \/ \E u \in Unsubscriber : UnsubscribeNext(u)
    \/ \E h \in Copy, kind \in {"challenge", "success", "failure"}, e \in Exchange : handleChallengeExchange(h, kind, e)
    \/ \E h \in Copy : Handle(h)
    \/ \E a \in Ans : publishChallengeAnswers(a) \/ Answer(a)

Spec == Init /\ [][Next]_vars

\* The event loop runs every continuation, and every pubsub call returns or
\* throws: kubo and helia calls have timeouts.  Nothing is assumed of the
\* community, of the user or of the number of messages.
FairSpec ==
    /\ Spec
    /\ \A c \in Call : WF_vars(CallStep(c))
    /\ \A u \in Unsubscriber : WF_vars(UnsubscribeNext(u))
    /\ \A h \in Copy : WF_vars(Handle(h))
    /\ \A a \in Ans : WF_vars(Answer(a))
    /\ WF_vars(stopEnds)

----------------------------------------
(* Properties. *)

\* The "challenge" event is emitted once, however many copies of the challenge
\* the providers deliver and however they overlap (_handleIncomingChallengePubsubMessage).
ChallengeOnce == challengeEvents <= 1

\* "challengeverification" and the clean-up after it run once per exchange
\* (_handleIncomingChallengeVerificationPubsubMessage).
VerdictOncePerExchange == \A e \in Exchange : verdictEvents[e] <= 1

\* Concurrent calls of publishChallengeAnswers put one answer on the topic, and
\* "challengeanswer" is emitted once.
AnswerAcknowledgedOnce == acks <= 1

\* Once the community has sent its challenge only a verification or stop() ends
\* the publication: neither the watchdog nor a failing retry does (issue #340).
LiveExchangeKept ==
    [][state = "publishing" /\ state' = "stopped" /\ challenged # {} => verified # {} \/ verified' # {} \/ stops' # stops]_vars

Quiet ==
    /\ \A c \in Call : pc[c] \in {"idle", "done"}
    /\ stopPc = "idle" /\ \A h \in Copy : msg[h].phase \notin {"updating", "unsubscribing"}

\* The libp2p providers whose subscription had returned before the end: no call
\* of pubsubUnsubscribe visits them.
LeftToTheClient == IF Libp2p THEN {ProviderAt[e[2]] : e \in sent} ELSE {}

\* A publication that ended leaves no handler on the topic, also when the end
\* came while a subscribe call was under way (issue #270): the call that finds
\* the publication stopped takes its own provider back, kubo or libp2p, and the
\* kubo providers that had subscribed before are visited.
NoDanglingSubscription ==
    state = "stopped" /\ Quiet /\ "unsubscribe" \notin Faults => subscribed \subseteq LeftToTheClient

\* What stop() reports stays: nothing that was under way overwrites it.
StopSticks == outcome = "stopped" /\ state = "stopped" => publishingState = "stopped"

\* A success reported for an answered challenge is the last word on the
\* publication: the return of the answer's publish call does not hide it.
VerdictSticks == outcome = "succeeded" /\ acks > 0 => publishingState = "succeeded"

\* A publication that has its challenge is not moved back to waiting for one.
NotMovedBack ==
    [][challenged # {} /\ publishingState # "waiting-challenge" => publishingState' # "waiting-challenge"]_vars

\* A publication that gave up by itself says that it failed.
FailureReported == Quiet /\ state = "stopped" /\ outcome = "none" /\ created # {} => publishingState = "failed"

\* publish() that returns without an error has made a request.
PublishMakesRequest == \A c \in Call : pc[c] = "watching" => \E i \in 1..N : <<c, i>> \in created

\* A published publication hears from the community or is stopped in the end.
EndsWithoutResponse == state = "publishing" ~> (Responded \/ state = "stopped")

\* A publisher's listeners hear of every event once: the challenge, the verdict
\* of an exchange and the answer, however many copies and calls overlap at the
\* awaits of the handlers.
EventsOnce ==
    ChallengeOnce /\ VerdictOncePerExchange /\ AnswerAcknowledgedOnce
========================================
