-------------------- MODULE PublicationExchangeProofs --------------------
(***************************************************************************)
(* Proofs about the publisher's half of an exchange, for any number of      *)
(* calls, providers, copies, answers and any faults.                        *)
(***************************************************************************)
EXTENDS PublicationExchange, TLAPS

\* Where a call stands: its request is recorded before it is sent, and the
\* community of an open call is known.
PlaceInv ==
    /\ \A c \in Call :
           /\ pc[c] \in {"generating", "subscribing", "abandoning", "requesting", "pausing"} => at[c] <= N
           /\ pc[c] = "watching" => at[c] <= N + 1
           /\ pc[c] \in {"subscribing", "requesting"} => Request(c) \in created
           /\ pc[c] = "requesting" => Request(c) \in sent
           /\ pc[c] \notin {"idle", "preparing", "done"} => community = "open"
    /\ \A h \in Copy : msg[h].phase # "idle" => msg[h].of \in sent
    /\ sent # {} => community = "open"

\* A process has providers left to visit only while it unsubscribes.
VisitInv ==
    /\ todo[StopCall] # {} => stopPc = "unsubscribing"
    /\ \A c \in Call : todo[c] # {} => pc[c] \in {"failing", "fading"}
    /\ \A h \in Copy : todo[h] # {} => msg[h].phase = "unsubscribing"

\* Whatever is subscribed when the publication is stopped is about to be
\* unsubscribed, by a round over the providers or by the call that subscribed.
ListenInv ==
    /\ subscribed # {} => community = "open"
    /\ state = "stopped" /\ "unsubscribe" \notin Faults /\ ~Libp2p =>
           \A p \in subscribed : \/ \E u \in Unsubscriber : p \in todo[u]
                                 \/ \E c \in Call : pc[c] = "abandoning" /\ ProviderAt[at[c]] = p

\* A provider is subscribed by a call that went on to send its request, or that
\* is about to take the subscription back.
SentInv ==
    "unsubscribe" \notin Faults =>
        \A p \in subscribed : \/ \E e \in sent : ProviderAt[e[2]] = p
                              \/ \E c \in Call : pc[c] = "abandoning" /\ ProviderAt[at[c]] = p

\* One challenge is kept, and the event went with it.
ChallengeInv ==
    /\ challenged = {} => challengeEvents = 0
    /\ challengeEvents <= 1

\* A recorded verdict is reported by the handler that recorded it, and by no other.
VerdictInv ==
    /\ \A e \in Exchange : e \notin verified => verdictEvents[e] = 0
    /\ \A e \in Exchange : verdictEvents[e] <= 1
    /\ \A h \in Copy : msg[h].phase = "updating" => msg[h].of \in verified /\ verdictEvents[msg[h].of] = 0
    /\ \A g, h \in Copy : msg[g].phase = "updating" /\ msg[h].phase = "updating" /\ msg[g].of = msg[h].of => g = h

\* The claim on the challenge belongs to the one call that is answering it.
AnswerInv ==
    /\ \A a \in Ans : apc[a] \in {"signing", "sending"} => claimed = challenged /\ challenged # {} /\ acks = 0
    /\ \A a, b \in Ans : apc[a] \in {"signing", "sending"} /\ apc[b] \in {"signing", "sending"} => a = b
    /\ acks <= 1
    /\ acks # 0 => answered = challenged /\ challenged # {}


\* A message keeps its type from phase to phase.
LEMMA MsgPhase ==
    ASSUME NEW m \in Msg, m.phase # "idle", NEW ph \in {"verifying", "updating", "unsubscribing", "done"}
    PROVE  [m EXCEPT !.phase = ph] \in Msg /\ m.of \in Exchange /\ m.kind \in {"challenge", "success", "failure"}
BY DEF Msg, NoMsg

\* Ending the publication gives the process that ends it its providers to visit.
LEMMA PostVisits ==
    ASSUME TypeOK, NEW u \in Unsubscriber, postSucessOrFailurePublishing(u)
    PROVE  /\ state' = "stopped"
           /\ todo' \in [Unsubscriber -> SUBSET Provider]
           /\ \A w \in Unsubscriber : w # u => todo'[w] = todo[w]
           /\ community = "open" /\ ~Libp2p => todo'[u] = Provider
BY DEF TypeOK, postSucessOrFailurePublishing

\* The head of a loop moves one call only, to a provider of the list or past it.
LEMMA TryMoves ==
    ASSUME TypeOK, NEW c \in Call, NEW i \in 1..(N + 2), NEW w \in BOOLEAN, tryProvider(c, i, w)
    PROVE  /\ pc' \in [Call -> CallPC] /\ at' \in [Call -> 1..(N + 2)] /\ at'[c] = i
           /\ (pc'[c] = "generating" /\ i <= N) \/ pc'[c] = (IF w THEN "lastwait" ELSE "watching")
           /\ \A d \in Call : d # c => pc'[d] = pc[d] /\ at'[d] = at[d]
BY DEF TypeOK, tryProvider, GoTo, CallPC

\* One call moves, to a place there is.
LEMMA CallMoves ==
    ASSUME TypeOK, NEW c \in Call, NEW where \in CallPC, GoTo(c, where)
    PROVE  /\ pc' \in [Call -> CallPC] /\ pc'[c] = where
           /\ \A d \in Call : d # c => pc'[d] = pc[d]
BY DEF TypeOK, GoTo

\* The places of the processes that unsubscribe.
LEMMA Places == /\ Call \subseteq Unsubscriber /\ Copy \subseteq Unsubscriber /\ StopCall \in Unsubscriber
                /\ Call \cap Copy = {} /\ StopCall \notin Call /\ StopCall \notin Copy
                /\ Call \subseteq Nat
BY ConstantsAssumption DEF Unsubscriber, Call, StopCall

\* A call that tries a provider is within the list.
LEMMA PlaceAt ==
    ASSUME TypeOK, PlaceInv, NEW c \in Call
    PROVE  /\ pc[c] \in {"generating", "subscribing", "abandoning", "requesting", "pausing"} =>
                  at[c] \in 1..N /\ ProviderAt[at[c]] \in Provider /\ at[c] \in 1..(N + 2) /\ at[c] + 1 \in 1..(N + 2)
           /\ pc[c] = "watching" => at[c] + 1 \in 1..(N + 2)
<1>1. at[c] \in 1..(N + 2) /\ N \in Nat /\ ProviderAt \in [1..N -> Provider] BY ConstantsAssumption DEF TypeOK
<1>2. /\ pc[c] \in {"generating", "subscribing", "abandoning", "requesting", "pausing"} => at[c] <= N
      /\ pc[c] = "watching" => at[c] <= N + 1
      BY DEF PlaceInv
<1> QED BY <1>1, <1>2

\* One handler moves, and keeps its message.
LEMMA PhaseMoves ==
    ASSUME TypeOK, NEW h \in Copy, msg[h].phase # "idle", NEW ph \in {"verifying", "updating", "unsubscribing", "done"},
           msg' = [msg EXCEPT ![h].phase = ph]
    PROVE  /\ msg' \in [Copy -> Msg] /\ msg[h].of \in Exchange /\ msg'[h].of \in Exchange
           /\ msg'[h].phase = ph /\ msg'[h].of = msg[h].of
           /\ \A g \in Copy : g # h => msg'[g] = msg[g]
<1>1. msg \in [Copy -> Msg] BY DEF TypeOK
<1>2. msg[h] \in [phase : {"verifying", "updating", "unsubscribing", "done"},
                    kind : {"challenge", "success", "failure"}, of : Exchange]
      BY <1>1 DEF Msg, NoMsg
<1> QED BY <1>1, <1>2, MsgPhase

\* Every step keeps the types.
LEMMA TypeStep ==
    ASSUME TypeOK, PlaceInv, [Next]_vars
    PROVE  TypeOK'
<1> USE ConstantsAssumption
    DEF TypeOK, PlaceInv,
        exchangeVars, callVars, historyVars, Request, GoTo, HandlerEnds, AnswerTo
<1>1. ASSUME NEW c \in Call, publish(c)
      PROVE  TypeOK'
      BY <1>1 DEF publish, CallPC, PublishingState
<1>2. ASSUME NEW c \in Call, Prepared(c)
      PROVE  TypeOK'
 <2>1. 1 \in 1..(N + 2) /\ N \in Nat BY <1>2 DEF Prepared
 <2>2. pc' \in [Call -> CallPC] /\ at' \in [Call -> 1..(N + 2)] BY <1>2, <2>1, TryMoves DEF Prepared, CallPC
 <2>3. community' \in {"unknown", "disabled", "open"} BY <1>2 DEF Prepared
 <2> QED BY <1>2, <2>1, <2>2, <2>3 DEF Prepared, PublishingState
<1>3. ASSUME NEW c \in Call, PrepareFails(c)
      PROVE  TypeOK'
      BY <1>3 DEF PrepareFails, CallPC, PublishingState
<1>4. ASSUME NEW c \in Call, generateChallengeRequestToPublish(c)
      PROVE  TypeOK'
      BY <1>4 DEF generateChallengeRequestToPublish, CallPC, PublishingState, Exchange
<1>5. ASSUME NEW c \in Call, pubsubSubscribeOnProvider(c)
      PROVE  TypeOK'
 <2>1. pc' \in [Call -> CallPC] BY <1>5 DEF pubsubSubscribeOnProvider, CallPC
 <2>2. sent' \subseteq created /\ sent \subseteq sent' BY <1>5 DEF pubsubSubscribeOnProvider
 <2>3. subscribed' \subseteq Provider BY <1>5, PlaceAt DEF pubsubSubscribeOnProvider
 <2> QED BY <1>5, <2>1, <2>2, <2>3 DEF pubsubSubscribeOnProvider
<1>6. ASSUME NEW c \in Call, abandonProvider(c)
      PROVE  TypeOK'
      BY <1>6 DEF abandonProvider, CallPC
<1>7. ASSUME NEW c \in Call, requestPublished(c)
      PROVE  TypeOK'
 <2>1. at[c] \in 1..N /\ at[c] + 1 \in 1..(N + 2) BY <1>7, PlaceAt DEF requestPublished
 <2>2. pc' \in [Call -> CallPC] /\ at' \in [Call -> 1..(N + 2)] BY <1>7, <2>1, TryMoves DEF requestPublished, CallPC
 <2>3. publishingState' \in PublishingState BY <1>7 DEF requestPublished, PublishingState
 <2>4. published' \subseteq created /\ published \subseteq published' BY <1>7 DEF requestPublished
 <2> QED BY <1>7, <2>1, <2>2, <2>3, <2>4 DEF requestPublished
<1>8. ASSUME NEW c \in Call, attemptFails(c)
      PROVE  TypeOK'
 <2>1. at[c] + 1 \in 1..(N + 2) /\ c \in Unsubscriber BY <1>8, PlaceAt, Places DEF attemptFails
 <2>2. CASE c \notin retrying /\ isAllAttemptsExhausted(errored', aged)
  <3>1. pc' \in [Call -> CallPC] /\ at' \in [Call -> 1..(N + 2)] BY <1>8, <2>1, <2>2 DEF attemptFails, CallPC
  <3>2. state' \in {"stopped", "publishing"} /\ todo' \in [Unsubscriber -> SUBSET Provider] BY <1>8, <2>1, <2>2, PostVisits DEF attemptFails
  <3> QED BY <1>8, <2>2, <3>1, <3>2 DEF attemptFails
 <2>3. CASE ~(c \notin retrying /\ isAllAttemptsExhausted(errored', aged))
  <3>1. pc' \in [Call -> CallPC] /\ at' \in [Call -> 1..(N + 2)] BY <1>8, <2>1, <2>3 DEF attemptFails, tryProvider, CallPC
  <3> QED BY <1>8, <2>3, <3>1 DEF attemptFails
 <2> QED BY <2>2, <2>3
<1>9. ASSUME NEW c \in Call, watchdogWakes(c)
      PROVE  TypeOK'
 <2>1. at[c] + 1 \in 1..(N + 2) /\ c \in Unsubscriber BY <1>9, PlaceAt, Places DEF watchdogWakes
 <2>2. pc' \in [Call -> CallPC] /\ at' \in [Call -> 1..(N + 2)] BY <1>9, <2>1, TryMoves DEF watchdogWakes, CallPC
 <2>3. state' \in {"stopped", "publishing"} /\ todo' \in [Unsubscriber -> SUBSET Provider] BY <1>9, <2>1, PostVisits DEF watchdogWakes
 <2>4. aged' \subseteq published /\ retrying' \subseteq Call BY <1>9 DEF watchdogWakes
 <2> QED BY <1>9, <2>2, <2>3, <2>4 DEF watchdogWakes
<1>10. ASSUME NEW c \in Call, pauseEnds(c)
      PROVE  TypeOK'
      BY <1>10 DEF pauseEnds, tryProvider, CallPC
<1>11. ASSUME NEW c \in Call, lastWaitEnds(c)
      PROVE  TypeOK'
 <2>1. c \in Unsubscriber BY <1>11, Places DEF lastWaitEnds
 <2>2. pc' \in [Call -> CallPC] BY <1>11 DEF lastWaitEnds, CallPC
 <2>3. state' \in {"stopped", "publishing"} /\ todo' \in [Unsubscriber -> SUBSET Provider] BY <1>11, <2>1, PostVisits DEF lastWaitEnds
 <2>4. aged' \subseteq published BY <1>11 DEF lastWaitEnds
 <2> QED BY <1>11, <2>1, <2>2, <2>3, <2>4 DEF lastWaitEnds
<1>12. ASSUME NEW c \in Call, callEnds(c)
      PROVE  TypeOK'
      BY <1>12 DEF callEnds, CallPC, PublishingState
<1>13. CASE stop
 <2>1. StopCall \in Unsubscriber BY <1>13, Places DEF stop
 <2>2. state' \in {"stopped", "publishing"} /\ todo' \in [Unsubscriber -> SUBSET Provider] BY <1>13, <2>1, PostVisits DEF stop
 <2> QED BY <1>13, <2>1, <2>2 DEF stop
<1>14. CASE stopEnds BY <1>14 DEF stopEnds, PublishingState
<1>15. ASSUME NEW u \in Unsubscriber, UnsubscribeNext(u)
      PROVE  TypeOK'
      BY <1>15 DEF UnsubscribeNext
<1>16. ASSUME NEW h \in Copy, NEW kind \in {"challenge", "success", "failure"}, NEW e \in Exchange, handleChallengeExchange(h, kind, e)
      PROVE  TypeOK'
      BY <1>16 DEF handleChallengeExchange, Msg
<1>17. ASSUME NEW h \in Copy, rejectMessage(h)
      PROVE  TypeOK'
 <2>1. msg[h] \in Msg /\ msg[h].phase # "idle" /\ h \in Unsubscriber BY <1>17, Places DEF rejectMessage
 <2>2. msg' \in [Copy -> Msg] /\ msg[h].of \in Exchange /\ msg[h].kind \in {"challenge", "success", "failure"}
       BY <1>17, <2>1, MsgPhase DEF rejectMessage
 <2> QED BY <1>17, <2>2 DEF rejectMessage, PublishingState
<1>18. ASSUME NEW h \in Copy, handleIncomingChallenge(h)
      PROVE  TypeOK'
 <2>1. msg[h] \in Msg /\ msg[h].phase # "idle" /\ h \in Unsubscriber BY <1>18, Places DEF handleIncomingChallenge
 <2>2. msg' \in [Copy -> Msg] /\ msg[h].of \in Exchange /\ msg[h].kind \in {"challenge", "success", "failure"}
       BY <1>18, <2>1, MsgPhase DEF handleIncomingChallenge
 <2>3. challenged \subseteq challenged' /\ challenged' \subseteq sent /\ challengeEvents' \in Nat
       BY <1>18, <2>1, <2>2 DEF handleIncomingChallenge
 <2> QED BY <1>18, <2>2, <2>3 DEF handleIncomingChallenge, PublishingState
<1>19. ASSUME NEW h \in Copy, handleIncomingChallengeVerification(h)
      PROVE  TypeOK'
 <2>1. msg[h] \in Msg /\ msg[h].phase # "idle" /\ h \in Unsubscriber BY <1>19, Places DEF handleIncomingChallengeVerification
 <2>2. msg[h].of \in Exchange BY <2>1, MsgPhase
 <2>3. ASSUME ReportVerdict(h)
       PROVE  /\ state' \in {"stopped", "publishing"} /\ todo' \in [Unsubscriber -> SUBSET Provider]
              /\ publishingState' \in PublishingState /\ outcome' \in {"none", "stopped", "succeeded", "failed"}
              /\ verdictEvents' \in [Exchange -> Nat] /\ msg' \in [Copy -> Msg]
  <3>1. postSucessOrFailurePublishing(h) /\ msg' = [msg EXCEPT ![h].phase = "unsubscribing"] BY <2>3 DEF ReportVerdict
  <3>2. msg' \in [Copy -> Msg] BY <3>1, <2>1, MsgPhase
  <3>3. verdictEvents' \in [Exchange -> Nat] BY <2>2, <2>3 DEF ReportVerdict
  <3> QED BY <2>1, <2>3, <3>1, <3>2, <3>3, PostVisits DEF ReportVerdict, PublishingState
 <2>4. verified \subseteq verified' /\ verified' \subseteq sent
       BY <1>19 DEF handleIncomingChallengeVerification, VerificationCopy, VerificationFailed, VerificationSucceeded
 <2>5. CASE VerificationCopy(h)
  <3>1. msg' \in [Copy -> Msg] BY <2>1, <2>5, PhaseMoves DEF VerificationCopy
  <3> QED BY <1>19, <2>4, <2>5, <3>1 DEF handleIncomingChallengeVerification, VerificationCopy
 <2>6. CASE VerificationFailed(h) BY <1>19, <2>3, <2>4, <2>6 DEF handleIncomingChallengeVerification, VerificationFailed
 <2>7. CASE VerificationSucceeded(h)
  <3>1. msg' \in [Copy -> Msg] BY <2>1, <2>7, PhaseMoves DEF VerificationSucceeded
  <3> QED BY <1>19, <2>4, <2>7, <3>1 DEF handleIncomingChallengeVerification, VerificationSucceeded
 <2> QED BY <1>19, <2>5, <2>6, <2>7 DEF handleIncomingChallengeVerification
<1>20. ASSUME NEW h \in Copy, updateCommentProps(h)
      PROVE  TypeOK'
 <2>1. msg[h] \in Msg /\ msg[h].phase # "idle" /\ h \in Unsubscriber BY <1>20, Places DEF updateCommentProps
 <2>2. msg[h].of \in Exchange BY <2>1, MsgPhase
 <2>3. ASSUME ReportVerdict(h)
       PROVE  /\ state' \in {"stopped", "publishing"} /\ todo' \in [Unsubscriber -> SUBSET Provider]
              /\ publishingState' \in PublishingState /\ outcome' \in {"none", "stopped", "succeeded", "failed"}
              /\ verdictEvents' \in [Exchange -> Nat] /\ msg' \in [Copy -> Msg]
  <3>1. postSucessOrFailurePublishing(h) /\ msg' = [msg EXCEPT ![h].phase = "unsubscribing"] BY <2>3 DEF ReportVerdict
  <3>2. msg' \in [Copy -> Msg] BY <3>1, <2>1, MsgPhase
  <3>3. verdictEvents' \in [Exchange -> Nat] BY <2>2, <2>3 DEF ReportVerdict
  <3> QED BY <2>1, <2>3, <3>1, <3>2, <3>3, PostVisits DEF ReportVerdict, PublishingState
 <2> QED BY <1>20, <2>3 DEF updateCommentProps
<1>21. ASSUME NEW h \in Copy, handlerEnds(h)
      PROVE  TypeOK'
 <2>1. msg[h] \in Msg /\ msg[h].phase # "idle" /\ h \in Unsubscriber BY <1>21, Places DEF handlerEnds
 <2>2. msg' \in [Copy -> Msg] /\ msg[h].of \in Exchange /\ msg[h].kind \in {"challenge", "success", "failure"}
       BY <1>21, <2>1, MsgPhase DEF handlerEnds
 <2> QED BY <1>21, <2>2 DEF handlerEnds
<1>22. ASSUME NEW a \in Ans, publishChallengeAnswers(a)
      PROVE  TypeOK'
      BY <1>22 DEF publishChallengeAnswers
<1>23. ASSUME NEW a \in Ans, answerSigned(a)
      PROVE  TypeOK'
      BY <1>23 DEF answerSigned, PublishingState
<1>24. ASSUME NEW a \in Ans, answerSignFails(a)
      PROVE  TypeOK'
      BY <1>24 DEF answerSignFails
<1>25. ASSUME NEW a \in Ans, answerPublished(a)
      PROVE  TypeOK'
      BY <1>25 DEF answerPublished, PublishingState
<1>26. ASSUME NEW a \in Ans, answerPublishFails(a)
      PROVE  TypeOK'
      BY <1>26 DEF answerPublishFails, PublishingState
<1>27. CASE UNCHANGED vars BY <1>27 DEF vars
<1> HIDE DEF TypeOK, PlaceInv
<1> QED
    BY <1>1, <1>2, <1>3, <1>4, <1>5, <1>6, <1>7, <1>8, <1>9, <1>10, <1>11, <1>12, <1>13, <1>14, <1>15, <1>16, <1>17, <1>18, <1>19, <1>20, <1>21, <1>22, <1>23, <1>24, <1>25, <1>26, <1>27 DEF Next, CallStep, Handle, Answer

\* Every step keeps each call's place.
LEMMA PlaceStep ==
    ASSUME TypeOK, PlaceInv, [Next]_vars
    PROVE  PlaceInv'
<1> USE ConstantsAssumption
    DEF TypeOK, PlaceInv,
        exchangeVars, callVars, historyVars, Request, GoTo, HandlerEnds, AnswerTo
<1>1. ASSUME NEW c \in Call, publish(c)
      PROVE  PlaceInv'
      BY <1>1 DEF publish
<1>2. ASSUME NEW c \in Call, Prepared(c)
      PROVE  PlaceInv'
      BY <1>2 DEF Prepared, tryProvider
<1>3. ASSUME NEW c \in Call, PrepareFails(c)
      PROVE  PlaceInv'
      BY <1>3 DEF PrepareFails
<1>4. ASSUME NEW c \in Call, generateChallengeRequestToPublish(c)
      PROVE  PlaceInv'
      BY <1>4 DEF generateChallengeRequestToPublish
<1>5. ASSUME NEW c \in Call, pubsubSubscribeOnProvider(c)
      PROVE  PlaceInv'
      BY <1>5 DEF pubsubSubscribeOnProvider
<1>6. ASSUME NEW c \in Call, abandonProvider(c)
      PROVE  PlaceInv'
      BY <1>6 DEF abandonProvider
<1>7. ASSUME NEW c \in Call, requestPublished(c)
      PROVE  PlaceInv'
 <2>1. at[c] \in 1..N /\ N \in Nat BY <1>7, PlaceAt DEF requestPublished
 <2>2. CASE c \in retrying /\ at[c] # N
  <3>1. at' = [at EXCEPT ![c] = at[c] + 1] /\ pc' = [pc EXCEPT ![c] = "pausing"] BY <1>7, <2>2 DEF requestPublished
  <3>2. at'[c] <= N /\ pc'[c] = "pausing" /\ \A d \in Call : d # c => at'[d] = at[d] /\ pc'[d] = pc[d] BY <2>1, <2>2, <3>1
  <3> QED BY <1>7, <3>2 DEF requestPublished
 <2>3. CASE c \notin retrying BY <1>7, <2>3 DEF requestPublished
 <2>4. CASE c \in retrying /\ at[c] = N BY <1>7, <2>1, <2>4, ZenonT(60) DEF requestPublished, tryProvider
 <2> QED BY <2>2, <2>3, <2>4
<1>8. ASSUME NEW c \in Call, attemptFails(c)
      PROVE  PlaceInv'
 <2>1. at[c] \in 1..N /\ N \in Nat BY <1>8, PlaceAt DEF attemptFails
 <2>2. /\ pc'[c] = "generating" => at'[c] <= N
       /\ at'[c] <= N + 1 /\ pc'[c] \in {"generating", "lastwait", "watching", "failing"}
       /\ \A d \in Call : d # c => at'[d] = at[d] /\ pc'[d] = pc[d]
  <3>1. CASE c \notin retrying /\ isAllAttemptsExhausted(errored', aged) BY <1>8, <2>1, <3>1 DEF attemptFails
  <3>2. CASE ~(c \notin retrying /\ isAllAttemptsExhausted(errored', aged)) BY <1>8, <2>1, <3>2 DEF attemptFails, tryProvider
  <3> QED BY <3>1, <3>2
 <2> QED BY <1>8, <2>2 DEF attemptFails
<1>9. ASSUME NEW c \in Call, watchdogWakes(c)
      PROVE  PlaceInv'
      BY <1>9, ZenonT(60) DEF watchdogWakes, AgedAfter, tryProvider, postSucessOrFailurePublishing
<1>10. ASSUME NEW c \in Call, pauseEnds(c)
      PROVE  PlaceInv'
      BY <1>10 DEF pauseEnds, tryProvider
<1>11. ASSUME NEW c \in Call, lastWaitEnds(c)
      PROVE  PlaceInv'
      BY <1>11, ZenonT(60) DEF lastWaitEnds, AgedAfter, postSucessOrFailurePublishing
<1>12. ASSUME NEW c \in Call, callEnds(c)
      PROVE  PlaceInv'
      BY <1>12 DEF callEnds
<1>13. CASE stop BY <1>13 DEF stop, postSucessOrFailurePublishing
<1>14. CASE stopEnds BY <1>14 DEF stopEnds
<1>15. ASSUME NEW u \in Unsubscriber, UnsubscribeNext(u)
      PROVE  PlaceInv'
      BY <1>15 DEF UnsubscribeNext
<1>16. ASSUME NEW h \in Copy, NEW kind \in {"challenge", "success", "failure"}, NEW e \in Exchange, handleChallengeExchange(h, kind, e)
      PROVE  PlaceInv'
      BY <1>16 DEF handleChallengeExchange, NoMsg
<1>17. ASSUME NEW h \in Copy, rejectMessage(h)
      PROVE  PlaceInv'
      BY <1>17 DEF rejectMessage
<1>18. ASSUME NEW h \in Copy, handleIncomingChallenge(h)
      PROVE  PlaceInv'
      BY <1>18 DEF handleIncomingChallenge
<1>19. ASSUME NEW h \in Copy, handleIncomingChallengeVerification(h)
      PROVE  PlaceInv'
 <2>1. \E ph \in {"updating", "unsubscribing", "done"} : msg' = [msg EXCEPT ![h].phase = ph]
       BY <1>19 DEF handleIncomingChallengeVerification, VerificationCopy, VerificationFailed, VerificationSucceeded, ReportVerdict
 <2>2. \A g \in Copy : (msg'[g].phase # "idle" => msg[g].phase # "idle") /\ msg'[g].of = msg[g].of
       BY <1>19, <2>1, PhaseMoves DEF handleIncomingChallengeVerification
 <2> QED BY <1>19, <2>1, <2>2 DEF handleIncomingChallengeVerification
<1>20. ASSUME NEW h \in Copy, updateCommentProps(h)
      PROVE  PlaceInv'
      BY <1>20 DEF updateCommentProps, ReportVerdict, postSucessOrFailurePublishing
<1>21. ASSUME NEW h \in Copy, handlerEnds(h)
      PROVE  PlaceInv'
      BY <1>21 DEF handlerEnds
<1>22. ASSUME NEW a \in Ans, publishChallengeAnswers(a)
      PROVE  PlaceInv'
      BY <1>22 DEF publishChallengeAnswers
<1>23. ASSUME NEW a \in Ans, answerSigned(a)
      PROVE  PlaceInv'
      BY <1>23 DEF answerSigned
<1>24. ASSUME NEW a \in Ans, answerSignFails(a)
      PROVE  PlaceInv'
      BY <1>24 DEF answerSignFails
<1>25. ASSUME NEW a \in Ans, answerPublished(a)
      PROVE  PlaceInv'
      BY <1>25 DEF answerPublished
<1>26. ASSUME NEW a \in Ans, answerPublishFails(a)
      PROVE  PlaceInv'
      BY <1>26 DEF answerPublishFails
<1>27. CASE UNCHANGED vars BY <1>27 DEF vars
<1> HIDE DEF TypeOK, PlaceInv
<1> QED
    BY <1>1, <1>2, <1>3, <1>4, <1>5, <1>6, <1>7, <1>8, <1>9, <1>10, <1>11, <1>12, <1>13, <1>14, <1>15, <1>16, <1>17, <1>18, <1>19, <1>20, <1>21, <1>22, <1>23, <1>24, <1>25, <1>26, <1>27 DEF Next, CallStep, Handle, Answer

\* Only a process that ended the publication visits providers.
LEMMA VisitStep ==
    ASSUME TypeOK, VisitInv, [Next]_vars
    PROVE  VisitInv'
<1> USE ConstantsAssumption
    DEF TypeOK, VisitInv,
        exchangeVars, callVars, historyVars, Request, GoTo, HandlerEnds, AnswerTo
<1>1. ASSUME NEW c \in Call, publish(c)
      PROVE  VisitInv'
      BY <1>1 DEF publish
<1>2. ASSUME NEW c \in Call, Prepared(c)
      PROVE  VisitInv'
      BY <1>2 DEF Prepared, tryProvider
<1>3. ASSUME NEW c \in Call, PrepareFails(c)
      PROVE  VisitInv'
      BY <1>3 DEF PrepareFails
<1>4. ASSUME NEW c \in Call, generateChallengeRequestToPublish(c)
      PROVE  VisitInv'
      BY <1>4 DEF generateChallengeRequestToPublish
<1>5. ASSUME NEW c \in Call, pubsubSubscribeOnProvider(c)
      PROVE  VisitInv'
      BY <1>5 DEF pubsubSubscribeOnProvider
<1>6. ASSUME NEW c \in Call, abandonProvider(c)
      PROVE  VisitInv'
      BY <1>6 DEF abandonProvider
<1>7. ASSUME NEW c \in Call, requestPublished(c)
      PROVE  VisitInv'
      BY <1>7 DEF requestPublished, tryProvider
<1>8. ASSUME NEW c \in Call, attemptFails(c)
      PROVE  VisitInv'
 <2>1. c \in Unsubscriber /\ c \in Call BY Places
 <2>2. \/ todo' = todo /\ pc[c] \notin {"failing", "fading"}
       \/ postSucessOrFailurePublishing(c) /\ pc'[c] \in {"failing", "fading"}
  <3>1. CASE c \notin retrying /\ isAllAttemptsExhausted(errored', aged) BY <1>8, <3>1 DEF attemptFails
  <3>2. CASE ~(c \notin retrying /\ isAllAttemptsExhausted(errored', aged)) BY <1>8, <3>2 DEF attemptFails
  <3> QED BY <1>8, <3>1, <3>2 DEF attemptFails
 <2>3. \A d \in Call : d # c => pc'[d] = pc[d] BY <1>8 DEF attemptFails, tryProvider
 <2>4. stopPc' = stopPc /\ msg' = msg BY <1>8 DEF attemptFails
 <2> QED BY <2>1, <2>2, <2>3, <2>4, PostVisits, Places, ZenonT(60)
<1>9. ASSUME NEW c \in Call, watchdogWakes(c)
      PROVE  VisitInv'
 <2>1. c \in Unsubscriber /\ c \in Call BY Places
 <2>2. \/ todo' = todo /\ pc[c] \notin {"failing", "fading"}
       \/ postSucessOrFailurePublishing(c) /\ pc'[c] \in {"failing", "fading"}
  <3>1. CASE todo' = todo BY <1>9, <3>1 DEF watchdogWakes
  <3>2. CASE todo' # todo BY <1>9, <3>2 DEF watchdogWakes
  <3> QED BY <1>9, <3>1, <3>2 DEF watchdogWakes
 <2>3. \A d \in Call : d # c => pc'[d] = pc[d] BY <1>9 DEF watchdogWakes, tryProvider
 <2>4. stopPc' = stopPc /\ msg' = msg BY <1>9 DEF watchdogWakes
 <2> QED BY <2>1, <2>2, <2>3, <2>4, PostVisits, Places, ZenonT(60)
<1>10. ASSUME NEW c \in Call, pauseEnds(c)
      PROVE  VisitInv'
      BY <1>10 DEF pauseEnds, tryProvider
<1>11. ASSUME NEW c \in Call, lastWaitEnds(c)
      PROVE  VisitInv'
 <2>1. c \in Unsubscriber /\ c \in Call BY Places
 <2>2. \/ todo' = todo /\ pc[c] \notin {"failing", "fading"}
       \/ postSucessOrFailurePublishing(c) /\ pc'[c] \in {"failing", "fading"}
  <3>1. CASE todo' = todo BY <1>11, <3>1 DEF lastWaitEnds
  <3>2. CASE todo' # todo BY <1>11, <3>2 DEF lastWaitEnds
  <3> QED BY <1>11, <3>1, <3>2 DEF lastWaitEnds
 <2>3. \A d \in Call : d # c => pc'[d] = pc[d] BY <1>11 DEF lastWaitEnds
 <2>4. stopPc' = stopPc /\ msg' = msg BY <1>11 DEF lastWaitEnds
 <2> QED BY <2>1, <2>2, <2>3, <2>4, PostVisits, Places, ZenonT(60)
<1>12. ASSUME NEW c \in Call, callEnds(c)
      PROVE  VisitInv'
      BY <1>12 DEF callEnds
<1>13. CASE stop
 <2>1. StopCall \in Unsubscriber /\ postSucessOrFailurePublishing(StopCall) BY <1>13, Places DEF stop
 <2> QED BY <1>13, <2>1, PostVisits, Places DEF stop
<1>14. CASE stopEnds BY <1>14 DEF stopEnds
<1>15. ASSUME NEW u \in Unsubscriber, UnsubscribeNext(u)
      PROVE  VisitInv'
      BY <1>15 DEF UnsubscribeNext, Unsubscriber
<1>16. ASSUME NEW h \in Copy, NEW kind \in {"challenge", "success", "failure"}, NEW e \in Exchange, handleChallengeExchange(h, kind, e)
      PROVE  VisitInv'
 <2>1. msg[h].phase = "idle" BY <1>16 DEF handleChallengeExchange, NoMsg
 <2> QED BY <1>16, <2>1 DEF handleChallengeExchange
<1>17. ASSUME NEW h \in Copy, rejectMessage(h)
      PROVE  VisitInv'
      BY <1>17 DEF rejectMessage
<1>18. ASSUME NEW h \in Copy, handleIncomingChallenge(h)
      PROVE  VisitInv'
      BY <1>18 DEF handleIncomingChallenge
<1>19. ASSUME NEW h \in Copy, handleIncomingChallengeVerification(h)
      PROVE  VisitInv'
 <2>1. h \in Unsubscriber /\ msg[h].phase = "verifying" BY <1>19, Places DEF handleIncomingChallengeVerification
 <2>2. \A g \in Copy : g # h => msg'[g] = msg[g]
       BY <1>19 DEF handleIncomingChallengeVerification, VerificationCopy, VerificationFailed, VerificationSucceeded, ReportVerdict
 <2>3. todo' = todo \/ (msg'[h].phase = "unsubscribing" /\ postSucessOrFailurePublishing(h))
  <3>1. CASE VerificationFailed(h)
   <4>1. msg' = [msg EXCEPT ![h].phase = "unsubscribing"] /\ postSucessOrFailurePublishing(h) BY <3>1 DEF VerificationFailed, ReportVerdict
   <4> QED BY <2>1, <4>1, PhaseMoves
  <3>2. CASE VerificationCopy(h) BY <3>2 DEF VerificationCopy
  <3>3. CASE VerificationSucceeded(h) BY <3>3 DEF VerificationSucceeded
  <3> QED BY <1>19, <3>1, <3>2, <3>3 DEF handleIncomingChallengeVerification
 <2>4. stopPc' = stopPc /\ pc' = pc BY <1>19 DEF handleIncomingChallengeVerification
 <2>5. CASE todo' = todo BY <2>1, <2>2, <2>4, <2>5
 <2>6. CASE msg'[h].phase = "unsubscribing" /\ postSucessOrFailurePublishing(h) BY <2>1, <2>2, <2>4, <2>6, PostVisits, Places, SMTT(60)
 <2> QED BY <2>3, <2>5, <2>6
<1>20. ASSUME NEW h \in Copy, updateCommentProps(h)
      PROVE  VisitInv'
 <2>1. h \in Unsubscriber /\ postSucessOrFailurePublishing(h) BY <1>20, Places DEF updateCommentProps, ReportVerdict
 <2>2. msg'[h].phase = "unsubscribing" /\ \A g \in Copy : g # h => msg'[g] = msg[g] BY <1>20 DEF updateCommentProps, ReportVerdict
 <2>3. stopPc' = stopPc /\ pc' = pc BY <1>20 DEF updateCommentProps
 <2> QED BY <1>20, <2>1, <2>2, <2>3, PostVisits, Places, ZenonT(60) DEF StopCall
<1>21. ASSUME NEW h \in Copy, handlerEnds(h)
      PROVE  VisitInv'
      BY <1>21 DEF handlerEnds
<1>22. ASSUME NEW a \in Ans, publishChallengeAnswers(a)
      PROVE  VisitInv'
      BY <1>22 DEF publishChallengeAnswers
<1>23. ASSUME NEW a \in Ans, answerSigned(a)
      PROVE  VisitInv'
      BY <1>23 DEF answerSigned
<1>24. ASSUME NEW a \in Ans, answerSignFails(a)
      PROVE  VisitInv'
      BY <1>24 DEF answerSignFails
<1>25. ASSUME NEW a \in Ans, answerPublished(a)
      PROVE  VisitInv'
      BY <1>25 DEF answerPublished
<1>26. ASSUME NEW a \in Ans, answerPublishFails(a)
      PROVE  VisitInv'
      BY <1>26 DEF answerPublishFails
<1>27. CASE UNCHANGED vars BY <1>27 DEF vars
<1> HIDE DEF TypeOK, VisitInv
<1> QED
    BY <1>1, <1>2, <1>3, <1>4, <1>5, <1>6, <1>7, <1>8, <1>9, <1>10, <1>11, <1>12, <1>13, <1>14, <1>15, <1>16, <1>17, <1>18, <1>19, <1>20, <1>21, <1>22, <1>23, <1>24, <1>25, <1>26, <1>27 DEF Next, CallStep, Handle, Answer

\* Only the first challenge is announced.
LEMMA ChallengeStep ==
    ASSUME TypeOK, ChallengeInv, [Next]_vars
    PROVE  ChallengeInv'
<1> USE ConstantsAssumption
    DEF TypeOK, ChallengeInv,
        exchangeVars, callVars, historyVars, Request, GoTo, HandlerEnds, AnswerTo
<1>1. ASSUME NEW c \in Call, publish(c)
      PROVE  ChallengeInv'
      BY <1>1 DEF publish
<1>2. ASSUME NEW c \in Call, Prepared(c)
      PROVE  ChallengeInv'
      BY <1>2 DEF Prepared, tryProvider
<1>3. ASSUME NEW c \in Call, PrepareFails(c)
      PROVE  ChallengeInv'
      BY <1>3 DEF PrepareFails
<1>4. ASSUME NEW c \in Call, generateChallengeRequestToPublish(c)
      PROVE  ChallengeInv'
      BY <1>4 DEF generateChallengeRequestToPublish
<1>5. ASSUME NEW c \in Call, pubsubSubscribeOnProvider(c)
      PROVE  ChallengeInv'
      BY <1>5 DEF pubsubSubscribeOnProvider
<1>6. ASSUME NEW c \in Call, abandonProvider(c)
      PROVE  ChallengeInv'
      BY <1>6 DEF abandonProvider
<1>7. ASSUME NEW c \in Call, requestPublished(c)
      PROVE  ChallengeInv'
      BY <1>7 DEF requestPublished, tryProvider
<1>8. ASSUME NEW c \in Call, attemptFails(c)
      PROVE  ChallengeInv'
      BY <1>8 DEF attemptFails, tryProvider, postSucessOrFailurePublishing
<1>9. ASSUME NEW c \in Call, watchdogWakes(c)
      PROVE  ChallengeInv'
      BY <1>9 DEF watchdogWakes, AgedAfter, tryProvider, postSucessOrFailurePublishing
<1>10. ASSUME NEW c \in Call, pauseEnds(c)
      PROVE  ChallengeInv'
      BY <1>10 DEF pauseEnds, tryProvider
<1>11. ASSUME NEW c \in Call, lastWaitEnds(c)
      PROVE  ChallengeInv'
      BY <1>11 DEF lastWaitEnds, AgedAfter, postSucessOrFailurePublishing
<1>12. ASSUME NEW c \in Call, callEnds(c)
      PROVE  ChallengeInv'
      BY <1>12 DEF callEnds
<1>13. CASE stop BY <1>13 DEF stop, postSucessOrFailurePublishing
<1>14. CASE stopEnds BY <1>14 DEF stopEnds
<1>15. ASSUME NEW u \in Unsubscriber, UnsubscribeNext(u)
      PROVE  ChallengeInv'
      BY <1>15 DEF UnsubscribeNext
<1>16. ASSUME NEW h \in Copy, NEW kind \in {"challenge", "success", "failure"}, NEW e \in Exchange, handleChallengeExchange(h, kind, e)
      PROVE  ChallengeInv'
      BY <1>16 DEF handleChallengeExchange
<1>17. ASSUME NEW h \in Copy, rejectMessage(h)
      PROVE  ChallengeInv'
      BY <1>17 DEF rejectMessage
<1>18. ASSUME NEW h \in Copy, handleIncomingChallenge(h)
      PROVE  ChallengeInv'
 <2>1. CASE challenged # {} BY <1>18, <2>1 DEF handleIncomingChallenge
 <2>2. CASE challenged = {}
  <3>1. challenged' = {msg[h].of} /\ challengeEvents' = challengeEvents + 1 BY <1>18, <2>2 DEF handleIncomingChallenge
  <3>2. challengeEvents = 0 BY <2>2
  <3>3. challengeEvents' = 1 BY <3>1, <3>2
  <3>4. challenged' # {} BY <3>1
  <3> QED BY <3>3, <3>4
 <2> QED BY <2>1, <2>2
<1>19. ASSUME NEW h \in Copy, handleIncomingChallengeVerification(h)
      PROVE  ChallengeInv'
      BY <1>19 DEF handleIncomingChallengeVerification, ReportVerdict, postSucessOrFailurePublishing
<1>20. ASSUME NEW h \in Copy, updateCommentProps(h)
      PROVE  ChallengeInv'
      BY <1>20 DEF updateCommentProps, ReportVerdict, postSucessOrFailurePublishing
<1>21. ASSUME NEW h \in Copy, handlerEnds(h)
      PROVE  ChallengeInv'
      BY <1>21 DEF handlerEnds
<1>22. ASSUME NEW a \in Ans, publishChallengeAnswers(a)
      PROVE  ChallengeInv'
      BY <1>22 DEF publishChallengeAnswers
<1>23. ASSUME NEW a \in Ans, answerSigned(a)
      PROVE  ChallengeInv'
      BY <1>23 DEF answerSigned
<1>24. ASSUME NEW a \in Ans, answerSignFails(a)
      PROVE  ChallengeInv'
      BY <1>24 DEF answerSignFails
<1>25. ASSUME NEW a \in Ans, answerPublished(a)
      PROVE  ChallengeInv'
      BY <1>25 DEF answerPublished
<1>26. ASSUME NEW a \in Ans, answerPublishFails(a)
      PROVE  ChallengeInv'
      BY <1>26 DEF answerPublishFails
<1>27. CASE UNCHANGED vars BY <1>27 DEF vars
<1> HIDE DEF TypeOK, ChallengeInv
<1> QED
    BY <1>1, <1>2, <1>3, <1>4, <1>5, <1>6, <1>7, <1>8, <1>9, <1>10, <1>11, <1>12, <1>13, <1>14, <1>15, <1>16, <1>17, <1>18, <1>19, <1>20, <1>21, <1>22, <1>23, <1>24, <1>25, <1>26, <1>27 DEF Next, CallStep, Handle, Answer

\* Only the handler that recorded a verdict reports it.
LEMMA VerdictStep ==
    ASSUME TypeOK, VerdictInv, [Next]_vars
    PROVE  VerdictInv'
<1> USE ConstantsAssumption
    DEF TypeOK, VerdictInv,
        exchangeVars, callVars, historyVars, Request, GoTo, HandlerEnds, AnswerTo
<1>1. ASSUME NEW c \in Call, publish(c)
      PROVE  VerdictInv'
      BY <1>1 DEF publish
<1>2. ASSUME NEW c \in Call, Prepared(c)
      PROVE  VerdictInv'
      BY <1>2 DEF Prepared, tryProvider
<1>3. ASSUME NEW c \in Call, PrepareFails(c)
      PROVE  VerdictInv'
      BY <1>3 DEF PrepareFails
<1>4. ASSUME NEW c \in Call, generateChallengeRequestToPublish(c)
      PROVE  VerdictInv'
      BY <1>4 DEF generateChallengeRequestToPublish
<1>5. ASSUME NEW c \in Call, pubsubSubscribeOnProvider(c)
      PROVE  VerdictInv'
      BY <1>5 DEF pubsubSubscribeOnProvider
<1>6. ASSUME NEW c \in Call, abandonProvider(c)
      PROVE  VerdictInv'
      BY <1>6 DEF abandonProvider
<1>7. ASSUME NEW c \in Call, requestPublished(c)
      PROVE  VerdictInv'
      BY <1>7 DEF requestPublished, tryProvider
<1>8. ASSUME NEW c \in Call, attemptFails(c)
      PROVE  VerdictInv'
      BY <1>8 DEF attemptFails, tryProvider, postSucessOrFailurePublishing
<1>9. ASSUME NEW c \in Call, watchdogWakes(c)
      PROVE  VerdictInv'
      BY <1>9 DEF watchdogWakes, AgedAfter, tryProvider, postSucessOrFailurePublishing
<1>10. ASSUME NEW c \in Call, pauseEnds(c)
      PROVE  VerdictInv'
      BY <1>10 DEF pauseEnds, tryProvider
<1>11. ASSUME NEW c \in Call, lastWaitEnds(c)
      PROVE  VerdictInv'
      BY <1>11 DEF lastWaitEnds, AgedAfter, postSucessOrFailurePublishing
<1>12. ASSUME NEW c \in Call, callEnds(c)
      PROVE  VerdictInv'
      BY <1>12 DEF callEnds
<1>13. CASE stop BY <1>13 DEF stop, postSucessOrFailurePublishing
<1>14. CASE stopEnds BY <1>14 DEF stopEnds
<1>15. ASSUME NEW u \in Unsubscriber, UnsubscribeNext(u)
      PROVE  VerdictInv'
      BY <1>15 DEF UnsubscribeNext
<1>16. ASSUME NEW h \in Copy, NEW kind \in {"challenge", "success", "failure"}, NEW e \in Exchange, handleChallengeExchange(h, kind, e)
      PROVE  VerdictInv'
 <2>1. msg'[h].phase = "verifying" /\ \A g \in Copy : g # h => msg'[g] = msg[g] BY <1>16 DEF handleChallengeExchange
 <2> QED BY <1>16, <2>1 DEF handleChallengeExchange
<1>17. ASSUME NEW h \in Copy, rejectMessage(h)
      PROVE  VerdictInv'
      BY <1>17 DEF rejectMessage
<1>18. ASSUME NEW h \in Copy, handleIncomingChallenge(h)
      PROVE  VerdictInv'
      BY <1>18 DEF handleIncomingChallenge
<1>19. ASSUME NEW h \in Copy, handleIncomingChallengeVerification(h)
      PROVE  VerdictInv'
 <2>1. msg[h].phase # "idle" /\ msg[h].phase # "updating" BY <1>19 DEF handleIncomingChallengeVerification
 <2>2. CASE VerificationCopy(h) BY <1>19, <2>1, <2>2, PhaseMoves DEF handleIncomingChallengeVerification, VerificationCopy
 <2>3. CASE VerificationFailed(h)
  <3>1. verdictEvents[msg[h].of] = 0 /\ verdictEvents \in [Exchange -> Nat] BY <2>1, <2>3, PhaseMoves DEF VerificationFailed, ReportVerdict
  <3>2. msg' = [msg EXCEPT ![h].phase = "unsubscribing"] /\ verdictEvents' = [verdictEvents EXCEPT ![msg[h].of] = @ + 1]
        BY <2>3 DEF VerificationFailed, ReportVerdict
  <3>3. msg[h].of \in Exchange /\ msg'[h].phase = "unsubscribing" /\ \A g \in Copy : g # h => msg'[g] = msg[g] BY <2>1, <3>2, PhaseMoves
  <3>4. verdictEvents'[msg[h].of] = 1 /\ \A e \in Exchange : e # msg[h].of => verdictEvents'[e] = verdictEvents[e] BY <3>1, <3>2, <3>3
  <3>5. verified' = verified \cup {msg[h].of} /\ msg[h].of \notin verified BY <2>3 DEF VerificationFailed
  <3>6. \A e \in Exchange : (e \notin verified' => verdictEvents'[e] = 0) /\ verdictEvents'[e] <= 1 BY <3>4, <3>5
  <3>7. \A g \in Copy : msg'[g].phase = "updating" =>
            g # h /\ msg[g].phase = "updating" /\ msg'[g].of = msg[g].of /\ msg[g].of # msg[h].of
        BY <3>3, <3>5
  <3>8. \A g \in Copy : msg[g].phase = "updating" => msg[g].of \in Exchange BY <3>5
  <3> QED BY <3>4, <3>5, <3>6, <3>7, <3>8, SMTT(60)
 <2>4. CASE VerificationSucceeded(h)
  <3>1. msg' = [msg EXCEPT ![h].phase = "updating"] /\ verdictEvents' = verdictEvents BY <2>4 DEF VerificationSucceeded
  <3>2. /\ msg[h].of \in Exchange /\ msg'[h].phase = "updating" /\ msg'[h].of = msg[h].of
        /\ \A g \in Copy : g # h => msg'[g] = msg[g]
        BY <2>1, <3>1, PhaseMoves
  <3>3. verified' = verified \cup {msg[h].of} /\ msg[h].of \notin verified BY <2>4 DEF VerificationSucceeded
  <3> QED BY <3>1, <3>2, <3>3
 <2> QED BY <1>19, <2>2, <2>3, <2>4 DEF handleIncomingChallengeVerification
<1>20. ASSUME NEW h \in Copy, updateCommentProps(h)
      PROVE  VerdictInv'
      BY <1>20 DEF updateCommentProps, ReportVerdict, postSucessOrFailurePublishing
<1>21. ASSUME NEW h \in Copy, handlerEnds(h)
      PROVE  VerdictInv'
      BY <1>21 DEF handlerEnds
<1>22. ASSUME NEW a \in Ans, publishChallengeAnswers(a)
      PROVE  VerdictInv'
      BY <1>22 DEF publishChallengeAnswers
<1>23. ASSUME NEW a \in Ans, answerSigned(a)
      PROVE  VerdictInv'
      BY <1>23 DEF answerSigned
<1>24. ASSUME NEW a \in Ans, answerSignFails(a)
      PROVE  VerdictInv'
      BY <1>24 DEF answerSignFails
<1>25. ASSUME NEW a \in Ans, answerPublished(a)
      PROVE  VerdictInv'
      BY <1>25 DEF answerPublished
<1>26. ASSUME NEW a \in Ans, answerPublishFails(a)
      PROVE  VerdictInv'
      BY <1>26 DEF answerPublishFails
<1>27. CASE UNCHANGED vars BY <1>27 DEF vars
<1> HIDE DEF TypeOK, VerdictInv
<1> QED
    BY <1>1, <1>2, <1>3, <1>4, <1>5, <1>6, <1>7, <1>8, <1>9, <1>10, <1>11, <1>12, <1>13, <1>14, <1>15, <1>16, <1>17, <1>18, <1>19, <1>20, <1>21, <1>22, <1>23, <1>24, <1>25, <1>26, <1>27 DEF Next, CallStep, Handle, Answer

\* The claim keeps a second answer out.
LEMMA AnswerStep ==
    ASSUME TypeOK, ChallengeInv, AnswerInv, [Next]_vars
    PROVE  AnswerInv'
<1> USE ConstantsAssumption
    DEF TypeOK, AnswerInv,
        exchangeVars, callVars, historyVars, Request, GoTo, HandlerEnds, AnswerTo
<1>1. ASSUME NEW c \in Call, publish(c)
      PROVE  AnswerInv'
      BY <1>1 DEF publish
<1>2. ASSUME NEW c \in Call, Prepared(c)
      PROVE  AnswerInv'
      BY <1>2 DEF Prepared, tryProvider
<1>3. ASSUME NEW c \in Call, PrepareFails(c)
      PROVE  AnswerInv'
      BY <1>3 DEF PrepareFails
<1>4. ASSUME NEW c \in Call, generateChallengeRequestToPublish(c)
      PROVE  AnswerInv'
      BY <1>4 DEF generateChallengeRequestToPublish
<1>5. ASSUME NEW c \in Call, pubsubSubscribeOnProvider(c)
      PROVE  AnswerInv'
      BY <1>5 DEF pubsubSubscribeOnProvider
<1>6. ASSUME NEW c \in Call, abandonProvider(c)
      PROVE  AnswerInv'
      BY <1>6 DEF abandonProvider
<1>7. ASSUME NEW c \in Call, requestPublished(c)
      PROVE  AnswerInv'
      BY <1>7 DEF requestPublished, tryProvider
<1>8. ASSUME NEW c \in Call, attemptFails(c)
      PROVE  AnswerInv'
      BY <1>8 DEF attemptFails, tryProvider, postSucessOrFailurePublishing
<1>9. ASSUME NEW c \in Call, watchdogWakes(c)
      PROVE  AnswerInv'
      BY <1>9 DEF watchdogWakes, AgedAfter, tryProvider, postSucessOrFailurePublishing
<1>10. ASSUME NEW c \in Call, pauseEnds(c)
      PROVE  AnswerInv'
      BY <1>10 DEF pauseEnds, tryProvider
<1>11. ASSUME NEW c \in Call, lastWaitEnds(c)
      PROVE  AnswerInv'
      BY <1>11 DEF lastWaitEnds, AgedAfter, postSucessOrFailurePublishing
<1>12. ASSUME NEW c \in Call, callEnds(c)
      PROVE  AnswerInv'
      BY <1>12 DEF callEnds
<1>13. CASE stop BY <1>13 DEF stop, postSucessOrFailurePublishing
<1>14. CASE stopEnds BY <1>14 DEF stopEnds
<1>15. ASSUME NEW u \in Unsubscriber, UnsubscribeNext(u)
      PROVE  AnswerInv'
      BY <1>15 DEF UnsubscribeNext
<1>16. ASSUME NEW h \in Copy, NEW kind \in {"challenge", "success", "failure"}, NEW e \in Exchange, handleChallengeExchange(h, kind, e)
      PROVE  AnswerInv'
      BY <1>16 DEF handleChallengeExchange
<1>17. ASSUME NEW h \in Copy, rejectMessage(h)
      PROVE  AnswerInv'
      BY <1>17 DEF rejectMessage
<1>18. ASSUME NEW h \in Copy, handleIncomingChallenge(h)
      PROVE  AnswerInv'
      BY <1>18 DEF handleIncomingChallenge
<1>19. ASSUME NEW h \in Copy, handleIncomingChallengeVerification(h)
      PROVE  AnswerInv'
      BY <1>19 DEF handleIncomingChallengeVerification, ReportVerdict, postSucessOrFailurePublishing
<1>20. ASSUME NEW h \in Copy, updateCommentProps(h)
      PROVE  AnswerInv'
      BY <1>20 DEF updateCommentProps, ReportVerdict, postSucessOrFailurePublishing
<1>21. ASSUME NEW h \in Copy, handlerEnds(h)
      PROVE  AnswerInv'
      BY <1>21 DEF handlerEnds
<1>22. ASSUME NEW a \in Ans, publishChallengeAnswers(a)
      PROVE  AnswerInv'
      BY <1>22 DEF publishChallengeAnswers
<1>23. ASSUME NEW a \in Ans, answerSigned(a)
      PROVE  AnswerInv'
      BY <1>23 DEF answerSigned
<1>24. ASSUME NEW a \in Ans, answerSignFails(a)
      PROVE  AnswerInv'
      BY <1>24 DEF answerSignFails
<1>25. ASSUME NEW a \in Ans, answerPublished(a)
      PROVE  AnswerInv'
      BY <1>25 DEF answerPublished
<1>26. ASSUME NEW a \in Ans, answerPublishFails(a)
      PROVE  AnswerInv'
      BY <1>26 DEF answerPublishFails
<1>27. CASE UNCHANGED vars BY <1>27 DEF vars
<1> HIDE DEF TypeOK, AnswerInv
<1> QED
    BY <1>1, <1>2, <1>3, <1>4, <1>5, <1>6, <1>7, <1>8, <1>9, <1>10, <1>11, <1>12, <1>13, <1>14, <1>15, <1>16, <1>17, <1>18, <1>19, <1>20, <1>21, <1>22, <1>23, <1>24, <1>25, <1>26, <1>27 DEF Next, CallStep, Handle, Answer

\* A process that ends the publication has every subscribed provider to visit.
LEMMA PostCovers ==
    ASSUME TypeOK, ListenInv, NEW u \in Unsubscriber, postSucessOrFailurePublishing(u),
           subscribed' = subscribed, community' = community
    PROVE  ListenInv'
<1>1. CASE community = "open" BY <1>1, PostVisits DEF TypeOK, ListenInv
<1>2. CASE community # "open" BY <1>2 DEF ListenInv
<1> QED BY <1>1, <1>2

\* A step that neither ends the publication nor touches a subscription.
LEMMA StaysCovered ==
    ASSUME ListenInv, state' = "stopped" => state = "stopped",
           subscribed' = subscribed, community' = community, todo' = todo,
           \A c \in Call : pc[c] = "abandoning" => pc'[c] = "abandoning" /\ at'[c] = at[c]
    PROVE  ListenInv'
BY DEF ListenInv

\* No step leaves a stopped publication with a provider nobody will visit.
LEMMA ListenStep ==
    ASSUME TypeOK, PlaceInv, ListenInv, [Next]_vars
    PROVE  ListenInv'
<1> USE ConstantsAssumption
    DEF TypeOK, PlaceInv,
        exchangeVars, callVars, historyVars, Request, GoTo, HandlerEnds, AnswerTo
<1>1. ASSUME NEW c \in Call, publish(c)
      PROVE  ListenInv'
 <2>1. /\ (state' = "stopped" => state = "stopped") /\ subscribed' = subscribed /\ community' = community /\ todo' = todo
       /\ \A d \in Call : pc[d] = "abandoning" => pc'[d] = "abandoning" /\ at'[d] = at[d]
       BY <1>1 DEF publish
 <2> QED BY <2>1, StaysCovered
<1>2. ASSUME NEW c \in Call, Prepared(c)
      PROVE  ListenInv'
 <2>1. CASE community = "open"
  <3>1. /\ (state' = "stopped" => state = "stopped") /\ subscribed' = subscribed /\ community' = community /\ todo' = todo
        BY <1>2, <2>1 DEF Prepared
  <3>2. \A d \in Call : pc[d] = "abandoning" => pc'[d] = "abandoning" /\ at'[d] = at[d] BY <1>2, <2>1, <3>1 DEF Prepared, tryProvider
  <3> QED BY <3>1, <3>2, StaysCovered
 <2>2. CASE community # "open"
  <3>1. subscribed = {} /\ subscribed' = subscribed BY <1>2, <2>2 DEF Prepared, ListenInv
  <3> QED BY <3>1 DEF ListenInv
 <2> QED BY <2>1, <2>2
<1>3. ASSUME NEW c \in Call, PrepareFails(c)
      PROVE  ListenInv'
 <2>1. subscribed = {} /\ subscribed' = subscribed BY <1>3 DEF PrepareFails, ListenInv
 <2> QED BY <2>1 DEF ListenInv
<1>4. ASSUME NEW c \in Call, generateChallengeRequestToPublish(c)
      PROVE  ListenInv'
 <2>1. /\ (state' = "stopped" => state = "stopped") /\ subscribed' = subscribed /\ community' = community /\ todo' = todo
       /\ \A d \in Call : pc[d] = "abandoning" => pc'[d] = "abandoning" /\ at'[d] = at[d]
       BY <1>4 DEF generateChallengeRequestToPublish
 <2> QED BY <2>1, StaysCovered
<1>5. ASSUME NEW c \in Call, pubsubSubscribeOnProvider(c)
      PROVE  ListenInv'
 <2>1. community = "open" /\ community' = community /\ state' = state /\ todo' = todo /\ at' = at BY <1>5 DEF pubsubSubscribeOnProvider
 <2>2. subscribed' = subscribed \cup {ProviderAt[at[c]]} BY <1>5 DEF pubsubSubscribeOnProvider
 <2>3. CASE state = "stopped"
  <3>1. pc'[c] = "abandoning" /\ \A d \in Call : pc[d] = "abandoning" => pc'[d] = "abandoning" BY <1>5, <2>3 DEF pubsubSubscribeOnProvider
  <3> QED BY <2>1, <2>2, <2>3, <3>1 DEF ListenInv
 <2>4. CASE state # "stopped" BY <2>1, <2>4 DEF ListenInv
 <2> QED BY <2>3, <2>4
<1>6. ASSUME NEW c \in Call, abandonProvider(c)
      PROVE  ListenInv'
 <2>1. /\ community' = community /\ state' = state /\ todo' = todo /\ at' = at /\ subscribed' \subseteq subscribed
       /\ \A d \in Call : d # c => pc'[d] = pc[d]
       BY <1>6 DEF abandonProvider
 <2>2. "unsubscribe" \notin Faults => ProviderAt[at[c]] \notin subscribed' BY <1>6 DEF abandonProvider
 <2>3. subscribed' # {} => community' = "open" BY <2>1 DEF ListenInv
 <2>4. ASSUME state' = "stopped", "unsubscribe" \notin Faults, ~Libp2p, NEW p \in subscribed'
       PROVE  \/ \E u \in Unsubscriber : p \in todo'[u]
              \/ \E d \in Call : pc'[d] = "abandoning" /\ ProviderAt[at'[d]] = p
  <3>1. p \in subscribed /\ p # ProviderAt[at[c]] /\ state = "stopped" BY <2>1, <2>2, <2>4
  <3>2. \/ \E u \in Unsubscriber : p \in todo[u]
        \/ \E d \in Call : pc[d] = "abandoning" /\ ProviderAt[at[d]] = p
        BY <2>4, <3>1 DEF ListenInv
  <3> QED BY <2>1, <3>1, <3>2
 <2> QED BY <2>3, <2>4 DEF ListenInv
<1>7. ASSUME NEW c \in Call, requestPublished(c)
      PROVE  ListenInv'
 <2>1. /\ (state' = "stopped" => state = "stopped") /\ subscribed' = subscribed /\ community' = community /\ todo' = todo
       /\ \A d \in Call : pc[d] = "abandoning" => pc'[d] = "abandoning" /\ at'[d] = at[d]
       BY <1>7 DEF requestPublished, tryProvider
 <2> QED BY <2>1, StaysCovered
<1>8. ASSUME NEW c \in Call, attemptFails(c)
      PROVE  ListenInv'
 <2>1. c \in Unsubscriber /\ subscribed' = subscribed /\ community' = community BY <1>8, Places DEF attemptFails
 <2>2. CASE c \notin retrying /\ isAllAttemptsExhausted(errored', aged)
  <3>1. postSucessOrFailurePublishing(c) BY <1>8, <2>2 DEF attemptFails
  <3> QED BY <2>1, <3>1, PostCovers
 <2>3. CASE ~(c \notin retrying /\ isAllAttemptsExhausted(errored', aged))
  <3>1. /\ (state' = "stopped" => state = "stopped") /\ subscribed' = subscribed /\ community' = community /\ todo' = todo
      /\ \A d \in Call : pc[d] = "abandoning" => pc'[d] = "abandoning" /\ at'[d] = at[d]
        BY <1>8, <2>3 DEF attemptFails, tryProvider
  <3> QED BY <3>1, StaysCovered
 <2> QED BY <1>8, <2>2, <2>3 DEF attemptFails
<1>9. ASSUME NEW c \in Call, watchdogWakes(c)
      PROVE  ListenInv'
 <2>1. c \in Unsubscriber /\ subscribed' = subscribed /\ community' = community BY <1>9, Places DEF watchdogWakes
 <2>2. CASE todo' = todo /\ state' = state
  <3>1. /\ (state' = "stopped" => state = "stopped") /\ subscribed' = subscribed /\ community' = community /\ todo' = todo
      /\ \A d \in Call : pc[d] = "abandoning" => pc'[d] = "abandoning" /\ at'[d] = at[d]
        BY <1>9, <2>2 DEF watchdogWakes, tryProvider
  <3> QED BY <3>1, StaysCovered
 <2>3. CASE ~(todo' = todo /\ state' = state)
  <3>1. postSucessOrFailurePublishing(c) BY <1>9, <2>3 DEF watchdogWakes
  <3> QED BY <2>1, <3>1, PostCovers
 <2> QED BY <1>9, <2>2, <2>3 DEF watchdogWakes
<1>10. ASSUME NEW c \in Call, pauseEnds(c)
      PROVE  ListenInv'
 <2>1. /\ (state' = "stopped" => state = "stopped") /\ subscribed' = subscribed /\ community' = community /\ todo' = todo
       /\ \A d \in Call : pc[d] = "abandoning" => pc'[d] = "abandoning" /\ at'[d] = at[d]
       BY <1>10 DEF pauseEnds, tryProvider
 <2> QED BY <2>1, StaysCovered
<1>11. ASSUME NEW c \in Call, lastWaitEnds(c)
      PROVE  ListenInv'
 <2>1. c \in Unsubscriber /\ subscribed' = subscribed /\ community' = community BY <1>11, Places DEF lastWaitEnds
 <2>2. CASE todo' = todo /\ state' = state
  <3>1. /\ (state' = "stopped" => state = "stopped") /\ subscribed' = subscribed /\ community' = community /\ todo' = todo
      /\ \A d \in Call : pc[d] = "abandoning" => pc'[d] = "abandoning" /\ at'[d] = at[d]
        BY <1>11, <2>2 DEF lastWaitEnds
  <3> QED BY <3>1, StaysCovered
 <2>3. CASE ~(todo' = todo /\ state' = state)
  <3>1. postSucessOrFailurePublishing(c) BY <1>11, <2>3 DEF lastWaitEnds
  <3> QED BY <2>1, <3>1, PostCovers
 <2> QED BY <1>11, <2>2, <2>3 DEF lastWaitEnds
<1>12. ASSUME NEW c \in Call, callEnds(c)
      PROVE  ListenInv'
 <2>1. /\ (state' = "stopped" => state = "stopped") /\ subscribed' = subscribed /\ community' = community /\ todo' = todo
       /\ \A d \in Call : pc[d] = "abandoning" => pc'[d] = "abandoning" /\ at'[d] = at[d]
       BY <1>12 DEF callEnds
 <2> QED BY <2>1, StaysCovered
<1>13. CASE stop
 <2>1. StopCall \in Unsubscriber /\ subscribed' = subscribed /\ community' = community BY <1>13, Places DEF stop
 <2>2. CASE TRUE
  <3>1. postSucessOrFailurePublishing(StopCall) BY <1>13, <2>2 DEF stop
  <3> QED BY <2>1, <3>1, PostCovers
 <2> QED BY <1>13, <2>2 DEF stop
<1>14. CASE stopEnds
 <2>1. /\ (state' = "stopped" => state = "stopped") /\ subscribed' = subscribed /\ community' = community /\ todo' = todo
       /\ \A d \in Call : pc[d] = "abandoning" => pc'[d] = "abandoning" /\ at'[d] = at[d]
       BY <1>14 DEF stopEnds
 <2> QED BY <2>1, StaysCovered
<1>15. ASSUME NEW u \in Unsubscriber, UnsubscribeNext(u)
      PROVE  ListenInv'
 <2>1. PICK p \in todo[u] : /\ todo' = [todo EXCEPT ![u] = @ \ {p}]
                            /\ subscribed' = subscribed \ {p} \/ ("unsubscribe" \in Faults /\ subscribed' = subscribed)
       BY <1>15 DEF UnsubscribeNext
 <2>2. community' = community /\ state' = state /\ pc' = pc /\ at' = at /\ subscribed' \subseteq subscribed
       BY <1>15, <2>1 DEF UnsubscribeNext
 <2>3. \A q \in Provider, w \in Unsubscriber : q \in todo[w] /\ q # p => q \in todo'[w]
  <3>1. todo \in [Unsubscriber -> SUBSET Provider] OBVIOUS
  <3>2. todo' = [todo EXCEPT ![u] = todo[u] \ {p}] BY <2>1
  <3>3. todo'[u] = todo[u] \ {p} /\ \A w \in Unsubscriber : w # u => todo'[w] = todo[w] BY <3>1, <3>2
  <3> QED BY <3>3
 <2>4. "unsubscribe" \notin Faults => p \notin subscribed' BY <2>1
 <2> QED BY <2>2, <2>3, <2>4 DEF ListenInv
<1>16. ASSUME NEW h \in Copy, NEW kind \in {"challenge", "success", "failure"}, NEW e \in Exchange, handleChallengeExchange(h, kind, e)
      PROVE  ListenInv'
 <2>1. /\ (state' = "stopped" => state = "stopped") /\ subscribed' = subscribed /\ community' = community /\ todo' = todo
       /\ \A d \in Call : pc[d] = "abandoning" => pc'[d] = "abandoning" /\ at'[d] = at[d]
       BY <1>16 DEF handleChallengeExchange
 <2> QED BY <2>1, StaysCovered
<1>17. ASSUME NEW h \in Copy, rejectMessage(h)
      PROVE  ListenInv'
 <2>1. /\ (state' = "stopped" => state = "stopped") /\ subscribed' = subscribed /\ community' = community /\ todo' = todo
       /\ \A d \in Call : pc[d] = "abandoning" => pc'[d] = "abandoning" /\ at'[d] = at[d]
       BY <1>17 DEF rejectMessage
 <2> QED BY <2>1, StaysCovered
<1>18. ASSUME NEW h \in Copy, handleIncomingChallenge(h)
      PROVE  ListenInv'
 <2>1. /\ (state' = "stopped" => state = "stopped") /\ subscribed' = subscribed /\ community' = community /\ todo' = todo
       /\ \A d \in Call : pc[d] = "abandoning" => pc'[d] = "abandoning" /\ at'[d] = at[d]
       BY <1>18 DEF handleIncomingChallenge
 <2> QED BY <2>1, StaysCovered
<1>19. ASSUME NEW h \in Copy, handleIncomingChallengeVerification(h)
      PROVE  ListenInv'
 <2>1. h \in Unsubscriber /\ subscribed' = subscribed /\ community' = community BY <1>19, Places DEF handleIncomingChallengeVerification
 <2>2. CASE VerificationCopy(h)
  <3>1. /\ (state' = "stopped" => state = "stopped") /\ subscribed' = subscribed /\ community' = community /\ todo' = todo
      /\ \A d \in Call : pc[d] = "abandoning" => pc'[d] = "abandoning" /\ at'[d] = at[d]
        BY <1>19, <2>2 DEF handleIncomingChallengeVerification, VerificationCopy
  <3> QED BY <3>1, StaysCovered
 <2>3. CASE VerificationFailed(h)
  <3>1. postSucessOrFailurePublishing(h) BY <1>19, <2>3 DEF VerificationFailed, ReportVerdict
  <3> QED BY <2>1, <3>1, PostCovers
 <2>4. CASE VerificationSucceeded(h)
  <3>1. /\ (state' = "stopped" => state = "stopped") /\ subscribed' = subscribed /\ community' = community /\ todo' = todo
      /\ \A d \in Call : pc[d] = "abandoning" => pc'[d] = "abandoning" /\ at'[d] = at[d]
        BY <1>19, <2>4 DEF handleIncomingChallengeVerification, VerificationSucceeded
  <3> QED BY <3>1, StaysCovered
 <2> QED BY <1>19, <2>2, <2>3, <2>4 DEF handleIncomingChallengeVerification
<1>20. ASSUME NEW h \in Copy, updateCommentProps(h)
      PROVE  ListenInv'
 <2>1. h \in Unsubscriber /\ subscribed' = subscribed /\ community' = community BY <1>20, Places DEF updateCommentProps
 <2>2. CASE TRUE
  <3>1. postSucessOrFailurePublishing(h) BY <1>20, <2>2 DEF updateCommentProps, ReportVerdict
  <3> QED BY <2>1, <3>1, PostCovers
 <2> QED BY <1>20, <2>2 DEF updateCommentProps
<1>21. ASSUME NEW h \in Copy, handlerEnds(h)
      PROVE  ListenInv'
 <2>1. /\ (state' = "stopped" => state = "stopped") /\ subscribed' = subscribed /\ community' = community /\ todo' = todo
       /\ \A d \in Call : pc[d] = "abandoning" => pc'[d] = "abandoning" /\ at'[d] = at[d]
       BY <1>21 DEF handlerEnds
 <2> QED BY <2>1, StaysCovered
<1>22. ASSUME NEW a \in Ans, publishChallengeAnswers(a)
      PROVE  ListenInv'
 <2>1. /\ (state' = "stopped" => state = "stopped") /\ subscribed' = subscribed /\ community' = community /\ todo' = todo
       /\ \A d \in Call : pc[d] = "abandoning" => pc'[d] = "abandoning" /\ at'[d] = at[d]
       BY <1>22 DEF publishChallengeAnswers
 <2> QED BY <2>1, StaysCovered
<1>23. ASSUME NEW a \in Ans, answerSigned(a)
      PROVE  ListenInv'
 <2>1. /\ (state' = "stopped" => state = "stopped") /\ subscribed' = subscribed /\ community' = community /\ todo' = todo
       /\ \A d \in Call : pc[d] = "abandoning" => pc'[d] = "abandoning" /\ at'[d] = at[d]
       BY <1>23 DEF answerSigned
 <2> QED BY <2>1, StaysCovered
<1>24. ASSUME NEW a \in Ans, answerSignFails(a)
      PROVE  ListenInv'
 <2>1. /\ (state' = "stopped" => state = "stopped") /\ subscribed' = subscribed /\ community' = community /\ todo' = todo
       /\ \A d \in Call : pc[d] = "abandoning" => pc'[d] = "abandoning" /\ at'[d] = at[d]
       BY <1>24 DEF answerSignFails
 <2> QED BY <2>1, StaysCovered
<1>25. ASSUME NEW a \in Ans, answerPublished(a)
      PROVE  ListenInv'
 <2>1. /\ (state' = "stopped" => state = "stopped") /\ subscribed' = subscribed /\ community' = community /\ todo' = todo
       /\ \A d \in Call : pc[d] = "abandoning" => pc'[d] = "abandoning" /\ at'[d] = at[d]
       BY <1>25 DEF answerPublished
 <2> QED BY <2>1, StaysCovered
<1>26. ASSUME NEW a \in Ans, answerPublishFails(a)
      PROVE  ListenInv'
 <2>1. /\ (state' = "stopped" => state = "stopped") /\ subscribed' = subscribed /\ community' = community /\ todo' = todo
       /\ \A d \in Call : pc[d] = "abandoning" => pc'[d] = "abandoning" /\ at'[d] = at[d]
       BY <1>26 DEF answerPublishFails
 <2> QED BY <2>1, StaysCovered
<1>27. CASE UNCHANGED vars
 <2>1. /\ (state' = "stopped" => state = "stopped") /\ subscribed' = subscribed /\ community' = community /\ todo' = todo
       /\ \A d \in Call : pc[d] = "abandoning" => pc'[d] = "abandoning" /\ at'[d] = at[d]
       BY <1>27 DEF vars
 <2> QED BY <2>1, StaysCovered
<1> HIDE DEF TypeOK, PlaceInv
<1> QED
    BY <1>1, <1>2, <1>3, <1>4, <1>5, <1>6, <1>7, <1>8, <1>9, <1>10, <1>11, <1>12, <1>13, <1>14, <1>15, <1>16, <1>17, <1>18, <1>19, <1>20, <1>21, <1>22, <1>23, <1>24, <1>25, <1>26, <1>27 DEF Next, CallStep, Handle, Answer

\* A step that sends no less, subscribes nothing and leaves the calls that take
\* a subscription back where they are.
LEMMA StaysSent ==
    ASSUME SentInv, sent \subseteq sent', subscribed' \subseteq subscribed,
           \A c \in Call : pc[c] = "abandoning" => pc'[c] = "abandoning" /\ at'[c] = at[c]
    PROVE  SentInv'
BY DEF SentInv

\* No step leaves a provider subscribed that nobody uses or takes back.
LEMMA SentStep ==
    ASSUME TypeOK, PlaceInv, SentInv, [Next]_vars
    PROVE  SentInv'
<1> DEFINE Kept == /\ sent \subseteq sent' /\ subscribed' \subseteq subscribed
                   /\ \A d \in Call : pc[d] = "abandoning" => pc'[d] = "abandoning" /\ at'[d] = at[d]
<1> USE DEF TypeOK, PlaceInv, exchangeVars, callVars, historyVars, Request, GoTo, HandlerEnds, AnswerTo
<1>1. ASSUME NEW c \in Call, publish(c)
      PROVE  Kept
      BY <1>1 DEF publish
<1>2. ASSUME NEW c \in Call, Prepared(c)
      PROVE  Kept
      BY <1>2 DEF Prepared, tryProvider
<1>3. ASSUME NEW c \in Call, PrepareFails(c)
      PROVE  Kept
      BY <1>3 DEF PrepareFails
<1>4. ASSUME NEW c \in Call, generateChallengeRequestToPublish(c)
      PROVE  Kept
      BY <1>4 DEF generateChallengeRequestToPublish
<1>5. ASSUME NEW c \in Call, pubsubSubscribeOnProvider(c)
      PROVE  SentInv'
 <2>1. at' = at /\ sent \subseteq sent' /\ \A d \in Call : pc[d] = "abandoning" => pc'[d] = "abandoning"
       BY <1>5 DEF pubsubSubscribeOnProvider
 <2>2. subscribed' = subscribed \cup {ProviderAt[at[c]]} BY <1>5 DEF pubsubSubscribeOnProvider
 <2>3. pc'[c] = "abandoning" \/ <<c, at[c]>> \in sent' BY <1>5 DEF pubsubSubscribeOnProvider
 <2>4. <<c, at[c]>>[2] = at[c] OBVIOUS
 <2> QED BY <2>1, <2>2, <2>3, <2>4 DEF SentInv
<1>6. ASSUME NEW c \in Call, abandonProvider(c)
      PROVE  SentInv'
 <2>1. at' = at /\ sent' = sent /\ subscribed' \subseteq subscribed /\ \A d \in Call : d # c => pc'[d] = pc[d]
       BY <1>6 DEF abandonProvider
 <2>2. "unsubscribe" \notin Faults => ProviderAt[at[c]] \notin subscribed' BY <1>6 DEF abandonProvider
 <2> QED BY <2>1, <2>2 DEF SentInv
<1>7. ASSUME NEW c \in Call, requestPublished(c)
      PROVE  Kept
      BY <1>7 DEF requestPublished, tryProvider
<1>8. ASSUME NEW c \in Call, attemptFails(c)
      PROVE  Kept
      BY <1>8 DEF attemptFails, tryProvider, postSucessOrFailurePublishing
<1>9. ASSUME NEW c \in Call, watchdogWakes(c)
      PROVE  Kept
      BY <1>9 DEF watchdogWakes, tryProvider, postSucessOrFailurePublishing
<1>10. ASSUME NEW c \in Call, pauseEnds(c)
      PROVE  Kept
      BY <1>10 DEF pauseEnds, tryProvider
<1>11. ASSUME NEW c \in Call, lastWaitEnds(c)
      PROVE  Kept
      BY <1>11 DEF lastWaitEnds, postSucessOrFailurePublishing
<1>12. ASSUME NEW c \in Call, callEnds(c)
      PROVE  Kept
      BY <1>12 DEF callEnds
<1>13. CASE stop
 <2>1. Kept BY <1>13 DEF stop, postSucessOrFailurePublishing
 <2> QED BY <2>1, StaysSent
<1>14. CASE stopEnds
 <2>1. Kept BY <1>14 DEF stopEnds
 <2> QED BY <2>1, StaysSent
<1>15. ASSUME NEW u \in Unsubscriber, UnsubscribeNext(u)
      PROVE  Kept
      BY <1>15 DEF UnsubscribeNext
<1>16. ASSUME NEW h \in Copy, NEW kind \in {"challenge", "success", "failure"}, NEW e \in Exchange, handleChallengeExchange(h, kind, e)
      PROVE  Kept
      BY <1>16 DEF handleChallengeExchange
<1>17. ASSUME NEW h \in Copy, rejectMessage(h)
      PROVE  Kept
      BY <1>17 DEF rejectMessage
<1>18. ASSUME NEW h \in Copy, handleIncomingChallenge(h)
      PROVE  Kept
      BY <1>18 DEF handleIncomingChallenge
<1>19. ASSUME NEW h \in Copy, handleIncomingChallengeVerification(h)
      PROVE  Kept
      BY <1>19 DEF handleIncomingChallengeVerification, VerificationCopy, VerificationFailed, VerificationSucceeded, ReportVerdict, postSucessOrFailurePublishing
<1>20. ASSUME NEW h \in Copy, updateCommentProps(h)
      PROVE  Kept
      BY <1>20 DEF updateCommentProps, ReportVerdict, postSucessOrFailurePublishing
<1>21. ASSUME NEW h \in Copy, handlerEnds(h)
      PROVE  Kept
      BY <1>21 DEF handlerEnds
<1>22. ASSUME NEW a \in Ans, publishChallengeAnswers(a)
      PROVE  Kept
      BY <1>22 DEF publishChallengeAnswers
<1>23. ASSUME NEW a \in Ans, answerSigned(a)
      PROVE  Kept
      BY <1>23 DEF answerSigned
<1>24. ASSUME NEW a \in Ans, answerSignFails(a)
      PROVE  Kept
      BY <1>24 DEF answerSignFails
<1>25. ASSUME NEW a \in Ans, answerPublished(a)
      PROVE  Kept
      BY <1>25 DEF answerPublished
<1>26. ASSUME NEW a \in Ans, answerPublishFails(a)
      PROVE  Kept
      BY <1>26 DEF answerPublishFails
<1>27. CASE UNCHANGED vars
 <2>1. Kept BY <1>27 DEF vars
 <2> QED BY <2>1, StaysSent
<1> HIDE DEF TypeOK, PlaceInv
<1>28. Kept => SentInv' BY StaysSent
<1> HIDE DEF Kept
<1> QED
    BY <1>1, <1>2, <1>3, <1>4, <1>5, <1>6, <1>7, <1>8, <1>9, <1>10, <1>11, <1>12, <1>13, <1>14, <1>15, <1>16, <1>17, <1>18, <1>19, <1>20, <1>21, <1>22, <1>23, <1>24, <1>25, <1>26, <1>27, <1>28 DEF Next, CallStep, Handle, Answer

(***************************************************************************)
(* The invariant and what follows from it.                                 *)
(***************************************************************************)
PublisherInv ==
    TypeOK /\ PlaceInv /\ VisitInv /\ ListenInv /\ SentInv /\ ChallengeInv /\ VerdictInv /\ AnswerInv

\* The conjunction of the parts holds throughout.
THEOREM PublisherInvariant == Spec => []PublisherInv
<1>1. Init => PublisherInv
 <2> SUFFICES ASSUME Init PROVE PublisherInv OBVIOUS
 <2> USE ConstantsAssumption DEF Init
 <2>1. TypeOK
  <3>1. 1 \in 1..(N + 2) OBVIOUS
  <3> QED BY <3>1 DEF TypeOK, PublishingState, CallPC, Msg
 <2>2. PlaceInv /\ VisitInv /\ ListenInv /\ SentInv BY Places DEF PlaceInv, VisitInv, ListenInv, SentInv, NoMsg
 <2>3. ChallengeInv /\ VerdictInv /\ AnswerInv BY DEF ChallengeInv, VerdictInv, AnswerInv, NoMsg
 <2> QED BY <2>1, <2>2, <2>3 DEF PublisherInv
<1>2. PublisherInv /\ [Next]_vars => PublisherInv'
      BY TypeStep, PlaceStep, VisitStep, ListenStep, SentStep, ChallengeStep, VerdictStep, AnswerStep DEF PublisherInv
<1> QED BY <1>1, <1>2, PTL DEF Spec

\* The "challenge" event is emitted once, for any number of copies and calls.
THEOREM OneChallenge == Spec => []ChallengeOnce
<1>1. PublisherInv => ChallengeOnce BY DEF PublisherInv, ChallengeInv, ChallengeOnce
<1> QED BY <1>1, PublisherInvariant, PTL

\* Every exchange reports one verdict, for any number of copies.
THEOREM OneVerdict == Spec => []VerdictOncePerExchange
<1>1. PublisherInv => VerdictOncePerExchange BY DEF PublisherInv, VerdictInv, VerdictOncePerExchange
<1> QED BY <1>1, PublisherInvariant, PTL

\* One answer is acknowledged, for any number of concurrent calls.
THEOREM OneAnswer == Spec => []AnswerAcknowledgedOnce
<1>1. PublisherInv => AnswerAcknowledgedOnce BY DEF PublisherInv, AnswerInv, AnswerAcknowledgedOnce
<1> QED BY <1>1, PublisherInvariant, PTL

\* Every event of a publication is emitted once, for any number of copies,
\* providers, calls and stops.
THEOREM EachEventOnce == Spec => []EventsOnce
<1>1. ChallengeOnce /\ VerdictOncePerExchange /\ AnswerAcknowledgedOnce => EventsOnce BY DEF EventsOnce
<1> QED BY <1>1, OneChallenge, OneVerdict, OneAnswer, PTL

\* The end of a publication leaves no handler on the topic but those of libp2p
\* providers that had subscribed before it, for any number of calls, providers
\* and stops.
THEOREM NothingDangles == Spec => []NoDanglingSubscription
<1>1. PublisherInv => NoDanglingSubscription
 <2> SUFFICES ASSUME PublisherInv, state = "stopped", Quiet, "unsubscribe" \notin Faults, NEW p \in subscribed
              PROVE  p \in LeftToTheClient
     BY DEF NoDanglingSubscription
 <2>1. \A c \in Call : pc[c] # "abandoning" /\ todo[c] = {} BY DEF PublisherInv, VisitInv, Quiet
 <2>2. todo[StopCall] = {} /\ \A h \in Copy : todo[h] = {} BY DEF PublisherInv, VisitInv, Quiet
 <2>3. ~(\E u \in Unsubscriber : p \in todo[u]) BY <2>1, <2>2 DEF Unsubscriber
 <2>4. CASE Libp2p
  <3>1. \E e \in sent : ProviderAt[e[2]] = p BY <2>1 DEF PublisherInv, SentInv
  <3> QED BY <2>4, <3>1 DEF LeftToTheClient
 <2>5. CASE ~Libp2p BY <2>1, <2>3, <2>5 DEF PublisherInv, ListenInv
 <2> QED BY <2>4, <2>5
<1> QED BY <1>1, PublisherInvariant, PTL

\* Once the community has challenged, only a verification or stop() ends the publication.
THEOREM ExchangeStaysAlive == Spec => LiveExchangeKept
<1> DEFINE Kept == state = "publishing" /\ state' = "stopped" /\ challenged # {} => verified # {} \/ verified' # {} \/ stops' # stops
<1>1. PublisherInv /\ [Next]_vars => [Kept]_vars
 <2> SUFFICES ASSUME PublisherInv, Next, state = "publishing", state' = "stopped", challenged # {}, verified = {}
              PROVE  verified' # {} \/ stops' # stops
     BY DEF vars
 <2>1. TypeOK /\ Responded /\ community = "open" BY DEF PublisherInv, TypeOK, PlaceInv, Responded
 <2>2. challenged \subseteq created BY <2>1 DEF TypeOK
 <2>3. \A F, O : ~isAllAttemptsExhausted(F, O) BY <2>2 DEF isAllAttemptsExhausted
 <2>4. \A h \in Copy : ~updateCommentProps(h) BY DEF PublisherInv, VerdictInv, updateCommentProps
 <2>5. \A c \in Call : ~CallStep(c)
  <3> SUFFICES ASSUME NEW c \in Call, CallStep(c) PROVE FALSE OBVIOUS
  <3>1. ~Prepared(c) BY <2>1 DEF Prepared
  <3>2. ~PrepareFails(c) BY <2>1 DEF PrepareFails
  <3>3. ~attemptFails(c) BY <2>3 DEF attemptFails
  <3>4. ~watchdogWakes(c) BY <2>1 DEF watchdogWakes
  <3>5. ~lastWaitEnds(c) BY <2>1 DEF lastWaitEnds
  <3> QED
      BY <3>1, <3>2, <3>3, <3>4, <3>5 DEF CallStep, generateChallengeRequestToPublish, pubsubSubscribeOnProvider,
          abandonProvider, requestPublished, pauseEnds, callEnds
 <2>6. CASE stop BY <2>6 DEF PublisherInv, TypeOK, stop
 <2>7. ASSUME NEW h \in Copy, handleIncomingChallengeVerification(h)
       PROVE  verified' # {} \/ stops' # stops
       BY <2>7 DEF handleIncomingChallengeVerification, VerificationCopy, VerificationFailed, VerificationSucceeded
 <2>8. ASSUME NEW h \in Copy, rejectMessage(h) \/ handleIncomingChallenge(h) \/ handlerEnds(h)
       PROVE  FALSE
       BY <2>8 DEF rejectMessage, handleIncomingChallenge, handlerEnds
 <2>9. \A c \in Call : ~publish(c) BY DEF publish
 <2>10. ~stopEnds /\ \A u \in Unsubscriber : ~UnsubscribeNext(u) BY DEF stopEnds, UnsubscribeNext
 <2>11. \A h \in Copy, kind \in {"challenge", "success", "failure"}, e \in Exchange : ~handleChallengeExchange(h, kind, e)
       BY DEF handleChallengeExchange
 <2>12. ASSUME NEW a \in Ans, publishChallengeAnswers(a) \/ Answer(a)
       PROVE  FALSE
       BY <2>12 DEF publishChallengeAnswers, Answer, answerSigned, answerSignFails, answerPublished, answerPublishFails
 <2> QED BY <2>4, <2>5, <2>6, <2>7, <2>8, <2>9, <2>10, <2>11, <2>12 DEF Next, Handle
<1> QED BY <1>1, PublisherInvariant, PTL DEF LiveExchangeKept, Spec

========================================
