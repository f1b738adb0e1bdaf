-------------------- MODULE ServingProofs --------------------
(***************************************************************************)
(* What a node answers: proofs about ChallengeExchange, for any number of  *)
(* deliveries, request ids, publications and answers, and about RpcServer, *)
(* for any number of clients, calls and communities, with any set of       *)
(* faults.                                                                 *)
(***************************************************************************)
EXTENDS ChallengeExchange, RpcServer, TLAPS

----------------------------------------
(* Type correctness. *)

\* Every step of the handlers, of the environment and of stop() keeps the types
\* of the handlers' locals, the caches and the tables.
LEMMA TypeStep == TypeOK /\ [Next]_vars => TypeOK'
<1> SUFFICES ASSUME TypeOK, [Next]_vars PROVE TypeOK' OBVIOUS
<1> USE ConstantsAssumption
    DEF TypeOK, PC, UnderLock, Ended, Verdicts, AnswerPC, CommunityState,
        handlerVars, lockVars, exchangeVars, storeVars, netVars,
        GoTo, settleOn, respondWithFailure, releaseLock, register, waitOrRegister,
        cleanUpChallengeAnswerPromise, endExchange, awaitAnswer, AnswerTo
<1>1. ASSUME NEW h \in Req, ReceiveRequest(h) \/ RejectRequestSignature(h) \/ RejectRequestContent(h) \/ ParseOnClosedDb(h)
      PROVE  TypeOK'
      BY <1>1 DEF ReceiveRequest, RejectRequestSignature, RejectRequestContent, ParseOnClosedDb
<1>2. ASSUME NEW h \in Req, ReachLock(h) \/ WakeUp(h) \/ WaitTimesOut(h)
      PROVE  TypeOK'
      BY <1>2 DEF ReachLock, WakeUp, WaitTimesOut
<1>3. ASSUME NEW h \in Req, ValidateOnClosedDb(h) \/ ValidatePublication(h)
      PROVE  TypeOK'
      BY <1>3, SMTT(60) DEF ValidateOnClosedDb, ValidatePublication, countedAttempts, idempotentLabel
<1>4. ASSUME NEW h \in Req, RunChallenge(h) \/ SendChallenge(h) \/ ChallengePublished(h) \/ EmitLocalChallenge(h)
                               \/ ChallengePublishFails(h) \/ AnswerReceived(h) \/ AnswerTimesOut(h)
      PROVE  TypeOK'
      BY <1>4 DEF RunChallenge, SendChallenge, ChallengePublished, EmitLocalChallenge,
                  ChallengePublishFails, AnswerReceived, AnswerTimesOut
<1>5. ASSUME NEW h \in Req, CheckStoredDuplicate(h) \/ InsertPublication(h)
                               \/ EncryptStoredComment(h) \/ RebuildStoredComment(h)
      PROVE  TypeOK'
      BY <1>5 DEF CheckStoredDuplicate, InsertPublication, EncryptStoredComment, RebuildStoredComment, idempotentLabel
<1>6. ASSUME NEW h \in Req, EmitLocalVerification(h) \/ SendVerification(h)
                               \/ VerificationPublished(h) \/ VerificationPublishFails(h)
      PROVE  TypeOK'
      BY <1>6, SMTT(60) DEF EmitLocalVerification, SendVerification, VerificationPublished, VerificationPublishFails
<1>7. ASSUME NEW a \in Ans, ReceiveAnswer(a) \/ AnswerStep(a)
      PROVE  TypeOK'
      BY <1>7 DEF ReceiveAnswer, AnswerStep, RejectAnswerSignature, RejectAnswerContent, ResolveAnswer,
                  EmitLocalAnswerFailure, SendAnswerFailure, AnswerFailurePublished
<1>8. ASSUME NEW i \in Id, EvictExchange(i)
      PROVE  TypeOK'
      BY <1>8 DEF EvictExchange
<1>9. ASSUME NEW p \in Pub, EvictAttempts(p) \/ PurgeRows(p)
      PROVE  TypeOK'
      BY <1>9 DEF EvictAttempts, PurgeRows
<1>10. CASE StopUnsubscribes \/ StopStep \/ Start BY <1>10 DEF StopUnsubscribes, StopStep, StopClearsMaps, StopClosesDb, Start
<1>11. CASE UNCHANGED vars BY <1>11 DEF vars
<1> QED BY <1>1, <1>2, <1>3, <1>4, <1>5, <1>6, <1>7, <1>8, <1>9, <1>10, <1>11 DEF Next, HandlerStep

\* The variables of the exchange always have their declared types.
THEOREM TypeCorrect == Spec => []TypeOK
<1>1. Init => TypeOK BY ConstantsAssumption DEF Init, TypeOK, PC, UnderLock, Ended, Verdicts, AnswerPC, CommunityState
<1> QED BY <1>1, TypeStep, PTL DEF Spec

----------------------------------------
(* The lock.  LockExclusion is not inductive: it says nothing of who owns *)
(* the map's entry.  LockInv ties the program counters to the pending *)
(* promises and the pending promises to the map. *)

Locked == UnderLock \ {"publishing", "published"}

LockInv ==
    /\ \A h \in Req : pc[h] \in Locked => h \in unsettled
    /\ \A h \in unsettled : pc[h] \in UnderLock
    /\ \A h \in unsettled : h \notin overtaken => inFlight[PubOf[h]] = h
    /\ NoDanglingLock

\* Every step keeps the lock's bookkeeping, the break after a ttl included.
LEMMA LockStep ==
    ASSUME TypeOK, LockInv, [Next]_vars
    PROVE  LockInv'
<1> USE ConstantsAssumption
    DEF LockInv, Locked, NoDanglingLock, TypeOK, UnderLock, Ended, handlerVars, lockVars, exchangeVars, storeVars, netVars,
        GoTo, settleOn, respondWithFailure, releaseLock, register, waitOrRegister,
        cleanUpChallengeAnswerPromise, endExchange, awaitAnswer, AnswerTo
<1>1. ASSUME NEW h \in Req, ReceiveRequest(h) \/ RejectRequestSignature(h) \/ RejectRequestContent(h) \/ ParseOnClosedDb(h)
      PROVE  LockInv'
      BY <1>1 DEF ReceiveRequest, RejectRequestSignature, RejectRequestContent, ParseOnClosedDb
<1>2. ASSUME NEW h \in Req, ReachLock(h) \/ WakeUp(h) \/ WaitTimesOut(h)
      PROVE  LockInv'
      BY <1>2 DEF ReachLock, WakeUp, WaitTimesOut
<1>3. ASSUME NEW h \in Req, ValidateOnClosedDb(h) \/ ValidatePublication(h)
      PROVE  LockInv'
      BY <1>3 DEF ValidateOnClosedDb, ValidatePublication, countedAttempts, idempotentLabel
<1>4. ASSUME NEW h \in Req, RunChallenge(h) \/ SendChallenge(h) \/ ChallengePublished(h) \/ EmitLocalChallenge(h) \/ ChallengePublishFails(h) \/ AnswerReceived(h) \/ AnswerTimesOut(h)
      PROVE  LockInv'
      BY <1>4 DEF RunChallenge, SendChallenge, ChallengePublished, EmitLocalChallenge, ChallengePublishFails, AnswerReceived, AnswerTimesOut
<1>5. ASSUME NEW h \in Req, CheckStoredDuplicate(h) \/ InsertPublication(h) \/ EncryptStoredComment(h) \/ RebuildStoredComment(h)
      PROVE  LockInv'
      BY <1>5 DEF CheckStoredDuplicate, InsertPublication, EncryptStoredComment, RebuildStoredComment, idempotentLabel
<1>6. ASSUME NEW h \in Req, EmitLocalVerification(h) \/ SendVerification(h) \/ VerificationPublished(h) \/ VerificationPublishFails(h)
      PROVE  LockInv'
      BY <1>6 DEF EmitLocalVerification, SendVerification, VerificationPublished, VerificationPublishFails
<1>7. ASSUME NEW a \in Ans, ReceiveAnswer(a) \/ AnswerStep(a)
      PROVE  LockInv'
      BY <1>7 DEF ReceiveAnswer, AnswerStep, RejectAnswerSignature, RejectAnswerContent, ResolveAnswer,
                  EmitLocalAnswerFailure, SendAnswerFailure, AnswerFailurePublished
<1>8. ASSUME NEW i \in Id, EvictExchange(i)
      PROVE  LockInv'
      BY <1>8 DEF EvictExchange
<1>9. ASSUME NEW p \in Pub, EvictAttempts(p) \/ PurgeRows(p)
      PROVE  LockInv'
      BY <1>9 DEF EvictAttempts, PurgeRows
<1>10. CASE StopUnsubscribes \/ StopStep \/ Start BY <1>10 DEF StopUnsubscribes, StopStep, StopClearsMaps, StopClosesDb, Start
<1>11. CASE UNCHANGED vars BY <1>11 DEF vars
<1> QED BY <1>1, <1>2, <1>3, <1>4, <1>5, <1>6, <1>7, <1>8, <1>9, <1>10, <1>11 DEF Next, HandlerStep

\* Every exit from the wait for an answer removes the resolver of that id.
LEMMA ResolverStep ==
    ASSUME TypeOK, ResolverIsAwaited, [Next]_vars
    PROVE  ResolverIsAwaited'
<1> USE ConstantsAssumption
    DEF ResolverIsAwaited, TypeOK, UnderLock, Ended, handlerVars, lockVars, exchangeVars, storeVars, netVars,
        GoTo, settleOn, respondWithFailure, releaseLock, register, waitOrRegister,
        cleanUpChallengeAnswerPromise, endExchange, awaitAnswer, AnswerTo
<1>1. ASSUME NEW h \in Req, ReceiveRequest(h) \/ RejectRequestSignature(h) \/ RejectRequestContent(h) \/ ParseOnClosedDb(h)
      PROVE  ResolverIsAwaited'
      BY <1>1 DEF ReceiveRequest, RejectRequestSignature, RejectRequestContent, ParseOnClosedDb
<1>2. ASSUME NEW h \in Req, ReachLock(h) \/ WakeUp(h) \/ WaitTimesOut(h)
      PROVE  ResolverIsAwaited'
      BY <1>2 DEF ReachLock, WakeUp, WaitTimesOut
<1>3. ASSUME NEW h \in Req, ValidateOnClosedDb(h) \/ ValidatePublication(h)
      PROVE  ResolverIsAwaited'
      BY <1>3 DEF ValidateOnClosedDb, ValidatePublication, countedAttempts, idempotentLabel
<1>4. ASSUME NEW h \in Req, RunChallenge(h) \/ SendChallenge(h) \/ ChallengePublished(h) \/ EmitLocalChallenge(h) \/ ChallengePublishFails(h) \/ AnswerReceived(h) \/ AnswerTimesOut(h)
      PROVE  ResolverIsAwaited'
      BY <1>4 DEF RunChallenge, SendChallenge, ChallengePublished, EmitLocalChallenge, ChallengePublishFails, AnswerReceived, AnswerTimesOut
<1>5. ASSUME NEW h \in Req, CheckStoredDuplicate(h) \/ InsertPublication(h) \/ EncryptStoredComment(h) \/ RebuildStoredComment(h)
      PROVE  ResolverIsAwaited'
      BY <1>5 DEF CheckStoredDuplicate, InsertPublication, EncryptStoredComment, RebuildStoredComment, idempotentLabel
<1>6. ASSUME NEW h \in Req, EmitLocalVerification(h) \/ SendVerification(h) \/ VerificationPublished(h) \/ VerificationPublishFails(h)
      PROVE  ResolverIsAwaited'
      BY <1>6 DEF EmitLocalVerification, SendVerification, VerificationPublished, VerificationPublishFails
<1>7. ASSUME NEW a \in Ans, ReceiveAnswer(a) \/ AnswerStep(a)
      PROVE  ResolverIsAwaited'
      BY <1>7 DEF ReceiveAnswer, AnswerStep, RejectAnswerSignature, RejectAnswerContent, ResolveAnswer,
                  EmitLocalAnswerFailure, SendAnswerFailure, AnswerFailurePublished
<1>8. ASSUME NEW i \in Id, EvictExchange(i)
      PROVE  ResolverIsAwaited'
      BY <1>8 DEF EvictExchange
<1>9. ASSUME NEW p \in Pub, EvictAttempts(p) \/ PurgeRows(p)
      PROVE  ResolverIsAwaited'
      BY <1>9 DEF EvictAttempts, PurgeRows
<1>10. CASE StopUnsubscribes \/ StopStep \/ Start BY <1>10 DEF StopUnsubscribes, StopStep, StopClearsMaps, StopClosesDb, Start
<1>11. CASE UNCHANGED vars BY <1>11 DEF vars
<1> QED BY <1>1, <1>2, <1>3, <1>4, <1>5, <1>6, <1>7, <1>8, <1>9, <1>10, <1>11 DEF Next, HandlerStep

----------------------------------------
(* Storage.  While no exchange of a publication has been overtaken, the one *)
(* handler between the duplicate check and the insert sees no row appear. *)

NeverOvertaken(p) == \A h \in Req : PubOf[h] = p => h \notin overtaken

StoreInv ==
    /\ StoredOnce
    /\ \A h \in Req :
          pc[h] = "inserting" /\ KindOf[PubOf[h]] # "vote" /\ NeverOvertaken(PubOf[h])
              => rows[PubOf[h]] = 0

\* Every step keeps the check and the insert of an exclusive exchange together.
LEMMA StoreStep ==
    ASSUME TypeOK, LockInv, StoreInv, [Next]_vars
    PROVE  StoreInv'
<1> USE ConstantsAssumption
    DEF StoreInv, StoredOnce, NeverOvertaken, LockInv, Locked, TypeOK, UnderLock, Ended, handlerVars, lockVars, exchangeVars, storeVars, netVars,
        GoTo, settleOn, respondWithFailure, releaseLock, register, waitOrRegister,
        cleanUpChallengeAnswerPromise, endExchange, awaitAnswer, AnswerTo
<1>1. ASSUME NEW h \in Req, ReceiveRequest(h) \/ RejectRequestSignature(h) \/ RejectRequestContent(h) \/ ParseOnClosedDb(h)
      PROVE  StoreInv'
 <2>1. UNCHANGED <<overtaken, rows>> /\ \A g \in Req : pc'[g] = "inserting" => pc[g] = "inserting"
       BY <1>1 DEF ReceiveRequest, RejectRequestSignature, RejectRequestContent, ParseOnClosedDb
 <2> QED BY <2>1
<1>2. ASSUME NEW h \in Req, ReachLock(h) \/ WakeUp(h) \/ WaitTimesOut(h)
      PROVE  StoreInv'
      BY <1>2, SMTT(60) DEF ReachLock, WakeUp, WaitTimesOut
<1>3. ASSUME NEW h \in Req, ValidateOnClosedDb(h) \/ ValidatePublication(h)
      PROVE  StoreInv'
      BY <1>3 DEF ValidateOnClosedDb, ValidatePublication, countedAttempts, idempotentLabel, isDuplicate
<1>4. ASSUME NEW h \in Req, RunChallenge(h) \/ SendChallenge(h) \/ ChallengePublished(h) \/ EmitLocalChallenge(h) \/ ChallengePublishFails(h) \/ AnswerReceived(h) \/ AnswerTimesOut(h)
      PROVE  StoreInv'
      BY <1>4 DEF RunChallenge, SendChallenge, ChallengePublished, EmitLocalChallenge, ChallengePublishFails, AnswerReceived, AnswerTimesOut
<1>5. ASSUME NEW h \in Req, CheckStoredDuplicate(h) \/ InsertPublication(h) \/ EncryptStoredComment(h) \/ RebuildStoredComment(h)
      PROVE  StoreInv'
      BY <1>5 DEF CheckStoredDuplicate, InsertPublication, EncryptStoredComment, RebuildStoredComment, idempotentLabel, isDuplicate
<1>6. ASSUME NEW h \in Req, EmitLocalVerification(h) \/ SendVerification(h) \/ VerificationPublished(h) \/ VerificationPublishFails(h)
      PROVE  StoreInv'
      BY <1>6 DEF EmitLocalVerification, SendVerification, VerificationPublished, VerificationPublishFails
<1>7. ASSUME NEW a \in Ans, ReceiveAnswer(a) \/ AnswerStep(a)
      PROVE  StoreInv'
      BY <1>7 DEF ReceiveAnswer, AnswerStep, RejectAnswerSignature, RejectAnswerContent, ResolveAnswer,
                  EmitLocalAnswerFailure, SendAnswerFailure, AnswerFailurePublished
<1>8. ASSUME NEW i \in Id, EvictExchange(i)
      PROVE  StoreInv'
      BY <1>8 DEF EvictExchange
<1>9. ASSUME NEW p \in Pub, EvictAttempts(p) \/ PurgeRows(p)
      PROVE  StoreInv'
      BY <1>9 DEF EvictAttempts, PurgeRows
<1>10. CASE StopUnsubscribes \/ StopStep \/ Start BY <1>10 DEF StopUnsubscribes, StopStep, StopClearsMaps, StopClosesDb, Start
<1>11. CASE UNCHANGED vars BY <1>11 DEF vars
<1> QED BY <1>1, <1>2, <1>3, <1>4, <1>5, <1>6, <1>7, <1>8, <1>9, <1>10, <1>11 DEF Next, HandlerStep

----------------------------------------
(* The retry allowance.  A positive attempt count is owed to a request that *)
(* did not wait and was answered idempotently; a verdict is never revised. *)

AnsweringPC == {"rebuilding", "publishing", "published", "done", "thrown"}

RetryInv ==
    /\ \A h \in Req : verdict[h] # "none" => pc[h] \in AnsweringPC
    /\ \A p \in Pub : attempts[p] > 0 =>
          \E g \in Req \ waited : PubOf[g] = p /\ verdict[g] = "idempotent"
    /\ SingleRetryKept

\* Every step keeps the retry allowance's bookkeeping.
LEMMA RetryStep ==
    ASSUME TypeOK, RetryInv, [Next]_vars
    PROVE  RetryInv'
<1> USE ConstantsAssumption
    DEF RetryInv, SingleRetryKept, AnsweringPC, Verdicts, TypeOK, UnderLock, Ended, handlerVars, lockVars, exchangeVars, storeVars, netVars,
        GoTo, settleOn, respondWithFailure, releaseLock, register, waitOrRegister,
        cleanUpChallengeAnswerPromise, endExchange, awaitAnswer, AnswerTo
<1>1. ASSUME NEW h \in Req, ReceiveRequest(h) \/ RejectRequestSignature(h) \/ RejectRequestContent(h) \/ ParseOnClosedDb(h)
      PROVE  RetryInv'
      BY <1>1 DEF ReceiveRequest, RejectRequestSignature, RejectRequestContent, ParseOnClosedDb
<1>2. ASSUME NEW h \in Req, ReachLock(h) \/ WakeUp(h) \/ WaitTimesOut(h)
      PROVE  RetryInv'
      BY <1>2 DEF ReachLock, WakeUp, WaitTimesOut
<1>3. ASSUME NEW h \in Req, ValidateOnClosedDb(h) \/ ValidatePublication(h)
      PROVE  RetryInv'
      BY <1>3 DEF ValidateOnClosedDb, ValidatePublication, countedAttempts, idempotentLabel, isDuplicate
<1>4. ASSUME NEW h \in Req, RunChallenge(h) \/ SendChallenge(h) \/ ChallengePublished(h) \/ EmitLocalChallenge(h) \/ ChallengePublishFails(h) \/ AnswerReceived(h) \/ AnswerTimesOut(h)
      PROVE  RetryInv'
      BY <1>4 DEF RunChallenge, SendChallenge, ChallengePublished, EmitLocalChallenge, ChallengePublishFails, AnswerReceived, AnswerTimesOut
<1>5. ASSUME NEW h \in Req, CheckStoredDuplicate(h) \/ InsertPublication(h) \/ EncryptStoredComment(h) \/ RebuildStoredComment(h)
      PROVE  RetryInv'
      BY <1>5 DEF CheckStoredDuplicate, InsertPublication, EncryptStoredComment, RebuildStoredComment, idempotentLabel, isDuplicate
<1>6. ASSUME NEW h \in Req, EmitLocalVerification(h) \/ SendVerification(h) \/ VerificationPublished(h) \/ VerificationPublishFails(h)
      PROVE  RetryInv'
      BY <1>6 DEF EmitLocalVerification, SendVerification, VerificationPublished, VerificationPublishFails
<1>7. ASSUME NEW a \in Ans, ReceiveAnswer(a) \/ AnswerStep(a)
      PROVE  RetryInv'
      BY <1>7 DEF ReceiveAnswer, AnswerStep, RejectAnswerSignature, RejectAnswerContent, ResolveAnswer,
                  EmitLocalAnswerFailure, SendAnswerFailure, AnswerFailurePublished
<1>8. ASSUME NEW i \in Id, EvictExchange(i)
      PROVE  RetryInv'
      BY <1>8 DEF EvictExchange
<1>9. ASSUME NEW p \in Pub, EvictAttempts(p) \/ PurgeRows(p)
      PROVE  RetryInv'
      BY <1>9 DEF EvictAttempts, PurgeRows
<1>10. CASE StopUnsubscribes \/ StopStep \/ Start BY <1>10 DEF StopUnsubscribes, StopStep, StopClearsMaps, StopClosesDb, Start
<1>11. CASE UNCHANGED vars BY <1>11 DEF vars
<1> QED BY <1>1, <1>2, <1>3, <1>4, <1>5, <1>6, <1>7, <1>8, <1>9, <1>10, <1>11 DEF Next, HandlerStep

----------------------------------------
(* Truthful answers and replays. *)

\* What a handler has done is visible in its program counter, and what it says
\* was stored has been stored.
TruthInv ==
    /\ \A h \in inserted : pc[h] \in {"encrypting"} \cup AnsweringPC
    /\ \A h \in Req : pc[h] = "encrypting" => h \in inserted
    /\ \A p \in Pub : rows[p] > 0 => p \in accepted
    /\ \A h \in Req : verdict[h] \in {"stored", "idempotent"} => PubOf[h] \in accepted

\* Every step keeps the verdicts true to what has been stored.
LEMMA TruthStep ==
    ASSUME TypeOK, RetryInv, TruthInv, [Next]_vars
    PROVE  TruthInv'
<1> USE ConstantsAssumption
    DEF TruthInv, RetryInv, accepted, AnsweringPC, Verdicts, TypeOK, UnderLock, Ended, handlerVars, lockVars, exchangeVars, storeVars, netVars,
        GoTo, settleOn, respondWithFailure, releaseLock, register, waitOrRegister,
        cleanUpChallengeAnswerPromise, endExchange, awaitAnswer, AnswerTo
<1>1. ASSUME NEW h \in Req, ReceiveRequest(h) \/ RejectRequestSignature(h) \/ RejectRequestContent(h) \/ ParseOnClosedDb(h)
      PROVE  TruthInv'
      BY <1>1 DEF ReceiveRequest, RejectRequestSignature, RejectRequestContent, ParseOnClosedDb
<1>2. ASSUME NEW h \in Req, ReachLock(h) \/ WakeUp(h) \/ WaitTimesOut(h)
      PROVE  TruthInv'
      BY <1>2 DEF ReachLock, WakeUp, WaitTimesOut
<1>3. ASSUME NEW h \in Req, ValidateOnClosedDb(h) \/ ValidatePublication(h)
      PROVE  TruthInv'
      BY <1>3 DEF ValidateOnClosedDb, ValidatePublication, countedAttempts, idempotentLabel, isDuplicate
<1>4. ASSUME NEW h \in Req, RunChallenge(h) \/ SendChallenge(h) \/ ChallengePublished(h) \/ EmitLocalChallenge(h) \/ ChallengePublishFails(h) \/ AnswerReceived(h) \/ AnswerTimesOut(h)
      PROVE  TruthInv'
      BY <1>4 DEF RunChallenge, SendChallenge, ChallengePublished, EmitLocalChallenge, ChallengePublishFails, AnswerReceived, AnswerTimesOut
<1>5. ASSUME NEW h \in Req, CheckStoredDuplicate(h) \/ InsertPublication(h) \/ EncryptStoredComment(h) \/ RebuildStoredComment(h)
      PROVE  TruthInv'
      BY <1>5 DEF CheckStoredDuplicate, InsertPublication, EncryptStoredComment, RebuildStoredComment, idempotentLabel, isDuplicate
<1>6. ASSUME NEW h \in Req, EmitLocalVerification(h) \/ SendVerification(h) \/ VerificationPublished(h) \/ VerificationPublishFails(h)
      PROVE  TruthInv'
      BY <1>6 DEF EmitLocalVerification, SendVerification, VerificationPublished, VerificationPublishFails
<1>7. ASSUME NEW a \in Ans, ReceiveAnswer(a) \/ AnswerStep(a)
      PROVE  TruthInv'
      BY <1>7 DEF ReceiveAnswer, AnswerStep, RejectAnswerSignature, RejectAnswerContent, ResolveAnswer,
                  EmitLocalAnswerFailure, SendAnswerFailure, AnswerFailurePublished
<1>8. ASSUME NEW i \in Id, EvictExchange(i)
      PROVE  TruthInv'
      BY <1>8 DEF EvictExchange
<1>9. ASSUME NEW p \in Pub, EvictAttempts(p) \/ PurgeRows(p)
      PROVE  TruthInv'
      BY <1>9 DEF EvictAttempts, PurgeRows
<1>10. CASE StopUnsubscribes \/ StopStep \/ Start BY <1>10 DEF StopUnsubscribes, StopStep, StopClearsMaps, StopClosesDb, Start
<1>11. CASE UNCHANGED vars BY <1>11 DEF vars
<1> QED BY <1>1, <1>2, <1>3, <1>4, <1>5, <1>6, <1>7, <1>8, <1>9, <1>10, <1>11 DEF Next, HandlerStep

\* A replayed comment or edit never gets past validation, so it never inserts.
ReplayInv ==
    /\ ReplayStoresNothing
    /\ \A h \in replays : pc[h] # "idle"
    /\ \A h \in replays : rows[PubOf[h]] > 0
    /\ \A h \in replays : KindOf[PubOf[h]] # "vote" =>
          pc[h] \in {"verifying", "waiting", "validating", "ignored"} \cup AnsweringPC

\* Every step keeps replays away from the insert.
LEMMA ReplayStep ==
    ASSUME TypeOK, TruthInv, ReplayInv, [Next]_vars
    PROVE  ReplayInv'
<1> USE ConstantsAssumption
    DEF ReplayInv, ReplayStoresNothing, TruthInv, AnsweringPC, TypeOK, UnderLock, Ended, handlerVars, lockVars, exchangeVars, storeVars, netVars,
        GoTo, settleOn, respondWithFailure, releaseLock, register, waitOrRegister,
        cleanUpChallengeAnswerPromise, endExchange, awaitAnswer, AnswerTo
<1>1. ASSUME NEW h \in Req, ReceiveRequest(h) \/ RejectRequestSignature(h) \/ RejectRequestContent(h) \/ ParseOnClosedDb(h)
      PROVE  ReplayInv'
      BY <1>1 DEF ReceiveRequest, RejectRequestSignature, RejectRequestContent, ParseOnClosedDb
<1>2. ASSUME NEW h \in Req, ReachLock(h) \/ WakeUp(h) \/ WaitTimesOut(h)
      PROVE  ReplayInv'
      BY <1>2 DEF ReachLock, WakeUp, WaitTimesOut
<1>3. ASSUME NEW h \in Req, ValidateOnClosedDb(h) \/ ValidatePublication(h)
      PROVE  ReplayInv'
      BY <1>3 DEF ValidateOnClosedDb, ValidatePublication, countedAttempts, idempotentLabel, isDuplicate
<1>4. ASSUME NEW h \in Req, RunChallenge(h) \/ SendChallenge(h) \/ ChallengePublished(h) \/ EmitLocalChallenge(h) \/ ChallengePublishFails(h) \/ AnswerReceived(h) \/ AnswerTimesOut(h)
      PROVE  ReplayInv'
      BY <1>4 DEF RunChallenge, SendChallenge, ChallengePublished, EmitLocalChallenge, ChallengePublishFails, AnswerReceived, AnswerTimesOut
<1>5. ASSUME NEW h \in Req, CheckStoredDuplicate(h) \/ InsertPublication(h) \/ EncryptStoredComment(h) \/ RebuildStoredComment(h)
      PROVE  ReplayInv'
      BY <1>5, SMTT(60) DEF CheckStoredDuplicate, InsertPublication, EncryptStoredComment, RebuildStoredComment, idempotentLabel, isDuplicate
<1>6. ASSUME NEW h \in Req, EmitLocalVerification(h) \/ SendVerification(h) \/ VerificationPublished(h) \/ VerificationPublishFails(h)
      PROVE  ReplayInv'
      BY <1>6 DEF EmitLocalVerification, SendVerification, VerificationPublished, VerificationPublishFails
<1>7. ASSUME NEW a \in Ans, ReceiveAnswer(a) \/ AnswerStep(a)
      PROVE  ReplayInv'
      BY <1>7 DEF ReceiveAnswer, AnswerStep, RejectAnswerSignature, RejectAnswerContent, ResolveAnswer,
                  EmitLocalAnswerFailure, SendAnswerFailure, AnswerFailurePublished
<1>8. ASSUME NEW i \in Id, EvictExchange(i)
      PROVE  ReplayInv'
      BY <1>8 DEF EvictExchange
<1>9. ASSUME NEW p \in Pub, EvictAttempts(p) \/ PurgeRows(p)
      PROVE  ReplayInv'
      BY <1>9 DEF EvictAttempts, PurgeRows
<1>10. CASE StopUnsubscribes \/ StopStep \/ Start BY <1>10 DEF StopUnsubscribes, StopStep, StopClearsMaps, StopClosesDb, Start
<1>11. CASE UNCHANGED vars BY <1>11 DEF vars
<1> QED BY <1>1, <1>2, <1>3, <1>4, <1>5, <1>6, <1>7, <1>8, <1>9, <1>10, <1>11 DEF Next, HandlerStep

----------------------------------------
(* The inductive invariant and the theorems it gives. *)

IInv ==
    /\ TypeOK
    /\ LockInv
    /\ ResolverIsAwaited
    /\ StoreInv
    /\ RetryInv
    /\ TruthInv
    /\ ReplayInv

\* The invariant of all the exchange's bookkeeping holds initially and is kept by
\* every step.
THEOREM InductiveInvariant == Spec => []IInv
<1>1. Init => IInv
      BY ConstantsAssumption
      DEF Init, IInv, TypeOK, PC, UnderLock, Ended, Locked, Verdicts, AnswerPC, CommunityState, LockInv, NoDanglingLock,
          ResolverIsAwaited, StoreInv, StoredOnce, NeverOvertaken, RetryInv, SingleRetryKept,
          AnsweringPC, TruthInv, accepted, ReplayInv, ReplayStoresNothing
<1>2. IInv /\ [Next]_vars => IInv' BY TypeStep, LockStep, ResolverStep, StoreStep, RetryStep, TruthStep, ReplayStep DEF IInv
<1> QED BY <1>1, <1>2, PTL DEF Spec

\* One exchange at a time per signed publication, except behind an exchange that
\* outlived a full ttl or a stop().
THEOREM ExchangesExclude == Spec => []LockExclusion
<1>1. IInv => LockExclusion BY ConstantsAssumption DEF IInv, TypeOK, LockInv, LockExclusion
<1> QED BY <1>1, InductiveInvariant, PTL

\* No entry of the in-flight map outlives its exchange.
THEOREM LockNeverDangles == Spec => []NoDanglingLock
<1>1. IInv => NoDanglingLock BY DEF IInv, LockInv
<1> QED BY <1>1, InductiveInvariant, PTL

\* Answers are only ever resolved into the exchange that awaits them.
THEOREM AnswersReachTheirExchange == Spec => []ResolverIsAwaited
<1>1. IInv => ResolverIsAwaited BY DEF IInv
<1> QED BY <1>1, InductiveInvariant, PTL

\* A signed publication none of whose exchanges was overtaken has at most one row.
THEOREM PublicationStoredOnce == Spec => []StoredOnce
<1>1. IInv => StoredOnce BY DEF IInv, StoreInv
<1> QED BY <1>1, InductiveInvariant, PTL

\* A waiting request never spends the author's single retry.
THEOREM AuthorKeepsRetry == Spec => []SingleRetryKept
<1>1. IInv => SingleRetryKept BY DEF IInv, RetryInv
<1> QED BY <1>1, InductiveInvariant, PTL

\* A replay of a stored comment, edit or moderation adds nothing to the database.
THEOREM ReplaysAddNothing == Spec => []ReplayStoresNothing
<1>1. IInv => ReplayStoresNothing BY DEF IInv, ReplayInv
<1> QED BY <1>1, InductiveInvariant, PTL

----------------------------------------
(* The exchange implements the abstract intake. *)

\* The in-flight map of handleChallengeRequest excludes and lets go, for any
\* number of requests, publications, answers and faults.
THEOREM LocksHold == Spec => []ExchangeLocks
<1>1. LockExclusion /\ NoDanglingLock => ExchangeLocks BY DEF ExchangeLocks
<1> QED BY <1>1, ExchangesExclude, LockNeverDangles, PTL

\* Sending a publication again neither stores it twice nor costs its author the
\* idempotent retry, for any number of copies, ids and faults.
THEOREM ReplaysAreSafe == Spec => []ReplaySafety
<1>1. StoredOnce /\ SingleRetryKept /\ ReplayStoresNothing => ReplaySafety BY DEF ReplaySafety
<1> QED BY <1>1, PublicationStoredOnce, AuthorKeepsRetry, ReplaysAddNothing, PTL

\* Every step but an insert and the end of a verification is invisible.
LEMMA IntakeStep ==
    ASSUME IInv, [Next]_vars
    PROVE  [Promise!Next]_<<accepted, told>>
<1> USE ConstantsAssumption
    DEF IInv, TypeOK, UnderLock, Ended, handlerVars, lockVars, exchangeVars, storeVars, netVars,
        GoTo, settleOn, respondWithFailure, releaseLock, register, waitOrRegister,
        cleanUpChallengeAnswerPromise, endExchange, awaitAnswer, AnswerTo
<1>1. ASSUME NEW h \in Req, EmitLocalVerification(h) \/ VerificationPublished(h)
      PROVE  Promise!Next
 <2>1. UNCHANGED accepted BY <1>1 DEF EmitLocalVerification, VerificationPublished, accepted
 <2>2. told[h] = "none" /\ told' = [told EXCEPT ![h] =
               IF verdict[h] \in {"stored", "idempotent"} THEN "accepted" ELSE "rejected"]
  <3>1. pc[h] # "done" /\ pc' = [pc EXCEPT ![h] = "done"] /\ UNCHANGED verdict BY <1>1 DEF EmitLocalVerification, VerificationPublished
  <3> QED BY <3>1 DEF told
 <2>3. verdict[h] \in {"stored", "idempotent"} => PubOf[h] \in accepted BY DEF TruthInv
 <2> QED BY <2>1, <2>2, <2>3 DEF Promise!Next, Promise!Tell
<1>2. ASSUME NEW h \in Req, InsertPublication(h)
      PROVE  Promise!Next \/ UNCHANGED <<accepted, told>>
 <2>1. told[h] = "none" /\ UNCHANGED told BY <1>2 DEF InsertPublication, told
 <2>2. UNCHANGED accepted \/ accepted' = accepted \cup {PubOf[h]} BY <1>2 DEF InsertPublication, accepted
 <2> QED BY <2>1, <2>2 DEF Promise!Next, Promise!Store
<1>3. ASSUME NEW h \in Req,
             ReceiveRequest(h) \/ RunChallenge(h) \/ HandlerStep(h),
             ~EmitLocalVerification(h), ~VerificationPublished(h), ~InsertPublication(h)
      PROVE  UNCHANGED <<accepted, told>>
 <2>1. UNCHANGED <<inserted, told>>
  <3>1. CASE ReceiveRequest(h) \/ RunChallenge(h) \/ RejectRequestSignature(h) \/ RejectRequestContent(h)
                \/ ParseOnClosedDb(h) \/ ReachLock(h) \/ WakeUp(h) \/ WaitTimesOut(h)
        BY <3>1 DEF ReceiveRequest, RunChallenge, RejectRequestSignature, RejectRequestContent, ParseOnClosedDb,
                    ReachLock, WakeUp, WaitTimesOut, told
  <3>2. CASE ValidateOnClosedDb(h) \/ ValidatePublication(h) \/ CheckStoredDuplicate(h) \/ EncryptStoredComment(h)
                \/ RebuildStoredComment(h) \/ SendVerification(h) \/ VerificationPublishFails(h)
        BY <3>2 DEF ValidateOnClosedDb, ValidatePublication, CheckStoredDuplicate, EncryptStoredComment,
                    RebuildStoredComment, SendVerification, VerificationPublishFails, idempotentLabel, told
  <3>3. CASE SendChallenge(h) \/ ChallengePublished(h) \/ EmitLocalChallenge(h) \/ ChallengePublishFails(h)
                \/ AnswerReceived(h) \/ AnswerTimesOut(h)
        BY <3>3 DEF SendChallenge, ChallengePublished, EmitLocalChallenge, ChallengePublishFails,
                    AnswerReceived, AnswerTimesOut, told
  <3> QED BY <1>3, <3>1, <3>2, <3>3 DEF HandlerStep
 <2> QED BY <2>1 DEF accepted
<1>4. CASE \/ \E a \in Ans : ReceiveAnswer(a) \/ AnswerStep(a)
           \/ \E i \in Id : EvictExchange(i)
           \/ \E p \in Pub : EvictAttempts(p) \/ PurgeRows(p)
           \/ StopUnsubscribes \/ StopStep \/ Start
           \/ UNCHANGED vars
 <2>1. UNCHANGED <<inserted, pc, verdict>>
       BY <1>4 DEF ReceiveAnswer, AnswerStep, RejectAnswerSignature, RejectAnswerContent, ResolveAnswer,
                   EmitLocalAnswerFailure, SendAnswerFailure, AnswerFailurePublished, EvictExchange,
                   EvictAttempts, PurgeRows, StopUnsubscribes, StopStep, StopClearsMaps, StopClosesDb, Start, vars
 <2> QED BY <2>1 DEF accepted, told
<1> QED BY <1>1, <1>2, <1>3, <1>4 DEF Next

\* A publisher is told at most once, for good, and "accepted" only of a publication
\* the community has stored: the handlers implement PublicationIntake.
THEOREM ImplementsIntake == Spec => RefinesIntake
<1>1. Init => Promise!Init BY DEF Init, Promise!Init, accepted, told
<1>2. IInv /\ [Next]_vars => [Promise!Next]_<<accepted, told>> BY IntakeStep
<1> QED BY <1>1, <1>2, InductiveInvariant, PTL DEF Spec, RefinesIntake, Promise!Spec
----------------------------------------
(* The server of the RPC: its calls, starts, settings and subscriptions. *)
AtAddress == {"impl", "attach", "create", "starting", "get", "have", "stopping", "restarting"}
ServerPcs == AtAddress \cup {"idle", "ready", "called", "start", "created", "publishing", "handlers", "moving", "done"}
CallRows == [pc : ServerPcs, wait : SUBSET RpcCall, addr : Address \cup {None}, i : RpcInstance \cup {None},
             conns : SUBSET Client, subs : SUBSET RpcCall]
Lives == {"none", "new", "starting", "running", "stopping", "stopped"}
InstRows == [life : Lives, of : Community \cup {None}, pkc : Nat]
SubRows == [cleanup : BOOLEAN, handler : BOOLEAN, listens : RpcInstance \cup {None}, object : {"none", "live", "moving", "revived", "stopped"},
            pkc : Nat, publishing : BOOLEAN]
ConnRows == [is : {"open", "cleaning", "gone"}, todo : SUBSET RpcCall]
PkcRows == [cur : Nat \ {0}, queue : Seq(RpcCall), timer : SUBSET Nat, ending : SUBSET RpcCall, destroyed : SUBSET Nat]
BootRows == [pc : {"listed", "start", "create", "starting", "done"}, left : Nat]
Disks == [file : [Community -> Address \cup {None}], row : [Address -> {"absent", "started", "stopped"}]]
Tables == [Address -> RpcInstance \cup {None, "pending"}]

ServerTypeOK ==
    /\ disk \in Disks /\ table \in Tables /\ inst \in [RpcInstance -> InstRows] /\ sub \in [RpcCall -> SubRows]
    /\ conn \in [Client -> ConnRows] /\ pkcs \in PkcRows /\ call \in [RpcCall -> CallRows] /\ boot \in [Address -> BootRows]

(* What a call holds where it is suspended. *)
Fitting(c, r) ==
    /\ r.pc = "start" => Method[c] = "resubscribe"
    /\ r.pc \in {"impl", "attach", "create", "starting"} => Method[c] \in {"start", "resubscribe"}
    /\ r.pc \in {"get", "have", "stopping"} => Method[c] \in {"stop", "edit", "delete"}
    /\ r.pc \in {"created", "publishing"} => Method[c] \in {"update", "comment", "publish"}
    /\ r.pc \in {"handlers", "restarting", "moving"} => Method[c] = "settings"
    /\ r.pc = "moving" => r.i \in RpcCall /\ Method[r.i] = "update"
    /\ r.pc \in AtAddress => r.addr \in Address
    /\ r.pc \in {"have", "stopping", "restarting"} => r.i \in RpcInstance

CallsFit == \A c \in RpcCall : Fitting(c, call[c])

(* Settings changes run one at a time, the first of the queue. *)
QueueInTurn ==
    /\ \A n \in 1..Len(pkcs.queue) :
        LET c == pkcs.queue[n] IN
        Method[c] = "settings" /\ call[c].pc \in {"called", "handlers", "restarting", "moving"} /\ (n # 1 => call[c].pc = "called")
    /\ \A m, n \in 1..Len(pkcs.queue) : pkcs.queue[m] = pkcs.queue[n] => m = n
    /\ \A c \in RpcCall : Method[c] = "settings" /\ CallInFlight(c) => \E n \in 1..Len(pkcs.queue) : pkcs.queue[n] = c

(* An instance is starting while who starts it is at it; one that is filed, *)
(* or that a call has found, was made by somebody who is done. *)
AtEntry(x, a) ==
    \/ x \in RpcCall /\ call[x].addr = a /\ call[x].pc \in {"create", "starting", "restarting"}
    \/ x = a /\ boot[a].pc \in {"create", "starting"}

StartedBy(x) == (x \in RpcCall /\ call[x].pc = "starting") \/ (x \in Address /\ boot[x].pc = "starting")
MakerIsDone(x) == (x \in RpcCall => call[x].pc = "done") /\ (x \in Address => boot[x].pc = "done")
HoldsMade(c, r) == r.pc \in {"have", "stopping", "restarting"} => MakerIsDone(r.i) \/ (r.i = c /\ r.pc # "restarting")

StartsAreOwned ==
    /\ \A x \in RpcInstance : inst[x].life = "starting" => StartedBy(x)
    /\ \A x \in RpcInstance : StartedBy(x) => IsStarting(x)
    /\ \A a \in Address : table[a] \in RpcInstance => MakerIsDone(table[a])
    /\ \A c \in RpcCall : HoldsMade(c, call[c])

(* Who is called is on a connection; what lives, or is told of the settings, *)
(* has its cleanup, and an update subscription has been told of the new pkc *)
(* or is about to be. *)
IsMoved(s) == \E c \in RpcCall : call[c].pc \in {"handlers", "restarting", "moving"} /\ (From[s] \in call[c].conns \/ s \in call[c].subs)

Told(s) == Method[s] = "update" /\ sub[s].handler

ConnectionsAreKnown ==
    /\ \A s \in RpcCall : sub[s].object = "live" => Method[s] \in {"update", "comment", "publish"} /\ call[s].pc \in {"publishing", "done"}
    /\ \A s \in RpcCall : Told(s) => call[s].pc \in {"publishing", "done"}
    /\ \A s \in RpcCall : sub[s].cleanup => conn[From[s]].is # "gone"
    /\ \A s \in RpcCall \ late : CallInFlight(s) => conn[From[s]].is = "open"

ObjectsFollow ==
    \A s \in RpcCall \ late :
        /\ sub[s].object = "live" \/ Told(s) => sub[s].cleanup /\ (conn[From[s]].is = "cleaning" => s \in conn[From[s]].todo)
        /\ Method[s] = "update" /\ call[s].pc = "created" => sub[s].pkc = pkcs.cur
        /\ Method[s] = "update" /\ sub[s].object = "live" => sub[s].handler
        /\ Told(s) => sub[s].pkc = pkcs.cur \/ IsMoved(s)

ServerInv ==
    /\ ServerTypeOK /\ CallsFit /\ QueueInTurn /\ PendingIsBeingStarted /\ StartsAreOwned /\ ConnectionsAreKnown /\ ObjectsFollow
----------------------------------------
(* What a step of a call, or of the automatic start of an address, does to *)
(* the others, to the table, the instances and the subscriptions. *)
OthersWait(x) ==
    /\ call' \in [RpcCall -> CallRows] /\ boot' \in [Address -> BootRows]
    /\ (\A d \in RpcCall \ {x} : call'[d] = call[d]) /\ (\A a \in Address \ {x} : boot'[a] = boot[a])

TableMoves(x) ==
    /\ table' \in Tables
    /\ \A a \in Address : table'[a] = "pending" => (table[a] = "pending" /\ ~AtEntry(x, a)) \/ AtEntry(x, a)'
    /\ \A a \in Address : table'[a] \in RpcInstance => MakerIsDone(table'[a]) \/ (table'[a] = x /\ MakerIsDone(x)')

InstMoves(x) ==
    /\ inst' \in [RpcInstance -> InstRows]
    /\ \A i \in RpcInstance : inst'[i].life = "starting" => IF i = x THEN StartedBy(x)' ELSE inst[i].life = "starting"
    /\ StartedBy(x)' => IsStarting(x)'
    /\ \A i \in RpcInstance \ {x} : StartedBy(i) /\ IsStarting(i) => IsStarting(i)'

SameObject(s) == sub[s].object = "live" /\ sub'[s].cleanup = sub[s].cleanup /\ sub'[s].handler = sub[s].handler /\ sub'[s].pkc = sub[s].pkc

SameHandler(s) == sub[s].handler /\ sub'[s].cleanup = sub[s].cleanup /\ sub'[s].pkc = sub[s].pkc

SubMoves(c) ==
    /\ sub' \in [RpcCall -> SubRows]
    /\ \A s \in RpcCall : sub'[s].cleanup => sub[s].cleanup \/ conn[From[s]].is # "gone"
    /\ \A s \in RpcCall : s # c => sub'[s].pkc = sub[s].pkc
    /\ call'[c].pc = "created" => sub'[c].pkc = pkcs.cur
    /\ sub'[c].object = "live" \/ Told(c)' => call'[c].pc \in {"publishing", "done"}
    /\ \A s \in RpcCall : Told(s)' =>
        \/ SameHandler(s)
        \/ s = c /\ call[c].pc \in {"called", "created"} /\ sub'[c].cleanup /\ (sub'[c].pkc = pkcs.cur \/ (call[c].pc = "created" /\ sub'[c].pkc = sub[c].pkc))
    /\ \A s \in RpcCall : sub'[s].object = "live" =>
        \/ SameObject(s)
        \/ s = c /\ call[c].pc = "created" /\ sub'[c].cleanup /\ sub'[c].pkc = sub[c].pkc /\ (Method[c] = "update" => sub'[c].handler)

(* Names of calls, addresses and marks differ. *)
LEMMA RpcConstants ==
    /\ \A c \in RpcCall : Method[c] \in Methods /\ From[c] \in Client /\ On[c] \in Community /\ Sub[c] \in RpcCall \cup {None}
    /\ \A c \in RpcCall : c \in RpcInstance /\ c \notin Address /\ c # None /\ c # "pending"
    /\ \A a \in Address : a \in RpcInstance /\ a \notin RpcCall /\ a # None /\ a # "pending"
    /\ \A k \in Community : Home[k] \in Address /\ NewName[k] \in Address
    /\ None \notin RpcInstance /\ "pending" \notin RpcInstance /\ None # "pending"
BY RpcAssumption DEF RpcInstance

(* The fields of the rows. *)
LEMMA RpcRows ==
    ASSUME ServerTypeOK
    PROVE  /\ \A c \in RpcCall : /\ call[c] \in CallRows /\ sub[c] \in SubRows /\ call[c].pc \in ServerPcs
                                 /\ call[c].addr \in Address \cup {None} /\ call[c].i \in RpcInstance \cup {None}
                                 /\ call[c].conns \subseteq Client /\ call[c].subs \subseteq RpcCall
           /\ \A i \in RpcInstance : inst[i] \in InstRows /\ inst[i].life \in Lives
           /\ \A x \in Client : conn[x] \in ConnRows /\ conn[x].is \in {"open", "cleaning", "gone"} /\ conn[x].todo \subseteq RpcCall
           /\ \A a \in Address : boot[a] \in BootRows /\ table[a] \in RpcInstance \cup {None, "pending"}
           /\ pkcs.cur \in Nat /\ pkcs.queue \in Seq(RpcCall) /\ Len(pkcs.queue) \in Nat
           /\ \A k \in Community : disk.file[k] \in Address \cup {None}
<1>1. \A c \in RpcCall : call[c] \in CallRows /\ sub[c] \in SubRows BY DEF ServerTypeOK
<1>2. \A i \in RpcInstance : inst[i] \in InstRows BY DEF ServerTypeOK
<1>3. \A x \in Client : conn[x] \in ConnRows BY DEF ServerTypeOK
<1>4. \A a \in Address : boot[a] \in BootRows /\ table[a] \in RpcInstance \cup {None, "pending"} BY DEF ServerTypeOK, Tables
<1>5. pkcs.cur \in Nat /\ pkcs.queue \in Seq(RpcCall) /\ Len(pkcs.queue) \in Nat BY DEF ServerTypeOK, PkcRows
<1>6. \A k \in Community : disk.file[k] \in Address \cup {None} BY DEF ServerTypeOK, Disks
<1> QED BY <1>1, <1>2, <1>3, <1>4, <1>5, <1>6 DEF CallRows, InstRows, ConnRows

(* Pending entries keep somebody at them, and instances who is done with *)
(* making them, when x goes on. *)
LEMMA StartsMove ==
    ASSUME ServerInv, NEW x \in RpcInstance, OthersWait(x), ~MakerIsDone(x), TableMoves(x), InstMoves(x),
           x \in RpcCall => HoldsMade(x, call'[x])
    PROVE  PendingIsBeingStarted' /\ StartsAreOwned'
<1>1. /\ \A y \in RpcInstance \ {x} : StartedBy(y)' <=> StartedBy(y)
      /\ \A y \in RpcInstance \ {x}, a \in Address : AtEntry(y, a)' <=> AtEntry(y, a)
      /\ \A y : MakerIsDone(y) => MakerIsDone(y)'
    BY DEF OthersWait, StartedBy, AtEntry, MakerIsDone
<1>2. PendingIsBeingStarted'
 <2> SUFFICES ASSUME NEW a \in Address, table'[a] = "pending"
              PROVE  \E y \in RpcInstance : AtEntry(y, a)'
     BY DEF PendingIsBeingStarted, AtEntry
 <2>1. CASE table[a] = "pending" /\ ~AtEntry(x, a)
  <3>1. \E y \in RpcInstance : AtEntry(y, a) BY <2>1, RpcConstants DEF ServerInv, PendingIsBeingStarted, AtEntry
  <3> QED BY <2>1, <3>1, <1>1
 <2> QED BY <2>1 DEF TableMoves
<1>3. \A y \in RpcInstance : inst'[y].life = "starting" => StartedBy(y)' BY <1>1 DEF InstMoves, ServerInv, StartsAreOwned
<1>4. \A y \in RpcInstance : StartedBy(y)' => IsStarting(y)' BY <1>1 DEF InstMoves, ServerInv, StartsAreOwned
<1>5. ASSUME NEW a \in Address, NEW i \in RpcInstance, table'[a] = i PROVE MakerIsDone(i)' BY <1>1, <1>5 DEF TableMoves
<1>6. ASSUME NEW d \in RpcCall PROVE HoldsMade(d, call[d])'
 <2>1. HoldsMade(d, call'[d]) BY DEF ServerInv, StartsAreOwned, OthersWait
 <2> QED BY <2>1, <1>1 DEF HoldsMade
<1> QED BY <1>2, <1>3, <1>4, <1>5, <1>6 DEF StartsAreOwned, MakerIsDone

(* The queue of settings stays as it is when no settings call moves. *)
LEMMA QueueStays ==
    ASSUME ServerInv, pkcs'.queue = pkcs.queue, \A c \in RpcCall : Method[c] = "settings" => call'[c].pc = call[c].pc
    PROVE  QueueInTurn'
<1>1. \A n \in 1..Len(pkcs.queue) : pkcs.queue[n] \in RpcCall BY RpcRows DEF ServerInv
<1> QED BY <1>1 DEF ServerInv, QueueInTurn, CallInFlight

CallGoes(c) ==
    /\ call' = [call EXCEPT ![c] = call'[c]] /\ call'[c] \in CallRows
    /\ call[c].pc # "done" /\ Fitting(c, call'[c]) /\ HoldsMade(c, call'[c])

(* A call that goes on: what it holds, and who starts what. *)
LEMMA CallIsPlaced ==
    ASSUME ServerInv, NEW c \in RpcCall, boot' = boot, CallGoes(c), TableMoves(c), InstMoves(c)
    PROVE  /\ CallsFit' /\ PendingIsBeingStarted' /\ StartsAreOwned' /\ call' \in [RpcCall -> CallRows]
           /\ \A d \in RpcCall : d # c => call'[d] = call[d]
<1>1. call \in [RpcCall -> CallRows] BY DEF ServerInv, ServerTypeOK
<1>2. call' \in [RpcCall -> CallRows] /\ \A d \in RpcCall : d # c => call'[d] = call[d] BY <1>1 DEF CallGoes
<1>3. CallsFit' BY <1>2 DEF ServerInv, CallsFit, CallGoes, Fitting
<1>4. OthersWait(c) /\ ~MakerIsDone(c) BY <1>2 DEF OthersWait, MakerIsDone, CallGoes, ServerInv, ServerTypeOK
<1> QED BY <1>2, <1>3, <1>4, StartsMove, RpcConstants DEF CallGoes

(* A call other than setSettings goes on. *)
LEMMA CallStepKeeps ==
    ASSUME ServerInv, NEW c \in RpcCall, Method[c] # "settings", UNCHANGED <<pkcs, conn, boot, late>>, disk' \in Disks,
           CallGoes(c), TableMoves(c), InstMoves(c), SubMoves(c), CallInFlight(c) \/ conn[From[c]].is = "open"
    PROVE  ServerInv'
<1>1. /\ CallsFit' /\ PendingIsBeingStarted' /\ StartsAreOwned' /\ call' \in [RpcCall -> CallRows]
      /\ \A d \in RpcCall : d # c => call'[d] = call[d]
    BY CallIsPlaced
<1>2. ServerTypeOK' BY <1>1 DEF ServerInv, ServerTypeOK, TableMoves, InstMoves, SubMoves
<1>3. QueueInTurn' BY <1>1, QueueStays
<1>4. Fitting(c, call[c]) BY DEF ServerInv, CallsFit
<1>5. ConnectionsAreKnown'
 <2>1. \A s \in RpcCall : CallInFlight(s)' => CallInFlight(s) \/ s = c BY <1>1 DEF CallInFlight
 <2> QED BY <2>1, <1>1, <1>4 DEF ServerInv, ConnectionsAreKnown, SubMoves, SameObject, SameHandler, Told, Fitting
<1>6. ObjectsFollow'
 <2>1. \A s : IsMoved(s) => IsMoved(s)' BY <1>4, <1>1 DEF IsMoved, Fitting
 <2> SUFFICES ASSUME NEW s \in RpcCall, s \notin late
              PROVE  /\ sub'[s].object = "live" \/ Told(s)' => sub'[s].cleanup /\ (conn[From[s]].is = "cleaning" => s \in conn[From[s]].todo)
                     /\ Method[s] = "update" /\ call'[s].pc = "created" => sub'[s].pkc = pkcs.cur
                     /\ Method[s] = "update" /\ sub'[s].object = "live" => sub'[s].handler
                     /\ Told(s)' => sub'[s].pkc = pkcs.cur \/ IsMoved(s)'
     BY DEF ObjectsFollow
 <2>2. /\ sub[s].object = "live" \/ Told(s) => sub[s].cleanup /\ (conn[From[s]].is = "cleaning" => s \in conn[From[s]].todo)
       /\ Method[s] = "update" /\ call[s].pc = "created" => sub[s].pkc = pkcs.cur
       /\ Method[s] = "update" /\ sub[s].object = "live" => sub[s].handler
       /\ Told(s) => sub[s].pkc = pkcs.cur \/ IsMoved(s)
     BY DEF ServerInv, ObjectsFollow
 <2>3. CallInFlight(s) => conn[From[s]].is = "open" BY DEF ServerInv, ConnectionsAreKnown
 <2>4. Method[s] = "update" /\ call'[s].pc = "created" => sub'[s].pkc = pkcs.cur BY <2>2, <1>1 DEF SubMoves
 <2>5. sub'[s].object = "live" => /\ sub'[s].cleanup /\ (conn[From[s]].is = "cleaning" => s \in conn[From[s]].todo)
                                  /\ Method[s] = "update" => sub'[s].handler
  <3>1. CASE SameObject(s) BY <2>2, <3>1 DEF SameObject
  <3>2. CASE s = c /\ call[c].pc = "created" /\ sub'[c].cleanup /\ sub'[c].pkc = sub[c].pkc /\ (Method[c] = "update" => sub'[c].handler)
      BY <2>3, <3>2 DEF CallInFlight
  <3> QED BY <3>1, <3>2 DEF SubMoves
 <2>6. Told(s)' => /\ sub'[s].cleanup /\ (conn[From[s]].is = "cleaning" => s \in conn[From[s]].todo)
                   /\ sub'[s].pkc = pkcs.cur \/ IsMoved(s)'
  <3>1. ASSUME Told(s)', SameHandler(s) PROVE Told(s) BY <3>1 DEF SameHandler, Told
  <3>2. ASSUME s = c, call[c].pc \in {"called", "created"} PROVE conn[From[s]].is = "open" BY <2>3, <3>2 DEF CallInFlight
  <3>3. SUFFICES ASSUME Told(s)' PROVE /\ sub'[s].cleanup /\ (conn[From[s]].is = "cleaning" => s \in conn[From[s]].todo)
                                       /\ sub'[s].pkc = pkcs.cur \/ IsMoved(s)'
      OBVIOUS
  <3>4. CASE SameHandler(s) BY <2>1, <2>2, <3>1, <3>3, <3>4 DEF SameHandler
  <3>5. CASE s = c /\ call[c].pc \in {"called", "created"} /\ sub'[c].cleanup /\ (sub'[c].pkc = pkcs.cur \/ (call[c].pc = "created" /\ sub'[c].pkc = sub[c].pkc))
      BY <2>2, <3>2, <3>3, <3>5 DEF Told
  <3> QED BY <3>3, <3>4, <3>5 DEF SubMoves
 <2> QED BY <2>4, <2>5, <2>6
<1> QED BY <1>1, <1>2, <1>3, <1>5, <1>6 DEF ServerInv

(* Where a community is found, and a table with an instance refiled. *)
LEMMA AddressFound == ASSUME ServerTypeOK, NEW k \in Community PROVE _findCommunityAddress(k) \in Address \cup {None}
BY RpcRows, RpcConstants DEF _findCommunityAddress

LEMMA TableRefiled ==
    ASSUME NEW t \in Tables, NEW i \in RpcInstance, NEW n
    PROVE  /\ Refiled(t, i, n) \in Tables
           /\ \A a \in Address : Refiled(t, i, n)[a] \in {t[a], None} \/ (Refiled(t, i, n)[a] = i /\ \E b \in Address : t[b] = i)
BY DEF Refiled, FiledAt, Tables

LEMMA RowMoved == ASSUME NEW d \in Disks, NEW old \in Address, NEW a PROVE _moveCommunityState(d, old, a) \in Disks
BY DEF _moveCommunityState, Disks

LEMMA RowRefiled == ASSUME NEW d \in Disks, NEW t, NEW i, NEW a PROVE RefiledRow(d, t, i, a) \in Disks
<1>1. CASE FiledAt(t, i) = {} BY <1>1 DEF RefiledRow
<1>2. CASE FiledAt(t, i) # {}
 <2>1. (CHOOSE x \in FiledAt(t, i) : TRUE) \in Address BY <1>2 DEF FiledAt
 <2> QED BY <2>1, <1>2, RowMoved DEF RefiledRow
<1> QED BY <1>1, <1>2

LEMMA RowCleanedUp == ASSUME NEW r \in SubRows PROVE CleanedUp(r) \in SubRows /\ CleanedUp(r).object # "live" /\ ~CleanedUp(r).cleanup /\ ~CleanedUp(r).handler /\ CleanedUp(r).pkc = r.pkc
BY DEF CleanedUp, SubRows

(* What a step leaves alone. *)
LEMMA TableStays ==
    ASSUME ServerInv, NEW c \in RpcCall, table' = table, call[c].pc \notin {"create", "starting", "restarting"} PROVE TableMoves(c)
BY RpcConstants DEF TableMoves, ServerInv, ServerTypeOK, StartsAreOwned, AtEntry

LEMMA InstStays ==
    ASSUME ServerInv, NEW c \in RpcCall, inst' = inst, "starting" \notin {call[c].pc, call'[c].pc} PROVE InstMoves(c)
BY RpcConstants DEF InstMoves, ServerInv, ServerTypeOK, StartsAreOwned, StartedBy, IsStarting

LEMMA SubStays ==
    ASSUME ServerInv, NEW c \in RpcCall, sub' = sub, call[c].pc # "done", call'[c].pc # "created", call'[c].pc = "done" \/ call[c].pc # "publishing"
    PROVE  SubMoves(c)
BY DEF SubMoves, SameObject, SameHandler, Told, ServerInv, ServerTypeOK, ConnectionsAreKnown

(* The calls that start a community. *)
LEMMA StartCallsKeep ==
    ASSUME ServerInv, NEW c \in RpcCall, Method[c] # "settings",
           \/ startCommunity(c) \/ startCommunityImpl(c) \/ attachToStarted(c) \/ beginStart(c) \/ finishStart(c) \/ failStart(c)
    PROVE  ServerInv'
<1> DEFINE Fits == /\ CallGoes(c) /\ TableMoves(c) /\ InstMoves(c) /\ SubMoves(c) /\ disk' \in Disks
                   /\ UNCHANGED <<pkcs, conn, boot, late>> /\ CallInFlight(c)
<1> SUFFICES Fits BY CallStepKeeps
<1>1. /\ ServerTypeOK /\ Fitting(c, call[c]) /\ HoldsMade(c, call[c]) /\ disk \in Disks /\ call \in [RpcCall -> CallRows]
      /\ table \in Tables /\ inst \in [RpcInstance -> InstRows] /\ sub \in [RpcCall -> SubRows]
      /\ \A s \in RpcCall : sub[s].object = "live" \/ Told(s) => s # c \/ call[c].pc \in {"publishing", "done"}
    BY DEF ServerInv, ServerTypeOK, CallsFit, StartsAreOwned, ConnectionsAreKnown
<1>2. /\ call[c] \in CallRows /\ Queued \subseteq RpcCall /\ call[c].addr \in Address \cup {None} /\ pkcs.cur \in Nat /\ On[c] \in Community
      /\ _findCommunityAddress(On[c]) \in Address \cup {None} /\ c \in RpcInstance /\ c \notin Address /\ sub[c] \in SubRows
      /\ \A a \in Address : table[a] \in RpcInstance \cup {None, "pending"}
    BY <1>1, RpcRows, AddressFound, RpcConstants DEF Queued
<1>3. CASE startCommunity(c)
 <2>1. CallGoes(c) /\ call'[c].pc \in {"impl", "done"} /\ call[c].pc \in {"called", "start"}
     BY <1>1, <1>2, <1>3 DEF startCommunity, Called, Done, Step, CallGoes, CallRows, ServerPcs, Fitting, AtAddress, HoldsMade
 <2>2. sub' \in [RpcCall -> SubRows] /\ \A s \in RpcCall : s # c => sub'[s] = sub[s]
  <3>1. sub' = sub \/ sub' = [sub EXCEPT ![c].handler = TRUE] BY <1>3 DEF startCommunity
  <3>2. [sub[c] EXCEPT !.handler = TRUE] \in SubRows BY <1>2 DEF SubRows
  <3> QED BY <3>1, <3>2, <1>1
 <2>3. sub'[c].cleanup = sub[c].cleanup /\ sub'[c].object = sub[c].object BY <1>1, <1>2, <1>3 DEF startCommunity, SubRows
 <2>4. Method[c] # "update" BY <1>1, <1>3 DEF startCommunity, Called, Fitting
 <2>5. SubMoves(c) BY <2>1, <2>2, <2>3, <2>4, <1>1, <1>2 DEF SubMoves, SameObject, SameHandler, Told
 <2> QED BY <2>1, <2>5, <1>1, <1>3, TableStays, InstStays DEF startCommunity, CallInFlight
<1>4. CASE startCommunityImpl(c)
 <2>1. CallGoes(c) /\ call'[c].pc \in {"attach", "create"} /\ call[c].pc = "impl"
  <3>1. call[c].pc = "impl" /\ \E p \in {"attach", "create"} : call' = [call EXCEPT ![c].pc = p] BY <1>4 DEF startCommunityImpl, Step
  <3>2. PICK p \in {"attach", "create"} : call' = [call EXCEPT ![c].pc = p] BY <3>1
  <3>3. call'[c].pc = p /\ call'[c].addr = call[c].addr /\ call'[c] \in CallRows BY <3>2, <1>1, <1>2 DEF CallRows, ServerPcs, AtAddress
  <3> QED BY <3>1, <3>2, <3>3, <1>1 DEF CallGoes, Fitting, AtAddress, HoldsMade
 <2>2. CASE table[call[c].addr] # None BY <2>1, <2>2, <1>1, <1>4, TableStays, InstStays, SubStays DEF startCommunityImpl, CallInFlight
 <2>3. CASE table[call[c].addr] = None
  <3>1. call'[c].pc = "create" /\ call'[c].addr = call[c].addr /\ call[c].addr \in Address
      BY <2>1, <2>3, <1>1, <1>2, <1>4 DEF startCommunityImpl, Step, Fitting, AtAddress, CallRows
  <3>2. TableMoves(c) BY <2>1, <2>3, <3>1, <1>1, <1>2, <1>4, RpcConstants DEF startCommunityImpl, TableMoves, Tables, AtEntry, ServerInv, StartsAreOwned
  <3>3. InstMoves(c) BY <2>1, <2>3, <3>1, <1>1, <1>2, <1>4 DEF startCommunityImpl, InstMoves, InstRows, Lives, StartedBy, IsStarting
  <3> QED BY <2>1, <3>2, <3>3, <1>1, <1>4, SubStays DEF startCommunityImpl, CallInFlight
 <2> QED BY <2>2, <2>3
<1>5. CASE attachToStarted(c)
 <2>1. CallGoes(c) /\ call'[c].pc = "done" /\ call[c].pc = "attach" /\ call[c].addr \in Address
     BY <1>1, <1>2, <1>5 DEF attachToStarted, Step, Done, CallGoes, CallRows, ServerPcs, Fitting, AtAddress, HoldsMade
 <2>2. SubMoves(c) BY <2>1, <1>1, <1>2, <1>5 DEF attachToStarted, SubMoves, SameObject, SameHandler, Told, SubRows, Open
 <2> QED BY <2>1, <2>2, <1>1, <1>5, TableStays, InstStays DEF attachToStarted, CallInFlight
<1>6. CASE beginStart(c)
 <2>1. CallGoes(c) /\ call'[c].pc = "starting" /\ call[c].pc = "create" /\ call[c].addr \in Address /\ call'[c].addr = call[c].addr
     BY <1>1, <1>2, <1>6 DEF beginStart, Step, Done, CallGoes, CallRows, ServerPcs, Fitting, AtAddress, HoldsMade
 <2>2. TableMoves(c) BY <2>1, <1>1, <1>2, <1>6, RpcConstants DEF beginStart, TableMoves, AtEntry, ServerInv, StartsAreOwned
 <2>3. InstMoves(c) BY <2>1, <1>1, <1>2, <1>6 DEF beginStart, InstMoves, InstRows, Lives, StartedBy, IsStarting
 <2>4. SubMoves(c) BY <2>1, <1>1, <1>2, <1>6 DEF beginStart, SubMoves, SameObject, SameHandler, Told, SubRows, Open
 <2> QED BY <2>1, <2>2, <2>3, <2>4, <1>1, <1>6 DEF beginStart, CallInFlight
<1>7. CASE finishStart(c)
 <2>1. CallGoes(c) /\ call'[c].pc = "done" /\ call[c].pc = "starting" /\ call[c].addr \in Address
     BY <1>1, <1>2, <1>7 DEF finishStart, Step, Done, CallGoes, CallRows, ServerPcs, Fitting, AtAddress, HoldsMade
 <2>2. TableMoves(c)
  <3> DEFINE t == [table EXCEPT ![call[c].addr] = c]
  <3>1. t \in Tables BY <1>1, <1>2 DEF Tables
  <3>2. \A a \in Address : t[a] = (IF a = call[c].addr THEN c ELSE table[a]) BY <1>1 DEF Tables
  <3>3. table' = Refiled(t, c, disk.file[On[c]]) BY <1>7 DEF finishStart
  <3>4. table' \in Tables /\ \A a \in Address : table'[a] \in {table[a], None, c} /\ (a = call[c].addr => table'[a] \in {None, c})
   <4> HIDE DEF t
   <4> QED BY <3>1, <3>2, <3>3, <1>2, TableRefiled
  <3>5. MakerIsDone(c)' BY <2>1, <1>2 DEF MakerIsDone
  <3> QED BY <2>1, <3>4, <3>5, <1>2, RpcConstants DEF TableMoves, AtEntry, ServerInv, StartsAreOwned
 <2>3. InstMoves(c) BY <2>1, <1>1, <1>2, <1>7 DEF finishStart, InstMoves, InstRows, Lives, StartedBy, IsStarting
 <2>4. disk' \in Disks
  <3>1. [disk EXCEPT !.row[call[c].addr] = "started"] \in Disks BY <1>1 DEF Disks
  <3> QED BY <3>1, <1>7, RowRefiled DEF finishStart
 <2> QED BY <2>1, <2>2, <2>3, <2>4, <1>7, SubStays DEF finishStart, CallInFlight
<1>8. CASE failStart(c)
 <2>1. CallGoes(c) /\ call'[c].pc = "done" /\ call[c].pc \in {"create", "starting"} /\ call[c].addr \in Address
     BY <1>1, <1>2, <1>8 DEF failStart, Step, Done, CallGoes, CallRows, ServerPcs, Fitting, AtAddress, HoldsMade
 <2>2. TableMoves(c) BY <2>1, <1>1, <1>2, <1>8, RpcConstants DEF failStart, TableMoves, Tables, AtEntry, ServerInv, StartsAreOwned
 <2>3. InstMoves(c) BY <2>1, <1>1, <1>2, <1>8 DEF failStart, InstMoves, InstRows, Lives, StartedBy, IsStarting
 <2>4. SubMoves(c) BY <2>1, <1>1, <1>2, <1>8 DEF failStart, SubMoves, SameObject, SameHandler, Told, SubRows
 <2> QED BY <2>1, <2>2, <2>3, <2>4, <1>1, <1>8 DEF failStart, CallInFlight
<1> QED BY <1>3, <1>4, <1>5, <1>6, <1>7, <1>8

(* The calls that find a community, those with an object, and unsubscribe. *)
LEMMA CallsKeep ==
    ASSUME ServerInv, NEW c \in RpcCall, Method[c] # "settings", callStep(c)
    PROVE  ServerInv'
<1> DEFINE Fits == /\ CallGoes(c) /\ TableMoves(c) /\ InstMoves(c) /\ SubMoves(c) /\ disk' \in Disks
                   /\ UNCHANGED <<pkcs, conn, boot, late>> /\ (CallInFlight(c) \/ conn[From[c]].is = "open")
<1>1. /\ ServerTypeOK /\ Fitting(c, call[c]) /\ HoldsMade(c, call[c]) /\ disk \in Disks /\ call \in [RpcCall -> CallRows]
      /\ table \in Tables /\ inst \in [RpcInstance -> InstRows] /\ sub \in [RpcCall -> SubRows]
      /\ \A s \in RpcCall : sub[s].object = "live" \/ Told(s) => s # c \/ call[c].pc \in {"publishing", "done"}
      /\ \A x \in RpcInstance : inst[x].life = "starting" => StartedBy(x)
    BY DEF ServerInv, ServerTypeOK, CallsFit, StartsAreOwned, ConnectionsAreKnown
<1>2. /\ call[c] \in CallRows /\ Queued \subseteq RpcCall /\ call[c].addr \in Address \cup {None} /\ pkcs.cur \in Nat /\ On[c] \in Community
      /\ _findCommunityAddress(On[c]) \in Address \cup {None} /\ c \in RpcInstance /\ c \notin Address /\ sub[c] \in SubRows
      /\ \A a \in Address : table[a] \in RpcInstance \cup {None, "pending"} /\ (table[a] \in RpcInstance => MakerIsDone(table[a]))
    BY <1>1, RpcRows, AddressFound, RpcConstants DEF Queued, ServerInv, StartsAreOwned
<1>3. ASSUME arrive(c) \/ startedCommunitySubscribe(c) \/ createFails(c) \/ publishReturns(c) PROVE Fits
 <2>1. CallGoes(c) /\ call[c].pc \in {"ready", "called", "created", "publishing"} /\ (call'[c].pc = "done" \/ (call[c].pc # "publishing" /\ call'[c].pc \in {"called", "start"}))
     BY <1>1, <1>2, <1>3 DEF arrive, startedCommunitySubscribe, createFails, publishReturns, Called, Done, Step, CallGoes, CallRows, ServerPcs, Fitting, AtAddress, HoldsMade
 <2>2. TableMoves(c) /\ InstMoves(c) /\ SubMoves(c)
     BY <2>1, <1>3, TableStays, InstStays, SubStays DEF arrive, startedCommunitySubscribe, createFails, publishReturns
 <2> QED BY <2>1, <2>2, <1>1, <1>3 DEF arrive, startedCommunitySubscribe, createFails, publishReturns, Called, CallInFlight
<1>4. ASSUME locate(c) \/ getStarted(c) PROVE Fits
 <2>1. CallGoes(c) /\ call[c].pc \in {"called", "get"} /\ call'[c].pc \in {"get", "have", "done"}
  <3>1. CASE locate(c) BY <3>1, <1>1, <1>2 DEF locate, Called, Step, Done, CallGoes, CallRows, ServerPcs, Fitting, AtAddress, HoldsMade
  <3>2. CASE getStarted(c)
   <4>1. call[c].addr \in Address BY <3>2, <1>1 DEF getStarted, Fitting, AtAddress
   <4> QED BY <4>1, <3>2, <1>1, <1>2 DEF getStarted, Step, Done, CallGoes, CallRows, ServerPcs, Fitting, AtAddress, HoldsMade
  <3> QED BY <1>4, <3>1, <3>2
 <2>2. inst' = inst \/ inst' = [inst EXCEPT ![c] = [life |-> "new", of |-> On[c], pkc |-> pkcs.cur]] BY <1>4 DEF locate, getStarted
 <2>3. InstMoves(c) BY <2>1, <2>2, <1>1, <1>2, InstStays DEF InstMoves, InstRows, Lives, StartedBy, IsStarting
 <2> QED BY <2>1, <2>3, <1>1, <1>4, TableStays, SubStays DEF locate, getStarted, CallInFlight
<1>5. ASSUME beginStop(c) PROVE Fits
 <2>1. CallGoes(c) /\ call[c].pc = "have" /\ call'[c].pc = "stopping" /\ call[c].i \in RpcInstance
     BY <1>1, <1>2, <1>5 DEF beginStop, Step, CallGoes, CallRows, ServerPcs, Fitting, AtAddress, HoldsMade
 <2>2. InstMoves(c) BY <2>1, <1>1, <1>2, <1>5 DEF beginStop, InstMoves, InstRows, Lives, StartedBy, IsStarting
 <2> QED BY <2>1, <2>2, <1>1, <1>5, TableStays, SubStays DEF beginStop, CallInFlight
<1>6. ASSUME finishStop(c) PROVE Fits
 <2>1. CallGoes(c) /\ call[c].pc = "stopping" /\ call'[c].pc = "done" /\ call[c].i \in RpcInstance /\ call[c].addr \in Address
     BY <1>1, <1>2, <1>6 DEF finishStop, Step, Done, CallGoes, CallRows, ServerPcs, Fitting, AtAddress, HoldsMade
 <2>2. TableMoves(c) BY <2>1, <1>1, <1>2, <1>6, RpcConstants DEF finishStop, TableMoves, Tables, AtEntry
 <2>3. InstMoves(c) BY <2>1, <1>1, <1>2, <1>6 DEF finishStop, InstMoves, InstRows, Lives, StartedBy, IsStarting
 <2>4. SubMoves(c) BY <2>1, <1>1, <1>2, <1>6 DEF finishStop, Silenced, SubMoves, SameObject, SameHandler, Told, SubRows
 <2>5. disk' \in Disks BY <2>1, <1>1, <1>2, <1>6 DEF finishStop, Disks
 <2> QED BY <2>1, <2>2, <2>3, <2>4, <2>5, <1>6 DEF finishStop, CallInFlight
<1>7. ASSUME editCommunity(c) PROVE Fits
 <2>1. CallGoes(c) /\ call[c].pc = "have" /\ call'[c].pc = "done" /\ call[c].i \in RpcInstance /\ call[c].addr \in Address
     BY <1>1, <1>2, <1>7 DEF editCommunity, Step, Done, CallGoes, CallRows, ServerPcs, Fitting, AtAddress, HoldsMade
 <2>2. table' = table \/ table' = Refiled(table, call[c].i, NewName[On[c]]) BY <1>7 DEF editCommunity
 <2>3. TableMoves(c)
  <3>1. CASE table' = table BY <3>1, <2>1, TableStays
  <3>2. CASE table' = Refiled(table, call[c].i, NewName[On[c]])
   <4>1. /\ table' \in Tables
         /\ \A a \in Address : table'[a] \in {table[a], None} \/ (table'[a] = call[c].i /\ \E b \in Address : table[b] = call[c].i)
    <5>1. table \in Tables /\ call[c].i \in RpcInstance BY <2>1, <1>1, <1>2
    <5> QED BY <5>1, <3>2, TableRefiled
   <4> QED BY <4>1, <2>1, <1>2, RpcConstants DEF TableMoves, AtEntry
  <3> QED BY <2>2, <3>1, <3>2
 <2>4. disk' \in Disks
  <3>1. [disk EXCEPT !.file[On[c]] = NewName[On[c]]] \in Disks BY <1>1, RpcConstants DEF Disks
  <3> QED BY <3>1, <2>1, <1>1, <1>7, RowRefiled, RowMoved DEF editCommunity
 <2> QED BY <2>1, <2>3, <2>4, <1>7, InstStays, SubStays DEF editCommunity, CallInFlight
<1>8. ASSUME createObject(c) PROVE Fits
 <2>1. CallGoes(c) /\ call[c].pc = "called" /\ call'[c].pc = "created"
     BY <1>1, <1>2, <1>8 DEF createObject, Called, Step, CallGoes, CallRows, ServerPcs, Fitting, AtAddress, HoldsMade
 <2>2. SubMoves(c) BY <2>1, <1>1, <1>2, <1>8 DEF createObject, SubMoves, SameObject, SameHandler, Told, SubRows
 <2> QED BY <2>1, <2>2, <1>1, <1>8, TableStays, InstStays DEF createObject, CallInFlight
<1>9. ASSUME registerObject(c) PROVE Fits
 <2>1. CallGoes(c) /\ call[c].pc = "created" /\ call'[c].pc = (IF Open(c) THEN "publishing" ELSE "done")
     BY <1>1, <1>2, <1>9 DEF registerObject, Step, CallGoes, CallRows, ServerPcs, Fitting, AtAddress, HoldsMade
 <2>2. SubMoves(c) BY <2>1, <1>1, <1>2, <1>9 DEF registerObject, SubMoves, SameObject, SameHandler, Told, SubRows, Open
 <2> QED BY <2>1, <2>2, <1>1, <1>9, TableStays, InstStays DEF registerObject, CallInFlight
<1>10. ASSUME publishFails(c) \/ unsubscribe(c) PROVE Fits
 <2>1. CallGoes(c) /\ call[c].pc \in {"publishing", "called"} /\ call'[c].pc = "done"
  <3>1. Done(c) /\ call[c].pc \in {"publishing", "called"} BY <1>10 DEF publishFails, unsubscribe
  <3> QED BY <3>1, <1>1, <1>2 DEF Step, Done, CallGoes, CallRows, ServerPcs, Fitting, AtAddress, HoldsMade
 <2>2. sub' \in [RpcCall -> SubRows] /\ \A s \in RpcCall : sub'[s] = sub[s] \/ (sub'[s].object # "live" /\ ~sub'[s].handler /\ sub'[s].pkc = sub[s].pkc /\ (sub'[s].cleanup => sub[s].cleanup))
  <3>1. CASE publishFails(c) BY <3>1, <1>1, <1>2 DEF publishFails, CleanedUp, SubRows
  <3>2. CASE unsubscribe(c) BY <3>2, <1>1, RpcConstants, RowCleanedUp DEF unsubscribe
  <3> QED BY <1>10, <3>1, <3>2
 <2>3. SubMoves(c) BY <2>1, <2>2 DEF SubMoves, SameObject, SameHandler, Told
 <2> QED BY <2>1, <2>3, <1>1, <1>10, TableStays, InstStays DEF publishFails, unsubscribe, CallInFlight
<1>12. ASSUME listenToStarted(c) PROVE Fits
 <2>1. CallGoes(c) /\ call[c].pc = "called" /\ call'[c].pc = "done" /\ call' = [call EXCEPT ![c].pc = "done"]
  <3>1. Done(c) /\ call[c].pc = "called" BY <1>12 DEF listenToStarted, Called
  <3> QED BY <3>1, <1>1, <1>2 DEF Step, Done, CallGoes, CallRows, ServerPcs, Fitting, AtAddress, HoldsMade
 <2>2. PICK i \in RpcInstance : sub' = [sub EXCEPT ![c].pkc = pkcs.cur, ![c].listens = i, ![c].cleanup = Open(c), ![c].handler = Open(c)]
     BY <1>12 DEF listenToStarted, StartedHere
 <2>3. SubMoves(c) BY <2>1, <2>2, <1>1, <1>2 DEF SubMoves, SameObject, SameHandler, Told, SubRows, Open
 <2> QED BY <2>1, <2>3, <1>1, <1>12, TableStays, InstStays DEF listenToStarted, CallInFlight
<1>11. Method[c] = "settings" \/ ~(swapPkc(c) \/ swapFails(c) \/ nextConnection(c) \/ moveCommunity(c) \/ finishMove(c) \/ keepComment(c) \/ beginRestart(c) \/ finishRestart(c) \/ restartFails(c) \/ settingsApplied(c))
  BY <1>1 DEF swapPkc, swapFails, nextConnection, moveCommunity, finishMove, keepComment, beginRestart, finishRestart, restartFails, settingsApplied, Fitting
<1> QED BY <1>3, <1>4, <1>5, <1>6, <1>7, <1>8, <1>9, <1>10, <1>11, <1>12, CallStepKeeps, StartCallsKeep DEF callStep

(* The automatic starts. *)
LEMMA BootsKeep ==
    ASSUME ServerInv, NEW a \in Address, bootStep(a)
    PROVE  ServerInv'
<1> DEFINE BootGoes == boot' = [boot EXCEPT ![a] = boot'[a]] /\ boot'[a] \in BootRows /\ boot[a].pc # "done"
           Fits == BootGoes /\ TableMoves(a) /\ InstMoves(a) /\ disk' \in Disks
<1>1. /\ ServerTypeOK /\ disk \in Disks /\ boot \in [Address -> BootRows] /\ boot[a] \in BootRows /\ call \in [RpcCall -> CallRows] /\ sub \in [RpcCall -> SubRows]
      /\ table \in Tables /\ inst \in [RpcInstance -> InstRows] /\ inst[a] \in InstRows /\ a \in RpcInstance /\ a \notin RpcCall /\ pkcs.cur \in Nat
      /\ \A x \in RpcInstance : inst[x].life = "starting" => StartedBy(x)
      /\ \A b \in Address : table[b] \in RpcInstance \cup {None, "pending"} /\ (table[b] \in RpcInstance => MakerIsDone(table[b]))
    BY RpcRows, RpcConstants DEF ServerInv, ServerTypeOK, StartsAreOwned
<1>2. UNCHANGED <<conn, pkcs, call, sub, late>>
    BY DEF bootStep, autoStartFilter, _internalStartCommunity, autoStartGone, autoStartBegins, autoStartDone, autoStartFails
<1>3. SUFFICES Fits
 <2> SUFFICES ASSUME Fits PROVE ServerInv' OBVIOUS
 <2>1. OthersWait(a) /\ ~MakerIsDone(a) BY <1>1, <1>2 DEF OthersWait, MakerIsDone
 <2>2. PendingIsBeingStarted' /\ StartsAreOwned' BY <2>1, <1>1, StartsMove
 <2>3. ServerTypeOK' BY <1>1, <1>2 DEF ServerTypeOK, TableMoves, InstMoves
 <2>4. CallsFit' /\ ConnectionsAreKnown' /\ ObjectsFollow' /\ QueueInTurn'
     BY <1>2 DEF ServerInv, CallsFit, ConnectionsAreKnown, ObjectsFollow, QueueInTurn, CallInFlight, IsMoved, Told
 <2> QED BY <2>2, <2>3, <2>4 DEF ServerInv
<1>4. inst' = inst /\ "starting" \notin {boot[a].pc, boot'[a].pc} => InstMoves(a) BY <1>1 DEF InstMoves, StartedBy, IsStarting
<1>5. CASE autoStartFilter(a)
 <2>1. BootGoes /\ boot[a].pc = "listed" /\ boot'[a].pc \in {"start", "done"} BY <1>1, <1>5 DEF autoStartFilter, BootRows
 <2>2. TableMoves(a) BY <2>1, <1>1, <1>5, RpcConstants DEF autoStartFilter, TableMoves, AtEntry
 <2>3. disk' \in Disks BY <1>1, <1>5 DEF autoStartFilter, Disks
 <2> QED BY <2>1, <2>2, <2>3, <1>4, <1>5 DEF autoStartFilter
<1>6. CASE _internalStartCommunity(a)
 <2>1. BootGoes /\ boot[a].pc = "start" /\ boot'[a].pc = "create" BY <1>1, <1>6 DEF _internalStartCommunity, BootRows
 <2>2. TableMoves(a) BY <2>1, <1>1, <1>6, RpcConstants DEF _internalStartCommunity, TableMoves, Tables, AtEntry
 <2>3. InstMoves(a) BY <2>1, <1>1, <1>6 DEF _internalStartCommunity, InstMoves, InstRows, Lives, StartedBy, IsStarting
 <2> QED BY <2>1, <2>2, <2>3, <1>1, <1>6 DEF _internalStartCommunity
<1>7. CASE autoStartGone(a)
 <2>1. BootGoes /\ boot[a].pc = "start" /\ boot'[a].pc = "done" BY <1>1, <1>7 DEF autoStartGone, BootRows
 <2>2. TableMoves(a) BY <2>1, <1>1, <1>7, RpcConstants DEF autoStartGone, TableMoves, Tables, AtEntry
 <2> QED BY <2>1, <2>2, <1>1, <1>4, <1>7 DEF autoStartGone
<1>8. CASE autoStartBegins(a)
 <2>1. BootGoes /\ boot[a].pc = "create" /\ boot'[a].pc = "starting" BY <1>1, <1>8 DEF autoStartBegins, BootRows
 <2>2. TableMoves(a) BY <2>1, <1>1, <1>8, RpcConstants DEF autoStartBegins, TableMoves, AtEntry
 <2>3. InstMoves(a) BY <2>1, <1>1, <1>8 DEF autoStartBegins, InstMoves, InstRows, Lives, StartedBy, IsStarting
 <2> QED BY <2>1, <2>2, <2>3, <1>1, <1>8 DEF autoStartBegins
<1>9. CASE autoStartDone(a)
 <2>1. BootGoes /\ boot[a].pc = "starting" /\ boot'[a].pc = "done" BY <1>1, <1>9 DEF autoStartDone, BootRows
 <2>2. TableMoves(a)
  <3> DEFINE t == [table EXCEPT ![a] = a]  n == disk.file[inst[a].of]
  <3>1. t \in Tables /\ \A b \in Address : t[b] = (IF b = a THEN a ELSE table[b]) BY <1>1 DEF Tables
  <3>2. table' = Refiled(t, a, n) BY <1>9 DEF autoStartDone
  <3>3. table' \in Tables /\ \A b \in Address : table'[b] \in {table[b], None, a} /\ (b = a => table'[b] \in {None, a})
   <4> HIDE DEF t, n
   <4> QED BY <3>1, <3>2, <1>1, TableRefiled
  <3>4. MakerIsDone(a)' BY <2>1, <1>1 DEF MakerIsDone
  <3> QED BY <2>1, <3>3, <3>4, <1>1, RpcConstants DEF TableMoves, AtEntry
 <2>3. InstMoves(a) BY <2>1, <1>1, <1>9 DEF autoStartDone, InstMoves, InstRows, Lives, StartedBy, IsStarting
 <2>4. disk' \in Disks
  <3>1. [disk EXCEPT !.row[a] = "started"] \in Disks BY <1>1 DEF Disks
  <3> QED BY <3>1, <1>9, RowRefiled DEF autoStartDone
 <2> QED BY <2>1, <2>2, <2>3, <2>4
<1>10. CASE autoStartFails(a)
 <2>1. BootGoes /\ boot[a].pc \in {"create", "starting"} /\ boot'[a].pc \in {"start", "done"} BY <1>1, <1>10 DEF autoStartFails, BootRows
 <2>2. TableMoves(a) BY <2>1, <1>1, <1>10, RpcConstants DEF autoStartFails, TableMoves, Tables, AtEntry
 <2>3. InstMoves(a) BY <2>1, <1>1, <1>10 DEF autoStartFails, InstMoves, InstRows, Lives, StartedBy, IsStarting
 <2> QED BY <2>1, <2>2, <2>3, <1>1, <1>10 DEF autoStartFails
<1> QED BY <1>5, <1>6, <1>7, <1>8, <1>9, <1>10 DEF bootStep

(* setSettings, while it runs the handlers. *)
LEMMA HandlersMove ==
    ASSUME ServerInv, NEW c \in RpcCall, UNCHANGED <<disk, pkcs, conn, boot, late>>, CallGoes(c), TableMoves(c), InstMoves(c),
           {call[c].pc, call'[c].pc} \subseteq {"handlers", "restarting", "moving"}, sub' \in [RpcCall -> SubRows],
           \A s \in RpcCall :
              /\ sub'[s].cleanup = sub[s].cleanup /\ sub'[s].handler = sub[s].handler /\ (sub'[s].object = "live" => sub[s].object = "live" \/ Told(s))
              /\ Method[s] = "update" =>
                    \/ sub'[s].pkc = pkcs.cur
                    \/ /\ sub'[s].pkc = sub[s].pkc
                       /\ sub[s].handler /\ (From[s] \in call[c].conns \/ s \in call[c].subs) => From[s] \in call'[c].conns \/ s \in call'[c].subs
    PROVE  ServerInv'
<1>1. /\ CallsFit' /\ PendingIsBeingStarted' /\ StartsAreOwned' /\ call' \in [RpcCall -> CallRows]
      /\ \A d \in RpcCall : d # c => call'[d] = call[d]
    BY CallIsPlaced
<1>2. ServerTypeOK' BY <1>1 DEF ServerInv, ServerTypeOK, TableMoves, InstMoves
<1>3. \A s \in RpcCall : CallInFlight(s)' <=> CallInFlight(s) BY <1>1 DEF CallInFlight
<1>4. QueueInTurn'
 <2>1. \A n \in 1..Len(pkcs.queue) : pkcs.queue[n] \in RpcCall BY RpcRows DEF ServerInv
 <2> QED BY <2>1, <1>1, <1>3 DEF ServerInv, QueueInTurn
<1>5. ConnectionsAreKnown'
 <2>1. Fitting(c, call[c]) BY DEF ServerInv, CallsFit
 <2> QED BY <2>1, <1>1, <1>3 DEF ServerInv, ConnectionsAreKnown, Fitting, Told
<1>6. \A s \in RpcCall : Told(s) /\ IsMoved(s) => sub'[s].pkc = pkcs.cur \/ (sub'[s].pkc = sub[s].pkc /\ IsMoved(s)')
    BY <1>1 DEF IsMoved, Told
<1>7. \A s \in RpcCall : Method[s] = "update" => sub'[s].pkc = pkcs.cur \/ sub'[s].pkc = sub[s].pkc OBVIOUS
<1>8. \A s \in RpcCall : call'[s].pc = "created" => call[s].pc = "created" BY <1>1
<1>10. \A s \in RpcCall : Told(s)' <=> Told(s) BY DEF Told
<1>9. ObjectsFollow' BY <1>6, <1>7, <1>8, <1>10 DEF ServerInv, ObjectsFollow, Told
<1> QED BY <1>1, <1>2, <1>4, <1>5, <1>9 DEF ServerInv

(* The handlers called one after the other. *)
LEMMA HandlersKeep ==
    ASSUME ServerInv, NEW c \in RpcCall,
           nextConnection(c) \/ moveCommunity(c) \/ finishMove(c) \/ keepComment(c) \/ beginRestart(c) \/ finishRestart(c) \/ restartFails(c)
    PROVE  ServerInv'
<1> DEFINE Moves(s) ==
              /\ sub'[s].cleanup = sub[s].cleanup /\ sub'[s].handler = sub[s].handler /\ (sub'[s].object = "live" => sub[s].object = "live" \/ Told(s))
              /\ Method[s] = "update" =>
                    \/ sub'[s].pkc = pkcs.cur
                    \/ /\ sub'[s].pkc = sub[s].pkc
                       /\ sub[s].handler /\ (From[s] \in call[c].conns \/ s \in call[c].subs) => From[s] \in call'[c].conns \/ s \in call'[c].subs
           Fits == /\ CallGoes(c) /\ TableMoves(c) /\ InstMoves(c) /\ {call[c].pc, call'[c].pc} \subseteq {"handlers", "restarting", "moving"}
                   /\ sub' \in [RpcCall -> SubRows] /\ \A s \in RpcCall : Moves(s)
<1> SUFFICES Fits
 <2>1. UNCHANGED <<disk, pkcs, conn, boot, late>>
     BY DEF nextConnection, moveCommunity, finishMove, keepComment, beginRestart, finishRestart, restartFails
 <2> QED BY <2>1, HandlersMove
<1>1. /\ ServerTypeOK /\ Fitting(c, call[c]) /\ HoldsMade(c, call[c]) /\ call \in [RpcCall -> CallRows]
      /\ table \in Tables /\ inst \in [RpcInstance -> InstRows] /\ sub \in [RpcCall -> SubRows]
      /\ \A x \in RpcInstance : (inst[x].life = "starting" => StartedBy(x)) /\ (MakerIsDone(x) => ~StartedBy(x))
    BY DEF ServerInv, ServerTypeOK, CallsFit, StartsAreOwned, MakerIsDone, StartedBy
<1>2. /\ call[c] \in CallRows /\ call[c].conns \subseteq Client /\ call[c].subs \subseteq RpcCall /\ pkcs.cur \in Nat /\ c \in RpcInstance /\ c \notin Address
      /\ \A a \in Address : table[a] \in RpcInstance \cup {None, "pending"} /\ (table[a] \in RpcInstance => MakerIsDone(table[a]))
    BY <1>1, RpcRows, RpcConstants DEF ServerInv, StartsAreOwned
<1>3. CASE nextConnection(c)
 <2>1. PICK x \in call[c].conns : call' = [call EXCEPT ![c].conns = @ \ {x}, ![c].subs = {s \in RpcCall : From[s] = x /\ sub[s].handler}]
     BY <1>3 DEF nextConnection
 <2>2. CallGoes(c) /\ call'[c].pc = "handlers" /\ call[c].pc = "handlers"
     BY <2>1, <1>1, <1>2, <1>3 DEF nextConnection, CallGoes, CallRows, Fitting, AtAddress, HoldsMade
 <2>3. call'[c].conns = call[c].conns \ {x} /\ call'[c].subs = {s \in RpcCall : From[s] = x /\ sub[s].handler} /\ call[c].subs = {}
     BY <2>1, <1>1, <1>2, <1>3 DEF nextConnection, CallRows
 <2> QED BY <2>2, <2>3, <1>1, <1>3, TableStays, InstStays DEF nextConnection
<1>4. CASE moveCommunity(c)
 <2>1. PICK s \in call[c].subs :
          /\ Method[s] = "update"
          /\ sub' = IF ~sub[s].handler THEN sub ELSE [sub EXCEPT ![s].pkc = pkcs.cur, ![s].object = IF Watches(s) THEN @ ELSE "moving"]
          /\ call' = IF ~sub[s].handler \/ Watches(s) THEN [call EXCEPT ![c].subs = @ \ {s}]
                     ELSE [call EXCEPT ![c].subs = @ \ {s}, ![c].pc = "moving", ![c].i = s]
     BY <1>4 DEF moveCommunity
 <2>2. s \in RpcCall /\ s \in RpcInstance BY <1>2, RpcConstants
 <2>3. CallGoes(c) /\ call'[c].pc \in {"handlers", "moving"} /\ call[c].pc = "handlers"
  <3>1. CASE call' = [call EXCEPT ![c].subs = @ \ {s}]
      BY <3>1, <1>1, <1>2, <1>4 DEF moveCommunity, CallGoes, CallRows, Fitting, AtAddress, HoldsMade
  <3>2. CASE call' = [call EXCEPT ![c].subs = @ \ {s}, ![c].pc = "moving", ![c].i = s]
   <4>1. call'[c] \in CallRows /\ call'[c].pc = "moving" /\ call'[c].i = s BY <3>2, <2>2, <1>1, <1>2 DEF CallRows, ServerPcs
   <4>2. call[c].pc = "handlers" /\ Method[c] = "settings" BY <1>1, <1>4 DEF moveCommunity, Fitting
   <4> QED BY <4>1, <4>2, <3>2, <2>1, <2>2, <1>1 DEF CallGoes, Fitting, AtAddress, HoldsMade
  <3> QED BY <2>1, <3>1, <3>2
 <2>4. call'[c].conns = call[c].conns /\ call'[c].subs = call[c].subs \ {s} BY <2>1, <1>1, <1>2 DEF CallRows
 <2>5. sub' \in [RpcCall -> SubRows] /\ \A x \in RpcCall : Moves(x)
  <3>1. CASE ~sub[s].handler BY <2>1, <2>4, <3>1, <1>1
  <3>2. CASE sub[s].handler
   <4>1. PICK o \in {sub[s].object, "moving"} : sub' = [sub EXCEPT ![s].pkc = pkcs.cur, ![s].object = o] BY <2>1, <3>2
   <4>2. sub' \in [RpcCall -> SubRows]
    <5>1. sub[s] \in SubRows /\ o \in {"none", "live", "moving", "revived", "stopped"} BY <4>1, <2>2, <1>1 DEF SubRows
    <5>2. [sub[s] EXCEPT !.pkc = pkcs.cur, !.object = o] \in SubRows BY <5>1, <1>2 DEF SubRows
    <5> QED BY <5>2, <4>1, <2>2, <1>1
   <4>3. \A x \in RpcCall : x # s => sub'[x] = sub[x] BY <4>1, <1>1
   <4>4. /\ sub'[s].pkc = pkcs.cur /\ sub'[s].cleanup = sub[s].cleanup /\ sub'[s].handler = sub[s].handler
         /\ sub'[s].object = "live" => sub[s].object = "live"
       BY <4>1, <2>2, <1>1 DEF SubRows
   <4> QED BY <4>2, <4>3, <4>4, <2>4
  <3> QED BY <3>1, <3>2
 <2> QED BY <2>3, <2>5, <1>1, <1>4, TableStays, InstStays DEF moveCommunity
<1>8. CASE finishMove(c)
 <2>1. PICK o \in IF sub[call[c].i].handler THEN {"live"} ELSE {"stopped", "revived"} : sub' = [sub EXCEPT ![call[c].i].object = o]
     BY <1>8 DEF finishMove
 <2>2. call[c].pc = "moving" /\ call' = [call EXCEPT ![c].pc = "handlers"] BY <1>8 DEF finishMove, Step
 <2>3. CallGoes(c) /\ call'[c].pc = "handlers" /\ call'[c].conns = call[c].conns /\ call'[c].subs = call[c].subs
     BY <2>2, <1>1, <1>2 DEF CallGoes, CallRows, ServerPcs, Fitting, AtAddress, HoldsMade
 <2>4. call[c].i \in RpcCall /\ Method[call[c].i] = "update" BY <2>2, <1>1 DEF Fitting
 <2>5. sub' \in [RpcCall -> SubRows] BY <2>1, <2>4, <1>1 DEF SubRows
 <2>6. \A s \in RpcCall : Moves(s) BY <2>1, <2>3, <2>4, <1>1 DEF SubRows, Told
 <2> QED BY <2>2, <2>3, <2>5, <2>6, <1>1, <1>8, TableStays, InstStays DEF finishMove
<1>5. CASE keepComment(c)
 <2>1. PICK s \in call[c].subs : Method[s] = "comment" /\ call' = [call EXCEPT ![c].subs = @ \ {s}] BY <1>5 DEF keepComment
 <2>2. CallGoes(c) /\ call'[c].pc = "handlers" /\ call[c].pc = "handlers"
     BY <2>1, <1>1, <1>2, <1>5 DEF keepComment, CallGoes, CallRows, Fitting, AtAddress, HoldsMade
 <2>3. call'[c].conns = call[c].conns /\ call'[c].subs = call[c].subs \ {s} BY <2>1, <1>1, <1>2 DEF CallRows
 <2> QED BY <2>1, <2>2, <2>3, <1>1, <1>5, TableStays, InstStays DEF keepComment
<1>6. CASE beginRestart(c)
 <2> DEFINE a(s) == _findCommunityAddress(On[s])
            i(s) == IF a(s) = None THEN None ELSE table[a(s)]
 <2>1. PICK s \in call[c].subs :
          /\ Method[s] \in {"start", "resubscribe"}
          /\ IF ~sub[s].handler \/ i(s) \notin RpcInstance
             THEN call' = [call EXCEPT ![c].subs = @ \ {s}] /\ UNCHANGED <<table, inst>>
             ELSE /\ table' = [table EXCEPT ![a(s)] = "pending"]
                  /\ inst' = IF inst[i(s)].life = "running" THEN [inst EXCEPT ![i(s)].life = "stopping"] ELSE inst
                  /\ call' = [call EXCEPT ![c].subs = @ \ {s}, ![c].pc = "restarting", ![c].addr = a(s), ![c].i = i(s)]
     BY <1>6 DEF beginRestart
 <2>2. call[c].pc = "handlers" /\ sub' = sub BY <1>6 DEF beginRestart
 <2>3. i(s) \in RpcInstance => a(s) \in Address /\ MakerIsDone(i(s)) BY <2>1, <1>1, <1>2, AddressFound, RpcConstants
 <2> HIDE DEF a, i
 <2>4. CASE ~sub[s].handler \/ i(s) \notin RpcInstance
  <3>1. call' = [call EXCEPT ![c].subs = @ \ {s}] /\ UNCHANGED <<table, inst>> BY <2>1, <2>4
  <3>2. CallGoes(c) /\ call'[c].pc = "handlers" BY <2>2, <3>1, <1>1, <1>2 DEF CallGoes, CallRows, Fitting, AtAddress, HoldsMade
  <3>3. call'[c].conns = call[c].conns /\ call'[c].subs = call[c].subs \ {s} BY <3>1, <1>1, <1>2 DEF CallRows
  <3> QED BY <2>1, <2>2, <3>1, <3>2, <3>3, <1>1, TableStays, InstStays
 <2>5. CASE sub[s].handler /\ i(s) \in RpcInstance
  <3>1. /\ table' = [table EXCEPT ![a(s)] = "pending"] /\ inst' = IF inst[i(s)].life = "running" THEN [inst EXCEPT ![i(s)].life = "stopping"] ELSE inst
        /\ call' = [call EXCEPT ![c].subs = @ \ {s}, ![c].pc = "restarting", ![c].addr = a(s), ![c].i = i(s)]
      BY <2>1, <2>5
  <3>2. CallGoes(c) /\ call'[c].pc = "restarting" /\ call'[c].addr = a(s)
      BY <2>2, <2>3, <2>5, <3>1, <1>1, <1>2 DEF CallGoes, CallRows, ServerPcs, Fitting, AtAddress, HoldsMade
  <3>3. call'[c].conns = call[c].conns /\ call'[c].subs = call[c].subs \ {s} BY <3>1, <1>1, <1>2 DEF CallRows
  <3>4. TableMoves(c) BY <2>2, <2>3, <2>5, <3>1, <3>2, <1>1, <1>2, RpcConstants DEF TableMoves, Tables, AtEntry
  <3>5. InstMoves(c) BY <2>2, <2>5, <3>1, <3>2, <1>1, <1>2 DEF InstMoves, InstRows, Lives, StartedBy, IsStarting
  <3> QED BY <2>1, <2>2, <3>2, <3>3, <3>4, <3>5, <1>1
 <2> QED BY <2>4, <2>5
<1>7. ASSUME finishRestart(c) \/ restartFails(c) PROVE Fits
 <2>1. call[c].pc = "restarting" /\ call' = [call EXCEPT ![c].pc = "handlers"] /\ sub' = sub BY <1>7 DEF finishRestart, restartFails, Step
 <2>2. CallGoes(c) /\ call'[c].pc = "handlers" /\ call'[c].conns = call[c].conns /\ call'[c].subs = call[c].subs
     BY <2>1, <1>1, <1>2 DEF CallGoes, CallRows, ServerPcs, Fitting, AtAddress, HoldsMade
 <2>3. MakerIsDone(call[c].i) /\ call[c].i \in RpcInstance /\ call[c].addr \in Address BY <2>1, <1>1 DEF HoldsMade, Fitting, AtAddress
 <2>4. table' \in Tables /\ \A a \in Address : table'[a] = (IF a = call[c].addr THEN table'[a] ELSE table[a]) /\ table'[call[c].addr] \in {None, call[c].i}
     BY <2>3, <1>1, <1>7 DEF finishRestart, restartFails, Tables
 <2>5. TableMoves(c) BY <2>1, <2>2, <2>3, <2>4, <1>1, <1>2, RpcConstants DEF TableMoves, AtEntry
 <2>6. InstMoves(c)
  <3>1. CASE finishRestart(c) BY <3>1, <2>1, <2>2, <2>3, <1>1, <1>2 DEF finishRestart, InstMoves, InstRows, Lives, StartedBy, IsStarting
  <3>2. CASE restartFails(c) BY <3>2, <2>1, <2>2, <2>3, <1>1, <1>2 DEF restartFails, InstMoves, InstRows, Lives, StartedBy, IsStarting
  <3> QED BY <3>1, <3>2, <1>7
 <2> QED BY <2>1, <2>2, <2>5, <2>6, <1>1
<1> QED BY <1>3, <1>4, <1>5, <1>6, <1>7, <1>8

(* setSettings is called, swaps the pkc and ends. *)
LEMMA SettingsKeep ==
    ASSUME ServerInv, NEW c \in RpcCall, Method[c] = "settings", callStep(c)
    PROVE  ServerInv'
<1>1. /\ ServerTypeOK /\ Fitting(c, call[c]) /\ HoldsMade(c, call[c]) /\ call \in [RpcCall -> CallRows] /\ pkcs \in PkcRows /\ c \in RpcInstance
      /\ call[c] \in CallRows /\ Queued \subseteq RpcCall /\ pkcs.queue \in Seq(RpcCall) /\ Len(pkcs.queue) \in Nat
      /\ \A n \in 1..Len(pkcs.queue) : pkcs.queue[n] \in RpcCall
    BY RpcRows, RpcConstants DEF ServerInv, ServerTypeOK, CallsFit, StartsAreOwned, Queued
<1>2. CASE nextConnection(c) \/ moveCommunity(c) \/ finishMove(c) \/ keepComment(c) \/ beginRestart(c) \/ finishRestart(c) \/ restartFails(c)
    BY <1>2, HandlersKeep
<1>3. ASSUME arrive(c) \/ swapPkc(c) \/ swapFails(c) \/ settingsApplied(c) PROVE ServerInv'
 <2>1. UNCHANGED <<disk, table, inst, sub, conn, boot>> BY <1>3 DEF arrive, swapPkc, swapFails, settingsApplied
 <2>2. CallGoes(c) /\ call[c].pc \in {"ready", "called", "handlers"} /\ call'[c].pc \in {"called", "handlers", "done"}
  <3>1. CASE arrive(c) BY <3>1, <1>1 DEF arrive, CallGoes, CallRows, ServerPcs, Fitting, AtAddress, HoldsMade
  <3>2. CASE swapPkc(c) BY <3>2, <1>1 DEF swapPkc, CallGoes, CallRows, ServerPcs, Fitting, AtAddress, HoldsMade
  <3>3. CASE swapFails(c) \/ settingsApplied(c)
   <4>1. Done(c) /\ call[c].pc \in {"called", "handlers"} BY <3>3 DEF swapFails, settingsApplied
   <4> QED BY <4>1, <1>1 DEF Done, Step, CallGoes, CallRows, ServerPcs, Fitting, AtAddress, HoldsMade
  <3> QED BY <1>3, <3>1, <3>2, <3>3
 <2>3. /\ CallsFit' /\ PendingIsBeingStarted' /\ StartsAreOwned' /\ call' \in [RpcCall -> CallRows]
       /\ \A d \in RpcCall : d # c => call'[d] = call[d]
     BY <2>1, <2>2, CallIsPlaced, TableStays, InstStays
 <2>5. late \subseteq late' BY <1>3 DEF arrive, swapPkc, swapFails, settingsApplied
 <2>6. pkcs' \in PkcRows /\ QueueInTurn'
  <3>1. CASE arrive(c)
   <4>1. call[c].pc = "ready" /\ call'[c].pc = "called" /\ pkcs' = [pkcs EXCEPT !.queue = Append(pkcs.queue, c)] BY <3>1, <1>1 DEF arrive
   <4>2. pkcs'.queue = Append(pkcs.queue, c) /\ pkcs' \in PkcRows
    <5>1. Append(pkcs.queue, c) \in Seq(RpcCall) BY <1>1
    <5> QED BY <5>1, <4>1, <1>1 DEF PkcRows
   <4>3. /\ Len(pkcs'.queue) = Len(pkcs.queue) + 1 /\ pkcs'.queue[Len(pkcs.queue) + 1] = c
         /\ \A n \in 1..Len(pkcs.queue) : pkcs'.queue[n] = pkcs.queue[n] /\ pkcs.queue[n] # c
       BY <4>1, <4>2, <1>1 DEF ServerInv, QueueInTurn
   <4> QED BY <4>1, <4>2, <4>3, <2>3, <1>1 DEF ServerInv, QueueInTurn, CallInFlight
  <3>2. CASE swapPkc(c)
   <4>1. pkcs' = [pkcs EXCEPT !.cur = @ + 1] /\ call[c].pc = "called" /\ call'[c].pc = "handlers" /\ pkcs.queue[1] = c BY <3>2, <1>1 DEF swapPkc
   <4>2. pkcs'.queue = pkcs.queue /\ pkcs' \in PkcRows BY <4>1, <1>1 DEF PkcRows
   <4>3. Len(pkcs.queue) > 0 BY <4>1, <1>1 DEF ServerInv, QueueInTurn, CallInFlight
   <4> QED BY <4>1, <4>2, <4>3, <2>3, <1>1 DEF ServerInv, QueueInTurn, CallInFlight
  <3>3. CASE swapFails(c) \/ settingsApplied(c)
   <4>1. call[c].pc \in {"called", "handlers"} /\ call'[c].pc = "done" /\ (call[c].pc = "called" => pkcs.queue[1] = c)
    <5>1. Done(c) /\ call[c].pc \in {"called", "handlers"} /\ (call[c].pc = "called" => pkcs.queue[1] = c) BY <3>3 DEF swapFails, settingsApplied
    <5> QED BY <5>1, <1>1 DEF Done, Step
   <4>2. pkcs.queue[1] = c /\ Len(pkcs.queue) > 0 BY <4>1, <1>1 DEF ServerInv, QueueInTurn, CallInFlight
   <4>3. Tail(pkcs.queue) \in Seq(RpcCall) BY <4>2, <1>1
   <4>4. pkcs'.queue = Tail(pkcs.queue) /\ pkcs' \in PkcRows
    <5>1. CASE swapFails(c) BY <5>1, <4>3, <1>1 DEF swapFails, PkcRows
    <5>2. CASE settingsApplied(c)
     <6>1. pkcs.timer \cup {pkcs.cur - 1} \in SUBSET Nat /\ \A S \in SUBSET RpcCall : pkcs.ending \cup S \in SUBSET RpcCall BY <1>1 DEF PkcRows
     <6>2. {s \in RpcCall : sub[s].publishing /\ sub[s].pkc = pkcs.cur - 1} \in SUBSET RpcCall OBVIOUS
     <6> QED BY <5>2, <6>1, <6>2, <4>3, <1>1 DEF settingsApplied, PkcRows
    <5> QED BY <3>3, <5>1, <5>2
   <4>5. Len(pkcs'.queue) = Len(pkcs.queue) - 1 /\ \A n \in 1..Len(pkcs.queue) - 1 : pkcs'.queue[n] = pkcs.queue[n + 1] BY <4>2, <4>4, <1>1
   <4>6. \A n \in 1..Len(pkcs'.queue) : /\ pkcs'.queue[n] \in RpcCall /\ pkcs'.queue[n] # c /\ Method[pkcs'.queue[n]] = "settings"
                                        /\ call'[pkcs'.queue[n]].pc = "called"
    <5> SUFFICES ASSUME NEW n \in 1..Len(pkcs.queue) - 1
                 PROVE  /\ pkcs.queue[n + 1] \in RpcCall /\ pkcs.queue[n + 1] # c /\ Method[pkcs.queue[n + 1]] = "settings"
                        /\ call'[pkcs.queue[n + 1]].pc = "called"
        BY <4>5
    <5>1. n + 1 \in 1..Len(pkcs.queue) /\ n + 1 # 1 /\ 1 \in 1..Len(pkcs.queue) BY <4>2, <1>1
    <5> QED BY <5>1, <4>2, <2>3, <1>1 DEF ServerInv, QueueInTurn
   <4>7. \A m, n \in 1..Len(pkcs'.queue) : pkcs'.queue[m] = pkcs'.queue[n] => m = n
    <5> SUFFICES ASSUME NEW m \in 1..Len(pkcs.queue) - 1, NEW n \in 1..Len(pkcs.queue) - 1, pkcs.queue[m + 1] = pkcs.queue[n + 1] PROVE m = n
        BY <4>5
    <5>1. m + 1 \in 1..Len(pkcs.queue) /\ n + 1 \in 1..Len(pkcs.queue) BY <1>1
    <5> QED BY <5>1, <1>1 DEF ServerInv, QueueInTurn
   <4>8. ASSUME NEW d \in RpcCall, Method[d] = "settings", CallInFlight(d)' PROVE \E n \in 1..Len(pkcs'.queue) : pkcs'.queue[n] = d
    <5>1. d # c /\ CallInFlight(d) BY <4>8, <4>1, <2>3 DEF CallInFlight
    <5>2. PICK n \in 1..Len(pkcs.queue) : pkcs.queue[n] = d BY <5>1, <4>8 DEF ServerInv, QueueInTurn
    <5>3. n - 1 \in 1..Len(pkcs.queue) - 1 /\ (n - 1) + 1 = n BY <5>1, <5>2, <4>2, <1>1
    <5> QED BY <5>2, <5>3, <4>5
   <4> QED BY <4>4, <4>6, <4>7, <4>8 DEF QueueInTurn
  <3> QED BY <1>3, <3>1, <3>2, <3>3
 <2>7. ConnectionsAreKnown'
  <3>1. \A s \in RpcCall : CallInFlight(s)' => CallInFlight(s) \/ (s = c /\ conn[From[s]].is = "open")
      BY <2>2, <2>3, <1>3 DEF CallInFlight, arrive, swapPkc, swapFails, settingsApplied
  <3>2. call[c].pc \in {"publishing", "done"} => call'[c].pc \in {"publishing", "done"} BY <2>2
  <3> QED BY <3>1, <3>2, <2>1, <2>3, <2>5 DEF ServerInv, ConnectionsAreKnown, Told
 <2>8. ObjectsFollow'
  <3>1. \A s \in RpcCall : Method[s] = "update" /\ call'[s].pc = "created" => call[s].pc = "created" BY <2>3
  <3>2. CASE swapPkc(c)
   <4>1. \A s \in RpcCall : s \notin late' /\ Method[s] = "update" => ~CallInFlight(s) BY <3>2 DEF swapPkc
   <4>4. \A s \in RpcCall : Told(s)' <=> Told(s) BY <2>1 DEF Told
   <4>2. call'[c].pc = "handlers" /\ call'[c].conns = {x \in Client : conn[x].is # "gone"} BY <3>2, <1>1 DEF swapPkc
   <4>3. \A s \in RpcCall : sub[s].cleanup => IsMoved(s)' BY <4>2, RpcConstants DEF ServerInv, ConnectionsAreKnown, IsMoved
   <4> QED BY <4>1, <4>3, <4>4, <3>1, <2>1, <2>5 DEF ServerInv, ObjectsFollow, CallInFlight
  <3>3. CASE arrive(c) \/ swapFails(c) \/ settingsApplied(c)
   <4>1. pkcs'.cur = pkcs.cur BY <3>3, <1>1 DEF arrive, swapFails, settingsApplied, PkcRows
   <4>2. \A s : IsMoved(s) => IsMoved(s)'
    <5>1. call[c].pc = "handlers" => call[c].conns = {} /\ call[c].subs = {} BY <3>3 DEF arrive, swapFails, settingsApplied
    <5>2. call[c].pc \notin {"restarting", "moving"} BY <2>2
    <5> QED BY <5>1, <5>2, <2>3 DEF IsMoved
   <4>3. \A s \in RpcCall : Told(s)' <=> Told(s) BY <2>1 DEF Told
   <4> QED BY <4>1, <4>2, <4>3, <3>1, <2>1, <2>5 DEF ServerInv, ObjectsFollow
  <3> QED BY <1>3, <3>2, <3>3
 <2> QED BY <2>1, <2>3, <2>6, <2>7, <2>8 DEF ServerInv, ServerTypeOK
<1>4. CASE ~(arrive(c) \/ swapPkc(c) \/ swapFails(c) \/ settingsApplied(c) \/ nextConnection(c) \/ moveCommunity(c) \/ finishMove(c) \/ keepComment(c) \/ beginRestart(c) \/ finishRestart(c) \/ restartFails(c))
  BY <1>1, <1>4 DEF callStep, startCommunity, startedCommunitySubscribe, startCommunityImpl, attachToStarted, beginStart, finishStart, failStart, locate, getStarted, beginStop, finishStop, editCommunity, listenToStarted, createObject, registerObject, createFails, publishReturns, publishFails, unsubscribe, Called, Fitting
<1> QED BY <1>2, <1>3, <1>4

(* Connections that end, and pkcs that are retired. *)
ObjectEnds(s) ==
    /\ sub'[s].cleanup => sub[s].cleanup /\ conn'[From[s]].is # "gone"
    /\ CallInFlight(s) /\ s \notin late' /\ conn[From[s]].is = "open" => conn'[From[s]].is = "open"
    /\ sub'[s].pkc = sub[s].pkc /\ (sub'[s].object = "live" => sub[s].object = "live")
    /\ sub'[s].handler => sub[s].handler
    /\ s \notin late' /\ (sub'[s].object = "live" \/ Told(s)') =>
           sub'[s].cleanup /\ sub'[s].handler = sub[s].handler /\ (conn'[From[s]].is = "cleaning" => s \in conn'[From[s]].todo)

LEMMA OthersKeep ==
    ASSUME ServerInv, UNCHANGED <<disk, table, call, boot>>, pkcs' \in PkcRows, pkcs'.queue = pkcs.queue, pkcs'.cur = pkcs.cur, late \subseteq late',
           inst' \in [RpcInstance -> InstRows], \A i \in RpcInstance : inst'[i] = inst[i] \/ inst'[i].life = "stopped",
           sub' \in [RpcCall -> SubRows], conn' \in [Client -> ConnRows], \A s \in RpcCall : ObjectEnds(s)
    PROVE  ServerInv'
<1>1. \A c \in RpcCall : (CallInFlight(c)' <=> CallInFlight(c)) /\ (CallInFlight(c) /\ c \notin late' => conn[From[c]].is = "open")
    BY DEF CallInFlight, ServerInv, ConnectionsAreKnown, ObjectEnds
<1>2. CallsFit' /\ PendingIsBeingStarted' /\ ServerTypeOK' BY DEF ServerInv, CallsFit, PendingIsBeingStarted, ServerTypeOK
<1>3. QueueInTurn' BY <1>1 DEF ServerInv, QueueInTurn
<1>4. StartsAreOwned' BY RpcConstants DEF ServerInv, StartsAreOwned, StartedBy, MakerIsDone, HoldsMade, IsStarting
<1>5. ASSUME NEW s \in RpcCall
      PROVE  /\ sub'[s].object = "live" => Method[s] \in {"update", "comment", "publish"} /\ call[s].pc \in {"publishing", "done"}
             /\ Told(s)' => call[s].pc \in {"publishing", "done"}
             /\ (sub'[s].cleanup => conn'[From[s]].is # "gone") /\ (s \notin late' /\ CallInFlight(s) => conn'[From[s]].is = "open")
    BY <1>1 DEF ServerInv, ConnectionsAreKnown, ObjectEnds, Told
<1>6. \A s : IsMoved(s)' <=> IsMoved(s) BY DEF IsMoved
<1>7. ASSUME NEW s \in RpcCall, s \notin late'
      PROVE  /\ sub'[s].object = "live" \/ Told(s)' => sub'[s].cleanup /\ (conn'[From[s]].is = "cleaning" => s \in conn'[From[s]].todo)
             /\ Method[s] = "update" /\ call[s].pc = "created" => sub'[s].pkc = pkcs.cur
             /\ Method[s] = "update" /\ sub'[s].object = "live" => sub'[s].handler
             /\ Told(s)' => sub'[s].pkc = pkcs.cur \/ IsMoved(s)
 <2>1. s \notin late BY <1>7
 <2>2. Told(s)' => Told(s) BY DEF Told, ObjectEnds
 <2> QED BY <2>1, <2>2, <1>7 DEF ServerInv, ObjectsFollow, ObjectEnds
<1>8. ConnectionsAreKnown' BY <1>1, <1>5 DEF ConnectionsAreKnown
<1>9. ObjectsFollow' BY <1>6, <1>7 DEF ObjectsFollow
<1> QED BY <1>2, <1>3, <1>4, <1>8, <1>9 DEF ServerInv

(* A connection that ends. *)
LEMMA ClientsKeep == ASSUME ServerInv, NEW x \in Client, disconnect(x) \/ cleanUpNext(x) \/ cleanUpEnds(x) PROVE ServerInv'
<1>1. /\ pkcs \in PkcRows /\ inst \in [RpcInstance -> InstRows] /\ sub \in [RpcCall -> SubRows] /\ conn \in [Client -> ConnRows] /\ conn[x] \in ConnRows
      /\ \A s \in RpcCall : /\ sub[s] \in SubRows /\ From[s] \in Client /\ (sub[s].cleanup => conn[From[s]].is # "gone")
                            /\ (s \notin late /\ (sub[s].object = "live" \/ Told(s)) => sub[s].cleanup /\ (conn[From[s]].is = "cleaning" => s \in conn[From[s]].todo))
    BY RpcRows, RpcConstants DEF ServerInv, ServerTypeOK, ConnectionsAreKnown, ObjectsFollow
<1>2. CASE disconnect(x)
 <2>1. /\ conn' = [conn EXCEPT ![x] = [is |-> "cleaning", todo |-> Registered(x)]] /\ conn[x].is = "open"
       /\ late' = late \cup {c \in RpcCall : From[c] = x /\ CallInFlight(c)} /\ UNCHANGED <<disk, table, inst, sub, pkcs, call, boot>>
     BY <1>2 DEF disconnect
 <2>2. conn' \in [Client -> ConnRows] BY <2>1, <1>1 DEF ConnRows, Registered
 <2> QED BY <2>1, <2>2, <1>1, OthersKeep DEF ObjectEnds, Told, Registered
<1>3. CASE cleanUpNext(x)
 <2>1. PICK c \in conn[x].todo : /\ sub' = IF sub[c].cleanup THEN [sub EXCEPT ![c] = CleanedUp(@)] ELSE sub
                                 /\ conn' = [conn EXCEPT ![x].todo = @ \ {c}] /\ UNCHANGED <<disk, table, inst, pkcs, call, boot, late>>
     BY <1>3 DEF cleanUpNext
 <2>2. conn' \in [Client -> ConnRows] /\ (\A y \in Client : conn'[y].is = conn[y].is /\ conn'[y].todo = (IF y = x THEN conn[y].todo \ {c} ELSE conn[y].todo))
     BY <2>1, <1>1 DEF ConnRows
 <2>3. sub' \in [RpcCall -> SubRows] /\ \A s \in RpcCall : sub'[s] = sub[s] \/ (sub'[s].object # "live" /\ ~sub'[s].handler /\ ~sub'[s].cleanup /\ sub'[s].pkc = sub[s].pkc)
     BY <2>1, <1>1, RowCleanedUp DEF ConnRows
 <2>4. c \in RpcCall /\ (sub[c].cleanup => sub'[c].object # "live" /\ ~sub'[c].handler) BY <2>1, <1>1, RowCleanedUp DEF ConnRows
 <2> QED BY <2>1, <2>2, <2>3, <2>4, <1>1, OthersKeep DEF ObjectEnds, Told
<1>4. CASE cleanUpEnds(x)
 <2>1. /\ conn' = [conn EXCEPT ![x].is = "gone"] /\ conn[x].is = "cleaning" /\ conn[x].todo = {} /\ UNCHANGED <<disk, table, inst, pkcs, call, boot, late>>
       /\ sub' = [c \in RpcCall |-> IF From[c] = x THEN [sub[c] EXCEPT !.cleanup = FALSE, !.handler = FALSE] ELSE sub[c]]
     BY <1>4 DEF cleanUpEnds
 <2>2. conn' \in [Client -> ConnRows] /\ (\A y \in Client \ {x} : conn'[y] = conn[y]) /\ conn'[x].is = "gone" BY <2>1, <1>1 DEF ConnRows
 <2>3. /\ sub' \in [RpcCall -> SubRows]
       /\ \A s \in RpcCall : IF From[s] = x THEN ~sub'[s].cleanup /\ ~sub'[s].handler /\ sub'[s].object = sub[s].object /\ sub'[s].pkc = sub[s].pkc ELSE sub'[s] = sub[s]
     BY <2>1, <1>1 DEF SubRows
 <2>4. ASSUME NEW s \in RpcCall PROVE ObjectEnds(s)
  <3>1. CASE From[s] = x BY <3>1, <2>1, <2>2, <2>3, <1>1 DEF ObjectEnds, Told
  <3>2. CASE From[s] # x BY <3>2, <2>1, <2>2, <2>3, <1>1 DEF ObjectEnds, Told
  <3> QED BY <3>1, <3>2
 <2> QED BY <2>1, <2>2, <2>3, <2>4, <1>1, OthersKeep
<1> QED BY <1>2, <1>3, <1>4

(* A pkc that is retired. *)
LEMMA RetiringKeeps ==
    ASSUME ServerInv, (\E s \in RpcCall : _forceCleanupPublication(s)) \/ (\E g \in 1..pkcs.cur : retirePkc(g))
    PROVE  ServerInv'
<1>1. /\ pkcs \in PkcRows /\ inst \in [RpcInstance -> InstRows] /\ sub \in [RpcCall -> SubRows] /\ conn \in [Client -> ConnRows]
      /\ \A s \in RpcCall : /\ sub[s] \in SubRows /\ From[s] \in Client /\ (sub[s].cleanup => conn[From[s]].is # "gone") /\ sub[s].pkc \in Nat
                            /\ (s \notin late /\ (sub[s].object = "live" \/ Told(s)) => sub[s].cleanup /\ (conn[From[s]].is = "cleaning" => s \in conn[From[s]].todo))
    BY RpcRows, RpcConstants DEF ServerInv, ServerTypeOK, ConnectionsAreKnown, ObjectsFollow, SubRows
<1>2. UNCHANGED <<disk, table, conn, call, boot, late>> BY DEF _forceCleanupPublication, retirePkc
<1>3. ASSUME NEW g \in Nat, NEW subs \in [RpcCall -> SubRows], NEW timers \in PkcRows, retireIfNeeded(g, subs, timers),
             timers.queue = pkcs.queue, timers.cur = pkcs.cur,
             \A s \in RpcCall : subs[s] = [sub[s] EXCEPT !.publishing = FALSE] \/ subs[s] = sub[s] \/ subs[s] = CleanedUp(sub[s])
      PROVE  ServerInv'
 <2>1. ASSUME NEW s \in RpcCall
       PROVE  /\ (subs[s].cleanup => sub[s].cleanup) /\ subs[s].pkc = sub[s].pkc
              /\ (subs[s].object = "live" => sub[s].object = "live") /\ (subs[s].handler => sub[s].handler)
              /\ (subs[s].object = "live" \/ subs[s].handler => subs[s].handler = sub[s].handler /\ subs[s].cleanup = sub[s].cleanup)
     BY <1>1, <1>3, RowCleanedUp DEF SubRows
 <2>2. /\ sub' \in [RpcCall -> SubRows]
       /\ \A s \in RpcCall : sub'[s] = subs[s] \/ (sub'[s].object = "stopped" /\ sub'[s].cleanup = subs[s].cleanup /\ sub'[s].handler = subs[s].handler /\ sub'[s].pkc = subs[s].pkc)
     BY <1>3 DEF retireIfNeeded, SubRows
 <2>3. inst' \in [RpcInstance -> InstRows] /\ \A i \in RpcInstance : inst'[i] = inst[i] \/ inst'[i].life = "stopped"
     BY <1>1, <1>3 DEF retireIfNeeded, InstRows, Lives
 <2>4. pkcs' \in PkcRows /\ pkcs'.queue = pkcs.queue /\ pkcs'.cur = pkcs.cur BY <1>3 DEF retireIfNeeded, PkcRows
 <2> QED BY <2>1, <2>2, <2>3, <2>4, <1>1, <1>2, OthersKeep DEF ObjectEnds, Told
<1>4. ASSUME NEW g \in 1..pkcs.cur, retirePkc(g) PROVE ServerInv'
 <2>1. [pkcs EXCEPT !.timer = @ \ {g}] \in PkcRows /\ g \in Nat BY <1>1 DEF PkcRows
 <2> QED BY <2>1, <1>1, <1>3, <1>4 DEF retirePkc, PkcRows
<1>5. ASSUME NEW s \in RpcCall, _forceCleanupPublication(s) PROVE ServerInv'
 <2> DEFINE timers == [pkcs EXCEPT !.ending = @ \ {s}]
            subs == [sub EXCEPT ![s] = IF @.cleanup THEN CleanedUp(@) ELSE [@ EXCEPT !.publishing = FALSE]]
 <2>1. timers \in PkcRows /\ timers.queue = pkcs.queue /\ timers.cur = pkcs.cur BY <1>1 DEF PkcRows
 <2>2. CASE ~sub[s].publishing BY <2>1, <2>2, <1>1, <1>2, <1>5, OthersKeep DEF ObjectEnds, Told, _forceCleanupPublication
 <2>3. CASE sub[s].publishing
  <3>1. [sub[s] EXCEPT !.publishing = FALSE] \in SubRows /\ CleanedUp(sub[s]) \in SubRows BY <1>1, RowCleanedUp DEF SubRows
  <3>2. /\ subs \in [RpcCall -> SubRows]
        /\ \A c \in RpcCall : subs[c] = [sub[c] EXCEPT !.publishing = FALSE] \/ subs[c] = sub[c] \/ subs[c] = CleanedUp(sub[c])
      BY <3>1, <1>1
  <3>3. retireIfNeeded(sub[s].pkc, subs, timers) BY <2>3, <1>5 DEF _forceCleanupPublication
  <3> HIDE DEF subs, timers
  <3> QED BY <3>2, <3>3, <2>1, <1>1, <1>3
 <2> QED BY <2>2, <2>3
<1> QED BY <1>4, <1>5

(* The first state, and a crash. *)
FreshServer ==
    /\ disk \in Disks /\ call \in [RpcCall -> CallRows] /\ table = [a \in Address |-> None] /\ inst = [i \in RpcInstance |-> NoInst]
    /\ sub = [c \in RpcCall |-> NoSub] /\ conn = [x \in Client |-> [is |-> "open", todo |-> {}]] /\ pkcs = FreshPkcs /\ boot = Booting(disk)
    /\ \A c \in RpcCall : call[c].pc \in {"idle", "ready", "done"}

LEMMA FreshInv == FreshServer => ServerInv
<1> SUFFICES ASSUME FreshServer PROVE ServerInv OBVIOUS
<1>1. ServerTypeOK
    BY RpcAssumption DEF FreshServer, ServerTypeOK, Tables, InstRows, Lives, NoInst, SubRows, NoSub, ConnRows, PkcRows, FreshPkcs, BootRows, Booting
<1>2. CallsFit BY DEF FreshServer, CallsFit, Fitting, AtAddress
<1>3. QueueInTurn BY DEF FreshServer, QueueInTurn, FreshPkcs, CallInFlight
<1>4. PendingIsBeingStarted /\ StartsAreOwned
    BY RpcConstants DEF FreshServer, PendingIsBeingStarted, StartsAreOwned, StartedBy, HoldsMade, NoInst, Booting
<1>5. ConnectionsAreKnown /\ ObjectsFollow BY RpcConstants DEF FreshServer, ConnectionsAreKnown, ObjectsFollow, Told, NoSub, CallInFlight
<1> QED BY <1>1, <1>2, <1>3, <1>4, <1>5 DEF ServerInv

LEMMA ServerInitInv == RpcInit => ServerInv
<1> SUFFICES ASSUME RpcInit PROVE FreshServer BY FreshInv
<1>1. PICK w \in RpcWorkload :
         /\ call = [c \in RpcCall |-> [NoCall EXCEPT !.pc = IF c \in w.calls THEN "ready" ELSE "idle"]]
         /\ disk = [file |-> Home, row |-> [a \in Address |-> IF \E k \in w.started : Home[k] = a THEN "started" ELSE "absent"]]
    BY DEF RpcInit
<1>2. \A p \in ServerPcs : [NoCall EXCEPT !.pc = p] \in CallRows /\ [NoCall EXCEPT !.pc = p].pc = p BY DEF NoCall, CallRows
<1>3. call \in [RpcCall -> CallRows] /\ \A c \in RpcCall : call[c].pc \in {"idle", "ready"} BY <1>1, <1>2 DEF ServerPcs
<1>4. disk \in Disks BY <1>1, RpcAssumption DEF Disks
<1> QED BY <1>3, <1>4 DEF RpcInit, FreshServer

LEMMA ServerNextInv == ASSUME ServerInv, [RpcNext]_rpcVars PROVE ServerInv'
<1>1. ASSUME crash PROVE ServerInv'
 <2>1. call' \in [RpcCall -> CallRows] /\ \A c \in RpcCall : call'[c].pc \in {"idle", "ready", "done"}
     BY <1>1 DEF ServerInv, ServerTypeOK, crash, CallRows, NoCall, ServerPcs, AtAddress, CallInFlight
 <2>2. FreshServer' BY <2>1, <1>1 DEF FreshServer, crash, ServerInv, ServerTypeOK
 <2> QED BY <2>2, FreshInv, PTL
<1>2. ASSUME UNCHANGED rpcVars PROVE ServerInv'
    BY <1>2 DEF rpcVars, ServerInv, ServerTypeOK, CallsFit, PendingIsBeingStarted, QueueInTurn, StartsAreOwned, CallInFlight, StartedBy, MakerIsDone,
       HoldsMade, IsStarting, ConnectionsAreKnown, ObjectsFollow, IsMoved, Told
<1> QED BY <1>1, <1>2, CallsKeep, SettingsKeep, BootsKeep, ClientsKeep, RetiringKeeps DEF RpcNext

(* What the server promises follows: who is first in the queue can always go *)
(* on; when there is nobody, who starts the community waited for can. *)
LEMMA ServerInvKeepsUp ==
    ASSUME ServerInv PROVE PendingIsBeingStarted /\ SettingsReachSubscribers /\ NoOrphanObject /\ EveryCallReturns
<1>1. \A c \in RpcCall : Fitting(c, call[c]) /\ call[c].pc \in ServerPcs BY RpcRows DEF ServerInv, CallsFit
<1>2. \A n \in 1..Len(pkcs.queue) : pkcs.queue[n] \in RpcCall BY RpcRows DEF ServerInv
<1>3. Queued = {} => \A c \in RpcCall : CallInFlight(c) => Method[c] # "settings"
 <2> SUFFICES ASSUME NEW c \in RpcCall, CallInFlight(c), Method[c] = "settings" PROVE Queued # {} OBVIOUS
 <2>1. PICK n \in 1..Len(pkcs.queue) : pkcs.queue[n] = c BY DEF ServerInv, QueueInTurn
 <2> QED BY <2>1 DEF Queued
<1>4. SettingsReachSubscribers
 <2>1. Queued = {} => \A s : ~IsMoved(s) BY <1>1, <1>3 DEF IsMoved, Fitting, CallInFlight
 <2> QED BY <2>1 DEF SettingsReachSubscribers, ServerInv, ObjectsFollow, Told
<1>5. NoOrphanObject BY DEF NoOrphanObject, ServerInv, ObjectsFollow
<1>6. ASSUME NEW x \in RpcInstance, StartedBy(x) PROVE (\E c \in RpcCall : CallGoesOn(c)) \/ \E a \in Address : BootGoesOn(a)
 <2>1. IsStarting(x) BY <1>6 DEF ServerInv, StartsAreOwned
 <2> QED BY <2>1, <1>6 DEF StartedBy, CallGoesOn, CallInFlight, WaitsForSettings, WaitsForStart, BootGoesOn
<1>7. EveryCallReturns
 <2> SUFFICES ASSUME NEW c \in RpcCall, CallInFlight(c), Method[c] # "unsubscribe", ~\E d \in RpcCall : CallGoesOn(d), ~\E a \in Address : BootGoesOn(a)
              PROVE  FALSE
     BY DEF EveryCallReturns
 <2>1. Queued = {}
  <3> SUFFICES ASSUME Queued # {} PROVE FALSE OBVIOUS
  <3>1. 1 \in 1..Len(pkcs.queue) /\ pkcs.queue[1] \in RpcCall BY <1>2, RpcRows DEF Queued, ServerInv
  <3>2. CallGoesOn(pkcs.queue[1]) BY <3>1 DEF ServerInv, QueueInTurn, CallGoesOn, CallInFlight, WaitsForSettings, WaitsForStart
  <3> QED BY <3>1, <3>2
 <2>2. ~WaitsForSettings(c) BY <2>1, <1>3 DEF WaitsForSettings
 <2>3. ~WaitsForStart(c)
  <3>1. \A a \in Address : table[a] # "pending"
   <4> SUFFICES ASSUME NEW a \in Address, table[a] = "pending" PROVE FALSE OBVIOUS
   <4>1. CASE \E d \in RpcCall : call[d].pc \in {"create", "starting", "restarting"}
    <5>1. PICK d \in RpcCall : call[d].pc \in {"create", "starting"} BY <4>1, <2>1, <1>1, <1>3 DEF Fitting, CallInFlight
    <5>2. CASE call[d].pc = "create" BY <5>2 DEF CallGoesOn, CallInFlight, WaitsForSettings, WaitsForStart
    <5>3. CASE call[d].pc = "starting" BY <5>3, <1>6, RpcConstants DEF StartedBy
    <5> QED BY <5>1, <5>2, <5>3
   <4>2. CASE boot[a].pc = "create" BY <4>2 DEF BootGoesOn
   <4>3. CASE boot[a].pc = "starting" BY <4>3, <1>6, RpcConstants DEF StartedBy
   <4> QED BY <4>1, <4>2, <4>3 DEF ServerInv, PendingIsBeingStarted
  <3>2. \A x \in RpcInstance : inst[x].life # "starting" BY <1>6 DEF ServerInv, StartsAreOwned
  <3> QED BY <3>1, <3>2, <1>1 DEF WaitsForStart, Fitting, AtAddress
 <2>4. call[c].pc = "starting" => IsStarting(c) BY RpcConstants DEF ServerInv, StartsAreOwned, StartedBy
 <2> QED BY <2>2, <2>3, <2>4 DEF CallGoesOn
<1> QED BY <1>4, <1>5, <1>7 DEF ServerInv

(* The RPC server leaves nobody behind, whatever its clients call, whenever *)
(* their connections end, the settings change or the server is restarted: a *)
(* pending entry has somebody at it, a subscription follows the settings, an *)
(* object has its cleanup, and some call can go on while one is unanswered. *)
THEOREM ServerStaysUp == RpcSpec => [](PendingIsBeingStarted /\ SettingsReachSubscribers /\ NoOrphanObject /\ EveryCallReturns)
<1>1. ServerInv /\ [RpcNext]_rpcVars => ServerInv' BY ServerNextInv
<1>2. ServerInv => PendingIsBeingStarted /\ SettingsReachSubscribers /\ NoOrphanObject /\ EveryCallReturns BY ServerInvKeepsUp
<1> QED BY <1>1, <1>2, ServerInitInv, PTL DEF RpcSpec
========================================
