-------------------- MODULE MCChallengeExchange --------------------
(* Small instances of ChallengeExchange for TLC. *)
EXTENDS ChallengeExchange, TLC

CONSTANTS r1, r2, r3, i1, i2, i3, p1, p2, a1, a2

On(f, S) == [x \in S |-> f[x]]

\* Three requests under three ids: a delivery, its provider-switch retry and
\* another retry.
RetryIds == On(r1 :> i1 @@ r2 :> i2 @@ r3 :> i3, Req)
\* A pubsub message delivered twice, and a request under a second id.
RedeliveredIds == On(r1 :> i1 @@ r2 :> i1 @@ r3 :> i2, Req)

OnePublication == [r \in Req |-> p1]

AnswersToFirst == [a \in Ans |-> i1]
AnswersToBoth == On(a1 :> i1 @@ a2 :> i2, Ans)

AllComments == [p \in Pub |-> "comment"]
========================================
