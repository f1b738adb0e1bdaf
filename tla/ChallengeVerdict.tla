-------------------- MODULE ChallengeVerdict --------------------
(***************************************************************************)
(* How a community decides over a publication: the challenges of its       *)
(* settings exclude one another, are called in an order that follows from  *)
(* these rules, ask the author, are put off until the answers are there,   *)
(* and end in one verdict.                                                *)
(*                                                                         *)
(* One step visits one challenge.  What a challenge says is an input:      *)
(* "ok", "fail" or "ask", and for the last whether the answer is right.    *)
(***************************************************************************)
EXTENDS Naturals, FiniteSets

CONSTANTS
    Challenges,   \* number of challenges in the settings
    CvWorkload    \* [rules, says, right, excused, approval], functions of the index

\* An exclusion names challenges of the settings.
ASSUME CvAssumption ==
    /\ Challenges \in Nat
    /\ \A w \in CvWorkload :
        /\ w.rules \in [1..Challenges -> SUBSET (SUBSET (1..Challenges))]
        /\ w.says \in [1..Challenges -> {"ok", "fail", "ask"}]
        /\ w.right \in [1..Challenges -> BOOLEAN] /\ w.excused \in [1..Challenges -> BOOLEAN]
        /\ w.approval \in [1..Challenges -> BOOLEAN]

VARIABLES
    cvJob,      \* the settings and what the challenges say
    phase,      \* "request", "answers", "verify", "over"
    at,         \* index the loop visits, Challenges + 1 at the end of a round
    moved,      \* progress of this round
    decided, results, putOff,
    ruling     \* [success, approval]

cvVars == <<cvJob, phase, at, moved, decided, results, putOff, ruling>>

Slots == 1..Challenges
Rules(i) == cvJob.rules[i]
Asks(j) == results[j] = "ask"
Passed(j) == results[j] = "ok"

----------------------------------------
(* evaluatePhase2Exclusion, for a challenge that is not decided. *)
AllDecided(r) == \A j \in r : decided[j]
ReferencesBack(j, i) == \E r \in Rules(j) : i \in r
Tentative(r, i) == AllDecided(r) /\ (\A j \in r : Passed(j) \/ Asks(j)) /\ (\A j \in r : Asks(j) => ~ReferencesBack(j, i))

Decision(i) ==
    IF \E r \in Rules(i) : AllDecided(r) /\ \A j \in r : Passed(j) THEN "exclude"
    ELSE IF \E r \in Rules(i) : Tentative(r, i) THEN "defer"
    ELSE IF \A r \in Rules(i) : AllDecided(r) THEN "ready" ELSE "skip"

(* A failure may yet be excluded by a rule none of whose challenges failed. *)
canFailedChallengeStillBeExcluded(k) ==
    \E r \in Rules(k) : \A j \in r : decided[j] => Passed(j)

anyDecidedFailureIsFinal ==
    \E k \in Slots : decided[k] /\ results[k] = "fail" /\ ~canFailedChallengeStillBeExcluded(k)

Decide(i) == decided' = [decided EXCEPT ![i] = TRUE]
callGetChallenge(i) == results' = [results EXCEPT ![i] = cvJob.says[i]] /\ Decide(i) /\ UNCHANGED putOff

(* One pass of the loop, before or after the answers. *)
visit ==
    LET d == Decision(at) IN
    /\ phase \in {"request", "verify"} /\ at \in Slots
    /\ at' = at + 1
    /\ \/ /\ decided[at] \/ d = "skip"
          /\ UNCHANGED <<decided, results, putOff, moved>>
       \/ /\ ~decided[at] /\ d # "skip" /\ moved' = TRUE
          /\ \/ d = "exclude" /\ Decide(at) /\ UNCHANGED <<results, putOff>>
             \/ /\ d = "defer" /\ Decide(at) /\ UNCHANGED results
                /\ putOff' = IF phase = "request" THEN putOff \cup {at} ELSE putOff
             \/ d = "ready" /\ callGetChallenge(at)
    /\ UNCHANGED <<cvJob, phase, ruling>>

----------------------------------------
Undecided == {i \in Slots : ~decided[i]}
RoundOver == at = Challenges + 1

nextRound ==
    /\ phase \in {"request", "verify"} /\ RoundOver /\ moved
    /\ at' = 1 /\ moved' = FALSE
    /\ UNCHANGED <<cvJob, phase, decided, results, putOff, ruling>>

(* Stalled: a challenge that asks, or a failure nothing can undo, puts the *)
(* rest off; after the answers there is nothing to wait for. *)
putOffTheRest ==
    /\ RoundOver /\ ~moved /\ Undecided # {}
    /\ \/ phase = "request" /\ ((\E i \in Slots : Asks(i)) \/ anyDecidedFailureIsFinal) /\ putOff' = putOff \cup Undecided
       \/ phase = "verify" /\ anyDecidedFailureIsFinal /\ UNCHANGED putOff
    /\ decided' = [i \in Slots |-> TRUE]
    /\ UNCHANGED <<cvJob, phase, at, moved, results, ruling>>

(* Otherwise the lowest challenge left is called to break the cycle. *)
breakCycle(i) == callGetChallenge(i)

cycle ==
    /\ RoundOver /\ ~moved /\ Undecided # {} /\ ~anyDecidedFailureIsFinal
    /\ phase = "verify" \/ (phase = "request" /\ \A i \in Slots : ~Asks(i))
    /\ breakCycle(CHOOSE i \in Undecided : \A j \in Undecided : i <= j)
    /\ at' = 1
    /\ UNCHANGED <<cvJob, phase, moved, ruling>>

----------------------------------------
shouldExcludeChallengeSuccess_NotFailures(i) ==
    results[i] # "fail" /\ \E r \in Rules(i) : \A j \in r : Passed(j) \/ (Asks(j) /\ ~Asks(i))

(* A challenge that asks may excuse one that does not. *)
shouldExcludeChallengeSuccess(i) ==
    \E r \in Rules(i) : \A j \in r : Passed(j) \/ (Asks(j) /\ ~Asks(i))

CountedSlots == {i \in Slots : results[i] # "none" /\ ~shouldExcludeChallengeSuccess(i)}

Failures == {i \in CountedSlots : results[i] = "fail"}

Pending == {i \in CountedSlots : Asks(i)}

NeedsApproval == \E i \in CountedSlots : Passed(i) /\ cvJob.approval[i]

Ruled(success) ==
    /\ phase' = "over"
    /\ ruling' = [success |-> success, approval |-> success = "yes" /\ (ruling.approval \/ NeedsApproval)]

(* getPendingChallengesOrChallengeVerification, Phase 5. *)
classifyRequest ==
    /\ phase = "request" /\ RoundOver /\ Undecided = {} /\ ~moved
    /\ \/ Failures # {} /\ Ruled("no")
       \/ Failures = {} /\ Pending = {} /\ Ruled("yes")
       \/ /\ Failures = {} /\ Pending # {}
          /\ phase' = "answers" /\ ruling' = [ruling EXCEPT !.approval = NeedsApproval]
    /\ UNCHANGED <<cvJob, at, moved, decided, results, putOff>>

(* verify() of every challenge that was asked; what was put off is open *)
(* again. *)
answersArrive ==
    /\ phase = "answers"
    /\ results' = [i \in Slots |-> IF i \in Pending THEN (IF cvJob.right[i] THEN "ok" ELSE "fail") ELSE results[i]]
    /\ decided' = [i \in Slots |-> i \notin putOff]
    /\ phase' = "verify" /\ at' = 1 /\ moved' = FALSE
    /\ UNCHANGED <<cvJob, putOff, ruling>>

(* getChallengeVerificationFromChallengeAnswers: a challenge still asking is *)
(* passed over. *)
classifyAnswers ==
    /\ phase = "verify" /\ RoundOver /\ Undecided = {} /\ ~moved
    /\ Ruled(IF Failures # {} THEN "no" ELSE "yes")
    /\ UNCHANGED <<cvJob, at, moved, decided, results, putOff>>

CvInit ==
    /\ cvJob \in CvWorkload
    /\ phase = "request" /\ at = 1 /\ moved = FALSE
    /\ decided = [i \in Slots |-> cvJob.excused[i]]
    /\ results = [i \in Slots |-> "none"]
    /\ putOff = {}
    /\ ruling = [success |-> "none", approval |-> FALSE]

CvNext == visit \/ nextRound \/ putOffTheRest \/ cycle \/ classifyRequest \/ answersArrive \/ classifyAnswers

CvSpec == CvInit /\ [][CvNext]_cvVars

----------------------------------------
Waived(i) == \E r \in Rules(i) : \A j \in r : Passed(j)
Met(i) == cvJob.excused[i] \/ Passed(i) \/ Waived(i)

(* Put off, or excused by a question, while that question is never asked. *)
HangsOnAQuestion(i) == (i \in putOff /\ \E j \in Slots : Asks(j)) \/ \E r \in Rules(i) : \E j \in r : Asks(j)

(* An accepted publication passed every challenge that nothing excused it *)
(* from, in whatever order the rules had them called, asked and put off. *)
AcceptedPassedAll == ruling.success = "yes" => \A i \in Slots : Met(i)

(* The same, but for a challenge that hangs on one still asking: it was put *)
(* off, or excused by a question that is then never asked. *)
AcceptedIsEarned == ruling.success = "yes" => \A i \in Slots : Met(i) \/ HangsOnAQuestion(i)

(* A publication is rejected for a challenge it failed and that neither a *)
(* success nor a question still open excuses it from. *)
RejectedIsDeserved ==
    ruling.success = "no" => \E i \in Slots : results[i] = "fail" /\ \A r \in Rules(i) : \E j \in r : ~Passed(j) /\ ~Asks(j)

(* It goes to a moderator if a challenge it had to pass says so. *)
ApprovalIsKept ==
    (ruling.success = "yes" /\ \E i \in Slots : Passed(i) /\ cvJob.approval[i] /\ ~Waived(i) /\ ~HangsOnAQuestion(i)) => ruling.approval

(* The verdict of getChallengeVerification is the one the settings ask for: *)
(* accepted, rejected or sent to a moderator for a reason that the answers *)
(* and the exclusions among challenges really give. *)
VerdictIsFair ==
    AcceptedIsEarned /\ RejectedIsDeserved /\ ApprovalIsKept
========================================
