-------------------- MODULE ReaderProofs --------------------
(***************************************************************************)
(* What a reader trusts, for any number of gateways, resolvers, gossiped   *)
(* messages and calls: an author's verdict was earned, a record held comes *)
(* with its own chain of keys and is replaced by newer ones alone, and an  *)
(* answer from the cache is one the network still stands behind; the       *)
(* shared instance of a comment knows who listens to it; and what a        *)
(* comment skips as known it already holds.                                *)
(***************************************************************************)
EXTENDS NameResolution, IpnsPushChannel, GatewayFetch, CommentMirrors,
        CommentUpdating, FiniteSetTheorems, WellFoundedInduction, TLAPS

----------------------------------------
(* NameResolution: the verdicts on the names of authors. *)

(* A set of naturals has a least element. *)
LEMMA LeastOfNaturals ==
    ASSUME NEW S \in SUBSET Nat, S # {}
    PROVE  \E m \in S : \A k \in S : m <= k
<1>1. \E m \in S : \A k \in S : ~(<<k, m>> \in OpToRel(<, Nat)) BY NatLessThanWellFounded, WFMin
<1>2. PICK m \in S : \A k \in S : ~(<<k, m>> \in OpToRel(<, Nat)) BY <1>1
<1>3. ASSUME NEW k \in S PROVE m <= k
 <2>1. <<k, m>> \in Nat \X Nat /\ <<k, m>>[1] = k /\ <<k, m>>[2] = m OBVIOUS
 <2>2. ~(k < m) BY <1>2, <1>3, <2>1 DEF OpToRel
 <2>3. QED BY <2>2, <1>3
<1>4. QED BY <1>2, <1>3

----------------------------------------
(* The values a lookup may bring: those of the TXT records of any workload. *)
AnyRecord == {NoRecord} \cup {w.txt[n] : w \in NameWorkload, n \in Nm} \cup {w.later[n] : w \in NameWorkload, n \in Nm}
Configured == {Resolvers[i] : i \in Index}
Attempt == [pc : {"none", "queued", "lookup", "resolve", "store", "set", "ended"}, r : 0..Len(Resolvers),
            answered : BOOLEAN, value : AnyRecord]

NameTypeOK ==
    /\ nameJob \in NameWorkload
    /\ txt \in {nameJob.txt, nameJob.later}
    /\ stored \in [Configured -> [Nm -> [value : AnyRecord, fresh : BOOLEAN]]]
    /\ verdict \in [Entry -> {"yes", "no", "unknown"}]
    /\ attempt \in [Sweep -> [Entry -> Attempt]]
    /\ \A s \in Sweep, e \in Entry : attempt[s][e].pc \in {"lookup", "resolve", "store"} => attempt[s][e].r \in Index

(* What a live attempt knows it was told, and it looks on only while it was *)
(* told of no record. *)
KnowsWhatItWasTold ==
    \A s \in Sweep, e \in Entry :
        /\ attempt[s][e].pc \in {"queued", "lookup", "resolve"} => attempt[s][e].value = NoRecord
        /\ attempt[s][e].value # NoRecord => attempt[s][e].answered
        /\ attempt[s][e].answered => [name |-> e.name, value |-> attempt[s][e].value] \in answers

(* An entry is in flight exactly while an attempt is live, and only one is. *)
OneIsLive ==
    \A e \in Entry :
        /\ e \in inFlight <=> \E s \in Sweep : Live(attempt[s][e])
        /\ \A s, t \in Sweep : Live(attempt[s][e]) /\ Live(attempt[t][e]) => s = t

NameInv == NameTypeOK /\ KnowsWhatItWasTold /\ OneIsLive /\ VerdictIsEarned

----------------------------------------
(* The next resolver is one of those configured. *)
LEMMA NextIsConfigured ==
    ASSUME NEW n, NEW i \in Nat
    PROVE  NextResolver(n, i) \in 0..Len(Resolvers) /\ (NextResolver(n, i) # 0 => NextResolver(n, i) \in Index)
<1> DEFINE rest == {j \in Index : j > i /\ n \in canResolve[Resolvers[j]]}
<1>1. rest \subseteq Nat /\ rest \subseteq Index /\ Index \subseteq 0..Len(Resolvers) /\ 0 \in 0..Len(Resolvers) BY NameAssumption DEF Index
<1>2. CASE rest = {} BY <1>1, <1>2 DEF NextResolver
<1>3. CASE rest # {}
 <2>1. \E j \in rest : \A k \in rest : j <= k BY <1>1, <1>3, LeastOfNaturals
 <2>2. (CHOOSE j \in rest : \A k \in rest : j <= k) \in rest BY <2>1
 <2>3. NextResolver(n, i) = CHOOSE j \in rest : \A k \in rest : j <= k BY <1>3 DEF NextResolver
 <2>4. QED BY <1>1, <2>2, <2>3
<1>4. QED BY <1>2, <1>3

(* One attempt of an entry moves on or ends, and its mark goes with its end. *)
LEMMA AttemptMoves ==
    ASSUME NameTypeOK, KnowsWhatItWasTold, OneIsLive,
           NEW s \in Sweep, NEW e \in Entry, Live(attempt[s][e]),
           NEW b \in Attempt, b.pc \in {"lookup", "resolve", "store"} => b.r \in Index,
           b.pc \in {"queued", "lookup", "resolve"} => b.value = NoRecord,
           b.value # NoRecord => b.answered,
           answers \subseteq answers',
           b.answered => [name |-> e.name, value |-> b.value] \in answers',
           attempt' = [attempt EXCEPT ![s][e] = b],
           inFlight' = IF Live(b) THEN inFlight ELSE inFlight \ {e}
    PROVE  /\ attempt' \in [Sweep -> [Entry -> Attempt]]
           /\ \A t \in Sweep, x \in Entry : attempt'[t][x].pc \in {"lookup", "resolve", "store"} => attempt'[t][x].r \in Index
           /\ KnowsWhatItWasTold' /\ OneIsLive'
<1>1. attempt \in [Sweep -> [Entry -> Attempt]] BY DEF NameTypeOK
<1>2. /\ attempt' \in [Sweep -> [Entry -> Attempt]]
      /\ attempt'[s][e] = b
      /\ \A t \in Sweep, x \in Entry : t # s \/ x # e => attempt'[t][x] = attempt[t][x]
    BY <1>1
<1>3. \A t \in Sweep, x \in Entry : attempt'[t][x].pc \in {"lookup", "resolve", "store"} => attempt'[t][x].r \in Index
    BY <1>2 DEF NameTypeOK
<1>4. KnowsWhatItWasTold'
 <2> SUFFICES ASSUME NEW t \in Sweep, NEW x \in Entry
              PROVE  /\ attempt'[t][x].pc \in {"queued", "lookup", "resolve"} => attempt'[t][x].value = NoRecord
                     /\ attempt'[t][x].value # NoRecord => attempt'[t][x].answered
                     /\ attempt'[t][x].answered => [name |-> x.name, value |-> attempt'[t][x].value] \in answers'
     BY DEF KnowsWhatItWasTold
 <2>1. CASE t = s /\ x = e BY <2>1, <1>2
 <2>2. CASE t # s \/ x # e BY <2>2, <1>2 DEF KnowsWhatItWasTold
 <2>3. QED BY <2>1, <2>2
<1>5. OneIsLive'
 <2> SUFFICES ASSUME NEW x \in Entry
              PROVE  /\ x \in inFlight' <=> \E t \in Sweep : Live(attempt'[t][x])
                     /\ \A t, u \in Sweep : Live(attempt'[t][x]) /\ Live(attempt'[u][x]) => t = u
     BY DEF OneIsLive, Live
 <2>1. CASE x # e BY <2>1, <1>2 DEF OneIsLive
 <2>2. CASE x = e
  <3>1. \A t \in Sweep : t # s => ~Live(attempt'[t][e]) BY <1>2 DEF OneIsLive
  <3>2. e \in inFlight BY DEF OneIsLive
  <3>3. QED BY <2>2, <3>1, <3>2, <1>2
 <2>3. QED BY <2>1, <2>2
<1>6. QED BY <1>2, <1>3, <1>4, <1>5

(* Every way an attempt goes on or ends keeps what is known of the attempts, *)
(* and the verdict it may set is the one the answers call for. *)
LEMMA OnwardKeeps ==
    ASSUME NameInv, NEW s \in Sweep, NEW e \in Entry, Live(attempt[s][e]),
           NEW a \in Attempt, a.answered => [name |-> e.name, value |-> a.value] \in answers',
           a.value # NoRecord => a.answered,
           answers \subseteq answers',
           Onward(s, e, a)
    PROVE  /\ attempt' \in [Sweep -> [Entry -> Attempt]]
           /\ \A t \in Sweep, x \in Entry : attempt'[t][x].pc \in {"lookup", "resolve", "store"} => attempt'[t][x].r \in Index
           /\ verdict' \in [Entry -> {"yes", "no", "unknown"}]
           /\ KnowsWhatItWasTold' /\ OneIsLive' /\ VerdictIsEarned'
<1> DEFINE old == attempt[s][e]
           j == NextResolver(e.name, a.r)
<1>1. attempt \in [Sweep -> [Entry -> Attempt]] /\ old \in Attempt /\ verdict \in [Entry -> {"yes", "no", "unknown"}]
    BY DEF NameInv, NameTypeOK
<1>2. /\ old.answered => [name |-> e.name, value |-> old.value] \in answers'
      /\ old.value # NoRecord => old.answered
    BY DEF NameInv, KnowsWhatItWasTold
<1>3. CASE Moved(s, e, [a EXCEPT !.pc = "lookup", !.r = j]) /\ a.value = NoRecord /\ j # 0
 <2> DEFINE b == [a EXCEPT !.pc = "lookup", !.r = j]
 <2>1. a.r \in Nat BY NameAssumption DEF Attempt
 <2>2. j \in Index /\ j \in 0..Len(Resolvers) BY <2>1, <1>3, NextIsConfigured
 <2>3. b \in Attempt /\ b.pc = "lookup" /\ b.r = j /\ b.value = NoRecord /\ b.answered = a.answered BY <2>2, <1>3 DEF Attempt
 <2>4. attempt' = [attempt EXCEPT ![s][e] = b] /\ inFlight' = inFlight /\ verdict' = verdict BY <1>3 DEF Moved
 <2>5. Live(b) BY <2>3 DEF Live
 <2>6. VerdictIsEarned' BY <2>4 DEF NameInv, VerdictIsEarned
 <2>7. QED BY <1>1, <1>3, <2>2, <2>3, <2>4, <2>5, <2>6, AttemptMoves DEF NameInv
<1>4. ASSUME NEW b \in Attempt, b.pc \in {"set", "ended"}, b.value = old.value, b.answered = old.answered,
             attempt' = [attempt EXCEPT ![s][e] = b], inFlight' = inFlight \ {e}
      PROVE  /\ attempt' \in [Sweep -> [Entry -> Attempt]]
             /\ \A t \in Sweep, x \in Entry : attempt'[t][x].pc \in {"lookup", "resolve", "store"} => attempt'[t][x].r \in Index
             /\ KnowsWhatItWasTold' /\ OneIsLive'
 <2>1. ~Live(b) BY <1>4 DEF Live
 <2>2. /\ b.answered => [name |-> e.name, value |-> b.value] \in answers'
       /\ b.value # NoRecord => b.answered
     BY <1>2, <1>4
 <2>3. QED BY <1>4, <2>1, <2>2, AttemptMoves DEF NameInv
<1>5. CASE Learned(s, e, VerdictOf(e, a.value)) /\ a.answered
 <2> DEFINE b == [[old EXCEPT !.pc = "set"] EXCEPT !.pc = IF @ = "set" THEN "set" ELSE "ended"]
 <2>1. b \in Attempt /\ b.pc = "set" /\ b.value = old.value /\ b.answered = old.answered BY <1>1 DEF Attempt
 <2>2. attempt' = [attempt EXCEPT ![s][e] = b] /\ inFlight' = inFlight \ {e} BY <1>5 DEF Learned, Ended
 <2>3. verdict' = [verdict EXCEPT ![e] = VerdictOf(e, a.value)] BY <1>5 DEF Learned, setVerdict
 <2>4. verdict' \in [Entry -> {"yes", "no", "unknown"}] BY <2>3, <1>1 DEF VerdictOf
 <2>5. VerdictIsEarned'
  <3> SUFFICES ASSUME NEW x \in Entry
               PROVE  /\ verdict'[x] = "no" => \E y \in answers' : y.name = x.name /\ y.value # x.signer
                      /\ verdict'[x] = "yes" => [name |-> x.name, value |-> x.signer] \in answers'
      BY DEF VerdictIsEarned
  <3>1. CASE x # e BY <3>1, <2>3, <1>1 DEF NameInv, VerdictIsEarned
  <3>2. CASE x = e
   <4>1. verdict'[e] = IF a.value = e.signer THEN "yes" ELSE "no" BY <2>3, <1>1 DEF VerdictOf
   <4>2. [name |-> e.name, value |-> a.value] \in answers' BY <1>5
   <4>3. QED BY <3>2, <4>1, <4>2
  <3>3. QED BY <3>1, <3>2
 <2> HIDE DEF b
 <2>6. QED BY <1>4, <2>1, <2>2, <2>4, <2>5
<1>6. CASE AskLater(s, e)
 <2> DEFINE b == [old EXCEPT !.pc = IF @ = "set" THEN "set" ELSE "ended"]
 <2>1. b \in Attempt /\ b.pc \in {"set", "ended"} /\ b.value = old.value /\ b.answered = old.answered BY <1>1 DEF Attempt
 <2>2. attempt' = [attempt EXCEPT ![s][e] = b] /\ inFlight' = inFlight \ {e} /\ verdict' = verdict BY <1>6 DEF AskLater, Ended
 <2>3. VerdictIsEarned' BY <2>2 DEF NameInv, VerdictIsEarned
 <2> HIDE DEF b
 <2>4. QED BY <1>1, <1>4, <2>1, <2>2, <2>3
<1>7. QED BY <1>3, <1>5, <1>6 DEF Onward, Concluded

(* An attempt that is given up ends without a verdict. *)
LEMMA DroppedKeeps ==
    ASSUME NameInv, NEW s \in Sweep, NEW e \in Entry, Live(attempt[s][e]), answers \subseteq answers', Dropped(s, e)
    PROVE  /\ attempt' \in [Sweep -> [Entry -> Attempt]]
           /\ \A t \in Sweep, x \in Entry : attempt'[t][x].pc \in {"lookup", "resolve", "store"} => attempt'[t][x].r \in Index
           /\ verdict' \in [Entry -> {"yes", "no", "unknown"}]
           /\ KnowsWhatItWasTold' /\ OneIsLive' /\ VerdictIsEarned'
<1> DEFINE old == attempt[s][e]
           b == [old EXCEPT !.pc = IF @ = "set" THEN "set" ELSE "ended"]
<1>1. old \in Attempt /\ verdict \in [Entry -> {"yes", "no", "unknown"}] BY DEF NameInv, NameTypeOK
<1>2. b \in Attempt /\ b.pc \in {"set", "ended"} /\ b.value = old.value /\ b.answered = old.answered BY <1>1 DEF Attempt
<1>3. attempt' = [attempt EXCEPT ![s][e] = b] /\ inFlight' = inFlight \ {e} /\ verdict' = verdict BY DEF Dropped, Ended
<1>4. ~Live(b) BY <1>2 DEF Live
<1>5. /\ b.answered => [name |-> e.name, value |-> b.value] \in answers'
      /\ b.value # NoRecord => b.answered
    BY <1>2 DEF NameInv, KnowsWhatItWasTold
<1>6. VerdictIsEarned' BY <1>3 DEF NameInv, VerdictIsEarned
<1> HIDE DEF b
<1>7. QED BY <1>1, <1>2, <1>3, <1>4, <1>5, <1>6, AttemptMoves DEF NameInv

(* An attempt that moves on within one resolver. *)
LEMMA MovedKeeps ==
    ASSUME NameInv, NEW s \in Sweep, NEW e \in Entry, Live(attempt[s][e]), answers \subseteq answers',
           NEW b \in Attempt, b.pc \in {"resolve", "store"}, b.r \in Index, b.pc = "resolve" => b.value = NoRecord,
           b.value # NoRecord => b.answered,
           b.answered => [name |-> e.name, value |-> b.value] \in answers',
           Moved(s, e, b)
    PROVE  /\ attempt' \in [Sweep -> [Entry -> Attempt]]
           /\ \A t \in Sweep, x \in Entry : attempt'[t][x].pc \in {"lookup", "resolve", "store"} => attempt'[t][x].r \in Index
           /\ verdict' \in [Entry -> {"yes", "no", "unknown"}]
           /\ KnowsWhatItWasTold' /\ OneIsLive' /\ VerdictIsEarned'
<1>1. attempt' = [attempt EXCEPT ![s][e] = b] /\ inFlight' = inFlight /\ verdict' = verdict BY DEF Moved
<1>2. Live(b) BY DEF Live
<1>3. VerdictIsEarned' /\ verdict' \in [Entry -> {"yes", "no", "unknown"}] BY <1>1 DEF NameInv, VerdictIsEarned, NameTypeOK
<1>4. QED BY <1>1, <1>2, <1>3, AttemptMoves DEF NameInv

(* What a lookup may bring is known: a record now, a later one, or none. *)
LEMMA RecordsAreKnown ==
    ASSUME NameTypeOK, NEW e \in Entry
    PROVE  e.name \in Nm /\ txt[e.name] \in AnyRecord
<1>1. e.name \in Nm BY DEF Nm
<1>2. nameJob.txt[e.name] \in AnyRecord /\ nameJob.later[e.name] \in AnyRecord BY <1>1 DEF NameTypeOK, AnyRecord
<1>3. QED BY <1>1, <1>2 DEF NameTypeOK

(* An attempt before its first step, and one in the queue. *)
LEMMA NothingTried ==
    LET q == [NoAttempt EXCEPT !.pc = "queued"] IN
    /\ NoAttempt \in Attempt /\ NoAttempt.pc = "none" /\ NoAttempt.value = NoRecord /\ ~NoAttempt.answered /\ ~Live(NoAttempt)
    /\ q \in Attempt /\ q.pc = "queued" /\ q.value = NoRecord /\ ~q.answered /\ Live(q)
<1>1. 0 \in 0..Len(Resolvers) /\ NoRecord \in AnyRecord BY NameAssumption DEF AnyRecord
<1>2. NoAttempt \in Attempt /\ NoAttempt.pc = "none" /\ NoAttempt.value = NoRecord /\ ~NoAttempt.answered BY <1>1 DEF Attempt, NoAttempt
<1>3. \A a \in Attempt : LET q == [a EXCEPT !.pc = "queued"] IN q \in Attempt /\ q.pc = "queued" /\ q.value = a.value /\ q.answered = a.answered
    BY DEF Attempt
<1>4. QED BY <1>2, <1>3 DEF Live

(* Every step keeps the invariant. *)
LEMMA NameStep == NameInv /\ [NameNext]_nameVars => NameInv'
<1> SUFFICES ASSUME NameInv, [NameNext]_nameVars PROVE NameInv' OBVIOUS
<1>t. /\ nameJob \in NameWorkload /\ txt \in {nameJob.txt, nameJob.later}
      /\ stored \in [Configured -> [Nm -> [value : AnyRecord, fresh : BOOLEAN]]]
      /\ verdict \in [Entry -> {"yes", "no", "unknown"}]
      /\ attempt \in [Sweep -> [Entry -> Attempt]]
      /\ \A s \in Sweep, e \in Entry : attempt[s][e] \in Attempt
      /\ \A s \in Sweep, e \in Entry : attempt[s][e].pc \in {"lookup", "resolve", "store"} => attempt[s][e].r \in Index
    BY DEF NameInv, NameTypeOK
<1>k. \A s \in Sweep, e \in Entry :
        /\ attempt[s][e].pc \in {"queued", "lookup", "resolve"} => attempt[s][e].value = NoRecord
        /\ attempt[s][e].value # NoRecord => attempt[s][e].answered
        /\ attempt[s][e].answered => [name |-> e.name, value |-> attempt[s][e].value] \in answers
    BY DEF NameInv, KnowsWhatItWasTold
<1>1. ASSUME NEW s \in Sweep, resolveAuthorNamesInBackground(s) PROVE NameInv'
 <2> DEFINE todo == {e \in nameJob.asks[s] : ShouldResolve(e)}
            row == [e \in Entry |-> IF e \in todo THEN [NoAttempt EXCEPT !.pc = "queued"] ELSE attempt[s][e]]
 <2>1. /\ attempt' = [attempt EXCEPT ![s] = row] /\ inFlight' = inFlight \cup todo
       /\ UNCHANGED <<nameJob, txt, stored, verdict, answers>>
       /\ \A e \in Entry : attempt[s][e] = NoAttempt
     BY <1>1 DEF resolveAuthorNamesInBackground
 <2>2. \A e \in todo : e \notin inFlight BY DEF ShouldResolve
 <2> DEFINE q == [NoAttempt EXCEPT !.pc = "queued"]
 <2>3. /\ q \in Attempt /\ q.pc = "queued" /\ q.value = NoRecord /\ ~q.answered /\ Live(q)
       /\ NoAttempt \in Attempt /\ ~Live(NoAttempt) /\ NoAttempt.pc = "none"
     BY NothingTried
 <2>4. /\ \A e \in Entry : attempt'[s][e] = IF e \in todo THEN q ELSE NoAttempt
       /\ \A t \in Sweep : t # s => attempt'[t] = attempt[t]
       /\ attempt' \in [Sweep -> [Entry -> Attempt]]
  <3>1. row \in [Entry -> Attempt]
   <4>1. \A e \in Entry : (IF e \in todo THEN q ELSE attempt[s][e]) \in Attempt
    <5> HIDE DEF todo, q
    <5>1. QED BY <1>t, <2>3
   <4>2. QED BY <4>1
  <3>2. \A e \in Entry : row[e] = IF e \in todo THEN q ELSE NoAttempt BY <2>1, <2>3
  <3> HIDE DEF row, todo, q
  <3>3. QED BY <1>t, <2>1, <3>1, <3>2
 <2> HIDE DEF todo, row
 <2>5. NameTypeOK'
  <3>1. \A t \in Sweep, e \in Entry : attempt'[t][e].pc \in {"lookup", "resolve", "store"} => attempt'[t][e].r \in Index
      BY <1>t, <2>4 DEF NoAttempt
  <3>2. QED BY <3>1, <1>t, <2>1, <2>4 DEF NameTypeOK
 <2>6. KnowsWhatItWasTold' BY <1>k, <2>1, <2>4 DEF KnowsWhatItWasTold, NoAttempt
 <2>7. OneIsLive'
  <3> SUFFICES ASSUME NEW e \in Entry
               PROVE  /\ e \in inFlight' <=> \E t \in Sweep : Live(attempt'[t][e])
                      /\ \A t, u \in Sweep : Live(attempt'[t][e]) /\ Live(attempt'[u][e]) => t = u
      BY DEF OneIsLive, Live
  <3>1. /\ e \in inFlight <=> \E t \in Sweep : Live(attempt[t][e])
        /\ \A t, u \in Sweep : Live(attempt[t][e]) /\ Live(attempt[u][e]) => t = u
      BY DEF NameInv, OneIsLive
  <3> HIDE DEF q
  <3>2. \A t \in Sweep : Live(attempt'[t][e]) <=> IF t = s THEN e \in todo ELSE Live(attempt[t][e]) BY <2>3, <2>4
  <3>3. ~Live(attempt[s][e]) BY <2>1, <2>3
  <3>4. QED BY <2>1, <2>2, <3>1, <3>2, <3>3
 <2>8. VerdictIsEarned' BY <2>1 DEF NameInv, VerdictIsEarned
 <2>9. QED BY <2>5, <2>6, <2>7, <2>8 DEF NameInv
<1>2. ASSUME NEW s \in Sweep, NEW e \in Entry, beginAttempt(s, e) PROVE NameInv'
 <2>1. Live(attempt[s][e]) /\ attempt[s][e].pc = "queued" /\ attempt[s][e] \in Attempt BY <1>2, <1>t DEF beginAttempt, Live
 <2>2. UNCHANGED <<nameJob, txt, stored, answers>> BY <1>2 DEF beginAttempt
 <2>3. Dropped(s, e) \/ Onward(s, e, attempt[s][e]) BY <1>2 DEF beginAttempt
 <2>4. QED BY <1>t, <1>k, <2>1, <2>2, <2>3, DroppedKeeps, OnwardKeeps DEF NameInv, NameTypeOK
<1>3. ASSUME NEW s \in Sweep, NEW e \in Entry, lookUp(s, e) PROVE NameInv'
 <2> DEFINE a == attempt[s][e]
            hit == stored[Resolvers[a.r]][e.name]
 <2>1. Live(a) /\ a.pc = "lookup" /\ a \in Attempt /\ a.value = NoRecord /\ a.r \in Index BY <1>3, <1>t, <1>k DEF lookUp, Live
 <2>2. UNCHANGED <<nameJob, txt, stored>> BY <1>3 DEF lookUp
 <2>3. hit \in [value : AnyRecord, fresh : BOOLEAN]
  <3>1. Resolvers[a.r] \in Configured /\ e.name \in Nm BY <2>1 DEF Configured, Nm
  <3>2. QED BY <3>1, <1>t
 <2>4. CASE hit.fresh
  <3> DEFINE b == [a EXCEPT !.value = hit.value, !.answered = TRUE]
  <3>1. b \in Attempt /\ b.answered /\ b.value = hit.value BY <2>1, <2>3 DEF Attempt
  <3>2. answers' = answers \cup {[name |-> e.name, value |-> hit.value]} /\ Onward(s, e, b) BY <1>3, <2>4 DEF lookUp
  <3> HIDE DEF b
  <3>3. answers \subseteq answers' /\ [name |-> e.name, value |-> b.value] \in answers' BY <3>1, <3>2
  <3>4. QED BY <1>t, <2>1, <2>2, <3>1, <3>2, <3>3, OnwardKeeps DEF NameInv, NameTypeOK
 <2>5. CASE ~hit.fresh
  <3> DEFINE b == [a EXCEPT !.pc = "resolve"]
  <3>1. b \in Attempt /\ b.pc = "resolve" /\ b.value = NoRecord /\ b.answered = a.answered /\ b.value = a.value /\ b.r \in Index
      BY <2>1 DEF Attempt
  <3>2. answers' = answers /\ (Dropped(s, e) \/ Moved(s, e, b)) BY <1>3, <2>5 DEF lookUp
  <3> HIDE DEF b
  <3>3. b.answered => [name |-> e.name, value |-> b.value] \in answers' BY <1>k, <3>1, <3>2
  <3>4. CASE Dropped(s, e) BY <3>4, <1>t, <2>1, <2>2, <3>2, DroppedKeeps DEF NameInv, NameTypeOK
  <3>5. CASE Moved(s, e, b) BY <3>5, <1>t, <2>1, <2>2, <3>1, <3>2, <3>3, MovedKeeps DEF NameInv, NameTypeOK
  <3>6. QED BY <3>2, <3>4, <3>5
 <2>6. QED BY <2>4, <2>5
<1>4. ASSUME NEW s \in Sweep, NEW e \in Entry, resolveEntry(s, e) PROVE NameInv'
 <2> DEFINE a == attempt[s][e]
 <2>1. Live(a) /\ a.pc = "resolve" /\ a \in Attempt /\ a.value = NoRecord /\ a.r \in Index BY <1>4, <1>t, <1>k DEF resolveEntry, Live
 <2>2. UNCHANGED <<nameJob, txt, stored>> BY <1>4 DEF resolveEntry
 <2>3. CASE Dropped(s, e) /\ UNCHANGED answers BY <2>3, <1>t, <2>1, <2>2, DroppedKeeps DEF NameInv, NameTypeOK
 <2>4. CASE Onward(s, e, a) /\ UNCHANGED answers BY <2>4, <1>t, <1>k, <2>1, <2>2, OnwardKeeps DEF NameInv, NameTypeOK
 <2>5. CASE /\ answers' = answers \cup {[name |-> e.name, value |-> txt[e.name]]}
            /\ txt[e.name] = NoRecord /\ Onward(s, e, [a EXCEPT !.answered = TRUE])
  <3> DEFINE b == [a EXCEPT !.answered = TRUE]
  <3>1. b \in Attempt /\ b.answered /\ b.value = NoRecord BY <2>1 DEF Attempt
  <3>2. Onward(s, e, b) BY <2>5
  <3> HIDE DEF b
  <3>3. answers \subseteq answers' /\ [name |-> e.name, value |-> b.value] \in answers' BY <2>5, <3>1
  <3>4. QED BY <1>t, <2>1, <2>2, <3>1, <3>2, <3>3, OnwardKeeps DEF NameInv, NameTypeOK
 <2>6. CASE /\ answers' = answers \cup {[name |-> e.name, value |-> txt[e.name]]}
            /\ Moved(s, e, [a EXCEPT !.pc = "store", !.value = txt[e.name], !.answered = TRUE])
  <3> DEFINE b == [a EXCEPT !.pc = "store", !.value = txt[e.name], !.answered = TRUE]
  <3>1. b \in Attempt /\ b.pc = "store" /\ b.answered /\ b.value = txt[e.name] /\ b.r \in Index
      BY <2>1, RecordsAreKnown DEF Attempt, NameInv
  <3>2. Moved(s, e, b) BY <2>6
  <3> HIDE DEF b
  <3>3. answers \subseteq answers' /\ [name |-> e.name, value |-> b.value] \in answers' BY <2>6, <3>1
  <3>4. QED BY <1>t, <2>1, <2>2, <3>1, <3>2, <3>3, MovedKeeps DEF NameInv, NameTypeOK
 <2>7. QED BY <1>4, <2>3, <2>4, <2>5, <2>6 DEF resolveEntry
<1>5. ASSUME NEW s \in Sweep, NEW e \in Entry, store(s, e) PROVE NameInv'
 <2> DEFINE a == attempt[s][e]
 <2>1. Live(a) /\ a.pc = "store" /\ a \in Attempt /\ a.r \in Index BY <1>5, <1>t DEF store, Live
 <2>2. UNCHANGED <<nameJob, txt, answers>> /\ Onward(s, e, a) BY <1>5 DEF store
 <2>3. stored' \in [Configured -> [Nm -> [value : AnyRecord, fresh : BOOLEAN]]]
  <3>1. [value |-> a.value, fresh |-> TRUE] \in [value : AnyRecord, fresh : BOOLEAN] BY <2>1 DEF Attempt
  <3>2. stored' = [stored EXCEPT ![Resolvers[a.r]][e.name] = [value |-> a.value, fresh |-> TRUE]] BY <1>5 DEF store
  <3>3. QED BY <3>1, <3>2, <1>t
 <2>4. a.value # NoRecord => a.answered BY <1>k
 <2>5. QED BY <1>t, <1>k, <2>1, <2>2, <2>3, <2>4, OnwardKeeps DEF NameInv, NameTypeOK
<1>6. ASSUME NEW s \in Sweep, abort(s) PROVE NameInv'
    BY <1>6 DEF abort, NameInv, NameTypeOK, KnowsWhatItWasTold, OneIsLive, Live, VerdictIsEarned
<1>7. ASSUME NEW e \in Entry, verdictExpires(e) PROVE NameInv'
    BY <1>7 DEF verdictExpires, setVerdict, NameInv, NameTypeOK, KnowsWhatItWasTold, OneIsLive, Live, VerdictIsEarned
<1>8. ASSUME NEW e \in Entry, floorEnds(e) PROVE NameInv'
    BY <1>8 DEF floorEnds, NameInv, NameTypeOK, KnowsWhatItWasTold, OneIsLive, Live, VerdictIsEarned
<1>9. ASSUME NEW i \in Index, NEW n \in Nm, entryAges(Resolvers[i], n) PROVE NameInv'
 <2>1. Resolvers[i] \in Configured BY DEF Configured
 <2>2. stored' \in [Configured -> [Nm -> [value : AnyRecord, fresh : BOOLEAN]]]
  <3>1. stored' = [stored EXCEPT ![Resolvers[i]][n].fresh = FALSE] BY <1>9 DEF entryAges
  <3>2. \A h \in [value : AnyRecord, fresh : BOOLEAN] : [h EXCEPT !.fresh = FALSE] \in [value : AnyRecord, fresh : BOOLEAN] OBVIOUS
  <3>3. QED BY <1>t, <2>1, <3>1, <3>2
 <2>3. QED BY <1>9, <2>2 DEF entryAges, NameInv, NameTypeOK, KnowsWhatItWasTold, OneIsLive, Live, VerdictIsEarned
<1>10. CASE recordChanges BY <1>10 DEF recordChanges, NameInv, NameTypeOK, KnowsWhatItWasTold, OneIsLive, Live, VerdictIsEarned
<1>11. CASE UNCHANGED nameVars BY <1>11 DEF nameVars, NameInv, NameTypeOK, KnowsWhatItWasTold, OneIsLive, Live, VerdictIsEarned
<1>12. QED BY <1>1, <1>2, <1>3, <1>4, <1>5, <1>6, <1>7, <1>8, <1>9, <1>10, <1>11 DEF NameNext

(* The invariant holds in every reachable state. *)
THEOREM NameInvariant == NameSpec => []NameInv
<1>1. NameInit => NameInv
 <2> SUFFICES ASSUME NameInit PROVE NameInv OBVIOUS
 <2>1. /\ NoAttempt \in Attempt /\ NoRecord \in AnyRecord /\ NoAttempt.pc = "none" /\ ~NoAttempt.answered
       /\ NoAttempt.value = NoRecord /\ ~Live(NoAttempt)
     BY NothingTried DEF AnyRecord
 <2>2. \A s \in Sweep, e \in Entry : attempt[s][e] = NoAttempt BY DEF NameInit
 <2>3. NameTypeOK BY <2>1, <2>2 DEF NameInit, NameTypeOK, Configured
 <2>4. KnowsWhatItWasTold /\ OneIsLive BY <2>1, <2>2 DEF NameInit, KnowsWhatItWasTold, OneIsLive
 <2>5. VerdictIsEarned BY DEF NameInit, VerdictIsEarned
 <2>6. QED BY <2>3, <2>4, <2>5 DEF NameInv
<1>2. QED BY <1>1, NameStep, PTL DEF NameSpec

(* A name is denied or granted to its signer only on the strength of an *)
(* answer, and asked for by one attempt at a time, for any entries, sweeps, *)
(* resolvers and workloads (resolveAuthorNamesInBackground). *)
THEOREM NamesAreEarned == NameSpec => []ResolutionIsEarned
<1>1. NameInv => ResolutionIsEarned
 <2> SUFFICES ASSUME NameInv PROVE OneAttempt BY DEF NameInv, ResolutionIsEarned
 <2> SUFFICES ASSUME NEW e \in Entry
              PROVE  Cardinality({s \in Sweep : Live(attempt[s][e])}) = IF e \in inFlight THEN 1 ELSE 0
     BY DEF OneAttempt
 <2>1. CASE e \in inFlight
  <3>1. PICK s \in Sweep : Live(attempt[s][e]) BY <2>1 DEF NameInv, OneIsLive
  <3>2. {t \in Sweep : Live(attempt[t][e])} = {s} BY <3>1 DEF NameInv, OneIsLive
  <3>3. QED BY <2>1, <3>2, FS_Singleton
 <2>2. CASE e \notin inFlight
  <3>1. {t \in Sweep : Live(attempt[t][e])} = {} BY <2>2 DEF NameInv, OneIsLive
  <3>2. QED BY <2>2, <3>1, FS_EmptySet
 <2>3. QED BY <2>1, <2>2
<1>2. QED BY <1>1, NameInvariant, PTL

----------------------------------------
(* IpnsPushChannel: the record held of an IPNS name, and who may serve it. *)

Writer == IpnsCall \cup IpnsGossip
Held == [seq : Nat, created : Int]
Channel == [joined : BOOLEAN, registered : BOOLEAN, subscribers : {0, 1}, highest : Nat, arrival : Int, validated : Int]
Writing == [pc : {"idle", "handled", "newer", "queued", "writing", "done"}, seq : Nat]
Resolving == [pc : {"idle", "gate", "network", "fetching", "caching", "fallback", "got", "done"}, seq : Nat,
              from : {"none", "cache", "network"}, told : Nat, past : BOOLEAN, healthy : BOOLEAN, attested : BOOLEAN]
Seen == [told : Nat, at : Int, raw : SUBSET IpnsGossip]

IpnsTypeOK ==
    /\ ipJob \in IpnsWorkload /\ ipNow \in Nat
    /\ localStore \in Held /\ channel \in Channel
    /\ writer \in [Writer -> Writing] /\ writeChain \in Seq(Writer)
    /\ resolving \in [IpnsCall -> Resolving]
    /\ seen \in Seen

(* The watchdog never thinks better of the channel than the network shows. *)
WatchdogIsHonest ==
    /\ localStore.seq <= channel.highest
    /\ channel.arrival <= seen.at /\ seen.at <= ipNow
    /\ seen.told <= localStore.seq

(* Who waits for the lock is in the chain; who writes has the turn, and a *)
(* newer record. *)
WritersTakeTurns ==
    \A w \in Writer :
        /\ writer[w].pc \in {"queued", "writing"} => \E i \in 1..Len(writeChain) : writeChain[i] = w
        /\ writer[w].pc = "writing" => writeChain[1] = w /\ writer[w].seq > localStore.seq

(* A call has nothing on its way to the store before its fetch. *)
WritesAfterFetch ==
    \A c \in IpnsCall : resolving[c].pc \in {"idle", "gate", "network", "fetching", "fallback"} => writer[c].pc = "idle"

CallsAreTrue ==
    \A c \in IpnsCall :
        /\ resolving[c].told <= localStore.seq
        /\ resolving[c].healthy => resolving[c].attested
        /\ resolving[c].from = "cache" => /\ resolving[c].seq >= resolving[c].told
                                          /\ resolving[c].past => resolving[c].attested

IpnsInv == IpnsTypeOK /\ WatchdogIsHonest /\ WritersTakeTurns /\ WritesAfterFetch /\ CallsAreTrue

----------------------------------------
(* The watchdog moves on for a record as new as the newest it saw. *)
LEMMA Stamped ==
    ASSUME NEW ch \in Channel, NEW n \in Nat, ipNow \in Nat
    PROVE  LET new == stampIpnsPushChannelArrival(ch, n) IN
           /\ new \in Channel
           /\ new.highest >= ch.highest /\ new.highest >= n
           /\ new.arrival = IF n < ch.highest THEN ch.arrival ELSE ipNow
<1>1. CASE n < ch.highest BY <1>1 DEF stampIpnsPushChannelArrival, Channel
<1>2. CASE ~(n < ch.highest)
 <2> DEFINE new == [ch EXCEPT !.highest = n, !.arrival = ipNow]
 <2>a. ipNow \in Int OBVIOUS
 <2>b. new \in Channel BY <2>a DEF Channel
 <2>c. new.highest = n /\ new.arrival = ipNow BY DEF Channel
 <2>1. new \in Channel /\ new.highest = n /\ new.arrival = ipNow BY <2>b, <2>c
 <2>2. ch.highest \in Nat BY DEF Channel
 <2> HIDE DEF new
 <2>3. stampIpnsPushChannelArrival(ch, n) = new BY <1>2 DEF stampIpnsPushChannelArrival, new
 <2>4. QED BY <1>2, <2>1, <2>2, <2>3
<1>3. QED BY <1>1, <1>2

(* What the network attests moves for a record as new as the held one. *)
LEMMA Attested ==
    ASSUME IpnsTypeOK, NEW n \in Nat
    PROVE  /\ Attest(n) \in Seen /\ Attest(n).told = seen.told /\ Attest(n).raw = seen.raw
           /\ Attest(n).at = IF n >= localStore.seq THEN ipNow ELSE seen.at
BY DEF IpnsTypeOK, Seen, Held, Attest

(* A record that the network shows moves the watchdog only where it moves *)
(* what the network attests. *)
LEMMA ShownKeepsHonest ==
    ASSUME IpnsTypeOK, WatchdogIsHonest, NEW n \in Nat,
           \/ channel' = stampIpnsPushChannelArrival(channel, n)
           \/ channel' = stampIpnsPushChannelArrival([channel EXCEPT !.validated = ipNow], n),
           seen' \in Seen, seen'.at = Attest(n).at, seen'.told = seen.told,
           UNCHANGED <<ipNow, localStore>>
    PROVE  channel' \in Channel /\ WatchdogIsHonest'
<1> DEFINE validated == [channel EXCEPT !.validated = ipNow]
<1>1. channel \in Channel /\ ipNow \in Nat /\ localStore.seq \in Nat /\ seen.at \in Int BY DEF IpnsTypeOK, Held, Seen
<1>2. validated \in Channel /\ validated.highest = channel.highest /\ validated.arrival = channel.arrival BY <1>1 DEF Channel
<1> HIDE DEF validated
<1>3. PICK ch \in Channel : /\ ch.highest = channel.highest /\ ch.arrival = channel.arrival
                            /\ channel' = stampIpnsPushChannelArrival(ch, n)
    BY <1>1, <1>2 DEF validated
<1>4. /\ channel' \in Channel /\ channel'.highest >= channel.highest
      /\ channel'.arrival = IF n < channel.highest THEN channel.arrival ELSE ipNow
    BY <1>1, <1>3, Stamped
<1>5. seen'.at = IF n >= localStore.seq THEN ipNow ELSE seen.at BY Attested
<1>6. channel.highest \in Nat /\ channel'.highest \in Nat /\ channel.arrival \in Int BY <1>1, <1>4 DEF Channel
<1>7. QED BY <1>1, <1>4, <1>5, <1>6 DEF WatchdogIsHonest

(* One writer moves, and the turn does not. *)
LEMMA WriterMoves ==
    ASSUME IpnsTypeOK, WritersTakeTurns, WritesAfterFetch,
           NEW w \in Writer, NEW b \in Writing, b.pc \notin {"queued", "writing"},
           writer' = [writer EXCEPT ![w] = b], UNCHANGED <<writeChain, localStore>>
    PROVE  writer' \in [Writer -> Writing] /\ WritersTakeTurns'
BY DEF IpnsTypeOK, WritersTakeTurns

(* One call moves on, with what it was told. *)
LEMMA CallMoves ==
    ASSUME IpnsInv, NEW c \in IpnsCall, NEW r \in Resolving,
           resolving' = [resolving EXCEPT ![c] = r],
           r.told <= localStore.seq, r.healthy => r.attested,
           r.from = "cache" => r.seq >= r.told /\ (r.past => r.attested),
           localStore' = localStore,
           \A d \in IpnsCall : d # c => writer'[d] = writer[d],
           r.pc \in {"idle", "gate", "network", "fetching", "fallback"} => writer'[c].pc = "idle"
    PROVE  resolving' \in [IpnsCall -> Resolving] /\ CallsAreTrue' /\ WritesAfterFetch'
<1>1. resolving \in [IpnsCall -> Resolving] BY DEF IpnsInv, IpnsTypeOK
<1>2. resolving' \in [IpnsCall -> Resolving] /\ resolving'[c] = r /\ \A d \in IpnsCall : d # c => resolving'[d] = resolving[d] BY <1>1
<1>3. CallsAreTrue' BY <1>2 DEF IpnsInv, CallsAreTrue
<1>4. WritesAfterFetch' BY <1>2 DEF IpnsInv, WritesAfterFetch
<1>5. QED BY <1>2, <1>3, <1>4

(* A change of the place of a call keeps the rest of it. *)
LEMMA CallGoes ==
    ASSUME NEW r \in Resolving, NEW pc \in {"idle", "gate", "network", "fetching", "caching", "fallback", "got", "done"}
    PROVE  LET new == [r EXCEPT !.pc = pc] IN
           /\ new \in Resolving /\ new.pc = pc /\ new.told = r.told /\ new.healthy = r.healthy /\ new.attested = r.attested
           /\ new.from = r.from /\ new.seq = r.seq /\ new.past = r.past
BY DEF Resolving

(* A change of the place of a writer keeps its record. *)
LEMMA WriterGoes ==
    ASSUME NEW b \in Writing, NEW pc \in {"idle", "handled", "newer", "queued", "writing", "done"}
    PROVE  LET new == [b EXCEPT !.pc = pc] IN new \in Writing /\ new.pc = pc /\ new.seq = b.seq
BY DEF Writing

(* Every step keeps the invariant, and what is held never goes back. *)
LEMMA IpnsStep == IpnsInv /\ [IpnsNext]_ipnsVars => IpnsInv' /\ localStore'.seq >= localStore.seq
<1> SUFFICES ASSUME IpnsInv, [IpnsNext]_ipnsVars PROVE IpnsInv' /\ localStore'.seq >= localStore.seq OBVIOUS
<1>t. /\ ipJob \in IpnsWorkload /\ ipNow \in Nat
      /\ localStore \in Held /\ channel \in Channel
      /\ writer \in [Writer -> Writing] /\ writeChain \in Seq(Writer)
      /\ resolving \in [IpnsCall -> Resolving]
      /\ seen \in Seen
      /\ localStore.seq \in Nat
      /\ IpnsCall \subseteq Writer /\ IpnsGossip \subseteq Writer
    BY DEF IpnsInv, IpnsTypeOK, Held, Writer
<1>j. ipJob.gossip \in [IpnsGossip -> Nat] /\ ipJob.fetched \subseteq Nat BY <1>t, IpnsAssumption
<1>w. \A w \in Writer : writer[w] \in Writing /\ writer[w].seq \in Nat BY <1>t DEF Writing
<1>r. \A c \in IpnsCall : resolving[c] \in Resolving BY <1>t
<1>1. ASSUME NEW w \in Writer, isNewer(w) PROVE IpnsInv' /\ localStore'.seq >= localStore.seq
 <2> DEFINE to == IF writer[w].seq > localStore.seq THEN "newer" ELSE "done"
            b == [writer[w] EXCEPT !.pc = to]
 <2>1. writer' = [writer EXCEPT ![w] = b] /\ UNCHANGED <<ipJob, ipNow, localStore, channel, writeChain, resolving, seen>>
     BY <1>1 DEF isNewer
 <2>a. to \in {"newer", "done"} OBVIOUS
 <2> HIDE DEF to
 <2>2. b \in Writing /\ b.pc \in {"newer", "done"} BY <1>w, <2>a DEF Writing
 <2> HIDE DEF b
 <2>3. writer' \in [Writer -> Writing] /\ WritersTakeTurns' BY <2>1, <2>2, WriterMoves DEF IpnsInv
 <2>4. WritesAfterFetch' BY <1>1, <1>t, <2>1 DEF IpnsInv, WritesAfterFetch, isNewer
 <2>5. QED BY <1>t, <2>1, <2>3, <2>4 DEF IpnsInv, IpnsTypeOK, WatchdogIsHonest, CallsAreTrue
<1>2. ASSUME NEW w \in Writer, enterPut(w) PROVE IpnsInv' /\ localStore'.seq >= localStore.seq
 <2> DEFINE b == [writer[w] EXCEPT !.pc = "queued"]
 <2>1. /\ writer' = [writer EXCEPT ![w] = b] /\ writeChain' = Append(writeChain, w) /\ writer[w].pc = "newer"
       /\ UNCHANGED <<ipJob, ipNow, localStore, channel, resolving, seen>>
     BY <1>2 DEF enterPut
 <2>2. b \in Writing /\ b.pc = "queued" /\ b.seq = writer[w].seq BY <1>w, WriterGoes
 <2> HIDE DEF b
 <2>3. writer' \in [Writer -> Writing] /\ writer'[w] = b /\ \A v \in Writer : v # w => writer'[v] = writer[v] BY <1>t, <2>1, <2>2
 <2>4. /\ writeChain' \in Seq(Writer) /\ Len(writeChain') = Len(writeChain) + 1
       /\ writeChain'[Len(writeChain) + 1] = w
       /\ \A i \in 1..Len(writeChain) : writeChain'[i] = writeChain[i] /\ i \in 1..Len(writeChain')
       /\ Len(writeChain) \in Nat
     BY <1>t, <2>1
 <2>5. WritersTakeTurns'
  <3> SUFFICES ASSUME NEW v \in Writer
               PROVE  /\ writer'[v].pc \in {"queued", "writing"} => \E i \in 1..Len(writeChain') : writeChain'[i] = v
                      /\ writer'[v].pc = "writing" => writeChain'[1] = v /\ writer'[v].seq > localStore'.seq
      BY DEF WritersTakeTurns
  <3>1. CASE v = w
   <4>1. Len(writeChain) + 1 \in 1..Len(writeChain') BY <2>4
   <4>2. QED BY <3>1, <4>1, <2>2, <2>3, <2>4
  <3>2. CASE v # w
   <4>1. /\ writer[v].pc \in {"queued", "writing"} => \E i \in 1..Len(writeChain) : writeChain[i] = v
         /\ writer[v].pc = "writing" => writeChain[1] = v /\ writer[v].seq > localStore.seq
       BY DEF IpnsInv, WritersTakeTurns
   <4>2. writer'[v].pc \in {"queued", "writing"} => \E i \in 1..Len(writeChain') : writeChain'[i] = v BY <3>2, <4>1, <2>3, <2>4
   <4>3. ASSUME writer'[v].pc = "writing" PROVE writeChain'[1] = v /\ writer'[v].seq > localStore'.seq
    <5>1. writer[v].pc = "writing" /\ writeChain[1] = v /\ 1 \in 1..Len(writeChain) BY <3>2, <4>1, <4>3, <2>3, <2>4
    <5>2. QED BY <5>1, <3>2, <4>1, <2>1, <2>3, <2>4
   <4>4. QED BY <4>2, <4>3
  <3>3. QED BY <3>1, <3>2
 <2>6. WritesAfterFetch' BY <2>1, <2>3 DEF IpnsInv, WritesAfterFetch
 <2>7. QED BY <1>t, <2>1, <2>3, <2>4, <2>5, <2>6 DEF IpnsInv, IpnsTypeOK, WatchdogIsHonest, CallsAreTrue
<1> DEFINE Behind == Tail(writeChain)
<1>b. ASSUME NEW w \in Writer, writer[w].pc \in {"queued", "writing"}, writeChain[1] = w
      PROVE  /\ Behind \in Seq(Writer)
             /\ \A v \in Writer : v # w /\ writer[v].pc \in {"queued", "writing"} => \E i \in 1..Len(Behind) : Behind[i] = v
             /\ \A v \in Writer : v # w => writer[v].pc # "writing"
 <2>1. Len(writeChain) \in Nat /\ writeChain # << >> BY <1>t, <1>b DEF IpnsInv, WritersTakeTurns
 <2>2. /\ Behind \in Seq(Writer) /\ Len(Behind) = Len(writeChain) - 1
       /\ \A i \in 1..Len(Behind) : Behind[i] = writeChain[i + 1]
     BY <1>t, <2>1
 <2>3. ASSUME NEW v \in Writer, v # w, writer[v].pc \in {"queued", "writing"}
       PROVE  \E i \in 1..Len(Behind) : Behind[i] = v
  <3>1. PICK i \in 1..Len(writeChain) : writeChain[i] = v BY <2>3 DEF IpnsInv, WritersTakeTurns
  <3>2. i # 1 BY <1>b, <2>3, <3>1
  <3>3. i - 1 \in 1..Len(Behind) /\ Behind[i - 1] = v BY <2>1, <2>2, <3>1, <3>2
  <3>4. QED BY <3>3
 <2>4. \A v \in Writer : v # w => writer[v].pc # "writing" BY <1>b DEF IpnsInv, WritersTakeTurns
 <2>5. QED BY <2>2, <2>3, <2>4
<1>h. ASSUME NEW w \in Writer, writer[w].pc \in {"queued", "writing"}, Turn(w) PROVE writeChain[1] = w
 <2>1. writeChain # << >> BY <1>t, <1>h DEF IpnsInv, WritersTakeTurns
 <2>2. QED BY <1>t, <1>h, <2>1 DEF Turn
<1> HIDE DEF Behind
<1>3. ASSUME NEW w \in Writer, comparePut(w) PROVE IpnsInv' /\ localStore'.seq >= localStore.seq
 <2>1. /\ writer[w].pc = "queued" /\ Turn(w) /\ UNCHANGED <<ipJob, ipNow, localStore, channel, resolving, seen>> BY <1>3 DEF comparePut
 <2>2. writeChain[1] = w BY <1>h, <2>1
 <2>3. CASE writer' = [writer EXCEPT ![w].pc = "done"] /\ writeChain' = TurnPassed
  <3> DEFINE b == [writer[w] EXCEPT !.pc = "done"]
  <3>1. b \in Writing /\ b.pc = "done" BY <1>w, WriterGoes
  <3>2. writer' = [writer EXCEPT ![w] = b] BY <2>3
  <3> HIDE DEF b
  <3>3. writer' \in [Writer -> Writing] /\ writer'[w] = b /\ \A v \in Writer : v # w => writer'[v] = writer[v] BY <1>t, <3>1, <3>2
  <3>4. writeChain' = Behind BY <2>3 DEF TurnPassed, Behind
  <3>5. WritersTakeTurns' /\ writeChain' \in Seq(Writer) BY <1>b, <2>1, <2>2, <3>1, <3>3, <3>4 DEF WritersTakeTurns
  <3>6. WritesAfterFetch' BY <1>t, <2>1, <3>3 DEF IpnsInv, WritesAfterFetch
  <3>7. QED BY <1>t, <2>1, <3>3, <3>5, <3>6 DEF IpnsInv, IpnsTypeOK, WatchdogIsHonest, CallsAreTrue
 <2>4. CASE writer[w].seq > localStore.seq /\ writer' = [writer EXCEPT ![w].pc = "writing"] /\ UNCHANGED writeChain
  <3> DEFINE b == [writer[w] EXCEPT !.pc = "writing"]
  <3>1. b \in Writing /\ b.pc = "writing" /\ b.seq = writer[w].seq BY <1>w, WriterGoes
  <3>2. writer' = [writer EXCEPT ![w] = b] BY <2>4
  <3> HIDE DEF b
  <3>3. writer' \in [Writer -> Writing] /\ writer'[w] = b /\ \A v \in Writer : v # w => writer'[v] = writer[v] BY <1>t, <3>1, <3>2
  <3>4. WritersTakeTurns' BY <2>1, <2>2, <2>4, <3>1, <3>3 DEF IpnsInv, WritersTakeTurns
  <3>5. WritesAfterFetch' BY <1>t, <2>1, <3>3 DEF IpnsInv, WritesAfterFetch
  <3>6. QED BY <1>t, <2>1, <2>4, <3>3, <3>4, <3>5 DEF IpnsInv, IpnsTypeOK, WatchdogIsHonest, CallsAreTrue
 <2>5. QED BY <1>3, <2>3, <2>4 DEF comparePut
<1>4. ASSUME NEW w \in Writer, finishPut(w) PROVE IpnsInv' /\ localStore'.seq >= localStore.seq
 <2> DEFINE b == [writer[w] EXCEPT !.pc = "done"]
            n == writer[w].seq
 <2>1. /\ writer[w].pc = "writing" /\ writer' = [writer EXCEPT ![w] = b] /\ writeChain' = Behind
       /\ UNCHANGED <<ipJob, ipNow, resolving>>
     BY <1>4 DEF finishPut, TurnPassed, Behind
 <2>2. writeChain[1] = w /\ n > localStore.seq /\ n \in Nat BY <1>w, <2>1 DEF IpnsInv, WritersTakeTurns
 <2>3. b \in Writing /\ b.pc = "done" BY <1>w, WriterGoes
 <2> HIDE DEF b
 <2>4. writer' \in [Writer -> Writing] /\ writer'[w] = b /\ \A v \in Writer : v # w => writer'[v] = writer[v] BY <1>t, <2>1, <2>3
 <2>5. WritersTakeTurns' /\ writeChain' \in Seq(Writer) BY <1>b, <2>1, <2>2, <2>3, <2>4 DEF WritersTakeTurns
 <2>6. WritesAfterFetch' BY <1>t, <2>1, <2>4 DEF IpnsInv, WritesAfterFetch
 <2>7. CASE /\ localStore' = [seq |-> n, created |-> ipNow]
            /\ channel' = stampIpnsPushChannelArrival(channel, n)
            /\ seen' = [Attest(n) EXCEPT !.told = n]
  <3>1. localStore' \in Held /\ localStore'.seq = n BY <1>t, <2>2, <2>7 DEF Held
  <3>2. /\ channel' \in Channel /\ channel'.highest >= n
        /\ channel'.arrival = IF n < channel.highest THEN channel.arrival ELSE ipNow
      BY <1>t, <2>2, <2>7, Stamped
  <3>3. Attest(n) \in Seen /\ Attest(n).at = ipNow BY <2>2, <1>t, Attested DEF IpnsInv
  <3>4. seen' \in Seen /\ seen'.at = ipNow /\ seen'.told = n BY <2>2, <2>7, <3>3 DEF Seen
  <3>5. WatchdogIsHonest'
   <4>1. channel.arrival <= ipNow /\ channel.arrival \in Int BY <1>t DEF IpnsInv, WatchdogIsHonest, Channel, Seen
   <4>2. QED BY <1>t, <2>1, <2>2, <3>1, <3>2, <3>4, <4>1 DEF WatchdogIsHonest
  <3>6. CallsAreTrue'
   <4>1. \A c \in IpnsCall : resolving[c].told \in Nat BY <1>t DEF Resolving
   <4>2. QED BY <1>t, <2>1, <2>2, <3>1, <4>1 DEF IpnsInv, CallsAreTrue
  <3>7. QED BY <1>t, <2>1, <2>2, <2>4, <2>5, <2>6, <3>1, <3>2, <3>4, <3>5, <3>6 DEF IpnsInv, IpnsTypeOK
 <2>8. CASE UNCHANGED <<localStore, channel, seen>>
     BY <1>t, <2>1, <2>4, <2>5, <2>6, <2>8 DEF IpnsInv, IpnsTypeOK, WatchdogIsHonest, CallsAreTrue
 <2>9. QED BY <1>4, <2>7, <2>8 DEF finishPut
<1>5. ASSUME NEW g \in IpnsGossip, deliver(g) PROVE IpnsInv' /\ localStore'.seq >= localStore.seq
 <2> DEFINE b == [pc |-> IF channel.registered THEN "handled" ELSE "done", seq |-> ipJob.gossip[g]]
 <2>1. /\ writer' = [writer EXCEPT ![g] = b] /\ UNCHANGED <<ipJob, ipNow, localStore, channel, writeChain, resolving>>
       /\ seen' = [seen EXCEPT !.raw = IF channel.registered THEN @ \cup {g} ELSE @]
     BY <1>5 DEF deliver
 <2>2. b \in Writing /\ b.pc \in {"handled", "done"} BY <1>j DEF Writing
 <2> HIDE DEF b
 <2>3. writer' \in [Writer -> Writing] /\ WritersTakeTurns' BY <1>t, <2>1, <2>2, WriterMoves DEF IpnsInv
 <2>4. WritesAfterFetch' BY <1>t, <2>1, IpnsAssumption DEF IpnsInv, WritesAfterFetch
 <2>5. seen' \in Seen /\ seen'.told = seen.told /\ seen'.at = seen.at BY <1>t, <2>1 DEF Seen
 <2>6. QED BY <1>t, <2>1, <2>3, <2>4, <2>5 DEF IpnsInv, IpnsTypeOK, WatchdogIsHonest, CallsAreTrue
<1>6. ASSUME NEW g \in IpnsGossip, onGossip(g) PROVE IpnsInv' /\ localStore'.seq >= localStore.seq
 <2> DEFINE n == writer[g].seq
 <2>1. /\ channel' = stampIpnsPushChannelArrival(channel, n) /\ seen' = [Attest(n) EXCEPT !.raw = @ \ {g}]
       /\ UNCHANGED <<ipJob, ipNow, localStore, writer, writeChain, resolving>>
     BY <1>6 DEF onGossip
 <2>2. n \in Nat BY <1>t, <1>w
 <2>3. seen' \in Seen /\ seen'.told = seen.told /\ seen'.at = Attest(n).at
  <3>1. Attest(n) \in Seen /\ Attest(n).told = seen.told BY <2>2, Attested DEF IpnsInv
  <3>2. QED BY <2>1, <3>1 DEF Seen
 <2> HIDE DEF n
 <2>4. channel' \in Channel /\ WatchdogIsHonest' BY <2>1, <2>2, <2>3, ShownKeepsHonest DEF IpnsInv
 <2>5. QED BY <1>t, <2>1, <2>3, <2>4 DEF IpnsInv, IpnsTypeOK, WritersTakeTurns, WritesAfterFetch, CallsAreTrue
<1>7. ASSUME NEW c \in IpnsCall, resolve(c) PROVE IpnsInv' /\ localStore'.seq >= localStore.seq
 <2> DEFINE r == [NotAsked EXCEPT !.pc = IF ~ipJob.nocache /\ channel.joined THEN "gate" ELSE "network",
                                  !.told = seen.told, !.healthy = isIpnsPushChannelHealthy,
                                  !.attested = ipNow - seen.at < IpnsWatchdog]
 <2>1. /\ resolving[c].pc = "idle" /\ resolving' = [resolving EXCEPT ![c] = r]
       /\ UNCHANGED <<ipJob, ipNow, localStore, channel, writer, writeChain, seen>>
     BY <1>7 DEF resolve
 <2>2. /\ r \in Resolving /\ r.pc \in {"gate", "network"} /\ r.from = "none" /\ r.told = seen.told
       /\ r.healthy = isIpnsPushChannelHealthy /\ r.attested = (ipNow - seen.at < IpnsWatchdog)
  <3> DEFINE pc == IF ~ipJob.nocache /\ channel.joined THEN "gate" ELSE "network"
  <3>1. seen.told \in Nat /\ isIpnsPushChannelHealthy \in BOOLEAN /\ pc \in {"gate", "network"} BY <1>t DEF Seen, isIpnsPushChannelHealthy
  <3>2. (ipNow - seen.at < IpnsWatchdog) \in BOOLEAN OBVIOUS
  <3> DEFINE h == isIpnsPushChannelHealthy
             a == ipNow - seen.at < IpnsWatchdog
             new == [NotAsked EXCEPT !.pc = pc, !.told = seen.told, !.healthy = h, !.attested = a]
  <3>b. h \in BOOLEAN /\ a \in BOOLEAN /\ pc \in {"gate", "network"} BY <3>1, <3>2
  <3> HIDE DEF h, a, pc
  <3>3. /\ new \in Resolving /\ new.pc = pc /\ new.from = "none" /\ new.told = seen.told
        /\ new.healthy = h /\ new.attested = a
      BY <3>1, <3>b DEF Resolving, NotAsked
  <3>4. r = new BY DEF h, a, pc
  <3> HIDE DEF new, r
  <3>5. QED BY <3>1, <3>3, <3>4 DEF h, a
 <2> HIDE DEF r
 <2>3. r.told <= localStore.seq BY <2>2 DEF IpnsInv, WatchdogIsHonest
 <2>4. r.healthy => r.attested
  <3>1. channel.arrival \in Int /\ seen.at \in Int /\ channel.arrival <= seen.at BY <1>t DEF IpnsInv, WatchdogIsHonest, Channel, Seen
  <3>2. QED BY <1>t, <2>2, <3>1, IpnsAssumption DEF isIpnsPushChannelHealthy
 <2>5. writer[c].pc = "idle" BY <2>1 DEF IpnsInv, WritesAfterFetch
 <2>6. resolving' \in [IpnsCall -> Resolving] /\ CallsAreTrue' /\ WritesAfterFetch' BY <2>1, <2>2, <2>3, <2>4, <2>5, CallMoves
 <2>7. QED BY <1>t, <2>1, <2>6 DEF IpnsInv, IpnsTypeOK, WatchdogIsHonest, WritersTakeTurns
<1>g. ASSUME NEW c \in IpnsCall
      PROVE  /\ resolving[c].told <= localStore.seq
             /\ resolving[c].healthy => resolving[c].attested
             /\ resolving[c].from = "cache" => /\ resolving[c].seq >= resolving[c].told
                                               /\ resolving[c].past => resolving[c].attested
    BY DEF IpnsInv, CallsAreTrue
<1>8. ASSUME NEW c \in IpnsCall, readFreshCachedIpnsRecord(c) PROVE IpnsInv' /\ localStore'.seq >= localStore.seq
 <2> DEFINE r == resolving[c]
            hit == [r EXCEPT !.pc = "done", !.seq = localStore.seq, !.from = "cache", !.past = ~InsideTtl]
            miss == [r EXCEPT !.pc = "network"]
            usable == localStore.seq > 0 /\ "expired" \notin ipJob.faults /\ (r.healthy \/ InsideTtl)
 <2>1. /\ r.pc = "gate" /\ resolving' = [resolving EXCEPT ![c] = IF usable THEN hit ELSE miss]
       /\ UNCHANGED <<ipJob, ipNow, localStore, channel, writer, writeChain, seen>>
     BY <1>8 DEF readFreshCachedIpnsRecord
 <2>2. writer[c].pc = "idle" BY <2>1 DEF IpnsInv, WritesAfterFetch
 <2>3. CASE usable
  <3>1. /\ hit \in Resolving /\ hit.pc = "done" /\ hit.seq = localStore.seq /\ hit.past = ~InsideTtl
        /\ hit.told = r.told /\ hit.healthy = r.healthy /\ hit.attested = r.attested
   <4>1. InsideTtl \in BOOLEAN BY DEF InsideTtl
   <4>2. QED BY <1>t, <1>r, <4>1 DEF Resolving
  <3>2. resolving' = [resolving EXCEPT ![c] = hit] BY <2>1, <2>3
  <3> HIDE DEF hit
  <3>3. hit.seq >= hit.told /\ (hit.past => hit.attested) BY <1>g, <1>t, <1>r, <2>3, <3>1 DEF Resolving
  <3>4. resolving' \in [IpnsCall -> Resolving] /\ CallsAreTrue' /\ WritesAfterFetch' BY <1>g, <2>1, <2>2, <3>1, <3>2, <3>3, CallMoves
  <3>5. QED BY <1>t, <2>1, <3>4 DEF IpnsInv, IpnsTypeOK, WatchdogIsHonest, WritersTakeTurns
 <2>4. CASE ~usable
  <3>1. /\ miss \in Resolving /\ miss.pc = "network" /\ miss.told = r.told /\ miss.healthy = r.healthy
        /\ miss.attested = r.attested /\ miss.from = r.from /\ miss.seq = r.seq /\ miss.past = r.past
      BY <1>r, CallGoes
  <3>2. resolving' = [resolving EXCEPT ![c] = miss] BY <2>1, <2>4
  <3> HIDE DEF miss
  <3>3. resolving' \in [IpnsCall -> Resolving] /\ CallsAreTrue' /\ WritesAfterFetch' BY <1>g, <2>1, <2>2, <3>1, <3>2, CallMoves
  <3>4. QED BY <1>t, <2>1, <3>3 DEF IpnsInv, IpnsTypeOK, WatchdogIsHonest, WritersTakeTurns
 <2>5. QED BY <2>3, <2>4
<1>9. ASSUME NEW c \in IpnsCall, joinTopic(c) PROVE IpnsInv' /\ localStore'.seq >= localStore.seq
 <2> DEFINE r == [resolving[c] EXCEPT !.pc = "fetching"]
 <2>1. /\ resolving' = [resolving EXCEPT ![c] = r] /\ writer[c].pc = "idle"
       /\ channel' = [channel EXCEPT !.joined = TRUE, !.registered = TRUE]
       /\ UNCHANGED <<ipJob, ipNow, localStore, writer, writeChain, seen>>
     BY <1>9 DEF joinTopic, IpnsInv, WritesAfterFetch
 <2>2. /\ r \in Resolving /\ r.told = resolving[c].told /\ r.healthy = resolving[c].healthy
       /\ r.attested = resolving[c].attested /\ r.from = resolving[c].from /\ r.seq = resolving[c].seq
       /\ r.past = resolving[c].past
     BY <1>r, CallGoes
 <2> HIDE DEF r
 <2>3. resolving' \in [IpnsCall -> Resolving] /\ CallsAreTrue' /\ WritesAfterFetch' BY <1>g, <2>1, <2>2, CallMoves
 <2>4. channel' \in Channel /\ channel'.highest = channel.highest /\ channel'.arrival = channel.arrival BY <1>t, <2>1 DEF Channel
 <2>5. QED BY <1>t, <2>1, <2>3, <2>4 DEF IpnsInv, IpnsTypeOK, WatchdogIsHonest, WritersTakeTurns
<1>10. ASSUME NEW c \in IpnsCall, directFetched(c) PROVE IpnsInv' /\ localStore'.seq >= localStore.seq
 <2> DEFINE r == [resolving[c] EXCEPT !.pc = "caching"]
 <2>1. PICK n \in ipJob.fetched :
         /\ channel' = stampIpnsPushChannelArrival([channel EXCEPT !.validated = ipNow], n)
         /\ seen' = Attest(n) /\ writer' = [writer EXCEPT ![c] = [pc |-> "handled", seq |-> n]]
     BY <1>10 DEF directFetched
 <2>2. resolving' = [resolving EXCEPT ![c] = r] /\ UNCHANGED <<ipJob, ipNow, localStore, writeChain>> BY <1>10 DEF directFetched
 <2>3. /\ r \in Resolving /\ r.pc = "caching" /\ r.told = resolving[c].told /\ r.healthy = resolving[c].healthy
       /\ r.attested = resolving[c].attested /\ r.from = resolving[c].from /\ r.seq = resolving[c].seq
       /\ r.past = resolving[c].past
     BY <1>r, CallGoes
 <2> HIDE DEF r
 <2>4. n \in Nat /\ seen' \in Seen /\ seen'.told = seen.told /\ seen'.at = Attest(n).at BY <1>j, <2>1, Attested DEF IpnsInv
 <2>5. channel' \in Channel /\ WatchdogIsHonest' BY <2>1, <2>2, <2>4, ShownKeepsHonest DEF IpnsInv
 <2>6. writer' \in [Writer -> Writing] /\ WritersTakeTurns'
  <3> DEFINE b == [pc |-> "handled", seq |-> n]
  <3>1. b \in Writing /\ b.pc = "handled" /\ writer' = [writer EXCEPT ![c] = b] BY <2>1, <2>4 DEF Writing
  <3> HIDE DEF b
  <3>2. QED BY <1>t, <2>2, <3>1, WriterMoves DEF IpnsInv
 <2>7. \A d \in IpnsCall : d # c => writer'[d] = writer[d] BY <1>t, <2>1
 <2>8. resolving' \in [IpnsCall -> Resolving] /\ CallsAreTrue' /\ WritesAfterFetch' BY <1>g, <2>2, <2>3, <2>7, CallMoves
 <2>9. QED BY <1>t, <2>2, <2>4, <2>5, <2>6, <2>8 DEF IpnsInv, IpnsTypeOK
<1>11. ASSUME NEW c \in IpnsCall, routerGet(c) PROVE IpnsInv' /\ localStore'.seq >= localStore.seq
 <2> DEFINE r == [resolving[c] EXCEPT !.pc = "got"]
 <2>1. PICK n \in ipJob.fetched : writer' = [writer EXCEPT ![c] = [pc |-> "handled", seq |-> n]] BY <1>11 DEF routerGet
 <2>2. resolving' = [resolving EXCEPT ![c] = r] /\ UNCHANGED <<ipJob, ipNow, localStore, channel, writeChain, seen>> BY <1>11 DEF routerGet
 <2>3. /\ r \in Resolving /\ r.pc = "got" /\ r.told = resolving[c].told /\ r.healthy = resolving[c].healthy
       /\ r.attested = resolving[c].attested /\ r.from = resolving[c].from /\ r.seq = resolving[c].seq
       /\ r.past = resolving[c].past
     BY <1>r, CallGoes
 <2> HIDE DEF r
 <2>4. writer' \in [Writer -> Writing] /\ WritersTakeTurns'
  <3> DEFINE b == [pc |-> "handled", seq |-> n]
  <3>1. b \in Writing /\ b.pc = "handled" /\ writer' = [writer EXCEPT ![c] = b] BY <1>j, <2>1 DEF Writing
  <3> HIDE DEF b
  <3>2. QED BY <1>t, <2>2, <3>1, WriterMoves DEF IpnsInv
 <2>5. \A d \in IpnsCall : d # c => writer'[d] = writer[d] BY <1>t, <2>1
 <2>6. resolving' \in [IpnsCall -> Resolving] /\ CallsAreTrue' /\ WritesAfterFetch' BY <1>g, <2>2, <2>3, <2>5, CallMoves
 <2>7. QED BY <1>t, <2>2, <2>4, <2>6 DEF IpnsInv, IpnsTypeOK, WatchdogIsHonest
<1>12. ASSUME NEW c \in IpnsCall, answerFetched(c) PROVE IpnsInv' /\ localStore'.seq >= localStore.seq
 <2> DEFINE n == writer[c].seq
            r == [resolving[c] EXCEPT !.pc = "done", !.seq = n, !.from = "network"]
 <2>1. /\ resolving' = [resolving EXCEPT ![c] = r]
       /\ UNCHANGED <<ipJob, ipNow, localStore, channel, writer, writeChain, seen>>
     BY <1>12 DEF answerFetched
 <2>2. n \in Nat BY <1>t, <1>w
 <2>3. /\ r \in Resolving /\ r.pc = "done" /\ r.told = resolving[c].told /\ r.healthy = resolving[c].healthy
       /\ r.attested = resolving[c].attested /\ r.from = "network"
     BY <1>r, <2>2 DEF Resolving
 <2> HIDE DEF r, n
 <2>4. resolving' \in [IpnsCall -> Resolving] /\ CallsAreTrue' /\ WritesAfterFetch' BY <1>g, <2>1, <2>3, CallMoves
 <2>5. QED BY <1>t, <2>1, <2>4 DEF IpnsInv, IpnsTypeOK, WatchdogIsHonest, WritersTakeTurns
<1>13. ASSUME NEW c \in IpnsCall, answerFallback(c) PROVE IpnsInv' /\ localStore'.seq >= localStore.seq
 <2> DEFINE n == writer[c].seq
            r == [resolving[c] EXCEPT !.pc = "done", !.seq = n, !.from = "network"]
 <2>1. /\ resolving' = [resolving EXCEPT ![c] = r]
       /\ channel' = stampIpnsPushChannelArrival([channel EXCEPT !.validated = ipNow], n) /\ seen' = Attest(n)
       /\ UNCHANGED <<ipJob, ipNow, localStore, writer, writeChain>>
     BY <1>13 DEF answerFallback
 <2>2. n \in Nat BY <1>t, <1>w
 <2>3. /\ r \in Resolving /\ r.pc = "done" /\ r.told = resolving[c].told /\ r.healthy = resolving[c].healthy
       /\ r.attested = resolving[c].attested /\ r.from = "network"
     BY <1>r, <2>2 DEF Resolving
 <2> HIDE DEF r, n
 <2>4. resolving' \in [IpnsCall -> Resolving] /\ CallsAreTrue' /\ WritesAfterFetch' BY <1>g, <2>1, <2>3, CallMoves
 <2>5. seen' \in Seen /\ seen'.told = seen.told /\ seen'.at = Attest(n).at BY <2>1, <2>2, Attested DEF IpnsInv
 <2>6. channel' \in Channel /\ WatchdogIsHonest' BY <2>1, <2>2, <2>5, ShownKeepsHonest DEF IpnsInv
 <2>7. QED BY <1>t, <2>1, <2>4, <2>5, <2>6 DEF IpnsInv, IpnsTypeOK, WritersTakeTurns
<1>14. ASSUME NEW c \in IpnsCall, directMissed(c) PROVE IpnsInv' /\ localStore'.seq >= localStore.seq
 <2> DEFINE r == [resolving[c] EXCEPT !.pc = "fallback"]
 <2>1. /\ resolving' = [resolving EXCEPT ![c] = r] /\ writer[c].pc = "idle"
       /\ UNCHANGED <<ipJob, ipNow, localStore, channel, writer, writeChain, seen>>
     BY <1>14 DEF directMissed, IpnsInv, WritesAfterFetch
 <2>2. /\ r \in Resolving /\ r.told = resolving[c].told /\ r.healthy = resolving[c].healthy
       /\ r.attested = resolving[c].attested /\ r.from = resolving[c].from /\ r.seq = resolving[c].seq
       /\ r.past = resolving[c].past
     BY <1>r, CallGoes
 <2> HIDE DEF r
 <2>3. resolving' \in [IpnsCall -> Resolving] /\ CallsAreTrue' /\ WritesAfterFetch' BY <1>g, <2>1, <2>2, CallMoves
 <2>4. QED BY <1>t, <2>1, <2>3 DEF IpnsInv, IpnsTypeOK, WatchdogIsHonest, WritersTakeTurns
<1>15. ASSUME NEW c \in IpnsCall, resolveFails(c) PROVE IpnsInv' /\ localStore'.seq >= localStore.seq
 <2> DEFINE r == [resolving[c] EXCEPT !.pc = "done"]
 <2>1. /\ resolving' = [resolving EXCEPT ![c] = r] /\ writer[c].pc = "idle"
       /\ UNCHANGED <<ipJob, ipNow, localStore, channel, writer, writeChain, seen>>
     BY <1>15 DEF resolveFails, IpnsInv, WritesAfterFetch
 <2>2. /\ r \in Resolving /\ r.told = resolving[c].told /\ r.healthy = resolving[c].healthy
       /\ r.attested = resolving[c].attested /\ r.from = resolving[c].from /\ r.seq = resolving[c].seq
       /\ r.past = resolving[c].past
     BY <1>r, CallGoes
 <2> HIDE DEF r
 <2>3. resolving' \in [IpnsCall -> Resolving] /\ CallsAreTrue' /\ WritesAfterFetch' BY <1>g, <2>1, <2>2, CallMoves
 <2>4. QED BY <1>t, <2>1, <2>3 DEF IpnsInv, IpnsTypeOK, WatchdogIsHonest, WritersTakeTurns
<1>16. CASE ipTick
 <2>1. ipNow' = ipNow + 1 /\ UNCHANGED <<ipJob, localStore, channel, writer, writeChain, resolving, seen>> BY <1>16 DEF ipTick
 <2>2. seen.at \in Int BY <1>t DEF Seen
 <2>3. QED BY <1>t, <2>1, <2>2 DEF IpnsInv, IpnsTypeOK, WatchdogIsHonest, WritersTakeTurns, WritesAfterFetch, CallsAreTrue
<1>17. CASE subscribersChange
 <2>1. /\ channel' = [channel EXCEPT !.subscribers = 1 - @]
       /\ UNCHANGED <<ipJob, ipNow, localStore, writer, writeChain, resolving, seen>>
     BY <1>17 DEF subscribersChange
 <2>2. channel' \in Channel /\ channel'.highest = channel.highest /\ channel'.arrival = channel.arrival BY <1>t, <2>1 DEF Channel
 <2>3. QED BY <1>t, <2>1, <2>2 DEF IpnsInv, IpnsTypeOK, WatchdogIsHonest, WritersTakeTurns, WritesAfterFetch, CallsAreTrue
<1>18. CASE UNCHANGED ipnsVars
 <2>1. UNCHANGED <<ipJob, ipNow, localStore, channel, writer, writeChain, resolving, seen>> BY <1>18 DEF ipnsVars
 <2>2. QED BY <1>t, <2>1 DEF IpnsInv, IpnsTypeOK, WatchdogIsHonest, WritersTakeTurns, WritesAfterFetch, CallsAreTrue
<1>19. QED
    BY <1>1, <1>2, <1>3, <1>4, <1>5, <1>6, <1>7, <1>8, <1>9, <1>10, <1>11, <1>12, <1>13, <1>14, <1>15, <1>16, <1>17, <1>18
    DEF IpnsNext, Writer

(* A node starts with nothing on its way, whatever it holds. *)
LEMMA IpnsStarts == IpnsInit => IpnsInv
<1> SUFFICES ASSUME IpnsInit PROVE IpnsInv OBVIOUS
<1>1. /\ ipJob \in IpnsWorkload /\ ipNow = 0 /\ writeChain = << >> /\ ipJob.joined \in BOOLEAN
      /\ writer = [w \in Writer |-> IdleCall] /\ resolving = [c \in IpnsCall |-> NotAsked]
      /\ localStore = [seq |-> IF ipJob.joined THEN 1 ELSE 0, created |-> IF ipJob.joined THEN 0 ELSE Never]
      /\ channel = [joined |-> ipJob.joined, registered |-> ipJob.joined, subscribers |-> 1,
                    highest |-> localStore.seq, arrival |-> localStore.created, validated |-> localStore.created]
      /\ seen = [told |-> localStore.seq, at |-> localStore.created, raw |-> {}]
    BY IpnsAssumption DEF IpnsInit, Writer
<1>2. localStore \in Held /\ localStore.seq \in Nat /\ localStore.created \in Int /\ localStore.created <= 0 BY <1>1 DEF Held, Never
<1>3. channel \in Channel /\ seen \in Seen BY <1>1, <1>2 DEF Channel, Seen
<1>4. IdleCall \in Writing /\ IdleCall.pc = "idle" BY DEF IdleCall, Writing
<1>5. /\ NotAsked \in Resolving /\ NotAsked.from = "none" /\ NotAsked.told = 0 /\ ~NotAsked.healthy BY DEF NotAsked, Resolving
<1>6. IpnsTypeOK BY <1>1, <1>2, <1>3, <1>4, <1>5 DEF IpnsTypeOK
<1>7. WatchdogIsHonest BY <1>1, <1>2 DEF WatchdogIsHonest
<1>8. WritersTakeTurns /\ WritesAfterFetch /\ CallsAreTrue
    BY <1>1, <1>2, <1>4, <1>5 DEF WritersTakeTurns, WritesAfterFetch, CallsAreTrue, Writer
<1>9. QED BY <1>6, <1>7, <1>8 DEF IpnsInv

(* The whole invariant holds of every run. *)
THEOREM IpnsInvariant == IpnsSpec => []IpnsInv
<1>1. IpnsInv /\ [IpnsNext]_ipnsVars => IpnsInv' BY IpnsStep
<1>2. QED BY IpnsStarts, <1>1, PTL DEF IpnsSpec

(* No resolve is answered from the held record with one older than the *)
(* listeners were told of, nor past its ttl unless the network showed one as *)
(* new inside the watchdog's window (readFreshCachedIpnsRecord). *)
THEOREM CacheIsTrue == IpnsSpec => []CacheAnswersTruly
<1>1. IpnsInv => CacheAnswersTruly BY DEF IpnsInv, CallsAreTrue, CacheAnswersTruly, AnswersWhatWasTold, PastTtlIsAttested
<1>2. QED BY IpnsInvariant, <1>1, PTL

(* The held record never goes back, however gossip, direct fetches and the *)
(* router's writes interleave between their checks and their puts. *)
THEOREM HeldIsNewest == IpnsSpec => HeldNeverGoesBack
<1>1. IpnsInv /\ [IpnsNext]_ipnsVars => [localStore'.seq >= localStore.seq]_ipnsVars BY IpnsStep
<1>2. QED BY IpnsInvariant, <1>1, PTL DEF IpnsSpec, HeldNeverGoesBack

----------------------------------------
(* GatewayFetch: the race of untrusted gateways. *)

GwNames == GwKey \cup GwCid
GwCids == GwCid \cup {GwNothing}
GwRequests == [pc : {"idle", "queued", "requested", "body", "walk", "prove", "verify", "done", "cleared"},
               got : GwCids, hops : Seq(GwNames), record : BOOLEAN, err : {"none", "failed", "confirmed"}]
GwMemories == [cid : GwCids, anchor : GwKey \cup {GwNothing}, hops : Seq(GwNames), loaded : SUBSET GwCid, etags : SUBSET GwCid]
GwPolls == [state : {"idle", "open", "upgrade", "resolved", "failed", "unchanged", "aborted"}, left : Nat,
            name : GwNames, kept : GwCids, stopped : BOOLEAN]

GwTypeOK ==
    /\ gwJob \in GwWorkload
    /\ gwMem \in GwMemories
    /\ gwFetch \in [Gateway -> GwRequests]
    /\ gwPoll \in GwPolls

(* A request that is done failed or has a record, and the record of a *)
(* community was proved with the chain beside it. *)
RequestsAreAnswered(fs) ==
    \A g \in Gateway :
        /\ fs[g].record => fs[g].pc = "done"
        /\ fs[g].pc = "done" => fs[g].record \/ fs[g].err # "none"
        /\ fs[g].pc \in {"body", "walk", "prove", "verify"} => fs[g].got \in GwCid
        /\ gwJob.kind = "community" /\ fs[g].record => fs[g].got \in GwCid /\ Valid(fs[g])

(* The chain remembered is that of the record remembered, and a poll that *)
(* may still adopt a chain walks it from that record's anchor. *)
MemoryIsOfRecord ==
    /\ gwMem.anchor = IF gwMem.cid = GwNothing THEN GwNothing ELSE gwRec[gwMem.cid].anchor
    /\ HopsOfRecordHeld
    /\ gwPoll.state \in {"open", "upgrade"} /\ gwMem.anchor # GwNothing => gwPoll.name = gwMem.anchor
    /\ gwPoll.state = "upgrade" => gwMem.anchor # GwNothing

(* A fetch that is open waits for a gateway that has not failed. *)
OpenWaits(fs) ==
    IF gwJob.kind = "community"
    THEN (\E g \in Gateway : fs[g].err = "none") /\ \A g \in Gateway : fs[g].pc \notin {"idle", "cleared"}
    ELSE \E g \in Gateway : ~Over(fs[g])

GwInv ==
    /\ GwTypeOK /\ RequestsAreAnswered(gwFetch) /\ MemoryIsOfRecord
    /\ gwPoll.state = "open" => OpenWaits(gwFetch)

----------------------------------------
(* Keys and cids of the records a gateway may serve. *)
LEMMA GwConstants ==
    /\ GwNothing \notin GwKey \cup GwCid
    /\ \A c \in GwCid : gwRec[c].signer \in GwKey /\ gwRec[c].anchor \in GwKey \cup {GwNothing} /\ gwRec[c].at \in Nat
BY GwAssumption

(* The changes of one request, field by field. *)
LEMMA RequestGoes ==
    ASSUME NEW f \in GwRequests, NEW pc \in {"queued", "requested", "body", "walk", "prove", "verify", "done", "cleared"}
    PROVE  LET new == [f EXCEPT !.pc = pc] IN
           /\ new \in GwRequests /\ new.pc = pc /\ new.got = f.got /\ new.hops = f.hops
           /\ new.record = f.record /\ new.err = f.err
BY DEF GwRequests

(* Clearing the queue leaves what was answered. *)
LEMMA ClearingKeeps ==
    ASSUME NEW fs \in [Gateway -> GwRequests], RequestsAreAnswered(fs)
    PROVE  /\ CleanedUp(fs) \in [Gateway -> GwRequests] /\ RequestsAreAnswered(CleanedUp(fs))
           /\ \A g \in Gateway : fs[g].pc # "queued" => CleanedUp(fs)[g] = fs[g]
           /\ \A g \in Gateway : fs[g].pc = "queued" => CleanedUp(fs)[g].pc = "cleared"
<1>1. ASSUME NEW g \in Gateway, fs[g].pc = "queued"
      PROVE  /\ CleanedUp(fs)[g] \in GwRequests /\ CleanedUp(fs)[g].pc = "cleared"
             /\ CleanedUp(fs)[g].record = fs[g].record
 <2> DEFINE new == [fs[g] EXCEPT !.pc = "cleared"]
 <2>1. new \in GwRequests /\ new.pc = "cleared" /\ new.record = fs[g].record BY RequestGoes
 <2>2. CleanedUp(fs)[g] = new BY <1>1 DEF CleanedUp
 <2> HIDE DEF new
 <2>3. QED BY <2>1, <2>2
<1>2. \A g \in Gateway : fs[g].pc # "queued" => CleanedUp(fs)[g] = fs[g] BY DEF CleanedUp
<1>3. CleanedUp(fs) = [g \in Gateway |-> CleanedUp(fs)[g]] BY DEF CleanedUp
<1>4. CleanedUp(fs) \in [Gateway -> GwRequests] BY <1>1, <1>2, <1>3
<1>5. RequestsAreAnswered(CleanedUp(fs)) BY <1>1, <1>2 DEF RequestsAreAnswered
<1>6. QED BY <1>1, <1>2, <1>4, <1>5

(* Memory with the same record and chain, in a poll that did not begin. *)
LEMMA MemoryStays ==
    ASSUME MemoryIsOfRecord, gwMem'.cid = gwMem.cid, gwMem'.anchor = gwMem.anchor, gwMem'.hops = gwMem.hops,
           gwPoll'.state \in {"open", "upgrade"} => gwPoll.state \in {"open", "upgrade"} /\ gwPoll'.name = gwPoll.name,
           gwPoll'.state = "upgrade" => gwMem.anchor # GwNothing
    PROVE  MemoryIsOfRecord'
BY DEF MemoryIsOfRecord, HopsOfRecordHeld, Valid

(* A request that is on its way still waits for its answer. *)
LEMMA GoOnKeeps ==
    ASSUME GwInv, NEW g \in Gateway, NEW f \in GwRequests, NEW mem \in GwMemories,
           GoOn(g, f, mem), gwJob' = gwJob,
           mem.cid = gwMem.cid, mem.anchor = gwMem.anchor, mem.hops = gwMem.hops,
           f.pc \in {"requested", "body", "walk", "prove", "verify"}, ~f.record, f.err = gwFetch[g].err,
           f.pc # "requested" => f.got \in GwCid
    PROVE  GwInv' /\ gwMem'.cid = gwMem.cid
<1>1. gwFetch \in [Gateway -> GwRequests] BY DEF GwInv, GwTypeOK
<1>2. /\ gwFetch' \in [Gateway -> GwRequests] /\ gwFetch'[g] = f
      /\ \A h \in Gateway : h # g => gwFetch'[h] = gwFetch[h]
      /\ gwMem' = mem /\ UNCHANGED gwPoll
    BY <1>1 DEF GoOn
<1>3. GwTypeOK' BY <1>2 DEF GwInv, GwTypeOK
<1>4. RequestsAreAnswered(gwFetch)' BY <1>2 DEF GwInv, RequestsAreAnswered, Valid
<1>5. MemoryIsOfRecord' BY <1>2, MemoryStays DEF GwInv, MemoryIsOfRecord
<1>6. gwPoll'.state = "open" => OpenWaits(gwFetch)' BY <1>2 DEF GwInv, OpenWaits, Over
<1>7. QED BY <1>2, <1>3, <1>4, <1>5, <1>6 DEF GwInv, RequestsAreAnswered, Valid

(* A request that ends, with a record or an error, ends the poll if it was *)
(* the one the poll waited for, and the record kept is newer than the last. *)
LEMMA SettleKeeps ==
    ASSUME GwInv, NEW g \in Gateway, NEW f \in GwRequests, NEW mem \in GwMemories,
           Settle(g, f, mem), gwJob' = gwJob,
           mem.cid = gwMem.cid, mem.anchor = gwMem.anchor, mem.hops = gwMem.hops,
           f.record \/ f.err # "none",
           gwJob.kind = "community" /\ f.record => f.got \in GwCid /\ Valid(f)
    PROVE  GwInv' /\ GwAt(gwMem'.cid) >= GwAt(gwMem.cid)
<1> DEFINE done == [f EXCEPT !.pc = "done"]
           fs == [gwFetch EXCEPT ![g] = done]
<1>1. gwFetch \in [Gateway -> GwRequests] /\ gwMem \in GwMemories /\ gwPoll \in GwPolls BY DEF GwInv, GwTypeOK
<1>2. /\ done \in GwRequests /\ done.pc = "done" /\ done.got = f.got /\ done.hops = f.hops
      /\ done.record = f.record /\ done.err = f.err
    BY RequestGoes
<1>3. Settle(g, f, mem) <=> IF gwJob.kind = "community" THEN CommunitySettled(fs, mem) ELSE gwMem' = mem /\ FileSettled(fs) BY DEF Settle
<1>p. ASSUME NEW st \in {"resolved", "failed", "unchanged", "aborted", "upgrade"}
      PROVE  LET new == [gwPoll EXCEPT !.state = st] IN
             new \in GwPolls /\ new.state = st /\ new.name = gwPoll.name
    BY <1>1 DEF GwPolls
<1>q. ASSUME NEW c \in GwCids
      PROVE  LET new == [gwPoll EXCEPT !.state = "resolved", !.kept = c] IN
             new \in GwPolls /\ new.state = "resolved" /\ new.name = gwPoll.name
    BY <1>1 DEF GwPolls
<1>a. GwAt(gwMem.cid) \in Nat /\ GwAt(gwMem.cid) >= GwAt(gwMem.cid) BY <1>1, GwConstants DEF GwAt, GwMemories, GwCids
<1> HIDE DEF done
<1>4. fs \in [Gateway -> GwRequests] /\ fs[g] = done /\ \A h \in Gateway : h # g => fs[h] = gwFetch[h] BY <1>1, <1>2
<1> HIDE DEF fs
<1>5. RequestsAreAnswered(fs) BY <1>2, <1>4 DEF GwInv, RequestsAreAnswered, Valid
<1>m. MemoryIsOfRecord BY DEF GwInv
(* What is left to show, once the requests and the memory are known. *)
<1>6. ASSUME gwFetch' \in [Gateway -> GwRequests], RequestsAreAnswered(gwFetch'), gwMem' \in GwMemories,
             gwPoll' \in GwPolls, MemoryIsOfRecord', gwPoll'.state = "open" => OpenWaits(gwFetch')
      PROVE  GwInv'
 <2>1. GwTypeOK' BY <1>6 DEF GwInv, GwTypeOK
 <2>2. RequestsAreAnswered(gwFetch)' BY <1>6 DEF RequestsAreAnswered, Valid
 <2>3. gwPoll'.state = "open" => OpenWaits(gwFetch)' BY <1>6 DEF OpenWaits, Over
 <2>4. QED BY <1>6, <2>1, <2>2, <2>3 DEF GwInv
<1>7. CASE gwJob.kind = "community"
 <2>1. CommunitySettled(fs, mem) BY <1>3, <1>7
 <2>2. CASE gwPoll.state # "open"
  <3>1. gwFetch' = fs /\ gwMem' = mem /\ gwPoll' = gwPoll BY <2>1, <2>2 DEF CommunitySettled
  <3>2. MemoryIsOfRecord' BY <3>1, <1>m, MemoryStays DEF MemoryIsOfRecord
  <3>3. QED BY <1>1, <1>4, <1>5, <1>6, <1>a, <2>2, <3>1, <3>2
 <2>3. CASE gwPoll.state = "open" /\ AllFailed(fs)
  <3> DEFINE st == IF gwPoll.stopped THEN "aborted"
                   ELSE IF ~Confirming(fs) THEN "failed"
                   ELSE IF mem.anchor # GwNothing /\ (mem.hops = << >> \/ mem.hops[1] # gwPoll.name)
                   THEN "upgrade" ELSE "unchanged"
  <3>1. gwFetch' = CleanedUp(fs) /\ gwMem' = mem /\ gwPoll' = [gwPoll EXCEPT !.state = st] BY <2>1, <2>3 DEF CommunitySettled
  <3>2. st \in {"resolved", "failed", "unchanged", "aborted", "upgrade"} /\ (st = "upgrade" => gwMem.anchor # GwNothing) OBVIOUS
  <3> HIDE DEF st
  <3>3. gwPoll' \in GwPolls /\ gwPoll'.state = st /\ gwPoll'.name = gwPoll.name BY <3>1, <3>2, <1>p
  <3>4. MemoryIsOfRecord' BY <1>m, <2>3, <3>1, <3>2, <3>3, MemoryStays
  <3>5. gwFetch' \in [Gateway -> GwRequests] /\ RequestsAreAnswered(gwFetch') BY <1>4, <1>5, <3>1, ClearingKeeps
  <3>6. gwPoll'.state # "open" BY <3>2, <3>3
  <3>7. QED BY <1>6, <1>a, <3>1, <3>3, <3>4, <3>5, <3>6
 <2>4. CASE gwPoll.state = "open" /\ ~AllFailed(fs) /\ selectWinningGatewayCommunity(fs) # {}
  <3>1. PICK w \in selectWinningGatewayCommunity(fs) :
          /\ gwFetch' = CleanedUp(fs) /\ gwMem' = Kept(mem, fs, w)
          /\ gwPoll' = [gwPoll EXCEPT !.state = "resolved", !.kept = fs[w].got]
      BY <2>1, <2>4 DEF CommunitySettled
  <3>2. w \in Gateway /\ fs[w].record /\ GwAt(fs[w].got) > GwAt(gwMem.cid) BY <3>1 DEF selectWinningGatewayCommunity, Serving
  <3>3. fs[w].got \in GwCid /\ Valid(fs[w]) /\ fs[w].hops \in Seq(GwNames) BY <1>4, <1>5, <1>7, <3>2 DEF RequestsAreAnswered, GwRequests
  <3>4. /\ gwMem' \in GwMemories /\ gwMem'.cid = fs[w].got /\ gwMem'.anchor = gwRec[fs[w].got].anchor
        /\ gwMem'.hops = fs[w].hops
      BY <3>1, <3>3, GwConstants DEF Kept, GwMemories, GwCids
  <3>5. gwPoll' \in GwPolls /\ gwPoll'.state = "resolved" BY <1>q, <3>1, <3>3 DEF GwCids
  <3>6. MemoryIsOfRecord' BY <3>3, <3>4, <3>5, GwConstants DEF MemoryIsOfRecord, HopsOfRecordHeld, Valid
  <3>7. gwFetch' \in [Gateway -> GwRequests] /\ RequestsAreAnswered(gwFetch') BY <1>4, <1>5, <3>1, ClearingKeeps
  <3>8. GwAt(gwMem'.cid) >= GwAt(gwMem.cid)
   <4>1. GwAt(fs[w].got) \in Nat BY <3>3, GwConstants DEF GwAt
   <4>2. QED BY <1>a, <3>2, <3>4, <4>1
  <3>9. QED BY <1>6, <3>4, <3>5, <3>6, <3>7, <3>8
 <2>5. CASE gwPoll.state = "open" /\ ~AllFailed(fs) /\ selectWinningGatewayCommunity(fs) = {}
  <3>1. gwFetch' = fs /\ gwMem' = mem /\ gwPoll' = gwPoll BY <2>1, <2>5 DEF CommunitySettled
  <3>2. MemoryIsOfRecord' BY <3>1, <1>m, MemoryStays DEF MemoryIsOfRecord
  <3>3. OpenWaits(gwFetch) BY <2>5 DEF GwInv
  <3>4. OpenWaits(fs) BY <1>2, <1>4, <1>7, <2>5, <3>3 DEF OpenWaits, AllFailed
  <3>5. QED BY <1>1, <1>4, <1>5, <1>6, <1>a, <3>1, <3>2, <3>4
 <2>6. QED BY <2>2, <2>3, <2>4, <2>5
<1>8. CASE gwJob.kind # "community"
 <2>1. gwMem' = mem /\ FileSettled(fs) BY <1>3, <1>8
 <2>2. CASE gwFetch' = fs /\ gwPoll' = gwPoll /\ (gwPoll.state = "open" => \E h \in Gateway : ~Over(fs[h]))
  <3>1. MemoryIsOfRecord' BY <2>1, <2>2, <1>m, MemoryStays DEF MemoryIsOfRecord
  <3>2. gwPoll'.state = "open" => OpenWaits(gwFetch') BY <1>8, <2>2 DEF OpenWaits
  <3>3. QED BY <1>1, <1>4, <1>5, <1>6, <1>a, <2>1, <2>2, <3>1, <3>2
 <2>3. CASE gwPoll.state = "open" /\ Serving(fs) # {}
  <3> DEFINE w == CHOOSE h \in Serving(fs) : TRUE
  <3>1. gwFetch' = CleanedUp(fs) /\ gwPoll' = [gwPoll EXCEPT !.state = "resolved", !.kept = fs[w].got] BY <2>1, <2>3 DEF FileSettled
  <3>2. w \in Gateway BY <2>3 DEF Serving
  <3> HIDE DEF w
  <3>3. fs[w].got \in GwCids BY <1>4, <3>2 DEF GwRequests
  <3>4. gwPoll' \in GwPolls /\ gwPoll'.state = "resolved" /\ gwPoll'.name = gwPoll.name BY <1>q, <3>1, <3>3
  <3>5. MemoryIsOfRecord' BY <1>m, <2>1, <3>4, MemoryStays
  <3>6. gwFetch' \in [Gateway -> GwRequests] /\ RequestsAreAnswered(gwFetch') BY <1>4, <1>5, <3>1, ClearingKeeps
  <3>7. QED BY <1>6, <1>a, <2>1, <3>4, <3>5, <3>6
 <2>4. CASE gwPoll.state = "open" /\ Serving(fs) = {} /\ \A h \in Gateway : Over(fs[h])
  <3> DEFINE st == IF gwPoll.stopped THEN "aborted" ELSE "failed"
  <3>1. gwFetch' = fs /\ gwPoll' = [gwPoll EXCEPT !.state = st] BY <2>1, <2>4 DEF FileSettled
  <3>2. st \in {"resolved", "failed", "unchanged", "aborted", "upgrade"} /\ st # "upgrade" OBVIOUS
  <3> HIDE DEF st
  <3>3. gwPoll' \in GwPolls /\ gwPoll'.state = st /\ gwPoll'.name = gwPoll.name BY <3>1, <3>2, <1>p
  <3>4. MemoryIsOfRecord' BY <1>m, <2>1, <2>4, <3>2, <3>3, MemoryStays
  <3>5. QED BY <1>4, <1>5, <1>6, <1>a, <2>1, <3>1, <3>2, <3>3, <3>4
 <2>5. QED BY <2>1, <2>2, <2>3, <2>4 DEF FileSettled
<1>9. QED BY <1>7, <1>8

(* A request that fails is a settled one. *)
LEMMA FailedKeeps ==
    ASSUME GwInv, NEW g \in Gateway, NEW why \in {"failed", "confirmed"}, gwFetch[g].pc # "done",
           Failed(g, why), gwJob' = gwJob
    PROVE  GwInv' /\ GwAt(gwMem'.cid) >= GwAt(gwMem.cid)
<1> DEFINE f == [gwFetch[g] EXCEPT !.err = why]
<1>1. gwFetch[g] \in GwRequests /\ gwMem \in GwMemories BY DEF GwInv, GwTypeOK
<1>2. f \in GwRequests /\ f.err = why /\ f.record = gwFetch[g].record BY <1>1 DEF GwRequests
<1>3. ~gwFetch[g].record BY DEF GwInv, RequestsAreAnswered
<1>4. Settle(g, f, gwMem) BY DEF Failed
<1> HIDE DEF f
<1>5. QED BY <1>1, <1>2, <1>3, <1>4, SettleKeeps

(* Every step keeps the invariant, and what is remembered never gets older. *)
LEMMA GwStep == GwInv /\ [GwNext]_gwVars => GwInv' /\ GwAt(gwMem'.cid) >= GwAt(gwMem.cid)
<1> SUFFICES ASSUME GwInv, [GwNext]_gwVars PROVE GwInv' /\ GwAt(gwMem'.cid) >= GwAt(gwMem.cid) OBVIOUS
<1>t. /\ gwJob \in GwWorkload /\ gwMem \in GwMemories /\ gwPoll \in GwPolls
      /\ gwFetch \in [Gateway -> GwRequests] /\ \A g \in Gateway : gwFetch[g] \in GwRequests
      /\ MemoryIsOfRecord /\ RequestsAreAnswered(gwFetch)
    BY DEF GwInv, GwTypeOK
<1>f. ASSUME NEW g \in Gateway
      PROVE  /\ gwFetch[g].got \in GwCids /\ gwFetch[g].hops \in Seq(GwNames)
             /\ gwFetch[g].pc # "done" => ~gwFetch[g].record
             /\ gwFetch[g].pc \in {"body", "walk", "prove", "verify"} => gwFetch[g].got \in GwCid
    BY <1>t DEF GwRequests, RequestsAreAnswered
<1>a. GwAt(gwMem.cid) \in Nat BY <1>t, GwConstants DEF GwAt, GwMemories, GwCids
<1>1. CASE beginPoll
 <2> DEFINE q == [Idle EXCEPT !.pc = "queued"]
 <2>1. /\ gwPoll.state = "idle" /\ gwPoll.left > 0 /\ gwFetch' = [g \in Gateway |-> q] /\ gwJob' = gwJob
       /\ gwPoll' = [gwPoll EXCEPT !.state = "open", !.left = @ - 1, !.kept = GwNothing, !.name = Pinned]
       /\ gwMem' = [gwMem EXCEPT !.loaded = @ \cup ({gwMem.cid} \ {GwNothing})]
     BY <1>1 DEF beginPoll
 <2>2. q \in GwRequests /\ q.pc = "queued" /\ ~q.record /\ q.err = "none"
  <3>1. Idle \in GwRequests /\ ~Idle.record /\ Idle.err = "none" BY DEF Idle, GwRequests, GwCids
  <3>2. QED BY <3>1, RequestGoes
 <2> HIDE DEF q
 <2>3. gwFetch' \in [Gateway -> GwRequests] /\ RequestsAreAnswered(gwFetch)' /\ OpenWaits(gwFetch)'
     BY <2>1, <2>2, GwAssumption DEF RequestsAreAnswered, OpenWaits, Over
 <2>4. Pinned \in GwNames BY <1>t, GwAssumption DEF Pinned, GwNames, GwMemories
 <2>5. gwPoll' \in GwPolls /\ gwPoll'.state = "open" /\ gwPoll'.name = Pinned
  <3> DEFINE less == gwPoll.left - 1
  <3>1. less \in Nat /\ GwNothing \in GwCids BY <1>t, <2>1 DEF GwPolls, GwCids
  <3>2. gwPoll' = [gwPoll EXCEPT !.state = "open", !.left = less, !.kept = GwNothing, !.name = Pinned] BY <2>1
  <3> HIDE DEF less
  <3>3. QED BY <1>t, <2>4, <3>1, <3>2 DEF GwPolls
 <2>6. gwMem' \in GwMemories /\ gwMem'.cid = gwMem.cid /\ gwMem'.anchor = gwMem.anchor /\ gwMem'.hops = gwMem.hops
     BY <1>t, <2>1 DEF GwMemories, GwCids
 <2>7. MemoryIsOfRecord' BY <1>t, <2>5, <2>6 DEF MemoryIsOfRecord, HopsOfRecordHeld, Valid, Pinned
 <2>8. QED BY <1>t, <1>a, <2>1, <2>3, <2>5, <2>6, <2>7 DEF GwInv, GwTypeOK
<1>2. ASSUME NEW g \in Gateway, request(g) PROVE GwInv' /\ GwAt(gwMem'.cid) >= GwAt(gwMem.cid)
 <2> DEFINE f == [gwFetch[g] EXCEPT !.pc = "requested"]
 <2>1. gwFetch[g].pc = "queued" /\ GoOn(g, f, gwMem) /\ gwJob' = gwJob BY <1>2, <1>t DEF request, GoOn
 <2>2. f \in GwRequests /\ f.pc = "requested" /\ f.record = gwFetch[g].record /\ f.err = gwFetch[g].err BY <1>t, RequestGoes
 <2> HIDE DEF f
 <2>3. ~f.record BY <1>f, <2>1, <2>2
 <2>4. GwInv' /\ gwMem'.cid = gwMem.cid BY <1>t, <2>1, <2>2, <2>3, GoOnKeeps
 <2>5. QED BY <1>a, <2>4
<1>3. ASSUME NEW g \in Gateway, respond(g) PROVE GwInv' /\ GwAt(gwMem'.cid) >= GwAt(gwMem.cid)
 <2>1. gwFetch[g].pc = "requested" /\ gwJob' = gwJob BY <1>3 DEF respond
 <2>2. CASE Failed(g, "failed") BY <2>1, <2>2, FailedKeeps
 <2>3. ASSUME NEW c \in gwJob.serves[g]
       PROVE  c \in GwCid
     BY <1>t, <2>3, GwAssumption
 <2>4. ASSUME NEW c \in gwJob.serves[g],
              Settle(g, [gwFetch[g] EXCEPT !.err = "confirmed"], [gwMem EXCEPT !.etags = @ \cup {c}])
       PROVE  GwInv' /\ GwAt(gwMem'.cid) >= GwAt(gwMem.cid)
  <3> DEFINE f == [gwFetch[g] EXCEPT !.err = "confirmed"]
             mem == [gwMem EXCEPT !.etags = @ \cup {c}]
  <3>1. f \in GwRequests /\ f.err = "confirmed" /\ f.record = gwFetch[g].record BY <1>t DEF GwRequests
  <3>2. mem \in GwMemories /\ mem.cid = gwMem.cid /\ mem.anchor = gwMem.anchor /\ mem.hops = gwMem.hops BY <1>t, <2>3 DEF GwMemories
  <3>3. Settle(g, f, mem) BY <2>4
  <3> HIDE DEF f, mem
  <3>4. QED BY <1>f, <2>1, <3>1, <3>2, <3>3, SettleKeeps
 <2>5. ASSUME NEW c \in gwJob.serves[g], GoOn(g, [gwFetch[g] EXCEPT !.pc = "body", !.got = c], gwMem)
       PROVE  GwInv' /\ GwAt(gwMem'.cid) >= GwAt(gwMem.cid)
  <3> DEFINE f == [gwFetch[g] EXCEPT !.pc = "body", !.got = c]
  <3>1. f \in GwRequests /\ f.pc = "body" /\ f.got = c /\ f.record = gwFetch[g].record /\ f.err = gwFetch[g].err
      BY <1>t, <2>3 DEF GwRequests, GwCids
  <3>2. GoOn(g, f, gwMem) BY <2>5
  <3> HIDE DEF f
  <3>3. GwInv' /\ gwMem'.cid = gwMem.cid BY <1>t, <1>f, <2>1, <2>3, <3>1, <3>2, GoOnKeeps
  <3>4. QED BY <1>a, <3>3
 <2>6. QED BY <1>3, <2>2, <2>4, <2>5 DEF respond
<1>4. ASSUME NEW g \in Gateway, body(g) PROVE GwInv' /\ GwAt(gwMem'.cid) >= GwAt(gwMem.cid)
 <2> DEFINE c == gwFetch[g].got
            to == IF gwRec[c].signer = gwPoll.name THEN "prove" ELSE "walk"
 <2>1. gwFetch[g].pc = "body" /\ gwJob' = gwJob /\ c \in GwCid BY <1>4, <1>f DEF body
 <2>2. CASE gwJob.kind = "file" /\ Settle(g, [gwFetch[g] EXCEPT !.record = TRUE], gwMem)
  <3> DEFINE f == [gwFetch[g] EXCEPT !.record = TRUE]
  <3>1. f \in GwRequests /\ f.record BY <1>t DEF GwRequests
  <3>2. Settle(g, f, gwMem) BY <2>2
  <3> HIDE DEF f
  <3>3. QED BY <1>t, <2>1, <2>2, <3>1, <3>2, SettleKeeps
 <2>3. CASE Failed(g, "failed") \/ Failed(g, "confirmed") BY <2>1, <2>3, FailedKeeps
 <2>4. CASE GoOn(g, [gwFetch[g] EXCEPT !.pc = to, !.hops = <<gwPoll.name>>], [gwMem EXCEPT !.loaded = @ \cup {c}])
  <3> DEFINE f == [gwFetch[g] EXCEPT !.pc = to, !.hops = <<gwPoll.name>>]
             mem == [gwMem EXCEPT !.loaded = @ \cup {c}]
  <3>1. to \in {"prove", "walk"} /\ <<gwPoll.name>> \in Seq(GwNames) BY <1>t DEF GwPolls
  <3> HIDE DEF to
  <3>2. f \in GwRequests /\ f.pc = to /\ f.got = c /\ f.record = gwFetch[g].record /\ f.err = gwFetch[g].err BY <1>t, <3>1 DEF GwRequests
  <3>3. mem \in GwMemories /\ mem.cid = gwMem.cid /\ mem.anchor = gwMem.anchor /\ mem.hops = gwMem.hops BY <1>t, <2>1 DEF GwMemories
  <3>4. GoOn(g, f, mem) BY <2>4
  <3> HIDE DEF f, mem
  <3>5. GwInv' /\ gwMem'.cid = gwMem.cid BY <1>f, <2>1, <3>1, <3>2, <3>3, <3>4, GoOnKeeps
  <3>6. QED BY <1>a, <3>5
 <2>5. QED BY <1>4, <2>2, <2>3, <2>4 DEF body
(* What a walk adopts. *)
<1>w. ASSUME NEW g \in Gateway, NEW hops \in Seq(GwNames), gwFetch[g].pc \in {"walk", "prove"}, gwJob' = gwJob,
             NEW pc \in {"prove", "verify"}, GoOn(g, [gwFetch[g] EXCEPT !.pc = pc, !.hops = hops], gwMem)
      PROVE  GwInv' /\ GwAt(gwMem'.cid) >= GwAt(gwMem.cid)
 <2> DEFINE f == [gwFetch[g] EXCEPT !.pc = pc, !.hops = hops]
 <2>1. f \in GwRequests /\ f.pc = pc /\ f.got = gwFetch[g].got /\ f.record = gwFetch[g].record /\ f.err = gwFetch[g].err
     BY <1>t DEF GwRequests
 <2>2. GoOn(g, f, gwMem) BY <1>w
 <2> HIDE DEF f
 <2>3. GwInv' /\ gwMem'.cid = gwMem.cid BY <1>t, <1>f, <1>w, <2>1, <2>2, GoOnKeeps
 <2>4. QED BY <1>a, <2>3
<1>c. ASSUME NEW k, NEW ch \in Chains(k)
      PROVE  /\ ch.hops \in Seq(GwNames) /\ ch.hops # << >> /\ ch.cid \in GwCid /\ ch.hops[1] = k
             /\ gwRec[ch.cid].signer = ch.hops[Len(ch.hops)]
 <2>1. ch.hops \in Seq(GwKey) /\ ch.hops # << >> /\ ch.cid \in GwCid /\ ch.hops[1] = k BY <1>t, GwAssumption DEF Chains
 <2>2. gwRec[ch.cid].signer = ch.hops[Len(ch.hops)] BY <1>t, GwPublishing DEF Chains
 <2>3. QED BY <2>1, <2>2 DEF GwNames
<1>5. ASSUME NEW g \in Gateway, walk(g) PROVE GwInv' /\ GwAt(gwMem'.cid) >= GwAt(gwMem.cid)
 <2>1. gwFetch[g].pc = "walk" /\ gwJob' = gwJob BY <1>5 DEF walk
 <2>2. CASE Failed(g, "failed") BY <2>1, <2>2, FailedKeeps
 <2>3. ASSUME NEW ch \in Chains(gwPoll.name), GoOn(g, [gwFetch[g] EXCEPT !.pc = "prove", !.hops = ch.hops], gwMem)
       PROVE  GwInv' /\ GwAt(gwMem'.cid) >= GwAt(gwMem.cid)
     BY <1>w, <1>c, <2>1, <2>3
 <2>4. QED BY <1>5, <2>2, <2>3 DEF walk
<1>6. ASSUME NEW g \in Gateway, proveAnchorClaim(g) PROVE GwInv' /\ GwAt(gwMem'.cid) >= GwAt(gwMem.cid)
 <2> DEFINE f == [gwFetch[g] EXCEPT !.pc = "verify"]
 <2>1. gwFetch[g].pc = "prove" /\ gwJob' = gwJob BY <1>6 DEF proveAnchorClaim
 <2>2. CASE GoOn(g, f, gwMem)
  <3>1. f \in GwRequests /\ f.pc = "verify" /\ f.got = gwFetch[g].got /\ f.record = gwFetch[g].record /\ f.err = gwFetch[g].err
      BY <1>t, RequestGoes
  <3> HIDE DEF f
  <3>2. GwInv' /\ gwMem'.cid = gwMem.cid BY <1>t, <1>f, <2>1, <2>2, <3>1, GoOnKeeps
  <3>3. QED BY <1>a, <3>2
 <2>3. CASE Failed(g, "failed") BY <2>1, <2>3, FailedKeeps
 <2>4. ASSUME NEW ch \in Chains(gwRec[gwFetch[g].got].anchor),
              GoOn(g, [gwFetch[g] EXCEPT !.pc = "verify", !.hops = ch.hops], gwMem)
       PROVE  GwInv' /\ GwAt(gwMem'.cid) >= GwAt(gwMem.cid)
     BY <1>w, <1>c, <2>1, <2>4
 <2>5. QED BY <1>6, <2>2, <2>3, <2>4 DEF proveAnchorClaim
<1>7. ASSUME NEW g \in Gateway, verifyBody(g) PROVE GwInv' /\ GwAt(gwMem'.cid) >= GwAt(gwMem.cid)
 <2> DEFINE f == [gwFetch[g] EXCEPT !.record = TRUE]
            mem == [gwMem EXCEPT !.etags = @ \cup {gwFetch[g].got}]
 <2>1. gwFetch[g].pc = "verify" /\ gwJob' = gwJob /\ gwFetch[g].got \in GwCid BY <1>7, <1>f DEF verifyBody
 <2>2. CASE Failed(g, "failed") BY <2>1, <2>2, FailedKeeps
 <2>3. CASE Valid(gwFetch[g]) /\ Settle(g, f, mem)
  <3>1. f \in GwRequests /\ f.record /\ f.got = gwFetch[g].got /\ f.hops = gwFetch[g].hops BY <1>t DEF GwRequests
  <3>2. mem \in GwMemories /\ mem.cid = gwMem.cid /\ mem.anchor = gwMem.anchor /\ mem.hops = gwMem.hops BY <1>t, <2>1 DEF GwMemories
  <3> HIDE DEF f, mem
  <3>3. Valid(f) BY <2>3, <3>1 DEF Valid
  <3>4. QED BY <2>1, <2>3, <3>1, <3>2, <3>3, SettleKeeps
 <2>4. QED BY <1>7, <2>2, <2>3 DEF verifyBody
<1>8. ASSUME NEW g \in Gateway, abortRequest(g) PROVE GwInv' /\ GwAt(gwMem'.cid) >= GwAt(gwMem.cid) BY <1>8, FailedKeeps DEF abortRequest
<1>9. CASE stopFetch
 <2> DEFINE fs == CleanedUp(gwFetch)
            stopping == [gwPoll EXCEPT !.stopped = TRUE]
 <2>1. gwFetch' = fs /\ gwPoll' = SettledByClearing(stopping, fs) /\ UNCHANGED <<gwJob, gwMem>> BY <1>9 DEF stopFetch
 <2>2. stopping \in GwPolls /\ stopping.state = gwPoll.state /\ stopping.name = gwPoll.name BY <1>t DEF GwPolls
 <2> HIDE DEF stopping
 <2>3. [stopping EXCEPT !.state = "aborted"] \in GwPolls /\ [stopping EXCEPT !.state = "aborted"].state = "aborted" BY <2>2 DEF GwPolls
 <2>4. /\ gwPoll' \in GwPolls /\ gwPoll'.state \in {gwPoll.state, "aborted"}
       /\ gwPoll'.state # "aborted" => gwPoll' = stopping
     BY <2>1, <2>2, <2>3 DEF SettledByClearing
 <2>5. /\ fs \in [Gateway -> GwRequests] /\ RequestsAreAnswered(fs)
       /\ \A g \in Gateway : gwFetch[g].pc # "queued" => fs[g] = gwFetch[g]
       /\ \A g \in Gateway : gwFetch[g].pc = "queued" => fs[g].pc = "cleared"
     BY <1>t, ClearingKeeps
 <2> HIDE DEF fs
 <2>6. MemoryIsOfRecord' BY <1>t, <2>1, <2>2, <2>4, MemoryStays DEF MemoryIsOfRecord
 <2>7. ASSUME gwPoll'.state = "open" PROVE OpenWaits(gwFetch)'
  <3>1. gwPoll.state = "open" /\ stopping.state = "open" /\ gwPoll' = stopping /\ OpenWaits(gwFetch) BY <2>2, <2>4, <2>7 DEF GwInv
  <3>2. ~((\E g \in Gateway : fs[g].pc = "cleared") /\ (gwJob.kind = "community" \/ \A g \in Gateway : Over(fs[g])))
      BY <2>1, <2>3, <2>7, <3>1 DEF SettledByClearing
  <3>3. CASE gwJob.kind = "community" BY <2>1, <2>5, <3>1, <3>2, <3>3 DEF OpenWaits
  <3>4. CASE gwJob.kind # "community"
   <4>1. PICK g \in Gateway : ~Over(gwFetch[g]) BY <3>1, <3>4 DEF OpenWaits
   <4>2. \E h \in Gateway : ~Over(fs[h]) BY <2>5, <3>2, <4>1 DEF Over
   <4>3. QED BY <2>1, <3>4, <4>2 DEF OpenWaits, Over
  <3>5. QED BY <3>3, <3>4
 <2>8. RequestsAreAnswered(gwFetch)' BY <2>1, <2>5 DEF RequestsAreAnswered, Valid
 <2>9. QED BY <1>t, <1>a, <2>1, <2>4, <2>5, <2>6, <2>7, <2>8 DEF GwInv, GwTypeOK
<1>10. CASE upgradeChain
 <2>1. gwPoll.state = "upgrade" /\ gwPoll' = [gwPoll EXCEPT !.state = "unchanged"] /\ UNCHANGED <<gwJob, gwFetch>> BY <1>10 DEF upgradeChain
 <2>2. gwPoll' \in GwPolls /\ gwPoll'.state = "unchanged" BY <1>t, <2>1 DEF GwPolls
 <2>3. RequestsAreAnswered(gwFetch)' BY <1>t, <2>1 DEF RequestsAreAnswered, Valid
 <2>4. gwMem.anchor # GwNothing /\ gwPoll.name = gwMem.anchor /\ gwMem.cid # GwNothing
       /\ gwMem.anchor = gwRec[gwMem.cid].anchor
     BY <1>t, <2>1 DEF MemoryIsOfRecord
 <2>5. CASE UNCHANGED gwMem
  <3>1. MemoryIsOfRecord' BY <1>t, <2>2, <2>5, MemoryStays
  <3>2. QED BY <1>t, <1>a, <2>1, <2>2, <2>3, <2>5, <3>1 DEF GwInv, GwTypeOK
 <2>6. ASSUME NEW ch \in Chains(gwPoll.name), ch.cid = gwMem.cid, gwMem' = [gwMem EXCEPT !.hops = ch.hops]
       PROVE  GwInv' /\ GwAt(gwMem'.cid) >= GwAt(gwMem.cid)
  <3>1. /\ gwMem' \in GwMemories /\ gwMem'.cid = gwMem.cid /\ gwMem'.anchor = gwMem.anchor /\ gwMem'.hops = ch.hops
      BY <1>t, <1>c, <2>6 DEF GwMemories
  <3>2. MemoryIsOfRecord' BY <1>t, <1>c, <2>2, <2>4, <2>6, <3>1 DEF MemoryIsOfRecord, HopsOfRecordHeld, Valid
  <3>3. QED BY <1>t, <1>a, <2>1, <2>2, <2>3, <3>1, <3>2 DEF GwInv, GwTypeOK
 <2>7. QED BY <1>10, <2>5, <2>6 DEF upgradeChain
<1>11. CASE endPoll
 <2>1. gwPoll' = [gwPoll EXCEPT !.state = "idle"] /\ gwFetch' = [g \in Gateway |-> Idle] /\ UNCHANGED <<gwJob, gwMem>> BY <1>11 DEF endPoll
 <2>2. gwPoll' \in GwPolls /\ gwPoll'.state = "idle" BY <1>t, <2>1 DEF GwPolls
 <2>3. Idle \in GwRequests /\ Idle.pc = "idle" /\ ~Idle.record BY DEF Idle, GwRequests, GwCids
 <2>4. gwFetch' \in [Gateway -> GwRequests] /\ RequestsAreAnswered(gwFetch)' BY <2>1, <2>3 DEF RequestsAreAnswered
 <2>5. MemoryIsOfRecord' BY <1>t, <2>1, <2>2, MemoryStays
 <2>6. QED BY <1>t, <1>a, <2>1, <2>2, <2>4, <2>5 DEF GwInv, GwTypeOK
<1>12. CASE UNCHANGED gwVars
 <2>1. UNCHANGED <<gwJob, gwMem, gwFetch, gwPoll>> BY <1>12 DEF gwVars
 <2>2. MemoryIsOfRecord' BY <1>t, <2>1, MemoryStays DEF MemoryIsOfRecord
 <2>3. RequestsAreAnswered(gwFetch)' /\ (gwPoll'.state = "open" => OpenWaits(gwFetch)')
     BY <2>1 DEF GwInv, RequestsAreAnswered, Valid, OpenWaits, Over
 <2>4. QED BY <1>t, <1>a, <2>1, <2>2, <2>3 DEF GwInv, GwTypeOK
<1>13. QED BY <1>1, <1>2, <1>3, <1>4, <1>5, <1>6, <1>7, <1>8, <1>9, <1>10, <1>11, <1>12 DEF GwNext, GatewayStep

(* A client starts with the record it holds and no chain. *)
LEMMA GwStarts == GwInit => GwInv
<1> SUFFICES ASSUME GwInit PROVE GwInv OBVIOUS
<1>1. gwJob \in GwWorkload /\ gwJob.held \in GwCids /\ gwJob.name \in GwNames /\ gwJob.polls \in Nat
    BY GwAssumption DEF GwInit, GwCids, GwNames
<1>2. Idle \in GwRequests /\ Idle.pc = "idle" /\ ~Idle.record BY DEF Idle, GwRequests, GwCids
<1>3. gwFetch \in [Gateway -> GwRequests] /\ RequestsAreAnswered(gwFetch) BY <1>2 DEF GwInit, RequestsAreAnswered
<1>4. gwMem \in GwMemories BY <1>1, GwConstants DEF GwInit, GwMemories, GwCids
<1>5. gwPoll \in GwPolls /\ gwPoll.state = "idle" BY <1>1 DEF GwInit, GwPolls, GwCids
<1>6. MemoryIsOfRecord BY <1>5 DEF GwInit, MemoryIsOfRecord, HopsOfRecordHeld
<1>7. QED BY <1>1, <1>3, <1>4, <1>5, <1>6 DEF GwInv, GwTypeOK

(* The whole invariant holds of every run. *)
THEOREM GwInvariant == GwSpec => []GwInv
<1>1. GwInv /\ [GwNext]_gwVars => GwInv' BY GwStep
<1>2. QED BY GwStarts, <1>1, PTL DEF GwSpec

(* The chain held is that of the record held, although the gateways that *)
(* race resolve different chains, and a fetch whose gateways are all done *)
(* has settled unless one served a valid record that is not newer *)
(* (_fetchCommunityFromGateways, fetchFromMultipleGateways). *)
THEOREM RaceIsSound == GwSpec => []FetchIsSound
<1>1. GwInv => FetchIsSound
 <2> SUFFICES ASSUME GwInv PROVE FetchIsSound OBVIOUS
 <2>1. HopsOfRecordHeld BY DEF GwInv, MemoryIsOfRecord
 <2>2. ASSUME gwPoll.state = "open", \A g \in Gateway : Over(gwFetch[g]) PROVE Serving(gwFetch) # {}
     BY <2>2 DEF GwInv, OpenWaits, Over, RequestsAreAnswered, Serving
 <2>3. QED BY <2>1, <2>2 DEF FetchIsSound, FetchSettles
<1>2. QED BY GwInvariant, <1>1, PTL

(* No poll takes a client back to an older record. *)
THEOREM NewestWins == GwSpec => NeverOlder
<1>1. GwInv /\ [GwNext]_gwVars => [GwAt(gwMem'.cid) >= GwAt(gwMem.cid)]_gwVars BY GwStep
<1>2. QED BY GwInvariant, <1>1, PTL DEF GwSpec, NeverOlder

----------------------------------------
(* CommentMirrors: who listens to the shared instance of a comment. *)

MirrorRecords == [state : {"stopped", "updating"}, at : Inst \cup {NoInst}, pc : {"idle", "creating", "left"}, calls : Nat]
InstRecords ==
    [cid : MirrorCid \cup {NoInst}, state : {"none", "stopped", "updating"}, n : Nat, stage : {"none", "loading", "linking", "ready"},
     community : BOOLEAN, post : Inst \cup {NoInst}, after : Inst \cup {NoInst}, pc : {"idle", "unlink", "untrack"}, late : BOOLEAN]

MirTypeOK ==
    /\ tracked \in [MirrorCid -> Inst \cup {NoInst}] /\ user \in [User -> MirrorRecords] /\ inst \in [Inst -> InstRecords]

(* The count of every instance, in use or not. *)
Counts(i) == inst[i].n = Cardinality(UsersOf(i)) + Cardinality(Hanging(i))

(* An object that has stopped mirrors nothing, except while it waits for the *)
(* instance to stop. *)
MirrorsAreHeld ==
    \A u \in User :
        /\ user[u].pc = "idle" => (user[u].state = "stopped" <=> user[u].at = NoInst)
        /\ user[u].pc = "creating" => user[u].state = "updating" /\ user[u].at = NoInst
        /\ user[u].pc = "left" => user[u].state = "stopped" /\ user[u].at # NoInst
        /\ user[u].at # NoInst => inst[user[u].at].state # "none"

(* An instance runs for somebody; one that stopped lets go of its links, *)
(* unless it was stopped while it made them.  Only the instance of a post is *)
(* started again while it stops. *)
LinksAreOwned(x) ==
    /\ x.state = "none" => x.n = 0 /\ x.stage = "none" /\ x.pc = "idle"
    /\ x.state # "none" => x.cid \in MirrorCid
    /\ x.state = "updating" => x.n > 0 /\ x.stage # "none"
    /\ (x.state = "updating" \/ x.stage = "linking") /\ x.pc # "idle" => x.cid = PostCid /\ x.stage # "loading"
    /\ x.stage = "loading" => x.state = "updating" /\ ~Linked(x)
    /\ Linked(x) => x.state # "none" /\ (x.state = "stopped" => x.late \/ x.pc = "unlink") /\ x.pc # "untrack"
    /\ Linked(x) => x.stage = "ready" \/ (x.stage = "linking" /\ x.cid = PostCid /\ x.pc = "unlink")
    /\ (x.state = "updating" /\ x.stage = "ready" /\ ~x.late) => Linked(x) /\ x.pc = "idle"
    /\ x.community => x.cid = PostCid
    /\ x.post # NoInst => x.cid = ReplyCid
    /\ x.stage = "linking" => x.state # "none"

(* A reply hangs on an instance of the post. *)
PostsAreThere ==
    \A i \in Inst : inst[i].post # NoInst => inst[inst[i].post].state # "none" /\ inst[inst[i].post].cid = PostCid

(* A registered instance runs, or is about to leave the register. *)
RegisteredRuns ==
    \A c \in MirrorCid : tracked[c] # NoInst =>
        inst[tracked[c]].cid = c /\ (inst[tracked[c]].state = "updating" \/ inst[tracked[c]].pc # "idle")

MirInv ==
    /\ MirTypeOK /\ (\A i \in Inst : Counts(i)) /\ MirrorsAreHeld /\ (\A i \in Inst : LinksAreOwned(inst[i]))
    /\ PostsAreThere /\ RegisteredRuns
----------------------------------------
(* The listeners of an instance are finitely many. *)
LEMMA ListenersAreFinite ==
    ASSUME NEW i \in Inst
    PROVE  /\ IsFiniteSet(UsersOf(i)) /\ Cardinality(UsersOf(i)) \in Nat
           /\ IsFiniteSet(Hanging(i)) /\ Cardinality(Hanging(i)) \in Nat
<1>1. IsFiniteSet(UsersOf(i)) /\ IsFiniteSet(Hanging(i)) BY MirAssumption, FS_Subset DEF UsersOf, Hanging
<1>2. QED BY <1>1, FS_CardinalityType

(* One listener more. *)
LEMMA OneMore ==
    ASSUME NEW S, IsFiniteSet(S), NEW x, x \notin S
    PROVE  Cardinality(S \cup {x}) = Cardinality(S) + 1
BY FS_AddElement

(* One listener less. *)
LEMMA OneLess ==
    ASSUME NEW S, IsFiniteSet(S), NEW x \in S
    PROVE  Cardinality(S \ {x}) = Cardinality(S) - 1 /\ Cardinality(S) > 0
<1>1. Cardinality(S \ {x}) = Cardinality(S) - 1 BY FS_RemoveElement
<1>2. Cardinality(S) \in Nat /\ Cardinality(S \ {x}) \in Nat BY FS_CardinalityType, FS_Subset
<1>3. QED BY <1>1, <1>2

(* No listener. *)
LEMMA NoneLeft ==
    ASSUME NEW S, IsFiniteSet(S), Cardinality(S) = 0
    PROVE  S = {}
BY FS_EmptySet

(* An instance nobody counts on is nobody's. *)
LEMMA CountedOut ==
    ASSUME MirInv, NEW i \in Inst
    PROVE  /\ inst[i].n = 0 => UsersOf(i) = {} /\ Hanging(i) = {}
           /\ \A u \in UsersOf(i) : inst[i].n > 0
           /\ \A j \in Hanging(i) : inst[i].n > 0
<1>1. /\ IsFiniteSet(UsersOf(i)) /\ Cardinality(UsersOf(i)) \in Nat /\ IsFiniteSet(Hanging(i)) /\ Cardinality(Hanging(i)) \in Nat
    BY ListenersAreFinite
<1>2. inst[i].n = Cardinality(UsersOf(i)) + Cardinality(Hanging(i)) BY DEF MirInv, Counts
<1>3. ASSUME inst[i].n = 0 PROVE UsersOf(i) = {} /\ Hanging(i) = {}
 <2>1. Cardinality(UsersOf(i)) = 0 /\ Cardinality(Hanging(i)) = 0 BY <1>1, <1>2, <1>3
 <2>2. QED BY <1>1, <2>1, NoneLeft
<1>4. inst[i].n \in Nat BY <1>1, <1>2
<1>5. QED BY <1>3, <1>4

(* An instance that can be made anew is nobody's, and has no links. *)
LEMMA FreeIsNobodys ==
    ASSUME MirInv, NEW i \in Free
    PROVE  /\ i \in Inst /\ inst[i].post = NoInst /\ ~inst[i].community /\ inst[i].stage # "linking"
           /\ UsersOf(i) = {} /\ Hanging(i) = {} /\ (\A u \in User : user[u].at # i) /\ (\A c \in MirrorCid : tracked[c] # i)
<1>1. i \in Inst /\ (inst[i].state = "none" \/ Collected(i))
 <2> DEFINE free == {k \in Inst : inst[k].state = "none" \/ Collected(k)}
 <2>1. free # {} /\ i = CHOOSE k \in free : TRUE BY DEF Free
 <2>2. i \in free BY <2>1
 <2>3. QED BY <2>2
<1>2. inst[i] \in InstRecords /\ LinksAreOwned(inst[i]) /\ MirrorsAreHeld /\ RegisteredRuns /\ MirTypeOK BY <1>1 DEF MirInv, MirTypeOK
<1>3. CASE inst[i].state = "none"
 <2>1. inst[i].n = 0 /\ inst[i].stage = "none" /\ inst[i].pc = "idle" /\ ~Linked(inst[i]) BY <1>2, <1>3 DEF LinksAreOwned
 <2>2. \A u \in User : user[u].at # i BY <1>1, <1>2, <1>3, MirAssumption DEF MirrorsAreHeld
 <2>3. \A c \in MirrorCid : tracked[c] # i BY <1>1, <1>2, <1>3, <2>1, MirAssumption DEF RegisteredRuns
 <2>4. QED BY <1>1, <1>2, <2>1, <2>2, <2>3, CountedOut DEF Linked, InstRecords
<1>4. CASE Collected(i) BY <1>1, <1>2, <1>4, CountedOut DEF Collected
<1>5. QED BY <1>1, <1>3, <1>4

(* update(): another mirror, or an instance to be created. *)
LEMMA Updating == ASSUME MirInv, NEW u \in User, updateComment(u) PROVE MirInv'
<1> DEFINE i == tracked[cidOf[u]]
           r == [user[u] EXCEPT !.state = "updating", !.at = i, !.calls = @ + 1, !.pc = IF i # NoInst THEN "idle" ELSE "creating"]
<1>1. /\ MirTypeOK /\ (\A j \in Inst : Counts(j)) /\ MirrorsAreHeld /\ (\A j \in Inst : LinksAreOwned(inst[j]))
      /\ PostsAreThere /\ RegisteredRuns
    BY DEF MirInv
<1>2. /\ user[u].state = "stopped" /\ user[u].pc = "idle" /\ user' = [user EXCEPT ![u] = r]
      /\ inst' = (IF i # NoInst THEN [inst EXCEPT ![i].n = @ + 1] ELSE inst) /\ tracked' = tracked
    BY <1>1 DEF updateComment, MirTypeOK, MirrorRecords
<1>3. cidOf[u] \in MirrorCid /\ i \in Inst \cup {NoInst} BY <1>1, MirAssumption DEF MirTypeOK, MirrorCid
<1>4. user[u].at = NoInst BY <1>1, <1>2 DEF MirrorsAreHeld
<1>5. r \in MirrorRecords /\ r.state = "updating" /\ r.at = i /\ (i # NoInst => r.pc = "idle") /\ (i = NoInst => r.pc = "creating")
 <2>1. user[u] \in MirrorRecords /\ user[u].calls + 1 \in Nat BY <1>1 DEF MirTypeOK, MirrorRecords
 <2> DEFINE pc == IF i # NoInst THEN "idle" ELSE "creating"
 <2>2. pc \in {"idle", "creating"} /\ (i # NoInst => pc = "idle") /\ (i = NoInst => pc = "creating") OBVIOUS
 <2>3. r = [user[u] EXCEPT !.state = "updating", !.at = i, !.calls = @ + 1, !.pc = pc] OBVIOUS
 <2> HIDE DEF i, pc, r
 <2>4. QED BY <1>3, <2>1, <2>2, <2>3 DEF MirrorRecords
<1>6. i # NoInst => inst[i].state # "none" BY <1>1, <1>3 DEF RegisteredRuns, LinksAreOwned
<1> HIDE DEF r, i
<1>7. /\ user' \in [User -> MirrorRecords] /\ user'[u] = r /\ \A v \in User : v # u => user'[v] = user[v] BY <1>1, <1>2, <1>5 DEF MirTypeOK
<1>8. /\ inst' \in [Inst -> InstRecords] /\ (\A j \in Inst : j # i => inst'[j] = inst[j])
      /\ i # NoInst => inst'[i] = [inst[i] EXCEPT !.n = @ + 1]
    BY <1>1, <1>2, <1>3 DEF MirTypeOK, InstRecords
<1>9. \A j \in Inst : /\ inst'[j].state = inst[j].state /\ inst'[j].cid = inst[j].cid /\ inst'[j].pc = inst[j].pc /\ inst'[j].stage = inst[j].stage
                      /\ inst'[j].post = inst[j].post /\ inst'[j].community = inst[j].community /\ inst'[j].late = inst[j].late
                      /\ inst'[j].n = IF j = i THEN inst[j].n + 1 ELSE inst[j].n
    BY <1>1, <1>3, <1>8, MirAssumption DEF MirTypeOK, InstRecords
<1>10. \A j \in Inst : Counts(j)'
 <2> SUFFICES ASSUME NEW j \in Inst PROVE Counts(j)' OBVIOUS
 <2>1. Hanging(j)' = Hanging(j) BY <1>9 DEF Hanging
 <2>2. CASE j # i
  <3>1. UsersOf(j)' = UsersOf(j) BY <1>4, <1>5, <1>7, <2>2, MirAssumption DEF UsersOf
  <3>2. QED BY <1>1, <1>9, <2>1, <2>2, <3>1 DEF Counts
 <2>3. CASE j = i
  <3>1. j # NoInst BY MirAssumption
  <3>2. UsersOf(j)' = UsersOf(j) \cup {u} /\ u \notin UsersOf(j) BY <1>4, <1>5, <1>7, <2>3, <3>1 DEF UsersOf
  <3>3. Cardinality(UsersOf(j)') = Cardinality(UsersOf(j)) + 1 BY <3>2, OneMore, ListenersAreFinite
  <3>4. inst'[j].n = inst[j].n + 1 BY <1>9, <2>3
  <3>5. QED BY <1>1, <2>1, <3>3, <3>4, ListenersAreFinite DEF Counts
 <2>4. QED BY <2>2, <2>3
<1>11. MirrorsAreHeld'
 <2> SUFFICES ASSUME NEW v \in User
              PROVE  /\ user'[v].pc = "idle" => (user'[v].state = "stopped" <=> user'[v].at = NoInst)
                     /\ user'[v].pc = "creating" => user'[v].state = "updating" /\ user'[v].at = NoInst
                     /\ user'[v].pc = "left" => user'[v].state = "stopped" /\ user'[v].at # NoInst
                     /\ user'[v].at # NoInst => inst'[user'[v].at].state # "none"
     BY DEF MirrorsAreHeld
 <2>1. \A k \in Inst \cup {NoInst} : k # NoInst /\ inst[k].state # "none" => inst'[k].state # "none" BY <1>9
 <2>2. user[v].at \in Inst \cup {NoInst} BY <1>1 DEF MirTypeOK, MirrorRecords
 <2>3. QED BY <1>1, <1>3, <1>5, <1>6, <1>7, <2>1, <2>2 DEF MirrorsAreHeld
<1>12. \A j \in Inst : LinksAreOwned(inst'[j])
 <2> SUFFICES ASSUME NEW j \in Inst PROVE LinksAreOwned(inst'[j]) OBVIOUS
 <2>1. inst[j].n \in Nat /\ (j = i => inst[j].state # "none") /\ LinksAreOwned(inst[j])
     BY <1>1, <1>6, MirAssumption DEF MirTypeOK, InstRecords
 <2>2. QED BY <1>9, <2>1 DEF LinksAreOwned, Linked
<1>13. PostsAreThere' /\ RegisteredRuns'
 <2>1. \A j \in Inst : inst[j].post \in Inst \cup {NoInst} BY <1>1 DEF MirTypeOK, InstRecords
 <2>2. \A c \in MirrorCid : tracked[c] \in Inst \cup {NoInst} BY <1>1 DEF MirTypeOK
 <2>3. QED BY <1>1, <1>2, <1>9, <2>1, <2>2 DEF PostsAreThere, RegisteredRuns
<1>14. MirTypeOK' BY <1>1, <1>2, <1>7, <1>8 DEF MirTypeOK
<1>15. QED BY <1>10, <1>11, <1>12, <1>13, <1>14 DEF MirInv

(* The record of an instance somebody has just made. *)
LEMMA NewRecord ==
    ASSUME NEW c \in MirrorCid
    PROVE  LET x == [NewInst(c) EXCEPT !.n = 1] IN
           /\ x \in InstRecords /\ x.cid = c /\ x.state = "updating" /\ x.stage = "loading" /\ x.n = 1 /\ x.pc = "idle"
           /\ ~x.community /\ x.post = NoInst /\ LinksAreOwned(x)
<1> DEFINE x == [NewInst(c) EXCEPT !.n = 1]
<1>1. /\ Unused \in InstRecords /\ Unused.n = 0 /\ Unused.pc = "idle" /\ Unused.community = FALSE /\ Unused.post = NoInst
    BY DEF Unused, InstRecords
<1>2. /\ x.cid = c /\ x.state = "updating" /\ x.stage = "loading" /\ x.n = 1 /\ x.pc = "idle" /\ x.community = FALSE /\ x.post = NoInst
      /\ x \in InstRecords
 <2> DEFINE y == NewInst(c)
 <2>1. /\ y \in InstRecords /\ y.cid = c /\ y.state = "updating" /\ y.stage = "loading" /\ y.pc = "idle"
       /\ y.community = FALSE /\ y.post = NoInst
     BY <1>1 DEF NewInst, InstRecords
 <2>2. x = [y EXCEPT !.n = 1] OBVIOUS
 <2> HIDE DEF x, y
 <2>3. QED BY <2>1, <2>2 DEF InstRecords
<1> HIDE DEF x
<1>3. LinksAreOwned(x) BY <1>2 DEF LinksAreOwned, Linked
<1>4. QED BY <1>2, <1>3 DEF x

(* An instance is made and filed under its cid. *)
LEMMA SettingUp == ASSUME MirInv, NEW u \in User, setUpNewUpdatingCommentInstance(u) PROVE MirInv'
<1>1. /\ MirTypeOK /\ (\A j \in Inst : Counts(j)) /\ MirrorsAreHeld /\ (\A j \in Inst : LinksAreOwned(inst[j]))
      /\ PostsAreThere /\ RegisteredRuns
    BY DEF MirInv
<1>2. cidOf[u] \in MirrorCid BY MirAssumption DEF MirrorCid
<1> DEFINE x == [NewInst(cidOf[u]) EXCEPT !.n = 1]
<1>3. PICK i \in Free : /\ inst' = [inst EXCEPT ![i] = x] /\ tracked' = [tracked EXCEPT ![cidOf[u]] = i]
                        /\ user' = [user EXCEPT ![u].at = i, ![u].pc = "idle"]
    BY DEF setUpNewUpdatingCommentInstance
<1>4. /\ i \in Inst /\ inst[i].post = NoInst /\ UsersOf(i) = {} /\ Hanging(i) = {}
      /\ (\A v \in User : user[v].at # i) /\ (\A c \in MirrorCid : tracked[c] # i) /\ i # NoInst
    BY FreeIsNobodys, MirAssumption
<1>5. /\ x \in InstRecords /\ x.cid = cidOf[u] /\ x.state = "updating" /\ x.n = 1 /\ x.pc = "idle" /\ x.post = NoInst /\ LinksAreOwned(x)
    BY <1>2, NewRecord
<1> HIDE DEF x
<1>6. user[u].pc = "creating" /\ user[u].state = "updating" /\ user[u].at = NoInst
    BY <1>1 DEF setUpNewUpdatingCommentInstance, MirrorsAreHeld
<1>7. inst' \in [Inst -> InstRecords] /\ inst'[i] = x /\ \A j \in Inst : j # i => inst'[j] = inst[j] BY <1>1, <1>3, <1>4, <1>5 DEF MirTypeOK
<1>8. /\ user' \in [User -> MirrorRecords] /\ user'[u].at = i /\ user'[u].pc = "idle" /\ user'[u].state = "updating"
      /\ \A v \in User : v # u => user'[v] = user[v]
 <2> DEFINE r == [user[u] EXCEPT !.at = i, !.pc = "idle"]
 <2>1. r \in MirrorRecords /\ r.at = i /\ r.pc = "idle" /\ r.state = user[u].state BY <1>1, <1>4 DEF MirTypeOK, MirrorRecords
 <2>2. user' = [user EXCEPT ![u] = r] BY <1>1, <1>3 DEF MirTypeOK, MirrorRecords
 <2> HIDE DEF r
 <2>3. QED BY <1>1, <1>6, <2>1, <2>2 DEF MirTypeOK
<1>9. tracked' \in [MirrorCid -> Inst \cup {NoInst}] /\ tracked'[cidOf[u]] = i /\ \A c \in MirrorCid : c # cidOf[u] => tracked'[c] = tracked[c]
    BY <1>1, <1>2, <1>3, <1>4 DEF MirTypeOK
<1>10. \A j \in Inst : Counts(j)'
 <2> SUFFICES ASSUME NEW j \in Inst PROVE Counts(j)' OBVIOUS
 <2>1. Hanging(j)' = Hanging(j) BY <1>4, <1>5, <1>7 DEF Hanging
 <2>2. CASE j # i
  <3>1. UsersOf(j)' = UsersOf(j) BY <1>6, <1>8, <2>2, MirAssumption DEF UsersOf
  <3>2. QED BY <1>1, <1>7, <2>1, <2>2, <3>1 DEF Counts
 <2>3. CASE j = i
  <3>1. UsersOf(j)' = {} \cup {u} /\ Hanging(j)' = {} BY <1>4, <1>8, <2>1, <2>3 DEF UsersOf
  <3>2. Cardinality(UsersOf(j)') = 1 /\ Cardinality(Hanging(j)') = 0 BY <3>1, FS_EmptySet, OneMore
  <3>3. QED BY <1>5, <1>7, <2>3, <3>2 DEF Counts
 <2>4. QED BY <2>2, <2>3
<1>11. MirrorsAreHeld'
 <2> SUFFICES ASSUME NEW v \in User
              PROVE  /\ user'[v].pc = "idle" => (user'[v].state = "stopped" <=> user'[v].at = NoInst)
                     /\ user'[v].pc = "creating" => user'[v].state = "updating" /\ user'[v].at = NoInst
                     /\ user'[v].pc = "left" => user'[v].state = "stopped" /\ user'[v].at # NoInst
                     /\ user'[v].at # NoInst => inst'[user'[v].at].state # "none"
     BY DEF MirrorsAreHeld
 <2>1. user[v].at \in Inst \cup {NoInst} /\ user[v].at # i BY <1>1, <1>4 DEF MirTypeOK, MirrorRecords
 <2>2. QED BY <1>1, <1>4, <1>5, <1>7, <1>8, <2>1 DEF MirrorsAreHeld
<1>12. \A j \in Inst : LinksAreOwned(inst'[j]) BY <1>1, <1>5, <1>7
<1>13. PostsAreThere'
 <2> SUFFICES ASSUME NEW j \in Inst, inst'[j].post # NoInst
              PROVE  inst'[inst'[j].post].state # "none" /\ inst'[inst'[j].post].cid = PostCid
     BY DEF PostsAreThere
 <2>1. j # i /\ inst'[j] = inst[j] /\ inst[j].post \in Inst BY <1>1, <1>5, <1>7 DEF MirTypeOK, InstRecords
 <2>2. inst[j].post # i BY <1>4, <2>1 DEF Hanging
 <2>3. QED BY <1>1, <1>7, <2>1, <2>2 DEF PostsAreThere
<1>14. RegisteredRuns'
 <2> SUFFICES ASSUME NEW c \in MirrorCid, tracked'[c] # NoInst
              PROVE  inst'[tracked'[c]].cid = c /\ (inst'[tracked'[c]].state = "updating" \/ inst'[tracked'[c]].pc # "idle")
     BY DEF RegisteredRuns
 <2>1. c # cidOf[u] => tracked[c] # i /\ tracked[c] \in Inst \cup {NoInst} BY <1>1, <1>4 DEF MirTypeOK
 <2>2. QED BY <1>1, <1>5, <1>7, <1>9, <2>1 DEF RegisteredRuns
<1>15. MirTypeOK' BY <1>7, <1>8, <1>9 DEF MirTypeOK
<1>16. QED BY <1>10, <1>11, <1>12, <1>13, <1>14, <1>15 DEF MirInv

(* One instance goes on, and neither its listeners nor its links change. *)
LEMMA InstanceGoesOn ==
    ASSUME MirInv, NEW i \in Inst, NEW x \in InstRecords, inst' = [inst EXCEPT ![i] = x], user' = user,
           x.cid = inst[i].cid, x.n = inst[i].n, x.post = inst[i].post, x.state = inst[i].state, LinksAreOwned(x),
           (tracked' = tracked /\ (x.pc # "idle" \/ inst[i].pc = "idle")) \/ tracked' = Untracked(tracked, i)
    PROVE  MirInv'
<1>1. /\ MirTypeOK /\ (\A j \in Inst : Counts(j)) /\ MirrorsAreHeld /\ (\A j \in Inst : LinksAreOwned(inst[j]))
      /\ PostsAreThere /\ RegisteredRuns
    BY DEF MirInv
<1>2. /\ inst' \in [Inst -> InstRecords] /\ inst'[i] = x /\ (\A j \in Inst : j # i => inst'[j] = inst[j])
      /\ \A j \in Inst : inst'[j].cid = inst[j].cid /\ inst'[j].n = inst[j].n /\ inst'[j].post = inst[j].post /\ inst'[j].state = inst[j].state
    BY <1>1 DEF MirTypeOK
<1>3. \A j \in Inst : UsersOf(j)' = UsersOf(j) /\ Hanging(j)' = Hanging(j) BY <1>2 DEF UsersOf, Hanging
<1>4. \A j \in Inst : Counts(j)' BY <1>1, <1>2, <1>3 DEF Counts
<1>5. MirrorsAreHeld'
 <2>1. \A v \in User : user[v].at \in Inst \cup {NoInst} BY <1>1 DEF MirTypeOK, MirrorRecords
 <2>2. QED BY <1>1, <1>2, <2>1 DEF MirrorsAreHeld
<1>6. \A j \in Inst : LinksAreOwned(inst'[j]) BY <1>1, <1>2
<1>7. PostsAreThere'
 <2>1. \A j \in Inst : inst[j].post \in Inst \cup {NoInst} BY <1>1 DEF MirTypeOK, InstRecords
 <2>2. QED BY <1>1, <1>2, <2>1 DEF PostsAreThere
<1>8. /\ tracked' \in [MirrorCid -> Inst \cup {NoInst}]
      /\ \A c \in MirrorCid : tracked'[c] # NoInst => tracked'[c] = tracked[c] /\ (tracked[c] = i => x.pc # "idle" \/ inst[i].pc = "idle")
 <2>1. tracked \in [MirrorCid -> Inst \cup {NoInst}] BY <1>1 DEF MirTypeOK
 <2>2. QED BY <2>1 DEF Untracked
<1>9. RegisteredRuns'
 <2>1. \A c \in MirrorCid : tracked[c] \in Inst \cup {NoInst} BY <1>1 DEF MirTypeOK
 <2>2. QED BY <1>1, <1>2, <1>8, <2>1 DEF RegisteredRuns
<1>10. MirTypeOK' BY <1>1, <1>2, <1>8 DEF MirTypeOK
<1>11. QED BY <1>4, <1>5, <1>6, <1>7, <1>9, <1>10 DEF MirInv

(* The comment is loaded. *)
LEMMA Loading == ASSUME MirInv, NEW i \in Inst, loadCommentIpfs(i) PROVE MirInv'
<1> DEFINE x == [inst[i] EXCEPT !.stage = "linking"]
<1>1. inst[i] \in InstRecords /\ inst \in [Inst -> InstRecords] /\ LinksAreOwned(inst[i]) BY DEF MirInv, MirTypeOK
<1>2. /\ inst[i].stage = "loading" /\ inst[i].state = "updating" /\ inst' = [inst EXCEPT ![i] = x] /\ UNCHANGED <<tracked, user>>
    BY <1>1 DEF loadCommentIpfs, InstRecords
<1>3. /\ x \in InstRecords /\ x.cid = inst[i].cid /\ x.n = inst[i].n /\ x.post = inst[i].post /\ x.state = inst[i].state
      /\ x.pc = inst[i].pc /\ x.stage = "linking" /\ x.community = inst[i].community /\ x.late = inst[i].late
    BY <1>1 DEF InstRecords
<1> HIDE DEF x
<1>4. LinksAreOwned(x) BY <1>1, <1>2, <1>3 DEF LinksAreOwned, Linked
<1>5. inst[i].pc = "idle" BY <1>1, <1>2 DEF LinksAreOwned
<1>6. QED BY <1>2, <1>3, <1>4, <1>5, InstanceGoesOn

(* The links are gone, and the register entry with them. *)
LEMMA Finishing == ASSUME MirInv, NEW i \in Inst, finishStop(i) PROVE MirInv'
<1> DEFINE x == [inst[i] EXCEPT !.pc = "idle", !.after = NoInst]
<1>1. inst[i] \in InstRecords /\ inst \in [Inst -> InstRecords] /\ LinksAreOwned(inst[i]) BY DEF MirInv, MirTypeOK
<1>2. inst[i].pc = "untrack" /\ inst' = [inst EXCEPT ![i] = x] /\ tracked' = Untracked(tracked, i) /\ user' = user
    BY <1>1 DEF finishStop, InstRecords
<1>3. /\ x \in InstRecords /\ x.cid = inst[i].cid /\ x.n = inst[i].n /\ x.post = inst[i].post /\ x.state = inst[i].state
      /\ x.pc = "idle" /\ x.stage = inst[i].stage /\ x.community = inst[i].community /\ x.late = inst[i].late
    BY <1>1 DEF InstRecords
<1> HIDE DEF x
<1>4. LinksAreOwned(x) BY <1>1, <1>2, <1>3 DEF LinksAreOwned, Linked
<1>5. QED BY <1>2, <1>3, <1>4, InstanceGoesOn

(* An object that waited for its instance is done. *)
LEMMA Returning == ASSUME MirInv, NEW u \in User, stopReturns(u) PROVE MirInv'
<1> DEFINE r == [user[u] EXCEPT !.at = NoInst, !.pc = "idle"]
<1>1. MirTypeOK /\ MirrorsAreHeld /\ user[u] \in MirrorRecords BY DEF MirInv, MirTypeOK
<1>2. user[u].pc = "left" /\ user[u].state = "stopped" /\ user' = [user EXCEPT ![u] = r] /\ tracked' = tracked /\ inst' = inst
    BY <1>1 DEF stopReturns, MirTypeOK, MirrorRecords, MirrorsAreHeld
<1>3. r \in MirrorRecords /\ r.at = NoInst /\ r.pc = "idle" /\ r.state = user[u].state BY <1>1 DEF MirrorRecords
<1> HIDE DEF r
<1>4. user' \in [User -> MirrorRecords] /\ user'[u] = r /\ \A v \in User : v # u => user'[v] = user[v] BY <1>1, <1>2, <1>3 DEF MirTypeOK
<1>5. \A j \in Inst : UsersOf(j)' = UsersOf(j) /\ Hanging(j)' = Hanging(j) BY <1>2, <1>3, <1>4, MirAssumption DEF UsersOf, Hanging
<1>6. \A j \in Inst : Counts(j)' BY <1>2, <1>5 DEF MirInv, Counts
<1>7. MirrorsAreHeld' BY <1>1, <1>2, <1>3, <1>4 DEF MirrorsAreHeld
<1>8. MirTypeOK' /\ PostsAreThere' /\ RegisteredRuns' /\ \A j \in Inst : LinksAreOwned(inst'[j])
    BY <1>2, <1>4 DEF MirInv, MirTypeOK, PostsAreThere, RegisteredRuns
<1>9. QED BY <1>6, <1>7, <1>8 DEF MirInv

(* The instance ends with an error, and so do its mirrors. *)
LEMMA Failing == ASSUME MirInv, NEW i \in Inst, loadFailsForGood(i) PROVE MirInv'
<1> DEFINE gone == {u \in User : user[u].at = i /\ user[u].pc = "idle"}
           m == inst[i].n - Cardinality(gone)
           x == [inst[i] EXCEPT !.state = "stopped", !.stage = "none", !.n = m]
           r(u) == [user[u] EXCEPT !.state = "stopped", !.at = NoInst]
<1>1. /\ MirTypeOK /\ (\A j \in Inst : Counts(j)) /\ MirrorsAreHeld /\ (\A j \in Inst : LinksAreOwned(inst[j]))
      /\ PostsAreThere /\ RegisteredRuns /\ i # NoInst
    BY MirAssumption DEF MirInv
<1>2. /\ inst[i].stage = "loading" /\ inst[i].state = "updating" /\ inst' = [inst EXCEPT ![i] = x] /\ tracked' = Untracked(tracked, i)
      /\ user' = [u \in User |-> IF user[u].at = i /\ user[u].pc = "idle" THEN r(u) ELSE user[u]]
    BY <1>1 DEF loadFailsForGood, MirTypeOK, InstRecords
<1>3. ~Linked(inst[i]) /\ inst[i].pc = "idle" /\ inst[i].cid \in MirrorCid /\ inst[i] \in InstRecords
    BY <1>1, <1>2 DEF LinksAreOwned, MirTypeOK
<1>4. gone \subseteq UsersOf(i) /\ UsersOf(i) \subseteq gone \cup {u \in User : user[u].at = i /\ user[u].pc = "creating"}
    BY <1>1 DEF UsersOf, MirTypeOK, MirrorRecords
<1>5. gone = UsersOf(i) BY <1>1, <1>4 DEF MirrorsAreHeld
<1> HIDE DEF gone
<1>6. m = Cardinality(Hanging(i)) /\ m \in Nat
 <2>1. inst[i].n = Cardinality(UsersOf(i)) + Cardinality(Hanging(i)) BY <1>1 DEF Counts
 <2>2. Cardinality(UsersOf(i)) \in Nat /\ Cardinality(Hanging(i)) \in Nat BY ListenersAreFinite
 <2>3. QED BY <1>5, <2>1, <2>2
<1> HIDE DEF m
<1>7. /\ x \in InstRecords /\ x.cid = inst[i].cid /\ x.n = m /\ x.post = inst[i].post /\ x.state = "stopped"
      /\ x.pc = "idle" /\ x.stage = "none" /\ x.community = inst[i].community /\ x.late = inst[i].late
    BY <1>3, <1>6 DEF InstRecords
<1>8. \A u \in User : r(u) \in MirrorRecords /\ r(u).at = NoInst /\ r(u).pc = user[u].pc /\ r(u).state = "stopped"
    BY <1>1 DEF MirTypeOK, MirrorRecords
<1> HIDE DEF x, r
<1>9. inst' \in [Inst -> InstRecords] /\ inst'[i] = x /\ \A j \in Inst : j # i => inst'[j] = inst[j] BY <1>1, <1>2, <1>7 DEF MirTypeOK
<1>10. /\ user' \in [User -> MirrorRecords]
       /\ \A u \in User : IF user[u].at = i /\ user[u].pc = "idle" THEN user'[u].at = NoInst /\ user'[u].pc = "idle" /\ user'[u].state = "stopped"
                                                                 ELSE user'[u] = user[u]
    BY <1>1, <1>2, <1>8 DEF MirTypeOK
<1>11. /\ tracked' \in [MirrorCid -> Inst \cup {NoInst}]
       /\ \A c \in MirrorCid : tracked'[c] # NoInst => tracked'[c] = tracked[c] /\ tracked[c] # i
    BY <1>1, <1>2 DEF MirTypeOK, Untracked
<1>12. \A j \in Inst : Counts(j)'
 <2> SUFFICES ASSUME NEW j \in Inst PROVE Counts(j)' OBVIOUS
 <2>1. Hanging(j)' = Hanging(j) BY <1>7, <1>9 DEF Hanging
 <2>2. CASE j # i
  <3>1. UsersOf(j)' = UsersOf(j) BY <1>10, <2>2, MirAssumption DEF UsersOf
  <3>2. QED BY <1>1, <1>9, <2>1, <2>2, <3>1 DEF Counts
 <2>3. CASE j = i
  <3>1. UsersOf(j)' = {} BY <1>5, <1>10, <1>1, <2>3 DEF UsersOf, gone
  <3>2. QED BY <1>6, <1>7, <1>9, <2>1, <2>3, <3>1, FS_EmptySet DEF Counts
 <2>4. QED BY <2>2, <2>3
<1>13. MirrorsAreHeld'
 <2>1. \A u \in User : user[u].at \in Inst \cup {NoInst} BY <1>1 DEF MirTypeOK, MirrorRecords
 <2>2. \A j \in Inst : inst[j].state # "none" => inst'[j].state # "none" BY <1>7, <1>9
 <2>3. QED BY <1>1, <1>10, <2>1, <2>2 DEF MirrorsAreHeld
<1>14. \A j \in Inst : LinksAreOwned(inst'[j])
 <2>1. LinksAreOwned(x) BY <1>3, <1>7 DEF LinksAreOwned, Linked
 <2>2. QED BY <1>1, <1>9, <2>1
<1>15. PostsAreThere'
 <2>1. \A j \in Inst : inst'[j].post = inst[j].post /\ inst'[j].cid = inst[j].cid /\ (inst[j].state # "none" => inst'[j].state # "none")
     BY <1>7, <1>9
 <2>2. \A j \in Inst : inst[j].post \in Inst \cup {NoInst} BY <1>1 DEF MirTypeOK, InstRecords
 <2>3. QED BY <1>1, <2>1, <2>2 DEF PostsAreThere
<1>16. RegisteredRuns'
 <2>1. \A c \in MirrorCid : tracked[c] \in Inst \cup {NoInst} BY <1>1 DEF MirTypeOK
 <2>2. QED BY <1>1, <1>9, <1>11, <2>1 DEF RegisteredRuns
<1>17. MirTypeOK' BY <1>9, <1>10, <1>11 DEF MirTypeOK
<1>18. QED BY <1>12, <1>13, <1>14, <1>15, <1>16, <1>17 DEF MirInv

(* One mirror fewer on an instance, which may stop with it. *)
LEMMA MirrorGoes ==
    ASSUME MirInv, NEW u \in User, NEW i \in Inst, NEW x \in InstRecords, NEW r \in MirrorRecords,
           user[u].at = i, user[u].pc = "idle", inst' = [inst EXCEPT ![i] = x], user' = [user EXCEPT ![u] = r],
           x.n = inst[i].n - 1, x.cid = inst[i].cid, x.post = inst[i].post, x.state # "none", LinksAreOwned(x),
           r.state = "stopped", (r.at = NoInst /\ r.pc = "idle") \/ (r.at = i /\ r.pc = "left"),
           \/ tracked' = Untracked(tracked, i)
           \/ tracked' = tracked /\ (x.state = "updating" \/ x.pc # "idle" \/ (x.state = inst[i].state /\ x.pc = inst[i].pc))
    PROVE  MirInv'
<1>1. /\ MirTypeOK /\ (\A j \in Inst : Counts(j)) /\ MirrorsAreHeld /\ (\A j \in Inst : LinksAreOwned(inst[j]))
      /\ PostsAreThere /\ RegisteredRuns /\ i # NoInst
    BY MirAssumption DEF MirInv
<1>2. inst' \in [Inst -> InstRecords] /\ inst'[i] = x /\ \A j \in Inst : j # i => inst'[j] = inst[j] BY <1>1 DEF MirTypeOK
<1>3. user' \in [User -> MirrorRecords] /\ user'[u] = r /\ \A v \in User : v # u => user'[v] = user[v] BY <1>1 DEF MirTypeOK
<1>4. /\ tracked' \in [MirrorCid -> Inst \cup {NoInst}]
      /\ \A c \in MirrorCid : tracked'[c] # NoInst => tracked'[c] = tracked[c] /\ (tracked[c] = i => x.state = "updating" \/ x.pc # "idle")
 <2>1. tracked \in [MirrorCid -> Inst \cup {NoInst}] BY <1>1 DEF MirTypeOK
 <2>2. \A c \in MirrorCid : tracked[c] = i => inst[i].state = "updating" \/ inst[i].pc # "idle" BY <1>1 DEF RegisteredRuns
 <2>3. QED BY <2>1, <2>2 DEF Untracked
<1>5. \A j \in Inst : Counts(j)'
 <2> SUFFICES ASSUME NEW j \in Inst PROVE Counts(j)' OBVIOUS
 <2>1. Hanging(j)' = Hanging(j) BY <1>2 DEF Hanging
 <2>2. CASE j # i
  <3>1. UsersOf(j)' = UsersOf(j) BY <1>1, <1>3, <2>2, MirAssumption DEF UsersOf
  <3>2. QED BY <1>1, <1>2, <2>1, <2>2, <3>1 DEF Counts
 <2>3. CASE j = i
  <3>1. UsersOf(j)' = UsersOf(j) \ {u} /\ u \in UsersOf(j) BY <1>1, <1>3, <2>3 DEF UsersOf
  <3>2. Cardinality(UsersOf(j)') = Cardinality(UsersOf(j)) - 1 BY <3>1, OneLess, ListenersAreFinite
  <3>3. QED BY <1>1, <1>2, <2>1, <2>3, <3>2, ListenersAreFinite DEF Counts
 <2>4. QED BY <2>2, <2>3
<1>6. MirrorsAreHeld'
 <2>1. \A v \in User : user[v].at \in Inst \cup {NoInst} BY <1>1 DEF MirTypeOK, MirrorRecords
 <2>2. \A j \in Inst : inst[j].state # "none" => inst'[j].state # "none" BY <1>2
 <2>3. QED BY <1>1, <1>2, <1>3, <2>1, <2>2 DEF MirrorsAreHeld
<1>7. \A j \in Inst : LinksAreOwned(inst'[j]) BY <1>1, <1>2
<1>8. PostsAreThere'
 <2>1. \A j \in Inst : inst'[j].post = inst[j].post /\ inst'[j].cid = inst[j].cid /\ (inst[j].state # "none" => inst'[j].state # "none")
     BY <1>2
 <2>2. \A j \in Inst : inst[j].post \in Inst \cup {NoInst} BY <1>1 DEF MirTypeOK, InstRecords
 <2>3. QED BY <1>1, <2>1, <2>2 DEF PostsAreThere
<1>9. RegisteredRuns'
 <2>1. \A c \in MirrorCid : tracked[c] \in Inst \cup {NoInst} BY <1>1 DEF MirTypeOK
 <2>2. QED BY <1>1, <1>2, <1>4, <2>1 DEF RegisteredRuns
<1>10. MirTypeOK' BY <1>2, <1>3, <1>4 DEF MirTypeOK
<1>11. QED BY <1>5, <1>6, <1>7, <1>8, <1>9, <1>10 DEF MirInv

(* A reply's instance gets hold of its post's instance, or lets go of it. *)
LEMMA LinkChanges ==
    ASSUME MirInv, NEW i \in Inst, NEW p \in Inst, i # p, NEW x \in InstRecords, NEW y \in InstRecords,
           inst' = [inst EXCEPT ![i] = x, ![p] = y], user' = user, LinksAreOwned(x), LinksAreOwned(y),
           x.n = inst[i].n, x.cid = inst[i].cid, x.state = inst[i].state, y.cid = PostCid, y.state # "none", y.post = NoInst, inst[p].post = NoInst,
           \/ inst[i].post = NoInst /\ x.post = p /\ y.n = Cardinality(UsersOf(p)) + Cardinality(Hanging(p)) + 1
           \/ inst[i].post = p /\ x.post = NoInst /\ y.n = Cardinality(UsersOf(p)) + Cardinality(Hanging(p)) - 1,
           tracked' \in [MirrorCid -> Inst \cup {NoInst}],
           \A c \in MirrorCid : tracked'[c] # NoInst =>
               \/ tracked'[c] = p /\ c = PostCid /\ (y.state = "updating" \/ y.pc # "idle")
               \/ tracked'[c] = tracked[c] /\ tracked[c] # p /\ (x.pc # "idle" \/ inst[i].pc = "idle")
    PROVE  MirInv'
<1>1. /\ MirTypeOK /\ (\A j \in Inst : Counts(j)) /\ MirrorsAreHeld /\ (\A j \in Inst : LinksAreOwned(inst[j]))
      /\ PostsAreThere /\ RegisteredRuns /\ i # NoInst /\ p # NoInst
    BY MirAssumption DEF MirInv
<1>2. inst' \in [Inst -> InstRecords] /\ inst'[i] = x /\ inst'[p] = y /\ \A j \in Inst : j \notin {i, p} => inst'[j] = inst[j]
    BY <1>1 DEF MirTypeOK
<1>3. \A j \in Inst : Counts(j)'
 <2> SUFFICES ASSUME NEW j \in Inst PROVE Counts(j)' OBVIOUS
 <2>1. UsersOf(j)' = UsersOf(j) BY DEF UsersOf
 <2>2. CASE j # p
  <3>1. Hanging(j)' = Hanging(j) BY <1>1, <1>2, <2>2, MirAssumption DEF Hanging
  <3>2. QED BY <1>1, <1>2, <2>1, <2>2, <3>1 DEF Counts
 <2>3. CASE j = p /\ x.post = p /\ inst[i].post = NoInst
  <3>1. Hanging(p)' = Hanging(p) \cup {i} /\ i \notin Hanging(p) BY <1>1, <1>2, <2>3 DEF Hanging
  <3>2. Cardinality(Hanging(p)') = Cardinality(Hanging(p)) + 1 BY <3>1, OneMore, ListenersAreFinite
  <3>3. y.n = Cardinality(UsersOf(p)) + Cardinality(Hanging(p)) + 1 BY <1>1, <2>3
  <3>4. Cardinality(UsersOf(p)) \in Nat /\ Cardinality(Hanging(p)) \in Nat BY ListenersAreFinite
  <3>5. QED BY <1>2, <2>1, <2>3, <3>2, <3>3, <3>4 DEF Counts
 <2>4. CASE j = p /\ x.post = NoInst /\ inst[i].post = p
  <3>1. Hanging(p)' = Hanging(p) \ {i} /\ i \in Hanging(p) BY <1>1, <1>2, <2>4 DEF Hanging
  <3>2. Cardinality(Hanging(p)') = Cardinality(Hanging(p)) - 1 BY <3>1, OneLess, ListenersAreFinite
  <3>3. y.n = Cardinality(UsersOf(p)) + Cardinality(Hanging(p)) - 1 BY <1>1, <2>4
  <3>4. Cardinality(UsersOf(p)) \in Nat /\ Cardinality(Hanging(p)) \in Nat BY ListenersAreFinite
  <3>5. QED BY <1>2, <2>1, <2>4, <3>2, <3>3, <3>4 DEF Counts
 <2>5. QED BY <2>2, <2>3, <2>4
<1>4. MirrorsAreHeld'
 <2>1. \A v \in User : user[v].at \in Inst \cup {NoInst} BY <1>1 DEF MirTypeOK, MirrorRecords
 <2>2. \A j \in Inst : inst[j].state # "none" => inst'[j].state # "none" BY <1>2
 <2>3. QED BY <1>1, <2>1, <2>2 DEF MirrorsAreHeld
<1>5. \A j \in Inst : LinksAreOwned(inst'[j]) BY <1>1, <1>2
<1>6. PostsAreThere'
 <2> SUFFICES ASSUME NEW j \in Inst, inst'[j].post # NoInst
              PROVE  inst'[inst'[j].post].state # "none" /\ inst'[inst'[j].post].cid = PostCid
     BY DEF PostsAreThere
 <2>1. inst'[j].post = p \/ (j \notin {i, p} /\ inst'[j] = inst[j] /\ inst[j].post \in Inst) BY <1>1, <1>2 DEF MirTypeOK, InstRecords
 <2>2. CASE inst'[j].post = p BY <1>2, <2>2
 <2>3. CASE inst'[j].post # p BY <1>1, <1>2, <2>1, <2>3 DEF PostsAreThere
 <2>4. QED BY <2>2, <2>3
<1>7. RegisteredRuns'
 <2> SUFFICES ASSUME NEW c \in MirrorCid, tracked'[c] # NoInst
              PROVE  inst'[tracked'[c]].cid = c /\ (inst'[tracked'[c]].state = "updating" \/ inst'[tracked'[c]].pc # "idle")
     BY DEF RegisteredRuns
 <2>1. tracked[c] \in Inst \cup {NoInst} BY <1>1 DEF MirTypeOK
 <2>2. CASE tracked'[c] = p /\ c = PostCid /\ (y.state = "updating" \/ y.pc # "idle") BY <1>2, <2>2
 <2>3. CASE tracked'[c] = tracked[c] /\ tracked[c] # p /\ (x.pc # "idle" \/ inst[i].pc = "idle")
  <3>1. inst[tracked[c]].cid = c /\ (inst[tracked[c]].state = "updating" \/ inst[tracked[c]].pc # "idle") BY <1>1, <2>3 DEF RegisteredRuns
  <3>2. CASE tracked[c] = i BY <1>2, <2>3, <3>1, <3>2
  <3>3. CASE tracked[c] # i BY <1>2, <2>1, <2>3, <3>1, <3>3
  <3>4. QED BY <3>2, <3>3
 <2>4. QED BY <2>2, <2>3
<1>8. MirTypeOK' BY <1>1, <1>2 DEF MirTypeOK
<1>9. QED BY <1>3, <1>4, <1>5, <1>6, <1>7, <1>8 DEF MirInv

(* What stop() leaves of an instance, up to its first await. *)
LEMMA Stopped ==
    ASSUME NEW z \in InstRecords, LinksAreOwned([z EXCEPT !.n = 1]), z.state = "updating"
    PROVE  LET x == StopOf(z) IN
           /\ x \in InstRecords /\ LinksAreOwned(x) /\ x.n = z.n /\ x.cid = z.cid /\ x.post = z.post /\ x.state = "stopped"
           /\ (Linked(z) => x.pc = "unlink")
<1> DEFINE pc == IF Linked(z) THEN "unlink" ELSE z.pc
           stage == IF z.stage = "loading" THEN "none" ELSE z.stage
           x == [z EXCEPT !.state = "stopped", !.pc = pc, !.stage = stage]
           w == [z EXCEPT !.n = 1]
<1>0. StopOf(z) = x BY DEF StopOf
<1>1. /\ pc \in {"idle", "unlink", "untrack"} /\ (Linked(z) => pc = "unlink") /\ (~Linked(z) => pc = z.pc)
      /\ stage \in {"none", "linking", "ready"} /\ (z.stage # "loading" => stage = z.stage)
    BY DEF InstRecords
<1> HIDE DEF pc, stage
<1>2. /\ x \in InstRecords /\ x.n = z.n /\ x.cid = z.cid /\ x.post = z.post /\ x.state = "stopped" /\ x.pc = pc /\ x.stage = stage
      /\ x.community = z.community /\ x.late = z.late
    BY <1>1 DEF InstRecords
<1>3. /\ w.cid = z.cid /\ w.state = z.state /\ w.stage = z.stage /\ w.community = z.community /\ w.post = z.post
      /\ w.pc = z.pc
    BY DEF InstRecords
<1> HIDE DEF x, w
<1>4. LinksAreOwned(w) BY DEF w
<1>5. /\ z.cid \in MirrorCid /\ (z.community => z.cid = PostCid) /\ (z.post # NoInst => z.cid = ReplyCid)
      /\ (Linked(z) => z.stage = "ready" \/ (z.stage = "linking" /\ z.cid = PostCid)) /\ (z.pc # "idle" => z.cid = PostCid)
    BY <1>3, <1>4 DEF LinksAreOwned, Linked
<1>6. Linked(x) <=> Linked(z) BY <1>2 DEF Linked
<1>7. LinksAreOwned(x) BY <1>1, <1>2, <1>5, <1>6 DEF LinksAreOwned
<1>8. QED BY <1>0, <1>1, <1>2, <1>7

(* stop() of an object: the last mirror takes the instance down. *)
LEMMA MirrorStopping == ASSUME MirInv, NEW u \in User, stopComment(u) PROVE MirInv'
<1> DEFINE i == user[u].at
           m == inst[i].n - 1
           z == [inst[i] EXCEPT !.n = m]
           left == [inst EXCEPT ![i].n = @ - 1]
<1>1. /\ inst \in [Inst -> InstRecords] /\ tracked \in [MirrorCid -> Inst \cup {NoInst}] /\ user \in [User -> MirrorRecords]
    BY DEF MirInv, MirTypeOK
<1>2. user[u].state = "updating" /\ user[u].pc = "idle" /\ i \in Inst /\ inst[i].state # "none"
    BY <1>1 DEF stopComment, MirInv, MirrorsAreHeld, MirrorRecords
<1>3. inst[i].n > 0 /\ inst[i] \in InstRecords /\ LinksAreOwned(inst[i])
 <2>1. u \in UsersOf(i) BY <1>2 DEF UsersOf
 <2>2. QED BY <1>1, <1>2, <2>1, CountedOut DEF MirInv
<1>4. m \in Nat BY <1>3 DEF InstRecords
<1>5. left = [inst EXCEPT ![i] = z] /\ left[i] = z BY <1>1, <1>2 DEF InstRecords
<1>6. \/ z.n = 0 /\ z.state # "stopped" /\ StopBegun(left, i) /\ user' = [user EXCEPT ![u].state = "stopped", ![u].pc = "left"]
      \/ /\ ~(z.n = 0 /\ z.state # "stopped") /\ inst' = left /\ user' = [user EXCEPT ![u].state = "stopped", ![u].at = NoInst]
         /\ tracked' = IF z.n = 0 THEN Untracked(tracked, i) ELSE tracked
    BY <1>5 DEF stopComment
<1> HIDE DEF m
<1>7. /\ z \in InstRecords /\ z.n = m /\ z.cid = inst[i].cid /\ z.state = inst[i].state /\ z.stage = inst[i].stage
      /\ z.community = inst[i].community /\ z.post = inst[i].post /\ z.late = inst[i].late /\ z.pc = inst[i].pc
    BY <1>3, <1>4 DEF InstRecords
<1> HIDE DEF z
<1>8. CASE z.n = 0 /\ z.state # "stopped" /\ StopBegun(left, i) /\ user' = [user EXCEPT ![u].state = "stopped", ![u].pc = "left"]
 <2> DEFINE x == StopOf(z)
            r == [user[u] EXCEPT !.state = "stopped", !.pc = "left"]
 <2>1. z.state = "updating" BY <1>2, <1>7, <1>8 DEF InstRecords
 <2>2. LinksAreOwned([z EXCEPT !.n = 1])
  <3> DEFINE w == [z EXCEPT !.n = 1]
  <3>1. /\ w.cid = z.cid /\ w.state = z.state /\ w.stage = z.stage /\ w.community = z.community /\ w.post = z.post
        /\ w.pc = z.pc /\ w.n = 1 /\ w.late = z.late
      BY <1>7 DEF InstRecords
  <3> HIDE DEF w
  <3>2. LinksAreOwned(w) BY <1>3, <1>7, <2>1, <3>1 DEF LinksAreOwned, Linked
  <3>3. QED BY <3>2 DEF w
 <2>3. /\ x \in InstRecords /\ LinksAreOwned(x) /\ x.n = z.n /\ x.cid = z.cid /\ x.post = z.post /\ x.state = "stopped"
       /\ (Linked(z) => x.pc = "unlink")
     BY <1>7, <2>1, <2>2, Stopped
 <2> HIDE DEF x, left
 <2>4. inst' = [inst EXCEPT ![i] = x] /\ tracked' = IF Linked(z) THEN tracked ELSE Untracked(tracked, i)
  <3>1. inst' = [left EXCEPT ![i] = x] /\ tracked' = IF Linked(z) THEN tracked ELSE Untracked(tracked, i) BY <1>5, <1>8 DEF StopBegun, x
  <3>2. QED BY <1>1, <1>2, <1>5, <3>1
 <2>5. r \in MirrorRecords /\ r.state = "stopped" /\ r.at = i /\ r.pc = "left" BY <1>1 DEF MirrorRecords
 <2>6. user' = [user EXCEPT ![u] = r] BY <1>1, <1>8 DEF MirrorRecords
 <2> HIDE DEF r
 <2>7. tracked' = Untracked(tracked, i) \/ (tracked' = tracked /\ x.pc # "idle") BY <2>3, <2>4
 <2> HIDE DEF i
 <2>8. QED BY <1>2, <1>7, <2>3, <2>4, <2>5, <2>6, <2>7, <1>3, <1>4, MirrorGoes DEF m, i
<1>9. CASE /\ ~(z.n = 0 /\ z.state # "stopped") /\ inst' = left /\ user' = [user EXCEPT ![u].state = "stopped", ![u].at = NoInst]
           /\ tracked' = IF z.n = 0 THEN Untracked(tracked, i) ELSE tracked
 <2> DEFINE r == [user[u] EXCEPT !.state = "stopped", !.at = NoInst]
 <2>1. r \in MirrorRecords /\ r.state = "stopped" /\ r.at = NoInst /\ r.pc = "idle" BY <1>1, <1>2 DEF MirrorRecords
 <2>2. user' = [user EXCEPT ![u] = r] BY <1>1, <1>9 DEF MirrorRecords
 <2>3. LinksAreOwned(z) BY <1>2, <1>3, <1>4, <1>7, <1>9 DEF LinksAreOwned, Linked
 <2> HIDE DEF r, left
 <2>4. inst' = [inst EXCEPT ![i] = z] /\ (tracked' = Untracked(tracked, i) \/ tracked' = tracked) BY <1>5, <1>9
 <2>5. QED BY <1>2, <1>3, <1>7, <2>1, <2>2, <2>3, <2>4, MirrorGoes DEF m
<1>10. QED BY <1>6, <1>8, <1>9

(* A loaded instance takes its links, stopped meanwhile or not. *)
LEMMA Linking == ASSUME MirInv, NEW i \in Inst, link(i) PROVE MirInv'
<1> DEFINE p == tracked[PostCid]
           late == inst[i].state # "updating"
           over == late \/ inst[i].pc # "idle"
           linked == [inst[i] EXCEPT !.stage = "ready", !.late = over]
           subscribed == inst[i].community \/ inst[i].pc = "idle"
           z == [inst[p] EXCEPT !.n = @ + 1]
<1>1. /\ inst \in [Inst -> InstRecords] /\ tracked \in [MirrorCid -> Inst \cup {NoInst}] /\ inst[i] \in InstRecords
      /\ (\A j \in Inst : Counts(j) /\ LinksAreOwned(inst[j])) /\ RegisteredRuns /\ PostCid \in MirrorCid /\ PostCid # ReplyCid
    BY MirAssumption DEF MirInv, MirTypeOK, MirrorCid
<1>2. inst[i].stage = "linking" /\ user' = user BY DEF link
<1>3. /\ inst[i].state # "none" /\ inst[i].cid \in MirrorCid /\ inst[i].post = NoInst
      /\ (inst[i].community \/ inst[i].pc # "idle" => inst[i].cid = PostCid) /\ (inst[i].community => inst[i].pc = "unlink")
    BY <1>1, <1>2 DEF LinksAreOwned, Linked
<1>4. \/ /\ inst[i].cid = PostCid /\ tracked' = tracked
         /\ inst' = [inst EXCEPT ![i] = [linked EXCEPT !.community = @ \/ inst[i].pc = "idle"]]
      \/ /\ inst[i].cid # PostCid /\ p # NoInst /\ tracked' = tracked
         /\ \/ late /\ inst' = [inst EXCEPT ![i] = [linked EXCEPT !.post = p], ![p].n = @ + 1]
            \/ inst' = [[inst EXCEPT ![i] = [linked EXCEPT !.post = p], ![p].n = @ + 1] EXCEPT ![p] = StartedAgain(@)]
      \/ inst[i].cid # PostCid /\ late /\ inst' = [inst EXCEPT ![i] = linked] /\ tracked' = tracked
      \/ /\ inst[i].cid # PostCid
         /\ \E j \in Free :
            /\ inst' = [inst EXCEPT ![i] = [linked EXCEPT !.post = j], ![j] = [NewInst(PostCid) EXCEPT !.n = 1]]
            /\ tracked' = [tracked EXCEPT ![PostCid] = j]
    BY DEF link
<1>5. over \in BOOLEAN /\ late \in BOOLEAN /\ (inst[i].state = "stopped" => over) /\ (over <=> late \/ inst[i].pc # "idle")
      /\ (late <=> inst[i].state # "updating") /\ subscribed \in BOOLEAN /\ (subscribed <=> inst[i].community \/ inst[i].pc = "idle")
    OBVIOUS
<1> HIDE DEF over, late
<1>6. /\ linked \in InstRecords /\ linked.cid = inst[i].cid /\ linked.state = inst[i].state /\ linked.n = inst[i].n /\ linked.stage = "ready"
      /\ linked.community = inst[i].community /\ linked.post = NoInst /\ linked.pc = inst[i].pc /\ linked.late = over
    BY <1>1, <1>3, <1>5 DEF InstRecords
<1> HIDE DEF linked
<1>7. ASSUME NEW q \in Inst, inst[i].cid # PostCid
      PROVE  LET x == [linked EXCEPT !.post = q] IN
             /\ x \in InstRecords /\ x.cid = inst[i].cid /\ x.state = inst[i].state /\ x.n = inst[i].n /\ x.post = q /\ x.pc = inst[i].pc
             /\ LinksAreOwned(x)
 <2> DEFINE x == [linked EXCEPT !.post = q]
 <2>1. /\ x \in InstRecords /\ x.cid = inst[i].cid /\ x.state = inst[i].state /\ x.n = inst[i].n /\ x.post = q /\ x.pc = inst[i].pc
       /\ x.stage = "ready" /\ x.community = inst[i].community /\ x.late = over
     BY <1>6 DEF InstRecords
 <2> HIDE DEF x
 <2>2. inst[i].cid = ReplyCid /\ inst[i].community = FALSE /\ inst[i].pc = "idle" BY <1>1, <1>3, <1>7 DEF MirrorCid, InstRecords
 <2>3. LinksAreOwned(x) BY <1>1, <1>3, <1>5, <2>1, <2>2, MirAssumption DEF LinksAreOwned, Linked, InstRecords
 <2>4. QED BY <2>1, <2>3 DEF x
<1>8. CASE /\ inst[i].cid = PostCid /\ tracked' = tracked
           /\ inst' = [inst EXCEPT ![i] = [linked EXCEPT !.community = @ \/ inst[i].pc = "idle"]]
 <2> DEFINE x == [linked EXCEPT !.community = subscribed]
 <2>1. inst' = [inst EXCEPT ![i] = x]
  <3>1. [linked EXCEPT !.community = @ \/ inst[i].pc = "idle"] = x BY <1>6 DEF InstRecords
  <3> HIDE DEF x
  <3>2. QED BY <1>8, <3>1
 <2> HIDE DEF subscribed
 <2>2. /\ x \in InstRecords /\ x.cid = inst[i].cid /\ x.state = inst[i].state /\ x.n = inst[i].n /\ x.post = inst[i].post /\ x.pc = inst[i].pc
       /\ x.stage = "ready" /\ x.community = subscribed /\ x.late = over
     BY <1>3, <1>5, <1>6 DEF InstRecords
 <2> HIDE DEF x
 <2>3. LinksAreOwned(x) BY <1>1, <1>2, <1>3, <1>5, <1>8, <2>2 DEF LinksAreOwned, Linked, InstRecords
 <2>4. QED BY <1>2, <1>8, <2>1, <2>2, <2>3, InstanceGoesOn
<1>9. CASE /\ inst[i].cid # PostCid /\ p # NoInst /\ tracked' = tracked
           /\ \/ late /\ inst' = [inst EXCEPT ![i] = [linked EXCEPT !.post = p], ![p].n = @ + 1]
              \/ inst' = [[inst EXCEPT ![i] = [linked EXCEPT !.post = p], ![p].n = @ + 1] EXCEPT ![p] = StartedAgain(@)]
 <2> DEFINE x == [linked EXCEPT !.post = p]
 <2>1. p \in Inst /\ inst[p].cid = PostCid /\ (inst[p].state = "updating" \/ inst[p].pc # "idle") /\ inst[p] \in InstRecords
     BY <1>1, <1>9 DEF RegisteredRuns
 <2>2. i # p BY <1>9, <2>1
 <2>3. /\ x \in InstRecords /\ x.cid = inst[i].cid /\ x.state = inst[i].state /\ x.n = inst[i].n /\ x.post = p /\ x.pc = inst[i].pc
       /\ LinksAreOwned(x)
     BY <1>7, <1>9, <2>1
 <2>4. /\ z \in InstRecords /\ z.cid = inst[p].cid /\ z.state = inst[p].state /\ z.stage = inst[p].stage /\ z.community = inst[p].community
       /\ z.post = inst[p].post /\ z.pc = inst[p].pc /\ z.late = inst[p].late /\ z.n = inst[p].n + 1
     BY <2>1 DEF InstRecords
 <2>5. PICK y \in {z, StartedAgain(z)} : inst' = [inst EXCEPT ![i] = x, ![p] = y]
  <3> DEFINE heard == [inst EXCEPT ![i] = [linked EXCEPT !.post = p], ![p].n = @ + 1]
  <3>1. heard = [inst EXCEPT ![i] = x, ![p] = z] /\ heard[p] = z BY <1>1, <2>1, <2>2
  <3>2. inst' = heard \/ inst' = [heard EXCEPT ![p] = StartedAgain(heard[p])] BY <1>9
  <3> HIDE DEF heard, x, z
  <3>3. inst' = [inst EXCEPT ![i] = x, ![p] = z] \/ inst' = [inst EXCEPT ![i] = x, ![p] = StartedAgain(z)] BY <1>1, <2>1, <2>2, <3>1, <3>2
  <3>4. QED BY <3>3
 <2> HIDE DEF x, z
 <2>6. inst[p].state # "none" /\ inst[p].post = NoInst /\ inst[p].n \in Nat BY <1>1, <2>1 DEF LinksAreOwned, InstRecords
 <2>7. /\ y \in InstRecords /\ y.cid = PostCid /\ y.pc = inst[p].pc /\ y.post = NoInst /\ y.n = inst[p].n + 1 /\ y.state # "none"
       /\ (inst[p].state = "updating" => y.state = "updating") /\ LinksAreOwned(y)
  <3>1. CASE y = z
   <4>1. LinksAreOwned(y) BY <1>1, <2>1, <2>4, <2>6, <3>1 DEF LinksAreOwned, Linked
   <4>2. QED BY <2>1, <2>4, <2>6, <3>1, <4>1
  <3>2. CASE z.state # "stopped" /\ y = StartedAgain(z)
   <4>1. y = z BY <3>2 DEF StartedAgain
   <4>2. QED BY <3>1, <4>1
  <3>3. CASE z.state = "stopped" /\ y = StartedAgain(z)
   <4>1. y = [z EXCEPT !.state = "updating", !.stage = "linking"] BY <3>3 DEF StartedAgain
   <4>2. /\ y \in InstRecords /\ y.cid = z.cid /\ y.pc = z.pc /\ y.post = z.post /\ y.n = z.n /\ y.state = "updating" /\ y.stage = "linking"
         /\ y.community = z.community /\ y.late = z.late
       BY <2>4, <4>1 DEF InstRecords
   <4>3. inst[p].pc # "idle" /\ (inst[p].community => inst[p].pc = "unlink") BY <1>1, <2>1, <2>4, <3>3 DEF LinksAreOwned, Linked, InstRecords
   <4>4. LinksAreOwned(y) BY <1>1, <2>1, <2>4, <2>6, <4>2, <4>3 DEF LinksAreOwned, Linked
   <4>5. QED BY <2>1, <2>4, <2>6, <4>2, <4>4
  <3>4. QED BY <2>5, <3>1, <3>2, <3>3
 <2>8. y.n = Cardinality(UsersOf(p)) + Cardinality(Hanging(p)) + 1 BY <1>1, <2>1, <2>7 DEF Counts
 <2>9. tracked' \in [MirrorCid -> Inst \cup {NoInst}] BY <1>1, <1>9
 <2>10. \A c \in MirrorCid : tracked'[c] # NoInst =>
              \/ tracked'[c] = p /\ c = PostCid /\ (y.state = "updating" \/ y.pc # "idle")
              \/ tracked'[c] = tracked[c] /\ tracked[c] # p /\ (x.pc # "idle" \/ inst[i].pc = "idle")
  <3> SUFFICES ASSUME NEW c \in MirrorCid, tracked[c] # NoInst, tracked[c] = p PROVE c = PostCid BY <1>9, <2>1, <2>3, <2>7
  <3>1. inst[tracked[c]].cid = c BY <1>1 DEF RegisteredRuns
  <3>2. QED BY <2>1, <3>1
 <2> HIDE DEF p
 <2>11. QED BY <1>2, <1>3, <2>1, <2>2, <2>3, <2>5, <2>6, <2>7, <2>8, <2>9, <2>10, LinkChanges
<1>10. CASE inst[i].cid # PostCid /\ late /\ inst' = [inst EXCEPT ![i] = linked] /\ tracked' = tracked
 <2>1. LinksAreOwned(linked) BY <1>1, <1>2, <1>3, <1>5, <1>6, <1>10 DEF LinksAreOwned, Linked, InstRecords
 <2>2. QED BY <1>2, <1>3, <1>6, <1>10, <2>1, InstanceGoesOn
<1>11. CASE /\ inst[i].cid # PostCid
            /\ \E j \in Free :
               /\ inst' = [inst EXCEPT ![i] = [linked EXCEPT !.post = j], ![j] = [NewInst(PostCid) EXCEPT !.n = 1]]
               /\ tracked' = [tracked EXCEPT ![PostCid] = j]
 <2> DEFINE y == [NewInst(PostCid) EXCEPT !.n = 1]
 <2>1. PICK j \in Free : inst' = [inst EXCEPT ![i] = [linked EXCEPT !.post = j], ![j] = y] /\ tracked' = [tracked EXCEPT ![PostCid] = j]
     BY <1>11
 <2> DEFINE x == [linked EXCEPT !.post = j]
 <2>2. /\ j \in Inst /\ inst[j].post = NoInst /\ inst[j].stage # "linking" /\ UsersOf(j) = {} /\ Hanging(j) = {}
       /\ (\A c \in MirrorCid : tracked[c] # j)
     BY FreeIsNobodys
 <2>3. i # j BY <1>2, <2>2
 <2>4. /\ x \in InstRecords /\ x.cid = inst[i].cid /\ x.state = inst[i].state /\ x.n = inst[i].n /\ x.post = j /\ x.pc = inst[i].pc
       /\ LinksAreOwned(x)
     BY <1>7, <1>11, <2>2
 <2>5. /\ y \in InstRecords /\ y.cid = PostCid /\ y.state = "updating" /\ y.n = 1 /\ y.post = NoInst /\ LinksAreOwned(y) BY <1>1, NewRecord
 <2>6. inst' = [inst EXCEPT ![i] = x, ![j] = y] BY <2>1
 <2> HIDE DEF x, y
 <2>7. y.n = Cardinality(UsersOf(j)) + Cardinality(Hanging(j)) + 1 BY <2>2, <2>5, FS_EmptySet
 <2>8. /\ tracked' \in [MirrorCid -> Inst \cup {NoInst}]
       /\ \A c \in MirrorCid : tracked'[c] # NoInst =>
              \/ tracked'[c] = j /\ c = PostCid /\ (y.state = "updating" \/ y.pc # "idle")
              \/ tracked'[c] = tracked[c] /\ tracked[c] # j /\ (x.pc # "idle" \/ inst[i].pc = "idle")
     BY <1>1, <2>1, <2>2, <2>4, <2>5
 <2>9. inst[i].post = NoInst /\ y.state # "none" BY <1>3, <2>5
 <2> HIDE DEF p
 <2>10. QED BY <1>2, <2>2, <2>3, <2>4, <2>5, <2>6, <2>7, <2>8, <2>9, LinkChanges
<1>12. QED BY <1>4, <1>8, <1>9, <1>10, <1>11

(* A stopped instance lets go of its community or of its post's instance. *)
LEMMA Unlinking == ASSUME MirInv, NEW i \in Inst, unlink(i) PROVE MirInv'
<1> DEFINE p == inst[i].post
           m == inst[p].n - 1
           x == [inst[i] EXCEPT !.post = NoInst, !.pc = "untrack"]
           z == [inst[p] EXCEPT !.n = m]
           q == IF Linked(z) THEN p ELSE NoInst
           left == [inst EXCEPT ![p].n = @ - 1, ![i].post = NoInst, ![i].pc = "untrack"]
<1>1. /\ inst \in [Inst -> InstRecords] /\ tracked \in [MirrorCid -> Inst \cup {NoInst}] /\ inst[i] \in InstRecords
      /\ (\A j \in Inst : Counts(j) /\ LinksAreOwned(inst[j])) /\ RegisteredRuns /\ PostsAreThere /\ PostCid # ReplyCid /\ p \in Inst \cup {NoInst}
    BY MirAssumption DEF MirInv, MirTypeOK, InstRecords
<1>2. inst[i].pc = "unlink" /\ user' = user BY DEF unlink, StopBegun
<1>3. (inst[i].state = "updating" => inst[i].cid = PostCid) /\ inst[i].state # "none" /\ inst[i].cid \in MirrorCid
    BY <1>1, <1>2 DEF LinksAreOwned, InstRecords
<1>4. CASE p = NoInst
 <2> DEFINE v == [inst[i] EXCEPT !.community = FALSE, !.pc = "untrack"]
 <2>1. inst' = [inst EXCEPT ![i] = v] /\ tracked' = tracked BY <1>1, <1>4 DEF unlink, InstRecords
 <2>2. /\ v \in InstRecords /\ v.cid = inst[i].cid /\ v.n = inst[i].n /\ v.post = inst[i].post /\ v.state = inst[i].state
       /\ v.stage = inst[i].stage /\ v.community = FALSE /\ v.pc = "untrack" /\ v.late = inst[i].late
     BY <1>1 DEF InstRecords
 <2> HIDE DEF v
 <2>3. LinksAreOwned(v) BY <1>1, <1>2, <1>3, <1>4, <2>2 DEF LinksAreOwned, Linked
 <2>4. QED BY <1>2, <2>1, <2>2, <2>3, InstanceGoesOn
<1>5. CASE p # NoInst
 <2>1. /\ p \in Inst /\ inst[p] \in InstRecords /\ inst[p].cid = PostCid /\ inst[p].state # "none" /\ inst[i].cid = ReplyCid /\ inst[i].community = FALSE
     BY <1>1, <1>5 DEF PostsAreThere, LinksAreOwned, InstRecords
 <2>2. i # p /\ inst[p].post = NoInst BY <1>1, <2>1 DEF LinksAreOwned
 <2>3. inst[p].n > 0 /\ m \in Nat /\ m = Cardinality(UsersOf(p)) + Cardinality(Hanging(p)) - 1
  <3>1. i \in Hanging(p) BY DEF Hanging
  <3>2. inst[p].n > 0 BY <2>1, <3>1, CountedOut
  <3>3. inst[p].n = Cardinality(UsersOf(p)) + Cardinality(Hanging(p)) /\ inst[p].n \in Nat BY <1>1, <2>1 DEF Counts, InstRecords
  <3>4. Cardinality(UsersOf(p)) \in Nat /\ Cardinality(Hanging(p)) \in Nat BY <2>1, ListenersAreFinite
  <3>5. QED BY <3>2, <3>3, <3>4
 <2>4. left = [inst EXCEPT ![i] = x, ![p] = z] /\ left[p] = z BY <1>1, <2>1, <2>2 DEF InstRecords
 <2>5. \/ /\ z.n = 0 /\ z.state # "stopped" /\ StopBegun([left EXCEPT ![i].after = q], p)
       \/ /\ ~(z.n = 0 /\ z.state # "stopped") /\ inst' = left
          /\ tracked' = IF z.n = 0 THEN Untracked(tracked, p) ELSE tracked
  <3>1. \/ /\ left[p].n = 0 /\ left[p].state # "stopped" /\ StopBegun([left EXCEPT ![i].after = IF Linked(left[p]) THEN p ELSE NoInst], p)
        \/ /\ ~(left[p].n = 0 /\ left[p].state # "stopped") /\ inst' = left
           /\ tracked' = IF left[p].n = 0 THEN Untracked(tracked, p) ELSE tracked
      BY <1>5 DEF unlink
  <3> HIDE DEF left, z
  <3>2. QED BY <2>4, <3>1
 <2> HIDE DEF m
 <2>6. /\ z \in InstRecords /\ z.n = m /\ z.cid = PostCid /\ z.state = inst[p].state /\ z.stage = inst[p].stage
       /\ z.community = inst[p].community /\ z.post = NoInst /\ z.late = inst[p].late /\ z.pc = inst[p].pc
     BY <2>1, <2>2, <2>3 DEF InstRecords
 <2>0. q \in Inst \cup {NoInst} BY <2>1
 <2> HIDE DEF z, q
 <2>7. \A o \in Inst \cup {NoInst} : LET w == [x EXCEPT !.after = o] IN
          /\ w \in InstRecords /\ w.n = inst[i].n /\ w.cid = inst[i].cid /\ w.state = inst[i].state /\ w.post = NoInst /\ w.pc = "untrack"
          /\ w.community = FALSE /\ w.stage = inst[i].stage
     BY <1>1, <2>1, MirAssumption DEF InstRecords
 <2>8. /\ x \in InstRecords /\ x.n = inst[i].n /\ x.cid = inst[i].cid /\ x.state = inst[i].state /\ x.post = NoInst /\ x.pc = "untrack"
       /\ x.community = FALSE /\ x.stage = inst[i].stage
     BY <1>1, <2>1, MirAssumption DEF InstRecords
 <2>9. ASSUME NEW w, w.cid = inst[i].cid, w.state = inst[i].state, w.post = NoInst, w.pc = "untrack", w.community = FALSE, w.stage = inst[i].stage
       PROVE  LinksAreOwned(w)
     BY <1>1, <1>2, <1>3, <2>1, <2>9, MirAssumption DEF LinksAreOwned, Linked
 <2>10. \A c \in MirrorCid : tracked[c] = p => c = PostCid /\ (inst[p].state = "updating" \/ inst[p].pc # "idle")
  <3> SUFFICES ASSUME NEW c \in MirrorCid, tracked[c] = p PROVE c = PostCid /\ (inst[p].state = "updating" \/ inst[p].pc # "idle") OBVIOUS
  <3>1. inst[tracked[c]].cid = c /\ (inst[tracked[c]].state = "updating" \/ inst[tracked[c]].pc # "idle") BY <1>1, <1>5 DEF RegisteredRuns
  <3>2. QED BY <2>1, <3>1
 <2>11. CASE z.n = 0 /\ z.state # "stopped" /\ StopBegun([left EXCEPT ![i].after = q], p)
  <3> DEFINE w == [x EXCEPT !.after = q]
             y == StopOf(z)
  <3>1. z.state = "updating" BY <2>1, <2>6, <2>11 DEF InstRecords
  <3>2. LinksAreOwned([z EXCEPT !.n = 1])
   <4> DEFINE v == [z EXCEPT !.n = 1]
   <4>1. /\ v.cid = z.cid /\ v.state = z.state /\ v.stage = z.stage /\ v.community = z.community /\ v.post = z.post
         /\ v.pc = z.pc /\ v.n = 1 /\ v.late = z.late
       BY <2>6 DEF InstRecords
   <4> HIDE DEF v
   <4>2. LinksAreOwned(inst[p]) /\ inst[p].community \in BOOLEAN /\ inst[p].late \in BOOLEAN BY <1>1, <2>1 DEF InstRecords
   <4>3. LinksAreOwned(v) BY <2>1, <2>2, <2>6, <3>1, <4>1, <4>2 DEF LinksAreOwned, Linked
   <4>4. QED BY <4>3 DEF v
  <3>3. /\ y \in InstRecords /\ LinksAreOwned(y) /\ y.n = z.n /\ y.cid = z.cid /\ y.post = z.post /\ y.state = "stopped"
        /\ (Linked(z) => y.pc = "unlink")
      BY <2>6, <3>1, <3>2, Stopped
  <3> HIDE DEF y
  <3>4. /\ w \in InstRecords /\ w.n = inst[i].n /\ w.cid = inst[i].cid /\ w.state = inst[i].state /\ w.post = NoInst /\ w.pc = "untrack"
        /\ LinksAreOwned(w)
   <4>1. /\ w \in InstRecords /\ w.n = inst[i].n /\ w.cid = inst[i].cid /\ w.state = inst[i].state /\ w.post = NoInst /\ w.pc = "untrack"
         /\ w.community = FALSE /\ w.stage = inst[i].stage
       BY <2>0, <2>7
   <4> HIDE DEF w
   <4>2. QED BY <2>9, <4>1
  <3> HIDE DEF x
  <3>5. [left EXCEPT ![i].after = q] = [inst EXCEPT ![i] = w, ![p] = z] BY <1>1, <2>1, <2>2, <2>4
  <3> HIDE DEF w, left
  <3>6. inst' = [inst EXCEPT ![i] = w, ![p] = y] /\ tracked' = IF Linked(z) THEN tracked ELSE Untracked(tracked, p)
   <4> DEFINE ins == [inst EXCEPT ![i] = w, ![p] = z]
   <4>1. ins[p] = z BY <1>1, <2>1
   <4>2. inst' = [ins EXCEPT ![p] = StopOf(ins[p])] /\ tracked' = IF Linked(ins[p]) THEN tracked ELSE Untracked(tracked, p)
       BY <2>11, <3>5 DEF StopBegun
   <4>3. inst' = [ins EXCEPT ![p] = y] /\ tracked' = IF Linked(z) THEN tracked ELSE Untracked(tracked, p) BY <4>1, <4>2 DEF y
   <4>4. [ins EXCEPT ![p] = y] = [inst EXCEPT ![i] = w, ![p] = y] BY <1>1, <2>1, <2>2
   <4> HIDE DEF ins
   <4>5. QED BY <4>3, <4>4
  <3>7. tracked' \in [MirrorCid -> Inst \cup {NoInst}] BY <1>1, <3>6 DEF Untracked
  <3>8. \A c \in MirrorCid : tracked'[c] # NoInst =>
             \/ tracked'[c] = p /\ c = PostCid /\ (y.state = "updating" \/ y.pc # "idle")
             \/ tracked'[c] = tracked[c] /\ tracked[c] # p /\ (w.pc # "idle" \/ inst[i].pc = "idle")
      BY <1>1, <2>10, <3>3, <3>4, <3>6 DEF Untracked
  <3>9. y.n = Cardinality(UsersOf(p)) + Cardinality(Hanging(p)) - 1 BY <2>3, <2>6, <3>3
  <3>10. inst[i].post = p /\ y.state # "none" /\ y.cid = PostCid /\ y.post = NoInst BY <2>6, <3>3
  <3> HIDE DEF p
  <3>11. QED BY <1>2, <2>1, <2>2, <3>3, <3>4, <3>6, <3>7, <3>8, <3>9, <3>10, LinkChanges
 <2>12. CASE /\ ~(z.n = 0 /\ z.state # "stopped") /\ inst' = left
             /\ tracked' = IF z.n = 0 THEN Untracked(tracked, p) ELSE tracked
  <3>1. inst' = [inst EXCEPT ![i] = x, ![p] = z] BY <2>4, <2>12
  <3>2. LinksAreOwned(x)
   <4> HIDE DEF x
   <4>1. QED BY <2>8, <2>9
  <3> HIDE DEF x, left
  <3>3. z.state = "updating" => z.n > 0 BY <2>3, <2>6, <2>12
  <3>4. LinksAreOwned(z) BY <1>1, <2>1, <2>2, <2>6, <3>3 DEF LinksAreOwned, Linked
  <3>5. tracked' \in [MirrorCid -> Inst \cup {NoInst}] BY <1>1, <2>12 DEF Untracked
  <3>6. \A c \in MirrorCid : tracked'[c] # NoInst =>
             \/ tracked'[c] = p /\ c = PostCid /\ (z.state = "updating" \/ z.pc # "idle")
             \/ tracked'[c] = tracked[c] /\ tracked[c] # p /\ (x.pc # "idle" \/ inst[i].pc = "idle")
      BY <1>1, <2>6, <2>8, <2>10, <2>12 DEF Untracked
  <3>7. z.n = Cardinality(UsersOf(p)) + Cardinality(Hanging(p)) - 1 BY <2>3, <2>6
  <3>8. QED BY <1>2, <2>1, <2>2, <2>6, <2>8, <3>1, <3>2, <3>4, <3>5, <3>6, <3>7, LinkChanges
 <2>13. QED BY <2>5, <2>11, <2>12
<1>6. QED BY <1>4, <1>5

(* Nobody mirrors anything at first. *)
LEMMA MirStarts == MirInit => MirInv
<1> SUFFICES ASSUME MirInit PROVE MirInv OBVIOUS
<1>1. /\ tracked = [c \in MirrorCid |-> NoInst] /\ inst = [i \in Inst |-> Unused]
      /\ user = [u \in User |-> [state |-> "stopped", at |-> NoInst, pc |-> "idle", calls |-> 0]]
    BY DEF MirInit
<1>2. /\ Unused \in InstRecords /\ Unused.state = "none" /\ Unused.n = 0 /\ Unused.stage = "none" /\ Unused.pc = "idle"
      /\ Unused.community = FALSE /\ Unused.post = NoInst
    BY DEF Unused, InstRecords
<1>3. /\ user \in [User -> MirrorRecords] /\ \A u \in User : user[u].state = "stopped" /\ user[u].at = NoInst /\ user[u].pc = "idle"
    BY <1>1 DEF MirrorRecords
<1>4. \A i \in Inst : inst[i] = Unused BY <1>1
<1> HIDE DEF Unused
<1>5. MirTypeOK BY <1>1, <1>2, <1>3 DEF MirTypeOK
<1>6. ASSUME NEW i \in Inst PROVE Counts(i)
 <2>1. UsersOf(i) = {} /\ Hanging(i) = {} BY <1>2, <1>3, <1>4, MirAssumption DEF UsersOf, Hanging
 <2>2. QED BY <1>2, <1>4, <2>1, FS_EmptySet DEF Counts
<1>7. (\A i \in Inst : LinksAreOwned(inst[i])) /\ PostsAreThere BY <1>2, <1>4 DEF LinksAreOwned, Linked, PostsAreThere
<1>8. MirrorsAreHeld /\ RegisteredRuns BY <1>1, <1>3 DEF MirrorsAreHeld, RegisteredRuns
<1>9. QED BY <1>5, <1>6, <1>7, <1>8 DEF MirInv

(* No step of an object or of an instance loses count. *)
LEMMA MirStep == MirInv /\ [MirNext]_mirVars => MirInv'
<1> SUFFICES ASSUME MirInv, [MirNext]_mirVars PROVE MirInv' OBVIOUS
<1>1. ASSUME NEW u \in User, updateComment(u) \/ setUpNewUpdatingCommentInstance(u) \/ stopComment(u) \/ stopReturns(u) PROVE MirInv'
    BY <1>1, Updating, SettingUp, MirrorStopping, Returning
<1>2. ASSUME NEW i \in Inst, loadCommentIpfs(i) \/ loadFailsForGood(i) \/ link(i) \/ unlink(i) \/ finishStop(i) PROVE MirInv'
    BY <1>2, Loading, Failing, Linking, Unlinking, Finishing
<1>3. CASE UNCHANGED mirVars BY <1>3 DEF mirVars, MirInv, MirTypeOK, Counts, UsersOf, Hanging, MirrorsAreHeld, PostsAreThere, RegisteredRuns
<1>4. QED BY <1>1, <1>2, <1>3 DEF MirNext

(* Every reachable state of the mirrors satisfies the invariant. *)
THEOREM MirInvariant == MirSpec => []MirInv
<1>1. QED BY MirStarts, MirStep, PTL DEF MirSpec

(* When every object has stopped and every instance is idle, the counts add *)
(* up to nothing: a reply's instance has no listener but mirrors, so none *)
(* runs, so none hangs on a post's instance, so none of those runs either. *)
LEMMA QuietIsOver == MirInv => ListenersAreCounted
<1> SUFFICES ASSUME MirInv PROVE CountIsListeners /\ NothingRunsOn /\ RunsSubscribed BY DEF ListenersAreCounted
<1>1. CountIsListeners BY DEF MirInv, Counts, CountIsListeners
<1>2. ASSUME AllQuiet, \A i \in Inst : ~inst[i].late
      PROVE  \A i \in Inst : inst[i].state # "updating" /\ ~inst[i].community /\ \A c \in MirrorCid : tracked[c] # i
 <2>1. /\ (\A i \in Inst : inst[i].pc = "idle" /\ LinksAreOwned(inst[i]) /\ inst[i] \in InstRecords /\ inst[i].late = FALSE)
       /\ (\A u \in User : user[u].at = NoInst) /\ RegisteredRuns /\ PostsAreThere /\ NoInst \notin Inst /\ PostCid # ReplyCid
     BY <1>2, MirAssumption DEF AllQuiet, MirInv, MirTypeOK, MirrorsAreHeld, InstRecords
 <2>2. \A i \in Inst : UsersOf(i) = {} BY <2>1 DEF UsersOf
 <2>3. \A i \in Inst : inst[i].state = "updating" => \E j \in Hanging(i) : TRUE
  <3> SUFFICES ASSUME NEW i \in Inst, inst[i].state = "updating", Hanging(i) = {} PROVE FALSE OBVIOUS
  <3>1. inst[i].n > 0 BY <2>1 DEF LinksAreOwned
  <3>2. inst[i].n = Cardinality(UsersOf(i)) + Cardinality(Hanging(i)) BY DEF MirInv, Counts
  <3>3. QED BY <2>2, <3>1, <3>2, FS_EmptySet
 <2>4. \A i \in Inst : inst[i].state = "updating" => inst[i].cid = PostCid
  <3> SUFFICES ASSUME NEW i \in Inst, inst[i].state = "updating" PROVE inst[i].cid = PostCid OBVIOUS
  <3>1. PICK j \in Inst : inst[j].post = i BY <2>3 DEF Hanging
  <3>2. QED BY <2>1, <3>1 DEF PostsAreThere
 <2>5. \A i \in Inst : Linked(inst[i]) => inst[i].state = "updating" BY <2>1 DEF LinksAreOwned, InstRecords
 <2>6. \A i \in Inst : inst[i].post = NoInst
  <3> SUFFICES ASSUME NEW i \in Inst, inst[i].post # NoInst PROVE FALSE OBVIOUS
  <3>1. Linked(inst[i]) /\ inst[i].cid = ReplyCid BY <2>1 DEF Linked, LinksAreOwned
  <3>2. QED BY <2>1, <2>4, <2>5, <3>1
 <2>7. \A i \in Inst : inst[i].state # "updating" BY <2>1, <2>3, <2>6 DEF Hanging
 <2>8. \A i \in Inst : ~inst[i].community BY <2>5, <2>7 DEF Linked
 <2>9. \A c \in MirrorCid, i \in Inst : tracked[c] # i BY <2>1, <2>7 DEF RegisteredRuns
 <2>10. QED BY <2>7, <2>8, <2>9
<1>3. RunsSubscribed
 <2> SUFFICES ASSUME NEW i \in Inst, inst[i].state = "updating", inst[i].stage = "ready", ~inst[i].late PROVE Linked(inst[i])
     BY DEF RunsSubscribed
 <2>1. LinksAreOwned(inst[i]) BY DEF MirInv
 <2>2. QED BY <2>1 DEF LinksAreOwned
<1>4. QED BY <1>1, <1>2, <1>3 DEF NothingRunsOn

(* The shared updating instance of a comment knows its listeners, and when *)
(* every object has stopped nothing runs on behind them, and until then none *)
(* that runs is deaf, except for what an instance linked itself to while it *)
(* was being stopped. *)
THEOREM MirrorsAreCounted == MirSpec => []ListenersAreCounted
<1>1. QED BY MirInvariant, QuietIsOver, PTL

(* What stop() leaves: a stopped instance with the count it had. *)
LEMMA StopOfIsStopped == ASSUME NEW z \in InstRecords PROVE StopOf(z).state = "stopped" /\ StopOf(z).n = z.n
<1> DEFINE pc == IF Linked(z) THEN "unlink" ELSE z.pc
           stage == IF z.stage = "loading" THEN "none" ELSE z.stage
<1>1. StopOf(z) = [z EXCEPT !.state = "stopped", !.pc = pc, !.stage = stage] BY DEF StopOf
<1> HIDE DEF pc, stage
<1>2. QED BY <1>1 DEF InstRecords

(* In one step an instance stops only with its last listener, or for a *)
(* comment that cannot be used. *)
LEMMA StopIsEarned ==
    ASSUME MirInv, MirNext, NEW k \in Inst, inst[k].state = "updating", inst'[k].state = "stopped"
    PROVE  inst'[k].n = 0 \/ inst[k].stage = "loading"
<1>1. /\ inst \in [Inst -> InstRecords] /\ tracked \in [MirrorCid -> Inst \cup {NoInst}] /\ user \in [User -> MirrorRecords]
      /\ NoInst \notin Inst
    BY MirAssumption DEF MirInv, MirTypeOK
<1>2. ASSUME NEW u \in User, updateComment(u) PROVE FALSE BY <1>1, <1>2 DEF updateComment, InstRecords
<1>3. ASSUME NEW u \in User, setUpNewUpdatingCommentInstance(u) PROVE FALSE
 <2> DEFINE x == [NewInst(cidOf[u]) EXCEPT !.n = 1]
 <2>1. PICK i \in Free : inst' = [inst EXCEPT ![i] = x] BY <1>3 DEF setUpNewUpdatingCommentInstance
 <2>2. x.state = "updating" BY NewRecord, MirAssumption DEF MirrorCid
 <2> HIDE DEF x
 <2>3. QED BY <1>1, <2>1, <2>2
<1>4. ASSUME NEW u \in User, stopReturns(u) PROVE FALSE BY <1>4 DEF stopReturns
<1>5. ASSUME NEW i \in Inst, loadCommentIpfs(i) \/ finishStop(i) PROVE FALSE BY <1>1, <1>5 DEF loadCommentIpfs, finishStop, InstRecords
<1>6. ASSUME NEW i \in Inst, loadFailsForGood(i) PROVE inst[k].stage = "loading" BY <1>1, <1>6 DEF loadFailsForGood, InstRecords
<1>7. ASSUME NEW i \in Inst, link(i) PROVE FALSE
 <2> DEFINE p == tracked[PostCid]
            over == inst[i].state # "updating" \/ inst[i].pc # "idle"
            subscribed == inst[i].community \/ inst[i].pc = "idle"
            linked == [inst[i] EXCEPT !.stage = "ready", !.late = over]
            heard == [inst EXCEPT ![i] = [linked EXCEPT !.post = p], ![p].n = @ + 1]
            x == [NewInst(PostCid) EXCEPT !.n = 1]
 <2>1. \/ inst' = [inst EXCEPT ![i] = [linked EXCEPT !.community = @ \/ inst[i].pc = "idle"]]
       \/ inst' = [inst EXCEPT ![i] = linked]
       \/ inst[i].cid # PostCid /\ p # NoInst /\ (inst' = heard \/ inst' = [heard EXCEPT ![p] = StartedAgain(heard[p])])
       \/ \E j \in Free : inst' = [inst EXCEPT ![i] = [linked EXCEPT !.post = j], ![j] = x]
     BY <1>7 DEF link
 <2>2. linked \in InstRecords /\ linked.state = inst[i].state /\ linked.community = inst[i].community
  <3>1. over \in BOOLEAN OBVIOUS
  <3> HIDE DEF over
  <3>2. QED BY <1>1, <3>1 DEF InstRecords
 <2>3. x.state = "updating" BY NewRecord DEF MirrorCid
 <2> HIDE DEF linked, x
 <2>4. \A q \in Inst : [linked EXCEPT !.post = q].state = inst[i].state /\ [linked EXCEPT !.post = q] \in InstRecords
     BY <2>2 DEF InstRecords
 <2>5. [linked EXCEPT !.community = @ \/ inst[i].pc = "idle"].state = inst[i].state BY <2>2 DEF InstRecords
 <2>6. p \in Inst \cup {NoInst} /\ (p # NoInst => inst[p].cid = PostCid) BY <1>1 DEF MirrorCid, MirInv, RegisteredRuns
 <2>7. CASE inst' = [inst EXCEPT ![i] = [linked EXCEPT !.community = @ \/ inst[i].pc = "idle"]] BY <1>1, <2>5, <2>7
 <2>8. CASE inst' = [inst EXCEPT ![i] = linked] BY <1>1, <2>2, <2>8
 <2>9. CASE inst[i].cid # PostCid /\ p # NoInst /\ (inst' = heard \/ inst' = [heard EXCEPT ![p] = StartedAgain(heard[p])])
  <3> DEFINE v == [linked EXCEPT !.post = p]
             y == [inst[p] EXCEPT !.n = @ + 1]
  <3>1. v.state = inst[i].state /\ v \in InstRecords BY <2>4, <2>6, <2>9
  <3>2. p \in Inst /\ i # p /\ inst[p] \in InstRecords BY <1>1, <2>6, <2>9
  <3>3. y.state = inst[p].state /\ y \in InstRecords BY <3>2 DEF InstRecords
  <3>4. heard = [inst EXCEPT ![i] = v, ![p] = y] /\ heard[p] = y BY <1>1, <3>2
  <3> HIDE DEF v, y
  <3>5. \A j \in Inst : heard[j].state = inst[j].state BY <1>1, <3>1, <3>2, <3>3, <3>4
  <3>6. StartedAgain(y).state # "stopped" BY <3>3 DEF StartedAgain, InstRecords
  <3> HIDE DEF p, heard
  <3>7. CASE inst' = heard BY <3>5, <3>7
  <3>8. CASE inst' = [heard EXCEPT ![p] = StartedAgain(heard[p])]
   <4>1. DOMAIN heard = Inst BY <1>1, <3>4
   <4>2. inst'[k].state = heard[k].state \/ inst'[k] = StartedAgain(y) BY <3>2, <3>4, <3>8, <4>1
   <4>3. QED BY <3>5, <3>6, <4>2
  <3>9. QED BY <2>9, <3>7, <3>8
 <2>10. CASE \E j \in Free : inst' = [inst EXCEPT ![i] = [linked EXCEPT !.post = j], ![j] = x]
  <3>1. PICK j \in Free : inst' = [inst EXCEPT ![i] = [linked EXCEPT !.post = j], ![j] = x] BY <2>10
  <3> DEFINE v == [linked EXCEPT !.post = j]
  <3>2. v.state = inst[i].state BY <2>4, FreeIsNobodys
  <3> HIDE DEF v
  <3>3. inst' = [inst EXCEPT ![i] = v, ![j] = x] BY <3>1 DEF v
  <3>4. QED BY <1>1, <2>3, <3>2, <3>3
 <2> HIDE DEF p, heard
 <2>11. QED BY <2>1, <2>7, <2>8, <2>9, <2>10
<1>8. ASSUME NEW u \in User, stopComment(u) PROVE inst'[k].n = 0
 <2> DEFINE i == user[u].at
            left == [inst EXCEPT ![i].n = @ - 1]
 <2>1. i \in Inst /\ inst[i].state # "none" BY <1>1, <1>8 DEF stopComment, MirrorRecords, MirInv, MirrorsAreHeld
 <2>2. inst[i].n > 0
  <3>1. u \in UsersOf(i) BY <1>8 DEF stopComment, UsersOf
  <3>2. QED BY <2>1, <3>1, CountedOut
 <2>3. left \in [Inst -> InstRecords] /\ left[k].state = inst[k].state BY <1>1, <2>1, <2>2 DEF InstRecords
 <2>4. inst' = left \/ (left[i].n = 0 /\ inst' = [left EXCEPT ![i] = StopOf(left[i])]) BY <1>8 DEF stopComment, StopBegun
 <2> HIDE DEF i, left
 <2>5. QED BY <2>1, <2>3, <2>4, StopOfIsStopped
<1>9. ASSUME NEW i \in Inst, unlink(i) PROVE inst'[k].n = 0
 <2> DEFINE p == inst[i].post
            left == [inst EXCEPT ![p].n = @ - 1, ![i].post = NoInst, ![i].pc = "untrack"]
            after == [left EXCEPT ![i].after = IF Linked(left[p]) THEN p ELSE NoInst]
 <2>1. CASE p = NoInst BY <1>1, <1>9, <2>1 DEF unlink, InstRecords
 <2>2. CASE p # NoInst
  <3>1. p \in Inst BY <1>1, <2>2 DEF InstRecords
  <3>2. inst[p].n > 0
   <4>1. i \in Hanging(p) BY DEF Hanging
   <4>2. QED BY <3>1, <4>1, CountedOut
  <3>3. left \in [Inst -> InstRecords] /\ left[k].state = inst[k].state
   <4> DEFINE x == [inst[i] EXCEPT !.post = NoInst, !.pc = "untrack"]
              z == [inst[p] EXCEPT !.n = @ - 1]
   <4>1. i # p BY <1>1, <2>2, <3>1, MirAssumption DEF MirInv, LinksAreOwned, PostsAreThere
   <4>2. inst[i] \in InstRecords /\ inst[p] \in InstRecords BY <1>1, <3>1
   <4>3. left = [inst EXCEPT ![i] = x, ![p] = z] BY <1>1, <3>1, <4>1, <4>2 DEF InstRecords
   <4>4. x \in InstRecords /\ x.state = inst[i].state /\ z \in InstRecords /\ z.state = inst[p].state
    <5>1. x \in InstRecords /\ x.state = inst[i].state BY <4>2 DEF InstRecords
    <5> DEFINE m == inst[p].n - 1
    <5>2. m \in Nat BY <3>2, <4>2 DEF InstRecords
    <5>3. z = [inst[p] EXCEPT !.n = m] OBVIOUS
    <5> HIDE DEF m, z, p
    <5>4. z \in InstRecords /\ z.state = inst[p].state BY <4>2, <5>2, <5>3 DEF InstRecords
    <5>5. QED BY <5>1, <5>4
   <4> HIDE DEF x, z, p, left
   <4>5. QED BY <1>1, <3>1, <4>3, <4>4
  <3>4. inst' = left \/ (left[p].n = 0 /\ inst' = [after EXCEPT ![p] = StopOf(after[p])]) BY <1>9, <2>2 DEF unlink, StopBegun
  <3> HIDE DEF left
  <3>5. after \in [Inst -> InstRecords] /\ after[k].state = left[k].state /\ after[p].n = left[p].n
   <4> DEFINE q == IF Linked(left[p]) THEN p ELSE NoInst
   <4>1. q \in Inst \cup {NoInst} /\ after = [left EXCEPT ![i].after = q] BY <3>1
   <4> HIDE DEF q, after
   <4>2. QED BY <3>1, <3>3, <4>1 DEF InstRecords
  <3> HIDE DEF after, p
  <3>6. QED BY <3>1, <3>3, <3>4, <3>5, StopOfIsStopped
 <2>3. QED BY <2>1, <2>2
<1>10. QED BY <1>2, <1>3, <1>4, <1>5, <1>6, <1>7, <1>8, <1>9 DEF MirNext

(* An instance stops only with its last listener, or for a comment that *)
(* cannot be used. *)
THEOREM StopsAreEarned == MirSpec => StopsWithLastListener
<1> DEFINE Earned == \A i \in Inst : (inst[i].state = "updating" /\ inst'[i].state = "stopped") => (inst'[i].n = 0 \/ inst[i].stage = "loading")
<1>1. MirInv /\ [MirNext]_mirVars => [Earned]_mirVars BY StopIsEarned DEF mirVars
<1>2. MirSpec => [][Earned]_mirVars BY <1>1, MirInvariant, PTL DEF MirSpec
<1>3. QED BY <1>2 DEF StopsWithLastListener

----------------------------------------
(* CommentUpdating: the newest CommentUpdate of a post and of a reply. *)

Files == {fileOf[f] : f \in Folder}
FileAt(n, i) == fileOf[Path(n, i)].at
PostRecords == [held : Nat, judged : [path : Folder \cup {NoCid}, cid : Files \cup {NoCid}], seen : Nat, stopped : BOOLEAN]
Lookups == [pc : {"none", "range", "resolve", "fetch", "verify", "over"}, i : Nat \ {0}, cid : Files \cup {NoCid},
            known : Files \cup {NoCid}, aborted : BOOLEAN, outcome : {"none", "current", "failed", "aborted"}]
InFile(l) == l.pc \in {"range", "resolve", "fetch", "verify"}

PostTypeOK ==
    /\ cuJob \in CuWorkload /\ post \in PostRecords
    /\ lookup \in [DOMAIN cuJob.records -> Lookups]
    /\ \A n \in DOMAIN lookup : InFile(lookup[n]) => lookup[n].i \in DOMAIN cuJob.records[n].ranges

(* What is judged is held, and so is the cid a lookup compares with; a cid *)
(* that was resolved is that of the file it is remembered for. *)
JudgedInv ==
    /\ post.judged.path # NoCid => fileOf[post.judged.path].at \in 1..post.held
    /\ post.judged.cid # NoCid => post.judged.path # NoCid /\ post.judged.cid = fileOf[post.judged.path]

LookupInv(n) ==
    /\ lookup[n].pc = "resolve" /\ lookup[n].known # NoCid => lookup[n].known.at <= post.held
    /\ lookup[n].pc \in {"fetch", "verify"} /\ lookup[n].cid # NoCid => lookup[n].cid = fileOf[Path(n, lookup[n].i)]
    /\ lookup[n].pc = "verify" => FileAt(n, lookup[n].i) > 0
    /\ lookup[n].outcome = "current" => lookup[n].pc = "over" /\ \A at \in Reachable(n) : at <= post.held

PostInv == PostTypeOK /\ JudgedInv /\ \A n \in DOMAIN lookup : LookupInv(n)

LEMMA InSequence ==
    ASSUME NEW S, NEW s \in Seq(S), NEW i \in DOMAIN s
    PROVE  s[i] \in S
OBVIOUS

(* A record of the workload names folders, and the post is in one of them. *)
LEMMA RecordFacts ==
    ASSUME PostTypeOK, NEW n \in DOMAIN cuJob.records
    PROVE  /\ cuJob.records \in Seq([pages : Nat, ranges : Seq(Folder)])
           /\ cuJob.records[n].pages \in Nat /\ cuJob.records[n].ranges \in Seq(Folder)
           /\ RecordIsCoherent(cuJob.records[n])
           /\ \A i \in DOMAIN cuJob.records[n].ranges : Path(n, i) \in Folder /\ FileAt(n, i) \in Nat
<1>1. cuJob.records \in Seq([pages : Nat, ranges : Seq(Folder)]) /\ RecordIsCoherent(cuJob.records[n]) BY CuAssumption DEF PostTypeOK
<1>2. cuJob.records[n] \in [pages : Nat, ranges : Seq(Folder)] BY <1>1, InSequence, Zenon
<1>3. \A i \in DOMAIN cuJob.records[n].ranges : cuJob.records[n].ranges[i] \in Folder BY <1>2
<1> QED BY <1>1, <1>2, <1>3, CuAssumption DEF Path, FileAt

(* Who has the file of one folder has what the record has. *)
LEMMA OneFile ==
    ASSUME PostTypeOK, NEW n \in DOMAIN cuJob.records, NEW i \in DOMAIN cuJob.records[n].ranges,
           NEW h \in Nat, 0 < FileAt(n, i), FileAt(n, i) <= h
    PROVE  \A at \in Reachable(n) : at <= h
<1> SUFFICES ASSUME NEW j \in DOMAIN cuJob.records[n].ranges PROVE FileAt(n, j) <= h BY DEF Reachable, FileAt
<1>1. FileAt(n, j) \in Nat /\ RecordIsCoherent(cuJob.records[n]) BY RecordFacts
<1>2. CASE FileAt(n, j) = 0 BY <1>2
<1>3. CASE FileAt(n, j) > 0 BY <1>1, <1>3 DEF RecordIsCoherent, FileAt, Path
<1> QED BY <1>1, <1>2, <1>3

(* Pages that hold the update held come with its file, and with no other. *)
LEMMA PagesCarryFile ==
    ASSUME PostTypeOK, NEW n \in DOMAIN cuJob.records, NEW h \in Nat, cuJob.records[n].pages = h, h > 0
    PROVE  /\ \A at \in Reachable(n) : at <= h
           /\ cuJob.records[n].ranges # << >> => Path(n, 1) \in Folder /\ FileAt(n, 1) = h
<1>1. CASE cuJob.records[n].ranges = << >> BY <1>1 DEF Reachable
<1>2. CASE cuJob.records[n].ranges # << >>
 <2>1. 1 \in DOMAIN cuJob.records[n].ranges BY <1>2, RecordFacts
 <2>2. Path(n, 1) \in Folder /\ FileAt(n, 1) = h BY <2>1, <1>2, RecordFacts DEF RecordIsCoherent, FileAt, Path
 <2> QED BY <2>1, <2>2, OneFile
<1> QED BY <1>1, <1>2

(* A lookup whose part of the invariant a step leaves alone keeps it. *)
LEMMA LookupRests ==
    ASSUME PostInv, NEW n \in DOMAIN lookup, cuJob' = cuJob, post'.held \in Nat, post'.held >= post.held,
           lookup'[n] = lookup[n] \/ lookup'[n] = [lookup[n] EXCEPT !.aborted = TRUE] \/
           lookup'[n] = [lookup[n] EXCEPT !.aborted = FALSE]
    PROVE  LookupInv(n)'
<1>1. lookup[n] \in Lookups /\ post.held \in Nat /\ DOMAIN lookup = DOMAIN cuJob.records /\ n \in DOMAIN cuJob.records
    BY DEF PostInv, PostTypeOK, PostRecords
<1>2. /\ lookup'[n].pc = lookup[n].pc /\ lookup'[n].known = lookup[n].known /\ lookup'[n].cid = lookup[n].cid
      /\ lookup'[n].i = lookup[n].i /\ lookup'[n].outcome = lookup[n].outcome
    BY <1>1 DEF Lookups
<1>3. \A f \in Files : f.at \in Nat BY CuAssumption DEF Files
<1>4. \A at \in Reachable(n) : at \in Nat BY <1>1, RecordFacts DEF PostInv, Reachable, FileAt
<1>5. Path(n, lookup[n].i)' = Path(n, lookup[n].i) /\ Reachable(n)' = Reachable(n) BY <1>2 DEF Path, Reachable
<1>6. LookupInv(n) BY DEF PostInv
<1>7. lookup[n].known \in Files \cup {NoCid} BY <1>1 DEF Lookups
<1>8. lookup'[n].pc = "resolve" /\ lookup'[n].known # NoCid => lookup'[n].known.at <= post'.held
    BY <1>1, <1>2, <1>3, <1>6, <1>7 DEF LookupInv
<1>9. lookup'[n].outcome = "current" => \A at \in Reachable(n) : at <= post'.held BY <1>1, <1>2, <1>4, <1>6 DEF LookupInv
<1> QED BY <1>2, <1>5, <1>6, <1>8, <1>9 DEF LookupInv, FileAt

LEMMA PostInitially == CuInit => PostInv
<1> SUFFICES ASSUME CuInit PROVE PostInv OBVIOUS
<1>1. post \in PostRecords BY DEF CuInit, PostRecords
<1>2. NoLookup \in Lookups BY DEF NoLookup, Lookups
<1>3. PostTypeOK BY <1>1, <1>2 DEF CuInit, PostTypeOK, NoLookup, InFile
<1> QED BY <1>3 DEF CuInit, PostInv, JudgedInv, LookupInv, NoLookup

(* A step of the n-th lookup that leaves the others as they are. *)
LEMMA OneLookup ==
    ASSUME PostInv, NEW n \in DOMAIN lookup, cuJob' = cuJob, NEW l \in Lookups, lookup' = [lookup EXCEPT ![n] = l],
           l.i \in DOMAIN cuJob.records[n].ranges,
           post' \in PostRecords, post'.held >= post.held, JudgedInv', LookupInv(n)'
    PROVE  PostInv'
<1>1. PostTypeOK' BY DEF PostInv, PostTypeOK
<1>2. \A m \in DOMAIN lookup : LookupInv(m)' BY LookupRests DEF PostInv, PostTypeOK, PostRecords
<1>3. DOMAIN lookup' = DOMAIN lookup OBVIOUS
<1> QED BY <1>1, <1>2, <1>3 DEF PostInv

LEMMA Advancing ==
    ASSUME PostInv, NEW n \in DOMAIN lookup, InFile(lookup[n])
    PROVE  /\ NextRange(n, lookup[n]) \in Lookups
           /\ NextRange(n, lookup[n]).i \in DOMAIN cuJob.records[n].ranges
           /\ NextRange(n, lookup[n]).pc \in {"over", "range"} /\ NextRange(n, lookup[n]).outcome # "current"
<1>1. lookup[n] \in Lookups /\ n \in DOMAIN cuJob.records /\ lookup[n].i \in DOMAIN cuJob.records[n].ranges BY DEF PostInv, PostTypeOK
<1>2. cuJob.records[n].ranges \in Seq(Folder) BY <1>1, RecordFacts DEF PostInv
<1>3. lookup[n].i # Len(cuJob.records[n].ranges) => lookup[n].i + 1 \in DOMAIN cuJob.records[n].ranges BY <1>1, <1>2
<1>4. lookup[n].i + 1 \in Nat \ {0} BY <1>1 DEF Lookups
<1>5. lookup[n].outcome # "current" BY DEF PostInv, LookupInv, InFile
<1> QED BY <1>1, <1>3, <1>4, <1>5 DEF NextRange, End, Lookups, InFile

LEMMA TryRangeStep ==
    ASSUME PostInv, NEW n \in DOMAIN lookup, tryRange(n)
    PROVE  PostInv'
<1> DEFINE l == lookup[n]
           next == IF l.aborted THEN End(l, "aborted")
                   ELSE IF post.judged.path = Path(n, l.i) THEN End(l, "current")
                   ELSE [l EXCEPT !.pc = "resolve", !.known = post.judged.cid]
<1>1. /\ l \in Lookups /\ l.pc = "range" /\ InFile(l) /\ n \in DOMAIN cuJob.records
      /\ l.i \in DOMAIN cuJob.records[n].ranges /\ post \in PostRecords /\ post.held \in Nat
      /\ l.outcome # "current" /\ PostTypeOK
    BY DEF PostInv, PostTypeOK, tryRange, InFile, PostRecords, LookupInv
<1>2. lookup' = [lookup EXCEPT ![n] = next] /\ cuJob' = cuJob /\ post' = post BY DEF tryRange
<1>3. next \in Lookups /\ next.i \in DOMAIN cuJob.records[n].ranges BY <1>1 DEF End, Lookups, InFile, PostRecords
<1>4. lookup'[n] = next BY <1>2
<1>5. Reachable(n)' = Reachable(n) BY <1>2 DEF Reachable, Path
<1>6. Path(n, l.i) \in Folder BY <1>1, RecordFacts
<1>7. JudgedInv' BY <1>2 DEF PostInv, JudgedInv
<1>8. next.pc = "resolve" /\ next.known # NoCid => next.known.at <= post.held
 <2> SUFFICES ASSUME next.pc = "resolve", next.known # NoCid PROVE next.known.at <= post.held OBVIOUS
 <2>1. next.known = post.judged.cid BY <1>1 DEF End, Lookups
 <2> QED BY <2>1, <1>1 DEF PostInv, JudgedInv
<1>9. ASSUME next.outcome = "current" PROVE next.pc = "over" /\ \A at \in Reachable(n) : at <= post.held
 <2>1. post.judged.path = Path(n, l.i) /\ next.pc = "over" BY <1>1, <1>9 DEF End, Lookups
 <2>2. FileAt(n, l.i) \in 1..post.held BY <2>1, <1>6, CuAssumption DEF PostInv, JudgedInv, FileAt
 <2> QED BY <1>1, <2>1, <2>2, OneFile
<1>10. LookupInv(n)' BY <1>1, <1>2, <1>4, <1>5, <1>8, <1>9 DEF LookupInv, End, Lookups
<1>11. post' \in PostRecords /\ post'.held >= post.held BY <1>1, <1>2
<1>12. next.i \in DOMAIN cuJob.records[n].ranges BY <1>3
<1> HIDE DEF next
<1> QED BY <1>2, <1>3, <1>7, <1>10, <1>11, <1>12, OneLookup

LEMMA ResolveStep ==
    ASSUME PostInv, NEW n \in DOMAIN lookup, resolveFile(n)
    PROVE  PostInv'
<1> DEFINE l == lookup[n]
           f == Path(n, l.i)
<1>1. /\ l \in Lookups /\ l.pc = "resolve" /\ InFile(l) /\ n \in DOMAIN cuJob.records
      /\ l.i \in DOMAIN cuJob.records[n].ranges /\ post \in PostRecords /\ post.held \in Nat
      /\ l.outcome # "current" /\ PostTypeOK /\ cuJob' = cuJob
    BY DEF PostInv, PostTypeOK, resolveFile, InFile, PostRecords, LookupInv
<1>2. PICK cid \in {FileCid(f), NoCid} :
        IF ~l.aborted /\ cid # NoCid /\ cid = l.known
        THEN /\ post' = [post EXCEPT !.judged = [path |-> f, cid |-> cid]]
             /\ lookup' = [lookup EXCEPT ![n] = End(l, "current")]
        ELSE /\ lookup' = [lookup EXCEPT ![n] = IF l.aborted THEN End(l, "aborted") ELSE [l EXCEPT !.pc = "fetch", !.cid = cid]]
             /\ UNCHANGED post
    BY DEF resolveFile
<1>3. f \in Folder /\ FileAt(n, l.i) \in Nat /\ Reachable(n)' = Reachable(n) /\ fileOf[f] \in Files
    BY <1>1, RecordFacts DEF Reachable, Path, Files
<1>4. cid \in Files \cup {NoCid} /\ (cid # NoCid => cid = fileOf[f] /\ FileAt(n, l.i) > 0) BY <1>2, <1>3 DEF FileCid, FileAt
<1>5. CASE ~l.aborted /\ cid # NoCid /\ cid = l.known
 <2>1. lookup' = [lookup EXCEPT ![n] = End(l, "current")] /\ post' = [post EXCEPT !.judged = [path |-> f, cid |-> cid]] BY <1>2, <1>5
 <2>2. End(l, "current") \in Lookups /\ End(l, "current").i = l.i BY <1>1 DEF End, Lookups, InFile
 <2>3. l.known.at <= post.held BY <1>1, <1>5 DEF PostInv, LookupInv
 <2>4. FileAt(n, l.i) \in 1..post.held BY <2>3, <1>1, <1>3, <1>4, <1>5 DEF FileAt
 <2>5. post' \in PostRecords /\ post'.held = post.held /\ post'.judged = [path |-> f, cid |-> cid] BY <2>1, <1>1, <1>3, <1>4 DEF PostRecords
 <2>6. JudgedInv'
  <3>1. fileOf[f].at \in 1..post.held BY <2>4 DEF FileAt
  <3> HIDE DEF f
  <3>2. post'.judged.path = f /\ post'.judged.cid = cid /\ post'.held = post.held BY <2>5
  <3> QED BY <3>1, <3>2, <1>3, <1>4, CuAssumption DEF JudgedInv
 <2>7. lookup'[n] = End(l, "current") BY <2>1
 <2>8. \A at \in Reachable(n) : at <= post.held BY <1>1, <2>4, OneFile
 <2>9. LookupInv(n)' BY <2>5, <2>7, <2>8, <1>1, <1>3 DEF LookupInv, End, Lookups
 <2>10. cuJob' = cuJob /\ post'.held >= post.held BY <1>1, <2>5
 <2>11. End(l, "current").i \in DOMAIN cuJob.records[n].ranges BY <1>1, <2>2
 <2> QED BY <2>1, <2>2, <2>5, <2>6, <2>9, <2>10, <2>11, OneLookup
<1>6. CASE ~(~l.aborted /\ cid # NoCid /\ cid = l.known)
 <2> DEFINE next == IF l.aborted THEN End(l, "aborted") ELSE [l EXCEPT !.pc = "fetch", !.cid = cid]
 <2>1. lookup' = [lookup EXCEPT ![n] = next] /\ post' = post /\ lookup'[n] = next BY <1>2, <1>6
 <2>2. next \in Lookups /\ next.i \in DOMAIN cuJob.records[n].ranges BY <1>1, <1>4 DEF End, Lookups, InFile
 <2>3. JudgedInv' BY <2>1 DEF PostInv, JudgedInv
 <2>4. next.outcome # "current" /\ next.i = l.i /\ next.pc \in {"over", "fetch"} /\ (next.pc = "fetch" => next.cid = cid)
     BY <1>1 DEF End, Lookups
 <2>5. Path(n, l.i)' = Path(n, l.i) BY <1>1, <2>1, <2>4 DEF Path
 <2>6. LookupInv(n)' BY <2>1, <2>4, <1>1, <1>4 DEF LookupInv, Path
 <2>7. cuJob' = cuJob /\ post' \in PostRecords /\ post'.held >= post.held BY <1>1, <2>1
 <2>8. next \in Lookups /\ next.i \in DOMAIN cuJob.records[n].ranges BY <2>2
 <2> HIDE DEF next
 <2> QED BY <2>1, <2>8, <2>3, <2>6, <2>7, OneLookup
<1> QED BY <1>5, <1>6

LEMMA TimeOutStep ==
    ASSUME PostInv, NEW n \in DOMAIN lookup, InFile(lookup[n]), cuJob' = cuJob, post' = post,
           lookup' = [lookup EXCEPT ![n] = NextRange(n, lookup[n])]
    PROVE  PostInv'
<1>1. post \in PostRecords /\ post.held \in Nat /\ JudgedInv' /\ lookup'[n] = NextRange(n, lookup[n])
    BY DEF PostInv, PostTypeOK, PostRecords, JudgedInv
<1>2. LookupInv(n)' BY <1>1, Advancing DEF LookupInv
<1>3. post' \in PostRecords /\ post'.held >= post.held BY <1>1
<1> QED BY <1>1, <1>2, <1>3, Advancing, OneLookup

LEMMA FetchStep ==
    ASSUME PostInv, NEW n \in DOMAIN lookup, fetchFile(n)
    PROVE  PostInv'
<1> DEFINE l == lookup[n]
           f == Path(n, l.i)
<1>1. /\ l \in Lookups /\ l.pc = "fetch" /\ InFile(l) /\ n \in DOMAIN cuJob.records
      /\ l.i \in DOMAIN cuJob.records[n].ranges /\ post \in PostRecords /\ post.held \in Nat
      /\ l.outcome # "current" /\ PostTypeOK /\ cuJob' = cuJob
    BY DEF PostInv, PostTypeOK, fetchFile, InFile, PostRecords, LookupInv
<1>2. f \in Folder /\ FileAt(n, l.i) \in Nat /\ Reachable(n)' = Reachable(n) BY <1>1, RecordFacts DEF Reachable, Path
<1>3. l.cid \in Files \cup {NoCid} /\ (l.cid # NoCid => l.cid = fileOf[f]) BY <1>1 DEF PostInv, LookupInv, Lookups
<1>4. CASE lookup' = [lookup EXCEPT ![n] = NextRange(n, l)] /\ post' = post BY <1>1, <1>4, TimeOutStep
<1>5. CASE /\ FileAt(n, l.i) > 0 /\ FileAt(n, l.i) <= post.held
           /\ post' = Judged(post, n, l) /\ lookup' = [lookup EXCEPT ![n] = End(l, "current")]
 <2>1. End(l, "current") \in Lookups /\ End(l, "current").i = l.i /\ lookup'[n] = End(l, "current") BY <1>1, <1>5 DEF End, Lookups, InFile
 <2>2. post' \in PostRecords /\ post'.held = post.held /\ post'.judged = [path |-> f, cid |-> l.cid]
     BY <1>1, <1>2, <1>3, <1>5 DEF PostRecords, Judged
 <2>3. fileOf[f].at \in 1..post.held BY <1>1, <1>2, <1>5 DEF FileAt
 <2>4. \A at \in Reachable(n) : at <= post.held BY <1>1, <1>5, OneFile
 <2>5. LookupInv(n)' BY <2>1, <2>2, <2>4, <1>1, <1>2 DEF LookupInv, End, Lookups
 <2>6. JudgedInv'
  <3> HIDE DEF f
  <3>1. post'.judged.path = f /\ post'.judged.cid = l.cid BY <2>2
  <3> QED BY <2>2, <2>3, <3>1, <1>2, <1>3, CuAssumption DEF JudgedInv
 <2>7. post'.held >= post.held BY <1>1, <2>2
 <2> QED BY <1>1, <1>5, <2>1, <2>2, <2>5, <2>6, <2>7, OneLookup
<1>6. CASE FileAt(n, l.i) > post.held /\ lookup' = [lookup EXCEPT ![n].pc = "verify"] /\ post' = post
 <2> DEFINE next == [l EXCEPT !.pc = "verify"]
 <2>1. next \in Lookups /\ next.i = l.i /\ next.cid = l.cid /\ next.outcome = l.outcome /\ next.pc = "verify" BY <1>1 DEF Lookups
 <2>2. lookup' = [lookup EXCEPT ![n] = next] /\ lookup'[n] = next BY <1>1, <1>6
 <2>3. JudgedInv' /\ post' \in PostRecords /\ post'.held >= post.held BY <1>1, <1>6 DEF PostInv, JudgedInv
 <2>4. next.i \in DOMAIN cuJob.records[n].ranges BY <1>1, <2>1
 <2> HIDE DEF next
 <2>5. LookupInv(n)'
  <3>1. FileAt(n, l.i) > 0 BY <1>1, <1>2, <1>6
  <3>2. lookup'[n].i = l.i /\ lookup'[n].cid = l.cid /\ lookup'[n].outcome = l.outcome /\ lookup'[n].pc = "verify" BY <2>1, <2>2
  <3> QED BY <3>1, <3>2, <1>1, <1>3 DEF LookupInv, FileAt, Path
 <2> QED BY <1>1, <2>1, <2>2, <2>3, <2>4, <2>5, OneLookup
<1> QED BY <1>4, <1>5, <1>6 DEF fetchFile, FileAt

LEMMA VerifyStep ==
    ASSUME PostInv, NEW n \in DOMAIN lookup, verifyFile(n)
    PROVE  PostInv'
<1> DEFINE l == lookup[n]
           f == Path(n, l.i)
           at == FileAt(n, l.i)
<1>1. /\ l \in Lookups /\ l.pc = "verify" /\ InFile(l) /\ n \in DOMAIN cuJob.records
      /\ l.i \in DOMAIN cuJob.records[n].ranges /\ post \in PostRecords /\ post.held \in Nat
      /\ l.outcome # "current" /\ PostTypeOK /\ cuJob' = cuJob /\ at > 0
    BY DEF PostInv, PostTypeOK, verifyFile, InFile, PostRecords, LookupInv
<1>2. f \in Folder /\ at \in Nat /\ Reachable(n)' = Reachable(n) BY <1>1, RecordFacts DEF Reachable, Path
<1>3. l.cid \in Files \cup {NoCid} /\ (l.cid # NoCid => l.cid = fileOf[f]) BY <1>1 DEF PostInv, LookupInv, Lookups
<1>4. CASE post' = useLoadedPost(Judged(post, n, l), at) /\ lookup' = [lookup EXCEPT ![n] = End(l, "current")]
 <2>1. End(l, "current") \in Lookups /\ End(l, "current").i = l.i /\ lookup'[n] = End(l, "current") BY <1>1, <1>4 DEF End, Lookups, InFile
 <2>2. /\ Judged(post, n, l) \in PostRecords /\ Judged(post, n, l).held = post.held
       /\ Judged(post, n, l).judged = [path |-> f, cid |-> l.cid]
     BY <1>1, <1>2, <1>3 DEF PostRecords, Judged
 <2>3. /\ post' \in PostRecords /\ post'.judged = [path |-> f, cid |-> l.cid]
       /\ post'.held >= post.held /\ at <= post'.held
     BY <2>2, <1>1, <1>2, <1>4 DEF PostRecords, useLoadedPost
 <2>4. post'.held \in Nat BY <2>3 DEF PostRecords
 <2>5. fileOf[f].at \in 1..post'.held BY <1>1, <1>2, <2>3, <2>4 DEF FileAt
 <2>6. \A a \in Reachable(n) : a <= post'.held BY <1>1, <2>3, <2>4, OneFile
 <2>7. LookupInv(n)' BY <2>1, <2>6, <1>1, <1>2 DEF LookupInv, End, Lookups
 <2>8. JudgedInv'
  <3> HIDE DEF f
  <3>1. post'.judged.path = f /\ post'.judged.cid = l.cid BY <2>3
  <3> QED BY <2>5, <3>1, <1>2, <1>3, CuAssumption DEF JudgedInv
 <2> QED BY <1>1, <1>4, <2>1, <2>3, <2>7, <2>8, OneLookup
<1>5. CASE post' = post /\ lookup' = [lookup EXCEPT ![n] = End(l, "failed")]
 <2>1. End(l, "failed") \in Lookups /\ End(l, "failed").i = l.i /\ lookup'[n] = End(l, "failed") BY <1>1, <1>5 DEF End, Lookups, InFile
 <2>2. JudgedInv' /\ post' \in PostRecords /\ post'.held >= post.held BY <1>1, <1>5 DEF PostInv, JudgedInv
 <2>3. LookupInv(n)' BY <2>1, <1>1 DEF LookupInv, End, Lookups
 <2> QED BY <1>1, <1>5, <2>1, <2>2, <2>3, OneLookup
<1> QED BY <1>4, <1>5 DEF verifyFile, FileAt

LEMMA StopPostStep ==
    ASSUME PostInv, stopPost
    PROVE  PostInv'
<1>1. post \in PostRecords /\ post' = [post EXCEPT !.stopped = TRUE] BY DEF PostInv, PostTypeOK, stopPost
<1>2. /\ cuJob' = cuJob /\ post' \in PostRecords /\ post'.held = post.held /\ post'.judged = post.judged
      /\ post.held \in Nat
 <2>1. cuJob' = cuJob BY DEF stopPost
 <2> QED BY <1>1, <2>1 DEF PostRecords
<1>3. DOMAIN lookup' = DOMAIN lookup /\ \A n \in DOMAIN lookup : lookup'[n] = [lookup[n] EXCEPT !.aborted = TRUE] BY DEF stopPost
<1>4. ASSUME NEW n \in DOMAIN lookup
      PROVE  lookup'[n] \in Lookups /\ lookup'[n].pc = lookup[n].pc /\ lookup'[n].i = lookup[n].i
 <2>1. lookup[n] \in Lookups /\ lookup'[n] = [lookup[n] EXCEPT !.aborted = TRUE] BY <1>3 DEF PostInv, PostTypeOK
 <2> QED BY <2>1 DEF Lookups
<1>5. PostTypeOK'
 <2>1. lookup' \in [DOMAIN cuJob.records -> Lookups] BY <1>3, <1>4 DEF PostInv, PostTypeOK, stopPost
 <2> QED BY <2>1, <1>2, <1>3, <1>4 DEF PostInv, PostTypeOK, InFile
<1>6. JudgedInv' BY <1>2 DEF PostInv, JudgedInv
<1>7. \A n \in DOMAIN lookup : LookupInv(n)' BY <1>2, <1>3, LookupRests
<1> QED BY <1>3, <1>5, <1>6, <1>7 DEF PostInv

(* What is under a record that has pages of the CommentUpdate held. *)
LEMMA MarkedAsJudged ==
    ASSUME PostInv, NEW n \in DOMAIN cuJob.records, NEW p \in PostRecords, p.judged = post.judged,
           p.held >= post.held
    PROVE  /\ markRecordJudged(n, p) \in PostRecords /\ markRecordJudged(n, p).held = p.held
           /\ LET q == markRecordJudged(n, p).judged IN
                  /\ q.path # NoCid => fileOf[q.path].at \in 1..p.held
                  /\ q.cid # NoCid => q.path # NoCid /\ q.cid = fileOf[q.path]
<1>1. p.held \in Nat /\ post.held \in Nat BY DEF PostInv, PostTypeOK, PostRecords
<1>2. post.judged \in [path : Folder \cup {NoCid}, cid : Files \cup {NoCid}] BY DEF PostInv, PostTypeOK, PostRecords
<1>3. CASE PagesHoldHeld(n, p) /\ p.judged.path # Path(n, 1)
 <2>1. Path(n, 1) \in Folder /\ fileOf[Path(n, 1)].at = p.held /\ p.held > 0
     BY <1>1, <1>3, PagesCarryFile DEF PagesHoldHeld, PostInv, FileAt
 <2> DEFINE j == [path |-> Path(n, 1), cid |-> NoCid]
 <2>2. markRecordJudged(n, p) = [p EXCEPT !.judged = j] BY <1>3 DEF markRecordJudged
 <2>3. j \in [path : Folder \cup {NoCid}, cid : Files \cup {NoCid}] /\ j.path = Path(n, 1) /\ j.cid = NoCid BY <2>1
 <2> HIDE DEF j
 <2>4. [p EXCEPT !.judged = j] \in PostRecords /\ [p EXCEPT !.judged = j].held = p.held /\ [p EXCEPT !.judged = j].judged = j
     BY <2>3 DEF PostRecords
 <2> QED BY <2>1, <2>2, <2>3, <2>4, <1>1
<1>4. CASE ~(PagesHoldHeld(n, p) /\ p.judged.path # Path(n, 1))
 <2>1. markRecordJudged(n, p) = p BY <1>4 DEF markRecordJudged
 <2>2. post.judged.path # NoCid => fileOf[post.judged.path].at \in 1..p.held BY <1>1 DEF PostInv, JudgedInv
 <2> QED BY <2>1, <2>2 DEF PostInv, JudgedInv
<1> QED BY <1>3, <1>4

(* The lookup of a new record, the others being aborted or left as they are. *)
LEMMA NewLookup ==
    ASSUME PostInv, NEW n \in DOMAIN lookup, cuJob' = cuJob, NEW x \in Lookups, x.i = 1,
           lookup' = [[m \in DOMAIN lookup |-> [lookup[m] EXCEPT !.aborted = m < n]] EXCEPT ![n] = x],
           post' \in PostRecords, post'.held >= post.held, JudgedInv',
           \/ x.pc = "over" /\ (x.outcome = "current" => \A at \in Reachable(n) : at <= post'.held)
           \/ x.pc = "range" /\ x.outcome # "current" /\ cuJob.records[n].ranges # << >>
    PROVE  PostInv'
<1>1. DOMAIN lookup' = DOMAIN lookup /\ DOMAIN lookup = DOMAIN cuJob.records /\ lookup'[n] = x /\ PostTypeOK BY DEF PostInv, PostTypeOK
<1>2. ASSUME NEW m \in DOMAIN lookup, m # n
      PROVE  /\ lookup'[m] \in Lookups /\ lookup'[m].pc = lookup[m].pc /\ lookup'[m].i = lookup[m].i
             /\ LookupInv(m)'
 <2>1. lookup[m] \in Lookups /\ lookup'[m] = [lookup[m] EXCEPT !.aborted = m < n] BY <1>1, <1>2 DEF PostTypeOK
 <2>2. lookup'[m] = [lookup[m] EXCEPT !.aborted = TRUE] \/ lookup'[m] = [lookup[m] EXCEPT !.aborted = FALSE]
  <3>1. CASE m < n BY <2>1, <3>1
  <3>2. CASE ~(m < n)
   <4>1. (m < n) = FALSE BY <3>2
   <4> QED BY <2>1, <4>1, Zenon
  <3> QED BY <3>1, <3>2
 <2>3. post'.held \in Nat BY DEF PostRecords
 <2>4. LookupInv(m)' BY <2>2, <2>3, LookupRests
 <2> QED BY <2>1, <2>2, <2>4 DEF Lookups
<1>3. InFile(x) => x.i \in DOMAIN cuJob.records[n].ranges
 <2>1. cuJob.records[n].ranges \in Seq(Folder) BY <1>1, RecordFacts
 <2>2. cuJob.records[n].ranges # << >> => 1 \in DOMAIN cuJob.records[n].ranges BY <2>1
 <2> QED BY <2>2 DEF InFile
<1>4. PostTypeOK'
 <2>1. lookup' \in [DOMAIN cuJob.records -> Lookups] BY <1>1, <1>2
 <2> QED BY <2>1, <1>1, <1>2, <1>3 DEF PostTypeOK, InFile
<1>5. LookupInv(n)'
 <2>1. Reachable(n)' = Reachable(n) BY DEF Reachable, Path
 <2> QED BY <2>1, <1>1 DEF LookupInv
<1> QED BY <1>1, <1>2, <1>4, <1>5 DEF PostInv

LEMMA RecordStep ==
    ASSUME PostInv, handleUpdateEventFromCommunity
    PROVE  PostInv'
<1> DEFINE n == post.seen + 1
           r == cuJob.records[n]
           heard == [post EXCEPT !.seen = n]
<1>1. /\ post \in PostRecords /\ post.held \in Nat /\ post.seen \in Nat /\ PostTypeOK /\ cuJob' = cuJob
      /\ DOMAIN lookup = DOMAIN cuJob.records /\ post.seen < Len(cuJob.records)
    BY DEF PostInv, PostTypeOK, PostRecords, handleUpdateEventFromCommunity
<1>2. n \in DOMAIN cuJob.records /\ n \in DOMAIN lookup
 <2>1. cuJob.records \in Seq([pages : Nat, ranges : Seq(Folder)]) BY CuAssumption DEF PostInv, PostTypeOK
 <2> QED BY <2>1, <1>1
<1>3. r.pages \in Nat /\ r.ranges \in Seq(Folder) BY <1>1, <1>2, RecordFacts
<1>4. heard \in PostRecords /\ heard.held = post.held /\ heard.judged = post.judged BY <1>1 DEF PostRecords
<1> DEFINE old == [m \in DOMAIN lookup |-> [lookup[m] EXCEPT !.aborted = m < n]]
<1>5. NoLookup \in Lookups /\ NoLookup.i = 1 /\ NoLookup.outcome = "none" BY DEF NoLookup, Lookups
<1>6. ASSUME NEW p \in PostRecords, p.judged = post.judged, p.held = r.pages, r.pages > 0, r.pages >= post.held,
             post' = markRecordJudged(n, p), lookup' = [old EXCEPT ![n] = End(NoLookup, "current")]
      PROVE  PostInv'
 <2> DEFINE x == End(NoLookup, "current")
 <2>1. x \in Lookups /\ x.i = 1 /\ x.pc = "over" BY <1>5 DEF End, Lookups
 <2>2. post' \in PostRecords /\ post'.held = r.pages /\ JudgedInv' BY <1>2, <1>6, MarkedAsJudged DEF JudgedInv
 <2>3. \A at \in Reachable(n) : at <= post'.held BY <1>1, <1>2, <1>3, <1>6, <2>2, PagesCarryFile
 <2>4. lookup' = [old EXCEPT ![n] = x] BY <1>2, <1>6
 <2> HIDE DEF x
 <2> QED BY <1>1, <1>2, <1>6, <2>1, <2>2, <2>3, <2>4, NewLookup
<1>7. CASE /\ r.pages > post.held
           /\ post' = markRecordJudged(n, useLoadedPost(heard, r.pages))
           /\ lookup' = [old EXCEPT ![n] = End(NoLookup, "current")]
 <2> DEFINE p == useLoadedPost(heard, r.pages)
 <2>1. p \in PostRecords /\ p.judged = post.judged /\ p.held = r.pages BY <1>1, <1>3, <1>4, <1>7 DEF useLoadedPost, PostRecords
 <2>2. r.pages > 0 /\ r.pages >= post.held BY <1>1, <1>3, <1>7
 <2> HIDE DEF p
 <2> QED BY <2>1, <2>2, <1>6, <1>7 DEF p
<1>8. CASE /\ PagesHoldHeld(n, post) /\ post' = markRecordJudged(n, heard)
           /\ lookup' = [old EXCEPT ![n] = End(NoLookup, "current")]
 <2>1. r.pages = post.held /\ post.held > 0 BY <1>8 DEF PagesHoldHeld
 <2>2. heard.held = r.pages /\ r.pages > 0 /\ r.pages >= post.held BY <1>1, <1>4, <2>1
 <2> HIDE DEF heard, old
 <2> QED BY <1>4, <2>2, <1>6, <1>8
<1>9. CASE /\ post' = heard
           /\ lookup' = [old EXCEPT ![n] = IF r.ranges = << >> THEN End(NoLookup, "failed") ELSE [NoLookup EXCEPT !.pc = "range"]]
 <2> DEFINE x == IF r.ranges = << >> THEN End(NoLookup, "failed") ELSE [NoLookup EXCEPT !.pc = "range"]
 <2>1. x \in Lookups /\ x.i = 1 /\ x.outcome # "current" /\ (x.pc = "over" \/ (x.pc = "range" /\ r.ranges # << >>))
  <3>1. CASE r.ranges = << >> BY <3>1, <1>5 DEF End, Lookups
  <3>2. CASE r.ranges # << >> BY <3>2, <1>5 DEF Lookups
  <3> QED BY <3>1, <3>2
 <2>2. post' \in PostRecords /\ post'.held >= post.held /\ JudgedInv' BY <1>1, <1>4, <1>9 DEF JudgedInv, PostInv
 <2>3. lookup' = [old EXCEPT ![n] = x] BY <1>9
 <2> HIDE DEF x
 <2> QED BY <1>1, <1>2, <2>1, <2>2, <2>3, NewLookup
<1> QED BY <1>7, <1>8, <1>9 DEF handleUpdateEventFromCommunity

LEMMA AnyLookupStep ==
    ASSUME PostInv, NEW n \in DOMAIN lookup, LookupStep(n)
    PROVE  PostInv'
<1>1. CASE resolveTimesOut(n) BY <1>1, TimeOutStep DEF resolveTimesOut, InFile
<1> QED BY <1>1, TryRangeStep, ResolveStep, FetchStep, VerifyStep DEF LookupStep

(* The reply's part of a step, and one of another component. *)
LEMMA PostRests ==
    ASSUME PostInv, UNCHANGED <<cuJob, post, lookup>>
    PROVE  PostInv'
BY DEF PostInv, PostTypeOK, JudgedInv, LookupInv, FileAt, Path, Reachable, InFile

LEMMA PostStep ==
    ASSUME PostInv, [CuNext]_cuVars
    PROVE  PostInv'
<1>1. CASE handleUpdateEventFromCommunity BY <1>1, RecordStep
<1>2. CASE stopPost BY <1>2, StopPostStep
<1>3. CASE \E n \in DOMAIN lookup : LookupStep(n) BY <1>3, AnyLookupStep
<1>4. CASE UNCHANGED <<cuJob, post, lookup>> BY <1>4, PostRests
<1>5. handleUpdateEventFromPost \/ (\E n \in DOMAIN search : SearchStep(n)) \/ UNCHANGED cuVars => UNCHANGED <<cuJob, post, lookup>>
    BY DEF handleUpdateEventFromPost, SearchStep, searchAfterPrevious, beginSearch, searchPage, pageFails, cuVars
<1> QED BY <1>1, <1>2, <1>3, <1>4, <1>5 DEF CuNext

----------------------------------------
(* CommentUpdating: the reply. *)

ReplyRecords == [held : Nat, loaded : SUBSET DOMAIN PageOf, seen : Nat, failed : BOOLEAN, broken : SUBSET DOMAIN PageOf]
Queues == {0} \cup {CHOOSE m \in S : \A k \in S : k <= m : S \in (SUBSET DOMAIN cuJob.posts) \ {{}}}
Searches == [pc : {"none", "begin", "queued", "page", "over"}, from : DOMAIN PageOf \cup {NoCid},
             page : DOMAIN PageOf \cup {NoCid}, first : BOOLEAN, found : BOOLEAN, after : Queues]

ReplyTypeOK ==
    /\ cuJob \in CuWorkload /\ reply \in ReplyRecords
    /\ search \in [DOMAIN cuJob.posts -> Searches]
    /\ reply.seen \in 0..Len(cuJob.posts)
    /\ \A n \in DOMAIN search : n > reply.seen => search[n].pc = "none"

(* What a list of pages has of the reply is held. *)
Covered(c) == \A d \in PagesBehind(c) : PageOf[d].reply <= reply.held

(* A search is on a page of its list, and holds what is on the others. *)
SearchFits(n) ==
    /\ search[n].pc \in {"begin", "queued"} => search[n].first /\ ~search[n].found
    /\ search[n].pc = "page" =>
        /\ search[n].from \in DOMAIN PageOf /\ search[n].page \in PagesBehind(search[n].from)
        /\ \E k \in 1..reply.seen : k \in DOMAIN cuJob.posts /\ search[n].from = cuJob.posts[k].first
        /\ IF search[n].first THEN ~search[n].found /\ search[n].page = search[n].from
           ELSE search[n].from \in reply.loaded
        /\ \A d \in PagesBehind(search[n].from) : d \in PagesBehind(search[n].page) \/ PageOf[d].reply <= reply.held

Walks(n, c) == search[n].pc = "page" /\ search[n].from = c

(* A first page that was loaded has been searched through, or is being, or *)
(* the search broke off. *)
LoadedInv ==
    \A c \in reply.loaded : c \in reply.broken \/ Covered(c) \/ \E n \in DOMAIN search : Walks(n, c) /\ ~search[n].first

(* The newest update of the post has been searched, or a search is to come. *)
SoughtInv ==
    reply.seen > 0 =>
        /\ Pages.pre <= reply.held
        /\ \/ reply.failed \/ Pages.first \in reply.broken \/ Pages.first = NoCid \/ Covered(Pages.first)
           \/ \E n \in DOMAIN search : search[n].pc \in {"begin", "queued"} \/ Walks(n, Pages.first)

ReplyInv == ReplyTypeOK /\ (\A n \in DOMAIN search : SearchFits(n)) /\ LoadedInv /\ SoughtInv

LEMMA BehindFacts ==
    ASSUME NEW c \in DOMAIN PageOf
    PROVE  /\ c \in PagesBehind(c) /\ PagesBehind(c) \subseteq DOMAIN PageOf
           /\ \A e \in PagesBehind(c) : PageOf[e].next \in PagesBehind(c) \cup {NoCid}
<1>1. \A e \in DOMAIN PageOf : PageOf[e].next \in DOMAIN PageOf \cup {NoCid} BY CuAssumption
<1> QED BY <1>1 DEF PagesBehind

LEMMA BehindNext ==
    ASSUME NEW c \in DOMAIN PageOf, NEW d \in PagesBehind(c), d # c
    PROVE  PageOf[c].next \in DOMAIN PageOf /\ d \in PagesBehind(PageOf[c].next)
<1> DEFINE n == PageOf[c].next
           S == {c} \cup (IF n = NoCid THEN {} ELSE PagesBehind(n))
<1>1. n \in DOMAIN PageOf \cup {NoCid} /\ NoCid \notin DOMAIN PageOf BY CuAssumption
<1>2. S \in SUBSET DOMAIN PageOf /\ c \in S /\ \A e \in S : PageOf[e].next \in S \cup {NoCid} BY <1>1, BehindFacts
<1>3. d \in S BY <1>2 DEF PagesBehind
<1> QED BY <1>1, <1>3

(* A post of the workload, seen by now. *)
LEMMA PostFacts ==
    ASSUME ReplyTypeOK
    PROVE  /\ cuJob.posts \in Seq([pre : Nat, first : DOMAIN PageOf \cup {NoCid}])
           /\ \A k \in DOMAIN cuJob.posts : /\ cuJob.posts[k].pre \in Nat /\ PostIsCoherent(cuJob.posts[k])
                                            /\ cuJob.posts[k].first \in DOMAIN PageOf \cup {NoCid}
<1>1. cuJob.posts \in Seq([pre : Nat, first : DOMAIN PageOf \cup {NoCid}]) BY CuAssumption DEF ReplyTypeOK
<1>2. \A k \in DOMAIN cuJob.posts : cuJob.posts[k] \in [pre : Nat, first : DOMAIN PageOf \cup {NoCid}] BY <1>1, InSequence, Zenon
<1> QED BY <1>1, <1>2, CuAssumption DEF ReplyTypeOK

(* Who holds what one page has of the reply holds what its list has. *)
LEMMA OnePage ==
    ASSUME ReplyTypeOK, NEW k \in DOMAIN cuJob.posts, NEW c \in DOMAIN PageOf, c = cuJob.posts[k].first,
           NEW e \in PagesBehind(c), PageOf[e].reply > 0, NEW h \in Nat, PageOf[e].reply <= h
    PROVE  \A d \in PagesBehind(c) : PageOf[d].reply <= h
<1> SUFFICES ASSUME NEW d \in PagesBehind(c) PROVE PageOf[d].reply <= h OBVIOUS
<1>1. PostIsCoherent(cuJob.posts[k]) /\ c # NoCid /\ PageOf[d].reply \in Nat /\ PageOf[e].reply \in Nat
    BY PostFacts, BehindFacts, CuAssumption
<1>2. PageOf[d].reply \in OnPages(cuJob.posts[k]) /\ PageOf[e].reply \in OnPages(cuJob.posts[k]) BY <1>1 DEF OnPages
<1> QED BY <1>1, <1>2 DEF PostIsCoherent

(* A search that was asked for belongs to an update the post has had. *)
LEMMA SearchAsked ==
    ASSUME ReplyTypeOK, NEW n \in DOMAIN search, search[n].pc # "none"
    PROVE  n \in 1..reply.seen /\ reply.seen \in 1..Len(cuJob.posts) /\ reply.seen \in DOMAIN cuJob.posts
<1>1. Len(cuJob.posts) \in Nat /\ DOMAIN cuJob.posts = 1..Len(cuJob.posts) BY PostFacts
<1>2. DOMAIN search = DOMAIN cuJob.posts /\ reply.seen \in 0..Len(cuJob.posts) /\ ~(n > reply.seen) BY DEF ReplyTypeOK
<1> QED BY <1>1, <1>2

LEMMA ReplyInitially == CuInit => ReplyInv
<1> SUFFICES ASSUME CuInit PROVE ReplyInv OBVIOUS
<1>1. reply \in ReplyRecords /\ reply.seen = 0 /\ reply.loaded = {} BY DEF CuInit, ReplyRecords
<1>2. NoSearch \in Searches /\ NoSearch.pc = "none" BY DEF NoSearch, Searches, Queues
<1>3. search = [n \in DOMAIN cuJob.posts |-> NoSearch] /\ cuJob \in CuWorkload BY DEF CuInit
<1>4. ReplyTypeOK BY <1>1, <1>2, <1>3 DEF ReplyTypeOK
<1> QED BY <1>1, <1>2, <1>3, <1>4 DEF ReplyInv, SearchFits, LoadedInv, SoughtInv

(* What a search that does not step knows stays true as the reply goes on. *)
LEMMA SearchRests ==
    ASSUME ReplyInv, NEW n \in DOMAIN search, cuJob' = cuJob, search'[n] = search[n],
           reply' \in ReplyRecords, reply'.held >= reply.held, reply'.seen >= reply.seen,
           reply.loaded \subseteq reply'.loaded
    PROVE  SearchFits(n)'
<1>1. /\ reply.held \in Nat /\ reply'.held \in Nat /\ reply.seen \in Nat /\ reply'.seen \in Nat
      /\ reply.loaded \subseteq reply'.loaded
    BY DEF ReplyInv, ReplyTypeOK, ReplyRecords
<1>2. \A d \in DOMAIN PageOf : PageOf[d].reply \in Nat /\ (PageOf[d].reply <= reply.held => PageOf[d].reply <= reply'.held)
    BY <1>1, CuAssumption
<1>3. \A k \in 1..reply.seen : k \in 1..reply'.seen BY <1>1
<1>4. SearchFits(n) BY DEF ReplyInv
<1>5. search[n].pc = "page" =>
        \A d \in PagesBehind(search[n].from) : d \in PagesBehind(search[n].page) \/ PageOf[d].reply <= reply'.held
    BY <1>2, <1>4, BehindFacts DEF SearchFits
<1> QED BY <1>1, <1>3, <1>4, <1>5 DEF SearchFits

LEMMA StillCovered ==
    ASSUME ReplyInv, reply' \in ReplyRecords, reply'.held >= reply.held, NEW c \in DOMAIN PageOf, Covered(c)
    PROVE  Covered(c)'
<1>1. \A d \in PagesBehind(c) : PageOf[d].reply \in Nat BY CuAssumption, BehindFacts
<1>2. reply.held \in Nat /\ reply'.held \in Nat BY DEF ReplyInv, ReplyTypeOK, ReplyRecords
<1> QED BY <1>1, <1>2 DEF Covered

(* A step of the n-th search. *)
LEMMA OneSearch ==
    ASSUME ReplyInv, NEW n \in DOMAIN search, cuJob' = cuJob, NEW s \in Searches, search' = [search EXCEPT ![n] = s],
           s.pc # "none" => n <= reply.seen, SearchFits(n)',
           reply' \in ReplyRecords, reply'.held >= reply.held, reply'.seen = reply.seen,
           reply.loaded \subseteq reply'.loaded, reply.broken \subseteq reply'.broken,
           \A c \in DOMAIN PageOf : (c \in reply'.loaded \ reply.loaded \/ (Walks(n, c) /\ ~search[n].first)) =>
               c \in reply'.broken \/ Covered(c)' \/ (s.pc = "page" /\ s.from = c /\ ~s.first),
           SoughtInv'
    PROVE  ReplyInv'
<1>1. DOMAIN search' = DOMAIN search /\ search'[n] = s /\ \A m \in DOMAIN search : m # n => search'[m] = search[m] OBVIOUS
<1>2. ReplyTypeOK /\ reply.loaded \subseteq DOMAIN PageOf /\ reply'.loaded \subseteq DOMAIN PageOf
    BY DEF ReplyInv, ReplyTypeOK, ReplyRecords
<1>3. ReplyTypeOK'
 <2>1. search' \in [DOMAIN cuJob.posts -> Searches] BY <1>2 DEF ReplyTypeOK
 <2>2. Searches' = Searches BY DEF Searches, Queues
 <2>3. n \in Nat /\ reply.seen \in Nat BY <1>2, PostFacts DEF ReplyTypeOK, ReplyRecords
 <2>4. \A m \in DOMAIN search' : m > reply'.seen => search'[m].pc = "none" BY <1>1, <1>2, <2>3 DEF ReplyTypeOK
 <2> QED BY <1>2, <2>1, <2>2, <2>4 DEF ReplyTypeOK
<1>4. ASSUME NEW m \in DOMAIN search PROVE SearchFits(m)'
 <2>1. reply'.seen >= reply.seen BY <1>2 DEF ReplyTypeOK, ReplyRecords
 <2> QED BY <1>1, <2>1, SearchRests
<1>5. LoadedInv'
 <2> SUFFICES ASSUME NEW c \in reply'.loaded, c \notin reply'.broken, ~Covered(c)'
              PROVE  \E m \in DOMAIN search' : (Walks(m, c) /\ ~search[m].first)'
     BY DEF LoadedInv
 <2>0. c \in DOMAIN PageOf BY <1>2
 <2>1. CASE c \in reply.loaded
  <3>1. ~Covered(c) /\ c \notin reply.broken BY <2>0, StillCovered
  <3>2. PICK m \in DOMAIN search : Walks(m, c) /\ ~search[m].first BY <2>1, <3>1 DEF ReplyInv, LoadedInv
  <3>3. CASE m = n BY <1>1, <2>0, <3>2, <3>3 DEF Walks
  <3>4. CASE m # n BY <1>1, <3>2, <3>4 DEF Walks
  <3> QED BY <3>3, <3>4
 <2>2. CASE c \notin reply.loaded BY <1>1, <2>0, <2>2 DEF Walks
 <2> QED BY <2>1, <2>2
<1> QED BY <1>1, <1>3, <1>4, <1>5 DEF ReplyInv

LEMMA QueueStep ==
    ASSUME ReplyInv, NEW n \in DOMAIN search, searchAfterPrevious(n)
    PROVE  ReplyInv'
<1> DEFINE s == [search[n] EXCEPT !.pc = "begin"]
<1>1. /\ search[n] \in Searches /\ search[n].pc = "queued" /\ cuJob' = cuJob /\ reply' = reply /\ ReplyTypeOK
      /\ search' = [search EXCEPT ![n].pc = "begin"] /\ reply \in ReplyRecords
    BY DEF ReplyInv, ReplyTypeOK, searchAfterPrevious
<1>2. s \in Searches /\ s.pc = "begin" /\ s.first = search[n].first /\ s.found = search[n].found BY <1>1 DEF Searches
<1>3. search' = [search EXCEPT ![n] = s] /\ search'[n] = s BY <1>1
<1> HIDE DEF s
<1>4. SearchFits(n)' BY <1>1, <1>2, <1>3 DEF SearchFits, ReplyInv
<1>5. n <= reply.seen BY <1>1, SearchAsked
<1>6. SoughtInv'
 <2>1. Pages' = Pages BY <1>1 DEF Pages
 <2>2. \E m \in DOMAIN search' : search'[m].pc \in {"begin", "queued"} BY <1>2, <1>3
 <2> QED BY <1>1, <2>1, <2>2 DEF ReplyInv, SoughtInv
<1>7. ~Walks(n, search[n].from) /\ \A c \in DOMAIN PageOf : ~Walks(n, c) BY <1>1 DEF Walks
<1>8. reply'.held >= reply.held BY <1>1 DEF ReplyRecords
<1> QED BY <1>1, <1>2, <1>3, <1>4, <1>5, <1>6, <1>7, <1>8, OneSearch

LEMMA BeginStep ==
    ASSUME ReplyInv, NEW n \in DOMAIN search, beginSearch(n)
    PROVE  ReplyInv'
<1> DEFINE again == Pages.first \in reply.loaded
           s == IF Pages.first = NoCid \/ again THEN [search[n] EXCEPT !.pc = "over"]
                ELSE [search[n] EXCEPT !.pc = "page", !.from = Pages.first, !.page = Pages.first]
<1>1. /\ search[n] \in Searches /\ search[n].pc = "begin" /\ cuJob' = cuJob /\ ReplyTypeOK /\ reply \in ReplyRecords
      /\ search[n].first /\ ~search[n].found
    BY DEF ReplyInv, ReplyTypeOK, beginSearch, SearchFits
<1>2. n \in Nat /\ reply.seen \in Nat /\ n <= reply.seen /\ 1 <= n BY <1>1, SearchAsked
<1>3. reply.seen \in DOMAIN cuJob.posts BY <1>1, SearchAsked
<1>4. Pages.pre <= reply.held /\ Pages.pre \in Nat /\ Pages.first \in DOMAIN PageOf \cup {NoCid}
    BY <1>1, <1>2, <1>3, PostFacts DEF ReplyInv, SoughtInv, Pages
<1>5. ~(Pages.pre > reply.held) BY <1>1, <1>4 DEF ReplyRecords
<1>6. reply' = [reply EXCEPT !.failed = FALSE] /\ reply' \in ReplyRecords
 <2>1. [reply EXCEPT !.failed = FALSE] \in ReplyRecords /\ [reply EXCEPT !.failed = FALSE].held = reply.held BY <1>1 DEF ReplyRecords
 <2>2. reply' = [reply EXCEPT !.failed = FALSE] BY <1>5, <2>1 DEF beginSearch, useLoadedReply
 <2> QED BY <2>1, <2>2
<1>7. reply'.held = reply.held /\ reply'.seen = reply.seen /\ reply'.loaded = reply.loaded /\ reply'.broken = reply.broken
    BY <1>1, <1>6 DEF ReplyRecords
<1>8. search' = [search EXCEPT ![n] = s] /\ search'[n] = s BY <1>5, <1>1 DEF beginSearch
<1>9. s \in Searches /\ s.first = search[n].first /\ s.found = search[n].found BY <1>1, <1>4 DEF Searches
<1>10. \/ s.pc = "over" /\ (Pages.first = NoCid \/ Pages.first \in reply.loaded)
       \/ s.pc = "page" /\ s.from = Pages.first /\ s.page = Pages.first /\ Pages.first \in DOMAIN PageOf
    BY <1>1, <1>4 DEF Searches
<1> HIDE DEF s
<1>11. SearchFits(n)'
 <2>1. s.pc = "page" => s.page \in PagesBehind(s.from) BY <1>10, BehindFacts
 <2>2. s.pc = "page" => reply.seen \in 1..reply.seen /\ s.from = cuJob.posts[reply.seen].first BY <1>2, <1>10 DEF Pages
 <2>3. s.pc = "page" => \E k \in 1..reply'.seen : k \in DOMAIN cuJob'.posts /\ s.from = cuJob'.posts[k].first BY <2>2, <1>1, <1>3, <1>7
 <2> QED BY <1>1, <1>8, <1>9, <1>10, <2>1, <2>3 DEF SearchFits
<1>12. SoughtInv'
 <2>1. Pages' = Pages BY <1>1, <1>7 DEF Pages
 <2>2. CASE s.pc = "page" BY <1>4, <1>7, <1>8, <1>10, <2>1, <2>2 DEF SoughtInv, Walks
 <2>3. CASE Pages.first = NoCid BY <1>4, <1>7, <2>1, <2>3 DEF SoughtInv
 <2>4. CASE s.pc = "over" /\ Pages.first \in reply.loaded
  <3>1. CASE Pages.first \in reply.broken BY <1>4, <1>7, <2>1, <3>1 DEF SoughtInv
  <3>2. CASE Covered(Pages.first)
   <4>1. Covered(Pages.first)' BY <1>7, <2>1, <3>2 DEF Covered
   <4> QED BY <1>4, <1>7, <2>1, <4>1 DEF SoughtInv
  <3>3. CASE \E m \in DOMAIN search : Walks(m, Pages.first)
   <4>1. PICK m \in DOMAIN search : Walks(m, Pages.first) BY <3>3
   <4>2. m # n /\ m \in DOMAIN search' /\ search'[m] = search[m] BY <1>1, <1>8, <4>1 DEF Walks
   <4>3. Walks(m, Pages.first)' BY <2>1, <4>1, <4>2 DEF Walks
   <4> QED BY <1>4, <1>7, <2>1, <4>2, <4>3 DEF SoughtInv
  <3> QED BY <2>4, <3>1, <3>2, <3>3 DEF ReplyInv, LoadedInv
 <2> QED BY <1>10, <2>2, <2>3, <2>4
<1>13. \A c \in DOMAIN PageOf : ~Walks(n, c) BY <1>1 DEF Walks
<1>14. reply'.held >= reply.held BY <1>1, <1>7 DEF ReplyRecords
<1> QED BY <1>1, <1>2, <1>6, <1>7, <1>8, <1>9, <1>11, <1>12, <1>13, <1>14, OneSearch

(* The newest update of the post stays sought as one of its searches goes on *)
(* or ends for a reason. *)
LEMMA StillSought ==
    ASSUME ReplyInv, NEW n \in DOMAIN search, search[n].pc = "page", cuJob' = cuJob,
           NEW c \in DOMAIN PageOf, c = search[n].from, NEW s \in Searches, search' = [search EXCEPT ![n] = s],
           reply' \in ReplyRecords, reply'.held >= reply.held, reply'.seen = reply.seen,
           reply.failed => reply'.failed, reply.broken \subseteq reply'.broken,
           (s.pc = "page" /\ s.from = c) \/ Covered(c)' \/ reply'.failed \/ c \in reply'.broken
    PROVE  SoughtInv'
<1>1. ReplyTypeOK /\ search[n] \in Searches /\ reply.held \in Nat /\ reply'.held \in Nat BY DEF ReplyInv, ReplyTypeOK, ReplyRecords
<1>2. reply.seen > 0 /\ reply.seen \in DOMAIN cuJob.posts BY <1>1, SearchAsked
<1>3. Pages' = Pages /\ Pages.pre \in Nat /\ Pages.first \in DOMAIN PageOf \cup {NoCid} BY <1>1, <1>2, PostFacts DEF Pages
<1>4. Pages.pre <= reply'.held BY <1>1, <1>2, <1>3 DEF ReplyInv, SoughtInv
<1>5. search'[n] = s /\ DOMAIN search' = DOMAIN search /\ \A m \in DOMAIN search : m # n => search'[m] = search[m] OBVIOUS
<1>6. CASE reply.failed \/ Pages.first \in reply.broken \/ Pages.first = NoCid BY <1>3, <1>4, <1>6 DEF SoughtInv
<1>7. CASE Pages.first # NoCid /\ Covered(Pages.first)
 <2>1. Covered(Pages.first)' BY <1>3, <1>7, StillCovered
 <2> QED BY <1>3, <1>4, <2>1 DEF SoughtInv
<1>8. CASE \E m \in DOMAIN search : search[m].pc \in {"begin", "queued"} \/ Walks(m, Pages.first)
 <2>1. PICK m \in DOMAIN search : search[m].pc \in {"begin", "queued"} \/ Walks(m, Pages.first) BY <1>8
 <2>2. CASE m # n BY <1>3, <1>4, <1>5, <2>1, <2>2 DEF SoughtInv, Walks
 <2>3. CASE m = n
  <3>1. c = Pages.first BY <2>1, <2>3 DEF Walks
  <3>2. CASE s.pc = "page" /\ s.from = c
   <4>1. Walks(n, Pages.first)' BY <1>3, <1>5, <3>1, <3>2 DEF Walks
   <4> QED BY <1>3, <1>4, <1>5, <4>1 DEF SoughtInv
  <3>3. CASE Covered(c)' \/ reply'.failed \/ c \in reply'.broken BY <1>3, <1>4, <3>1, <3>3 DEF SoughtInv
  <3> QED BY <3>2, <3>3
 <2> QED BY <2>2, <2>3
<1> QED BY <1>2, <1>6, <1>7, <1>8 DEF ReplyInv, SoughtInv

LEMMA PageFailsStep ==
    ASSUME ReplyInv, NEW n \in DOMAIN search, pageFails(n)
    PROVE  ReplyInv'
<1> DEFINE s == [search[n] EXCEPT !.pc = "over"]
<1>1. /\ search[n] \in Searches /\ search[n].pc = "page" /\ cuJob' = cuJob /\ ReplyTypeOK /\ reply \in ReplyRecords
      /\ search' = [search EXCEPT ![n] = s] /\ s \in Searches /\ s.pc = "over" /\ search'[n] = s
    BY DEF ReplyInv, ReplyTypeOK, pageFails, Searches
<1>2. search[n].from \in DOMAIN PageOf /\ (search[n].first => ~search[n].found) /\ search[n].found \in BOOLEAN
    BY <1>1 DEF ReplyInv, SearchFits, Searches
<1>3. /\ reply' \in ReplyRecords /\ reply'.held = reply.held /\ reply'.seen = reply.seen /\ reply'.loaded = reply.loaded
      /\ (reply.failed \/ ~search[n].found) => reply'.failed
      /\ reply'.broken = IF search[n].first THEN reply.broken ELSE reply.broken \cup {search[n].from}
    BY <1>1, <1>2 DEF pageFails, ReplyRecords
<1>4. n <= reply.seen /\ reply.held \in Nat BY <1>1, SearchAsked DEF ReplyRecords
<1>5. PICK c \in DOMAIN PageOf : c = search[n].from BY <1>2
<1> HIDE DEF s
<1>6. reply'.failed \/ search[n].from \in reply'.broken BY <1>2, <1>3
<1>7. SoughtInv'
 <2>1. reply'.held >= reply.held /\ (reply.failed => reply'.failed) /\ reply.broken \subseteq reply'.broken BY <1>3, <1>4
 <2> QED BY <1>1, <1>3, <1>6, <1>5, <2>1, StillSought
<1>8. SearchFits(n)' BY <1>1 DEF SearchFits
<1>9. \A d \in DOMAIN PageOf : Walks(n, d) /\ ~search[n].first => d \in reply'.broken BY <1>3 DEF Walks
<1>10. reply'.held >= reply.held /\ reply.broken \subseteq reply'.broken /\ reply.loaded \subseteq reply'.loaded BY <1>3, <1>4
<1> QED BY <1>1, <1>3, <1>4, <1>7, <1>8, <1>9, <1>10, OneSearch

LEMMA PageStep ==
    ASSUME ReplyInv, NEW n \in DOMAIN search, searchPage(n)
    PROVE  ReplyInv'
<1> DEFINE s == search[n]
           page == PageOf[s.page]
           loaded == IF s.first THEN [reply EXCEPT !.loaded = @ \cup {s.page}] ELSE reply
           best == IF page.reply > 0 THEN page.reply ELSE Pages.pre
           newer == best > reply.held
           behind == page.reply = 0 /\ page.past /\ HasReply(page.next)
           broken == IF behind THEN reply.broken \cup {s.from} ELSE reply.broken
           last == page.next = NoCid \/ (page.reply = 0 /\ page.past)
           next == [s EXCEPT !.first = FALSE, !.found = @ \/ best > 0, !.page = page.next]
           after == IF newer \/ page.reply > 0 \/ last THEN [next EXCEPT !.pc = "over"] ELSE next
<1>1. /\ s \in Searches /\ s.pc = "page" /\ cuJob' = cuJob /\ ReplyTypeOK /\ reply \in ReplyRecords
      /\ search' = [search EXCEPT ![n] = after] /\ search'[n] = after
    BY DEF ReplyInv, ReplyTypeOK, searchPage
<1>2. /\ s.from \in DOMAIN PageOf /\ s.page \in PagesBehind(s.from) /\ s.page \in DOMAIN PageOf
      /\ \E k \in 1..reply.seen : k \in DOMAIN cuJob.posts /\ s.from = cuJob.posts[k].first
      /\ IF s.first THEN s.page = s.from ELSE s.from \in reply.loaded
      /\ \A d \in PagesBehind(s.from) : d \in PagesBehind(s.page) \/ PageOf[d].reply <= reply.held
    BY <1>1, BehindFacts DEF ReplyInv, SearchFits
<1>3. n <= reply.seen /\ reply.seen > 0 /\ reply.seen \in DOMAIN cuJob.posts BY <1>1, SearchAsked
<1>4. Pages.pre \in Nat /\ Pages.pre <= reply.held BY <1>1, <1>3, PostFacts DEF ReplyInv, SoughtInv, Pages
<1>5. page.reply \in Nat /\ page.next \in DOMAIN PageOf \cup {NoCid} /\ reply.held \in Nat /\ NoCid \notin DOMAIN PageOf
    BY <1>1, <1>2, CuAssumption DEF ReplyRecords
<1>6. newer => page.reply > 0 BY <1>4, <1>5
<1>7. loaded \in ReplyRecords /\ loaded.held = reply.held /\ loaded.seen = reply.seen /\ loaded.broken = reply.broken
      /\ loaded.failed = reply.failed /\ loaded.loaded = IF s.first THEN reply.loaded \cup {s.from} ELSE reply.loaded
    BY <1>1, <1>2 DEF ReplyRecords
<1>8. /\ reply' \in ReplyRecords /\ reply'.held >= reply.held /\ reply'.seen = reply.seen
      /\ reply.broken \subseteq reply'.broken /\ (behind => s.from \in reply'.broken) /\ (reply.failed => reply'.failed)
      /\ reply'.loaded = loaded.loaded /\ (page.reply > 0 => page.reply <= reply'.held)
 <2> HIDE DEF loaded
 <2>1. CASE newer
  <3>1. reply' = [loaded EXCEPT !.held = best] /\ best \in Nat BY <2>1, <1>4, <1>5, <1>7 DEF searchPage, useLoadedReply, loaded
  <3>2. best > reply.held BY <2>1
  <3> HIDE DEF best
  <3>3. reply' \in ReplyRecords /\ reply'.held = best /\ reply'.seen = reply.seen /\ reply'.broken = reply.broken
        /\ reply'.failed = reply.failed /\ reply'.loaded = loaded.loaded
      BY <3>1, <1>7 DEF ReplyRecords
  <3>4. page.reply > 0 => page.reply <= best BY <1>5 DEF best
  <3>5. ~behind BY <1>5, <1>6, <2>1
  <3> QED BY <3>1, <3>2, <3>3, <3>4, <3>5, <1>5
 <2>2. CASE ~newer
  <3>1. reply' = [loaded EXCEPT !.failed = @ \/ (last /\ ~next.found), !.broken = broken]
   <4>1. reply' = [loaded EXCEPT !.failed = @ \/ (last /\ ~next.found), !.broken = IF behind THEN @ \cup {s.from} ELSE @]
       BY <2>2 DEF searchPage, loaded
   <4> HIDE DEF behind, last, next, page
   <4>2. QED BY <1>7, <4>1
  <3>2. page.reply > 0 => page.reply <= reply.held BY <2>2, <1>5
  <3>3. (reply.failed \/ (last /\ ~next.found)) \in BOOLEAN /\ reply.failed \in BOOLEAN BY <1>1 DEF ReplyRecords
  <3>5. broken \in SUBSET DOMAIN PageOf /\ reply.broken \subseteq broken /\ (behind => s.from \in broken) BY <1>1, <1>2 DEF ReplyRecords
  <3> HIDE DEF newer, best, next, page, last, behind, broken
  <3>4. reply' \in ReplyRecords /\ reply'.held = reply.held /\ reply'.seen = reply.seen /\ reply'.broken = broken
        /\ (reply.failed => reply'.failed) /\ reply'.loaded = loaded.loaded
      BY <3>1, <3>3, <3>5, <1>7 DEF ReplyRecords
  <3> QED BY <3>2, <3>4, <3>5, <1>5
 <2> QED BY <2>1, <2>2
<1>9. /\ after \in Searches /\ after.pc \in {"page", "over"} /\ after.from = s.from /\ ~after.first
      /\ after.pc = "page" => page.reply = 0 /\ page.next # NoCid /\ after.page = page.next
      /\ after.pc = "over" => page.reply > 0 \/ page.next = NoCid \/ (page.reply = 0 /\ page.past)
 <2>1. next \in Searches /\ next.pc = "page" /\ next.from = s.from /\ next.first = FALSE /\ next.page = page.next BY <1>1, <1>5 DEF Searches
 <2> HIDE DEF next
 <2>2. [next EXCEPT !.pc = "over"] \in Searches /\ [next EXCEPT !.pc = "over"].pc = "over"
       /\ [next EXCEPT !.pc = "over"].from = s.from /\ [next EXCEPT !.pc = "over"].first = FALSE
     BY <2>1 DEF Searches
 <2> QED BY <2>1, <2>2, <1>5, <1>6
<1> HIDE DEF after, next, newer, best, loaded, last, broken
<1>10. \A d \in PagesBehind(s.from) : PageOf[d].reply \in Nat /\ (PageOf[d].reply <= reply.held => PageOf[d].reply <= reply'.held)
 <2>1. reply'.held \in Nat BY <1>8 DEF ReplyRecords
 <2> QED BY <1>2, <1>5, <1>8, <2>1, BehindFacts, CuAssumption
<1>11. PICK c \in DOMAIN PageOf : c = s.from BY <1>2
<1>12. ASSUME after.pc = "over" PROVE Covered(c)' \/ c \in reply'.broken
 <2>1. reply'.held \in Nat BY <1>8 DEF ReplyRecords
 <2>2. CASE page.reply > 0
  <3>1. \A d \in PagesBehind(s.from) : PageOf[d].reply <= reply'.held BY <1>1, <1>2, <1>8, <2>1, <2>2, OnePage
  <3> QED BY <1>11, <3>1 DEF Covered
 <2>3. CASE page.reply = 0 /\ behind BY <1>8, <1>11, <2>3
 <2>4. CASE page.reply = 0 /\ ~behind
  <3>1. ~HasReply(page.next) BY <1>9, <1>12, <2>4 DEF HasReply
  <3>2. \A d \in PagesBehind(s.page) : d = s.page \/ PageOf[d].reply = 0
   <4> SUFFICES ASSUME NEW d \in PagesBehind(s.page), d # s.page PROVE PageOf[d].reply = 0 OBVIOUS
   <4>1. page.next \in DOMAIN PageOf /\ d \in PagesBehind(page.next) BY <1>2, BehindNext
   <4>2. PageOf[d].reply \in Nat /\ page.next # NoCid BY <1>5, <4>1, BehindFacts, CuAssumption
   <4>3. QED BY <3>1, <4>1, <4>2 DEF HasReply
  <3>3. \A d \in PagesBehind(s.from) : PageOf[d].reply <= reply'.held BY <1>2, <1>10, <2>1, <2>4, <3>2
  <3> QED BY <1>11, <3>3 DEF Covered
 <2> QED BY <1>5, <2>2, <2>3, <2>4
<1>13. SearchFits(n)'
 <2>1. ASSUME after.pc = "page" PROVE after.page \in PagesBehind(s.from) BY <1>2, <1>5, <1>9, <2>1, BehindFacts
 <2>2. ASSUME after.pc = "page", NEW d \in PagesBehind(s.from) PROVE d \in PagesBehind(after.page) \/ PageOf[d].reply <= reply'.held
  <3>1. CASE d = s.page BY <1>8, <1>9, <2>2, <3>1 DEF ReplyRecords
  <3>2. CASE d # s.page /\ d \in PagesBehind(s.page) BY <1>2, <1>9, <2>2, <3>2, BehindNext
  <3> QED BY <1>2, <1>10, <3>1, <3>2
 <2>3. s.from \in reply'.loaded BY <1>2, <1>7, <1>8
 <2> QED BY <1>1, <1>2, <1>8, <1>9, <2>1, <2>2, <2>3 DEF SearchFits
<1>14. reply.loaded \subseteq reply'.loaded /\ reply.broken \subseteq reply'.broken BY <1>7, <1>8
<1>15. SoughtInv' BY <1>1, <1>8, <1>9, <1>12, <1>14, <1>11, StillSought
<1>16. \A d \in DOMAIN PageOf : (d \in reply'.loaded \ reply.loaded \/ (Walks(n, d) /\ ~s.first)) => d = c BY <1>7, <1>8, <1>11 DEF Walks
<1> QED BY <1>1, <1>3, <1>8, <1>9, <1>12, <1>13, <1>15, <1>16, <1>14, <1>11, OneSearch

LEMMA PostEventStep ==
    ASSUME ReplyInv, handleUpdateEventFromPost
    PROVE  ReplyInv'
<1> DEFINE n == reply.seen + 1
           p == cuJob.posts[n]
           last == CHOOSE m \in Searching : \A k \in Searching : k <= m
           s == IF p.pre > reply.held \/ (p.pre = 0 /\ p.first = NoCid) THEN [NoSearch EXCEPT !.pc = "over"]
                ELSE IF Searching = {} THEN [NoSearch EXCEPT !.pc = "begin"]
                ELSE [NoSearch EXCEPT !.pc = "queued", !.after = last]
<1>1. /\ cuJob' = cuJob /\ ReplyTypeOK /\ reply \in ReplyRecords /\ search \in [DOMAIN cuJob.posts -> Searches]
      /\ search' = [search EXCEPT ![n] = s] /\ reply.seen < Len(cuJob.posts)
      /\ reply' = useLoadedReply([reply EXCEPT !.seen = n], p.pre)
    BY DEF ReplyInv, ReplyTypeOK, handleUpdateEventFromPost
<1>2. /\ reply.seen \in Nat /\ reply.held \in Nat /\ DOMAIN search = DOMAIN cuJob.posts
      /\ DOMAIN cuJob.posts = 1..Len(cuJob.posts) /\ Len(cuJob.posts) \in Nat /\ n \in DOMAIN search /\ n > reply.seen
    BY <1>1, PostFacts DEF ReplyRecords
<1>3. search[n].pc = "none" BY <1>1, <1>2 DEF ReplyTypeOK
<1>4. p.pre \in Nat /\ PostIsCoherent(p) /\ p.first \in DOMAIN PageOf \cup {NoCid} BY <1>1, <1>2, PostFacts
<1>5. s \in Searches /\ s.first = TRUE /\ s.found = FALSE
      /\ \/ s.pc = "over" /\ (p.pre > reply.held \/ (p.pre = 0 /\ p.first = NoCid))
         \/ s.pc \in {"begin", "queued"} /\ p.pre <= reply.held
 <2>1. ASSUME Searching # {} PROVE last \in Queues
  <3>1. Searching \in SUBSET DOMAIN cuJob.posts BY <1>2 DEF Searching
  <3> QED BY <2>1, <3>1 DEF Queues
 <2>2. 0 \in Queues BY DEF Queues
 <2> HIDE DEF last
 <2>3. NoSearch \in Searches /\ NoSearch.first = TRUE /\ NoSearch.found = FALSE BY <2>2 DEF NoSearch, Searches
 <2>4. ASSUME NEW pc \in {"begin", "over"} PROVE [NoSearch EXCEPT !.pc = pc] \in Searches
         /\ [NoSearch EXCEPT !.pc = pc].first = TRUE /\ [NoSearch EXCEPT !.pc = pc].found = FALSE
         /\ [NoSearch EXCEPT !.pc = pc].pc = pc
     BY <2>3 DEF Searches
 <2>5. Searching # {} =>
       /\ [NoSearch EXCEPT !.pc = "queued", !.after = last] \in Searches
       /\ [NoSearch EXCEPT !.pc = "queued", !.after = last].first = TRUE
       /\ [NoSearch EXCEPT !.pc = "queued", !.after = last].found = FALSE
       /\ [NoSearch EXCEPT !.pc = "queued", !.after = last].pc = "queued"
     BY <2>1, <2>3 DEF Searches
 <2>6. p.pre > reply.held \/ p.pre <= reply.held BY <1>2, <1>4
 <2> HIDE DEF p, n
 <2> QED BY <2>4, <2>5, <2>6
<1> HIDE DEF s
<1>6. search'[n] = s /\ DOMAIN search' = DOMAIN search /\ \A m \in DOMAIN search : m # n => search'[m] = search[m] BY <1>1, <1>2
<1>7. /\ reply' \in ReplyRecords /\ reply'.seen = n /\ reply'.loaded = reply.loaded /\ reply'.broken = reply.broken
      /\ reply'.held >= reply.held /\ p.pre <= reply'.held
 <2>1. [reply EXCEPT !.seen = n] \in ReplyRecords /\ [reply EXCEPT !.seen = n].held = reply.held
       /\ [reply EXCEPT !.seen = n].seen = n /\ [reply EXCEPT !.seen = n].loaded = reply.loaded
       /\ [reply EXCEPT !.seen = n].broken = reply.broken
     BY <1>1, <1>2 DEF ReplyRecords
 <2> DEFINE r == [reply EXCEPT !.seen = n]
 <2> HIDE DEF r
 <2>2. r \in ReplyRecords /\ r.held = reply.held /\ r.seen = n /\ r.loaded = reply.loaded /\ r.broken = reply.broken
       /\ reply' = useLoadedReply(r, p.pre)
     BY <1>1, <2>1 DEF r
 <2> HIDE DEF p, n
 <2> QED BY <1>2, <1>4, <2>2 DEF useLoadedReply, ReplyRecords
<1>8. ReplyTypeOK'
 <2>1. search' \in [DOMAIN cuJob'.posts -> Searches']
  <3>1. Searches' = Searches BY <1>1 DEF Searches, Queues
  <3> QED BY <1>1, <1>2, <1>5, <3>1
 <2>2. \A m \in DOMAIN search' : m > reply'.seen => search'[m].pc = "none" BY <1>1, <1>2, <1>6, <1>7 DEF ReplyTypeOK
 <2>3. n \in 0..Len(cuJob.posts) BY <1>2
 <2>4. ReplyRecords' = ReplyRecords BY DEF ReplyRecords
 <2> HIDE DEF n
 <2> QED BY <1>1, <1>7, <2>1, <2>2, <2>3, <2>4 DEF ReplyTypeOK
<1>9. ASSUME NEW m \in DOMAIN search PROVE SearchFits(m)'
 <2>1. CASE m = n BY <1>5, <1>6, <2>1 DEF SearchFits
 <2>2. CASE m # n
  <3>1. reply'.seen >= reply.seen /\ reply.loaded \subseteq reply'.loaded BY <1>2, <1>7
  <3> QED BY <1>1, <1>6, <1>7, <2>2, <3>1, SearchRests
 <2> QED BY <2>1, <2>2
<1>10. LoadedInv'
 <2> SUFFICES ASSUME NEW c \in reply'.loaded, c \notin reply'.broken, ~Covered(c)'
              PROVE  \E m \in DOMAIN search' : (Walks(m, c) /\ ~search[m].first)'
     BY DEF LoadedInv
 <2>1. c \in DOMAIN PageOf /\ c \in reply.loaded /\ c \notin reply.broken BY <1>7 DEF ReplyRecords
 <2>2. ~Covered(c) BY <1>7, <2>1, StillCovered
 <2>3. PICK m \in DOMAIN search : Walks(m, c) /\ ~search[m].first BY <2>1, <2>2 DEF ReplyInv, LoadedInv
 <2>4. m # n BY <1>3, <2>3 DEF Walks
 <2> QED BY <1>6, <2>3, <2>4 DEF Walks
<1>11. SoughtInv'
 <2>1. Pages' = p BY <1>1, <1>7 DEF Pages
 <2>2. CASE s.pc \in {"begin", "queued"} BY <1>2, <1>6, <1>7, <2>1, <2>2 DEF SoughtInv
 <2>3. CASE p.first = NoCid BY <1>7, <2>1, <2>3 DEF SoughtInv
 <2>4. CASE p.pre > reply.held /\ p.first # NoCid
  <3>1. \A d \in PagesBehind(p.first) : PageOf[d].reply \in OnPages(p) /\ PageOf[d].reply \in Nat
      BY <1>4, <2>4, BehindFacts, CuAssumption DEF OnPages
  <3>2. reply'.held \in Nat /\ p.pre > 0 BY <1>2, <1>4, <1>7, <2>4 DEF ReplyRecords
  <3>3. \A d \in PagesBehind(p.first) : PageOf[d].reply <= reply'.held BY <1>4, <1>7, <3>1, <3>2 DEF PostIsCoherent
  <3>4. Covered(Pages.first)' BY <2>1, <3>3 DEF Covered
  <3> QED BY <1>7, <2>1, <3>4 DEF SoughtInv
 <2> QED BY <1>5, <2>2, <2>3, <2>4
<1> QED BY <1>6, <1>8, <1>9, <1>10, <1>11 DEF ReplyInv

(* The post's part of a step, and one of another component. *)
LEMMA ReplyRests ==
    ASSUME ReplyInv, UNCHANGED <<cuJob, reply, search>>
    PROVE  ReplyInv'
<1>1. ReplyTypeOK' BY DEF ReplyInv, ReplyTypeOK, Searches, Queues
<1>2. \A n \in DOMAIN search' : SearchFits(n)' BY DEF ReplyInv, SearchFits
<1>3. \A c : Covered(c)' = Covered(c) /\ \A n : Walks(n, c)' = Walks(n, c) BY DEF Covered, Walks
<1>4. LoadedInv' /\ SoughtInv' BY <1>3 DEF ReplyInv, LoadedInv, SoughtInv, Pages
<1> QED BY <1>1, <1>2, <1>4 DEF ReplyInv

LEMMA ReplyStep ==
    ASSUME ReplyInv, [CuNext]_cuVars
    PROVE  ReplyInv'
<1>1. ASSUME NEW n \in DOMAIN search, SearchStep(n) PROVE ReplyInv' BY <1>1, QueueStep, BeginStep, PageStep, PageFailsStep DEF SearchStep
<1>2. handleUpdateEventFromCommunity \/ stopPost \/ (\E n \in DOMAIN lookup : LookupStep(n)) \/ UNCHANGED cuVars
        => UNCHANGED <<cuJob, reply, search>>
    BY DEF handleUpdateEventFromCommunity, stopPost, LookupStep, tryRange, resolveFile, resolveTimesOut, fetchFile, verifyFile, cuVars
<1> QED BY <1>1, <1>2, PostEventStep, ReplyRests DEF CuNext

CuInv == PostInv /\ ReplyInv

(* Whoever is up to date with the community holds the newest CommentUpdate. *)
LEMMA CurrentByInv == CuInv => CommentIsCurrent
<1> SUFFICES ASSUME PostInv, ReplyInv PROVE CommentIsCurrent BY DEF CuInv
<1>1. JudgedIsHeld
 <2>1. post.held \in Nat BY DEF PostInv, PostTypeOK, PostRecords
 <2> QED BY <2>1 DEF PostInv, JudgedInv, JudgedIsHeld
<1>2. CurrentMeansNewest BY DEF PostInv, LookupInv, CurrentMeansNewest
<1>3. ASSUME Quiet, ~reply.failed, Pages.first \notin reply.broken PROVE \A at \in InPages(Pages) : at <= reply.held
 <2>1. reply.seen > 0 /\ \A n \in DOMAIN search : search[n].pc \in {"none", "over"} BY <1>3 DEF Quiet
 <2>2. Pages.pre <= reply.held /\ (Pages.first = NoCid \/ Covered(Pages.first)) BY <1>3, <2>1 DEF ReplyInv, SoughtInv, Walks
 <2> QED BY <2>2 DEF InPages, OnPages, Covered
<1> QED BY <1>1, <1>2, <1>3 DEF CommentIsCurrent, ReplyIsCurrent

(* A post whose lookup ended well, and a reply whose searches are over, hold *)
(* the newest CommentUpdate that the folders and the pages have, whatever *)
(* lookups and searches overlapped, were superseded or failed before. *)
THEOREM CommentStaysCurrent == CuSpec => []CommentIsCurrent
<1>1. CuInit => CuInv BY PostInitially, ReplyInitially DEF CuInv
<1>2. CuInv /\ [CuNext]_cuVars => CuInv' BY PostStep, ReplyStep DEF CuInv
<1> QED BY <1>1, <1>2, CurrentByInv, PTL DEF CuSpec

LEMMA PostHeldGrows ==
    ASSUME PostInv, [CuNext]_cuVars
    PROVE  post'.held >= post.held
<1>1. post \in PostRecords /\ post.held \in Nat /\ post.seen \in Nat /\ PostTypeOK BY DEF PostInv, PostTypeOK, PostRecords
<1>2. CASE handleUpdateEventFromCommunity
 <2> DEFINE n == post.seen + 1
            heard == [post EXCEPT !.seen = n]
 <2>1. n \in DOMAIN cuJob.records
  <3>1. cuJob.records \in Seq([pages : Nat, ranges : Seq(Folder)]) BY <1>1, CuAssumption DEF PostTypeOK
  <3> QED BY <1>1, <1>2, <3>1 DEF handleUpdateEventFromCommunity
 <2>2. cuJob.records[n].pages \in Nat BY <1>1, <2>1, RecordFacts
 <2>3. heard \in PostRecords /\ heard.held = post.held BY <1>1 DEF PostRecords
 <2>4. ASSUME NEW p \in PostRecords, post' = markRecordJudged(n, p) PROVE post'.held = p.held BY <2>4 DEF markRecordJudged, PostRecords
 <2>5. useLoadedPost(heard, cuJob.records[n].pages) \in PostRecords
       /\ useLoadedPost(heard, cuJob.records[n].pages).held >= post.held
  <3> HIDE DEF heard, n
  <3> QED BY <1>1, <2>2, <2>3 DEF useLoadedPost, PostRecords
 <2>6. \/ post' = markRecordJudged(n, useLoadedPost(heard, cuJob.records[n].pages))
       \/ post' = markRecordJudged(n, heard) \/ post' = heard
     BY <1>2 DEF handleUpdateEventFromCommunity
 <2> HIDE DEF heard, n
 <2> QED BY <1>1, <2>3, <2>4, <2>5, <2>6
<1>3. ASSUME NEW n \in DOMAIN lookup, LookupStep(n) PROVE post'.held >= post.held
 <2>1. CASE verifyFile(n)
  <3> DEFINE l == lookup[n]
             at == FileAt(n, l.i)
  <3>1. l.pc = "verify" /\ InFile(l) /\ n \in DOMAIN cuJob.records /\ l.i \in DOMAIN cuJob.records[n].ranges
      BY <2>1 DEF PostInv, PostTypeOK, verifyFile, InFile
  <3>2. at \in Nat BY <1>1, <3>1, RecordFacts
  <3>3. post' = post \/ post' = useLoadedPost(Judged(post, n, l), at) BY <2>1 DEF verifyFile, FileAt
  <3>4. DOMAIN Judged(post, n, l) = DOMAIN post /\ Judged(post, n, l).held = post.held /\ "held" \in DOMAIN post
      BY <1>1 DEF Judged, PostRecords
  <3> QED BY <1>1, <3>2, <3>3, <3>4 DEF useLoadedPost
 <2>2. CASE post' = post \/ \E j : post' = [post EXCEPT !.judged = j] BY <1>1, <2>2 DEF PostRecords
 <2>3. tryRange(n) \/ resolveFile(n) \/ resolveTimesOut(n) \/ fetchFile(n)
         => post' = post \/ \E j : post' = [post EXCEPT !.judged = j]
     BY DEF tryRange, resolveFile, resolveTimesOut, fetchFile, Judged
 <2> QED BY <1>3, <2>1, <2>2, <2>3 DEF LookupStep
<1>4. CASE stopPost BY <1>1, <1>4 DEF stopPost, PostRecords
<1>5. handleUpdateEventFromPost \/ (\E n \in DOMAIN search : SearchStep(n)) \/ UNCHANGED cuVars => post' = post
    BY DEF handleUpdateEventFromPost, SearchStep, searchAfterPrevious, beginSearch, searchPage, pageFails, cuVars
<1> QED BY <1>1, <1>2, <1>3, <1>4, <1>5 DEF CuNext

(* Used, an update found is held unless a newer one is. *)
LEMMA UsedReply ==
    ASSUME NEW r \in ReplyRecords, NEW at \in Nat
    PROVE  useLoadedReply(r, at).held >= r.held
BY DEF useLoadedReply, ReplyRecords

LEMMA ReplyHeldGrows ==
    ASSUME ReplyInv, [CuNext]_cuVars
    PROVE  reply'.held >= reply.held
<1>1. reply \in ReplyRecords /\ reply.held \in Nat /\ reply.seen \in Nat /\ ReplyTypeOK BY DEF ReplyInv, ReplyTypeOK, ReplyRecords
<1>2. CASE handleUpdateEventFromPost
 <2> DEFINE n == reply.seen + 1
            r == [reply EXCEPT !.seen = n]
 <2>1. r \in ReplyRecords /\ r.held = reply.held BY <1>1 DEF ReplyRecords
 <2>2. n \in DOMAIN cuJob.posts /\ cuJob.posts[n].pre \in Nat BY <1>1, <1>2, PostFacts DEF handleUpdateEventFromPost
 <2>3. reply' = useLoadedReply(r, cuJob.posts[n].pre) BY <1>2 DEF handleUpdateEventFromPost
 <2> HIDE DEF r, n
 <2> QED BY <2>1, <2>2, <2>3, UsedReply
<1>3. ASSUME NEW n \in DOMAIN search, SearchStep(n) PROVE reply'.held >= reply.held
 <2>1. CASE searchAfterPrevious(n) BY <1>1, <2>1 DEF searchAfterPrevious
 <2>2. CASE pageFails(n) BY <1>1, <2>2 DEF pageFails, ReplyRecords
 <2>3. ASSUME beginSearch(n) \/ searchPage(n) PROVE Pages.pre \in Nat
  <3>1. search[n].pc # "none" BY <2>3 DEF beginSearch, searchPage
  <3> QED BY <1>1, <3>1, SearchAsked, PostFacts DEF Pages
 <2>4. CASE beginSearch(n)
  <3> DEFINE r == [reply EXCEPT !.failed = FALSE]
  <3>1. r \in ReplyRecords /\ r.held = reply.held /\ reply' = useLoadedReply(r, Pages.pre) BY <1>1, <2>4 DEF ReplyRecords, beginSearch
  <3> HIDE DEF r
  <3> QED BY <2>3, <2>4, <3>1, UsedReply
 <2>5. CASE searchPage(n)
  <3> DEFINE s == search[n]
             best == IF PageOf[s.page].reply > 0 THEN PageOf[s.page].reply ELSE Pages.pre
             r == IF s.first THEN [reply EXCEPT !.loaded = @ \cup {s.page}] ELSE reply
  <3>1. s.page \in DOMAIN PageOf /\ best \in Nat BY <2>3, <2>5, BehindFacts, CuAssumption DEF searchPage, ReplyInv, SearchFits
  <3>2. r \in ReplyRecords /\ r.held = reply.held BY <1>1, <3>1 DEF ReplyRecords
  <3>3. reply' = useLoadedReply(r, best) \/ \E flag, b : reply' = [r EXCEPT !.failed = flag, !.broken = b] BY <2>5 DEF searchPage
  <3> HIDE DEF r, best
  <3>5. CASE \E flag, b : reply' = [r EXCEPT !.failed = flag, !.broken = b]
   <4>1. PICK flag, b : reply' = [r EXCEPT !.failed = flag, !.broken = b] BY <3>5
   <4>2. reply'.held = r.held BY <3>2, <4>1 DEF ReplyRecords
   <4>3. QED BY <1>1, <3>2, <4>2
  <3>6. CASE reply' = useLoadedReply(r, best) BY <1>1, <3>1, <3>2, <3>6, UsedReply
  <3> QED BY <3>3, <3>5, <3>6
 <2> QED BY <1>3, <2>1, <2>2, <2>4, <2>5 DEF SearchStep
<1>4. handleUpdateEventFromCommunity \/ stopPost \/ (\E n \in DOMAIN lookup : LookupStep(n)) \/ UNCHANGED cuVars
        => reply' = reply
    BY DEF handleUpdateEventFromCommunity, stopPost, LookupStep, tryRange, resolveFile, resolveTimesOut, fetchFile, verifyFile, cuVars
<1> QED BY <1>1, <1>2, <1>3, <1>4 DEF CuNext

(* No lookup and no search that ends late puts an older CommentUpdate in the *)
(* place of a newer one. *)
THEOREM CommentNeverGoesBack == CuSpec => NeverBack
<1> DEFINE Grows == post'.held >= post.held /\ reply'.held >= reply.held
<1>1. CuInit => CuInv BY PostInitially, ReplyInitially DEF CuInv
<1>2. CuInv /\ [CuNext]_cuVars => CuInv' /\ [Grows]_cuVars BY PostStep, ReplyStep, PostHeldGrows, ReplyHeldGrows DEF CuInv
<1> HIDE DEF Grows
<1>3. CuSpec => [][Grows]_cuVars BY <1>1, <1>2, PTL DEF CuSpec
<1> QED BY <1>3 DEF NeverBack, Grows
========================================
