-------------------- MODULE ContentProofs --------------------
(***************************************************************************)
(* What a community takes in, and keeps of its lists and its rows, for any *)
(* settings, lists, posts and interleavings: verdicts are earned,          *)
(* exclusions sound and rules kept; loads, reloads and stops settle; and a *)
(* migration keeps its rows.                                               *)
(***************************************************************************)
EXTENDS CommunityLists, ChallengeVerdict, ChallengeExcludes, PublicationRules, DbMigration, FiniteSetTheorems,
        WellFoundedInduction, TLAPS

(* A set of naturals has a least element. *)
LEMMA LeastOfNaturals ==
    ASSUME NEW S \in SUBSET Nat, S # {}
    PROVE  \E m \in S : \A k \in S : m <= k
<1>1. \E m \in S : \A k \in S : ~(<<k, m>> \in OpToRel(<, Nat)) BY NatLessThanWellFounded, WFMin
<1>2. PICK m \in S : \A k \in S : ~(<<k, m>> \in OpToRel(<, Nat)) BY <1>1
<1>3. ASSUME NEW k \in S PROVE m <= k
 <2>1. <<k, m>> \in Nat \X Nat /\ <<k, m>>[1] = k /\ <<k, m>>[2] = m OBVIOUS
 <2>2. ~(k < m) BY <1>2, <1>3, <2>1 DEF OpToRel
 <2>3. QED BY <2>2, <1>3
<1>4. QED BY <1>2, <1>3

----------------------------------------
(* CommunityLists: the lists of a community and the runs that update them. *)

ListRun == 1..ClRuns
ListRuns == [kind : {"none", "publishing", "updating", "loading"},
             pc : {"none", "sign", "add", "tick", "fetch", "wait", "settle", "resolve", "delay", "done"},
             tries : Nat, timer : BOOLEAN]

ClTypeOK ==
    /\ clJob \in ClWorkload /\ state \in {"stopped", "publishing", "updating"} /\ owner \in 0..ClRuns
    /\ aborted \subseteq ListRun /\ clRun \in [ListRun -> ListRuns]
    /\ tracked \in BOOLEAN /\ record \in BOOLEAN

(* Runs begin one after the other. *)
InOrder == \E n \in 0..ClRuns : Begun = 1..n

(* Where a run of each kind can be, and a load that waits has its timer. *)
Consistent(x) ==
    /\ x.pc = "none" <=> x.kind = "none"
    /\ x.kind = "loading" => x.pc \in {"fetch", "wait", "done"}
    /\ x.kind = "publishing" => x.pc \in {"sign", "add", "done"}
    /\ x.kind = "updating" => x.pc \notin {"sign", "add"}
    /\ x.pc = "wait" => x.timer

RunsAreConsistent ==
    /\ \A r \in ListRun : Consistent(clRun[r])
    /\ aborted \subseteq Begun
    /\ owner # 0 => owner \in Begun /\ clRun[owner].kind # "loading"

ClInv == ClTypeOK /\ InOrder /\ RunsAreConsistent /\ StateHasRun

----------------------------------------
(* The next run is the first that has not begun. *)
LEMMA NextIsNew ==
    ASSUME ClInv, Next1 <= ClRuns
    PROVE  Next1 \in ListRun /\ Next1 \notin Begun /\ Begun \cup {Next1} = 1..Next1
<1>1. PICK n \in 0..ClRuns : Begun = 1..n BY DEF ClInv, InOrder
<1>2. Cardinality(1..n) = n
 <2>1. 1 \in Int /\ n \in Int BY ClAssumption
 <2>2. Cardinality(1..n) = IF 1 > n THEN 0 ELSE n - 1 + 1 BY <2>1, FS_Interval
 <2>3. QED BY <2>1, <2>2, ClAssumption
<1>3. QED BY <1>1, <1>2, ClAssumption DEF Next1, ListRun

(* One run moves on, and the instance with it: it stays as it is, unless the *)
(* run that owned it is over; it is reset; or the run stops it. *)
LEMMA RunMoves ==
    ASSUME ClInv, NEW r \in Begun, NEW x \in ListRuns, Consistent(x), x.kind = clRun[r].kind, clRun[r].pc # "done",
           clRun' = [clRun EXCEPT ![r] = x], UNCHANGED <<clJob, owner>>, record' \in BOOLEAN,
           \/ /\ UNCHANGED <<state, tracked, aborted>>
              /\ x.pc = "done" => r \in aborted \/ x.kind = "loading"
           \/ x.kind = "publishing" /\ x.pc = "done" /\ Reset(r) /\ UNCHANGED <<tracked, aborted>>
           \/ StopsItself(r)
    PROVE  ClInv'
<1>1. /\ clRun \in [ListRun -> ListRuns] /\ Begun \subseteq ListRun /\ owner \in 0..ClRuns /\ ClRuns \in Nat
      /\ RunsAreConsistent /\ StateHasRun
    BY ClAssumption DEF ClInv, ClTypeOK, Begun, ListRun
<1>2. clRun' \in [ListRun -> ListRuns] /\ clRun'[r] = x /\ \A q \in ListRun : q # r => clRun'[q] = clRun[q] BY <1>1
<1>3. x.pc # "none" /\ x.kind # "none" /\ r \in ListRun BY <1>1 DEF Consistent, Begun, RunsAreConsistent
<1>4. Begun' = Begun BY <1>2, <1>3 DEF Begun, ListRun
<1>5. owner # 0 => owner \in Begun BY <1>1 DEF RunsAreConsistent
<1>6. aborted' \subseteq Begun' /\ ClTypeOK'
 <2>1. aborted' \in {aborted, aborted \cup ({owner} \ {0})} /\ state' \in {state, "stopped"} /\ tracked' \in {tracked, FALSE}
     BY DEF Reset, StopsItself
 <2>2. QED BY <1>1, <1>2, <1>4, <1>5, <2>1 DEF ClInv, ClTypeOK, RunsAreConsistent
<1>7. InOrder' BY <1>4 DEF ClInv, InOrder
<1>8. RunsAreConsistent' BY <1>1, <1>2, <1>4, <1>5, <1>6 DEF RunsAreConsistent, ListRun, Begun
<1>9. StateHasRun'
 <2>1. Alive' \subseteq Alive /\ \A q \in Alive : q # r => q \in Alive' /\ (x.pc # "done" => r \in Alive')
     BY <1>1, <1>2, <1>3, <1>4 DEF Alive, Begun
 <2>2. \A q \in Begun : clRun'[q].kind = clRun[q].kind BY <1>1, <1>2
 <2>3. r \in Alive BY DEF Alive
 <2>4. CASE UNCHANGED <<state, tracked, aborted>> /\ (x.pc = "done" => r \in aborted \/ x.kind = "loading")
  <3>1. state # "stopped" => owner \in Alive' \ aborted'
   <4>1. CASE owner = r /\ state # "stopped"
    <5>1. r \notin aborted /\ x.kind # "loading" BY <1>1, <1>5, <4>1, <2>4 DEF StateHasRun, RunsAreConsistent, Alive, Begun, ListRun
    <5>2. QED BY <2>4, <4>1, <5>1, <1>2, <1>3, <1>4 DEF Alive
   <4>2. QED BY <1>1, <2>1, <2>4, <4>1 DEF StateHasRun
  <3>2. QED BY <1>1, <2>1, <2>2, <2>4, <3>1 DEF StateHasRun, Alive
 <2>5. CASE x.kind = "publishing" /\ x.pc = "done" /\ Reset(r) /\ UNCHANGED <<tracked, aborted>>
  <3>1. r \notin Alive' BY <1>2, <2>5 DEF Alive
  <3>2. CASE owner = r
   <4>1. state' = "stopped" BY <2>5, <3>2 DEF Reset
   <4>2. ~tracked BY <1>1, <2>3, <2>5, <3>2 DEF StateHasRun
   <4>3. QED BY <1>1, <2>1, <2>2, <2>5, <3>1, <3>2, <4>1, <4>2 DEF StateHasRun, Alive
  <3>3. CASE owner # r
   <4>1. state' = state BY <2>5, <3>3 DEF Reset
   <4>2. QED BY <1>1, <2>1, <2>2, <2>5, <3>3, <4>1 DEF StateHasRun, Alive
  <3>4. QED BY <3>2, <3>3
 <2>6. CASE StopsItself(r)
  <3>1. \A q \in Alive' \ aborted' : clRun'[q].kind = "loading"
   <4>1. SUFFICES ASSUME NEW q \in Alive' \ aborted', clRun'[q].kind # "loading" PROVE FALSE OBVIOUS
   <4>2. q \in Alive \ aborted /\ clRun[q].kind # "loading" /\ q # 0 BY <2>1, <2>2, <2>6, <4>1 DEF StopsItself, Alive, Begun
   <4>3. q = owner BY <1>1, <4>2 DEF StateHasRun
   <4>4. QED BY <2>6, <4>1, <4>2, <4>3 DEF StopsItself
  <3>2. QED BY <2>6, <3>1 DEF StateHasRun, StopsItself
 <2>7. QED BY <2>4, <2>5, <2>6
<1>10. QED BY <1>6, <1>7, <1>8, <1>9 DEF ClInv

(* A run begins where none that the instance shows is under way, and owns it. *)
LEMMA RunBegins ==
    ASSUME ClInv, Next1 <= ClRuns, state = "stopped", NEW x \in ListRuns, Consistent(x), x.kind \in {"publishing", "updating"},
           x.pc # "done", clRun' = [clRun EXCEPT ![Next1] = x], state' = x.kind, owner' = Next1,
           tracked' = IF x.kind = "updating" THEN TRUE ELSE tracked, UNCHANGED <<clJob, aborted, record>>
    PROVE  ClInv'
<1> DEFINE r == Next1
<1>1. /\ clRun \in [ListRun -> ListRuns] /\ RunsAreConsistent /\ StateHasRun /\ InOrder /\ ClTypeOK
      /\ r \in ListRun /\ r \notin Begun /\ Begun \cup {r} = 1..r /\ ClRuns \in Nat
    BY NextIsNew, ClAssumption DEF ClInv, ClTypeOK
<1>2. clRun' = [clRun EXCEPT ![r] = x] /\ owner' = r OBVIOUS
<1> HIDE DEF r
<1>3. clRun' \in [ListRun -> ListRuns] /\ clRun'[r] = x /\ \A q \in ListRun : q # r => clRun'[q] = clRun[q] BY <1>1, <1>2
<1>4. x.pc # "none" BY DEF Consistent
<1>5. Begun' = Begun \cup {r} BY <1>1, <1>3, <1>4 DEF Begun, ListRun
<1>6. InOrder' BY <1>1, <1>5 DEF InOrder, ListRun
<1>7. ClTypeOK'
 <2>1. owner' \in 0..ClRuns BY <1>1, <1>2 DEF ListRun
 <2>2. tracked' \in BOOLEAN /\ state' \in {"stopped", "publishing", "updating"} BY <1>1 DEF ClTypeOK
 <2>3. QED BY <1>1, <1>3, <2>1, <2>2 DEF ClTypeOK
<1>8. RunsAreConsistent' BY <1>1, <1>2, <1>3, <1>5 DEF RunsAreConsistent
<1>9. \A q \in Alive \ aborted : clRun[q].kind = "loading"
 <2>1. SUFFICES ASSUME NEW q \in Alive \ aborted, clRun[q].kind # "loading" PROVE FALSE OBVIOUS
 <2>2. q \in ListRun /\ clRun[q].pc # "none" /\ clRun[q].kind # "none" BY <1>1 DEF Alive, Begun, RunsAreConsistent, Consistent, ListRun
 <2>3. clRun[q].kind = "stopped" BY <1>1, <2>1 DEF StateHasRun
 <2>4. QED BY <1>1, <2>2, <2>3 DEF ListRuns
<1>10. r \notin aborted /\ ~tracked BY <1>1 DEF RunsAreConsistent, StateHasRun
<1>11. Alive' = Alive \cup {r} /\ r \notin Alive BY <1>1, <1>3, <1>5 DEF Alive, Begun, ListRun
<1>12. \A q \in Alive : clRun'[q] = clRun[q] BY <1>1, <1>3 DEF Alive, Begun, ListRun
<1>13. StateHasRun' BY <1>2, <1>3, <1>9, <1>10, <1>11, <1>12 DEF StateHasRun
<1>14. QED BY <1>6, <1>7, <1>8, <1>13 DEF ClInv

(* Every step keeps the invariant. *)
LEMMA ClStep == ClInv /\ [ClNext]_clVars => ClInv'
<1> SUFFICES ASSUME ClInv, [ClNext]_clVars PROVE ClInv' OBVIOUS
<1>t. /\ clRun \in [ListRun -> ListRuns] /\ \A r \in ListRun : clRun[r] \in ListRuns /\ Consistent(clRun[r])
      /\ \A r \in ListRun : clRun[r].tries \in Nat /\ clRun[r].timer \in BOOLEAN
      /\ RunsAreConsistent /\ StateHasRun /\ ClTypeOK /\ ClRuns \in Nat
      /\ record \in BOOLEAN
    BY ClAssumption DEF ClInv, ClTypeOK, RunsAreConsistent, ListRuns
<1>n. ASSUME NEW kind \in {"publishing", "updating", "loading"}, NEW pc \in {"sign", "tick", "fetch"},
             (kind = "publishing") <=> (pc = "sign"), (kind = "loading") <=> (pc = "fetch")
      PROVE  [kind |-> kind, pc |-> pc, tries |-> 0, timer |-> FALSE] \in ListRuns
             /\ Consistent([kind |-> kind, pc |-> pc, tries |-> 0, timer |-> FALSE])
    BY <1>n DEF ListRuns, Consistent
(* A run at pc goes to to, and takes nothing else with it. *)
<1>m. ASSUME NEW r \in ListRun, NEW to \in {"add", "fetch", "settle", "resolve", "delay", "done"},
             clRun[r].pc \notin {"none", "done"},
             clRun[r].kind = "publishing" => to \in {"add", "done"},
             clRun[r].kind = "loading" => to \in {"fetch", "done"},
             clRun[r].kind = "updating" => to # "add",
             Moves(r, to), UNCHANGED <<clJob, owner>>, record' \in BOOLEAN,
             \/ /\ UNCHANGED <<state, tracked, aborted>>
                /\ to = "done" => r \in aborted \/ clRun[r].kind = "loading"
             \/ clRun[r].kind = "publishing" /\ to = "done" /\ Reset(r) /\ UNCHANGED <<tracked, aborted>>
             \/ StopsItself(r)
      PROVE  ClInv'
 <2> DEFINE x == [clRun[r] EXCEPT !.pc = to]
 <2>1. x \in ListRuns /\ x.pc = to /\ x.kind = clRun[r].kind /\ r \in Begun BY <1>t, <1>m DEF ListRuns, Begun, ListRun
 <2>2. clRun' = [clRun EXCEPT ![r] = x] BY <1>m DEF Moves
 <2> HIDE DEF x
 <2>3. Consistent(x) BY <1>t, <1>m, <2>1 DEF Consistent
 <2>4. QED BY <1>m, <2>1, <2>2, <2>3, RunMoves
(* Where a run at a given place comes from. *)
<1>k. \A r \in ListRun : /\ clRun[r].pc \in {"sign", "add"} => clRun[r].kind = "publishing"
                         /\ clRun[r].pc \in {"tick", "settle", "resolve", "delay"} => clRun[r].kind = "updating"
                         /\ clRun[r].pc \in {"fetch", "wait"} => clRun[r].kind \in {"updating", "loading"}
    BY <1>t DEF ListRuns, Consistent
<1>1. CASE publish
 <2> DEFINE x == [kind |-> "publishing", pc |-> "sign", tries |-> 0, timer |-> FALSE]
 <2>1. x \in ListRuns /\ Consistent(x) /\ x.kind = "publishing" /\ x.pc = "sign" BY <1>n
 <2>2. /\ clRun' = [clRun EXCEPT ![Next1] = x] /\ Next1 <= ClRuns /\ state \notin {"publishing", "updating"}
       /\ state' = "publishing" /\ owner' = Next1 /\ UNCHANGED <<clJob, aborted, tracked, record>>
     BY <1>1 DEF publish, ShownVars
 <2> HIDE DEF x
 <2>3. state = "stopped" BY <1>t, <2>2 DEF ClTypeOK
 <2>4. QED BY <2>1, <2>2, <2>3, RunBegins
<1>2. CASE update
 <2> DEFINE x == [kind |-> "updating", pc |-> "tick", tries |-> 0, timer |-> FALSE]
 <2>1. x \in ListRuns /\ Consistent(x) /\ x.kind = "updating" /\ x.pc = "tick" BY <1>n
 <2>2. /\ clRun' = [clRun EXCEPT ![Next1] = x] /\ Next1 <= ClRuns /\ state \notin {"publishing", "updating"}
       /\ state' = "updating" /\ owner' = Next1 /\ tracked' = TRUE /\ UNCHANGED <<clJob, aborted, record>>
     BY <1>2 DEF update, ShownVars
 <2> HIDE DEF x
 <2>3. state = "stopped" BY <1>t, <2>2 DEF ClTypeOK
 <2>4. QED BY <2>1, <2>2, <2>3, RunBegins
<1>3. CASE getCommunityList
 <2> DEFINE x == [kind |-> "loading", pc |-> "fetch", tries |-> 0, timer |-> FALSE]
 <2>1. x \in ListRuns /\ Consistent(x) /\ x.kind = "loading" /\ x.pc = "fetch" BY <1>n
 <2>2. /\ clRun' = [clRun EXCEPT ![1] = x] /\ state = "stopped" /\ Begun = {}
       /\ UNCHANGED <<clJob, state, owner, aborted, tracked, record>>
     BY <1>3 DEF getCommunityList, ShownVars
 <2> HIDE DEF x
 <2>3. CASE ClRuns = 0
  <3>1. clRun' = clRun BY <1>t, <2>2, <2>3 DEF ListRun
  <3>2. QED BY <2>2, <3>1 DEF ClInv, ClTypeOK, InOrder, RunsAreConsistent, StateHasRun, Alive, Begun
 <2>4. CASE ClRuns # 0
  <3>1. 1 \in ListRun BY <1>t, <2>4 DEF ListRun
  <3>2. clRun' \in [ListRun -> ListRuns] /\ clRun'[1] = x /\ \A q \in ListRun : q # 1 => clRun'[q] = clRun[q] BY <1>t, <2>1, <2>2, <3>1
  <3>3. Begun' = {1} BY <2>1, <2>2, <3>1, <3>2 DEF Begun, ListRun
  <3>4. InOrder'
   <4>1. {1} = 1..1 /\ 1 \in 0..ClRuns BY <1>t, <3>1 DEF ListRun
   <4>2. QED BY <3>3, <4>1 DEF InOrder
  <3>5. Alive' \subseteq {1} /\ owner = 0 BY <1>t, <2>2, <3>3 DEF Alive, RunsAreConsistent
  <3>6. StateHasRun' BY <1>t, <2>1, <2>2, <3>2, <3>5 DEF StateHasRun
  <3>7. RunsAreConsistent' BY <1>t, <2>1, <2>2, <3>2, <3>5 DEF RunsAreConsistent
  <3>8. ClTypeOK' BY <1>t, <2>2, <3>2 DEF ClTypeOK
  <3>9. QED BY <3>4, <3>6, <3>7, <3>8 DEF ClInv
 <2>5. QED BY <2>3, <2>4
<1>4. CASE stop
 <2> DEFINE current == {r \in Loading : \A q \in Loading : q <= r}
            cut == ({owner} \ {0}) \cup current
 <2>1. /\ tracked' = FALSE /\ state' = "stopped" /\ aborted' = aborted \cup cut
       /\ clRun' = [r \in ListRun |-> IF r \in cut \cap Loading THEN Settled(r) ELSE clRun[r]]
       /\ UNCHANGED <<clJob, owner, record>>
     BY <1>4 DEF stop, ShownVars, ListRun
 <2>2. cut \subseteq Begun /\ owner \in cut \cup {0} /\ Begun \subseteq ListRun BY <1>t DEF RunsAreConsistent, Loading, Begun, ListRun
 <2> HIDE DEF cut
 <2>3. ASSUME NEW r \in ListRun, r \in Loading
       PROVE  /\ Settled(r) \in ListRuns /\ Consistent(Settled(r)) /\ Settled(r).kind = clRun[r].kind
              /\ Settled(r).pc \in {"fetch", "done"}
  <3> DEFINE to == IF clRun[r].pc = "wait" THEN "done" ELSE clRun[r].pc
             x == [clRun[r] EXCEPT !.timer = FALSE, !.pc = to]
  <3>1. clRun[r].pc \in {"fetch", "wait"} /\ to \in {"fetch", "done"} /\ Settled(r) = x BY <2>3 DEF Loading, Settled
  <3> HIDE DEF to
  <3>2. x \in ListRuns /\ x.pc = to /\ x.kind = clRun[r].kind BY <1>t, <3>1 DEF ListRuns
  <3> HIDE DEF x
  <3>3. Consistent(x) BY <1>t, <3>1, <3>2 DEF Consistent
  <3>4. QED BY <3>1, <3>2, <3>3
 <2>4. /\ clRun' \in [ListRun -> ListRuns] /\ \A r \in ListRun : Consistent(clRun'[r]) /\ clRun'[r].kind = clRun[r].kind
       /\ \A r \in ListRun : (clRun'[r].pc = "none") <=> (clRun[r].pc = "none")
  <3>1. ASSUME NEW r \in ListRun
        PROVE  /\ clRun'[r] \in ListRuns /\ Consistent(clRun'[r]) /\ clRun'[r].kind = clRun[r].kind
               /\ (clRun'[r].pc = "none") <=> (clRun[r].pc = "none")
   <4>1. CASE r \in cut \cap Loading BY <2>1, <2>3, <4>1 DEF Loading
   <4>2. CASE r \notin cut \cap Loading BY <1>t, <2>1, <4>2
   <4>3. QED BY <4>1, <4>2
  <3>2. QED BY <2>1, <3>1
 <2>5. Begun' = Begun BY <2>4 DEF Begun, ListRun
 <2>6. Alive' \subseteq Alive
  <3>1. \A r \in ListRun : clRun[r].pc = "done" => clRun'[r].pc = "done" BY <2>1 DEF Loading
  <3>2. QED BY <2>2, <2>5, <3>1 DEF Alive
 <2>7. StateHasRun'
  <3>1. \A r \in Alive' \ aborted' : clRun'[r].kind = "loading"
   <4>1. SUFFICES ASSUME NEW r \in Alive \ aborted, r \notin cut, clRun[r].kind # "loading" PROVE FALSE BY <2>1, <2>2, <2>4, <2>6 DEF Alive
   <4>2. r = owner /\ r # 0 BY <1>t, <4>1 DEF StateHasRun, Alive, Begun
   <4>3. QED BY <2>2, <4>1, <4>2
  <3>2. QED BY <2>1, <3>1 DEF StateHasRun
 <2>8. RunsAreConsistent' BY <1>t, <2>1, <2>2, <2>4, <2>5 DEF RunsAreConsistent
 <2>9. ClTypeOK' /\ InOrder' BY <1>t, <2>1, <2>2, <2>4, <2>5 DEF ClInv, ClTypeOK, InOrder
 <2>10. QED BY <2>7, <2>8, <2>9 DEF ClInv
<1>5. ASSUME NEW r \in ListRun, publishSigned(r) PROVE ClInv'
 <2>1. CASE Moves(r, "done") /\ Reset(r) BY <1>t, <1>k, <1>m, <1>5, <2>1 DEF publishSigned, Is, ShownVars
 <2>2. CASE Moves(r, "add") /\ UNCHANGED state BY <1>t, <1>k, <1>m, <1>5, <2>2 DEF publishSigned, Is, ShownVars
 <2>3. QED BY <1>5, <2>1, <2>2 DEF publishSigned
<1>6. ASSUME NEW r \in ListRun, publishFails(r) PROVE ClInv' BY <1>t, <1>k, <1>m, <1>6 DEF publishFails, ShownVars
<1>7. ASSUME NEW r \in ListRun, publishAdded(r) PROVE ClInv'
 <2>1. record' \in BOOLEAN BY <1>7 DEF publishAdded
 <2>2. QED BY <1>t, <1>k, <1>m, <1>7, <2>1 DEF publishAdded, Is
<1>8. ASSUME NEW r \in ListRun, _runUpdateLoop(r) PROVE ClInv'
 <2>1. CASE Cut(r) /\ Moves(r, "done") BY <1>t, <1>k, <1>m, <1>8, <2>1 DEF _runUpdateLoop, Is, Instance, Cut
 <2>2. CASE Moves(r, "settle") BY <1>t, <1>k, <1>m, <1>8, <2>2 DEF _runUpdateLoop, Is, Instance
 <2>3. CASE Moves(r, "fetch") BY <1>t, <1>k, <1>m, <1>8, <2>3 DEF _runUpdateLoop, Is, Instance
 <2>4. QED BY <1>8, <2>1, <2>2, <2>3 DEF _runUpdateLoop
<1>9. ASSUME NEW r \in ListRun, fetched(r) PROVE ClInv'
 <2>1. clRun[r].pc = "fetch" /\ UNCHANGED <<clJob, state, owner, aborted, tracked>> /\ record' \in BOOLEAN
     BY <1>t, <1>9 DEF fetched, Is, Instance
 <2>2. CASE Cut(r) /\ Moves(r, "done") BY <1>k, <1>m, <2>1, <2>2 DEF Cut
 <2>3. CASE Moves(r, AfterLoad(r)) /\ clRun[r].kind = "loading" BY <1>k, <1>m, <2>1, <2>3 DEF AfterLoad
 <2>4. CASE Moves(r, AfterLoad(r)) /\ clRun[r].kind # "loading" BY <1>k, <1>m, <2>1, <2>4 DEF AfterLoad
 <2>5. QED BY <1>9, <2>2, <2>3, <2>4 DEF fetched
<1>10. ASSUME NEW r \in ListRun, recordError(r) PROVE ClInv'
 <2>1. clRun[r].pc = "fetch" /\ Moves(r, "done") /\ UNCHANGED <<clJob, record>> BY <1>10 DEF recordError, Is
 <2>2. CASE (Cut(r) \/ clRun[r].kind = "loading") /\ UNCHANGED Instance BY <1>t, <1>k, <1>m, <2>1, <2>2 DEF Cut, Instance
 <2>3. CASE StopsItself(r) /\ UNCHANGED owner BY <1>t, <1>k, <1>m, <2>1, <2>3
 <2>4. QED BY <1>10, <2>2, <2>3 DEF recordError
<1>11. ASSUME NEW r \in ListRun, transportError(r) PROVE ClInv'
 <2>1. clRun[r].pc = "fetch" /\ UNCHANGED <<clJob, state, owner, aborted, tracked, record>> BY <1>11 DEF transportError, Is, Instance
 <2>2. CASE Cut(r) /\ Moves(r, "done") BY <1>t, <1>k, <1>m, <2>1, <2>2 DEF Cut
 <2>3. CASE clRun' = [clRun EXCEPT ![r].pc = "wait", ![r].tries = @ + 1, ![r].timer = TRUE]
  <3> DEFINE n == clRun[r].tries + 1
             x == [clRun[r] EXCEPT !.pc = "wait", !.tries = n, !.timer = TRUE]
  <3>1. clRun' = [clRun EXCEPT ![r] = x] BY <1>t, <2>3
  <3>n. n \in Nat BY <1>t
  <3> HIDE DEF n
  <3>2. x \in ListRuns /\ x.pc = "wait" /\ x.timer /\ x.kind = clRun[r].kind /\ r \in Begun BY <1>t, <2>1, <3>n DEF ListRuns, Begun, ListRun
  <3> HIDE DEF x
  <3>3. Consistent(x) BY <1>k, <2>1, <3>2 DEF Consistent
  <3>4. QED BY <1>t, <2>1, <3>1, <3>2, <3>3, RunMoves
 <2>4. QED BY <1>11, <2>2, <2>3 DEF transportError
<1>12. ASSUME NEW r \in ListRun, retryLoad(r) PROVE ClInv'
 <2> DEFINE to == IF Cut(r) THEN "done" ELSE "fetch"
            x == [clRun[r] EXCEPT !.pc = to, !.timer = FALSE]
 <2>1. clRun[r].pc = "wait" /\ clRun' = [clRun EXCEPT ![r] = x] /\ UNCHANGED <<clJob, state, owner, aborted, tracked, record>>
     BY <1>12 DEF retryLoad, Is, Instance, ShownVars
 <2>2. to \in {"done", "fetch"} /\ (to = "done" => r \in aborted) BY DEF Cut
 <2> HIDE DEF to
 <2>3. x \in ListRuns /\ x.pc = to /\ x.kind = clRun[r].kind /\ r \in Begun BY <1>t, <2>1, <2>2 DEF ListRuns, Begun, ListRun
 <2> HIDE DEF x
 <2>4. Consistent(x) BY <1>k, <2>1, <2>2, <2>3 DEF Consistent
 <2>5. QED BY <1>t, <2>1, <2>2, <2>3, <2>4, RunMoves
<1>13. ASSUME NEW r \in ListRun, settleName(r) PROVE ClInv'
 <2>1. clRun[r].pc = "settle" /\ UNCHANGED <<clJob, record>> BY <1>13 DEF settleName, Is
 <2>2. CASE Cut(r) /\ Moves(r, "done") /\ UNCHANGED Instance BY <1>t, <1>k, <1>m, <2>1, <2>2 DEF Cut, Instance
 <2>3. CASE Moves(r, "resolve") /\ UNCHANGED Instance BY <1>t, <1>k, <1>m, <2>1, <2>3 DEF Instance
 <2>4. CASE Moves(r, "done") /\ StopsItself(r) /\ UNCHANGED owner BY <1>t, <1>k, <1>m, <2>1, <2>4
 <2>5. QED BY <1>13, <2>2, <2>3, <2>4 DEF settleName
<1>14. ASSUME NEW r \in ListRun, resolved(r) PROVE ClInv'
 <2>1. clRun[r].pc = "resolve" /\ Moves(r, "done") /\ UNCHANGED <<clJob, record>> BY <1>14 DEF resolved, Is
 <2>2. CASE Cut(r) /\ UNCHANGED Instance BY <1>t, <1>k, <1>m, <2>1, <2>2 DEF Cut, Instance
 <2>3. CASE StopsItself(r) /\ UNCHANGED owner BY <1>t, <1>k, <1>m, <2>1, <2>3
 <2>4. QED BY <1>14, <2>2, <2>3 DEF resolved
<1>15. ASSUME NEW r \in ListRun, resolveFails(r) PROVE ClInv'
 <2> DEFINE to == IF Cut(r) THEN "done" ELSE "delay"
            n == clRun[r].tries + 1
            x == [clRun[r] EXCEPT !.pc = to, !.tries = n]
 <2>1. clRun[r].pc = "resolve" /\ clRun' = [clRun EXCEPT ![r] = x] /\ UNCHANGED <<clJob, state, owner, aborted, tracked, record>>
     BY <1>15 DEF resolveFails, Is, Instance, ShownVars
 <2>a. to \in {"done", "delay"} /\ (to = "done" => r \in aborted) BY DEF Cut
 <2>b. n \in Nat BY <1>t
 <2>2. to \in {"done", "delay"} /\ (to = "done" => r \in aborted) /\ n \in Nat BY <2>a, <2>b
 <2> HIDE DEF to, n
 <2>3. x \in ListRuns /\ x.pc = to /\ x.kind = clRun[r].kind /\ r \in Begun BY <1>t, <2>1, <2>2 DEF ListRuns, Begun, ListRun
 <2> HIDE DEF x
 <2>4. Consistent(x) BY <1>k, <2>1, <2>2, <2>3 DEF Consistent
 <2>5. QED BY <1>t, <2>1, <2>2, <2>3, <2>4, RunMoves
<1>16. ASSUME NEW r \in ListRun, _delayWithAbort(r) PROVE ClInv'
 <2>1. clRun[r].pc = "delay" /\ UNCHANGED <<clJob, state, owner, aborted, tracked, record>>
     BY <1>16 DEF _delayWithAbort, Is, Instance, ShownVars
 <2>2. CASE Cut(r) /\ Moves(r, "done") BY <1>t, <1>k, <1>m, <2>1, <2>2 DEF Cut
 <2>3. CASE Moves(r, "resolve") BY <1>t, <1>k, <1>m, <2>1, <2>3
 <2>4. QED BY <1>16, <2>2, <2>3 DEF _delayWithAbort
<1>17. CASE UNCHANGED clVars BY <1>17 DEF clVars, ClInv, ClTypeOK, InOrder, RunsAreConsistent, StateHasRun, Alive, Begun
<1>18. QED
    BY <1>1, <1>2, <1>3, <1>4, <1>5, <1>6, <1>7, <1>8, <1>9, <1>10, <1>11, <1>12, <1>13, <1>14, <1>15, <1>16, <1>17
    DEF ClNext, ListRun

(* An instance starts with no run. *)
LEMMA ClStarts == ClInit => ClInv
<1> SUFFICES ASSUME ClInit PROVE ClInv OBVIOUS
<1> DEFINE x == [kind |-> "none", pc |-> "none", tries |-> 0, timer |-> FALSE]
<1>1. x \in ListRuns /\ Consistent(x) /\ x.pc = "none" BY DEF ListRuns, Consistent
<1>2. clRun = [r \in ListRun |-> x] BY DEF ClInit, ListRun
<1> HIDE DEF x
<1>3. Begun = {} /\ Begun = 1..0 /\ 0 \in 0..ClRuns BY <1>1, <1>2, ClAssumption DEF Begun, ListRun
<1>4. ClTypeOK BY <1>1, <1>2, <1>3, ClAssumption DEF ClInit, ClTypeOK
<1>5. InOrder BY <1>3 DEF InOrder
<1>6. RunsAreConsistent BY <1>1, <1>2 DEF ClInit, RunsAreConsistent
<1>7. StateHasRun BY <1>3 DEF ClInit, StateHasRun, Alive
<1>8. QED BY <1>4, <1>5, <1>6, <1>7 DEF ClInv

(* The whole invariant holds of every run. *)
THEOREM ClInvariant == ClSpec => []ClInv
<1>1. ClInv /\ [ClNext]_clVars => ClInv' BY ClStep
<1>2. QED BY ClStarts, <1>1, PTL DEF ClSpec

(* An instance never shows a state that no run of its own will end, however *)
(* many of its runs were stopped and settle late, and no load it aborted *)
(* waits on a cleared timer (CommunityList: publish, update, stop). *)
THEOREM ListsAreSettled == ClSpec => []ListsSettle
<1>1. ClInv => ListsSettle
 <2> SUFFICES ASSUME ClInv PROVE AbortedLoadSettles BY DEF ClInv, ListsSettle
 <2>1. QED BY DEF ClInv, RunsAreConsistent, Consistent, AbortedLoadSettles, Begun, ListRun
<1>2. QED BY ClInvariant, <1>1, PTL

(* No run that was stopped changes the record or the verdict on the name, or *)
(* emits: not after an add or a fetch that took no signal, and not after a *)
(* name that was answered late. *)
THEOREM StoppedRunsAreQuiet == ClSpec => StoppedRunIsQuiet
<1> DEFINE Shown == record' # record \/ nameOk' # nameOk \/ lastEmit' # lastEmit
           ByRun(r) == r \notin aborted /\ clRun'[r] # clRun[r] /\ (lastEmit' # lastEmit => lastEmit'.run = r)
           Quiet == Shown => \E r \in (1..ClRuns) \ aborted : clRun'[r] # clRun[r] /\ (lastEmit' # lastEmit => lastEmit'.run = r)
<1>1. ClInv /\ [ClNext]_clVars => [Quiet]_clVars
 <2> SUFFICES ASSUME ClInv, ClNext PROVE Quiet OBVIOUS
 <2>1. clRun \in [ListRun -> ListRuns] /\ record \in BOOLEAN BY DEF ClInv, ClTypeOK
 <2>2. ASSUME NEW r \in ListRun, NEW pc, pc # clRun[r].pc, Moves(r, pc) PROVE clRun'[r] # clRun[r]
  <3>1. clRun'[r] = [clRun[r] EXCEPT !.pc = pc] BY <2>1, <2>2 DEF Moves
  <3>2. [clRun[r] EXCEPT !.pc = pc].pc = pc BY <2>1 DEF ListRuns
  <3>3. QED BY <2>2, <3>1, <3>2
 <2>3. ASSUME NEW r \in ListRun, Emits(r) PROVE lastEmit'.run = r BY <2>3 DEF Emits
 <2>4. ASSUME NEW r \in ListRun, Shown => ByRun(r) PROVE Quiet BY <2>4 DEF ListRun
 <2> HIDE DEF Quiet
 <2>5. CASE UNCHANGED ShownVars BY <2>5 DEF ShownVars, Quiet
 <2>6. ASSUME NEW r \in ListRun, publishAdded(r) PROVE Shown => ByRun(r)
  <3>1. clRun[r].pc = "add" /\ Moves(r, "done") /\ record' = (record \/ ~Cut(r)) /\ UNCHANGED <<nameOk, lastEmit>>
      BY <2>6 DEF publishAdded, Is
  <3>2. record' # record => ~Cut(r) BY <2>1, <3>1
  <3>3. QED BY <2>2, <3>1, <3>2 DEF Cut
 <2>7. ASSUME NEW r \in ListRun, _runUpdateLoop(r) PROVE Shown => ByRun(r)
  <3>1. clRun[r].pc = "tick" /\ UNCHANGED <<record, nameOk>> BY <2>7 DEF _runUpdateLoop, Is
  <3>2. CASE UNCHANGED lastEmit BY <3>1, <3>2
  <3>3. CASE ~Cut(r) /\ Moves(r, "settle") /\ Emits(r) BY <2>2, <2>3, <3>1, <3>3 DEF Cut
  <3>4. QED BY <2>7, <3>2, <3>3 DEF _runUpdateLoop
 <2>8. ASSUME NEW r \in ListRun, fetched(r) PROVE Shown => ByRun(r)
  <3>1. clRun[r].pc = "fetch" /\ UNCHANGED nameOk BY <2>8 DEF fetched, Is
  <3>2. CASE UNCHANGED <<record, lastEmit>> BY <3>1, <3>2
  <3>3. CASE ~Cut(r) /\ Moves(r, AfterLoad(r)) /\ Emits(r) BY <2>2, <2>3, <3>1, <3>3 DEF Cut, AfterLoad
  <3>4. QED BY <2>8, <3>2, <3>3 DEF fetched
 <2>9. ASSUME NEW r \in ListRun, recordError(r) PROVE Shown => ByRun(r)
  <3>1. clRun[r].pc = "fetch" /\ Moves(r, "done") /\ UNCHANGED <<record, nameOk>> BY <2>9 DEF recordError, Is
  <3>2. CASE UNCHANGED lastEmit BY <3>1, <3>2
  <3>3. CASE ~Cut(r) /\ Emits(r) BY <2>2, <2>3, <3>1, <3>3 DEF Cut
  <3>4. QED BY <2>9, <3>2, <3>3 DEF recordError
 <2>10. ASSUME NEW r \in ListRun, transportError(r) PROVE Shown => ByRun(r)
  <3>1. clRun[r].pc = "fetch" /\ UNCHANGED <<record, nameOk>> BY <2>10 DEF transportError, Is
  <3>2. CASE UNCHANGED lastEmit BY <3>1, <3>2
  <3>3. CASE ~Cut(r) /\ clRun' = [clRun EXCEPT ![r].pc = "wait", ![r].tries = @ + 1, ![r].timer = TRUE] /\ Emits(r)
   <4>1. clRun'[r].pc = "wait" BY <2>1, <3>3 DEF ListRuns
   <4>2. QED BY <2>3, <3>1, <3>3, <4>1 DEF Cut
  <3>4. QED BY <2>10, <3>2, <3>3 DEF transportError
 <2>11. ASSUME NEW r \in ListRun, resolved(r) PROVE Shown => ByRun(r)
  <3>1. clRun[r].pc = "resolve" /\ Moves(r, "done") /\ UNCHANGED record BY <2>11 DEF resolved, Is
  <3>2. CASE UNCHANGED <<nameOk, lastEmit>> BY <3>1, <3>2
  <3>3. CASE ~Cut(r) /\ Emits(r) BY <2>2, <2>3, <3>1, <3>3 DEF Cut
  <3>4. QED BY <2>11, <3>2, <3>3 DEF resolved
 <2>12. ASSUME NEW r \in ListRun, settleName(r) PROVE UNCHANGED ShownVars \/ (Shown => ByRun(r)) BY <2>12 DEF settleName, ShownVars
 <2>13. ASSUME NEW r \in ListRun,
               publishSigned(r) \/ publishFails(r) \/ retryLoad(r) \/ resolveFails(r) \/ _delayWithAbort(r)
        PROVE  UNCHANGED ShownVars
     BY <2>13 DEF publishSigned, publishFails, retryLoad, resolveFails, _delayWithAbort
 <2>14. ASSUME publish \/ update \/ getCommunityList \/ stop PROVE UNCHANGED ShownVars BY <2>14 DEF publish, update, getCommunityList, stop
 <2> HIDE DEF Shown, ByRun
 <2>15. QED BY <2>4, <2>5, <2>6, <2>7, <2>8, <2>9, <2>10, <2>11, <2>12, <2>13, <2>14 DEF ClNext, ListRun
<1>2. QED BY ClInvariant, <1>1, PTL DEF ClSpec, StoppedRunIsQuiet

----------------------------------------
(* ChallengeVerdict: the verdict over a publication. *)

Outcomes == {"none", "ok", "fail", "ask"}

CvTypeOK ==
    /\ cvJob \in CvWorkload /\ phase \in {"request", "answers", "verify", "over"} /\ at \in Nat
    /\ decided \in [Slots -> BOOLEAN] /\ results \in [Slots -> Outcomes] /\ putOff \in SUBSET Slots
    /\ ruling \in [success : {"none", "yes", "no"}, approval : BOOLEAN]

(* A slot is decided for a reason: it was excused or called, a success *)
(* excuses it, or it was put off behind a question or a final failure. *)
OnHold(i) == i \in putOff /\ ((\E j \in Slots : Asks(j)) \/ anyDecidedFailureIsFinal)
Accounted(i) == cvJob.excused[i] \/ results[i] # "none" \/ Waived(i) \/ OnHold(i)

(* Before the answers nothing put off was called; after them nothing else is *)
(* open, and what is still asking was put off or is excused from. *)
PhaseInv ==
    /\ phase \in {"request", "answers"} => \A i \in putOff : results[i] = "none" /\ decided[i]
    /\ phase = "verify" => \A i \in Slots : (~decided[i] => i \in putOff) /\ (Asks(i) => i \in putOff \/ Waived(i))

CvInv ==
    /\ CvTypeOK /\ PhaseInv
    /\ phase # "over" => ruling.success = "none"
    /\ phase \in {"request", "verify"} => \A i \in Slots : (results[i] # "none" => decided[i]) /\ (decided[i] => Accounted(i))
    /\ phase = "answers" => \A i \in Slots : decided[i] /\ Accounted(i)
    /\ VerdictIsFair

LEMMA RulesFacts ==
    ASSUME CvTypeOK
    PROVE  /\ Slots = 1..Challenges /\ Challenges \in Nat
           /\ \A i \in Slots : Rules(i) \subseteq SUBSET Slots /\ cvJob.says[i] \in {"ok", "fail", "ask"}
           /\ \A i \in Slots : cvJob.excused[i] \in BOOLEAN /\ cvJob.right[i] \in BOOLEAN /\ cvJob.approval[i] \in BOOLEAN
<1>1. cvJob \in CvWorkload BY DEF CvTypeOK
<1> QED BY <1>1, CvAssumption DEF Slots, Rules

LEMMA CvStarts == CvInit => CvInv
<1> SUFFICES ASSUME CvInit PROVE CvInv OBVIOUS
<1>1. CvTypeOK BY CvAssumption DEF CvInit, CvTypeOK, Outcomes, Slots
<1> QED BY <1>1 DEF CvInit, CvInv, PhaseInv, Accounted, VerdictIsFair, AcceptedIsEarned, RejectedIsDeserved, ApprovalIsKept

(* What has been called and what is decided stay, and more is. *)
LEMMA CalledOnce ==
    ASSUME CvInv, phase \in {"request", "verify"}, cvJob' = cvJob, phase' = phase, ruling' = ruling, at' \in Nat,
           decided' \in [Slots -> BOOLEAN], results' \in [Slots -> Outcomes], putOff' \in SUBSET Slots,
           putOff \subseteq putOff', \A i \in Slots : decided[i] => decided'[i] /\ results'[i] = results[i],
           \A i \in Slots : ~decided[i] =>
               \/ ~decided'[i] /\ results'[i] = results[i]
               \/ decided'[i] /\ Accounted(i)',
           phase = "request" => \A i \in putOff' \ putOff : decided'[i] /\ results'[i] = "none"
    PROVE  CvInv'
<1>1. CvTypeOK' /\ CvTypeOK BY DEF CvInv, CvTypeOK
<1>2. \A i \in Slots : Rules(i)' = Rules(i) /\ Rules(i) \subseteq SUBSET Slots BY <1>1, RulesFacts DEF Rules
<1>3. \A i \in Slots : (results[i] # "none" => decided[i]) /\ (decided[i] => Accounted(i)) BY DEF CvInv
<1>4. \A i \in Slots : (Passed(i) => Passed(i)') /\ (Asks(i) => Asks(i)') /\ (Waived(i) => Waived(i)')
    BY <1>2, <1>3 DEF Passed, Asks, Waived
<1>5. anyDecidedFailureIsFinal => anyDecidedFailureIsFinal'
    BY <1>2, <1>3 DEF anyDecidedFailureIsFinal, canFailedChallengeStillBeExcluded, Passed
<1>6. \A i \in Slots : OnHold(i) => OnHold(i)' BY <1>4, <1>5 DEF OnHold
<1>7. ASSUME NEW i \in Slots PROVE (results'[i] # "none" => decided'[i]) /\ (decided'[i] => Accounted(i)')
 <2>1. CASE decided[i] BY <1>3, <1>4, <1>6, <2>1 DEF Accounted
 <2>2. CASE ~decided[i] BY <1>3, <2>2
 <2> QED BY <2>1, <2>2
<1>8. PhaseInv'
 <2>1. ASSUME phase = "request", NEW i \in putOff' PROVE results'[i] = "none" /\ decided'[i]
  <3>1. i \in Slots OBVIOUS
  <3> QED BY <2>1, <3>1 DEF CvInv, PhaseInv
 <2>2. ASSUME phase = "verify", NEW i \in Slots PROVE (~decided'[i] => i \in putOff') /\ (Asks(i)' => i \in putOff' \/ Waived(i)')
  <3>1. (~decided[i] => i \in putOff) /\ (Asks(i) => i \in putOff \/ Waived(i)) BY <2>2 DEF CvInv, PhaseInv
  <3>2. decided[i] => (Asks(i)' => Asks(i)) BY DEF Asks
  <3> QED BY <1>4, <3>1, <3>2
 <2> QED BY <2>1, <2>2 DEF PhaseInv
<1>9. VerdictIsFair' BY DEF CvInv, VerdictIsFair, AcceptedIsEarned, RejectedIsDeserved, ApprovalIsKept
<1> QED BY <1>1, <1>7, <1>8, <1>9 DEF CvInv

(* Put off by a rule, because of a question that is open. *)
LEMMA Deferred ==
    ASSUME CvInv, phase \in {"request", "verify"}, NEW i \in Slots, Decision(i) = "defer"
    PROVE  \E j \in Slots : Asks(j)
<1>1. CvTypeOK /\ Rules(i) \subseteq SUBSET Slots /\ \A j \in Slots : results[j] # "none" => decided[j] BY RulesFacts DEF CvInv
<1>2. ~ \E r \in Rules(i) : AllDecided(r) /\ \A j \in r : Passed(j) BY DEF Decision
<1>3. PICK r \in Rules(i) : Tentative(r, i) BY DEF Decision
<1>4. PICK j \in r : ~Passed(j) BY <1>2, <1>3 DEF Tentative
<1> QED BY <1>1, <1>3, <1>4 DEF Tentative

LEMMA VisitStep ==
    ASSUME CvInv, visit
    PROVE  CvInv'
<1> DEFINE d == Decision(at)
<1>1. PICK i \in Slots : i = at BY DEF visit
<1>2. /\ CvTypeOK /\ phase \in {"request", "verify"} /\ at' \in Nat /\ i \in 1..Challenges
      /\ cvJob' = cvJob /\ phase' = phase /\ ruling' = ruling /\ Rules(i)' = Rules(i)
    BY <1>1, RulesFacts DEF CvInv, visit, Rules
<1>3. CASE UNCHANGED <<decided, results, putOff>> BY <1>2, <1>3, CalledOnce DEF CvTypeOK
<1>4. CASE ~decided[i] /\ Decision(i) = "exclude" /\ Decide(i) /\ UNCHANGED <<results, putOff>>
 <2>1. Waived(i) BY <1>4 DEF Decision, Waived
 <2>2. Accounted(i)' BY <1>2, <1>4, <2>1 DEF Accounted, Waived, Passed
 <2> QED BY <1>2, <1>4, <2>2, CalledOnce DEF CvTypeOK, Decide
<1>5. CASE ~decided[i] /\ Decision(i) = "defer" /\ Decide(i) /\ UNCHANGED results
           /\ putOff' = IF phase = "request" THEN putOff \cup {i} ELSE putOff
 <2>1. \E j \in Slots : Asks(j)' BY <1>2, <1>5, Deferred DEF Asks
 <2>2. i \in putOff' /\ results[i] = "none" BY <1>2, <1>5 DEF CvInv, PhaseInv
 <2>3. Accounted(i)' BY <2>1, <2>2 DEF Accounted, OnHold
 <2> QED BY <1>2, <1>5, <2>2, <2>3, CalledOnce DEF CvTypeOK, Decide
<1>6. CASE ~decided[i] /\ callGetChallenge(i)
 <2>1. results' \in [Slots -> Outcomes] /\ results'[i] \in {"ok", "fail", "ask"}
     BY <1>2, <1>6, RulesFacts DEF callGetChallenge, CvTypeOK, Outcomes
 <2>2. Accounted(i)' BY <2>1 DEF Accounted
 <2> QED BY <1>2, <1>6, <2>1, <2>2, CalledOnce DEF CvTypeOK, Decide, callGetChallenge
<1> QED BY <1>1, <1>3, <1>4, <1>5, <1>6 DEF visit

LEMMA RoundStep ==
    ASSUME CvInv, nextRound \/ putOffTheRest \/ cycle
    PROVE  CvInv'
<1>1. CvTypeOK /\ \A i \in Slots : results[i] # "none" => decided[i] BY DEF CvInv, nextRound, putOffTheRest, cycle
<1>2. CASE nextRound BY <1>1, <1>2, CalledOnce DEF nextRound, CvTypeOK
<1>3. CASE putOffTheRest
 <2>1. /\ cvJob' = cvJob /\ phase' = phase /\ ruling' = ruling /\ at' = at /\ results' = results
       /\ decided' = [i \in Slots |-> TRUE] /\ phase \in {"request", "verify"}
       /\ putOff' = IF phase = "request" THEN putOff \cup Undecided ELSE putOff
       /\ (\E i \in Slots : Asks(i)) \/ anyDecidedFailureIsFinal
     BY <1>3 DEF putOffTheRest
 <2>2. \A i \in Slots : Rules(i)' = Rules(i) /\ Rules(i) \subseteq SUBSET Slots BY <1>1, <2>1, RulesFacts DEF Rules
 <2>3. ((\E i \in Slots : Asks(i)) \/ anyDecidedFailureIsFinal)'
  <3>1. anyDecidedFailureIsFinal => anyDecidedFailureIsFinal'
      BY <2>1, <2>2 DEF anyDecidedFailureIsFinal, canFailedChallengeStillBeExcluded, Passed
  <3> QED BY <2>1, <3>1 DEF Asks
 <2>4. ASSUME NEW i \in Slots, ~decided[i] PROVE i \in putOff' /\ results[i] = "none" BY <1>1, <2>1, <2>4 DEF CvInv, PhaseInv, Undecided
 <2>5. \A i \in Slots : ~decided[i] => decided'[i] /\ Accounted(i)' BY <2>1, <2>3, <2>4 DEF Accounted, OnHold
 <2>6. putOff' \in SUBSET Slots /\ putOff \subseteq putOff' /\ \A i \in putOff' \ putOff : decided'[i] /\ results'[i] = "none"
     BY <1>1, <2>1, <2>4 DEF CvTypeOK, Undecided
 <2> QED BY <1>1, <2>1, <2>5, <2>6, CalledOnce DEF CvTypeOK
<1>4. CASE cycle
 <2> DEFINE first == CHOOSE i \in Undecided : \A j \in Undecided : i <= j
 <2>1. \E i \in Undecided : \A j \in Undecided : i <= j
  <3>1. Undecided \in SUBSET Nat BY <1>1, RulesFacts DEF Undecided
  <3>2. Undecided # {} BY <1>4 DEF cycle
  <3> QED BY <3>1, <3>2, LeastOfNaturals
 <2>2. first \in Slots /\ ~decided[first] BY <2>1 DEF Undecided
 <2>3. PICK i \in Slots : i = first /\ ~decided[i] BY <2>2
 <2>4. /\ cvJob' = cvJob /\ phase' = phase /\ ruling' = ruling /\ at' = 1 /\ callGetChallenge(i) /\ phase \in {"request", "verify"}
     BY <1>4, <2>3 DEF cycle, breakCycle
 <2>5. results' \in [Slots -> Outcomes] /\ results'[i] \in {"ok", "fail", "ask"}
     BY <1>1, <2>4, RulesFacts DEF callGetChallenge, CvTypeOK, Outcomes
 <2>6. Accounted(i)' BY <2>5 DEF Accounted
 <2> HIDE DEF first
 <2> QED BY <1>1, <2>3, <2>4, <2>5, <2>6, CalledOnce DEF CvTypeOK, Decide, callGetChallenge
<1> QED BY <1>2, <1>3, <1>4

(* With every challenge decided and no failure that counts, each one is met *)
(* or hangs on a question. *)
LEMMA NothingLeft ==
    ASSUME CvInv, phase \in {"request", "verify"}, Undecided = {}, Failures = {}, (phase = "request") => (Pending = {}),
           NEW i \in Slots
    PROVE  Met(i) \/ HangsOnAQuestion(i)
<1>1. CvTypeOK /\ Accounted(i) /\ results[i] \in Outcomes /\ \A j \in Slots : Rules(j) \subseteq SUBSET Slots
    BY RulesFacts DEF CvInv, CvTypeOK, Undecided
<1>2. \A k \in Slots : results[k] = "fail" => \E r \in Rules(k) : \A j \in r : Passed(j) \/ Asks(j)
 <2>1. SUFFICES ASSUME NEW k \in Slots, results[k] = "fail"
                PROVE  \E r \in Rules(k) : \A j \in r : Passed(j) \/ Asks(j)
     OBVIOUS
 <2>2. shouldExcludeChallengeSuccess(k) BY <2>1 DEF Failures, CountedSlots
 <2> QED BY <2>2 DEF shouldExcludeChallengeSuccess
<1>3. CASE results[i] = "ok" BY <1>3 DEF Met, Passed
<1>4. CASE results[i] = "fail" BY <1>2, <1>4 DEF Met, Waived, HangsOnAQuestion
<1>5. CASE results[i] = "ask"
 <2>1. CASE phase = "request"
  <3>1. shouldExcludeChallengeSuccess(i) BY <1>5, <2>1 DEF Pending, CountedSlots, Asks
  <3> QED BY <1>5, <3>1 DEF shouldExcludeChallengeSuccess, Met, Waived, Asks
 <2>2. CASE phase = "verify" BY <1>5, <2>2 DEF CvInv, PhaseInv, Asks, Met, HangsOnAQuestion
 <2> QED BY <2>1, <2>2
<1>6. CASE results[i] = "none"
 <2>1. CASE OnHold(i) /\ anyDecidedFailureIsFinal
  <3>1. PICK k \in Slots : decided[k] /\ results[k] = "fail" /\ ~canFailedChallengeStillBeExcluded(k) BY <2>1 DEF anyDecidedFailureIsFinal
  <3>2. PICK r \in Rules(k) : \A j \in r : Passed(j) \/ Asks(j) BY <1>2, <3>1
  <3>3. PICK j \in r : ~Passed(j) BY <3>1 DEF canFailedChallengeStillBeExcluded
  <3>4. j \in Slots /\ Asks(j) BY <1>1, <3>2, <3>3
  <3> QED BY <2>1, <3>4 DEF OnHold, HangsOnAQuestion
 <2> QED BY <1>1, <1>6, <2>1 DEF Accounted, OnHold, Met, HangsOnAQuestion
<1> QED BY <1>1, <1>3, <1>4, <1>5, <1>6 DEF Outcomes

(* The verdict, once given, is earned and never touched. *)
LEMMA VerdictStep ==
    ASSUME CvInv, classifyRequest \/ classifyAnswers, ruling'.success # "none"
    PROVE  CvInv'
<1>1. /\ CvTypeOK /\ phase \in {"request", "verify"} /\ Undecided = {}
      /\ UNCHANGED <<cvJob, at, moved, decided, results, putOff>>
    BY DEF CvInv, classifyRequest, classifyAnswers
<1>2. PICK success \in {"yes", "no"} : /\ Ruled(success)
                                      /\ (success = "no" => Failures # {})
                                      /\ (success = "yes" => (Failures = {} /\ (phase = "request" => Pending = {})))
 <2>1. CASE classifyAnswers
  <3>1. Ruled(IF Failures # {} THEN "no" ELSE "yes") /\ phase = "verify" BY <2>1 DEF classifyAnswers
  <3>2. CASE Failures = {} BY <3>1, <3>2
  <3>3. CASE Failures # {} BY <3>1, <3>3
  <3> QED BY <3>2, <3>3
 <2>2. CASE classifyRequest
  <3>1. CASE phase' = "answers" BY <2>2, <3>1 DEF classifyRequest, Ruled, CvInv, CvTypeOK
  <3> QED BY <2>2, <3>1 DEF classifyRequest
 <2> QED BY <2>1, <2>2
<1>3. /\ phase' = "over" /\ ruling'.success = success
      /\ ruling'.approval = (success = "yes" /\ (ruling.approval \/ NeedsApproval))
    BY <1>2 DEF Ruled
<1>4. \A i \in Slots : /\ Rules(i)' = Rules(i) /\ Rules(i) \subseteq SUBSET Slots /\ (Passed(i)' <=> Passed(i))
                       /\ (Asks(i)' <=> Asks(i))
    BY <1>1, RulesFacts DEF Rules, Passed, Asks
<1>5. \A i \in Slots : (Met(i)' <=> Met(i)) /\ (Waived(i)' <=> Waived(i)) /\ (HangsOnAQuestion(i)' <=> HangsOnAQuestion(i))
    BY <1>1, <1>4 DEF Met, Waived, HangsOnAQuestion
<1>6. CvTypeOK'
 <2>1. ruling'.approval \in BOOLEAN /\ ruling' \in [success : {"none", "yes", "no"}, approval : BOOLEAN]
     BY <1>1, <1>2 DEF Ruled, CvTypeOK, NeedsApproval
 <2> QED BY <1>1, <1>3, <2>1 DEF CvTypeOK, Slots
<1>7. AcceptedIsEarned' BY <1>1, <1>2, <1>3, <1>5, NothingLeft DEF AcceptedIsEarned, Slots
<1>8. RejectedIsDeserved'
 <2>1. SUFFICES ASSUME success = "no"
                PROVE  \E i \in Slots : results[i] = "fail" /\ \A r \in Rules(i) : \E j \in r : ~Passed(j) /\ ~Asks(j)
     BY <1>1, <1>3, <1>4 DEF RejectedIsDeserved, Slots
 <2>2. PICK i \in Slots : results[i] = "fail" /\ ~shouldExcludeChallengeSuccess(i) BY <1>2, <2>1 DEF Failures, CountedSlots
 <2> QED BY <2>2 DEF shouldExcludeChallengeSuccess, Asks
<1>9. ApprovalIsKept'
 <2>1. SUFFICES ASSUME success = "yes", NEW i \in Slots, Passed(i), cvJob.approval[i], ~Waived(i), ~HangsOnAQuestion(i)
                PROVE  NeedsApproval
     BY <1>1, <1>3, <1>4, <1>5 DEF ApprovalIsKept, Slots
 <2>2. ~shouldExcludeChallengeSuccess(i) BY <2>1 DEF shouldExcludeChallengeSuccess, Waived, HangsOnAQuestion
 <2>3. i \in CountedSlots BY <2>1, <2>2 DEF CountedSlots, Passed
 <2> QED BY <2>1, <2>3 DEF NeedsApproval
<1> QED BY <1>3, <1>6, <1>7, <1>8, <1>9 DEF CvInv, PhaseInv, VerdictIsFair

LEMMA AskingStep ==
    ASSUME CvInv, classifyRequest, ruling'.success = "none"
    PROVE  CvInv'
<1>1. /\ CvTypeOK /\ phase = "request" /\ Undecided = {}
      /\ UNCHANGED <<cvJob, at, moved, decided, results, putOff>>
      /\ phase' = "answers" /\ ruling' = [ruling EXCEPT !.approval = NeedsApproval]
    BY DEF CvInv, classifyRequest, Ruled
<1>2. CvTypeOK' BY <1>1 DEF CvTypeOK, Slots, NeedsApproval
<1>3. \A i \in Slots : decided[i] /\ Accounted(i) BY <1>1 DEF CvInv, Undecided
<1>4. \A i \in Slots : decided'[i] /\ Accounted(i)'
    BY <1>1, <1>3 DEF Accounted, OnHold, Waived, Passed, Asks, anyDecidedFailureIsFinal, canFailedChallengeStillBeExcluded,
       Rules, Slots
<1>5. PhaseInv' BY <1>1 DEF CvInv, PhaseInv
<1>6. VerdictIsFair' /\ ruling'.success = "none" BY <1>1 DEF VerdictIsFair, AcceptedIsEarned, RejectedIsDeserved, ApprovalIsKept
<1> QED BY <1>1, <1>2, <1>4, <1>5, <1>6 DEF CvInv, Slots

(* After the answers, what was put off is open again, and what is still *)
(* asking was excused by a success. *)
LEMMA AnswersStep ==
    ASSUME CvInv, answersArrive
    PROVE  CvInv'
<1>1. /\ CvTypeOK /\ \A i \in Slots : Accounted(i) /\ results[i] \in Outcomes
      /\ \A i \in putOff : results[i] = "none"
      /\ \A i \in Slots : Rules(i) \subseteq SUBSET Slots
    BY RulesFacts DEF CvInv, CvTypeOK, answersArrive, PhaseInv
<1>2. /\ results' = [i \in Slots |-> IF i \in Pending THEN (IF cvJob.right[i] THEN "ok" ELSE "fail") ELSE results[i]]
      /\ decided' = [i \in Slots |-> i \notin putOff]
      /\ phase' = "verify" /\ at' = 1 /\ UNCHANGED <<cvJob, putOff, ruling>> /\ ruling.success = "none"
    BY DEF answersArrive, CvInv
<1>3. CvTypeOK'
 <2>1. results' \in [Slots -> Outcomes] BY <1>1, <1>2 DEF Outcomes
 <2> QED BY <1>1, <1>2, <2>1 DEF CvTypeOK, Slots
<1>4. \A i \in Slots : Rules(i)' = Rules(i) /\ (Passed(i) => Passed(i)') /\ (results[i] = "none" <=> results'[i] = "none")
    BY <1>2 DEF Rules, Passed, Pending, Asks
<1>5. \A i \in Slots : Waived(i) => Waived(i)' BY <1>1, <1>4 DEF Waived
<1>6. ASSUME NEW i \in Slots PROVE (results'[i] # "none" => decided'[i]) /\ (decided'[i] => Accounted(i)')
    BY <1>1, <1>2, <1>4, <1>5 DEF Accounted, OnHold
<1>7. ASSUME NEW i \in Slots, Asks(i)' PROVE Waived(i)'
 <2>1. i \notin Pending /\ Asks(i) BY <1>2, <1>7 DEF Asks
 <2>2. shouldExcludeChallengeSuccess(i) BY <2>1 DEF Pending, CountedSlots, Asks
 <2> QED BY <1>5, <2>1, <2>2 DEF shouldExcludeChallengeSuccess, Waived
<1>8. PhaseInv' BY <1>2, <1>7 DEF PhaseInv, Slots
<1>9. VerdictIsFair' BY <1>2 DEF VerdictIsFair, AcceptedIsEarned, RejectedIsDeserved, ApprovalIsKept
<1> QED BY <1>2, <1>3, <1>6, <1>8, <1>9 DEF CvInv, Slots

LEMMA CvUnchanged ==
    ASSUME CvInv, UNCHANGED cvVars
    PROVE  CvInv'
<1> USE DEF cvVars
<1>1. CvTypeOK' /\ PhaseInv' BY DEF CvInv, CvTypeOK, PhaseInv, Slots, Asks, Waived, Passed, Rules
<1>2. VerdictIsFair'
    BY DEF CvInv, VerdictIsFair, AcceptedIsEarned, RejectedIsDeserved, ApprovalIsKept, Met, Waived, HangsOnAQuestion,
       Passed, Asks, Rules, Slots
<1>3. \A i \in Slots : Accounted(i) => Accounted(i)'
    BY DEF Accounted, OnHold, Waived, Passed, Asks, anyDecidedFailureIsFinal, canFailedChallengeStillBeExcluded, Rules, Slots
<1> QED BY <1>1, <1>2, <1>3 DEF CvInv, Slots

(* A publication is accepted, rejected or sent to a moderator for a reason *)
(* its challenges and their exclusions give. *)
THEOREM VerdictStaysFair == CvSpec => []VerdictIsFair
<1>1. CvInit => CvInv BY CvStarts
<1>2. CvInv /\ [CvNext]_cvVars => CvInv'
 <2> SUFFICES ASSUME CvInv, [CvNext]_cvVars PROVE CvInv' OBVIOUS
 <2>1. CASE visit BY <2>1, VisitStep
 <2>2. CASE nextRound \/ putOffTheRest \/ cycle BY <2>2, RoundStep
 <2>3. CASE classifyRequest \/ classifyAnswers
  <3>1. CASE ruling'.success # "none" BY <2>3, <3>1, VerdictStep
  <3>2. CASE ruling'.success = "none" /\ classifyRequest BY <3>2, AskingStep
  <3>3. CASE ruling'.success = "none" /\ classifyAnswers BY <3>3 DEF classifyAnswers, Ruled
  <3> QED BY <2>3, <3>1, <3>2, <3>3
 <2>4. CASE answersArrive BY <2>4, AnswersStep
 <2>5. CASE UNCHANGED cvVars BY <2>5, CvUnchanged
 <2> QED BY <2>1, <2>2, <2>3, <2>4, <2>5 DEF CvNext
<1>3. CvInv => VerdictIsFair BY DEF CvInv
<1> QED BY <1>1, <1>2, <1>3, PTL DEF CvSpec

----------------------------------------
(* ChallengeExcludes: who is excused, for requests that share the limiters. *)

Places == {"new", "resolve", "friend", "excused", "asked", "fetch", "update", "answered", "store", "done"}
ExRequest ==
    [at : Places, memo : {None, "match", "other", "failed"}, excused : BOOLEAN, answered : BOOLEAN, alone : BOOLEAN,
     owned : BOOLEAN, accepted : BOOLEAN, granted : BOOLEAN]

ExTypeOK ==
    /\ exReq \in [Requests -> ExRequest] /\ refills \in Nat
    /\ tokens \in [{Address(r) : r \in Requests} -> Nat]

(* While a request is under way, owned follows the name. *)
Fresh(r) ==
    /\ Active(r) /\ (Owns(r) \/ exReq[r].memo = "match") => exReq[r].owned
    /\ exReq[r].granted => exReq[r].owned /\ exReq[r].at = "done"
    /\ exReq[r].at = "new" => exReq[r].memo = None

(* What a lookup relies on was checked before it. *)
Backed(r) ==
    /\ exReq[r].at = "resolve" => HasAuthorRule
    /\ exReq[r].at \in {"friend", "fetch", "update"} => Friendly(r)
    /\ exReq[r].at = "update" => Qualifies(r)
    /\ exReq[r].excused /\ ~HasAuthorRule => Qualifies(r)
    /\ exReq[r].accepted => exReq[r].at \in {"store", "done"}

(* A request alone under way still finds the token it was excused for. *)
Lone(r) ==
    (Active(r) /\ exReq[r].alone) =>
        /\ \A o \in Requests \ {r} : ~Active(o)
        /\ (exJob.rule.rate /\ ~exJob.rule.friend /\ ~exReq[r].accepted /\ (exReq[r].at = "resolve" \/ exReq[r].excused))
               => tokens[Address(r)] >= 1

(* Tokens and publications excused one by one make up the limit. *)
LimitAccounted ==
    \A s \in DOMAIN tokens :
        (exJob.rule.rate /\ ~exJob.rule.friend /\ \A r \in ExcusedBy(s) : exReq[r].alone)
            => Cardinality(ExcusedBy(s)) + tokens[s] <= Limit + refills

ExInv ==
    /\ ExTypeOK /\ LockedIsLookedUp /\ LimitAccounted
    /\ \A r \in Requests : Fresh(r) /\ Backed(r) /\ Lone(r)

LEMMA ExcusedFinite == \A s : IsFiniteSet(ExcusedBy(s)) /\ Cardinality(ExcusedBy(s)) \in Nat
<1>1. \A s : ExcusedBy(s) \in SUBSET Requests BY DEF ExcusedBy
<1>2. \A s : IsFiniteSet(ExcusedBy(s)) BY <1>1, FS_Subset, ExAssumption
<1> QED BY <1>2, FS_CardinalityType

LEMMA ExInvSound == ExInv => ExclusionsAreSound
<1> SUFFICES ASSUME ExInv PROVE ExclusionsAreSound OBVIOUS
<1>1. AuthorityIsFresh BY DEF ExInv, AuthorityIsFresh, Fresh
<1>2. FriendIsAuthor BY DEF ExInv, FriendIsAuthor, Backed, Qualifies
<1>3. LimitHoldsOneByOne
 <2> SUFFICES ASSUME NEW s \in DOMAIN tokens, exJob.rule.rate, ~exJob.rule.friend, \A r \in ExcusedBy(s) : exReq[r].alone
              PROVE  Cardinality(ExcusedBy(s)) <= Limit + refills
     BY DEF LimitHoldsOneByOne
 <2>1. Cardinality(ExcusedBy(s)) + tokens[s] <= Limit + refills BY DEF ExInv, LimitAccounted
 <2>2. tokens[s] \in Nat /\ refills \in Nat BY DEF ExInv, ExTypeOK
 <2> QED BY <2>1, <2>2, ExAssumption, ExcusedFinite
<1> QED BY <1>1, <1>2, <1>3 DEF ExclusionsAreSound, ExInv

LEMMA ExStarts == ExInit => ExInv
<1> SUFFICES ASSUME ExInit PROVE ExInv OBVIOUS
<1>1. \A r \in Requests : exReq[r] = NewRequest /\ NewRequest \in ExRequest BY DEF ExInit, NewRequest, ExRequest, Places, None
<1>2. ExTypeOK BY <1>1, ExAssumption DEF ExInit, ExTypeOK
<1>3. LockedIsLookedUp BY <1>1 DEF ExInit, LockedIsLookedUp, NewRequest
<1>4. ASSUME NEW s \in DOMAIN tokens PROVE Cardinality(ExcusedBy(s)) + tokens[s] <= Limit + refills
 <2>1. ExcusedBy(s) = {} /\ tokens[s] = Limit /\ refills = 0 BY <1>1 DEF ExInit, ExcusedBy, NewRequest
 <2> QED BY <2>1, FS_EmptySet, ExAssumption
<1>5. \A r \in Requests : Fresh(r) /\ Backed(r) /\ Lone(r) BY <1>1 DEF Fresh, Backed, Lone, Active, NewRequest
<1> QED BY <1>2, <1>3, <1>4, <1>5 DEF ExInv, LimitAccounted

(* One request under way moves; for the others nothing changes. *)
LEMMA OneMoves ==
    ASSUME ExInv, NEW r \in Requests, NEW q \in ExRequest, Active(r), Move(r, q), exJob' = exJob, txt' = txt,
           q.alone = exReq[r].alone, tokens' \in [DOMAIN tokens -> Nat], refills' = refills,
           Fresh(r)', Backed(r)', LockedIsLookedUp', LimitAccounted',
           (Active(r)' /\ q.alone /\ exJob.rule.rate /\ ~exJob.rule.friend /\ ~q.accepted /\ (q.at = "resolve" \/ q.excused))
               => tokens'[Address(r)] >= 1
    PROVE  ExInv'
<1>1. ExTypeOK /\ exReq' = [exReq EXCEPT ![r] = q] /\ exReq'[r] = q /\ \A o \in Requests \ {r} : exReq'[o] = exReq[o]
    BY DEF ExInv, ExTypeOK, Move
<1>2. ExTypeOK' BY <1>1 DEF ExTypeOK, Signer, Address
<1>3. ASSUME NEW o \in Requests \ {r} PROVE Fresh(o)' /\ Backed(o)' /\ Lone(o)'
 <2>1. Fresh(o) /\ Backed(o) /\ Lone(o) BY DEF ExInv
 <2>2. Fresh(o)' /\ Backed(o)' BY <1>1, <2>1 DEF Fresh, Backed, Active, Owns, Signer, Address, Cid, Friendly, Qualifies, HasAuthorRule
 <2>3. ~(Active(o)' /\ exReq'[o].alone) BY <1>1, <2>1 DEF Lone, Active
 <2> QED BY <2>2, <2>3 DEF Lone
<1>4. Lone(r)'
 <2>1. SUFFICES ASSUME Active(r)', q.alone PROVE \A o \in Requests \ {r} : ~Active(o)' BY <1>1 DEF Lone, Signer, Address
 <2>2. \A o \in Requests \ {r} : ~Active(o) BY <2>1 DEF ExInv, Lone
 <2> QED BY <1>1, <2>2 DEF Active
<1> QED BY <1>2, <1>3, <1>4 DEF ExInv

(* The same for a move that takes no token and locks nothing. *)
LEMMA QuietMove ==
    ASSUME ExInv, NEW r \in Requests, NEW q \in ExRequest, Active(r), Move(r, q),
           UNCHANGED <<exJob, txt, tokens, refills>>,
           q.alone = exReq[r].alone, q.accepted = exReq[r].accepted, ~q.accepted \/ q.excused = exReq[r].excused,
           Fresh(r)', Backed(r)', LockedIsLookedUp',
           (Active(r)' /\ q.alone /\ exJob.rule.rate /\ ~exJob.rule.friend /\ ~q.accepted /\ (q.at = "resolve" \/ q.excused))
               => (exReq[r].at = "resolve" \/ exReq[r].excused)
    PROVE  ExInv'
<1>1. /\ ExTypeOK /\ exReq' = [exReq EXCEPT ![r] = q] /\ exReq'[r] = q /\ \A o \in Requests \ {r} : exReq'[o] = exReq[o]
      /\ tokens' \in [DOMAIN tokens -> Nat]
    BY DEF ExInv, ExTypeOK, Move
<1>2. LimitAccounted'
 <2>1. \A s : ExcusedBy(s)' = ExcusedBy(s) BY <1>1 DEF ExcusedBy, Signer, Address
 <2>2. \A o \in Requests : exReq'[o].alone = exReq[o].alone BY <1>1
 <2>3. \A s : ExcusedBy(s) \subseteq Requests BY DEF ExcusedBy
 <2> QED BY <2>1, <2>2, <2>3 DEF ExInv, LimitAccounted
<1>3. (Active(r)' /\ q.alone /\ exJob.rule.rate /\ ~exJob.rule.friend /\ ~q.accepted /\ (q.at = "resolve" \/ q.excused))
          => tokens'[Address(r)] >= 1
    BY DEF ExInv, Lone
<1> QED BY <1>1, <1>2, <1>3, OneMoves

(* A request comes in; those under way are no longer alone. *)
LEMMA ComesIn ==
    ASSUME ExInv, NEW r \in Requests, shouldExcludePublication(r)
    PROVE  ExInv'
<1> DEFINE others == {o \in Requests : Active(o)}
<1>1. PICK place \in {"resolve", "friend", "excused", "asked"} :
          /\ place = "resolve" => HasAuthorRule /\ CheapPass(r) /\ NeedsName(r)
          /\ place = "excused" => HasAuthorRule /\ CheapPass(r) /\ exJob.rule.name = None
          /\ place = "friend" => Friendly(r)
          /\ exReq' = [o \in Requests |->
                 IF o = r THEN [[exReq[r] EXCEPT !.owned = Owns(r), !.alone = others = {}]
                                EXCEPT !.at = place, !.excused = place = "excused"]
                 ELSE IF o \in others THEN [exReq[o] EXCEPT !.alone = FALSE] ELSE exReq[o]]
    BY DEF shouldExcludePublication
<1>2. ExTypeOK /\ exReq[r].at = "new" /\ UNCHANGED <<exJob, tokens, refills, txt, locked, commentCache, updateCache>>
    BY DEF ExInv, shouldExcludePublication
<1>3. /\ exReq'[r] \in ExRequest /\ exReq'[r].at = place /\ exReq'[r].excused = (place = "excused")
      /\ exReq'[r].owned = Owns(r) /\ exReq'[r].alone = (others = {}) /\ exReq'[r].memo = exReq[r].memo
      /\ exReq'[r].granted = exReq[r].granted /\ exReq'[r].accepted = exReq[r].accepted
 <2> HIDE DEF others
 <2>1. exReq[r] \in ExRequest BY <1>2 DEF ExTypeOK
 <2> QED BY <1>1, <2>1 DEF ExRequest, Places, Owns
<1>4. \A o \in Requests \ {r} :
          /\ exReq'[o] \in ExRequest
          /\ exReq'[o].at = exReq[o].at /\ exReq'[o].memo = exReq[o].memo /\ exReq'[o].excused = exReq[o].excused
          /\ exReq'[o].owned = exReq[o].owned /\ exReq'[o].granted = exReq[o].granted /\ exReq'[o].accepted = exReq[o].accepted
          /\ exReq'[o].alone = (exReq[o].alone /\ ~Active(o))
 <2> SUFFICES ASSUME NEW o \in Requests \ {r}
              PROVE  /\ exReq'[o] \in ExRequest
                     /\ exReq'[o].at = exReq[o].at /\ exReq'[o].memo = exReq[o].memo /\ exReq'[o].excused = exReq[o].excused
                     /\ exReq'[o].owned = exReq[o].owned /\ exReq'[o].granted = exReq[o].granted
                     /\ exReq'[o].accepted = exReq[o].accepted
                     /\ exReq'[o].alone = (exReq[o].alone /\ ~Active(o))
     OBVIOUS
 <2>1. exReq[o] \in ExRequest BY <1>2 DEF ExTypeOK
 <2>2. CASE Active(o) BY <1>1, <2>1, <2>2 DEF ExRequest
 <2>3. CASE ~Active(o) BY <1>1, <2>1, <2>3 DEF ExRequest
 <2> QED BY <2>2, <2>3
<1>5. ExTypeOK'
 <2>1. exReq' \in [Requests -> ExRequest] BY <1>1, <1>3, <1>4
 <2> QED BY <1>2, <2>1 DEF ExTypeOK, Signer, Address
<1>6. LockedIsLookedUp'
 <2>1. \A o \in Requests : exReq'[o].at \in {"fetch", "update"} <=> exReq[o].at \in {"fetch", "update"} BY <1>2, <1>3, <1>4
 <2> QED BY <1>2, <2>1 DEF ExInv, LockedIsLookedUp, Cid
<1>7. LimitAccounted'
 <2>1. ~exReq[r].accepted BY <1>2 DEF ExInv, Backed
 <2>2. \A s : ExcusedBy(s)' = ExcusedBy(s) BY <1>2, <1>3, <1>4, <2>1 DEF ExcusedBy, Signer, Address
 <2>3. ASSUME NEW s, NEW o \in ExcusedBy(s), exReq'[o].alone PROVE exReq[o].alone BY <1>3, <1>4, <2>1, <2>3 DEF ExcusedBy
 <2> QED BY <1>2, <2>2, <2>3 DEF ExInv, LimitAccounted
<1>8. ASSUME NEW o \in Requests \ {r} PROVE Fresh(o)' /\ Backed(o)' /\ Lone(o)'
 <2>1. Fresh(o) /\ Backed(o) BY DEF ExInv
 <2>2. Fresh(o)' /\ Backed(o)' BY <1>2, <1>4, <2>1 DEF Fresh, Backed, Active, Owns, Signer, Address, Cid, Friendly, Qualifies, HasAuthorRule
 <2>3. ~(Active(o)' /\ exReq'[o].alone) BY <1>4 DEF Active
 <2> QED BY <2>2, <2>3 DEF Lone
<1>9. Fresh(r)'
 <2>1. exReq[r].memo = None /\ None # "match" /\ ~exReq[r].granted BY <1>2 DEF ExInv, Fresh, None
 <2> QED BY <1>2, <1>3, <2>1 DEF Fresh, Active, Owns, Signer, Address
<1>10. Backed(r)' BY <1>1, <1>2, <1>3 DEF ExInv, Backed, Friendly, Qualifies, HasAuthorRule, Cid, Signer, Address
<1>11. Lone(r)'
 <2>1. SUFFICES ASSUME exReq'[r].alone
                PROVE  /\ \A o \in Requests \ {r} : ~Active(o)'
                       /\ (exJob.rule.rate /\ (exReq'[r].at = "resolve" \/ exReq'[r].excused)) => tokens[Address(r)] >= 1
     BY <1>2 DEF Lone, Signer, Address
 <2>2. \A o \in Requests \ {r} : ~Active(o)' BY <1>3, <1>4, <2>1 DEF Active
 <2> QED BY <1>1, <1>3, <2>2 DEF CheapPass, testRateLimit
<1> QED BY <1>5, <1>6, <1>7, <1>8, <1>9, <1>10, <1>11 DEF ExInv

(* A name is resolved. *)
LEMMA NameStep ==
    ASSUME ExInv, NEW r \in Requests, nameResolvesToSigner(r)
    PROVE  ExInv'
<1>1. PICK memo \in {IF Owns(r) THEN "match" ELSE "other", "failed"} :
          Move(r, [exReq[r] EXCEPT !.memo = memo, !.excused = memo = "match",
                   !.at = IF memo = "match" THEN "excused" ELSE IF Friendly(r) THEN "friend" ELSE "asked"])
    BY DEF nameResolvesToSigner
<1> DEFINE q == [exReq[r] EXCEPT !.memo = memo, !.excused = memo = "match",
                 !.at = IF memo = "match" THEN "excused" ELSE IF Friendly(r) THEN "friend" ELSE "asked"]
<1>2. /\ ExTypeOK /\ exReq[r] \in ExRequest /\ exReq[r].at = "resolve" /\ Fresh(r) /\ Backed(r)
      /\ UNCHANGED <<exJob, tokens, refills, txt, locked, commentCache, updateCache>>
    BY DEF ExInv, ExTypeOK, nameResolvesToSigner
<1>3. /\ q \in ExRequest /\ q.alone = exReq[r].alone /\ q.accepted = exReq[r].accepted /\ ~q.accepted
      /\ q.at \in {"excused", "friend", "asked"} /\ (q.at = "friend" => Friendly(r)) /\ q.granted = exReq[r].granted
      /\ (q.memo = "match" => Owns(r)) /\ q.owned = exReq[r].owned
    BY <1>2 DEF ExRequest, Places, None, Backed
<1>4. exReq'[r] = q /\ Active(r) /\ \A o \in Requests \ {r} : exReq'[o] = exReq[o] BY <1>1, <1>2 DEF ExTypeOK, Move, Active
<1> HIDE DEF q
<1>5. Fresh(r)' /\ Backed(r)' BY <1>2, <1>3, <1>4 DEF Fresh, Backed, Active, Owns, Signer, Address, Friendly, HasAuthorRule, Cid
<1>6. LockedIsLookedUp'
 <2>1. \A o \in Requests : exReq'[o].at \in {"fetch", "update"} <=> exReq[o].at \in {"fetch", "update"} BY <1>2, <1>3, <1>4
 <2> QED BY <1>2, <2>1 DEF ExInv, LockedIsLookedUp, Cid
<1>7. Move(r, q) BY <1>1 DEF q
<1> QED BY <1>2, <1>3, <1>4, <1>5, <1>6, <1>7, QuietMove

(* The lookup of a comment starts, goes on, or ends and releases its lock. *)
LEMMA LookupStep ==
    ASSUME ExInv, NEW r \in Requests, takeLock(r) \/ _getComment(r) \/ commentUpdated(r)
    PROVE  ExInv'
<1> DEFINE Q(place, yes) == [exReq[r] EXCEPT !.at = place, !.excused = yes]
<1>1. /\ ExTypeOK /\ exReq[r] \in ExRequest /\ Fresh(r) /\ Backed(r) /\ LockedIsLookedUp
      /\ exReq[r].at \in {"friend", "fetch", "update"} /\ UNCHANGED <<exJob, tokens, refills, txt>>
    BY DEF ExInv, ExTypeOK, takeLock, _getComment, commentUpdated
<1>2. /\ Active(r) /\ Friendly(r) /\ ~exReq[r].accepted BY <1>1 DEF Backed, Active
<1>3. PICK place \in {"fetch", "update", "excused", "asked"}, yes \in BOOLEAN :
          /\ Move(r, Q(place, yes))
          /\ (place = "update" \/ (place = "excused" /\ yes)) => Qualifies(r)
          /\ place # "excused" => yes = FALSE \/ yes = exReq[r].excused
          /\ \/ place = "fetch" /\ exReq[r].at = "friend" /\ Cid(r) \notin locked /\ locked' = locked \cup {Cid(r)}
             \/ place = "update" /\ exReq[r].at = "fetch" /\ locked' = locked
             \/ place \in {"excused", "asked"} /\ exReq[r].at \in {"fetch", "update"} /\ locked' = locked \ {Cid(r)}
 <2>1. CASE takeLock(r)
  <3>1. Move(r, Q("fetch", exReq[r].excused)) BY <1>1, <2>1 DEF takeLock, At, ExRequest
  <3> QED BY <1>1, <2>1, <3>1 DEF takeLock, ExRequest
 <2>2. CASE \E ok \in BOOLEAN : Looked(r, ok) /\ (ok => Qualifies(r)) /\ exReq[r].at \in {"fetch", "update"}
  <3>1. PICK ok \in BOOLEAN : Looked(r, ok) /\ (ok => Qualifies(r)) /\ exReq[r].at \in {"fetch", "update"} BY <2>2
  <3>2. Move(r, Q(IF ok THEN "excused" ELSE "asked", ok)) /\ locked' = locked \ {Cid(r)} BY <3>1 DEF Looked, Released
  <3> QED BY <3>1, <3>2
 <2>3. CASE exReq[r].at = "fetch" /\ Qualifies(r) /\ Move(r, At(r, "update")) /\ locked' = locked
  <3>1. Move(r, Q("update", exReq[r].excused)) BY <1>1, <2>3 DEF At, ExRequest
  <3> QED BY <1>1, <2>3, <3>1 DEF ExRequest
 <2>4. CASE _getComment(r) BY <2>2, <2>3, <2>4 DEF _getComment
 <2>5. CASE commentUpdated(r) BY <1>1, <2>2, <2>5 DEF commentUpdated, Backed
 <2> QED BY <2>1, <2>4, <2>5
<1>4. /\ Q(place, yes) \in ExRequest /\ Q(place, yes).alone = exReq[r].alone /\ Q(place, yes).accepted = exReq[r].accepted
      /\ Q(place, yes).at = place /\ Q(place, yes).excused = yes /\ Q(place, yes).granted = exReq[r].granted
      /\ Q(place, yes).memo = exReq[r].memo /\ Q(place, yes).owned = exReq[r].owned
    BY <1>1 DEF ExRequest, Places
<1>5. exReq'[r] = Q(place, yes) /\ \A o \in Requests \ {r} : exReq'[o] = exReq[o] BY <1>1, <1>3 DEF ExTypeOK, Move
<1> HIDE DEF Q
<1>6. Fresh(r)' BY <1>1, <1>2, <1>4, <1>5 DEF Fresh, Active, Owns, Signer, Address
<1>7. Backed(r)'
 <2>1. yes /\ ~HasAuthorRule => Qualifies(r) BY <1>1, <1>3 DEF Backed
 <2> QED BY <1>1, <1>2, <1>3, <1>4, <1>5, <2>1 DEF Backed, Friendly, Qualifies, HasAuthorRule, Cid, Signer, Address
<1>8. LockedIsLookedUp'
 <2> DEFINE Busy == {o \in Requests : exReq[o].at \in {"fetch", "update"}}
 <2>1. Busy' = IF place \in {"fetch", "update"} THEN Busy \cup {r} ELSE Busy \ {r} BY <1>3, <1>4, <1>5
 <2>2. \A o \in Requests : Cid(o)' = Cid(o) BY <1>1 DEF Cid
 <2>3. /\ locked = {Cid(o) : o \in Busy}
       /\ \A o, p \in Busy : o # p => Cid(o) # Cid(p)
     BY <1>1 DEF LockedIsLookedUp
 <2>4. r \in Busy <=> place # "fetch" BY <1>3
 <2> HIDE DEF Busy
 <2>5. locked' = {Cid(o) : o \in Busy'} BY <1>3, <2>1, <2>3, <2>4
 <2>6. \A o, p \in Busy' : o # p => Cid(o) # Cid(p) BY <1>3, <2>1, <2>3, <2>4
 <2> QED BY <2>2, <2>5, <2>6 DEF LockedIsLookedUp, Busy
<1>9. exJob.rule.friend BY <1>2 DEF Friendly
<1> QED BY <1>1, <1>2, <1>3, <1>4, <1>6, <1>7, <1>8, <1>9, QuietMove

(* The author answers: what the name was is forgotten. *)
LEMMA AnswerStep ==
    ASSUME ExInv, NEW r \in Requests, answer(r)
    PROVE  ExInv'
<1> DEFINE q == [exReq[r] EXCEPT !.at = "answered", !.answered = TRUE, !.memo = MatcherAfterAnswer(r), !.owned = Owns(r)]
<1>1. /\ ExTypeOK /\ exReq[r] \in ExRequest /\ exReq[r].at \in {"asked", "excused"} /\ Fresh(r) /\ Backed(r) /\ Move(r, q)
      /\ UNCHANGED <<exJob, tokens, refills, txt, locked, commentCache, updateCache>>
    BY DEF ExInv, ExTypeOK, answer
<1>2. /\ q \in ExRequest /\ q.alone = exReq[r].alone /\ q.accepted = exReq[r].accepted /\ q.excused = exReq[r].excused
      /\ q.at = "answered" /\ q.granted = exReq[r].granted /\ q.memo = None /\ q.owned = Owns(r)
    BY <1>1 DEF ExRequest, Places, None, MatcherAfterAnswer, Owns
<1>3. exReq'[r] = q /\ Active(r) /\ \A o \in Requests \ {r} : exReq'[o] = exReq[o] BY <1>1 DEF ExTypeOK, Move, Active
<1> HIDE DEF q
<1>4. Fresh(r)' /\ Backed(r)' BY <1>1, <1>2, <1>3 DEF Fresh, Backed, Active, Owns, Signer, Address, Friendly, Qualifies, HasAuthorRule, Cid, None
<1>5. LockedIsLookedUp'
 <2>1. \A o \in Requests : exReq'[o].at \in {"fetch", "update"} <=> exReq[o].at \in {"fetch", "update"} BY <1>1, <1>2, <1>3
 <2> QED BY <1>1, <2>1 DEF ExInv, LockedIsLookedUp, Cid
<1> QED BY <1>1, <1>2, <1>3, <1>4, <1>5, QuietMove

(* The verdict takes a token for what is accepted. *)
LEMMA ConcludeStep ==
    ASSUME ExInv, NEW r \in Requests, conclude(r)
    PROVE  ExInv'
<1>1. /\ ExTypeOK /\ exReq[r] \in ExRequest /\ exReq[r].at \in {"excused", "answered"} /\ Fresh(r) /\ Backed(r) /\ Lone(r)
      /\ UNCHANGED <<exJob, refills, txt, locked, commentCache, updateCache>>
    BY DEF ExInv, ExTypeOK, conclude
<1>2. PICK success \in BOOLEAN :
          /\ tokens' = addToRateLimiter(r, success)
          /\ Move(r, [exReq[r] EXCEPT !.at = IF success THEN "store" ELSE "done", !.accepted = success])
    BY DEF conclude
<1> DEFINE q == [exReq[r] EXCEPT !.at = IF success THEN "store" ELSE "done", !.accepted = success]
           s == Address(r)
<1>3. /\ q \in ExRequest /\ q.alone = exReq[r].alone /\ q.accepted = success /\ q.excused = exReq[r].excused
      /\ q.at = (IF success THEN "store" ELSE "done") /\ q.granted = exReq[r].granted /\ q.memo = exReq[r].memo
      /\ q.owned = exReq[r].owned
    BY <1>1 DEF ExRequest, Places
<1>4. /\ exReq'[r] = q /\ Active(r) /\ ~exReq[r].accepted /\ Move(r, q) /\ \A o \in Requests \ {r} : exReq'[o] = exReq[o]
    BY <1>1, <1>2 DEF ExTypeOK, Move, Active, Backed
<1> HIDE DEF q
<1>5. s \in DOMAIN tokens /\ tokens \in [DOMAIN tokens -> Nat] /\ refills \in Nat BY <1>1 DEF ExTypeOK, Signer, Address
<1>6. /\ tokens' \in [DOMAIN tokens -> Nat]
      /\ \A t \in DOMAIN tokens : tokens'[t] <= tokens[t]
      /\ (exJob.rule.rate /\ success /\ tokens[s] >= 1) => tokens'[s] = tokens[s] - 1
    BY <1>2, <1>5 DEF addToRateLimiter
<1>7. Fresh(r)' /\ Backed(r)' BY <1>1, <1>3, <1>4 DEF Fresh, Backed, Active, Owns, Signer, Address, Friendly, Qualifies, HasAuthorRule, Cid
<1>8. LockedIsLookedUp'
 <2>1. \A o \in Requests : exReq'[o].at \in {"fetch", "update"} <=> exReq[o].at \in {"fetch", "update"} BY <1>1, <1>3, <1>4
 <2> QED BY <1>1, <2>1 DEF ExInv, LockedIsLookedUp, Cid
<1>9. LimitAccounted'
 <2>1. SUFFICES ASSUME NEW t \in DOMAIN tokens, exJob.rule.rate, ~exJob.rule.friend,
                       \A o \in ExcusedBy(t)' : exReq'[o].alone
                PROVE  Cardinality(ExcusedBy(t)') + tokens'[t] <= Limit + refills
     BY <1>1, <1>5, <1>6 DEF LimitAccounted
 <2>2. ExcusedBy(t)' = ExcusedBy(t) \cup (IF s = t /\ success /\ exReq[r].excused THEN {r} ELSE {}) /\ r \notin ExcusedBy(t)
     BY <1>1, <1>3, <1>4 DEF ExcusedBy, Signer, Address
 <2>3. \A o \in ExcusedBy(t) : exReq[o].alone BY <1>4, <2>1, <2>2 DEF ExcusedBy
 <2>4. Cardinality(ExcusedBy(t)) + tokens[t] <= Limit + refills BY <2>1, <2>3 DEF ExInv, LimitAccounted
 <2>5. CASE s = t /\ success /\ exReq[r].excused
  <3>1. exReq[r].alone BY <1>3, <1>4, <2>1, <2>2, <2>5
  <3>2. tokens[s] >= 1 BY <1>1, <1>4, <2>1, <2>5, <3>1 DEF Lone
  <3>3. Cardinality(ExcusedBy(t)') = Cardinality(ExcusedBy(t)) + 1 BY <2>2, <2>5, FS_AddElement, ExcusedFinite
  <3>4. tokens'[t] = tokens[t] - 1 BY <1>6, <2>1, <2>5, <3>2
  <3> QED BY <1>5, <2>4, <3>3, <3>4, ExcusedFinite, ExAssumption
 <2>6. CASE ~(s = t /\ success /\ exReq[r].excused)
  <3>1. ExcusedBy(t)' = ExcusedBy(t) BY <2>2, <2>6
  <3>2. tokens'[t] <= tokens[t] /\ tokens'[t] \in Nat /\ tokens[t] \in Nat BY <1>5, <1>6
  <3> HIDE DEF s
  <3> QED BY <1>5, <2>4, <3>1, <3>2, ExcusedFinite, ExAssumption
 <2> QED BY <2>5, <2>6
<1>10. ~(Active(r)' /\ ~q.accepted) BY <1>3, <1>4 DEF Active
<1> QED BY <1>1, <1>3, <1>4, <1>6, <1>7, <1>8, <1>9, <1>10, OneMoves

(* The store checks the authority of the author. *)
LEMMA GrantStep ==
    ASSUME ExInv, NEW r \in Requests, grantAuthority(r)
    PROVE  ExInv'
<1> DEFINE memo == IF exReq[r].memo # None THEN exReq[r].memo ELSE IF Owns(r) THEN "match" ELSE "other"
           q == [exReq[r] EXCEPT !.at = "done", !.memo = memo, !.granted = exJob.name[r] # None /\ memo = "match"]
<1>1. /\ ExTypeOK /\ exReq[r] \in ExRequest /\ exReq[r].at = "store" /\ Fresh(r) /\ Backed(r) /\ Move(r, q)
      /\ UNCHANGED <<exJob, tokens, refills, txt, locked, commentCache, updateCache>>
    BY DEF ExInv, ExTypeOK, grantAuthority
<1>2. memo \in {None, "match", "other", "failed"} /\ (memo = "match" => exReq[r].memo = "match" \/ Owns(r)) BY <1>1 DEF ExRequest, None
<1>3. /\ q \in ExRequest /\ q.alone = exReq[r].alone /\ q.accepted = exReq[r].accepted /\ q.excused = exReq[r].excused
      /\ q.at = "done" /\ (q.granted => memo = "match") /\ q.owned = exReq[r].owned
 <2> HIDE DEF memo
 <2> QED BY <1>1, <1>2 DEF ExRequest, Places
<1>4. exReq'[r] = q /\ Active(r) /\ \A o \in Requests \ {r} : exReq'[o] = exReq[o] BY <1>1 DEF ExTypeOK, Move, Active
<1> HIDE DEF q, memo
<1>5. Fresh(r)' /\ Backed(r)' BY <1>1, <1>2, <1>3, <1>4 DEF Fresh, Backed, Active, Owns, Signer, Address, Friendly, Qualifies, HasAuthorRule, Cid
<1>6. LockedIsLookedUp'
 <2>1. \A o \in Requests : exReq'[o].at \in {"fetch", "update"} <=> exReq[o].at \in {"fetch", "update"} BY <1>1, <1>3, <1>4
 <2> QED BY <1>1, <2>1 DEF ExInv, LockedIsLookedUp, Cid
<1>7. ~Active(r)' BY <1>3, <1>4 DEF Active
<1> QED BY <1>1, <1>3, <1>4, <1>5, <1>6, <1>7, QuietMove

(* Tokens come back. *)
LEMMA RefillStep ==
    ASSUME ExInv, refill
    PROVE  ExInv'
<1>1. PICK s \in DOMAIN tokens : tokens' = [tokens EXCEPT ![s] = @ + 1] BY DEF refill
<1>2. ExTypeOK /\ refills' = refills + 1 /\ UNCHANGED <<exJob, exReq, txt, locked, commentCache, updateCache>> BY DEF ExInv, refill
<1>3. \A t \in DOMAIN tokens : tokens[t] \in Nat /\ tokens'[t] \in Nat /\ tokens[t] <= tokens'[t] /\ tokens'[t] <= tokens[t] + 1
    BY <1>1, <1>2 DEF ExTypeOK
<1>4. ExTypeOK' BY <1>1, <1>2 DEF ExTypeOK, Signer, Address
<1>5. LimitAccounted'
 <2>1. SUFFICES ASSUME NEW t \in DOMAIN tokens, exJob.rule.rate, ~exJob.rule.friend, \A o \in ExcusedBy(t) : exReq[o].alone
                PROVE  Cardinality(ExcusedBy(t)) + tokens'[t] <= Limit + refills'
     BY <1>1, <1>2 DEF LimitAccounted, ExcusedBy, Signer, Address
 <2>2. Cardinality(ExcusedBy(t)) + tokens[t] <= Limit + refills BY <2>1 DEF ExInv, LimitAccounted
 <2>3. refills \in Nat BY <1>2 DEF ExTypeOK
 <2> QED BY <1>2, <1>3, <2>2, <2>3, ExcusedFinite, ExAssumption
<1>6. LockedIsLookedUp' BY <1>2 DEF ExInv, LockedIsLookedUp, Cid
<1>7. ASSUME NEW r \in Requests PROVE Fresh(r)' /\ Backed(r)' /\ Lone(r)'
 <2>1. Fresh(r) /\ Backed(r) /\ Lone(r) BY DEF ExInv
 <2>2. Fresh(r)' /\ Backed(r)' BY <1>2, <2>1 DEF Fresh, Backed, Active, Owns, Signer, Address, Friendly, Qualifies, HasAuthorRule, Cid
 <2>3. Address(r) \in DOMAIN tokens BY <1>2 DEF ExTypeOK, Signer, Address
 <2>4. tokens[Address(r)] \in Nat /\ tokens'[Address(r)] \in Nat /\ tokens[Address(r)] <= tokens'[Address(r)] BY <1>3, <2>3
 <2>5. Lone(r)' BY <1>2, <2>1, <2>4 DEF Lone, Active, Signer, Address
 <2> QED BY <2>2, <2>5
<1> QED BY <1>4, <1>5, <1>6, <1>7 DEF ExInv

(* The owner of a name repoints it. *)
LEMMA RepointStep ==
    ASSUME ExInv, repoint
    PROVE  ExInv'
<1>1. /\ ExTypeOK /\ UNCHANGED <<exJob, tokens, refills, locked, commentCache, updateCache>>
      /\ exReq' = [r \in Requests |-> [exReq[r] EXCEPT !.owned = exReq[r].owned \/ (Active(r) /\ Owns(r)')]]
    BY DEF ExInv, repoint
<1>2. ASSUME NEW r \in Requests
      PROVE  /\ exReq'[r] \in ExRequest /\ exReq'[r].at = exReq[r].at /\ exReq'[r].memo = exReq[r].memo
             /\ exReq'[r].excused = exReq[r].excused /\ exReq'[r].granted = exReq[r].granted
             /\ exReq'[r].accepted = exReq[r].accepted /\ exReq'[r].alone = exReq[r].alone
             /\ exReq'[r].owned = (exReq[r].owned \/ (Active(r) /\ Owns(r)'))
 <2>1. exReq[r] \in ExRequest BY <1>1 DEF ExTypeOK
 <2> QED BY <1>1, <2>1 DEF ExRequest
<1>3. ExTypeOK'
 <2>1. exReq' \in [Requests -> ExRequest] BY <1>1, <1>2
 <2> QED BY <1>1, <2>1 DEF ExTypeOK, Signer, Address
<1>4. LimitAccounted'
 <2>1. \A s : ExcusedBy(s)' = ExcusedBy(s) /\ ExcusedBy(s) \subseteq Requests BY <1>1, <1>2 DEF ExcusedBy, Signer, Address
 <2> QED BY <1>1, <1>2, <2>1 DEF ExInv, LimitAccounted
<1>5. LockedIsLookedUp'
 <2>1. \A o \in Requests : exReq'[o].at \in {"fetch", "update"} <=> exReq[o].at \in {"fetch", "update"} BY <1>2
 <2> QED BY <1>1, <2>1 DEF ExInv, LockedIsLookedUp, Cid
<1>6. ASSUME NEW r \in Requests PROVE Fresh(r)' /\ Backed(r)' /\ Lone(r)'
 <2>1. Fresh(r) /\ Backed(r) /\ Lone(r) BY DEF ExInv
 <2>2. Fresh(r)'
  <3>1. (Owns(r)' <=> Owns(r)') /\ (Active(r)' <=> Active(r)) BY <1>1, <1>2 DEF Owns, Active, Signer, Address
  <3>2. exReq'[r].owned \in BOOLEAN /\ exReq[r].owned \in BOOLEAN BY <1>1, <1>2 DEF ExTypeOK, ExRequest
  <3>3. exReq'[r].owned <=> (exReq[r].owned \/ (Active(r) /\ Owns(r)')) BY <1>2, <3>2
  <3> QED BY <1>2, <2>1, <3>1, <3>3 DEF Fresh
 <2>3. Backed(r)' BY <1>1, <1>2, <2>1 DEF Backed, Active, Signer, Address, Friendly, Qualifies, HasAuthorRule, Cid
 <2>4. /\ \A o \in Requests : Active(o)' <=> Active(o)
       /\ exReq'[r].at = exReq[r].at /\ exReq'[r].alone = exReq[r].alone /\ exReq'[r].accepted = exReq[r].accepted
       /\ exReq'[r].excused = exReq[r].excused /\ Address(r)' = Address(r) /\ exJob' = exJob /\ tokens' = tokens
     BY <1>1, <1>2 DEF Active, Signer, Address
 <2>5. Lone(r)' BY <2>1, <2>4 DEF Lone
 <2> QED BY <2>2, <2>3, <2>5
<1> QED BY <1>3, <1>4, <1>5, <1>6 DEF ExInv

LEMMA ExUnchanged ==
    ASSUME ExInv, UNCHANGED <<exJob, exReq, tokens, refills, txt, locked>>
    PROVE  ExInv'
<1>1. ExTypeOK' /\ LockedIsLookedUp' /\ LimitAccounted' BY DEF ExInv, ExTypeOK, LockedIsLookedUp, LimitAccounted, ExcusedBy, Cid, Signer, Address
<1>2. \A r \in Requests : Fresh(r)' /\ Backed(r)' /\ Lone(r)'
    BY DEF ExInv, Fresh, Backed, Lone, Active, Owns, Signer, Address, Friendly, Qualifies, HasAuthorRule, Cid
<1> QED BY <1>1, <1>2 DEF ExInv

(* Nobody is excused on what is stale, somebody else's or over the limit, *)
(* and a lookup that ends holds up nobody. *)
THEOREM ExclusionsStaySound == ExSpec => []ExclusionsAreSound
<1>1. ExInit => ExInv BY ExStarts
<1>2. ExInv /\ [ExNext]_exVars => ExInv'
 <2> SUFFICES ASSUME ExInv, [ExNext]_exVars PROVE ExInv' OBVIOUS
 <2>1. ASSUME NEW r \in Requests, shouldExcludePublication(r) PROVE ExInv' BY <2>1, ComesIn
 <2>2. ASSUME NEW r \in Requests, nameResolvesToSigner(r) PROVE ExInv' BY <2>2, NameStep
 <2>3. ASSUME NEW r \in Requests, takeLock(r) \/ _getComment(r) \/ commentUpdated(r) PROVE ExInv' BY <2>3, LookupStep
 <2>4. ASSUME NEW r \in Requests, answer(r) PROVE ExInv' BY <2>4, AnswerStep
 <2>5. ASSUME NEW r \in Requests, conclude(r) PROVE ExInv' BY <2>5, ConcludeStep
 <2>6. ASSUME NEW r \in Requests, grantAuthority(r) PROVE ExInv' BY <2>6, GrantStep
 <2>7. ASSUME NEW c \in Cids, expireUpdate(c) PROVE ExInv' BY <2>7, ExUnchanged DEF expireUpdate
 <2>8. CASE refill BY <2>8, RefillStep
 <2>9. CASE repoint BY <2>9, RepointStep
 <2>10. CASE UNCHANGED exVars BY <2>10, ExUnchanged DEF exVars
 <2> QED BY <2>1, <2>2, <2>3, <2>4, <2>5, <2>6, <2>7, <2>8, <2>9, <2>10 DEF ExNext
<1>3. ExInv => ExclusionsAreSound BY ExInvSound
<1> QED BY <1>1, <1>2, <1>3, PTL DEF ExSpec

----------------------------------------
(* PublicationRules: what a community asks of a publication. *)

Asked == DOMAIN prJob.pub
CheckStages == {"new", "author", "parent", "lock", "roles", "resolving", "done"}
IsCheck(x) == DOMAIN x = {"at", "verdict", "parent", "post"}

PrTypeOK ==
    /\ prJob \in PrWorkload
    /\ check = [r \in PrRequest |-> check[r]]
    /\ \A r \in PrRequest : IsCheck(check[r]) /\ check[r].at \in CheckStages
    /\ held \in [PrRequest -> [did : SUBSET AllGrounds, didnt : SUBSET AllGrounds]]
    /\ DOMAIN prRoles \subseteq DOMAIN prJob.roles /\ DOMAIN prTxt = DOMAIN prJob.txt /\ prActs \subseteq prJob.acts

(* A comment is under a post that is on the board, in the thread its cid *)
(* says, and shows nothing forbidden. *)
BoardHolds ==
    /\ "none" \notin DOMAIN board
    /\ \A c \in DOMAIN board :
          /\ IsRow(board[c]) /\ board[c].depth \in Nat
          /\ IF board[c].depth = 0 THEN board[c].post = c /\ board[c].parent = "none"
             ELSE board[c].post \in DOMAIN board /\ board[board[c].post].depth = 0
          /\ RootOf(c) \in Threads(prJob, c)
    /\ NothingForbiddenIsShown

(* While a request is checked, the grounds that hold now have been noted. *)
Noted(r) ==
    check[r].at \notin {"new", "done"} =>
        Grounds(Pub(r)) \subseteq held[r].did /\ AllGrounds \ Grounds(Pub(r)) \subseteq held[r].didnt

Deletes(p) == p.kind = "edit" /\ p.act = "delete"

Tells(r, g, b) == IF b THEN g \in held[r].did ELSE g \in held[r].didnt

(* What was read before the name of a moderator resolves was true then. *)
SavedAs(r, x) ==
    x.at = "lock" =>
        LET p == Pub(r) IN
        /\ p.kind \in {"reply", "edit"} /\ p.name # "none"
        /\ {"missing", "removed", "deleted", "not a moderator", "not an owner"} \subseteq held[r].didnt
        /\ p.kind # "edit" => "not the author" \in held[r].didnt
        /\ Tells(r, "archived", x.post.archived)
        /\ Tells(r, "pending", x.parent.pending /\ ~Deletes(p))
        /\ Tells(r, "disapproved", x.parent.disapproved /\ ~Deletes(p))
        /\ prTxt[p.name] = p.signer => "locked" \in held[r].didnt \/ PointedBack(r)
        /\ p.name \in RoleKeys(Mods) \/ Dismissed(r)
        /\ \/ "locked" \in held[r].did
           \/ Exists(p.target) /\ Exists(RootOf(p.target)) /\ board[RootOf(p.target)].locked
        /\ p.signer \notin RoleKeys(Mods)

(* A role a name may give was held under it, since the request arrived, or *)
(* the name has been pointed back meanwhile. *)
RoleKnownAs(r, x) ==
    x.at \in {"roles", "resolving"} =>
        LET p == Pub(r)  keys == RoleKeys(RolesNeeded(p)) IN
        /\ p.kind \in {"moderation", "communityEdit"}
        /\ x.at = "resolving" => p.name # "none" /\ p.signer \notin keys /\ (p.name \in keys \/ Dismissed(r))
        /\ p.name # "none" /\ prTxt[p.name] = p.signer /\ (x.at = "resolving" \/ p.name \in keys)
               => WithoutRole(p) \in held[r].didnt \/ PointedBack(r)

Judged(r) ==
    /\ check[r].at # "done" => Verdict(r) = "none"
    /\ Verdict(r) = "accepted" => AllGrounds \ Excused(r) \subseteq held[r].didnt
    /\ Verdict(r) \in AllGrounds => Verdict(r) \in held[r].did

(* A reply that was taken in is in the thread its parent and the comments it *)
(* quotes are in. *)
RepliesAgree ==
    \A r \in Asked : Verdict(r) = "accepted" /\ Pub(r).kind = "reply" =>
        \A q \in {Pub(r).target} \cup Pub(r).quotes : Pub(r).post \in Threads(prJob, q)

PrInv ==
    /\ PrTypeOK /\ BoardHolds /\ RepliesAgree
    /\ \A r \in Asked : Noted(r) /\ SavedAs(r, check[r]) /\ RoleKnownAs(r, check[r]) /\ Judged(r)

----------------------------------------
(* What the workload leaves certain. *)
LEMMA JobFacts ==
    ASSUME PrTypeOK
    PROVE  /\ Asked \subseteq PrRequest /\ "none" \notin DOMAIN prJob.roles
           /\ \A r \in Asked :
                 /\ Pub(r).kind \in {"post", "reply", "vote", "edit", "moderation", "communityEdit"}
                 /\ Pub(r).kind = "post" => Pub(r).target = "none" /\ Pub(r).post = Pub(r).cid
                 /\ Pub(r).kind = "reply" => Pub(r).target # "none"
                 /\ Pub(r).kind = "edit" => Pub(r).traits \subseteq EditableTraits
                 /\ Pub(r).name \in DOMAIN prTxt \cup {"none"} /\ Pub(r).cid # "none"
                 /\ Pub(r).signer \notin {"none", "unreachable"}
                 /\ \A x, y \in Threads(prJob, Pub(r).cid) : x = y
           /\ \A a \in prActs : a.op = "purge" => a.of # "none"
<1>1. prJob \in PrWorkload /\ DOMAIN prTxt = DOMAIN prJob.txt /\ prActs \subseteq prJob.acts BY DEF PrTypeOK
<1> QED BY <1>1, PrAssumption DEF Asked, Pub, EditableTraits

(* The grounds, one by one, where the target is there. *)
LEMMA GroundsThere ==
    ASSUME NEW p, UnderTarget(p) => Exists(p.target)
    PROVE  LET t == p.target  post == RootOf(p.target) IN
           /\ "missing" \notin Grounds(p)
           /\ "removed" \in Grounds(p) <=> Regular(p) /\ (board[t].removed \/ (Exists(post) /\ board[post].removed))
           /\ "deleted" \in Grounds(p) <=> Regular(p) /\ (board[t].deleted \/ (Exists(post) /\ board[post].deleted))
           /\ "locked" \in Grounds(p) <=> Regular(p) /\ Exists(post) /\ board[post].locked /\ ~MayBypassLock(p)
           /\ "archived" \in Grounds(p) <=> Regular(p) /\ Exists(post) /\ board[post].archived
           /\ "pending" \in Grounds(p) <=> Regular(p) /\ board[t].pending /\ ~Deletes(p)
           /\ "disapproved" \in Grounds(p) <=> Regular(p) /\ board[t].disapproved /\ ~Deletes(p)
           /\ "not a moderator" \in Grounds(p) <=> p.kind = "moderation" /\ ~IsMod(p, Mods)
           /\ "not the author" \in Grounds(p) <=> p.kind = "edit" /\ p.signer # Author(t)
           /\ "not an owner" \in Grounds(p) <=> p.kind = "communityEdit" /\ ~IsMod(p, RolesNeeded(p))
<1> DEFINE flag(g, b) == IF b THEN {g} ELSE {}
<1>1. Grounds(p) =
        (IF ~Regular(p) THEN {} ELSE
            flag("removed", board[p.target].removed \/ (Exists(RootOf(p.target)) /\ board[RootOf(p.target)].removed))
            \cup flag("deleted", board[p.target].deleted \/ (Exists(RootOf(p.target)) /\ board[RootOf(p.target)].deleted))
            \cup flag("locked", Exists(RootOf(p.target)) /\ board[RootOf(p.target)].locked /\ ~MayBypassLock(p))
            \cup flag("archived", Exists(RootOf(p.target)) /\ board[RootOf(p.target)].archived)
            \cup flag("pending", board[p.target].pending /\ ~Deletes(p))
            \cup flag("disapproved", board[p.target].disapproved /\ ~Deletes(p)))
        \cup flag("not a moderator", p.kind = "moderation" /\ ~IsMod(p, Mods))
        \cup flag("not the author", p.kind = "edit" /\ p.signer # Author(p.target))
        \cup flag("not an owner", p.kind = "communityEdit" /\ ~IsMod(p, IF p.act = "roles" THEN {"owner"} ELSE {"owner", "admin"}))
    BY DEF Grounds, Deletes, Author
<1>2. p.kind = "communityEdit" => RolesNeeded(p) = IF p.act = "roles" THEN {"owner"} ELSE {"owner", "admin"} BY DEF RolesNeeded
<1> QED BY <1>1, <1>2

(* Under a comment that is gone every ground holds. *)
LEMMA GroundsGone ==
    ASSUME NEW p, UnderTarget(p), ~Exists(p.target)
    PROVE  Grounds(p) = AllGrounds
BY DEF Grounds

(* Nothing else is a ground. *)
LEMMA GroundsKinds == \A s \in PrRequest : Grounds(Pub(s)) \subseteq AllGrounds
<1> SUFFICES ASSUME NEW s \in PrRequest, NEW g \in Grounds(Pub(s)) PROVE g \in AllGrounds OBVIOUS
<1> QED BY DEF Grounds, AllGrounds

(* What a step may do to what a request that waits has seen. *)
Drifts ==
    /\ prJob' = prJob /\ prActs' \subseteq prActs
    /\ \A roles : RoleKeys(roles)' \subseteq RoleKeys(roles)
    /\ \A s \in Asked :
          /\ \A roles : Pub(s).name \in RoleKeys(roles) => Pub(s).name \in RoleKeys(roles)' \/ Dismissed(s)'
          /\ Pub(s).name # "none" /\ prTxt'[Pub(s).name] = Pub(s).signer =>
                 prTxt[Pub(s).name] = Pub(s).signer \/ PointedBack(s)'
    /\ \A c \in DOMAIN board :
          /\ Exists(c)' => RootOf(c)' = RootOf(c) /\ (board[c].locked => board'[c].locked)
          /\ ~Exists(RootOf(c))' => ~Exists(c)'

(* A step notes what holds after it for every request under way. *)
Notes(s) ==
    /\ held[s].did \subseteq held'[s].did /\ held[s].didnt \subseteq held'[s].didnt
    /\ held'[s].did \subseteq AllGrounds /\ held'[s].didnt \subseteq AllGrounds
    /\ check[s].at \in {"new", "done"} => held'[s] = held[s]
    /\ check[s].at \notin {"new", "done"} => Grounds(Pub(s))' \subseteq held'[s].did /\ AllGrounds \ Grounds(Pub(s))' \subseteq held'[s].didnt

(* What Note does for each request. *)
LEMMA NoteNotes ==
    ASSUME PrTypeOK, Note
    PROVE  held' \in [PrRequest -> [did : SUBSET AllGrounds, didnt : SUBSET AllGrounds]] /\ \A s \in PrRequest : Notes(s)
<1>1. (\A s \in PrRequest : Grounds(Pub(s)) \subseteq AllGrounds)' BY GroundsKinds, PTL
<1>2. \A s \in PrRequest : held[s].did \in SUBSET AllGrounds /\ held[s].didnt \in SUBSET AllGrounds BY DEF PrTypeOK
<1>3. \A s \in PrRequest :
        held'[s] = IF check[s].at \in {"new", "done"} THEN held[s]
                   ELSE [did |-> held[s].did \cup Grounds(Pub(s))', didnt |-> held[s].didnt \cup (AllGrounds \ Grounds(Pub(s))')]
    BY DEF Note
<1>4. \A s \in PrRequest : Notes(s)
   <2> SUFFICES ASSUME NEW s \in PrRequest PROVE Notes(s) OBVIOUS
   <2>1. CASE check[s].at \in {"new", "done"} BY <2>1, <1>2, <1>3 DEF Notes
   <2>2. CASE check[s].at \notin {"new", "done"}
      <3> DEFINE now == Grounds(Pub(s))'
      <3>1. now \subseteq AllGrounds BY <1>1
      <3>2. held'[s] = [did |-> held[s].did \cup now, didnt |-> held[s].didnt \cup (AllGrounds \ now)] BY <2>2, <1>3
      <3>3. held[s].did \in SUBSET AllGrounds /\ held[s].didnt \in SUBSET AllGrounds BY <1>2
      <3> HIDE DEF now
      <3>4. /\ held[s].did \subseteq held'[s].did /\ held[s].didnt \subseteq held'[s].didnt
            /\ held'[s].did \subseteq AllGrounds /\ held'[s].didnt \subseteq AllGrounds
            /\ now \subseteq held'[s].did /\ AllGrounds \ now \subseteq held'[s].didnt
          BY <3>1, <3>2, <3>3
      <3> QED BY <2>2, <3>4 DEF Notes, now
   <2> QED BY <2>1, <2>2
<1>5. ASSUME NEW s \in PrRequest PROVE held'[s] \in [did : SUBSET AllGrounds, didnt : SUBSET AllGrounds]
   <2>1. CASE check[s].at \in {"new", "done"} BY <2>1, <1>3 DEF PrTypeOK
   <2>2. CASE check[s].at \notin {"new", "done"}
      <3> DEFINE now == Grounds(Pub(s))'
      <3>1. now \subseteq AllGrounds BY <1>1
      <3>2. held'[s] = [did |-> held[s].did \cup now, didnt |-> held[s].didnt \cup (AllGrounds \ now)] BY <2>2, <1>3
      <3>3. held[s].did \in SUBSET AllGrounds /\ held[s].didnt \in SUBSET AllGrounds BY <1>2
      <3> HIDE DEF now
      <3> QED BY <3>1, <3>2, <3>3
   <2> QED BY <2>1, <2>2
<1>6. held' = [s \in PrRequest |-> held'[s]] BY DEF Note
<1> QED BY <1>4, <1>5, <1>6

(* What a request knows while it waits stays known. *)
LEMMA KnowingLasts ==
    ASSUME PrInv, Drifts, NEW s \in Asked, Notes(s), check[s].at \notin {"new", "done"},
           NEW x, SavedAs(s, x), RoleKnownAs(s, x)
    PROVE  SavedAs(s, x)' /\ RoleKnownAs(s, x)'
<1> DEFINE p == Pub(s)
<1>0. /\ Pub(s)' = p /\ (Dismissed(s) => Dismissed(s)') /\ (PointedBack(s) => PointedBack(s)')
   <2>1. Pub(s)' = p /\ prJob.acts \ prActs \subseteq prJob'.acts \ prActs' BY DEF Drifts, Pub
   <2> QED BY <2>1 DEF Dismissed, PointedBack
<1>1. SavedAs(s, x)'
   <2> SUFFICES ASSUME x.at = "lock" PROVE SavedAs(s, x)' BY <1>0 DEF SavedAs
   <2>1. /\ p.kind \in {"reply", "edit"} /\ p.name # "none"
         /\ {"missing", "removed", "deleted", "not a moderator", "not an owner"} \subseteq held'[s].didnt
         /\ p.kind # "edit" => "not the author" \in held'[s].didnt
       BY DEF SavedAs, Notes
   <2>2. /\ Tells(s, "archived", x.post.archived)'
         /\ Tells(s, "pending", x.parent.pending /\ ~Deletes(p))'
         /\ Tells(s, "disapproved", x.parent.disapproved /\ ~Deletes(p))'
       BY <1>0 DEF SavedAs, Tells, Notes, Deletes
   <2>3. prTxt'[p.name] = p.signer => "locked" \in held'[s].didnt \/ PointedBack(s)' BY <1>0, <2>1 DEF SavedAs, Notes, Drifts
   <2>4. p.signer \notin RoleKeys(Mods)' /\ (p.name \in RoleKeys(Mods)' \/ Dismissed(s)') BY <1>0 DEF SavedAs, Drifts
   <2>5. "locked" \in held'[s].did \/ (Exists(p.target)' /\ Exists(RootOf(p.target))' /\ board'[RootOf(p.target)'].locked)
      <3>1. CASE "locked" \in held[s].did BY <3>1 DEF Notes
      <3>2. CASE Exists(p.target)' /\ Exists(p.target) /\ Exists(RootOf(p.target)) /\ board[RootOf(p.target)].locked
          BY <3>2, <1>0 DEF Drifts, Exists, RootOf
      <3>3. CASE ~Exists(p.target)'
         <4>1. UnderTarget(Pub(s))' /\ ~Exists(Pub(s).target)' BY <3>3, <1>0, <2>1 DEF UnderTarget
         <4>2. Grounds(Pub(s))' = AllGrounds BY <4>1 DEF Grounds
         <4> QED BY <4>2 DEF Notes, AllGrounds
      <3> QED BY <3>1, <3>2, <3>3 DEF SavedAs
   <2> QED BY <1>0, <2>1, <2>2, <2>3, <2>4, <2>5 DEF SavedAs
<1>2. RoleKnownAs(s, x)'
   <2> SUFFICES ASSUME x.at \in {"roles", "resolving"} PROVE RoleKnownAs(s, x)' BY <1>0 DEF RoleKnownAs
   <2>1. RoleKeys(RolesNeeded(p))' \subseteq RoleKeys(RolesNeeded(p)) BY <1>0 DEF Drifts, RolesNeeded
   <2>2. p.name # "none" /\ prTxt'[p.name] = p.signer => prTxt[p.name] = p.signer \/ PointedBack(s)' BY DEF Drifts
   <2>3. p.name \in RoleKeys(RolesNeeded(p)) => p.name \in RoleKeys(RolesNeeded(p))' \/ Dismissed(s)' BY <1>0 DEF Drifts, RolesNeeded
   <2> QED BY <1>0, <2>1, <2>2, <2>3 DEF RoleKnownAs, Notes, WithoutRole, RolesNeeded
<1> QED BY <1>1, <1>2

(* A request that a step leaves where it is keeps what it knows. *)
LEMMA OthersKeep ==
    ASSUME PrInv, Drifts, NEW s \in Asked, Notes(s), check'[s] = check[s]
    PROVE  Noted(s)' /\ SavedAs(s, check[s])' /\ RoleKnownAs(s, check[s])' /\ Judged(s)'
<1> DEFINE p == Pub(s)
<1>0. s \in PrRequest /\ Pub(s)' = p /\ Noted(s) /\ SavedAs(s, check[s]) /\ RoleKnownAs(s, check[s]) /\ Judged(s)
    BY JobFacts DEF PrInv, Drifts, Pub
<1>1. Noted(s)' BY <1>0 DEF Noted, Notes
<1>2. PICK x : x = check[s] OBVIOUS
<1>3. SavedAs(s, check[s])' /\ RoleKnownAs(s, check[s])'
   <2>1. CASE check[s].at \in {"new", "done"} BY <2>1 DEF SavedAs, RoleKnownAs
   <2>2. CASE check[s].at \notin {"new", "done"}
      <3>1. SavedAs(s, x)' /\ RoleKnownAs(s, x)' BY <1>0, <1>2, <2>2, KnowingLasts
      <3>2. check'[s] = x BY <1>2
      <3> QED BY <3>1, <3>2 DEF SavedAs, RoleKnownAs
   <2> QED BY <2>1, <2>2
<1>4. Judged(s)'
   <2>1. prJob.acts \ prActs \subseteq prJob'.acts \ prActs' BY DEF Drifts
   <2>2. Excused(s) \subseteq Excused(s)' BY <1>0, <2>1 DEF Excused, Dismissed, PointedBack
   <2> QED BY <1>0, <2>2 DEF Judged, Verdict, Notes
<1> QED BY <1>1, <1>3, <1>4

----------------------------------------
(* A row that changes keeps its place and its lock, and shows nothing *)
(* forbidden. *)
LEMMA RowChanges ==
    ASSUME PrTypeOK, BoardHolds, UNCHANGED <<prJob, prRoles, prTxt, prActs>>,
           NEW c \in DOMAIN board, NEW row, IsRow(row), board' = [board EXCEPT ![c] = row],
           row.depth = board[c].depth, row.parent = board[c].parent, row.post = board[c].post, board[c].locked => row.locked,
           (row.traits \cup {"comment"}) \cap Forbidden(row.depth > 0, row.depth) \subseteq ShownAtFirst(c)
    PROVE  Drifts /\ BoardHolds'
<1>1. /\ DOMAIN board' = DOMAIN board
      /\ \A d \in DOMAIN board : board'[d] = IF d = c THEN row ELSE board[d]
    OBVIOUS
<1>2. \A d \in DOMAIN board :
        /\ IsRow(board'[d])
        /\ board'[d].depth = board[d].depth /\ board'[d].parent = board[d].parent /\ board'[d].post = board[d].post
        /\ board[d].locked => board'[d].locked
        /\ (board'[d].traits \cup {"comment"}) \cap Forbidden(board'[d].depth > 0, board'[d].depth) \subseteq ShownAtFirst(d)
    BY <1>1 DEF BoardHolds, NothingForbiddenIsShown
<1>3. \A d \in DOMAIN board : RootOf(d)' = RootOf(d) /\ RootOf(d) \in DOMAIN board BY <1>1, <1>2 DEF RootOf, BoardHolds
<1>4. Drifts
   <2>1. \A roles : RoleKeys(roles)' = RoleKeys(roles) BY DEF RoleKeys
   <2> QED BY <1>1, <1>2, <1>3, <2>1 DEF Drifts, Exists
<1>5. NothingForbiddenIsShown' BY <1>1, <1>2 DEF NothingForbiddenIsShown, Forbidden, On, ShownAtFirst
<1>6. \A d \in DOMAIN board :
          IF board[d].depth = 0 THEN board[d].post = d /\ board[d].parent = "none"
          ELSE board[d].post \in DOMAIN board /\ board[board[d].post].depth = 0
    BY DEF BoardHolds
<1>7. \A d \in DOMAIN board' :
          IF board'[d].depth = 0 THEN board'[d].post = d /\ board'[d].parent = "none"
          ELSE board'[d].post \in DOMAIN board' /\ board'[board'[d].post].depth = 0
    BY <1>1, <1>2, <1>6
<1>8. \A d \in DOMAIN board' : IsRow(board'[d]) /\ board'[d].depth \in Nat /\ RootOf(d)' \in Threads(prJob, d)'
    BY <1>1, <1>2, <1>3 DEF BoardHolds, Threads
<1> QED BY <1>1, <1>4, <1>5, <1>7, <1>8 DEF BoardHolds

(* A step that leaves the board alone. *)
LEMMA BoardStays ==
    ASSUME PrTypeOK, BoardHolds, UNCHANGED <<prJob, board, prRoles, prTxt, prActs>>
    PROVE  Drifts /\ BoardHolds'
<1>1. \A c \in DOMAIN board : RootOf(c)' = RootOf(c) /\ RootOf(c) \in DOMAIN board BY DEF RootOf, BoardHolds
<1>2. \A roles : RoleKeys(roles)' = RoleKeys(roles) BY DEF RoleKeys
<1>3. Drifts BY <1>1, <1>2 DEF Drifts, Exists
<1>4. NothingForbiddenIsShown' BY DEF BoardHolds, NothingForbiddenIsShown, Forbidden, On, ShownAtFirst
<1>5. \A c : Threads(prJob, c)' = Threads(prJob, c) BY DEF Threads
<1> QED BY <1>1, <1>3, <1>4, <1>5 DEF BoardHolds

(* What the checks of a publication that passes leave certain. *)
PassedChecks(p) ==
    /\ p.kind \in {"post", "reply"} =>
          /\ ~Exists(p.cid) /\ ~checkCommentContent(p) /\ ~checkThread(p) /\ ~checkQuotes(p)
          /\ p.kind = "reply" => Exists(p.target)
    /\ p.kind \in {"vote", "edit", "moderation"} => Exists(p.target)
    /\ p.kind = "edit" => ~checkEditContent(p)

(* A comment that passed its checks is put on the board: a cid that was not *)
(* there, under a parent that is, in the parent's thread. *)
LEMMA CommentAdded ==
    ASSUME PrTypeOK, BoardHolds, UNCHANGED <<prJob, prRoles, prTxt, prActs>>,
           NEW r \in Asked, Pub(r).kind \in {"post", "reply"}, PassedChecks(Pub(r)), board' = Applied(Pub(r))
    PROVE  Drifts /\ BoardHolds'
<1> DEFINE p == Pub(r)
           new == NewRow(p)
<1>1. /\ p.kind = "post" => p.target = "none" /\ p.post = p.cid
      /\ p.kind = "reply" => p.target # "none" /\ p.target \in DOMAIN board
      /\ p.cid # "none" /\ p.cid \notin DOMAIN board
    BY JobFacts DEF PassedChecks, Exists
<1>2. /\ DOMAIN board' = DOMAIN board \cup {p.cid} /\ board'[p.cid] = new
      /\ \A c \in DOMAIN board : board'[c] = board[c]
   <2>1. board' = [c \in DOMAIN board \cup {p.cid} |-> IF c = p.cid THEN new ELSE board[c]] BY DEF Applied
   <2> QED BY <2>1, <1>1
<1>3. /\ new.depth \in Nat /\ IsRow(new) /\ new.traits = p.traits /\ new.parent = p.target /\ new.post = p.post
      /\ new.depth = DepthOf(p) /\ (p.kind = "post" => new.depth = 0) /\ (p.kind = "reply" => new.depth > 0)
    BY <1>1 DEF NewRow, DepthOf, IsRow, BoardHolds
<1>4. p.kind = "reply" => /\ p.post = RootOf(p.target) /\ p.post \in DOMAIN board /\ board[p.post].depth = 0
    BY <1>1 DEF PassedChecks, checkThread, RootOf, BoardHolds
<1>5. (new.traits \cup {"comment"}) \cap Forbidden(new.depth > 0, new.depth) = {}
   <2>1. (p.traits \cup {"comment"}) \cap Forbidden(p.target # "none", DepthOf(p)) = {} BY DEF PassedChecks, checkCommentContent
   <2>2. (new.depth > 0) = (p.target # "none") BY <1>1, <1>3
   <2> HIDE DEF p, new
   <2> QED BY <1>3, <2>1, <2>2
<1> HIDE DEF new
<1>6. NothingForbiddenIsShown'
   <2>1. \A c \in DOMAIN board' : (board'[c].traits \cup {"comment"}) \cap Forbidden(board'[c].depth > 0, board'[c].depth) \subseteq ShownAtFirst(c)
       BY <1>2, <1>5 DEF BoardHolds, NothingForbiddenIsShown
   <2> QED BY <2>1 DEF NothingForbiddenIsShown, Forbidden, On, ShownAtFirst
<1>7. \A c \in DOMAIN board : RootOf(c)' = RootOf(c) /\ RootOf(c) \in DOMAIN board BY <1>2 DEF RootOf, BoardHolds
<1>8. Drifts
   <2>1. \A roles : RoleKeys(roles)' = RoleKeys(roles) BY DEF RoleKeys
   <2> QED BY <1>2, <1>7, <2>1 DEF Drifts, Exists
<1>9. \A c \in DOMAIN board :
          IF board[c].depth = 0 THEN board[c].post = c /\ board[c].parent = "none"
          ELSE board[c].post \in DOMAIN board /\ board[board[c].post].depth = 0
    BY DEF BoardHolds
<1>10. \A c \in DOMAIN board' :
          IF board'[c].depth = 0 THEN board'[c].post = c /\ board'[c].parent = "none"
          ELSE board'[c].post \in DOMAIN board' /\ board'[board'[c].post].depth = 0
    BY <1>1, <1>2, <1>3, <1>4, <1>9
<1>11. \A c \in DOMAIN board' : IsRow(board'[c]) /\ board'[c].depth \in Nat /\ c # "none" BY <1>1, <1>2, <1>3 DEF BoardHolds
<1>12. RootOf(p.cid)' \in Threads(prJob, p.cid) BY <1>1, <1>2, <1>3 DEF RootOf, Threads, Asked, Pub
<1>13. \A c \in DOMAIN board' : RootOf(c)' \in Threads(prJob, c)' BY <1>2, <1>7, <1>12 DEF BoardHolds, Threads, Pub, RootOf
<1> QED BY <1>6, <1>8, <1>10, <1>11, <1>13 DEF BoardHolds

(* A vote and a deletion touch one column. *)
LEMMA RowKept ==
    ASSUME NEW x, IsRow(x), NEW y
    PROVE  LET v == [x EXCEPT !.voters = y]  d == [x EXCEPT !.deleted = y] IN
           /\ IsRow(v) /\ IsRow(d)
           /\ v.depth = x.depth /\ v.parent = x.parent /\ v.post = x.post /\ v.locked = x.locked /\ v.traits = x.traits
           /\ d.depth = x.depth /\ d.parent = x.parent /\ d.post = x.post /\ d.locked = x.locked /\ d.traits = x.traits
BY DEF IsRow

(* So does an edit of the traits. *)
LEMMA EditRow ==
    ASSUME NEW x, IsRow(x), NEW y
    PROVE  LET e == [x EXCEPT !.traits = (@ \ EditableTraits) \cup y] IN
           /\ IsRow(e) /\ e.depth = x.depth /\ e.parent = x.parent /\ e.post = x.post /\ e.locked = x.locked
           /\ e.traits = (x.traits \ EditableTraits) \cup y
BY DEF IsRow

(* Whatever a request that passed does to the board, the board still holds *)
(* together. *)
LEMMA Concluding ==
    ASSUME PrTypeOK, BoardHolds, UNCHANGED <<prJob, prRoles, prTxt, prActs>>,
           NEW r \in Asked, NEW v, Conclude(r, v), v = "accepted" => PassedChecks(Pub(r))
    PROVE  Drifts /\ BoardHolds'
<1> DEFINE p == Pub(r)
           t == p.target
<1>1. CASE v # "accepted" \/ p.kind = "communityEdit" BY <1>1, BoardStays DEF Conclude, Applied
<1>2. CASE v = "accepted" /\ p.kind \in {"post", "reply"} BY <1>2, CommentAdded DEF Conclude
<1>3. CASE v = "accepted" /\ p.kind \in {"vote", "edit", "moderation"}
   <2>1. t \in DOMAIN board /\ board' = Applied(p) BY <1>3 DEF PassedChecks, Exists, Conclude
   <2>2. /\ IsRow(board[t]) /\ board[t].depth \in Nat
         /\ (board[t].traits \cup {"comment"}) \cap Forbidden(board[t].depth > 0, board[t].depth) \subseteq ShownAtFirst(t)
       BY <2>1 DEF BoardHolds, NothingForbiddenIsShown
   <2>3. CASE p.kind = "vote"
      <3> DEFINE row == [board[t] EXCEPT !.voters = @ \cup {p.signer}]
      <3>1. board' = [board EXCEPT ![t] = row] BY <2>1, <2>3 DEF Applied
      <3>2. /\ IsRow(row) /\ row.depth = board[t].depth /\ row.parent = board[t].parent /\ row.post = board[t].post
            /\ row.locked = board[t].locked /\ row.traits = board[t].traits
          BY <2>2, RowKept
      <3> HIDE DEF row
      <3> QED BY <2>1, <2>2, <3>1, <3>2, RowChanges
   <2>4. CASE p.kind = "edit" /\ p.act = "delete"
      <3> DEFINE row == [board[t] EXCEPT !.deleted = TRUE]
      <3>1. board' = [board EXCEPT ![t] = row] BY <2>1, <2>4 DEF Applied
      <3>2. /\ IsRow(row) /\ row.depth = board[t].depth /\ row.parent = board[t].parent /\ row.post = board[t].post
            /\ row.locked = board[t].locked /\ row.traits = board[t].traits
          BY <2>2, RowKept
      <3> HIDE DEF row
      <3> QED BY <2>1, <2>2, <3>1, <3>2, RowChanges
   <2>5. CASE p.kind = "edit" /\ p.act # "delete"
      <3> DEFINE row == [board[t] EXCEPT !.traits = (@ \ EditableTraits) \cup p.traits]
      <3>1. board' = [board EXCEPT ![t] = row] BY <2>1, <2>5 DEF Applied
      <3>2. /\ IsRow(row) /\ row.depth = board[t].depth /\ row.parent = board[t].parent /\ row.post = board[t].post
            /\ row.locked = board[t].locked /\ row.traits = (board[t].traits \ EditableTraits) \cup p.traits
          BY <2>2, EditRow
      <3>3. p.traits \subseteq EditableTraits BY <2>5, JobFacts
      <3>4. p.traits \cap Forbidden(board[t].depth > 0, 0) = {} BY <1>3, <2>5, <3>3 DEF PassedChecks, checkEditContent
      <3>5. \A b, d : Forbidden(b, d) \cap EditableTraits \subseteq Forbidden(b, 0)
         <4> SUFFICES ASSUME NEW b, NEW d, NEW g \in EditableTraits, g \in Forbidden(b, d) PROVE g \in Forbidden(b, 0) OBVIOUS
         <4>1. g # "comment" BY DEF EditableTraits
         <4> QED BY <4>1 DEF Forbidden
      <3>6. (row.traits \cup {"comment"}) \cap Forbidden(row.depth > 0, row.depth) \subseteq ShownAtFirst(t) BY <2>2, <3>2, <3>3, <3>4, <3>5
      <3> HIDE DEF row
      <3> QED BY <2>1, <2>2, <3>1, <3>2, <3>6, RowChanges
   <2>6. CASE p.kind = "moderation"
      <3> DEFINE row == Moderated(board[t], p.act)
      <3>1. board' = [board EXCEPT ![t] = row] BY <2>1, <2>6 DEF Applied
      <3>2. /\ IsRow(row) /\ row.depth = board[t].depth /\ row.parent = board[t].parent /\ row.post = board[t].post
            /\ (board[t].locked => row.locked) /\ row.traits = board[t].traits
          BY <2>2 DEF IsRow, Moderated
      <3> HIDE DEF row
      <3> QED BY <2>1, <2>2, <3>1, <3>2, RowChanges
   <2> QED BY <1>3, <2>3, <2>4, <2>5, <2>6
<1> QED BY <1>1, <1>2, <1>3, JobFacts

----------------------------------------
(* A request that is under way is decided. *)
LEMMA ConcludeKeeps ==
    ASSUME PrInv, NEW r \in Asked, check[r].at \notin {"new", "done"}, NEW v, Conclude(r, v), Note,
           UNCHANGED <<prJob, prRoles, prTxt, prActs>>,
           v = "accepted" => PassedChecks(Pub(r)) /\ AllGrounds \ Excused(r) \subseteq held[r].didnt,
           v \in AllGrounds => v \in held[r].did
    PROVE  PrInv'
<1>0. r \in PrRequest /\ PrTypeOK /\ BoardHolds /\ RepliesAgree /\ Asked' = Asked BY JobFacts DEF PrInv, Asked
<1>1. Drifts /\ BoardHolds' BY <1>0, Concluding
<1>2. held' \in [PrRequest -> [did : SUBSET AllGrounds, didnt : SUBSET AllGrounds]] /\ \A s \in PrRequest : Notes(s) BY <1>0, NoteNotes
<1>3. /\ check' = [s \in PrRequest |-> check'[s]]
      /\ \A s \in PrRequest : s # r => check'[s] = check[s]
      /\ check'[r] = [check[r] EXCEPT !.at = "done", !.verdict = v]
    BY <1>0 DEF Conclude, PrTypeOK
<1>4. IsCheck(check[r]) BY <1>0 DEF PrTypeOK
<1>5. IsCheck(check'[r]) /\ check'[r].at = "done" /\ check'[r].verdict = v BY <1>3, <1>4 DEF IsCheck
<1>6. PrTypeOK' BY <1>0, <1>2, <1>3, <1>5 DEF PrTypeOK, CheckStages
<1>7. RepliesAgree'
   <2> SUFFICES ASSUME NEW s \in Asked, check'[s].verdict = "accepted", Pub(s).kind = "reply",
                       NEW q \in {Pub(s).target} \cup Pub(s).quotes
                PROVE  Pub(s).post \in Threads(prJob, q)
       BY <1>0 DEF RepliesAgree, Verdict, Pub, Threads
   <2>1. CASE s # r BY <2>1, <1>0, <1>3, JobFacts DEF RepliesAgree, Verdict
   <2>2. CASE s = r
      <3>1. PassedChecks(Pub(r)) /\ Pub(r).target # "none" BY <2>2, <1>0, <1>5, JobFacts
      <3>2. q \in DOMAIN board /\ RootOf(q) = Pub(r).post BY <2>2, <3>1 DEF PassedChecks, checkThread, checkQuotes, Exists
      <3> QED BY <2>2, <3>2, <1>0 DEF BoardHolds
   <2> QED BY <2>1, <2>2
<1>8. ASSUME NEW s \in Asked PROVE Noted(s)' /\ SavedAs(s, check[s])' /\ RoleKnownAs(s, check[s])' /\ Judged(s)'
   <2>0. s \in PrRequest /\ Notes(s) BY <1>0, <1>2, JobFacts
   <2>1. CASE s # r BY <2>0, <2>1, <1>1, <1>3, OthersKeep
   <2>2. CASE s = r
      <3>1. Noted(r)' /\ SavedAs(r, check[r])' /\ RoleKnownAs(r, check[r])' BY <1>5 DEF Noted, SavedAs, RoleKnownAs
      <3>2. Excused(r)' = Excused(r) BY DEF Excused, Dismissed, PointedBack, Pub
      <3>3. Judged(r)' BY <1>5, <2>0, <2>2, <3>2 DEF Judged, Verdict, Notes
      <3> QED BY <2>2, <3>1, <3>3
   <2> QED BY <2>1, <2>2
<1> QED BY <1>0, <1>1, <1>6, <1>7, <1>8 DEF PrInv

(* A request that is under way gets to its next check. *)
LEMMA GoOnKeeps ==
    ASSUME PrInv, NEW r \in Asked, check[r].at \notin {"new", "done"}, NEW x, check' = [check EXCEPT ![r] = x], Note,
           UNCHANGED <<prJob, board, prRoles, prTxt, prActs>>,
           IsCheck(x), x.at \in CheckStages \ {"new", "done"}, x.verdict = check[r].verdict,
           SavedAs(r, x), RoleKnownAs(r, x)
    PROVE  PrInv'
<1>0. r \in PrRequest /\ PrTypeOK /\ BoardHolds /\ RepliesAgree /\ Asked' = Asked /\ Judged(r) BY JobFacts DEF PrInv, Asked
<1>1. Drifts /\ BoardHolds' BY <1>0, BoardStays
<1>2. held' \in [PrRequest -> [did : SUBSET AllGrounds, didnt : SUBSET AllGrounds]] /\ \A s \in PrRequest : Notes(s) BY <1>0, NoteNotes
<1>3. /\ check' = [s \in PrRequest |-> check'[s]]
      /\ \A s \in PrRequest : s # r => check'[s] = check[s]
      /\ check'[r] = x
    BY <1>0 DEF PrTypeOK
<1>6. PrTypeOK' BY <1>0, <1>2, <1>3 DEF PrTypeOK
<1>7. RepliesAgree'
   <2> SUFFICES ASSUME NEW s \in Asked, check'[s].verdict = "accepted", Pub(s).kind = "reply",
                       NEW q \in {Pub(s).target} \cup Pub(s).quotes
                PROVE  Pub(s).post \in Threads(prJob, q)
       BY <1>0 DEF RepliesAgree, Verdict, Pub, Threads
   <2> QED BY <1>0, <1>3, JobFacts DEF RepliesAgree, Verdict
<1>8. ASSUME NEW s \in Asked PROVE Noted(s)' /\ SavedAs(s, check[s])' /\ RoleKnownAs(s, check[s])' /\ Judged(s)'
   <2>0. s \in PrRequest /\ Notes(s) BY <1>0, <1>2, JobFacts
   <2>1. CASE s # r BY <2>0, <2>1, <1>1, <1>3, OthersKeep
   <2>2. CASE s = r
      <3>1. SavedAs(r, x)' /\ RoleKnownAs(r, x)' BY <2>0, <2>2, <1>1, KnowingLasts
      <3>2. SavedAs(r, check[r])' /\ RoleKnownAs(r, check[r])' BY <3>1, <1>3 DEF SavedAs, RoleKnownAs
      <3>3. Noted(r)' BY <2>0, <2>2 DEF Noted, Notes
      <3>4. Judged(r)' BY <1>0, <1>3 DEF Judged, Verdict, AllGrounds
      <3> QED BY <2>2, <3>2, <3>3, <3>4
   <2> QED BY <2>1, <2>2
<1> QED BY <1>0, <1>1, <1>6, <1>7, <1>8 DEF PrInv

(* What happens besides the requests. *)
LEMMA MeanwhileMoves ==
    ASSUME PrTypeOK, BoardHolds, meanwhile
    PROVE  Drifts /\ BoardHolds' /\ DOMAIN prRoles' \subseteq DOMAIN prRoles /\ DOMAIN prTxt' = DOMAIN prTxt /\ prActs' \subseteq prActs
<1>1. PICK a \in prActs :
        /\ prActs' = prActs \ {a}
        /\ board' = IF a.op = "purge" THEN [c \in DOMAIN board \ Under(a.of) |-> board[c]] ELSE board
        /\ prRoles' = IF a.op = "dismiss" THEN [k \in DOMAIN prRoles \ {a.of} |-> prRoles[k]] ELSE prRoles
        /\ prTxt' = IF a.op = "point" THEN [prTxt EXCEPT ![a.of] = a.to] ELSE prTxt
        /\ UNCHANGED <<prJob, check>>
    BY DEF meanwhile
<1>2. a \in prJob.acts /\ (a.op = "purge" => a.of # "none") BY JobFacts DEF PrTypeOK
<1>3. DOMAIN prRoles' \subseteq DOMAIN prRoles /\ \A k \in DOMAIN prRoles' : prRoles'[k] = prRoles[k] BY <1>1
<1>4. \A roles : RoleKeys(roles)' \subseteq RoleKeys(roles) BY <1>3 DEF RoleKeys
<1>5. DOMAIN prTxt' = DOMAIN prTxt BY <1>1
<1>5a. a \in prJob'.acts \ prActs' /\ prJob' = prJob BY <1>1, <1>2
<1>6. \A s \in Asked :
        /\ \A roles : Pub(s).name \in RoleKeys(roles) => Pub(s).name \in RoleKeys(roles)' \/ Dismissed(s)'
        /\ Pub(s).name # "none" /\ prTxt'[Pub(s).name] = Pub(s).signer => prTxt[Pub(s).name] = Pub(s).signer \/ PointedBack(s)'
   <2> SUFFICES ASSUME NEW s \in Asked
                PROVE  /\ \A roles : Pub(s).name \in RoleKeys(roles) => Pub(s).name \in RoleKeys(roles)' \/ Dismissed(s)'
                       /\ Pub(s).name # "none" /\ prTxt'[Pub(s).name] = Pub(s).signer =>
                              prTxt[Pub(s).name] = Pub(s).signer \/ PointedBack(s)'
       OBVIOUS
   <2>1. Pub(s)' = Pub(s) BY <1>5a DEF Pub
   <2>2. a.op = "dismiss" /\ a.of = Pub(s).name => Dismissed(s)' BY <1>5a, <2>1 DEF Dismissed
   <2>3. a.op = "point" /\ a.of = Pub(s).name /\ a.to = Pub(s).signer => PointedBack(s)' BY <1>5a, <2>1 DEF PointedBack
   <2>4. Pub(s).name # "none" => Pub(s).name \in DOMAIN prTxt BY JobFacts
   <2>5. ASSUME NEW roles, Pub(s).name \in RoleKeys(roles), Pub(s).name \notin RoleKeys(roles)'
         PROVE  Dismissed(s)'
         BY <1>1, <2>2, <2>5 DEF RoleKeys
   <2>6. Pub(s).name # "none" /\ prTxt'[Pub(s).name] = Pub(s).signer => prTxt[Pub(s).name] = Pub(s).signer \/ PointedBack(s)'
       BY <1>1, <2>3, <2>4
   <2> QED BY <2>5, <2>6
<1>7. /\ DOMAIN board' \subseteq DOMAIN board
      /\ \A c \in DOMAIN board' : board'[c] = board[c]
      /\ \A c \in DOMAIN board : RootOf(c) \in DOMAIN board
      /\ \A c \in DOMAIN board' : board[c].depth # 0 => board[c].post \in DOMAIN board'
   <2>1. \A c \in DOMAIN board :
           IF board[c].depth = 0 THEN board[c].post = c /\ board[c].parent = "none"
           ELSE board[c].post \in DOMAIN board /\ board[board[c].post].depth = 0
       BY DEF BoardHolds
   <2>2. CASE a.op = "purge"
      <3>1. \A d : d \in DOMAIN board' <=> d \in DOMAIN board /\ d # a.of /\ board[d].parent # a.of /\ board[d].post # a.of
          BY <1>1, <2>2 DEF Under
      <3>2. \A c \in DOMAIN board' : board'[c] = board[c] BY <1>1, <2>2
      <3>3. \A c \in DOMAIN board' : board[c].depth # 0 => board[c].post \in DOMAIN board' BY <3>1, <2>1, <1>2, <2>2
      <3> QED BY <2>1, <3>1, <3>2, <3>3 DEF RootOf
   <2>3. CASE a.op # "purge" BY <2>1, <2>3, <1>1 DEF RootOf
   <2> QED BY <2>2, <2>3
<1>8. \A c \in DOMAIN board' : RootOf(c)' = RootOf(c) /\ RootOf(c) \in DOMAIN board' BY <1>7 DEF RootOf
<1>9. Drifts BY <1>1, <1>4, <1>6, <1>7, <1>8 DEF Drifts, Exists
<1>10. NothingForbiddenIsShown' BY <1>1, <1>7 DEF BoardHolds, NothingForbiddenIsShown, Forbidden, On, ShownAtFirst
<1>11. \A c \in DOMAIN board' : RootOf(c)' \in Threads(prJob, c)' BY <1>1, <1>7, <1>8 DEF BoardHolds, Threads
<1>12. BoardHolds' BY <1>7, <1>10, <1>11 DEF BoardHolds
<1> QED BY <1>1, <1>3, <1>5, <1>9, <1>12

----------------------------------------
(* A request that got past the lock under a comment that is there was let *)
(* past it at some moment, or is excused. *)
LockPassed(r) ==
    /\ Pub(r).kind = "post" => "locked" \in held[r].didnt
    /\ Pub(r).kind \in {"reply", "vote", "edit"} /\ Exists(Pub(r).target) => "locked" \in held[r].didnt \cup Excused(r)

(* The own checks of a kind, on the board as it is. *)
LEMMA RestKeeps ==
    ASSUME PrInv, NEW r \in Asked, check[r].at \in {"parent", "lock"}, RestOfChecks(r), Note,
           UNCHANGED <<prJob, prRoles, prTxt, prActs>>,
           Pub(r).kind \in {"vote", "moderation"} => Exists(Pub(r).target),
           Pub(r).kind \in {"post", "reply", "vote", "edit"} =>
               AllGrounds \ (Excused(r) \cup {"not the author", "locked"}) \subseteq held[r].didnt,
           LockPassed(r),
           Pub(r).kind \in {"post", "reply", "vote"} => "not the author" \in held[r].didnt
    PROVE  PrInv'
<1> DEFINE p == Pub(r)
           own == OwnChecks(p)
<1>0. /\ r \in PrRequest /\ PrTypeOK /\ Noted(r) /\ Judged(r) /\ check[r].at \notin {"new", "done"}
      /\ p.kind \in {"post", "reply", "vote", "edit", "moderation", "communityEdit"}
    BY JobFacts DEF PrInv
<1>1. Grounds(p) \subseteq held[r].did /\ AllGrounds \ Grounds(p) \subseteq held[r].didnt BY <1>0 DEF Noted
<1>2. CASE p.kind \in {"moderation", "communityEdit"}
   <2> DEFINE x == [check[r] EXCEPT !.at = "roles"]
   <2>1. own = "roles" BY <1>2 DEF OwnChecks
   <2>2. check' = [check EXCEPT ![r] = x] /\ UNCHANGED board BY <2>1 DEF RestOfChecks, GoOn
   <2>3. IsCheck(x) /\ x.at = "roles" /\ x.verdict = check[r].verdict
      <3>1. IsCheck(check[r]) BY <1>0 DEF PrTypeOK
      <3> QED BY <3>1 DEF IsCheck
   <2>4. SavedAs(r, x) BY <2>3 DEF SavedAs
   <2>5. RoleKnownAs(r, x)
      <3>1. p.name # "none" /\ prTxt[p.name] = p.signer /\ p.name \in RoleKeys(RolesNeeded(p)) => IsMod(p, RolesNeeded(p)) BY DEF IsMod
      <3>2. p.kind = "moderation" => RolesNeeded(p) = Mods BY DEF RolesNeeded
      <3>3. UnderTarget(p) => Exists(p.target) BY <1>2 DEF UnderTarget
      <3>4. /\ "not a moderator" \in Grounds(p) <=> p.kind = "moderation" /\ ~IsMod(p, Mods)
            /\ "not an owner" \in Grounds(p) <=> p.kind = "communityEdit" /\ ~IsMod(p, RolesNeeded(p))
          BY <3>3, GroundsThere
      <3>5. p.name # "none" /\ prTxt[p.name] = p.signer /\ p.name \in RoleKeys(RolesNeeded(p)) => WithoutRole(p) \in held[r].didnt
          BY <1>1, <1>2, <3>1, <3>2, <3>4 DEF WithoutRole, AllGrounds
      <3> QED BY <1>2, <2>3, <3>5 DEF RoleKnownAs
   <2> HIDE DEF x
   <2> QED BY <1>0, <2>2, <2>3, <2>4, <2>5, GoOnKeeps DEF CheckStages
<1>3. CASE p.kind = "vote"
   <2>1. own \in {"vote", "accepted"} /\ Conclude(r, own) BY <1>3 DEF RestOfChecks, OwnChecks
   <2>2. PassedChecks(p) BY <1>3 DEF PassedChecks
   <2> HIDE DEF own
   <2>3. own \notin AllGrounds BY <2>1 DEF AllGrounds
   <2>4. AllGrounds \ Excused(r) \subseteq held[r].didnt BY <1>3 DEF LockPassed
   <2> QED BY <1>0, <2>1, <2>2, <2>3, <2>4, ConcludeKeeps
<1>4. CASE p.kind \in {"post", "reply"}
   <2>1. /\ own \in {"threw", "content", "thread", "quote", "duplicate", "accepted"} /\ Conclude(r, own)
         /\ own = "accepted" => PassedChecks(p)
       BY <1>4 DEF RestOfChecks, OwnChecks, PassedChecks
   <2> HIDE DEF own
   <2>2. own \notin AllGrounds BY <2>1 DEF AllGrounds
   <2>3. PassedChecks(p) => AllGrounds \ Excused(r) \subseteq held[r].didnt BY <1>4 DEF LockPassed, PassedChecks
   <2> QED BY <1>0, <2>1, <2>2, <2>3, ConcludeKeeps
<1>5. CASE p.kind = "edit"
   <2>1. own = (IF ~Exists(p.target) THEN "missing"
                ELSE IF p.signer # Author(p.target) THEN "not the author"
                ELSE IF checkEditContent(p) THEN "content" ELSE "accepted")
       BY <1>5 DEF OwnChecks
   <2>2. Conclude(r, own) BY <2>1 DEF RestOfChecks
   <2>3. CASE ~Exists(p.target)
      <3>1. own = "missing" /\ Grounds(p) = AllGrounds
         <4>1. UnderTarget(p) BY <1>5 DEF UnderTarget
         <4>2. Grounds(p) = AllGrounds BY <2>3, <4>1, GroundsGone
         <4> QED BY <2>1, <2>3, <4>2
      <3> HIDE DEF own
      <3> QED BY <1>0, <1>1, <2>2, <3>1, ConcludeKeeps
   <2>4. CASE Exists(p.target)
      <3>1. "not the author" \in Grounds(p) <=> p.signer # Author(p.target) BY <2>4, <1>5, GroundsThere
      <3>2. own \in {"not the author", "content", "accepted"} BY <2>1, <2>4
      <3>3. own = "accepted" => PassedChecks(p) /\ "not the author" \in held[r].didnt
          BY <2>1, <2>4, <3>1, <1>1, <1>5 DEF PassedChecks, AllGrounds
      <3>4. own \in AllGrounds => own \in held[r].did BY <2>1, <3>1, <3>2, <1>1, <2>4 DEF AllGrounds
      <3>5. own = "accepted" => AllGrounds \ Excused(r) \subseteq held[r].didnt BY <1>5, <2>4, <3>3 DEF LockPassed
      <3> HIDE DEF own
      <3> QED BY <1>0, <2>2, <3>3, <3>4, <3>5, ConcludeKeeps
   <2> QED BY <2>3, <2>4
<1> QED BY <1>0, <1>2, <1>3, <1>4, <1>5

(* The checks after the lock, on what was read of the parent and the post. *)
LEMMA AfterLockKeeps ==
    ASSUME PrInv, NEW r \in Asked, check[r].at \in {"parent", "lock"}, NEW parent, NEW post,
           AfterLockThenRest(r, parent, post), Note, UNCHANGED <<prJob, prRoles, prTxt, prActs>>,
           UnderTarget(Pub(r)), Pub(r).kind \in {"vote", "moderation"} => Exists(Pub(r).target),
           Regular(Pub(r)) =>
               /\ {"missing", "removed", "deleted", "not a moderator", "not an owner"} \subseteq held[r].didnt
               /\ Exists(Pub(r).target) => "locked" \in held[r].didnt \cup Excused(r)
               /\ Pub(r).kind # "edit" => "not the author" \in held[r].didnt
               /\ Tells(r, "archived", post.archived)
               /\ Tells(r, "pending", parent.pending /\ ~Deletes(Pub(r)))
               /\ Tells(r, "disapproved", parent.disapproved /\ ~Deletes(Pub(r)))
    PROVE  PrInv'
<1> DEFINE p == Pub(r)
           after == AfterLock(p, parent, post)
<1>0. check[r].at \notin {"new", "done"} OBVIOUS
<1>1. after \in {"archived", "early", "pending", "disapproved", "go on"} BY DEF AfterLock
<1>2. CASE after # "go on"
   <2>1. Conclude(r, after) BY <1>2 DEF AfterLockThenRest
   <2>2. after \in AllGrounds => after \in held[r].did BY <1>1, <1>2 DEF AfterLock, Tells, Deletes, AllGrounds
   <2> HIDE DEF after
   <2> QED BY <1>0, <1>1, <2>1, <2>2, ConcludeKeeps
<1>3. CASE after = "go on"
   <2>1. RestOfChecks(r) BY <1>3 DEF AfterLockThenRest
   <2>2. Regular(p) => {"archived", "pending", "disapproved"} \subseteq held[r].didnt BY <1>3 DEF AfterLock, Tells, Deletes
   <2>3. Regular(p) => AllGrounds \ (Excused(r) \cup {"not the author", "locked"}) \subseteq held[r].didnt BY <2>2 DEF AllGrounds
   <2>4. LockPassed(r) BY DEF LockPassed, Regular, UnderTarget
   <2> QED BY <2>1, <2>3, <2>4, RestKeeps DEF Regular, UnderTarget
<1> QED BY <1>2, <1>3

(* The parent, the flags and the lock: a ground that is read is a ground, *)
(* and one that is not read is not there. *)
LEMMA ParentKeeps ==
    ASSUME PrInv, NEW r \in Asked, checkParentAndPostState(r)
    PROVE  PrInv'
<1> DEFINE p == Pub(r)
           parent == board[p.target]
           post == PostFlagsOf(p.target)
           before == BeforeLock(p, parent, post)
<1>0. /\ r \in PrRequest /\ PrTypeOK /\ BoardHolds /\ Noted(r) /\ Judged(r) /\ check[r].at = "parent"
      /\ UNCHANGED <<prJob, prRoles, prTxt, prActs>> /\ Note
      /\ p.kind \in {"post", "reply", "vote", "edit", "moderation", "communityEdit"}
    BY JobFacts DEF PrInv, checkParentAndPostState
<1>1. Grounds(p) \subseteq held[r].did /\ AllGrounds \ Grounds(p) \subseteq held[r].didnt BY <1>0 DEF Noted
<1>2. CASE ~UnderTarget(p)
   <2>1. RestOfChecks(r) /\ p.kind \in {"post", "communityEdit"} BY <1>0, <1>2 DEF checkParentAndPostState, UnderTarget
   <2>2. p.kind = "post" => AllGrounds \cap Grounds(p) = {} BY <1>2, GroundsThere DEF AllGrounds, Regular
   <2>3. p.kind = "post" => AllGrounds \subseteq held[r].didnt BY <1>1, <2>2
   <2>4. LockPassed(r) BY <2>1, <2>3 DEF LockPassed, AllGrounds
   <2> QED BY <1>0, <2>1, <2>3, <2>4, RestKeeps DEF AllGrounds
<1>3. CASE UnderTarget(p) /\ ~Exists(p.target)
   <2>1. Conclude(r, "missing") /\ Grounds(p) = AllGrounds BY <1>3, GroundsGone DEF checkParentAndPostState
   <2> QED BY <1>0, <1>1, <2>1, ConcludeKeeps
<1>4. CASE UnderTarget(p) /\ Exists(p.target)
   <2>1. /\ Exists(RootOf(p.target)) /\ post = board[RootOf(p.target)] BY <1>0, <1>4 DEF BoardHolds, RootOf, Exists, PostFlagsOf
   <2>2. /\ "missing" \notin Grounds(p)
         /\ Regular(p) => /\ "removed" \in Grounds(p) <=> parent.removed \/ post.removed
                          /\ "deleted" \in Grounds(p) <=> parent.deleted \/ post.deleted
                          /\ "locked" \in Grounds(p) <=> post.locked /\ ~MayBypassLock(p)
                          /\ "archived" \in Grounds(p) <=> post.archived
                          /\ "pending" \in Grounds(p) <=> parent.pending /\ ~Deletes(p)
                          /\ "disapproved" \in Grounds(p) <=> parent.disapproved /\ ~Deletes(p)
                          /\ "not a moderator" \notin Grounds(p) /\ "not an owner" \notin Grounds(p)
                          /\ p.kind # "edit" => "not the author" \notin Grounds(p)
       BY <1>4, <2>1, GroundsThere DEF Regular, UnderTarget
   <2> HIDE DEF parent, post
   <2>3. Regular(p) => /\ Tells(r, "archived", post.archived)
                      /\ Tells(r, "pending", parent.pending /\ ~Deletes(p))
                      /\ Tells(r, "disapproved", parent.disapproved /\ ~Deletes(p))
       BY <1>1, <2>2 DEF Tells, AllGrounds
   <2>3a. Regular(p) =>
             /\ "missing" \in held[r].didnt /\ "not a moderator" \in held[r].didnt /\ "not an owner" \in held[r].didnt
             /\ p.kind # "edit" => "not the author" \in held[r].didnt
       BY <1>1, <2>2 DEF AllGrounds
   <2>4. Regular(p) =>
            /\ before = "removed" => "removed" \in held[r].did
            /\ before = "deleted" => "deleted" \in held[r].did
            /\ before \in {"go on", "locked"} => "removed" \in held[r].didnt /\ "deleted" \in held[r].didnt
            /\ before = "go on" => "locked" \in held[r].didnt
       BY <1>1, <2>2 DEF BeforeLock, AllGrounds
   <2>4a. Regular(p) /\ before = "locked" => post.locked BY DEF BeforeLock
   <2>5. before \in {"go on", "removed", "deleted", "locked"} /\ (~Regular(p) => before = "go on") BY DEF BeforeLock
   <2> HIDE DEF before
   <2>6. CASE before = "go on"
      <3>1. AfterLockThenRest(r, parent, post) BY <1>4, <2>6 DEF checkParentAndPostState, parent, post, before
      <3>2. Regular(p) => {"missing", "removed", "deleted", "locked", "not a moderator", "not an owner"} \subseteq held[r].didnt
          BY <2>3a, <2>4, <2>6
      <3> QED BY <1>0, <1>4, <2>3, <2>3a, <3>1, <3>2, AfterLockKeeps
   <2>7. CASE before \in {"removed", "deleted"}
      <3>1. Conclude(r, before) BY <1>4, <2>7 DEF checkParentAndPostState, parent, post, before
      <3> QED BY <1>0, <2>4, <2>5, <2>7, <3>1, ConcludeKeeps
   <2>8. CASE before = "locked" /\ (p.kind = "vote" \/ (~matchesKey(r, RoleKeys(Mods)) /\ ~NameListed(r, RoleKeys(Mods))))
      <3>1. Conclude(r, "locked") BY <1>4, <2>8 DEF checkParentAndPostState, parent, post, before
      <3>2. ~MayBypassLock(p)
         <4>1. "none" \notin RoleKeys(Mods) BY <1>0, JobFacts DEF RoleKeys, PrTypeOK
         <4> QED BY <2>8, <4>1 DEF MayBypassLock, matchesKey, NameListed
      <3>3. "locked" \in held[r].did BY <1>1, <2>2, <2>4a, <2>5, <2>8, <3>2
      <3> QED BY <1>0, <3>1, <3>3, ConcludeKeeps
   <2>9. CASE before = "locked" /\ p.kind # "vote" /\ matchesKey(r, RoleKeys(Mods))
      <3>1. AfterLockThenRest(r, parent, post) BY <1>4, <2>9 DEF checkParentAndPostState, parent, post, before
      <3>2. "locked" \in held[r].didnt BY <1>1, <2>2, <2>5, <2>9 DEF MayBypassLock, matchesKey, AllGrounds
      <3>3. Regular(p) => {"missing", "removed", "deleted", "locked", "not a moderator", "not an owner"} \subseteq held[r].didnt
          BY <2>3a, <2>4, <2>9, <3>2
      <3> QED BY <1>0, <1>4, <2>3, <2>3a, <3>1, <3>3, AfterLockKeeps
   <2>10. CASE before = "locked" /\ p.kind # "vote" /\ ~matchesKey(r, RoleKeys(Mods)) /\ NameListed(r, RoleKeys(Mods))
      <3> DEFINE x == [check[r] EXCEPT !.at = "lock", !.parent = parent, !.post = post]
      <3>1. check' = [check EXCEPT ![r] = x] /\ UNCHANGED board BY <1>4, <2>10 DEF checkParentAndPostState, parent, post, before
      <3>2. IsCheck(x) /\ x.at = "lock" /\ x.verdict = check[r].verdict /\ x.parent = parent /\ x.post = post
         <4>1. IsCheck(check[r]) BY <1>0 DEF PrTypeOK
         <4> QED BY <4>1 DEF IsCheck
      <3> HIDE DEF x
      <3>3. p.kind \in {"reply", "edit"} /\ p.name # "none" /\ p.signer \notin RoleKeys(Mods) /\ Regular(p)
          BY <1>4, <2>5, <2>10 DEF Regular, UnderTarget, NameListed, matchesKey
      <3>4. prTxt[p.name] = p.signer => "locked" \in held[r].didnt BY <1>1, <2>2, <2>10, <3>3 DEF MayBypassLock, NameListed, AllGrounds
      <3>5. Exists(p.target) /\ Exists(RootOf(p.target)) /\ board[RootOf(p.target)].locked BY <1>4, <2>1, <2>4a, <2>10, <3>3
      <3>6. SavedAs(r, x)
         <4>0. p.name \in RoleKeys(Mods) BY <2>10 DEF NameListed
         <4>1. /\ {"missing", "removed", "deleted", "not a moderator", "not an owner"} \subseteq held[r].didnt
               /\ p.kind # "edit" => "not the author" \in held[r].didnt
             BY <2>3a, <2>4, <2>10, <3>3
         <4>2. /\ Tells(r, "archived", x.post.archived)
               /\ Tells(r, "pending", x.parent.pending /\ ~Deletes(p))
               /\ Tells(r, "disapproved", x.parent.disapproved /\ ~Deletes(p))
             BY <2>3, <3>2, <3>3 DEF Tells
         <4> QED BY <3>3, <3>4, <3>5, <4>0, <4>1, <4>2 DEF SavedAs
      <3>7. RoleKnownAs(r, x) BY <3>2 DEF RoleKnownAs
      <3> QED BY <1>0, <3>1, <3>2, <3>6, <3>7, GoOnKeeps DEF CheckStages
   <2> QED BY <2>5, <2>6, <2>7, <2>8, <2>9, <2>10
<1> QED BY <1>2, <1>3, <1>4

(* The name of a possible moderator has resolved: the flags are those read *)
(* before, the rest is read now. *)
LEMMA LockKeeps ==
    ASSUME PrInv, NEW r \in Asked, lockBypass(r)
    PROVE  PrInv'
<1> DEFINE p == Pub(r)
<1>0. /\ r \in PrRequest /\ PrTypeOK /\ BoardHolds /\ Noted(r) /\ SavedAs(r, check[r]) /\ check[r].at = "lock"
      /\ UNCHANGED <<prJob, prRoles, prTxt, prActs>> /\ Note /\ p.signer \notin {"none", "unreachable"}
    BY JobFacts DEF PrInv, lockBypass
<1>1. Grounds(p) \subseteq held[r].did /\ AllGrounds \ Grounds(p) \subseteq held[r].didnt BY <1>0 DEF Noted
<1>2. PICK known \in {prTxt[p.name], "unreachable"} :
         IF known = p.signer THEN AfterLockThenRest(r, check[r].parent, check[r].post)
         ELSE IF known \in {"none", "unreachable"} THEN Conclude(r, "name")
         ELSE Conclude(r, "locked")
    BY DEF lockBypass
<1>3. /\ p.kind \in {"reply", "edit"} /\ p.name # "none" /\ p.signer \notin RoleKeys(Mods)
      /\ {"missing", "removed", "deleted", "not a moderator", "not an owner"} \subseteq held[r].didnt
      /\ p.kind # "edit" => "not the author" \in held[r].didnt
      /\ prTxt[p.name] = p.signer => "locked" \in held[r].didnt \/ PointedBack(r)
      /\ p.name \in RoleKeys(Mods) \/ Dismissed(r)
      /\ \/ "locked" \in held[r].did
         \/ Exists(p.target) /\ Exists(RootOf(p.target)) /\ board[RootOf(p.target)].locked
    BY <1>0 DEF SavedAs
<1>4. /\ Tells(r, "archived", check[r].post.archived)
      /\ Tells(r, "pending", check[r].parent.pending /\ ~Deletes(p))
      /\ Tells(r, "disapproved", check[r].parent.disapproved /\ ~Deletes(p))
    BY <1>0 DEF SavedAs
<1>5. UnderTarget(p) /\ Regular(p) BY <1>3 DEF UnderTarget, Regular
<1>6. CASE known = p.signer
   <2>1. AfterLockThenRest(r, check[r].parent, check[r].post) BY <1>2, <1>6
   <2>2. prTxt[p.name] = p.signer BY <1>0, <1>6
   <2>3. ASSUME Exists(p.target), p.name \in RoleKeys(Mods)
         PROVE  "locked" \in held[r].didnt
      <3>1. MayBypassLock(p) BY <1>3, <2>2, <2>3 DEF MayBypassLock
      <3>2. "locked" \notin Grounds(p) BY <1>5, <2>3, <3>1, GroundsThere
      <3> QED BY <1>1, <3>2 DEF AllGrounds
   <2>4. Exists(p.target) => "locked" \in held[r].didnt \cup Excused(r) BY <1>3, <2>2, <2>3 DEF Excused
   <2> QED BY <1>0, <1>3, <1>4, <1>5, <2>1, <2>4, AfterLockKeeps
<1>7. CASE known # p.signer /\ known \in {"none", "unreachable"}
   <2>1. Conclude(r, "name") /\ "name" \notin AllGrounds BY <1>2, <1>7 DEF AllGrounds
   <2> QED BY <1>0, <2>1, ConcludeKeeps
<1>8. CASE known # p.signer /\ known \notin {"none", "unreachable"}
   <2>1. Conclude(r, "locked") BY <1>2, <1>8
   <2>2. ~MayBypassLock(p) BY <1>3, <1>8 DEF MayBypassLock
   <2>3. Exists(p.target) /\ Exists(RootOf(p.target)) /\ board[RootOf(p.target)].locked => "locked" \in Grounds(p)
       BY <1>5, <2>2, GroundsThere
   <2>4. "locked" \in held[r].did BY <1>1, <1>3, <2>3
   <2> QED BY <1>0, <2>1, <2>4, ConcludeKeeps
<1> QED BY <1>6, <1>7, <1>8

(* A moderation or an edit of the community, once the role is known. *)
LEMMA WithRoleKeeps ==
    ASSUME PrInv, NEW r \in Asked, check[r].at \in {"roles", "resolving"}, Conclude(r, WithRole(Pub(r))), Note,
           UNCHANGED <<prJob, prRoles, prTxt, prActs>>,
           (UnderTarget(Pub(r)) /\ ~Exists(Pub(r).target)) \/ WithoutRole(Pub(r)) \in held[r].didnt \cup Excused(r)
    PROVE  PrInv'
<1> DEFINE p == Pub(r)
           v == WithRole(p)
<1>0. Noted(r) /\ RoleKnownAs(r, check[r]) /\ check[r].at \notin {"new", "done"} BY DEF PrInv
<1>1. /\ Grounds(p) \subseteq held[r].did /\ AllGrounds \ Grounds(p) \subseteq held[r].didnt
      /\ p.kind \in {"moderation", "communityEdit"}
    BY <1>0 DEF Noted, RoleKnownAs
<1>2. /\ v \in {"not public", "missing", "moderation", "accepted"}
      /\ v = "missing" => UnderTarget(p) /\ ~Exists(p.target)
      /\ v = "accepted" => PassedChecks(p) /\ (UnderTarget(p) => Exists(p.target))
    BY <1>1 DEF WithRole, UnderTarget, PassedChecks
<1> HIDE DEF v
<1>3. v \in AllGrounds => v \in held[r].did
   <2>1. v \in AllGrounds => v = "missing" BY <1>2 DEF AllGrounds
   <2>2. v = "missing" => Grounds(p) = AllGrounds BY <1>2, GroundsGone
   <2> QED BY <2>1, <2>2, <1>1
<1>4. v = "accepted" => AllGrounds \ Excused(r) \subseteq held[r].didnt
   <2> SUFFICES ASSUME v = "accepted" PROVE AllGrounds \ Excused(r) \subseteq held[r].didnt OBVIOUS
   <2>1. UnderTarget(p) => Exists(p.target) BY <1>2
   <2>2. WithoutRole(p) \in held[r].didnt \cup Excused(r) BY <2>1
   <2>3. \A g \in AllGrounds \cap Grounds(p) : g = WithoutRole(p)
       BY <1>1, <2>1, GroundsThere DEF AllGrounds, Regular, UnderTarget, WithoutRole
   <2> QED BY <1>1, <2>2, <2>3
<1> QED BY <1>0, <1>2, <1>3, <1>4, ConcludeKeeps DEF v

(* Without the role, the missing role is a ground now. *)
LEMMA WithoutRoleKeeps ==
    ASSUME PrInv, NEW r \in Asked, check[r].at \in {"roles", "resolving"}, Conclude(r, WithoutRole(Pub(r))), Note,
           UNCHANGED <<prJob, prRoles, prTxt, prActs>>,
           ~IsMod(Pub(r), RolesNeeded(Pub(r)))
    PROVE  PrInv'
<1> DEFINE p == Pub(r)
           v == WithoutRole(p)
<1>0. Noted(r) /\ RoleKnownAs(r, check[r]) /\ check[r].at \notin {"new", "done"} BY DEF PrInv
<1>1. /\ Grounds(p) \subseteq held[r].did
      /\ p.kind \in {"moderation", "communityEdit"}
    BY <1>0 DEF Noted, RoleKnownAs
<1>2. v \in AllGrounds /\ v # "accepted" BY <1>1 DEF WithoutRole, AllGrounds
<1>3. v \in Grounds(p)
   <2>1. CASE UnderTarget(p) /\ ~Exists(p.target) BY <1>2, <2>1, GroundsGone
   <2>2. CASE UnderTarget(p) => Exists(p.target) BY <1>1, <2>2, GroundsThere DEF WithoutRole, RolesNeeded
   <2> QED BY <2>1, <2>2
<1> HIDE DEF v
<1> QED BY <1>0, <1>1, <1>2, <1>3, ConcludeKeeps DEF v

(* The role, by the signer or by a name that is still to resolve. *)
LEMMA RolesKeep ==
    ASSUME PrInv, NEW r \in Asked, checkRoles(r)
    PROVE  PrInv'
<1> DEFINE p == Pub(r)
           keys == RoleKeys(RolesNeeded(p))
<1>0. /\ PrTypeOK /\ Noted(r) /\ Judged(r) /\ RoleKnownAs(r, check[r]) /\ check[r].at = "roles"
      /\ UNCHANGED <<prJob, prRoles, prTxt, prActs>> /\ Note
      /\ "none" \notin keys /\ r \in PrRequest
    BY JobFacts DEF PrInv, checkRoles, RoleKeys, PrTypeOK
<1>1. /\ Grounds(p) \subseteq held[r].did /\ AllGrounds \ Grounds(p) \subseteq held[r].didnt
      /\ p.kind \in {"moderation", "communityEdit"}
    BY <1>0 DEF Noted, RoleKnownAs
<1>2. CASE p.signer \in keys
   <2>1. Conclude(r, WithRole(p)) BY <1>2 DEF checkRoles, matchesKey
   <2>2. IsMod(p, RolesNeeded(p)) BY <1>2 DEF IsMod
   <2>3. (UnderTarget(p) => Exists(p.target)) => WithoutRole(p) \notin Grounds(p) BY <1>1, <2>2, GroundsThere DEF WithoutRole, RolesNeeded
   <2>4. WithoutRole(p) \in AllGrounds BY DEF WithoutRole, AllGrounds
   <2> QED BY <1>0, <1>1, <2>1, <2>3, <2>4, WithRoleKeeps
<1>3. CASE p.signer \notin keys /\ NameListed(r, keys)
   <2> DEFINE x == [check[r] EXCEPT !.at = "resolving"]
   <2>1. check' = [check EXCEPT ![r] = x] /\ UNCHANGED board BY <1>3 DEF checkRoles, matchesKey, GoOn
   <2>2. IsCheck(x) /\ x.at = "resolving" /\ x.verdict = check[r].verdict
      <3>1. IsCheck(check[r]) BY <1>0 DEF PrTypeOK
      <3> QED BY <3>1 DEF IsCheck
   <2> HIDE DEF x
   <2>3. SavedAs(r, x) /\ RoleKnownAs(r, x) BY <1>0, <1>1, <1>3, <2>2 DEF SavedAs, RoleKnownAs, NameListed
   <2> QED BY <1>0, <2>1, <2>2, <2>3, GoOnKeeps DEF CheckStages
<1>4. CASE p.signer \notin keys /\ ~NameListed(r, keys)
   <2>1. Conclude(r, WithoutRole(p)) BY <1>4 DEF checkRoles, matchesKey
   <2>2. ~IsMod(p, RolesNeeded(p)) BY <1>0, <1>4 DEF IsMod, NameListed
   <2> QED BY <1>0, <2>1, <2>2, WithoutRoleKeeps
<1> QED BY <1>2, <1>3, <1>4

(* The name of a possible role holder has resolved. *)
LEMMA ResolvedKeeps ==
    ASSUME PrInv, NEW r \in Asked, roleResolved(r)
    PROVE  PrInv'
<1> DEFINE p == Pub(r)
<1>0. /\ RoleKnownAs(r, check[r]) /\ Noted(r) /\ check[r].at = "resolving" /\ p.signer \notin {"none", "unreachable"}
      /\ UNCHANGED <<prJob, prRoles, prTxt, prActs>> /\ Note
    BY JobFacts DEF PrInv, roleResolved
<1>1. /\ p.name # "none" /\ p.signer \notin RoleKeys(RolesNeeded(p)) /\ p.kind \in {"moderation", "communityEdit"}
      /\ prTxt[p.name] = p.signer => WithoutRole(p) \in held[r].didnt \/ PointedBack(r)
      /\ p.name \in RoleKeys(RolesNeeded(p)) \/ Dismissed(r)
    BY <1>0 DEF RoleKnownAs
<1>2. PICK known \in {prTxt[p.name], "unreachable"} :
         Conclude(r, IF known = p.signer THEN WithRole(p)
                     ELSE IF known \in {"none", "unreachable"} THEN "name" ELSE WithoutRole(p))
    BY DEF roleResolved
<1>3. CASE known = p.signer
   <2>1. Conclude(r, WithRole(p)) BY <1>2, <1>3
   <2>2. prTxt[p.name] = p.signer BY <1>0, <1>3
   <2>3. ASSUME UnderTarget(p) => Exists(p.target), p.name \in RoleKeys(RolesNeeded(p))
         PROVE  WithoutRole(p) \in held[r].didnt
      <3>1. IsMod(p, RolesNeeded(p)) BY <2>2, <2>3 DEF IsMod
      <3>2. WithoutRole(p) \notin Grounds(p) BY <1>1, <2>3, <3>1, GroundsThere DEF WithoutRole, RolesNeeded
      <3> QED BY <1>0, <3>2 DEF Noted, WithoutRole, AllGrounds
   <2>4. (UnderTarget(p) /\ ~Exists(p.target)) \/ WithoutRole(p) \in held[r].didnt \cup Excused(r)
       BY <1>1, <2>2, <2>3 DEF Excused, WithoutRole
   <2> QED BY <1>0, <2>1, <2>4, WithRoleKeeps
<1>4. CASE known # p.signer /\ known \in {"none", "unreachable"}
   <2>1. Conclude(r, "name") /\ "name" \notin AllGrounds BY <1>2, <1>4 DEF AllGrounds
   <2> QED BY <1>0, <2>1, ConcludeKeeps
<1>5. CASE known # p.signer /\ known \notin {"none", "unreachable"}
   <2>1. Conclude(r, WithoutRole(p)) BY <1>2, <1>5
   <2>2. ~IsMod(p, RolesNeeded(p)) BY <1>1, <1>5 DEF IsMod
   <2> QED BY <1>0, <2>1, <2>2, WithoutRoleKeeps
<1> QED BY <1>3, <1>4, <1>5

(* The claimed name has resolved. *)
LEMMA AuthorKeeps ==
    ASSUME PrInv, NEW r \in Asked, checkAuthorIdentity(r)
    PROVE  PrInv'
<1>0. /\ PrTypeOK /\ check[r].at = "author" /\ UNCHANGED <<prJob, prRoles, prTxt, prActs>> /\ Note /\ r \in PrRequest
    BY JobFacts DEF PrInv, checkAuthorIdentity
<1>1. GoOn(r, "parent") \/ Conclude(r, "name") BY DEF checkAuthorIdentity
<1>2. CASE Conclude(r, "name") BY <1>0, <1>2, ConcludeKeeps DEF AllGrounds
<1>3. CASE GoOn(r, "parent")
   <2> DEFINE x == [check[r] EXCEPT !.at = "parent"]
   <2>1. check' = [check EXCEPT ![r] = x] /\ UNCHANGED board BY <1>3 DEF GoOn
   <2>2. IsCheck(x) /\ x.at = "parent" /\ x.verdict = check[r].verdict
      <3>1. IsCheck(check[r]) BY <1>0 DEF PrTypeOK
      <3> QED BY <3>1 DEF IsCheck
   <2> HIDE DEF x
   <2>3. SavedAs(r, x) /\ RoleKnownAs(r, x) BY <2>2 DEF SavedAs, RoleKnownAs
   <2> QED BY <1>0, <2>1, <2>2, <2>3, GoOnKeeps DEF CheckStages
<1> QED BY <1>1, <1>2, <1>3

(* The grounds turn on the board, the roles and the names. *)
LEMMA GroundsSame ==
    ASSUME UNCHANGED <<prJob, board, prRoles, prTxt>>
    PROVE  \A s \in Asked : Grounds(Pub(s))' = Grounds(Pub(s))
<1>1. \A roles : RoleKeys(roles)' = RoleKeys(roles) BY DEF RoleKeys
<1>2. ASSUME NEW p PROVE Grounds(p)' = Grounds(p)
   <2>1. CASE UnderTarget(p) /\ ~Exists(p.target) BY <2>1 DEF Grounds, UnderTarget, Exists
   <2>2. CASE ~(UnderTarget(p) /\ ~Exists(p.target))
      <3> DEFINE t == p.target
                 row == board[t]
                 post == RootOf(t)
                 deleting == p.kind = "edit" /\ p.act = "delete"
                 removed == IF row.removed \/ (Exists(post) /\ board[post].removed) THEN {"removed"} ELSE {}
                 deleted == IF row.deleted \/ (Exists(post) /\ board[post].deleted) THEN {"deleted"} ELSE {}
                 lockedFlag == IF Exists(post) /\ board[post].locked /\ ~MayBypassLock(p) THEN {"locked"} ELSE {}
                 archived == IF Exists(post) /\ board[post].archived THEN {"archived"} ELSE {}
                 pending == IF row.pending /\ ~deleting THEN {"pending"} ELSE {}
                 disapproved == IF row.disapproved /\ ~deleting THEN {"disapproved"} ELSE {}
                 moderator == IF p.kind = "moderation" /\ ~IsMod(p, Mods) THEN {"not a moderator"} ELSE {}
                 author == IF p.kind = "edit" /\ p.signer # (IF row.original # Nobody THEN row.original ELSE row.signer)
                           THEN {"not the author"} ELSE {}
                 ownerFlag == IF p.kind = "communityEdit" /\ ~IsMod(p, IF p.act = "roles" THEN {"owner"} ELSE {"owner", "admin"})
                          THEN {"not an owner"} ELSE {}
      <3>1. post' = post /\ row' = row BY DEF RootOf
      <3>2. lockedFlag' = lockedFlag BY <1>1, <3>1 DEF MayBypassLock, Exists
      <3>3. moderator' = moderator BY <1>1 DEF IsMod
      <3>4. ownerFlag' = ownerFlag BY <1>1 DEF IsMod
      <3>5. removed' = removed /\ deleted' = deleted /\ archived' = archived BY <3>1 DEF Exists
      <3>6. pending' = pending /\ disapproved' = disapproved /\ author' = author BY <3>1
      <3>7. Grounds(p) = (IF ~Regular(p) THEN {} ELSE removed \cup deleted \cup lockedFlag \cup archived \cup pending \cup disapproved)
                         \cup moderator \cup author \cup ownerFlag
          BY <2>2 DEF Grounds
      <3>8. ~(UnderTarget(p) /\ ~Exists(p.target))' BY <2>2 DEF UnderTarget, Exists
      <3>9. Grounds(p)' = (IF ~Regular(p) THEN {} ELSE removed' \cup deleted' \cup lockedFlag' \cup archived' \cup pending' \cup disapproved')
                          \cup moderator' \cup author' \cup ownerFlag'
          BY <3>8 DEF Grounds, Regular, UnderTarget
      <3> HIDE DEF removed, deleted, lockedFlag, archived, pending, disapproved, moderator, author, ownerFlag
      <3> QED BY <3>2, <3>3, <3>4, <3>5, <3>6, <3>7, <3>9
   <2> QED BY <2>1, <2>2
<1> QED BY <1>2 DEF Pub, Asked

(* A step that leaves the board, the roles and the names alone, and what was *)
(* noted for a request, leaves what that request knows. *)
LEMMA NotedAlready ==
    ASSUME PrInv, UNCHANGED <<prJob, board, prRoles, prTxt>>, NEW s \in Asked, held'[s] = held[s]
    PROVE  Notes(s)
<1>1. s \in PrRequest /\ PrTypeOK /\ Noted(s) BY JobFacts DEF PrInv
<1>2. Grounds(Pub(s))' = Grounds(Pub(s)) BY GroundsSame
<1>3. held[s].did \subseteq AllGrounds /\ held[s].didnt \subseteq AllGrounds BY <1>1 DEF PrTypeOK
<1> QED BY <1>1, <1>2, <1>3 DEF Notes, Noted

(* A request arrives: the first grounds are noted. *)
LEMMA WireKeeps ==
    ASSUME PrInv, NEW r \in Asked, checkWireFormatAndCommunityAuthor(r)
    PROVE  PrInv'
<1> DEFINE p == Pub(r)
<1>0. /\ r \in PrRequest /\ PrTypeOK /\ BoardHolds /\ RepliesAgree /\ Judged(r) /\ check[r].at = "new"
      /\ UNCHANGED <<prJob, prRoles, prTxt, prActs>> /\ Asked' = Asked
    BY JobFacts DEF PrInv, checkWireFormatAndCommunityAuthor, Asked
<1>1. PICK x \in {[check[r] EXCEPT !.at = "done", !.verdict = "wire"], [check[r] EXCEPT !.at = "author"]} :
        check' = [check EXCEPT ![r] = x] /\ board' = board
    BY <1>0 DEF checkWireFormatAndCommunityAuthor, Conclude, GoOn
<1>2. IsCheck(x) /\ x.at \in {"done", "author"} /\ x.verdict \in {"wire", "none"} /\ (x.at = "author" => x.verdict = "none")
   <2>1. IsCheck(check[r]) /\ check[r].verdict = "none" BY <1>0 DEF PrTypeOK, Judged, Verdict
   <2> QED BY <2>1 DEF IsCheck
<1>3. /\ check' = [s \in PrRequest |-> check'[s]]
      /\ \A s \in PrRequest : s # r => check'[s] = check[s]
      /\ check'[r] = x
    BY <1>0, <1>1 DEF PrTypeOK
<1>4. Drifts /\ BoardHolds' BY <1>0, <1>1, BoardStays
<1>5. held' = [held EXCEPT ![r] = [did |-> Grounds(p), didnt |-> AllGrounds \ Grounds(p)]] BY DEF checkWireFormatAndCommunityAuthor
<1>6. Grounds(p) \subseteq AllGrounds /\ Grounds(p)' = Grounds(p) BY <1>0, <1>1, GroundsKinds, GroundsSame
<1>7. /\ held' \in [PrRequest -> [did : SUBSET AllGrounds, didnt : SUBSET AllGrounds]]
      /\ held'[r].did = Grounds(p) /\ held'[r].didnt = AllGrounds \ Grounds(p)
      /\ \A s \in PrRequest : s # r => held'[s] = held[s]
   <2> DEFINE now == Grounds(p)
   <2>1. held' = [held EXCEPT ![r] = [did |-> now, didnt |-> AllGrounds \ now]] /\ now \subseteq AllGrounds BY <1>5, <1>6
   <2> HIDE DEF now
   <2>2. [did |-> now, didnt |-> AllGrounds \ now] \in [did : SUBSET AllGrounds, didnt : SUBSET AllGrounds] BY <2>1
   <2>3. /\ held' \in [PrRequest -> [did : SUBSET AllGrounds, didnt : SUBSET AllGrounds]]
         /\ held'[r].did = now /\ held'[r].didnt = AllGrounds \ now
         /\ \A s \in PrRequest : s # r => held'[s] = held[s]
       BY <1>0, <2>1, <2>2 DEF PrTypeOK
   <2> QED BY <2>3 DEF now
<1>8. PrTypeOK' BY <1>0, <1>2, <1>3, <1>7 DEF PrTypeOK, CheckStages
<1>9. RepliesAgree'
   <2> SUFFICES ASSUME NEW s \in Asked, check'[s].verdict = "accepted", Pub(s).kind = "reply",
                       NEW q \in {Pub(s).target} \cup Pub(s).quotes
                PROVE  Pub(s).post \in Threads(prJob, q)
       BY <1>0 DEF RepliesAgree, Verdict, Pub, Threads
   <2> QED BY <1>0, <1>2, <1>3, JobFacts DEF RepliesAgree, Verdict
<1>10. ASSUME NEW s \in Asked PROVE Noted(s)' /\ SavedAs(s, check[s])' /\ RoleKnownAs(s, check[s])' /\ Judged(s)'
   <2>0. s \in PrRequest BY JobFacts, <1>0
   <2>1. CASE s # r
      <3>1. Notes(s) BY <2>0, <2>1, <1>0, <1>1, <1>7, NotedAlready
      <3> QED BY <2>0, <2>1, <3>1, <1>3, <1>4, OthersKeep
   <2>2. CASE s = r
      <3>1. Noted(r)' BY <1>6, <1>7 DEF Noted
      <3>2. SavedAs(r, check[r])' /\ RoleKnownAs(r, check[r])' BY <1>2, <1>3 DEF SavedAs, RoleKnownAs
      <3>3. Judged(r)' BY <1>2, <1>3 DEF Judged, Verdict, AllGrounds
      <3> QED BY <2>2, <3>1, <3>2, <3>3
   <2> QED BY <2>1, <2>2
<1> QED BY <1>0, <1>4, <1>8, <1>9, <1>10 DEF PrInv

(* What happens besides the requests, and nothing at all. *)
LEMMA OthersMove ==
    ASSUME PrInv, Drifts, BoardHolds', PrTypeOK', check' = check, \A s \in Asked : Notes(s)
    PROVE  PrInv'
<1>0. Asked' = Asked /\ RepliesAgree /\ prJob' = prJob BY DEF PrInv, Drifts, Asked
<1>1. RepliesAgree'
   <2> SUFFICES ASSUME NEW s \in Asked, check'[s].verdict = "accepted", Pub(s).kind = "reply",
                       NEW q \in {Pub(s).target} \cup Pub(s).quotes
                PROVE  Pub(s).post \in Threads(prJob, q)
       BY <1>0 DEF RepliesAgree, Verdict, Pub, Threads
   <2> QED BY <1>0 DEF RepliesAgree, Verdict
<1>2. ASSUME NEW s \in Asked PROVE Noted(s)' /\ SavedAs(s, check[s])' /\ RoleKnownAs(s, check[s])' /\ Judged(s)' BY OthersKeep
<1> QED BY <1>0, <1>1, <1>2 DEF PrInv

(* A purge, a dismissal or a name pointed elsewhere: what a request saw before an *)
(* await is still noted after it. *)
LEMMA MeanwhileKeeps ==
    ASSUME PrInv, meanwhile
    PROVE  PrInv'
<1>0. PrTypeOK /\ BoardHolds /\ Note /\ UNCHANGED <<prJob, check>> BY DEF PrInv, meanwhile
<1>1. Drifts /\ BoardHolds' /\ DOMAIN prRoles' \subseteq DOMAIN prRoles /\ DOMAIN prTxt' = DOMAIN prTxt /\ prActs' \subseteq prActs
    BY <1>0, MeanwhileMoves
<1>2. held' \in [PrRequest -> [did : SUBSET AllGrounds, didnt : SUBSET AllGrounds]] /\ \A s \in PrRequest : Notes(s) BY <1>0, NoteNotes
<1>3. PrTypeOK' BY <1>0, <1>1, <1>2 DEF PrTypeOK
<1> QED BY <1>0, <1>1, <1>2, <1>3, JobFacts, OthersMove

(* The board, the roles and the names to start with. *)
LEMMA PrStarts ==
    ASSUME PrInit
    PROVE  PrInv
<1>1. /\ prJob \in PrWorkload /\ board = prJob.board /\ prRoles = prJob.roles /\ prTxt = prJob.txt /\ prActs = prJob.acts
      /\ check = [r \in PrRequest |-> [at |-> IF r \in DOMAIN prJob.pub THEN "new" ELSE "done", verdict |-> "none",
                                       parent |-> Nobody, post |-> Nobody]]
      /\ held = [r \in PrRequest |-> [did |-> {}, didnt |-> {}]]
    BY DEF PrInit
<1>2. PrTypeOK BY <1>1 DEF PrTypeOK, IsCheck, CheckStages
<1>3. BoardHolds
   <2>1. \A c \in DOMAIN board : RootOf(c) \in Threads(prJob, c) BY <1>1 DEF RootOf, Threads
   <2>2. NothingForbiddenIsShown BY <1>1 DEF ShownAtFirst, NothingForbiddenIsShown
   <2> QED BY <1>1, <2>1, <2>2, PrAssumption DEF BoardHolds
<1>4. \A r \in Asked : check[r].at = "new" /\ check[r].verdict = "none" BY <1>1, <1>2, JobFacts DEF Asked
<1>5. RepliesAgree /\ \A r \in Asked : Noted(r) /\ SavedAs(r, check[r]) /\ RoleKnownAs(r, check[r]) /\ Judged(r)
    BY <1>4 DEF RepliesAgree, Verdict, Noted, SavedAs, RoleKnownAs, Judged, AllGrounds
<1> QED BY <1>2, <1>3, <1>5 DEF PrInv

(* One thread per cid: so a reply that passed and the comments it quotes are *)
(* still in one thread whenever they are on the board. *)
LEMMA RulesFollow ==
    ASSUME PrInv
    PROVE  RulesAreKept
<1>0. PrTypeOK /\ BoardHolds /\ RepliesAgree /\ \A r \in Asked : Judged(r) BY DEF PrInv
<1>1. AcceptedWasLawful /\ RejectedHasGround BY <1>0 DEF Judged, AcceptedWasLawful, RejectedHasGround, Asked
<1>2. \A q : \A x, y \in Threads(prJob, q) : x = y
   <2> SUFFICES ASSUME NEW q, NEW x \in Threads(prJob, q), NEW y \in Threads(prJob, q) PROVE x = y OBVIOUS
   <2>1. CASE \E r \in Asked : Pub(r).cid = q BY <2>1, <1>0, JobFacts
   <2>2. CASE \A r \in Asked : Pub(r).cid # q BY <2>2 DEF Threads, Asked, Pub
   <2> QED BY <2>1, <2>2
<1>3. ThreadsHoldTogether BY <1>0, <1>2 DEF ThreadsHoldTogether, RepliesAgree, BoardHolds, Exists, Asked
<1> QED BY <1>0, <1>1, <1>3 DEF RulesAreKept, BoardHolds

(* Whatever is purged, dismissed or pointed elsewhere at the awaits of *)
(* checkPublicationValidity: what it accepts was lawful at some moment of *)
(* each rule, what it rejects had the ground it gives, no publication that *)
(* passes shows what the features forbid and no accepted reply quotes *)
(* another thread.  Only a role that was taken away while the name under *)
(* which it was held was pointed at the author again still opens what it *)
(* opened. *)
THEOREM RulesStayKept == PrSpec => []RulesAreKept
<1>1. PrInit => PrInv BY PrStarts
<1>2. PrInv /\ [PrNext]_prVars => PrInv'
   <2> SUFFICES ASSUME PrInv, [PrNext]_prVars PROVE PrInv' OBVIOUS
   <2>2. CASE meanwhile BY <2>2, MeanwhileKeeps
   <2>3. ASSUME NEW r \in Asked, checkWireFormatAndCommunityAuthor(r) PROVE PrInv' BY <2>3, WireKeeps
   <2>4. ASSUME NEW r \in Asked, checkAuthorIdentity(r) PROVE PrInv' BY <2>4, AuthorKeeps
   <2>5. ASSUME NEW r \in Asked, checkParentAndPostState(r) PROVE PrInv' BY <2>5, ParentKeeps
   <2>6. ASSUME NEW r \in Asked, lockBypass(r) PROVE PrInv' BY <2>6, LockKeeps
   <2>7. ASSUME NEW r \in Asked, checkRoles(r) PROVE PrInv' BY <2>7, RolesKeep
   <2>8. ASSUME NEW r \in Asked, roleResolved(r) PROVE PrInv' BY <2>8, ResolvedKeeps
   <2>9. CASE UNCHANGED prVars
      <3>1. UNCHANGED <<prJob, board, prRoles, prTxt, prActs, check, held>> /\ PrTypeOK /\ BoardHolds BY <2>9 DEF prVars, PrInv
      <3>2. Drifts /\ BoardHolds' BY <3>1, BoardStays
      <3>3. \A s \in Asked : Notes(s) BY <3>1, NotedAlready
      <3>4. PrTypeOK' BY <3>1 DEF PrTypeOK
      <3> QED BY <3>1, <3>2, <3>3, <3>4, OthersMove
   <2> QED BY <2>2, <2>3, <2>4, <2>5, <2>6, <2>7, <2>8, <2>9 DEF PrNext, Asked
<1>3. PrInv => RulesAreKept BY RulesFollow
<1> QED BY <1>1, <1>2, <1>3, PTL DEF PrSpec

----------------------------------------
(* DbMigration: the rows a migration keeps. *)

LEMMA TablesAreThere ==
    /\ Len(Tables) \in Nat \ {0} /\ \A i \in 1..Len(Tables) : Tables[i] \in TableSet
    /\ Comments \in TableSet /\ \A t \in TableSet : Rows[t] \subseteq AllRows
    /\ \A t, u \in TableSet : \A r \in Rows[t] : r \in Rows[u] => t = u
<1>1. Len(Tables) \in Nat \ {0} BY MigrationAssumption
<1>2. \A i \in 1..Len(Tables) : Tables[i] \in TableSet BY DEF TableSet
<1>3. Comments \in TableSet BY <1>1, <1>2 DEF Comments
<1>4. QED BY <1>1, <1>2, <1>3, MigrationAssumption DEF AllRows

(* What hangs from what: RowsAbove is the reflexive and transitive closure *)
(* of RowParent, and only comments are above another row. *)
LEMMA AboveFacts ==
    ASSUME NEW r \in AllRows
    PROVE  /\ r \in RowsAbove[r] /\ RowsAbove[r] \subseteq AllRows
           /\ \A d \in RowsAbove[r] : RowsAbove[d] \subseteq RowsAbove[r]
           /\ RowParent[r] = NoRow => RowsAbove[r] = {r}
           /\ RowParent[r] # NoRow => RowParent[r] \in AllRows /\ RowsAbove[r] = {r} \cup RowsAbove[RowParent[r]]
           /\ RowsAbove[r] \subseteq {r} \cup Rows[Comments]
<1>p. RowParent[r] \in Rows[Comments] \cup {NoRow} /\ Rows[Comments] \subseteq AllRows /\ NoRow \notin AllRows
    BY MigrationAssumption, TablesAreThere
<1>a. \A q \in AllRows : RowsAbove[q] = {x \in AllRows : \A S \in SUBSET AllRows : q \in S /\ ClosedUp(S) => x \in S} BY DEF RowsAbove
<1>1. r \in RowsAbove[r] /\ RowsAbove[r] \subseteq AllRows BY <1>a
<1>2. \A d \in RowsAbove[r] : RowsAbove[d] \subseteq RowsAbove[r] BY <1>a
<1>3. \A q \in AllRows : ClosedUp(RowsAbove[q])
 <2> SUFFICES ASSUME NEW q \in AllRows, NEW x \in RowsAbove[q], RowParent[x] # NoRow
              PROVE  RowParent[x] \in RowsAbove[q]
     BY DEF ClosedUp
 <2>1. x \in AllRows /\ RowParent[x] \in AllRows BY <1>a, MigrationAssumption, TablesAreThere
 <2>2. QED BY <2>1, <1>a DEF ClosedUp
<1>4. RowParent[r] = NoRow => RowsAbove[r] = {r}
 <2> SUFFICES ASSUME RowParent[r] = NoRow PROVE RowsAbove[r] \subseteq {r} BY <1>1
 <2>1. ClosedUp({r}) /\ {r} \in SUBSET AllRows BY DEF ClosedUp
 <2>2. QED BY <2>1, <1>a
<1>5. RowParent[r] # NoRow => RowParent[r] \in AllRows /\ RowsAbove[r] = {r} \cup RowsAbove[RowParent[r]]
 <2> SUFFICES ASSUME RowParent[r] # NoRow
              PROVE  RowParent[r] \in AllRows /\ RowsAbove[r] = {r} \cup RowsAbove[RowParent[r]]
     OBVIOUS
 <2> DEFINE p == RowParent[r]
            S == {r} \cup RowsAbove[p]
 <2>1. p \in AllRows BY <1>p
 <2>2. RowsAbove[p] \subseteq AllRows /\ p \in RowsAbove[p] /\ ClosedUp(RowsAbove[p]) BY <1>a, <2>1, <1>3
 <2>3. ClosedUp(S) /\ S \in SUBSET AllRows /\ r \in S BY <2>2 DEF ClosedUp
 <2>4. RowsAbove[r] \subseteq S
  <3> HIDE DEF S
  <3> QED BY <2>3, <1>a
 <2>5. p \in RowsAbove[r] BY <1>1, <1>3 DEF ClosedUp
 <2>6. QED BY <1>1, <1>2, <2>1, <2>4, <2>5
<1>6. RowsAbove[r] \subseteq {r} \cup Rows[Comments]
 <2> DEFINE S == {r} \cup Rows[Comments]
 <2>1. \A x \in S : x \in AllRows /\ RowParent[x] \in Rows[Comments] \cup {NoRow} BY <1>p, MigrationAssumption
 <2>2. ClosedUp(S) /\ S \in SUBSET AllRows /\ r \in S BY <2>1 DEF ClosedUp
 <2> HIDE DEF S
 <2>3. RowsAbove[r] \subseteq S BY <2>2, <1>a
 <2>4. QED BY <2>3 DEF S
<1>7. QED BY <1>1, <1>2, <1>4, <1>5, <1>6

(* Two rows that verify under one signature hang from the same rows. *)
LEMMA CopiesHangTogether ==
    ASSUME NEW r \in AllRows \ InvalidRows, NEW y \in AllRows \ InvalidRows, Signature[y] = Signature[r]
    PROVE  /\ RowsAbove[y] \subseteq {y} \cup RowsAbove[r]
           /\ r \in ValidRows => y \in ValidRows
<1>1. RowParent[r] = RowParent[y] BY MigrationAssumption
<1>2. RowsAbove[y] \subseteq {y} \cup RowsAbove[r] BY <1>1, AboveFacts
<1>3. QED BY <1>2 DEF ValidRows

LEMMA CopyIsTwice ==
    ASSUME NEW t \in TableSet, NEW r \in Rows[t], NEW y \in Rows[t], r \in ValidRows, y \notin InvalidRows,
           Signature[y] = Signature[r], RowId[y] < RowId[r]
    PROVE  r \in Twice
<1>1. r \in AllRows /\ y \in AllRows BY TablesAreThere
<1>2. r \notin InvalidRows BY <1>1, AboveFacts DEF ValidRows
<1>3. y \in ValidRows BY <1>1, <1>2, CopiesHangTogether
<1>4. y \in OlderCopies(r, Rows[t] \cap ValidRows) BY <1>3 DEF OlderCopies
<1>5. QED BY <1>4 DEF Twice

(* What may be purged: nothing that a kept row hangs from. *)
LEMMA KeptHangsFromKept ==
    ASSUME NEW r \in KeptRows, NEW d \in RowsAbove[r]
    PROVE  r \in AllRows /\ d \in ValidRows \ Twice
<1>1. r \in AllRows /\ r \in ValidRows /\ d \notin Twice BY DEF KeptRows, ValidRows
<1>2. d \in AllRows /\ RowsAbove[d] \subseteq RowsAbove[r] BY <1>1, AboveFacts
<1>3. QED BY <1>1, <1>2 DEF ValidRows

(* Rows left of a migration that was never cut: whole trees, and a row that *)
(* is gone hangs from one that had to go and is gone too. *)
Clean(S) ==
    /\ S \subseteq AllRows
    /\ \A r \in S : RowsAbove[r] \subseteq S
    /\ \A r \in AllRows \ S : \E d \in RowsAbove[r] \ S : d \in InvalidRows \cup Twice

LEMMA TreeLeavesClean ==
    ASSUME NEW S, Clean(S), NEW d \in S, d \in InvalidRows \cup Twice
    PROVE  Clean({x \in S : d \notin RowsAbove[x]})
<1> DEFINE T == {x \in S : d \notin RowsAbove[x]}
<1>1. T \subseteq AllRows BY DEF Clean
<1>2. ASSUME NEW r \in T, NEW e \in RowsAbove[r] PROVE e \in T
 <2>1. e \in S /\ RowsAbove[e] \subseteq RowsAbove[r] BY <1>2, AboveFacts DEF Clean
 <2>2. QED BY <2>1
<1>3. ASSUME NEW r \in AllRows \ T PROVE \E e \in RowsAbove[r] \ T : e \in InvalidRows \cup Twice
 <2>1. CASE r \notin S BY <2>1 DEF Clean
 <2>2. CASE r \in S
  <3>1. d \in RowsAbove[r] /\ d \in RowsAbove[d] BY <2>2, AboveFacts DEF Clean
  <3>2. QED BY <3>1
 <2>3. QED BY <2>1, <2>2
<1> HIDE DEF T
<1>4. Clean(T) BY <1>1, <1>2, <1>3 DEF Clean
<1>5. QED BY <1>4 DEF T

LEMMA RowsLeaveClean ==
    ASSUME NEW S, Clean(S), NEW E \in SUBSET (InvalidRows \cup Twice), E \cap Rows[Comments] = {}
    PROVE  Clean(S \ E)
<1>1. ASSUME NEW r \in S \ E, NEW e \in RowsAbove[r] PROVE e \in S \ E BY <1>1, AboveFacts DEF Clean
<1>2. ASSUME NEW r \in AllRows \ (S \ E) PROVE \E e \in RowsAbove[r] \ (S \ E) : e \in InvalidRows \cup Twice BY <1>2, AboveFacts DEF Clean
<1>3. QED BY <1>1, <1>2 DEF Clean

(* The oldest of a signature's valid rows stays as long as one of the copies. *)
LEMMA CopyLeftHasCopy ==
    ASSUME NEW S, Clean(S), S \cap InvalidRows = {}, NEW t \in TableSet, NEW r \in S \cap Twice, r \in Rows[t]
    PROVE  \E y \in S \cap Rows[t] : Signature[y] = Signature[r] /\ RowId[y] < RowId[r]
<1>1. r \in AllRows /\ r \in ValidRows /\ r \notin InvalidRows BY DEF Clean, Twice
<1>2. PICK u \in TableSet : r \in Rows[u] /\ OlderCopies(r, Rows[u] \cap ValidRows) # {} BY DEF Twice
<1>3. u = t BY <1>2, TablesAreThere
<1> DEFINE C == OlderCopies(r, Rows[t] \cap ValidRows)
           N == {RowId[x] : x \in C}
<1>4. \A x \in C : /\ x \in AllRows /\ x \in Rows[t] /\ x \in ValidRows /\ RowId[x] \in Nat
                   /\ Signature[x] = Signature[r] /\ RowId[x] < RowId[r]
    BY TablesAreThere, MigrationAssumption DEF OlderCopies
<1>5. C # {} /\ N # {} /\ N \in SUBSET Nat BY <1>2, <1>3, <1>4
<1>6. PICK y \in C : \A x \in C : RowId[y] <= RowId[x]
 <2>1. PICK m \in N : \A k \in N : m <= k
  <3> HIDE DEF N
  <3> QED BY <1>5, LeastOfNaturals
 <2>2. QED BY <2>1
<1>7. y \notin Twice
 <2> SUFFICES ASSUME y \in Twice PROVE FALSE OBVIOUS
 <2>1. PICK v \in TableSet : y \in Rows[v] /\ OlderCopies(y, Rows[v] \cap ValidRows) # {} BY DEF Twice
 <2>2. v = t BY <2>1, <1>4, TablesAreThere
 <2>3. PICK z \in Rows[t] \cap ValidRows : Signature[z] = Signature[y] /\ RowId[z] < RowId[y] BY <2>1, <2>2 DEF OlderCopies
 <2>4. z \in AllRows /\ RowId[z] \in Nat /\ RowId[y] \in Nat /\ RowId[r] \in Nat BY <1>1, <1>4, TablesAreThere, MigrationAssumption
 <2>5. Signature[z] = Signature[r] /\ RowId[z] < RowId[r] BY <1>4, <2>3, <2>4
 <2>6. z \in C BY <2>5, <2>3 DEF OlderCopies
 <2>7. QED BY <1>6, <2>3, <2>4, <2>6
<1>8. y \in S
 <2> SUFFICES ASSUME y \notin S PROVE FALSE OBVIOUS
 <2>1. PICK d \in RowsAbove[y] \ S : d \in InvalidRows \cup Twice BY <1>4 DEF Clean
 <2>2. d # y /\ y \notin InvalidRows BY <2>1, <1>4, <1>7, AboveFacts DEF ValidRows
 <2>3. d \in RowsAbove[r] BY <1>1, <1>4, <2>1, <2>2, CopiesHangTogether
 <2>4. QED BY <2>1, <2>3 DEF Clean
<1>9. QED BY <1>4, <1>8

(* Where nothing invalid and no copy is left, what is left is what is kept. *)
LEMMA SettledIsKept ==
    ASSUME NEW S, Clean(S), S \cap InvalidRows = {},
           \A t \in TableSet : \A r,
               y \in S \cap Rows[t] : Signature[y] = Signature[r] => ~(RowId[y] < RowId[r])
    PROVE  S = KeptRows
<1>1. S \cap Twice = {}
 <2> SUFFICES ASSUME NEW r \in S \cap Twice PROVE FALSE OBVIOUS
 <2>1. PICK t \in TableSet : r \in Rows[t] BY DEF Twice
 <2>2. QED BY <2>1, CopyLeftHasCopy
<1>2. S \subseteq KeptRows BY <1>1 DEF Clean, KeptRows, ValidRows
<1>3. KeptRows \subseteq S
 <2> SUFFICES ASSUME NEW r \in KeptRows, r \notin S PROVE FALSE OBVIOUS
 <2>1. r \in AllRows BY DEF KeptRows, ValidRows
 <2>2. PICK d \in RowsAbove[r] \ S : d \in InvalidRows \cup Twice BY <2>1 DEF Clean
 <2>3. d \in AllRows /\ d \in ValidRows \ Twice BY <2>1, <2>2, KeptHangsFromKept, AboveFacts
 <2>4. QED BY <2>2, <2>3, AboveFacts DEF ValidRows
<1>4. QED BY <1>2, <1>3
----------------------------------------
(* The inductive invariant of a migration. *)

IsStore(m) ==
    /\ m \in [TableSet -> (SUBSET AllRows) \cup {Missing}]
    /\ \A t \in TableSet : m[t] # Missing => m[t] \subseteq Rows[t]

Disks ==
    [main : [TableSet -> (SUBSET AllRows) \cup {Missing}], temp : [TableSet -> (SUBSET AllRows) \cup {Missing}],
     filled : SUBSET AllRows, updates : BOOLEAN, version : {"old", "new"}, state : {"old", "new"}]
Backups ==
    [run : Nat, main : [TableSet -> (SUBSET AllRows) \cup {Missing}], temp : [TableSet -> (SUBSET AllRows) \cup {Missing}]]

(* The places of a start, in their order. *)
TablePlaces   == {"create", "copy", "dropTable", "rename", "next"}
AfterRows     == {"backfill", "version", "state", "vacuum", "open"}
AfterComments == {"duplicateRows"} \cup AfterRows
AfterEdits    == {"duplicates", "purging"} \cup AfterComments
AfterInvalid  == {"invalidEdits"} \cup AfterEdits
AfterTables   == {"invalid"} \cup AfterInvalid
NewPlaces     == {"state", "vacuum", "open"}
OldPlaces     == ({"drop", "threw"} \cup TablePlaces \cup AfterTables) \ NewPlaces

Boots == [at : {"start"} \cup OldPlaces \cup NewPlaces, table : 1..Len(Tables), run : Nat, due : SUBSET Rows[Comments]]
Kills == [count : Nat, cut : SUBSET TableSet, threw : SUBSET AllRows]

MigTypeOK ==
    /\ disk \in Disks /\ backups \subseteq Backups /\ boot \in Boots /\ crashes \in Kills
    /\ IsStore(disk.main) /\ IsStore(disk.temp) /\ IsFiniteSet(crashes.threw)

Migrated == disk.version = "new"

(* Which tables there are, from one place to the next. *)
TablesStand ==
    /\ boot.at \in OldPlaces => ~Migrated
    /\ boot.at \in NewPlaces => Migrated
    /\ boot.at \in {"start", "drop"} => boot.table = 1
    /\ boot.at \in {"copy", "dropTable"} => disk.main[ThisTable] # Missing
    /\ boot.at = "dropTable" => disk.temp[ThisTable] = disk.main[ThisTable]
    /\ boot.at = "rename" => disk.main[ThisTable] = Missing /\ disk.temp[ThisTable] # Missing
    /\ boot.at \in TablePlaces =>
           \A i \in 1..boot.table : i < boot.table \/ boot.at = "next" => disk.main[Tables[i]] # Missing
    /\ boot.at \in AfterTables \/ Migrated => \A t \in TableSet : disk.main[t] # Missing

(* The rows that are stored, and those of a copy about to take its name. *)
Standing == [t \in TableSet |-> IF boot.at = "rename" /\ t = ThisTable THEN disk.temp[t] ELSE disk.main[t]]
Held == {r \in AllRows : HoldsRow(Standing, r)}

NoCopies(t) == \A r, y \in disk.main[t] : Signature[y] = Signature[r] => ~(RowId[y] < RowId[r])

(* What each purge has left nothing of. *)
PurgesStand ==
    /\ boot.at \in AfterInvalid \/ Migrated => disk.main[Comments] \cap InvalidRows = {}
    /\ boot.at \in AfterEdits \/ Migrated => \A t \in TableSet : disk.main[t] \cap InvalidRows = {}
    /\ boot.at = "purging" =>
           /\ boot.due \cap (ValidRows \ Twice) = {} /\ boot.due \cap crashes.threw = {}
           /\ \A r, y \in disk.main[Comments] : Signature[y] = Signature[r] /\ RowId[y] < RowId[r] => r \in boot.due
    /\ boot.at \in AfterComments \/ Migrated => NoCopies(Comments)
    /\ boot.at \in AfterRows \/ Migrated => \A t \in TableSet : NoCopies(t)
    /\ boot.at = "version" \/ Migrated => \A t \in TableSet : disk.main[t] \subseteq disk.filled

(* Where the rows to keep are, whatever was cut. *)
RowsStand ==
    /\ crashes.cut = {} => Clean(Held)
    /\ \A b \in backups : b.run <= boot.run /\ (boot.at = "start" => b.run < boot.run)
    /\ \A r \in KeptRows : r \in Held \/ \E b \in backups : b.run < boot.run /\ HoldsRow(b.main, r)
    /\ ~Migrated /\ boot.at # "start" => \A r \in KeptRows : \E b \in backups : HoldsRow(b.main, r)

(* A start is due to the first call, to a kill, or to a row thrown over. *)
RunsStand ==
    /\ boot.run + (IF boot.at = "threw" THEN 1 ELSE 0) = 1 + crashes.count + Cardinality(crashes.threw)
    /\ crashes.threw \cap Held = {}

MigInv == MigTypeOK /\ TablesStand /\ PurgesStand /\ RowsStand /\ RunsStand

----------------------------------------
LEMMA StoreHolds ==
    ASSUME NEW m, IsStore(m), NEW t \in TableSet, NEW r \in Rows[t]
    PROVE  HoldsRow(m, r) <=> m[t] # Missing /\ r \in m[t]
BY TablesAreThere DEF IsStore, HoldsRow

(* Away from a RENAME the rows held are those of the tables. *)
LEMMA HeldAreStored ==
    ASSUME MigTypeOK, boot.at # "rename"
    PROVE  /\ Held = {r \in AllRows : HoldsRow(disk.main, r)}
           /\ \A t \in TableSet : disk.main[t] # Missing => disk.main[t] = Held \cap Rows[t]
<1>1. Standing = [t \in TableSet |-> disk.main[t]] BY DEF Standing
<1>2. \A r : HoldsRow(Standing, r) <=> HoldsRow(disk.main, r) BY <1>1 DEF HoldsRow
<1>3. Held = {r \in AllRows : HoldsRow(disk.main, r)} BY <1>2 DEF Held
<1>4. ASSUME NEW t \in TableSet, disk.main[t] # Missing PROVE disk.main[t] = Held \cap Rows[t]
 <2>1. IsStore(disk.main) /\ disk.main[t] \subseteq Rows[t] /\ Rows[t] \subseteq AllRows BY <1>4, TablesAreThere DEF MigTypeOK, IsStore
 <2>2. \A r \in Rows[t] : HoldsRow(disk.main, r) <=> r \in disk.main[t] BY <1>4, <2>1, StoreHolds
 <2>3. QED BY <1>3, <2>1, <2>2
<1>5. QED BY <1>3, <1>4

(* A step that takes none of the rows to keep from those held. *)
LEMMA RowsStayStanding ==
    ASSUME MigInv, Held' \subseteq Held, KeptRows \cap Held \subseteq Held', crashes.cut = {} => Clean(Held'),
           UNCHANGED <<backups, crashes>>, boot'.run = boot.run, Migrated => Migrated',
           boot.at \notin {"start", "threw"}, boot'.at \notin {"start", "threw"}
    PROVE  RowsStand' /\ RunsStand'
<1>1. RowsStand' BY DEF MigInv, RowsStand
<1>2. RunsStand' BY DEF MigInv, RunsStand
<1>3. QED BY <1>1, <1>2

LEMMA SameTables ==
    ASSUME MigTypeOK, MigTypeOK', boot.at # "rename", boot'.at # "rename", disk'.main = disk.main
    PROVE  Held' = Held
<1>1. Standing = [t \in TableSet |-> disk.main[t]] /\ Standing' = [t \in TableSet |-> disk.main[t]] BY DEF Standing
<1>2. QED BY <1>1 DEF Held, HoldsRow

LEMMA Tabled == MigTypeOK => ThisTable \in TableSet
BY TablesAreThere DEF MigTypeOK, Boots, ThisTable

----------------------------------------
LEMMA MigStarts == MigInit => MigInv
<1> SUFFICES ASSUME MigInit PROVE MigInv OBVIOUS
<1> USE DEF MigInit
<1>1. MigTypeOK
 <2>1. \A t \in TableSet : Rows[t] \in SUBSET AllRows BY TablesAreThere
 <2>2. IsStore(disk.main) /\ IsStore(disk.temp) BY <2>1 DEF IsStore
 <2>3. IsFiniteSet(crashes.threw) BY FS_EmptySet
 <2>4. disk \in Disks BY <2>1 DEF Disks
 <2>5. boot \in Boots /\ crashes \in Kills /\ backups \subseteq Backups BY TablesAreThere DEF Boots, Kills
 <2>6. QED BY <2>2, <2>3, <2>4, <2>5 DEF MigTypeOK
<1>2. TablesStand /\ PurgesStand
    BY DEF TablesStand, PurgesStand, Migrated, OldPlaces, NewPlaces, TablePlaces, AfterTables,
       AfterInvalid, AfterEdits, AfterComments, AfterRows
<1>3. Held = AllRows
 <2>1. \A t \in TableSet : Rows[t] # Missing /\ Rows[t] \subseteq AllRows BY TablesAreThere, MigrationAssumption
 <2>2. \A r \in AllRows : HoldsRow(disk.main, r) BY <2>1 DEF HoldsRow, AllRows
 <2>3. QED BY <1>1, <2>2, HeldAreStored
<1>4. Clean(Held) BY <1>3, AboveFacts DEF Clean
<1>5. RowsStand BY <1>3, <1>4 DEF RowsStand, KeptRows, ValidRows
<1>6. RunsStand BY FS_EmptySet DEF RunsStand
<1>7. QED BY <1>1, <1>2, <1>5, <1>6 DEF MigInv

LEMMA BackupTaken == ASSUME MigInv, backupBeforeMigration PROVE MigInv'
<1> USE DEF backupBeforeMigration, Reach
<1>0. MigTypeOK /\ boot.at = "start" BY DEF MigInv
<1>1. MigTypeOK' BY <1>0 DEF MigTypeOK, Boots, Disks, Backups, OldPlaces, NewPlaces
<1>2. Held' = Held BY <1>0, <1>1, SameTables DEF MigTypeOK, Boots
<1>3. TablesStand'
    BY <1>0 DEF MigInv, TablesStand, Migrated, Disks, Boots, MigTypeOK, OldPlaces, NewPlaces, TablePlaces,
       AfterTables, AfterInvalid, AfterEdits, AfterComments, AfterRows
<1>4. PurgesStand'
    BY <1>0 DEF MigInv, PurgesStand, NoCopies, Migrated, Disks, Boots, MigTypeOK, OldPlaces, NewPlaces,
       TablePlaces, AfterTables, AfterInvalid, AfterEdits, AfterComments, AfterRows
<1>5. RowsStand'
 <2>1. CASE Migrated BY <1>0, <1>2, <2>1 DEF MigInv, RowsStand, Migrated, MigTypeOK, Boots
 <2>2. CASE ~Migrated
  <3> DEFINE b == [run |-> boot.run, main |-> disk.main, temp |-> disk.temp]
  <3>1. backups' = backups \cup {b} /\ boot'.run = boot.run /\ boot'.at = "drop" /\ UNCHANGED <<disk, crashes>>
      BY <2>2, <1>0 DEF Migrated, MigTypeOK, Boots
  <3>2. b.run = boot.run /\ b.main = disk.main /\ boot.run \in Nat BY <1>0 DEF MigTypeOK, Boots
  <3> HIDE DEF b
  <3>3. \A r \in Held : HoldsRow(b.main, r) BY <1>0, <3>2, HeldAreStored
  <3>4. ASSUME NEW r \in KeptRows PROVE \E c \in backups' : HoldsRow(c.main, r) BY <3>1, <3>3 DEF MigInv, RowsStand
  <3>5. \A c \in backups' : c.run <= boot'.run /\ boot'.at # "start" BY <3>1, <3>2 DEF MigInv, RowsStand
  <3>6. \A r \in KeptRows : r \in Held' \/ \E c \in backups' : c.run < boot'.run /\ HoldsRow(c.main, r) BY <1>2, <3>1 DEF MigInv, RowsStand
  <3>7. crashes'.cut = {} => Clean(Held') BY <1>2, <3>1 DEF MigInv, RowsStand
  <3>8. QED BY <3>4, <3>5, <3>6, <3>7 DEF RowsStand
 <2>3. QED BY <2>1, <2>2
<1>6. RunsStand' BY <1>0, <1>2 DEF MigInv, RunsStand, MigTypeOK, Boots
<1>7. QED BY <1>1, <1>3, <1>4, <1>5, <1>6 DEF MigInv

(* A step on one table that leaves what that table holds. *)
LEMMA TableSteps ==
    ASSUME MigInv, boot.at \in {"drop"} \cup TablePlaces, boot'.at \in TablePlaces, boot'.run = boot.run,
           UNCHANGED <<backups, crashes>>, disk'.version = disk.version, MigTypeOK', TablesStand',
           \A t \in TableSet : \A r \in AllRows :
               Standing'[t] # Missing /\ r \in Standing'[t] <=> Standing[t] # Missing /\ r \in Standing[t]
    PROVE  MigInv'
<1>1. Held' = Held BY DEF Held, HoldsRow
<1>2. RowsStand' /\ RunsStand'
    BY <1>1, RowsStayStanding DEF MigInv, RowsStand, Migrated, OldPlaces, TablePlaces, AfterTables,
       AfterInvalid, AfterEdits, AfterComments, AfterRows, NewPlaces
<1>3. ~Migrated BY DEF MigInv, TablesStand, OldPlaces, NewPlaces, TablePlaces
<1>4. PurgesStand'
    BY <1>3 DEF PurgesStand, Migrated, TablePlaces, AfterTables, AfterInvalid, AfterEdits, AfterComments,
       AfterRows
<1>5. QED BY <1>2, <1>4 DEF MigInv

LEMMA OldTablesGo == ASSUME MigInv, dropOldTables PROVE MigInv'
<1> USE DEF dropOldTables, Reach
<1>0. MigTypeOK /\ boot.at = "drop" /\ ~Migrated /\ boot'.at = "create" /\ boot'.table = boot.table
    BY DEF MigInv, TablesStand, OldPlaces, NewPlaces, MigTypeOK, Boots
<1>1. MigTypeOK' BY <1>0 DEF MigTypeOK, Boots, Disks, OldPlaces, NewPlaces, TablePlaces
<1>2. boot'.table = 1 /\ disk'.main = disk.main BY <1>0 DEF MigInv, TablesStand, MigTypeOK, Boots, Disks
<1>3. TablesStand'
    BY <1>0, <1>2 DEF MigInv, TablesStand, Migrated, MigTypeOK, Disks, Boots, OldPlaces, NewPlaces,
       TablePlaces, AfterTables, AfterInvalid, AfterEdits, AfterComments, AfterRows
<1>4. Standing' = Standing BY <1>0, <1>2 DEF Standing
<1>5. QED BY <1>0, <1>1, <1>3, <1>4, TableSteps DEF TablePlaces, MigTypeOK, Boots, Disks

(* The tables before the one at hand stay made. *)
LEMMA EarlierTables ==
    ASSUME MigInv, boot.at \in TablePlaces, NEW i \in 1..boot.table, i < boot.table
    PROVE  disk.main[Tables[i]] # Missing /\ Tables[i] # ThisTable /\ Tables[i] \in TableSet
<1>1. boot.table \in 1..Len(Tables) /\ Len(Tables) \in Nat BY TablesAreThere DEF MigInv, MigTypeOK, Boots
<1>2. i \in 1..Len(Tables) /\ i # boot.table BY <1>1
<1>3. QED BY <1>1, <1>2, TablesAreThere, MigrationAssumption DEF MigInv, TablesStand, ThisTable

LEMMA TableIsBegun == ASSUME MigInv, createTable PROVE MigInv'
<1> USE DEF createTable, Reach
<1>0. /\ MigTypeOK /\ boot.at = "create" /\ ~Migrated /\ ThisTable \in TableSet /\ ThisTable' = ThisTable
      /\ boot'.at \in {"next", "copy"} /\ boot'.table = boot.table /\ boot'.run = boot.run
    BY Tabled DEF MigInv, TablesStand, OldPlaces, NewPlaces, TablePlaces, MigTypeOK, Boots, ThisTable
<1>e. {} # Missing BY MigrationAssumption
<1>1. MigTypeOK' BY <1>0 DEF MigTypeOK, IsStore, Boots, Disks, OldPlaces, NewPlaces, TablePlaces
<1>2. /\ \A t \in TableSet \ {ThisTable} : disk'.main[t] = disk.main[t]
      /\ disk'.main[ThisTable] # Missing /\ disk'.version = disk.version
      /\ IF disk.main[ThisTable] = Missing THEN disk'.main[ThisTable] = {} ELSE disk'.main[ThisTable] = disk.main[ThisTable]
    BY <1>0, <1>e DEF MigTypeOK, Disks
<1>3. TablesStand'
 <2>1. \A i \in 1..boot.table : i < boot.table => disk'.main[Tables[i]] # Missing BY <1>0, <1>2, EarlierTables DEF TablePlaces
 <2>2. \A i \in 1..boot.table : i = boot.table \/ i < boot.table BY <1>0 DEF MigTypeOK, Boots
 <2>3. \A i \in 1..boot.table : disk'.main[Tables[i]] # Missing BY <1>2, <2>1, <2>2 DEF ThisTable
 <2>4. QED BY <1>0, <1>2, <2>3 DEF TablesStand, Migrated, OldPlaces, NewPlaces, TablePlaces, AfterTables, AfterInvalid, AfterEdits, AfterComments, AfterRows
<1>4. ASSUME NEW t \in TableSet, NEW r \in AllRows
      PROVE  Standing'[t] # Missing /\ r \in Standing'[t] <=> Standing[t] # Missing /\ r \in Standing[t]
 <2>1. Standing[t] = disk.main[t] /\ Standing'[t] = disk'.main[t] BY <1>0 DEF Standing
 <2>2. QED BY <1>2, <1>e, <2>1
<1>5. QED BY <1>0, <1>1, <1>2, <1>3, <1>4, TableSteps DEF TablePlaces

LEMMA TableIsCopied == ASSUME MigInv, copyTable PROVE MigInv'
<1> USE DEF copyTable, Reach
<1>0. /\ MigTypeOK /\ boot.at = "copy" /\ ~Migrated /\ ThisTable \in TableSet /\ ThisTable' = ThisTable
      /\ boot'.at = "dropTable" /\ boot'.table = boot.table /\ boot'.run = boot.run
    BY Tabled DEF MigInv, TablesStand, OldPlaces, NewPlaces, TablePlaces, MigTypeOK, Boots, ThisTable
<1>1. MigTypeOK' BY <1>0 DEF MigTypeOK, IsStore, Boots, Disks, OldPlaces, NewPlaces, TablePlaces
<1>2. disk'.main = disk.main /\ disk'.version = disk.version /\ disk'.temp[ThisTable] = disk.main[ThisTable] BY <1>0 DEF MigTypeOK, Disks
<1>3. TablesStand'
    BY <1>0, <1>2 DEF MigInv, TablesStand, Migrated, OldPlaces, NewPlaces, TablePlaces, AfterTables,
       AfterInvalid, AfterEdits, AfterComments, AfterRows
<1>4. Standing' = Standing BY <1>0, <1>2 DEF Standing
<1>5. QED BY <1>0, <1>1, <1>2, <1>3, <1>4, TableSteps DEF TablePlaces

(* Between the DROP and the RENAME the copy stands for the table. *)
LEMMA TableIsDropped == ASSUME MigInv, dropTable PROVE MigInv'
<1> USE DEF dropTable, Reach
<1>0. /\ MigTypeOK /\ boot.at = "dropTable" /\ ~Migrated /\ ThisTable \in TableSet /\ ThisTable' = ThisTable
      /\ boot'.at = "rename" /\ boot'.table = boot.table /\ boot'.run = boot.run
    BY Tabled DEF MigInv, TablesStand, OldPlaces, NewPlaces, TablePlaces, MigTypeOK, Boots, ThisTable
<1>1. MigTypeOK' BY <1>0 DEF MigTypeOK, IsStore, Boots, Disks, OldPlaces, NewPlaces, TablePlaces
<1>2. /\ \A t \in TableSet \ {ThisTable} : disk'.main[t] = disk.main[t]
      /\ disk'.temp = disk.temp /\ disk'.version = disk.version /\ disk'.main[ThisTable] = Missing
    BY <1>0 DEF MigTypeOK, Disks
<1>3. disk.temp[ThisTable] = disk.main[ThisTable] /\ disk.main[ThisTable] # Missing BY <1>0 DEF MigInv, TablesStand
<1>4. TablesStand'
 <2>1. \A i \in 1..boot.table : i < boot.table => disk'.main[Tables[i]] # Missing BY <1>0, <1>2, EarlierTables DEF TablePlaces
 <2>2. QED BY <1>0, <1>2, <1>3, <2>1 DEF TablesStand, Migrated, OldPlaces, NewPlaces, TablePlaces, AfterTables, AfterInvalid, AfterEdits, AfterComments, AfterRows
<1>5. ASSUME NEW t \in TableSet PROVE Standing'[t] = Standing[t]
 <2>1. Standing[t] = disk.main[t] /\ Standing'[t] = IF t = ThisTable THEN disk.temp[t] ELSE disk'.main[t] BY <1>0, <1>2 DEF Standing
 <2>2. QED BY <1>2, <1>3, <2>1
<1>6. QED BY <1>0, <1>1, <1>2, <1>4, <1>5, TableSteps DEF TablePlaces

LEMMA CopyIsRenamed == ASSUME MigInv, renameTable PROVE MigInv'
<1> USE DEF renameTable, Reach
<1>0. /\ MigTypeOK /\ boot.at = "rename" /\ ~Migrated /\ ThisTable \in TableSet /\ ThisTable' = ThisTable
      /\ boot'.at = "next" /\ boot'.table = boot.table /\ boot'.run = boot.run
    BY Tabled DEF MigInv, TablesStand, OldPlaces, NewPlaces, TablePlaces, MigTypeOK, Boots, ThisTable
<1>1. MigTypeOK' BY <1>0 DEF MigTypeOK, IsStore, Boots, Disks, OldPlaces, NewPlaces, TablePlaces
<1>2. /\ \A t \in TableSet \ {ThisTable} : disk'.main[t] = disk.main[t]
      /\ disk'.version = disk.version /\ disk'.main[ThisTable] = disk.temp[ThisTable] /\ disk.temp[ThisTable] # Missing
    BY <1>0 DEF MigInv, TablesStand, MigTypeOK, Disks
<1>3. TablesStand'
 <2>1. \A i \in 1..boot.table : i < boot.table => disk'.main[Tables[i]] # Missing BY <1>0, <1>2, EarlierTables DEF TablePlaces
 <2>2. \A i \in 1..boot.table : i = boot.table \/ i < boot.table BY <1>0 DEF MigTypeOK, Boots
 <2>3. \A i \in 1..boot.table : disk'.main[Tables[i]] # Missing BY <1>2, <2>1, <2>2 DEF ThisTable
 <2>4. QED BY <1>0, <1>2, <2>3 DEF TablesStand, Migrated, OldPlaces, NewPlaces, TablePlaces, AfterTables, AfterInvalid, AfterEdits, AfterComments, AfterRows
<1>4. ASSUME NEW t \in TableSet PROVE Standing'[t] = Standing[t]
 <2>1. Standing'[t] = disk'.main[t] /\ Standing[t] = IF t = ThisTable THEN disk.temp[t] ELSE disk.main[t] BY <1>0 DEF Standing
 <2>2. QED BY <1>2, <2>1
<1>5. QED BY <1>0, <1>1, <1>2, <1>3, <1>4, TableSteps DEF TablePlaces

LEMMA NextTableComes == ASSUME MigInv, nextTable PROVE MigInv'
<1> USE DEF nextTable
<1>0. MigTypeOK /\ boot.at = "next" /\ ~Migrated /\ boot'.run = boot.run /\ boot.table \in 1..Len(Tables) /\ Len(Tables) \in Nat
    BY TablesAreThere DEF MigInv, TablesStand, OldPlaces, NewPlaces, TablePlaces, MigTypeOK, Boots
<1>1. MigTypeOK'
 <2>1. boot' \in Boots
  <3>1. CASE boot.table < Len(Tables)
   <4>1. boot.table + 1 \in 1..Len(Tables) BY <1>0, <3>1
   <4>2. QED BY <3>1, <4>1 DEF MigInv, MigTypeOK, Boots, OldPlaces, NewPlaces, TablePlaces
  <3>2. CASE ~(boot.table < Len(Tables)) BY <3>2 DEF MigInv, MigTypeOK, Boots, OldPlaces, NewPlaces, AfterTables
  <3>3. QED BY <3>1, <3>2
 <2>2. QED BY <2>1 DEF MigInv, MigTypeOK
<1>2. \A i \in 1..boot.table : disk.main[Tables[i]] # Missing
 <2>1. \A i \in 1..boot.table : i < boot.table \/ boot.at = "next" => disk.main[Tables[i]] # Missing
     BY <1>0 DEF MigInv, TablesStand, TablePlaces
 <2>2. QED BY <2>1, <1>0
<1>3. CASE boot.table < Len(Tables)
 <2>1. boot'.at = "create" /\ boot'.table = boot.table + 1 BY <1>0, <1>3 DEF MigTypeOK, Boots
 <2>2. \A i \in 1..boot'.table : i < boot'.table => disk'.main[Tables[i]] # Missing BY <1>0, <1>2, <2>1
 <2>3. TablesStand'
     BY <1>0, <2>1, <2>2 DEF TablesStand, Migrated, OldPlaces, NewPlaces, TablePlaces, AfterTables,
        AfterInvalid, AfterEdits, AfterComments, AfterRows
 <2>4. Standing' = Standing BY <1>0, <2>1 DEF Standing
 <2>5. QED BY <1>0, <1>1, <2>1, <2>3, <2>4, TableSteps DEF TablePlaces
<1>4. CASE ~(boot.table < Len(Tables))
 <2>1. boot'.at = "invalid" /\ boot.table = Len(Tables) BY <1>0, <1>4 DEF MigTypeOK, Boots
 <2>2. \A t \in TableSet : disk'.main[t] # Missing BY <1>2, <2>1 DEF TableSet
 <2>3. TablesStand'
     BY <1>0, <2>1, <2>2 DEF TablesStand, Migrated, OldPlaces, NewPlaces, TablePlaces, AfterTables,
        AfterInvalid, AfterEdits, AfterComments, AfterRows
 <2>4. Held' = Held BY <1>0, <1>1, <2>1, SameTables
 <2>5. RowsStand' /\ RunsStand' BY <1>0, <2>1, <2>4, RowsStayStanding DEF MigInv, RowsStand, Migrated
 <2>6. PurgesStand' BY <1>0, <2>1 DEF PurgesStand, Migrated, AfterInvalid, AfterEdits, AfterComments, AfterRows
 <2>7. QED BY <1>1, <2>3, <2>5, <2>6 DEF MigInv
<1>5. QED BY <1>3, <1>4

----------------------------------------
(* A comment that has to go takes its tree along. *)
LEMMA TreeGoes ==
    ASSUME MigInv, boot.at \in {"invalid", "purging"}, NEW d \in disk.main[Comments], d \notin ValidRows \ Twice,
           boot.at = "invalid" => d \in InvalidRows, purgeTree(d), UNCHANGED <<backups, crashes>>,
           NEW D \in {boot.due, boot.due \ {d}}, boot' = [boot EXCEPT !.due = D]
    PROVE  MigInv'
<1>0. /\ MigTypeOK /\ TablesStand /\ PurgesStand /\ ~Migrated /\ Comments \in TableSet
      /\ \A t \in TableSet : disk.main[t] # Missing
    BY TablesAreThere DEF MigInv, TablesStand, OldPlaces, NewPlaces, AfterTables, AfterInvalid, AfterEdits
<1>1. /\ \A t \in TableSet : disk'.main[t] = {x \in disk.main[t] : d \notin RowsAbove[x]}
      /\ disk'.version = disk.version
    BY <1>0 DEF purgeTree, MigTypeOK, Disks
<1>2. /\ \A t \in TableSet : disk.main[t] \subseteq Rows[t] /\ Rows[t] \subseteq AllRows
      /\ d \in AllRows /\ d \in RowsAbove[d]
    BY <1>0, TablesAreThere, AboveFacts DEF MigTypeOK, IsStore
<1>3. \A t \in TableSet : disk'.main[t] # Missing /\ disk'.main[t] \subseteq disk.main[t] BY <1>1, <1>2, MigrationAssumption
<1>4. boot'.at = boot.at /\ boot'.run = boot.run /\ boot'.due = D /\ boot'.table = boot.table BY <1>0 DEF MigTypeOK, Boots
<1>5. MigTypeOK'
 <2>1. disk' = [disk EXCEPT !.main = [t \in TableSet |-> {x \in @[t] : d \notin RowsAbove[x]}]] BY DEF purgeTree
 <2>2. disk' \in Disks BY <2>1, <1>0, <1>2 DEF MigTypeOK, Disks
 <2>3. IsStore(disk'.main) /\ disk'.temp = disk.temp BY <2>2, <2>1, <1>0, <1>2, <1>3 DEF MigTypeOK, Disks, IsStore
 <2>4. boot' \in Boots BY <1>0 DEF MigTypeOK, Boots
 <2>5. QED BY <2>2, <2>3, <2>4, <1>0 DEF MigTypeOK
<1>6. TablesStand' BY <1>0, <1>1, <1>3, <1>4 DEF TablesStand, Migrated, OldPlaces, NewPlaces, TablePlaces
<1>7. PurgesStand'
 <2>1. boot'.at = "purging" =>
           /\ \A t \in TableSet : disk'.main[t] \cap InvalidRows = {}
           /\ disk'.main[Comments] \cap InvalidRows = {}
     BY <1>0, <1>3, <1>4 DEF PurgesStand, AfterInvalid, AfterEdits
 <2>2. boot'.at = "purging" =>
           /\ boot'.due \cap (ValidRows \ Twice) = {} /\ boot'.due \cap crashes'.threw = {}
           /\ \A r, y \in disk'.main[Comments] : Signature[y] = Signature[r] /\ RowId[y] < RowId[r] => r \in boot'.due
  <3>1. D \subseteq boot.due /\ \A r \in disk'.main[Comments] : r \in boot.due => r \in D BY <1>0, <1>1, <1>2
  <3>2. QED BY <3>1, <1>0, <1>3, <1>4 DEF PurgesStand
 <2>3. QED BY <2>1, <2>2, <1>0, <1>1, <1>4 DEF PurgesStand, Migrated, AfterInvalid, AfterEdits, AfterComments, AfterRows
<1>8. /\ Held = {r \in AllRows : HoldsRow(disk.main, r)} /\ Held' = {r \in AllRows : HoldsRow(disk'.main, r)}
      /\ \A t \in TableSet : disk.main[t] = Held \cap Rows[t]
 <2>1. boot.at # "rename" /\ boot'.at # "rename" BY <1>4
 <2>2. Standing' = [t \in TableSet |-> disk'.main[t]] BY <2>1 DEF Standing
 <2>3. Held' = {r \in AllRows : HoldsRow(disk'.main, r)} BY <2>2 DEF Held, HoldsRow
 <2>4. QED BY <1>0, <2>1, <2>3, HeldAreStored
<1>9. Held' = {x \in Held : d \notin RowsAbove[x]} BY <1>0, <1>1, <1>3, <1>8 DEF HoldsRow
<1>10. KeptRows \cap Held \subseteq Held' BY <1>9, KeptHangsFromKept
<1>11. crashes.cut = {} => Clean(Held')
 <2> SUFFICES ASSUME crashes.cut = {} PROVE Clean(Held') OBVIOUS
 <2>1. Clean(Held) /\ d \in Held BY <1>0, <1>2, <1>8 DEF MigInv, RowsStand
 <2>2. d \in InvalidRows \cup Twice
  <3>1. CASE boot.at = "invalid" BY <3>1
  <3>2. CASE boot.at = "purging"
   <4>1. \A t \in TableSet : disk.main[t] \cap InvalidRows = {} BY <3>2, <1>0 DEF PurgesStand, AfterEdits
   <4>2. Held \cap InvalidRows = {} BY <4>1, <1>8 DEF HoldsRow
   <4>3. d \in ValidRows BY <4>2, <2>1, <1>2 DEF Clean, ValidRows
   <4>4. QED BY <4>3
  <3>3. QED BY <3>1, <3>2
 <2>3. QED BY <2>1, <2>2, <1>9, TreeLeavesClean
<1>12. RowsStand' /\ RunsStand' BY <1>1, <1>4, <1>9, <1>10, <1>11, RowsStayStanding DEF Migrated
<1>13. QED BY <1>5, <1>6, <1>7, <1>12 DEF MigInv

(* A step that leaves the tables alone, after they are rebuilt. *)
LEMMA TablesRest ==
    ASSUME MigInv, boot.at \in AfterTables, boot'.at \in AfterTables, boot.at # "open", MigTypeOK', disk'.main = disk.main,
           UNCHANGED <<backups, crashes>>, boot'.run = boot.run, Migrated => Migrated',
           Migrated' <=> boot'.at \in NewPlaces, PurgesStand'
    PROVE  MigInv'
<1> USE DEF OldPlaces, NewPlaces, TablePlaces, AfterTables, AfterInvalid, AfterEdits, AfterComments, AfterRows
<1>1. Held' = Held BY SameTables DEF MigInv
<1>2. RowsStand' /\ RunsStand' BY <1>1, RowsStayStanding DEF MigInv, RowsStand
<1>3. \A t \in TableSet : disk.main[t] # Missing BY DEF MigInv, TablesStand
<1>4. TablesStand' BY <1>3 DEF TablesStand
<1>5. QED BY <1>2, <1>4 DEF MigInv

LEMMA InvalidCommentsGo == ASSUME MigInv, purgeInvalidComments PROVE MigInv'
<1>0. MigTypeOK /\ boot.at = "invalid" /\ UNCHANGED <<backups, crashes>> /\ ~Migrated
    BY DEF MigInv, purgeInvalidComments, TablesStand, OldPlaces, NewPlaces, AfterTables
<1>1. ASSUME NEW r \in InvalidRows \cap disk.main[Comments], purgeTree(r), UNCHANGED boot PROVE MigInv'
 <2>1. r \notin ValidRows BY AboveFacts DEF ValidRows
 <2>2. boot' = [boot EXCEPT !.due = boot.due] BY <1>0, <1>1 DEF MigTypeOK, Boots
 <2>3. QED BY <1>0, <1>1, <2>1, <2>2, TreeGoes
<1>2. ASSUME InvalidRows \cap disk.main[Comments] = {}, Reach("invalidEdits"), UNCHANGED disk PROVE MigInv'
 <2>1. boot'.at = "invalidEdits" /\ boot'.run = boot.run BY <1>0, <1>2 DEF Reach, MigTypeOK, Boots
 <2>2. MigTypeOK' BY <1>0, <1>2 DEF Reach, MigTypeOK, Boots, OldPlaces, NewPlaces, AfterTables, AfterInvalid
 <2>3. PurgesStand' BY <1>0, <1>2, <2>1 DEF PurgesStand, Migrated, AfterInvalid, AfterEdits, AfterComments, AfterRows
 <2>4. QED BY <1>0, <1>2, <2>1, <2>2, <2>3, TablesRest DEF Migrated, NewPlaces, AfterTables, AfterInvalid
<1>3. QED BY <1>0, <1>1, <1>2 DEF purgeInvalidComments

(* Where no invalid row is left, a row with an older copy beside it is not *)
(* one to keep; and it is a copy, if no table was cut. *)
LEMMA StoredCopies ==
    ASSUME MigInv, boot.at \in AfterEdits \ {"open"}, NEW t \in TableSet, NEW r \in disk.main[t], NEW y \in disk.main[t],
           Signature[y] = Signature[r], RowId[y] < RowId[r]
    PROVE  r \notin ValidRows \ Twice /\ (crashes.cut = {} => r \in Twice)
<1>1. MigTypeOK /\ boot.at # "rename" /\ \A u \in TableSet : disk.main[u] # Missing /\ disk.main[u] \cap InvalidRows = {}
    BY DEF MigInv, TablesStand, PurgesStand, AfterTables, AfterInvalid, AfterEdits, AfterComments, AfterRows
<1>2. r \in Rows[t] /\ y \in Rows[t] /\ r \notin InvalidRows /\ y \notin InvalidRows /\ r \in AllRows
    BY <1>1, TablesAreThere DEF MigTypeOK, IsStore
<1>3. r \in ValidRows => r \in Twice BY <1>2, CopyIsTwice
<1>4. ASSUME crashes.cut = {} PROVE r \in ValidRows
 <2>1. Held = {x \in AllRows : HoldsRow(disk.main, x)} /\ Clean(Held) BY <1>1, <1>4, HeldAreStored DEF MigInv, RowsStand
 <2>2. r \in Held BY <1>1, <1>2, <2>1 DEF HoldsRow
 <2>3. Held \cap InvalidRows = {} BY <1>1, <2>1 DEF HoldsRow
 <2>4. QED BY <1>2, <2>1, <2>2, <2>3 DEF Clean, ValidRows
<1>5. QED BY <1>3, <1>4

(* Rows of the other tables that have to go leave the rows above them. *)
LEMMA OtherRowsGo ==
    ASSUME MigInv, boot.at \in {"invalidEdits", "duplicateRows"}, NEW gone, OtherRowsWithout(gone),
           \A t \in TableSet \ {Comments} : \A x \in gone[t] \cap disk.main[t] :
               x \notin ValidRows \ Twice /\ (crashes.cut = {} => x \in InvalidRows \cup Twice),
           UNCHANGED <<backups, crashes>>, boot' \in Boots, boot'.run = boot.run,
           boot'.at \in AfterTables \ NewPlaces
    PROVE  /\ MigTypeOK' /\ TablesStand' /\ RowsStand' /\ RunsStand' /\ ~Migrated'
           /\ disk'.main[Comments] = disk.main[Comments]
           /\ \A t \in TableSet \ {Comments} : disk'.main[t] = disk.main[t] \ gone[t]
<1> USE DEF OldPlaces, NewPlaces, TablePlaces, AfterTables, AfterInvalid, AfterEdits, AfterComments, AfterRows
<1>0. /\ MigTypeOK /\ ~Migrated /\ Comments \in TableSet /\ \A t \in TableSet : disk.main[t] # Missing
    BY TablesAreThere DEF MigInv, TablesStand
<1>1. disk' = [disk EXCEPT !.main = [t \in TableSet |-> IF t = Comments THEN @[t] ELSE @[t] \ gone[t]]] BY DEF OtherRowsWithout
<1>2. /\ disk'.main[Comments] = disk.main[Comments] /\ disk'.version = disk.version
      /\ \A t \in TableSet \ {Comments} : disk'.main[t] = disk.main[t] \ gone[t]
    BY <1>0, <1>1 DEF MigTypeOK, Disks
<1>3. \A t \in TableSet : disk.main[t] \subseteq Rows[t] /\ Rows[t] \subseteq AllRows BY <1>0, TablesAreThere DEF MigTypeOK, IsStore
<1>4. \A t \in TableSet : disk'.main[t] \subseteq disk.main[t] /\ disk'.main[t] # Missing BY <1>0, <1>2, <1>3, MigrationAssumption
<1>5. MigTypeOK'
 <2>1. disk' \in Disks BY <1>0, <1>1, <1>3 DEF MigTypeOK, Disks
 <2>2. IsStore(disk'.main) /\ disk'.temp = disk.temp BY <2>1, <1>0, <1>1, <1>3, <1>4 DEF MigTypeOK, Disks, IsStore
 <2>3. QED BY <2>1, <2>2, <1>0 DEF MigTypeOK
<1>6. TablesStand' BY <1>0, <1>2, <1>4 DEF TablesStand, Migrated
<1>7. /\ Held = {r \in AllRows : HoldsRow(disk.main, r)} /\ Held' = {r \in AllRows : HoldsRow(disk'.main, r)}
 <2>1. Standing' = [t \in TableSet |-> disk'.main[t]] BY DEF Standing
 <2>2. Held' = {r \in AllRows : HoldsRow(disk'.main, r)} BY <2>1 DEF Held, HoldsRow
 <2>3. QED BY <1>0, <2>2, HeldAreStored
<1> DEFINE E == UNION {gone[t] \cap disk.main[t] : t \in TableSet \ {Comments}}
<1>8. Held' = Held \ E
 <2>1. Held' \subseteq Held BY <1>0, <1>4, <1>7 DEF HoldsRow
 <2>2. ASSUME NEW r \in Held, r \notin E PROVE r \in Held'
  <3>1. PICK t \in TableSet : r \in disk.main[t] BY <2>2, <1>7 DEF HoldsRow
  <3>2. r \in disk'.main[t] BY <2>2, <3>1, <1>2
  <3>3. QED BY <3>1, <3>2, <1>3, <1>4, <1>7 DEF HoldsRow
 <2>3. ASSUME NEW r \in E PROVE r \notin Held'
  <3>1. PICK t \in TableSet \ {Comments} : r \in gone[t] \cap disk.main[t] BY <2>3
  <3>2. \A u \in TableSet : r \in disk'.main[u] => u = t BY <3>1, <1>3, <1>4, TablesAreThere
  <3>3. QED BY <3>1, <3>2, <1>2, <1>7 DEF HoldsRow
 <2>4. QED BY <2>1, <2>2, <2>3
<1>9. \A x \in E : x \notin KeptRows /\ (crashes.cut = {} => x \in InvalidRows \cup Twice) /\ x \notin Rows[Comments]
 <2> SUFFICES ASSUME NEW t \in TableSet \ {Comments}, NEW x \in gone[t] \cap disk.main[t]
              PROVE  x \notin KeptRows /\ (crashes.cut = {} => x \in InvalidRows \cup Twice) /\ x \notin Rows[Comments]
     OBVIOUS
 <2>1. x \in AllRows /\ x \in RowsAbove[x] /\ x \in Rows[t] BY <1>3, AboveFacts
 <2>2. x \notin KeptRows BY <2>1, KeptHangsFromKept
 <2>3. QED BY <2>1, <2>2, <1>0, TablesAreThere
<1>10. crashes.cut = {} => Clean(Held')
 <2> SUFFICES ASSUME crashes.cut = {} PROVE Clean(Held \ E) BY <1>8
 <2>1. E \in SUBSET (InvalidRows \cup Twice) /\ E \cap Rows[Comments] = {} /\ Clean(Held) BY <1>9 DEF MigInv, RowsStand
 <2> HIDE DEF E
 <2>2. QED BY <2>1, RowsLeaveClean
<1>11. Held' \subseteq Held /\ KeptRows \cap Held \subseteq Held' BY <1>8, <1>9
<1>12. RowsStand' /\ RunsStand' BY <1>0, <1>2, <1>10, <1>11, RowsStayStanding DEF Migrated
<1>13. QED BY <1>0, <1>2, <1>5, <1>6, <1>12 DEF Migrated

LEMMA InvalidEditsGo == ASSUME MigInv, purgeInvalidEdits PROVE MigInv'
<1> USE DEF OldPlaces, NewPlaces, TablePlaces, AfterTables, AfterInvalid, AfterEdits, AfterComments, AfterRows
<1> DEFINE gone == [t \in TableSet |-> InvalidRows]
<1>0. /\ MigTypeOK /\ boot.at = "invalidEdits" /\ UNCHANGED <<backups, crashes>> /\ OtherRowsWithout(gone)
      /\ boot' = [boot EXCEPT !.at = "duplicates"]
    BY DEF MigInv, purgeInvalidEdits, Reach
<1>1. boot' \in Boots /\ boot'.at = "duplicates" /\ boot'.run = boot.run BY <1>0 DEF MigTypeOK, Boots
<1>2. \A t \in TableSet \ {Comments} : \A x \in gone[t] \cap disk.main[t] :
          x \notin ValidRows \ Twice /\ (crashes.cut = {} => x \in InvalidRows \cup Twice)
    BY AboveFacts DEF ValidRows
<1>g. \A t \in TableSet : gone[t] = InvalidRows OBVIOUS
<1> HIDE DEF gone
<1>3. /\ MigTypeOK' /\ TablesStand' /\ RowsStand' /\ RunsStand' /\ ~Migrated'
      /\ disk'.main[Comments] = disk.main[Comments]
      /\ \A t \in TableSet \ {Comments} : disk'.main[t] = disk.main[t] \ gone[t]
    BY <1>0, <1>1, <1>2, OtherRowsGo
<1>4. disk.main[Comments] \cap InvalidRows = {} BY <1>0 DEF MigInv, PurgesStand
<1>5. \A t \in TableSet : disk'.main[t] \cap InvalidRows = {} BY <1>3, <1>4, <1>g
<1>6. PurgesStand' BY <1>1, <1>3, <1>4, <1>5 DEF PurgesStand
<1>7. QED BY <1>3, <1>6 DEF MigInv

LEMMA DuplicatesAreListed == ASSUME MigInv, listDuplicates PROVE MigInv'
<1> USE DEF OldPlaces, NewPlaces, TablePlaces, AfterTables, AfterInvalid, AfterEdits, AfterComments, AfterRows
<1>0. /\ MigTypeOK /\ boot.at = "duplicates" /\ UNCHANGED <<disk, backups, crashes>> /\ ~Migrated /\ Comments \in TableSet
      /\ boot' = [boot EXCEPT !.at = "purging", !.due = Duplicates(Comments)]
      /\ disk.main[Comments] # Missing /\ disk.main[Comments] \subseteq Rows[Comments] /\ Rows[Comments] \subseteq AllRows
    BY TablesAreThere DEF MigInv, listDuplicates, TablesStand, MigTypeOK, IsStore
<1>1. boot'.at = "purging" /\ boot'.run = boot.run /\ boot'.due = Duplicates(Comments) BY <1>0 DEF MigTypeOK, Boots
<1>2. Duplicates(Comments) \subseteq Rows[Comments] BY <1>0 DEF Duplicates
<1>3. MigTypeOK' BY <1>0, <1>2 DEF MigTypeOK, Boots
<1>4. \A r \in Duplicates(Comments) : r \notin ValidRows \ Twice BY <1>0, StoredCopies DEF Duplicates, OlderCopies
<1>5. Duplicates(Comments) \cap crashes.threw = {}
 <2>1. Held = {r \in AllRows : HoldsRow(disk.main, r)} BY <1>0, HeldAreStored
 <2>2. Duplicates(Comments) \subseteq Held BY <1>0, <2>1 DEF Duplicates, HoldsRow
 <2>3. QED BY <2>2 DEF MigInv, RunsStand
<1>6. \A r, y \in disk.main[Comments] : Signature[y] = Signature[r] /\ RowId[y] < RowId[r] => r \in Duplicates(Comments)
    BY DEF Duplicates, OlderCopies
<1>7. PurgesStand' BY <1>0, <1>1, <1>4, <1>5, <1>6 DEF MigInv, PurgesStand, Migrated
<1>8. QED BY <1>0, <1>1, <1>3, <1>7, TablesRest DEF Migrated

LEMMA DuplicateGoes == ASSUME MigInv, purgeDuplicate PROVE MigInv'
<1> USE DEF OldPlaces, NewPlaces, TablePlaces, AfterTables, AfterInvalid, AfterEdits, AfterComments, AfterRows
<1>0. /\ MigTypeOK /\ boot.at = "purging" /\ UNCHANGED backups /\ ~Migrated /\ Comments \in TableSet
      /\ boot.due \cap (ValidRows \ Twice) = {} /\ boot.due \cap crashes.threw = {} /\ boot.due \subseteq Rows[Comments]
      /\ Rows[Comments] \subseteq AllRows /\ \A t \in TableSet : disk.main[t] # Missing
    BY TablesAreThere DEF MigInv, purgeDuplicate, TablesStand, PurgesStand, MigTypeOK, Boots
<1>1. ASSUME NEW r \in boot.due, r \in disk.main[Comments], purgeTree(r), boot' = [boot EXCEPT !.due = @ \ {r}],
             UNCHANGED crashes
      PROVE  MigInv'
 <2>1. boot' = [boot EXCEPT !.due = boot.due \ {r}] /\ r \notin ValidRows \ Twice BY <1>0, <1>1 DEF MigTypeOK, Boots
 <2>2. QED BY <1>0, <1>1, <2>1, TreeGoes
<1>2. ASSUME NEW r \in boot.due, r \notin disk.main[Comments], Reach("threw"), UNCHANGED disk,
             crashes' = [crashes EXCEPT !.threw = @ \cup {r}]
      PROVE  MigInv'
 <2>1. /\ boot'.at = "threw" /\ boot'.run = boot.run /\ boot'.table = boot.table /\ crashes'.count = crashes.count
       /\ crashes'.cut = crashes.cut /\ crashes'.threw = crashes.threw \cup {r} /\ r \notin crashes.threw
     BY <1>0, <1>2 DEF Reach, MigTypeOK, Boots, Kills
 <2>2. IsFiniteSet(crashes'.threw) /\ Cardinality(crashes'.threw) = Cardinality(crashes.threw) + 1
       /\ Cardinality(crashes.threw) \in Nat
  <3>1. IsFiniteSet(crashes.threw) BY <1>0 DEF MigTypeOK
  <3>2. IsFiniteSet(crashes.threw \cup {r}) /\ Cardinality(crashes.threw \cup {r}) = Cardinality(crashes.threw) + 1
      BY <2>1, <3>1, FS_AddElement
  <3>3. QED BY <2>1, <3>1, <3>2, FS_CardinalityType
 <2>b. boot' \in Boots BY <1>0, <1>2 DEF Reach, MigTypeOK, Boots
 <2>c. crashes' \in Kills BY <1>0, <1>2 DEF MigTypeOK, Kills
 <2>3. MigTypeOK' BY <1>0, <1>2, <2>2, <2>b, <2>c DEF MigTypeOK
 <2>4. TablesStand' BY <1>0, <1>2, <2>1 DEF TablesStand, Migrated
 <2>5. PurgesStand' BY <1>0, <1>2, <2>1 DEF PurgesStand, Migrated
 <2>6. Held' = Held /\ Held = {x \in AllRows : HoldsRow(disk.main, x)} BY <1>0, <1>2, <2>1, <2>3, SameTables, HeldAreStored
 <2>7. r \notin Held BY <1>0, <1>2, <2>6, StoreHolds DEF MigTypeOK
 <2>8. RowsStand' BY <1>0, <1>2, <2>1, <2>6 DEF MigInv, RowsStand, Migrated
 <2>9. RunsStand' BY <1>0, <2>1, <2>2, <2>6, <2>7 DEF MigInv, RunsStand, MigTypeOK, Boots, Kills
 <2>10. QED BY <2>3, <2>4, <2>5, <2>8, <2>9 DEF MigInv
<1>3. ASSUME boot.due = {}, Reach("duplicateRows"), UNCHANGED <<disk, crashes>> PROVE MigInv'
 <2>1. boot'.at = "duplicateRows" /\ boot'.run = boot.run BY <1>0, <1>3 DEF Reach, MigTypeOK, Boots
 <2>2. MigTypeOK' BY <1>0, <1>3 DEF Reach, MigTypeOK, Boots
 <2>3. PurgesStand' BY <1>0, <1>3, <2>1 DEF MigInv, PurgesStand, NoCopies, Migrated
 <2>4. QED BY <1>0, <1>3, <2>1, <2>2, <2>3, TablesRest DEF Migrated
<1>4. QED BY <1>0, <1>1, <1>2, <1>3 DEF purgeDuplicate

LEMMA DuplicateRowsGo == ASSUME MigInv, purgeDuplicateRows PROVE MigInv'
<1> USE DEF OldPlaces, NewPlaces, TablePlaces, AfterTables, AfterInvalid, AfterEdits, AfterComments, AfterRows
<1> DEFINE gone == [t \in TableSet |-> Duplicates(t)]
<1>0. /\ MigTypeOK /\ boot.at = "duplicateRows" /\ UNCHANGED <<backups, crashes>> /\ OtherRowsWithout(gone)
      /\ boot' = [boot EXCEPT !.at = "backfill"]
    BY DEF MigInv, purgeDuplicateRows, Reach
<1>1. boot' \in Boots /\ boot'.at = "backfill" /\ boot'.run = boot.run BY <1>0 DEF MigTypeOK, Boots
<1>g. \A t \in TableSet : gone[t] = {r \in disk.main[t] : \E y \in disk.main[t] : Signature[y] = Signature[r] /\ RowId[y] < RowId[r]}
    BY DEF Duplicates, OlderCopies
<1> HIDE DEF gone
<1>2. \A t \in TableSet \ {Comments} : \A x \in gone[t] \cap disk.main[t] :
          x \notin ValidRows \ Twice /\ (crashes.cut = {} => x \in InvalidRows \cup Twice)
    BY <1>0, <1>g, StoredCopies
<1>3. /\ MigTypeOK' /\ TablesStand' /\ RowsStand' /\ RunsStand' /\ ~Migrated'
      /\ disk'.main[Comments] = disk.main[Comments]
      /\ \A t \in TableSet \ {Comments} : disk'.main[t] = disk.main[t] \ gone[t]
    BY <1>0, <1>1, <1>2, OtherRowsGo
<1>4. NoCopies(Comments) /\ \A t \in TableSet : disk.main[t] \cap InvalidRows = {} BY <1>0 DEF MigInv, PurgesStand
<1>5. \A t \in TableSet : disk'.main[t] \cap InvalidRows = {} BY <1>3, <1>4
<1>6. NoCopies(Comments)' BY <1>3, <1>4 DEF NoCopies
<1>7. ASSUME NEW t \in TableSet PROVE NoCopies(t)'
 <2>1. CASE t = Comments BY <1>6, <2>1
 <2>2. CASE t # Comments BY <1>3, <1>g, <2>2 DEF NoCopies
 <2>3. QED BY <2>1, <2>2
<1>c. Comments \in TableSet BY TablesAreThere
<1>8. PurgesStand' BY <1>1, <1>3, <1>5, <1>6, <1>7, <1>c DEF PurgesStand
<1>9. QED BY <1>3, <1>8 DEF MigInv

(* The backfills, the version and the internal state. *)
LEMMA VersionIsWritten == ASSUME MigInv, backfill \/ setVersion \/ migrateInternalState PROVE MigInv'
<1> USE DEF Reach, OldPlaces, NewPlaces, TablePlaces, AfterTables, AfterInvalid, AfterEdits, AfterComments,
    AfterRows
<1>0. /\ MigTypeOK /\ boot.at \in AfterRows \ {"open"} /\ UNCHANGED <<backups, crashes>> /\ Comments \in TableSet
      /\ Migrated <=> boot.at \in NewPlaces
      /\ \A t \in TableSet : disk.main[t] # Missing /\ disk.main[t] \subseteq Rows[t] /\ Rows[t] \subseteq AllRows
    BY TablesAreThere DEF backfill, setVersion, migrateInternalState, MigInv, TablesStand, MigTypeOK, IsStore
<1>1. /\ disk'.main = disk.main /\ boot'.run = boot.run /\ boot'.at \in AfterRows \ {"backfill"}
      /\ (Migrated => Migrated') /\ (Migrated' <=> boot'.at \in NewPlaces)
    BY <1>0 DEF backfill, setVersion, migrateInternalState, MigTypeOK, Disks, Boots, Migrated
<1>2. MigTypeOK'
 <2>1. Stored \in SUBSET AllRows BY <1>0 DEF Stored
 <2>2. disk' \in Disks BY <1>0, <2>1 DEF backfill, setVersion, migrateInternalState, MigTypeOK, Disks
 <2>3. disk'.temp = disk.temp BY <1>0 DEF backfill, setVersion, migrateInternalState, MigTypeOK, Disks
 <2>4. boot' \in Boots BY <1>0 DEF backfill, setVersion, migrateInternalState, MigTypeOK, Boots
 <2>5. QED BY <1>0, <1>1, <2>2, <2>3, <2>4 DEF MigTypeOK
<1>3. \A t \in TableSet : disk'.main[t] \subseteq disk'.filled
 <2>1. CASE backfill BY <1>0, <2>1 DEF backfill, Stored, MigTypeOK, Disks
 <2>2. CASE setVersion \/ migrateInternalState
  <3>1. \A t \in TableSet : disk.main[t] \subseteq disk.filled BY <1>0, <2>2 DEF setVersion, migrateInternalState, MigInv, PurgesStand
  <3>2. QED BY <1>0, <2>2, <3>1 DEF setVersion, migrateInternalState, MigTypeOK, Disks
 <2>3. QED BY <2>1, <2>2
<1>4. PurgesStand' BY <1>0, <1>1, <1>3 DEF MigInv, PurgesStand, NoCopies
<1>5. QED BY <1>0, <1>1, <1>2, <1>4, TablesRest

LEMMA MigrationFinishes == ASSUME MigInv, finishMigration PROVE MigInv'
<1> USE DEF Reach, OldPlaces, NewPlaces, TablePlaces, AfterTables, AfterInvalid, AfterEdits, AfterComments,
    AfterRows
<1>0. MigTypeOK /\ boot.at = "vacuum" /\ Migrated /\ UNCHANGED <<disk, crashes>> /\ boot'.at = "open" /\ boot'.run = boot.run
      /\ backups' = {b \in backups : b.run # boot.run} /\ boot' = [boot EXCEPT !.at = "open"]
    BY DEF finishMigration, MigInv, TablesStand, MigTypeOK, Boots
<1>1. MigTypeOK' BY <1>0 DEF MigTypeOK, Boots
<1>2. Held' = Held BY <1>0, <1>1, SameTables
<1>3. TablesStand' BY <1>0 DEF MigInv, TablesStand, Migrated
<1>4. PurgesStand' BY <1>0 DEF MigInv, PurgesStand, NoCopies, Migrated
<1>5. RowsStand'
 <2>1. \A b \in backups : b.run \in Nat /\ boot.run \in Nat BY <1>0 DEF MigTypeOK, Backups, Boots
 <2>2. \A b \in backups : b.run < boot.run => b \in backups' BY <1>0, <2>1
 <2>3. \A r \in KeptRows : r \in Held' \/ \E b \in backups' : b.run < boot'.run /\ HoldsRow(b.main, r)
     BY <1>0, <1>2, <2>2 DEF MigInv, RowsStand
 <2>4. \A b \in backups' : b.run <= boot'.run BY <1>0 DEF MigInv, RowsStand
 <2>5. QED BY <1>0, <1>2, <2>3, <2>4 DEF MigInv, RowsStand, Migrated
<1>6. RunsStand' BY <1>0, <1>2 DEF MigInv, RunsStand
<1>7. QED BY <1>1, <1>3, <1>4, <1>5, <1>6 DEF MigInv

(* A new start: what a copy held that had not taken its table's name is in a *)
(* backup. *)
LEMMA StartComes ==
    ASSUME MigInv, boot.at # "open", boot' = [at |-> "start", table |-> 1, run |-> boot.run + 1, due |-> {}],
           UNCHANGED <<disk, backups>>, MigTypeOK', crashes'.threw = crashes.threw,
           crashes'.count = crashes.count + (IF boot.at = "threw" THEN 0 ELSE 1),
           crashes'.cut = {} => crashes.cut = {} /\ boot.at # "rename"
    PROVE  MigInv'
<1> USE DEF OldPlaces, NewPlaces, TablePlaces, AfterTables, AfterInvalid, AfterEdits, AfterComments, AfterRows
<1>0. /\ MigTypeOK /\ boot.run \in Nat /\ \A b \in backups : b.run \in Nat
      /\ boot'.at = "start" /\ boot'.run = boot.run + 1 /\ boot'.table = 1
    BY DEF MigInv, MigTypeOK, Boots, Backups
<1>1. TablesStand' BY <1>0 DEF MigInv, TablesStand, Migrated
<1>2. PurgesStand' BY <1>0 DEF MigInv, PurgesStand, NoCopies, Migrated
<1>3. boot.at # "rename" => Held' = Held BY <1>0, SameTables
<1>4. Held' \subseteq Held
 <2>1. CASE boot.at = "rename"
  <3>1. disk.main[ThisTable] = Missing BY <2>1 DEF MigInv, TablesStand
  <3>2. \A t \in TableSet : Standing'[t] = disk.main[t] /\ (t # ThisTable => Standing[t] = disk.main[t]) BY <1>0 DEF Standing
  <3>3. \A t \in TableSet : Standing'[t] # Missing => Standing[t] = Standing'[t] BY <3>1, <3>2
  <3>4. QED BY <3>3 DEF Held, HoldsRow
 <2>2. QED BY <2>1, <1>3
<1>5. RowsStand'
 <2>1. crashes'.cut = {} => Clean(Held') BY <1>3 DEF MigInv, RowsStand
 <2>2. \A b \in backups' : b.run < boot'.run BY <1>0 DEF MigInv, RowsStand
 <2>3. ASSUME NEW r \in KeptRows PROVE r \in Held' \/ \E b \in backups' : b.run < boot'.run /\ HoldsRow(b.main, r)
  <3>1. CASE boot.at = "rename"
   <4>1. ~Migrated BY <3>1 DEF MigInv, TablesStand
   <4>2. QED BY <3>1, <4>1, <2>2 DEF MigInv, RowsStand
  <3>2. CASE boot.at # "rename" BY <3>2, <1>3, <2>2 DEF MigInv, RowsStand
  <3>3. QED BY <3>1, <3>2
 <2>4. QED BY <1>0, <2>1, <2>2, <2>3 DEF RowsStand
<1>6. RunsStand'
 <2>1. Cardinality(crashes.threw) \in Nat /\ crashes.count \in Nat BY <1>0, FS_CardinalityType DEF MigTypeOK, Kills
 <2>2. boot.run + (IF boot.at = "threw" THEN 1 ELSE 0) = 1 + crashes.count + Cardinality(crashes.threw) BY DEF MigInv, RunsStand
 <2>3. boot'.run + (IF boot'.at = "threw" THEN 1 ELSE 0) = 1 + crashes'.count + Cardinality(crashes'.threw) BY <1>0, <2>1, <2>2
 <2>4. crashes'.threw \cap Held' = {} BY <1>4 DEF MigInv, RunsStand
 <2>5. QED BY <2>3, <2>4 DEF RunsStand
<1>7. QED BY <1>1, <1>2, <1>5, <1>6 DEF MigInv

LEMMA MigStartsAgain == ASSUME MigInv, startAgain \/ crash PROVE MigInv'
<1> USE DEF startAgain, crash
<1>0. MigTypeOK /\ UNCHANGED <<disk, backups>> /\ boot.at # "open" /\ ThisTable \in TableSet
      /\ boot' = [at |-> "start", table |-> 1, run |-> boot.run + 1, due |-> {}]
    BY Tabled DEF MigInv
<1>1. /\ crashes'.threw = crashes.threw /\ crashes' \in Kills
      /\ crashes'.count = crashes.count + (IF boot.at = "threw" THEN 0 ELSE 1)
      /\ crashes'.cut = {} => crashes.cut = {} /\ boot.at # "rename"
 <2>1. crashes \in Kills /\ crashes.count \in Nat BY <1>0 DEF MigTypeOK, Kills
 <2>2. CASE startAgain BY <2>1, <2>2 DEF Kills
 <2>3. CASE crash
  <3> DEFINE C == crashes.cut \cup (IF boot.at = "rename" THEN {ThisTable} ELSE {})
  <3>1. crashes' = [crashes EXCEPT !.count = crashes.count + 1, !.cut = C] /\ C \in SUBSET TableSet
        /\ (C = {} => crashes.cut = {} /\ boot.at # "rename")
      BY <2>3, <2>1, <1>0 DEF Kills
  <3> HIDE DEF C
  <3>2. crashes' \in Kills
   <4>1. crashes.cut \in SUBSET TableSet /\ crashes.threw \in SUBSET AllRows /\ crashes.count + 1 \in Nat BY <2>1 DEF Kills
   <4>2. crashes' = [count |-> crashes.count + 1, cut |-> C, threw |-> crashes.threw] BY <3>1, <2>1 DEF Kills
   <4>3. QED BY <3>1, <4>1, <4>2 DEF Kills
  <3>3. crashes'.threw = crashes.threw /\ crashes'.count = crashes.count + 1 /\ crashes'.cut = C BY <3>1, <2>1 DEF Kills
  <3>4. QED BY <2>3, <3>1, <3>2, <3>3
 <2>4. QED BY <2>2, <2>3
<1>2. MigTypeOK' BY <1>0, <1>1, TablesAreThere DEF MigTypeOK, Boots
<1>3. QED BY <1>0, <1>1, <1>2, StartComes

----------------------------------------
LEMMA MigStep == MigInv /\ [MigNext]_migVars => MigInv'
<1> SUFFICES ASSUME MigInv, [MigNext]_migVars PROVE MigInv' OBVIOUS
<1>1. CASE UNCHANGED migVars
 <2>1. UNCHANGED disk /\ UNCHANGED backups /\ UNCHANGED boot /\ UNCHANGED crashes BY <1>1 DEF migVars
 <2>2. MigTypeOK' /\ TablesStand' BY <2>1 DEF MigInv, MigTypeOK, IsStore, TablesStand, ThisTable, Migrated
 <2>3. PurgesStand' BY <2>1 DEF MigInv, PurgesStand, NoCopies, Migrated
 <2>4. Held' = Held BY <2>1 DEF Held, Standing, ThisTable, HoldsRow
 <2>5. RowsStand' /\ RunsStand' BY <2>1, <2>4 DEF MigInv, RowsStand, RunsStand, Migrated
 <2>6. QED BY <2>2, <2>3, <2>5 DEF MigInv
<1>2. CASE MigNext
    BY <1>2, BackupTaken, OldTablesGo, TableIsBegun, TableIsCopied, TableIsDropped, CopyIsRenamed,
       NextTableComes,
       InvalidCommentsGo, InvalidEditsGo, DuplicatesAreListed, DuplicateGoes, DuplicateRowsGo, VersionIsWritten,
       MigrationFinishes, MigStartsAgain DEF MigNext
<1>3. QED BY <1>1, <1>2

LEMMA MigInvSafe == MigInv => MigrationIsSafe
<1> SUFFICES ASSUME MigInv PROVE MigrationIsSafe OBVIOUS
<1>1. RowsRecoverable
 <2> SUFFICES ASSUME NEW r \in KeptRows, r \in Held PROVE HoldsRow(disk.main, r) \/ HoldsRow(disk.temp, r)
     BY DEF RowsRecoverable, MigInv, RowsStand
 <2>1. PICK t \in TableSet : Standing[t] # Missing /\ r \in Standing[t] BY DEF Held, HoldsRow
 <2>2. Standing[t] = disk.main[t] \/ Standing[t] = disk.temp[t] BY DEF Standing
 <2>3. QED BY <2>1, <2>2 DEF HoldsRow
<1>2. MigratedIsComplete
 <2> SUFFICES ASSUME Migrated, crashes.cut = {}
              PROVE  \A t \in TableSet : disk.main[t] = Rows[t] \cap KeptRows /\ disk.main[t] \subseteq disk.filled
     BY DEF MigratedIsComplete, Migrated
 <2>1. MigTypeOK /\ boot.at # "rename" /\ \A t \in TableSet : disk.main[t] # Missing
     BY DEF MigInv, TablesStand, OldPlaces, NewPlaces, TablePlaces
 <2>2. \A t \in TableSet : disk.main[t] \cap InvalidRows = {} /\ NoCopies(t) /\ disk.main[t] \subseteq disk.filled
     BY DEF MigInv, PurgesStand
 <2>3. Held = {r \in AllRows : HoldsRow(disk.main, r)} /\ \A t \in TableSet : disk.main[t] = Held \cap Rows[t] BY <2>1, HeldAreStored
 <2>4. Clean(Held) BY DEF MigInv, RowsStand
 <2>5. Held \cap InvalidRows = {} BY <2>2, <2>3 DEF HoldsRow
 <2>6. \A t \in TableSet : \A r, y \in Held \cap Rows[t] : Signature[y] = Signature[r] => ~(RowId[y] < RowId[r]) BY <2>2, <2>3 DEF NoCopies
 <2>7. Held = KeptRows BY <2>4, <2>5, <2>6, SettledIsKept
 <2>8. QED BY <2>2, <2>3, <2>7
<1>3. ThrowsOnce
 <2>1. Cardinality(crashes.threw) \in Nat /\ crashes.count \in Nat /\ boot.run \in Nat
     BY FS_CardinalityType DEF MigInv, MigTypeOK, Kills, Boots
 <2>2. QED BY <2>1 DEF MigInv, RunsStand, ThrowsOnce
<1>4. QED BY <1>1, <1>2, <1>3 DEF MigrationIsSafe

THEOREM MigInvariant == MigSpec => []MigInv
<1>1. QED BY MigStarts, MigStep, PTL DEF MigSpec

(* A migration that is killed between any two statements, or throws, and is *)
(* started again loses no row that it should keep, ends with just these and *)
(* throws over no row twice (createOrMigrateTablesIfNeeded). *)
THEOREM MigrationStaysSafe == MigSpec => []MigrationIsSafe
<1>1. QED BY MigInvariant, MigInvSafe, PTL
========================================
