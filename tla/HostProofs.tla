-------------------- MODULE HostProofs --------------------
(***************************************************************************)
(* What the processes that host communities rely on, for any number of     *)
(* instances, processes and addresses: the helia node they share is up as  *)
(* long as somebody holds it, and an instance that runs a community holds  *)
(* its lock, unless that was lost in one of two ways.  And what a          *)
(* community stores stays consistent, however its handlers interleave.     *)
(***************************************************************************)
EXTENDS HeliaNode, CommunityLifecycle, CommentStore,
        FiniteSetTheorems, WellFoundedInduction, TLAPS

----------------------------------------
(* HeliaNode: the node shared by count, its reads and its topic. *)

Nodes == 0..MaxNodes
NodeStates == {"none", "opening", "starting", "cleaning", "up", "leaving", "unwinding", "stopping", "stopped"}
NodeRecords == [status : NodeStates, count : Nat, blockstore : BOOLEAN, awaited : SUBSET HnCat, joined : BOOLEAN]
UserRecords == [pc : {"idle", "waiting", "creating", "using"}, node : Nodes, left : Nat]
CatRecords == [pc : {"idle", "session", "racing", "backoff", "done"}, node : Nodes]
Publishes == [publish : HnPublish, already : BOOLEAN]
Topics == [handlers : SUBSET HnHandler, publishing : SUBSET Publishes, published : SUBSET HnPublish, deaf : SUBSET HnHandler]

HnTypeOK ==
    /\ hnJob \in HnWorkload /\ hnClient \in Nodes /\ hnCreating \in Nodes
    /\ hnNode \in [HnNode -> NodeRecords] /\ hnUser \in [HnUser -> UserRecords] /\ hnCat \in [HnCat -> CatRecords]
    /\ hnTopic \in Topics

(* The two tables name the node that is up and the one on its way. *)
TablesAreTrue ==
    /\ hnClient = NoNode \/ hnCreating = NoNode
    /\ \A n \in HnNode :
        /\ hnNode[n].status = "up" <=> n = hnClient
        /\ hnNode[n].status \in {"opening", "starting", "cleaning"} <=> n = hnCreating
        /\ hnNode[n].status = "stopped" => ~hnNode[n].blockstore

Using == {u \in HnUser : hnUser[u].pc = "using"}
Joining == {u \in HnUser : hnUser[u].pc \in {"waiting", "creating"}}

(* The node in use knows how many hold it, and one on its way is awaited. *)
UsersAreCounted ==
    /\ \A u \in HnUser :
        /\ hnUser[u].pc = "idle" => hnUser[u].node = NoNode
        /\ u \in Using => hnClient # NoNode /\ hnUser[u].node = hnClient
        /\ u \in Joining => hnCreating # NoNode /\ hnUser[u].node = hnCreating
    /\ hnClient # NoNode => Using # {} /\ hnNode[hnClient].count = Cardinality(Using)
    /\ hnCreating # NoNode => Joining # {}

Reading(c) == hnCat[c].pc \in {"session", "racing", "backoff"}

(* What stop() will wait for: every read of the node it takes down. *)
ReadsAreAwaited ==
    \A c \in HnCat : Reading(c) =>
        LET n == hnCat[c].node IN
        /\ n \in HnNode /\ hnNode[n].status \in {"up", "leaving", "unwinding", "stopping", "stopped"}
        /\ c \in hnJob.cats /\ "unwind" \notin hnJob.faults =>
              ~Stopping(n) /\ (hnNode[n].status = "unwinding" => c \in hnNode[n].awaited)

(* A topic with handlers or publishes is that of the node in use, and joined *)
(* unless a publish left it under them. *)
TopicIsKept ==
    /\ hnTopic.handlers # {} \/ hnTopic.publishing # {} => hnClient # NoNode
    /\ hnTopic.handlers \ hnTopic.deaf # {} => hnNode[hnClient].joined

HnInv == HnTypeOK /\ TablesAreTrue /\ UsersAreCounted /\ ReadsAreAwaited /\ TopicIsKept

----------------------------------------
(* A read of a node that goes from one state to the next. *)
ReadsFollow(x, c) ==
    /\ x.status \in {"up", "leaving", "unwinding", "stopping", "stopped"}
    /\ c \in hnJob.cats /\ "unwind" \notin hnJob.faults =>
          x.status \notin {"stopping", "stopped"} /\ (x.status = "unwinding" => c \in x.awaited)

(* A node that is not in use goes from one state to the next, and everything *)
(* else stays. *)
LEMMA NodeMoves ==
    ASSUME HnInv, NEW n \in HnNode, NEW x \in NodeRecords, n # hnClient, hnNode' = [hnNode EXCEPT ![n] = x],
           UNCHANGED <<hnJob, hnClient, hnCreating, hnUser, hnCat, hnTopic>>,
           x.status # "up", x.status \in {"opening", "starting", "cleaning"} <=> n = hnCreating,
           x.status = "stopped" => ~x.blockstore,
           \A c \in HnCat : Reading(c) /\ hnCat[c].node = n => ReadsFollow(x, c)
    PROVE  HnInv'
<1>1. /\ hnNode \in [HnNode -> NodeRecords] /\ HnTypeOK /\ TablesAreTrue /\ UsersAreCounted /\ ReadsAreAwaited /\ TopicIsKept
      /\ hnClient # NoNode => hnClient \in HnNode
    BY HnAssumption DEF HnInv, HnTypeOK, Nodes, HnNode, NoNode
<1>2. hnNode' \in [HnNode -> NodeRecords] /\ hnNode'[n] = x /\ \A m \in HnNode : m # n => hnNode'[m] = hnNode[m] BY <1>1
<1>3. HnTypeOK' BY <1>1, <1>2 DEF HnTypeOK
<1>4. TablesAreTrue' BY <1>1, <1>2 DEF TablesAreTrue
<1>5. UsersAreCounted' BY <1>1, <1>2 DEF UsersAreCounted, Using, Joining
<1>6. ReadsAreAwaited'
 <2> SUFFICES ASSUME NEW c \in HnCat, Reading(c)
              PROVE  /\ hnCat[c].node \in HnNode /\ ReadsFollow(hnNode'[hnCat[c].node], c)
     BY DEF ReadsAreAwaited, ReadsFollow, Reading, Stopping
 <2>1. hnCat[c].node \in HnNode /\ ReadsFollow(hnNode[hnCat[c].node], c) BY <1>1 DEF ReadsAreAwaited, ReadsFollow, Stopping
 <2>2. QED BY <1>2, <2>1
<1>7. TopicIsKept' BY <1>1, <1>2 DEF TopicIsKept
<1>8. QED BY <1>3, <1>4, <1>5, <1>6, <1>7 DEF HnInv

(* The reads move and the nodes stay. *)
LEMMA CatMoves ==
    ASSUME HnInv, NEW c \in HnCat, NEW x \in CatRecords, hnCat' = [hnCat EXCEPT ![c] = x],
           UNCHANGED <<hnJob, hnClient, hnCreating, hnNode, hnUser, hnTopic>>,
           x.pc \in {"session", "racing", "backoff"} => x.node \in HnNode /\ ReadsFollow(hnNode[x.node], c)
    PROVE  HnInv'
<1>1. HnTypeOK /\ TablesAreTrue /\ UsersAreCounted /\ ReadsAreAwaited /\ TopicIsKept /\ hnCat \in [HnCat -> CatRecords]
    BY DEF HnInv, HnTypeOK
<1>2. hnCat' \in [HnCat -> CatRecords] /\ hnCat'[c] = x /\ \A d \in HnCat : d # c => hnCat'[d] = hnCat[d] BY <1>1
<1>3. HnTypeOK' /\ TablesAreTrue' /\ UsersAreCounted' /\ TopicIsKept'
    BY <1>1, <1>2 DEF HnTypeOK, TablesAreTrue, UsersAreCounted, Using, Joining, TopicIsKept
<1>4. ReadsAreAwaited' BY <1>1, <1>2 DEF ReadsAreAwaited, Reading, ReadsFollow, Stopping
<1>5. QED BY <1>3, <1>4 DEF HnInv

(* Handlers and publishes come and go while the node is up. *)
LEMMA TopicMoves ==
    ASSUME HnInv, NEW t \in Topics, NEW b \in BOOLEAN,
           Up(hnClient), hnTopic' = t, hnNode' = [hnNode EXCEPT ![hnClient].joined = b],
           UNCHANGED <<hnJob, hnClient, hnCreating, hnUser, hnCat>>,
           t.handlers \ t.deaf # {} => b
    PROVE  HnInv'
<1>1. /\ hnNode \in [HnNode -> NodeRecords] /\ HnTypeOK /\ TablesAreTrue /\ UsersAreCounted /\ ReadsAreAwaited /\ TopicIsKept
      /\ hnClient # NoNode /\ hnClient \in HnNode
    BY HnAssumption DEF HnInv, HnTypeOK, Nodes, HnNode, NoNode, Up
<1> DEFINE x == [hnNode[hnClient] EXCEPT !.joined = b]
<1>2. x \in NodeRecords /\ x.joined = b /\ x.status = hnNode[hnClient].status /\ x.count = hnNode[hnClient].count
      /\ x.blockstore = hnNode[hnClient].blockstore /\ x.awaited = hnNode[hnClient].awaited
    BY <1>1 DEF NodeRecords
<1>3. hnNode' = [hnNode EXCEPT ![hnClient] = x] OBVIOUS
<1> HIDE DEF x
<1>4. hnNode' \in [HnNode -> NodeRecords] /\ hnNode'[hnClient] = x /\ \A m \in HnNode : m # hnClient => hnNode'[m] = hnNode[m]
    BY <1>1, <1>2, <1>3
<1>5. \A m \in HnNode : /\ hnNode'[m].status = hnNode[m].status /\ hnNode'[m].count = hnNode[m].count
                        /\ hnNode'[m].blockstore = hnNode[m].blockstore /\ hnNode'[m].awaited = hnNode[m].awaited
    BY <1>2, <1>4
<1>6. HnTypeOK' BY <1>1, <1>4 DEF HnTypeOK
<1>7. TablesAreTrue' /\ UsersAreCounted' BY <1>1, <1>5 DEF TablesAreTrue, UsersAreCounted, Using, Joining
<1>8. ReadsAreAwaited' BY <1>1, <1>5 DEF ReadsAreAwaited, Reading, Stopping
<1>9. TopicIsKept' BY <1>1, <1>2, <1>4 DEF TopicIsKept
<1>10. QED BY <1>6, <1>7, <1>8, <1>9 DEF HnInv

(* A set of naturals has a least member: the node that is made next. *)
LEMMA LeastOfNaturals ==
    ASSUME NEW S \in SUBSET Nat, S # {}
    PROVE  \E m \in S : \A k \in S : m <= k
<1>1. \E m \in S : \A k \in S : ~(<<k, m>> \in OpToRel(<, Nat)) BY NatLessThanWellFounded, WFMin
<1>2. PICK m \in S : \A k \in S : ~(<<k, m>> \in OpToRel(<, Nat)) BY <1>1
<1>3. ASSUME NEW k \in S PROVE m <= k
 <2>1. <<k, m>> \in Nat \X Nat /\ <<k, m>>[1] = k /\ <<k, m>>[2] = m OBVIOUS
 <2>2. ~(k < m) BY <1>2, <1>3, <2>1 DEF OpToRel
 <2>3. QED BY <2>2, <1>3
<1>4. QED BY <1>2, <1>3

(* The users that hold the node are finitely many. *)
LEMMA UsersAreFinite ==
    IsFiniteSet(Using) /\ Cardinality(Using) \in Nat
<1>1. IsFiniteSet(Using) BY FS_Subset, HnAssumption DEF Using
<1>2. QED BY <1>1, FS_CardinalityType

(* Nobody's node and the nodes there are. *)
LEMMA NodesThere ==
    /\ NoNode \in Nodes /\ NoNode \notin HnNode
    /\ \A n \in HnNode : n \in Nodes /\ n # NoNode
BY HnAssumption DEF Nodes, HnNode, NoNode

(* A user who lets go has no node. *)
LEMMA UserLetsGo ==
    ASSUME NEW r \in UserRecords
    PROVE  LET v == [r EXCEPT !.pc = "idle", !.node = NoNode] IN
           v \in UserRecords /\ v.pc = "idle" /\ v.node = NoNode
<1>1. NoNode \in Nodes BY NodesThere
<1>2. QED BY <1>1 DEF UserRecords

(* The nodes that are read stay as they are, or begin to leave. *)
ReadersUndisturbed ==
    \A n \in HnNode : hnNode[n].status \in {"up", "leaving", "unwinding", "stopping", "stopped"} =>
        /\ hnNode'[n].awaited = hnNode[n].awaited
        /\ hnNode'[n].status = hnNode[n].status \/ (hnNode[n].status = "up" /\ hnNode'[n].status = "leaving")

(* Then stop() still waits for every read. *)
LEMMA ReadsStay ==
    ASSUME ReadsAreAwaited, hnJob' = hnJob, hnCat' = hnCat,
           ReadersUndisturbed
    PROVE  ReadsAreAwaited'
BY DEF ReadersUndisturbed, ReadsAreAwaited, Reading, Stopping

(* Another user takes the node in use. *)
LEMMA UseExisting == ASSUME HnInv, NEW u \in HnUser, useExisting(u) PROVE HnInv'
<1>1. /\ hnNode \in [HnNode -> NodeRecords] /\ hnUser \in [HnUser -> UserRecords]
      /\ HnTypeOK /\ TablesAreTrue /\ UsersAreCounted /\ ReadsAreAwaited /\ TopicIsKept
      /\ hnClient # NoNode => hnClient \in HnNode
      /\ hnCreating # NoNode => hnCreating \in HnNode
      /\ hnClient \in HnNode /\ hnClient # NoNode /\ hnCreating = NoNode
    BY HnAssumption DEF HnInv, HnTypeOK, Nodes, HnNode, NoNode, useExisting, TablesAreTrue
<1>2. Cardinality(Using) \in Nat /\ IsFiniteSet(Using) BY UsersAreFinite
<1> DEFINE x == [hnNode[hnClient] EXCEPT !.count = @ + 1]
           v == [pc |-> "using", node |-> hnClient, left |-> hnUser[u].left - 1]
<1>3. x \in NodeRecords /\ x.status = hnNode[hnClient].status /\ x.count = hnNode[hnClient].count + 1
      /\ x.blockstore = hnNode[hnClient].blockstore /\ x.awaited = hnNode[hnClient].awaited /\ x.joined = hnNode[hnClient].joined
    BY <1>1 DEF NodeRecords
<1>4. v \in UserRecords
 <2>1. hnUser[u].left \in Nat /\ hnUser[u].left > 0 BY <1>1 DEF useExisting, UserRecords
 <2>2. hnClient \in Nodes BY <1>1 DEF HnTypeOK
 <2>3. QED BY <2>1, <2>2 DEF UserRecords
<1>5. hnNode' = [hnNode EXCEPT ![hnClient] = x] /\ hnUser' = [hnUser EXCEPT ![u] = v] BY DEF useExisting
<1>6. v.pc = "using" /\ v.node = hnClient OBVIOUS
<1> HIDE DEF x, v
<1>7. /\ hnNode' \in [HnNode -> NodeRecords] /\ hnNode'[hnClient] = x /\ \A m \in HnNode : m # hnClient => hnNode'[m] = hnNode[m]
      /\ hnUser' \in [HnUser -> UserRecords] /\ hnUser'[u] = v /\ \A w \in HnUser : w # u => hnUser'[w] = hnUser[w]
      /\ UNCHANGED <<hnJob, hnClient, hnCreating, hnCat, hnTopic>>
    BY <1>1, <1>3, <1>4, <1>5 DEF useExisting
<1>8. HnTypeOK' BY <1>1, <1>7 DEF HnTypeOK
<1>9. TablesAreTrue' BY <1>1, <1>3, <1>7 DEF TablesAreTrue
<1>10. UsersAreCounted'
 <2>1. u \notin Using /\ Using' = Using \cup {u} /\ Joining' = {} BY <1>1, <1>6, <1>7 DEF Using, Joining, useExisting, UsersAreCounted
 <2>2. Cardinality(Using') = Cardinality(Using) + 1 BY <1>2, <2>1, FS_AddElement
 <2>3. hnNode'[hnClient].count = Cardinality(Using') BY <1>1, <1>3, <1>7, <2>2 DEF UsersAreCounted
 <2>4. QED BY <1>1, <1>6, <1>7, <2>1, <2>3 DEF UsersAreCounted, Using, Joining
<1>11. ReadsAreAwaited'
 <2>1. ReadersUndisturbed BY <1>1, <1>3, <1>7 DEF ReadersUndisturbed
 <2>2. ReadsAreAwaited /\ hnJob' = hnJob /\ hnCat' = hnCat BY <1>1, <1>7
 <2>3. QED BY <2>1, <2>2, ReadsStay
<1>12. TopicIsKept' BY <1>1, <1>3, <1>7 DEF TopicIsKept
<1>13. QED BY <1>8, <1>9, <1>10, <1>11, <1>12 DEF HnInv

(* Another user waits for the node on its way. *)
LEMMA AwaitCreation == ASSUME HnInv, NEW u \in HnUser, awaitCreation(u) PROVE HnInv'
<1>1. /\ hnNode \in [HnNode -> NodeRecords] /\ hnUser \in [HnUser -> UserRecords]
      /\ HnTypeOK /\ TablesAreTrue /\ UsersAreCounted /\ ReadsAreAwaited /\ TopicIsKept
      /\ hnClient # NoNode => hnClient \in HnNode
      /\ hnCreating # NoNode => hnCreating \in HnNode
      /\ hnCreating # NoNode /\ hnClient = NoNode
    BY HnAssumption DEF HnInv, HnTypeOK, Nodes, HnNode, NoNode, awaitCreation
<1> DEFINE v == [pc |-> "waiting", node |-> hnCreating, left |-> hnUser[u].left - 1]
<1>2. v \in UserRecords
 <2>1. hnUser[u].left \in Nat /\ hnUser[u].left > 0 BY <1>1 DEF awaitCreation, UserRecords
 <2>2. hnCreating \in Nodes BY <1>1 DEF HnTypeOK
 <2>3. QED BY <2>1, <2>2 DEF UserRecords
<1>3. hnUser' = [hnUser EXCEPT ![u] = v] /\ v.pc = "waiting" /\ v.node = hnCreating BY DEF awaitCreation
<1> HIDE DEF v
<1>4. /\ hnUser' \in [HnUser -> UserRecords] /\ hnUser'[u] = v /\ \A w \in HnUser : w # u => hnUser'[w] = hnUser[w]
      /\ UNCHANGED <<hnJob, hnClient, hnCreating, hnNode, hnCat, hnTopic>>
    BY <1>1, <1>2, <1>3 DEF awaitCreation
<1>5. HnTypeOK' /\ TablesAreTrue' /\ ReadsAreAwaited' /\ TopicIsKept'
    BY <1>1, <1>4 DEF HnTypeOK, TablesAreTrue, ReadsAreAwaited, Reading, Stopping, TopicIsKept
<1>6. UsersAreCounted' BY <1>1, <1>3, <1>4 DEF UsersAreCounted, Using, Joining
<1>7. QED BY <1>5, <1>6 DEF HnInv

(* The first user begins the creation of a node that was never used. *)
LEMMA BeginCreation == ASSUME HnInv, NEW u \in HnUser, beginCreation(u) PROVE HnInv'
<1> DEFINE n == Min(UnusedNodes)
           x == [Fresh EXCEPT !.status = "opening"]
           v == [pc |-> "creating", node |-> n, left |-> hnUser[u].left - 1]
<1>1. /\ hnNode \in [HnNode -> NodeRecords] /\ hnUser \in [HnUser -> UserRecords]
      /\ HnTypeOK /\ TablesAreTrue /\ UsersAreCounted /\ ReadsAreAwaited /\ TopicIsKept
      /\ hnClient # NoNode => hnClient \in HnNode
      /\ hnCreating # NoNode => hnCreating \in HnNode
      /\ hnCreating = NoNode /\ hnClient = NoNode
    BY HnAssumption DEF HnInv, HnTypeOK, Nodes, HnNode, NoNode, beginCreation
<1>2. n \in HnNode /\ n # NoNode /\ n \in Nodes /\ hnNode[n].status = "none"
 <2>1. UnusedNodes \in SUBSET Nat /\ UnusedNodes # {} BY HnAssumption DEF beginCreation, UnusedNodes, HnNode
 <2>2. PICK m \in UnusedNodes : \A k \in UnusedNodes : m <= k BY <2>1, LeastOfNaturals
 <2>3. n \in UnusedNodes BY <2>2 DEF Min
 <2>4. QED BY <2>3, HnAssumption DEF UnusedNodes, HnNode, Nodes, NoNode
<1>3. hnNode' = [hnNode EXCEPT ![n] = x] /\ hnUser' = [hnUser EXCEPT ![u] = v] /\ hnCreating' = n
      /\ UNCHANGED <<hnJob, hnClient, hnCat, hnTopic>>
    BY DEF beginCreation
<1>4. x \in NodeRecords /\ x.status = "opening" BY DEF NodeRecords, Fresh, NodeStates
<1> HIDE DEF n
<1>5. v \in UserRecords /\ v.pc = "creating" /\ v.node = n
 <2>1. hnUser[u].left \in Nat /\ hnUser[u].left > 0 BY <1>1 DEF beginCreation, UserRecords
 <2>2. QED BY <2>1, <1>2 DEF UserRecords
<1> HIDE DEF x, v
<1>6. /\ hnNode' \in [HnNode -> NodeRecords] /\ hnNode'[n] = x /\ \A m \in HnNode : m # n => hnNode'[m] = hnNode[m]
      /\ hnUser' \in [HnUser -> UserRecords] /\ hnUser'[u] = v /\ \A w \in HnUser : w # u => hnUser'[w] = hnUser[w]
      /\ UNCHANGED <<hnJob, hnClient, hnCat, hnTopic>>
    BY <1>1, <1>2, <1>3, <1>4, <1>5
<1>7. HnTypeOK' BY <1>1, <1>2, <1>3, <1>6 DEF HnTypeOK
<1>8. TablesAreTrue' BY <1>1, <1>2, <1>3, <1>4, <1>6 DEF TablesAreTrue
<1>9. UsersAreCounted' BY <1>1, <1>2, <1>3, <1>5, <1>6 DEF UsersAreCounted, Using, Joining
<1>10. ReadsAreAwaited'
 <2>1. ReadersUndisturbed BY <1>1, <1>2, <1>6 DEF ReadersUndisturbed
 <2>2. ReadsAreAwaited /\ hnJob' = hnJob /\ hnCat' = hnCat BY <1>1, <1>6
 <2>3. QED BY <2>1, <2>2, ReadsStay
<1>11. TopicIsKept' BY <1>1, <1>6 DEF TopicIsKept
<1>12. QED BY <1>7, <1>8, <1>9, <1>10, <1>11 DEF HnInv

(* The node is up, and everybody who waited for it holds it. *)
LEMMA StartNode == ASSUME HnInv, NEW n \in HnNode, startNode(n) PROVE HnInv'
<1>1. /\ hnNode \in [HnNode -> NodeRecords] /\ hnUser \in [HnUser -> UserRecords]
      /\ HnTypeOK /\ TablesAreTrue /\ UsersAreCounted /\ ReadsAreAwaited /\ TopicIsKept
    BY DEF HnInv, HnTypeOK
<1>2. n = hnCreating /\ n # NoNode /\ hnClient = NoNode /\ n \in Nodes /\ hnNode[n].status = "starting"
 <2>1. hnNode[n].status = "starting" BY DEF startNode
 <2>2. QED BY <1>1, <2>1, NodesThere DEF TablesAreTrue
<1>3. Waiting(n) = Joining /\ Joining # {} /\ Using = {} /\ CountOf(n) \in Nat
 <2>1. Waiting(n) = Joining /\ Joining # {} /\ Using = {} BY <1>1, <1>2 DEF UsersAreCounted, Waiting, Joining, Using
 <2>2. IsFiniteSet(Waiting(n)) BY FS_Subset, HnAssumption DEF Waiting
 <2>3. QED BY <2>1, <2>2, FS_CardinalityType DEF CountOf
<1> DEFINE x == [hnNode[n] EXCEPT !.status = "up", !.count = CountOf(n)]
           V(u) == IF u \in Joining THEN [hnUser[u] EXCEPT !.pc = "using"] ELSE hnUser[u]
<1>4. x \in NodeRecords /\ x.status = "up" /\ x.count = Cardinality(Joining) /\ x.blockstore = hnNode[n].blockstore
    BY <1>1, <1>3 DEF NodeRecords, NodeStates, CountOf
<1>5. ASSUME NEW u \in HnUser
      PROVE  V(u) \in UserRecords /\ V(u).node = hnUser[u].node /\ V(u).pc = IF u \in Joining THEN "using" ELSE hnUser[u].pc
    BY <1>1 DEF UserRecords
<1>6. hnNode' = [hnNode EXCEPT ![n] = x] /\ hnUser' = [u \in HnUser |-> V(u)] BY <1>3 DEF startNode
<1> HIDE DEF x, V
<1>7. /\ hnUser' \in [HnUser -> UserRecords]
      /\ \A u \in HnUser : hnUser'[u].node = hnUser[u].node /\ hnUser'[u].pc = IF u \in Joining THEN "using" ELSE hnUser[u].pc
    BY <1>5, <1>6
<1>8. /\ hnNode' \in [HnNode -> NodeRecords] /\ hnNode'[n] = x /\ \A m \in HnNode : m # n => hnNode'[m] = hnNode[m]
      /\ hnClient' = n /\ hnCreating' = NoNode /\ hnJob' = hnJob /\ hnCat' = hnCat /\ hnTopic' = hnTopic
    BY <1>1, <1>4, <1>6 DEF startNode
<1>9. HnTypeOK' BY <1>1, <1>2, <1>7, <1>8 DEF HnTypeOK, Nodes, NoNode
<1>10. TablesAreTrue' BY <1>1, <1>2, <1>4, <1>8 DEF TablesAreTrue, HnNode, NoNode
<1>11. Using' = Joining /\ Joining' = {} BY <1>1, <1>3, <1>7 DEF Using, Joining
<1>12. UsersAreCounted'
 <2>1. hnNode'[hnClient'].count = Cardinality(Using') /\ Using' # {} BY <1>3, <1>4, <1>8, <1>11
 <2>2. \A u \in Joining : hnUser[u].node = n BY <1>1, <1>2 DEF UsersAreCounted, Joining
 <2>3. QED BY <1>1, <1>2, <1>7, <1>8, <1>11, <2>1, <2>2 DEF UsersAreCounted, Using, Joining
<1>13. ReadsAreAwaited'
 <2>1. ReadersUndisturbed BY <1>1, <1>2, <1>4, <1>6, <1>8 DEF ReadersUndisturbed
 <2>2. ReadsAreAwaited /\ hnJob' = hnJob /\ hnCat' = hnCat BY <1>1, <1>8
 <2>3. QED BY <2>1, <2>2, ReadsStay
<1>14. TopicIsKept' BY <1>1, <1>2, <1>8 DEF TopicIsKept
<1>15. QED BY <1>9, <1>10, <1>12, <1>13, <1>14 DEF HnInv

(* Everybody who waited is told that there is no node. *)
LEMMA CreationFails == ASSUME HnInv, NEW n \in HnNode, creationFails(n) PROVE HnInv'
<1>1. /\ hnNode \in [HnNode -> NodeRecords] /\ hnUser \in [HnUser -> UserRecords]
      /\ HnTypeOK /\ TablesAreTrue /\ UsersAreCounted /\ ReadsAreAwaited /\ TopicIsKept
    BY DEF HnInv, HnTypeOK
<1>2. n = hnCreating /\ n # NoNode /\ hnClient = NoNode /\ n \in Nodes /\ hnNode[n].status = "cleaning"
 <2>1. hnNode[n].status = "cleaning" BY DEF creationFails
 <2>2. QED BY <1>1, <2>1, NodesThere DEF TablesAreTrue
<1>3. Waiting(n) = Joining /\ Using = {} BY <1>1, <1>2 DEF UsersAreCounted, Waiting, Joining, Using
<1> DEFINE x == Released(hnNode[n])
           V(u) == IF u \in Joining THEN [hnUser[u] EXCEPT !.pc = "idle", !.node = NoNode] ELSE hnUser[u]
<1>4. x \in NodeRecords /\ x.status = "stopped" /\ x.blockstore = FALSE BY <1>1 DEF NodeRecords, NodeStates, Released
<1>5. ASSUME NEW u \in HnUser
      PROVE  V(u) \in UserRecords /\ V(u).pc = (IF u \in Joining THEN "idle" ELSE hnUser[u].pc)
             /\ V(u).node = IF u \in Joining THEN NoNode ELSE hnUser[u].node
    BY <1>1, UserLetsGo
<1>6. hnNode' = [hnNode EXCEPT ![n] = x] /\ hnUser' = [u \in HnUser |-> V(u)] BY <1>3 DEF creationFails
<1> HIDE DEF x, V
<1>7. /\ hnUser' \in [HnUser -> UserRecords]
      /\ \A u \in HnUser : /\ hnUser'[u].pc = (IF u \in Joining THEN "idle" ELSE hnUser[u].pc)
                            /\ hnUser'[u].node = IF u \in Joining THEN NoNode ELSE hnUser[u].node
    BY <1>5, <1>6
<1>8. /\ hnNode' \in [HnNode -> NodeRecords] /\ hnNode'[n] = x /\ \A m \in HnNode : m # n => hnNode'[m] = hnNode[m]
      /\ hnClient' = hnClient /\ hnCreating' = NoNode /\ hnJob' = hnJob /\ hnCat' = hnCat /\ hnTopic' = hnTopic
    BY <1>1, <1>4, <1>6 DEF creationFails
<1>9. HnTypeOK' BY <1>1, <1>2, <1>7, <1>8 DEF HnTypeOK, Nodes, NoNode
<1>10. TablesAreTrue' BY <1>1, <1>2, <1>4, <1>8 DEF TablesAreTrue, HnNode, NoNode
<1>11. Using' = {} /\ Joining' = {} BY <1>1, <1>3, <1>7 DEF Using, Joining
<1>12. UsersAreCounted' BY <1>1, <1>2, <1>3, <1>7, <1>8, <1>11 DEF UsersAreCounted, Using, Joining
<1>13. ReadsAreAwaited'
 <2>1. ReadersUndisturbed BY <1>1, <1>2, <1>4, <1>6, <1>8 DEF ReadersUndisturbed
 <2>2. ReadsAreAwaited /\ hnJob' = hnJob /\ hnCat' = hnCat BY <1>1, <1>8
 <2>3. QED BY <2>1, <2>2, ReadsStay
<1>14. TopicIsKept' BY <1>1, <1>2, <1>8 DEF TopicIsKept
<1>15. QED BY <1>9, <1>10, <1>12, <1>13, <1>14 DEF HnInv

(* A user lets go, and the last one takes the node out of the table. *)
LEMMA StopNode ==
    ASSUME HnInv, NEW u \in HnUser, stopNode(u), hnTopic.handlers = {}, hnTopic.publishing = {}
    PROVE  HnInv'
<1> DEFINE n == hnClient
<1>1. /\ hnNode \in [HnNode -> NodeRecords] /\ hnUser \in [HnUser -> UserRecords]
      /\ HnTypeOK /\ TablesAreTrue /\ UsersAreCounted /\ ReadsAreAwaited /\ TopicIsKept
    BY DEF HnInv, HnTypeOK
<1>2. u \in Using /\ n # NoNode /\ n \in HnNode /\ hnNode[n].status = "up" /\ hnCreating = NoNode
 <2>1. u \in Using /\ n # NoNode BY <1>1 DEF stopNode, Using, UsersAreCounted
 <2>2. n \in HnNode BY <1>1, <2>1, HnAssumption DEF HnTypeOK, Nodes, HnNode, NoNode
 <2>3. QED BY <1>1, <2>1, <2>2 DEF TablesAreTrue
<1>3. hnNode[n].count = Cardinality(Using) /\ IsFiniteSet(Using) /\ Cardinality(Using) \in Nat \ {0}
 <2>1. IsFiniteSet(Using) /\ Cardinality(Using) \in Nat BY UsersAreFinite
 <2>2. Cardinality(Using) # 0 BY <1>2, <2>1, FS_EmptySet
 <2>3. QED BY <1>1, <1>2, <2>1, <2>2 DEF UsersAreCounted
<1> DEFINE s == IF hnNode[n].count = 1 THEN "leaving" ELSE hnNode[n].status
           x == [hnNode[n] EXCEPT !.count = @ - 1, !.status = s]
           v == [hnUser[u] EXCEPT !.pc = "idle", !.node = NoNode]
<1>4. x \in NodeRecords /\ x.status = s /\ x.count = hnNode[n].count - 1 /\ x.blockstore = hnNode[n].blockstore
      /\ x.awaited = hnNode[n].awaited /\ x.joined = hnNode[n].joined
 <2>1. s \in NodeStates /\ hnNode[n].count - 1 \in Nat /\ hnNode[n] \in NodeRecords BY <1>1, <1>2, <1>3 DEF NodeRecords, NodeStates
 <2> HIDE DEF s
 <2>2. QED BY <2>1 DEF NodeRecords
<1>5. v \in UserRecords /\ v.pc = "idle" /\ v.node = NoNode BY <1>1, UserLetsGo
<1>6. /\ hnNode' = [hnNode EXCEPT ![n] = x] /\ hnUser' = [hnUser EXCEPT ![u] = v]
      /\ hnClient' = (IF hnNode[n].count = 1 THEN NoNode ELSE n)
      /\ hnCreating' = hnCreating /\ hnJob' = hnJob /\ hnCat' = hnCat /\ hnTopic' = hnTopic
    BY <1>2, <1>3 DEF stopNode
<1>7. s = IF Cardinality(Using) = 1 THEN "leaving" ELSE "up" BY <1>2, <1>3
<1> HIDE DEF x, v, s
<1>8. /\ hnNode' \in [HnNode -> NodeRecords] /\ hnNode'[n] = x /\ \A m \in HnNode : m # n => hnNode'[m] = hnNode[m]
      /\ hnUser' \in [HnUser -> UserRecords] /\ hnUser'[u] = v /\ \A w \in HnUser : w # u => hnUser'[w] = hnUser[w]
      /\ hnJob' = hnJob /\ hnCat' = hnCat
    BY <1>1, <1>2, <1>4, <1>5, <1>6
<1>9. HnTypeOK'
 <2>1. hnClient' \in Nodes BY <1>2, <1>6, NodesThere
 <2>2. QED BY <1>1, <1>6, <1>8, <2>1 DEF HnTypeOK
<1>10. TablesAreTrue' BY <1>1, <1>2, <1>3, <1>4, <1>6, <1>7, <1>8 DEF TablesAreTrue, HnNode, NoNode
<1>11. Using' = Using \ {u} /\ Joining' = {} /\ Cardinality(Using') = Cardinality(Using) - 1
 <2>1. Using' = Using \ {u} /\ Joining' = {} BY <1>1, <1>2, <1>5, <1>8 DEF Using, Joining, UsersAreCounted
 <2>2. QED BY <1>2, <1>3, <2>1, FS_RemoveElement
<1>12. UsersAreCounted'
 <2>1. CASE Cardinality(Using) = 1
  <3>1. Using' = {}
   <4>1. IsFiniteSet(Using') /\ Cardinality(Using') = 0 BY <1>3, <1>11, <2>1, FS_RemoveElement
   <4>2. QED BY <4>1, FS_EmptySet
  <3>2. QED BY <1>1, <1>2, <1>3, <1>5, <1>6, <1>8, <1>11, <2>1, <3>1 DEF UsersAreCounted, Using, Joining
 <2>2. CASE Cardinality(Using) # 1
  <3>1. Using' # {}
   <4>1. Cardinality(Using') # 0 BY <1>3, <1>11, <2>2
   <4>2. QED BY <4>1, FS_EmptySet
  <3>2. hnClient' = n /\ hnNode'[n].count = Cardinality(Using') BY <1>3, <1>4, <1>6, <1>8, <1>11, <2>2
  <3>3. QED BY <1>1, <1>2, <1>5, <1>6, <1>8, <1>11, <2>2, <3>1, <3>2 DEF UsersAreCounted, Using, Joining
 <2>3. QED BY <2>1, <2>2
<1>13. ReadsAreAwaited'
 <2>1. ReadersUndisturbed BY <1>1, <1>2, <1>4, <1>7, <1>8 DEF ReadersUndisturbed
 <2>2. ReadsAreAwaited /\ hnJob' = hnJob /\ hnCat' = hnCat BY <1>1, <1>8
 <2>3. QED BY <2>1, <2>2, ReadsStay
<1>14. TopicIsKept' BY <1>6 DEF TopicIsKept
<1>15. QED BY <1>9, <1>10, <1>12, <1>13, <1>14 DEF HnInv

(* Every step keeps the invariant. *)
LEMMA HnStep == HnInv /\ [HnNext]_hnVars => HnInv'
<1> SUFFICES ASSUME HnInv, [HnNext]_hnVars PROVE HnInv' OBVIOUS
<1>1. /\ hnNode \in [HnNode -> NodeRecords] /\ hnUser \in [HnUser -> UserRecords] /\ hnCat \in [HnCat -> CatRecords]
      /\ HnTypeOK /\ TablesAreTrue /\ UsersAreCounted /\ ReadsAreAwaited /\ TopicIsKept
    BY DEF HnInv, HnTypeOK
<1>2. ASSUME NEW u \in HnUser,
             \/ useExisting(u) \/ awaitCreation(u) \/ beginCreation(u)
             \/ (hnTopic.handlers = {} /\ hnTopic.publishing = {} /\ stopNode(u))
      PROVE  HnInv'
    BY <1>2, UseExisting, AwaitCreation, BeginCreation, StopNode
<1>3. ASSUME NEW u \in HnUser, NEW c \in HnCat, cat(c, u) \/ resolvePath(c, u) PROVE HnInv'
 <2> DEFINE n == hnUser[u].node
            x == IF Stopping(n) THEN [hnCat[c] EXCEPT !.pc = "done"] ELSE [pc |-> "session", node |-> n]
 <2>1. openSession(c, u) BY <1>3 DEF cat, resolvePath
 <2>2. n \in HnNode /\ n \in Nodes /\ hnNode[n].status = "up"
  <3>1. n = hnClient /\ hnClient # NoNode BY <1>1, <2>1 DEF openSession, UsersAreCounted, Using
  <3>2. n \in HnNode /\ n \in Nodes BY <1>1, <3>1, HnAssumption DEF HnTypeOK, Nodes, HnNode, NoNode
  <3>3. QED BY <1>1, <3>1, <3>2 DEF TablesAreTrue
 <2>3. ~Stopping(n) BY <2>2 DEF Stopping
 <2>4. x \in CatRecords /\ x.node = n BY <2>2, <2>3 DEF CatRecords
 <2>5. hnCat' = [hnCat EXCEPT ![c] = x] /\ UNCHANGED <<hnJob, hnClient, hnCreating, hnNode, hnUser, hnTopic>> BY <2>1 DEF openSession
 <2>6. ReadsFollow(hnNode[n], c) BY <2>2 DEF ReadsFollow
 <2> HIDE DEF n, x
 <2>7. QED BY <2>2, <2>4, <2>5, <2>6, CatMoves
<1>4. ASSUME NEW c \in HnCat, fetchBlock(c) \/ delayAbortable(c) PROVE HnInv'
 <2>1. PICK pc \in {"session", "racing", "backoff", "done"} :
           CatAt(c, pc) /\ UNCHANGED <<hnJob, hnClient, hnCreating, hnNode, hnUser, hnTopic>>
     BY <1>4 DEF fetchBlock, delayAbortable
 <2> DEFINE x == [hnCat[c] EXCEPT !.pc = pc]
 <2>2. x \in CatRecords /\ x.node = hnCat[c].node /\ hnCat' = [hnCat EXCEPT ![c] = x] BY <1>1, <2>1 DEF CatRecords, CatAt
 <2>3. Reading(c) BY <1>4 DEF fetchBlock, delayAbortable, Reading
 <2>4. x.node \in HnNode /\ ReadsFollow(hnNode[x.node], c) BY <1>1, <2>2, <2>3 DEF ReadsAreAwaited, ReadsFollow, Stopping
 <2> HIDE DEF x
 <2>5. QED BY <2>1, <2>2, <2>4, CatMoves
<1>5. ASSUME NEW n \in HnNode, openBlockstore(n) \/ creationThrows(n) \/ abortCats(n) \/ stopHelia(n) \/ closeBlockstore(n)
      PROVE  HnInv'
 <2>1. hnNode[n] \in NodeRecords /\ n # NoNode /\ hnNode[n].awaited \subseteq HnCat BY <1>1, NodesThere DEF NodeRecords
 <2>2. CASE openBlockstore(n)
  <3> DEFINE x == [hnNode[n] EXCEPT !.status = "starting", !.blockstore = TRUE]
  <3>1. x \in NodeRecords /\ x.status = "starting" BY <2>1 DEF NodeRecords, NodeStates
  <3>2. hnNode' = [hnNode EXCEPT ![n] = x] /\ UNCHANGED <<hnJob, hnClient, hnCreating, hnUser, hnCat, hnTopic>> BY <2>2 DEF openBlockstore
  <3>3. hnNode[n].status = "opening" /\ n = hnCreating /\ n # hnClient BY <1>1, <2>2 DEF openBlockstore, TablesAreTrue
  <3>4. \A c \in HnCat : ~(Reading(c) /\ hnCat[c].node = n) BY <1>1, <3>3 DEF ReadsAreAwaited
  <3> HIDE DEF x
  <3>5. QED BY <3>1, <3>2, <3>3, <3>4, NodeMoves
 <2>3. CASE creationThrows(n)
  <3> DEFINE x == [hnNode[n] EXCEPT !.status = "cleaning"]
  <3>1. x \in NodeRecords /\ x.status = "cleaning" BY <2>1 DEF NodeRecords, NodeStates
  <3>2. hnNode' = [hnNode EXCEPT ![n] = x] /\ UNCHANGED <<hnJob, hnClient, hnCreating, hnUser, hnCat, hnTopic>> BY <2>3 DEF creationThrows
  <3>3. hnNode[n].status \in {"opening", "starting"} /\ n = hnCreating /\ n # hnClient BY <1>1, <2>3 DEF creationThrows, TablesAreTrue
  <3>4. \A c \in HnCat : ~(Reading(c) /\ hnCat[c].node = n) BY <1>1, <3>3 DEF ReadsAreAwaited
  <3> HIDE DEF x
  <3>5. QED BY <3>1, <3>2, <3>3, <3>4, NodeMoves
 <2>4. CASE abortCats(n)
  <3> DEFINE x == [hnNode[n] EXCEPT !.status = "unwinding", !.joined = FALSE, !.awaited = AwaitedCats(n)]
  <3>1. x \in NodeRecords /\ x.status = "unwinding" /\ x.awaited = AwaitedCats(n)
   <4>1. AwaitedCats(n) \in SUBSET HnCat BY DEF AwaitedCats, InFlight
   <4>2. QED BY <2>1, <4>1 DEF NodeRecords, NodeStates
  <3>2. hnNode' = [hnNode EXCEPT ![n] = x] /\ UNCHANGED <<hnJob, hnClient, hnCreating, hnUser, hnCat, hnTopic>> BY <2>4 DEF abortCats
  <3>3. hnNode[n].status = "leaving" /\ n # hnCreating /\ n # hnClient BY <1>1, <2>4 DEF abortCats, TablesAreTrue
  <3>4. hnJob.cats \cap hnJob.paths = {} BY <1>1, HnAssumption DEF HnTypeOK
  <3>5. \A c \in HnCat : Reading(c) /\ hnCat[c].node = n => ReadsFollow(x, c) BY <3>1, <3>4 DEF ReadsFollow, AwaitedCats, InFlight, Reading
  <3> HIDE DEF x
  <3>6. QED BY <3>1, <3>2, <3>3, <3>5, NodeMoves
 <2>5. CASE stopHelia(n)
  <3> DEFINE x == [hnNode[n] EXCEPT !.status = "stopping"]
  <3>1. x \in NodeRecords /\ x.status = "stopping" BY <2>1 DEF NodeRecords, NodeStates
  <3>2. hnNode' = [hnNode EXCEPT ![n] = x] /\ UNCHANGED <<hnJob, hnClient, hnCreating, hnUser, hnCat, hnTopic>> BY <2>5 DEF stopHelia
  <3>3. hnNode[n].status = "unwinding" /\ n # hnCreating /\ n # hnClient BY <1>1, <2>5 DEF stopHelia, TablesAreTrue
  <3>4. ASSUME NEW c \in HnCat, Reading(c), hnCat[c].node = n PROVE ReadsFollow(x, c)
   <4>1. c \in InFlight(n) BY <3>4 DEF InFlight, Reading
   <4>2. c \in hnJob.cats /\ "unwind" \notin hnJob.faults => c \in hnNode[n].awaited BY <1>1, <3>3, <3>4 DEF ReadsAreAwaited
   <4>3. ~(c \in hnJob.cats /\ "unwind" \notin hnJob.faults) BY <2>5, <4>1, <4>2 DEF stopHelia
   <4>4. QED BY <3>1, <4>3 DEF ReadsFollow
  <3> HIDE DEF x
  <3>5. QED BY <3>1, <3>2, <3>3, <3>4, NodeMoves
 <2>6. CASE closeBlockstore(n)
  <3> DEFINE x == Released(hnNode[n])
  <3>1. x \in NodeRecords /\ x.status = "stopped" /\ ~x.blockstore BY <2>1 DEF NodeRecords, NodeStates, Released
  <3>2. hnNode[n].status = "stopping" /\ n # hnCreating /\ n # hnClient BY <1>1, <2>6 DEF closeBlockstore, TablesAreTrue
  <3>3. hnNode' = [hnNode EXCEPT ![n] = x] /\ UNCHANGED <<hnJob, hnClient, hnCreating, hnUser, hnCat, hnTopic>>
      BY <2>6, <3>2 DEF closeBlockstore
  <3>4. \A c \in HnCat : Reading(c) /\ hnCat[c].node = n => ReadsFollow(x, c) BY <1>1, <3>1, <3>2 DEF ReadsAreAwaited, ReadsFollow, Stopping
  <3> HIDE DEF x
  <3>5. QED BY <3>1, <3>2, <3>3, <3>4, NodeMoves
 <2>7. QED BY <1>5, <2>2, <2>3, <2>4, <2>5, <2>6
<1>6. ASSUME NEW h \in HnHandler, subscribeTopic(h) \/ unsubscribeTopic(h) PROVE HnInv'
 <2>1. hnTopic \in Topics BY <1>1 DEF HnTypeOK
 <2>2. Up(hnClient) /\ hnClient \in HnNode /\ UNCHANGED <<hnJob, hnClient, hnCreating, hnUser, hnCat>>
     BY <1>1, <1>6, HnAssumption DEF subscribeTopic, unsubscribeTopic, Up, HnTypeOK, Nodes, HnNode, NoNode
 <2>3. hnNode[hnClient] \in NodeRecords /\ hnNode[hnClient].joined \in BOOLEAN /\ hnNode = [hnNode EXCEPT ![hnClient].joined = hnNode[hnClient].joined]
     BY <1>1, <2>2 DEF NodeRecords
 <2>4. CASE subscribeTopic(h)
  <3> DEFINE s == [hnTopic EXCEPT !.handlers = @ \cup {h}, !.deaf = {}]
  <3>1. s \in Topics BY <2>1 DEF Topics
  <3>2. hnTopic' = s /\ hnNode' = [hnNode EXCEPT ![hnClient].joined = TRUE] BY <2>4 DEF subscribeTopic
  <3> HIDE DEF s
  <3>3. QED BY <2>2, <3>1, <3>2, TopicMoves
 <2>5. CASE unsubscribeTopic(h)
  <3> DEFINE s == [hnTopic EXCEPT !.handlers = @ \ {h}, !.deaf = @ \ {h}]
             b == IF hnTopic.handlers = {h} THEN FALSE ELSE hnNode[hnClient].joined
  <3>1. s \in Topics /\ s.handlers = hnTopic.handlers \ {h} /\ s.deaf = hnTopic.deaf \ {h} BY <2>1 DEF Topics
  <3>2. hnTopic' = s /\ hnNode' = [hnNode EXCEPT ![hnClient].joined = b] /\ b \in BOOLEAN BY <2>3, <2>5 DEF unsubscribeTopic
  <3>3. s.handlers \ s.deaf # {} => b BY <1>1, <3>1 DEF TopicIsKept
  <3> HIDE DEF s, b
  <3>4. QED BY <2>2, <3>1, <3>2, <3>3, TopicMoves
 <2>6. QED BY <1>6, <2>4, <2>5
<1>7. ASSUME NEW p \in HnPublish, beginPublish(p) \/ endPublish(p) PROVE HnInv'
 <2>1. hnTopic \in Topics BY <1>1 DEF HnTypeOK
 <2>2. Up(hnClient) /\ hnClient \in HnNode /\ UNCHANGED <<hnJob, hnClient, hnCreating, hnUser, hnCat>>
  <3>1. Up(hnClient) => hnClient \in HnNode BY <1>1, HnAssumption DEF Up, HnTypeOK, Nodes, HnNode, NoNode
  <3>2. Up(hnClient) BY <1>7 DEF beginPublish, endPublish
  <3>3. UNCHANGED <<hnJob, hnClient, hnCreating, hnUser, hnCat>> BY <1>7 DEF beginPublish, endPublish
  <3>4. QED BY <3>1, <3>2, <3>3
 <2>3. hnNode[hnClient] \in NodeRecords /\ hnNode[hnClient].joined \in BOOLEAN /\ hnNode = [hnNode EXCEPT ![hnClient].joined = hnNode[hnClient].joined]
     BY <1>1, <2>2 DEF NodeRecords
 <2>4. CASE beginPublish(p)
  <3> DEFINE y == [publish |-> p, already |-> hnNode[hnClient].joined]
             s == [hnTopic EXCEPT !.publishing = @ \cup {y}, !.published = @ \cup {p}, !.deaf = {}]
  <3>1. y \in Publishes /\ y.already = hnNode[hnClient].joined BY <2>3 DEF Publishes
  <3> HIDE DEF y
  <3>2. s \in Topics BY <2>1, <3>1 DEF Topics
  <3>3. hnTopic' = s /\ hnNode' = [hnNode EXCEPT ![hnClient].joined = TRUE] BY <2>4 DEF beginPublish, y, WasAlreadySubscribed
  <3> HIDE DEF s
  <3>4. QED BY <2>2, <3>2, <3>3, TopicMoves
 <2>5. CASE endPublish(p)
  <3>1. PICK x \in hnTopic.publishing :
            /\ hnTopic' = [hnTopic EXCEPT !.publishing = @ \ {x}, !.deaf = IF x.already THEN @ ELSE hnTopic.handlers]
            /\ hnNode' = IF x.already THEN hnNode ELSE [hnNode EXCEPT ![hnClient].joined = FALSE]
      BY <2>5 DEF endPublish
  <3> DEFINE s == [hnTopic EXCEPT !.publishing = @ \ {x}, !.deaf = IF x.already THEN @ ELSE hnTopic.handlers]
             b == IF x.already THEN hnNode[hnClient].joined ELSE FALSE
  <3>2. s \in Topics /\ s.handlers = hnTopic.handlers /\ s.deaf = (IF x.already THEN hnTopic.deaf ELSE hnTopic.handlers) BY <2>1 DEF Topics
  <3>3. hnTopic' = s /\ hnNode' = [hnNode EXCEPT ![hnClient].joined = b] /\ b \in BOOLEAN BY <2>3, <3>1
  <3>4. s.handlers \ s.deaf # {} => b BY <1>1, <3>2 DEF TopicIsKept
  <3> HIDE DEF s, b
  <3>5. QED BY <2>2, <3>2, <3>3, <3>4, TopicMoves
 <2>6. QED BY <1>7, <2>4, <2>5
<1>8. CASE UNCHANGED hnVars
    BY <1>1, <1>8 DEF hnVars, HnInv, HnTypeOK, TablesAreTrue, UsersAreCounted, Using, Joining, ReadsAreAwaited, Reading, Stopping, TopicIsKept
<1>9. QED BY <1>2, <1>3, <1>4, <1>5, <1>6, <1>7, <1>8, StartNode, CreationFails DEF HnNext

(* It holds before the first node is made. *)
LEMMA HnStarts == HnInit => HnInv
<1> SUFFICES ASSUME HnInit PROVE HnInv OBVIOUS
<1>1. hnJob.uses \in Nat /\ Fresh \in NodeRecords /\ Fresh.status = "none" BY HnAssumption DEF HnInit, Fresh, NodeRecords, NodeStates
<1>2. HnTypeOK
 <2>1. [pc |-> "idle", node |-> NoNode, left |-> hnJob.uses] \in UserRecords /\ [pc |-> "idle", node |-> NoNode] \in CatRecords
     BY <1>1, NodesThere DEF UserRecords, CatRecords
 <2>2. QED BY <1>1, <2>1, NodesThere DEF HnInit, HnTypeOK, Topics
<1>3. TablesAreTrue
 <2>1. \A n \in HnNode : hnNode[n].status = "none" /\ n # hnClient /\ n # hnCreating BY <1>1, NodesThere DEF HnInit
 <2>2. QED BY <2>1 DEF HnInit, TablesAreTrue
<1>4. UsersAreCounted BY DEF HnInit, UsersAreCounted, Using, Joining
<1>5. ReadsAreAwaited BY DEF HnInit, ReadsAreAwaited, Reading
<1>6. TopicIsKept BY DEF HnInit, TopicIsKept
<1>7. QED BY <1>2, <1>3, <1>4, <1>5, <1>6 DEF HnInv

(* The inductive invariant of the shared node, for any number of PKC instances,*)
(* reads, subscriptions and publishes. *)
THEOREM HnInvariant == HnSpec => []HnInv
<1>1. HnInv /\ [HnNext]_hnVars => HnInv' BY HnStep
<1>2. QED BY HnStarts, <1>1, PTL DEF HnSpec

(* The invariant is what the users of the node rely on. *)
LEMMA HnInvIsStrong == HnInv => HolderHasNode /\ NoOrphanNode /\ NoCatOutlivesStop /\ HandlerHearsTopic
<1> SUFFICES ASSUME HnInv PROVE HolderHasNode /\ NoOrphanNode /\ NoCatOutlivesStop /\ HandlerHearsTopic OBVIOUS
<1>1. HnTypeOK /\ TablesAreTrue /\ UsersAreCounted /\ ReadsAreAwaited /\ TopicIsKept BY DEF HnInv
<1>2. HolderHasNode
 <2>1. hnClient # NoNode => hnClient \in HnNode BY <1>1, HnAssumption DEF HnTypeOK, Nodes, HnNode, NoNode
 <2>2. QED BY <1>1, <2>1 DEF UsersAreCounted, Using, TablesAreTrue, HolderHasNode
<1>3. NoOrphanNode
 <2>1. \A n \in HnNode : n # NoNode BY NodesThere
 <2>2. \A n \in HnNode : n = hnCreating => Joining \subseteq Waiting(n) /\ Joining # {} BY <1>1, <2>1 DEF UsersAreCounted, Joining, Waiting
 <2>3. QED BY <1>1, <2>2 DEF TablesAreTrue, NoOrphanNode
<1>4. NoCatOutlivesStop
 <2>1. \A c \in hnJob.cats : c \in HnCat BY <1>1, HnAssumption DEF HnTypeOK
 <2>2. QED BY <1>1, <2>1 DEF ReadsAreAwaited, Reading, NoCatOutlivesStop
<1>5. HandlerHearsTopic BY <1>1 DEF TopicIsKept, HandlerHearsTopic
<1>6. QED BY <1>2, <1>3, <1>4, <1>5

(* Whoever holds the node finds it up, one nobody holds is being stopped or is*)
(* awaited by somebody, no read that stop() tracks outlives the node, and the *)
(* handlers keep their topic unless they came under a publish that had found *)
(* none, whichever creations and reads fail on the way. *)
THEOREM NodeIsEverybodys == HnSpec => []NodeIsShared
BY HnInvariant, HnInvIsStrong, PTL DEF NodeIsShared

----------------------------------------
(* CommunityLifecycle: the runner, its lock and its mirrors. *)

Places == {"idle", "prepare", "lock", "open", "closing", "unlock", "move", "copy", "copied", "clean", "remove", "dead"}
OwnerRecords ==
    [state : {"stopped", "started", "updating"}, op : {"none", "start", "stop", "rename", "delete", "restart"},
     at : Places, addr : Addresses, mirror : Owners \cup {NoOwner}]

LcTypeOK ==
    /\ lcJob \in LcWorkload /\ lc \in [Owners -> OwnerRecords] /\ started \subseteq Owners
    /\ lock \in [Addresses -> Processes \cup {"dead", "none"}]

(* Where an instance stands tells whether it is in the register of its process. *)
StandsWell(o) ==
    /\ o \in started => lc[o].state = "started" /\ lc[o].at \in {"open", "idle", "closing", "unlock"}
    /\ lc[o].state = "started" /\ lc[o].at \notin {"lock", "unlock"} => o \in started
    /\ (lc[o].at \in {"open", "closing"} => o \in started) /\ (lc[o].at = "lock" => lc[o].state = "started")
    /\ lc[o].at \in {"prepare", "move", "copy", "copied", "clean", "remove", "dead"} => lc[o].state = "stopped"
    /\ lc[o].state = "updating" => lc[o].at = "idle"
    /\ lc[o].mirror # NoOwner => lc[o].state = "updating" /\ lc[o].mirror \in started /\ HomeOf(lc[o].mirror) = HomeOf(o)
RegisterIsTrue == \A o \in Owners : StandsWell(o)

(* A registered instance has the lock of its address, or lost it in one of the *)
(* two ways; of two under one address one did; and a lock has its instance. *)
Guarded(o) == lock[Addr(o)] = HomeOf(o) \/ o \in unguarded
LockIsTrue ==
    /\ \A o \in started : Guarded(o)
    /\ \A o, p \in started : Addr(o) = Addr(p) => o = p \/ {o, p} \cap unguarded # {}
    /\ \A a \in Addresses : lock[a] \in Processes => \E o \in started : HomeOf(o) = lock[a] /\ Addr(o) = a

LcInv == LcTypeOK /\ RegisterIsTrue /\ LockIsTrue

(* One instance moves on; the register and the locks stay as they are. *)
OwnerMoves(o, r) ==
    /\ lc' = [lc EXCEPT ![o] = r] /\ UNCHANGED <<lcJob, lock, started, unguarded>>
    /\ o \in started => r.state = "started" /\ r.at \in {"open", "idle", "closing", "unlock"} /\ r.addr = Addr(o)
    /\ r.state = "started" /\ r.at \notin {"lock", "unlock"} => o \in started
    /\ (r.at \in {"open", "closing"} => o \in started) /\ (r.at = "lock" => r.state = "started")
    /\ r.at \in {"prepare", "move", "copy", "copied", "clean", "remove", "dead"} => r.state = "stopped"
    /\ r.state = "updating" => r.at = "idle"
    /\ r.mirror # NoOwner => r.state = "updating" /\ r.mirror \in started /\ HomeOf(r.mirror) = HomeOf(o)

(* Then everything stays true of everybody. *)
LEMMA OwnerMovesWell ==
    ASSUME LcInv, NEW o \in Owners, NEW r \in OwnerRecords, OwnerMoves(o, r)
    PROVE  LcInv'
<1>1. lc \in [Owners -> OwnerRecords] /\ started \subseteq Owners /\ RegisterIsTrue /\ LockIsTrue BY DEF LcInv, LcTypeOK
<1>2. /\ lc' \in [Owners -> OwnerRecords] /\ lc'[o] = r /\ \A p \in Owners : p # o => lc'[p] = lc[p]
      /\ lcJob' = lcJob /\ lock' = lock /\ started' = started /\ unguarded' = unguarded
    BY <1>1 DEF OwnerMoves
<1>3. LcTypeOK' BY <1>2 DEF LcInv, LcTypeOK
<1>4. ASSUME NEW p \in Owners PROVE StandsWell(p)'
 <2>1. CASE p = o BY <1>2, <2>1 DEF OwnerMoves, StandsWell, HomeOf
 <2>2. CASE p # o BY <1>1, <1>2, <2>2 DEF RegisterIsTrue, StandsWell, HomeOf
 <2>3. QED BY <2>1, <2>2
<1>5. \A p \in started : lc'[p].addr = lc[p].addr BY <1>1, <1>2 DEF OwnerMoves, Addr
<1>6. LockIsTrue' BY <1>1, <1>2, <1>5 DEF LockIsTrue, Guarded, HomeOf, Addr
<1>7. QED BY <1>3, <1>4, <1>6 DEF LcInv, RegisterIsTrue

(* What is known of an instance. *)
LEMMA OwnerFacts ==
    ASSUME LcInv, NEW o \in Owners
    PROVE  /\ lc[o] \in OwnerRecords /\ HomeOf(o) \in Processes /\ Addr(o) \in Addresses /\ NoOwner \notin Owners
           /\ StandsWell(o) /\ Peers(o) \subseteq started /\ started \subseteq Owners
           /\ \A p \in Peers(o) : HomeOf(p) = HomeOf(o)
           /\ o \in started => o \in Peers(o)
<1>1. lc \in [Owners -> OwnerRecords] /\ lcJob \in LcWorkload /\ started \subseteq Owners /\ RegisterIsTrue BY DEF LcInv, LcTypeOK
<1>2. QED BY <1>1, LcAssumption DEF HomeOf, Addr, OwnerRecords, RegisterIsTrue, Peers

(* The next place of an instance that moves its database. *)
Goes(o, r) ==
    /\ r \in OwnerRecords /\ r.at \in {"idle", "prepare", "copy", "copied", "clean"}
    /\ r.state \in {lc[o].state, "stopped"} /\ r.mirror = lc[o].mirror

(* A step that moves one instance on keeps the invariant. *)
LEMMA OwnerStep ==
    ASSUME LcInv, NEW o \in Owners,
           \/ start(o) \/ prepareStart(o) \/ (lockCommunityStart(o) /\ Held(Addr(o))) \/ openCommunity(o) \/ stop(o) \/ loopEnds(o)
           \/ rename(o) \/ movePostUpdatesFolder(o) \/ copyDb(o) \/ changeDbFilename(o) \/ restoreCommunityAfterFailedRename(o)
           \/ moveCommunityDb(o) \/ update(o) \/ updateLoop(o) \/ stopUpdating(o)
    PROVE  LcInv'
<1>1. /\ lc[o] \in OwnerRecords /\ HomeOf(o) \in Processes /\ Addr(o) \in Addresses /\ NoOwner \notin Owners /\ StandsWell(o)
      /\ Peers(o) \subseteq started /\ started \subseteq Owners /\ (\A p \in Peers(o) : HomeOf(p) = HomeOf(o)) /\ (o \in started => o \in Peers(o))
    BY OwnerFacts
<1>2. UNCHANGED <<lcJob, lock, started, unguarded>>
    BY DEF start, prepareStart, lockCommunityStart, openCommunity, stop, loopEnds, rename, movePostUpdatesFolder, copyDb, changeDbFilename,
           restoreCommunityAfterFailedRename, moveCommunityDb, update, updateLoop, stopUpdating, lostVars
<1>3. CASE start(o)
 <2>1. lc' = [lc EXCEPT ![o] = [lc[o] EXCEPT !.op = "start", !.at = "prepare"]] /\ Peers(o) = {} /\ lc[o].state # "updating" /\ lc[o].at = "idle"
     BY <1>3 DEF start, Set, TakesCall, Free, Idle
 <2>2. [lc[o] EXCEPT !.op = "start", !.at = "prepare"] \in OwnerRecords BY <1>1 DEF OwnerRecords, Places
 <2>3. lc[o].state = "stopped" BY <1>1, <2>1 DEF StandsWell, OwnerRecords
 <2>4. QED BY <1>1, <1>2, <2>1, <2>2, <2>3, OwnerMovesWell DEF OwnerMoves, StandsWell, OwnerRecords, Addr
<1>4. CASE prepareStart(o)
 <2>1. /\ \E r \in {[lc[o] EXCEPT !.at = "idle"], [lc[o] EXCEPT !.state = "started", !.at = "lock"]} : lc' = [lc EXCEPT ![o] = r]
       /\ lc[o].at = "prepare"
     BY <1>4 DEF prepareStart, Set, StandsAt
 <2>2. PICK r \in {[lc[o] EXCEPT !.at = "idle"], [lc[o] EXCEPT !.state = "started", !.at = "lock"]} : lc' = [lc EXCEPT ![o] = r] BY <2>1
 <2>3. /\ r \in OwnerRecords /\ r.addr = Addr(o) /\ r.mirror = lc[o].mirror
       /\ (r.at = "idle" /\ r.state = lc[o].state) \/ (r.at = "lock" /\ r.state = "started")
     BY <1>1 DEF OwnerRecords, Places, Addr
 <2>4. QED BY <1>1, <1>2, <2>1, <2>2, <2>3, OwnerMovesWell DEF OwnerMoves, StandsWell
<1>5. CASE lockCommunityStart(o) /\ Held(Addr(o))
 <2>1. lc' = [lc EXCEPT ![o] = [lc[o] EXCEPT !.at = "unlock"]] /\ lc[o].at = "lock" BY <1>5 DEF lockCommunityStart, Set, StandsAt
 <2>2. [lc[o] EXCEPT !.at = "unlock"] \in OwnerRecords BY <1>1 DEF OwnerRecords, Places
 <2>3. QED BY <1>1, <1>2, <2>1, <2>2, OwnerMovesWell DEF OwnerMoves, StandsWell, OwnerRecords, Addr
<1>6. CASE openCommunity(o) \/ loopEnds(o)
 <2>1. PICK r \in {[lc[o] EXCEPT !.at = "unlock"], [lc[o] EXCEPT !.at = "idle", !.op = "none"]} : lc' = [lc EXCEPT ![o] = r]
     BY <1>6 DEF openCommunity, loopEnds, Set
 <2>2. lc[o].at \in {"open", "closing"} BY <1>6 DEF openCommunity, loopEnds, StandsAt
 <2>3. /\ r \in OwnerRecords /\ r.addr = Addr(o) /\ r.mirror = lc[o].mirror /\ r.at \in {"idle", "unlock"} /\ r.state = lc[o].state
     BY <1>1 DEF OwnerRecords, Places, Addr
 <2>4. QED BY <1>1, <1>2, <2>1, <2>2, <2>3, OwnerMovesWell DEF OwnerMoves, StandsWell
<1>7. CASE stop(o) \/ rename(o)
 <2>1. PICK r \in {[lc[o] EXCEPT !.op = "stop", !.at = "closing"], [lc[o] EXCEPT !.op = "rename", !.at = "closing"]} : lc' = [lc EXCEPT ![o] = r]
     BY <1>7 DEF stop, rename, Set
 <2>2. lc[o].at = "idle" /\ lc[o].state = "started" BY <1>7 DEF stop, rename, TakesCall, Free, Idle
 <2>3. /\ r \in OwnerRecords /\ r.addr = Addr(o) /\ r.mirror = lc[o].mirror /\ r.at = "closing" /\ r.state = lc[o].state
     BY <1>1 DEF OwnerRecords, Places, Addr
 <2>4. QED BY <1>1, <1>2, <2>1, <2>2, <2>3, OwnerMovesWell DEF OwnerMoves, StandsWell
<1>8. CASE movePostUpdatesFolder(o) \/ copyDb(o) \/ changeDbFilename(o) \/ restoreCommunityAfterFailedRename(o) \/ moveCommunityDb(o)
 <2>1. lc[o].at \in {"move", "copy", "copied", "clean", "remove"}
     BY <1>8 DEF movePostUpdatesFolder, copyDb, changeDbFilename, restoreCommunityAfterFailedRename, moveCommunityDb, StandsAt
 <2>2. NewAddress(o) \in Addresses BY <1>1, LcAssumption DEF NewAddress
 <2>3. PICK r \in OwnerRecords : lc' = [lc EXCEPT ![o] = r] /\ Goes(o, r)
  <3>1. CASE movePostUpdatesFolder(o)
   <4>1. \E at \in {"idle", "prepare"} : lc' = [lc EXCEPT ![o] = [lc[o] EXCEPT !.op = "start", !.at = at]]
            \/ lc' = [lc EXCEPT ![o] = [lc[o] EXCEPT !.at = "copy"]]
       BY <3>1 DEF movePostUpdatesFolder, Restart, Set
   <4>2. PICK r \in {[lc[o] EXCEPT !.op = "start", !.at = "idle"], [lc[o] EXCEPT !.op = "start", !.at = "prepare"], [lc[o] EXCEPT !.at = "copy"]} :
             lc' = [lc EXCEPT ![o] = r]
       BY <4>1
   <4>3. Goes(o, r) BY <1>1, <4>2 DEF Goes, OwnerRecords, Places
   <4>4. QED BY <4>2, <4>3 DEF Goes
  <3>2. CASE copyDb(o)
   <4>1. lc' = [lc EXCEPT ![o] = [lc[o] EXCEPT !.at = "copied"]] BY <3>2 DEF copyDb, Set
   <4>2. Goes(o, [lc[o] EXCEPT !.at = "copied"]) BY <1>1 DEF Goes, OwnerRecords, Places
   <4>3. QED BY <4>1, <4>2 DEF Goes
  <3>3. CASE changeDbFilename(o)
   <4>1. \/ lc' = [lc EXCEPT ![o] = [lc[o] EXCEPT !.at = "clean"]]
         \/ lc' = [lc EXCEPT ![o] = [lc[o] EXCEPT !.op = "restart", !.addr = NewAddress(o), !.at = "prepare"]]
       BY <3>3 DEF changeDbFilename, Set
   <4>2. PICK r \in {[lc[o] EXCEPT !.at = "clean"], [lc[o] EXCEPT !.op = "restart", !.addr = NewAddress(o), !.at = "prepare"]} : lc' = [lc EXCEPT ![o] = r]
       BY <4>1
   <4>3. Goes(o, r) BY <1>1, <2>2, <4>2 DEF Goes, OwnerRecords, Places
   <4>4. QED BY <4>2, <4>3 DEF Goes
  <3>4. CASE restoreCommunityAfterFailedRename(o)
   <4>1. \/ lc' = [lc EXCEPT ![o] = [lc[o] EXCEPT !.at = "idle", !.op = "none"]]
         \/ \E at \in {"idle", "prepare"} : lc' = [lc EXCEPT ![o] = [lc[o] EXCEPT !.op = "start", !.at = at]]
       BY <3>4 DEF restoreCommunityAfterFailedRename, Restart, Set
   <4>2. PICK r \in {[lc[o] EXCEPT !.at = "idle", !.op = "none"], [lc[o] EXCEPT !.op = "start", !.at = "idle"], [lc[o] EXCEPT !.op = "start", !.at = "prepare"]} :
             lc' = [lc EXCEPT ![o] = r]
       BY <4>1
   <4>3. Goes(o, r) BY <1>1, <4>2 DEF Goes, OwnerRecords, Places
   <4>4. QED BY <4>2, <4>3 DEF Goes
  <3>5. CASE moveCommunityDb(o)
   <4>1. lc' = [lc EXCEPT ![o] = [lc[o] EXCEPT !.at = "idle", !.op = "none", !.state = "stopped"]] BY <3>5 DEF moveCommunityDb, Set
   <4>2. Goes(o, [lc[o] EXCEPT !.at = "idle", !.op = "none", !.state = "stopped"]) BY <1>1 DEF Goes, OwnerRecords, Places
   <4>3. QED BY <4>1, <4>2 DEF Goes
  <3>6. QED BY <1>8, <3>1, <3>2, <3>3, <3>4, <3>5
 <2>4. QED BY <1>1, <1>2, <2>1, <2>3, OwnerMovesWell DEF OwnerMoves, StandsWell, Goes
<1>9. CASE update(o) \/ updateLoop(o)
 <2> DEFINE m == Mirrored(o)
 <2>1. m \in Peers(o) \cup {NoOwner} BY DEF Mirrored
 <2>2. lc' = [lc EXCEPT ![o] = [lc[o] EXCEPT !.state = "updating", !.mirror = m]] /\ (lc[o].state = "updating" \/ (lc[o].state = "stopped" /\ lc[o].at = "idle"))
  <3>1. CASE update(o) BY <3>1 DEF update, Set, TakesCall, Free, Idle
  <3>2. CASE updateLoop(o)
   <4>1. lc' = [lc EXCEPT ![o] = [lc[o] EXCEPT !.mirror = m]] /\ lc[o].state = "updating" BY <3>2 DEF updateLoop, Set
   <4>2. [lc[o] EXCEPT !.mirror = m] = [lc[o] EXCEPT !.state = "updating", !.mirror = m] BY <1>1, <4>1 DEF OwnerRecords
   <4>3. QED BY <4>1, <4>2
  <3>3. QED BY <1>9, <3>1, <3>2
 <2> HIDE DEF m
 <2>3. [lc[o] EXCEPT !.state = "updating", !.mirror = m] \in OwnerRecords BY <1>1, <2>1 DEF OwnerRecords
 <2>4. QED BY <1>1, <1>2, <2>1, <2>2, <2>3, OwnerMovesWell DEF OwnerMoves, StandsWell, OwnerRecords, Addr
<1>10. CASE stopUpdating(o)
 <2>1. lc' = [lc EXCEPT ![o] = [lc[o] EXCEPT !.state = "stopped", !.mirror = NoOwner]] /\ lc[o].state = "updating" BY <1>10 DEF stopUpdating, Set
 <2>2. [lc[o] EXCEPT !.state = "stopped", !.mirror = NoOwner] \in OwnerRecords BY <1>1 DEF OwnerRecords
 <2>3. QED BY <1>1, <1>2, <2>1, <2>2, OwnerMovesWell DEF OwnerMoves, StandsWell, OwnerRecords, Addr
<1>11. QED BY <1>3, <1>4, <1>5, <1>6, <1>7, <1>8, <1>9, <1>10

(* deleteCommunity goes to the started instance of the process. *)
LEMMA Deleting == ASSUME LcInv, NEW o \in Owners, deleteCommunity(o) PROVE LcInv'
<1> DEFINE t == IF Peers(o) # {} THEN CHOOSE p \in Peers(o) : TRUE ELSE o
<1>1. t \in Owners /\ Peers(o) \subseteq started BY OwnerFacts
<1>2. lc[t].at = "idle" /\ UNCHANGED <<lcJob, lock, started, unguarded>> BY DEF deleteCommunity, Idle, lostVars
<1>3. lc' = [lc EXCEPT ![t] = IF lc[t].state = "started" THEN [lc[t] EXCEPT !.op = "delete", !.at = "closing"]
                              ELSE [lc[t] EXCEPT !.op = "delete", !.at = "remove", !.state = "stopped", !.mirror = NoOwner]]
    BY DEF deleteCommunity, Set
<1> HIDE DEF t
<1>4. lc[t] \in OwnerRecords /\ StandsWell(t) BY <1>1, OwnerFacts
<1>5. CASE lc[t].state = "started"
 <2>1. [lc[t] EXCEPT !.op = "delete", !.at = "closing"] \in OwnerRecords BY <1>4 DEF OwnerRecords, Places
 <2>2. QED BY <1>1, <1>2, <1>3, <1>4, <1>5, <2>1, OwnerMovesWell DEF OwnerMoves, StandsWell, OwnerRecords, Addr
<1>6. CASE lc[t].state # "started"
 <2>1. [lc[t] EXCEPT !.op = "delete", !.at = "remove", !.state = "stopped", !.mirror = NoOwner] \in OwnerRecords BY <1>4 DEF OwnerRecords, Places
 <2>2. QED BY <1>1, <1>2, <1>3, <1>4, <1>6, <2>1, OwnerMovesWell DEF OwnerMoves, StandsWell, OwnerRecords, Addr
<1>7. QED BY <1>5, <1>6

(* The lock is taken and the instance registered; one whose lock went stale *)
(* under it runs on without. *)
LEMMA Locking == ASSUME LcInv, NEW o \in Owners, lockCommunityStart(o), ~Held(Addr(o)) PROVE LcInv'
<1> DEFINE r == [lc[o] EXCEPT !.at = "open"]
           lose == {p \in Others(o) : HomeOf(p) = lock[Addr(o)]}
<1>1. /\ lc[o].at = "lock" /\ lc' = [lc EXCEPT ![o] = r] /\ lock' = [lock EXCEPT ![Addr(o)] = HomeOf(o)] /\ lcJob' = lcJob
      /\ started' = started \cup {o} /\ unguarded' = (unguarded \ {o}) \cup lose
    BY DEF lockCommunityStart, Set, StandsAt
<1>2. /\ lc \in [Owners -> OwnerRecords] /\ lock \in [Addresses -> Processes \cup {"dead", "none"}] /\ RegisterIsTrue /\ LockIsTrue
      /\ lc[o] \in OwnerRecords /\ HomeOf(o) \in Processes /\ Addr(o) \in Addresses /\ StandsWell(o) /\ started \subseteq Owners
    BY OwnerFacts DEF LcInv, LcTypeOK
<1>3. r \in OwnerRecords /\ r.at = "open" /\ r.state = lc[o].state /\ r.addr = lc[o].addr /\ r.mirror = lc[o].mirror
    BY <1>2 DEF OwnerRecords, Places
<1>4. o \notin started BY <1>1, <1>2 DEF StandsWell
<1>5. \A p \in Owners : p \in lose <=> p \in started /\ p # o /\ Addr(p) = Addr(o) /\ HomeOf(p) = lock[Addr(o)] BY DEF Others
<1> HIDE DEF r, lose
<1>6. lc' \in [Owners -> OwnerRecords] /\ lc'[o] = r /\ \A p \in Owners : p # o => lc'[p] = lc[p] BY <1>1, <1>2, <1>3
<1>7. LcTypeOK' BY <1>1, <1>2, <1>6 DEF LcInv, LcTypeOK
<1>8. ASSUME NEW p \in Owners PROVE StandsWell(p)'
 <2>1. CASE p = o
  <3>1. lc[o].mirror = NoOwner /\ lc[o].state = "started" BY <1>1, <1>2 DEF StandsWell
  <3>2. QED BY <1>1, <1>3, <1>6, <2>1, <3>1 DEF StandsWell
 <2>2. CASE p # o BY <1>1, <1>2, <1>6, <2>2 DEF RegisterIsTrue, StandsWell, HomeOf
 <2>3. QED BY <2>1, <2>2
<1>9. \A p \in Owners : lc'[p].addr = lc[p].addr BY <1>3, <1>6
<1>10. LockIsTrue'
 <2>1. ASSUME NEW p \in started' PROVE lock'[lc[p].addr] = HomeOf(p) \/ p \in unguarded'
  <3>1. CASE p = o BY <1>1, <1>2, <3>1 DEF Addr
  <3>2. CASE p # o
   <4>1. p \in started /\ p \in Owners /\ Guarded(p) BY <1>1, <1>2, <3>2 DEF LockIsTrue
   <4>2. CASE p \in unguarded BY <1>1, <3>2, <4>2
   <4>3. CASE lock[Addr(p)] = HomeOf(p) /\ Addr(p) = Addr(o) BY <1>1, <1>5, <3>2, <4>1, <4>3
   <4>4. CASE lock[Addr(p)] = HomeOf(p) /\ Addr(p) # Addr(o) BY <1>1, <1>2, <4>4 DEF Addr
   <4>5. QED BY <4>1, <4>2, <4>3, <4>4 DEF Guarded
  <3>3. QED BY <3>1, <3>2
 <2>2. ASSUME NEW p \in started, lc[p].addr = lc[o].addr, p # o PROVE p \in unguarded'
  <3>1. Guarded(p) /\ p \in Owners BY <1>2 DEF LockIsTrue
  <3>2. QED BY <1>1, <1>5, <2>2, <3>1 DEF Guarded, Addr
 <2>3. ASSUME NEW p \in started', NEW q \in started', lc[p].addr = lc[q].addr, p # q PROVE p \in unguarded' \/ q \in unguarded'
  <3>1. CASE p = o BY <1>1, <2>2, <2>3, <3>1
  <3>2. CASE q = o BY <1>1, <2>2, <2>3, <3>2
  <3>3. CASE p # o /\ q # o
   <4>1. p \in started /\ q \in started BY <1>1, <3>3
   <4>2. p \in unguarded \/ q \in unguarded BY <1>2, <2>3, <4>1 DEF LockIsTrue, Addr
   <4>3. QED BY <1>1, <3>3, <4>2
  <3>4. QED BY <3>1, <3>2, <3>3
 <2>4. ASSUME NEW a \in Addresses, lock'[a] \in Processes PROVE \E p \in started' : HomeOf(p) = lock'[a] /\ lc[p].addr = a
  <3>1. CASE a = Addr(o) BY <1>1, <1>2, <3>1 DEF Addr
  <3>2. CASE a # Addr(o)
   <4>1. lock'[a] = lock[a] BY <1>1, <1>2, <3>2
   <4>2. QED BY <1>1, <1>2, <2>4, <4>1 DEF LockIsTrue, Addr
  <3>3. QED BY <3>1, <3>2
 <2>5. \A p \in Owners : HomeOf(p)' = HomeOf(p) /\ Addr(p)' = lc[p].addr BY <1>1, <1>9 DEF HomeOf, Addr
 <2>6. started' \subseteq Owners BY <1>1, <1>2
 <2>7. QED BY <2>1, <2>3, <2>4, <2>5, <2>6 DEF LockIsTrue, Guarded
<1>11. QED BY <1>7, <1>8, <1>10 DEF LcInv, RegisterIsTrue

(* The lock goes, the register entry, and the mirrors; another instance of the *)
(* process that ran under the lock runs on without. *)
LEMMA Unlocking == ASSUME LcInv, NEW o \in Owners, finishStopCommunity(o) PROVE LcInv'
<1> DEFINE b == IF lc[o].op = "rename" THEN "move" ELSE IF lc[o].op = "delete" THEN "remove" ELSE "idle"
           c == IF lc[o].op \in {"rename", "delete"} THEN lc[o].op ELSE "none"
           r == [lc[o] EXCEPT !.state = "stopped", !.op = c, !.at = b]
           l == IF lock[Addr(o)] = HomeOf(o) THEN [lock EXCEPT ![Addr(o)] = "none"] ELSE lock
           lose == {p \in Others(o) : l[Addr(o)] # lock[Addr(o)]}
<1>1. /\ lc[o].at = "unlock" /\ lock' = l /\ lcJob' = lcJob /\ started' = started \ {o} /\ unguarded' = (unguarded \ {o}) \cup lose
      /\ lc' = [p \in Owners |-> IF p = o THEN r ELSE IF p \in Mirrors(o) THEN [lc[p] EXCEPT !.mirror = NoOwner] ELSE lc[p]]
    BY DEF finishStopCommunity, StandsAt, unlockCommunityStart
<1>2. /\ lc \in [Owners -> OwnerRecords] /\ lock \in [Addresses -> Processes \cup {"dead", "none"}] /\ RegisterIsTrue /\ LockIsTrue
      /\ lc[o] \in OwnerRecords /\ HomeOf(o) \in Processes /\ Addr(o) \in Addresses /\ StandsWell(o) /\ started \subseteq Owners
      /\ NoOwner \notin Owners /\ "none" \notin Processes
    BY OwnerFacts, LcAssumption DEF LcInv, LcTypeOK
<1>3. b \in {"move", "remove", "idle"} /\ c \in {"rename", "delete", "none"} OBVIOUS
<1>4. /\ l \in [Addresses -> Processes \cup {"dead", "none"}] /\ (\A a \in Addresses : a # Addr(o) => l[a] = lock[a])
      /\ lock[Addr(o)] = HomeOf(o) => l[Addr(o)] = "none"
      /\ lock[Addr(o)] # HomeOf(o) => l[Addr(o)] = lock[Addr(o)]
    BY <1>2
<1>5. \A p \in Owners : p \in lose <=> p \in started /\ p # o /\ Addr(p) = Addr(o) /\ l[Addr(o)] # lock[Addr(o)] BY DEF Others
<1> HIDE DEF b, c, l, lose
<1>6. r \in OwnerRecords /\ r.at = b /\ r.state = "stopped" /\ r.addr = lc[o].addr /\ r.mirror = lc[o].mirror
    BY <1>2, <1>3 DEF OwnerRecords, Places
<1> HIDE DEF r
<1>7. /\ lc'[o] = r
      /\ \A p \in Owners : p # o => /\ lc'[p] \in OwnerRecords /\ lc'[p].at = lc[p].at /\ lc'[p].state = lc[p].state /\ lc'[p].addr = lc[p].addr
                                    /\ lc'[p].mirror = IF lc[p].mirror = o THEN NoOwner ELSE lc[p].mirror
    BY <1>1, <1>2 DEF OwnerRecords, Mirrors
<1>8. lc' \in [Owners -> OwnerRecords] BY <1>1, <1>6, <1>7
<1>9. LcTypeOK' BY <1>1, <1>2, <1>4, <1>8 DEF LcInv, LcTypeOK
<1>10. ASSUME NEW p \in Owners PROVE StandsWell(p)'
 <2>1. CASE p = o
  <3>1. lc[o].mirror = NoOwner BY <1>1, <1>2 DEF StandsWell
  <3>2. QED BY <1>1, <1>3, <1>6, <1>7, <2>1, <3>1 DEF StandsWell
 <2>2. CASE p # o
  <3>1. lc[p] \in OwnerRecords /\ StandsWell(p) BY <1>2 DEF RegisterIsTrue
  <3>2. lc'[p].mirror # NoOwner => /\ lc'[p].mirror = lc[p].mirror /\ lc[p].mirror \in started' /\ lcJob'.home[lc[p].mirror] = lcJob'.home[p]
                                  /\ lc[p].state = "updating"
      BY <1>1, <1>7, <2>2, <3>1 DEF StandsWell, HomeOf
  <3>3. QED BY <1>1, <1>7, <2>2, <3>1, <3>2 DEF StandsWell, HomeOf
 <2>3. QED BY <2>1, <2>2
<1>11. LockIsTrue'
 <2>1. ASSUME NEW p \in started' PROVE l[lc[p].addr] = HomeOf(p) \/ p \in unguarded'
  <3>1. p \in started /\ p \in Owners /\ p # o /\ Guarded(p) BY <1>1, <1>2 DEF LockIsTrue
  <3>2. CASE p \in unguarded BY <1>1, <3>1, <3>2
  <3>3. CASE lock[Addr(p)] = HomeOf(p) /\ Addr(p) = Addr(o)
   <4>1. CASE HomeOf(o) = HomeOf(p)
    <5>1. l[Addr(o)] # lock[Addr(o)] BY <1>2, <1>4, <3>3, <4>1
    <5>2. QED BY <1>1, <1>5, <3>1, <3>3, <5>1
   <4>2. CASE HomeOf(o) # HomeOf(p) BY <1>4, <3>3, <4>2 DEF Addr
   <4>3. QED BY <4>1, <4>2
  <3>4. CASE lock[Addr(p)] = HomeOf(p) /\ Addr(p) # Addr(o)
   <4>1. Addr(p) \in Addresses BY <3>1, OwnerFacts
   <4>2. QED BY <1>4, <3>4, <4>1 DEF Addr
  <3>5. QED BY <3>1, <3>2, <3>3, <3>4 DEF Guarded
 <2>2. ASSUME NEW p \in started', NEW q \in started', lc[p].addr = lc[q].addr, p # q PROVE p \in unguarded' \/ q \in unguarded'
  <3>1. p \in started /\ q \in started /\ p # o /\ q # o BY <1>1
  <3>2. p \in unguarded \/ q \in unguarded BY <1>2, <2>2, <3>1 DEF LockIsTrue, Addr
  <3>3. QED BY <1>1, <3>1, <3>2
 <2>3. ASSUME NEW a \in Addresses, l[a] \in Processes PROVE \E p \in started' : HomeOf(p) = l[a] /\ lc[p].addr = a
  <3>1. l[a] = lock[a] /\ (a = Addr(o) => lock[a] # HomeOf(o)) BY <1>2, <1>4, <2>3
  <3>2. PICK p \in started : HomeOf(p) = lock[a] /\ Addr(p) = a BY <1>2, <2>3, <3>1 DEF LockIsTrue
  <3>3. p # o BY <3>1, <3>2
  <3>4. QED BY <1>1, <3>1, <3>2, <3>3 DEF Addr
 <2>4. \A p \in Owners : HomeOf(p)' = HomeOf(p) /\ Addr(p)' = lc[p].addr BY <1>1, <1>6, <1>7 DEF HomeOf, Addr
 <2>5. QED BY <1>1, <1>2, <2>1, <2>2, <2>3, <2>4 DEF LockIsTrue, Guarded
<1>12. QED BY <1>9, <1>10, <1>11 DEF LcInv, RegisterIsTrue

(* A process dies with everything its instances were doing. *)
LEMMA Crashing == ASSUME LcInv, NEW d \in Processes, processCrash(d) PROVE LcInv'
<1>1. /\ lock' = [a \in Addresses |-> IF lock[a] = d THEN "dead" ELSE lock[a]] /\ lcJob' = lcJob
      /\ started' = {o \in started : HomeOf(o) # d} /\ unguarded' = unguarded \cap started'
      /\ lc' = [o \in Owners |-> IF HomeOf(o) = d THEN [lc[o] EXCEPT !.at = "dead", !.state = "stopped", !.mirror = NoOwner] ELSE lc[o]]
    BY DEF processCrash
<1>2. /\ lc \in [Owners -> OwnerRecords] /\ lock \in [Addresses -> Processes \cup {"dead", "none"}] /\ RegisterIsTrue /\ LockIsTrue
      /\ started \subseteq Owners /\ "dead" \notin Processes
    BY LcAssumption DEF LcInv, LcTypeOK
<1>3. ASSUME NEW o \in Owners
      PROVE  /\ lc'[o] \in OwnerRecords /\ lc'[o].addr = lc[o].addr /\ (HomeOf(o) # d => lc'[o] = lc[o])
             /\ HomeOf(o) = d => lc'[o].at = "dead" /\ lc'[o].state = "stopped" /\ lc'[o].mirror = NoOwner
    BY <1>1, <1>2 DEF OwnerRecords, Places
<1>4. LcTypeOK' BY <1>1, <1>2, <1>3 DEF LcInv, LcTypeOK
<1>5. ASSUME NEW o \in Owners PROVE StandsWell(o)'
 <2>1. CASE HomeOf(o) = d BY <1>1, <1>3, <2>1 DEF StandsWell, HomeOf
 <2>2. CASE HomeOf(o) # d
  <3>1. lc'[o] = lc[o] /\ StandsWell(o) BY <1>2, <1>3, <2>2 DEF RegisterIsTrue
  <3>2. \A p \in started : HomeOf(p) = HomeOf(o) => p \in started' BY <1>1, <2>2
  <3>3. o \in started <=> o \in started' BY <1>1, <2>2
  <3>4. lc[o].mirror # NoOwner => lc[o].mirror \in started' /\ lcJob'.home[lc[o].mirror] = lcJob'.home[o] BY <1>1, <3>1, <3>2 DEF StandsWell, HomeOf
  <3>5. QED BY <3>1, <3>3, <3>4 DEF StandsWell, HomeOf
 <2>3. QED BY <2>1, <2>2
<1>6. \A o \in Owners : HomeOf(o)' = HomeOf(o) /\ Addr(o)' = Addr(o) BY <1>1, <1>3 DEF HomeOf, Addr
<1>7. LockIsTrue'
 <2>1. ASSUME NEW o \in started' PROVE lock'[Addr(o)] = HomeOf(o) \/ o \in unguarded'
  <3>1. o \in started /\ o \in Owners /\ HomeOf(o) # d /\ Guarded(o) BY <1>1, <1>2 DEF LockIsTrue
  <3>2. Addr(o) \in Addresses BY <3>1, OwnerFacts
  <3>3. QED BY <1>1, <3>1, <3>2 DEF Guarded
 <2>2. ASSUME NEW o \in started', NEW p \in started', Addr(o) = Addr(p), o # p PROVE o \in unguarded' \/ p \in unguarded'
  <3>1. o \in started /\ p \in started BY <1>1
  <3>2. o \in unguarded \/ p \in unguarded BY <1>2, <2>2, <3>1 DEF LockIsTrue
  <3>3. QED BY <1>1, <3>2
 <2>3. ASSUME NEW a \in Addresses, lock'[a] \in Processes PROVE \E o \in started' : HomeOf(o) = lock'[a] /\ Addr(o) = a
  <3>1. lock'[a] = lock[a] /\ lock[a] # d BY <1>1, <1>2, <2>3
  <3>2. PICK o \in started : HomeOf(o) = lock[a] /\ Addr(o) = a BY <1>2, <2>3, <3>1 DEF LockIsTrue
  <3>3. QED BY <1>1, <3>1, <3>2
 <2>4. started' \subseteq Owners BY <1>1, <1>2
 <2>5. QED BY <1>6, <2>1, <2>2, <2>3, <2>4 DEF LockIsTrue, Guarded
<1>8. QED BY <1>4, <1>5, <1>7 DEF LcInv, RegisterIsTrue

(* Every step keeps it. *)
LEMMA LcStep == LcInv /\ [LcNext]_lcVars => LcInv'
<1> SUFFICES ASSUME LcInv, [LcNext]_lcVars PROVE LcInv' OBVIOUS
<1>1. ASSUME NEW o \in Owners,
            \/ start(o) \/ prepareStart(o) \/ lockCommunityStart(o) \/ openCommunity(o)
            \/ stop(o) \/ loopEnds(o) \/ finishStopCommunity(o)
            \/ rename(o) \/ movePostUpdatesFolder(o) \/ copyDb(o) \/ changeDbFilename(o) \/ restoreCommunityAfterFailedRename(o)
            \/ deleteCommunity(o) \/ moveCommunityDb(o)
            \/ update(o) \/ updateLoop(o) \/ stopUpdating(o)
      PROVE LcInv'
 <2>1. CASE deleteCommunity(o) BY <2>1, Deleting
 <2>2. CASE finishStopCommunity(o) BY <2>2, Unlocking
 <2>3. CASE lockCommunityStart(o) /\ ~Held(Addr(o)) BY <2>3, Locking
 <2>4. QED BY <1>1, <2>1, <2>2, <2>3, OwnerStep
<1>2. ASSUME NEW p \in Processes, processCrash(p) PROVE LcInv' BY <1>2, Crashing
<1>3. CASE UNCHANGED <<lcJob, lc, lock, started, unguarded>>
    BY <1>3 DEF LcInv, LcTypeOK, RegisterIsTrue, StandsWell, LockIsTrue, Guarded, HomeOf, Addr
<1>4. ASSUME NEW p \in Processes, processStalls(p) \/ onCompromised(p) PROVE LcInv' BY <1>3, <1>4 DEF processStalls, onCompromised
<1>5. CASE UNCHANGED lcVars BY <1>3, <1>5 DEF lcVars, lostVars
<1>6. QED BY <1>1, <1>2, <1>4, <1>5 DEF LcNext

(* Nothing runs at first. *)
LEMMA LcStarts == LcInit => LcInv
<1> SUFFICES ASSUME LcInit PROVE LcInv OBVIOUS
<1>1. FirstAddress \in Addresses BY LcAssumption DEF FirstAddress
<1>2. LcTypeOK BY <1>1 DEF LcInit, LcTypeOK, OwnerRecords, Places
<1>3. RegisterIsTrue BY DEF LcInit, RegisterIsTrue, StandsWell
<1>4. LockIsTrue BY LcAssumption DEF LcInit, LockIsTrue
<1>5. QED BY <1>2, <1>3, <1>4 DEF LcInv

(* The inductive invariant of the register and the locks, for any number of *)
(* instances, processes and addresses, whatever calls overlap, processes stand *)
(* still or die, and steps fail. *)
THEOREM LcInvariant == LcSpec => []LcInv
<1>1. QED BY LcStarts, LcStep, PTL DEF LcSpec

(* Whichever instances of whichever processes start, stop, rename, delete and *)
(* mirror the community at the same time, and whichever processes crash or *)
(* stand still: a runner holds the lock of its address unless that was taken *)
(* while its process stood still or went with the failed start of another of *)
(* its process, so that two run under one address only then; a lock that is *)
(* refreshed belongs to a registered instance; and nobody mirrors one that *)
(* has stopped. *)
THEOREM LockIsTheRunners == LcSpec => [](OneRunnerPerAddress /\ RunnerHoldsLock /\ LockHasAnOwner /\ MirrorsARunner)
<1>1. LcInv => OneRunnerPerAddress /\ RunnerHoldsLock /\ LockHasAnOwner /\ MirrorsARunner
 <2> SUFFICES ASSUME LcInv PROVE OneRunnerPerAddress /\ RunnerHoldsLock /\ LockHasAnOwner /\ MirrorsARunner OBVIOUS
 <2>1. RegisterIsTrue /\ LockIsTrue /\ started \subseteq Owners /\ lc \in [Owners -> OwnerRecords] BY DEF LcInv, LcTypeOK
 <2>2. \A o \in Owners : Running(o) => o \in started BY <2>1 DEF RegisterIsTrue, StandsWell, Running
 <2>3. OneRunnerPerAddress /\ RunnerHoldsLock BY <2>1, <2>2 DEF OneRunnerPerAddress, RunnerHoldsLock, LockIsTrue, Guarded
 <2>4. LockHasAnOwner BY <2>1 DEF LockHasAnOwner, LockIsTrue, Held
 <2>5. MirrorsARunner BY <2>1 DEF MirrorsARunner, RegisterIsTrue, StandsWell
 <2>6. QED BY <2>3, <2>4, <2>5
<1>2. QED BY <1>1, LcInvariant, PTL

----------------------------------------
(* CommentStore: what the tables of a community hold. *)

AliasKey == {"alias"} \X Comment
RowRecords == [stored : BOOLEAN, pending : BOOLEAN, number : Nat, post : Nat, rowid : Nat, signer : Author \cup AliasKey \cup {Nil}]
ModRecords == [target : Comment, kind : Kinds, author : Author \cup AliasKey \cup {Nil}]
Tables ==
    [rows : [Comment -> RowRecords], mods : Seq(ModRecords), votes : SUBSET Act, edits : SUBSET Act,
     alias : [Comment -> AliasKey \cup {Nil}], marked : SUBSET Comment, inCycle : SUBSET Comment, purged : SUBSET Comment]
HandlerRecords ==
    [at : {"never", "idle", "lock", "prepared", "added", "inserted", "checked", "awaiting", "done", "failed"},
     key : AliasKey \cup {Nil}, pending : BOOLEAN, author : Author \cup AliasKey \cup {Nil}]

StoreTypes ==
    /\ db \in Tables
    /\ ipfs \in [pinned : SUBSET Comment, unpin : SUBSET Comment]
    /\ handler \in [Pub -> HandlerRecords]
    /\ aliasLock \in [LockKeys -> Seq(Comment)]
    /\ shown \in [Comment -> SUBSET Comment]

(* Numbers are given once, and only to rows that wait for nobody. *)
NumbersHold(d) ==
    /\ \E n \in Nat : \A c \in Comment : d.rows[c].number <= n /\ d.rows[c].post <= n /\ d.rows[c].rowid <= n
    /\ \A c \in StoredIn(d) : /\ d.rows[c].pending => d.rows[c].number = 0
                              /\ d.rows[c].post > 0 => d.rows[c].number > 0 /\ Parent[c] = Nil
    /\ \A c, x \in StoredIn(d) :
        c # x => /\ d.rows[c].number > 0 => d.rows[c].number # d.rows[x].number
                 /\ d.rows[c].post > 0 => d.rows[c].post # d.rows[x].post

(* Whatever was approved is numbered, unless it was purged. *)
VerdictsHold(d) ==
    \A c \in Comment : ApprovedByMod(d, c) => c \in d.purged \/ (d.rows[c].stored /\ ~d.rows[c].pending /\ d.rows[c].number > 0)

(* One alias in one scope, and none without its comment. *)
AliasesAgree(d) ==
    /\ \A c \in StoredIn(d) : \A x \in SharedAliases(d, c) : d.alias[c] # Nil => d.alias[c] = d.alias[x]
    /\ \A c \in Comment : ~d.rows[c].stored => d.alias[c] = Nil

TablesHold(d) == NumbersHold(d) /\ VerdictsHold(d) /\ AliasesAgree(d)

FewPending == IsFiniteSet(PendingIn(db)) /\ Cardinality(PendingIn(db)) <= MaxPending

Keyed == {"prepared", "added", "inserted"}

(* A row is there once its handler has inserted it. *)
RowsHaveHandlers == \A c \in StoredIn(db) : handler[c].at \in {"inserted", "done", "failed"}

(* What has or is about to get a number is pinned, and only what was purged *)
(* or refused waits to be unpinned. *)
PinsFollow ==
    /\ \A c \in StoredIn(db) : db.rows[c].number > 0 => c \in ipfs.pinned \cup db.purged
    /\ \A c \in Comment : handler[c].at = "added" /\ c \notin HeldBack => c \in ipfs.pinned \cup db.purged
    /\ \A c \in ipfs.unpin : c \in db.purged \/ (handler[c].at = "failed" /\ ~db.rows[c].stored)
    /\ \A a \in Act : KindOf[a] = "approve" /\ handler[a].at = "added" =>
          \/ Target[a] \in ipfs.pinned \cup db.purged
          \/ handler[Target[a]].at = "failed" /\ ~db.rows[Target[a]].stored

(* The alias looked up stays the one its scope has, up to the insert. *)
KeysAgree ==
    \A c \in Comment : handler[c].at \in Keyed =>
        /\ handler[c].key # Nil => \A x \in SharedAliases(db, c) : db.alias[x] = handler[c].key
        /\ By[c] \in ModAuthor => handler[c].key = Nil

(* Replies come after the post of their thread, which has its alias by then. *)
RootsAreDone ==
    Mode = "per-post" => \A c \in Comment :
        Parent[c] # Nil /\ handler[c].at \notin {"never", "idle"} /\ By[PostOf(c)] \notin ModAuthor => handler[PostOf(c)].at = "done"

(* The handlers of one alias key are chained on its lock, and only the first *)
(* of them is past it. *)
LocksFollow ==
    /\ \A k \in LockKeys : \A i, j \in 1..Len(aliasLock[k]) : i # j => aliasLock[k][i] # aliasLock[k][j]
    /\ \A k \in LockKeys : \A i \in 1..Len(aliasLock[k]) :
          /\ pseudonymityAliasLockKey(aliasLock[k][i]) = k
          /\ handler[aliasLock[k][i]].at \in {"lock"} \cup Keyed
    /\ \A c \in Comment : LET k == pseudonymityAliasLockKey(c) IN k # Nil =>
          /\ handler[c].at \in {"lock"} \cup Keyed => \E i \in 1..Len(aliasLock[k]) : aliasLock[k][i] = c
          /\ handler[c].at \in Keyed => aliasLock[k][1] = c

StoreInv ==
    /\ StoreTypes /\ TablesHold(db) /\ FewPending /\ RowsHaveHandlers /\ PinsFollow
    /\ KeysAgree /\ RootsAreDone /\ LocksFollow

----------------------------------------
(* The threads: the chain of parents of a reply ends in one post. *)
LEMMA AncestorsUnfold ==
    Ancestors = [c \in Comment |-> IF Parent[c] = Nil THEN {} ELSE {Parent[c]} \cup Ancestors[Parent[c]]]
<1> DEFINE Closed == {g \in [Comment -> SUBSET Comment] :
                        \A c \in Comment : Parent[c] # Nil => Parent[c] \in g[c] /\ g[Parent[c]] \subseteq g[c]}
           f == [c \in Comment |-> {x \in Comment : \A g \in Closed : x \in g[c]}]
           h == [c \in Comment |-> IF Parent[c] = Nil THEN {} ELSE {Parent[c]} \cup f[Parent[c]]]
<1>0. \A c \in Comment : Parent[c] # Nil => Parent[c] \in Comment BY StoreAssumption
<1>1. f \in Closed
 <2>1. f \in [Comment -> SUBSET Comment] OBVIOUS
 <2>2. ASSUME NEW c \in Comment, Parent[c] # Nil PROVE Parent[c] \in f[c] /\ f[Parent[c]] \subseteq f[c] BY <2>2, <1>0
 <2> QED BY <2>1, <2>2
<1>2. \A c \in Comment : h[c] \subseteq f[c] BY <1>1, <1>0
<1>3. h \in Closed
 <2>1. h \in [Comment -> SUBSET Comment] BY <1>0
 <2>2. ASSUME NEW c \in Comment, Parent[c] # Nil PROVE Parent[c] \in h[c] /\ h[Parent[c]] \subseteq h[c] BY <2>2, <1>0, <1>2
 <2> HIDE DEF h, f
 <2> QED BY <2>1, <2>2
<1>4. \A c \in Comment : f[c] \subseteq h[c] BY <1>3
<1>5. f = h
 <2>1. \A c \in Comment : f[c] = h[c] BY <1>2, <1>4
 <2>2. f = [c \in Comment |-> f[c]] /\ h = [c \in Comment |-> h[c]] OBVIOUS
 <2> HIDE DEF f, h
 <2> QED BY <2>1, <2>2
<1>6. f = [c \in Comment |-> IF Parent[c] = Nil THEN {} ELSE {Parent[c]} \cup f[Parent[c]]] BY <1>5
<1> HIDE DEF f
<1> QED BY <1>6 DEF Ancestors

(* A reply has exactly one post among its ancestors ... *)
LEMMA ThreadHasOnePost ==
    ASSUME NEW c \in Comment, Parent[c] # Nil
    PROVE  \E r \in Comment : Parent[r] = Nil /\ \A a : (a \in Ancestors[c] /\ Parent[a] = Nil) <=> a = r
<1> DEFINE Fine(x) == Parent[x] # Nil => \E r \in Comment : Parent[r] = Nil /\ \A a : (a \in Ancestors[x] /\ Parent[a] = Nil) <=> a = r
           B == {x \in Comment : ~Fine(x)}
<1>1. SUFFICES ASSUME B # {} PROVE FALSE OBVIOUS
<1>2. PICK x \in B : Parent[x] \notin B BY <1>1, StoreAssumption
<1>3. Parent[x] # Nil /\ Parent[x] \in Comment /\ Fine(Parent[x]) /\ ~Fine(x) BY <1>2, StoreAssumption
<1>4. Ancestors[x] = {Parent[x]} \cup Ancestors[Parent[x]] BY <1>3, AncestorsUnfold
<1>5. CASE Parent[Parent[x]] = Nil
 <2>1. Ancestors[Parent[x]] = {} BY <1>3, <1>5, AncestorsUnfold
 <2>2. \A a : (a \in Ancestors[x] /\ Parent[a] = Nil) <=> a = Parent[x] BY <2>1, <1>4, <1>5
 <2> QED BY <2>2, <1>3, <1>5
<1>6. CASE Parent[Parent[x]] # Nil
 <2>1. PICK r \in Comment : Parent[r] = Nil /\ \A a : (a \in Ancestors[Parent[x]] /\ Parent[a] = Nil) <=> a = r BY <1>3, <1>6
 <2>2. \A a : (a \in Ancestors[x] /\ Parent[a] = Nil) <=> a = r BY <2>1, <1>4, <1>6
 <2> QED BY <2>1, <2>2, <1>3
<1> QED BY <1>5, <1>6

(* ... and so has its parent, unless that is the post. *)
LEMMA PostOfThread ==
    ASSUME NEW c \in Comment
    PROVE  /\ PostOf(c) \in Comment /\ Parent[PostOf(c)] = Nil
           /\ Parent[c] = Nil => PostOf(c) = c
           /\ Parent[c] # Nil => Parent[c] \in Comment /\ PostOf(c) = PostOf(Parent[c])
<1>1. CASE Parent[c] = Nil BY <1>1 DEF PostOf
<1>2. CASE Parent[c] # Nil
 <2>0. Parent[c] \in Comment /\ Ancestors[c] = {Parent[c]} \cup Ancestors[Parent[c]] BY <1>2, AncestorsUnfold, StoreAssumption
 <2>1. PICK r \in Comment : Parent[r] = Nil /\ \A a : (a \in Ancestors[c] /\ Parent[a] = Nil) <=> a = r BY <1>2, ThreadHasOnePost
 <2>2. PostOf(c) = r BY <2>1, <1>2 DEF PostOf
 <2>3. CASE Parent[Parent[c]] = Nil BY <2>0, <2>1, <2>2, <2>3, <1>2 DEF PostOf
 <2>4. CASE Parent[Parent[c]] # Nil
  <3>1. PICK s \in Comment : Parent[s] = Nil /\ \A a : (a \in Ancestors[Parent[c]] /\ Parent[a] = Nil) <=> a = s
      BY <2>0, <2>4, ThreadHasOnePost
  <3>2. PostOf(Parent[c]) = s BY <3>1, <2>4 DEF PostOf
  <3>3. r = s BY <2>0, <2>1, <3>1
  <3> QED BY <3>2, <3>3, <2>0, <2>1, <2>2, <1>2
 <2> QED BY <2>3, <2>4
<1> QED BY <1>1, <1>2

----------------------------------------
(* The numbers. *)
LEMMA MaxIsHighest ==
    ASSUME NEW S \in SUBSET Nat, NEW n \in Nat, \A m \in S : m <= n
    PROVE  MaxOf(S) \in Nat /\ MaxOf(S) <= n /\ \A m \in S : m <= MaxOf(S)
<1> DEFINE U == {k \in Nat : \A m \in S : m <= k}
<1>1. PICK k \in U : \A j \in U : k <= j BY LeastOfNaturals
<1>2. k \in S \cup {0}
 <2>1. SUFFICES ASSUME k \notin S, k # 0 PROVE FALSE OBVIOUS
 <2>2. k - 1 \in U BY <2>1
 <2> QED BY <1>1, <2>2
<1>3. \A m \in S : m <= k OBVIOUS
<1>4. MaxOf(S) \in S \cup {0} /\ \A m \in S : m <= MaxOf(S) BY <1>2, <1>3, Zenon DEF MaxOf
<1>5. \A m \in S \cup {0} : m \in Nat /\ m <= n OBVIOUS
<1> QED BY <1>4, <1>5

(* getNextCommentNumbers: what it gives out is above what the rows have. *)
LEMMA NextNumbersAreNew ==
    ASSUME NEW d \in Tables, NumbersHold(d), NEW c \in Comment
    PROVE  LET q == getNextCommentNumbers(d, c) IN
           /\ q.number \in Nat /\ q.number > 0 /\ q.post \in Nat /\ (q.post > 0 => Parent[c] = Nil)
           /\ \A x \in StoredIn(d) : d.rows[x].number < q.number /\ (q.post > 0 => d.rows[x].post < q.post)
<1> DEFINE S == {d.rows[x].number : x \in Numbered(d)}
           P == {d.rows[x].post : x \in {y \in Numbered(d) : Parent[y] = Nil}}
           q == getNextCommentNumbers(d, c)
<1>1. PICK n \in Nat : \A x \in Comment : d.rows[x].number <= n /\ d.rows[x].post <= n BY DEF NumbersHold
<1>2. \A x \in Comment : d.rows[x].number \in Nat /\ d.rows[x].post \in Nat BY DEF Tables, RowRecords
<1>3. Numbered(d) \subseteq Comment BY DEF Numbered, StoredIn
<1>4. MaxOf(S) \in Nat /\ \A m \in S : m <= MaxOf(S)
 <2>1. S \in SUBSET Nat /\ \A m \in S : m <= n BY <1>1, <1>2, <1>3
 <2> HIDE DEF S
 <2> QED BY <2>1, MaxIsHighest
<1>5. MaxOf(P) \in Nat /\ \A m \in P : m <= MaxOf(P)
 <2>1. P \in SUBSET Nat /\ \A m \in P : m <= n BY <1>1, <1>2, <1>3
 <2> HIDE DEF P
 <2> QED BY <2>1, MaxIsHighest
<1>6. q.number = 1 + MaxOf(S) /\ q.post = IF Parent[c] # Nil THEN 0 ELSE 1 + MaxOf(P) BY DEF getNextCommentNumbers
<1>7. ASSUME NEW x \in StoredIn(d) PROVE d.rows[x].number < q.number /\ (q.post > 0 => d.rows[x].post < q.post)
 <2>1. x \in Comment BY DEF StoredIn
 <2>2. d.rows[x].number > 0 => x \in Numbered(d) BY <2>1 DEF NumbersHold, Numbered, StoredIn
 <2>3. d.rows[x].post > 0 => x \in Numbered(d) /\ Parent[x] = Nil BY <2>1, <2>2 DEF NumbersHold
 <2>4. d.rows[x].number <= MaxOf(S) BY <2>1, <2>2, <1>2, <1>4
 <2>5. d.rows[x].post <= MaxOf(P) BY <2>1, <2>3, <1>2, <1>5
 <2> HIDE DEF S, P, q
 <2> QED BY <2>1, <2>4, <2>5, <1>2, <1>4, <1>5, <1>6
<1> HIDE DEF S, P
<1> QED BY <1>4, <1>5, <1>6, <1>7

(* SQLite numbers the rows themselves. *)
LEMMA RowIdIsNatural ==
    ASSUME NEW d \in Tables, NumbersHold(d)
    PROVE  MaxOf({d.rows[x].rowid : x \in Comment}) \in Nat
<1>1. PICK n \in Nat : \A x \in Comment : d.rows[x].rowid <= n BY DEF NumbersHold
<1>2. \A x \in Comment : d.rows[x].rowid \in Nat BY DEF Tables, RowRecords
<1> DEFINE S == {d.rows[x].rowid : x \in Comment}
<1>3. S \in SUBSET Nat /\ \A m \in S : m <= n BY <1>1, <1>2
<1>4. MaxOf(S) \in Nat
 <2> HIDE DEF S
 <2> QED BY <1>3, MaxIsHighest
<1> QED BY <1>4

(* A row written keeps the numbers in order when its own are new. *)
FreshIn(d, c, r) ==
    /\ r.pending => r.number = 0
    /\ r.post > 0 => r.number > 0 /\ Parent[c] = Nil
    /\ \A x \in StoredIn(d) \ {c} : /\ r.number > 0 => r.number # d.rows[x].number
                                    /\ r.post > 0 => r.post # d.rows[x].post

(* A row with such numbers may be written. *)
LEMMA RowWritten ==
    ASSUME NEW d \in Tables, NEW e \in Tables, NumbersHold(d), NEW c \in Comment, NEW r \in RowRecords,
           e.rows = [d.rows EXCEPT ![c] = r], r.stored => FreshIn(d, c, r)
    PROVE  NumbersHold(e)
<1>1. PICK n \in Nat : \A x \in Comment : d.rows[x].number <= n /\ d.rows[x].post <= n /\ d.rows[x].rowid <= n BY DEF NumbersHold
<1>2. \A x \in Comment : d.rows[x] \in RowRecords /\ e.rows[x] = IF x = c THEN r ELSE d.rows[x] BY DEF Tables
<1>3. r.number \in Nat /\ r.post \in Nat /\ r.rowid \in Nat BY DEF RowRecords
<1>4. \E m \in Nat : \A x \in Comment : e.rows[x].number <= m /\ e.rows[x].post <= m /\ e.rows[x].rowid <= m
 <2> DEFINE m == n + r.number + r.post + r.rowid
 <2>1. m \in Nat /\ n <= m /\ r.number <= m /\ r.post <= m /\ r.rowid <= m BY <1>3
 <2>2. ASSUME NEW x \in Comment PROVE e.rows[x].number <= m /\ e.rows[x].post <= m /\ e.rows[x].rowid <= m
  <3>1. d.rows[x].number \in Nat /\ d.rows[x].post \in Nat /\ d.rows[x].rowid \in Nat BY <1>2 DEF RowRecords
  <3> HIDE DEF m
  <3> QED BY <3>1, <1>1, <1>2, <2>1
 <2> QED BY <2>1, <2>2
<1>5. ASSUME NEW x \in StoredIn(e)
      PROVE  x \in Comment /\ ((x = c /\ r.stored) \/ x \in StoredIn(d)) /\ (x = c => r.stored)
    BY <1>2 DEF StoredIn
<1>6. ASSUME NEW x \in StoredIn(e)
      PROVE  /\ e.rows[x].pending => e.rows[x].number = 0
             /\ e.rows[x].post > 0 => e.rows[x].number > 0 /\ Parent[x] = Nil
    BY <1>5, <1>2 DEF NumbersHold, FreshIn
<1>7. ASSUME NEW x \in StoredIn(e), NEW y \in StoredIn(e), x # y
      PROVE  /\ e.rows[x].number > 0 => e.rows[x].number # e.rows[y].number
             /\ e.rows[x].post > 0 => e.rows[x].post # e.rows[y].post
 <2>0. d.rows[x].number \in Nat /\ d.rows[x].post \in Nat /\ d.rows[y].number \in Nat /\ d.rows[y].post \in Nat
     BY <1>5, <1>7, <1>2 DEF RowRecords
 <2>1. CASE x = c
  <3>1. y \in StoredIn(d) \ {c} /\ FreshIn(d, c, r) /\ e.rows[x] = r /\ e.rows[y] = d.rows[y] BY <2>1, <1>5, <1>7, <1>2
  <3> QED BY <3>1 DEF FreshIn
 <2>2. CASE y = c
  <3>1. x \in StoredIn(d) \ {c} /\ FreshIn(d, c, r) /\ e.rows[y] = r /\ e.rows[x] = d.rows[x] BY <2>2, <1>5, <1>7, <1>2
  <3> QED BY <3>1, <2>0, <1>3 DEF FreshIn
 <2>3. CASE x # c /\ y # c BY <2>3, <1>5, <1>7, <1>2 DEF NumbersHold
 <2> QED BY <2>1, <2>2, <2>3
<1> QED BY <1>4, <1>6, <1>7 DEF NumbersHold

----------------------------------------
(* A purge, an eviction: rows go, with their aliases, and are remembered. *)
Removes(d, e) ==
    \E swept \in SUBSET StoredIn(d) :
        /\ e.rows = [x \in Comment |-> IF x \in swept THEN Absent ELSE d.rows[x]]
        /\ e.alias = [x \in Comment |-> IF x \in swept THEN Nil ELSE d.alias[x]]
        /\ e.purged = d.purged \cup swept
        /\ e.mods = d.mods

(* purgeComment takes a tree of rows away, with their aliases. *)
LEMMA PurgeRemoves ==
    ASSUME NEW d \in Tables, NEW c \in Comment, NEW random
    PROVE  LET e == purgeComment(d, c, random) IN
           e \in Tables /\ Removes(d, e) /\ e.purged = d.purged \cup Subtree(d, c) /\ ~e.rows[c].stored
<1> DEFINE swept == Subtree(d, c)
           e == purgeComment(d, c, random)
           kept == ForcedByPurge(d, swept)
<1>1. swept \subseteq StoredIn(d) /\ swept \subseteq Comment /\ (d.rows[c].stored => c \in swept) BY DEF Subtree, StoredIn
<1>2. e = [d EXCEPT !.rows = [x \in Comment |-> IF x \in swept THEN Absent ELSE d.rows[x]],
                    !.alias = [x \in Comment |-> IF x \in swept THEN Nil ELSE d.alias[x]],
                    !.votes = {a \in d.votes : Target[a] \notin swept},
                    !.edits = {a \in d.edits : Target[a] \notin swept},
                    !.marked = d.marked \ (swept \cup kept \cup {random}),
                    !.inCycle = d.inCycle \ swept,
                    !.purged = d.purged \cup swept]
    BY DEF purgeComment
<1>3. Absent \in RowRecords BY DEF Absent, RowRecords
<1> HIDE DEF swept, kept, e
<1>4. e \in Tables BY <1>1, <1>2, <1>3 DEF Tables
<1>5. /\ e.rows = [x \in Comment |-> IF x \in swept THEN Absent ELSE d.rows[x]]
      /\ e.alias = [x \in Comment |-> IF x \in swept THEN Nil ELSE d.alias[x]]
      /\ e.purged = d.purged \cup swept /\ e.mods = d.mods
    BY <1>2 DEF Tables
<1>6. Removes(d, e) BY <1>1, <1>5 DEF Removes
<1>7. ~e.rows[c].stored
 <2>1. CASE d.rows[c].stored BY <2>1, <1>1, <1>5 DEF Absent
 <2>2. CASE ~d.rows[c].stored BY <2>2, <1>1, <1>5 DEF Absent
 <2> QED BY <2>1, <2>2
<1> QED BY <1>1, <1>4, <1>5, <1>6, <1>7 DEF e, swept

(* What two comments share an alias for. *)
InScope(c, x) ==
    /\ By[x] = By[c]
    /\ Mode = "per-author" \/ (Mode = "per-post" /\ Parent[c] # Nil /\ PostOf(x) = PostOf(c))

(* The aliases shared with a comment are the ones of its scope. *)
LEMMA SharedIsInScope ==
    ASSUME NEW d, NEW c
    PROVE  SharedAliases(d, c) = {x \in StoredIn(d) : d.alias[x] # Nil /\ InScope(c, x)}
BY DEF SharedAliases, InScope

(* Rows that go leave the tables consistent. *)
LEMMA RemovalKeeps ==
    ASSUME NEW d \in Tables, NEW e \in Tables, TablesHold(d), Removes(d, e)
    PROVE  /\ TablesHold(e) /\ d.purged \subseteq e.purged
           /\ \A x \in StoredIn(e) : x \in StoredIn(d) /\ e.rows[x] = d.rows[x] /\ e.alias[x] = d.alias[x]
           /\ \A x \in StoredIn(d) \ StoredIn(e) : x \in e.purged
           /\ \A x \in Comment : SharedAliases(e, x) \subseteq SharedAliases(d, x)
<1>1. PICK swept \in SUBSET StoredIn(d) :
          /\ e.rows = [x \in Comment |-> IF x \in swept THEN Absent ELSE d.rows[x]]
          /\ e.alias = [x \in Comment |-> IF x \in swept THEN Nil ELSE d.alias[x]]
          /\ e.purged = d.purged \cup swept /\ e.mods = d.mods
    BY DEF Removes
<1>2. Absent.stored = FALSE /\ Absent.number = 0 /\ Absent.post = 0 /\ Absent.rowid = 0 BY DEF Absent
<1>3. /\ \A x \in StoredIn(e) : x \in StoredIn(d) /\ e.rows[x] = d.rows[x] /\ e.alias[x] = d.alias[x]
      /\ \A x \in StoredIn(d) \ StoredIn(e) : x \in e.purged
    BY <1>1, <1>2 DEF StoredIn
<1>4. \A x \in Comment : SharedAliases(e, x) \subseteq SharedAliases(d, x) BY <1>3, SharedIsInScope
<1>5. NumbersHold(e)
 <2>1. PICK n \in Nat : \A x \in Comment : d.rows[x].number <= n /\ d.rows[x].post <= n /\ d.rows[x].rowid <= n
     BY DEF TablesHold, NumbersHold
 <2>2. \A x \in Comment : e.rows[x].number <= n /\ e.rows[x].post <= n /\ e.rows[x].rowid <= n BY <2>1, <1>1, <1>2
 <2> QED BY <2>2, <1>3 DEF TablesHold, NumbersHold
<1>6. VerdictsHold(e)
 <2> SUFFICES ASSUME NEW x \in Comment, ApprovedByMod(e, x), x \notin e.purged
              PROVE  e.rows[x].stored /\ ~e.rows[x].pending /\ e.rows[x].number > 0
     BY DEF VerdictsHold
 <2>1. ApprovedByMod(d, x) BY <1>1 DEF ApprovedByMod, Verdicts
 <2>2. x \notin d.purged /\ d.rows[x].stored /\ ~d.rows[x].pending /\ d.rows[x].number > 0 BY <2>1, <1>1 DEF TablesHold, VerdictsHold
 <2>3. x \in StoredIn(e) BY <2>2, <1>3 DEF StoredIn
 <2> QED BY <2>2, <2>3, <1>3 DEF StoredIn
<1>7. AliasesAgree(e)
 <2>1. ASSUME NEW c \in StoredIn(e), NEW x \in SharedAliases(e, c), e.alias[c] # Nil PROVE e.alias[c] = e.alias[x]
  <3>1. c \in StoredIn(d) /\ c \in Comment /\ x \in SharedAliases(d, c) /\ x \in StoredIn(e) BY <1>3, <1>4, SharedIsInScope DEF StoredIn
  <3> QED BY <3>1, <2>1, <1>3 DEF TablesHold, AliasesAgree
 <2>2. ASSUME NEW c \in Comment, ~e.rows[c].stored PROVE e.alias[c] = Nil BY <2>2, <1>1 DEF TablesHold, AliasesAgree
 <2> QED BY <2>1, <2>2 DEF AliasesAgree
<1> QED BY <1>1, <1>3, <1>4, <1>5, <1>6, <1>7 DEF TablesHold

(* A moderation approves what it is about and nothing else. *)
LEMMA OneMoreVerdict ==
    ASSUME NEW d \in Tables, NEW e, NEW r \in ModRecords, e.mods = Append(d.mods, r), NEW x, ApprovedByMod(e, x)
    PROVE  ApprovedByMod(d, x) \/ (r.kind = "approve" /\ r.target = x)
<1> DEFINE n == Len(d.mods)
<1>1. d.mods \in Seq(ModRecords) /\ n \in Nat BY DEF Tables
<1>2. Len(e.mods) = n + 1 /\ e.mods[n + 1] = r /\ \A i \in 1..n : e.mods[i] = d.mods[i] BY <1>1
<1>3. PICK i \in Verdicts(e, x) : e.mods[i].kind = "approve" /\ \A j \in Verdicts(e, x) : j <= i BY DEF ApprovedByMod
<1>4. \A j \in Verdicts(d, x) : j \in Verdicts(e, x) BY <1>1, <1>2 DEF Verdicts
<1>5. i = n + 1 \/ i \in 1..n BY <1>1, <1>2, <1>3 DEF Verdicts
<1>6. CASE i = n + 1 BY <1>2, <1>3, <1>6 DEF Verdicts
<1>7. CASE i \in 1..n
 <2>1. i \in Verdicts(d, x) /\ d.mods[i].kind = "approve" BY <1>2, <1>3, <1>7 DEF Verdicts
 <2> QED BY <2>1, <1>3, <1>4 DEF ApprovedByMod
<1> QED BY <1>5, <1>6, <1>7

(* A moderation is inserted; an approval once its row is numbered. *)
LEMMA ModerationKeeps ==
    ASSUME NEW d \in Tables, NEW e \in Tables, TablesHold(d), NEW r \in ModRecords,
           e.rows = d.rows, e.alias = d.alias, e.purged = d.purged, e.mods = Append(d.mods, r),
           r.kind = "approve" => d.rows[r.target].stored /\ ~d.rows[r.target].pending /\ d.rows[r.target].number > 0
    PROVE  TablesHold(e)
<1>1. StoredIn(e) = StoredIn(d) /\ \A c : SharedAliases(e, c) = SharedAliases(d, c) BY SharedIsInScope DEF StoredIn
<1>2. NumbersHold(e) /\ AliasesAgree(e) BY <1>1 DEF TablesHold, NumbersHold, AliasesAgree
<1>3. VerdictsHold(e) BY OneMoreVerdict DEF TablesHold, VerdictsHold
<1> QED BY <1>2, <1>3 DEF TablesHold

(* One row is written; it stays stored, and numbered if it was approved. *)
LEMMA RowKeeps ==
    ASSUME NEW d \in Tables, NEW e \in Tables, TablesHold(d), NEW c \in Comment, NEW r \in RowRecords,
           e.rows = [d.rows EXCEPT ![c] = r], e.mods = d.mods, e.alias = d.alias, e.purged = d.purged,
           NumbersHold(e), d.rows[c].stored => r.stored,
           ApprovedByMod(d, c) /\ c \notin d.purged => r.stored /\ ~r.pending /\ r.number > 0
    PROVE  /\ TablesHold(e)
           /\ \A x \in Comment : SharedAliases(e, x) = SharedAliases(d, x)
<1>1. \A x \in Comment : e.rows[x] = IF x = c THEN r ELSE d.rows[x] BY DEF Tables
<1>2. \A x \in Comment : ~d.rows[x].stored => d.alias[x] = Nil BY DEF TablesHold, AliasesAgree
<1>3. \A x \in Comment : SharedAliases(e, x) = SharedAliases(d, x)
 <2>1. \A x \in StoredIn(d) : x \in StoredIn(e) BY <1>1 DEF StoredIn
 <2>2. \A x \in StoredIn(e) : e.alias[x] # Nil => x \in StoredIn(d) BY <1>2 DEF StoredIn
 <2> QED BY <2>1, <2>2, SharedIsInScope
<1>4. VerdictsHold(e)
 <2>1. \A x : ApprovedByMod(e, x) = ApprovedByMod(d, x) BY DEF ApprovedByMod, Verdicts
 <2> QED BY <2>1, <1>1 DEF TablesHold, VerdictsHold
<1>5. AliasesAgree(e)
 <2>1. ASSUME NEW y \in StoredIn(e), NEW x \in SharedAliases(e, y), e.alias[y] # Nil PROVE e.alias[y] = e.alias[x]
  <3>1. y \in Comment /\ y \in StoredIn(d) BY <1>2, <2>1 DEF StoredIn
  <3> QED BY <3>1, <2>1, <1>3 DEF TablesHold, AliasesAgree
 <2>2. \A x \in Comment : ~e.rows[x].stored => e.alias[x] = Nil BY <1>1, <1>2
 <2> QED BY <2>1, <2>2 DEF AliasesAgree
<1> QED BY <1>3, <1>4, <1>5 DEF TablesHold

(* One alias is inserted, the one its scope has already. *)
LEMMA AliasKeeps ==
    ASSUME NEW d \in Tables, NEW e \in Tables, TablesHold(d), NEW c \in Comment, NEW k,
           e.rows = d.rows, e.mods = d.mods, e.purged = d.purged, e.alias = [d.alias EXCEPT ![c] = k],
           k # Nil => d.rows[c].stored,
           k # Nil => \A x \in SharedAliases(d, c) : d.alias[x] = k,
           k # Nil => \A y \in StoredIn(d) : d.alias[y] # Nil /\ InScope(y, c) => InScope(c, y)
    PROVE  TablesHold(e)
<1>1. \A x \in Comment : e.alias[x] = IF x = c THEN k ELSE d.alias[x] BY DEF Tables
<1>2. StoredIn(e) = StoredIn(d) /\ StoredIn(d) \subseteq Comment BY DEF StoredIn
<1>3. NumbersHold(e) BY <1>2 DEF TablesHold, NumbersHold
<1>4. VerdictsHold(e) BY DEF TablesHold, VerdictsHold, ApprovedByMod, Verdicts
<1>5. AliasesAgree(e)
 <2>1. ASSUME NEW y \in StoredIn(e), NEW x \in SharedAliases(e, y), e.alias[y] # Nil PROVE e.alias[y] = e.alias[x]
  <3>1. y \in StoredIn(d) /\ x \in StoredIn(d) /\ e.alias[x] # Nil /\ InScope(y, x) /\ x \in Comment /\ y \in Comment
      BY <1>2, SharedIsInScope
  <3>2. CASE y = c
   <4>1. CASE x = c BY <4>1, <3>2
   <4>2. CASE x # c
    <5>1. x \in SharedAliases(d, c) BY <4>2, <3>1, <3>2, <1>1, SharedIsInScope
    <5> QED BY <5>1, <4>2, <3>1, <3>2, <1>1, <2>1
   <4> QED BY <4>1, <4>2
  <3>3. CASE y # c /\ x = c
   <4>1. k # Nil /\ d.alias[y] # Nil BY <3>3, <3>1, <2>1, <1>1
   <4>2. y \in SharedAliases(d, c) BY <4>1, <3>1, <3>3, SharedIsInScope
   <4> QED BY <4>1, <4>2, <3>1, <3>3, <1>1
  <3>4. CASE y # c /\ x # c
   <4>1. x \in SharedAliases(d, y) BY <3>1, <3>4, <1>1, SharedIsInScope
   <4> QED BY <4>1, <3>1, <3>4, <1>1, <2>1 DEF TablesHold, AliasesAgree
  <3> QED BY <3>2, <3>3, <3>4
 <2>2. \A x \in Comment : ~e.rows[x].stored => e.alias[x] = Nil BY <1>1 DEF TablesHold, AliasesAgree
 <2> QED BY <2>1, <2>2 DEF AliasesAgree
<1> QED BY <1>3, <1>4, <1>5 DEF TablesHold

----------------------------------------
(* The locks on the aliases. *)
LockOf(c) == pseudonymityAliasLockKey(c)
Chained == {"lock"} \cup Keyed

(* The lock of a comment, if it needs one. *)
LEMMA LockIsKey ==
    ASSUME NEW c \in Comment
    PROVE  (LockOf(c) = Nil \/ LockOf(c) \in LockKeys) /\ Nil \notin LockKeys
BY StoreAssumption, PostOfThread DEF LockOf, pseudonymityAliasLockKey, LockKeys

(* Whoever shares a scope shares its lock, but for the post of a thread. *)
LEMMA ScopeHasLock ==
    ASSUME NEW c \in Comment, NEW x \in Comment, InScope(c, x)
    PROVE  \/ LockOf(c) = LockOf(x) /\ LockOf(c) # Nil /\ InScope(x, c)
           \/ Mode = "per-post" /\ Parent[c] # Nil /\ x = PostOf(c)
<1>0. By[c] \in Author BY StoreAssumption
<1>1. CASE Mode = "per-author"
 <2>1. LockOf(c) = <<By[c], Nil>> /\ LockOf(x) = <<By[x], Nil>> BY <1>1 DEF LockOf, pseudonymityAliasLockKey
 <2>2. <<By[c], Nil>> \in LockKeys BY <1>0 DEF LockKeys
 <2> QED BY <1>1, <2>1, <2>2, LockIsKey DEF InScope
<1>2. CASE Mode = "per-post" /\ Parent[x] # Nil
 <2>1. LockOf(c) = <<By[c], PostOf(c)>> /\ LockOf(x) = <<By[x], PostOf(x)>> BY <1>2 DEF LockOf, pseudonymityAliasLockKey, InScope
 <2>2. <<By[c], PostOf(c)>> \in LockKeys BY <1>0, PostOfThread DEF LockKeys
 <2> QED BY <1>2, <2>1, <2>2, LockIsKey DEF InScope
<1>3. CASE Mode = "per-post" /\ Parent[x] = Nil BY <1>3, PostOfThread DEF InScope
<1> QED BY <1>1, <1>2, <1>3 DEF InScope

(* The locks when nobody moves, joins, goes on or lets go. *)
LEMMA LocksRest ==
    ASSUME LocksFollow, \A x \in Comment : handler'[x].at = handler[x].at, UNCHANGED aliasLock,
           aliasLock \in [LockKeys -> Seq(Comment)]
    PROVE  LocksFollow'
<1>1. ASSUME NEW k \in LockKeys, NEW i \in 1..Len(aliasLock[k]) PROVE aliasLock[k][i] \in Comment OBVIOUS
<1> QED BY <1>1 DEF LocksFollow, Keyed

(* A handler joins the chain of its lock ... *)
LEMMA LocksJoin ==
    ASSUME LocksFollow, aliasLock \in [LockKeys -> Seq(Comment)], NEW c \in Comment, handler[c].at \notin Chained,
           handler'[c].at = "lock", \A x \in Comment \ {c} : handler'[x].at = handler[x].at, JoinAliasLock(c)
    PROVE  LocksFollow' /\ aliasLock' \in [LockKeys -> Seq(Comment)]
<1> DEFINE k == LockOf(c)
           n == Len(aliasLock[k])
<1>1. CASE k = Nil
 <2>1. UNCHANGED aliasLock BY <1>1 DEF JoinAliasLock, LockOf
 <2>2. \A l \in LockKeys : \A i \in 1..Len(aliasLock[l]) : aliasLock[l][i] \in Comment /\ aliasLock[l][i] # c BY DEF LocksFollow, Chained
 <2> QED BY <2>1, <2>2, <1>1 DEF LocksFollow, LockOf, Keyed
<1>2. CASE k # Nil
 <2>1. k \in LockKeys BY <1>2, LockIsKey
 <2>2. aliasLock' = [aliasLock EXCEPT ![k] = Append(aliasLock[k], c)] BY <1>2 DEF JoinAliasLock, LockOf
 <2>3. aliasLock[k] \in Seq(Comment) /\ n \in Nat BY <2>1
 <2>4. /\ \A l \in LockKeys \ {k} : aliasLock'[l] = aliasLock[l]
       /\ Len(aliasLock'[k]) = n + 1 /\ aliasLock'[k][n + 1] = c /\ \A i \in 1..n : aliasLock'[k][i] = aliasLock[k][i]
     BY <2>1, <2>2, <2>3
 <2>5. \A l \in LockKeys : \A i \in 1..Len(aliasLock[l]) : aliasLock[l][i] \in Comment /\ aliasLock[l][i] # c BY DEF LocksFollow, Chained
 <2>6. aliasLock' \in [LockKeys -> Seq(Comment)]
  <3>1. Append(aliasLock[k], c) \in Seq(Comment) BY <2>3
  <3> QED BY <3>1, <2>2
 <2>7. ASSUME NEW l \in LockKeys, NEW i \in 1..Len(aliasLock'[l])
       PROVE  /\ pseudonymityAliasLockKey(aliasLock'[l][i]) = l
              /\ handler'[aliasLock'[l][i]].at \in {"lock"} \cup Keyed
  <3>1. CASE l = k /\ i = n + 1 BY <3>1, <2>4 DEF LockOf
  <3>2. CASE l = k /\ i # n + 1
   <4>1. i \in 1..n /\ aliasLock'[l][i] = aliasLock[l][i] BY <3>2, <2>3, <2>4
   <4> QED BY <4>1, <3>2, <2>5 DEF LocksFollow
  <3>3. CASE l # k
   <4>1. aliasLock'[l] = aliasLock[l] /\ i \in 1..Len(aliasLock[l]) BY <3>3, <2>4
   <4>2. pseudonymityAliasLockKey(aliasLock[l][i]) = l /\ handler[aliasLock[l][i]].at \in {"lock"} \cup Keyed BY <4>1 DEF LocksFollow
   <4> QED BY <4>1, <4>2, <2>5
  <3> QED BY <3>1, <3>2, <3>3
 <2>8. ASSUME NEW l \in LockKeys, NEW i \in 1..Len(aliasLock'[l]), NEW j \in 1..Len(aliasLock'[l]), i # j
       PROVE  aliasLock'[l][i] # aliasLock'[l][j]
  <3>1. CASE l # k BY <3>1, <2>4, <2>8 DEF LocksFollow
  <3>2. CASE l = k
   <4>1. (i \in 1..n \/ i = n + 1) /\ (j \in 1..n \/ j = n + 1) BY <3>2, <2>3, <2>4
   <4> QED BY <4>1, <3>2, <2>1, <2>4, <2>5, <2>8 DEF LocksFollow
  <3> QED BY <3>1, <3>2
 <2>9. ASSUME NEW x \in Comment, LockOf(x) # Nil
       PROVE  /\ handler'[x].at \in {"lock"} \cup Keyed => \E i \in 1..Len(aliasLock'[LockOf(x)]) : aliasLock'[LockOf(x)][i] = x
              /\ handler'[x].at \in Keyed => aliasLock'[LockOf(x)][1] = x
  <3>1. CASE x = c
   <4>1. n + 1 \in 1..Len(aliasLock'[k]) BY <2>3, <2>4
   <4> QED BY <4>1, <3>1, <2>4 DEF Keyed
  <3>2. CASE x # c /\ LockOf(x) # k BY <3>2, <2>9, <2>4, LockIsKey DEF LocksFollow, LockOf
  <3>3. CASE x # c /\ LockOf(x) = k
   <4>1. handler'[x].at \in {"lock"} \cup Keyed => \E i \in 1..n : aliasLock[k][i] = x BY <3>3, <2>9 DEF LocksFollow, LockOf
   <4>2. handler'[x].at \in Keyed => aliasLock[k][1] = x /\ 1 \in 1..n BY <4>1, <3>3, <2>9, <2>3 DEF LocksFollow, LockOf
   <4>3. 1..n \subseteq 1..Len(aliasLock'[k]) BY <2>3, <2>4
   <4> QED BY <4>1, <4>2, <4>3, <3>3, <2>4
  <3> QED BY <3>1, <3>2, <3>3
 <2> HIDE DEF k, n
 <2> QED BY <2>6, <2>7, <2>8, <2>9 DEF LocksFollow, LockOf
<1> QED BY <1>1, <1>2

(* ... goes past it as the first ... *)
LEMMA LocksMove ==
    ASSUME LocksFollow, aliasLock \in [LockKeys -> Seq(Comment)], NEW c \in Comment, handler[c].at \in Chained,
           handler'[c].at \in Keyed, \A x \in Comment \ {c} : handler'[x].at = handler[x].at, UNCHANGED aliasLock,
           LockOf(c) # Nil => aliasLock[LockOf(c)][1] = c
    PROVE  LocksFollow'
<1>1. \A k \in LockKeys : \A i \in 1..Len(aliasLock[k]) : aliasLock[k][i] \in Comment OBVIOUS
<1>2. \A x \in Comment : /\ handler'[x].at \in {"lock"} \cup Keyed <=> handler[x].at \in {"lock"} \cup Keyed
                         /\ x # c => (handler'[x].at \in Keyed <=> handler[x].at \in Keyed)
    BY DEF Chained
<1>3. \A k \in LockKeys : \A i \in 1..Len(aliasLock[k]) :
          pseudonymityAliasLockKey(aliasLock[k][i]) = k /\ handler'[aliasLock[k][i]].at \in {"lock"} \cup Keyed
    BY <1>1, <1>2 DEF LocksFollow
<1>4. ASSUME NEW x \in Comment, LockOf(x) # Nil
      PROVE  /\ handler'[x].at \in {"lock"} \cup Keyed => \E i \in 1..Len(aliasLock[LockOf(x)]) : aliasLock[LockOf(x)][i] = x
             /\ handler'[x].at \in Keyed => aliasLock[LockOf(x)][1] = x
    BY <1>2, <1>4 DEF LocksFollow, LockOf
<1> QED BY <1>3, <1>4 DEF LocksFollow, LockOf

(* ... and lets it go to the next. *)
LEMMA LocksRelease ==
    ASSUME LocksFollow, aliasLock \in [LockKeys -> Seq(Comment)], NEW c \in Comment, handler[c].at \in Chained,
           handler'[c].at \notin Chained, \A x \in Comment \ {c} : handler'[x].at = handler[x].at, ReleaseAliasLock(c),
           LockOf(c) # Nil => aliasLock[LockOf(c)][1] = c
    PROVE  LocksFollow' /\ aliasLock' \in [LockKeys -> Seq(Comment)]
<1> DEFINE k == LockOf(c)
           n == Len(aliasLock[k])
<1>0. \A l \in LockKeys : \A i \in 1..Len(aliasLock[l]) : aliasLock[l][i] \in Comment OBVIOUS
<1>1. CASE k = Nil
 <2>1. UNCHANGED aliasLock BY <1>1 DEF ReleaseAliasLock, LockOf
 <2>2. \A l \in LockKeys : \A i \in 1..Len(aliasLock[l]) : aliasLock[l][i] # c BY <1>1, LockIsKey DEF LocksFollow, LockOf
 <2> QED BY <2>1, <2>2, <1>0, <1>1 DEF LocksFollow, LockOf, Chained
<1>2. CASE k # Nil
 <2>1. k \in LockKeys BY <1>2, LockIsKey
 <2>2. aliasLock' = [aliasLock EXCEPT ![k] = Tail(aliasLock[k])] BY <1>2 DEF ReleaseAliasLock, LockOf
 <2>3. aliasLock[k] \in Seq(Comment) /\ n \in Nat /\ n > 0 /\ aliasLock[k][1] = c
  <3>1. \E i \in 1..n : aliasLock[k][i] = c BY <1>2 DEF LocksFollow, LockOf, Chained
  <3> QED BY <3>1, <2>1, <1>2
 <2>4. /\ \A l \in LockKeys \ {k} : aliasLock'[l] = aliasLock[l]
       /\ Len(aliasLock'[k]) = n - 1 /\ \A i \in 1..(n - 1) : aliasLock'[k][i] = aliasLock[k][i + 1]
     BY <2>1, <2>2, <2>3
 <2>5. \A l \in LockKeys \ {k} : \A i \in 1..Len(aliasLock[l]) : aliasLock[l][i] # c BY <2>1 DEF LocksFollow, LockOf
 <2>6. \A i \in 1..n : i # 1 => aliasLock[k][i] # c
  <3>1. 1 \in 1..n BY <2>3
  <3> QED BY <3>1, <2>1, <2>3 DEF LocksFollow
 <2>7. aliasLock' \in [LockKeys -> Seq(Comment)]
  <3>1. Tail(aliasLock[k]) \in Seq(Comment) BY <2>3
  <3> QED BY <3>1, <2>2
 <2>8. ASSUME NEW l \in LockKeys, NEW i \in 1..Len(aliasLock'[l])
       PROVE  /\ pseudonymityAliasLockKey(aliasLock'[l][i]) = l
              /\ handler'[aliasLock'[l][i]].at \in {"lock"} \cup Keyed
  <3>1. CASE l # k
   <4>1. aliasLock'[l] = aliasLock[l] /\ i \in 1..Len(aliasLock[l]) BY <3>1, <2>4
   <4>2. pseudonymityAliasLockKey(aliasLock[l][i]) = l /\ handler[aliasLock[l][i]].at \in {"lock"} \cup Keyed BY <4>1 DEF LocksFollow
   <4>3. aliasLock[l][i] \in Comment \ {c} BY <4>1, <3>1, <2>5, <1>0
   <4> QED BY <4>1, <4>2, <4>3
  <3>2. CASE l = k
   <4>1. i + 1 \in 1..n /\ i + 1 # 1 /\ aliasLock'[l][i] = aliasLock[k][i + 1] BY <3>2, <2>3, <2>4
   <4>2. aliasLock[k][i + 1] \in Comment /\ aliasLock[k][i + 1] # c BY <4>1, <2>1, <2>6, <1>0
   <4> QED BY <4>1, <4>2, <3>2 DEF LocksFollow
  <3> QED BY <3>1, <3>2
 <2>9. ASSUME NEW l \in LockKeys, NEW i \in 1..Len(aliasLock'[l]), NEW j \in 1..Len(aliasLock'[l]), i # j
       PROVE  aliasLock'[l][i] # aliasLock'[l][j]
  <3>1. CASE l # k BY <3>1, <2>4, <2>9 DEF LocksFollow
  <3>2. CASE l = k
   <4>1. i + 1 \in 1..n /\ j + 1 \in 1..n /\ i + 1 # j + 1 /\ aliasLock'[l][i] = aliasLock[k][i + 1] /\ aliasLock'[l][j] = aliasLock[k][j + 1]
    <5>1. i \in 1..(n - 1) /\ j \in 1..(n - 1) BY <3>2, <2>4
    <5>2. i + 1 \in 1..n /\ j + 1 \in 1..n /\ i + 1 # j + 1 BY <5>1, <2>3, <2>9
    <5> QED BY <5>1, <5>2, <2>4, <3>2
   <4> QED BY <4>1, <2>1 DEF LocksFollow
  <3> QED BY <3>1, <3>2
 <2>10. ASSUME NEW x \in Comment, LockOf(x) # Nil
       PROVE  /\ handler'[x].at \in {"lock"} \cup Keyed => \E i \in 1..Len(aliasLock'[LockOf(x)]) : aliasLock'[LockOf(x)][i] = x
              /\ handler'[x].at \in Keyed => aliasLock'[LockOf(x)][1] = x
  <3>1. CASE x = c BY <3>1 DEF Chained
  <3>2. CASE x # c /\ LockOf(x) # k BY <3>2, <2>10, <2>4, LockIsKey DEF LocksFollow, LockOf
  <3>3. CASE x # c /\ LockOf(x) = k
   <4>1. handler[x].at \notin Keyed BY <3>3, <2>10, <2>3 DEF LocksFollow, LockOf
   <4>2. ASSUME handler'[x].at \in {"lock"} \cup Keyed
         PROVE  \E i \in 1..Len(aliasLock'[LockOf(x)]) : aliasLock'[LockOf(x)][i] = x
    <5>1. PICK i \in 1..n : aliasLock[k][i] = x BY <4>2, <3>3, <2>10 DEF LocksFollow, LockOf
    <5>2. i # 1 BY <5>1, <3>3, <2>3
    <5>3. i - 1 \in 1..(n - 1) /\ (i - 1) + 1 = i BY <5>2, <2>3
    <5>4. aliasLock'[k][i - 1] = x BY <5>1, <5>3, <2>4
    <5> QED BY <5>3, <5>4, <2>4, <3>3
   <4> QED BY <4>1, <4>2, <3>3
  <3> QED BY <3>1, <3>2, <3>3
 <2> HIDE DEF k, n
 <2> QED BY <2>7, <2>8, <2>9, <2>10 DEF LocksFollow, LockOf
<1> QED BY <1>1, <1>2

----------------------------------------
(* The oldest alias of the scope is the one all of it has. *)
LEMMA ScopeIsShared ==
    ASSUME NEW c \in Comment, NEW x \in Comment, NEW y \in Comment, InScope(c, x), InScope(c, y), x # y
    PROVE  InScope(x, y) \/ InScope(y, x)
<1>1. InScope(x, c) \/ (Mode = "per-post" /\ x = PostOf(c)) BY ScopeHasLock
<1>2. InScope(y, c) \/ (Mode = "per-post" /\ y = PostOf(c)) BY ScopeHasLock
<1>3. CASE InScope(x, c) BY <1>3 DEF InScope
<1>4. CASE InScope(y, c) BY <1>4 DEF InScope
<1> QED BY <1>1, <1>2, <1>3, <1>4

(* aliasFor: the alias of the scope, a fresh one, or none for a moderator. *)
LEMMA AliasIsOfScope ==
    ASSUME db \in Tables, AliasesAgree(db), NEW c \in Comment
    PROVE  /\ aliasFor(db, c) \in AliasKey \cup {Nil}
           /\ aliasFor(db, c) # Nil => \A x \in SharedAliases(db, c) : db.alias[x] = aliasFor(db, c)
           /\ By[c] \in ModAuthor => aliasFor(db, c) = Nil
<1> DEFINE S == SharedAliases(db, c)
           P(x) == \A y \in S : db.rows[x].rowid <= db.rows[y].rowid
<1>1. CASE Mode = "off" \/ By[c] \in ModAuthor
 <2>1. aliasFor(db, c) = Nil BY <1>1 DEF aliasFor
 <2> QED BY <2>1
<1>2. CASE ~(Mode = "off" \/ By[c] \in ModAuthor) /\ S = {}
 <2>1. aliasFor(db, c) = <<"alias", c>> BY <1>2 DEF aliasFor
 <2>2. <<"alias", c>> \in AliasKey BY DEF AliasKey
 <2> QED BY <1>2, <2>1, <2>2
<1>3. CASE ~(Mode = "off" \/ By[c] \in ModAuthor) /\ S # {}
 <2>1. S \subseteq StoredIn(db) /\ S \subseteq Comment /\ \A x \in S : InScope(c, x) /\ db.alias[x] # Nil BY SharedIsInScope DEF StoredIn
 <2>2. \A x \in Comment : db.rows[x].rowid \in Nat /\ db.alias[x] \in AliasKey \cup {Nil} BY DEF Tables, RowRecords
 <2>3. \E x \in S : P(x)
  <3> DEFINE T == {db.rows[x].rowid : x \in S}
  <3>1. T \in SUBSET Nat /\ T # {} BY <2>1, <2>2, <1>3
  <3>2. PICK m \in T : \A k \in T : m <= k
   <4> HIDE DEF T
   <4> QED BY <3>1, LeastOfNaturals
  <3>3. PICK x \in S : m = db.rows[x].rowid OBVIOUS
  <3> QED BY <3>2, <3>3
 <2> DEFINE z == CHOOSE x \in S : P(x)
 <2>4. z \in S
  <3> HIDE DEF S, P
  <3> QED BY <2>3, Zenon
 <2>5. aliasFor(db, c) = db.alias[z] BY <1>3 DEF aliasFor
 <2> HIDE DEF z
 <2>6. ASSUME NEW x \in S, x # z PROVE db.alias[x] = db.alias[z]
  <3>1. InScope(x, z) \/ InScope(z, x) BY <2>1, <2>4, <2>6, ScopeIsShared
  <3>2. CASE InScope(x, z)
   <4>1. z \in SharedAliases(db, x) BY <3>2, <2>1, <2>4, SharedIsInScope
   <4> QED BY <4>1, <2>1 DEF AliasesAgree
  <3>3. CASE InScope(z, x)
   <4>1. x \in SharedAliases(db, z) BY <3>3, <2>1, <2>6, SharedIsInScope
   <4> QED BY <4>1, <2>1, <2>4 DEF AliasesAgree
  <3> QED BY <3>1, <3>2, <3>3
 <2> QED BY <2>1, <2>2, <2>4, <2>5, <2>6, <1>3
<1> QED BY <1>1, <1>2, <1>3

----------------------------------------
(* One handler of a comment goes on, and the tables stay. *)
LEMMA RootsMove ==
    ASSUME RootsAreDone, NEW c \in Comment, \A x \in Comment \ {c} : handler'[x].at = handler[x].at,
           handler[c].at = "done" => handler'[c].at = "done" \/ c \in Again,
           Mode = "per-post" /\ Parent[c] # Nil /\ By[PostOf(c)] \notin ModAuthor /\ handler'[c].at \notin {"never", "idle"}
               => handler[c].at \notin {"never", "idle"} \/ handler[PostOf(c)].at = "done"
    PROVE  RootsAreDone'
<1> SUFFICES ASSUME Mode = "per-post", NEW y \in Comment, Parent[y] # Nil, handler'[y].at \notin {"never", "idle"}, By[PostOf(y)] \notin ModAuthor
             PROVE  handler'[PostOf(y)].at = "done"
    BY DEF RootsAreDone
<1>1. PostOf(y) \in Comment /\ Parent[PostOf(y)] = Nil /\ PostOf(y) # y BY PostOfThread
<1>2. handler[PostOf(y)].at = "done" BY <1>1 DEF RootsAreDone
<1>3. CASE PostOf(y) = c BY <1>1, <1>2, <1>3, StoreAssumption
<1>4. CASE PostOf(y) # c BY <1>1, <1>2, <1>4
<1> QED BY <1>3, <1>4

(* What the handler of a comment must see to when it goes on. *)
LEMMA HandlerMoves ==
    ASSUME StoreInv, NEW c \in Comment, StoreTypes', UNCHANGED db, \A x \in Pub \ {c} : handler'[x] = handler[x],
           handler[c].at # "failed",
           c \in StoredIn(db) => handler'[c].at \in {"inserted", "done", "failed"},
           handler'[c].at \in Keyed =>
               /\ handler'[c].key # Nil => \A x \in SharedAliases(db, c) : db.alias[x] = handler'[c].key
               /\ By[c] \in ModAuthor => handler'[c].key = Nil,
           RootsAreDone', LocksFollow',
           ipfs.pinned \subseteq ipfs'.pinned,
           \A x \in ipfs'.unpin : x \in ipfs.unpin \/ (x = c /\ handler'[c].at = "failed" /\ ~db.rows[c].stored),
           handler'[c].at = "added" /\ c \notin HeldBack => c \in ipfs'.pinned \cup db.purged
    PROVE  StoreInv'
<1> USE DEF StoreInv
<1>1. TablesHold(db)' /\ FewPending' BY DEF TablesHold, NumbersHold, VerdictsHold, AliasesAgree, FewPending
<1>2. \A x \in Comment \ {c} : handler'[x] = handler[x] BY DEF Pub
<1>3. \A a \in Act : handler'[a] = handler[a] BY StoreAssumption DEF Pub
<1>4. RowsHaveHandlers'
 <2>1. \A x \in StoredIn(db) : x \in Comment BY DEF StoredIn
 <2> QED BY <2>1, <1>2 DEF RowsHaveHandlers, StoredIn
<1>5. KeysAgree'
 <2>1. ASSUME NEW x \in Comment, handler'[x].at \in Keyed
       PROVE  /\ handler'[x].key # Nil => \A y \in SharedAliases(db, x) : db.alias[y] = handler'[x].key
              /\ By[x] \in ModAuthor => handler'[x].key = Nil
     BY <2>1, <1>2 DEF KeysAgree
 <2> QED BY <2>1 DEF KeysAgree, Keyed, SharedAliases, StoredIn
<1>6. PinsFollow'
 <2>1. \A x \in StoredIn(db) : db.rows[x].number > 0 => x \in ipfs'.pinned \cup db.purged BY DEF PinsFollow
 <2>2. \A x \in Comment : handler'[x].at = "added" /\ x \notin HeldBack => x \in ipfs'.pinned \cup db.purged BY <1>2 DEF PinsFollow
 <2>3. \A x \in ipfs'.unpin : x \in db.purged \/ (handler'[x].at = "failed" /\ ~db.rows[x].stored)
  <3>1. ipfs.unpin \subseteq Comment BY DEF StoreTypes
  <3> QED BY <3>1, <1>2 DEF PinsFollow
 <2>4. ASSUME NEW a \in Act, KindOf[a] = "approve", handler'[a].at = "added"
       PROVE  \/ Target[a] \in ipfs'.pinned \cup db.purged
              \/ handler'[Target[a]].at = "failed" /\ ~db.rows[Target[a]].stored
  <3>1. Target[a] \in Comment BY StoreAssumption
  <3> QED BY <3>1, <2>4, <1>2, <1>3 DEF PinsFollow
 <2> QED BY <2>1, <2>2, <2>3, <2>4 DEF PinsFollow, StoredIn
<1> QED BY <1>1, <1>4, <1>5, <1>6

(* Who is past the lock, or about to be, is the first on its chain. *)
LEMMA LockIsHeld ==
    ASSUME StoreInv, NEW c \in Comment, handler[c].at \in Keyed \/ (handler[c].at = "lock" /\ HoldsAliasLock(c))
    PROVE  LockOf(c) # Nil => aliasLock[LockOf(c)][1] = c
<1>1. CASE handler[c].at \in Keyed BY <1>1 DEF StoreInv, LocksFollow, LockOf
<1>2. CASE handler[c].at = "lock" /\ HoldsAliasLock(c)
 <2> SUFFICES ASSUME LockOf(c) # Nil PROVE aliasLock[LockOf(c)][1] = c OBVIOUS
 <2>1. aliasLock[LockOf(c)] \in Seq(Comment) BY LockIsKey DEF StoreInv, StoreTypes
 <2>2. Head(aliasLock[LockOf(c)]) = c BY <1>2 DEF HoldsAliasLock, LockOf
 <2>3. \E i \in 1..Len(aliasLock[LockOf(c)]) : aliasLock[LockOf(c)][i] = c BY <1>2 DEF StoreInv, LocksFollow, LockOf
 <2> QED BY <2>1, <2>2, <2>3
<1> QED BY <1>1, <1>2

(* One handler moves. *)
LEMMA PubMoves ==
    ASSUME handler \in [Pub -> HandlerRecords], NEW p \in Pub, NEW h \in HandlerRecords, handler' = [handler EXCEPT ![p] = h]
    PROVE  handler' \in [Pub -> HandlerRecords] /\ handler'[p] = h /\ \A x \in Pub \ {p} : handler'[x] = handler[x]
OBVIOUS

(* One handler goes on with what it holds. *)
LEMMA PubGoes ==
    ASSUME handler \in [Pub -> HandlerRecords], NEW p \in Pub, NEW s, Goto(p, s),
           s \in {"never", "idle", "lock", "prepared", "added", "inserted", "checked", "awaiting", "done", "failed"}
    PROVE  /\ handler' \in [Pub -> HandlerRecords] /\ handler'[p] = [handler[p] EXCEPT !.at = s]
           /\ \A x \in Pub \ {p} : handler'[x] = handler[x]
<1> DEFINE h == [handler[p] EXCEPT !.at = s]
<1>1. h \in HandlerRecords BY DEF HandlerRecords
<1>2. handler' = [handler EXCEPT ![p] = h] BY DEF Goto
<1> HIDE DEF h
<1>3. handler' \in [Pub -> HandlerRecords] /\ handler'[p] = h /\ \A x \in Pub \ {p} : handler'[x] = handler[x] BY <1>1, <1>2, PubMoves
<1> QED BY <1>3 DEF h

(* A handler that fails lets its lock go and leaves the tables. *)
LEMMA CommentFails ==
    ASSUME StoreInv, NEW c \in Comment, handler[c].at \in Keyed \/ (handler[c].at = "lock" /\ HoldsAliasLock(c)), Fails(c)
    PROVE  StoreInv'
<1>1. /\ handler' \in [Pub -> HandlerRecords] /\ handler'[c] = [handler[c] EXCEPT !.at = "failed"]
      /\ \A x \in Pub \ {c} : handler'[x] = handler[x]
    BY PubGoes DEF Fails, StoreInv, StoreTypes, Pub
<1>2. handler'[c].at = "failed" /\ \A x \in Comment \ {c} : handler'[x].at = handler[x].at
    BY <1>1 DEF Pub, StoreInv, StoreTypes, HandlerRecords
<1>3. LocksFollow' /\ aliasLock' \in [LockKeys -> Seq(Comment)]
 <2>1. ReleaseAliasLock(c) BY DEF Fails
 <2>2. LockOf(c) # Nil => aliasLock[LockOf(c)][1] = c BY LockIsHeld
 <2> QED BY <1>2, <2>1, <2>2, LocksRelease DEF StoreInv, StoreTypes, Chained, Keyed
<1>4. RootsAreDone'
 <2>1. handler[c].at # "done" /\ handler[c].at \notin {"never", "idle"} BY DEF Keyed
 <2> QED BY <1>2, <2>1, RootsMove DEF StoreInv
<1>5. StoreTypes' BY <1>1, <1>3 DEF Fails, StoreInv, StoreTypes
<1> QED BY <1>1, <1>2, <1>3, <1>4, <1>5, HandlerMoves DEF Fails, Keyed

(* checkPublicationValidity lets a comment through. *)
LEMMA Checking == ASSUME StoreInv, NEW c \in Comment, checkComment(c) PROVE StoreInv'
<1> DEFINE h == [IdleHandler EXCEPT !.at = "lock"]
<1>1. h \in HandlerRecords /\ h.at = "lock" BY DEF HandlerRecords, IdleHandler
<1>2. handler' \in [Pub -> HandlerRecords] /\ handler'[c] = h /\ \A x \in Pub \ {c} : handler'[x] = handler[x]
    BY <1>1, PubMoves DEF checkComment, StoreInv, StoreTypes, Pub
<1>3. handler'[c].at = "lock" /\ \A x \in Comment \ {c} : handler'[x].at = handler[x].at BY <1>1, <1>2 DEF Pub
<1>4. handler[c].at = "idle" \/ (handler[c].at = "done" /\ c \in Again) BY DEF checkComment, At
<1>5. LocksFollow' /\ aliasLock' \in [LockKeys -> Seq(Comment)]
    BY <1>3, <1>4, LocksJoin DEF StoreInv, StoreTypes, Chained, Keyed, checkComment
<1>6. RootsAreDone'
 <2>1. ASSUME Mode = "per-post", Parent[c] # Nil, By[PostOf(c)] \notin ModAuthor PROVE handler[PostOf(c)].at = "done"
  <3>1. handler[Parent[c]].at = "done" BY <2>1 DEF checkComment, Known, At
  <3>2. Parent[c] \in Comment /\ PostOf(c) = PostOf(Parent[c]) BY <2>1, PostOfThread
  <3>3. CASE Parent[Parent[c]] = Nil BY <3>1, <3>2, <3>3, PostOfThread
  <3>4. CASE Parent[Parent[c]] # Nil BY <2>1, <3>1, <3>2, <3>4 DEF StoreInv, RootsAreDone
  <3> QED BY <3>3, <3>4
 <2> QED BY <1>3, <1>4, <2>1, RootsMove DEF StoreInv
<1>7. StoreTypes' BY <1>2, <1>5 DEF checkComment, StoreInv, StoreTypes
<1>8. UNCHANGED <<db, ipfs>> /\ c \notin StoredIn(db) BY DEF checkComment, StoredIn
<1> QED BY <1>2, <1>3, <1>4, <1>5, <1>6, <1>7, <1>8, HandlerMoves DEF Keyed

(* The alias is looked up under the lock. *)
LEMMA Preparing == ASSUME StoreInv, NEW c \in Comment, prepareCommentWithAnonymity(c) PROVE StoreInv'
<1> DEFINE k == aliasFor(db, c)
           h == [handler[c] EXCEPT !.at = "prepared", !.key = k]
<1>1. /\ k \in AliasKey \cup {Nil} /\ (By[c] \in ModAuthor => k = Nil)
      /\ k # Nil => \A x \in SharedAliases(db, c) : db.alias[x] = k
    BY AliasIsOfScope DEF StoreInv, StoreTypes, TablesHold
<1>2. handler' = [handler EXCEPT ![c] = h] /\ handler[c].at = "lock" /\ HoldsAliasLock(c) BY DEF prepareCommentWithAnonymity, At
<1> HIDE DEF k
<1>3. h \in HandlerRecords /\ h.at = "prepared" /\ h.key = k
 <2>1. handler[c] \in HandlerRecords BY DEF StoreInv, StoreTypes, Pub
 <2> QED BY <1>1, <2>1 DEF HandlerRecords
<1> HIDE DEF h
<1>4. handler' \in [Pub -> HandlerRecords] /\ handler'[c] = h /\ \A x \in Pub \ {c} : handler'[x] = handler[x]
    BY <1>2, <1>3, PubMoves DEF StoreInv, StoreTypes, Pub
<1>5. handler'[c].at = "prepared" /\ \A x \in Comment \ {c} : handler'[x].at = handler[x].at BY <1>3, <1>4 DEF Pub
<1>6. LocksFollow'
 <2>1. LockOf(c) # Nil => aliasLock[LockOf(c)][1] = c BY <1>2, LockIsHeld
 <2> QED BY <1>2, <1>5, <2>1, LocksMove DEF StoreInv, StoreTypes, Chained, Keyed, prepareCommentWithAnonymity
<1>7. RootsAreDone' BY <1>2, <1>5, RootsMove DEF StoreInv
<1>8. StoreTypes' BY <1>4 DEF prepareCommentWithAnonymity, StoreInv, StoreTypes
<1>9. UNCHANGED <<db, ipfs>> /\ c \notin StoredIn(db) BY <1>2 DEF prepareCommentWithAnonymity, StoreInv, RowsHaveHandlers
<1> QED BY <1>1, <1>2, <1>3, <1>4, <1>5, <1>6, <1>7, <1>8, <1>9, HandlerMoves

(* The record is added and pinned. *)
LEMMA Adding == ASSUME StoreInv, NEW c \in Comment, addCommentToIpfs(c) PROVE StoreInv'
<1>1. /\ handler' \in [Pub -> HandlerRecords] /\ handler'[c] = [handler[c] EXCEPT !.at = "added"]
      /\ \A x \in Pub \ {c} : handler'[x] = handler[x]
    BY PubGoes DEF addCommentToIpfs, StoreInv, StoreTypes, Pub
<1>2. handler[c].at = "prepared" /\ handler[c] \in HandlerRecords BY DEF addCommentToIpfs, At, StoreInv, StoreTypes, Pub
<1>3. handler'[c].at = "added" /\ handler'[c].key = handler[c].key /\ \A x \in Comment \ {c} : handler'[x].at = handler[x].at
    BY <1>1, <1>2 DEF Pub, HandlerRecords
<1>4. LocksFollow'
 <2>1. LockOf(c) # Nil => aliasLock[LockOf(c)][1] = c BY <1>2, LockIsHeld DEF Keyed
 <2> QED BY <1>2, <1>3, <2>1, LocksMove DEF StoreInv, StoreTypes, Chained, Keyed, addCommentToIpfs
<1>5. RootsAreDone' BY <1>2, <1>3, RootsMove DEF StoreInv
<1>6. /\ ipfs' \in [pinned : SUBSET Comment, unpin : SUBSET Comment] /\ ipfs'.unpin = ipfs.unpin
      /\ ipfs.pinned \subseteq ipfs'.pinned /\ (c \notin HeldBack => c \in ipfs'.pinned)
    BY DEF addCommentToIpfs, StoreInv, StoreTypes
<1>7. StoreTypes' BY <1>1, <1>6 DEF addCommentToIpfs, StoreInv, StoreTypes
<1>8. UNCHANGED db /\ c \notin StoredIn(db) BY <1>2 DEF addCommentToIpfs, StoreInv, RowsHaveHandlers
<1>9. /\ handler'[c].key # Nil => \A x \in SharedAliases(db, c) : db.alias[x] = handler'[c].key
      /\ By[c] \in ModAuthor => handler'[c].key = Nil
    BY <1>2, <1>3 DEF StoreInv, KeysAgree, Keyed
<1> QED BY <1>1, <1>2, <1>3, <1>4, <1>5, <1>6, <1>7, <1>8, <1>9, HandlerMoves

(* assertStoredCommentIsVerbatim refuses it. *)
LEMMA Refusing == ASSUME StoreInv, NEW c \in Comment, notVerbatim(c) PROVE StoreInv'
<1>1. /\ handler' \in [Pub -> HandlerRecords] /\ handler'[c] = [handler[c] EXCEPT !.at = "failed"]
      /\ \A x \in Pub \ {c} : handler'[x] = handler[x]
    BY PubGoes DEF notVerbatim, StoreInv, StoreTypes, Pub
<1>2. handler[c].at = "added" /\ handler[c] \in HandlerRecords BY DEF notVerbatim, At, StoreInv, StoreTypes, Pub
<1>3. handler'[c].at = "failed" /\ \A x \in Comment \ {c} : handler'[x].at = handler[x].at BY <1>1, <1>2 DEF Pub, HandlerRecords
<1>4. LocksFollow' /\ aliasLock' \in [LockKeys -> Seq(Comment)]
 <2>1. ReleaseAliasLock(c) BY DEF notVerbatim
 <2>2. LockOf(c) # Nil => aliasLock[LockOf(c)][1] = c BY <1>2, LockIsHeld DEF Keyed
 <2> QED BY <1>2, <1>3, <2>1, <2>2, LocksRelease DEF StoreInv, StoreTypes, Chained, Keyed
<1>5. RootsAreDone' BY <1>2, <1>3, RootsMove DEF StoreInv
<1>6. /\ ipfs' \in [pinned : SUBSET Comment, unpin : SUBSET Comment] /\ ipfs'.unpin = ipfs.unpin \cup {c}
      /\ ipfs.pinned = ipfs'.pinned
    BY DEF notVerbatim, StoreInv, StoreTypes
<1>7. StoreTypes' BY <1>1, <1>4, <1>6 DEF notVerbatim, StoreInv, StoreTypes
<1>8. UNCHANGED db /\ c \notin StoredIn(db) /\ ~db.rows[c].stored BY <1>2 DEF notVerbatim, StoreInv, RowsHaveHandlers, StoredIn
<1> QED BY <1>1, <1>2, <1>3, <1>4, <1>5, <1>6, <1>7, <1>8, HandlerMoves DEF Keyed

----------------------------------------
(* What the other handlers and the publish cycle leave as it is. *)
LEMMA KeysRest ==
    ASSUME KeysAgree,
           \A x \in Comment : handler'[x].at \in Keyed => handler[x].at \in Keyed /\ handler'[x].key = handler[x].key,
           \A x \in Comment : handler'[x].at \in Keyed =>
               \A y \in SharedAliases(db', x) : y \in SharedAliases(db, x) /\ db'.alias[y] = db.alias[y]
    PROVE  KeysAgree'
<1> SUFFICES ASSUME NEW x \in Comment, handler'[x].at \in Keyed
             PROVE  /\ handler'[x].key # Nil => \A y \in SharedAliases(db', x) : db'.alias[y] = handler'[x].key
                    /\ By[x] \in ModAuthor => handler'[x].key = Nil
    BY DEF KeysAgree, Keyed, SharedAliases, StoredIn
<1> QED BY DEF KeysAgree

(* ... pins, when what gets a number is pinned ... *)
LEMMA PinsRest ==
    ASSUME PinsFollow, ipfs.pinned \subseteq ipfs'.pinned, db.purged \subseteq db'.purged, ipfs.unpin \subseteq Comment,
           \A x \in StoredIn(db') : db'.rows[x].number > 0 =>
               (x \in StoredIn(db) /\ db.rows[x].number > 0) \/ x \in ipfs'.pinned \cup db'.purged,
           \A x \in Comment : handler'[x].at = "added" /\ x \notin HeldBack => handler[x].at = "added" \/ x \in ipfs'.pinned \cup db'.purged,
           \A x \in ipfs'.unpin : x \in ipfs.unpin \/ x \in db'.purged,
           \A x \in Comment : handler[x].at = "failed" /\ ~db.rows[x].stored => handler'[x].at = "failed" /\ ~db'.rows[x].stored,
           \A a \in Act : KindOf[a] = "approve" /\ handler'[a].at = "added" => handler[a].at = "added" \/ Target[a] \in ipfs'.pinned \cup db'.purged
    PROVE  PinsFollow'
<1>1. \A x \in StoredIn(db') : db'.rows[x].number > 0 => x \in ipfs'.pinned \cup db'.purged BY DEF PinsFollow
<1>2. \A x \in Comment : handler'[x].at = "added" /\ x \notin HeldBack => x \in ipfs'.pinned \cup db'.purged BY DEF PinsFollow
<1>3. \A x \in ipfs'.unpin : x \in db'.purged \/ (handler'[x].at = "failed" /\ ~db'.rows[x].stored) BY DEF PinsFollow
<1>4. ASSUME NEW a \in Act, KindOf[a] = "approve", handler'[a].at = "added"
      PROVE  \/ Target[a] \in ipfs'.pinned \cup db'.purged
             \/ handler'[Target[a]].at = "failed" /\ ~db'.rows[Target[a]].stored
 <2>1. Target[a] \in Comment BY StoreAssumption
 <2> QED BY <1>4, <2>1 DEF PinsFollow
<1> QED BY <1>1, <1>2, <1>3, <1>4 DEF PinsFollow, StoredIn

(* ... and the queue, when nothing joins it. *)
LEMMA FewerPending ==
    ASSUME FewPending, PendingIn(db') \subseteq PendingIn(db)
    PROVE  FewPending'
<1>1. IsFiniteSet(PendingIn(db')) /\ Cardinality(PendingIn(db')) <= Cardinality(PendingIn(db)) BY FS_Subset DEF FewPending
<1>2. Cardinality(PendingIn(db)) \in Nat /\ Cardinality(PendingIn(db')) \in Nat /\ MaxPending \in Nat
    BY <1>1, FS_CardinalityType, StoreAssumption DEF FewPending
<1>3. Cardinality(PendingIn(db')) <= MaxPending BY <1>1, <1>2 DEF FewPending
<1> QED BY <1>1, <1>3 DEF FewPending, PendingIn, StoredIn

(* A step of anybody but the handler of a comment. *)
LEMMA OthersMove ==
    ASSUME StoreInv, StoreTypes', TablesHold(db'), \A x \in Comment : handler'[x] = handler[x], UNCHANGED aliasLock,
           PendingIn(db') \subseteq PendingIn(db), db.purged \subseteq db'.purged,
           \A x \in StoredIn(db') : x \in StoredIn(db) /\ db'.alias[x] = db.alias[x],
           \A x \in StoredIn(db') : db'.rows[x].number > 0 => db.rows[x].number > 0 \/ x \in ipfs'.pinned \cup db'.purged,
           ipfs.pinned \subseteq ipfs'.pinned, \A x \in ipfs'.unpin : x \in ipfs.unpin \/ x \in db'.purged,
           \A a \in Act : KindOf[a] = "approve" /\ handler'[a].at = "added" => handler[a].at = "added" \/ Target[a] \in ipfs'.pinned \cup db'.purged
    PROVE  StoreInv'
<1>1. TablesHold(db)' BY DEF TablesHold, NumbersHold, VerdictsHold, AliasesAgree, StoredIn, SharedAliases, ApprovedByMod, Verdicts
<1>2. FewPending' BY FewerPending DEF StoreInv
<1>3. \A x \in StoredIn(db') : x \in Comment /\ x \in StoredIn(db) BY DEF StoredIn
<1>4. RowsHaveHandlers' BY <1>3 DEF StoreInv, RowsHaveHandlers, StoredIn
<1>5. PinsFollow'
 <2>1. \A x \in Comment : handler[x].at = "failed" /\ ~db.rows[x].stored => handler'[x].at = "failed" /\ ~db'.rows[x].stored
     BY <1>3 DEF StoredIn
 <2>2. ipfs.unpin \subseteq Comment BY DEF StoreInv, StoreTypes
 <2> QED BY <1>3, <2>1, <2>2, PinsRest DEF StoreInv
<1>6. KeysAgree'
 <2>1. \A x \in Comment : \A y \in SharedAliases(db', x) : y \in SharedAliases(db, x) /\ db'.alias[y] = db.alias[y] BY SharedIsInScope
 <2> QED BY <2>1, KeysRest DEF StoreInv
<1>7. RootsAreDone' BY PostOfThread DEF StoreInv, RootsAreDone
<1>8. LocksFollow' BY LocksRest DEF StoreInv, StoreTypes
<1> QED BY <1>1, <1>2, <1>4, <1>5, <1>6, <1>7, <1>8 DEF StoreInv

(* The votes, the edits and the marks are another matter. *)
LEMMA SameTables ==
    ASSUME NEW d, NEW e, e.rows = d.rows, e.mods = d.mods, e.alias = d.alias, e.purged = d.purged, TablesHold(d)
    PROVE  TablesHold(e)
BY DEF TablesHold, NumbersHold, VerdictsHold, AliasesAgree, StoredIn, SharedAliases, ApprovedByMod, Verdicts

----------------------------------------
(* The row of a comment: numbered, inserted, the oldest pending one evicted. *)
LEMMA RowInserted ==
    ASSUME NEW c \in Comment, db \in Tables, NumbersHold(db), handler[c] \in HandlerRecords, ~db.rows[c].stored
    PROVE  LET r == NewRow(db, c)
               d == [db EXCEPT !.rows[c] = r] IN
           /\ d \in Tables /\ d.rows = [db.rows EXCEPT ![c] = r] /\ r \in RowRecords /\ r.stored
           /\ d.mods = db.mods /\ d.alias = db.alias /\ d.purged = db.purged
           /\ r.number > 0 => c \notin HeldBack
           /\ NumbersHold(d)
<1> DEFINE r == NewRow(db, c)
           d == [db EXCEPT !.rows[c] = r]
           q == getNextCommentNumbers(db, c)
           i == MaxOf({db.rows[x].rowid : x \in Comment})
<1>1. /\ q.number \in Nat /\ q.number > 0 /\ q.post \in Nat /\ (q.post > 0 => Parent[c] = Nil)
      /\ \A x \in StoredIn(db) : db.rows[x].number < q.number /\ (q.post > 0 => db.rows[x].post < q.post)
    BY NextNumbersAreNew
<1>2. i \in Nat BY RowIdIsNatural
<1>3. /\ r.stored = TRUE /\ r.pending = (c \in HeldBack) /\ r.rowid = 1 + i
      /\ r.number = IF c \in HeldBack THEN 0 ELSE q.number
      /\ r.post = IF c \in HeldBack THEN 0 ELSE q.post
    BY DEF NewRow
<1>4. r = [stored |-> TRUE, pending |-> c \in HeldBack, number |-> r.number, post |-> r.post, rowid |-> 1 + i,
           signer |-> IF handler[c].key = Nil THEN By[c] ELSE handler[c].key]
    BY DEF NewRow
<1>5. (IF handler[c].key = Nil THEN By[c] ELSE handler[c].key) \in Author \cup AliasKey \cup {Nil} BY StoreAssumption DEF HandlerRecords
<1> HIDE DEF q, i, r
<1>6. r \in RowRecords
 <2>1. r.number \in Nat /\ r.post \in Nat /\ 1 + i \in Nat BY <1>1, <1>2, <1>3
 <2>2. r.pending \in BOOLEAN
  <3>1. CASE c \in HeldBack BY <3>1, <1>3
  <3>2. CASE c \notin HeldBack BY <3>2, <1>3
  <3> QED BY <3>1, <3>2
 <2> DEFINE g == IF handler[c].key = Nil THEN By[c] ELSE handler[c].key
 <2>3. r = [stored |-> TRUE, pending |-> r.pending, number |-> r.number, post |-> r.post, rowid |-> 1 + i, signer |-> g]
     BY <1>3, <1>4, Zenon
 <2>4. g \in Author \cup AliasKey \cup {Nil} BY <1>5
 <2> HIDE DEF g
 <2>5. \A p \in BOOLEAN : \A m, o, k \in Nat : \A w \in Author \cup AliasKey \cup {Nil} :
          [stored |-> TRUE, pending |-> p, number |-> m, post |-> o, rowid |-> k, signer |-> w] \in RowRecords
     BY DEF RowRecords
 <2>6. [stored |-> TRUE, pending |-> r.pending, number |-> r.number, post |-> r.post, rowid |-> 1 + i, signer |-> g] \in RowRecords
     BY <2>1, <2>2, <2>4, <2>5
 <2> QED BY <2>3, <2>6, Zenon
<1>7. d \in Tables /\ d.rows = [db.rows EXCEPT ![c] = r] /\ d.mods = db.mods /\ d.alias = db.alias /\ d.purged = db.purged
    BY <1>6 DEF Tables
<1>8. \A x \in StoredIn(db) : db.rows[x].number \in Nat /\ db.rows[x].post \in Nat BY DEF Tables, RowRecords, StoredIn
<1>9. NumbersHold(d)
 <2>1. r.pending => r.number = 0 BY <1>3
 <2>2. r.post > 0 => r.number > 0 /\ Parent[c] = Nil BY <1>1, <1>3
 <2>3. ASSUME NEW x \in StoredIn(db) PROVE (r.number > 0 => r.number # db.rows[x].number) /\ (r.post > 0 => r.post # db.rows[x].post)
  <3>1. CASE c \in HeldBack BY <3>1, <1>3
  <3>2. CASE c \notin HeldBack
   <4>1. r.number = q.number /\ r.post = q.post BY <3>2, <1>3
   <4> QED BY <4>1, <1>1, <1>8
  <3> QED BY <3>1, <3>2
 <2>4. FreshIn(db, c, r) BY <2>1, <2>2, <2>3 DEF FreshIn
 <2> HIDE DEF d
 <2> QED BY <2>4, <1>6, <1>7, RowWritten
<1>10. r.number > 0 => c \notin HeldBack BY <1>3
<1> HIDE DEF d
<1> QED BY <1>3, <1>6, <1>7, <1>9, <1>10 DEF d, r

(* The row to evict ... *)
LEMMA OldestExists ==
    ASSUME NEW d \in Tables, PendingIn(d) # {}
    PROVE  OldestPending(d) \in PendingIn(d)
<1> DEFINE S == PendingIn(d)
           P(x) == \A y \in S : d.rows[x].rowid <= d.rows[y].rowid
           T == {d.rows[x].rowid : x \in S}
<1>1. \A x \in S : d.rows[x].rowid \in Nat BY DEF PendingIn, StoredIn, Tables, RowRecords
<1>2. T \in SUBSET Nat /\ T # {} BY <1>1
<1>3. PICK m \in T : \A k \in T : m <= k
 <2> HIDE DEF T
 <2> QED BY <1>2, LeastOfNaturals
<1>4. PICK x \in S : m = d.rows[x].rowid OBVIOUS
<1>5. P(x) BY <1>3, <1>4
<1> HIDE DEF P
<1>6. (CHOOSE y \in S : P(y)) \in S
 <2> HIDE DEF S
 <2> QED BY <1>5, Zenon
<1> QED BY <1>6 DEF OldestPending, P

(* ... and the eviction: one more in the queue, one less. *)
LEMMA EvictionKeeps ==
    ASSUME NEW d \in Tables, TablesHold(d), NEW random, NEW P \in SUBSET Comment, NEW c \in Comment,
           IsFiniteSet(P), Cardinality(P) <= MaxPending, PendingIn(d) \subseteq P \cup {c}
    PROVE  LET e == evictOldestPending(d, random) IN
           /\ e \in Tables /\ TablesHold(e) /\ d.purged \subseteq e.purged
           /\ \A x \in StoredIn(e) : x \in StoredIn(d) /\ e.rows[x] = d.rows[x] /\ e.alias[x] = d.alias[x]
           /\ \A x \in Comment : SharedAliases(e, x) \subseteq SharedAliases(d, x)
           /\ IsFiniteSet(PendingIn(e)) /\ Cardinality(PendingIn(e)) <= MaxPending
<1> DEFINE e == evictOldestPending(d, random)
<1>0. MaxPending \in Nat /\ MaxPending > 0 BY StoreAssumption
<1>1. IsFiniteSet(P \cup {c}) /\ Cardinality(P) \in Nat /\ Cardinality(P \cup {c}) <= Cardinality(P) + 1 /\ Cardinality(P \cup {c}) \in Nat
 <2>1. IsFiniteSet(P \cup {c}) /\ Cardinality(P \cup {c}) = IF c \in P THEN Cardinality(P) ELSE Cardinality(P) + 1 BY FS_AddElement
 <2>2. Cardinality(P) \in Nat BY FS_CardinalityType
 <2> QED BY <2>1, <2>2
<1>2. IsFiniteSet(PendingIn(d)) /\ Cardinality(PendingIn(d)) <= Cardinality(P \cup {c}) BY <1>1, FS_Subset
<1>3. Cardinality(PendingIn(d)) \in Nat BY <1>2, FS_CardinalityType
<1>4. Cardinality(PendingIn(d)) <= MaxPending + 1 BY <1>0, <1>1, <1>2, <1>3
<1>5. CASE Cardinality(PendingIn(d)) <= MaxPending
 <2>1. e = d BY <1>5 DEF evictOldestPending
 <2> HIDE DEF e
 <2>2. \A x \in Comment : SharedAliases(e, x) \subseteq SharedAliases(d, x) BY <2>1
 <2> QED BY <2>1, <2>2, <1>2, <1>5 DEF e
<1>6. CASE ~(Cardinality(PendingIn(d)) <= MaxPending)
 <2> DEFINE o == OldestPending(d)
 <2>1. e = purgeComment(d, o, random) BY <1>6 DEF evictOldestPending
 <2>2. PendingIn(d) # {} BY <1>0, <1>6, FS_EmptySet
 <2>3. o \in PendingIn(d) /\ o \in Comment BY <2>2, OldestExists DEF PendingIn, StoredIn
 <2> HIDE DEF o
 <2>4. e \in Tables /\ Removes(d, e) /\ ~e.rows[o].stored BY <2>1, <2>3, PurgeRemoves
 <2> HIDE DEF e
 <2>5. /\ TablesHold(e) /\ d.purged \subseteq e.purged
       /\ \A x \in StoredIn(e) : x \in StoredIn(d) /\ e.rows[x] = d.rows[x] /\ e.alias[x] = d.alias[x]
       /\ \A x \in Comment : SharedAliases(e, x) \subseteq SharedAliases(d, x)
     BY <2>4, RemovalKeeps
 <2>6. PendingIn(e) \subseteq PendingIn(d) \ {o} BY <2>4, <2>5 DEF PendingIn, StoredIn
 <2>7. IsFiniteSet(PendingIn(d) \ {o}) /\ Cardinality(PendingIn(d) \ {o}) = Cardinality(PendingIn(d)) - 1 BY <1>2, <2>3, FS_RemoveElement
 <2>8. IsFiniteSet(PendingIn(e)) /\ Cardinality(PendingIn(e)) <= Cardinality(PendingIn(d)) - 1 BY <2>6, <2>7, FS_Subset
 <2>9. Cardinality(PendingIn(e)) \in Nat BY <2>8, FS_CardinalityType
 <2>10. Cardinality(PendingIn(e)) <= MaxPending BY <2>8, <2>9, <1>0, <1>3, <1>4
 <2> QED BY <2>4, <2>5, <2>8, <2>10 DEF e
<1> QED BY <1>5, <1>6

(* storeComment: the transaction that inserts the row. *)
LEMMA Inserting == ASSUME StoreInv, NEW c \in Comment, insertComment(c) PROVE StoreInv'
<1> DEFINE r == NewRow(db, c)
           d == [db EXCEPT !.rows[c] = r]
<1>1. /\ handler' \in [Pub -> HandlerRecords] /\ handler'[c] = [handler[c] EXCEPT !.at = "inserted"]
      /\ \A x \in Pub \ {c} : handler'[x] = handler[x]
    BY PubGoes DEF insertComment, StoreInv, StoreTypes, Pub
<1>2. handler[c].at = "added" /\ handler[c] \in HandlerRecords BY DEF insertComment, At, StoreInv, StoreTypes, Pub
<1>3. handler'[c].at = "inserted" /\ handler'[c].key = handler[c].key BY <1>1, <1>2 DEF HandlerRecords
<1>4. /\ \A x \in Comment \ {c} : handler'[x] = handler[x]
      /\ \A a \in Act : handler'[a] = handler[a]
    BY <1>1, StoreAssumption DEF Pub
<1>5. c \notin StoredIn(db) /\ ~db.rows[c].stored BY <1>2 DEF StoreInv, RowsHaveHandlers, StoredIn
<1>6. /\ d \in Tables /\ d.rows = [db.rows EXCEPT ![c] = r] /\ r \in RowRecords /\ r.stored
      /\ d.mods = db.mods /\ d.alias = db.alias /\ d.purged = db.purged
      /\ r.number > 0 => c \notin HeldBack
      /\ NumbersHold(d)
    BY <1>2, <1>5, RowInserted DEF StoreInv, StoreTypes, TablesHold
<1>7. PICK random : db' = evictOldestPending(d, random) BY DEF insertComment
<1>8. UNCHANGED <<ipfs, aliasLock, shown>> BY DEF insertComment
<1> HIDE DEF d, r
<1>9. TablesHold(d) /\ \A x \in Comment : SharedAliases(d, x) = SharedAliases(db, x)
 <2>1. ~(ApprovedByMod(db, c) /\ c \notin db.purged) BY <1>5 DEF StoreInv, TablesHold, VerdictsHold
 <2> QED BY <1>5, <1>6, <2>1, RowKeeps DEF StoreInv, StoreTypes
<1>10. /\ d.rows[c] = r /\ \A x \in Comment \ {c} : d.rows[x] = db.rows[x]
       /\ \A x \in StoredIn(d) : x \in Comment /\ (x = c \/ (x \in StoredIn(db) /\ d.rows[x] = db.rows[x]))
    BY <1>6 DEF StoreInv, StoreTypes, Tables, StoredIn
<1>11. /\ db' \in Tables /\ TablesHold(db') /\ d.purged \subseteq db'.purged
       /\ \A x \in StoredIn(db') : x \in StoredIn(d) /\ db'.rows[x] = d.rows[x] /\ db'.alias[x] = d.alias[x]
       /\ \A x \in Comment : SharedAliases(db', x) \subseteq SharedAliases(d, x)
       /\ IsFiniteSet(PendingIn(db')) /\ Cardinality(PendingIn(db')) <= MaxPending
 <2>1. PendingIn(d) \subseteq PendingIn(db) \cup {c} BY <1>10 DEF PendingIn, StoredIn
 <2>2. PendingIn(db) \in SUBSET Comment BY DEF PendingIn, StoredIn
 <2>3. IsFiniteSet(PendingIn(db)) /\ Cardinality(PendingIn(db)) <= MaxPending BY DEF StoreInv, FewPending
 <2> DEFINE e == evictOldestPending(d, random)
 <2>4. /\ e \in Tables /\ TablesHold(e) /\ d.purged \subseteq e.purged
       /\ \A x \in StoredIn(e) : x \in StoredIn(d) /\ e.rows[x] = d.rows[x] /\ e.alias[x] = d.alias[x]
       /\ \A x \in Comment : SharedAliases(e, x) \subseteq SharedAliases(d, x)
       /\ IsFiniteSet(PendingIn(e)) /\ Cardinality(PendingIn(e)) <= MaxPending
  <3> DEFINE P == PendingIn(db)
  <3>1. P \in SUBSET Comment /\ IsFiniteSet(P) /\ Cardinality(P) <= MaxPending /\ PendingIn(d) \subseteq P \cup {c} BY <2>1, <2>2, <2>3
  <3>2. d \in Tables /\ TablesHold(d) BY <1>6, <1>9
  <3> HIDE DEF P
  <3> QED BY <3>1, <3>2, EvictionKeeps
 <2> HIDE DEF e
 <2>5. db' = e BY <1>7 DEF e
 <2> QED BY <2>4, <2>5
<1>12. \A x \in StoredIn(db') : x \in Comment /\ (x = c \/ (x \in StoredIn(db) /\ db'.rows[x] = db.rows[x])) BY <1>10, <1>11
<1>13. TablesHold(db)' /\ FewPending'
    BY <1>11 DEF TablesHold, NumbersHold, VerdictsHold, AliasesAgree, StoredIn, SharedAliases, ApprovedByMod, Verdicts, FewPending, PendingIn
<1>14. RowsHaveHandlers' BY <1>3, <1>4, <1>12 DEF StoreInv, RowsHaveHandlers, StoredIn
<1>15. PinsFollow'
 <2>1. ASSUME NEW x \in StoredIn(db'), db'.rows[x].number > 0
       PROVE  (x \in StoredIn(db) /\ db.rows[x].number > 0) \/ x \in ipfs'.pinned \cup db'.purged
  <3>1. CASE x = c
   <4>1. db'.rows[x] = r BY <3>1, <1>10, <1>11
   <4>2. c \in ipfs.pinned \cup db.purged BY <4>1, <2>1, <1>2, <1>6 DEF StoreInv, PinsFollow
   <4> QED BY <4>2, <3>1, <1>6, <1>8, <1>11
  <3>2. CASE x # c BY <3>2, <2>1, <1>12
  <3> QED BY <3>1, <3>2
 <2>2. \A x \in Comment : handler[x].at = "failed" /\ ~db.rows[x].stored => handler'[x].at = "failed" /\ ~db'.rows[x].stored
     BY <1>2, <1>4, <1>12 DEF StoredIn
 <2>3. \A x \in Comment : handler'[x].at = "added" => handler[x].at = "added" BY <1>3, <1>4
 <2>4. ipfs.unpin \subseteq Comment /\ ipfs' = ipfs /\ db.purged \subseteq db'.purged BY <1>6, <1>8, <1>11 DEF StoreInv, StoreTypes
 <2> QED BY <1>4, <2>1, <2>2, <2>3, <2>4, PinsRest DEF StoreInv
<1>16. KeysAgree'
 <2>1. \A x \in Comment : handler'[x].at \in Keyed => handler[x].at \in Keyed /\ handler'[x].key = handler[x].key
     BY <1>2, <1>3, <1>4 DEF Keyed
 <2>2. \A x \in Comment : \A y \in SharedAliases(db', x) : y \in SharedAliases(db, x) /\ db'.alias[y] = db.alias[y]
  <3>1. \A x \in Comment : \A y \in SharedAliases(db', x) : y \in StoredIn(db') BY SharedIsInScope
  <3> QED BY <3>1, <1>6, <1>9, <1>11
 <2> QED BY <2>1, <2>2, KeysRest DEF StoreInv
<1>17. RootsAreDone' BY <1>2, <1>3, <1>4, RootsMove DEF StoreInv
<1>18. LocksFollow'
 <2>1. LockOf(c) # Nil => aliasLock[LockOf(c)][1] = c BY <1>2, LockIsHeld DEF Keyed
 <2> QED BY <1>2, <1>3, <1>4, <1>8, <2>1, LocksMove DEF StoreInv, StoreTypes, Chained, Keyed
<1>19. StoreTypes' BY <1>1, <1>8, <1>11 DEF StoreInv, StoreTypes
<1> QED BY <1>13, <1>14, <1>15, <1>16, <1>17, <1>18, <1>19 DEF StoreInv

(* Two handlers past the lock of one scope are one handler, and the post of *)
(* a thread has its alias before its replies. *)
LEMMA ScopeIsLocked ==
    ASSUME StoreInv, NEW c \in Comment, handler[c].at \in Keyed, handler[c].key # Nil, NEW y \in Comment, InScope(y, c), y # c,
           handler[y].at \in Keyed \/ y \in StoredIn(db)
    PROVE  InScope(c, y) /\ handler[y].at \notin Keyed
<1>1. handler[y].at \notin {"never", "idle"} /\ By[c] \notin ModAuthor /\ handler[c].at # "done"
    BY DEF StoreInv, RowsHaveHandlers, Keyed, KeysAgree
<1>2. ~(Mode = "per-post" /\ Parent[y] # Nil /\ c = PostOf(y)) BY <1>1 DEF StoreInv, RootsAreDone
<1>3. LockOf(y) = LockOf(c) /\ LockOf(y) # Nil /\ InScope(c, y) BY <1>2, ScopeHasLock
<1>4. aliasLock[LockOf(c)][1] = c BY <1>3, LockIsHeld
<1>5. ASSUME handler[y].at \in Keyed PROVE FALSE
 <2>1. aliasLock[LockOf(y)][1] = y BY <1>3, <1>5, LockIsHeld
 <2> QED BY <2>1, <1>3, <1>4
<1> QED BY <1>3, <1>5

(* insertPseudonymityAliases, and the lock is let go. *)
LEMMA Aliasing == ASSUME StoreInv, NEW c \in Comment, insertAlias(c) PROVE StoreInv'
<1> DEFINE k == handler[c].key
<1>1. /\ handler' \in [Pub -> HandlerRecords] /\ handler'[c] = [handler[c] EXCEPT !.at = "done"]
      /\ \A x \in Pub \ {c} : handler'[x] = handler[x]
    BY PubGoes DEF insertAlias, StoreInv, StoreTypes, Pub
<1>2. handler[c].at = "inserted" /\ handler[c].at \in Keyed /\ handler[c] \in HandlerRecords /\ (k # Nil => db.rows[c].stored)
    BY DEF insertAlias, At, StoreInv, StoreTypes, Pub, Keyed
<1>3. handler'[c].at = "done" BY <1>1, <1>2 DEF HandlerRecords
<1>4. /\ \A x \in Comment \ {c} : handler'[x] = handler[x]
      /\ \A a \in Act : handler'[a] = handler[a]
    BY <1>1, StoreAssumption DEF Pub
<1>5. /\ db' \in Tables /\ db'.rows = db.rows /\ db'.mods = db.mods /\ db'.purged = db.purged
      /\ db'.alias = [db.alias EXCEPT ![c] = k]
 <2>1. k \in AliasKey \cup {Nil} BY <1>2 DEF HandlerRecords
 <2>2. db' = [db EXCEPT !.alias[c] = k] BY DEF insertAlias
 <2> HIDE DEF k
 <2> QED BY <2>1, <2>2 DEF StoreInv, StoreTypes, Tables
<1>6. UNCHANGED <<ipfs, shown>> BY DEF insertAlias
<1>7. LocksFollow' /\ aliasLock' \in [LockKeys -> Seq(Comment)]
 <2>1. ReleaseAliasLock(c) BY DEF insertAlias
 <2>2. LockOf(c) # Nil => aliasLock[LockOf(c)][1] = c BY <1>2, LockIsHeld
 <2> QED BY <1>2, <1>3, <1>4, <2>1, <2>2, LocksRelease DEF StoreInv, StoreTypes, Chained, Keyed
<1>8. TablesHold(db')
 <2>1. k # Nil => \A x \in SharedAliases(db, c) : db.alias[x] = k BY <1>2 DEF StoreInv, KeysAgree
 <2>2. k # Nil => \A y \in StoredIn(db) : db.alias[y] # Nil /\ InScope(y, c) => InScope(c, y) BY <1>2, ScopeIsLocked DEF StoredIn
 <2> HIDE DEF k
 <2> QED BY <1>2, <1>5, <2>1, <2>2, AliasKeeps DEF StoreInv, StoreTypes
<1>9. StoredIn(db') = StoredIn(db) /\ PendingIn(db') = PendingIn(db) BY <1>5 DEF StoredIn, PendingIn
<1>10. TablesHold(db)' /\ FewPending'
    BY <1>8, <1>9 DEF TablesHold, NumbersHold, VerdictsHold, AliasesAgree, StoredIn, SharedAliases, ApprovedByMod, Verdicts, StoreInv, FewPending, PendingIn
<1>11. RowsHaveHandlers' BY <1>3, <1>4, <1>5 DEF StoreInv, RowsHaveHandlers, StoredIn
<1>12. PinsFollow'
 <2>1. \A x \in Comment : handler[x].at = "failed" /\ ~db.rows[x].stored => handler'[x].at = "failed" /\ ~db'.rows[x].stored
     BY <1>2, <1>4, <1>5
 <2>2. \A x \in Comment : handler'[x].at = "added" => handler[x].at = "added" BY <1>3, <1>4
 <2>3. ipfs.unpin \subseteq Comment /\ ipfs' = ipfs /\ db.purged \subseteq db'.purged BY <1>5, <1>6 DEF StoreInv, StoreTypes
 <2> QED BY <1>4, <1>5, <1>9, <2>1, <2>2, <2>3, PinsRest DEF StoreInv
<1>13. KeysAgree'
 <2>1. \A x \in Comment : handler'[x].at \in Keyed => x # c /\ handler[x].at \in Keyed /\ handler'[x].key = handler[x].key
     BY <1>3, <1>4 DEF Keyed
 <2>2. ASSUME NEW x \in Comment, handler'[x].at \in Keyed, NEW y \in SharedAliases(db', x)
       PROVE  y \in SharedAliases(db, x) /\ db'.alias[y] = db.alias[y]
  <3>1. y \in StoredIn(db) /\ y \in Comment /\ db'.alias[y] # Nil /\ InScope(x, y) /\ x # c /\ handler[x].at \in Keyed
      BY <2>1, <2>2, <1>9, SharedIsInScope DEF StoredIn
  <3>2. \A z \in Comment : db'.alias[z] = IF z = c THEN k ELSE db.alias[z] BY <1>5 DEF StoreInv, StoreTypes, Tables
  <3>3. y # c BY <3>1, <3>2, <1>2, ScopeIsLocked
  <3> QED BY <3>1, <3>2, <3>3, SharedIsInScope
 <2> QED BY <2>1, <2>2, KeysRest DEF StoreInv
<1>14. RootsAreDone' BY <1>2, <1>3, <1>4, RootsMove DEF StoreInv
<1>15. StoreTypes' BY <1>1, <1>5, <1>6, <1>7 DEF StoreInv, StoreTypes
<1> QED BY <1>7, <1>10, <1>11, <1>12, <1>13, <1>14, <1>15 DEF StoreInv

----------------------------------------
(* The handlers of votes, edits and moderations. *)
ActStages == {"idle", "checked", "awaiting", "added", "done", "failed"}

(* Where the handler of an act may go. *)
LEMMA ActGoes ==
    ASSUME handler \in [Pub -> HandlerRecords], NEW a \in Act, NEW s \in ActStages, Goto(a, s)
    PROVE  /\ handler' \in [Pub -> HandlerRecords] /\ \A x \in Comment : handler'[x] = handler[x]
           /\ \A b \in Act : b # a => handler'[b] = handler[b]
           /\ handler'[a].at = s
<1>1. /\ handler' \in [Pub -> HandlerRecords] /\ handler'[a] = [handler[a] EXCEPT !.at = s]
      /\ \A x \in Pub \ {a} : handler'[x] = handler[x]
    BY PubGoes DEF Pub, ActStages
<1>2. handler[a] \in HandlerRecords BY DEF Pub
<1> QED BY <1>1, <1>2, StoreAssumption DEF Pub, HandlerRecords

(* What the handler of an act may come to hold. *)
LEMMA ActMoves ==
    ASSUME handler \in [Pub -> HandlerRecords], NEW a \in Act, NEW h \in HandlerRecords, handler' = [handler EXCEPT ![a] = h]
    PROVE  /\ handler' \in [Pub -> HandlerRecords] /\ \A x \in Comment : handler'[x] = handler[x]
           /\ \A b \in Act : b # a => handler'[b] = handler[b]
           /\ handler'[a] = h
<1>1. handler' \in [Pub -> HandlerRecords] /\ handler'[a] = h /\ \A x \in Pub \ {a} : handler'[x] = handler[x] BY PubMoves DEF Pub
<1> QED BY <1>1, StoreAssumption DEF Pub

(* A step of one that leaves the tables. *)
LEMMA ActRests ==
    ASSUME StoreInv, NEW a \in Act, handler' \in [Pub -> HandlerRecords], \A x \in Comment : handler'[x] = handler[x],
           \A b \in Act : b # a => handler'[b] = handler[b], handler'[a].at # "added",
           UNCHANGED <<db, ipfs, aliasLock, shown>>
    PROVE  StoreInv'
<1>1. StoreTypes' /\ TablesHold(db') BY DEF StoreInv, StoreTypes
<1> QED BY <1>1, OthersMove DEF StoreInv

(* What it was about is gone, or IPFS failed. *)
LEMMA ActFails ==
    ASSUME StoreInv, NEW a \in Act, Goto(a, "failed"), UNCHANGED <<db, ipfs, aliasLock, shown>>
    PROVE  StoreInv'
<1>1. "failed" \in ActStages BY DEF ActStages
<1> QED BY <1>1, ActGoes, ActRests DEF StoreInv, StoreTypes

(* It passes checkPublicationValidity. *)
LEMMA ActChecks == ASSUME StoreInv, NEW a \in Act, checkAct(a) PROVE StoreInv'
<1>1. "checked" \in ActStages BY DEF ActStages
<1> QED BY <1>1, ActGoes, ActRests DEF checkAct, StoreInv, StoreTypes

(* It reads what it is about and awaits. *)
LEMMA ActAwaits ==
    ASSUME StoreInv, NEW a \in Act, storeCommentEdit(a) \/ storeCommentModeration(a)
    PROVE  StoreInv'
<1>1. CASE Goto(a, "failed") BY <1>1, ActFails DEF storeCommentEdit, storeCommentModeration
<1>2. CASE handler' = [handler EXCEPT ![a] = [handler[a] EXCEPT !.at = "awaiting", !.pending = db.rows[Target[a]].pending]]
 <2> DEFINE h == [handler[a] EXCEPT !.at = "awaiting", !.pending = db.rows[Target[a]].pending]
 <2>1. handler[a] \in HandlerRecords /\ db.rows[Target[a]] \in RowRecords BY StoreAssumption DEF StoreInv, StoreTypes, Pub, Tables
 <2>2. h \in HandlerRecords /\ h.at = "awaiting" BY <2>1 DEF HandlerRecords, RowRecords
 <2> HIDE DEF h
 <2>3. handler' = [handler EXCEPT ![a] = h] BY <1>2 DEF h
 <2> QED BY <2>2, <2>3, ActMoves, ActRests DEF storeCommentEdit, storeCommentModeration, StoreInv, StoreTypes
<1>3. CASE handler' = [handler EXCEPT ![a] = [handler[a] EXCEPT !.at = "awaiting", !.author = db.rows[Target[a]].signer]]
 <2> DEFINE h == [handler[a] EXCEPT !.at = "awaiting", !.author = db.rows[Target[a]].signer]
 <2>1. handler[a] \in HandlerRecords /\ db.rows[Target[a]] \in RowRecords BY StoreAssumption DEF StoreInv, StoreTypes, Pub, Tables
 <2>2. h \in HandlerRecords /\ h.at = "awaiting" BY <2>1 DEF HandlerRecords, RowRecords
 <2> HIDE DEF h
 <2>3. handler' = [handler EXCEPT ![a] = h] BY <1>3 DEF h
 <2> QED BY <2>2, <2>3, ActMoves, ActRests DEF storeCommentEdit, storeCommentModeration, StoreInv, StoreTypes
<1> QED BY <1>1, <1>2, <1>3 DEF storeCommentEdit, storeCommentModeration

(* The tables after a step of one that adds no row and ends the handler. *)
LEMMA ActWrites ==
    ASSUME StoreInv, NEW a \in Act, NEW s \in {"done", "failed"}, Goto(a, s), UNCHANGED <<aliasLock, shown>>,
           db' \in Tables, TablesHold(db'), db.purged \subseteq db'.purged,
           \A x \in StoredIn(db') : /\ x \in StoredIn(db) /\ db'.alias[x] = db.alias[x]
                                    /\ db'.rows[x].pending => db.rows[x].pending
                                    /\ db'.rows[x].number > 0 => db.rows[x].number > 0 \/ x \in ipfs.pinned \cup db'.purged,
           ipfs' \in [pinned : SUBSET Comment, unpin : SUBSET Comment], ipfs'.pinned = ipfs.pinned,
           \A x \in ipfs'.unpin : x \in ipfs.unpin \/ x \in db'.purged
    PROVE  StoreInv'
<1>1. s \in ActStages /\ s # "added" BY DEF ActStages
<1>2. /\ handler' \in [Pub -> HandlerRecords] /\ \A x \in Comment : handler'[x] = handler[x]
      /\ \A b \in Act : b # a => handler'[b] = handler[b]
      /\ handler'[a].at = s
    BY <1>1, ActGoes DEF StoreInv, StoreTypes
<1>3. StoreTypes' BY <1>2 DEF StoreInv, StoreTypes
<1>4. PendingIn(db') \subseteq PendingIn(db) BY DEF PendingIn
<1> QED BY <1>1, <1>2, <1>3, <1>4, OthersMove DEF StoreInv

(* storeVote. *)
LEMMA Voting == ASSUME StoreInv, NEW a \in Act, storeVote(a) PROVE StoreInv'
<1>1. PICK v \in SUBSET Act : db' = [db EXCEPT !.votes = v]
 <2> DEFINE kept == {b \in db.votes : ~(By[b] = By[a] /\ Target[b] = Target[a])}
 <2>1. kept \in SUBSET Act /\ kept \cup {a} \in SUBSET Act BY DEF StoreInv, StoreTypes, Tables
 <2>2. db' = [db EXCEPT !.votes = kept \cup {a}] \/ db' = [db EXCEPT !.votes = kept] BY DEF storeVote
 <2> HIDE DEF kept
 <2> QED BY <2>1, <2>2
<1>2. /\ db' \in Tables /\ db'.rows = db.rows /\ db'.mods = db.mods /\ db'.alias = db.alias /\ db'.purged = db.purged
    BY <1>1 DEF StoreInv, StoreTypes, Tables
<1>3. TablesHold(db') /\ StoredIn(db') = StoredIn(db) BY <1>2, SameTables DEF StoreInv, StoredIn
<1>4. PICK s \in {"done", "failed"} : Goto(a, s) BY DEF storeVote
<1> QED BY <1>2, <1>3, <1>4, ActWrites DEF storeVote, StoreInv, StoreTypes

(* storeCommentEdit: a pending or refused comment is purged at once. *)
LEMMA AuthorDeletes == ASSUME StoreInv, NEW a \in Act, insertCommentEdit(a) PROVE StoreInv'
<1> DEFINE c == Target[a]
           d == [db EXCEPT !.edits = @ \cup {a}]
<1>0. c \in Comment BY StoreAssumption
<1>1. CASE ~db.rows[c].stored BY <1>1, ActFails DEF insertCommentEdit
<1>2. CASE db.rows[c].stored
 <2>1. /\ d \in Tables /\ d.rows = db.rows /\ d.mods = db.mods /\ d.alias = db.alias /\ d.purged = db.purged
     BY DEF StoreInv, StoreTypes, Tables
 <2>2. TablesHold(d) /\ StoredIn(d) = StoredIn(db) BY <2>1, SameTables DEF StoreInv, StoredIn
 <2>3. Goto(a, "done") /\ UNCHANGED <<ipfs, aliasLock, shown>> /\ (db' = d \/ \E random : db' = purgeComment(d, c, random))
     BY <1>2 DEF insertCommentEdit
 <2> HIDE DEF d, c
 <2>4. CASE db' = d BY <2>1, <2>2, <2>3, <2>4, ActWrites DEF StoreInv, StoreTypes
 <2>5. CASE \E random : db' = purgeComment(d, c, random)
  <3>1. PICK random : db' = purgeComment(d, c, random) BY <2>5
  <3>2. db' \in Tables /\ Removes(d, db') BY <3>1, <2>1, <1>0, PurgeRemoves
  <3>3. /\ TablesHold(db') /\ d.purged \subseteq db'.purged
        /\ \A x \in StoredIn(db') : x \in StoredIn(d) /\ db'.rows[x] = d.rows[x] /\ db'.alias[x] = d.alias[x]
      BY <3>2, <2>1, <2>2, RemovalKeeps
  <3> QED BY <2>1, <2>2, <2>3, <3>2, <3>3, ActWrites DEF StoreInv, StoreTypes
 <2> QED BY <2>3, <2>4, <2>5
<1> QED BY <1>1, <1>2

(* The row of a moderation. *)
LEMMA ModerationWritten ==
    ASSUME NEW d \in Tables, TablesHold(d), NEW a \in Act, NEW w \in Author \cup AliasKey \cup {Nil},
           KindOf[a] = "approve" => d.rows[Target[a]].stored /\ ~d.rows[Target[a]].pending /\ d.rows[Target[a]].number > 0
    PROVE  LET e == insertModeration(d, a, w) IN
           e \in Tables /\ TablesHold(e) /\ e.rows = d.rows /\ e.alias = d.alias /\ e.purged = d.purged /\ StoredIn(e) = StoredIn(d)
<1> DEFINE r == [target |-> Target[a], kind |-> KindOf[a], author |-> w]
           e == insertModeration(d, a, w)
<1>1. r \in ModRecords /\ r.kind = KindOf[a] /\ r.target = Target[a] BY StoreAssumption DEF ModRecords
<1>2. e = [d EXCEPT !.mods = Append(d.mods, r)] BY DEF insertModeration
<1> HIDE DEF r, e
<1>3. Append(d.mods, r) \in Seq(ModRecords) BY <1>1 DEF Tables
<1>4. e \in Tables /\ e.mods = Append(d.mods, r) /\ e.rows = d.rows /\ e.alias = d.alias /\ e.purged = d.purged BY <1>2, <1>3 DEF Tables
<1>5. TablesHold(e) BY <1>1, <1>4, ModerationKeeps
<1> QED BY <1>4, <1>5 DEF e, StoredIn

(* A ban. *)
LEMMA Banning == ASSUME StoreInv, NEW a \in Act, banAuthor(a) PROVE StoreInv'
<1> DEFINE w == IF db.alias[Target[a]] # Nil THEN By[Target[a]] ELSE handler[a].author
<1>1. w \in Author \cup AliasKey \cup {Nil} BY StoreAssumption DEF StoreInv, StoreTypes, Pub, HandlerRecords
<1>2. db' = insertModeration(db, a, w) /\ KindOf[a] = "ban" BY DEF banAuthor
<1> HIDE DEF w
<1>3. db' \in Tables /\ TablesHold(db') /\ db'.rows = db.rows /\ db'.alias = db.alias /\ db'.purged = db.purged /\ StoredIn(db') = StoredIn(db)
    BY <1>1, <1>2, ModerationWritten DEF StoreInv, StoreTypes
<1> QED BY <1>3, ActWrites DEF banAuthor, StoreInv, StoreTypes

(* A purge commits with its moderation ... *)
LEMMA PurgedByModeration ==
    ASSUME StoreInv, NEW a \in Act, KindOf[a] # "approve", NEW random,
           db' = insertModeration(purgeComment(db, Target[a], random), a, Nil)
    PROVE  /\ db' \in Tables /\ TablesHold(db') /\ db.purged \subseteq db'.purged /\ Subtree(db, Target[a]) \subseteq db'.purged
           /\ \A x \in StoredIn(db') : x \in StoredIn(db) /\ db'.rows[x] = db.rows[x] /\ db'.alias[x] = db.alias[x]
<1> DEFINE d == purgeComment(db, Target[a], random)
<1>1. d \in Tables /\ Removes(db, d) /\ d.purged = db.purged \cup Subtree(db, Target[a])
    BY PurgeRemoves, StoreAssumption DEF StoreInv, StoreTypes
<1>2. db' = insertModeration(d, a, Nil) OBVIOUS
<1> HIDE DEF d
<1>3. /\ TablesHold(d)
      /\ \A x \in StoredIn(d) : x \in StoredIn(db) /\ d.rows[x] = db.rows[x] /\ d.alias[x] = db.alias[x]
    BY <1>1, RemovalKeeps DEF StoreInv, StoreTypes
<1>4. db' \in Tables /\ TablesHold(db') /\ db'.rows = d.rows /\ db'.alias = d.alias /\ db'.purged = d.purged /\ StoredIn(db') = StoredIn(d)
    BY <1>1, <1>2, <1>3, ModerationWritten
<1> QED BY <1>1, <1>3, <1>4

(* ... a moderator's queues what it removed ... *)
LEMMA Purging == ASSUME StoreInv, NEW a \in Act, purgeByMod(a) PROVE StoreInv'
<1>1. CASE ~db.rows[Target[a]].stored BY <1>1, ActFails DEF purgeByMod
<1>2. CASE db.rows[Target[a]].stored
 <2>1. PICK random : db' = insertModeration(purgeComment(db, Target[a], random), a, Nil) BY <1>2 DEF purgeByMod
 <2>2. /\ db' \in Tables /\ TablesHold(db') /\ db.purged \subseteq db'.purged /\ Subtree(db, Target[a]) \subseteq db'.purged
       /\ \A x \in StoredIn(db') : x \in StoredIn(db) /\ db'.rows[x] = db.rows[x] /\ db'.alias[x] = db.alias[x]
     BY <2>1, PurgedByModeration DEF purgeByMod
 <2>3. /\ ipfs' \in [pinned : SUBSET Comment, unpin : SUBSET Comment] /\ ipfs'.pinned = ipfs.pinned
       /\ ipfs'.unpin = ipfs.unpin \cup Subtree(db, Target[a])
  <3>1. Subtree(db, Target[a]) \subseteq Comment BY DEF Subtree, StoredIn
  <3> QED BY <3>1, <1>2 DEF purgeByMod, StoreInv, StoreTypes
 <2>4. Goto(a, "done") /\ UNCHANGED <<aliasLock, shown>> BY <1>2 DEF purgeByMod
 <2> QED BY <2>2, <2>3, <2>4, ActWrites
<1> QED BY <1>1, <1>2

(* ... a rejection queues nothing. *)
LEMMA Rejecting == ASSUME StoreInv, NEW a \in Act, rejectPending(a) PROVE StoreInv'
<1>1. CASE ~db.rows[Target[a]].stored BY <1>1, ActFails DEF rejectPending
<1>2. CASE db.rows[Target[a]].stored
 <2>1. PICK random : db' = insertModeration(purgeComment(db, Target[a], random), a, Nil) BY <1>2 DEF rejectPending
 <2>2. /\ db' \in Tables /\ TablesHold(db') /\ db.purged \subseteq db'.purged
       /\ \A x \in StoredIn(db') : x \in StoredIn(db) /\ db'.rows[x] = db.rows[x] /\ db'.alias[x] = db.alias[x]
     BY <2>1, PurgedByModeration DEF rejectPending
 <2>3. Goto(a, "done") /\ UNCHANGED <<ipfs, aliasLock, shown>> BY <1>2 DEF rejectPending
 <2> QED BY <2>2, <2>3, ActWrites DEF StoreInv, StoreTypes
<1> QED BY <1>1, <1>2

(* disapproved: the row leaves the queue and stays. *)
LEMMA Disapproving == ASSUME StoreInv, NEW a \in Act, disapprovePending(a) PROVE StoreInv'
<1> DEFINE c == Target[a]
           r == [db.rows[c] EXCEPT !.pending = FALSE]
           d == [db EXCEPT !.rows[c].pending = FALSE]
<1>0. c \in Comment /\ db \in Tables /\ db.rows[c] \in RowRecords BY StoreAssumption DEF StoreInv, StoreTypes, Tables
<1>1. /\ r \in RowRecords /\ r.stored = db.rows[c].stored /\ r.pending = FALSE
      /\ r.number = db.rows[c].number /\ r.post = db.rows[c].post
    BY <1>0 DEF RowRecords
<1>2. d = [db EXCEPT !.rows = [db.rows EXCEPT ![c] = r]] BY <1>0 DEF Tables
<1>3. db' = insertModeration(d, a, Nil) /\ KindOf[a] = "disapprove" BY DEF disapprovePending
<1> HIDE DEF r, d
<1>4. d \in Tables /\ d.rows = [db.rows EXCEPT ![c] = r] /\ d.mods = db.mods /\ d.alias = db.alias /\ d.purged = db.purged
    BY <1>0, <1>1, <1>2 DEF Tables
<1>5. \A x \in Comment : d.rows[x] = IF x = c THEN r ELSE db.rows[x] BY <1>0, <1>4 DEF Tables
<1>6. TablesHold(d)
 <2>1. NumbersHold(d)
  <3>1. ASSUME r.stored PROVE FreshIn(db, c, r)
   <4>1. c \in StoredIn(db) BY <3>1, <1>0, <1>1 DEF StoredIn
   <4> QED BY <4>1, <1>1 DEF FreshIn, StoreInv, TablesHold, NumbersHold
  <3> HIDE DEF c
  <3> QED BY <3>1, <1>0, <1>1, <1>4, RowWritten DEF StoreInv, TablesHold
 <2>2. ApprovedByMod(db, c) /\ c \notin db.purged => r.stored /\ ~r.pending /\ r.number > 0
     BY <1>0, <1>1 DEF StoreInv, TablesHold, VerdictsHold
 <2> HIDE DEF c
 <2> QED BY <2>1, <2>2, <1>0, <1>1, <1>4, RowKeeps DEF StoreInv
<1>7. db' \in Tables /\ TablesHold(db') /\ db'.rows = d.rows /\ db'.alias = d.alias /\ db'.purged = d.purged /\ StoredIn(db') = StoredIn(d)
    BY <1>3, <1>4, <1>6, ModerationWritten
<1>8. ASSUME NEW x \in StoredIn(db')
      PROVE  x \in StoredIn(db) /\ db'.alias[x] = db.alias[x] /\ (db'.rows[x].pending => db.rows[x].pending) /\ (db'.rows[x].number > 0 => db.rows[x].number > 0)
 <2>1. x \in Comment /\ d.rows[x].stored BY <1>7, <1>8 DEF StoredIn
 <2> QED BY <2>1, <1>1, <1>4, <1>5, <1>7 DEF StoredIn
<1> QED BY <1>4, <1>7, <1>8, ActWrites DEF disapprovePending, StoreInv, StoreTypes

(* An approval: the record is pinned, then the row numbered. *)
LEMMA AddingApproved == ASSUME StoreInv, NEW a \in Act, addApprovedToIpfs(a) PROVE StoreInv'
<1>1. /\ handler' \in [Pub -> HandlerRecords] /\ \A x \in Comment : handler'[x] = handler[x]
      /\ \A b \in Act : b # a => handler'[b] = handler[b]
 <2>1. "added" \in ActStages BY DEF ActStages
 <2> QED BY <2>1, ActGoes DEF addApprovedToIpfs, StoreInv, StoreTypes
<1>2. /\ ipfs' \in [pinned : SUBSET Comment, unpin : SUBSET Comment] /\ ipfs'.unpin = ipfs.unpin
      /\ ipfs.pinned \subseteq ipfs'.pinned /\ Target[a] \in ipfs'.pinned
    BY StoreAssumption DEF addApprovedToIpfs, StoreInv, StoreTypes
<1>3. UNCHANGED <<db, aliasLock, shown>> BY DEF addApprovedToIpfs
<1>4. StoreTypes' /\ TablesHold(db') BY <1>1, <1>2, <1>3 DEF StoreInv, StoreTypes
<1> QED BY <1>1, <1>2, <1>3, <1>4, OthersMove DEF StoreInv

(* IPFS refuses the record of an approval. *)
LEMMA ApprovalFails == ASSUME StoreInv, NEW a \in Act, addApprovedFails(a) PROVE StoreInv'
BY ActFails, StoreAssumption DEF addApprovedFails, Fails

(* The row of an approved comment: its number is its own. *)
LEMMA RowApproved ==
    ASSUME NEW d \in Tables, NumbersHold(d), NEW c \in Comment, d.rows[c].stored
    PROVE  LET r == approvedRow(d, c) IN
           /\ r \in RowRecords /\ r.stored /\ r.pending = FALSE /\ r.number > 0
           /\ r.post > 0 => Parent[c] = Nil
           /\ \A x \in StoredIn(d) \ {c} : /\ r.number # d.rows[x].number
                                           /\ r.post > 0 => r.post # d.rows[x].post
<1> DEFINE q == getNextCommentNumbers(d, c)
           r == approvedRow(d, c)
           o == [d.rows[c] EXCEPT !.pending = FALSE]
           u == [o EXCEPT !.number = q.number, !.post = q.post]
<1>1. /\ q.number \in Nat /\ q.number > 0 /\ q.post \in Nat /\ (q.post > 0 => Parent[c] = Nil)
      /\ \A x \in StoredIn(d) : d.rows[x].number < q.number /\ (q.post > 0 => d.rows[x].post < q.post)
    BY NextNumbersAreNew
<1>2. d.rows[c] \in RowRecords /\ c \in StoredIn(d) BY DEF Tables, StoredIn
<1>3. \A x \in StoredIn(d) : d.rows[x].number \in Nat /\ d.rows[x].post \in Nat BY DEF Tables, RowRecords, StoredIn
<1>4. r = IF o.number > 0 THEN o ELSE u BY DEF approvedRow
<1>5. /\ o \in RowRecords /\ o.stored = d.rows[c].stored /\ o.pending = FALSE
      /\ o.number = d.rows[c].number /\ o.post = d.rows[c].post
    BY <1>2 DEF RowRecords
<1> HIDE DEF q, r, o
<1>6. u \in RowRecords /\ u.stored = o.stored /\ u.pending = FALSE /\ u.number = q.number /\ u.post = q.post BY <1>1, <1>5 DEF RowRecords
<1> HIDE DEF u
<1>7. CASE o.number > 0
 <2>1. r = o BY <1>7, <1>4
 <2>2. r.post > 0 => Parent[c] = Nil BY <2>1, <1>2, <1>5 DEF NumbersHold
 <2>3. \A x \in StoredIn(d) \ {c} : r.number # d.rows[x].number /\ (r.post > 0 => r.post # d.rows[x].post)
     BY <2>1, <1>2, <1>5, <1>7 DEF NumbersHold
 <2> QED BY <2>1, <2>2, <2>3, <1>5, <1>7 DEF r
<1>8. CASE ~(o.number > 0)
 <2>1. r = u BY <1>8, <1>4
 <2>2. \A x \in StoredIn(d) \ {c} : r.number # d.rows[x].number /\ (r.post > 0 => r.post # d.rows[x].post) BY <2>1, <1>1, <1>3, <1>6
 <2> QED BY <2>1, <2>2, <1>1, <1>5, <1>6 DEF r
<1> QED BY <1>7, <1>8

(* approvePendingComment numbers the row and commits with its moderation. *)
LEMMA Approving == ASSUME StoreInv, NEW a \in Act, approvePendingComment(a) PROVE StoreInv'
<1> DEFINE c == Target[a]
           r == approvedRow(db, c)
           d == [db EXCEPT !.rows[c] = r]
<1>0. c \in Comment /\ db \in Tables /\ NumbersHold(db) BY StoreAssumption DEF StoreInv, StoreTypes, TablesHold
<1>1. CASE ~db.rows[c].stored BY <1>1, ActFails DEF approvePendingComment
<1>2. CASE db.rows[c].stored
 <2>1. /\ r \in RowRecords /\ r.stored /\ r.pending = FALSE /\ r.number > 0
       /\ r.post > 0 => Parent[c] = Nil
       /\ \A x \in StoredIn(db) \ {c} : /\ r.number # db.rows[x].number
                                        /\ r.post > 0 => r.post # db.rows[x].post
  <3> HIDE DEF c
  <3> QED BY <1>0, <1>2, RowApproved
 <2>2. db' = insertModeration(d, a, Nil) /\ KindOf[a] = "approve" /\ handler[a].at = "added" /\ Goto(a, "done")
     BY <1>2 DEF approvePendingComment, At
 <2>3. UNCHANGED <<ipfs, aliasLock, shown>> BY DEF approvePendingComment
 <2> HIDE DEF r
 <2>4. d \in Tables /\ d.rows = [db.rows EXCEPT ![c] = r] /\ d.mods = db.mods /\ d.alias = db.alias /\ d.purged = db.purged
     BY <1>0, <2>1 DEF Tables
 <2> HIDE DEF d
 <2>5. \A x \in Comment : d.rows[x] = IF x = c THEN r ELSE db.rows[x] BY <1>0, <2>4 DEF Tables
 <2>6. NumbersHold(d)
  <3>1. FreshIn(db, c, r) BY <2>1 DEF FreshIn
  <3> HIDE DEF c
  <3> QED BY <3>1, <1>0, <2>1, <2>4, RowWritten
 <2>7. TablesHold(d)
  <3> HIDE DEF c
  <3> QED BY <1>0, <2>1, <2>4, <2>6, RowKeeps DEF StoreInv
 <2>8. db' \in Tables /\ TablesHold(db') /\ db'.rows = d.rows /\ db'.alias = d.alias /\ db'.purged = d.purged /\ StoredIn(db') = StoredIn(d)
  <3>1. d.rows[Target[a]].stored /\ ~d.rows[Target[a]].pending /\ d.rows[Target[a]].number > 0 BY <1>0, <2>1, <2>5
  <3> DEFINE e == insertModeration(d, a, Nil)
  <3>2. e \in Tables /\ TablesHold(e) /\ e.rows = d.rows /\ e.alias = d.alias /\ e.purged = d.purged /\ StoredIn(e) = StoredIn(d)
   <4>1. Nil \in Author \cup AliasKey \cup {Nil} OBVIOUS
   <4> HIDE DEF c
   <4> QED BY <4>1, <3>1, <2>4, <2>7, ModerationWritten
  <3> QED BY <3>2, <2>2
 <2>9. c \in ipfs.pinned \cup db.purged BY <1>0, <1>2, <2>2 DEF StoreInv, PinsFollow
 <2>10. ASSUME NEW x \in StoredIn(db')
        PROVE  /\ x \in StoredIn(db) /\ db'.alias[x] = db.alias[x]
               /\ db'.rows[x].pending => db.rows[x].pending
               /\ db'.rows[x].number > 0 => db.rows[x].number > 0 \/ x \in ipfs.pinned \cup db'.purged
  <3>1. x \in Comment /\ d.rows[x].stored BY <2>8, <2>10 DEF StoredIn
  <3> QED BY <3>1, <1>2, <2>1, <2>4, <2>5, <2>8, <2>9 DEF StoredIn
 <2> QED BY <2>2, <2>3, <2>4, <2>8, <2>10, ActWrites DEF StoreInv, StoreTypes
<1> QED BY <1>1, <1>2

----------------------------------------
(* The publish cycle, the unpinning and a restart. *)
LEMMA CycleSteps ==
    ASSUME StoreInv, (\E c \in Comment : calculateUpdate(c)) \/ markCommentsAsPublished
    PROVE  StoreInv'
<1>1. UNCHANGED <<ipfs, handler, aliasLock>> /\ shown' \in [Comment -> SUBSET Comment]
 <2>1. \A c : Counted(db, c) \in SUBSET Comment BY DEF Counted, StoredIn
 <2> QED BY <2>1 DEF calculateUpdate, markCommentsAsPublished, StoreInv, StoreTypes
<1>2. /\ db' \in Tables /\ db'.rows = db.rows /\ db'.mods = db.mods /\ db'.alias = db.alias /\ db'.purged = db.purged
 <2>1. db \in Tables BY DEF StoreInv, StoreTypes
 <2>2. CASE markCommentsAsPublished BY <2>1, <2>2 DEF markCommentsAsPublished, Tables
 <2>3. CASE \E c \in Comment : calculateUpdate(c) BY <2>1, <2>3 DEF calculateUpdate, Tables
 <2> QED BY <2>2, <2>3
<1>3. TablesHold(db') /\ StoredIn(db') = StoredIn(db) /\ PendingIn(db') = PendingIn(db)
    BY <1>2, SameTables DEF StoreInv, StoredIn, PendingIn
<1>4. StoreTypes' BY <1>1, <1>2 DEF StoreInv, StoreTypes
<1> QED BY <1>1, <1>2, <1>3, <1>4, OthersMove

(* unpinStaleCids: only what was purged or refused is taken down. *)
LEMMA Unpinning == ASSUME StoreInv, unpinStaleCids PROVE StoreInv'
<1>1. UNCHANGED <<db, handler, aliasLock, shown>> /\ ipfs' = [pinned |-> ipfs.pinned \ ipfs.unpin, unpin |-> {}] BY DEF unpinStaleCids
<1>2. /\ ipfs' \in [pinned : SUBSET Comment, unpin : SUBSET Comment]
      /\ ipfs'.pinned = ipfs.pinned \ ipfs.unpin /\ ipfs'.unpin = {}
    BY <1>1 DEF StoreInv, StoreTypes
<1>3. StoreTypes' BY <1>1, <1>2 DEF StoreInv, StoreTypes
<1>4. TablesHold(db)' /\ FewPending' /\ RowsHaveHandlers' /\ KeysAgree' /\ RootsAreDone' /\ LocksFollow'
 <2>1. LocksFollow' BY <1>1, LocksRest DEF StoreInv, StoreTypes
 <2> QED BY <1>1, <2>1 DEF StoreInv, TablesHold, NumbersHold, VerdictsHold, AliasesAgree, StoredIn, SharedAliases, ApprovedByMod,
                       Verdicts, FewPending, PendingIn, RowsHaveHandlers, KeysAgree, Keyed, RootsAreDone
<1>5. PinsFollow'
 <2>1. ASSUME NEW x \in StoredIn(db), db.rows[x].number > 0 PROVE x \in ipfs'.pinned \cup db.purged
     BY <2>1, <1>2 DEF StoreInv, PinsFollow, StoredIn
 <2>2. ASSUME NEW x \in Comment, handler[x].at = "added", x \notin HeldBack PROVE x \in ipfs'.pinned \cup db.purged
     BY <2>2, <1>2 DEF StoreInv, PinsFollow
 <2>3. ASSUME NEW a \in Act, KindOf[a] = "approve", handler[a].at = "added"
       PROVE  \/ Target[a] \in ipfs'.pinned \cup db.purged
              \/ handler[Target[a]].at = "failed" /\ ~db.rows[Target[a]].stored
     BY <2>3, <1>2 DEF StoreInv, PinsFollow
 <2> QED BY <2>1, <2>2, <2>3, <1>1, <1>2 DEF PinsFollow, StoredIn
<1> QED BY <1>3, <1>4, <1>5 DEF StoreInv

(* A restart: every handler is lost, the tables, pins and queue are kept. *)
LEMMA Restarting == ASSUME StoreInv, restart PROVE StoreInv'
<1> DEFINE lost == [IdleHandler EXCEPT !.at = "failed"]
<1>1. /\ UNCHANGED <<db, ipfs, shown>>
      /\ handler' = [p \in Pub |-> IF handler[p].at \in {"never", "idle", "done"} THEN handler[p] ELSE lost]
      /\ aliasLock' = [k \in LockKeys |-> << >>]
    BY DEF restart
<1>2. lost \in HandlerRecords /\ lost.at = "failed" BY DEF IdleHandler, HandlerRecords
<1> HIDE DEF lost
<1>3. \A p \in Pub : /\ handler[p].at \in {"never", "idle", "done"} => handler'[p] = handler[p]
                     /\ handler[p].at \notin {"never", "idle", "done"} => handler'[p] = lost
    BY <1>1
<1>4. handler' \in [Pub -> HandlerRecords] /\ aliasLock' \in [LockKeys -> Seq(Comment)] BY <1>1, <1>2 DEF StoreInv, StoreTypes
<1>5. \A x \in Comment : handler'[x].at \notin Chained /\ handler'[x].at # "added" BY <1>2, <1>3 DEF Pub, Chained, Keyed
<1>6. StoreTypes' BY <1>1, <1>4 DEF StoreInv, StoreTypes
<1>7. TablesHold(db)' /\ FewPending'
    BY <1>1 DEF StoreInv, TablesHold, NumbersHold, VerdictsHold, AliasesAgree, StoredIn, SharedAliases, ApprovedByMod,
                Verdicts, FewPending, PendingIn
<1>8. RowsHaveHandlers' BY <1>1, <1>2, <1>3 DEF StoreInv, RowsHaveHandlers, StoredIn, Pub
<1>9. PinsFollow'
 <2>1. \A x \in Comment : handler[x].at = "failed" /\ ~db.rows[x].stored => handler'[x].at = "failed" /\ ~db'.rows[x].stored
     BY <1>1, <1>2, <1>3 DEF Pub
 <2>2. \A a \in Act : handler'[a].at # "added" BY <1>2, <1>3 DEF Pub
 <2>3. ipfs.unpin \subseteq Comment /\ db' = db /\ ipfs' = ipfs BY <1>1 DEF StoreInv, StoreTypes
 <2> QED BY <1>5, <2>1, <2>2, <2>3, PinsRest DEF StoreInv
<1>10. KeysAgree' BY <1>5 DEF KeysAgree, Chained, Keyed
<1>11. RootsAreDone' BY <1>2, <1>3, PostOfThread DEF StoreInv, RootsAreDone, Pub
<1>12. LocksFollow'
 <2>1. \A k \in LockKeys : aliasLock'[k] = << >> BY <1>1
 <2> QED BY <2>1, <1>5 DEF LocksFollow, Chained, Keyed
<1> QED BY <1>6, <1>7, <1>8, <1>9, <1>10, <1>11, <1>12 DEF StoreInv

----------------------------------------
(* The invariant holds at first ... *)
LEMMA StoreStarts == StoreInit => StoreInv
<1> SUFFICES ASSUME StoreInit PROVE StoreInv OBVIOUS
<1>1. /\ \A c \in Comment : db.rows[c] = Absent /\ db.alias[c] = Nil
      /\ db.mods = << >> /\ db.purged = {} /\ db.votes = {} /\ db.edits = {} /\ db.marked = {} /\ db.inCycle = {}
    BY DEF StoreInit
<1>2. Absent \in RowRecords /\ Absent.stored = FALSE /\ Absent.number = 0 /\ Absent.post = 0 /\ Absent.rowid = 0 BY DEF Absent, RowRecords
<1>3. StoredIn(db) = {} BY <1>1, <1>2 DEF StoredIn
<1>4. db \in Tables
 <2>1. db = [rows |-> [c \in Comment |-> Absent], mods |-> << >>, votes |-> {}, edits |-> {}, alias |-> [c \in Comment |-> Nil],
             marked |-> {}, inCycle |-> {}, purged |-> {}]
     BY DEF StoreInit
 <2>2. << >> \in Seq(ModRecords) OBVIOUS
 <2> QED BY <2>1, <2>2, <1>2 DEF Tables
<1>5. handler \in [Pub -> HandlerRecords] /\ \A p \in Pub : handler[p].at \in {"never", "idle"}
 <2> DEFINE asleep == [IdleHandler EXCEPT !.at = "never"]
 <2>1. IdleHandler \in HandlerRecords /\ asleep \in HandlerRecords /\ IdleHandler.at = "idle" /\ asleep.at = "never"
     BY DEF IdleHandler, HandlerRecords
 <2>2. PICK arriving \in Workload : handler = [p \in Pub |-> IF p \in arriving THEN IdleHandler ELSE asleep] BY DEF StoreInit
 <2> HIDE DEF asleep
 <2> QED BY <2>1, <2>2
<1>6. ipfs = [pinned |-> {}, unpin |-> {}] /\ aliasLock = [k \in LockKeys |-> << >>] /\ shown = [c \in Comment |-> {}] BY DEF StoreInit
<1>7. StoreTypes BY <1>4, <1>5, <1>6 DEF StoreTypes
<1>8. TablesHold(db)
 <2>1. NumbersHold(db)
  <3>1. \A c \in Comment : db.rows[c].number <= 0 /\ db.rows[c].post <= 0 /\ db.rows[c].rowid <= 0 BY <1>1, <1>2
  <3> QED BY <3>1, <1>3 DEF NumbersHold
 <2>2. VerdictsHold(db) BY <1>1 DEF VerdictsHold, ApprovedByMod, Verdicts
 <2>3. AliasesAgree(db) BY <1>1, <1>3 DEF AliasesAgree
 <2> QED BY <2>1, <2>2, <2>3 DEF TablesHold
<1>9. FewPending
 <2>1. PendingIn(db) = {} BY <1>3 DEF PendingIn
 <2> QED BY <2>1, FS_EmptySet, StoreAssumption DEF FewPending
<1>10. RowsHaveHandlers BY <1>3 DEF RowsHaveHandlers
<1>11. PinsFollow BY <1>3, <1>5, <1>6 DEF PinsFollow, Pub
<1>12. KeysAgree /\ RootsAreDone BY <1>5 DEF KeysAgree, RootsAreDone, Keyed, Pub
<1>13. LocksFollow
 <2>1. \A k \in LockKeys : aliasLock[k] = << >> BY <1>6
 <2> QED BY <2>1, <1>5 DEF LocksFollow, Keyed, Pub
<1> QED BY <1>7, <1>8, <1>9, <1>10, <1>11, <1>12, <1>13 DEF StoreInv

(* ... when nothing happens ... *)
LEMMA StoreStays == StoreInv /\ UNCHANGED storeVars => StoreInv'
<1> SUFFICES ASSUME StoreInv, UNCHANGED storeVars PROVE StoreInv' OBVIOUS
<1>1. UNCHANGED <<db, ipfs, handler, aliasLock, shown>> BY DEF storeVars
<1> QED BY <1>1, OthersMove DEF StoreInv, StoreTypes, StoredIn, PendingIn

(* ... and after every step. *)
LEMMA StoreSteps == StoreInv /\ StoreNext => StoreInv'
<1> SUFFICES ASSUME StoreInv, StoreNext PROVE StoreInv' OBVIOUS
<1>1. ASSUME NEW c \in Comment, \/ checkComment(c) \/ prepareCommentWithAnonymity(c) \/ prepareFails(c)
                                \/ addCommentToIpfs(c) \/ addCommentFails(c) \/ notVerbatim(c)
                                \/ insertComment(c) \/ insertCommentFails(c)
                                \/ insertAlias(c) \/ insertAliasFails(c)
      PROVE  StoreInv'
 <2>1. ASSUME prepareFails(c) \/ addCommentFails(c) \/ insertCommentFails(c) \/ insertAliasFails(c) PROVE StoreInv'
     BY <2>1, CommentFails DEF prepareFails, addCommentFails, insertCommentFails, insertAliasFails, At, Keyed
 <2> QED BY <1>1, <2>1, Checking, Preparing, Adding, Refusing, Inserting, Aliasing
<1>2. ASSUME NEW a \in Act, \/ checkAct(a) \/ storeVote(a)
                            \/ storeCommentEdit(a) \/ insertCommentEdit(a)
                            \/ storeCommentModeration(a) \/ banAuthor(a) \/ purgeByMod(a)
                            \/ rejectPending(a) \/ disapprovePending(a)
                            \/ addApprovedToIpfs(a) \/ addApprovedFails(a) \/ approvePendingComment(a)
      PROVE  StoreInv'
    BY <1>2, ActChecks, ActAwaits, Voting, AuthorDeletes, Banning, Purging, Rejecting, Disapproving, AddingApproved, ApprovalFails, Approving
<1>3. ASSUME (\E c \in Comment : calculateUpdate(c)) \/ markCommentsAsPublished \/ unpinStaleCids \/ restart PROVE StoreInv'
    BY <1>3, CycleSteps, Unpinning, Restarting
<1> QED BY <1>1, <1>2, <1>3 DEF StoreNext

(* It says more than the property. *)
LEMMA StoreInvSuffices == StoreInv => StoreIsConsistent
<1> SUFFICES ASSUME StoreInv PROVE StoreIsConsistent OBVIOUS
<1>1. StoreTypeOK BY DEF StoreInv, StoreTypes, Tables, RowRecords, StoreTypeOK
<1>2. NumbersUnique BY DEF StoreInv, TablesHold, NumbersHold, NumbersUnique
<1>3. VerdictMatchesRow BY DEF StoreInv, TablesHold, VerdictsHold, VerdictMatchesRow, StoredIn
<1>4. NumberedIsPinned BY DEF StoreInv, PinsFollow, NumberedIsPinned
<1>5. PendingBounded BY DEF StoreInv, FewPending, PendingBounded
<1>6. AliasShared BY DEF StoreInv, TablesHold, AliasesAgree, AliasShared
<1> QED BY <1>1, <1>2, <1>3, <1>4, <1>5, <1>6 DEF StoreIsConsistent

(* Whatever the handlers of comments, votes, edits and moderations do to the *)
(* tables of a community between their awaits, with the publish cycle, the *)
(* unpinning and restarts in between: numbers are given once, the queue of *)
(* approvals stays within maxPendingApprovalCount, what has a number is *)
(* pinned, a verdict is in the row it is about, and one author has one alias *)
(* in one scope. *)
THEOREM TablesStayConsistent == StoreSpec => []StoreIsConsistent
<1>1. StoreInv /\ [StoreNext]_storeVars => StoreInv' BY StoreSteps, StoreStays
<1> QED BY <1>1, StoreStarts, StoreInvSuffices, PTL DEF StoreSpec
========================================
