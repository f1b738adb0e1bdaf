-------------------- MODULE RpcClientProofs --------------------
(***************************************************************************)
(* A client that reconnects keeps up with its server, for any subscribers, *)
(* drops, updates and stops: every subscription on the server is asked for,*)
(* owned or being given back, its holder knows the newest version or will  *)
(* read it last, and the ids of an earlier connection are never heard of   *)
(* again.                                                                  *)
(***************************************************************************)
EXTENDS RpcClient, FiniteSetTheorems, TLAPS

----------------------------------------
(* The invariant. *)

Ids == 1..MaxIds
UserStates == {"absent", "idle", "waiting", "calling", "threw", "live", "unwanted", "stopping", "stopped", "rejected"}
UserRows == [state : UserStates, id : 0..MaxIds, attached : BOOLEAN, seen : Nat, told : BOOLEAN]
Calls == [method : {"subscribe", "resubscribe", "unsubscribe"}, use : Uses, id : 0..MaxIds]
Asks(c) == c.method # "unsubscribe"
NoteRows == [type : {"note"}, id : Ids, version : Nat]
AnswerRows == [type : {"answer"}, id : 0..MaxIds, call : Calls]

(* What is on a wire, and the answers to those who ask for a subscription. *)
Msgs(w) == {w[n] : n \in 1..Len(w)}
IsReply(m) == m.type = "answer" /\ Asks(m.call)
OneReplyEach(w) == \A m, n \in 1..Len(w) : IsReply(w[m]) /\ IsReply(w[n]) /\ w[m].call.use = w[n].call.use => m = n
NotesOf(w, i) == {n \in 1..Len(w) : w[n].type = "note" /\ w[n].id = i}
TellsLast(w, i, v) == \E n \in NotesOf(w, i) : w[n].version = v /\ \A m \in NotesOf(w, i) : m <= n
NoNote(w, i) == NotesOf(w, i) = {}

ClientTypeOK ==
    /\ clientJob \in ClientWorkload
    /\ link.state \in {"connecting", "connected", "failed"} /\ link = [state |-> link.state, before |-> link.before, drops |-> link.drops]
    /\ users \in [Uses -> UserRows]
    /\ resubscribeCalls \in SUBSET Ids /\ publishIds \in SUBSET Ids /\ retry \in SUBSET Uses
    /\ serverIds \in [Ids -> 0..MaxIds] /\ buffers \in [Ids -> Seq(Nat)]
    /\ sent \in SUBSET Calls /\ handled \in SUBSET [call : Calls, id : Ids] /\ wire \in Seq(NoteRows \cup AnswerRows)
    /\ onServer \in SUBSET [use : Uses, id : Ids]
    /\ versions \in [Uses -> Nat] /\ ids \in 0..MaxIds

(* A call the server has not answered, or whose answer is not read. *)
Flying(c) ==
    \/ c \in sent
    \/ \E h \in handled : h.call = c
    \/ \E m \in Msgs(wire) : m.type = "answer" /\ m.call = c

(* A subscription on the server whose id its asker does not know yet. *)
Pending(u, i) ==
    \/ \E h \in handled : h.id = i /\ h.call.use = u
    \/ \E m \in Msgs(wire) : IsReply(m) /\ m.id = i /\ m.call.use = u

(* Without a connection nothing is under way. *)
DroppedIsEmpty ==
    /\ ~Connected => sent = {} /\ handled = {} /\ wire = <<>> /\ onServer = {}
    /\ ~link.before => ~Connected /\ resubscribeCalls = {} /\ \A u \in Uses : users[u].id = 0

(* The lists fail with the connection and are asked for with the next one. *)
ListsComeBack ==
    /\ \A u \in retry : UserKind(u) = "list" /\ users[u].state = "threw"
    /\ \A u \in Uses : users[u].state = "waiting" => link.state = "connecting"
    /\ \A u \in Uses : u \in DOMAIN clientJob.kind => users[u].state # "absent"
    /\ \A u \in Uses : users[u].state \in {"unwanted", "stopping", "stopped"} => UserKind(u) # "list"
    /\ \A u \in Uses : users[u].state = "threw" /\ UserKind(u) = "list" /\ link.state # "failed" => ~Connected /\ u \in retry

(* Who has not asked on this connection has nothing on it. *)
Silent(u) == users[u].state \in {"absent", "idle", "waiting", "threw"}
Owned(u) == users[u].state \in {"live", "unwanted"}
SilentHaveNothing ==
    /\ \A u \in Uses : Silent(u) => (\A c \in Calls : Flying(c) => c.use # u) /\ (\A o \in onServer : o.use # u)
    /\ \A u \in Uses : Silent(u) \/ users[u].state = "calling" => users[u].id = 0
    /\ \A u \in Uses : users[u].id = 0 => ~users[u].attached
    /\ \A u \in Uses : users[u].state \in {"live", "stopping"} => users[u].id # 0

(* Ids are given out once: as the id of an instance or as what it maps to. *)
IdsAreSingle ==
    /\ \A u \in Uses : users[u].id <= ids
    /\ \A l \in Ids : serverIds[l] <= ids
    /\ \A l \in Ids : serverIds[l] # 0 => \E u \in Uses : users[u].id = l
    /\ \A u, w \in Uses : users[u].id = users[w].id /\ users[u].id # 0 => u = w
    /\ \A l, k \in Ids : serverIds[l] = serverIds[k] /\ serverIds[l] # 0 => l = k
    /\ \A l \in Ids, u \in Uses : serverIds[l] # 0 => serverIds[l] # users[u].id

(* Ids that the server will not use on this connection any more, or not yet. *)
Stale(i) == (\A o \in onServer : o.id # i) /\ NoNote(wire, i)
IdsAreGivenOut ==
    /\ \A i \in Ids : i > ids => Stale(i)
    /\ \A c \in Calls : Flying(c) => c.id <= ids

(* On one connection an instance asks once, and its subscription is one. *)
AskedOnce ==
    /\ \A c, d \in sent : Asks(c) /\ Asks(d) /\ c.use = d.use => c = d
    /\ \A c \in sent, h \in handled : Asks(c) => h.call.use # c.use
    /\ \A c \in sent, m \in Msgs(wire) : Asks(c) /\ IsReply(m) => m.call.use # c.use
    /\ \A c \in sent, o \in onServer : Asks(c) => o.use # c.use
    /\ \A h, k \in handled : h.call.use = k.call.use => h = k
    /\ \A h \in handled, m \in Msgs(wire) : IsReply(m) => m.call.use # h.call.use
    /\ OneReplyEach(wire)
    /\ \A h \in handled : Asks(h.call)
SubscribedOnce == \A o, p \in onServer : o.use = p.use \/ o.id = p.id => o = p

(* A new subscription nobody has taken over yet. *)
Unclaimed(i) == (\A u \in Uses : users[u].id # i) /\ (\A l \in Ids : serverIds[l] # i)
UnansweredAreNew == \A u \in Uses, i \in Ids : Pending(u, i) => [use |-> u, id |-> i] \in onServer /\ Unclaimed(i)

(* "Not running" is only said of a community that was stopped. *)
StopsAreTrue ==
    \A m \in Msgs(wire) : IsReply(m) /\ m.id = 0 =>
        /\ m.call.method = "resubscribe" /\ versions[m.call.use] = Stopped
        /\ \A o \in onServer : o.use # m.call.use

(* Whom a call in flight is for. *)
Fits(c) ==
    /\ c.method = "subscribe" => users[c.use].id = 0 /\ users[c.use].state \in {"calling", "unwanted"}
    /\ c.method = "resubscribe" =>
        /\ c.id # 0
        /\ \/ c.id \in resubscribeCalls /\ users[c.use].id = c.id /\ Owned(c.use)
           \/ c.id \notin resubscribeCalls /\ users[c.use].state \in {"stopping", "stopped"}
CallsFit == \A c \in Calls : Flying(c) => Fits(c)

(* What the client would issue again belongs to an instance that is live. *)
TablesAreOwned ==
    /\ resubscribeCalls \cap publishIds = {}
    /\ \A l \in resubscribeCalls : \E u \in Uses : users[u].id = l /\ Owned(u) /\ UserKind(u) # "publication"
    /\ \A l \in publishIds : \E u \in Uses : users[u].id = l /\ Owned(u) /\ UserKind(u) = "publication"
    /\ \A u \in Uses : users[u].id # 0 /\ UserKind(u) = "publication" => serverIds[users[u].id] = 0

(* Ids that only an earlier connection knew. *)
OldCallsAreStale == \A c \in Calls : Flying(c) /\ c.method = "resubscribe" => Stale(c.id) /\ Stale(ServerId(c.id))
OldIdsAreStale ==
    /\ \A l \in Ids : serverIds[l] # 0 => Stale(l)
    /\ \A u \in Uses : users[u].id # 0 /\ users[u].state # "stopping" /\ users[u].id \notin resubscribeCalls \cup publishIds =>
            Stale(users[u].id) /\ Stale(ServerId(users[u].id))

Mapped(u, i) == users[u].id # 0 /\ ServerId(users[u].id) = i

(* Every subscription on the server is asked for, owned or being given back, *)
(* or it came too late and nobody maps its id. *)
TooLate(o) == o \in overdue /\ Unclaimed(o.id)
SubscriptionsAreOwned ==
    \A o \in onServer : \/ Pending(o.use, o.id)
                        \/ Mapped(o.use, o.id) /\ Owned(o.use)
                        \/ Call("unsubscribe", o.use, o.id) \in sent /\ ~Owned(o.use)
                        \/ TooLate(o)
GivenBackIsFree ==
    \A c \in sent : ~Asks(c) =>
        /\ c.id # 0 /\ users[c.use].state \in {"stopping", "stopped"}
        /\ \A u \in Uses : ~Pending(u, c.id)
        /\ \A u \in Uses : Owned(u) => ~Mapped(u, c.id)

(* What a holder of a subscription knows, and is about to be told. *)
Holds(u, v) == IF users[u].attached THEN users[u].seen = v ELSE buffers[users[u].id] # <<>> /\ Last(buffers[users[u].id]) = v
Holding(u, i, v) == IF Mapped(u, i) THEN Holds(u, v) ELSE buffers[i] # <<>> /\ Last(buffers[i]) = v
NewestArrives ==
    \A o \in onServer : users[o.use].state \in {"calling", "live"} =>
        \/ TellsLast(wire, o.id, versions[o.use])
        \/ NoNote(wire, o.id) /\ Holding(o.use, o.id, versions[o.use])

(* A live instance is subscribed, about to be, or told of the stop. *)
Resubscribing(u) == \E c \in Calls : Flying(c) /\ c.method = "resubscribe" /\ c.use = u
ToldOfStop(u) == versions[u] = Stopped /\ Holds(u, Stopped)
LiveAreServed ==
    \A u \in Uses : users[u].state = "live" /\ UserKind(u) # "publication" =>
        \/ /\ users[u].id \in resubscribeCalls
           /\ Connected => [use |-> u, id |-> ServerId(users[u].id)] \in onServer \/ Resubscribing(u) \/ users[u].told
        \/ users[u].id \notin resubscribeCalls /\ ToldOfStop(u)

PublicationsAreKept ==
    /\ PublicationIsTold
    /\ \A u \in Uses : users[u].state = "live" /\ UserKind(u) = "publication" /\ ~users[u].told => users[u].id \in publishIds

ClientInv ==
    /\ ClientTypeOK /\ DroppedIsEmpty /\ ListsComeBack /\ SilentHaveNothing /\ IdsAreSingle /\ IdsAreGivenOut /\ AskedOnce
    /\ SubscribedOnce /\ UnansweredAreNew /\ StopsAreTrue /\ CallsFit /\ TablesAreOwned /\ OldCallsAreStale /\ OldIdsAreStale
    /\ SubscriptionsAreOwned /\ GivenBackIsFree /\ NewestArrives /\ LiveAreServed /\ PublicationsAreKept

(* The wire as a set of messages: one more at its end, one less at its head. *)
LEMMA WireGrows ==
    ASSUME NEW S, NEW w \in Seq(S), NEW x \in S
    PROVE  /\ Append(w, x) \in Seq(S) /\ Append(w, x) # <<>>
           /\ Msgs(Append(w, x)) = Msgs(w) \cup {x}
           /\ OneReplyEach(w) /\ (IsReply(x) => \A m \in Msgs(w) : IsReply(m) => m.call.use # x.call.use) => OneReplyEach(Append(w, x))
           /\ \A i : ~(x.type = "note" /\ x.id = i) => /\ NoNote(w, i) => NoNote(Append(w, x), i)
                                                      /\ \A v : TellsLast(w, i, v) => TellsLast(Append(w, x), i, v)
           /\ x.type = "note" => TellsLast(Append(w, x), x.id, x.version)
<1> DEFINE z == Append(w, x)
<1>1. /\ z \in Seq(S) /\ Len(z) = Len(w) + 1 /\ z[Len(w) + 1] = x /\ Len(w) \in Nat
      /\ \A n \in 1..Len(w) : z[n] = w[n]
    OBVIOUS
<1>2. z # <<>> BY <1>1
<1>3. \A n \in 1..Len(z) : n \in 1..Len(w) \/ n = Len(w) + 1 BY <1>1
<1>a. \A n \in 1..Len(w) : n \in 1..Len(z) BY <1>1
<1>b. Len(w) + 1 \in 1..Len(z) BY <1>1
<1> HIDE DEF z
<1>4. Msgs(z) = Msgs(w) \cup {x} BY <1>1, <1>3, <1>a, <1>b DEF Msgs
<1>5. ASSUME OneReplyEach(w), IsReply(x) => \A m \in Msgs(w) : IsReply(m) => m.call.use # x.call.use
      PROVE  OneReplyEach(z)
 <2> SUFFICES ASSUME NEW m \in 1..Len(z), NEW n \in 1..Len(z), IsReply(z[m]), IsReply(z[n]), z[m].call.use = z[n].call.use
              PROVE  m = n
     BY DEF OneReplyEach
 <2>1. CASE m \in 1..Len(w) /\ n \in 1..Len(w) BY <2>1, <1>5, <1>1 DEF OneReplyEach
 <2>2. \A k \in 1..Len(w) : w[k] \in Msgs(w) BY DEF Msgs
 <2>3. CASE m = Len(w) + 1 /\ n \in 1..Len(w) BY <2>2, <2>3, <1>5, <1>1
 <2>4. CASE n = Len(w) + 1 /\ m \in 1..Len(w) BY <2>2, <2>4, <1>5, <1>1
 <2> QED BY <2>1, <2>3, <2>4, <1>3
<1>6. ASSUME NEW i, ~(x.type = "note" /\ x.id = i)
      PROVE  NotesOf(z, i) = NotesOf(w, i)
    BY <1>6, <1>1, <1>3, <1>a DEF NotesOf
<1>7. ASSUME NEW i, ~(x.type = "note" /\ x.id = i)
      PROVE  /\ NoNote(w, i) => NoNote(z, i)
             /\ \A v : TellsLast(w, i, v) => TellsLast(z, i, v)
 <2>1. \A n \in NotesOf(w, i) : z[n] = w[n] BY <1>1 DEF NotesOf
 <2> QED BY <2>1, <1>6, <1>7 DEF NoNote, TellsLast
<1>8. ASSUME x.type = "note"
      PROVE  TellsLast(z, x.id, x.version)
 <2>1. Len(w) + 1 \in NotesOf(z, x.id) BY <1>8, <1>1, <1>b DEF NotesOf
 <2>2. \A m \in NotesOf(z, x.id) : m <= Len(w) + 1 BY <1>1 DEF NotesOf
 <2> QED BY <2>1, <2>2, <1>1 DEF TellsLast
<1> QED BY <1>1, <1>2, <1>4, <1>5, <1>7, <1>8 DEF z

LEMMA WireShrinks ==
    ASSUME NEW S, NEW w \in Seq(S), w # <<>>
    PROVE  /\ Head(w) \in S /\ Tail(w) \in Seq(S) /\ Head(w) \in Msgs(w)
           /\ Msgs(w) = Msgs(Tail(w)) \cup {Head(w)}
           /\ OneReplyEach(w) => /\ OneReplyEach(Tail(w))
                                 /\ IsReply(Head(w)) => \A m \in Msgs(Tail(w)) : IsReply(m) => m.call.use # Head(w).call.use
           /\ \A i : /\ NoNote(w, i) => NoNote(Tail(w), i)
                     /\ \A v : TellsLast(w, i, v) =>
                            \/ TellsLast(Tail(w), i, v)
                            \/ NoNote(Tail(w), i) /\ Head(w).type = "note" /\ Head(w).id = i /\ Head(w).version = v
           /\ Head(w).type = "note" => ~NoNote(w, Head(w).id)
<1> DEFINE t == Tail(w)
<1>1. /\ Len(w) \in Nat /\ Len(w) >= 1 /\ Head(w) = w[1] /\ t \in Seq(S) /\ Len(t) = Len(w) - 1
      /\ \A n \in 1..Len(t) : t[n] = w[n + 1]
      /\ \A n \in 1..Len(w) : w[n] \in S
    OBVIOUS
<1>2. \A n \in 1..Len(w) : n = 1 \/ (n - 1 \in 1..Len(t) /\ t[n - 1] = w[n]) BY <1>1
<1>3. \A n \in 1..Len(t) : n + 1 \in 1..Len(w) BY <1>1
<1>a. 1 \in 1..Len(w) BY <1>1
<1> HIDE DEF t
<1>4. Msgs(w) = Msgs(t) \cup {w[1]}
 <2>1. \A x \in Msgs(w) : x \in Msgs(t) \cup {w[1]} BY <1>2 DEF Msgs
 <2>2. \A x \in Msgs(t) : x \in Msgs(w) BY <1>1, <1>3 DEF Msgs
 <2>3. w[1] \in Msgs(w) BY <1>a DEF Msgs
 <2> QED BY <2>1, <2>2, <2>3
<1>5. ASSUME OneReplyEach(w)
      PROVE  /\ OneReplyEach(t)
             /\ IsReply(w[1]) => \A m \in Msgs(t) : IsReply(m) => m.call.use # w[1].call.use
 <2>1. OneReplyEach(t)
  <3> SUFFICES ASSUME NEW m \in 1..Len(t), NEW n \in 1..Len(t), IsReply(t[m]), IsReply(t[n]), t[m].call.use = t[n].call.use
               PROVE  m = n
      BY DEF OneReplyEach
  <3>1. m + 1 = n + 1 BY <1>1, <1>3, <1>5 DEF OneReplyEach
  <3> QED BY <3>1
 <2>2. ASSUME IsReply(w[1]), NEW n \in 1..Len(t), IsReply(t[n])
       PROVE  t[n].call.use # w[1].call.use
  <3>1. n + 1 # 1 OBVIOUS
  <3> QED BY <3>1, <2>2, <1>1, <1>3, <1>a, <1>5 DEF OneReplyEach
 <2> QED BY <2>1, <2>2 DEF Msgs
<1>6. ASSUME NEW i
      PROVE  /\ \A n \in NotesOf(t, i) : n + 1 \in NotesOf(w, i) /\ n \in Nat
             /\ \A n \in NotesOf(w, i) : n = 1 \/ (n - 1 \in NotesOf(t, i) /\ t[n - 1] = w[n])
 <2>1. \A n \in NotesOf(t, i) : n + 1 \in NotesOf(w, i) /\ n \in Nat BY <1>1, <1>2, <1>3 DEF NotesOf
 <2>2. ASSUME NEW n \in NotesOf(w, i), n # 1
       PROVE  n - 1 \in NotesOf(t, i) /\ t[n - 1] = w[n]
  <3>1. n \in 1..Len(w) /\ n - 1 \in 1..Len(t) BY <2>2, <1>1, <1>2 DEF NotesOf
  <3>2. t[n - 1] = w[n] BY <3>1, <1>1, <1>2, <1>3
  <3> QED BY <3>1, <3>2 DEF NotesOf
 <2> QED BY <2>1, <2>2
<1>7. ASSUME NEW i, NEW v, TellsLast(w, i, v), ~TellsLast(t, i, v)
      PROVE  NoNote(t, i) /\ w[1].type = "note" /\ w[1].id = i /\ w[1].version = v
 <2>1. PICK n \in NotesOf(w, i) : w[n].version = v /\ \A m \in NotesOf(w, i) : m <= n BY <1>7 DEF TellsLast
 <2>2. n = 1
  <3> SUFFICES ASSUME n # 1 PROVE FALSE OBVIOUS
  <3>1. n - 1 \in NotesOf(t, i) /\ t[n - 1] = w[n] BY <1>6
  <3>2. \A m \in NotesOf(t, i) : m <= n - 1
   <4> SUFFICES ASSUME NEW m \in NotesOf(t, i) PROVE m <= n - 1 OBVIOUS
   <4>1. m + 1 <= n /\ m \in Nat BY <1>6, <2>1
   <4>2. n \in Nat BY <1>1 DEF NotesOf
   <4> QED BY <4>1, <4>2
  <3> QED BY <3>1, <3>2, <2>1, <1>7 DEF TellsLast
 <2>3. NoNote(t, i)
  <3> SUFFICES ASSUME NEW m \in NotesOf(t, i) PROVE FALSE BY DEF NoNote
  <3>1. m + 1 <= 1 /\ m \in 1..Len(t) BY <1>6, <2>1, <2>2 DEF NotesOf
  <3> QED BY <3>1, <1>1
 <2> QED BY <2>1, <2>2, <2>3 DEF NotesOf
<1>8. ASSUME NEW i, NoNote(w, i)
      PROVE  NoNote(t, i)
    BY <1>6, <1>8 DEF NoNote
<1>9. ASSUME w[1].type = "note"
      PROVE  ~NoNote(w, w[1].id)
 <2>1. 1 \in NotesOf(w, w[1].id) BY <1>9, <1>a DEF NotesOf
 <2> QED BY <2>1 DEF NoNote
<1>10. w[1] \in S /\ w[1] \in Msgs(w) BY <1>1, <1>a, <1>4
<1>11. \A i, v : TellsLast(w, i, v) => TellsLast(t, i, v) \/ (NoNote(t, i) /\ w[1].type = "note" /\ w[1].id = i /\ w[1].version = v) BY <1>7
<1> QED BY <1>1, <1>4, <1>5, <1>8, <1>9, <1>10, <1>11 DEF t

(* A set of one is written out as the sequence of its element. *)
LEMMA SeqOfNone == SetToSeq({}) = <<>>
<1>1. Cardinality({}) = 0 BY FS_EmptySet
<1>2. SetToSeq({}) = CHOOSE f \in [1..0 -> {}] : IsInjective(f) BY <1>1 DEF SetToSeq
<1>3. [1..0 -> {}] = {<<>>}
 <2>1. <<>> \in [{} -> {}] /\ \A f, g \in [{} -> {}] : f = g OBVIOUS
 <2>2. 1..0 = {} OBVIOUS
 <2> QED BY <2>1, <2>2
<1>4. IsInjective(<<>>) BY DEF IsInjective
<1> QED BY <1>2, <1>3, <1>4

LEMMA SeqOfOne ==
    ASSUME NEW x
    PROVE  SetToSeq({x}) = <<x>>
<1>1. Cardinality({x}) = 1 BY FS_Singleton
<1>2. SetToSeq({x}) = CHOOSE f \in [1..1 -> {x}] : IsInjective(f) BY <1>1 DEF SetToSeq
<1>3. <<x>> \in [1..1 -> {x}] /\ \A f \in [1..1 -> {x}] : f = <<x>> OBVIOUS
<1>4. IsInjective(<<x>>) BY DEF IsInjective
<1> QED BY <1>2, <1>3, <1>4

----------------------------------------
(* Ids: the local id of what the server names is single, and its owner too. *)
LEMMA ClientConstants == MaxIds \in Nat /\ MaxIds >= 1 /\ 1..MaxIds = Ids /\ \A w \in ClientWorkload : DOMAIN w.kind \subseteq Uses
BY ClientAssumption DEF Ids

LEMMA OwnerIs ==
    ASSUME ClientTypeOK, IdsAreSingle, NEW u \in Uses, users[u].id # 0
    PROVE  Owner(users[u].id) = u /\ (Listens(users[u].id) <=> users[u].attached) /\ users[u].id \in Ids
<1>1. \A w \in Uses : users[w].id = users[u].id => w = u BY DEF IdsAreSingle
<1>2. Owner(users[u].id) = u BY <1>1 DEF Owner
<1>3. users[u].id \in Ids BY ClientAssumption DEF ClientTypeOK, UserRows, Ids
<1> QED BY <1>1, <1>2, <1>3 DEF Listens

LEMMA LocalIdIs ==
    ASSUME ClientTypeOK, IdsAreSingle, NEW s \in Ids
    PROVE  /\ LocalId(s) \in Ids
           /\ \A l \in Ids : serverIds[l] = s => LocalId(s) = l
           /\ (\A l \in Ids : serverIds[l] # s) => LocalId(s) = s
           /\ \A u \in Uses : Mapped(u, s) => LocalId(s) = users[u].id
<1>1. s # 0 /\ 1..MaxIds = Ids BY DEF Ids
<1>2. ASSUME NEW l \in Ids, serverIds[l] = s
      PROVE  LocalId(s) = l
 <2>1. \A k \in 1..MaxIds : serverIds[k] = s <=> k = l BY <1>1, <1>2 DEF IdsAreSingle
 <2> QED BY <2>1, <1>1, <1>2 DEF LocalId
<1>3. ASSUME \A l \in Ids : serverIds[l] # s
      PROVE  LocalId(s) = s
    BY <1>1, <1>3 DEF LocalId
<1>4. ASSUME NEW u \in Uses, Mapped(u, s)
      PROVE  LocalId(s) = users[u].id
 <2>1. users[u].id \in Ids BY <1>4, ClientAssumption DEF Mapped, ClientTypeOK, UserRows, Ids
 <2>2. CASE serverIds[users[u].id] = 0
  <3>1. users[u].id = s BY <1>4, <2>2 DEF Mapped, ServerId
  <3>2. \A l \in Ids : serverIds[l] # s BY <3>1, <1>1 DEF IdsAreSingle
  <3> QED BY <3>1, <3>2, <1>3
 <2>3. CASE serverIds[users[u].id] # 0 BY <1>4, <2>1, <2>3, <1>2 DEF Mapped, ServerId
 <2> QED BY <2>2, <2>3
<1> QED BY <1>2, <1>3, <1>4

(* No two instances are reached under one id of the server. *)
LEMMA MappedIsSingle ==
    ASSUME ClientTypeOK, IdsAreSingle
    PROVE  \A u, w \in Uses : \A s : Mapped(u, s) /\ Mapped(w, s) => u = w
<1> SUFFICES ASSUME NEW u \in Uses, NEW w \in Uses, NEW s, Mapped(u, s), Mapped(w, s)
             PROVE  u = w
    OBVIOUS
<1>1. users[u].id \in Ids /\ users[w].id \in Ids /\ users[u].id # 0 /\ users[w].id # 0 BY OwnerIs DEF Mapped
<1>2. s \in Ids BY <1>1, ClientAssumption DEF Mapped, ServerId, ClientTypeOK, Ids
<1>3. users[u].id = users[w].id BY <1>2, LocalIdIs
<1> QED BY <1>1, <1>3 DEF IdsAreSingle

LEMMA LastOfConcat ==
    ASSUME NEW b \in Seq(Nat), NEW v \in Seq(Nat), v # <<>>
    PROVE  b \o v \in Seq(Nat) /\ b \o v # <<>> /\ Last(b \o v) = Last(v) /\ Last(v) \in Nat
BY DEF Last

(* A dispatch changes what one listener saw, or the buffer of its id. *)
LEMMA DispatchDoes ==
    ASSUME ClientTypeOK, IdsAreSingle, NEW l \in Ids, NEW vs \in Seq(Nat), vs # <<>>,
           NEW B \in [Ids -> Seq(Nat)], Dispatched(l, vs, users, B)
    PROVE  /\ users' \in [Uses -> UserRows] /\ buffers' \in [Ids -> Seq(Nat)]
           /\ \A u \in Uses : /\ users'[u].state = users[u].state /\ users'[u].id = users[u].id
                              /\ users'[u].attached = users[u].attached /\ users'[u].told = users[u].told
                              /\ ~(users[u].id = l /\ users[u].attached) => users'[u].seen = users[u].seen
                              /\ users[u].id = l /\ users[u].attached => users'[u].seen = Last(vs)
                              /\ users[u].id = l /\ ~users[u].attached => buffers'[l] # <<>> /\ Last(buffers'[l]) = Last(vs)
           /\ \A k \in Ids : k # l => buffers'[k] = B[k]
           /\ (\A u \in Uses : users[u].id # l) => buffers'[l] # <<>> /\ Last(buffers'[l]) = Last(vs)
<1>0. users \in [Uses -> UserRows] /\ l # 0 /\ Last(vs) \in Nat BY LastOfConcat DEF ClientTypeOK, Ids
<1>1. CASE Listens(l)
 <2>1. PICK w \in Uses : users[w].id = l /\ users[w].attached BY <1>1 DEF Listens
 <2>2. Owner(l) = w /\ \A u \in Uses : users[u].id = l => u = w BY <2>1, <1>0, OwnerIs DEF IdsAreSingle
 <2>3. users' = [users EXCEPT ![w].seen = Last(vs)] /\ buffers' = B BY <1>1, <2>2 DEF Dispatched
 <2> QED BY <2>1, <2>2, <2>3, <1>0 DEF UserRows
<1>2. CASE ~Listens(l)
 <2>1. \A u \in Uses : users[u].id = l => ~users[u].attached BY <1>2 DEF Listens
 <2>2. users' = users /\ buffers' = [B EXCEPT ![l] = B[l] \o vs] BY <1>2 DEF Dispatched
 <2>3. B[l] \o vs \in Seq(Nat) /\ B[l] \o vs # <<>> /\ Last(B[l] \o vs) = Last(vs) BY LastOfConcat
 <2> QED BY <2>1, <2>2, <2>3, <1>0
<1> QED BY <1>1, <1>2

(* What the records in flight are made of. *)
LEMMA ClientTypes ==
    ASSUME ClientTypeOK
    PROVE  /\ DOMAIN clientJob.kind \subseteq Uses
           /\ \A u \in Uses : users[u] \in UserRows /\ users[u].id \in 0..MaxIds
           /\ \A c \in sent : c \in Calls /\ c.use \in Uses /\ c.id \in 0..MaxIds
           /\ \A h \in handled : h.id \in Ids /\ h.call \in Calls /\ h.call.use \in Uses /\ h.call.id \in 0..MaxIds /\ h = [call |-> h.call, id |-> h.id]
           /\ \A m \in Msgs(wire) : m \in NoteRows \cup AnswerRows /\ m.type \in {"note", "answer"} /\ m.id \in 0..MaxIds
           /\ \A m \in Msgs(wire) : m.type = "note" => m.id \in Ids /\ m.version \in Nat
           /\ \A m \in Msgs(wire) : m.type = "answer" => m.call \in Calls /\ m.call.use \in Uses /\ m.call.id \in 0..MaxIds
           /\ \A o \in onServer : o.use \in Uses /\ o.id \in Ids /\ o = [use |-> o.use, id |-> o.id]
           /\ \A l \in Ids : serverIds[l] \in 0..MaxIds /\ buffers[l] \in Seq(Nat) /\ l # 0
           /\ \A u \in Uses : users[u].id # 0 => users[u].id \in Ids
<1>1. \A m \in Msgs(wire) : m \in NoteRows \cup AnswerRows BY DEF Msgs, ClientTypeOK
<1>2. \A u \in Uses : users[u] \in UserRows BY DEF ClientTypeOK
<1>3. \A u \in Uses : users[u].id \in 0..MaxIds /\ (users[u].id # 0 => users[u].id \in Ids) BY <1>2, ClientAssumption DEF UserRows, Ids
<1>4. Ids \subseteq 0..MaxIds /\ \A l \in Ids : l # 0 BY ClientAssumption DEF Ids
<1>5. \A m \in Msgs(wire) : m.type \in {"note", "answer"} /\ m.id \in 0..MaxIds BY <1>1, <1>4 DEF NoteRows, AnswerRows
<1>6. \A m \in Msgs(wire) : m.type = "note" => m.id \in Ids /\ m.version \in Nat BY <1>1 DEF NoteRows, AnswerRows
<1>7. \A m \in Msgs(wire) : m.type = "answer" => m.call \in Calls /\ m.call.use \in Uses /\ m.call.id \in 0..MaxIds
    BY <1>1 DEF NoteRows, AnswerRows, Calls
<1>8. \A c \in sent : c \in Calls /\ c.use \in Uses /\ c.id \in 0..MaxIds BY DEF ClientTypeOK, Calls
<1>9. \A h \in handled : h.id \in Ids /\ h.call \in Calls /\ h.call.use \in Uses /\ h.call.id \in 0..MaxIds /\ h = [call |-> h.call, id |-> h.id]
    BY DEF ClientTypeOK, Calls
<1>10. \A o \in onServer : o.use \in Uses /\ o.id \in Ids /\ o = [use |-> o.use, id |-> o.id] BY DEF ClientTypeOK
<1>11. \A l \in Ids : serverIds[l] \in 0..MaxIds /\ buffers[l] \in Seq(Nat) BY DEF ClientTypeOK
<1>12. DOMAIN clientJob.kind \subseteq Uses BY ClientConstants DEF ClientTypeOK
<1> QED BY <1>1, <1>2, <1>3, <1>4, <1>5, <1>6, <1>7, <1>8, <1>9, <1>10, <1>11, <1>12

----------------------------------------
(* What a step that moves no instance leaves as it is. *)
SameUsers == \A w \in Uses : users'[w].state = users[w].state /\ users'[w].id = users[w].id
SameClient == /\ clientJob' = clientJob /\ link' = link /\ retry' = retry /\ overdue' = overdue
              /\ resubscribeCalls' = resubscribeCalls /\ publishIds' = publishIds /\ serverIds' = serverIds

LEMMA UsersStay ==
    ASSUME ClientTypeOK, SameUsers, serverIds' = serverIds, resubscribeCalls' = resubscribeCalls
    PROVE  /\ \A u \in Uses : (Silent(u)' <=> Silent(u)) /\ (Owned(u)' <=> Owned(u))
           /\ \A u \in Uses : \A i : Mapped(u, i)' <=> Mapped(u, i)
           /\ \A i : Unclaimed(i)' <=> Unclaimed(i)
           /\ \A l : ServerId(l)' = ServerId(l)
           /\ \A c \in Calls : Fits(c) => Fits(c)'
<1>1. \A l : ServerId(l)' = ServerId(l) BY DEF ServerId
<1>2. \A u \in Uses : (Silent(u)' <=> Silent(u)) /\ (Owned(u)' <=> Owned(u)) BY DEF SameUsers, Silent, Owned
<1>3. \A u \in Uses : \A i : Mapped(u, i)' <=> Mapped(u, i) BY <1>1 DEF SameUsers, Mapped
<1>4. \A i : Unclaimed(i)' <=> Unclaimed(i) BY DEF SameUsers, Unclaimed
<1>5. ASSUME NEW c \in Calls, Fits(c)
      PROVE  Fits(c)'
 <2>1. c.use \in Uses BY DEF Calls
 <2>2. users'[c.use].state = users[c.use].state /\ users'[c.use].id = users[c.use].id /\ (Owned(c.use)' <=> Owned(c.use))
     BY <2>1, <1>2 DEF SameUsers
 <2> QED BY <2>2, <1>5 DEF Fits
<1> QED BY <1>1, <1>2, <1>3, <1>4, <1>5

(* Those who have failed and come back stay in the list while no user moves. *)
LEMMA ListsStay ==
    ASSUME ClientTypeOK, ListsComeBack, retry' = retry, clientJob' = clientJob, link' = link,
           \A w \in Uses : users'[w].state = users[w].state
    PROVE  ListsComeBack'
<1>1. /\ \A w \in Uses : UserKind(w)' = UserKind(w)
      /\ Connected' <=> Connected
    BY DEF UserKind, Connected
<1>2. retry \in SUBSET Uses BY DEF ClientTypeOK
<1>3. \A w \in retry' : UserKind(w)' = "list" /\ users'[w].state = "threw" BY <1>1, <1>2 DEF ListsComeBack
<1>4. /\ \A w \in Uses : users'[w].state = "waiting" => link'.state = "connecting"
      /\ \A w \in Uses : w \in DOMAIN clientJob'.kind => users'[w].state # "absent"
    BY DEF ListsComeBack
<1>5. \A w \in Uses : users'[w].state \in {"unwanted", "stopping", "stopped"} => UserKind(w)' # "list" BY <1>1 DEF ListsComeBack
<1>6. \A w \in Uses : users'[w].state = "threw" /\ UserKind(w)' = "list" /\ link'.state # "failed" => ~Connected' /\ w \in retry'
    BY <1>1 DEF ListsComeBack
<1> QED BY <1>3, <1>4, <1>5, <1>6 DEF ListsComeBack

LEMMA TablesStay ==
    ASSUME ClientTypeOK, SameUsers, SameClient, ids' \in Nat, ids' >= ids, ListsComeBack, IdsAreSingle, TablesAreOwned
    PROVE  ListsComeBack' /\ IdsAreSingle' /\ TablesAreOwned'
<1>1. \A w \in Uses : users'[w].state = users[w].state /\ users'[w].id = users[w].id BY DEF SameUsers
<1>2. clientJob' = clientJob /\ link' = link /\ retry' = retry /\ resubscribeCalls' = resubscribeCalls /\ publishIds' = publishIds /\ serverIds' = serverIds
    BY DEF SameClient
<1>3. retry \subseteq Uses /\ ids \in Nat /\ ids <= ids' /\ \A w \in Uses : users[w].id \in Nat
    BY ClientTypes, ClientAssumption DEF ClientTypeOK
<1>4. ListsComeBack' BY <1>1, <1>2, ListsStay
<1>5. IdsAreSingle'
 <2>1. \A u \in Uses : users'[u].id <= ids' BY <1>1, <1>3 DEF IdsAreSingle
 <2>2. \A l \in Ids : serverIds'[l] <= ids' BY <1>2, <1>3, ClientTypes, ClientAssumption DEF IdsAreSingle
 <2>3. \A l \in Ids : serverIds'[l] # 0 => \E u \in Uses : users'[u].id = l BY <1>1, <1>2 DEF IdsAreSingle
 <2>4. \A u, w \in Uses : users'[u].id = users'[w].id /\ users'[u].id # 0 => u = w BY <1>1 DEF IdsAreSingle
 <2>5. \A l, k \in Ids : serverIds'[l] = serverIds'[k] /\ serverIds'[l] # 0 => l = k BY <1>2 DEF IdsAreSingle
 <2>6. \A l \in Ids, u \in Uses : serverIds'[l] # 0 => serverIds'[l] # users'[u].id BY <1>1, <1>2 DEF IdsAreSingle
 <2> QED BY <2>1, <2>2, <2>3, <2>4, <2>5, <2>6 DEF IdsAreSingle
<1>6. TablesAreOwned'
 <2>1. \A u \in Uses : Owned(u)' <=> Owned(u) BY <1>1 DEF Owned
 <2>2. \A l \in resubscribeCalls : \E u \in Uses : users'[u].id = l /\ Owned(u)' /\ UserKind(u)' # "publication"
  <3> SUFFICES ASSUME NEW l \in resubscribeCalls PROVE \E u \in Uses : users'[u].id = l /\ Owned(u)' /\ UserKind(u)' # "publication" OBVIOUS
  <3>1. PICK u \in Uses : users[u].id = l /\ Owned(u) /\ UserKind(u) # "publication" BY DEF TablesAreOwned
  <3> QED BY <3>1, <2>1, <1>1, <1>2 DEF UserKind
 <2>3. \A l \in publishIds : \E u \in Uses : users'[u].id = l /\ Owned(u)' /\ UserKind(u)' = "publication"
  <3> SUFFICES ASSUME NEW l \in publishIds PROVE \E u \in Uses : users'[u].id = l /\ Owned(u)' /\ UserKind(u)' = "publication" OBVIOUS
  <3>1. PICK u \in Uses : users[u].id = l /\ Owned(u) /\ UserKind(u) = "publication" BY DEF TablesAreOwned
  <3> QED BY <3>1, <2>1, <1>1, <1>2 DEF UserKind
 <2>4. \A u \in Uses : users'[u].id # 0 /\ UserKind(u)' = "publication" => serverIds'[users'[u].id] = 0
     BY <1>1, <1>2 DEF TablesAreOwned, UserKind
 <2> QED BY <2>2, <2>3, <2>4, <1>2 DEF TablesAreOwned
<1> QED BY <1>4, <1>5, <1>6

----------------------------------------
(* Reading the head of the wire, whatever is done with it. *)
LEMMA HeadIsRead ==
    ASSUME ClientTypeOK, wire # <<>>, wire' = Tail(wire), handled' = handled, onServer' = onServer, \A c \in sent' : Asks(c) => c \in sent
    PROVE  /\ wire' \in Seq(NoteRows \cup AnswerRows) /\ Head(wire) \in Msgs(wire) /\ Msgs(wire) = Msgs(wire') \cup {Head(wire)}
           /\ \A i : Stale(i) => Stale(i)'
           /\ \A u, i : Pending(u, i)' => Pending(u, i)
           /\ \A u, i : Pending(u, i) => Pending(u, i)' \/ (IsReply(Head(wire)) /\ Head(wire).id = i /\ Head(wire).call.use = u)
           /\ \A c : Flying(c)' => Flying(c) \/ c \in sent'
           /\ \A c : Flying(c) => Flying(c)' \/ c \notin sent' \/ (Head(wire).type = "answer" /\ Head(wire).call = c)
           /\ \A c : Flying(c) => Flying(c)' \/ (c \in sent /\ c \notin sent') \/ (Head(wire).type = "answer" /\ Head(wire).call = c)
           /\ AskedOnce => AskedOnce'
           /\ AskedOnce /\ IsReply(Head(wire)) =>
                /\ \A c : Flying(c)' /\ Asks(c) => c.use # Head(wire).call.use
                /\ \A u, i : u = Head(wire).call.use => ~Pending(u, i)'
           /\ StopsAreTrue /\ versions' = versions => StopsAreTrue'
           /\ SubscribedOnce => SubscribedOnce'
<1> DEFINE h == Head(wire)
<1>1. /\ wire' \in Seq(NoteRows \cup AnswerRows) /\ h \in Msgs(wire) /\ Msgs(wire) = Msgs(wire') \cup {h}
      /\ \A i : NoNote(wire, i) => NoNote(wire', i)
      /\ OneReplyEach(wire) => OneReplyEach(wire')
      /\ OneReplyEach(wire) /\ IsReply(h) => \A m \in Msgs(wire') : IsReply(m) => m.call.use # h.call.use
    BY WireShrinks DEF ClientTypeOK
<1> HIDE DEF h
<1>2. \A i : Stale(i) => Stale(i)' BY <1>1 DEF Stale
<1>3. \A u, i : Pending(u, i)' => Pending(u, i) BY <1>1 DEF Pending
<1>4. \A u, i : Pending(u, i) => Pending(u, i)' \/ (IsReply(h) /\ h.id = i /\ h.call.use = u) BY <1>1 DEF Pending
<1>5. \A c : Flying(c)' => Flying(c) \/ c \in sent' BY <1>1 DEF Flying
<1>6. \A c : Flying(c) => Flying(c)' \/ (c \in sent /\ c \notin sent') \/ (h.type = "answer" /\ h.call = c) BY <1>1 DEF Flying
<1>7. ASSUME AskedOnce
      PROVE  AskedOnce'
    BY <1>1, <1>7 DEF AskedOnce
<1>8. ASSUME AskedOnce, IsReply(h)
      PROVE  /\ \A c : Flying(c)' /\ Asks(c) => c.use # h.call.use
             /\ \A u, i : u = h.call.use => ~Pending(u, i)'
 <2>1. \A m \in Msgs(wire') : IsReply(m) => m.call.use # h.call.use BY <1>1, <1>8 DEF AskedOnce
 <2>2. \A c \in sent : Asks(c) => c.use # h.call.use BY <1>1, <1>8 DEF AskedOnce
 <2>3. \A k \in handled : k.call.use # h.call.use BY <1>1, <1>8 DEF AskedOnce
 <2>4. ASSUME NEW c, Flying(c)', Asks(c) PROVE c.use # h.call.use
  <3>1. CASE c \in sent' BY <3>1, <2>2, <2>4
  <3>2. CASE \E k \in handled : k.call = c BY <3>2, <2>3
  <3>3. CASE \E m \in Msgs(wire') : m.type = "answer" /\ m.call = c BY <3>3, <2>1, <2>4 DEF IsReply
  <3> QED BY <3>1, <3>2, <3>3, <2>4 DEF Flying
 <2>5. \A u, i : u = h.call.use => ~Pending(u, i)' BY <2>1, <2>3 DEF Pending
 <2> QED BY <2>4, <2>5
<1>9. StopsAreTrue /\ versions' = versions => StopsAreTrue' BY <1>1 DEF StopsAreTrue
<1>10. SubscribedOnce => SubscribedOnce' BY DEF SubscribedOnce
<1> QED BY <1>1, <1>2, <1>3, <1>4, <1>5, <1>6, <1>7, <1>8, <1>9, <1>10 DEF h

(* A step that moves no instance, and after which the same is under way. *)
LEMMA NothingMoves ==
    ASSUME ClientInv, SameUsers, SameClient, onServer' = onServer, ids' = ids,
           \A c \in Calls : ~Asks(c) => (c \in sent' <=> c \in sent), \A c \in sent' : c \in sent,
           \A u \in Uses : users[u].id = 0 => ~users'[u].attached,
           \A u \in Uses : users'[u].told = users[u].told,
           \A c \in Calls : Flying(c)' => Flying(c),
           \A u \in Uses, i \in Ids : Pending(u, i)' <=> Pending(u, i),
           \A i : Stale(i) => Stale(i)'
    PROVE  /\ ListsComeBack' /\ SilentHaveNothing' /\ IdsAreSingle' /\ IdsAreGivenOut'
           /\ UnansweredAreNew' /\ CallsFit' /\ TablesAreOwned' /\ OldCallsAreStale' /\ OldIdsAreStale'
           /\ SubscriptionsAreOwned' /\ GivenBackIsFree' /\ PublicationsAreKept'
<1>1. /\ ClientTypeOK /\ ListsComeBack /\ SilentHaveNothing /\ IdsAreSingle /\ IdsAreGivenOut /\ UnansweredAreNew /\ CallsFit
      /\ TablesAreOwned /\ OldCallsAreStale /\ OldIdsAreStale /\ SubscriptionsAreOwned /\ GivenBackIsFree /\ PublicationsAreKept
    BY DEF ClientInv
<1>2. /\ serverIds' = serverIds /\ resubscribeCalls' = resubscribeCalls /\ publishIds' = publishIds /\ clientJob' = clientJob /\ overdue' = overdue
      /\ \A u \in Uses : users'[u].state = users[u].state /\ users'[u].id = users[u].id
    BY DEF SameClient, SameUsers
<1>3. /\ \A u \in Uses : (Silent(u)' <=> Silent(u)) /\ (Owned(u)' <=> Owned(u))
      /\ \A u \in Uses : \A i : Mapped(u, i)' <=> Mapped(u, i)
      /\ \A i : Unclaimed(i)' <=> Unclaimed(i)
      /\ \A l : ServerId(l)' = ServerId(l)
      /\ \A c \in Calls : Fits(c) => Fits(c)'
    BY <1>1, <1>2, UsersStay
<1>4. ids \in Nat /\ \A o \in onServer : o.use \in Uses /\ o.id \in Ids BY <1>1, ClientTypes, ClientAssumption DEF ClientTypeOK
<1>5. ListsComeBack' /\ IdsAreSingle' /\ TablesAreOwned' BY <1>1, <1>4, TablesStay
<1>6. SilentHaveNothing' BY <1>1, <1>2, <1>3 DEF SilentHaveNothing
<1>7. IdsAreGivenOut' BY <1>1 DEF IdsAreGivenOut
<1>8. UnansweredAreNew' BY <1>1, <1>3 DEF UnansweredAreNew
<1>9. CallsFit' BY <1>1, <1>3 DEF CallsFit
<1>10. OldCallsAreStale' BY <1>1, <1>3 DEF OldCallsAreStale
<1>11. OldIdsAreStale' BY <1>1, <1>2, <1>3 DEF OldIdsAreStale
<1>12. SubscriptionsAreOwned'
 <2> SUFFICES ASSUME NEW o \in onServer
              PROVE  \/ Pending(o.use, o.id)'
                     \/ Mapped(o.use, o.id)' /\ Owned(o.use)'
                     \/ Call("unsubscribe", o.use, o.id) \in sent' /\ ~Owned(o.use)'
                     \/ TooLate(o)'
     BY DEF SubscriptionsAreOwned, Call
 <2>1. o.use \in Uses /\ o.id \in Ids BY <1>4
 <2>2. ~Asks(Call("unsubscribe", o.use, o.id)) /\ Call("unsubscribe", o.use, o.id) \in Calls BY <2>1, ClientConstants DEF Call, Calls, Asks
 <2> QED BY <2>1, <2>2, <1>1, <1>2, <1>3 DEF SubscriptionsAreOwned, TooLate
<1>13. GivenBackIsFree'
 <2> SUFFICES ASSUME NEW c \in sent, ~Asks(c)
              PROVE  /\ c.id # 0 /\ users'[c.use].state \in {"stopping", "stopped"}
                     /\ \A u \in Uses : ~Pending(u, c.id)'
                     /\ \A u \in Uses : Owned(u)' => ~Mapped(u, c.id)'
     BY DEF GivenBackIsFree
 <2>1. c.use \in Uses /\ c.id \in 0..MaxIds BY <1>1, ClientTypes
 <2>2. c.id # 0 /\ users[c.use].state \in {"stopping", "stopped"} /\ (\A u \in Uses : ~Pending(u, c.id)) /\ (\A u \in Uses : Owned(u) => ~Mapped(u, c.id))
     BY <1>1 DEF GivenBackIsFree
 <2>3. c.id \in Ids BY <2>1, <2>2, ClientConstants DEF Ids
 <2> QED BY <2>1, <2>2, <2>3, <1>2, <1>3
<1>14. PublicationsAreKept' BY <1>1, <1>2 DEF PublicationsAreKept, PublicationIsTold, UserKind
<1> QED BY <1>5, <1>6, <1>7, <1>8, <1>9, <1>10, <1>11, <1>12, <1>13, <1>14

(* What the holder of a subscription is about to be told stays so. *)
LEMMA NewestOfOneStays ==
    ASSUME ClientInv, NEW o \in onServer, users[o.use].state \in {"calling", "live"},
           \A i : Mapped(o.use, i)' <=> Mapped(o.use, i),
           \A v : users[o.use].id # 0 /\ Holds(o.use, v) => Holds(o.use, v)',
           Unclaimed(o.id) => buffers'[o.id] = buffers[o.id],
           \A i, v : TellsLast(wire, i, v) => TellsLast(wire', i, v),
           \A i : NoNote(wire, i) => NoNote(wire', i)
    PROVE  \A v : v = versions[o.use] => \/ TellsLast(wire', o.id, v)
                                         \/ NoNote(wire', o.id) /\ Holding(o.use, o.id, v)'
<1> SUFFICES ASSUME NEW v, v = versions[o.use]
             PROVE  \/ TellsLast(wire', o.id, v)
                    \/ NoNote(wire', o.id) /\ Holding(o.use, o.id, v)'
    OBVIOUS
<1>1. ClientTypeOK /\ NewestArrives /\ SubscriptionsAreOwned /\ GivenBackIsFree /\ UnansweredAreNew BY DEF ClientInv
<1>2. o.use \in Uses /\ o.id \in Ids /\ o = [use |-> o.use, id |-> o.id] BY <1>1, ClientTypes
<1>3. \/ TellsLast(wire, o.id, v)
      \/ NoNote(wire, o.id) /\ Holding(o.use, o.id, v)
    BY <1>1 DEF NewestArrives
<1>4. CASE Mapped(o.use, o.id)
 <2>1. Holding(o.use, o.id, v) => Holds(o.use, v) /\ users[o.use].id # 0 BY <1>4 DEF Holding, Mapped
 <2>2. Mapped(o.use, o.id)' BY <1>4
 <2>3. Holding(o.use, o.id, v) => Holding(o.use, o.id, v)' BY <2>1, <2>2 DEF Holding
 <2> QED BY <1>3, <2>3
<1>5. CASE ~Mapped(o.use, o.id)
 <2>1. Pending(o.use, o.id) \/ TooLate(o) BY <1>1, <1>2, <1>5 DEF SubscriptionsAreOwned, Owned, GivenBackIsFree, Call, Asks
 <2>2. Unclaimed(o.id) BY <2>1, <1>1, <1>2 DEF UnansweredAreNew, TooLate
 <2>3. ~Mapped(o.use, o.id)' BY <1>5
 <2> QED BY <1>3, <1>5, <2>2, <2>3 DEF Holding
<1> QED BY <1>4, <1>5

(* And so for every holder in W, when those in W stay. *)
LEMMA NewestStay ==
    ASSUME ClientInv, onServer' \subseteq onServer, versions' = versions, NEW W \in SUBSET Uses,
           \A o \in onServer' : users'[o.use].state \in {"calling", "live"} => o.use \in W,
           \A w \in W : users'[w].state = users[w].state,
           \A w \in W : \A i : Mapped(w, i)' <=> Mapped(w, i),
           \A w \in W : \A v : users[w].id # 0 /\ Holds(w, v) => Holds(w, v)',
           \A o \in onServer' : o.use \in W /\ Unclaimed(o.id) => buffers'[o.id] = buffers[o.id],
           \A i, v : TellsLast(wire, i, v) => TellsLast(wire', i, v),
           \A i : NoNote(wire, i) => NoNote(wire', i)
    PROVE  NewestArrives'
<1> SUFFICES ASSUME NEW o \in onServer', users'[o.use].state \in {"calling", "live"}
             PROVE  \/ TellsLast(wire', o.id, versions[o.use])
                    \/ NoNote(wire', o.id) /\ Holding(o.use, o.id, versions[o.use])'
    BY DEF NewestArrives
<1>1. o \in onServer /\ o.use \in W /\ users[o.use].state \in {"calling", "live"} OBVIOUS
<1>2. \A v : v = versions[o.use] => \/ TellsLast(wire', o.id, v)
                                    \/ NoNote(wire', o.id) /\ Holding(o.use, o.id, v)'
    BY <1>1, NewestOfOneStays
<1> QED BY <1>2

(* A step that sends nothing and reads nothing. *)
LEMMA NothingSent ==
    ASSUME handled' = handled, wire' = wire, onServer' = onServer
    PROVE  /\ \A u, i : Pending(u, i)' <=> Pending(u, i)
           /\ \A i : Stale(i)' <=> Stale(i)
           /\ \A c : Flying(c)' => Flying(c) \/ c \in sent'
           /\ \A c : Flying(c) => Flying(c)' \/ (c \in sent /\ c \notin sent')
           /\ SubscribedOnce => SubscribedOnce'
           /\ versions' = versions /\ StopsAreTrue => StopsAreTrue'
           /\ sent' = sent /\ AskedOnce => AskedOnce'
<1>1. \A u, i : Pending(u, i)' <=> Pending(u, i) BY DEF Pending
<1>2. \A i : Stale(i)' <=> Stale(i) BY DEF Stale
<1>3. \A c : Flying(c)' => Flying(c) \/ c \in sent' BY DEF Flying
<1>4. \A c : Flying(c) => Flying(c)' \/ (c \in sent /\ c \notin sent') BY DEF Flying
<1>5. SubscribedOnce => SubscribedOnce' BY DEF SubscribedOnce
<1>6. versions' = versions /\ StopsAreTrue => StopsAreTrue' BY DEF StopsAreTrue
<1>7. sent' = sent /\ AskedOnce => AskedOnce' BY DEF AskedOnce
<1> QED BY <1>1, <1>2, <1>3, <1>4, <1>5, <1>6, <1>7

(* A step in which only instances that have nothing move. *)
SilentMove ==
    /\ \A w \in Uses : \/ users'[w].state = users[w].state
                       \/ Silent(w) /\ users'[w].state \in {"waiting", "threw", "calling"}
    /\ \A w \in Uses : /\ users'[w].id = users[w].id /\ users'[w].attached = users[w].attached
                       /\ users'[w].seen = users[w].seen /\ (UserKind(w) = "publication" => users'[w].told = users[w].told)
    /\ clientJob' = clientJob /\ overdue' = overdue /\ resubscribeCalls' = resubscribeCalls /\ publishIds' = publishIds
    /\ serverIds' = serverIds /\ buffers' = buffers /\ versions' = versions /\ ids' = ids
    /\ handled' = handled /\ wire' = wire /\ onServer' = onServer

LEMMA SilentMoveKeeps ==
    ASSUME ClientInv, SilentMove, \A c \in sent' : ~Asks(c) => c \in sent, sent \subseteq sent',
           \A c \in sent' : c \in Calls
    PROVE  /\ IdsAreSingle' /\ TablesAreOwned' /\ PublicationsAreKept' /\ OldIdsAreStale' /\ UnansweredAreNew' /\ SubscribedOnce' /\ StopsAreTrue'
           /\ SubscriptionsAreOwned' /\ GivenBackIsFree' /\ NewestArrives'
           /\ \A w \in Uses : (Owned(w)' <=> Owned(w)) /\ (~Silent(w) => users'[w].state = users[w].state)
           /\ \A c \in Calls : Flying(c) => Fits(c)' /\ ~Silent(c.use)
           /\ \A l : ServerId(l)' = ServerId(l)
           /\ \A w \in Uses : \A v : Holds(w, v)' <=> Holds(w, v)
<1>1. /\ ClientTypeOK /\ SilentHaveNothing /\ IdsAreSingle /\ TablesAreOwned /\ PublicationsAreKept /\ OldIdsAreStale /\ UnansweredAreNew
      /\ SubscriptionsAreOwned /\ GivenBackIsFree /\ CallsFit /\ SubscribedOnce /\ StopsAreTrue
    BY DEF ClientInv
<1>2. /\ \A w \in Uses : /\ users'[w].id = users[w].id /\ users'[w].attached = users[w].attached
                         /\ users'[w].seen = users[w].seen /\ (UserKind(w) = "publication" => users'[w].told = users[w].told)
      /\ clientJob' = clientJob /\ overdue' = overdue /\ resubscribeCalls' = resubscribeCalls /\ publishIds' = publishIds
      /\ serverIds' = serverIds /\ buffers' = buffers /\ versions' = versions /\ ids' = ids
      /\ handled' = handled /\ wire' = wire /\ onServer' = onServer
    BY DEF SilentMove
<1>3. \A w \in Uses : ~Silent(w) => users'[w].state = users[w].state BY DEF SilentMove
<1>4. \A w \in Uses : Silent(w) => users'[w].state \in {"absent", "idle", "waiting", "threw", "calling"} BY DEF SilentMove, Silent
<1>5. \A w \in Uses : Owned(w)' <=> Owned(w) BY <1>3, <1>4 DEF Owned, Silent
<1>6. (\A l : ServerId(l)' = ServerId(l)) /\ (\A w \in Uses : \A i : Mapped(w, i)' <=> Mapped(w, i)) BY <1>2 DEF ServerId, Mapped
<1>7. /\ \A u, i : Pending(u, i)' <=> Pending(u, i)
      /\ \A i : Stale(i)' <=> Stale(i)
      /\ SubscribedOnce' /\ StopsAreTrue'
    BY <1>1, <1>2, NothingSent
<1>8. \A i : Unclaimed(i)' <=> Unclaimed(i) BY <1>2 DEF Unclaimed
<1>9. IdsAreSingle'
 <2>1. \A u \in Uses : users'[u].id <= ids' BY <1>1, <1>2 DEF IdsAreSingle
 <2>2. \A l \in Ids : serverIds'[l] <= ids' BY <1>1, <1>2 DEF IdsAreSingle
 <2>3. \A l \in Ids : serverIds'[l] # 0 => \E u \in Uses : users'[u].id = l BY <1>1, <1>2 DEF IdsAreSingle
 <2>4. \A u, w \in Uses : users'[u].id = users'[w].id /\ users'[u].id # 0 => u = w BY <1>1, <1>2 DEF IdsAreSingle
 <2>5. \A l, k \in Ids : serverIds'[l] = serverIds'[k] /\ serverIds'[l] # 0 => l = k BY <1>1, <1>2 DEF IdsAreSingle
 <2>6. \A l \in Ids, u \in Uses : serverIds'[l] # 0 => serverIds'[l] # users'[u].id BY <1>1, <1>2 DEF IdsAreSingle
 <2> QED BY <2>1, <2>2, <2>3, <2>4, <2>5, <2>6 DEF IdsAreSingle
<1>10. TablesAreOwned'
 <2>2. \A l \in resubscribeCalls : \E u \in Uses : users'[u].id = l /\ Owned(u)' /\ UserKind(u)' # "publication"
  <3> SUFFICES ASSUME NEW l \in resubscribeCalls PROVE \E u \in Uses : users'[u].id = l /\ Owned(u)' /\ UserKind(u)' # "publication" OBVIOUS
  <3>1. PICK u \in Uses : users[u].id = l /\ Owned(u) /\ UserKind(u) # "publication" BY <1>1 DEF TablesAreOwned
  <3> QED BY <3>1, <1>2, <1>5 DEF UserKind
 <2>3. \A l \in publishIds : \E u \in Uses : users'[u].id = l /\ Owned(u)' /\ UserKind(u)' = "publication"
  <3> SUFFICES ASSUME NEW l \in publishIds PROVE \E u \in Uses : users'[u].id = l /\ Owned(u)' /\ UserKind(u)' = "publication" OBVIOUS
  <3>1. PICK u \in Uses : users[u].id = l /\ Owned(u) /\ UserKind(u) = "publication" BY <1>1 DEF TablesAreOwned
  <3> QED BY <3>1, <1>2, <1>5 DEF UserKind
 <2>4. \A u \in Uses : users'[u].id # 0 /\ UserKind(u)' = "publication" => serverIds'[users'[u].id] = 0
     BY <1>1, <1>2 DEF TablesAreOwned, UserKind
 <2> QED BY <1>1, <2>2, <2>3, <2>4, <1>2 DEF TablesAreOwned
<1>11. PublicationsAreKept' BY <1>1, <1>2, <1>3, <1>4 DEF PublicationsAreKept, PublicationIsTold, UserKind
<1>12. OldIdsAreStale'
 <2>1. \A l \in Ids : serverIds'[l] # 0 => Stale(l)' BY <1>1, <1>2, <1>7 DEF OldIdsAreStale
 <2>2. \A u \in Uses : users[u].id # 0 => ~Silent(u) BY <1>1 DEF SilentHaveNothing
 <2>3. \A u \in Uses : users[u].id # 0 => users'[u].state = users[u].state BY <2>2, <1>3
 <2>4. \A i : i = i => (Stale(i) => Stale(i)') BY <1>7
 <2>5. ASSUME NEW u \in Uses, users[u].id # 0, users[u].state # "stopping", users[u].id \notin resubscribeCalls \cup publishIds
       PROVE  Stale(users[u].id)' /\ Stale(ServerId(users[u].id))'
  <3>1. Stale(users[u].id) /\ Stale(ServerId(users[u].id)) BY <2>5, <1>1 DEF OldIdsAreStale
  <3>2. users'[u].id = users[u].id /\ ServerId(users[u].id)' = ServerId(users[u].id) BY <1>2 DEF ServerId
  <3> QED BY <3>1, <3>2, <1>2 DEF Stale
 <2> QED BY <2>1, <2>3, <2>5, <1>2 DEF OldIdsAreStale
<1>13. UnansweredAreNew' BY <1>1, <1>2, <1>7, <1>8 DEF UnansweredAreNew
<1>14. SubscriptionsAreOwned'
 <2>1. \A o \in onServer : o.use \in Uses BY <1>1, ClientTypes
 <2>2. \A i : Unclaimed(i)' <=> Unclaimed(i) BY <1>2 DEF Unclaimed
 <2> QED BY <2>1, <2>2, <1>1, <1>2, <1>5, <1>6, <1>7 DEF SubscriptionsAreOwned, TooLate, Call
<1>15. GivenBackIsFree'
 <2> SUFFICES ASSUME NEW c \in sent', ~Asks(c)
              PROVE  /\ c.id # 0 /\ users'[c.use].state \in {"stopping", "stopped"}
                     /\ \A u \in Uses : ~Pending(u, c.id)'
                     /\ \A u \in Uses : Owned(u)' => ~Mapped(u, c.id)'
     BY DEF GivenBackIsFree
 <2>1. c \in sent /\ c.use \in Uses BY <1>1, ClientTypes
 <2>2. c.id # 0 /\ users[c.use].state \in {"stopping", "stopped"} /\ (\A u \in Uses : ~Pending(u, c.id)) /\ (\A u \in Uses : Owned(u) => ~Mapped(u, c.id))
     BY <2>1, <1>1 DEF GivenBackIsFree
 <2>3. users'[c.use].state = users[c.use].state BY <2>1, <2>2, <1>3 DEF Silent
 <2> QED BY <2>2, <2>3, <1>5, <1>6, <1>7
<1>16. \A w \in Uses : \A v : Holds(w, v)' <=> Holds(w, v) BY <1>2 DEF Holds
<1>17. NewestArrives'
 <2> DEFINE W == {w \in Uses : ~Silent(w)}
 <2>1. \A o \in onServer' : o.use \in W BY <1>1, <1>2, ClientTypes DEF SilentHaveNothing
 <2>2. \A w \in W : users'[w].state = users[w].state BY <1>3
 <2>3. W \in SUBSET Uses /\ (\A w \in W : \A i : Mapped(w, i)' <=> Mapped(w, i)) /\ (\A w \in W : \A v : users[w].id # 0 /\ Holds(w, v) => Holds(w, v)')
     BY <1>6, <1>16
 <2> HIDE DEF W
 <2> QED BY <2>1, <2>2, <2>3, <1>2, NewestStay
<1>18. ASSUME NEW c \in Calls, Flying(c)
       PROVE  Fits(c)' /\ ~Silent(c.use)
 <2>1. c.use \in Uses /\ Fits(c) /\ ~Silent(c.use) BY <1>18, <1>1 DEF Calls, CallsFit, SilentHaveNothing
 <2>2. users'[c.use].state = users[c.use].state /\ users'[c.use].id = users[c.use].id /\ (Owned(c.use)' <=> Owned(c.use))
     BY <2>1, <1>2, <1>3, <1>5
 <2> QED BY <2>1, <2>2, <1>2 DEF Fits
<1> QED BY <1>3, <1>5, <1>6, <1>7, <1>9, <1>10, <1>11, <1>12, <1>13, <1>14, <1>15, <1>16, <1>17, <1>18

(* Reading an answer, whatever is done with it. *)
LEMMA AnswerIsRead ==
    ASSUME ClientInv, NEW h, h = Head(wire), wire # <<>>, h.type = "answer", wire' = Tail(wire), handled' = handled, onServer' = onServer,
           versions' = versions, sent \subseteq sent', \A c \in sent' : Asks(c) => c \in sent
    PROVE  /\ wire' \in Seq(NoteRows \cup AnswerRows)
           /\ h.call \in Calls /\ h.call.use \in Uses /\ h.id \in 0..MaxIds /\ Flying(h.call) /\ Fits(h.call) /\ Connected
           /\ \A i : Stale(i) => Stale(i)'
           /\ \A w, i : Pending(w, i)' => Pending(w, i)
           /\ \A c : Flying(c)' => Flying(c) \/ (c \in sent' /\ ~Asks(c))
           /\ \A c : Flying(c) => Flying(c)' \/ h.call = c
           /\ AskedOnce' /\ StopsAreTrue' /\ SubscribedOnce'
           /\ Asks(h.call) => /\ Pending(h.call.use, h.id)
                              /\ \A w, i : Pending(w, i) => Pending(w, i)' \/ (h.id = i /\ h.call.use = w)
                              /\ \A c : Flying(c)' /\ Asks(c) => c.use # h.call.use
                              /\ \A w, i : w = h.call.use => ~Pending(w, i)'
                              /\ h.id = 0 => /\ h.call.method = "resubscribe" /\ versions[h.call.use] = Stopped
                                             /\ \A o \in onServer : o.use # h.call.use
           /\ ~Asks(h.call) => \A w, i : Pending(w, i) => Pending(w, i)'
           /\ \A i, v : TellsLast(wire, i, v) => TellsLast(wire', i, v)
           /\ \A i : NoNote(wire, i) => NoNote(wire', i)
<1>1. ClientTypeOK /\ DroppedIsEmpty /\ AskedOnce /\ StopsAreTrue /\ SubscribedOnce /\ CallsFit BY DEF ClientInv
<1>2. \A c \in sent' : Asks(c) => c \in sent OBVIOUS
<1>3. /\ wire' \in Seq(NoteRows \cup AnswerRows) /\ h \in Msgs(wire)
      /\ \A i : Stale(i) => Stale(i)'
      /\ \A w, i : Pending(w, i)' => Pending(w, i)
      /\ \A w, i : Pending(w, i) => Pending(w, i)' \/ (IsReply(h) /\ h.id = i /\ h.call.use = w)
      /\ AskedOnce' /\ StopsAreTrue' /\ SubscribedOnce'
    BY <1>1, <1>2, HeadIsRead
<1>4. \A c : Flying(c)' => Flying(c) \/ c \in sent' BY <1>1, <1>2, HeadIsRead
<1>5. \A c : Flying(c) => Flying(c)' \/ (c \in sent /\ c \notin sent') \/ (h.type = "answer" /\ h.call = c) BY <1>1, <1>2, HeadIsRead
<1>6. IsReply(h) => (\A c : Flying(c)' /\ Asks(c) => c.use # h.call.use) /\ \A w, i : w = h.call.use => ~Pending(w, i)'
    BY <1>1, <1>2, HeadIsRead
<1>7. IsReply(h) <=> Asks(h.call) BY DEF IsReply
<1>8. h.call \in Calls /\ h.call.use \in Uses /\ h.id \in 0..MaxIds BY <1>1, <1>3, ClientTypes
<1>9. Flying(h.call) /\ Fits(h.call)
 <2>1. Flying(h.call) BY <1>3 DEF Flying
 <2> QED BY <2>1, <1>1, <1>8 DEF CallsFit
<1>10. Connected BY <1>1 DEF DroppedIsEmpty
<1>11. Asks(h.call) => Pending(h.call.use, h.id) BY <1>3, <1>7 DEF Pending
<1>12. Asks(h.call) /\ h.id = 0 => /\ h.call.method = "resubscribe" /\ versions[h.call.use] = Stopped
                                   /\ \A o \in onServer : o.use # h.call.use
    BY <1>1, <1>3, <1>7 DEF StopsAreTrue
<1>13. \A c : Flying(c)' => Flying(c) \/ (c \in sent' /\ ~Asks(c))
 <2>1. \A c : c \in sent => Flying(c) BY DEF Flying
 <2> QED BY <2>1, <1>2, <1>4
<1>14. \A c : Flying(c) => Flying(c)' \/ h.call = c BY <1>5
<1>15. /\ \A i, v : TellsLast(wire, i, v) => TellsLast(wire', i, v)
       /\ \A i : NoNote(wire, i) => NoNote(wire', i)
 <2> DEFINE S == NoteRows \cup AnswerRows
 <2>1. wire \in Seq(S) BY <1>1 DEF ClientTypeOK
 <2> HIDE DEF S
 <2>2. \A i : /\ NoNote(wire, i) => NoNote(Tail(wire), i)
              /\ \A v : TellsLast(wire, i, v)
                          => \/ TellsLast(Tail(wire), i, v)
                             \/ /\ NoNote(Tail(wire), i)
                                /\ Head(wire).type = "note"
                                /\ Head(wire).id = i
                                /\ Head(wire).version = v
     BY <2>1, WireShrinks
 <2> QED BY <2>2
<1> QED BY <1>3, <1>6, <1>7, <1>8, <1>9, <1>10, <1>11, <1>12, <1>13, <1>14, <1>15

(* A notification reaches the holder of its subscription, or the buffer from *)
(* which the holder will take it. *)
LEMMA NotificationKeepsClient ==
    ASSUME ClientInv, receiveNotification
    PROVE  ClientInv'
<1> DEFINE h == Head(wire)
           l == LocalId(h.id)
<1>1. /\ ClientTypeOK /\ DroppedIsEmpty /\ AskedOnce /\ SubscribedOnce /\ StopsAreTrue /\ IdsAreSingle /\ UnansweredAreNew
      /\ OldIdsAreStale /\ OldCallsAreStale /\ SubscriptionsAreOwned /\ NewestArrives /\ LiveAreServed /\ SilentHaveNothing
      /\ TablesAreOwned /\ GivenBackIsFree
    BY DEF ClientInv
<1>2. /\ wire # <<>> /\ h.type = "note" /\ wire' = Tail(wire)
      /\ Dispatched(l, <<h.version>>, users, buffers)
      /\ clientJob' = clientJob /\ overdue' = overdue /\ link' = link /\ resubscribeCalls' = resubscribeCalls /\ publishIds' = publishIds
      /\ serverIds' = serverIds /\ retry' = retry /\ sent' = sent /\ handled' = handled /\ onServer' = onServer
      /\ versions' = versions /\ ids' = ids
    BY DEF receiveNotification
<1>3. /\ wire' \in Seq(NoteRows \cup AnswerRows) /\ h \in Msgs(wire) /\ Msgs(wire) = Msgs(wire') \cup {h}
      /\ \A i : Stale(i) => Stale(i)'
      /\ \A u, i : Pending(u, i)' <=> Pending(u, i)
      /\ \A c : Flying(c)' <=> Flying(c)
      /\ AskedOnce' /\ StopsAreTrue' /\ SubscribedOnce'
 <2>1. \A c \in sent' : Asks(c) => c \in sent BY <1>2
 <2>2. ~IsReply(Head(wire)) /\ Head(wire).type # "answer" BY <1>2 DEF IsReply
 <2>3. h = Head(wire) OBVIOUS
 <2> HIDE DEF h
 <2>4. /\ wire' \in Seq(NoteRows \cup AnswerRows) /\ h \in Msgs(wire) /\ Msgs(wire) = Msgs(wire') \cup {h}
       /\ \A i : Stale(i) => Stale(i)'
       /\ \A u, i : Pending(u, i)' => Pending(u, i)
       /\ AskedOnce' /\ StopsAreTrue' /\ SubscribedOnce'
     BY <1>1, <1>2, <2>1, <2>3, HeadIsRead
 <2>5. \A u, i : Pending(u, i) => Pending(u, i)' BY <1>1, <1>2, <2>1, <2>2, HeadIsRead
 <2>6. \A c : Flying(c)' <=> Flying(c)
  <3>1. \A c : Flying(c)' => Flying(c) \/ c \in sent' BY <1>1, <1>2, <2>1, HeadIsRead
  <3>2. \A c : Flying(c) => Flying(c)' \/ (c \in sent /\ c \notin sent') BY <1>1, <1>2, <2>1, <2>2, HeadIsRead
  <3> QED BY <3>1, <3>2, <1>2 DEF Flying
 <2> QED BY <2>4, <2>5, <2>6
<1>4. h.id \in Ids /\ h.version \in Nat /\ <<h.version>> \in Seq(Nat) /\ <<h.version>> # <<>> /\ Last(<<h.version>>) = h.version
    BY <1>1, <1>2, <1>3, ClientTypes DEF Last
<1>5. /\ l \in Ids
      /\ \A k \in Ids : serverIds[k] = h.id => l = k
      /\ (\A k \in Ids : serverIds[k] # h.id) => l = h.id
      /\ \A u \in Uses : Mapped(u, h.id) => l = users[u].id
    BY <1>1, <1>4, LocalIdIs
<1>6. /\ users' \in [Uses -> UserRows] /\ buffers' \in [Ids -> Seq(Nat)]
      /\ \A u \in Uses : /\ users'[u].state = users[u].state /\ users'[u].id = users[u].id
                         /\ users'[u].attached = users[u].attached /\ users'[u].told = users[u].told
                         /\ ~(users[u].id = l /\ users[u].attached) => users'[u].seen = users[u].seen
                         /\ users[u].id = l /\ users[u].attached => users'[u].seen = h.version
                         /\ users[u].id = l /\ ~users[u].attached => buffers'[l] # <<>> /\ Last(buffers'[l]) = h.version
      /\ \A k \in Ids : k # l => buffers'[k] = buffers[k]
      /\ (\A u \in Uses : users[u].id # l) => buffers'[l] # <<>> /\ Last(buffers'[l]) = h.version
 <2>1. buffers \in [Ids -> Seq(Nat)] BY <1>1 DEF ClientTypeOK
 <2> HIDE DEF h, l
 <2>2. /\ users' \in [Uses -> UserRows] /\ buffers' \in [Ids -> Seq(Nat)]
       /\ \A u \in Uses : /\ users'[u].state = users[u].state /\ users'[u].id = users[u].id
                          /\ users'[u].attached = users[u].attached /\ users'[u].told = users[u].told
                          /\ ~(users[u].id = l /\ users[u].attached) => users'[u].seen = users[u].seen
                          /\ users[u].id = l /\ users[u].attached => users'[u].seen = Last(<<h.version>>)
                          /\ users[u].id = l /\ ~users[u].attached => buffers'[l] # <<>> /\ Last(buffers'[l]) = Last(<<h.version>>)
       /\ \A k \in Ids : k # l => buffers'[k] = buffers[k]
       /\ (\A u \in Uses : users[u].id # l) => buffers'[l] # <<>> /\ Last(buffers'[l]) = Last(<<h.version>>)
  <3> DEFINE vs == <<h.version>>
  <3>1. vs \in Seq(Nat) /\ vs # <<>> /\ Dispatched(l, vs, users, buffers) BY <1>2, <1>4
  <3> HIDE DEF vs
  <3>2. /\ users' \in [Uses -> UserRows] /\ buffers' \in [Ids -> Seq(Nat)]
        /\ \A u \in Uses : /\ users'[u].state = users[u].state /\ users'[u].id = users[u].id
                           /\ users'[u].attached = users[u].attached /\ users'[u].told = users[u].told
                           /\ ~(users[u].id = l /\ users[u].attached) => users'[u].seen = users[u].seen
                           /\ users[u].id = l /\ users[u].attached => users'[u].seen = Last(vs)
                           /\ users[u].id = l /\ ~users[u].attached => buffers'[l] # <<>> /\ Last(buffers'[l]) = Last(vs)
        /\ \A k \in Ids : k # l => buffers'[k] = buffers[k]
        /\ (\A u \in Uses : users[u].id # l) => buffers'[l] # <<>> /\ Last(buffers'[l]) = Last(vs)
      BY <2>1, <1>1, <1>5, <3>1, DispatchDoes
  <3> QED BY <3>2 DEF vs
 <2>3. Last(<<h.version>>) = h.version BY <1>4
 <2> QED BY <2>2, <2>3
<1> HIDE DEF h, l
<1>7. SameUsers /\ SameClient BY <1>2, <1>6 DEF SameUsers, SameClient
<1>8. \A u \in Uses : users[u].id = 0 => ~users'[u].attached BY <1>1, <1>6 DEF SilentHaveNothing
<1>9. /\ ListsComeBack' /\ SilentHaveNothing' /\ IdsAreSingle' /\ IdsAreGivenOut'
      /\ UnansweredAreNew' /\ CallsFit' /\ TablesAreOwned' /\ OldCallsAreStale' /\ OldIdsAreStale'
      /\ SubscriptionsAreOwned' /\ GivenBackIsFree' /\ PublicationsAreKept'
    BY <1>2, <1>3, <1>6, <1>7, <1>8, NothingMoves
<1>10. ClientTypeOK' BY <1>1, <1>2, <1>3, <1>6 DEF ClientTypeOK
<1>11. DroppedIsEmpty' BY <1>1, <1>2, <1>6 DEF DroppedIsEmpty, Connected
<1>12. \A u \in Uses : \A i : (Mapped(u, i)' <=> Mapped(u, i)) /\ ServerId(i)' = ServerId(i) BY <1>1, <1>2, <1>7, UsersStay
(* The id of what was read is the newest one of its instance. *)
<1>13. ~Stale(h.id) BY <1>1, <1>2, WireShrinks DEF Stale, ClientTypeOK, h
<1>14. \A u \in Uses : users[u].id = l => Mapped(u, h.id)
 <2> SUFFICES ASSUME NEW u \in Uses, users[u].id = l PROVE Mapped(u, h.id) OBVIOUS
 <2>1. l # 0 BY <1>5 DEF Ids
 <2>2. CASE \E k \in Ids : serverIds[k] = h.id BY <2>1, <2>2, <1>4, <1>5 DEF Mapped, ServerId, Ids
 <2>3. CASE \A k \in Ids : serverIds[k] # h.id
  <3>1. l = h.id BY <2>3, <1>5
  <3>2. serverIds[l] = 0 BY <3>1, <1>1, <1>5, <1>13 DEF OldIdsAreStale
  <3> QED BY <2>1, <3>1, <3>2 DEF Mapped, ServerId
 <2> QED BY <2>2, <2>3
(* What does not move keeps what it held. *)
<1>15. \A u \in Uses : users[u].id # 0 /\ users[u].id # l => \A v : Holds(u, v)' <=> Holds(u, v) BY <1>1, <1>6, ClientTypes DEF Holds
<1>16. NewestArrives'
 <2> SUFFICES ASSUME NEW o \in onServer, users[o.use].state \in {"calling", "live"}
              PROVE  \/ TellsLast(wire', o.id, versions[o.use])
                     \/ NoNote(wire', o.id) /\ Holding(o.use, o.id, versions[o.use])'
  <3>1. \A o \in onServer : o.use \in Uses BY <1>1, ClientTypes
  <3> QED BY <3>1, <1>2, <1>6 DEF NewestArrives
 <2>1. o.use \in Uses /\ o.id \in Ids /\ o = [use |-> o.use, id |-> o.id] /\ o.id # 0 BY <1>1, ClientTypes DEF Ids
 <2>2. \/ TellsLast(wire, o.id, versions[o.use])
       \/ NoNote(wire, o.id) /\ Holding(o.use, o.id, versions[o.use])
     BY <1>1 DEF NewestArrives
 <2>3. \/ TellsLast(wire', o.id, versions[o.use])
       \/ NoNote(wire', o.id) /\ h.id = o.id /\ h.version = versions[o.use]
       \/ NoNote(wire', o.id) /\ h.id # o.id /\ Holding(o.use, o.id, versions[o.use])
  <3>1. \A v : TellsLast(wire, o.id, v) =>
                  \/ TellsLast(wire', o.id, v)
                  \/ NoNote(wire', o.id) /\ h.id = o.id /\ h.version = v
      BY <1>1, <1>2, WireShrinks DEF ClientTypeOK, h
  <3>2. NoNote(wire, o.id) => NoNote(wire', o.id) /\ h.id # o.id BY <1>1, <1>2, WireShrinks DEF ClientTypeOK, h
  <3> QED BY <3>1, <3>2, <2>2
(* A subscription nobody is mapped to keeps its notifications under its id. *)
 <2>4. ~Mapped(o.use, o.id) => Unclaimed(o.id)
  <3>1. ~Mapped(o.use, o.id) => Pending(o.use, o.id) \/ TooLate(o)
      BY <1>1, <2>1 DEF SubscriptionsAreOwned, Owned, GivenBackIsFree, Call, Asks
  <3> QED BY <3>1, <2>1, <1>1 DEF UnansweredAreNew, TooLate
 <2>5. CASE NoNote(wire', o.id) /\ h.id = o.id /\ h.version = versions[o.use]
  <3>1. CASE Mapped(o.use, o.id)
   <4>1. l = users[o.use].id BY <3>1, <2>1, <2>5, <1>5
   <4>2. Holds(o.use, versions[o.use])' BY <4>1, <2>1, <2>5, <1>2, <1>6 DEF Holds
   <4> QED BY <4>2, <3>1, <2>1, <2>5, <1>2, <1>12 DEF Holding
  <3>2. CASE ~Mapped(o.use, o.id)
   <4>1. l = o.id /\ \A u \in Uses : users[u].id # l BY <3>2, <2>4, <2>5, <1>5 DEF Unclaimed
   <4>2. buffers'[o.id] # <<>> /\ Last(buffers'[o.id]) = versions[o.use] BY <4>1, <2>5, <1>6
   <4>3. ~Mapped(o.use, o.id)' BY <3>2, <2>1, <1>2, <1>12
   <4> QED BY <4>2, <4>3, <2>5, <1>2 DEF Holding
  <3> QED BY <3>1, <3>2
 <2>6. CASE NoNote(wire', o.id) /\ h.id # o.id /\ Holding(o.use, o.id, versions[o.use])
  <3>1. CASE Mapped(o.use, o.id)
   <4>1. users[o.use].id # l
    <5>1. users[o.use].id = l => Mapped(o.use, h.id) BY <2>1, <1>14
    <5> QED BY <5>1, <3>1, <2>6 DEF Mapped
   <4>2. Holds(o.use, versions[o.use])' BY <4>1, <3>1, <2>1, <2>6, <1>2, <1>15 DEF Holding, Mapped
   <4> QED BY <4>2, <3>1, <2>1, <2>6, <1>12 DEF Holding
  <3>2. CASE ~Mapped(o.use, o.id)
   <4>1. l # o.id
    <5>1. \A k \in Ids : k = o.id => serverIds[k] = 0 BY <1>1, <2>4, <3>2 DEF IdsAreSingle, Unclaimed
    <5> QED BY <5>1, <2>1, <2>6, <1>4, <1>5 DEF Ids
   <4>2. buffers'[o.id] # <<>> /\ Last(buffers'[o.id]) = versions[o.use] BY <4>1, <3>2, <2>1, <2>6, <1>6 DEF Holding
   <4>3. ~Mapped(o.use, o.id)' BY <3>2, <2>1, <1>2, <1>12
   <4> QED BY <4>2, <4>3, <2>6, <1>2 DEF Holding
  <3> QED BY <3>1, <3>2
 <2> QED BY <2>3, <2>5, <2>6
<1>17. LiveAreServed'
 <2>1. \A u \in Uses : (Resubscribing(u)' <=> Resubscribing(u)) /\ ServerId(users[u].id)' = ServerId(users[u].id)
     BY <1>2, <1>3, <1>6 DEF Resubscribing, ServerId
 <2>2. ASSUME NEW u \in Uses, users[u].state = "live", UserKind(u) # "publication", users[u].id \notin resubscribeCalls
       PROVE  ToldOfStop(u)'
  <3>1. users[u].id # 0 /\ ToldOfStop(u) /\ users[u].id \notin publishIds
   <4>1. users[u].id # 0 /\ ToldOfStop(u) BY <2>2, <1>1 DEF SilentHaveNothing, LiveAreServed
   <4>2. ASSUME users[u].id \in publishIds PROVE FALSE
    <5>1. PICK w \in Uses : users[w].id = users[u].id /\ UserKind(w) = "publication" BY <4>2, <1>1 DEF TablesAreOwned
    <5> QED BY <5>1, <4>1, <2>2, <1>1 DEF IdsAreSingle
   <4> QED BY <4>1, <4>2
  <3>2. Stale(ServerId(users[u].id)) BY <3>1, <2>2, <1>1 DEF OldIdsAreStale
  <3>3. ~Mapped(u, h.id) BY <3>2, <1>13 DEF Mapped
  <3>4. Holds(u, Stopped)' BY <3>1, <3>3, <1>14, <1>15 DEF ToldOfStop
  <3> QED BY <3>1, <3>4, <1>2 DEF ToldOfStop
 <2> QED BY <2>1, <2>2, <1>1, <1>2, <1>6 DEF LiveAreServed, UserKind, Connected
<1> QED BY <1>3, <1>9, <1>10, <1>11, <1>16, <1>17 DEF ClientInv

(* subscribe() asks once, from an instance that has nothing yet. *)
LEMMA SubscribeKeepsClient ==
    ASSUME ClientInv, NEW u \in DOMAIN clientJob.kind, subscribe(u)
    PROVE  ClientInv'
<1> DEFINE new == Call("subscribe", u, 0)
<1>1. /\ ClientTypeOK /\ DroppedIsEmpty /\ ListsComeBack /\ SilentHaveNothing /\ IdsAreGivenOut /\ AskedOnce
      /\ OldCallsAreStale /\ LiveAreServed
    BY DEF ClientInv
<1>2. u \in Uses /\ users \in [Uses -> UserRows] /\ retry \subseteq Uses /\ sent \subseteq Calls /\ ids \in Nat
    BY <1>1, ClientTypes, ClientAssumption DEF ClientTypeOK
<1>3. users[u].state = "idle" /\ link.state # "failed" /\ users' = [users EXCEPT ![u].state = IF Connected THEN "calling" ELSE "waiting"]
    BY DEF subscribe
<1>4. /\ users' \in [Uses -> UserRows] /\ users'[u].state = (IF Connected THEN "calling" ELSE "waiting")
      /\ \A w \in Uses : w # u => users'[w].state = users[w].state
      /\ \A w \in Uses : /\ users'[w].id = users[w].id /\ users'[w].attached = users[w].attached
                         /\ users'[w].seen = users[w].seen /\ users'[w].told = users[w].told
    BY <1>2, <1>3 DEF UserRows, UserStates
<1>5. /\ clientJob' = clientJob /\ overdue' = overdue /\ link' = link /\ resubscribeCalls' = resubscribeCalls /\ publishIds' = publishIds /\ retry' = retry
      /\ serverIds' = serverIds /\ buffers' = buffers /\ versions' = versions /\ ids' = ids
      /\ handled' = handled /\ wire' = wire /\ onServer' = onServer
    BY DEF subscribe, ClientTables
<1>6. new \in Calls /\ new.use = u /\ new.id = 0 /\ new.method = "subscribe" /\ Asks(new) BY <1>2, ClientAssumption DEF Call, Calls, Asks
<1>7. (Connected => sent' = sent \cup {new}) /\ (~Connected => sent' = sent) BY DEF subscribe
<1> HIDE DEF new
<1>8. sent \subseteq sent' /\ (\A c \in sent' : c \in sent \/ (c = new /\ Connected)) /\ (\A c \in sent' : c \in Calls) BY <1>2, <1>6, <1>7
<1>9. SilentMove BY <1>3, <1>4, <1>5 DEF SilentMove, Silent
<1>10. /\ IdsAreSingle' /\ TablesAreOwned' /\ PublicationsAreKept' /\ OldIdsAreStale' /\ UnansweredAreNew' /\ SubscribedOnce' /\ StopsAreTrue'
       /\ SubscriptionsAreOwned' /\ GivenBackIsFree' /\ NewestArrives'
       /\ \A c \in Calls : Flying(c) => Fits(c)'
       /\ \A l : ServerId(l)' = ServerId(l)
       /\ \A w \in Uses : \A v : Holds(w, v)' <=> Holds(w, v)
    BY <1>6, <1>8, <1>9, SilentMoveKeeps
<1>11. /\ \A c : Flying(c)' => Flying(c) \/ (c = new /\ Connected)
       /\ \A c : Flying(c) => Flying(c)'
       /\ \A i : Stale(i)' <=> Stale(i)
 <2>1. \A c : Flying(c)' => Flying(c) \/ c \in sent' BY <1>5, NothingSent
 <2>2. \A c : c \in sent => Flying(c) BY DEF Flying
 <2>3. (\A c : Flying(c) => Flying(c)' \/ (c \in sent /\ c \notin sent')) /\ (\A i : Stale(i)' <=> Stale(i)) BY <1>5, NothingSent
 <2> QED BY <2>1, <2>2, <2>3, <1>8
<1>12. /\ \A c \in Calls : Flying(c) => c.use # u
       /\ \A o \in onServer : o.use # u
       /\ users[u].id = 0
    BY <1>1, <1>2, <1>3 DEF SilentHaveNothing, Silent
<1>13. ClientTypeOK' BY <1>1, <1>4, <1>5, <1>8 DEF ClientTypeOK
<1>14. DroppedIsEmpty' BY <1>1, <1>4, <1>5, <1>7 DEF DroppedIsEmpty, Connected
<1>15. ListsComeBack'
 <2>1. link.state \in {"connecting", "connected", "failed"} BY <1>1 DEF ClientTypeOK
 <2>2. \A w \in retry : w \in Uses /\ w # u BY <1>1, <1>2, <1>3 DEF ListsComeBack
 <2>3. \A w \in retry' : UserKind(w)' = "list" /\ users'[w].state = "threw" BY <2>2, <1>1, <1>4, <1>5 DEF ListsComeBack, UserKind
 <2>4. \A w \in Uses : users'[w].state = "waiting" => link'.state = "connecting"
  <3>1. users'[u].state = "waiting" => link.state = "connecting" BY <2>1, <1>3, <1>4 DEF Connected
  <3>2. \A w \in Uses : w # u /\ users'[w].state = "waiting" => link.state = "connecting" BY <1>1, <1>4 DEF ListsComeBack
  <3> QED BY <3>1, <3>2, <1>5
 <2>5. \A w \in Uses : w \in DOMAIN clientJob'.kind => users'[w].state # "absent" BY <1>1, <1>4, <1>5 DEF ListsComeBack
 <2>6. \A w \in Uses : users'[w].state \in {"unwanted", "stopping", "stopped"} => UserKind(w)' # "list"
     BY <1>1, <1>4, <1>5 DEF ListsComeBack, UserKind
 <2>7. \A w \in Uses : users'[w].state = "threw" /\ UserKind(w)' = "list" /\ link'.state # "failed" => ~Connected' /\ w \in retry'
     BY <1>1, <1>4, <1>5 DEF ListsComeBack, UserKind, Connected
 <2> QED BY <2>3, <2>4, <2>5, <2>6, <2>7 DEF ListsComeBack
<1>16. SilentHaveNothing'
 <2>1. \A w \in Uses : Silent(w)' => Silent(w) /\ (w = u => ~Connected) BY <1>3, <1>4 DEF Silent
 <2>2. \A w \in Uses : Silent(w)' => (\A c \in Calls : Flying(c)' => c.use # w) /\ (\A o \in onServer' : o.use # w)
     BY <2>1, <1>1, <1>5, <1>6, <1>11 DEF SilentHaveNothing
 <2>3. \A w \in Uses : Silent(w)' \/ users'[w].state = "calling" => users'[w].id = 0 BY <2>1, <1>1, <1>4, <1>12 DEF SilentHaveNothing
 <2>4. \A w \in Uses : users'[w].state \in {"live", "stopping"} => users'[w].id # 0 BY <1>1, <1>4 DEF SilentHaveNothing
 <2> QED BY <2>2, <2>3, <2>4, <1>1, <1>4 DEF SilentHaveNothing
<1>17. IdsAreGivenOut' BY <1>1, <1>2, <1>5, <1>6, <1>11 DEF IdsAreGivenOut
<1>18. AskedOnce'
 <2>1. \A c \in sent : c.use # u BY <1>2, <1>12 DEF Flying
 <2>2. (\A h \in handled : h.call.use # u) /\ (\A m \in Msgs(wire) : IsReply(m) => m.call.use # u)
     BY <1>12, <1>1, ClientTypes DEF Flying, IsReply
 <2>3. \A c \in sent' : c \in sent \/ c = new BY <1>8
 <2>4. /\ \A c, d \in sent' : Asks(c) /\ Asks(d) /\ c.use = d.use => c = d
       /\ \A c \in sent', h \in handled : Asks(c) => h.call.use # c.use
       /\ \A c \in sent', m \in Msgs(wire) : Asks(c) /\ IsReply(m) => m.call.use # c.use
     BY <2>1, <2>2, <2>3, <1>1, <1>6 DEF AskedOnce
 <2>5. \A c \in sent', o \in onServer : Asks(c) => o.use # c.use BY <2>3, <1>1, <1>6, <1>12 DEF AskedOnce
 <2> QED BY <2>4, <2>5, <1>1, <1>5 DEF AskedOnce
<1>19. CallsFit'
 <2>1. Connected => Fits(new)' BY <1>4, <1>2, <1>6, <1>12 DEF Fits
 <2> QED BY <2>1, <1>10, <1>11 DEF CallsFit
<1>20. OldCallsAreStale' BY <1>1, <1>6, <1>10, <1>11 DEF OldCallsAreStale
<1>21. LiveAreServed'
 <2>1. \A w \in Uses : (Resubscribing(w) => Resubscribing(w)') /\ (ToldOfStop(w) <=> ToldOfStop(w)')
     BY <1>5, <1>10, <1>11 DEF Resubscribing, ToldOfStop
 <2>2. \A w \in Uses : users'[w].state = "live" => users[w].state = "live" /\ users'[w].id = users[w].id /\ ServerId(users[w].id)' = ServerId(users[w].id)
     BY <1>4, <1>5 DEF ServerId
 <2> QED BY <2>1, <2>2, <1>1, <1>4, <1>5 DEF LiveAreServed, UserKind, Connected
<1> QED BY <1>10, <1>13, <1>14, <1>15, <1>16, <1>17, <1>18, <1>19, <1>20, <1>21 DEF ClientInv

(* The wait for the connection ends: a list is kept to be asked for again. *)
LEMMA TimeoutKeepsClient ==
    ASSUME ClientInv, NEW u \in DOMAIN clientJob.kind, waitTimesOut(u)
    PROVE  ClientInv'
<1>1. /\ ClientTypeOK /\ DroppedIsEmpty /\ ListsComeBack /\ SilentHaveNothing /\ IdsAreGivenOut /\ AskedOnce
      /\ OldCallsAreStale /\ LiveAreServed
    BY DEF ClientInv
<1>2. u \in Uses /\ users \in [Uses -> UserRows] /\ retry \subseteq Uses /\ sent \subseteq Calls BY <1>1, ClientTypes DEF ClientTypeOK
<1>3. users[u].state = "waiting" /\ users' = [users EXCEPT ![u].state = "threw"] BY DEF waitTimesOut
<1>4. /\ users' \in [Uses -> UserRows] /\ users'[u].state = "threw"
      /\ \A w \in Uses : w # u => users'[w].state = users[w].state
      /\ \A w \in Uses : /\ users'[w].id = users[w].id /\ users'[w].attached = users[w].attached
                         /\ users'[w].seen = users[w].seen /\ users'[w].told = users[w].told
    BY <1>2, <1>3 DEF UserRows, UserStates
<1>5. /\ clientJob' = clientJob /\ overdue' = overdue /\ link' = link /\ resubscribeCalls' = resubscribeCalls /\ publishIds' = publishIds
      /\ serverIds' = serverIds /\ buffers' = buffers /\ versions' = versions /\ ids' = ids
      /\ sent' = sent /\ handled' = handled /\ wire' = wire /\ onServer' = onServer
    BY DEF waitTimesOut, Server
<1>6. retry' = retry \cup {w \in {u} : UserKind(w) = "list"} BY DEF waitTimesOut, Retried
<1>7. SilentMove BY <1>3, <1>4, <1>5 DEF SilentMove, Silent
<1>8. /\ IdsAreSingle' /\ TablesAreOwned' /\ PublicationsAreKept' /\ OldIdsAreStale' /\ UnansweredAreNew' /\ SubscribedOnce' /\ StopsAreTrue'
      /\ SubscriptionsAreOwned' /\ GivenBackIsFree' /\ NewestArrives'
      /\ \A c \in Calls : Flying(c) => Fits(c)'
      /\ \A l : ServerId(l)' = ServerId(l)
      /\ \A w \in Uses : \A v : Holds(w, v)' <=> Holds(w, v)
    BY <1>2, <1>5, <1>7, SilentMoveKeeps
<1>9. (\A c : Flying(c)' <=> Flying(c)) /\ (\A i : Stale(i)' <=> Stale(i)) /\ AskedOnce' BY <1>1, <1>5, NothingSent DEF Flying
<1>10. ClientTypeOK' BY <1>1, <1>2, <1>4, <1>5, <1>6 DEF ClientTypeOK
<1>11. DroppedIsEmpty' BY <1>1, <1>4, <1>5 DEF DroppedIsEmpty, Connected
<1>12. ListsComeBack'
 <2>2. \A w \in retry : w \in Uses /\ users[w].state = "threw" BY <1>1, <1>2 DEF ListsComeBack
 <2>3. \A w \in retry' : UserKind(w)' = "list" /\ users'[w].state = "threw"
     BY <2>2, <1>1, <1>3, <1>4, <1>5, <1>6 DEF ListsComeBack, UserKind
 <2>4. \A w \in Uses : users'[w].state = "waiting" => link'.state = "connecting"
     BY <1>1, <1>3, <1>4, <1>5, <1>6 DEF ListsComeBack, Connected
 <2>5. \A w \in Uses : w \in DOMAIN clientJob'.kind => users'[w].state # "absent" BY <1>1, <1>4, <1>5 DEF ListsComeBack
 <2>6. \A w \in Uses : users'[w].state \in {"unwanted", "stopping", "stopped"} => UserKind(w)' # "list"
     BY <1>1, <1>4, <1>5 DEF ListsComeBack, UserKind
 <2>7. \A w \in Uses : users'[w].state = "threw" /\ UserKind(w)' = "list" /\ link'.state # "failed" => ~Connected' /\ w \in retry'
     BY <1>1, <1>3, <1>4, <1>5, <1>6 DEF ListsComeBack, UserKind, Connected
 <2> QED BY <2>3, <2>4, <2>5, <2>6, <2>7 DEF ListsComeBack
<1>13. SilentHaveNothing'
 <2>1. \A w \in Uses : Silent(w)' <=> Silent(w) BY <1>3, <1>4 DEF Silent
 <2> QED BY <2>1, <1>1, <1>3, <1>4, <1>5, <1>9 DEF SilentHaveNothing
<1>14. IdsAreGivenOut' BY <1>1, <1>5, <1>9 DEF IdsAreGivenOut
<1>15. CallsFit' BY <1>8, <1>9 DEF CallsFit
<1>16. OldCallsAreStale' BY <1>1, <1>8, <1>9 DEF OldCallsAreStale
<1>17. LiveAreServed'
 <2>1. \A w \in Uses : (Resubscribing(w) => Resubscribing(w)') /\ (ToldOfStop(w) <=> ToldOfStop(w)')
     BY <1>5, <1>8, <1>9 DEF Resubscribing, ToldOfStop
 <2>2. \A w \in Uses : users'[w].state = "live" => users[w].state = "live" /\ users'[w].id = users[w].id /\ ServerId(users[w].id)' = ServerId(users[w].id)
     BY <1>4, <1>5 DEF ServerId
 <2> QED BY <2>1, <2>2, <1>1, <1>4, <1>5 DEF LiveAreServed, UserKind, Connected
<1> QED BY <1>8, <1>9, <1>10, <1>11, <1>12, <1>13, <1>14, <1>15, <1>16, <1>17 DEF ClientInv

(* The client that is refused gives up with everybody who waited for it. *)
LEMMA RefusedKeepsClient ==
    ASSUME ClientInv, refused
    PROVE  ClientInv'
<1>1. /\ ClientTypeOK /\ DroppedIsEmpty /\ ListsComeBack /\ SilentHaveNothing /\ IdsAreGivenOut /\ AskedOnce
      /\ OldCallsAreStale /\ LiveAreServed
    BY DEF ClientInv
<1>2. users \in [Uses -> UserRows] /\ retry \subseteq Uses /\ sent \subseteq Calls BY <1>1, ClientTypes DEF ClientTypeOK
<1>3. /\ link.state = "connecting" /\ link' = [link EXCEPT !.state = "failed"]
      /\ users' = [w \in Uses |-> IF users[w].state = "waiting" THEN [users[w] EXCEPT !.state = "threw"] ELSE users[w]]
    BY DEF refused
<1>4. /\ users' \in [Uses -> UserRows]
      /\ \A w \in Uses : users'[w].state = (IF users[w].state = "waiting" THEN "threw" ELSE users[w].state)
      /\ \A w \in Uses : /\ users'[w].id = users[w].id /\ users'[w].attached = users[w].attached
                         /\ users'[w].seen = users[w].seen /\ users'[w].told = users[w].told
    BY <1>2, <1>3 DEF UserRows, UserStates
<1>5. /\ clientJob' = clientJob /\ overdue' = overdue /\ resubscribeCalls' = resubscribeCalls /\ publishIds' = publishIds /\ retry' = retry
      /\ serverIds' = serverIds /\ buffers' = buffers /\ versions' = versions /\ ids' = ids
      /\ sent' = sent /\ handled' = handled /\ wire' = wire /\ onServer' = onServer
    BY DEF refused, Server, ClientTables
<1>6. link' = [state |-> "failed", before |-> link.before, drops |-> link.drops] BY <1>1, <1>3 DEF ClientTypeOK
<1>7. SilentMove BY <1>4, <1>5 DEF SilentMove, Silent
<1>8. /\ IdsAreSingle' /\ TablesAreOwned' /\ PublicationsAreKept' /\ OldIdsAreStale' /\ UnansweredAreNew' /\ SubscribedOnce' /\ StopsAreTrue'
      /\ SubscriptionsAreOwned' /\ GivenBackIsFree' /\ NewestArrives'
      /\ \A c \in Calls : Flying(c) => Fits(c)'
      /\ \A l : ServerId(l)' = ServerId(l)
      /\ \A w \in Uses : \A v : Holds(w, v)' <=> Holds(w, v)
    BY <1>2, <1>5, <1>7, SilentMoveKeeps
<1>9. (\A c : Flying(c)' <=> Flying(c)) /\ (\A i : Stale(i)' <=> Stale(i)) /\ AskedOnce' BY <1>1, <1>5, NothingSent DEF Flying
<1>10. ClientTypeOK' BY <1>1, <1>2, <1>4, <1>5, <1>6 DEF ClientTypeOK
<1>11. DroppedIsEmpty' BY <1>1, <1>3, <1>4, <1>5, <1>6 DEF DroppedIsEmpty, Connected
<1>12. ListsComeBack'
 <2>2. \A w \in retry : w \in Uses /\ users[w].state = "threw" BY <1>1, <1>2 DEF ListsComeBack
 <2>3. \A w \in retry' : UserKind(w)' = "list" /\ users'[w].state = "threw"
     BY <2>2, <1>1, <1>3, <1>4, <1>5, <1>6 DEF ListsComeBack, UserKind
 <2>4. \A w \in Uses : users'[w].state # "waiting" BY <1>4
 <2>5. \A w \in Uses : w \in DOMAIN clientJob'.kind => users'[w].state # "absent" BY <1>1, <1>4, <1>5 DEF ListsComeBack
 <2>6. \A w \in Uses : users'[w].state \in {"unwanted", "stopping", "stopped"} => UserKind(w)' # "list"
     BY <1>1, <1>4, <1>5 DEF ListsComeBack, UserKind
 <2>7. \A w \in Uses : users'[w].state = "threw" /\ UserKind(w)' = "list" /\ link'.state # "failed" => ~Connected' /\ w \in retry'
     BY <1>1, <1>3, <1>4, <1>5, <1>6 DEF ListsComeBack, UserKind, Connected
 <2> QED BY <2>3, <2>4, <2>5, <2>6, <2>7 DEF ListsComeBack
<1>13. SilentHaveNothing'
 <2>1. \A w \in Uses : Silent(w)' <=> Silent(w) BY <1>3, <1>4 DEF Silent
 <2> QED BY <2>1, <1>1, <1>3, <1>4, <1>5, <1>9 DEF SilentHaveNothing
<1>14. IdsAreGivenOut' BY <1>1, <1>5, <1>9 DEF IdsAreGivenOut
<1>15. CallsFit' BY <1>8, <1>9 DEF CallsFit
<1>16. OldCallsAreStale' BY <1>1, <1>8, <1>9 DEF OldCallsAreStale
<1>17. LiveAreServed'
 <2>1. \A w \in Uses : (Resubscribing(w) => Resubscribing(w)') /\ (ToldOfStop(w) <=> ToldOfStop(w)')
     BY <1>5, <1>8, <1>9 DEF Resubscribing, ToldOfStop
 <2>2. \A w \in Uses : users'[w].state = "live" => users[w].state = "live" /\ users'[w].id = users[w].id /\ ServerId(users[w].id)' = ServerId(users[w].id)
     BY <1>4, <1>5 DEF ServerId
 <2> QED BY <2>1, <2>2, <1>1, <1>5, <1>6 DEF LiveAreServed, UserKind, Connected
<1> QED BY <1>8, <1>9, <1>10, <1>11, <1>12, <1>13, <1>14, <1>15, <1>16, <1>17 DEF ClientInv

(* The open event asks again for what was live, and for what never came. *)
LEMMA OpenKeepsClient ==
    ASSUME ClientInv, open
    PROVE  ClientInv'
<1> DEFINE again == IF link.before THEN {Call("resubscribe", Owner(l), l) : l \in resubscribeCalls} ELSE {}
           first == {w \in Uses : users[w].state = "waiting"} \cup retry
           asked == {Call("subscribe", w, 0) : w \in first}
<1>1. /\ ClientTypeOK /\ DroppedIsEmpty /\ ListsComeBack /\ SilentHaveNothing /\ IdsAreSingle /\ IdsAreGivenOut
      /\ TablesAreOwned /\ LiveAreServed
    BY DEF ClientInv
<1>2. users \in [Uses -> UserRows] /\ retry \subseteq Uses /\ resubscribeCalls \subseteq Ids BY <1>1, ClientTypes DEF ClientTypeOK
<1>3. /\ link.state = "connecting" /\ link' = [link EXCEPT !.state = "connected", !.before = TRUE]
      /\ users' = [w \in Uses |-> IF w \in first THEN [users[w] EXCEPT !.state = "calling"]
                                  ELSE IF users[w].id \in resubscribeCalls THEN [users[w] EXCEPT !.told = FALSE] ELSE users[w]]
      /\ sent' = again \cup asked
    BY DEF open
<1>4. /\ clientJob' = clientJob /\ overdue' = overdue /\ resubscribeCalls' = resubscribeCalls /\ publishIds' = publishIds /\ retry' = {}
      /\ serverIds' = serverIds /\ buffers' = buffers /\ versions' = versions /\ ids' = ids
      /\ handled' = handled /\ wire' = wire /\ onServer' = onServer
    BY DEF open
<1>5. sent = {} /\ handled = {} /\ wire = <<>> /\ onServer = {} BY <1>1, <1>3 DEF DroppedIsEmpty, Connected
<1>6. \A w \in first : w \in Uses /\ Silent(w) /\ users[w].id = 0 BY <1>1, <1>2 DEF ListsComeBack, Silent, SilentHaveNothing
(* Who is asked for again is the owner of a live subscription. *)
<1>7. \A l \in resubscribeCalls : Owner(l) \in Uses /\ users[Owner(l)].id = l /\ Owned(Owner(l)) /\ l # 0 /\ l \in 0..MaxIds
 <2> SUFFICES ASSUME NEW l \in resubscribeCalls
              PROVE  Owner(l) \in Uses /\ users[Owner(l)].id = l /\ Owned(Owner(l)) /\ l # 0 /\ l \in 0..MaxIds
     OBVIOUS
 <2>1. PICK w \in Uses : users[w].id = l /\ Owned(w) BY <1>1 DEF TablesAreOwned
 <2>2. l \in Ids /\ l # 0 BY <1>2 DEF Ids
 <2>3. Owner(l) = w BY <2>1, <2>2, <1>1, OwnerIs
 <2> QED BY <2>1, <2>2, <2>3, ClientAssumption DEF Ids
<1>8. \A c \in asked : c \in Calls /\ c.method = "subscribe" /\ c.use \in first /\ c.id = 0 /\ Asks(c) /\ c = Call("subscribe", c.use, 0)
    BY <1>6, ClientAssumption DEF Call, Calls, Asks
<1>9. \A c \in again : /\ c \in Calls /\ c.method = "resubscribe" /\ c.id \in resubscribeCalls /\ Asks(c)
                       /\ users[c.use].id = c.id /\ Owned(c.use) /\ c.use \in Uses /\ c.id # 0 /\ c = Call("resubscribe", c.use, c.id)
    BY <1>7 DEF Call, Calls, Asks
<1>10. link.before => \A l \in resubscribeCalls : Call("resubscribe", Owner(l), l) \in again OBVIOUS
<1>11. /\ users' \in [Uses -> UserRows]
       /\ \A w \in Uses : users'[w].state = (IF w \in first THEN "calling" ELSE users[w].state)
       /\ \A w \in Uses : /\ users'[w].id = users[w].id /\ users'[w].attached = users[w].attached
                          /\ users'[w].seen = users[w].seen /\ (users[w].id \notin resubscribeCalls => users'[w].told = users[w].told)
    BY <1>2, <1>3 DEF UserRows, UserStates
<1>12. \A w \in Uses : users[w].state = "waiting" => w \in first OBVIOUS
<1>13. \A w \in retry : w \in first OBVIOUS
<1> HIDE DEF again, first, asked
<1>14. link' = [state |-> "connected", before |-> TRUE, drops |-> link.drops] BY <1>1, <1>3 DEF ClientTypeOK
<1>15. SilentMove
 <2>1. \A w \in Uses : users[w].id \in resubscribeCalls => UserKind(w) # "publication"
  <3> SUFFICES ASSUME NEW w \in Uses, users[w].id \in resubscribeCalls PROVE UserKind(w) # "publication" OBVIOUS
  <3>1. Owner(users[w].id) = w BY <1>1, <1>7, OwnerIs
  <3>2. PICK x \in Uses : users[x].id = users[w].id /\ UserKind(x) # "publication" BY <1>1 DEF TablesAreOwned
  <3>3. x = w BY <3>2, <1>1, <1>7, OwnerIs
  <3> QED BY <3>2, <3>3
 <2> QED BY <2>1, <1>4, <1>6, <1>11 DEF SilentMove
<1>16. (\A c \in sent' : c \in again \/ c \in asked) /\ (\A c \in sent' : c \in Calls /\ Asks(c)) /\ sent \subseteq sent'
    BY <1>3, <1>5, <1>8, <1>9
<1>17. /\ IdsAreSingle' /\ TablesAreOwned' /\ PublicationsAreKept' /\ OldIdsAreStale' /\ UnansweredAreNew' /\ SubscribedOnce' /\ StopsAreTrue'
       /\ SubscriptionsAreOwned' /\ GivenBackIsFree' /\ NewestArrives'
       /\ \A w \in Uses : Owned(w)' <=> Owned(w)
       /\ \A l : ServerId(l)' = ServerId(l)
       /\ \A w \in Uses : \A v : Holds(w, v)' <=> Holds(w, v)
    BY <1>15, <1>16, SilentMoveKeeps
<1>18. Msgs(wire) = {} /\ OneReplyEach(wire) BY <1>5 DEF Msgs, OneReplyEach
<1>19. (\A c : Flying(c)' <=> c \in sent') /\ (\A i : Stale(i)' <=> Stale(i)) /\ (\A i : Stale(i)')
 <2>1. \A i : Stale(i) BY <1>5 DEF Stale, NoNote, NotesOf
 <2>2. \A i : Stale(i)' <=> Stale(i) BY <1>4, NothingSent
 <2>3. \A c : Flying(c)' <=> c \in sent' BY <1>4, <1>5, <1>18 DEF Flying
 <2> QED BY <2>1, <2>2, <2>3
<1>20. ClientTypeOK' BY <1>1, <1>4, <1>11, <1>14, <1>16 DEF ClientTypeOK
<1>21. DroppedIsEmpty' BY <1>14 DEF DroppedIsEmpty, Connected
<1>22. ListsComeBack'
 <2>1. \A w \in Uses : users'[w].state # "waiting" BY <1>11, <1>12
 <2>2. \A w \in Uses : w \in DOMAIN clientJob.kind => users'[w].state # "absent" BY <1>1, <1>11 DEF ListsComeBack
 <2>3. \A w \in Uses : users'[w].state \in {"unwanted", "stopping", "stopped"} => UserKind(w)' # "list"
     BY <1>1, <1>4, <1>11 DEF ListsComeBack, UserKind
 <2>4. \A w \in Uses : users[w].state = "threw" /\ UserKind(w) = "list" => w \in retry BY <1>1, <1>3 DEF ListsComeBack
 <2>5. \A w \in Uses : ~(users'[w].state = "threw" /\ UserKind(w)' = "list") BY <2>4, <1>4, <1>11, <1>13 DEF UserKind
 <2> QED BY <2>1, <2>2, <2>3, <2>5, <1>4 DEF ListsComeBack
<1>23. SilentHaveNothing'
 <2>1. \A w \in Uses : Silent(w)' => w \notin first /\ ~Owned(w) BY <1>11 DEF Silent, Owned
 <2>2. \A w \in Uses : Silent(w)' => (\A c \in Calls : Flying(c)' => c.use # w) /\ (\A o \in onServer' : o.use # w)
     BY <2>1, <1>4, <1>5, <1>8, <1>9, <1>16, <1>19
 <2>3. \A w \in Uses : Silent(w)' \/ users'[w].state = "calling" => users'[w].id = 0 BY <1>1, <1>6, <1>11 DEF SilentHaveNothing, Silent
 <2>4. \A w \in Uses : users'[w].state \in {"live", "stopping"} => users'[w].id # 0 BY <1>1, <1>11 DEF SilentHaveNothing
 <2> QED BY <2>2, <2>3, <2>4, <1>1, <1>11 DEF SilentHaveNothing
<1>24. IdsAreGivenOut'
 <2>1. ids \in Nat /\ \A w \in Uses : users[w].id <= ids BY <1>1, ClientAssumption DEF ClientTypeOK, IdsAreSingle
 <2>2. \A c \in sent' : c.id <= ids BY <2>1, <1>8, <1>9, <1>16
 <2> QED BY <2>2, <1>4, <1>19 DEF IdsAreGivenOut
<1>25. AskedOnce'
 <2>1. ASSUME NEW c \in sent', NEW d \in sent', c.use = d.use PROVE c = d
  <3>1. CASE c \in again /\ d \in again BY <3>1, <2>1, <1>9
  <3>2. CASE c \in asked /\ d \in asked BY <3>2, <2>1, <1>8
  <3>3. \A e \in again, f \in asked : e.use # f.use BY <1>6, <1>8, <1>9 DEF Silent, Owned
  <3> QED BY <3>1, <3>2, <3>3, <2>1, <1>16
 <2> QED BY <2>1, <1>4, <1>5, <1>18 DEF AskedOnce
<1>26. CallsFit'
 <2>1. \A c \in again : Fits(c)' BY <1>4, <1>9, <1>11, <1>17 DEF Fits
 <2>2. \A c \in asked : Fits(c)' BY <1>6, <1>8, <1>11 DEF Fits
 <2> QED BY <2>1, <2>2, <1>16, <1>19 DEF CallsFit
<1>27. OldCallsAreStale' BY <1>19 DEF OldCallsAreStale
<1>28. LiveAreServed'
 <2> SUFFICES ASSUME NEW w \in Uses, users[w].state = "live", UserKind(w) # "publication"
              PROVE  \/ users[w].id \in resubscribeCalls /\ Resubscribing(w)'
                     \/ users[w].id \notin resubscribeCalls /\ ToldOfStop(w)'
  <3>1. \A w \in Uses : users'[w].state = "live" => users[w].state = "live" BY <1>11
  <3> QED BY <3>1, <1>4, <1>11 DEF LiveAreServed, UserKind
 <2>1. CASE users[w].id \in resubscribeCalls
  <3> DEFINE c == Call("resubscribe", w, users[w].id)
  <3>1. Owner(users[w].id) = w BY <2>1, <1>1, <1>7, OwnerIs
  <3>2. link.before BY <2>1, <1>1 DEF DroppedIsEmpty
  <3>3. c \in again BY <2>1, <3>1, <3>2, <1>10
  <3>4. c \in Calls /\ c.method = "resubscribe" /\ c.use = w /\ c \in sent' BY <3>3, <1>3, <1>9 DEF Call
  <3> HIDE DEF c
  <3> QED BY <3>4, <2>1, <1>19 DEF Resubscribing
 <2>2. CASE users[w].id \notin resubscribeCalls BY <2>2, <1>1, <1>4, <1>17 DEF LiveAreServed, ToldOfStop
 <2> QED BY <2>1, <2>2
<1> QED BY <1>17, <1>20, <1>21, <1>22, <1>23, <1>24, <1>25, <1>26, <1>27, <1>28 DEF ClientInv

(* A later task attaches the handlers and replays what was buffered. *)
LEMMA AttachKeepsClient ==
    ASSUME ClientInv, NEW u \in DOMAIN clientJob.kind, attach(u)
    PROVE  ClientInv'
<1> DEFINE l == users[u].id
           b == buffers[l]
<1>1. /\ ClientTypeOK /\ DroppedIsEmpty /\ AskedOnce /\ SubscribedOnce /\ StopsAreTrue /\ IdsAreSingle /\ SilentHaveNothing /\ LiveAreServed
    BY DEF ClientInv
<1>2. u \in Uses /\ users \in [Uses -> UserRows] /\ buffers \in [Ids -> Seq(Nat)] /\ l \in Ids /\ l # 0 /\ ~users[u].attached
    BY <1>1, ClientTypes DEF ClientTypeOK, attach
<1>3. b \in Seq(Nat) /\ (b # <<>> => Last(b) \in Nat) BY <1>2 DEF Last
<1>4. /\ users' = [users EXCEPT ![u].attached = TRUE, ![u].seen = IF b = <<>> THEN users[u].seen ELSE Last(b)]
      /\ buffers' = [buffers EXCEPT ![l] = <<>>]
    BY DEF attach
<1>5. /\ clientJob' = clientJob /\ overdue' = overdue /\ link' = link /\ retry' = retry /\ resubscribeCalls' = resubscribeCalls /\ publishIds' = publishIds
      /\ serverIds' = serverIds /\ versions' = versions /\ ids' = ids
      /\ sent' = sent /\ handled' = handled /\ wire' = wire /\ onServer' = onServer
    BY DEF attach, Server
<1> HIDE DEF l, b
<1>6. /\ users' \in [Uses -> UserRows]
      /\ \A w \in Uses : w # u => users'[w] = users[w]
      /\ \A w \in Uses : users'[w].id = users[w].id /\ users'[w].state = users[w].state /\ users'[w].told = users[w].told
      /\ users'[u].attached /\ users'[u].seen = (IF b = <<>> THEN users[u].seen ELSE Last(b))
    BY <1>2, <1>3, <1>4 DEF UserRows
<1>7. buffers' \in [Ids -> Seq(Nat)] /\ \A k \in Ids : k # l => buffers'[k] = buffers[k] BY <1>2, <1>4
<1>8. SameUsers /\ SameClient BY <1>5, <1>6 DEF SameUsers, SameClient
<1>9. \A w \in Uses : users[w].id = 0 => ~users'[w].attached BY <1>1, <1>2, <1>6 DEF SilentHaveNothing, l
<1>10. /\ \A c : Flying(c)' <=> Flying(c)
       /\ \A w, i : Pending(w, i)' <=> Pending(w, i)
       /\ \A i : Stale(i)' <=> Stale(i)
       /\ SubscribedOnce' /\ StopsAreTrue' /\ AskedOnce'
    BY <1>1, <1>5, NothingSent DEF Flying
<1>11. /\ ListsComeBack' /\ SilentHaveNothing' /\ IdsAreSingle' /\ IdsAreGivenOut'
       /\ UnansweredAreNew' /\ CallsFit' /\ TablesAreOwned' /\ OldCallsAreStale' /\ OldIdsAreStale'
       /\ SubscriptionsAreOwned' /\ GivenBackIsFree' /\ PublicationsAreKept'
    BY <1>5, <1>6, <1>8, <1>9, <1>10, NothingMoves
<1>12. ClientTypeOK' BY <1>1, <1>5, <1>6, <1>7 DEF ClientTypeOK
<1>13. DroppedIsEmpty' BY <1>1, <1>5, <1>6 DEF DroppedIsEmpty, Connected
(* The replay leaves every holder with what it held. *)
<1>14. \A w \in Uses : \A v : users[w].id # 0 /\ Holds(w, v) => Holds(w, v)'
 <2>1. \A v : Holds(u, v) => Holds(u, v)' BY <1>2, <1>6 DEF Holds, l, b
 <2>2. \A w \in Uses : w # u /\ users[w].id # 0 => users[w].id # l /\ users[w].id \in Ids BY <1>1, <1>2, ClientTypes DEF IdsAreSingle, l
 <2>3. \A w \in Uses : w # u => \A v : users[w].id # 0 /\ Holds(w, v) => Holds(w, v)' BY <2>2, <1>6, <1>7 DEF Holds
 <2> QED BY <2>1, <2>3
<1>15. NewestArrives'
 <2>1. \A w \in Uses : \A i : Mapped(w, i)' <=> Mapped(w, i) BY <1>1, <1>5, <1>8, UsersStay
 <2>2. \A o \in onServer' : o.use \in Uses /\ o.id \in Ids BY <1>1, <1>5, ClientTypes
 <2>3. \A o \in onServer' : Unclaimed(o.id) => buffers'[o.id] = buffers[o.id] BY <2>2, <1>2, <1>7 DEF Unclaimed, l
 <2> QED BY <2>1, <2>2, <2>3, <1>5, <1>6, <1>14, NewestStay
<1>16. LiveAreServed'
 <2>1. \A w \in Uses : (Resubscribing(w) => Resubscribing(w)') /\ (users[w].id # 0 /\ ToldOfStop(w) => ToldOfStop(w)')
     BY <1>5, <1>10, <1>14 DEF Resubscribing, ToldOfStop
 <2>2. \A w \in Uses : users[w].state = "live" => users[w].id # 0 BY <1>1 DEF SilentHaveNothing
 <2>3. \A w \in Uses : users'[w].id = users[w].id /\ ServerId(users[w].id)' = ServerId(users[w].id) BY <1>5, <1>6 DEF ServerId
 <2> QED BY <2>1, <2>2, <2>3, <1>1, <1>5, <1>6 DEF LiveAreServed, UserKind, Connected
<1> QED BY <1>10, <1>11, <1>12, <1>13, <1>15, <1>16 DEF ClientInv

(* stop() that comes before the id does: the instance will be given one yet. *)
LEMMA StopEarlyKeepsClient ==
    ASSUME ClientInv, NEW u \in DOMAIN clientJob.kind, stopEarly(u)
    PROVE  ClientInv'
<1>1. /\ ClientTypeOK /\ DroppedIsEmpty /\ ListsComeBack /\ SilentHaveNothing /\ IdsAreSingle /\ IdsAreGivenOut /\ AskedOnce /\ SubscribedOnce
      /\ UnansweredAreNew /\ StopsAreTrue /\ CallsFit /\ TablesAreOwned /\ OldCallsAreStale /\ OldIdsAreStale
      /\ SubscriptionsAreOwned /\ GivenBackIsFree /\ LiveAreServed /\ PublicationsAreKept
    BY DEF ClientInv
<1>2. u \in Uses /\ users \in [Uses -> UserRows] BY <1>1, ClientTypes DEF ClientTypeOK
<1>3. users[u].state = "calling" /\ UserKind(u) = "watched" /\ users' = [users EXCEPT ![u].state = "unwanted"] BY DEF stopEarly
<1>4. /\ users' \in [Uses -> UserRows] /\ users'[u].state = "unwanted"
      /\ \A w \in Uses : w # u => users'[w].state = users[w].state
      /\ \A w \in Uses : /\ users'[w].id = users[w].id /\ users'[w].attached = users[w].attached
                         /\ users'[w].seen = users[w].seen /\ users'[w].told = users[w].told
    BY <1>2, <1>3 DEF UserRows, UserStates
<1>5. /\ clientJob' = clientJob /\ overdue' = overdue /\ link' = link /\ resubscribeCalls' = resubscribeCalls /\ publishIds' = publishIds /\ retry' = retry
      /\ serverIds' = serverIds /\ buffers' = buffers /\ versions' = versions /\ ids' = ids
      /\ sent' = sent /\ handled' = handled /\ wire' = wire /\ onServer' = onServer
    BY DEF stopEarly, Server, ClientTables
<1>6. users[u].id = 0 BY <1>1, <1>2, <1>3 DEF SilentHaveNothing
<1>7. /\ \A c : Flying(c)' <=> Flying(c)
      /\ \A w, i : Pending(w, i)' <=> Pending(w, i)
      /\ \A i : Stale(i)' <=> Stale(i)
      /\ SubscribedOnce' /\ StopsAreTrue' /\ AskedOnce'
    BY <1>1, <1>5, NothingSent DEF Flying
<1>8. /\ \A l : ServerId(l)' = ServerId(l)
      /\ \A w \in Uses : \A i : Mapped(w, i)' <=> Mapped(w, i)
      /\ \A i : Unclaimed(i)' <=> Unclaimed(i)
      /\ \A w \in Uses : \A v : Holds(w, v)' <=> Holds(w, v)
    BY <1>4, <1>5 DEF ServerId, Mapped, Unclaimed, Holds
<1>9. /\ \A w \in Uses : Silent(w)' <=> Silent(w)
      /\ \A w \in Uses : w # u => (Owned(w)' <=> Owned(w))
      /\ ~Owned(u) /\ Owned(u)'
    BY <1>2, <1>3, <1>4 DEF Silent, Owned
<1>10. ClientTypeOK' BY <1>1, <1>4, <1>5 DEF ClientTypeOK
<1>11. DroppedIsEmpty' BY <1>1, <1>4, <1>5 DEF DroppedIsEmpty, Connected
<1>12. ListsComeBack'
 <2>1. \A w \in retry : w \in Uses /\ w # u BY <1>1, <1>3 DEF ListsComeBack, ClientTypeOK
 <2>2. \A w \in retry' : UserKind(w)' = "list" /\ users'[w].state = "threw" BY <2>1, <1>1, <1>4, <1>5 DEF ListsComeBack, UserKind
 <2>3. \A w \in Uses : users'[w].state = "waiting" => link'.state = "connecting" BY <1>1, <1>4, <1>5 DEF ListsComeBack
 <2>4. \A w \in Uses : w \in DOMAIN clientJob'.kind => users'[w].state # "absent" BY <1>1, <1>4, <1>5 DEF ListsComeBack
 <2>5. \A w \in Uses : users'[w].state \in {"unwanted", "stopping", "stopped"} => UserKind(w)' # "list"
     BY <1>1, <1>3, <1>4, <1>5 DEF ListsComeBack, UserKind
 <2>6. \A w \in Uses : users'[w].state = "threw" /\ UserKind(w)' = "list" /\ link'.state # "failed" => ~Connected' /\ w \in retry'
     BY <1>1, <1>4, <1>5 DEF ListsComeBack, UserKind, Connected
 <2> QED BY <2>2, <2>3, <2>4, <2>5, <2>6 DEF ListsComeBack
<1>13. SilentHaveNothing' BY <1>1, <1>4, <1>5, <1>6, <1>7, <1>9 DEF SilentHaveNothing
<1>14. IdsAreSingle'
 <2>0. (\A w \in Uses : users'[w].id = users[w].id) /\ serverIds' = serverIds /\ IdsAreSingle BY <1>1, <1>4, <1>5
 <2>1. (\A w \in Uses : users'[w].id <= ids') /\ (\A l \in Ids : serverIds'[l] <= ids') BY <1>1, <1>4, <1>5 DEF IdsAreSingle
 <2>2. \A l \in Ids : serverIds'[l] # 0 => \E w \in Uses : users'[w].id = l BY <2>0 DEF IdsAreSingle
 <2>3. \A w, x \in Uses : users'[w].id = users'[x].id /\ users'[w].id # 0 => w = x BY <2>0 DEF IdsAreSingle
 <2>4. \A l, k \in Ids : serverIds'[l] = serverIds'[k] /\ serverIds'[l] # 0 => l = k BY <1>1, <1>5 DEF IdsAreSingle
 <2>5. \A l \in Ids, w \in Uses : serverIds'[l] # 0 => serverIds'[l] # users'[w].id BY <2>0 DEF IdsAreSingle
 <2> QED BY <2>1, <2>2, <2>3, <2>4, <2>5 DEF IdsAreSingle
<1>15. IdsAreGivenOut' BY <1>1, <1>5, <1>7 DEF IdsAreGivenOut
<1>16. UnansweredAreNew' BY <1>1, <1>5, <1>7, <1>8 DEF UnansweredAreNew
<1>17. CallsFit'
 <2> SUFFICES ASSUME NEW c \in Calls, Flying(c) PROVE Fits(c)' BY <1>7 DEF CallsFit
 <2>1. Fits(c) /\ c.use \in Uses BY <1>1 DEF CallsFit, Calls
 <2>2. CASE c.use = u BY <2>1, <2>2, <1>3, <1>4, <1>5, <1>9 DEF Fits
 <2>3. CASE c.use # u BY <2>1, <2>3, <1>4, <1>5, <1>9 DEF Fits
 <2> QED BY <2>2, <2>3
<1>18. TablesAreOwned'
 <2>1. \A w \in Uses : Owned(w) => Owned(w)' BY <1>9
 <2>2. \A l \in resubscribeCalls : \E w \in Uses : users'[w].id = l /\ Owned(w)' /\ UserKind(w)' # "publication"
  <3> SUFFICES ASSUME NEW l \in resubscribeCalls PROVE \E w \in Uses : users'[w].id = l /\ Owned(w)' /\ UserKind(w)' # "publication" OBVIOUS
  <3>1. PICK w \in Uses : users[w].id = l /\ Owned(w) /\ UserKind(w) # "publication" BY <1>1 DEF TablesAreOwned
  <3> QED BY <3>1, <2>1, <1>4, <1>5 DEF UserKind
 <2>3. \A l \in publishIds : \E w \in Uses : users'[w].id = l /\ Owned(w)' /\ UserKind(w)' = "publication"
  <3> SUFFICES ASSUME NEW l \in publishIds PROVE \E w \in Uses : users'[w].id = l /\ Owned(w)' /\ UserKind(w)' = "publication" OBVIOUS
  <3>1. PICK w \in Uses : users[w].id = l /\ Owned(w) /\ UserKind(w) = "publication" BY <1>1 DEF TablesAreOwned
  <3> QED BY <3>1, <2>1, <1>4, <1>5 DEF UserKind
 <2>4. \A w \in Uses : users'[w].id # 0 /\ UserKind(w)' = "publication" => serverIds'[users'[w].id] = 0
     BY <1>1, <1>4, <1>5 DEF TablesAreOwned, UserKind
 <2> QED BY <1>1, <2>2, <2>3, <2>4, <1>5 DEF TablesAreOwned
<1>19. OldCallsAreStale' BY <1>1, <1>7, <1>8 DEF OldCallsAreStale
<1>20. OldIdsAreStale'
 <2>1. ASSUME NEW w \in Uses, users[w].id # 0, users[w].state # "stopping", users[w].id \notin resubscribeCalls \cup publishIds
       PROVE  Stale(users[w].id)' /\ Stale(ServerId(users[w].id))'
  <3>1. Stale(users[w].id) /\ Stale(ServerId(users[w].id)) BY <2>1, <1>1 DEF OldIdsAreStale
  <3>2. users'[w].id = users[w].id /\ ServerId(users[w].id)' = ServerId(users[w].id) BY <1>4, <1>5 DEF ServerId
  <3> QED BY <3>1, <3>2, <1>5 DEF Stale
 <2> QED BY <2>1, <1>1, <1>4, <1>5, <1>6, <1>7 DEF OldIdsAreStale
<1>21. SubscriptionsAreOwned'
 <2> SUFFICES ASSUME NEW o \in onServer
              PROVE  \/ Pending(o.use, o.id)
                     \/ Mapped(o.use, o.id) /\ Owned(o.use)'
                     \/ Call("unsubscribe", o.use, o.id) \in sent /\ ~Owned(o.use)'
                     \/ TooLate(o)'
  <3>1. \A o \in onServer : o.use \in Uses BY <1>1, ClientTypes
  <3> QED BY <3>1, <1>5, <1>7, <1>8 DEF SubscriptionsAreOwned, Call
 <2>1. o.use \in Uses BY <1>1, ClientTypes
 <2>2. Call("unsubscribe", o.use, o.id) \in sent => o.use # u BY <1>1, <1>3 DEF GivenBackIsFree, Call, Asks
 <2>3. \A i : Unclaimed(i)' <=> Unclaimed(i) BY <1>4, <1>5 DEF Unclaimed
 <2> QED BY <2>1, <2>2, <2>3, <1>1, <1>5, <1>9 DEF SubscriptionsAreOwned, TooLate
<1>22. GivenBackIsFree'
 <2> SUFFICES ASSUME NEW c \in sent, ~Asks(c)
              PROVE  /\ c.id # 0 /\ users'[c.use].state \in {"stopping", "stopped"}
                     /\ \A w \in Uses : ~Pending(w, c.id)
                     /\ \A w \in Uses : Owned(w)' => ~Mapped(w, c.id)
     BY <1>5, <1>7, <1>8 DEF GivenBackIsFree
 <2>1. c.use \in Uses BY <1>1, ClientTypes
 <2>2. c.id # 0 /\ users[c.use].state \in {"stopping", "stopped"} /\ (\A w \in Uses : ~Pending(w, c.id)) /\ (\A w \in Uses : Owned(w) => ~Mapped(w, c.id))
     BY <1>1 DEF GivenBackIsFree
 <2>3. ~Mapped(u, c.id) BY <1>6 DEF Mapped
 <2> QED BY <2>1, <2>2, <2>3, <1>3, <1>4, <1>9
<1>23. NewestArrives'
 <2> DEFINE W == Uses \ {u}
 <2>1. \A o \in onServer' : users'[o.use].state \in {"calling", "live"} => o.use \in W BY <1>1, <1>4, <1>5, ClientTypes
 <2>2. W \in SUBSET Uses /\ \A w \in W : users'[w].state = users[w].state BY <1>4
 <2>3. (\A w \in W : \A i : Mapped(w, i)' <=> Mapped(w, i)) /\ (\A w \in W : \A v : users[w].id # 0 /\ Holds(w, v) => Holds(w, v)') BY <1>8
 <2> HIDE DEF W
 <2> QED BY <2>1, <2>2, <2>3, <1>5, NewestStay
<1>24. LiveAreServed'
 <2>1. \A w \in Uses : (Resubscribing(w) => Resubscribing(w)') /\ (ToldOfStop(w) <=> ToldOfStop(w)')
     BY <1>5, <1>7, <1>8 DEF Resubscribing, ToldOfStop
 <2>2. \A w \in Uses : users'[w].state = "live" => users[w].state = "live" /\ users'[w].id = users[w].id /\ ServerId(users[w].id)' = ServerId(users[w].id)
     BY <1>4, <1>5 DEF ServerId
 <2> QED BY <2>1, <2>2, <1>1, <1>4, <1>5 DEF LiveAreServed, UserKind, Connected
<1>25. PublicationsAreKept' BY <1>1, <1>4, <1>5 DEF PublicationsAreKept, PublicationIsTold, UserKind
<1> QED
    BY <1>7, <1>10, <1>11, <1>12, <1>13, <1>14, <1>15, <1>16, <1>17, <1>18, <1>19, <1>20, <1>21, <1>22, <1>23, <1>24, <1>25 DEF ClientInv

(* The close event: what was on the connection is gone, and who had a call *)
(* or a publication on it is told. *)
LEMMA DropKeepsClient ==
    ASSUME ClientInv, drop
    PROVE  ClientInv'
<1> DEFINE threw == {w \in Uses : users[w].state = "calling"}
<1>1. /\ ClientTypeOK /\ DroppedIsEmpty /\ ListsComeBack /\ SilentHaveNothing /\ IdsAreSingle
      /\ TablesAreOwned /\ LiveAreServed /\ PublicationsAreKept
    BY DEF ClientInv
<1>2. users \in [Uses -> UserRows] /\ retry \subseteq Uses /\ publishIds \subseteq Ids /\ ids \in Nat
    BY <1>1, ClientAssumption DEF ClientTypeOK
<1>3. /\ link.state = "connected" /\ link' = [link EXCEPT !.state = "connecting", !.drops = @ + 1]
      /\ users' = [w \in Uses |->
                 IF w \in threw THEN [users[w] EXCEPT !.state = "threw"]
                 ELSE IF users[w].state = "stopping" THEN [users[w] EXCEPT !.state = "stopped"]
                 ELSE IF w \in LostPublications THEN [users[w] EXCEPT !.told = TRUE]
                 ELSE users[w]]
      /\ retry' = retry \cup {w \in threw : UserKind(w) = "list"}
      /\ publishIds' = publishIds \ {users[w].id : w \in LostPublications}
    BY DEF drop, Connected, Retried
<1>4. /\ sent' = {} /\ handled' = {} /\ wire' = <<>> /\ onServer' = {}
      /\ clientJob' = clientJob /\ resubscribeCalls' = resubscribeCalls /\ serverIds' = serverIds /\ buffers' = buffers
      /\ versions' = versions /\ ids' = ids
    BY DEF drop
<1>5. /\ users' \in [Uses -> UserRows]
      /\ \A w \in Uses : users'[w].state = (IF users[w].state = "calling" THEN "threw" ELSE IF users[w].state = "stopping" THEN "stopped" ELSE users[w].state)
      /\ \A w \in Uses : users'[w].id = users[w].id /\ users'[w].attached = users[w].attached /\ users'[w].seen = users[w].seen
      /\ \A w \in Uses : users[w].state = "live" /\ users[w].id \in publishIds => users'[w].told
      /\ \A w \in Uses : users[w].told => users'[w].told
 <2>2. ASSUME NEW w \in Uses
       PROVE  /\ users'[w] \in UserRows
              /\ users'[w].state = (IF users[w].state = "calling" THEN "threw" ELSE IF users[w].state = "stopping" THEN "stopped" ELSE users[w].state)
              /\ users'[w].id = users[w].id /\ users'[w].attached = users[w].attached /\ users'[w].seen = users[w].seen
              /\ users[w].state = "live" /\ users[w].id \in publishIds => users'[w].told
              /\ users[w].told => users'[w].told
   BY <1>2, <1>3 DEF UserRows, UserStates, LostPublications
 <2> QED BY <2>2, <1>3
<1>6. \A w \in Uses : w \in threw <=> users[w].state = "calling" OBVIOUS
<1>7. link' = [state |-> "connecting", before |-> link.before, drops |-> link.drops + 1] BY <1>1, <1>3 DEF ClientTypeOK
<1>8. publishIds' = {}
 <2>1. \A l \in publishIds : l \in {users[w].id : w \in LostPublications} BY <1>1 DEF TablesAreOwned, LostPublications
 <2> QED BY <2>1, <1>3
<1> HIDE DEF threw
<1>9. Msgs(wire') = {} /\ OneReplyEach(wire') BY <1>4 DEF Msgs, OneReplyEach
<1>10. /\ \A c : ~Flying(c)'
       /\ \A w, i : ~Pending(w, i)'
       /\ \A i : Stale(i)'
    BY <1>4, <1>9 DEF Flying, Pending, Stale, NoNote, NotesOf
<1>11. /\ \A w \in Uses : Owned(w)' <=> Owned(w)
       /\ \A l : ServerId(l)' = ServerId(l)
       /\ \A w \in Uses : \A v : Holds(w, v)' <=> Holds(w, v)
    BY <1>4, <1>5 DEF Owned, ServerId, Holds
<1>12. ClientTypeOK'
 <2>1. retry' \in SUBSET Uses
  <3>1. threw \subseteq Uses BY DEF threw
  <3> QED BY <3>1, <1>2, <1>3
 <2>2. link'.state = "connecting" /\ link' = [state |-> link'.state, before |-> link'.before, drops |-> link'.drops] BY <1>7
 <2>3. wire' \in Seq(NoteRows \cup AnswerRows) /\ sent' \in SUBSET Calls /\ handled' \in SUBSET [call : Calls, id : Ids]
       /\ onServer' \in SUBSET [use : Uses, id : Ids] /\ publishIds' \in SUBSET Ids
     BY <1>4, <1>8
 <2>4. clientJob' \in ClientWorkload /\ resubscribeCalls' \in SUBSET Ids /\ serverIds' \in [Ids -> 0..MaxIds]
       /\ buffers' \in [Ids -> Seq(Nat)] /\ versions' \in [Uses -> Nat] /\ ids' \in 0..MaxIds
     BY <1>1, <1>4 DEF ClientTypeOK
 <2> QED BY <2>1, <2>2, <2>3, <2>4, <1>5 DEF ClientTypeOK
<1>13. DroppedIsEmpty' BY <1>1, <1>3, <1>4, <1>7 DEF DroppedIsEmpty, Connected
<1>14. ListsComeBack'
 <2>1. \A w \in retry : w \in Uses /\ users[w].state = "threw" BY <1>1, <1>2 DEF ListsComeBack
 <2>2. \A w \in retry' : UserKind(w)' = "list" /\ users'[w].state = "threw"
  <3>1. \A w \in retry : UserKind(w)' = "list" /\ users'[w].state = "threw" BY <2>1, <1>1, <1>4, <1>5 DEF ListsComeBack, UserKind
  <3>2. \A w \in threw : users'[w].state = "threw" BY <1>5 DEF threw
  <3> QED BY <3>1, <3>2, <1>3, <1>4 DEF UserKind
 <2>3. \A w \in Uses : users'[w].state = "waiting" => link'.state = "connecting" BY <1>7
 <2>4. \A w \in Uses : w \in DOMAIN clientJob'.kind => users'[w].state # "absent" BY <1>1, <1>4, <1>5 DEF ListsComeBack
 <2>5. \A w \in Uses : users'[w].state \in {"unwanted", "stopping", "stopped"} => UserKind(w)' # "list"
     BY <1>1, <1>4, <1>5 DEF ListsComeBack, UserKind
 <2>6. \A w \in Uses : users'[w].state = "threw" /\ UserKind(w)' = "list" /\ link'.state # "failed" => ~Connected' /\ w \in retry'
  <3>1. \A w \in Uses : ~(users[w].state = "threw" /\ UserKind(w) = "list") BY <1>1, <1>3 DEF ListsComeBack, Connected
  <3>2. \A w \in Uses : users'[w].state = "threw" /\ UserKind(w) = "list" => w \in threw BY <3>1, <1>5, <1>6
  <3>3. \A w \in Uses : w \in threw /\ UserKind(w) = "list" => w \in retry' BY <1>3
  <3>4. ~Connected' BY <1>7 DEF Connected
  <3> QED BY <3>2, <3>3, <3>4, <1>4 DEF UserKind
 <2> QED BY <2>2, <2>3, <2>4, <2>5, <2>6 DEF ListsComeBack
<1>15. SilentHaveNothing' BY <1>1, <1>4, <1>5, <1>10 DEF SilentHaveNothing, Silent
<1>16. IdsAreSingle' BY <1>1, <1>4, <1>5 DEF IdsAreSingle
<1>17. IdsAreGivenOut' /\ UnansweredAreNew' /\ CallsFit' /\ OldCallsAreStale' /\ OldIdsAreStale'
    BY <1>10 DEF IdsAreGivenOut, UnansweredAreNew, CallsFit, OldCallsAreStale, OldIdsAreStale
<1>18. AskedOnce' /\ SubscribedOnce' /\ StopsAreTrue' /\ SubscriptionsAreOwned' /\ GivenBackIsFree' /\ NewestArrives'
    BY <1>4, <1>9 DEF AskedOnce, SubscribedOnce, StopsAreTrue, SubscriptionsAreOwned, GivenBackIsFree, NewestArrives
<1>19. TablesAreOwned'
 <2>1. \A l \in resubscribeCalls : \E w \in Uses : users'[w].id = l /\ Owned(w)' /\ UserKind(w)' # "publication"
  <3> SUFFICES ASSUME NEW l \in resubscribeCalls PROVE \E w \in Uses : users'[w].id = l /\ Owned(w)' /\ UserKind(w)' # "publication" OBVIOUS
  <3>1. PICK w \in Uses : users[w].id = l /\ Owned(w) /\ UserKind(w) # "publication" BY <1>1 DEF TablesAreOwned
  <3> QED BY <3>1, <1>11, <1>4, <1>5 DEF UserKind
 <2>2. \A w \in Uses : users'[w].id # 0 /\ UserKind(w)' = "publication" => serverIds'[users'[w].id] = 0
     BY <1>1, <1>4, <1>5 DEF TablesAreOwned, UserKind
 <2> QED BY <2>1, <2>2, <1>4, <1>8 DEF TablesAreOwned
<1>20. LiveAreServed'
 <2>1. \A w \in Uses : users'[w].state = "live" => users[w].state = "live" /\ users'[w].id = users[w].id BY <1>5
 <2>2. \A w \in Uses : ToldOfStop(w)' <=> ToldOfStop(w) BY <1>4, <1>11 DEF ToldOfStop
 <2> QED BY <2>1, <2>2, <1>1, <1>4, <1>7 DEF LiveAreServed, UserKind, Connected
<1>21. PublicationsAreKept'
 <2>1. \A w \in Uses : users'[w].state = "live" => users[w].state = "live" BY <1>5
 <2>2. \A w \in Uses : users'[w].state = "live" /\ UserKind(w)' = "publication" => users'[w].told
     BY <2>1, <1>1, <1>2, <1>4, <1>5 DEF PublicationsAreKept, UserKind, UserRows
 <2> QED BY <2>2 DEF PublicationsAreKept, PublicationIsTold
<1> QED BY <1>12, <1>13, <1>14, <1>15, <1>16, <1>17, <1>18, <1>19, <1>20, <1>21 DEF ClientInv

(* The answer says what the subscription is, and is the only one to say it. *)
LEMMA AnswerKeepsClient ==
    ASSUME ClientInv, NEW h \in handled, serverAnswers(h)
    PROVE  ClientInv'
<1> DEFINE a == Answer(h.call, h.id)
<1>1. /\ ClientTypeOK /\ DroppedIsEmpty /\ AskedOnce /\ SubscribedOnce /\ StopsAreTrue /\ SilentHaveNothing /\ LiveAreServed
    BY DEF ClientInv
<1>2. /\ handled' = handled \ {h} /\ wire' = Append(wire, a)
      /\ clientJob' = clientJob /\ overdue' = overdue /\ link' = link /\ users' = users /\ resubscribeCalls' = resubscribeCalls /\ publishIds' = publishIds
      /\ serverIds' = serverIds /\ buffers' = buffers /\ retry' = retry /\ sent' = sent /\ onServer' = onServer
      /\ versions' = versions /\ ids' = ids
    BY DEF serverAnswers, ClientTables
<1>3. h.id \in Ids /\ h.call \in Calls /\ h.call.use \in Uses /\ Asks(h.call) /\ Ids \subseteq 0..MaxIds /\ h.id # 0
    BY <1>1, ClientTypes, ClientConstants DEF AskedOnce, Ids
<1>4. a.type = "answer" /\ a.id = h.id /\ a.call = h.call /\ IsReply(a) /\ a \in NoteRows \cup AnswerRows
    BY <1>3 DEF Answer, IsReply, AnswerRows
<1> HIDE DEF a
<1>5. /\ wire' \in Seq(NoteRows \cup AnswerRows) /\ wire' # <<>> /\ Msgs(wire') = Msgs(wire) \cup {a}
      /\ OneReplyEach(wire) /\ (\A m \in Msgs(wire) : IsReply(m) => m.call.use # h.call.use) => OneReplyEach(wire')
      /\ \A i : NoNote(wire, i) => NoNote(wire', i)
      /\ \A i, v : TellsLast(wire, i, v) => TellsLast(wire', i, v)
 <2> DEFINE S == NoteRows \cup AnswerRows
 <2>1. wire \in Seq(S) /\ a \in S BY <1>1, <1>4 DEF ClientTypeOK
 <2> HIDE DEF S
 <2>2. /\ Append(wire, a) \in Seq(S) /\ Append(wire, a) # <<>> /\ Msgs(Append(wire, a)) = Msgs(wire) \cup {a}
       /\ OneReplyEach(wire) /\ (IsReply(a) => \A m \in Msgs(wire) : IsReply(m) => m.call.use # a.call.use) => OneReplyEach(Append(wire, a))
       /\ \A i : ~(a.type = "note" /\ a.id = i) => /\ NoNote(wire, i) => NoNote(Append(wire, a), i)
                                                  /\ \A v : TellsLast(wire, i, v) => TellsLast(Append(wire, a), i, v)
     BY <2>1, WireGrows
 <2>3. a.type # "note" BY <1>4
 <2>4. Append(wire, a) \in Seq(NoteRows \cup AnswerRows) BY <2>2 DEF S
 <2> QED BY <2>2, <2>3, <2>4, <1>2, <1>4
<1>6. /\ \A c : Flying(c)' <=> Flying(c)
      /\ \A w, i : Pending(w, i)' <=> Pending(w, i)
      /\ \A i : Stale(i) => Stale(i)'
    BY <1>2, <1>4, <1>5 DEF Flying, Pending, Stale
<1>7. SameUsers /\ SameClient BY <1>2 DEF SameUsers, SameClient
<1>8. (\A w \in Uses : users[w].id = 0 => ~users'[w].attached) /\ (\A w \in Uses : users'[w].told = users[w].told)
    BY <1>1, <1>2 DEF SilentHaveNothing
<1>9. /\ ListsComeBack' /\ SilentHaveNothing' /\ IdsAreSingle' /\ IdsAreGivenOut'
      /\ UnansweredAreNew' /\ CallsFit' /\ TablesAreOwned' /\ OldCallsAreStale' /\ OldIdsAreStale'
      /\ SubscriptionsAreOwned' /\ GivenBackIsFree' /\ PublicationsAreKept'
    BY <1>2, <1>6, <1>7, <1>8, NothingMoves
<1>10. ClientTypeOK' BY <1>1, <1>2, <1>5 DEF ClientTypeOK
<1>11. DroppedIsEmpty' BY <1>1, <1>2 DEF DroppedIsEmpty, Connected
<1>12. AskedOnce'
 <2>1. \A m \in Msgs(wire) : IsReply(m) => m.call.use # h.call.use BY <1>1 DEF AskedOnce
 <2>2. \A c \in sent, m \in Msgs(wire') : Asks(c) /\ IsReply(m) => m.call.use # c.use BY <1>1, <1>4, <1>5 DEF AskedOnce
 <2>3. \A k \in handled', m \in Msgs(wire') : IsReply(m) => m.call.use # k.call.use BY <1>1, <1>2, <1>4, <1>5 DEF AskedOnce
 <2> QED BY <2>1, <2>2, <2>3, <1>1, <1>2, <1>5 DEF AskedOnce
<1>13. SubscribedOnce' /\ StopsAreTrue' BY <1>1, <1>2, <1>3, <1>4, <1>5 DEF SubscribedOnce, StopsAreTrue
<1>14. (\A w \in Uses : \A i : Mapped(w, i)' <=> Mapped(w, i)) /\ (\A w \in Uses : \A v : Holds(w, v)' <=> Holds(w, v))
    BY <1>2 DEF Mapped, ServerId, Holds
<1>15. NewestArrives'
 <2>1. \A o \in onServer' : o.use \in Uses BY <1>1, <1>2, ClientTypes
 <2> QED BY <2>1, <1>2, <1>5, <1>14, NewestStay
<1>16. LiveAreServed'
 <2>1. \A w \in Uses : (Resubscribing(w) => Resubscribing(w)') /\ (ToldOfStop(w) => ToldOfStop(w)')
     BY <1>2, <1>6, <1>14 DEF Resubscribing, ToldOfStop
 <2> QED BY <2>1, <1>1, <1>2 DEF LiveAreServed, UserKind, Connected, ServerId
<1> QED BY <1>9, <1>10, <1>11, <1>12, <1>13, <1>15, <1>16 DEF ClientInv

(* What is given back is nobody's any more. *)
LEMMA GiveBackKeepsClient ==
    ASSUME ClientInv, NEW c \in sent, serverUnsubscribes(c)
    PROVE  ClientInv'
<1> DEFINE a == Answer(c, 0)
<1>1. /\ ClientTypeOK /\ DroppedIsEmpty /\ AskedOnce /\ SubscribedOnce /\ StopsAreTrue /\ SilentHaveNothing /\ LiveAreServed
      /\ ListsComeBack /\ IdsAreSingle /\ IdsAreGivenOut /\ UnansweredAreNew /\ CallsFit /\ TablesAreOwned /\ OldCallsAreStale
      /\ OldIdsAreStale /\ SubscriptionsAreOwned /\ GivenBackIsFree /\ PublicationsAreKept
    BY DEF ClientInv
<1>2. /\ c.method = "unsubscribe" /\ sent' = sent \ {c} /\ wire' = Append(wire, a) /\ onServer' = {o \in onServer : o.id # c.id}
      /\ clientJob' = clientJob /\ overdue' = overdue /\ link' = link /\ users' = users /\ resubscribeCalls' = resubscribeCalls /\ publishIds' = publishIds
      /\ serverIds' = serverIds /\ buffers' = buffers /\ retry' = retry /\ handled' = handled
      /\ versions' = versions /\ ids' = ids
    BY DEF serverUnsubscribes, ClientTables
<1>3. c \in Calls /\ c.use \in Uses /\ c.id \in 0..MaxIds /\ ~Asks(c) /\ 0 \in 0..MaxIds
    BY <1>1, <1>2, ClientTypes, ClientConstants DEF Asks
<1>4. a.type = "answer" /\ a.id = 0 /\ a.call = c /\ ~IsReply(a) /\ a \in NoteRows \cup AnswerRows BY <1>3 DEF Answer, IsReply, AnswerRows
<1> HIDE DEF a
<1>5. /\ wire' \in Seq(NoteRows \cup AnswerRows) /\ wire' # <<>> /\ Msgs(wire') = Msgs(wire) \cup {a}
      /\ OneReplyEach(wire) => OneReplyEach(wire')
      /\ \A i : NoNote(wire, i) => NoNote(wire', i)
      /\ \A i, v : TellsLast(wire, i, v) => TellsLast(wire', i, v)
 <2> DEFINE S == NoteRows \cup AnswerRows
 <2>1. wire \in Seq(S) /\ a \in S BY <1>1, <1>4 DEF ClientTypeOK
 <2> HIDE DEF S
 <2>2. /\ Append(wire, a) \in Seq(S) /\ Append(wire, a) # <<>> /\ Msgs(Append(wire, a)) = Msgs(wire) \cup {a}
       /\ OneReplyEach(wire) /\ (IsReply(a) => \A m \in Msgs(wire) : IsReply(m) => m.call.use # a.call.use) => OneReplyEach(Append(wire, a))
       /\ \A i : ~(a.type = "note" /\ a.id = i) => /\ NoNote(wire, i) => NoNote(Append(wire, a), i)
                                                  /\ \A v : TellsLast(wire, i, v) => TellsLast(Append(wire, a), i, v)
     BY <2>1, WireGrows
 <2>3. a.type # "note" BY <1>4
 <2>4. Append(wire, a) \in Seq(NoteRows \cup AnswerRows) BY <2>2 DEF S
 <2> QED BY <2>2, <2>3, <2>4, <1>2, <1>4
<1>6. /\ \A d : Flying(d)' <=> Flying(d)
      /\ \A w, i : Pending(w, i)' <=> Pending(w, i)
      /\ \A i : Stale(i) => Stale(i)'
    BY <1>2, <1>4, <1>5 DEF Flying, Pending, Stale
<1>7. /\ \A w \in Uses : (Silent(w)' <=> Silent(w)) /\ (Owned(w)' <=> Owned(w))
      /\ \A w \in Uses : \A i : Mapped(w, i)' <=> Mapped(w, i)
      /\ \A i : Unclaimed(i)' <=> Unclaimed(i)
      /\ \A l : ServerId(l)' = ServerId(l)
      /\ \A d \in Calls : Fits(d) => Fits(d)'
      /\ SameUsers /\ SameClient
    BY <1>1, <1>2, UsersStay DEF SameUsers, SameClient
<1>8. /\ c.id # 0 /\ users[c.use].state \in {"stopping", "stopped"} /\ (\A w \in Uses : ~Pending(w, c.id))
      /\ \A w \in Uses : Owned(w) => ~Mapped(w, c.id)
    BY <1>1, <1>3 DEF GivenBackIsFree
<1>9. ids \in Nat /\ ids' >= ids /\ onServer' \subseteq onServer /\ (\A d \in sent' : d \in sent)
    BY <1>1, <1>2, ClientConstants DEF ClientTypeOK
<1>10. ListsComeBack' /\ IdsAreSingle' /\ TablesAreOwned' BY <1>1, <1>2, <1>7, <1>9, TablesStay
<1>11. ClientTypeOK' BY <1>1, <1>2, <1>5 DEF ClientTypeOK
<1>12. DroppedIsEmpty' BY <1>1, <1>2 DEF DroppedIsEmpty, Connected
<1>13. SilentHaveNothing' BY <1>1, <1>2, <1>6, <1>7, <1>9 DEF SilentHaveNothing
<1>14. IdsAreGivenOut' BY <1>1, <1>2, <1>6 DEF IdsAreGivenOut
<1>15. AskedOnce'
 <2>1. \A m \in Msgs(wire') : IsReply(m) => m \in Msgs(wire) BY <1>4, <1>5
 <2> QED BY <2>1, <1>1, <1>2, <1>5, <1>9 DEF AskedOnce
<1>16. SubscribedOnce' /\ StopsAreTrue'
 <2>1. \A m \in Msgs(wire') : IsReply(m) => m \in Msgs(wire) BY <1>4, <1>5
 <2> QED BY <2>1, <1>1, <1>2, <1>9 DEF SubscribedOnce, StopsAreTrue
<1>17. UnansweredAreNew'
 <2> SUFFICES ASSUME NEW w \in Uses, NEW i \in Ids, Pending(w, i)
              PROVE  [use |-> w, id |-> i] \in onServer' /\ Unclaimed(i)'
     BY <1>6 DEF UnansweredAreNew
 <2>1. [use |-> w, id |-> i] \in onServer /\ Unclaimed(i) /\ i # c.id BY <1>1, <1>8 DEF UnansweredAreNew
 <2> QED BY <2>1, <1>2, <1>7
<1>18. CallsFit' /\ OldCallsAreStale' BY <1>1, <1>6, <1>7 DEF CallsFit, OldCallsAreStale
<1>19. OldIdsAreStale' BY <1>1, <1>2, <1>6, <1>7 DEF OldIdsAreStale
<1>20. SubscriptionsAreOwned'
 <2> SUFFICES ASSUME NEW o \in onServer, o.id # c.id
              PROVE  \/ Pending(o.use, o.id)'
                     \/ Mapped(o.use, o.id)' /\ Owned(o.use)'
                     \/ Call("unsubscribe", o.use, o.id) \in sent' /\ ~Owned(o.use)'
                     \/ TooLate(o)'
     BY <1>2 DEF SubscriptionsAreOwned, Call
 <2>1. o.use \in Uses BY <1>1, ClientTypes
 <2>2. Call("unsubscribe", o.use, o.id) # c BY DEF Call
 <2> QED BY <2>1, <2>2, <1>1, <1>2, <1>6, <1>7 DEF SubscriptionsAreOwned, TooLate
<1>21. GivenBackIsFree'
 <2> SUFFICES ASSUME NEW d \in sent, ~Asks(d)
              PROVE  /\ d.id # 0 /\ users'[d.use].state \in {"stopping", "stopped"}
                     /\ \A w \in Uses : ~Pending(w, d.id)'
                     /\ \A w \in Uses : Owned(w)' => ~Mapped(w, d.id)'
     BY <1>9 DEF GivenBackIsFree
 <2>1. d.id # 0 /\ users[d.use].state \in {"stopping", "stopped"} /\ (\A w \in Uses : ~Pending(w, d.id)) /\ (\A w \in Uses : Owned(w) => ~Mapped(w, d.id))
     BY <1>1 DEF GivenBackIsFree
 <2> QED BY <2>1, <1>2, <1>6, <1>7
<1>22. \A w \in Uses : \A v : Holds(w, v)' <=> Holds(w, v) BY <1>2 DEF Holds
<1>23. NewestArrives'
 <2>1. \A o \in onServer' : o.use \in Uses BY <1>1, <1>9, ClientTypes
 <2> QED BY <2>1, <1>2, <1>5, <1>7, <1>9, <1>22, NewestStay
<1>24. LiveAreServed'
 <2>1. \A w \in Uses : (Resubscribing(w) => Resubscribing(w)') /\ (ToldOfStop(w) => ToldOfStop(w)')
     BY <1>2, <1>6, <1>22 DEF Resubscribing, ToldOfStop
 <2>2. ASSUME NEW w \in Uses, users[w].state = "live", [use |-> w, id |-> ServerId(users[w].id)] \in onServer
       PROVE  [use |-> w, id |-> ServerId(users[w].id)] \in onServer'
  <3>1. Owned(w) /\ Mapped(w, ServerId(users[w].id)) BY <2>2, <1>1 DEF Owned, Mapped, SilentHaveNothing
  <3>2. ServerId(users[w].id) # c.id BY <3>1, <1>8
  <3> QED BY <2>2, <3>2, <1>2
 <2>3. \A w \in Uses : ServerId(users[w].id)' = ServerId(users[w].id) BY <1>2 DEF ServerId
 <2> QED BY <2>1, <2>2, <2>3, <1>1, <1>2 DEF LiveAreServed, UserKind, Connected
<1>25. PublicationsAreKept'
 <2> SUFFICES ASSUME NEW w \in Uses, users[w].state = "live", UserKind(w) = "publication", ~users[w].told
              PROVE  [use |-> w, id |-> users[w].id] \in onServer' /\ users[w].id \in publishIds
     BY <1>2 DEF PublicationsAreKept, PublicationIsTold, UserKind
 <2>1. [use |-> w, id |-> users[w].id] \in onServer /\ users[w].id \in publishIds BY <1>1 DEF PublicationsAreKept, PublicationIsTold
 <2>2. users[w].id # 0 /\ serverIds[users[w].id] = 0 BY <1>1 DEF SilentHaveNothing, TablesAreOwned
 <2>3. Owned(w) /\ Mapped(w, users[w].id) BY <2>2 DEF Owned, Mapped, ServerId
 <2>4. users[w].id # c.id BY <2>3, <1>8
 <2> QED BY <2>1, <2>4, <1>2
<1> QED BY <1>10, <1>11, <1>12, <1>13, <1>14, <1>15, <1>16, <1>17, <1>18, <1>19, <1>20, <1>21, <1>23, <1>24, <1>25 DEF ClientInv

(* A resubscription to what was stopped is answered so. *)
LEMMA NotRunningAnswerKeepsClient ==
    ASSUME ClientInv, NEW c \in sent, serverSubscribes(c), wire' = Append(wire, Answer(c, 0)), handled' = handled, onServer' = onServer, ids' = ids,
           c.method = "resubscribe", versions[c.use] = Stopped
    PROVE  ClientInv'
<1> DEFINE a == Answer(c, 0)
<1>1. /\ ClientTypeOK /\ DroppedIsEmpty /\ AskedOnce /\ SubscribedOnce /\ StopsAreTrue /\ SilentHaveNothing /\ LiveAreServed
    BY DEF ClientInv
<1>2. /\ sent' = sent \ {c} /\ wire' = Append(wire, a)
      /\ clientJob' = clientJob /\ overdue' = overdue /\ link' = link /\ users' = users /\ resubscribeCalls' = resubscribeCalls /\ publishIds' = publishIds
      /\ serverIds' = serverIds /\ buffers' = buffers /\ retry' = retry
      /\ versions' = versions
    BY DEF serverSubscribes, ClientTables
<1>3. c \in Calls /\ c.use \in Uses /\ Asks(c) /\ 0 \in 0..MaxIds /\ \A i \in Ids : i # 0
    BY <1>1, ClientTypes, ClientConstants DEF Asks, Ids
<1>4. a.type = "answer" /\ a.id = 0 /\ a.call = c /\ IsReply(a) /\ a \in NoteRows \cup AnswerRows BY <1>3 DEF Answer, IsReply, AnswerRows
<1> HIDE DEF a
<1>5. /\ wire' \in Seq(NoteRows \cup AnswerRows) /\ wire' # <<>> /\ Msgs(wire') = Msgs(wire) \cup {a}
      /\ OneReplyEach(wire) /\ (\A m \in Msgs(wire) : IsReply(m) => m.call.use # c.use) => OneReplyEach(wire')
      /\ \A i : NoNote(wire, i) => NoNote(wire', i)
      /\ \A i, v : TellsLast(wire, i, v) => TellsLast(wire', i, v)
 <2> DEFINE S == NoteRows \cup AnswerRows
 <2>1. wire \in Seq(S) /\ a \in S BY <1>1, <1>4 DEF ClientTypeOK
 <2> HIDE DEF S
 <2>2. /\ Append(wire, a) \in Seq(S) /\ Append(wire, a) # <<>> /\ Msgs(Append(wire, a)) = Msgs(wire) \cup {a}
       /\ OneReplyEach(wire) /\ (IsReply(a) => \A m \in Msgs(wire) : IsReply(m) => m.call.use # a.call.use) => OneReplyEach(Append(wire, a))
       /\ \A i : ~(a.type = "note" /\ a.id = i) => /\ NoNote(wire, i) => NoNote(Append(wire, a), i)
                                                  /\ \A v : TellsLast(wire, i, v) => TellsLast(Append(wire, a), i, v)
     BY <2>1, WireGrows
 <2>3. a.type # "note" BY <1>4
 <2>4. Append(wire, a) \in Seq(NoteRows \cup AnswerRows) BY <2>2 DEF S
 <2> QED BY <2>2, <2>3, <2>4, <1>2, <1>4
<1>6. /\ \A d : Flying(d)' <=> Flying(d)
      /\ \A w \in Uses, i \in Ids : Pending(w, i)' <=> Pending(w, i)
      /\ \A i : Stale(i) => Stale(i)'
    BY <1>2, <1>3, <1>4, <1>5 DEF Flying, Pending, Stale
<1>7. SameUsers /\ SameClient BY <1>2 DEF SameUsers, SameClient
<1>8. (\A w \in Uses : users[w].id = 0 => ~users'[w].attached) /\ (\A w \in Uses : users'[w].told = users[w].told)
    BY <1>1, <1>2 DEF SilentHaveNothing
<1>9. /\ ListsComeBack' /\ SilentHaveNothing' /\ IdsAreSingle' /\ IdsAreGivenOut'
      /\ UnansweredAreNew' /\ CallsFit' /\ TablesAreOwned' /\ OldCallsAreStale' /\ OldIdsAreStale'
      /\ SubscriptionsAreOwned' /\ GivenBackIsFree' /\ PublicationsAreKept'
 <2>1. (\A d \in Calls : ~Asks(d) => (d \in sent' <=> d \in sent)) /\ (\A d \in sent' : d \in sent) BY <1>2, <1>3
 <2> QED BY <2>1, <1>6, <1>7, <1>8, NothingMoves
<1>10. ClientTypeOK' BY <1>1, <1>2, <1>5 DEF ClientTypeOK
<1>11. DroppedIsEmpty' BY <1>1, <1>2 DEF DroppedIsEmpty, Connected
<1>12. AskedOnce'
 <2>1. \A m \in Msgs(wire) : IsReply(m) => m.call.use # c.use BY <1>1, <1>3 DEF AskedOnce
 <2>2. \A d \in sent', m \in Msgs(wire') : Asks(d) /\ IsReply(m) => m.call.use # d.use BY <1>1, <1>2, <1>3, <1>4, <1>5 DEF AskedOnce
 <2>3. \A k \in handled', m \in Msgs(wire') : IsReply(m) => m.call.use # k.call.use BY <1>1, <1>3, <1>4, <1>5 DEF AskedOnce
 <2> QED BY <2>1, <2>2, <2>3, <1>1, <1>2, <1>5 DEF AskedOnce
<1>13. SubscribedOnce' /\ StopsAreTrue'
 <2>1. \A o \in onServer : o.use # c.use BY <1>1, <1>3 DEF AskedOnce
 <2> QED BY <2>1, <1>1, <1>2, <1>4, <1>5 DEF SubscribedOnce, StopsAreTrue
<1>14. (\A w \in Uses : \A i : Mapped(w, i)' <=> Mapped(w, i)) /\ (\A w \in Uses : \A v : Holds(w, v)' <=> Holds(w, v))
    BY <1>2 DEF Mapped, ServerId, Holds
<1>15. NewestArrives'
 <2>1. \A o \in onServer' : o.use \in Uses BY <1>1, ClientTypes
 <2> QED BY <2>1, <1>2, <1>5, <1>14, NewestStay
<1>16. LiveAreServed'
 <2>1. \A w \in Uses : (Resubscribing(w) => Resubscribing(w)') /\ (ToldOfStop(w) => ToldOfStop(w)')
     BY <1>2, <1>6, <1>14 DEF Resubscribing, ToldOfStop
 <2> QED BY <2>1, <1>1, <1>2 DEF LiveAreServed, UserKind, Connected, ServerId
<1> QED BY <1>9, <1>10, <1>11, <1>12, <1>13, <1>15, <1>16 DEF ClientInv

(* A subscription gets an id of its own, and its snapshot is on the wire. *)
LEMMA SubscriptionKeepsClient ==
    ASSUME ClientInv, NEW c \in sent, serverSubscribes(c), ids' = ids + 1
    PROVE  ClientInv'
<1> DEFINE n == ids + 1
           a == Note(n, versions[c.use])
           o == [use |-> c.use, id |-> n]
           k == [call |-> c, id |-> n]
<1>1. /\ ClientTypeOK /\ DroppedIsEmpty /\ AskedOnce /\ SubscribedOnce /\ StopsAreTrue /\ SilentHaveNothing /\ LiveAreServed
      /\ ListsComeBack /\ IdsAreSingle /\ IdsAreGivenOut /\ UnansweredAreNew /\ CallsFit /\ TablesAreOwned /\ OldCallsAreStale
      /\ OldIdsAreStale /\ SubscriptionsAreOwned /\ GivenBackIsFree /\ NewestArrives /\ PublicationsAreKept
    BY DEF ClientInv
<1>2. ids \in Nat /\ ids < MaxIds /\ n \in Ids /\ n > ids /\ n \in 0..MaxIds /\ ids \in 0..MaxIds /\ ids # n
    BY <1>1, ClientConstants DEF ClientTypeOK, Ids, serverSubscribes
<1>3. /\ sent' = sent \ {c} /\ Asks(c) /\ wire' = Append(wire, a) /\ onServer' = onServer \cup {o} /\ handled' = handled \cup {k}
      /\ clientJob' = clientJob /\ overdue' = overdue /\ link' = link /\ users' = users /\ resubscribeCalls' = resubscribeCalls /\ publishIds' = publishIds
      /\ serverIds' = serverIds /\ buffers' = buffers /\ retry' = retry
      /\ versions' = versions /\ ids' = n
    BY <1>2 DEF serverSubscribes, ClientTables, Asks
<1>4. c \in Calls /\ c.use \in Uses /\ versions[c.use] \in Nat /\ Flying(c) BY <1>1, ClientTypes DEF ClientTypeOK, Flying
<1>5. /\ a.type = "note" /\ a.id = n /\ a.version = versions[c.use] /\ ~IsReply(a) /\ a \in NoteRows \cup AnswerRows
      /\ o.use = c.use /\ o.id = n /\ o \in [use : Uses, id : Ids] /\ k.call = c /\ k.id = n /\ k \in [call : Calls, id : Ids]
    BY <1>2, <1>4 DEF Note, IsReply, NoteRows
<1> HIDE DEF a, o, k
<1>6. /\ wire' \in Seq(NoteRows \cup AnswerRows) /\ wire' # <<>> /\ Msgs(wire') = Msgs(wire) \cup {a}
      /\ OneReplyEach(wire) => OneReplyEach(wire')
      /\ \A i : i # n => (NoNote(wire, i) => NoNote(wire', i)) /\ \A v : TellsLast(wire, i, v) => TellsLast(wire', i, v)
      /\ TellsLast(wire', n, versions[c.use])
 <2> DEFINE S == NoteRows \cup AnswerRows
 <2>1. wire \in Seq(S) /\ a \in S BY <1>1, <1>5 DEF ClientTypeOK
 <2> HIDE DEF S
 <2>2. /\ Append(wire, a) \in Seq(S) /\ Append(wire, a) # <<>> /\ Msgs(Append(wire, a)) = Msgs(wire) \cup {a}
       /\ OneReplyEach(wire) /\ (IsReply(a) => \A m \in Msgs(wire) : IsReply(m) => m.call.use # a.call.use) => OneReplyEach(Append(wire, a))
       /\ \A i : ~(a.type = "note" /\ a.id = i) => /\ NoNote(wire, i) => NoNote(Append(wire, a), i)
                                                  /\ \A v : TellsLast(wire, i, v) => TellsLast(Append(wire, a), i, v)
       /\ a.type = "note" => TellsLast(Append(wire, a), a.id, a.version)
     BY <2>1, WireGrows
 <2>3. Append(wire, a) \in Seq(NoteRows \cup AnswerRows) BY <2>2 DEF S
 <2> QED BY <2>2, <2>3, <1>3, <1>5
<1>7. Stale(n) /\ Unclaimed(n)
 <2>1. \A w \in Uses : users[w].id # n BY <1>1, <1>2, ClientTypes DEF IdsAreSingle
 <2>2. \A l \in Ids : serverIds[l] # n BY <1>1, <1>2, ClientTypes DEF IdsAreSingle
 <2>3. Stale(n) BY <1>1, <1>2 DEF IdsAreGivenOut
 <2> QED BY <2>1, <2>2, <2>3 DEF Unclaimed
<1>8. /\ \A d : Flying(d)' <=> Flying(d)
      /\ \A w, i : Pending(w, i)' <=> Pending(w, i) \/ (w = c.use /\ i = n)
      /\ \A i : i # n /\ Stale(i) => Stale(i)'
 <2>1. \A d : Flying(d)' <=> Flying(d) BY <1>3, <1>5, <1>6 DEF Flying
 <2>2. \A w, i : Pending(w, i)' <=> Pending(w, i) \/ (w = c.use /\ i = n) BY <1>3, <1>5, <1>6 DEF Pending
 <2>3. \A i : i # n /\ Stale(i) => Stale(i)' BY <1>3, <1>5, <1>6 DEF Stale
 <2> QED BY <2>1, <2>2, <2>3
<1>9. SameUsers /\ SameClient BY <1>3 DEF SameUsers, SameClient
<1>10. /\ \A w \in Uses : (Silent(w)' <=> Silent(w)) /\ (Owned(w)' <=> Owned(w))
       /\ \A w \in Uses : \A i : Mapped(w, i)' <=> Mapped(w, i)
       /\ \A i : Unclaimed(i)' <=> Unclaimed(i)
       /\ \A l : ServerId(l)' = ServerId(l)
       /\ \A d \in Calls : Fits(d) => Fits(d)'
    BY <1>1, <1>3, <1>9, UsersStay
<1>11. ListsComeBack' /\ IdsAreSingle' /\ TablesAreOwned'
 <2>1. ids' \in Nat /\ ids' >= ids BY <1>2, <1>3
 <2> QED BY <2>1, <1>1, <1>9, TablesStay
<1> HIDE DEF n
<1>12. ClientTypeOK' BY <1>1, <1>2, <1>3, <1>5, <1>6 DEF ClientTypeOK
<1>13. DroppedIsEmpty' BY <1>1, <1>3 DEF DroppedIsEmpty, Connected
<1>14. SilentHaveNothing'
 <2>1. ~Silent(c.use) BY <1>1, <1>4 DEF SilentHaveNothing
 <2>2. \A w \in Uses : Silent(w)' => (\A d \in Calls : Flying(d)' => d.use # w) /\ (\A p \in onServer' : p.use # w)
     BY <2>1, <1>1, <1>3, <1>5, <1>8, <1>10 DEF SilentHaveNothing
 <2> QED BY <2>2, <1>1, <1>3, <1>10 DEF SilentHaveNothing
<1>15. IdsAreGivenOut'
 <2>1. \A i \in Ids : i > n => i > ids /\ i # n BY <1>2 DEF Ids, n
 <2>2. \A d \in Calls : Flying(d) => d.id <= n
  <3>1. \A d \in Calls : d.id \in 0..MaxIds BY DEF Calls
  <3> QED BY <3>1, <1>1, <1>2 DEF IdsAreGivenOut, n
 <2> QED BY <2>1, <2>2, <1>1, <1>3, <1>8 DEF IdsAreGivenOut
<1>16. AskedOnce'
 <2>1. /\ \A d \in sent' : Asks(d) => d.use # c.use
       /\ \A h \in handled : h.call.use # c.use
       /\ \A m \in Msgs(wire) : IsReply(m) => m.call.use # c.use
       /\ \A p \in onServer : p.use # c.use
     BY <1>1, <1>3 DEF AskedOnce
 <2>2. \A m \in Msgs(wire') : IsReply(m) => m \in Msgs(wire) BY <1>5, <1>6
 <2>3. /\ \A d, e \in sent' : Asks(d) /\ Asks(e) /\ d.use = e.use => d = e
       /\ \A d \in sent', m \in Msgs(wire') : Asks(d) /\ IsReply(m) => m.call.use # d.use
     BY <2>2, <1>1, <1>3 DEF AskedOnce
 <2>4. /\ \A d \in sent', h \in handled' : Asks(d) => h.call.use # d.use
       /\ \A d \in sent', p \in onServer' : Asks(d) => p.use # d.use
     BY <2>1, <1>1, <1>3, <1>5 DEF AskedOnce
 <2>5. /\ \A h, j \in handled' : h.call.use = j.call.use => h = j
       /\ \A h \in handled' : Asks(h.call)
     BY <2>1, <1>1, <1>3, <1>5 DEF AskedOnce
 <2>6. \A h \in handled', m \in Msgs(wire') : IsReply(m) => m.call.use # h.call.use BY <2>1, <2>2, <1>1, <1>3, <1>5 DEF AskedOnce
 <2>7. OneReplyEach(wire') BY <1>1, <1>6 DEF AskedOnce
 <2> QED BY <2>3, <2>4, <2>5, <2>6, <2>7 DEF AskedOnce
<1>17. SubscribedOnce'
 <2>1. \A p \in onServer : p.use # c.use /\ p.id # n BY <1>1, <1>3, <1>7 DEF AskedOnce, Stale
 <2> QED BY <2>1, <1>1, <1>3, <1>5 DEF SubscribedOnce
<1>18. StopsAreTrue'
 <2>1. \A m \in Msgs(wire') : IsReply(m) => m \in Msgs(wire) /\ m.call.use # c.use BY <1>1, <1>3, <1>5, <1>6 DEF AskedOnce
 <2> QED BY <2>1, <1>1, <1>3, <1>5 DEF StopsAreTrue
<1>19. UnansweredAreNew'
 <2> SUFFICES ASSUME NEW w \in Uses, NEW i \in Ids, Pending(w, i)'
              PROVE  [use |-> w, id |-> i] \in onServer' /\ Unclaimed(i)'
     BY DEF UnansweredAreNew
 <2>1. CASE Pending(w, i) BY <2>1, <1>1, <1>3, <1>10 DEF UnansweredAreNew
 <2>2. CASE w = c.use /\ i = n BY <2>2, <1>3, <1>7, <1>10 DEF o
 <2> QED BY <2>1, <2>2, <1>8
<1>20. CallsFit' BY <1>1, <1>8, <1>10 DEF CallsFit
<1>21. OldCallsAreStale'
 <2> SUFFICES ASSUME NEW d \in Calls, Flying(d), d.method = "resubscribe"
              PROVE  Stale(d.id)' /\ Stale(ServerId(d.id))'
  <3>1. \A d \in Calls : ServerId(d.id)' = ServerId(d.id) BY <1>3 DEF ServerId
  <3> QED BY <3>1, <1>8 DEF OldCallsAreStale, Stale
 <2>1. Stale(d.id) /\ Stale(ServerId(d.id)) BY <1>1 DEF OldCallsAreStale
 <2>2. d.id # 0 /\ d.id \in 0..MaxIds /\ d.id <= ids BY <1>1 DEF CallsFit, Fits, IdsAreGivenOut, Calls
 <2>3. d.id \in Ids BY <2>2, ClientConstants DEF Ids
 <2>4. serverIds[d.id] <= ids /\ serverIds[d.id] \in 0..MaxIds BY <2>3, <1>1, ClientTypes DEF IdsAreSingle
 <2>5. d.id # n /\ ServerId(d.id) # n BY <2>2, <2>4, <1>2, ClientConstants DEF ServerId, n
 <2>6. ServerId(d.id)' = ServerId(d.id) BY <1>3 DEF ServerId
 <2> QED BY <2>1, <2>5, <2>6, <1>3, <1>8 DEF Stale
<1>22. OldIdsAreStale'
 <2>1. \A l \in Ids : serverIds[l] # 0 => l # n BY <1>1, <1>7 DEF IdsAreSingle, Unclaimed
 <2>2. ASSUME NEW w \in Uses, users[w].id # 0, users[w].state # "stopping", users[w].id \notin resubscribeCalls \cup publishIds
       PROVE  Stale(users[w].id)' /\ Stale(ServerId(users[w].id))'
  <3>1. Stale(users[w].id) /\ Stale(ServerId(users[w].id)) BY <2>2, <1>1 DEF OldIdsAreStale
  <3>2. users[w].id # n /\ users[w].id \in Ids BY <2>2, <1>1, <1>7, ClientTypes DEF Unclaimed
  <3>3. ServerId(users[w].id) # n BY <3>2, <1>7 DEF ServerId, Unclaimed
  <3>4. ServerId(users[w].id)' = ServerId(users[w].id) BY <1>3 DEF ServerId
  <3> QED BY <3>1, <3>2, <3>3, <3>4, <1>3, <1>8 DEF Stale
 <2> QED BY <2>1, <2>2, <1>1, <1>3, <1>8 DEF OldIdsAreStale
<1>23. SubscriptionsAreOwned'
 <2> SUFFICES ASSUME NEW p \in onServer'
              PROVE  \/ Pending(p.use, p.id)'
                     \/ Mapped(p.use, p.id)' /\ Owned(p.use)'
                     \/ Call("unsubscribe", p.use, p.id) \in sent' /\ ~Owned(p.use)'
                     \/ TooLate(p)'
     BY DEF SubscriptionsAreOwned, Call
 <2>1. CASE p = o BY <2>1, <1>5, <1>8
 <2>2. CASE p \in onServer
  <3>1. p.use \in Uses BY <2>2, <1>1, ClientTypes
  <3>2. Call("unsubscribe", p.use, p.id) # c BY <1>3 DEF Call, Asks
  <3> QED BY <2>2, <3>1, <3>2, <1>1, <1>3, <1>8, <1>10 DEF SubscriptionsAreOwned, TooLate
 <2> QED BY <2>1, <2>2, <1>3
<1>24. GivenBackIsFree'
 <2> SUFFICES ASSUME NEW d \in sent, ~Asks(d)
              PROVE  /\ d.id # 0 /\ users'[d.use].state \in {"stopping", "stopped"}
                     /\ \A w \in Uses : ~Pending(w, d.id)'
                     /\ \A w \in Uses : Owned(w)' => ~Mapped(w, d.id)'
     BY <1>3 DEF GivenBackIsFree
 <2>1. d.id # 0 /\ users[d.use].state \in {"stopping", "stopped"} /\ (\A w \in Uses : ~Pending(w, d.id)) /\ (\A w \in Uses : Owned(w) => ~Mapped(w, d.id))
     BY <1>1 DEF GivenBackIsFree
 <2>2. d \in Calls /\ Flying(d) /\ d.id \in 0..MaxIds BY <1>1, ClientTypes DEF Flying
 <2>3. d.id # n BY <2>2, <1>1, <1>2 DEF IdsAreGivenOut
 <2> QED BY <2>1, <2>3, <1>3, <1>8, <1>10
<1>25. \A w \in Uses : \A v : Holds(w, v)' <=> Holds(w, v) BY <1>3 DEF Holds
<1>26. NewestArrives'
 <2> SUFFICES ASSUME NEW p \in onServer', users[p.use].state \in {"calling", "live"}
              PROVE  \/ TellsLast(wire', p.id, versions[p.use])
                     \/ NoNote(wire', p.id) /\ Holding(p.use, p.id, versions[p.use])'
     BY <1>3 DEF NewestArrives
 <2>1. CASE p = o BY <2>1, <1>5, <1>6
 <2>2. CASE p \in onServer
  <3>1. p.use \in Uses /\ p.id # n BY <2>2, <1>1, <1>7, ClientTypes DEF Stale
  <3>2. \/ TellsLast(wire, p.id, versions[p.use])
        \/ NoNote(wire, p.id) /\ Holding(p.use, p.id, versions[p.use])
      BY <2>2, <1>1 DEF NewestArrives
  <3>3. Holding(p.use, p.id, versions[p.use]) => Holding(p.use, p.id, versions[p.use])' BY <3>1, <1>3, <1>10, <1>25 DEF Holding
  <3> QED BY <3>1, <3>2, <3>3, <1>6
 <2> QED BY <2>1, <2>2, <1>3
<1>27. LiveAreServed'
 <2>1. \A w \in Uses : (Resubscribing(w) => Resubscribing(w)') /\ (ToldOfStop(w) => ToldOfStop(w)')
     BY <1>3, <1>8, <1>25 DEF Resubscribing, ToldOfStop
 <2>2. \A w \in Uses : ServerId(users[w].id)' = ServerId(users[w].id) BY <1>3 DEF ServerId
 <2> QED BY <2>1, <2>2, <1>1, <1>3 DEF LiveAreServed, UserKind, Connected
<1>28. PublicationsAreKept' BY <1>1, <1>3 DEF PublicationsAreKept, PublicationIsTold, UserKind
<1> QED
    BY <1>11, <1>12, <1>13, <1>14, <1>15, <1>16, <1>17, <1>18, <1>19, <1>20, <1>21, <1>22, <1>23, <1>24, <1>26, <1>27, <1>28 DEF ClientInv

LEMMA ServerSubscribesKeepsClient ==
    ASSUME ClientInv, NEW c \in sent, serverSubscribes(c)
    PROVE  ClientInv'
BY NotRunningAnswerKeepsClient, SubscriptionKeepsClient DEF serverSubscribes

(* What is new at the server is on the wire, under the id of who watches it. *)
LEMMA UpdateKeepsClient ==
    ASSUME ClientInv, NEW u \in DOMAIN clientJob.kind, NEW v \in 1..MaxVersions \cup {Stopped}, serverUpdates(u, v)
    PROVE  ClientInv'
<1> DEFINE O == {x \in onServer : x.use = u}
           N == {Note(o.id, v) : o \in O}
<1>1. /\ ClientTypeOK /\ DroppedIsEmpty /\ AskedOnce /\ SubscribedOnce /\ StopsAreTrue /\ SilentHaveNothing /\ NewestArrives /\ LiveAreServed
    BY DEF ClientInv
<1>2. /\ versions' = [versions EXCEPT ![u] = v] /\ wire' = wire \o SetToSeq(N) /\ versions[u] < MaxVersions
      /\ clientJob' = clientJob /\ overdue' = overdue /\ link' = link /\ users' = users /\ resubscribeCalls' = resubscribeCalls /\ publishIds' = publishIds
      /\ serverIds' = serverIds /\ buffers' = buffers /\ retry' = retry /\ sent' = sent /\ handled' = handled /\ onServer' = onServer
      /\ ids' = ids
    BY DEF serverUpdates, ClientTables
<1>3. u \in Uses /\ v \in Nat /\ versions \in [Uses -> Nat] /\ wire \in Seq(NoteRows \cup AnswerRows)
    BY <1>1, ClientTypes, ClientConstants DEF ClientTypeOK, Stopped
<1>4. versions' \in [Uses -> Nat] /\ versions'[u] = v /\ \A w \in Uses : w # u => versions'[w] = versions[w] BY <1>2, <1>3
<1>5. versions[u] # Stopped
 <2>1. MaxVersions < Stopped BY ClientAssumption DEF Stopped
 <2> QED BY <2>1, <1>2, <1>3, ClientAssumption DEF Stopped
(* There is nobody to tell, or one message that tells it. *)
<1>6. \/ O = {} /\ wire' = wire
      \/ \E o \in onServer : o.use = u /\ (\A p \in onServer : p # o => p.use # u /\ p.id # o.id) /\ wire' = Append(wire, Note(o.id, v))
 <2>1. CASE O = {}
  <3>1. N = {} BY <2>1
  <3>2. wire' = wire \o <<>> BY <3>1, <1>2, SeqOfNone
  <3> QED BY <2>1, <3>2, <1>3
 <2>2. CASE O # {}
  <3>1. PICK o \in onServer : o.use = u BY <2>2
  <3>2. \A p \in onServer : p # o => p.use # u /\ p.id # o.id BY <3>1, <1>1 DEF SubscribedOnce
  <3>3. O = {o} BY <3>1, <3>2
  <3>4. N = {Note(o.id, v)} BY <3>3
  <3>5. SetToSeq(N) = <<Note(o.id, v)>> BY <3>4, SeqOfOne
  <3>6. Note(o.id, v) \in NoteRows \cup AnswerRows BY <1>1, <1>3, ClientTypes DEF Note, NoteRows
  <3>7. wire' = Append(wire, Note(o.id, v))
   <4> DEFINE e == Note(o.id, v)
              S == NoteRows \cup AnswerRows
   <4>1. e \in S /\ wire \in Seq(S) BY <3>6, <1>3
   <4>2. wire' = wire \o <<e>> BY <3>5, <1>2
   <4> HIDE DEF e, S
   <4>3. wire \o <<e>> = Append(wire, e) BY <4>1
   <4> QED BY <4>2, <4>3 DEF e
  <3> QED BY <3>1, <3>2, <3>7
 <2> QED BY <2>1, <2>2
<1> HIDE DEF O, N
<1>7. /\ wire' \in Seq(NoteRows \cup AnswerRows) /\ (\A m : IsReply(m) => (m \in Msgs(wire') <=> m \in Msgs(wire)))
      /\ \A m : m.type = "answer" => (m \in Msgs(wire') <=> m \in Msgs(wire))
      /\ OneReplyEach(wire) => OneReplyEach(wire')
      /\ \A i : Stale(i) => Stale(i)'
      /\ onServer = {} => wire' = wire
      /\ \A p \in onServer : p.use # u => /\ NoNote(wire, p.id) => NoNote(wire', p.id)
                                          /\ \A x : TellsLast(wire, p.id, x) => TellsLast(wire', p.id, x)
      /\ \A p \in onServer : p.use = u => TellsLast(wire', p.id, v)
 <2>1. CASE O = {} /\ wire' = wire BY <2>1, <1>2, <1>3 DEF O, Stale
 <2>2. CASE \E o \in onServer : o.use = u /\ (\A p \in onServer : p # o => p.use # u /\ p.id # o.id) /\ wire' = Append(wire, Note(o.id, v))
  <3>1. PICK o \in onServer : o.use = u /\ (\A p \in onServer : p # o => p.use # u /\ p.id # o.id) /\ wire' = Append(wire, Note(o.id, v))
      BY <2>2
  <3> DEFINE a == Note(o.id, v)
             S == NoteRows \cup AnswerRows
  <3>2. a \in S /\ a.type = "note" /\ a.id = o.id /\ a.version = v /\ ~IsReply(a) /\ wire \in Seq(S) /\ wire' = Append(wire, a)
      BY <3>1, <1>1, <1>3, ClientTypes DEF Note, NoteRows, IsReply
  <3> HIDE DEF a, S
  <3>3. /\ Append(wire, a) \in Seq(S) /\ Msgs(Append(wire, a)) = Msgs(wire) \cup {a}
        /\ OneReplyEach(wire) /\ (IsReply(a) => \A m \in Msgs(wire) : IsReply(m) => m.call.use # a.call.use) => OneReplyEach(Append(wire, a))
        /\ \A i : ~(a.type = "note" /\ a.id = i) => /\ NoNote(wire, i) => NoNote(Append(wire, a), i)
                                                   /\ \A x : TellsLast(wire, i, x) => TellsLast(Append(wire, a), i, x)
        /\ a.type = "note" => TellsLast(Append(wire, a), a.id, a.version)
      BY <3>2, WireGrows
  <3>4. /\ wire' \in Seq(NoteRows \cup AnswerRows) /\ Msgs(wire') = Msgs(wire) \cup {a} /\ (OneReplyEach(wire) => OneReplyEach(wire'))
      BY <3>2, <3>3 DEF S
  <3>5. \A i : i # o.id => (NoNote(wire, i) => NoNote(wire', i)) /\ \A x : TellsLast(wire, i, x) => TellsLast(wire', i, x) BY <3>2, <3>3
  <3>6. TellsLast(wire', o.id, v) BY <3>2, <3>3
  <3>7. \A i : Stale(i) => Stale(i)' BY <3>1, <3>5, <1>2 DEF Stale
  <3>8. /\ \A m : IsReply(m) => (m \in Msgs(wire') <=> m \in Msgs(wire))
        /\ \A m : m.type = "answer" => (m \in Msgs(wire') <=> m \in Msgs(wire))
      BY <3>2, <3>4
  <3> QED BY <3>1, <3>4, <3>5, <3>6, <3>7, <3>8
 <2> QED BY <2>1, <2>2, <1>6
<1>8. /\ \A d : Flying(d)' <=> Flying(d)
      /\ \A w, i : Pending(w, i)' <=> Pending(w, i)
 <2>1. \A d : Flying(d)' <=> Flying(d) BY <1>2, <1>7 DEF Flying
 <2>2. \A w, i : Pending(w, i)' <=> Pending(w, i) BY <1>2, <1>7 DEF Pending
 <2> QED BY <2>1, <2>2
<1>9. SameUsers /\ SameClient BY <1>2 DEF SameUsers, SameClient
<1>10. (\A w \in Uses : users[w].id = 0 => ~users'[w].attached) /\ (\A w \in Uses : users'[w].told = users[w].told)
    BY <1>1, <1>2 DEF SilentHaveNothing
<1>11. /\ ListsComeBack' /\ SilentHaveNothing' /\ IdsAreSingle' /\ IdsAreGivenOut'
       /\ UnansweredAreNew' /\ CallsFit' /\ TablesAreOwned' /\ OldCallsAreStale' /\ OldIdsAreStale'
       /\ SubscriptionsAreOwned' /\ GivenBackIsFree' /\ PublicationsAreKept'
    BY <1>2, <1>7, <1>8, <1>9, <1>10, NothingMoves
<1>12. ClientTypeOK' BY <1>1, <1>2, <1>4, <1>7 DEF ClientTypeOK
<1>13. DroppedIsEmpty' BY <1>1, <1>2, <1>7 DEF DroppedIsEmpty, Connected
<1>14. AskedOnce' BY <1>1, <1>2, <1>7 DEF AskedOnce
<1>15. SubscribedOnce' /\ StopsAreTrue'
 <2>1. SubscribedOnce' BY <1>1, <1>2 DEF SubscribedOnce
 <2>2. \A m \in Msgs(wire) : IsReply(m) => m.call.use \in Uses BY <1>1, ClientTypes DEF IsReply
 <2>3. \A w \in Uses : versions[w] = Stopped => versions'[w] = Stopped BY <1>4, <1>5
 <2>4. StopsAreTrue' BY <2>2, <2>3, <1>1, <1>2, <1>7 DEF StopsAreTrue
 <2> QED BY <2>1, <2>4
<1>16. (\A w \in Uses : \A i : Mapped(w, i)' <=> Mapped(w, i)) /\ (\A w \in Uses : \A x : Holds(w, x)' <=> Holds(w, x))
    BY <1>2 DEF Mapped, ServerId, Holds
<1>17. NewestArrives'
 <2> SUFFICES ASSUME NEW p \in onServer, users[p.use].state \in {"calling", "live"}
              PROVE  \/ TellsLast(wire', p.id, versions'[p.use])
                     \/ NoNote(wire', p.id) /\ Holding(p.use, p.id, versions[p.use])'
     BY <1>2 DEF NewestArrives
 <2>1. CASE p.use = u BY <2>1, <1>4, <1>7
 <2>2. CASE p.use # u
  <3>1. p.use \in Uses /\ versions'[p.use] = versions[p.use] BY <2>2, <1>1, <1>4, ClientTypes
  <3>2. \/ TellsLast(wire, p.id, versions[p.use])
        \/ NoNote(wire, p.id) /\ Holding(p.use, p.id, versions[p.use])
      BY <1>1 DEF NewestArrives
  <3>3. Holding(p.use, p.id, versions[p.use]) => Holding(p.use, p.id, versions[p.use])' BY <3>1, <1>2, <1>16 DEF Holding
  <3> QED BY <2>2, <3>1, <3>2, <3>3, <1>7
 <2> QED BY <2>1, <2>2
<1>18. LiveAreServed'
 <2>1. \A w \in Uses : Resubscribing(w) => Resubscribing(w)' BY <1>8 DEF Resubscribing
 <2>2. \A w \in Uses : ToldOfStop(w) => ToldOfStop(w)' BY <1>4, <1>5, <1>16 DEF ToldOfStop
 <2> QED BY <2>1, <2>2, <1>1, <1>2 DEF LiveAreServed, UserKind, Connected, ServerId
<1> QED BY <1>11, <1>12, <1>13, <1>14, <1>15, <1>17, <1>18 DEF ClientInv

(* The id of a new subscription arrives: it is the asker's from here on. *)
LEMMA SubscribedKeepsClient ==
    ASSUME ClientInv, subscribed
    PROVE  ClientInv'
<1>0. PICK h, u, s : h = Head(wire) /\ u = h.call.use /\ s = h.id OBVIOUS
<1>1. /\ ClientTypeOK /\ DroppedIsEmpty /\ AskedOnce /\ SubscribedOnce /\ StopsAreTrue /\ SilentHaveNothing /\ LiveAreServed
      /\ ListsComeBack /\ IdsAreSingle /\ IdsAreGivenOut /\ UnansweredAreNew /\ CallsFit /\ TablesAreOwned /\ OldCallsAreStale
      /\ OldIdsAreStale /\ SubscriptionsAreOwned /\ GivenBackIsFree /\ NewestArrives /\ PublicationsAreKept
    BY DEF ClientInv
<1>2. /\ wire # <<>> /\ h.type = "answer" /\ h.call.method = "subscribe" /\ wire' = Tail(wire)
      /\ users' = [users EXCEPT ![u].id = s, ![u].state = IF @ = "calling" THEN "live" ELSE @]
      /\ UserKind(u) = "publication" => publishIds' = publishIds \cup {s} /\ resubscribeCalls' = resubscribeCalls
      /\ UserKind(u) # "publication" => resubscribeCalls' = resubscribeCalls \cup {s} /\ publishIds' = publishIds
      /\ clientJob' = clientJob /\ overdue' = overdue /\ link' = link
      /\ serverIds' = serverIds /\ buffers' = buffers /\ retry' = retry /\ sent' = sent /\ handled' = handled /\ onServer' = onServer
      /\ versions' = versions /\ ids' = ids
    BY <1>0 DEF subscribed, Answered
<1>3. IsReply(h) /\ Asks(h.call) BY <1>2 DEF IsReply, Asks
<1>4. /\ wire' \in Seq(NoteRows \cup AnswerRows) /\ h \in Msgs(wire)
      /\ \A i : Stale(i) => Stale(i)'
      /\ \A w, i : Pending(w, i)' => Pending(w, i)
      /\ \A w, i : Pending(w, i) => Pending(w, i)' \/ (s = i /\ u = w)
      /\ AskedOnce' /\ StopsAreTrue' /\ SubscribedOnce'
 <2>1. \A c \in sent' : Asks(c) => c \in sent BY <1>2
 <2> QED BY <2>1, <1>0, <1>1, <1>2, HeadIsRead
<1>5. /\ \A c : Flying(c)' => Flying(c)
      /\ \A c : Flying(c)' /\ Asks(c) => c.use # u
      /\ \A c : Flying(c) => Flying(c)' \/ h.call = c
      /\ \A i : ~Pending(u, i)'
 <2>1. \A c \in sent' : Asks(c) => c \in sent BY <1>2
 <2>2. \A c : c \in sent => Flying(c) BY DEF Flying
 <2>3. \A c : Flying(c)' => Flying(c) \/ c \in sent' BY <2>1, <1>1, <1>2, HeadIsRead
 <2>4. (\A c : Flying(c)' /\ Asks(c) => c.use # u) /\ \A w, i : w = u => ~Pending(w, i)' BY <2>1, <1>0, <1>1, <1>2, <1>3, HeadIsRead
 <2>5. \A c : Flying(c) => Flying(c)' \/ (c \in sent /\ c \notin sent') \/ (h.type = "answer" /\ h.call = c)
     BY <2>1, <1>0, <1>1, <1>2, HeadIsRead
 <2> QED BY <2>2, <2>3, <2>4, <2>5, <1>2
<1>6. /\ \A i, v : TellsLast(wire, i, v) => TellsLast(wire', i, v)
      /\ \A i : NoNote(wire, i) => NoNote(wire', i)
 <2> DEFINE S == NoteRows \cup AnswerRows
 <2>1. wire \in Seq(S) BY <1>1 DEF ClientTypeOK
 <2> HIDE DEF S
 <2>2. \A i : /\ NoNote(wire, i) => NoNote(Tail(wire), i)
              /\ \A v : TellsLast(wire, i, v)
                          => \/ TellsLast(Tail(wire), i, v)
                             \/ /\ NoNote(Tail(wire), i)
                                /\ Head(wire).type = "note"
                                /\ Head(wire).id = i
                                /\ Head(wire).version = v
     BY <2>1, <1>2, WireShrinks
 <2> QED BY <2>2, <1>0, <1>2
<1>7. u \in Uses /\ h.call \in Calls /\ s # 0 /\ s \in Ids /\ Flying(h.call) /\ Pending(u, s)
 <2>1. h.call \in Calls /\ u \in Uses /\ s \in 0..MaxIds BY <1>1, <1>2, <1>4, <1>0, ClientTypes
 <2>2. s # 0 BY <1>0, <1>1, <1>2, <1>3, <1>4 DEF StopsAreTrue
 <2>3. Flying(h.call) /\ Pending(u, s) BY <1>2, <1>3, <1>4, <1>0 DEF Flying, Pending
 <2> QED BY <2>1, <2>2, <2>3, ClientConstants DEF Ids
<1>8. [use |-> u, id |-> s] \in onServer /\ Unclaimed(s) /\ users[u].id = 0 /\ users[u].state \in {"calling", "unwanted"} /\ ~users[u].attached
 <2>1. Fits(h.call) BY <1>1, <1>7 DEF CallsFit
 <2> QED BY <2>1, <1>0, <1>1, <1>2, <1>7 DEF UnansweredAreNew, Fits, SilentHaveNothing
<1>9. ~Stale(s) /\ s <= ids /\ serverIds[s] = 0 /\ s \notin resubscribeCalls /\ s \notin publishIds
 <2>1. ~Stale(s) BY <1>8 DEF Stale
 <2>2. s <= ids BY <2>1, <1>1, <1>7, ClientConstants DEF IdsAreGivenOut, Ids, ClientTypeOK
 <2>3. serverIds[s] = 0 BY <1>1, <1>7, <1>8 DEF IdsAreSingle, Unclaimed
 <2>4. s \notin resubscribeCalls /\ s \notin publishIds BY <1>1, <1>8 DEF TablesAreOwned, Unclaimed
 <2> QED BY <2>1, <2>2, <2>3, <2>4
<1>10. /\ users' \in [Uses -> UserRows]
       /\ users'[u].id = s /\ users'[u].state = (IF users[u].state = "calling" THEN "live" ELSE "unwanted") /\ ~users'[u].attached
       /\ \A w \in Uses : w # u => users'[w] = users[w]
       /\ \A w \in Uses : users'[w].attached = users[w].attached /\ users'[w].told = users[w].told
 <2> DEFINE st == IF users[u].state = "calling" THEN "live" ELSE users[u].state
 <2>1. users \in [Uses -> UserRows] /\ s \in 0..MaxIds /\ u \in Uses BY <1>1, <1>7, ClientConstants DEF ClientTypeOK, Ids
 <2>2. users' = [users EXCEPT ![u].id = s, ![u].state = st] BY <2>1, <1>2 DEF UserRows
 <2>3. st \in UserStates /\ st = IF users[u].state = "calling" THEN "live" ELSE "unwanted" BY <1>8 DEF UserStates
 <2> HIDE DEF st
 <2>4. users[u] \in UserRows BY <2>1
 <2>5. users' = [users EXCEPT ![u] = [users[u] EXCEPT !.id = s, !.state = st]] BY <2>1, <2>2, <2>4 DEF UserRows
 <2>6. [users[u] EXCEPT !.id = s, !.state = st] \in UserRows BY <2>1, <2>3, <2>4 DEF UserRows
 <2>7. users'[u] = [users[u] EXCEPT !.id = s, !.state = st] /\ \A w \in Uses : w # u => users'[w] = users[w] BY <2>1, <2>5
 <2>8. users' \in [Uses -> UserRows] BY <2>1, <2>5, <2>6
 <2>9. /\ users'[u].id = s /\ users'[u].state = st
       /\ users'[u].attached = users[u].attached /\ users'[u].told = users[u].told
     BY <2>4, <2>7 DEF UserRows
 <2> QED BY <2>3, <2>7, <2>8, <2>9, <1>8
<1>11. Owned(u)' /\ ~Silent(u)' /\ ~Silent(u) /\ \A w \in Uses : w # u => (Owned(w)' <=> Owned(w)) /\ (Silent(w)' <=> Silent(w))
    BY <1>8, <1>10 DEF Owned, Silent
<1>12. (\A l : ServerId(l)' = ServerId(l)) /\ ServerId(s) = s BY <1>2, <1>9 DEF ServerId
<1>13. /\ \A w \in Uses : w # u => \A i : Mapped(w, i)' <=> Mapped(w, i)
       /\ \A i : Mapped(u, i)' <=> i = s
       /\ \A i : ~Mapped(u, i)
       /\ \A i : i # s /\ Unclaimed(i) => Unclaimed(i)'
 <2>1. \A w \in Uses : w # u => \A i : Mapped(w, i)' <=> Mapped(w, i) BY <1>2, <1>10 DEF Mapped, ServerId
 <2>2. (\A i : Mapped(u, i)' <=> i = s) /\ (\A i : ~Mapped(u, i)) BY <1>2, <1>7, <1>8, <1>9, <1>10 DEF Mapped, ServerId
 <2>3. \A i : i # s /\ Unclaimed(i) => Unclaimed(i)' BY <1>2, <1>10 DEF Unclaimed
 <2> QED BY <2>1, <2>2, <2>3
<1>14. ClientTypeOK' BY <1>1, <1>2, <1>4, <1>7, <1>10 DEF ClientTypeOK
<1>15. DroppedIsEmpty' BY <1>1, <1>2 DEF DroppedIsEmpty, Connected
<1>16. ListsComeBack'
 <2>0. (\A w \in Uses : w # u => users'[w].state = users[w].state) /\ users'[u].state \in {"live", "unwanted"}
       /\ (users'[u].state = "unwanted" => users[u].state = "unwanted")
     BY <1>8, <1>10
 <2>1. \A w \in retry : w # u /\ w \in Uses BY <1>1, <1>8 DEF ListsComeBack, ClientTypeOK
 <2>2. \A w \in retry' : UserKind(w)' = "list" /\ users'[w].state = "threw" BY <2>1, <1>1, <1>2, <1>10 DEF ListsComeBack, UserKind
 <2>3. \A w \in Uses : users'[w].state = "waiting" => link'.state = "connecting" BY <2>0, <1>1, <1>2 DEF ListsComeBack
 <2>4. \A w \in Uses : w \in DOMAIN clientJob'.kind => users'[w].state # "absent" BY <2>0, <1>1, <1>2 DEF ListsComeBack
 <2>5. /\ retry' = retry /\ link' = link /\ clientJob' = clientJob
       /\ \A w \in Uses : (UserKind(w)' = UserKind(w)) /\ (Connected' <=> Connected)
     BY <1>2 DEF UserKind, Connected
 <2>6. \A w \in Uses : users'[w].state \in {"unwanted", "stopping", "stopped"} => UserKind(w)' # "list"
  <3>1. \A w \in Uses : users[w].state \in {"unwanted", "stopping", "stopped"} => UserKind(w) # "list" BY <1>1 DEF ListsComeBack
  <3> QED BY <3>1, <2>0, <2>5
 <2>7. \A w \in Uses : users'[w].state = "threw" /\ UserKind(w)' = "list" /\ link'.state # "failed" => ~Connected' /\ w \in retry'
  <3>1. \A w \in Uses : users[w].state = "threw" /\ UserKind(w) = "list" /\ link.state # "failed" => ~Connected /\ w \in retry
      BY <1>1 DEF ListsComeBack
  <3> QED BY <3>1, <2>0, <2>5
 <2> QED BY <2>2, <2>3, <2>4, <2>6, <2>7 DEF ListsComeBack
<1>17. SilentHaveNothing'
 <2>1. \A w \in Uses : Silent(w)' => (\A c \in Calls : Flying(c)' => c.use # w) /\ (\A o \in onServer' : o.use # w)
     BY <1>1, <1>2, <1>5, <1>11 DEF SilentHaveNothing
 <2>2. \A w \in Uses : Silent(w)' \/ users'[w].state = "calling" => w # u /\ users'[w].id = 0 BY <1>1, <1>10, <1>11 DEF SilentHaveNothing
 <2>3. \A w \in Uses : users'[w].state \in {"live", "stopping"} => users'[w].id # 0 BY <1>1, <1>7, <1>10 DEF SilentHaveNothing
 <2>4. \A w \in Uses : users'[w].id = 0 => ~users'[w].attached BY <1>1, <1>10 DEF SilentHaveNothing
 <2> QED BY <2>1, <2>2, <2>3, <2>4 DEF SilentHaveNothing
<1>18. IdsAreSingle'
 <2>0. users[u].id = 0 /\ users'[u].id = s /\ s # 0 /\ \A w \in Uses : (w # u => users'[w].id = users[w].id) /\ users[w].id # s
     BY <1>7, <1>8, <1>10 DEF Unclaimed
 <2>1. (\A w \in Uses : users'[w].id <= ids') /\ (\A l \in Ids : serverIds'[l] <= ids')
  <3>1. (\A w \in Uses : users[w].id <= ids) /\ (\A l \in Ids : serverIds[l] <= ids) BY <1>1 DEF IdsAreSingle
  <3>2. \A w \in Uses : users'[w].id = s \/ users'[w].id = users[w].id BY <2>0
  <3> QED BY <3>1, <3>2, <1>2, <1>9
 <2>2. \A l \in Ids : serverIds'[l] # 0 => \E w \in Uses : users'[w].id = l
  <3> SUFFICES ASSUME NEW l \in Ids, serverIds[l] # 0 PROVE \E w \in Uses : users'[w].id = l BY <1>2
  <3>1. PICK w \in Uses : users[w].id = l BY <1>1 DEF IdsAreSingle
  <3>2. w # u
   <4>1. l # 0 BY DEF Ids
   <4> QED BY <3>1, <4>1, <2>0
  <3> QED BY <3>1, <3>2, <2>0
 <2>3. \A w, x \in Uses : users'[w].id = users'[x].id /\ users'[w].id # 0 => w = x
  <3> SUFFICES ASSUME NEW w \in Uses, NEW x \in Uses, users'[w].id = users'[x].id, users'[w].id # 0 PROVE w = x OBVIOUS
  <3>1. CASE w # u /\ x # u
   <4>1. users[w].id = users[x].id /\ users[w].id # 0 BY <3>1, <2>0
   <4> QED BY <4>1, <1>1 DEF IdsAreSingle
  <3>2. CASE w = u \/ x = u BY <3>2, <2>0
  <3> QED BY <3>1, <3>2
 <2>4. \A l, k \in Ids : serverIds'[l] = serverIds'[k] /\ serverIds'[l] # 0 => l = k BY <1>1, <1>2 DEF IdsAreSingle
 <2>5. \A l \in Ids, w \in Uses : serverIds'[l] # 0 => serverIds'[l] # users'[w].id
  <3>1. \A l \in Ids : serverIds[l] # s BY <1>8 DEF Unclaimed
  <3> QED
   <4>1. \A l \in Ids, w \in Uses : serverIds[l] # 0 => serverIds[l] # users[w].id BY <1>1 DEF IdsAreSingle
   <4>2. \A w \in Uses : users'[w].id = s \/ users'[w].id = users[w].id BY <2>0
   <4> QED BY <3>1, <4>1, <4>2, <1>2
 <2> QED BY <2>1, <2>2, <2>3, <2>4, <2>5 DEF IdsAreSingle
<1>19. IdsAreGivenOut' BY <1>1, <1>2, <1>4, <1>5 DEF IdsAreGivenOut
<1>20. UnansweredAreNew'
 <2> SUFFICES ASSUME NEW w \in Uses, NEW i \in Ids, Pending(w, i)'
              PROVE  [use |-> w, id |-> i] \in onServer' /\ Unclaimed(i)'
     BY DEF UnansweredAreNew
 <2>1. w # u BY <1>5
 <2>2. [use |-> w, id |-> i] \in onServer /\ Unclaimed(i) BY <1>1, <1>4 DEF UnansweredAreNew
 <2>3. i # s BY <2>1, <2>2, <1>1, <1>8 DEF SubscribedOnce
 <2> QED BY <2>2, <2>3, <1>2, <1>13
<1>21. CallsFit'
 <2> SUFFICES ASSUME NEW c \in Calls, Flying(c)' PROVE Fits(c)' BY DEF CallsFit
 <2>1. Fits(c) /\ Flying(c) /\ c.use \in Uses BY <1>1, <1>5 DEF CallsFit, Calls
 <2>2. CASE ~Asks(c) BY <2>2 DEF Fits, Asks
 <2>3. CASE Asks(c)
  <3>1. c.use # u BY <2>3, <1>5
  <3>2. users'[c.use] = users[c.use] /\ (Owned(c.use)' <=> Owned(c.use)) BY <3>1, <2>1, <1>10, <1>11
  <3>3. c.method = "resubscribe" => c.id # s BY <2>1, <1>1, <1>9 DEF OldCallsAreStale
  <3>4. c.method = "resubscribe" => (c.id \in resubscribeCalls' <=> c.id \in resubscribeCalls) BY <3>3, <1>2
  <3> QED BY <2>1, <3>2, <3>4 DEF Fits
 <2> QED BY <2>2, <2>3
<1>22. TablesAreOwned'
 <2>1. \A l \in resubscribeCalls : \E w \in Uses : users'[w].id = l /\ Owned(w)' /\ UserKind(w)' # "publication"
  <3> SUFFICES ASSUME NEW l \in resubscribeCalls PROVE \E w \in Uses : users'[w].id = l /\ Owned(w)' /\ UserKind(w)' # "publication" OBVIOUS
  <3>1. PICK w \in Uses : users[w].id = l /\ Owned(w) /\ UserKind(w) # "publication" BY <1>1 DEF TablesAreOwned
  <3>2. w # u
   <4>1. l # 0 BY <1>1, ClientTypes DEF ClientTypeOK
   <4> QED BY <3>1, <4>1, <1>8
  <3> QED BY <3>1, <3>2, <1>2, <1>10, <1>11 DEF UserKind
 <2>2. \A l \in publishIds : \E w \in Uses : users'[w].id = l /\ Owned(w)' /\ UserKind(w)' = "publication"
  <3> SUFFICES ASSUME NEW l \in publishIds PROVE \E w \in Uses : users'[w].id = l /\ Owned(w)' /\ UserKind(w)' = "publication" OBVIOUS
  <3>1. PICK w \in Uses : users[w].id = l /\ Owned(w) /\ UserKind(w) = "publication" BY <1>1 DEF TablesAreOwned
  <3>2. w # u
   <4>1. l # 0 BY <1>1, ClientTypes DEF ClientTypeOK
   <4> QED BY <3>1, <4>1, <1>8
  <3> QED BY <3>1, <3>2, <1>2, <1>10, <1>11 DEF UserKind
 <2>3. UserKind(u)' = UserKind(u) BY <1>2 DEF UserKind
 <2>4. \A w \in Uses : users'[w].id # 0 /\ UserKind(w)' = "publication" => serverIds'[users'[w].id] = 0
     BY <1>1, <1>2, <1>9, <1>10 DEF TablesAreOwned, UserKind
 <2>5. resubscribeCalls' \cap publishIds' = {} BY <1>1, <1>2, <1>9 DEF TablesAreOwned
 <2>6. \A l \in resubscribeCalls' : l \in resubscribeCalls \/ (l = s /\ UserKind(u) # "publication") BY <1>2
 <2>7. \A l \in publishIds' : l \in publishIds \/ (l = s /\ UserKind(u) = "publication") BY <1>2
 <2>8. \A l \in resubscribeCalls' : \E w \in Uses : users'[w].id = l /\ Owned(w)' /\ UserKind(w)' # "publication"
     BY <2>1, <2>3, <2>6, <1>7, <1>10, <1>11
 <2>9. \A l \in publishIds' : \E w \in Uses : users'[w].id = l /\ Owned(w)' /\ UserKind(w)' = "publication"
     BY <2>2, <2>3, <2>7, <1>7, <1>10, <1>11
 <2> QED BY <2>4, <2>5, <2>8, <2>9 DEF TablesAreOwned
<1>23. OldCallsAreStale' BY <1>1, <1>4, <1>5, <1>12 DEF OldCallsAreStale
<1>24. s \in resubscribeCalls' \cup publishIds' /\ resubscribeCalls \subseteq resubscribeCalls' /\ publishIds \subseteq publishIds' BY <1>2
<1>25. OldIdsAreStale'
 <2>1. ASSUME NEW w \in Uses, w # u, users[w].id # 0, users[w].state # "stopping", users[w].id \notin resubscribeCalls \cup publishIds
       PROVE  Stale(users[w].id)' /\ Stale(ServerId(users[w].id))'
  <3>1. Stale(users[w].id) /\ Stale(ServerId(users[w].id)) /\ users'[w].id = users[w].id BY <2>1, <1>1, <1>10 DEF OldIdsAreStale
  <3>2. ServerId(users[w].id)' = ServerId(users[w].id) BY <3>1, <1>2 DEF ServerId
  <3> DEFINE i == users[w].id
             k == ServerId(users[w].id)
  <3>3. Stale(i) /\ Stale(k) BY <3>1
  <3> HIDE DEF i, k
  <3>4. (\A o \in onServer' : o.id # i /\ o.id # k) /\ NoNote(wire', i) /\ NoNote(wire', k) BY <3>3, <1>2, <1>6 DEF Stale
  <3> QED BY <3>1, <3>2, <3>4 DEF Stale, i, k
 <2>2. \A l \in Ids : serverIds'[l] # 0 => Stale(l)' BY <1>1, <1>2, <1>4 DEF OldIdsAreStale
 <2>3. \A w \in Uses : w # u => users'[w].id = users[w].id /\ users'[w].state = users[w].state /\ ServerId(users[w].id)' = ServerId(users[w].id)
     BY <1>2, <1>10 DEF ServerId
 <2>4. users'[u].id \in resubscribeCalls' \cup publishIds' BY <1>10, <1>24
 <2> QED BY <2>1, <2>2, <2>3, <2>4, <1>24 DEF OldIdsAreStale
<1>26. SubscriptionsAreOwned'
 <2> SUFFICES ASSUME NEW o \in onServer
              PROVE  \/ Pending(o.use, o.id)'
                     \/ Mapped(o.use, o.id)' /\ Owned(o.use)'
                     \/ Call("unsubscribe", o.use, o.id) \in sent /\ ~Owned(o.use)'
                     \/ TooLate(o)'
     BY <1>2 DEF SubscriptionsAreOwned, Call
 <2>1. o.use \in Uses BY <1>1, ClientTypes
 <2>2. Call("unsubscribe", o.use, o.id) \in sent => o.use # u BY <1>1, <1>8 DEF GivenBackIsFree, Call, Asks
 <2>3. \/ Pending(o.use, o.id)
       \/ Mapped(o.use, o.id) /\ Owned(o.use)
       \/ Call("unsubscribe", o.use, o.id) \in sent /\ ~Owned(o.use)
       \/ TooLate(o)
     BY <1>1 DEF SubscriptionsAreOwned
 <2>4. TooLate(o) /\ o.id # s => TooLate(o)' BY <1>2, <1>13 DEF TooLate
 <2>5. o.id = s => o.use = u BY <1>1, <1>8 DEF SubscribedOnce
 <2> QED BY <2>1, <2>2, <2>3, <2>4, <2>5, <1>4, <1>11, <1>13
<1>27. GivenBackIsFree'
 <2> SUFFICES ASSUME NEW d \in sent, ~Asks(d)
              PROVE  /\ d.id # 0 /\ users'[d.use].state \in {"stopping", "stopped"}
                     /\ \A w \in Uses : ~Pending(w, d.id)'
                     /\ \A w \in Uses : Owned(w)' => ~Mapped(w, d.id)'
     BY <1>2 DEF GivenBackIsFree
 <2>1. d.id # 0 /\ users[d.use].state \in {"stopping", "stopped"} /\ (\A w \in Uses : ~Pending(w, d.id)) /\ (\A w \in Uses : Owned(w) => ~Mapped(w, d.id))
     BY <1>1 DEF GivenBackIsFree
 <2>2. d.use \in Uses /\ d.use # u /\ d.id # s BY <2>1, <1>1, <1>7, <1>8, ClientTypes
 <2> QED BY <2>1, <2>2, <1>4, <1>10, <1>11, <1>13
<1>28. \A w \in Uses : w # u => \A v : users[w].id # 0 /\ Holds(w, v) => Holds(w, v)' BY <1>2, <1>10 DEF Holds
<1>29. NewestArrives'
 <2> SUFFICES ASSUME NEW o \in onServer, users'[o.use].state \in {"calling", "live"}
              PROVE  \/ TellsLast(wire', o.id, versions[o.use])
                     \/ NoNote(wire', o.id) /\ Holding(o.use, o.id, versions[o.use])'
     BY <1>2 DEF NewestArrives
 <2>1. o.use \in Uses BY <1>1, ClientTypes
 <2>2. CASE o.use # u
  <3>1. /\ users[o.use].state \in {"calling", "live"} /\ \A i : Mapped(o.use, i)' <=> Mapped(o.use, i)
        /\ \A v : users[o.use].id # 0 /\ Holds(o.use, v) => Holds(o.use, v)'
      BY <2>1, <2>2, <1>10, <1>13, <1>28
  <3>2. \A v : v = versions[o.use] => \/ TellsLast(wire', o.id, v)
                                      \/ NoNote(wire', o.id) /\ Holding(o.use, o.id, v)'
      BY <3>1, <1>2, <1>6, NewestOfOneStays
  <3> QED BY <3>2, <1>2
 <2>3. CASE o.use = u
  <3>1. o.id = s
   <4>1. \A p \in onServer : p.use = o.use => o = p BY <1>1 DEF SubscribedOnce
   <4>2. o = [use |-> u, id |-> s] BY <4>1, <2>3, <1>8
   <4> QED BY <4>2
  <3>2. users[u].state = "calling" BY <2>3, <1>8, <1>10
  <3>3. \/ TellsLast(wire, s, versions[u])
        \/ NoNote(wire, s) /\ Holding(u, s, versions[u])
      BY <2>3, <3>1, <3>2, <1>1 DEF NewestArrives
  <3>4. \A v : v = versions[u] => \/ TellsLast(wire', s, v)
                                  \/ NoNote(wire', s) /\ buffers[s] # <<>> /\ Last(buffers[s]) = v
      BY <3>3, <1>6, <1>13 DEF Holding
  <3>5. \A v : buffers[s] # <<>> /\ Last(buffers[s]) = v => Holds(u, v)' BY <1>2, <1>10 DEF Holds
  <3>6. \A v : Holds(u, v)' => Holding(u, s, v)' BY <1>13 DEF Holding
  <3>7. \A v : v = versions[u] => TellsLast(wire', s, v) \/ (NoNote(wire', s) /\ Holding(u, s, v)') BY <3>4, <3>5, <3>6
  <3> QED BY <2>3, <3>1, <3>7, <1>2
 <2> QED BY <2>2, <2>3
<1>30. LiveAreServed'
 <2>1. \A w \in Uses : w # u => (Resubscribing(w) => Resubscribing(w)') /\ (users[w].id # 0 /\ ToldOfStop(w) => ToldOfStop(w)')
     BY <1>2, <1>5, <1>28 DEF Resubscribing, ToldOfStop
 <2>2. ASSUME NEW w \in Uses, w # u, users[w].state = "live", UserKind(w) # "publication"
       PROVE  \/ /\ users[w].id \in resubscribeCalls'
                 /\ Connected => [use |-> w, id |-> ServerId(users[w].id)] \in onServer \/ Resubscribing(w)' \/ users'[w].told
              \/ users[w].id \notin resubscribeCalls' /\ ToldOfStop(w)'
  <3>1. users[w].id # 0 /\ users[w].id # s BY <2>2, <1>1, <1>8 DEF SilentHaveNothing, Unclaimed
  <3> QED BY <2>1, <2>2, <3>1, <1>1, <1>2, <1>10 DEF LiveAreServed
 <2>3. UserKind(u) # "publication" => users'[u].id \in resubscribeCalls' /\ [use |-> u, id |-> ServerId(users[u].id)'] \in onServer
     BY <1>2, <1>8, <1>9, <1>10 DEF ServerId
 <2>4. \A w \in Uses : w # u => ServerId(users[w].id)' = ServerId(users[w].id) /\ users'[w] = users[w] BY <1>2, <1>10 DEF ServerId
 <2>5. \A w \in Uses : UserKind(w)' = UserKind(w) BY <1>2 DEF UserKind
 <2>6. ASSUME NEW w \in Uses, users'[w].state = "live", UserKind(w) # "publication"
       PROVE  \/ /\ users'[w].id \in resubscribeCalls'
                 /\ Connected' => [use |-> w, id |-> ServerId(users[w].id)'] \in onServer' \/ Resubscribing(w)' \/ users'[w].told
              \/ users'[w].id \notin resubscribeCalls' /\ ToldOfStop(w)'
  <3>1. CASE w = u BY <3>1, <2>3, <2>6, <1>2
  <3>2. CASE w # u
   <4>1. /\ users'[w] = users[w] /\ ServerId(users[w].id)' = ServerId(users[w].id) /\ users[w].state = "live"
         /\ onServer' = onServer /\ (Connected' <=> Connected)
       BY <3>2, <2>4, <2>6, <1>2 DEF Connected
   <4>2. \/ /\ users[w].id \in resubscribeCalls'
            /\ Connected => [use |-> w, id |-> ServerId(users[w].id)] \in onServer \/ Resubscribing(w)' \/ users'[w].told
         \/ users[w].id \notin resubscribeCalls' /\ ToldOfStop(w)'
       BY <3>2, <4>1, <2>2, <2>6
   <4> QED BY <4>1, <4>2
  <3> QED BY <3>1, <3>2
 <2> QED BY <2>5, <2>6 DEF LiveAreServed
<1>31. PublicationsAreKept'
 <2>1. UserKind(u) = "publication" => [use |-> u, id |-> users'[u].id] \in onServer' /\ users'[u].id \in publishIds'
  <3>1. users'[u].id = s /\ [use |-> u, id |-> s] \in onServer BY <1>8, <1>10
  <3> QED BY <3>1, <1>2
 <2> QED BY <2>1, <1>1, <1>2, <1>10, <1>24 DEF PublicationsAreKept, PublicationIsTold, UserKind
<1> QED
    BY <1>4, <1>14, <1>15, <1>16, <1>17, <1>18, <1>19, <1>20, <1>21, <1>22, <1>23, <1>25, <1>26, <1>27, <1>29, <1>30, <1>31 DEF ClientInv

(* A resubscription nobody waits for any more is given back at once. *)
LEMMA GivenUpKeepsClient ==
    ASSUME ClientInv, resubscribed, ~StillWanted(Head(wire).call.id)
    PROVE  ClientInv'
<1>0. PICK h, u, s : h = Head(wire) /\ u = h.call.use /\ s = h.id OBVIOUS
<1> DEFINE n == Call("unsubscribe", u, s)
<1>1. /\ ClientTypeOK /\ DroppedIsEmpty /\ SubscribedOnce /\ SilentHaveNothing /\ LiveAreServed
      /\ ListsComeBack /\ IdsAreSingle /\ IdsAreGivenOut /\ UnansweredAreNew /\ CallsFit /\ TablesAreOwned /\ OldCallsAreStale
      /\ OldIdsAreStale /\ SubscriptionsAreOwned /\ GivenBackIsFree /\ PublicationsAreKept
    BY DEF ClientInv
<1>2. /\ wire # <<>> /\ h.type = "answer" /\ h.call.method = "resubscribe" /\ wire' = Tail(wire) /\ s # 0 /\ h.call.id \notin resubscribeCalls
      /\ sent' = sent \cup {n} /\ buffers' = [buffers EXCEPT ![s] = <<>>]
      /\ users' = users /\ serverIds' = serverIds /\ clientJob' = clientJob /\ overdue' = overdue /\ link' = link /\ resubscribeCalls' = resubscribeCalls
      /\ publishIds' = publishIds /\ retry' = retry /\ handled' = handled /\ onServer' = onServer /\ versions' = versions /\ ids' = ids
    BY <1>0 DEF resubscribed, Answered, StillWanted
<1>3. Asks(h.call) /\ ~Asks(n) /\ n.use = u /\ n.id = s /\ n.method = "unsubscribe" BY <1>2 DEF Asks, Call
<1>4. /\ wire' \in Seq(NoteRows \cup AnswerRows)
      /\ h.call \in Calls /\ u \in Uses /\ s \in 0..MaxIds /\ Flying(h.call) /\ Fits(h.call) /\ Connected
      /\ \A i : Stale(i) => Stale(i)'
      /\ \A w, i : Pending(w, i)' => Pending(w, i)
      /\ AskedOnce' /\ StopsAreTrue' /\ SubscribedOnce'
      /\ Pending(u, s)
      /\ \A w, i : Pending(w, i) => Pending(w, i)' \/ (s = i /\ u = w)
      /\ \A i : ~Pending(u, i)'
      /\ \A i, v : TellsLast(wire, i, v) => TellsLast(wire', i, v)
      /\ \A i : NoNote(wire, i) => NoNote(wire', i)
 <2>1. sent \subseteq sent' /\ \A c \in sent' : Asks(c) => c \in sent BY <1>2, <1>3
 <2> QED BY <2>1, <1>0, <1>2, <1>3, AnswerIsRead
<1>5. /\ \A c : Flying(c)' => Flying(c) \/ c = n
      /\ \A c : Flying(c) => Flying(c)' \/ h.call = c
 <2>1. sent \subseteq sent' /\ \A c \in sent' : Asks(c) => c \in sent BY <1>2, <1>3
 <2>2. \A c : Flying(c)' => Flying(c) \/ (c \in sent' /\ ~Asks(c)) BY <2>1, <1>0, <1>2, AnswerIsRead
 <2>3. \A c : Flying(c) => Flying(c)' \/ h.call = c BY <2>1, <1>0, <1>2, AnswerIsRead
 <2>4. \A c : c \in sent => Flying(c) BY DEF Flying
 <2> QED BY <2>2, <2>3, <2>4, <1>2
<1> HIDE DEF n
<1>6. s \in Ids /\ [use |-> u, id |-> s] \in onServer /\ Unclaimed(s) /\ users[u].state \in {"stopping", "stopped"} /\ ~Stale(s) /\ s <= ids
 <2>1. s \in Ids BY <1>2, <1>4, ClientConstants DEF Ids
 <2>2. [use |-> u, id |-> s] \in onServer /\ Unclaimed(s) BY <2>1, <1>1, <1>4 DEF UnansweredAreNew
 <2>3. users[u].state \in {"stopping", "stopped"} BY <1>0, <1>2, <1>4 DEF Fits
 <2>4. ~Stale(s) BY <2>2 DEF Stale
 <2>5. s <= ids BY <2>1, <2>4, <1>1, ClientConstants DEF IdsAreGivenOut, Ids, ClientTypeOK
 <2> QED BY <2>1, <2>2, <2>3, <2>4, <2>5
<1>7. n \in Calls /\ ~Silent(u) /\ ~Owned(u) BY <1>4, <1>6 DEF n, Call, Calls, Silent, Owned
<1>8. SameUsers /\ SameClient BY <1>2 DEF SameUsers, SameClient
<1>9. /\ \A w \in Uses : (Silent(w)' <=> Silent(w)) /\ (Owned(w)' <=> Owned(w))
      /\ \A w \in Uses : \A i : Mapped(w, i)' <=> Mapped(w, i)
      /\ \A i : Unclaimed(i)' <=> Unclaimed(i)
      /\ \A l : ServerId(l)' = ServerId(l)
      /\ \A d \in Calls : Fits(d) => Fits(d)'
    BY <1>1, <1>2, <1>8, UsersStay
<1>10. ListsComeBack' /\ IdsAreSingle' /\ TablesAreOwned'
 <2>1. ids' \in Nat /\ ids' >= ids BY <1>1, <1>2, ClientConstants DEF ClientTypeOK
 <2> QED BY <2>1, <1>1, <1>8, TablesStay
<1>11. buffers' \in [Ids -> Seq(Nat)] /\ \A k \in Ids : k # s => buffers'[k] = buffers[k] BY <1>1, <1>2, <1>6 DEF ClientTypeOK
<1>12. ClientTypeOK' BY <1>1, <1>2, <1>4, <1>7, <1>11 DEF ClientTypeOK
<1>13. DroppedIsEmpty' BY <1>1, <1>2, <1>4 DEF DroppedIsEmpty, Connected
<1>14. SilentHaveNothing'
 <2>1. \A w \in Uses : Silent(w)' => (\A d \in Calls : Flying(d)' => d.use # w) /\ (\A p \in onServer' : p.use # w)
     BY <1>1, <1>2, <1>3, <1>5, <1>7, <1>9 DEF SilentHaveNothing
 <2> QED BY <2>1, <1>1, <1>2, <1>9 DEF SilentHaveNothing
<1>15. IdsAreGivenOut' BY <1>1, <1>2, <1>3, <1>4, <1>5, <1>6 DEF IdsAreGivenOut
<1>16. UnansweredAreNew' BY <1>1, <1>2, <1>4, <1>9 DEF UnansweredAreNew
<1>17. CallsFit' /\ OldCallsAreStale'
 <2>1. \A c \in Calls : Flying(c)' /\ c.method # "unsubscribe" => Flying(c) BY <1>3, <1>5
 <2>2. \A c \in Calls : c.method = "unsubscribe" => Fits(c)' BY DEF Fits
 <2>3. CallsFit' BY <2>1, <2>2, <1>1, <1>9 DEF CallsFit
 <2>4. OldCallsAreStale' BY <2>1, <1>1, <1>4, <1>9 DEF OldCallsAreStale
 <2> QED BY <2>3, <2>4
<1>18. OldIdsAreStale' BY <1>1, <1>2, <1>4, <1>9 DEF OldIdsAreStale
<1>19. SubscriptionsAreOwned'
 <2> SUFFICES ASSUME NEW o \in onServer
              PROVE  \/ Pending(o.use, o.id)'
                     \/ Mapped(o.use, o.id)' /\ Owned(o.use)'
                     \/ Call("unsubscribe", o.use, o.id) \in sent' /\ ~Owned(o.use)'
                     \/ TooLate(o)'
     BY <1>2 DEF SubscriptionsAreOwned, Call
 <2>1. o.use \in Uses BY <1>1, ClientTypes
 <2>2. o.use = u /\ o.id = s => Call("unsubscribe", o.use, o.id) \in sent' /\ ~Owned(o.use)' BY <1>2, <1>4, <1>7, <1>9 DEF n
 <2> QED BY <2>1, <2>2, <1>1, <1>2, <1>4, <1>9 DEF SubscriptionsAreOwned, TooLate
<1>20. GivenBackIsFree'
 <2> SUFFICES ASSUME NEW d \in sent', ~Asks(d)
              PROVE  /\ d.id # 0 /\ users'[d.use].state \in {"stopping", "stopped"}
                     /\ \A w \in Uses : ~Pending(w, d.id)'
                     /\ \A w \in Uses : Owned(w)' => ~Mapped(w, d.id)'
     BY DEF GivenBackIsFree
 <2>1. CASE d \in sent
  <3>1. d.id # 0 /\ users[d.use].state \in {"stopping", "stopped"} /\ (\A w \in Uses : ~Pending(w, d.id)) /\ (\A w \in Uses : Owned(w) => ~Mapped(w, d.id))
      BY <2>1, <1>1 DEF GivenBackIsFree
  <3> QED BY <3>1, <1>2, <1>4, <1>9
 <2>2. CASE d = n
  <3>1. \A w \in Uses : Pending(w, s) => [use |-> w, id |-> s] \in onServer BY <1>1, <1>6 DEF UnansweredAreNew
  <3>2. \A w \in Uses : Pending(w, s) => w = u BY <3>1, <1>1, <1>6 DEF SubscribedOnce
  <3>3. \A w \in Uses : ~Pending(w, s)' BY <3>2, <1>4
  <3>4. \A w \in Uses : ~Mapped(w, s) BY <1>1, <1>6, ClientTypes DEF Mapped, ServerId, Unclaimed
  <3> QED BY <3>3, <3>4, <2>2, <1>2, <1>3, <1>6, <1>9
 <2> QED BY <2>1, <2>2, <1>2
<1>21. \A w \in Uses : \A v : users[w].id # 0 /\ Holds(w, v) => Holds(w, v)'
 <2>1. \A w \in Uses : users[w].id # 0 => users[w].id \in Ids /\ users[w].id # s BY <1>1, <1>6, ClientTypes DEF Unclaimed
 <2> QED BY <2>1, <1>2, <1>11 DEF Holds
<1>22. NewestArrives'
 <2> DEFINE W == Uses \ {u}
 <2>1. \A o \in onServer' : o.use \in Uses /\ (users'[o.use].state \in {"calling", "live"} => o.use \in W) BY <1>1, <1>2, <1>6, ClientTypes
 <2>2. \A o \in onServer' : o.use \in W => buffers'[o.id] = buffers[o.id]
  <3>1. \A o \in onServer : o.use # u => o.id # s /\ o.id \in Ids BY <1>1, <1>6, ClientTypes DEF SubscribedOnce
  <3> QED BY <3>1, <1>2, <1>11
 <2>3. W \in SUBSET Uses /\ (\A w \in W : \A i : Mapped(w, i)' <=> Mapped(w, i)) /\ (\A w \in W : \A v : users[w].id # 0 /\ Holds(w, v) => Holds(w, v)')
     BY <1>9, <1>21
 <2> HIDE DEF W
 <2> QED BY <2>1, <2>2, <2>3, <1>2, <1>4, NewestStay
<1>23. LiveAreServed'
 <2>1. \A w \in Uses : w # u => (Resubscribing(w) => Resubscribing(w)') BY <1>0, <1>5 DEF Resubscribing
 <2>2. \A w \in Uses : users[w].id # 0 /\ ToldOfStop(w) => ToldOfStop(w)' BY <1>2, <1>21 DEF ToldOfStop
 <2>3. \A w \in Uses : users[w].state = "live" => w # u /\ users[w].id # 0 BY <1>1, <1>6 DEF SilentHaveNothing
 <2>4. \A w \in Uses : ServerId(users[w].id)' = ServerId(users[w].id) BY <1>2 DEF ServerId
 <2> QED BY <2>1, <2>2, <2>3, <2>4, <1>1, <1>2 DEF LiveAreServed, UserKind, Connected
<1>24. PublicationsAreKept' BY <1>1, <1>2 DEF PublicationsAreKept, PublicationIsTold, UserKind
<1> QED BY <1>4, <1>10, <1>12, <1>13, <1>14, <1>15, <1>16, <1>17, <1>18, <1>19, <1>20, <1>22, <1>23, <1>24 DEF ClientInv

(* A resubscription that is wanted is mapped to its instance, which is *)
(* handed what came under the new id before. *)
LEMMA TakenOverKeepsClient ==
    ASSUME ClientInv, resubscribed, StillWanted(Head(wire).call.id)
    PROVE  ClientInv'
<1>0. PICK h, u, s, l : h = Head(wire) /\ u = h.call.use /\ s = h.id /\ l = h.call.id OBVIOUS
<1> DEFINE rest == [buffers EXCEPT ![s] = <<>>]
<1>1. /\ ClientTypeOK /\ DroppedIsEmpty /\ SubscribedOnce /\ SilentHaveNothing /\ LiveAreServed
      /\ ListsComeBack /\ IdsAreSingle /\ IdsAreGivenOut /\ UnansweredAreNew /\ CallsFit /\ TablesAreOwned /\ OldCallsAreStale
      /\ OldIdsAreStale /\ SubscriptionsAreOwned /\ GivenBackIsFree /\ NewestArrives /\ PublicationsAreKept
    BY DEF ClientInv
<1>2. /\ wire # <<>> /\ h.type = "answer" /\ h.call.method = "resubscribe" /\ wire' = Tail(wire) /\ s # 0 /\ l \in resubscribeCalls
      /\ sent' = sent /\ serverIds' = [serverIds EXCEPT ![l] = s]
      /\ buffers[s] = <<>> => buffers' = rest /\ users' = users
      /\ buffers[s] # <<>> => Dispatched(l, buffers[s], users, rest)
      /\ clientJob' = clientJob /\ overdue' = overdue /\ link' = link /\ resubscribeCalls' = resubscribeCalls
      /\ publishIds' = publishIds /\ retry' = retry /\ handled' = handled /\ onServer' = onServer /\ versions' = versions /\ ids' = ids
    BY <1>0 DEF resubscribed, Answered, StillWanted, Early
<1>3. Asks(h.call) BY <1>2 DEF Asks
<1>4. /\ wire' \in Seq(NoteRows \cup AnswerRows)
      /\ h.call \in Calls /\ u \in Uses /\ s \in 0..MaxIds /\ Flying(h.call) /\ Fits(h.call) /\ Connected
      /\ \A i : Stale(i) => Stale(i)'
      /\ \A w, i : Pending(w, i)' => Pending(w, i)
      /\ AskedOnce' /\ StopsAreTrue' /\ SubscribedOnce'
      /\ Pending(u, s)
      /\ \A w, i : Pending(w, i) => Pending(w, i)' \/ (s = i /\ u = w)
      /\ \A i : ~Pending(u, i)'
      /\ \A i, v : TellsLast(wire, i, v) => TellsLast(wire', i, v)
      /\ \A i : NoNote(wire, i) => NoNote(wire', i)
 <2>1. sent \subseteq sent' /\ \A c \in sent' : Asks(c) => c \in sent BY <1>2
 <2> QED BY <2>1, <1>0, <1>2, <1>3, AnswerIsRead
<1>5. /\ \A c : Flying(c)' => Flying(c)
      /\ \A c : Flying(c) => Flying(c)' \/ h.call = c
      /\ \A c : Flying(c)' /\ Asks(c) => c.use # u
 <2>1. sent \subseteq sent' /\ \A c \in sent' : Asks(c) => c \in sent BY <1>2
 <2>2. \A c : Flying(c)' => Flying(c) \/ (c \in sent' /\ ~Asks(c)) BY <2>1, <1>0, <1>2, AnswerIsRead
 <2>3. \A c : Flying(c) => Flying(c)' \/ h.call = c BY <2>1, <1>0, <1>2, AnswerIsRead
 <2>4. \A c : c \in sent => Flying(c) BY DEF Flying
 <2>5. \A c : Flying(c)' /\ Asks(c) => c.use # u BY <2>1, <1>0, <1>2, <1>3, AnswerIsRead
 <2> QED BY <2>2, <2>3, <2>4, <2>5, <1>2
<1>6. s \in Ids /\ [use |-> u, id |-> s] \in onServer /\ Unclaimed(s) /\ ~Stale(s) /\ s <= ids
 <2>1. s \in Ids BY <1>2, <1>4, ClientConstants DEF Ids
 <2>2. [use |-> u, id |-> s] \in onServer /\ Unclaimed(s) BY <2>1, <1>1, <1>4 DEF UnansweredAreNew
 <2>3. ~Stale(s) BY <2>2 DEF Stale
 <2>4. s <= ids BY <2>1, <2>3, <1>1, ClientConstants DEF IdsAreGivenOut, Ids, ClientTypeOK
 <2> QED BY <2>1, <2>2, <2>3, <2>4
<1>7. /\ l \in Ids /\ l # 0 /\ l # s /\ users[u].id = l /\ Owned(u) /\ Stale(l) /\ Stale(ServerId(l))
      /\ UserKind(u) # "publication" /\ \A w \in Uses : w # u => users[w].id # l
 <2>1. l # 0 /\ users[u].id = l /\ Owned(u) BY <1>0, <1>2, <1>4 DEF Fits
 <2>2. \A w \in Uses : w # u => users[w].id # l BY <2>1, <1>1, <1>4 DEF IdsAreSingle
 <2>3. UserKind(u) # "publication" BY <2>2, <1>1, <1>2 DEF TablesAreOwned
 <2>4. Stale(l) /\ Stale(ServerId(l)) BY <1>0, <1>1, <1>2, <1>4 DEF OldCallsAreStale
 <2>5. l \in Ids /\ l # s BY <2>1, <1>1, <1>2, <1>4, <1>6 DEF ClientTypeOK, Unclaimed
 <2> QED BY <2>1, <2>2, <2>3, <2>4, <2>5
(* What the dispatch changes. *)
<1>8. /\ users' \in [Uses -> UserRows] /\ buffers' \in [Ids -> Seq(Nat)]
      /\ \A w \in Uses : /\ users'[w].state = users[w].state /\ users'[w].id = users[w].id
                         /\ users'[w].attached = users[w].attached /\ users'[w].told = users[w].told
                         /\ w # u => users'[w].seen = users[w].seen
      /\ \A k \in Ids : k # l /\ k # s => buffers'[k] = buffers[k]
      /\ buffers[s] # <<>> => IF users'[u].attached THEN users'[u].seen = Last(buffers[s]) ELSE buffers'[l] # <<>> /\ Last(buffers'[l]) = Last(buffers[s])
 <2>1. users \in [Uses -> UserRows] /\ buffers \in [Ids -> Seq(Nat)] /\ rest \in [Ids -> Seq(Nat)] /\ \A k \in Ids : k # s => rest[k] = buffers[k]
     BY <1>1, <1>6 DEF ClientTypeOK
 <2>2. CASE buffers[s] = <<>> BY <2>1, <2>2, <1>2
 <2>3. CASE buffers[s] # <<>>
  <3> DEFINE vs == buffers[s]
  <3>1. vs \in Seq(Nat) /\ vs # <<>> /\ Dispatched(l, vs, users, rest) BY <2>1, <2>3, <1>2, <1>6
  <3>2. rest \in [Ids -> Seq(Nat)] /\ \A k \in Ids : k # s => rest[k] = buffers[k] BY <2>1
  <3> HIDE DEF vs, rest
  <3>3. /\ users' \in [Uses -> UserRows] /\ buffers' \in [Ids -> Seq(Nat)]
        /\ \A w \in Uses : /\ users'[w].state = users[w].state /\ users'[w].id = users[w].id
                           /\ users'[w].attached = users[w].attached /\ users'[w].told = users[w].told
                           /\ ~(users[w].id = l /\ users[w].attached) => users'[w].seen = users[w].seen
                           /\ users[w].id = l /\ users[w].attached => users'[w].seen = Last(vs)
                           /\ users[w].id = l /\ ~users[w].attached => buffers'[l] # <<>> /\ Last(buffers'[l]) = Last(vs)
        /\ \A k \in Ids : k # l => buffers'[k] = rest[k]
      BY <3>1, <3>2, <1>1, <1>7, DispatchDoes
  <3>4. \A w \in Uses : w # u => users'[w].seen = users[w].seen BY <3>3, <1>7
  <3>5. IF users'[u].attached THEN users'[u].seen = Last(vs) ELSE buffers'[l] # <<>> /\ Last(buffers'[l]) = Last(vs) BY <3>3, <1>4, <1>7
  <3>6. \A k \in Ids : k # l /\ k # s => buffers'[k] = buffers[k] BY <3>2, <3>3
  <3> QED BY <3>3, <3>4, <3>5, <3>6 DEF vs
 <2> QED BY <2>2, <2>3
<1> HIDE DEF rest
<1>9. \A w \in Uses : (Silent(w)' <=> Silent(w)) /\ (Owned(w)' <=> Owned(w)) BY <1>8 DEF Silent, Owned
<1>10. serverIds' \in [Ids -> 0..MaxIds] /\ serverIds'[l] = s /\ \A k \in Ids : k # l => serverIds'[k] = serverIds[k]
    BY <1>1, <1>2, <1>4, <1>7 DEF ClientTypeOK
<1>11. /\ \A w \in Uses : w # u => \A i : Mapped(w, i)' <=> Mapped(w, i)
       /\ \A i : Mapped(u, i)' <=> i = s
       /\ \A i : Mapped(u, i) => Stale(i)
       /\ \A i \in Ids : i # s /\ Unclaimed(i) => Unclaimed(i)'
       /\ \A k \in Ids : k # l => ServerId(k)' = ServerId(k)
 <2>1. \A k \in Ids : k # l => ServerId(k)' = ServerId(k) BY <1>10 DEF ServerId
 <2>2. \A w \in Uses : w # u /\ users[w].id # 0 => users[w].id \in Ids /\ users[w].id # l BY <1>1, <1>7, ClientTypes
 <2>3. \A w \in Uses : w # u => \A i : Mapped(w, i)' <=> Mapped(w, i) BY <2>2, <1>8, <1>10 DEF Mapped, ServerId
 <2>4. \A i : Mapped(u, i)' <=> i = s BY <1>2, <1>4, <1>7, <1>8, <1>10 DEF Mapped, ServerId
 <2>5. \A i : Mapped(u, i) => i = ServerId(l) BY <1>7 DEF Mapped
 <2>6. \A i \in Ids : i # s /\ Unclaimed(i) => Unclaimed(i)' BY <1>8, <1>10 DEF Unclaimed
 <2> QED BY <2>1, <2>3, <2>4, <2>5, <2>6, <1>7
<1>12. ClientTypeOK' BY <1>1, <1>2, <1>4, <1>8, <1>10 DEF ClientTypeOK
<1>13. DroppedIsEmpty' BY <1>1, <1>2, <1>4, <1>8 DEF DroppedIsEmpty, Connected
<1>14. ListsComeBack' BY <1>1, <1>2, <1>8, ListsStay
<1>15. SilentHaveNothing'
 <2>1. \A w \in Uses : Silent(w)' => (\A c \in Calls : Flying(c)' => c.use # w) /\ (\A o \in onServer' : o.use # w)
     BY <1>1, <1>2, <1>5, <1>9 DEF SilentHaveNothing
 <2> QED BY <2>1, <1>1, <1>8, <1>9 DEF SilentHaveNothing
<1>16. IdsAreSingle'
 <2>0. /\ \A w \in Uses : users'[w].id = users[w].id /\ users[w].id # s
       /\ \A k \in Ids : serverIds'[k] = (IF k = l THEN s ELSE serverIds[k]) /\ serverIds[k] # s
     BY <1>6, <1>8, <1>10 DEF Unclaimed
 <2>1. (\A w \in Uses : users'[w].id <= ids') /\ (\A k \in Ids : serverIds'[k] <= ids') BY <2>0, <1>1, <1>2, <1>6 DEF IdsAreSingle
 <2>2. \A k \in Ids : serverIds'[k] # 0 => \E w \in Uses : users'[w].id = k
  <3>1. \A k \in Ids : k # l /\ serverIds[k] # 0 => \E w \in Uses : users[w].id = k BY <1>1 DEF IdsAreSingle
  <3> QED BY <3>1, <2>0, <1>4, <1>7
 <2>3. \A w, x \in Uses : users'[w].id = users'[x].id /\ users'[w].id # 0 => w = x BY <2>0, <1>1 DEF IdsAreSingle
 <2>4. \A j, k \in Ids : serverIds'[j] = serverIds'[k] /\ serverIds'[j] # 0 => j = k
  <3>1. \A j, k \in Ids : serverIds[j] = serverIds[k] /\ serverIds[j] # 0 => j = k BY <1>1 DEF IdsAreSingle
  <3> QED BY <3>1, <2>0
 <2>5. \A k \in Ids, w \in Uses : serverIds'[k] # 0 => serverIds'[k] # users'[w].id
  <3>1. \A k \in Ids, w \in Uses : serverIds[k] # 0 => serverIds[k] # users[w].id BY <1>1 DEF IdsAreSingle
  <3> QED BY <3>1, <2>0
 <2> QED BY <2>1, <2>2, <2>3, <2>4, <2>5 DEF IdsAreSingle
<1>17. IdsAreGivenOut' BY <1>1, <1>2, <1>4, <1>5 DEF IdsAreGivenOut
<1>18. UnansweredAreNew'
 <2> SUFFICES ASSUME NEW w \in Uses, NEW i \in Ids, Pending(w, i)'
              PROVE  [use |-> w, id |-> i] \in onServer /\ Unclaimed(i)'
     BY <1>2 DEF UnansweredAreNew
 <2>1. w # u BY <1>4
 <2>2. [use |-> w, id |-> i] \in onServer /\ Unclaimed(i) BY <1>1, <1>4 DEF UnansweredAreNew
 <2>3. i # s BY <2>1, <2>2, <1>1, <1>6 DEF SubscribedOnce
 <2> QED BY <2>2, <2>3, <1>11
<1>19. CallsFit'
 <2> SUFFICES ASSUME NEW c \in Calls, Flying(c) PROVE Fits(c)' BY <1>5 DEF CallsFit
 <2>1. Fits(c) /\ c.use \in Uses BY <1>1 DEF CallsFit, Calls
 <2>2. users'[c.use].state = users[c.use].state /\ users'[c.use].id = users[c.use].id /\ (Owned(c.use)' <=> Owned(c.use))
     BY <2>1, <1>8, <1>9
 <2> QED BY <2>1, <2>2, <1>2 DEF Fits
<1>20. TablesAreOwned'
 <2>1. \A j \in resubscribeCalls : \E w \in Uses : users'[w].id = j /\ Owned(w)' /\ UserKind(w)' # "publication"
  <3> SUFFICES ASSUME NEW j \in resubscribeCalls PROVE \E w \in Uses : users'[w].id = j /\ Owned(w)' /\ UserKind(w)' # "publication" OBVIOUS
  <3>1. PICK w \in Uses : users[w].id = j /\ Owned(w) /\ UserKind(w) # "publication" BY <1>1 DEF TablesAreOwned
  <3> QED BY <3>1, <1>2, <1>8, <1>9 DEF UserKind
 <2>2. \A j \in publishIds : \E w \in Uses : users'[w].id = j /\ Owned(w)' /\ UserKind(w)' = "publication"
  <3> SUFFICES ASSUME NEW j \in publishIds PROVE \E w \in Uses : users'[w].id = j /\ Owned(w)' /\ UserKind(w)' = "publication" OBVIOUS
  <3>1. PICK w \in Uses : users[w].id = j /\ Owned(w) /\ UserKind(w) = "publication" BY <1>1 DEF TablesAreOwned
  <3> QED BY <3>1, <1>2, <1>8, <1>9 DEF UserKind
 <2>3. \A w \in Uses : users'[w].id # 0 /\ UserKind(w)' = "publication" => serverIds'[users'[w].id] = 0
  <3> SUFFICES ASSUME NEW w \in Uses, users[w].id # 0, UserKind(w) = "publication" PROVE serverIds'[users[w].id] = 0
      BY <1>2, <1>8 DEF UserKind
  <3>1. w # u BY <1>7
  <3>2. users[w].id \in Ids /\ users[w].id # l /\ serverIds[users[w].id] = 0 BY <3>1, <1>1, <1>7, ClientTypes DEF TablesAreOwned
  <3> QED BY <3>2, <1>10
 <2> QED BY <2>1, <2>2, <2>3, <1>1, <1>2 DEF TablesAreOwned
<1>21. OldCallsAreStale'
 <2> SUFFICES ASSUME NEW c \in Calls, Flying(c)', c.method = "resubscribe"
              PROVE  Stale(c.id)' /\ Stale(ServerId(c.id))'
     BY DEF OldCallsAreStale
 <2>1. Asks(c) /\ c.use # u /\ Flying(c) /\ c.use \in Uses BY <1>5 DEF Asks, Calls
 <2>2. Fits(c) /\ Stale(c.id) /\ Stale(ServerId(c.id)) BY <2>1, <1>1 DEF CallsFit, OldCallsAreStale
 <2>3. c.id # l BY <2>1, <2>2, <1>2, <1>7 DEF Fits
 <2>4. c.id \in Ids BY <2>2, ClientConstants DEF Fits, Calls, Ids
 <2>5. ServerId(c.id)' = ServerId(c.id) BY <2>3, <2>4, <1>11
 <2> DEFINE i == c.id
            k == ServerId(c.id)
 <2>6. Stale(i) /\ Stale(k) BY <2>2
 <2> HIDE DEF i, k
 <2>7. (\A o \in onServer' : o.id # i /\ o.id # k) /\ NoNote(wire', i) /\ NoNote(wire', k) BY <2>6, <1>2, <1>4 DEF Stale
 <2> QED BY <2>5, <2>7 DEF Stale, i, k
<1>22. OldIdsAreStale'
 <2>1. \A k \in Ids : serverIds'[k] # 0 => Stale(k)'
  <3>1. \A k \in Ids : serverIds'[k] # 0 => Stale(k) BY <1>1, <1>7, <1>10 DEF OldIdsAreStale
  <3> QED BY <3>1, <1>4
 <2>2. ASSUME NEW w \in Uses, users[w].id # 0, users[w].state # "stopping", users[w].id \notin resubscribeCalls \cup publishIds
       PROVE  Stale(users[w].id)' /\ Stale(ServerId(users[w].id))'
  <3>1. Stale(users[w].id) /\ Stale(ServerId(users[w].id)) /\ users'[w].id = users[w].id /\ users[w].id \in Ids /\ users[w].id # l
      BY <2>2, <1>1, <1>2, <1>8, ClientTypes DEF OldIdsAreStale
  <3>2. ServerId(users[w].id)' = ServerId(users[w].id) BY <3>1, <1>10 DEF ServerId
  <3> DEFINE i == users[w].id
             k == ServerId(users[w].id)
  <3>3. Stale(i) /\ Stale(k) BY <3>1
  <3> HIDE DEF i, k
  <3>4. (\A o \in onServer' : o.id # i /\ o.id # k) /\ NoNote(wire', i) /\ NoNote(wire', k) BY <3>3, <1>2, <1>4 DEF Stale
  <3> QED BY <3>1, <3>2, <3>4 DEF Stale, i, k
 <2> QED BY <2>1, <2>2, <1>2, <1>8 DEF OldIdsAreStale
<1>23. SubscriptionsAreOwned'
 <2> SUFFICES ASSUME NEW o \in onServer
              PROVE  \/ Pending(o.use, o.id)'
                     \/ Mapped(o.use, o.id)' /\ Owned(o.use)'
                     \/ Call("unsubscribe", o.use, o.id) \in sent /\ ~Owned(o.use)'
                     \/ TooLate(o)'
     BY <1>2 DEF SubscriptionsAreOwned, Call
 <2>1. o.use \in Uses /\ ~Stale(o.id) BY <1>1, ClientTypes DEF Stale
 <2>2. \/ Pending(o.use, o.id)
       \/ Mapped(o.use, o.id) /\ Owned(o.use)
       \/ Call("unsubscribe", o.use, o.id) \in sent /\ ~Owned(o.use)
       \/ TooLate(o)
     BY <1>1 DEF SubscriptionsAreOwned
 <2>3. TooLate(o) /\ o.id # s => TooLate(o)'
  <3>1. o.id \in Ids BY <1>1, ClientTypes
  <3> QED BY <3>1, <1>2, <1>11 DEF TooLate
 <2>4. o.id = s => o.use = u BY <1>1, <1>6 DEF SubscribedOnce
 <2> QED BY <2>1, <2>2, <2>3, <2>4, <1>4, <1>7, <1>9, <1>11
<1>24. GivenBackIsFree'
 <2> SUFFICES ASSUME NEW d \in sent, ~Asks(d)
              PROVE  /\ d.id # 0 /\ users'[d.use].state \in {"stopping", "stopped"}
                     /\ \A w \in Uses : ~Pending(w, d.id)'
                     /\ \A w \in Uses : Owned(w)' => ~Mapped(w, d.id)'
     BY <1>2 DEF GivenBackIsFree
 <2>1. d.id # 0 /\ users[d.use].state \in {"stopping", "stopped"} /\ (\A w \in Uses : ~Pending(w, d.id)) /\ (\A w \in Uses : Owned(w) => ~Mapped(w, d.id))
     BY <1>1 DEF GivenBackIsFree
 <2>2. d.use \in Uses /\ d.id # s BY <2>1, <1>1, <1>4, ClientTypes
 <2> QED BY <2>1, <2>2, <1>4, <1>8, <1>9, <1>11
<1>25. \A w \in Uses : w # u => \A v : users[w].id # 0 /\ Holds(w, v) => Holds(w, v)'
 <2>1. \A w \in Uses : w # u /\ users[w].id # 0 => users[w].id \in Ids /\ users[w].id # l /\ users[w].id # s
     BY <1>1, <1>6, <1>7, ClientTypes DEF Unclaimed
 <2> QED BY <2>1, <1>8 DEF Holds
<1>26. NewestArrives'
 <2> SUFFICES ASSUME NEW o \in onServer, users[o.use].state \in {"calling", "live"}
              PROVE  \/ TellsLast(wire', o.id, versions[o.use])
                     \/ NoNote(wire', o.id) /\ Holding(o.use, o.id, versions[o.use])'
  <3>1. \A o \in onServer : o.use \in Uses BY <1>1, ClientTypes
  <3> QED BY <3>1, <1>2, <1>8 DEF NewestArrives
 <2>1. o.use \in Uses /\ o.id \in Ids BY <1>1, ClientTypes
 <2>2. CASE o.use # u
  <3>1. (\A i : Mapped(o.use, i)' <=> Mapped(o.use, i)) /\ (\A v : users[o.use].id # 0 /\ Holds(o.use, v) => Holds(o.use, v)')
      BY <2>1, <2>2, <1>11, <1>25
  <3>2. o.id # s BY <2>2, <1>1, <1>6 DEF SubscribedOnce
  <3>3. Unclaimed(o.id) => buffers'[o.id] = buffers[o.id] BY <3>2, <2>1, <1>4, <1>7, <1>8 DEF Unclaimed
  <3>4. \A v : v = versions[o.use] => \/ TellsLast(wire', o.id, v)
                                      \/ NoNote(wire', o.id) /\ Holding(o.use, o.id, v)'
      BY <3>1, <3>3, <1>4, NewestOfOneStays
  <3> QED BY <3>4, <1>2
 <2>3. CASE o.use = u
  <3>1. o.id = s
   <4>1. \A p \in onServer : p.use = o.use => o = p BY <1>1 DEF SubscribedOnce
   <4>2. o = [use |-> u, id |-> s] BY <4>1, <2>3, <1>6
   <4> QED BY <4>2
  <3>2. ~Mapped(u, s) BY <1>6, <1>11
  <3>3. \/ TellsLast(wire, s, versions[u])
        \/ NoNote(wire, s) /\ Holding(u, s, versions[u])
      BY <2>3, <3>1, <1>1 DEF NewestArrives
  <3>4. \A v : v = versions[u] => \/ TellsLast(wire', s, v)
                                  \/ NoNote(wire', s) /\ buffers[s] # <<>> /\ Last(buffers[s]) = v
      BY <3>2, <3>3, <1>4 DEF Holding
  <3>5. \A v : buffers[s] # <<>> /\ Last(buffers[s]) = v => Holds(u, v)' BY <1>4, <1>7, <1>8 DEF Holds
  <3>6. \A v : Holds(u, v)' => Holding(u, s, v)' BY <1>11 DEF Holding
  <3>7. \A v : v = versions[u] => TellsLast(wire', s, v) \/ (NoNote(wire', s) /\ Holding(u, s, v)') BY <3>4, <3>5, <3>6
  <3> QED BY <2>3, <3>1, <3>7, <1>2
 <2> QED BY <2>2, <2>3
<1>27. LiveAreServed'
 <2>1. \A w \in Uses : w # u => (Resubscribing(w) => Resubscribing(w)') /\ (users[w].id # 0 /\ ToldOfStop(w) => ToldOfStop(w)')
     BY <1>0, <1>2, <1>5, <1>25 DEF Resubscribing, ToldOfStop
 <2>2. \A w \in Uses : users[w].state = "live" => users[w].id # 0 BY <1>1 DEF SilentHaveNothing
 <2>3. \A w \in Uses : w # u /\ users[w].id # 0 => ServerId(users[w].id)' = ServerId(users[w].id)
  <3>1. \A w \in Uses : w # u /\ users[w].id # 0 => users[w].id \in Ids /\ users[w].id # l BY <1>1, <1>7, ClientTypes
  <3> QED BY <3>1, <1>8, <1>10 DEF ServerId
 <2>4. users[u].id \in resubscribeCalls /\ ServerId(users[u].id)' = s /\ [use |-> u, id |-> s] \in onServer
     BY <1>2, <1>4, <1>6, <1>7, <1>8, <1>10 DEF ServerId
 <2>5. ASSUME NEW w \in Uses, users[w].state = "live", UserKind(w) # "publication"
       PROVE  \/ /\ users[w].id \in resubscribeCalls
                 /\ Connected => [use |-> w, id |-> ServerId(users[w].id)'] \in onServer \/ Resubscribing(w)' \/ users'[w].told
              \/ users[w].id \notin resubscribeCalls /\ ToldOfStop(w)'
  <3>1. CASE w = u BY <3>1, <2>4
  <3>2. CASE w # u BY <3>2, <2>1, <2>2, <2>3, <2>5, <1>1, <1>8 DEF LiveAreServed
  <3> QED BY <3>1, <3>2
 <2> QED BY <2>5, <1>2, <1>8 DEF LiveAreServed, UserKind, Connected
<1>28. PublicationsAreKept' BY <1>1, <1>2, <1>8 DEF PublicationsAreKept, PublicationIsTold, UserKind
<1> QED
    BY <1>4, <1>12, <1>13, <1>14, <1>15, <1>16, <1>17, <1>18, <1>19, <1>20, <1>21, <1>22, <1>23, <1>24, <1>26, <1>27, <1>28 DEF ClientInv

(* An instance that is told of the stop is not asked for again. *)
LEMMA NotRunningKeepsClient ==
    ASSUME ClientInv, notRunning
    PROVE  ClientInv'
<1>0. PICK h, u, l : h = Head(wire) /\ u = h.call.use /\ l = h.call.id OBVIOUS
<1>1. /\ ClientTypeOK /\ DroppedIsEmpty /\ SubscribedOnce /\ SilentHaveNothing /\ LiveAreServed
      /\ ListsComeBack /\ IdsAreSingle /\ IdsAreGivenOut /\ UnansweredAreNew /\ CallsFit /\ TablesAreOwned /\ OldCallsAreStale
      /\ OldIdsAreStale /\ SubscriptionsAreOwned /\ GivenBackIsFree /\ PublicationsAreKept
    BY DEF ClientInv
<1>2. /\ wire # <<>> /\ h.type = "answer" /\ h.call.method = "resubscribe" /\ wire' = Tail(wire) /\ h.id = 0
      /\ resubscribeCalls' = resubscribeCalls \ {l} /\ sent' = sent /\ serverIds' = serverIds
      /\ l \in resubscribeCalls => Dispatched(l, <<Stopped>>, users, buffers)
      /\ l \notin resubscribeCalls => users' = users /\ buffers' = buffers
      /\ clientJob' = clientJob /\ overdue' = overdue /\ link' = link
      /\ publishIds' = publishIds /\ retry' = retry /\ handled' = handled /\ onServer' = onServer /\ versions' = versions /\ ids' = ids
    BY <1>0 DEF notRunning, Answered
<1>3. Asks(h.call) BY <1>2 DEF Asks
<1>4. /\ wire' \in Seq(NoteRows \cup AnswerRows)
      /\ h.call \in Calls /\ u \in Uses /\ Flying(h.call) /\ Fits(h.call) /\ Connected
      /\ \A i : Stale(i) => Stale(i)'
      /\ \A w, i : Pending(w, i)' => Pending(w, i)
      /\ \A w, i : i # 0 /\ Pending(w, i) => Pending(w, i)'
      /\ AskedOnce' /\ StopsAreTrue' /\ SubscribedOnce'
      /\ versions[u] = Stopped /\ \A o \in onServer : o.use # u
      /\ \A i, v : TellsLast(wire, i, v) => TellsLast(wire', i, v)
      /\ \A i : NoNote(wire, i) => NoNote(wire', i)
 <2>1. sent \subseteq sent' /\ \A c \in sent' : Asks(c) => c \in sent BY <1>2
 <2> QED BY <2>1, <1>0, <1>2, <1>3, AnswerIsRead
<1>5. /\ \A c : Flying(c)' => Flying(c)
      /\ \A c : Flying(c) => Flying(c)' \/ h.call = c
      /\ \A c : Flying(c)' /\ Asks(c) => c.use # u
 <2>1. sent \subseteq sent' /\ \A c \in sent' : Asks(c) => c \in sent BY <1>2
 <2>2. \A c : Flying(c)' => Flying(c) \/ (c \in sent' /\ ~Asks(c)) BY <2>1, <1>0, <1>2, AnswerIsRead
 <2>3. \A c : Flying(c) => Flying(c)' \/ h.call = c BY <2>1, <1>0, <1>2, AnswerIsRead
 <2>4. \A c : c \in sent => Flying(c) BY DEF Flying
 <2>5. \A c : Flying(c)' /\ Asks(c) => c.use # u BY <2>1, <1>0, <1>2, <1>3, AnswerIsRead
 <2> QED BY <2>2, <2>3, <2>4, <2>5, <1>2
<1>6. l \in Ids /\ l # 0 /\ Stale(l) /\ Stale(ServerId(l))
 <2>1. l # 0 /\ l \in 0..MaxIds BY <1>0, <1>2, <1>4 DEF Fits, Calls
 <2>2. Stale(l) /\ Stale(ServerId(l)) BY <1>0, <1>1, <1>2, <1>4 DEF OldCallsAreStale
 <2> QED BY <2>1, <2>2, ClientConstants DEF Ids
(* Who is in the table is told, and nobody else. *)
<1>7. l \in resubscribeCalls => users[u].id = l /\ Owned(u) /\ \A w \in Uses : w # u => users[w].id # l
 <2>1. l \in resubscribeCalls => users[u].id = l /\ Owned(u) BY <1>0, <1>2, <1>4 DEF Fits
 <2> QED BY <2>1, <1>1, <1>4, <1>6 DEF IdsAreSingle
<1>8. l \notin resubscribeCalls => users[u].state \in {"stopping", "stopped"} BY <1>0, <1>2, <1>4 DEF Fits
<1>9. /\ users' \in [Uses -> UserRows] /\ buffers' \in [Ids -> Seq(Nat)]
      /\ \A w \in Uses : /\ users'[w].state = users[w].state /\ users'[w].id = users[w].id
                         /\ users'[w].attached = users[w].attached /\ users'[w].told = users[w].told
                         /\ w # u => users'[w].seen = users[w].seen
      /\ \A k \in Ids : k # l \/ l \notin resubscribeCalls => buffers'[k] = buffers[k]
      /\ l \in resubscribeCalls => IF users'[u].attached THEN users'[u].seen = Stopped ELSE buffers'[l] # <<>> /\ Last(buffers'[l]) = Stopped
 <2>1. users \in [Uses -> UserRows] /\ buffers \in [Ids -> Seq(Nat)] BY <1>1 DEF ClientTypeOK
 <2>2. CASE l \notin resubscribeCalls BY <2>1, <2>2, <1>2
 <2>3. CASE l \in resubscribeCalls
  <3>1. PICK vs : vs = <<Stopped>> OBVIOUS
  <3>2. vs \in Seq(Nat) /\ vs # <<>> /\ Last(vs) = Stopped BY <3>1 DEF Stopped, Last
  <3>3. Dispatched(l, vs, users, buffers) BY <3>1, <2>3, <1>2
  <3>4. /\ users' \in [Uses -> UserRows] /\ buffers' \in [Ids -> Seq(Nat)]
        /\ \A w \in Uses : /\ users'[w].state = users[w].state /\ users'[w].id = users[w].id
                           /\ users'[w].attached = users[w].attached /\ users'[w].told = users[w].told
                           /\ ~(users[w].id = l /\ users[w].attached) => users'[w].seen = users[w].seen
                           /\ users[w].id = l /\ users[w].attached => users'[w].seen = Last(vs)
                           /\ users[w].id = l /\ ~users[w].attached => buffers'[l] # <<>> /\ Last(buffers'[l]) = Last(vs)
        /\ \A k \in Ids : k # l => buffers'[k] = buffers[k]
      BY <3>2, <3>3, <2>1, <1>1, <1>6, DispatchDoes
  <3>5. \A w \in Uses : w # u => users'[w].seen = users[w].seen BY <3>4, <2>3, <1>7
  <3>6. IF users'[u].attached THEN users'[u].seen = Stopped ELSE buffers'[l] # <<>> /\ Last(buffers'[l]) = Stopped
      BY <3>2, <3>4, <2>3, <1>4, <1>7
  <3> QED BY <3>4, <3>5, <3>6, <2>3
 <2> QED BY <2>2, <2>3
<1>10. \A w \in Uses : (Silent(w)' <=> Silent(w)) /\ (Owned(w)' <=> Owned(w)) BY <1>9 DEF Silent, Owned
<1>11. /\ \A w \in Uses : \A i : Mapped(w, i)' <=> Mapped(w, i)
       /\ \A i : Unclaimed(i)' <=> Unclaimed(i)
       /\ \A k : ServerId(k)' = ServerId(k)
    BY <1>2, <1>9 DEF Mapped, Unclaimed, ServerId
<1>12. ClientTypeOK' BY <1>1, <1>2, <1>4, <1>9 DEF ClientTypeOK
<1>13. DroppedIsEmpty' BY <1>1, <1>2, <1>4, <1>9 DEF DroppedIsEmpty, Connected
<1>14. ListsComeBack' BY <1>1, <1>2, <1>9, ListsStay
<1>15. SilentHaveNothing'
 <2>1. \A w \in Uses : Silent(w)' => (\A c \in Calls : Flying(c)' => c.use # w) /\ (\A o \in onServer' : o.use # w)
     BY <1>1, <1>2, <1>5, <1>10 DEF SilentHaveNothing
 <2> QED BY <2>1, <1>1, <1>9, <1>10 DEF SilentHaveNothing
<1>16. IdsAreSingle'
 <2>0. (\A w \in Uses : users'[w].id = users[w].id) /\ serverIds' = serverIds /\ ids' = ids /\ IdsAreSingle BY <1>1, <1>2, <1>9
 <2>1. (\A w \in Uses : users'[w].id <= ids') /\ (\A k \in Ids : serverIds'[k] <= ids') BY <2>0 DEF IdsAreSingle
 <2>2. \A k \in Ids : serverIds'[k] # 0 => \E w \in Uses : users'[w].id = k BY <2>0 DEF IdsAreSingle
 <2>3. \A w, x \in Uses : users'[w].id = users'[x].id /\ users'[w].id # 0 => w = x BY <2>0 DEF IdsAreSingle
 <2>4. \A j, k \in Ids : serverIds'[j] = serverIds'[k] /\ serverIds'[j] # 0 => j = k BY <2>0 DEF IdsAreSingle
 <2>5. \A k \in Ids, w \in Uses : serverIds'[k] # 0 => serverIds'[k] # users'[w].id BY <2>0 DEF IdsAreSingle
 <2> QED BY <2>1, <2>2, <2>3, <2>4, <2>5 DEF IdsAreSingle
<1>17. IdsAreGivenOut' BY <1>1, <1>2, <1>4, <1>5 DEF IdsAreGivenOut
<1>18. UnansweredAreNew' BY <1>1, <1>2, <1>4, <1>11 DEF UnansweredAreNew
<1>19. CallsFit'
 <2> SUFFICES ASSUME NEW c \in Calls, Flying(c)' PROVE Fits(c)' BY DEF CallsFit
 <2>1. Fits(c) /\ c.use \in Uses BY <1>1, <1>5 DEF CallsFit, Calls
 <2>2. users'[c.use].state = users[c.use].state /\ users'[c.use].id = users[c.use].id /\ (Owned(c.use)' <=> Owned(c.use))
     BY <2>1, <1>9, <1>10
 <2>3. c.method = "resubscribe" /\ c.id \in resubscribeCalls => c.id # l BY <2>1, <1>5, <1>7 DEF Fits, Asks
 <2> QED BY <2>1, <2>2, <2>3, <1>2 DEF Fits
<1>20. TablesAreOwned'
 <2>1. \A j \in resubscribeCalls : \E w \in Uses : users'[w].id = j /\ Owned(w)' /\ UserKind(w)' # "publication"
  <3> SUFFICES ASSUME NEW j \in resubscribeCalls PROVE \E w \in Uses : users'[w].id = j /\ Owned(w)' /\ UserKind(w)' # "publication" OBVIOUS
  <3>1. PICK w \in Uses : users[w].id = j /\ Owned(w) /\ UserKind(w) # "publication" BY <1>1 DEF TablesAreOwned
  <3> QED BY <3>1, <1>2, <1>9, <1>10 DEF UserKind
 <2>2. \A j \in publishIds : \E w \in Uses : users'[w].id = j /\ Owned(w)' /\ UserKind(w)' = "publication"
  <3> SUFFICES ASSUME NEW j \in publishIds PROVE \E w \in Uses : users'[w].id = j /\ Owned(w)' /\ UserKind(w)' = "publication" OBVIOUS
  <3>1. PICK w \in Uses : users[w].id = j /\ Owned(w) /\ UserKind(w) = "publication" BY <1>1 DEF TablesAreOwned
  <3> QED BY <3>1, <1>2, <1>9, <1>10 DEF UserKind
 <2>3. \A w \in Uses : users'[w].id # 0 /\ UserKind(w)' = "publication" => serverIds'[users'[w].id] = 0
     BY <1>1, <1>2, <1>9 DEF TablesAreOwned, UserKind
 <2> QED BY <2>1, <2>2, <2>3, <1>1, <1>2 DEF TablesAreOwned
<1>21. OldCallsAreStale' BY <1>1, <1>4, <1>5, <1>11 DEF OldCallsAreStale
<1>22. OldIdsAreStale'
 <2>1. \A k \in Ids : serverIds'[k] # 0 => Stale(k)' BY <1>1, <1>2, <1>4 DEF OldIdsAreStale
 <2>2. ASSUME NEW w \in Uses, users[w].id # 0, users[w].state # "stopping", users[w].id \notin resubscribeCalls' \cup publishIds
       PROVE  Stale(users[w].id)' /\ Stale(ServerId(users[w].id))'
  <3>1. Stale(users[w].id) /\ Stale(ServerId(users[w].id)) /\ users'[w].id = users[w].id BY <2>2, <1>1, <1>2, <1>6, <1>9 DEF OldIdsAreStale
  <3>2. ServerId(users[w].id)' = ServerId(users[w].id) BY <3>1, <1>2 DEF ServerId
  <3> DEFINE i == users[w].id
             k == ServerId(users[w].id)
  <3>3. Stale(i) /\ Stale(k) BY <3>1
  <3> HIDE DEF i, k
  <3>4. (\A o \in onServer' : o.id # i /\ o.id # k) /\ NoNote(wire', i) /\ NoNote(wire', k) BY <3>3, <1>2, <1>4 DEF Stale
  <3> QED BY <3>1, <3>2, <3>4 DEF Stale, i, k
 <2> QED BY <2>1, <2>2, <1>2, <1>9 DEF OldIdsAreStale
<1>23. SubscriptionsAreOwned'
 <2> SUFFICES ASSUME NEW o \in onServer
              PROVE  \/ Pending(o.use, o.id)'
                     \/ Mapped(o.use, o.id)' /\ Owned(o.use)'
                     \/ Call("unsubscribe", o.use, o.id) \in sent /\ ~Owned(o.use)'
                     \/ TooLate(o)'
     BY <1>2 DEF SubscriptionsAreOwned, Call
 <2>1. o.use \in Uses /\ o.id # 0 BY <1>1, ClientTypes
 <2>2. \/ Pending(o.use, o.id)
       \/ Mapped(o.use, o.id) /\ Owned(o.use)
       \/ Call("unsubscribe", o.use, o.id) \in sent /\ ~Owned(o.use)
       \/ TooLate(o)
     BY <1>1 DEF SubscriptionsAreOwned
 <2>3. TooLate(o) => TooLate(o)' BY <1>2, <1>9 DEF TooLate, Unclaimed
 <2> QED BY <2>1, <2>2, <2>3, <1>4, <1>10, <1>11
<1>24. GivenBackIsFree'
 <2> SUFFICES ASSUME NEW d \in sent, ~Asks(d)
              PROVE  /\ d.id # 0 /\ users'[d.use].state \in {"stopping", "stopped"}
                     /\ \A w \in Uses : ~Pending(w, d.id)'
                     /\ \A w \in Uses : Owned(w)' => ~Mapped(w, d.id)'
     BY <1>2 DEF GivenBackIsFree
 <2>1. d.id # 0 /\ users[d.use].state \in {"stopping", "stopped"} /\ (\A w \in Uses : ~Pending(w, d.id)) /\ (\A w \in Uses : Owned(w) => ~Mapped(w, d.id))
     BY <1>1 DEF GivenBackIsFree
 <2>2. d.use \in Uses BY <1>1, ClientTypes
 <2> QED BY <2>1, <2>2, <1>4, <1>9, <1>10, <1>11
<1>25. \A w \in Uses : w # u => \A v : users[w].id # 0 /\ Holds(w, v) => Holds(w, v)'
 <2>1. \A w \in Uses : w # u /\ users[w].id # 0 => users[w].id \in Ids /\ (users[w].id # l \/ l \notin resubscribeCalls)
     BY <1>1, <1>7, ClientTypes
 <2> QED BY <2>1, <1>9 DEF Holds
<1>26. NewestArrives'
 <2> DEFINE W == Uses \ {u}
 <2>1. \A o \in onServer' : o.use \in Uses /\ o.use \in W BY <1>1, <1>2, <1>4, ClientTypes
 <2>2. \A o \in onServer' : Unclaimed(o.id) => buffers'[o.id] = buffers[o.id]
  <3>1. \A o \in onServer' : o.id \in Ids BY <1>1, <1>2, ClientTypes
  <3>2. l \in resubscribeCalls => ~Unclaimed(l) BY <1>4, <1>7 DEF Unclaimed
  <3> QED BY <3>1, <3>2, <1>9
 <2>3. W \in SUBSET Uses /\ (\A w \in W : \A i : Mapped(w, i)' <=> Mapped(w, i)) /\ (\A w \in W : \A v : users[w].id # 0 /\ Holds(w, v) => Holds(w, v)')
       /\ \A w \in W : users'[w].state = users[w].state
     BY <1>9, <1>11, <1>25
 <2> HIDE DEF W
 <2> QED BY <2>1, <2>2, <2>3, <1>2, <1>4, NewestStay
<1>27. LiveAreServed'
 <2>1. \A w \in Uses : w # u => (Resubscribing(w) => Resubscribing(w)') /\ (users[w].id # 0 /\ ToldOfStop(w) => ToldOfStop(w)')
     BY <1>0, <1>2, <1>5, <1>25 DEF Resubscribing, ToldOfStop
 <2>2. \A w \in Uses : users[w].state = "live" => users[w].id # 0 BY <1>1 DEF SilentHaveNothing
 <2>3. \A w \in Uses : ServerId(users[w].id)' = ServerId(users[w].id) BY <1>2, <1>9 DEF ServerId
 <2>4. l \in resubscribeCalls => users[u].id \notin resubscribeCalls' /\ ToldOfStop(u)' BY <1>2, <1>4, <1>7, <1>9 DEF ToldOfStop, Holds
 <2>5. ASSUME NEW w \in Uses, users[w].state = "live", UserKind(w) # "publication"
       PROVE  \/ /\ users[w].id \in resubscribeCalls'
                 /\ Connected => [use |-> w, id |-> ServerId(users[w].id)] \in onServer \/ Resubscribing(w)' \/ users'[w].told
              \/ users[w].id \notin resubscribeCalls' /\ ToldOfStop(w)'
  <3>1. CASE w = u BY <3>1, <2>4, <2>5, <1>8
  <3>2. CASE w # u
   <4>1. users[w].id \in resubscribeCalls' <=> users[w].id \in resubscribeCalls BY <3>2, <1>2, <1>7
   <4> QED BY <3>2, <4>1, <2>1, <2>2, <2>5, <1>1, <1>9 DEF LiveAreServed
  <3> QED BY <3>1, <3>2
 <2> QED BY <2>3, <2>5, <1>2, <1>9 DEF LiveAreServed, UserKind, Connected
<1>28. PublicationsAreKept' BY <1>1, <1>2, <1>9 DEF PublicationsAreKept, PublicationIsTold, UserKind
<1> QED
    BY <1>4, <1>12, <1>13, <1>14, <1>15, <1>16, <1>17, <1>18, <1>19, <1>20, <1>21, <1>22, <1>23, <1>24, <1>26, <1>27, <1>28 DEF ClientInv

(* What a step that ends one subscription leaves to everybody else. *)
LEMMA GoneKeepsClient ==
    ASSUME ClientInv, NEW u \in Uses, NEW l, l = users[u].id, l # 0, users[u].state \in {"live", "stopping"}, UserKind(u) # "list",
           Owned(u) => \A o \in onServer : o.id # ServerId(l),
           resubscribeCalls' = resubscribeCalls \ {l}, publishIds' = publishIds \ {l},
           users' = [users EXCEPT ![u].state = "stopped", ![u].attached = FALSE, ![u].id = 0],
           serverIds' = [serverIds EXCEPT ![l] = 0], buffers' = [buffers EXCEPT ![l] = <<>>],
           clientJob' = clientJob, overdue' = overdue, link' = link, retry' = retry, handled' = handled, onServer' = onServer, versions' = versions,
           ids' = ids, sent' = sent,
           wire' \in Seq(NoteRows \cup AnswerRows), ~Connected => wire' = <<>>,
           \A i : Stale(i) => Stale(i)',
           \A w, i : Pending(w, i)' <=> Pending(w, i),
           \A c : Flying(c)' => Flying(c),
           \A c : Flying(c) /\ Asks(c) => Flying(c)',
           AskedOnce', StopsAreTrue', SubscribedOnce',
           \A i, v : TellsLast(wire, i, v) => TellsLast(wire', i, v),
           \A i : NoNote(wire, i) => NoNote(wire', i)
    PROVE  ClientInv' /\ \A w \in Uses : users'[w].seen = users[w].seen
<1>1. /\ ClientTypeOK /\ DroppedIsEmpty /\ SilentHaveNothing /\ LiveAreServed
      /\ ListsComeBack /\ IdsAreSingle /\ IdsAreGivenOut /\ UnansweredAreNew /\ CallsFit /\ TablesAreOwned /\ OldCallsAreStale
      /\ OldIdsAreStale /\ SubscriptionsAreOwned /\ GivenBackIsFree /\ PublicationsAreKept
    BY DEF ClientInv
<1>2. users \in [Uses -> UserRows] /\ l \in Ids /\ serverIds \in [Ids -> 0..MaxIds] /\ buffers \in [Ids -> Seq(Nat)]
    BY <1>1, ClientTypes DEF ClientTypeOK
<1>3. /\ users' \in [Uses -> UserRows] /\ users'[u].state = "stopped" /\ users'[u].id = 0 /\ ~users'[u].attached
      /\ \A w \in Uses : w # u => users'[w] = users[w]
      /\ \A w \in Uses : users'[w].seen = users[w].seen /\ users'[w].told = users[w].told
 <2>0. 0 \in 0..MaxIds BY ClientConstants
 <2>1. users' \in [Uses -> UserRows]
  <3>1. users[u] \in UserRows BY <1>2
  <3>2. [users[u] EXCEPT !.state = "stopped", !.attached = FALSE, !.id = 0] \in UserRows BY <3>1, <2>0 DEF UserRows, UserStates
  <3>3. users' = [users EXCEPT ![u] = [users[u] EXCEPT !.state = "stopped", !.attached = FALSE, !.id = 0]] BY <1>2 DEF UserRows
  <3> QED BY <3>2, <3>3, <1>2
 <2> QED BY <2>1, <1>2 DEF UserRows
<1>4. /\ serverIds' \in [Ids -> 0..MaxIds] /\ serverIds'[l] = 0 /\ \A k \in Ids : k # l => serverIds'[k] = serverIds[k]
      /\ buffers' \in [Ids -> Seq(Nat)] /\ \A k \in Ids : k # l => buffers'[k] = buffers[k]
    BY <1>2, ClientConstants
<1>5. \A w \in Uses : w # u => users[w].id # l BY <1>1 DEF IdsAreSingle
<1>6. \A w \in Uses : w # u => /\ (Silent(w)' <=> Silent(w)) /\ (Owned(w)' <=> Owned(w))
                               /\ \A v : users[w].id # 0 /\ Holds(w, v) => Holds(w, v)'
 <2>1. \A w \in Uses : w # u => (Silent(w)' <=> Silent(w)) /\ (Owned(w)' <=> Owned(w)) BY <1>3 DEF Silent, Owned
 <2>2. \A w \in Uses : w # u /\ users[w].id # 0 => users[w].id \in Ids /\ users[w].id # l BY <1>1, <1>5, ClientTypes
 <2> QED BY <2>1, <2>2, <1>3, <1>4 DEF Holds
<1>7. ~Silent(u) /\ ~Silent(u)' /\ ~Owned(u)' BY <1>3 DEF Silent, Owned
<1>8. \A w \in Uses : w # u /\ users[w].id # 0 => ServerId(users[w].id)' = ServerId(users[w].id)
 <2> SUFFICES ASSUME NEW w \in Uses, w # u, users[w].id # 0 PROVE ServerId(users[w].id)' = ServerId(users[w].id) OBVIOUS
 <2>1. users[w].id \in Ids /\ users[w].id # l /\ users'[w].id = users[w].id BY <1>1, <1>3, <1>5, ClientTypes
 <2>2. serverIds'[users[w].id] = serverIds[users[w].id] BY <2>1, <1>4
 <2> QED BY <2>1, <2>2 DEF ServerId
<1>9. (\A w \in Uses : w # u => \A i : Mapped(w, i)' <=> Mapped(w, i)) /\ \A i : ~Mapped(u, i)' BY <1>3, <1>8 DEF Mapped
<1>10. ClientTypeOK' BY <1>1, <1>3, <1>4 DEF ClientTypeOK
<1>11. DroppedIsEmpty' BY <1>1, <1>3 DEF DroppedIsEmpty, Connected
<1>12. ListsComeBack'
 <2>1. \A w \in retry : w \in Uses /\ w # u BY <1>1 DEF ListsComeBack, ClientTypeOK
 <2>2. \A w \in retry' : UserKind(w)' = "list" /\ users'[w].state = "threw" BY <2>1, <1>1, <1>3 DEF ListsComeBack, UserKind
 <2>3. \A w \in Uses : users'[w].state = "waiting" => link'.state = "connecting" BY <1>1, <1>3 DEF ListsComeBack
 <2>4. \A w \in Uses : w \in DOMAIN clientJob'.kind => users'[w].state # "absent" BY <1>1, <1>3 DEF ListsComeBack
 <2>5. \A w \in Uses : users'[w].state \in {"unwanted", "stopping", "stopped"} => UserKind(w)' # "list"
     BY <1>1, <1>3 DEF ListsComeBack, UserKind
 <2>6. \A w \in Uses : users'[w].state = "threw" /\ UserKind(w)' = "list" /\ link'.state # "failed" => ~Connected' /\ w \in retry'
     BY <1>1, <1>3 DEF ListsComeBack, UserKind, Connected
 <2> QED BY <2>2, <2>3, <2>4, <2>5, <2>6 DEF ListsComeBack
<1>13. SilentHaveNothing'
 <2>1. \A w \in Uses : Silent(w)' => (\A c \in Calls : Flying(c)' => c.use # w) /\ (\A o \in onServer' : o.use # w)
     BY <1>1, <1>6, <1>7 DEF SilentHaveNothing
 <2>2. \A w \in Uses : Silent(w)' \/ users'[w].state = "calling" => users'[w].id = 0 BY <1>1, <1>3, <1>6, <1>7 DEF SilentHaveNothing
 <2>3. \A w \in Uses : users'[w].id = 0 => ~users'[w].attached BY <1>1, <1>3 DEF SilentHaveNothing
 <2>4. \A w \in Uses : users'[w].state \in {"live", "stopping"} => users'[w].id # 0 BY <1>1, <1>3 DEF SilentHaveNothing
 <2> QED BY <2>1, <2>2, <2>3, <2>4 DEF SilentHaveNothing
<1>14. IdsAreSingle'
 <2>1. \A w \in Uses : users'[w].id <= ids'
  <3>1. 0 <= ids BY <1>1, ClientConstants DEF ClientTypeOK
  <3> QED BY <3>1, <1>1, <1>3 DEF IdsAreSingle
 <2>2. \A k \in Ids : serverIds'[k] <= ids'
  <3>1. 0 <= ids BY <1>1, ClientConstants DEF ClientTypeOK
  <3> QED BY <3>1, <1>1, <1>4 DEF IdsAreSingle
 <2>3. ASSUME NEW k \in Ids, serverIds'[k] # 0 PROVE \E w \in Uses : users'[w].id = k
  <3>1. k # l /\ serverIds[k] # 0 BY <2>3, <1>4
  <3>2. PICK w \in Uses : users[w].id = k BY <3>1, <1>1 DEF IdsAreSingle
  <3> QED BY <3>1, <3>2, <1>3
 <2>4. \A w, x \in Uses : users'[w].id = users'[x].id /\ users'[w].id # 0 => w = x BY <1>1, <1>3 DEF IdsAreSingle
 <2>5. \A j, k \in Ids : serverIds'[j] = serverIds'[k] /\ serverIds'[j] # 0 => j = k
  <3>1. \A j, k \in Ids : serverIds[j] = serverIds[k] /\ serverIds[j] # 0 => j = k BY <1>1 DEF IdsAreSingle
  <3> QED BY <3>1, <1>4
 <2>6. \A k \in Ids, w \in Uses : serverIds'[k] # 0 => serverIds'[k] # users'[w].id
  <3>1. \A k \in Ids, w \in Uses : serverIds[k] # 0 => serverIds[k] # users[w].id BY <1>1 DEF IdsAreSingle
  <3> QED BY <3>1, <1>3, <1>4
 <2> QED BY <2>1, <2>2, <2>3, <2>4, <2>5, <2>6 DEF IdsAreSingle
<1>15. IdsAreGivenOut' BY <1>1 DEF IdsAreGivenOut
<1>16. UnansweredAreNew'
 <2> SUFFICES ASSUME NEW w \in Uses, NEW i \in Ids, Pending(w, i)
              PROVE  [use |-> w, id |-> i] \in onServer /\ Unclaimed(i)'
     BY DEF UnansweredAreNew
 <2>1. [use |-> w, id |-> i] \in onServer /\ (\A x \in Uses : users[x].id # i) /\ (\A k \in Ids : serverIds[k] # i) /\ i # 0
     BY <1>1, ClientTypes DEF UnansweredAreNew, Unclaimed
 <2> QED BY <2>1, <1>3, <1>4 DEF Unclaimed
<1>17. CallsFit'
 <2> SUFFICES ASSUME NEW c \in Calls, Flying(c)' PROVE Fits(c)' BY DEF CallsFit
 <2>1. Fits(c) /\ c.use \in Uses BY <1>1 DEF CallsFit, Calls
 <2>2. CASE c.use = u BY <2>1, <2>2, <1>3 DEF Fits
 <2>3. CASE c.use # u
  <3>1. users'[c.use] = users[c.use] /\ (Owned(c.use)' <=> Owned(c.use)) /\ users[c.use].id # l BY <2>1, <2>3, <1>3, <1>5, <1>6
  <3> QED BY <3>1, <2>1 DEF Fits
 <2> QED BY <2>2, <2>3
<1>18. TablesAreOwned'
 <2>1. \A j \in resubscribeCalls' : \E w \in Uses : users'[w].id = j /\ Owned(w)' /\ UserKind(w)' # "publication"
  <3> SUFFICES ASSUME NEW j \in resubscribeCalls, j # l PROVE \E w \in Uses : users'[w].id = j /\ Owned(w)' /\ UserKind(w)' # "publication"
      OBVIOUS
  <3>1. PICK w \in Uses : users[w].id = j /\ Owned(w) /\ UserKind(w) # "publication" BY <1>1 DEF TablesAreOwned
  <3> QED BY <3>1, <1>3, <1>6 DEF UserKind
 <2>2. \A j \in publishIds' : \E w \in Uses : users'[w].id = j /\ Owned(w)' /\ UserKind(w)' = "publication"
  <3> SUFFICES ASSUME NEW j \in publishIds, j # l PROVE \E w \in Uses : users'[w].id = j /\ Owned(w)' /\ UserKind(w)' = "publication"
      OBVIOUS
  <3>1. PICK w \in Uses : users[w].id = j /\ Owned(w) /\ UserKind(w) = "publication" BY <1>1 DEF TablesAreOwned
  <3> QED BY <3>1, <1>3, <1>6 DEF UserKind
 <2>3. ASSUME NEW w \in Uses, users'[w].id # 0, UserKind(w)' = "publication" PROVE serverIds'[users'[w].id] = 0
  <3>1. w # u /\ users'[w].id = users[w].id /\ users[w].id \in Ids /\ users[w].id # l /\ UserKind(w) = "publication"
      BY <2>3, <1>1, <1>3, <1>5, ClientTypes DEF UserKind
  <3>2. serverIds[users[w].id] = 0
   <4>1. \A x \in Uses : users[x].id # 0 /\ UserKind(x) = "publication" => serverIds[users[x].id] = 0 BY <1>1 DEF TablesAreOwned
   <4>2. users[w].id # 0 BY <2>3, <3>1
   <4> QED BY <4>1, <4>2, <3>1
  <3> QED BY <3>1, <3>2, <1>4
 <2> QED BY <2>1, <2>2, <2>3, <1>1 DEF TablesAreOwned
<1>19. OldCallsAreStale'
 <2> SUFFICES ASSUME NEW c \in Calls, Flying(c), c.method = "resubscribe" PROVE Stale(c.id)' /\ Stale(ServerId(c.id))'
     BY DEF OldCallsAreStale
 <2>1. Stale(c.id) /\ Stale(ServerId(c.id)) /\ c.id \in Ids
  <3>1. c.id # 0 /\ c.id \in 0..MaxIds BY <1>1 DEF CallsFit, Fits, Calls
  <3> QED BY <3>1, <1>1, ClientConstants DEF OldCallsAreStale, Ids
 <2>2. c.id = l => ServerId(c.id)' = c.id BY <1>4 DEF ServerId
 <2>3. c.id # l => ServerId(c.id)' = ServerId(c.id) BY <2>1, <1>4 DEF ServerId
 <2> DEFINE i == c.id
            k == ServerId(c.id)
 <2>4. Stale(i) /\ Stale(k) /\ ServerId(c.id)' \in {i, k} BY <2>1, <2>2, <2>3
 <2> HIDE DEF i, k
 <2>5. (\A o \in onServer' : o.id # i /\ o.id # k) /\ NoNote(wire', i) /\ NoNote(wire', k) BY <2>4 DEF Stale
 <2> QED BY <2>4, <2>5 DEF Stale, i, k
<1>20. OldIdsAreStale'
 <2>1. \A k \in Ids : serverIds'[k] # 0 => Stale(k)' BY <1>1, <1>4 DEF OldIdsAreStale
 <2>2. ASSUME NEW w \in Uses, w # u, users[w].id # 0, users[w].state # "stopping", users[w].id \notin resubscribeCalls' \cup publishIds'
       PROVE  Stale(users[w].id)' /\ Stale(ServerId(users[w].id))'
  <3>1. Stale(users[w].id) /\ Stale(ServerId(users[w].id)) /\ users'[w].id = users[w].id BY <2>2, <1>1, <1>3, <1>5 DEF OldIdsAreStale
  <3>2. ServerId(users[w].id)' = ServerId(users[w].id) BY <2>2, <1>8
  <3> DEFINE i == users[w].id
             k == ServerId(users[w].id)
  <3>3. Stale(i) /\ Stale(k) BY <3>1
  <3> HIDE DEF i, k
  <3>4. (\A o \in onServer' : o.id # i /\ o.id # k) /\ NoNote(wire', i) /\ NoNote(wire', k) BY <3>3 DEF Stale
  <3> QED BY <3>1, <3>2, <3>4 DEF Stale, i, k
 <2> QED BY <2>1, <2>2, <1>3 DEF OldIdsAreStale
<1>21. SubscriptionsAreOwned'
 <2> SUFFICES ASSUME NEW o \in onServer
              PROVE  \/ Pending(o.use, o.id)'
                     \/ Mapped(o.use, o.id)' /\ Owned(o.use)'
                     \/ Call("unsubscribe", o.use, o.id) \in sent /\ ~Owned(o.use)'
                     \/ TooLate(o)'
     BY DEF SubscriptionsAreOwned, Call
 <2>1. o.use \in Uses BY <1>1, ClientTypes
 <2>2. \/ Pending(o.use, o.id)
       \/ Mapped(o.use, o.id) /\ Owned(o.use)
       \/ Call("unsubscribe", o.use, o.id) \in sent /\ ~Owned(o.use)
       \/ TooLate(o)
     BY <1>1 DEF SubscriptionsAreOwned
 <2>3. TooLate(o) => TooLate(o)'
  <3>1. o.id # 0 BY <1>1, ClientTypes
  <3> QED BY <3>1, <1>3, <1>4 DEF TooLate, Unclaimed
 <2>4. CASE o.use # u BY <2>1, <2>2, <2>3, <2>4, <1>6, <1>9
 <2>5. CASE o.use = u BY <2>2, <2>3, <2>5, <1>7 DEF Mapped
 <2> QED BY <2>4, <2>5
<1>22. GivenBackIsFree'
 <2> SUFFICES ASSUME NEW d \in sent, ~Asks(d)
              PROVE  /\ d.id # 0 /\ users'[d.use].state \in {"stopping", "stopped"}
                     /\ \A w \in Uses : ~Pending(w, d.id)'
                     /\ \A w \in Uses : Owned(w)' => ~Mapped(w, d.id)'
     BY DEF GivenBackIsFree
 <2>1. d.id # 0 /\ users[d.use].state \in {"stopping", "stopped"} /\ (\A w \in Uses : ~Pending(w, d.id)) /\ (\A w \in Uses : Owned(w) => ~Mapped(w, d.id))
     BY <1>1 DEF GivenBackIsFree
 <2>2. d.use \in Uses BY <1>1, ClientTypes
 <2>3. users'[d.use].state \in {"stopping", "stopped"} BY <2>1, <2>2, <1>3
 <2>4. \A w \in Uses : Owned(w)' => ~Mapped(w, d.id)' BY <2>1, <1>6, <1>7, <1>9
 <2> QED BY <2>1, <2>3, <2>4
<1>23. NewestArrives'
 <2> DEFINE W == Uses \ {u}
 <2>1. \A o \in onServer' : o.use \in Uses BY <1>1, ClientTypes
 <2>2. \A o \in onServer' : users'[o.use].state \in {"calling", "live"} => o.use \in W BY <2>1, <1>3
 <2>3. \A o \in onServer' : Unclaimed(o.id) => buffers'[o.id] = buffers[o.id]
  <3>1. \A o \in onServer' : o.id \in Ids BY <1>1, ClientTypes
  <3>2. ~Unclaimed(l) BY DEF Unclaimed
  <3> QED BY <3>1, <3>2, <1>4
 <2>4. W \in SUBSET Uses /\ (\A w \in W : \A i : Mapped(w, i)' <=> Mapped(w, i)) /\ (\A w \in W : \A v : users[w].id # 0 /\ Holds(w, v) => Holds(w, v)')
       /\ \A w \in W : users'[w].state = users[w].state
     BY <1>3, <1>6, <1>9
 <2> HIDE DEF W
 <2> QED BY <2>2, <2>3, <2>4, NewestStay
<1>24. LiveAreServed'
 <2>1. ASSUME NEW w \in Uses, users'[w].state = "live", UserKind(w) # "publication"
       PROVE  \/ /\ users[w].id \in resubscribeCalls'
                 /\ Connected => [use |-> w, id |-> ServerId(users[w].id)] \in onServer \/ Resubscribing(w)' \/ users'[w].told
              \/ users[w].id \notin resubscribeCalls' /\ ToldOfStop(w)'
  <3>1. w # u /\ users[w].state = "live" /\ users[w].id # 0 BY <2>1, <1>1, <1>3 DEF SilentHaveNothing
  <3>2. (Resubscribing(w) => Resubscribing(w)') /\ (ToldOfStop(w) => ToldOfStop(w)') BY <3>1, <1>6 DEF Resubscribing, ToldOfStop, Asks
  <3>3. users[w].id \in resubscribeCalls' <=> users[w].id \in resubscribeCalls BY <3>1, <1>5
  <3> QED BY <2>1, <3>1, <3>2, <3>3, <1>1, <1>3 DEF LiveAreServed
 <2>2. \A w \in Uses : users'[w].state = "live" => users'[w].id = users[w].id /\ ServerId(users[w].id)' = ServerId(users[w].id)
  <3>1. \A w \in Uses : users'[w].state = "live" => w # u /\ users'[w].id = users[w].id /\ users[w].id # 0
      BY <1>1, <1>3 DEF SilentHaveNothing
  <3> QED BY <3>1, <1>8
 <2>3. (\A w \in Uses : UserKind(w)' = UserKind(w)) /\ (Connected' <=> Connected) BY DEF UserKind, Connected
 <2> SUFFICES ASSUME NEW w \in Uses, users'[w].state = "live", UserKind(w)' # "publication"
              PROVE  (\/ /\ users[w].id \in resubscribeCalls
                         /\ Connected => [use |-> w, id |-> ServerId(users[w].id)] \in onServer \/ Resubscribing(w) \/ users[w].told
                      \/ users[w].id \notin resubscribeCalls /\ ToldOfStop(w))'
     BY DEF LiveAreServed
 <2>4. users'[w].id = users[w].id /\ ServerId(users[w].id)' = ServerId(users[w].id) /\ UserKind(w) # "publication" BY <2>2, <2>3
 <2>5. \/ /\ users[w].id \in resubscribeCalls'
          /\ Connected => [use |-> w, id |-> ServerId(users[w].id)] \in onServer \/ Resubscribing(w)' \/ users'[w].told
       \/ users[w].id \notin resubscribeCalls' /\ ToldOfStop(w)'
     BY <2>1, <2>4
 <2> QED BY <2>3, <2>4, <2>5
<1>25. PublicationsAreKept' BY <1>1, <1>3, <1>5 DEF PublicationsAreKept, PublicationIsTold, UserKind
<1> QED
    BY <1>3, <1>10, <1>11, <1>12, <1>13, <1>14, <1>15, <1>16, <1>17, <1>18, <1>19, <1>20, <1>21, <1>22, <1>23, <1>24, <1>25 DEF ClientInv

(* stop() gives the subscription back, when the server still has it. *)
LEMMA SendUnsubscribeKeepsClient ==
    ASSUME ClientInv, NEW u \in DOMAIN clientJob.kind, sendUnsubscribe(u)
    PROVE  ClientInv' /\ \A w \in Uses : users'[w].seen = users[w].seen
<1>0. PICK l, s : l = users[u].id /\ s = ServerId(users[u].id) OBVIOUS
<1> DEFINE n == Call("unsubscribe", u, s)
<1>1. /\ ClientTypeOK /\ DroppedIsEmpty /\ SubscribedOnce /\ SilentHaveNothing /\ LiveAreServed /\ AskedOnce /\ StopsAreTrue
      /\ ListsComeBack /\ IdsAreSingle /\ IdsAreGivenOut /\ UnansweredAreNew /\ CallsFit /\ TablesAreOwned /\ OldCallsAreStale
      /\ OldIdsAreStale /\ SubscriptionsAreOwned /\ GivenBackIsFree /\ PublicationsAreKept
    BY DEF ClientInv
<1>2. u \in Uses /\ users \in [Uses -> UserRows] BY <1>1, ClientTypes DEF ClientTypeOK
<1>3. /\ users[u].state = "live" /\ UserKind(u) # "list"
      /\ resubscribeCalls' = resubscribeCalls \ {l} /\ publishIds' = publishIds \ {l}
      /\ clientJob' = clientJob /\ overdue' = overdue /\ link' = link /\ retry' = retry /\ handled' = handled /\ wire' = wire
      /\ onServer' = onServer /\ versions' = versions /\ ids' = ids
    BY <1>0 DEF sendUnsubscribe
<1>4. l \in Ids /\ l # 0 /\ s \in Ids /\ s <= ids
 <2>1. l # 0 /\ l \in Ids /\ serverIds[l] \in 0..MaxIds BY <1>0, <1>1, <1>2, <1>3, ClientTypes DEF SilentHaveNothing
 <2>2. l <= ids /\ serverIds[l] <= ids BY <2>1, <1>0, <1>1, <1>2 DEF IdsAreSingle
 <2> QED BY <2>1, <2>2, <1>0, ClientConstants DEF ServerId, Ids
<1>5. /\ \A w, i : Pending(w, i)' <=> Pending(w, i)
      /\ \A i : Stale(i)' <=> Stale(i)
      /\ \A c : Flying(c)' => Flying(c) \/ c \in sent'
      /\ \A c : Flying(c) => Flying(c)' \/ (c \in sent /\ c \notin sent')
      /\ SubscribedOnce' /\ StopsAreTrue' /\ (sent' = sent => AskedOnce')
    BY <1>1, <1>3, NothingSent
(* Nothing to call: the server dropped it with its connection. *)
<1>6. CASE ~(Connected /\ l \in resubscribeCalls \cup publishIds)
 <2>1. /\ users' = [users EXCEPT ![u].state = "stopped", ![u].attached = FALSE, ![u].id = 0]
       /\ serverIds' = [serverIds EXCEPT ![l] = 0] /\ buffers' = [buffers EXCEPT ![l] = <<>>] /\ sent' = sent
     BY <1>0, <1>6 DEF sendUnsubscribe
 <2>2. \A o \in onServer : o.id # ServerId(l)
  <3>1. ~Connected => onServer = {} BY <1>1 DEF DroppedIsEmpty
  <3>2. l \notin resubscribeCalls \cup publishIds => Stale(s) BY <1>0, <1>1, <1>2, <1>3, <1>4 DEF OldIdsAreStale
  <3> QED BY <3>1, <3>2, <1>0, <1>6 DEF Stale
 <2>3. wire \in Seq(NoteRows \cup AnswerRows) /\ (~Connected => wire' = <<>>) BY <1>1, <1>3 DEF ClientTypeOK, DroppedIsEmpty
 <2>4. (\A c : Flying(c)' => Flying(c)) /\ (\A c : Flying(c) => Flying(c)') BY <2>1, <1>3 DEF Flying
 <2>5. wire' \in Seq(NoteRows \cup AnswerRows) BY <2>3, <1>3
 <2>6. (\A i : Stale(i) => Stale(i)') /\ AskedOnce' BY <2>1, <1>5
 <2>7. (\A i, v : TellsLast(wire, i, v) => TellsLast(wire', i, v)) /\ \A i : NoNote(wire, i) => NoNote(wire', i) BY <1>3
 <2> QED BY <2>1, <2>2, <2>3, <2>4, <2>5, <2>6, <2>7, <1>0, <1>2, <1>3, <1>4, <1>5, GoneKeepsClient
<1>7. CASE Connected /\ l \in resubscribeCalls \cup publishIds
 <2>1. /\ sent' = sent \cup {n} /\ users' = [users EXCEPT ![u].state = "stopping"]
       /\ serverIds' = serverIds /\ buffers' = buffers
     BY <1>0, <1>7 DEF sendUnsubscribe
 <2>2. n.use = u /\ n.id = s /\ n.method = "unsubscribe" /\ ~Asks(n) BY DEF Call, Asks
 <2>3. n \in Calls BY <1>2, <1>4, ClientConstants DEF Call, Calls, Ids
 <2>4. /\ \A c : Flying(c)' => Flying(c) \/ c = n
       /\ \A c : Flying(c) => Flying(c)'
  <3>1. \A c : c \in sent => Flying(c) BY DEF Flying
  <3>2. \A c : c \in sent' <=> c \in sent \/ c = n BY <2>1
  <3> HIDE DEF n
  <3> QED BY <3>1, <3>2, <1>5
 <2> HIDE DEF n
 <2>5. /\ users' \in [Uses -> UserRows] /\ users'[u].state = "stopping"
       /\ \A w \in Uses : w # u => users'[w].state = users[w].state
       /\ \A w \in Uses : /\ users'[w].id = users[w].id /\ users'[w].attached = users[w].attached
                          /\ users'[w].seen = users[w].seen /\ users'[w].told = users[w].told
     BY <2>1, <1>2 DEF UserRows, UserStates
 <2>6. /\ \A k : ServerId(k)' = ServerId(k)
       /\ \A w \in Uses : \A i : Mapped(w, i)' <=> Mapped(w, i)
       /\ \A i : Unclaimed(i)' <=> Unclaimed(i)
       /\ \A w \in Uses : \A v : Holds(w, v)' <=> Holds(w, v)
     BY <2>1, <2>5 DEF ServerId, Mapped, Unclaimed, Holds
 <2>7. /\ \A w \in Uses : Silent(w)' <=> Silent(w)
       /\ \A w \in Uses : w # u => (Owned(w)' <=> Owned(w))
       /\ Owned(u) /\ ~Owned(u)' /\ ~Silent(u)
     BY <1>2, <1>3, <2>5 DEF Silent, Owned
 <2>8. Mapped(u, s) /\ \A w \in Uses : w # u => users[w].id # l /\ ~Mapped(w, s)
  <3>1. Mapped(u, s) BY <1>0, <1>4 DEF Mapped
  <3>2. \A w \in Uses : w # u => users[w].id # l BY <1>0, <1>1, <1>2, <1>4 DEF IdsAreSingle
  <3> QED BY <3>1, <3>2, <1>1, <1>2, MappedIsSingle
 <2>9. \A w \in Uses : ~Pending(w, s)
  <3>1. ~Unclaimed(s) BY <1>0, <1>2, <1>4 DEF Unclaimed, ServerId
  <3> QED BY <3>1, <1>1, <1>4 DEF UnansweredAreNew
 <2>10. ClientTypeOK'
  <3>1. sent' \in SUBSET Calls BY <2>1, <2>3, <1>1 DEF ClientTypeOK
  <3> QED BY <3>1, <2>1, <2>5, <1>1, <1>3 DEF ClientTypeOK
 <2>11. DroppedIsEmpty' BY <1>1, <1>3, <1>7, <2>5 DEF DroppedIsEmpty, Connected
 <2>12. ListsComeBack'
  <3>1. \A w \in retry : w \in Uses /\ w # u BY <1>1, <1>3 DEF ListsComeBack, ClientTypeOK
  <3>2. \A w \in retry' : UserKind(w)' = "list" /\ users'[w].state = "threw" BY <3>1, <1>1, <1>3, <2>5 DEF ListsComeBack, UserKind
  <3>3. \A w \in Uses : users'[w].state = "waiting" => link'.state = "connecting" BY <1>1, <1>3, <2>5 DEF ListsComeBack
  <3>4. \A w \in Uses : w \in DOMAIN clientJob'.kind => users'[w].state # "absent" BY <1>1, <1>3, <2>5 DEF ListsComeBack
  <3>5. \A w \in Uses : users'[w].state \in {"unwanted", "stopping", "stopped"} => UserKind(w)' # "list"
      BY <1>1, <1>3, <2>5 DEF ListsComeBack, UserKind
  <3>6. \A w \in Uses : users'[w].state = "threw" /\ UserKind(w)' = "list" /\ link'.state # "failed" => ~Connected' /\ w \in retry'
      BY <1>1, <1>3, <2>5 DEF ListsComeBack, UserKind, Connected
  <3> QED BY <3>2, <3>3, <3>4, <3>5, <3>6 DEF ListsComeBack
 <2>13. SilentHaveNothing'
  <3>1. \A w \in Uses : Silent(w)' => (\A c \in Calls : Flying(c)' => c.use # w) /\ (\A o \in onServer' : o.use # w)
      BY <1>1, <1>3, <2>2, <2>4, <2>7 DEF SilentHaveNothing
  <3>2. users[u].id # 0 BY <1>0, <1>4
  <3> QED BY <3>1, <3>2, <1>1, <2>5, <2>7 DEF SilentHaveNothing
 <2>14. IdsAreSingle'
  <3>0. (\A w \in Uses : users'[w].id = users[w].id) /\ serverIds' = serverIds /\ ids' = ids /\ IdsAreSingle BY <1>1, <1>3, <2>1, <2>5
  <3>1. (\A w \in Uses : users'[w].id <= ids') /\ (\A k \in Ids : serverIds'[k] <= ids') BY <3>0 DEF IdsAreSingle
  <3>2. \A k \in Ids : serverIds'[k] # 0 => \E w \in Uses : users'[w].id = k BY <3>0 DEF IdsAreSingle
  <3>3. \A w, x \in Uses : users'[w].id = users'[x].id /\ users'[w].id # 0 => w = x BY <3>0 DEF IdsAreSingle
  <3>4. \A j, k \in Ids : serverIds'[j] = serverIds'[k] /\ serverIds'[j] # 0 => j = k BY <3>0 DEF IdsAreSingle
  <3>5. \A k \in Ids, w \in Uses : serverIds'[k] # 0 => serverIds'[k] # users'[w].id BY <3>0 DEF IdsAreSingle
  <3> QED BY <3>1, <3>2, <3>3, <3>4, <3>5 DEF IdsAreSingle
 <2>15. IdsAreGivenOut' BY <1>1, <1>3, <1>4, <1>5, <2>2, <2>4 DEF IdsAreGivenOut
 <2>16. AskedOnce'
  <3>1. \A c \in sent' : Asks(c) => c \in sent BY <2>1, <2>2
  <3>2. handled' = handled /\ wire' = wire /\ onServer' = onServer /\ AskedOnce BY <1>1, <1>3
  <3> QED BY <3>1, <3>2 DEF AskedOnce
 <2>17. UnansweredAreNew' BY <1>1, <1>3, <1>5, <2>6 DEF UnansweredAreNew
 <2>18. CallsFit'
  <3> SUFFICES ASSUME NEW c \in Calls, Flying(c)' PROVE Fits(c)' BY DEF CallsFit
  <3>1. CASE c = n BY <3>1, <2>2 DEF Fits
  <3>2. CASE c # n
   <4>1. Fits(c) /\ c.use \in Uses BY <3>2, <1>1, <2>4 DEF CallsFit, Calls
   <4>2. CASE c.use = u BY <4>1, <4>2, <1>0, <1>3, <1>4, <2>5 DEF Fits
   <4>3. CASE c.use # u
    <5>1. users'[c.use].state = users[c.use].state /\ users'[c.use].id = users[c.use].id /\ users[c.use].id # l /\ (Owned(c.use)' <=> Owned(c.use))
        BY <4>1, <4>3, <2>5, <2>7, <2>8
    <5> QED BY <5>1, <4>1, <1>3 DEF Fits
   <4> QED BY <4>2, <4>3
  <3> QED BY <3>1, <3>2
 <2>19. TablesAreOwned'
  <3>1. \A j \in resubscribeCalls' : \E w \in Uses : users'[w].id = j /\ Owned(w)' /\ UserKind(w)' # "publication"
   <4> SUFFICES ASSUME NEW j \in resubscribeCalls, j # l PROVE \E w \in Uses : users'[w].id = j /\ Owned(w)' /\ UserKind(w)' # "publication"
       BY <1>3
   <4>1. PICK w \in Uses : users[w].id = j /\ Owned(w) /\ UserKind(w) # "publication" BY <1>1 DEF TablesAreOwned
   <4> QED BY <4>1, <1>0, <1>3, <2>5, <2>7 DEF UserKind
  <3>2. \A j \in publishIds' : \E w \in Uses : users'[w].id = j /\ Owned(w)' /\ UserKind(w)' = "publication"
   <4> SUFFICES ASSUME NEW j \in publishIds, j # l PROVE \E w \in Uses : users'[w].id = j /\ Owned(w)' /\ UserKind(w)' = "publication"
       BY <1>3
   <4>1. PICK w \in Uses : users[w].id = j /\ Owned(w) /\ UserKind(w) = "publication" BY <1>1 DEF TablesAreOwned
   <4> QED BY <4>1, <1>0, <1>3, <2>5, <2>7 DEF UserKind
  <3>3. \A w \in Uses : users'[w].id # 0 /\ UserKind(w)' = "publication" => serverIds'[users'[w].id] = 0
      BY <1>1, <1>3, <2>1, <2>5 DEF TablesAreOwned, UserKind
  <3> QED BY <3>1, <3>2, <3>3, <1>1, <1>3 DEF TablesAreOwned
 <2>20. OldCallsAreStale'
  <3>1. \A c \in Calls : Flying(c)' /\ c.method = "resubscribe" => Flying(c) BY <2>2, <2>4
  <3> QED BY <3>1, <1>1, <1>5, <2>6 DEF OldCallsAreStale
 <2>21. OldIdsAreStale'
  <3>1. \A k \in Ids : serverIds'[k] # 0 => Stale(k)' BY <1>1, <1>5, <2>1 DEF OldIdsAreStale
  <3>2. ASSUME NEW w \in Uses, w # u, users[w].id # 0, users[w].state # "stopping", users[w].id \notin resubscribeCalls' \cup publishIds'
        PROVE  Stale(users[w].id)' /\ Stale(ServerId(users[w].id))'
   <4>1. Stale(users[w].id) /\ Stale(ServerId(users[w].id)) /\ users'[w].id = users[w].id BY <3>2, <1>1, <1>3, <2>5, <2>8 DEF OldIdsAreStale
   <4>2. ServerId(users[w].id)' = ServerId(users[w].id) BY <4>1, <2>1 DEF ServerId
   <4> DEFINE i == users[w].id
              k == ServerId(users[w].id)
   <4>3. Stale(i) /\ Stale(k) BY <4>1
   <4> HIDE DEF i, k
   <4>4. (\A o \in onServer' : o.id # i /\ o.id # k) /\ NoNote(wire', i) /\ NoNote(wire', k) BY <4>3, <1>3 DEF Stale
   <4> QED BY <4>1, <4>2, <4>4 DEF Stale, i, k
  <3> QED BY <3>1, <3>2, <2>5 DEF OldIdsAreStale
 <2>22. SubscriptionsAreOwned'
  <3> SUFFICES ASSUME NEW o \in onServer
               PROVE  \/ Pending(o.use, o.id)'
                      \/ Mapped(o.use, o.id)' /\ Owned(o.use)'
                      \/ Call("unsubscribe", o.use, o.id) \in sent' /\ ~Owned(o.use)'
                      \/ TooLate(o)'
      BY <1>3 DEF SubscriptionsAreOwned, Call
  <3>1. o.use \in Uses BY <1>1, ClientTypes
  <3>2. \/ Pending(o.use, o.id)
        \/ Mapped(o.use, o.id) /\ Owned(o.use)
        \/ Call("unsubscribe", o.use, o.id) \in sent /\ ~Owned(o.use)
        \/ TooLate(o)
      BY <1>1 DEF SubscriptionsAreOwned
  <3>5. TooLate(o) => TooLate(o)' BY <1>3, <2>1, <2>5 DEF TooLate, Unclaimed
  <3>3. CASE o.use = u
   <4>1. Mapped(u, o.id) => o.id = s BY <1>0 DEF Mapped
   <4>2. Mapped(u, o.id) => Call("unsubscribe", o.use, o.id) = n BY <3>3, <4>1 DEF n
   <4> QED BY <3>2, <3>3, <3>5, <4>2, <1>5, <2>1, <2>7
  <3>4. CASE o.use # u BY <3>1, <3>2, <3>4, <3>5, <1>5, <2>1, <2>6, <2>7
  <3> QED BY <3>3, <3>4
 <2>23. GivenBackIsFree'
  <3> SUFFICES ASSUME NEW d \in sent', ~Asks(d)
               PROVE  /\ d.id # 0 /\ users'[d.use].state \in {"stopping", "stopped"}
                      /\ \A w \in Uses : ~Pending(w, d.id)'
                      /\ \A w \in Uses : Owned(w)' => ~Mapped(w, d.id)'
      BY DEF GivenBackIsFree
  <3>1. CASE d = n
   <4>1. d.use = u /\ d.id = s BY <3>1, <2>2
   <4> QED BY <4>1, <1>4, <1>5, <2>5, <2>6, <2>7, <2>8, <2>9, ClientTypes, <1>1
  <3>2. CASE d \in sent
   <4>1. d.id # 0 /\ users[d.use].state \in {"stopping", "stopped"} /\ (\A w \in Uses : ~Pending(w, d.id)) /\ (\A w \in Uses : Owned(w) => ~Mapped(w, d.id))
       BY <3>2, <1>1 DEF GivenBackIsFree
   <4>2. d.use \in Uses BY <3>2, <1>1, ClientTypes
   <4>3. users'[d.use].state \in {"stopping", "stopped"} BY <4>1, <4>2, <1>3, <2>5
   <4> QED BY <4>1, <4>3, <1>5, <2>6, <2>7
  <3> QED BY <3>1, <3>2, <2>1
 <2>24. NewestArrives'
  <3> DEFINE W == Uses \ {u}
  <3>1. \A o \in onServer' : o.use \in Uses BY <1>1, <1>3, ClientTypes
  <3>2. \A o \in onServer' : users'[o.use].state \in {"calling", "live"} => o.use \in W BY <3>1, <2>5
  <3>3. W \in SUBSET Uses /\ (\A w \in W : \A i : Mapped(w, i)' <=> Mapped(w, i)) /\ (\A w \in W : \A v : users[w].id # 0 /\ Holds(w, v) => Holds(w, v)')
        /\ \A w \in W : users'[w].state = users[w].state
      BY <2>5, <2>6
  <3> HIDE DEF W
  <3> QED BY <3>2, <3>3, <1>3, <2>1, NewestStay
 <2>25. LiveAreServed'
  <3>1. \A w \in Uses : (Resubscribing(w) => Resubscribing(w)') /\ (ToldOfStop(w) <=> ToldOfStop(w)')
      BY <1>3, <2>4, <2>6 DEF Resubscribing, ToldOfStop
  <3>2. \A w \in Uses : users'[w].state = "live" => w # u /\ users[w].state = "live" /\ users'[w].id = users[w].id BY <2>5
  <3>3. (\A w \in Uses : UserKind(w)' = UserKind(w)) /\ (Connected' <=> Connected) BY <1>3 DEF UserKind, Connected
  <3> SUFFICES ASSUME NEW w \in Uses, users'[w].state = "live", UserKind(w)' # "publication"
               PROVE  (\/ /\ users[w].id \in resubscribeCalls
                          /\ Connected => [use |-> w, id |-> ServerId(users[w].id)] \in onServer \/ Resubscribing(w) \/ users[w].told
                       \/ users[w].id \notin resubscribeCalls /\ ToldOfStop(w))'
      BY DEF LiveAreServed
  <3>4. users[w].state = "live" /\ users'[w].id = users[w].id /\ UserKind(w) # "publication" /\ users[w].id # l BY <3>2, <3>3, <2>8
  <3>5. ServerId(users[w].id)' = ServerId(users[w].id) BY <3>4, <2>1 DEF ServerId
  <3>6. users[w].id \in resubscribeCalls' <=> users[w].id \in resubscribeCalls BY <3>4, <1>3
  <3>7. \/ /\ users[w].id \in resubscribeCalls
           /\ Connected => [use |-> w, id |-> ServerId(users[w].id)] \in onServer \/ Resubscribing(w) \/ users[w].told
        \/ users[w].id \notin resubscribeCalls /\ ToldOfStop(w)
      BY <3>4, <1>1 DEF LiveAreServed
  <3> QED BY <3>1, <3>3, <3>4, <3>5, <3>6, <3>7, <1>3, <2>5
 <2>26. PublicationsAreKept' BY <1>0, <1>1, <1>3, <2>5, <2>8 DEF PublicationsAreKept, PublicationIsTold, UserKind
 <2> QED
     BY <2>5, <2>10, <2>11, <2>12, <2>13, <2>14, <2>15, <2>16, <2>17, <2>18, <2>19, <2>20, <2>21, <2>22, <2>23, <2>24, <2>25, <2>26, <1>5 DEF ClientInv
<1> QED BY <1>6, <1>7

(* The answer to it: the id and its buffer are forgotten. *)
LEMMA UnsubscribedKeepsClient ==
    ASSUME ClientInv, unsubscribed
    PROVE  ClientInv' /\ \A w \in Uses : users'[w].seen = users[w].seen
<1>0. PICK h, u, l : h = Head(wire) /\ u = h.call.use /\ l = users[u].id OBVIOUS
<1>1. /\ ClientTypeOK /\ DroppedIsEmpty /\ SilentHaveNothing /\ ListsComeBack /\ IdsAreSingle /\ TablesAreOwned BY DEF ClientInv
<1>2. /\ wire # <<>> /\ h.type = "answer" /\ h.call.method = "unsubscribe" /\ wire' = Tail(wire)
      /\ clientJob' = clientJob /\ overdue' = overdue /\ link' = link /\ resubscribeCalls' = resubscribeCalls /\ publishIds' = publishIds /\ retry' = retry
      /\ sent' = sent /\ handled' = handled /\ onServer' = onServer /\ versions' = versions /\ ids' = ids
    BY <1>0 DEF unsubscribed, Answered
<1>3. ~Asks(h.call) BY <1>2 DEF Asks
<1>4. /\ wire' \in Seq(NoteRows \cup AnswerRows)
      /\ h.call \in Calls /\ u \in Uses /\ Connected
      /\ \A i : Stale(i) => Stale(i)'
      /\ \A w, i : Pending(w, i)' <=> Pending(w, i)
      /\ AskedOnce' /\ StopsAreTrue' /\ SubscribedOnce'
      /\ \A i, v : TellsLast(wire, i, v) => TellsLast(wire', i, v)
      /\ \A i : NoNote(wire, i) => NoNote(wire', i)
 <2>1. sent \subseteq sent' /\ \A c \in sent' : Asks(c) => c \in sent BY <1>2
 <2> QED BY <2>1, <1>0, <1>2, <1>3, AnswerIsRead
<1>5. /\ \A c : Flying(c)' => Flying(c)
      /\ \A c : Flying(c) /\ Asks(c) => Flying(c)'
 <2>1. sent \subseteq sent' /\ \A c \in sent' : Asks(c) => c \in sent BY <1>2
 <2>2. \A c : Flying(c)' => Flying(c) \/ (c \in sent' /\ ~Asks(c)) BY <2>1, <1>0, <1>2, AnswerIsRead
 <2>3. \A c : Flying(c) => Flying(c)' \/ h.call = c BY <2>1, <1>0, <1>2, AnswerIsRead
 <2>4. \A c : c \in sent => Flying(c) BY DEF Flying
 <2> QED BY <2>2, <2>3, <2>4, <1>2, <1>3
<1>6. CASE users[u].state = "stopping" /\ h.call.id = ServerId(l)
 <2>1. /\ users' = [users EXCEPT ![u].state = "stopped", ![u].attached = FALSE, ![u].id = 0]
       /\ serverIds' = [serverIds EXCEPT ![l] = 0] /\ buffers' = [buffers EXCEPT ![l] = <<>>]
     BY <1>0, <1>6 DEF unsubscribed
 <2>2. l # 0 /\ UserKind(u) # "list" /\ ~Owned(u) BY <1>0, <1>1, <1>4, <1>6 DEF SilentHaveNothing, ListsComeBack, Owned
 <2>3. l \notin resubscribeCalls /\ l \notin publishIds BY <2>2, <1>0, <1>1, <1>4 DEF TablesAreOwned, IdsAreSingle
 <2>4. resubscribeCalls' = resubscribeCalls \ {l} /\ publishIds' = publishIds \ {l} BY <2>3, <1>2
 <2> QED BY <2>1, <2>2, <2>4, <1>0, <1>2, <1>4, <1>5, <1>6, GoneKeepsClient
<1>7. CASE ~(users[u].state = "stopping" /\ h.call.id = ServerId(l))
 <2>1. users' = users /\ serverIds' = serverIds /\ buffers' = buffers BY <1>0, <1>7 DEF unsubscribed
 <2>2. SameUsers /\ SameClient BY <2>1, <1>2 DEF SameUsers, SameClient
 <2>3. \A w \in Uses : users[w].id = 0 => ~users'[w].attached BY <2>1, <1>1 DEF SilentHaveNothing
 <2>4. /\ \A c \in Calls : ~Asks(c) => (c \in sent' <=> c \in sent)
       /\ \A c \in sent' : c \in sent
       /\ \A w \in Uses : users'[w].told = users[w].told
       /\ \A c \in Calls : Flying(c)' => Flying(c)
       /\ \A w \in Uses, i \in Ids : Pending(w, i)' <=> Pending(w, i)
     BY <2>1, <1>2, <1>4, <1>5
 <2>5. /\ ListsComeBack' /\ SilentHaveNothing' /\ IdsAreSingle' /\ IdsAreGivenOut'
       /\ UnansweredAreNew' /\ CallsFit' /\ TablesAreOwned' /\ OldCallsAreStale' /\ OldIdsAreStale'
       /\ SubscriptionsAreOwned' /\ GivenBackIsFree' /\ PublicationsAreKept'
     BY <2>2, <2>3, <2>4, <1>2, <1>4, NothingMoves
 <2>6. ClientTypeOK' BY <2>1, <1>1, <1>2, <1>4 DEF ClientTypeOK
 <2>7. DroppedIsEmpty' BY <2>1, <1>1, <1>2, <1>4 DEF DroppedIsEmpty, Connected
 <2>8. \A w \in Uses : /\ \A i : Mapped(w, i)' <=> Mapped(w, i)
                       /\ \A v : Holds(w, v)' <=> Holds(w, v)
     BY <2>1 DEF Mapped, ServerId, Holds
 <2>9. NewestArrives'
  <3>1. \A o \in onServer' : o.use \in Uses BY <1>1, <1>2, ClientTypes
  <3> DEFINE W == Uses
  <3>2. /\ W \in SUBSET Uses
        /\ \A o \in onServer' : users'[o.use].state \in {"calling", "live"} => o.use \in W
        /\ \A w \in W : users'[w].state = users[w].state
        /\ \A w \in W : \A i : Mapped(w, i)' <=> Mapped(w, i)
        /\ \A w \in W : \A v : users[w].id # 0 /\ Holds(w, v) => Holds(w, v)'
        /\ \A o \in onServer' : o.use \in W /\ Unclaimed(o.id) => buffers'[o.id] = buffers[o.id]
      BY <3>1, <2>1, <2>8
  <3> HIDE DEF W
  <3> QED BY <3>2, <1>2, <1>4, NewestStay
 <2>10. LiveAreServed'
  <3>1. \A w \in Uses : (Resubscribing(w) => Resubscribing(w)') /\ (ToldOfStop(w) <=> ToldOfStop(w)')
      BY <1>2, <1>5, <2>8 DEF Resubscribing, ToldOfStop, Asks
  <3>2. (\A w \in Uses : UserKind(w)' = UserKind(w)) /\ (Connected' <=> Connected) BY <1>2 DEF UserKind, Connected
  <3>3. \A w \in Uses : ServerId(users[w].id)' = ServerId(users[w].id) BY <2>1 DEF ServerId
  <3>4. LiveAreServed BY DEF ClientInv
  <3> QED BY <3>1, <3>2, <3>3, <3>4, <1>2, <2>1 DEF LiveAreServed
 <2> QED BY <2>1, <2>5, <2>6, <2>7, <2>9, <2>10, <1>4 DEF ClientInv
<1> QED BY <1>6, <1>7

----------------------------------------
(* Nothing has been asked when the client starts. *)
LEMMA ClientStarts == ClientInit => ClientInv
<1> SUFFICES ASSUME ClientInit
             PROVE  ClientInv
    OBVIOUS
<1>1. /\ clientJob \in ClientWorkload
      /\ link = [state |-> "connecting", before |-> FALSE, drops |-> 0]
      /\ resubscribeCalls = {} /\ publishIds = {} /\ retry = {}
      /\ serverIds = [l \in 1..MaxIds |-> 0] /\ buffers = [l \in 1..MaxIds |-> <<>>]
      /\ sent = {} /\ handled = {} /\ wire = <<>> /\ onServer = {} /\ versions = [u \in Uses |-> 1] /\ ids = 0
    BY DEF ClientInit
<1>2. /\ \A u \in Uses : /\ users[u].state \in {"idle", "absent"} /\ users[u].id = 0 /\ ~users[u].attached /\ ~users[u].told
                         /\ u \in DOMAIN clientJob.kind => users[u].state = "idle"
      /\ users \in [Uses -> UserRows]
 <2>1. users = [u \in Uses |-> [state |-> IF u \in DOMAIN clientJob.kind THEN "idle" ELSE "absent", id |-> 0,
                                attached |-> FALSE, seen |-> 0, told |-> FALSE]]
     BY DEF ClientInit
 <2>2. 0 \in 0..MaxIds BY ClientConstants
 <2> QED BY <2>1, <2>2 DEF UserRows, UserStates
<1>3. (\A l \in Ids : serverIds[l] = 0) /\ serverIds \in [Ids -> 0..MaxIds] /\ buffers \in [Ids -> Seq(Nat)]
    BY <1>1, ClientConstants DEF Ids
<1>4. Msgs(wire) = {} /\ OneReplyEach(wire) BY <1>1 DEF Msgs, OneReplyEach
<1>5. (\A c : ~Flying(c)) /\ (\A u, i : ~Pending(u, i)) BY <1>1, <1>4 DEF Flying, Pending
<1>6. \A i : Stale(i) BY <1>1 DEF Stale, NoNote, NotesOf
<1>7. ClientTypeOK
 <2>1. 0 \in 0..MaxIds /\ versions \in [Uses -> Nat] BY <1>1, ClientConstants
 <2> QED BY <2>1, <1>1, <1>2, <1>3 DEF ClientTypeOK
<1>8. DroppedIsEmpty BY <1>1, <1>2 DEF DroppedIsEmpty, Connected
<1>9. ListsComeBack BY <1>1, <1>2 DEF ListsComeBack
<1>10. SilentHaveNothing BY <1>1, <1>2, <1>5 DEF SilentHaveNothing
<1>11. IdsAreSingle
 <2>1. (\A u \in Uses : users[u].id = 0) /\ (\A l \in Ids : serverIds[l] = 0) BY <1>2, <1>3
 <2>2. ids = 0 /\ 0 <= 0 BY <1>1
 <2>3. (\A u \in Uses : users[u].id <= ids) /\ (\A l \in Ids : serverIds[l] <= ids) BY <2>1, <2>2, Zenon
 <2> QED BY <2>1, <2>3, Zenon DEF IdsAreSingle
<1>12. IdsAreGivenOut BY <1>5, <1>6 DEF IdsAreGivenOut
<1>13. AskedOnce /\ SubscribedOnce BY <1>1, <1>4 DEF AskedOnce, SubscribedOnce
<1>14. UnansweredAreNew /\ StopsAreTrue /\ CallsFit /\ OldCallsAreStale
    BY <1>4, <1>5 DEF UnansweredAreNew, StopsAreTrue, CallsFit, OldCallsAreStale
<1>15. TablesAreOwned BY <1>1, <1>2 DEF TablesAreOwned
<1>16. OldIdsAreStale BY <1>2, <1>3 DEF OldIdsAreStale
<1>17. SubscriptionsAreOwned /\ GivenBackIsFree /\ NewestArrives BY <1>1 DEF SubscriptionsAreOwned, GivenBackIsFree, NewestArrives
<1>18. LiveAreServed /\ PublicationsAreKept BY <1>2 DEF LiveAreServed, PublicationsAreKept, PublicationIsTold
<1> QED BY <1>7, <1>8, <1>9, <1>10, <1>11, <1>12, <1>13, <1>14, <1>15, <1>16, <1>17, <1>18 DEF ClientInv

LEMMA ClientStutters == ClientInv /\ UNCHANGED clientVars => ClientInv'
<1> SUFFICES ASSUME ClientInv, UNCHANGED clientVars
             PROVE  ClientInv'
    OBVIOUS
<1>1. /\ ClientTypeOK /\ DroppedIsEmpty /\ ListsComeBack /\ SilentHaveNothing /\ IdsAreSingle /\ IdsAreGivenOut /\ AskedOnce
      /\ SubscribedOnce /\ UnansweredAreNew /\ StopsAreTrue /\ CallsFit /\ TablesAreOwned /\ OldCallsAreStale /\ OldIdsAreStale
      /\ SubscriptionsAreOwned /\ GivenBackIsFree /\ NewestArrives /\ LiveAreServed /\ PublicationsAreKept
    BY DEF ClientInv
<1>2. /\ clientJob' = clientJob /\ overdue' = overdue /\ link' = link /\ users' = users /\ resubscribeCalls' = resubscribeCalls /\ publishIds' = publishIds
      /\ serverIds' = serverIds /\ buffers' = buffers /\ retry' = retry /\ sent' = sent /\ handled' = handled /\ wire' = wire
      /\ onServer' = onServer /\ versions' = versions /\ ids' = ids
    BY DEF clientVars
<1>3. ClientTypeOK' /\ DroppedIsEmpty' /\ ListsComeBack' BY <1>1, <1>2, ListsStay DEF ClientTypeOK, DroppedIsEmpty, Connected
<1>4. (\A c : Flying(c)' <=> Flying(c)) /\ (\A u, i : Pending(u, i)' <=> Pending(u, i)) /\ (\A i : Stale(i)' <=> Stale(i))
    BY <1>2 DEF Flying, Pending, Stale
<1>5. SameUsers /\ SameClient BY <1>2 DEF SameUsers, SameClient
<1>6. /\ SilentHaveNothing' /\ IdsAreSingle' /\ IdsAreGivenOut' /\ UnansweredAreNew' /\ CallsFit' /\ TablesAreOwned'
      /\ OldCallsAreStale' /\ OldIdsAreStale' /\ SubscriptionsAreOwned' /\ GivenBackIsFree' /\ PublicationsAreKept'
 <2>1. /\ \A w \in Uses : users[w].id = 0 => ~users'[w].attached
       /\ \A w \in Uses : users'[w].told = users[w].told
       /\ \A c \in Calls : ~Asks(c) => (c \in sent' <=> c \in sent)
       /\ \A c \in sent' : c \in sent
     BY <1>1, <1>2 DEF SilentHaveNothing
 <2> QED BY <2>1, <1>2, <1>4, <1>5, NothingMoves
<1>7. AskedOnce' /\ SubscribedOnce' /\ StopsAreTrue' BY <1>1, <1>2 DEF AskedOnce, SubscribedOnce, StopsAreTrue
<1>8. (\A w \in Uses : \A i : Mapped(w, i)' <=> Mapped(w, i)) /\ (\A w : \A v : Holds(w, v)' <=> Holds(w, v)) /\ (\A l : ServerId(l)' = ServerId(l))
    BY <1>2 DEF Mapped, Holds, ServerId
<1>9. NewestArrives'
 <2>1. \A o \in onServer : o.use \in Uses BY <1>1, ClientTypes
 <2> QED BY <2>1, <1>1, <1>2, <1>8 DEF NewestArrives, Holding
<1>10. LiveAreServed' BY <1>1, <1>2, <1>4, <1>8 DEF LiveAreServed, Resubscribing, ToldOfStop, UserKind, Connected
<1> QED BY <1>3, <1>6, <1>7, <1>9, <1>10 DEF ClientInv

(* A call that fails on a connection that is up: who asked to subscribe is *)
(* rejected, who asked again is told, and what came too late stays behind. *)
LEMMA FailedCallKeepsClient ==
    ASSUME ClientInv, NEW c \in Calls, Asks(c), Flying(c), callFailed(c), Connected,
           clientJob' = clientJob, link' = link, UNCHANGED ClientTables,
           wire' = wire, onServer' = onServer, versions' = versions, ids' = ids, overdue \subseteq overdue',
           sent' \subseteq sent, handled' \subseteq handled, \A d \in sent : d = c \/ d \in sent',
           \A d : Flying(d)' => Flying(d) /\ (Asks(d) => d.use # c.use),
           \A d : Flying(d) => Flying(d)' \/ d = c,
           \A w, i : Pending(w, i)' => Pending(w, i),
           \A o \in onServer : Pending(o.use, o.id) => Pending(o.use, o.id)' \/ o \in overdue'
    PROVE  ClientInv' /\ \A w \in Uses : users'[w].seen = users[w].seen
<1> DEFINE u == c.use
<1>1. /\ ClientTypeOK /\ DroppedIsEmpty /\ ListsComeBack /\ SilentHaveNothing /\ IdsAreSingle /\ IdsAreGivenOut /\ AskedOnce
      /\ SubscribedOnce /\ UnansweredAreNew /\ StopsAreTrue /\ CallsFit /\ TablesAreOwned /\ OldCallsAreStale /\ OldIdsAreStale
      /\ SubscriptionsAreOwned /\ GivenBackIsFree /\ LiveAreServed /\ PublicationsAreKept
    BY DEF ClientInv
<1>2. /\ u \in Uses /\ users[u] \in UserRows /\ users \in [Uses -> UserRows]
      /\ c.method \in {"subscribe", "resubscribe"} /\ Fits(c)
 <2>1. u \in Uses /\ c.method \in {"subscribe", "resubscribe"} BY DEF Calls, Asks
 <2>2. Fits(c) BY <1>1 DEF CallsFit
 <2>3. users \in [Uses -> UserRows] BY <1>1 DEF ClientTypeOK
 <2> QED BY <2>1, <2>2, <2>3
<1>3. /\ serverIds' = serverIds /\ buffers' = buffers /\ resubscribeCalls' = resubscribeCalls /\ publishIds' = publishIds /\ retry' = retry
    BY DEF ClientTables
<1> DEFINE row == IF c.method = "subscribe" THEN [users[u] EXCEPT !.state = "rejected"]
                  ELSE IF c.id \in resubscribeCalls THEN [users[u] EXCEPT !.told = TRUE] ELSE users[u]
<1>4. users' = [users EXCEPT ![u] = row] BY DEF callFailed
<1>5. /\ row \in UserRows /\ row.id = users[u].id /\ row.attached = users[u].attached /\ row.seen = users[u].seen
      /\ row.state = (IF c.method = "subscribe" THEN "rejected" ELSE users[u].state)
      /\ c.method = "resubscribe" /\ c.id \in resubscribeCalls => row.told
      /\ users[u].told => row.told
    BY <1>2 DEF UserRows, UserStates
<1> HIDE DEF row
<1>6. /\ users' \in [Uses -> UserRows] /\ users'[u] = row /\ \A w \in Uses : w # u => users'[w] = users[w]
    BY <1>2, <1>4, <1>5
<1> HIDE DEF u
<1>7. /\ \A w \in Uses : users'[w].id = users[w].id /\ users'[w].attached = users[w].attached /\ users'[w].seen = users[w].seen
      /\ \A w \in Uses : users'[w].state = users[w].state
                          \/ (w = u /\ users'[w].state = "rejected" /\ users[w].state \in {"calling", "unwanted"} /\ users[w].id = 0)
      /\ \A w \in Uses : users[w].told => users'[w].told
    BY <1>2, <1>5, <1>6 DEF Fits, u
<1>8. /\ \A l : ServerId(l)' = ServerId(l)
      /\ \A w \in Uses : \A i : Mapped(w, i)' <=> Mapped(w, i)
      /\ \A i : Unclaimed(i)' <=> Unclaimed(i)
      /\ \A w \in Uses : \A v : Holds(w, v)' <=> Holds(w, v)
    BY <1>3, <1>7 DEF ServerId, Mapped, Unclaimed, Holds
<1>9. /\ \A i : Stale(i)' <=> Stale(i)
      /\ \A w \in Uses : users[w].id # 0 => users'[w].state = users[w].state /\ (Owned(w)' <=> Owned(w))
      /\ \A w \in Uses : Silent(w)' <=> Silent(w)
    BY <1>7 DEF Stale, Owned, Silent
<1>10. ClientTypeOK' BY <1>1, <1>3, <1>6 DEF ClientTypeOK
<1>11. DroppedIsEmpty' BY <1>1, <1>7 DEF DroppedIsEmpty, Connected
<1>12. ListsComeBack'
 <2>1. \A w \in Uses : UserKind(w)' = UserKind(w) BY DEF UserKind
 <2>2. \A w \in retry : w \in Uses /\ users[w].state = "threw" BY <1>1 DEF ListsComeBack, ClientTypeOK
 <2> QED BY <2>1, <2>2, <1>1, <1>3, <1>7 DEF ListsComeBack, Connected
<1>13. SilentHaveNothing'
 <2>1. \A w \in Uses : Silent(w)' => (\A d \in Calls : Flying(d)' => d.use # w) /\ (\A o \in onServer' : o.use # w)
     BY <1>1, <1>9 DEF SilentHaveNothing
 <2> QED BY <2>1, <1>1, <1>7, <1>9 DEF SilentHaveNothing
<1>14. IdsAreSingle' BY <1>1, <1>3, <1>7 DEF IdsAreSingle
<1>15. IdsAreGivenOut' BY <1>1, <1>9 DEF IdsAreGivenOut
<1>16. AskedOnce' BY <1>1 DEF AskedOnce
<1>17. SubscribedOnce' /\ StopsAreTrue' BY <1>1 DEF SubscribedOnce, StopsAreTrue
<1>18. UnansweredAreNew' BY <1>1, <1>8 DEF UnansweredAreNew
<1>19. CallsFit'
 <2> SUFFICES ASSUME NEW d \in Calls, Flying(d)' PROVE Fits(d)' BY DEF CallsFit
 <2>1. Fits(d) /\ d.use \in Uses BY <1>1 DEF CallsFit, Calls
 <2>2. CASE ~Asks(d) BY <2>2 DEF Fits, Asks
 <2>3. CASE Asks(d)
  <3>1. d.use # u BY <2>3 DEF u
  <3>2. users'[d.use] = users[d.use] /\ (Owned(d.use)' <=> Owned(d.use)) BY <2>1, <3>1, <1>6 DEF Owned
  <3> QED BY <2>1, <3>2, <1>3 DEF Fits
 <2> QED BY <2>2, <2>3
<1>20. TablesAreOwned'
 <2>1. \A w \in Uses : UserKind(w)' = UserKind(w) BY DEF UserKind
 <2>2. \A l \in resubscribeCalls \cup publishIds : l # 0 BY <1>1, ClientConstants DEF ClientTypeOK, Ids
 <2>3. ASSUME NEW l \in resubscribeCalls
       PROVE  \E w \in Uses : users'[w].id = l /\ Owned(w)' /\ UserKind(w)' # "publication"
  <3>1. PICK w \in Uses : users[w].id = l /\ Owned(w) /\ UserKind(w) # "publication" BY <1>1 DEF TablesAreOwned
  <3> QED BY <3>1, <2>1, <2>2, <1>7, <1>9
 <2>4. ASSUME NEW l \in publishIds
       PROVE  \E w \in Uses : users'[w].id = l /\ Owned(w)' /\ UserKind(w)' = "publication"
  <3>1. PICK w \in Uses : users[w].id = l /\ Owned(w) /\ UserKind(w) = "publication" BY <1>1 DEF TablesAreOwned
  <3> QED BY <3>1, <2>1, <2>2, <1>7, <1>9
 <2>5. \A w \in Uses : users'[w].id # 0 /\ UserKind(w)' = "publication" => serverIds'[users'[w].id] = 0
     BY <2>1, <1>1, <1>3, <1>7 DEF TablesAreOwned
 <2> QED BY <2>3, <2>4, <2>5, <1>1, <1>3 DEF TablesAreOwned
<1>21. OldCallsAreStale' BY <1>1, <1>8, <1>9 DEF OldCallsAreStale
<1>22. OldIdsAreStale'
 <2>1. \A l \in Ids : serverIds'[l] # 0 => Stale(l)' BY <1>1, <1>3, <1>9 DEF OldIdsAreStale
 <2>2. ASSUME NEW w \in Uses, users'[w].id # 0, users'[w].state # "stopping", users'[w].id \notin resubscribeCalls \cup publishIds
       PROVE  Stale(users[w].id)' /\ Stale(ServerId(users[w].id))'
  <3>1. Stale(users[w].id) /\ Stale(ServerId(users[w].id)) BY <2>2, <1>1, <1>7 DEF OldIdsAreStale
  <3>2. users'[w].id = users[w].id /\ ServerId(users[w].id)' = ServerId(users[w].id) BY <1>3, <1>7 DEF ServerId
  <3> QED BY <3>1, <3>2 DEF Stale
 <2> QED BY <2>1, <2>2, <1>3 DEF OldIdsAreStale
<1>23. SubscriptionsAreOwned'
 <2> SUFFICES ASSUME NEW o \in onServer
              PROVE  \/ Pending(o.use, o.id)'
                     \/ Mapped(o.use, o.id)' /\ Owned(o.use)'
                     \/ Call("unsubscribe", o.use, o.id) \in sent' /\ ~Owned(o.use)'
                     \/ TooLate(o)'
     BY DEF SubscriptionsAreOwned, Call
 <2>1. o.use \in Uses /\ o.id \in Ids BY <1>1, ClientTypes
 <2>2. CASE Pending(o.use, o.id)
  <3>1. Unclaimed(o.id)' BY <2>1, <2>2, <1>1, <1>8 DEF UnansweredAreNew
  <3>2. Pending(o.use, o.id)' \/ o \in overdue' BY <2>2
  <3> QED BY <3>1, <3>2 DEF TooLate
 <2>3. CASE Mapped(o.use, o.id) /\ Owned(o.use)
  <3>1. users[o.use].id # 0 BY <2>3 DEF Mapped
  <3> QED BY <3>1, <2>1, <2>3, <1>8, <1>9
 <2>4. CASE Call("unsubscribe", o.use, o.id) \in sent /\ ~Owned(o.use)
  <3>1. Call("unsubscribe", o.use, o.id) # c BY DEF Call, Asks
  <3>2. ~Owned(o.use)' BY <2>1, <2>4, <1>7 DEF Owned
  <3> QED BY <3>1, <3>2, <2>4
 <2>5. CASE TooLate(o) BY <2>5, <1>8 DEF TooLate
 <2> QED BY <2>2, <2>3, <2>4, <2>5, <1>1 DEF SubscriptionsAreOwned
<1>24. GivenBackIsFree'
 <2> SUFFICES ASSUME NEW d \in sent, ~Asks(d)
              PROVE  /\ d.id # 0 /\ users'[d.use].state \in {"stopping", "stopped"}
                     /\ \A w \in Uses : ~Pending(w, d.id)'
                     /\ \A w \in Uses : Owned(w)' => ~Mapped(w, d.id)'
     BY DEF GivenBackIsFree
 <2>1. d.id # 0 /\ users[d.use].state \in {"stopping", "stopped"} /\ (\A w \in Uses : ~Pending(w, d.id)) /\ (\A w \in Uses : Owned(w) => ~Mapped(w, d.id))
     BY <1>1 DEF GivenBackIsFree
 <2>2. d.use \in Uses BY <1>1, ClientTypes
 <2>3. \A w \in Uses : Owned(w)' => ~Mapped(w, d.id)' BY <2>1, <1>8, <1>9 DEF Mapped
 <2> QED BY <2>1, <2>2, <2>3, <1>7
<1>25. NewestArrives'
 <2> DEFINE W == {w \in Uses : users'[w].state = users[w].state}
 <2>1. \A o \in onServer' : o.use \in Uses BY <1>1, ClientTypes
 <2>2. \A o \in onServer' : users'[o.use].state \in {"calling", "live"} => o.use \in W BY <2>1, <1>7
 <2>3. /\ W \in SUBSET Uses /\ (\A w \in W : users'[w].state = users[w].state)
       /\ (\A w \in W : \A i : Mapped(w, i)' <=> Mapped(w, i)) /\ (\A w \in W : \A v : users[w].id # 0 /\ Holds(w, v) => Holds(w, v)')
     BY <1>8
 <2> HIDE DEF W
 <2> QED BY <2>2, <2>3, <1>3, NewestStay
<1>26. LiveAreServed'
 <2> SUFFICES ASSUME NEW w \in Uses, users'[w].state = "live", UserKind(w) # "publication"
              PROVE  \/ /\ users[w].id \in resubscribeCalls
                        /\ [use |-> w, id |-> ServerId(users[w].id)] \in onServer \/ Resubscribing(w)' \/ users'[w].told
                     \/ users[w].id \notin resubscribeCalls /\ ToldOfStop(w)'
  <3>1. \A w \in Uses : UserKind(w)' = UserKind(w) /\ users'[w].id = users[w].id /\ ServerId(users[w].id)' = ServerId(users[w].id)
      BY <1>3, <1>7 DEF UserKind, ServerId
  <3> QED BY <3>1, <1>3 DEF LiveAreServed
 <2>1. users[w].state = "live" /\ (ToldOfStop(w)' <=> ToldOfStop(w)) BY <1>7, <1>8 DEF ToldOfStop
 <2>2. \/ /\ users[w].id \in resubscribeCalls
          /\ [use |-> w, id |-> ServerId(users[w].id)] \in onServer \/ Resubscribing(w) \/ users[w].told
       \/ users[w].id \notin resubscribeCalls /\ ToldOfStop(w)
     BY <2>1, <1>1 DEF LiveAreServed
 <2>3. CASE Resubscribing(w) /\ users[w].id \in resubscribeCalls
  <3>1. PICK d \in Calls : Flying(d) /\ d.method = "resubscribe" /\ d.use = w BY <2>3 DEF Resubscribing
  <3>2. CASE d = c
   <4>1. users[w].id = c.id BY <3>1, <3>2, <2>1, <1>2 DEF Fits
   <4>2. users'[w].told BY <4>1, <3>1, <3>2, <2>3, <1>5, <1>6 DEF u
   <4> QED BY <4>2, <2>3
  <3>3. CASE d # c BY <3>1, <3>3, <2>3 DEF Resubscribing
  <3> QED BY <3>2, <3>3
 <2> QED BY <2>1, <2>2, <2>3, <1>7
<1>27. PublicationsAreKept'
 <2>1. \A w \in Uses : UserKind(w)' = UserKind(w) BY DEF UserKind
 <2> QED BY <2>1, <1>1, <1>3, <1>7 DEF PublicationsAreKept, PublicationIsTold
<1> QED
    BY <1>7, <1>10, <1>11, <1>12, <1>13, <1>14, <1>15, <1>16, <1>17, <1>18, <1>19, <1>20, <1>21, <1>22, <1>23, <1>24, <1>25, <1>26, <1>27 DEF ClientInv

LEMMA RejectedKeepsClient ==
    ASSUME ClientInv, NEW c \in sent, callRejected(c)
    PROVE  ClientInv' /\ \A w \in Uses : users'[w].seen = users[w].seen
<1>1. ClientTypeOK /\ DroppedIsEmpty /\ AskedOnce BY DEF ClientInv
<1>2. /\ callFailed(c) /\ sent' = sent \ {c} /\ clientJob' = clientJob /\ link' = link /\ UNCHANGED ClientTables /\ handled' = handled
      /\ wire' = wire /\ onServer' = onServer /\ versions' = versions /\ ids' = ids /\ overdue' = overdue
    BY DEF callRejected
<1>3. c \in Calls /\ Asks(c) /\ Flying(c) /\ Connected BY <1>1, ClientTypes DEF callRejected, Asks, Flying, DroppedIsEmpty
<1>4. \A d : Flying(d)' => Flying(d) /\ (Asks(d) => d.use # c.use)
 <2>1. \A h \in handled : h.call.use # c.use BY <1>1, <1>3 DEF AskedOnce
 <2>2. \A m \in Msgs(wire) : IsReply(m) => m.call.use # c.use BY <1>1, <1>3 DEF AskedOnce
 <2>3. \A d \in sent : Asks(d) /\ d.use = c.use => d = c BY <1>1, <1>3 DEF AskedOnce
 <2> QED BY <2>1, <2>2, <2>3, <1>2 DEF Flying, IsReply
<1>5. \A d : Flying(d) => Flying(d)' \/ d = c BY <1>2 DEF Flying
<1>6. \A w, i : Pending(w, i)' <=> Pending(w, i) BY <1>2 DEF Pending
<1> QED BY <1>2, <1>3, <1>4, <1>5, <1>6, FailedCallKeepsClient

LEMMA TimedOutKeepsClient ==
    ASSUME ClientInv, NEW h \in handled, callTimesOut(h)
    PROVE  ClientInv' /\ \A w \in Uses : users'[w].seen = users[w].seen
<1> DEFINE c == h.call
<1>1. ClientTypeOK /\ DroppedIsEmpty /\ AskedOnce /\ SubscribedOnce BY DEF ClientInv
<1>2. /\ callFailed(c) /\ handled' = handled \ {h} /\ clientJob' = clientJob /\ link' = link /\ UNCHANGED ClientTables /\ sent' = sent
      /\ wire' = wire /\ onServer' = onServer /\ versions' = versions /\ ids' = ids
      /\ overdue' = overdue \cup {[use |-> c.use, id |-> h.id]}
    BY DEF callTimesOut
<1>3. c \in Calls /\ Asks(c) /\ Flying(c) /\ Connected BY <1>1, ClientTypes DEF AskedOnce, Flying, DroppedIsEmpty
<1>4. \A d : Flying(d)' => Flying(d) /\ (Asks(d) => d.use # c.use)
 <2>1. \A k \in handled : k.call.use = c.use => k = h BY <1>1 DEF AskedOnce
 <2>2. \A m \in Msgs(wire) : IsReply(m) => m.call.use # c.use BY <1>1 DEF AskedOnce
 <2>3. \A d \in sent : Asks(d) => d.use # c.use BY <1>1 DEF AskedOnce
 <2> HIDE DEF c
 <2> QED BY <2>1, <2>2, <2>3, <1>2 DEF Flying, IsReply
<1>5. \A d : Flying(d) => Flying(d)' \/ d = c BY <1>2 DEF Flying
<1>6. \A w, i : Pending(w, i)' => Pending(w, i) BY <1>2 DEF Pending
<1>7. \A o \in onServer : Pending(o.use, o.id) => Pending(o.use, o.id)' \/ o \in overdue'
 <2> SUFFICES ASSUME NEW o \in onServer, Pending(o.use, o.id), ~Pending(o.use, o.id)' PROVE o \in overdue' OBVIOUS
 <2>1. o.id = h.id /\ o.use = c.use BY <1>2 DEF Pending
 <2>2. o = [use |-> o.use, id |-> o.id] BY <1>1, ClientTypes
 <2> QED BY <2>1, <2>2, <1>2
<1> HIDE DEF c
<1> QED BY <1>2, <1>3, <1>4, <1>5, <1>6, <1>7, FailedCallKeepsClient

LEMMA ClientInvStep == ClientInv /\ [ClientNext]_clientVars => ClientInv'
<1> SUFFICES ASSUME ClientInv, [ClientNext]_clientVars
             PROVE  ClientInv'
    OBVIOUS
<1>1. CASE open \/ refused \/ drop BY <1>1, OpenKeepsClient, RefusedKeepsClient, DropKeepsClient
<1>2. CASE receiveNotification \/ subscribed BY <1>2, NotificationKeepsClient, SubscribedKeepsClient
<1>3. CASE resubscribed BY <1>3, TakenOverKeepsClient, GivenUpKeepsClient
<1>4. CASE notRunning \/ unsubscribed BY <1>4, NotRunningKeepsClient, UnsubscribedKeepsClient
<1>5. ASSUME NEW u \in DOMAIN clientJob.kind, subscribe(u) \/ waitTimesOut(u) \/ attach(u) \/ sendUnsubscribe(u) \/ stopEarly(u)
      PROVE  ClientInv'
    BY <1>5, SubscribeKeepsClient, TimeoutKeepsClient, AttachKeepsClient, SendUnsubscribeKeepsClient, StopEarlyKeepsClient
<1>6. ASSUME NEW u \in DOMAIN clientJob.kind, NEW v \in 1..MaxVersions \cup {Stopped}, serverUpdates(u, v)
      PROVE  ClientInv'
    BY <1>6, UpdateKeepsClient
<1>7. ASSUME NEW c \in sent, serverSubscribes(c) \/ serverUnsubscribes(c) \/ callRejected(c)
      PROVE  ClientInv'
    BY <1>7, ServerSubscribesKeepsClient, GiveBackKeepsClient, RejectedKeepsClient
<1>8. ASSUME NEW h \in handled, serverAnswers(h) \/ callTimesOut(h)
      PROVE  ClientInv'
    BY <1>8, AnswerKeepsClient, TimedOutKeepsClient
<1>9. CASE UNCHANGED clientVars BY <1>9, ClientStutters
<1> QED BY <1>1, <1>2, <1>3, <1>4, <1>5, <1>6, <1>7, <1>8, <1>9 DEF ClientNext

(* Everything the argument about the client rests on holds in every state *)
(* of it: what is subscribed, on the wire, buffered and mapped fit together. *)
THEOREM ClientIsInvariant == ClientSpec => []ClientInv
<1>1. ClientInit => ClientInv BY ClientStarts
<1>2. ClientInv /\ [ClientNext]_clientVars => ClientInv' BY ClientInvStep
<1> QED BY <1>1, <1>2, PTL DEF ClientSpec

LEMMA ClientInvKeepsUp == ClientInv => ClientKeepsUp
<1> SUFFICES ASSUME ClientInv
             PROVE  ClientKeepsUp
    OBVIOUS
<1>1. /\ ClientTypeOK /\ DroppedIsEmpty /\ ListsComeBack /\ SilentHaveNothing
      /\ SubscriptionsAreOwned /\ NewestArrives /\ LiveAreServed /\ PublicationsAreKept
    BY DEF ClientInv
<1>2. Quiet => (\A c : ~Flying(c)) /\ (\A u, i : ~Pending(u, i)) /\ Msgs(wire) = {}
 <2>1. wire = <<>> => Msgs(wire) = {} BY DEF Msgs
 <2> QED BY <2>1 DEF Quiet, Flying, Pending
<1>3. QuietMeansCurrent
 <2> SUFFICES ASSUME Quiet, NEW u \in Uses, users[u].state = "live", users[u].attached, UserKind(u) # "publication", ~users[u].told
              PROVE  users[u].seen = versions[u]
     BY DEF QuietMeansCurrent, Current
 <2>1. users[u].id # 0 /\ ~Resubscribing(u) /\ Connected BY <1>1, <1>2 DEF SilentHaveNothing, Resubscribing, Quiet
 <2>2. CASE ToldOfStop(u) BY <2>2 DEF ToldOfStop, Holds
 <2>3. CASE [use |-> u, id |-> ServerId(users[u].id)] \in onServer
  <3>1. PICK o \in onServer : o.use = u /\ o.id = ServerId(users[u].id) BY <2>3
  <3>2. ~TellsLast(wire, o.id, versions[o.use]) BY DEF Quiet, TellsLast, NotesOf
  <3>3. Holding(u, o.id, versions[u]) BY <3>1, <3>2, <1>1 DEF NewestArrives
  <3>4. Mapped(u, o.id) BY <3>1, <2>1 DEF Mapped
  <3> QED BY <3>3, <3>4 DEF Holding, Holds
 <2> QED BY <2>1, <2>2, <2>3, <1>1 DEF LiveAreServed
<1>4. NoOrphanSubscription
 <2> SUFFICES ASSUME Quiet, NEW o \in onServer
              PROVE  \/ users[o.use].state = "live" /\ ServerId(users[o.use].id) = o.id
                     \/ users[o.use].state = "unwanted"
                     \/ o \in overdue
     BY DEF NoOrphanSubscription
 <2>1. (Mapped(o.use, o.id) /\ Owned(o.use)) \/ o \in overdue BY <1>1, <1>2 DEF SubscriptionsAreOwned, TooLate, Quiet
 <2> QED BY <2>1 DEF Mapped, Owned
<1>5. ListsAreSubscribed
 <2> SUFFICES ASSUME Connected, NEW u \in DOMAIN clientJob.kind, UserKind(u) = "list"
              PROVE  users[u].state \in {"idle", "calling", "live", "rejected"}
     BY DEF ListsAreSubscribed
 <2>1. u \in Uses /\ users[u].state \in UserStates BY <1>1, ClientTypes DEF UserRows
 <2>2. users[u].state \notin {"absent", "waiting", "unwanted", "stopping", "stopped"} BY <2>1, <1>1 DEF ListsComeBack, Connected
 <2>3. users[u].state # "threw" BY <2>1, <1>1 DEF ListsComeBack, Connected
 <2> QED BY <2>1, <2>2, <2>3 DEF UserStates
<1> QED BY <1>1, <1>3, <1>4, <1>5 DEF ClientKeepsUp, PublicationsAreKept

(* A client that reconnects ends up where one that never lost its connection *)
(* is: once nothing is under way the live instances have the latest version, *)
(* nothing is subscribed that was given up, publications and lists are told. *)
THEOREM ClientKeepsUpWithServer == ClientSpec => []ClientKeepsUp
<1>1. ClientInv => ClientKeepsUp BY ClientInvKeepsUp
<1> QED BY <1>1, ClientIsInvariant, PTL

(* What is dispatched under the id of an instance that goes on changes *)
(* nothing for one that stopped. *)
LEMMA StoppedIsPassedOver ==
    ASSUME ClientInv, NEW l \in Ids, NEW vs \in Seq(Nat), vs # <<>>, NEW B \in [Ids -> Seq(Nat)], Dispatched(l, vs, users, B),
           \A w \in Uses : users[w].state = "stopped" => users[w].id # l
    PROVE  \A w \in Uses : users[w].state = "stopped" => users'[w].seen = users[w].seen
<1>1. ClientTypeOK /\ IdsAreSingle BY DEF ClientInv
<1>2. \A w \in Uses : ~(users[w].id = l /\ users[w].attached) => users'[w].seen = users[w].seen BY <1>1, DispatchDoes
<1> QED BY <1>2

LEMMA StoppedIsStale ==
    ASSUME ClientInv, NEW w \in Uses, users[w].state = "stopped", users[w].id # 0
    PROVE  /\ users[w].id \notin resubscribeCalls
           /\ Stale(users[w].id) /\ Stale(ServerId(users[w].id))
<1>1. ClientTypeOK /\ IdsAreSingle /\ TablesAreOwned /\ OldIdsAreStale BY DEF ClientInv
<1>2. \A u \in Uses : users[u].id = users[w].id => u = w BY <1>1 DEF IdsAreSingle
<1>3. users[w].id \notin resubscribeCalls \cup publishIds
 <2>1. \A l \in resubscribeCalls \cup publishIds : \E u \in Uses : users[u].id = l /\ Owned(u) BY <1>1 DEF TablesAreOwned
 <2>2. ~Owned(w) BY DEF Owned
 <2> QED BY <2>1, <2>2, <1>2
<1> QED BY <1>1, <1>3 DEF OldIdsAreStale

LEMMA StoppedSeesNoMore == ClientInv /\ [ClientNext]_clientVars => \A w \in Uses : users[w].state = "stopped" => users'[w].seen = users[w].seen
<1> SUFFICES ASSUME ClientInv, [ClientNext]_clientVars
             PROVE  \A w \in Uses : users[w].state = "stopped" => users'[w].seen = users[w].seen
    OBVIOUS
<1>1. ClientTypeOK /\ IdsAreSingle /\ TablesAreOwned /\ StopsAreTrue BY DEF ClientInv
<1>2. users \in [Uses -> UserRows] /\ buffers \in [Ids -> Seq(Nat)] /\ DOMAIN clientJob.kind \subseteq Uses
    BY <1>1, ClientTypes DEF ClientTypeOK
<1>3. ASSUME users' = users
      PROVE  \A w \in Uses : users'[w].seen = users[w].seen
    BY <1>3
<1>4. CASE open BY <1>4 DEF open
<1>5. CASE refused BY <1>5 DEF refused
<1>6. CASE drop BY <1>6 DEF drop
<1>7. CASE receiveNotification
 <2>1. PICK h, s, l, vs : h = Head(wire) /\ s = h.id /\ l = LocalId(s) /\ vs = <<h.version>> OBVIOUS
 <2>2. wire # <<>> /\ h.type = "note" /\ Dispatched(l, vs, users, buffers) BY <2>1, <1>7 DEF receiveNotification
 <2>3. h \in Msgs(wire) BY <2>1, <2>2, <1>1, WireShrinks DEF ClientTypeOK
 <2>4. s \in Ids /\ h.version \in Nat BY <2>1, <2>2, <2>3, <1>1, ClientTypes
 <2>5. ~Stale(s) BY <2>1, <2>2, <2>3 DEF Msgs, Stale, NoNote, NotesOf
 <2>6. l \in Ids /\ vs \in Seq(Nat) /\ vs # <<>> BY <2>1, <2>4, <1>1, LocalIdIs
 <2>7. ASSUME NEW w \in Uses, users[w].state = "stopped" PROVE users[w].id # l
  <3> SUFFICES ASSUME users[w].id = l PROVE FALSE OBVIOUS
  <3>1. l # 0 BY <2>6 DEF Ids
  <3>2. Stale(l) /\ Stale(ServerId(l)) BY <2>7, <3>1, StoppedIsStale
  <3>3. serverIds[l] = s \/ l = s BY <2>1, <2>4, <1>1, LocalIdIs
  <3> QED BY <3>2, <3>3, <2>4, <2>5 DEF ServerId, Ids
 <2> QED BY <2>2, <2>6, <2>7, <1>2, StoppedIsPassedOver
<1>8. CASE subscribed
 <2>1. PICK u : u = Head(wire).call.use OBVIOUS
 <2>2. \E s : users' = [users EXCEPT ![u].id = s, ![u].state = IF @ = "calling" THEN "live" ELSE @] BY <2>1, <1>8 DEF subscribed
 <2> QED BY <2>2, <1>2 DEF UserRows
<1>9. CASE resubscribed
 <2>1. PICK l, s, vs, B : l = Head(wire).call.id /\ s = Head(wire).id /\ vs = buffers[s] /\ B = [buffers EXCEPT ![s] = <<>>] OBVIOUS
 <2>2. users' = users \/ (l \in resubscribeCalls /\ vs # <<>> /\ Dispatched(l, vs, users, B))
     BY <2>1, <1>9 DEF resubscribed, StillWanted, Early
 <2>3. CASE l \in resubscribeCalls /\ vs # <<>> /\ Dispatched(l, vs, users, B)
  <3>1. Head(wire) \in Msgs(wire) /\ s # 0 /\ wire # <<>> /\ Head(wire).type = "answer"
   <4>1. wire # <<>> /\ s # 0 /\ Head(wire).type = "answer" BY <2>1, <1>9 DEF resubscribed, Answered
   <4> QED BY <4>1, <1>1, WireShrinks DEF ClientTypeOK
  <3>2. s \in 0..MaxIds BY <3>1, <2>1, <1>1, ClientTypes
  <3>3. s \in Ids /\ l \in Ids BY <3>1, <3>2, <2>3, <1>1, ClientConstants DEF Ids, ClientTypeOK
  <3>4. vs \in Seq(Nat) /\ B \in [Ids -> Seq(Nat)] BY <3>3, <2>1, <1>2
  <3>5. \A w \in Uses : users[w].state = "stopped" => users[w].id # l BY <2>3, <3>3, StoppedIsStale DEF Ids
  <3> QED BY <2>3, <3>3, <3>4, <3>5, StoppedIsPassedOver
 <2> QED BY <2>2, <2>3, <1>3
<1>10. CASE notRunning
 <2>1. PICK l, vs : l = Head(wire).call.id /\ vs = <<Stopped>> OBVIOUS
 <2>2. users' = users \/ (l \in resubscribeCalls /\ Dispatched(l, vs, users, buffers)) BY <2>1, <1>10 DEF notRunning
 <2>3. CASE l \in resubscribeCalls /\ Dispatched(l, vs, users, buffers)
  <3>1. l \in Ids /\ vs \in Seq(Nat) /\ vs # <<>> BY <2>1, <2>3, <1>1 DEF ClientTypeOK, Stopped
  <3>2. \A w \in Uses : users[w].state = "stopped" => users[w].id # l BY <2>3, <3>1, StoppedIsStale DEF Ids
  <3> QED BY <2>3, <3>1, <3>2, <1>2, StoppedIsPassedOver
 <2> QED BY <2>2, <2>3, <1>3
<1>11. CASE unsubscribed BY <1>11, UnsubscribedKeepsClient
<1>12. ASSUME NEW u \in DOMAIN clientJob.kind, subscribe(u) \/ waitTimesOut(u) \/ stopEarly(u)
       PROVE  \A w \in Uses : users'[w].seen = users[w].seen
 <2>1. \E x : users' = [users EXCEPT ![u].state = x] BY <1>12 DEF subscribe, waitTimesOut, stopEarly
 <2> QED BY <2>1, <1>2 DEF UserRows
<1>13. ASSUME NEW u \in DOMAIN clientJob.kind, attach(u)
       PROVE  \A w \in Uses : users[w].state = "stopped" => users'[w].seen = users[w].seen
 <2>1. users[u].state # "stopped" /\ \E x : users' = [users EXCEPT ![u].attached = TRUE, ![u].seen = x]
  <3>1. PICK b : b = buffers[users[u].id] OBVIOUS
  <3>2. users' = [users EXCEPT ![u].attached = TRUE, ![u].seen = IF b = <<>> THEN users[u].seen ELSE Last(b)]
      BY <3>1, <1>2, <1>13 DEF attach, UserRows
  <3> QED BY <3>2, <1>13 DEF attach, ownsSubscription
 <2> QED BY <2>1, <1>2 DEF UserRows
<1>14. ASSUME NEW u \in DOMAIN clientJob.kind, sendUnsubscribe(u)
       PROVE  \A w \in Uses : users'[w].seen = users[w].seen
    BY <1>14, SendUnsubscribeKeepsClient
<1>15. ASSUME NEW u \in DOMAIN clientJob.kind, NEW v \in 1..MaxVersions \cup {Stopped}, serverUpdates(u, v)
       PROVE  users' = users
    BY <1>15 DEF serverUpdates
<1>16. ASSUME NEW c \in sent, serverSubscribes(c) \/ serverUnsubscribes(c) \/ callRejected(c)
       PROVE  \A w \in Uses : users'[w].seen = users[w].seen
    BY <1>16, RejectedKeepsClient DEF serverSubscribes, serverUnsubscribes
<1>17. ASSUME NEW h \in handled, serverAnswers(h) \/ callTimesOut(h)
       PROVE  \A w \in Uses : users'[w].seen = users[w].seen
    BY <1>17, TimedOutKeepsClient DEF serverAnswers
<1>18. CASE UNCHANGED clientVars BY <1>18 DEF clientVars
<1> QED BY <1>3, <1>4, <1>5, <1>6, <1>7, <1>8, <1>9, <1>10, <1>11, <1>12, <1>13, <1>14, <1>15, <1>16, <1>17, <1>18 DEF ClientNext

(* An instance that gave its subscription back is not told anything more: no *)
(* notification, late answer or replayed buffer reaches it under an old id. *)
THEOREM StoppedInstancesStayQuiet == ClientSpec => StoppedStaysQuiet
<1>1. ClientInv /\ [ClientNext]_clientVars => [\A u \in Uses : users[u].state = "stopped" => users'[u].seen = users[u].seen]_clientVars
    BY StoppedSeesNoMore
<1> QED BY <1>1, ClientIsInvariant, PTL DEF ClientSpec, StoppedStaysQuiet
========================================
