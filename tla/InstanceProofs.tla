-------------------- MODULE InstanceProofs --------------------
(***************************************************************************)
(* Three parts of a PKC instance, for any number of instances, names and   *)
(* data paths, of providers, routers and late addresses, of keys, records, *)
(* updating communities and loaders. The registry of running instances:    *)
(* its two maps stay each other's inverse, an alias has one owner, and no  *)
(* lookup crosses a data path. A search for peers: it ends with everything *)
(* tried, and says truly why it missed. And the communities that update:   *)
(* what is shown is endorsed, a verdict on a name was given by the name,   *)
(* and no record that is pushed to a sleeping loop is missed.              *)
(***************************************************************************)
EXTENDS InstanceRegistry, PeerSearch, CommunityUpdating, TLAPS

----------------------------------------
(* The invariant of the registry. *)

(* Every alias an instance is filed under carries the instance's data path. *)
FiledUnderItsPath == \A v \in Instance : \A a \in entries[v].as : a[1] = dataPath[v]

RegistryInv == RegistryTypeOK /\ IndexesAgree /\ OneOwner /\ FiledUnderItsPath

----------------------------------------
(* What an instance is filed under is a set of aliases of its data path. *)
LEMMA ScopedAliases ==
    ASSUME NEW v \in Instance, NEW ids \in SUBSET Identity
    PROVE  /\ scopeAliasesToDataPath(v, ids) \in SUBSET Alias
           /\ \A a \in scopeAliasesToDataPath(v, ids) : a[1] = dataPath[v]
<1>1. dataPath[v] \in DataPath BY RegistryAssumption
<1>2. QED BY <1>1 DEF scopeAliasesToDataPath, Alias

(* The aliases of known identities are identities. *)
LEMMA AliasesAreIdentities ==
    ASSUME NEW ids \in SUBSET Identity
    PROVE  getCommunityRegistryAliases(ids) \in SUBSET Identity
BY RegistryAssumption DEF getCommunityRegistryAliases

(* addAliases keeps the two maps inverse and the owners single, whoever held *)
(* the aliases it hands over. *)
LEMMA AddKeepsInvariant ==
    ASSUME RegistryInv, NEW v \in Instance, NEW as \in SUBSET Alias,
           \A a \in as : a[1] = dataPath[v],
           addAliases(v, as)
    PROVE  /\ entries' \in [Instance -> [tracked : BOOLEAN, as : SUBSET Alias]]
           /\ aliases' \in [Alias -> SUBSET Instance]
           /\ IndexesAgree' /\ OneOwner' /\ FiledUnderItsPath'
<1> DEFINE new == as \ entries[v].as
<1>t. /\ entries \in [Instance -> [tracked : BOOLEAN, as : SUBSET Alias]]
      /\ aliases \in [Alias -> SUBSET Instance]
    BY DEF RegistryInv, RegistryTypeOK
<1>e. entries' = [w \in Instance |-> IF w = v THEN [tracked |-> TRUE, as |-> entries[v].as \cup as]
                                     ELSE [entries[w] EXCEPT !.as = @ \ new]]
    BY DEF addAliases
<1>a. aliases' = [a \in Alias |-> IF a \in new THEN {v} ELSE aliases[a]] BY DEF addAliases
<1>1. \A w \in Instance : /\ w = v => entries'[w].tracked = TRUE /\ entries'[w].as = entries[v].as \cup as
                          /\ w # v => entries'[w].tracked = entries[w].tracked /\ entries'[w].as = entries[w].as \ new
    BY <1>t, <1>e
<1>2. \A a \in Alias : aliases'[a] = IF a \in new THEN {v} ELSE aliases[a] BY <1>a
<1>3. entries' \in [Instance -> [tracked : BOOLEAN, as : SUBSET Alias]] BY <1>t, <1>e
<1>4. aliases' \in [Alias -> SUBSET Instance] BY <1>t, <1>a
<1>o. /\ \A w \in Instance, a \in Alias : a \in entries[w].as <=> w \in aliases[a]
      /\ \A w \in Instance : ~entries[w].tracked => entries[w].as = {}
    BY DEF RegistryInv, IndexesAgree
<1>5. IndexesAgree'
 <2>1. ASSUME NEW w \in Instance, NEW a \in Alias PROVE a \in entries'[w].as <=> w \in aliases'[a]
  <3>o. a \in entries[w].as <=> w \in aliases[a] BY <1>o
  <3>1. CASE w = v
   <4>1. entries'[w].as = entries[v].as \cup as BY <3>1, <1>1
   <4>2. CASE a \in new
    <5>1. w \in aliases'[a] BY <4>2, <3>1, <1>2
    <5>2. QED BY <5>1, <4>1, <4>2
   <4>3. CASE a \notin new
    <5>1. aliases'[a] = aliases[a] BY <4>3, <1>2
    <5>2. QED BY <5>1, <4>1, <4>3, <3>1, <3>o
   <4>4. QED BY <4>2, <4>3
  <3>2. CASE w # v
   <4>1. entries'[w].as = entries[w].as \ new BY <3>2, <1>1
   <4>2. CASE a \in new
    <5>1. aliases'[a] = {v} BY <4>2, <1>2
    <5>2. QED BY <5>1, <4>1, <4>2, <3>2
   <4>3. CASE a \notin new
    <5>1. aliases'[a] = aliases[a] BY <4>3, <1>2
    <5>2. QED BY <5>1, <4>1, <4>3, <3>o
   <4>4. QED BY <4>2, <4>3
  <3>3. QED BY <3>1, <3>2
 <2>2. ASSUME NEW w \in Instance, ~entries'[w].tracked PROVE entries'[w].as = {}
  <3>1. w # v BY <2>2, <1>1
  <3>2. QED BY <3>1, <2>2, <1>1, <1>o
 <2>3. QED BY <2>1, <2>2 DEF IndexesAgree
<1>6. OneOwner' BY <1>2 DEF RegistryInv, OneOwner
<1>7. FiledUnderItsPath'
 <2> SUFFICES ASSUME NEW w \in Instance, NEW a \in entries'[w].as PROVE a[1] = dataPath[w] BY DEF FiledUnderItsPath
 <2>1. CASE w = v BY <2>1, <1>1 DEF RegistryInv, FiledUnderItsPath
 <2>2. CASE w # v BY <2>2, <1>1 DEF RegistryInv, FiledUnderItsPath
 <2>3. QED BY <2>1, <2>2
<1>8. QED BY <1>3, <1>4, <1>5, <1>6, <1>7

(* Every call of the registry keeps the invariant. *)
LEMMA RegistryStep == RegistryInv /\ [RegistryNext]_registryVars => RegistryInv'
<1> SUFFICES ASSUME RegistryInv, [RegistryNext]_registryVars PROVE RegistryInv' OBVIOUS
<1>t. /\ entries \in [Instance -> [tracked : BOOLEAN, as : SUBSET Alias]]
      /\ aliases \in [Alias -> SUBSET Instance]
      /\ known \in [Instance -> SUBSET Identity]
      /\ history \in [Instance -> SUBSET Identity]
    BY DEF RegistryInv, RegistryTypeOK
<1>o. /\ \A w \in Instance, a \in Alias : a \in entries[w].as <=> w \in aliases[a]
      /\ \A w \in Instance : ~entries[w].tracked => entries[w].as = {}
      /\ \A a \in Alias : \A u, w \in aliases[a] : u = w
      /\ \A w \in Instance : \A a \in entries[w].as : a[1] = dataPath[w]
    BY DEF RegistryInv, IndexesAgree, OneOwner, FiledUnderItsPath
<1>1. ASSUME NEW v \in Instance, track(v) PROVE RegistryInv'
 <2>1. getCommunityRegistryAliases(known[v]) \in SUBSET Identity BY <1>t, AliasesAreIdentities
 <2>2. history' \in [Instance -> SUBSET Identity] /\ known' = known BY <1>1, <1>t, <2>1 DEF track, persistAliases
 <2>3. history'[v] \in SUBSET Identity BY <2>2
 <2>4. addAliases(v, scopeAliasesToDataPath(v, history'[v])) BY <1>1 DEF track
 <2>5. /\ scopeAliasesToDataPath(v, history'[v]) \in SUBSET Alias
       /\ \A a \in scopeAliasesToDataPath(v, history'[v]) : a[1] = dataPath[v]
     BY <2>3, ScopedAliases
 <2>6. /\ entries' \in [Instance -> [tracked : BOOLEAN, as : SUBSET Alias]]
       /\ aliases' \in [Alias -> SUBSET Instance]
       /\ IndexesAgree' /\ OneOwner' /\ FiledUnderItsPath'
     BY <2>4, <2>5, AddKeepsInvariant
 <2>7. QED BY <2>2, <2>6, <1>t DEF RegistryInv, RegistryTypeOK
<1>2. ASSUME NEW v \in Instance, untrack(v) PROVE RegistryInv'
 <2>1. \A w \in Instance : /\ w = v => entries'[w].tracked = FALSE /\ entries'[w].as = {}
                           /\ w # v => entries'[w] = entries[w]
     BY <1>2, <1>t DEF untrack
 <2>2. \A a \in Alias : aliases'[a] = IF a \in entries[v].as THEN aliases[a] \ {v} ELSE aliases[a] BY <1>2 DEF untrack
 <2>3. RegistryTypeOK' BY <1>2, <1>t DEF untrack, RegistryTypeOK
 <2>4. IndexesAgree'
  <3>1. ASSUME NEW w \in Instance, NEW a \in Alias PROVE a \in entries'[w].as <=> w \in aliases'[a]
   <4>o. /\ a \in entries[w].as <=> w \in aliases[a]
         /\ a \in entries[v].as <=> v \in aliases[a]
       BY <1>o
   <4>1. CASE w = v
    <5>1. entries'[w].as = {} BY <4>1, <2>1
    <5>2. w \notin aliases'[a] BY <4>1, <4>o, <2>2
    <5>3. QED BY <5>1, <5>2
   <4>2. CASE w # v
    <5>1. entries'[w].as = entries[w].as BY <4>2, <2>1
    <5>2. w \in aliases'[a] <=> w \in aliases[a] BY <4>2, <2>2
    <5>3. QED BY <5>1, <5>2, <4>o
   <4>3. QED BY <4>1, <4>2
  <3>2. ASSUME NEW w \in Instance, ~entries'[w].tracked PROVE entries'[w].as = {}
   <4>1. CASE w = v BY <4>1, <2>1
   <4>2. CASE w # v BY <4>2, <3>2, <2>1, <1>o
   <4>3. QED BY <4>1, <4>2
  <3>3. QED BY <3>1, <3>2 DEF IndexesAgree
 <2>5. OneOwner'
  <3>1. \A a \in Alias : aliases'[a] \subseteq aliases[a] BY <2>2
  <3>2. QED BY <3>1, <1>o DEF OneOwner
 <2>6. FiledUnderItsPath' BY <2>1, <1>o DEF FiledUnderItsPath
 <2>7. QED BY <2>3, <2>4, <2>5, <2>6 DEF RegistryInv
<1>3. ASSUME NEW v \in Instance, NEW n \in Identity, forgetName(v, n) PROVE RegistryInv'
 <2> DEFINE forget == equivalent[n] \ getCommunityRegistryAliases(known[v])
            gone == scopeAliasesToDataPath(v, forget) \cap entries[v].as
 <2>1. /\ entries' = [entries EXCEPT ![v].as = @ \ gone]
       /\ aliases' = [a \in Alias |-> IF a \in gone THEN aliases[a] \ {v} ELSE aliases[a]]
       /\ history' = [history EXCEPT ![v] = @ \ forget]
       /\ known' = known
     BY <1>3 DEF forgetName, removeAliases
 <2> HIDE DEF gone, forget
 <2>2. \A w \in Instance : /\ w = v => entries'[w].tracked = entries[w].tracked /\ entries'[w].as = entries[w].as \ gone
                           /\ w # v => entries'[w] = entries[w]
     BY <2>1, <1>t
 <2>3. \A a \in Alias : aliases'[a] = IF a \in gone THEN aliases[a] \ {v} ELSE aliases[a] BY <2>1
 <2>4. RegistryTypeOK' BY <2>1, <1>t DEF RegistryTypeOK
 <2>5. gone \subseteq entries[v].as BY DEF gone
 <2>6. IndexesAgree'
  <3>1. ASSUME NEW w \in Instance, NEW a \in Alias PROVE a \in entries'[w].as <=> w \in aliases'[a]
   <4>o. a \in entries[w].as <=> w \in aliases[a] BY <1>o
   <4>1. CASE w = v
    <5>1. entries'[w].as = entries[w].as \ gone BY <4>1, <2>2
    <5>2. w \in aliases'[a] <=> w \in aliases[a] /\ a \notin gone BY <4>1, <2>3
    <5>3. QED BY <5>1, <5>2, <4>o
   <4>2. CASE w # v
    <5>1. entries'[w].as = entries[w].as BY <4>2, <2>2
    <5>2. w \in aliases'[a] <=> w \in aliases[a] BY <4>2, <2>3
    <5>3. QED BY <5>1, <5>2, <4>o
   <4>3. QED BY <4>1, <4>2
  <3>2. ASSUME NEW w \in Instance, ~entries'[w].tracked PROVE entries'[w].as = {} BY <3>2, <2>2, <1>o
  <3>3. QED BY <3>1, <3>2 DEF IndexesAgree
 <2>7. OneOwner'
  <3>1. \A a \in Alias : aliases'[a] \subseteq aliases[a] BY <2>3
  <3>2. QED BY <3>1, <1>o DEF OneOwner
 <2>8. FiledUnderItsPath' BY <2>2, <1>o DEF FiledUnderItsPath
 <2>9. QED BY <2>4, <2>6, <2>7, <2>8 DEF RegistryInv
<1>4. ASSUME NEW v \in Instance, NEW ids \in SUBSET Identity, identify(v, ids) PROVE RegistryInv'
 <2>1. entries' = entries /\ aliases' = aliases /\ history' = history /\ known' = [known EXCEPT ![v] = ids] BY <1>4 DEF identify
 <2>2. QED BY <2>1, <1>t, <1>o DEF RegistryInv, RegistryTypeOK, IndexesAgree, OneOwner, FiledUnderItsPath
<1>5. CASE UNCHANGED registryVars
    BY <1>5, <1>t, <1>o DEF registryVars, RegistryInv, RegistryTypeOK, IndexesAgree, OneOwner, FiledUnderItsPath
<1>6. QED BY <1>1, <1>2, <1>3, <1>4, <1>5 DEF RegistryNext, refreshAliases

(* The invariant holds in every reachable state. *)
THEOREM RegistryInvariant == RegistrySpec => []RegistryInv
<1>1. RegistryInit => RegistryInv BY DEF RegistryInit, RegistryInv, RegistryTypeOK, IndexesAgree, OneOwner, FiledUnderItsPath
<1>2. QED BY <1>1, RegistryStep, PTL DEF RegistrySpec

(* The two maps of TrackedInstanceRegistry agree, whatever aliases instances *)
(* take from one another. *)
THEOREM RegistryIndexesAgree == RegistrySpec => []IndexesAgree
<1>1. RegistryInv => IndexesAgree BY DEF RegistryInv
<1>2. QED BY <1>1, RegistryInvariant, PTL

(* findByAlias finds at most one instance. *)
THEOREM AliasHasOneOwner == RegistrySpec => []OneOwner
<1>1. RegistryInv => OneOwner BY DEF RegistryInv
<1>2. QED BY <1>1, RegistryInvariant, PTL

(* findByAliases never returns an instance of another data path (#238). *)
THEOREM LookupsStayInScope == RegistrySpec => []ScopeHolds
<1>1. RegistryInv => ScopeHolds
 <2> SUFFICES ASSUME RegistryInv, NEW d \in DataPath, NEW ids \in SUBSET Identity,
                     NEW v \in findByAliases(d, ids)
              PROVE  dataPath[v] = d
     BY DEF ScopeHolds
 <2>1. PICK n \in getCommunityRegistryAliases(ids) : v \in aliases[<<d, n>>] BY DEF findByAliases, findByAlias
 <2>2. n \in Identity BY AliasesAreIdentities
 <2>3. <<d, n>> \in Alias BY <2>2 DEF Alias
 <2>4. v \in Instance BY <2>1, <2>3 DEF RegistryInv, RegistryTypeOK
 <2>5. <<d, n>> \in entries[v].as BY <2>1, <2>3, <2>4 DEF RegistryInv, IndexesAgree
 <2>6. <<d, n>>[1] = dataPath[v] BY <2>4, <2>5 DEF RegistryInv, FiledUnderItsPath
 <2>7. QED BY <2>6
<1>2. QED BY <1>1, RegistryInvariant, PTL

(* A lookup finds the one instance tracked under an alias of its data path, *)
(* for any number of instances, identities and data paths. *)
THEOREM RegistryHolds == RegistrySpec => []RegistryIsSound
<1>1. IndexesAgree /\ OneOwner /\ ScopeHolds => RegistryIsSound BY DEF RegistryIsSound
<1>2. QED BY <1>1, RegistryIndexesAgree, AliasHasOneOwner, LookupsStayInScope, PTL

----------------------------------------
(* The invariant of a search. *)

PeerRec == [task : {"unseen", "merging", "dialing", "fetching", "done", "retryable"},
            retry : {"none", "reading", "releasing", "dialing", "fetching", "done"},
            verdict : {"none", "relay-only", "dialed", "no-dialable-addrs"},
            addrs : SUBSET Address, used : SUBSET Address, tried : BOOLEAN]

SearchRec == [stream : {"open", "ended"}, listening : BOOLEAN, attempted : Nat, connected : Nat, aborted : BOOLEAN,
              winner : SUBSET (SearchPeer \cup {"subscriber"}), wait : {"none", "waiting", "appeared", "timeout", "aborted"},
              asking : Nat, outcome : {"running", "found", "aborted", "miss", "failed", "threw"},
              reason : {"none", "relay-only-providers", "no-dialable-provider-addrs"},
              overtaken : SUBSET SearchPeer, tooLate : SUBSET SearchPeer, relayed : SUBSET SearchPeer]

SearchTypes == srJob \in SearchWorkload /\ peer \in [SearchPeer -> PeerRec] /\ sr \in SearchRec

(* A provider only a relay can reach waits for a better address; every other *)
(* one is dialled, at first by whatever addresses are known. *)
TaskIsKnown(r) ==
    /\ r.task = "unseen" => r.verdict = "none" /\ ~r.tried
    /\ r.task # "unseen" => r.verdict # "none"
    /\ r.task # "retryable" => r.retry = "none"
    /\ r.retry = "dialing" => r.verdict = "dialed" /\ "direct" \in r.used
    /\ r.tried => r.verdict = "dialed"

(* A provider with a usable address that was not tried yet will be: it is *)
(* being dialled, or a retry will read the peer store. *)
WillBeTried(r, open) ==
    \/ r.tried \/ r.task \in {"merging", "dialing"}
    \/ r.task = "retryable" /\ (r.retry \in {"reading", "dialing"} \/ (r.retry = "none" /\ open))

(* A dial or a request that was made tried an address. *)
OverIsTried(r) == r.task \in {"fetching", "done"} \/ r.retry \in {"fetching", "done"} => r.tried

(* The search as a whole: a stream that ended is not listened to, a search *)
(* that returned waits for nobody, and only a fetch gives a reason. *)
SearchIsOrdered ==
    /\ sr.listening = (sr.stream = "open")
    /\ sr.reason # "none" => Fetching /\ sr.outcome # "running"
    /\ Fetching /\ sr.outcome # "running" => sr.stream = "ended" /\ sr.asking = 0 /\ Drained
    /\ sr.outcome = "miss" => Fetching /\ ~Cut
    /\ sr.reason # "none" => \A p \in SearchPeer : ~peer[p].tried

(* A peer that is not lost is tried, or will be. *)
Awaited(r, open) == OverIsTried(r) /\ (r.task # "unseen" /\ "direct" \in r.addrs => WillBeTried(r, open))

PeersAreFollowed ==
    Fetching => \A p \in SearchPeer :
        TaskIsKnown(peer[p]) /\ (~Cut /\ p \notin Lost => Awaited(peer[p], sr.stream = "open"))

SearchInv == SearchTypes /\ SearchIsOrdered /\ PeersAreFollowed

----------------------------------------
(* A retry starts where none ran; nothing else of the peer changes. *)
LEMMA TriggerStarts ==
    ASSUME NEW r \in PeerRec
    PROVE  /\ trigger(r) \in PeerRec
           /\ trigger(r) = IF r.retry = "none" THEN [r EXCEPT !.retry = "reading"] ELSE r
           /\ trigger(r).retry = IF r.retry = "none" THEN "reading" ELSE r.retry
           /\ trigger(r).task = r.task /\ trigger(r).verdict = r.verdict /\ trigger(r).addrs = r.addrs
           /\ trigger(r).used = r.used /\ trigger(r).tried = r.tried
BY DEF trigger, PeerRec

(* A retryable peer has its retry at once when the stream has ended. *)
LEMMA MarkedIsRetryable ==
    ASSUME NEW p, NEW r \in PeerRec
    PROVE  /\ markRetryable(p, r) \in PeerRec /\ markRetryable(p, r).task = "retryable"
           /\ markRetryable(p, r).retry = IF r.retry = "none" /\ sr.stream = "ended" THEN "reading" ELSE r.retry
           /\ markRetryable(p, r).verdict = r.verdict /\ markRetryable(p, r).addrs = r.addrs
           /\ markRetryable(p, r).used = r.used /\ markRetryable(p, r).tried = r.tried
<1> DEFINE m == [r EXCEPT !.task = "retryable"]
<1>1. m \in PeerRec /\ m.task = "retryable" /\ m.retry = r.retry /\ m.verdict = r.verdict /\ m.addrs = r.addrs /\ m.used = r.used /\ m.tried = r.tried
    BY DEF PeerRec
<1>2. markRetryable(p, r) = IF sr.stream = "ended" THEN trigger(m) ELSE m BY DEF markRetryable
<1> HIDE DEF m
<1>3. QED BY <1>1, <1>2, TriggerStarts

(* A dial that tries an address which needs no relay makes the verdict. *)
LEMMA DialIsNoted ==
    ASSUME NEW r \in PeerRec
    PROVE  /\ markProviderDialed(r) \in PeerRec /\ markProviderDialed(r).task = r.task /\ markProviderDialed(r).retry = r.retry
           /\ markProviderDialed(r).verdict = (IF r.verdict = "none" THEN "none" ELSE "dialed")
           /\ markProviderDialed(r).addrs = r.addrs /\ markProviderDialed(r).used = r.used /\ markProviderDialed(r).tried = r.tried
           /\ Tried(r) \in PeerRec /\ Tried(r).task = r.task /\ Tried(r).retry = r.retry /\ Tried(r).verdict = r.verdict
           /\ Tried(r).addrs = r.addrs /\ Tried(r).used = r.used /\ Tried(r).tried = (r.tried \/ "direct" \in r.used)
BY DEF markProviderDialed, Tried, PeerRec

(* What a fetch needs of one peer depends on the search only through what *)
(* cuts it, its stream and the merges that came too late. *)
LEMMA OnePeerMoves ==
    ASSUME SearchInv, NEW p \in SearchPeer, NEW r \in PeerRec, peer' = [peer EXCEPT ![p] = r], srJob' = srJob,
           sr'.stream = sr.stream, Lost \subseteq Lost', Cut => Cut',
           Fetching => TaskIsKnown(r) /\ (~Cut' /\ p \notin Lost' => Awaited(r, sr.stream = "open"))
    PROVE  PeersAreFollowed'
<1>1. \A q \in SearchPeer : peer'[q] = IF q = p THEN r ELSE peer[q] BY DEF SearchInv, SearchTypes
<1>2. Fetching' = Fetching BY DEF Fetching
<1> SUFFICES ASSUME Fetching, NEW q \in SearchPeer
             PROVE  /\ TaskIsKnown(peer'[q])
                    /\ (~Cut' /\ q \notin Lost' => Awaited(peer'[q], sr'.stream = "open"))
    BY <1>2 DEF PeersAreFollowed
<1>3. CASE q = p BY <1>1, <1>3
<1>4. CASE q # p BY <1>1, <1>4 DEF SearchInv, PeersAreFollowed
<1>5. QED BY <1>3, <1>4

(* A search that has not returned stays in order. *)
LEMMA RunningMoves ==
    ASSUME SearchInv, Fetching => sr.outcome = "running", srJob' = srJob, sr'.outcome = sr.outcome, sr'.reason = sr.reason,
           sr'.listening = (sr'.stream = "open")
    PROVE  SearchIsOrdered'
<1>1. Fetching' = Fetching /\ SearchIsOrdered BY DEF Fetching, SearchInv
<1>2. sr.reason = "none" /\ sr.outcome # "miss" /\ ~(Fetching /\ sr.outcome # "running") BY <1>1 DEF SearchIsOrdered
<1>3. QED BY <1>1, <1>2 DEF SearchIsOrdered

(* A fetch does not return while a peer is busy. *)
LEMMA BusyRuns ==
    ASSUME SearchInv, NEW p \in SearchPeer, peer[p].task \in BusyStates \/ peer[p].retry \in RetryBusy
    PROVE  Fetching => sr.outcome = "running"
BY DEF SearchInv, SearchIsOrdered, Drained

(* The end of the stream has every retryable peer looked at once more. *)
LEMMA EndingTriggers ==
    ASSUME NEW ps \in [SearchPeer -> PeerRec]
    PROVE  /\ onProviderStreamEnded(ps) \in [SearchPeer -> PeerRec]
           /\ \A p \in SearchPeer : LET q == onProviderStreamEnded(ps)[p] IN
                 /\ q.task = ps[p].task /\ q.addrs = ps[p].addrs /\ q.tried = ps[p].tried
                 /\ (TaskIsKnown(ps[p]) => TaskIsKnown(q)) /\ (Awaited(ps[p], TRUE) => Awaited(q, FALSE))
<1> DEFINE o == onProviderStreamEnded(ps)
<1>1. \A p \in SearchPeer : /\ ps[p] \in PeerRec /\ trigger(ps[p]) \in PeerRec
                            /\ o[p] = IF ps[p].task = "retryable" THEN trigger(ps[p]) ELSE ps[p]
    BY TriggerStarts DEF onProviderStreamEnded
<1>2. o \in [SearchPeer -> PeerRec] BY <1>1 DEF onProviderStreamEnded
<1>3. ASSUME NEW p \in SearchPeer
      PROVE  /\ o[p].task = ps[p].task /\ o[p].addrs = ps[p].addrs /\ o[p].tried = ps[p].tried
             /\ o[p].verdict = ps[p].verdict /\ o[p].used = ps[p].used
             /\ o[p].retry = IF ps[p].task = "retryable" /\ ps[p].retry = "none" THEN "reading" ELSE ps[p].retry
    BY <1>1, TriggerStarts
<1> HIDE DEF o
<1>4. \A p \in SearchPeer : (TaskIsKnown(ps[p]) => TaskIsKnown(o[p])) /\ (Awaited(ps[p], TRUE) => Awaited(o[p], FALSE))
    BY <1>3 DEF TaskIsKnown, Awaited, OverIsTried, WillBeTried
<1>5. QED BY <1>2, <1>3, <1>4 DEF o

----------------------------------------
(* The addresses found go into the peer store, and the first dial reads it. *)
LEMMA Merging == ASSUME SearchInv, NEW p \in SearchPeer, mergeAddrs(p) PROVE SearchInv'
<1> DEFINE learned == peer[p].addrs \cup srJob.announced[p]
           r == [peer[p] EXCEPT !.task = "dialing", !.addrs = learned, !.used = learned]
<1>1. peer[p] \in PeerRec /\ peer[p].task = "merging" /\ srJob' = srJob /\ sr' = sr /\ srJob \in SearchWorkload /\ sr \in SearchRec
      /\ peer \in [SearchPeer -> PeerRec]
    BY DEF mergeAddrs, SearchInv, SearchTypes
<1>2. peer' = [peer EXCEPT ![p] = r] BY <1>1 DEF mergeAddrs
<1>3. srJob.announced[p] \subseteq Address BY <1>1, SearchAssumption
<1>4. r \in PeerRec /\ r.task = "dialing" /\ r.retry = peer[p].retry /\ r.verdict = peer[p].verdict /\ r.addrs = learned /\ r.used = learned
      /\ r.tried = peer[p].tried
    BY <1>1, <1>3 DEF PeerRec
<1> HIDE DEF r
<1>5. SearchTypes' BY <1>1, <1>2, <1>4 DEF SearchTypes
<1>6. SearchIsOrdered' BY <1>1, BusyRuns, RunningMoves DEF BusyStates, SearchInv, SearchIsOrdered
<1>7. Cut' = Cut /\ Lost' = Lost BY <1>1 DEF Cut, Won, Lost
<1>8. Fetching => TaskIsKnown(r) /\ Awaited(r, sr.stream = "open")
 <2>1. Fetching => TaskIsKnown(peer[p]) BY DEF SearchInv, PeersAreFollowed
 <2>2. QED BY <1>1, <1>4, <2>1 DEF TaskIsKnown, Awaited, WillBeTried, OverIsTried
<1>9. PeersAreFollowed' BY <1>1, <1>2, <1>4, <1>7, <1>8, OnePeerMoves
<1>10. QED BY <1>5, <1>6, <1>9 DEF SearchInv

(* The routers yield a provider; the last one ends the stream. *)
LEMMA Announcing == ASSUME SearchInv, NEW p \in SearchPeer, announce(p) PROVE SearchInv'
<1> DEFINE kind == srJob.announced[p]
           skipped == Fetching /\ kind = {"relay"}
           verdict == CASE skipped -> "relay-only" [] ~skipped /\ isDialable(kind) -> "dialed" [] OTHER -> "no-dialable-addrs"
           given == IF Fetching THEN verdict ELSE peer[p].verdict
           a == [peer[p] EXCEPT !.verdict = verdict, !.addrs = @ \cup kind]
           b == [peer[p] EXCEPT !.verdict = given, !.task = "merging"]
           r == IF skipped THEN markRetryable(p, a) ELSE b
           seen == [peer EXCEPT ![p] = r]
           attempted == sr.attempted + (IF Fetching /\ verdict = "dialed" THEN 1 ELSE 0)
           enough == IF Fetching THEN attempted >= MaxPeers ELSE sr.connected >= MaxPeers
           s == IF enough THEN StreamEnded(sr) ELSE sr
<1>1. /\ peer[p] \in PeerRec /\ srJob \in SearchWorkload /\ sr \in SearchRec /\ peer \in [SearchPeer -> PeerRec]
      /\ kind \subseteq Address
    BY SearchAssumption DEF SearchInv, SearchTypes
<1>2. /\ sr.outcome = "running" /\ sr.stream = "open" /\ peer[p].task = "unseen" /\ srJob' = srJob
      /\ peer' = (IF enough THEN onProviderStreamEnded(seen) ELSE seen)
      /\ sr' = [s EXCEPT !.attempted = attempted]
    BY DEF announce
<1>3. attempted \in Nat BY <1>1 DEF SearchRec
<1>4. /\ verdict \in {"relay-only", "dialed", "no-dialable-addrs"} /\ given \in {"none", "relay-only", "dialed", "no-dialable-addrs"}
      /\ Fetching => given = verdict
    BY <1>1 DEF PeerRec
<1> HIDE DEF attempted, enough, verdict, given
<1>5. s \in SearchRec /\ s.stream = (IF enough THEN "ended" ELSE "open") /\ s.listening = (IF enough THEN FALSE ELSE sr.listening)
      /\ s.outcome = sr.outcome /\ s.reason = sr.reason /\ s.overtaken = sr.overtaken /\ s.tooLate = sr.tooLate /\ s.relayed = sr.relayed
      /\ s.winner = sr.winner /\ s.aborted = sr.aborted
    BY <1>1, <1>2 DEF StreamEnded, SearchRec
<1> HIDE DEF s
<1>6. sr' \in SearchRec /\ sr'.stream = (IF enough THEN "ended" ELSE "open") /\ sr'.listening = (IF enough THEN FALSE ELSE sr.listening)
      /\ sr'.outcome = sr.outcome /\ sr'.reason = sr.reason /\ sr'.overtaken = sr.overtaken /\ sr'.tooLate = sr.tooLate /\ sr'.relayed = sr.relayed
      /\ sr'.winner = sr.winner /\ sr'.aborted = sr.aborted
    BY <1>2, <1>3, <1>5 DEF SearchRec
<1>7. /\ a \in PeerRec /\ a.task = "unseen" /\ a.retry = peer[p].retry /\ a.verdict = verdict /\ a.tried = peer[p].tried
      /\ b \in PeerRec /\ b.task = "merging" /\ b.retry = peer[p].retry /\ b.verdict = given /\ b.addrs = peer[p].addrs /\ b.tried = peer[p].tried
    BY <1>1, <1>2, <1>4 DEF PeerRec
<1> HIDE DEF a, b
<1>8. /\ markRetryable(p, a) \in PeerRec /\ markRetryable(p, a).task = "retryable" /\ markRetryable(p, a).retry = peer[p].retry
      /\ markRetryable(p, a).verdict = verdict /\ markRetryable(p, a).tried = peer[p].tried
    BY <1>2, <1>7, MarkedIsRetryable
<1>9. r \in PeerRec BY <1>7, <1>8
<1>10. Fetching => TaskIsKnown(r) /\ Awaited(r, TRUE)
 <2> SUFFICES ASSUME Fetching PROVE TaskIsKnown(r) /\ Awaited(r, TRUE)
     OBVIOUS
 <2>1. TaskIsKnown(peer[p]) BY DEF SearchInv, PeersAreFollowed
 <2>2. peer[p].retry = "none" /\ ~peer[p].tried /\ verdict # "none"
     BY <1>2, <1>4, <2>1 DEF TaskIsKnown
 <2>3. CASE skipped BY <1>8, <2>2, <2>3 DEF TaskIsKnown, Awaited, OverIsTried, WillBeTried
 <2>4. CASE ~skipped BY <1>4, <1>7, <2>2, <2>4 DEF TaskIsKnown, Awaited, OverIsTried, WillBeTried
 <2>5. QED BY <2>3, <2>4
<1> HIDE DEF r
<1>11. seen \in [SearchPeer -> PeerRec] /\ \A q \in SearchPeer : seen[q] = IF q = p THEN r ELSE peer[q] BY <1>1, <1>9
<1> HIDE DEF seen
<1>12. SearchTypes' BY <1>1, <1>2, <1>6, <1>11, EndingTriggers DEF SearchTypes
<1>13. SearchIsOrdered'
 <2>1. sr'.listening = (sr'.stream = "open")
  <3>1. CASE enough BY <1>6, <3>1
  <3>2. CASE ~enough BY <1>2, <1>6, <3>2 DEF SearchInv, SearchIsOrdered
  <3>3. QED BY <3>1, <3>2
 <2>2. QED BY <1>2, <1>6, <2>1, RunningMoves
<1>14. PeersAreFollowed'
 <2>1. Fetching' = Fetching /\ Cut' = Cut /\ Lost' = Lost BY <1>2, <1>6 DEF Fetching, Cut, Won, Lost
 <2>2. CASE ~enough BY <1>2, <1>6, <1>9, <1>10, <2>1, <2>2, OnePeerMoves DEF seen
 <2>3. CASE enough
  <3> SUFFICES ASSUME Fetching, NEW q \in SearchPeer
               PROVE  /\ TaskIsKnown(peer'[q])
                      /\ ~Cut /\ q \notin Lost => Awaited(peer'[q], sr'.stream = "open")
      BY <1>2, <2>1 DEF PeersAreFollowed
  <3>0. peer' = onProviderStreamEnded(seen) /\ (sr'.stream = "open") = FALSE BY <1>2, <1>6, <2>3
  <3>1. /\ peer'[q].task = seen[q].task /\ peer'[q].addrs = seen[q].addrs
        /\ (TaskIsKnown(seen[q]) => TaskIsKnown(peer'[q])) /\ (Awaited(seen[q], TRUE) => Awaited(peer'[q], FALSE))
      BY <1>11, <3>0, EndingTriggers
  <3>2. CASE q = p BY <1>10, <1>11, <3>0, <3>1, <3>2
  <3>3. CASE q # p
   <4>1. TaskIsKnown(peer[q])
         /\ (~Cut /\ q \notin Lost => Awaited(peer[q], TRUE))
       BY <1>2 DEF SearchInv, PeersAreFollowed
   <4>2. seen[q] = peer[q] BY <1>11, <3>3
   <4>3. QED BY <3>0, <3>1, <4>1, <4>2
  <3>4. QED BY <3>2, <3>3
 <2>4. QED BY <2>2, <2>3
<1>15. QED BY <1>12, <1>13, <1>14 DEF SearchInv

(* The stream runs dry, breaks or is aborted. *)
LEMMA Ending == ASSUME SearchInv, endStream PROVE SearchInv'
<1>1. /\ srJob \in SearchWorkload /\ sr \in SearchRec /\ peer \in [SearchPeer -> PeerRec]
      /\ sr.outcome = "running" /\ sr.stream = "open" /\ srJob' = srJob /\ peer' = onProviderStreamEnded(peer)
      /\ sr' = StreamEnded(sr) \/ (~Fetching /\ sr' = [StreamEnded(sr) EXCEPT !.outcome = "threw"])
    BY DEF endStream, SearchInv, SearchTypes
<1>2. sr' \in SearchRec /\ sr'.stream = "ended" /\ sr'.listening = FALSE /\ sr'.reason = sr.reason /\ sr'.overtaken = sr.overtaken
      /\ sr'.tooLate = sr.tooLate /\ sr'.relayed = sr.relayed /\ sr'.winner = sr.winner /\ sr'.aborted = sr.aborted
      /\ (sr'.outcome = sr.outcome \/ (~Fetching /\ sr'.outcome = "threw"))
 <2> DEFINE s == StreamEnded(sr)
 <2>1. s \in SearchRec /\ s.stream = "ended" /\ s.listening = FALSE /\ s.reason = sr.reason /\ s.overtaken = sr.overtaken
       /\ s.tooLate = sr.tooLate /\ s.relayed = sr.relayed /\ s.winner = sr.winner /\ s.aborted = sr.aborted /\ s.outcome = sr.outcome
     BY <1>1 DEF StreamEnded, SearchRec
 <2>2. sr' = s \/ (~Fetching /\ sr' = [s EXCEPT !.outcome = "threw"]) BY <1>1
 <2> HIDE DEF s
 <2>3. QED BY <2>1, <2>2 DEF SearchRec
<1>3. SearchTypes' BY <1>1, <1>2, EndingTriggers DEF SearchTypes
<1>4. Fetching' = Fetching /\ Cut' = Cut /\ Lost' = Lost BY <1>1, <1>2 DEF Fetching, Cut, Won, Lost
<1>5. SearchIsOrdered' BY <1>1, <1>2, <1>4 DEF SearchInv, SearchIsOrdered
<1>6. PeersAreFollowed'
 <2> SUFFICES ASSUME Fetching, NEW q \in SearchPeer
              PROVE  /\ TaskIsKnown(peer'[q])
                     /\ ~Cut /\ q \notin Lost => Awaited(peer'[q], sr'.stream = "open")
     BY <1>1, <1>4 DEF PeersAreFollowed
 <2>1. /\ peer'[q].task = peer[q].task /\ peer'[q].addrs = peer[q].addrs
       /\ (TaskIsKnown(peer[q]) => TaskIsKnown(peer'[q])) /\ (Awaited(peer[q], TRUE) => Awaited(peer'[q], sr'.stream = "open"))
     BY <1>1, <1>2, EndingTriggers
 <2>2. TaskIsKnown(peer[q])
       /\ (~Cut /\ q \notin Lost => Awaited(peer[q], TRUE))
     BY <1>1 DEF SearchInv, PeersAreFollowed
 <2>3. QED BY <1>2, <2>1, <2>2
<1>7. QED BY <1>3, <1>5, <1>6 DEF SearchInv

(* A busy peer moves on: the search stays in order. *)
LEMMA BusyPeerMoves ==
    ASSUME SearchInv, NEW p \in SearchPeer, NEW r \in PeerRec, peer[p].task \in BusyStates \/ peer[p].retry \in RetryBusy,
           peer' = [peer EXCEPT ![p] = r], srJob' = srJob, sr' \in SearchRec, sr'.stream = sr.stream, sr'.listening = sr.listening,
           sr'.outcome = sr.outcome, sr'.reason = sr.reason, Lost \subseteq Lost', Cut => Cut',
           Fetching => TaskIsKnown(r) /\ (~Cut' /\ p \notin Lost' => Awaited(r, sr.stream = "open"))
    PROVE  SearchInv'
<1>1. SearchTypes' BY DEF SearchInv, SearchTypes
<1>2. SearchIsOrdered'
 <2>1. Fetching => sr.outcome = "running" BY BusyRuns
 <2>2. sr'.listening = (sr'.stream = "open") BY DEF SearchInv, SearchIsOrdered
 <2>3. QED BY <2>1, <2>2, RunningMoves
<1>3. PeersAreFollowed' BY OnePeerMoves
<1>4. QED BY <1>1, <1>2, <1>3 DEF SearchInv

(* What is known of a peer in a fetch that was not cut. *)
LEMMA PeerIsFollowed ==
    ASSUME SearchInv, NEW p \in SearchPeer
    PROVE  /\ peer[p] \in PeerRec /\ peer \in [SearchPeer -> PeerRec] /\ sr \in SearchRec
           /\ Fetching => TaskIsKnown(peer[p]) /\ (~Cut /\ p \notin Lost => Awaited(peer[p], sr.stream = "open"))
BY DEF SearchInv, SearchTypes, PeersAreFollowed

(* A connection counts for a warm-up. *)
LEMMA CountingConnections ==
    ASSUME sr \in SearchRec
    PROVE  /\ Connected(sr) \in SearchRec /\ Connected(sr).stream = sr.stream /\ Connected(sr).listening = sr.listening
           /\ Connected(sr).outcome = sr.outcome /\ Connected(sr).reason = sr.reason /\ Connected(sr).overtaken = sr.overtaken
           /\ Connected(sr).tooLate = sr.tooLate /\ Connected(sr).relayed = sr.relayed /\ Connected(sr).winner = sr.winner /\ Connected(sr).aborted = sr.aborted
BY DEF Connected, SearchRec

(* The first dial of a provider ends. *)
LEMMA Dialing == ASSUME SearchInv, NEW p \in SearchPeer, dial(p) PROVE SearchInv'
<1> DEFINE t == markProviderDialed(Tried(peer[p]))
           c == [t EXCEPT !.task = IF Fetching THEN "fetching" ELSE "done"]
           f == [t EXCEPT !.task = "done"]
           n == markRetryable(p, peer[p])
<1>1. /\ peer[p] \in PeerRec /\ peer \in [SearchPeer -> PeerRec] /\ sr \in SearchRec /\ peer[p].task = "dialing" /\ srJob' = srJob
      /\ peer[p].task \in BusyStates
    BY PeerIsFollowed DEF dial, BusyStates
<1>2. PICK how \in DialResult(peer[p]) :
          /\ peer' = [peer EXCEPT ![p] = CASE how = "connected" -> c [] how = "refused" -> f [] OTHER -> n]
          /\ sr' = [(IF how = "connected" THEN Connected(sr) ELSE sr)
                       EXCEPT !.relayed = IF OverRelay(peer[p]) THEN @ \cup {p} ELSE @]
    BY DEF dial
<1>3. /\ how = "connected" \/ how = "refused" \/ how = "no address"
      /\ Fetching /\ how \in {"connected", "refused"} => "direct" \in peer[p].used \/ OverRelay(peer[p])
    BY <1>2 DEF DialResult, OverRelay
<1>4. t \in PeerRec /\ t.retry = peer[p].retry /\ t.verdict = (IF peer[p].verdict = "none" THEN "none" ELSE "dialed")
      /\ t.addrs = peer[p].addrs /\ t.used = peer[p].used /\ t.tried = (peer[p].tried \/ "direct" \in peer[p].used)
    BY <1>1, DialIsNoted
<1> HIDE DEF t
<1>5. /\ c \in PeerRec /\ c.task = (IF Fetching THEN "fetching" ELSE "done") /\ c.retry = t.retry /\ c.verdict = t.verdict /\ c.addrs = t.addrs
      /\ c.used = t.used /\ c.tried = t.tried
      /\ f \in PeerRec /\ f.task = "done" /\ f.retry = t.retry /\ f.verdict = t.verdict /\ f.addrs = t.addrs /\ f.used = t.used /\ f.tried = t.tried
    BY <1>4 DEF PeerRec
<1> HIDE DEF c, f
<1>6. /\ n \in PeerRec /\ n.task = "retryable" /\ n.retry = (IF peer[p].retry = "none" /\ sr.stream = "ended" THEN "reading" ELSE peer[p].retry)
      /\ n.verdict = peer[p].verdict /\ n.addrs = peer[p].addrs /\ n.used = peer[p].used /\ n.tried = peer[p].tried
    BY <1>1, MarkedIsRetryable
<1> HIDE DEF n
<1>7. /\ sr' \in SearchRec /\ sr'.stream = sr.stream /\ sr'.listening = sr.listening /\ sr'.outcome = sr.outcome /\ sr'.reason = sr.reason
      /\ sr'.overtaken = sr.overtaken /\ sr'.tooLate = sr.tooLate /\ sr'.winner = sr.winner /\ sr'.aborted = sr.aborted
      /\ sr'.relayed = (IF OverRelay(peer[p]) THEN sr.relayed \cup {p} ELSE sr.relayed)
 <2> DEFINE s == IF how = "connected" THEN Connected(sr) ELSE sr
 <2>1. /\ s \in SearchRec /\ s.stream = sr.stream /\ s.listening = sr.listening /\ s.outcome = sr.outcome /\ s.reason = sr.reason
       /\ s.overtaken = sr.overtaken /\ s.tooLate = sr.tooLate /\ s.winner = sr.winner /\ s.aborted = sr.aborted /\ s.relayed = sr.relayed
     BY <1>1, <1>2, CountingConnections
 <2>2. sr' = [s EXCEPT !.relayed = IF OverRelay(peer[p]) THEN s.relayed \cup {p} ELSE s.relayed] BY <1>2
 <2> HIDE DEF s
 <2>3. QED BY <2>1, <2>2 DEF SearchRec
<1>8. Cut' = Cut /\ Lost \subseteq Lost' /\ (OverRelay(peer[p]) => p \in Lost') BY <1>7 DEF Cut, Won, Lost
<1>9. Fetching => TaskIsKnown(peer[p]) /\ peer[p].retry = "none" /\ peer[p].verdict # "none"
                  /\ (sr.stream = "open" \/ sr.stream = "ended")
    BY <1>1, PeerIsFollowed DEF TaskIsKnown, SearchRec
<1>10. CASE how = "connected"
 <2>1. Fetching => TaskIsKnown(c) /\ (p \notin Lost' => Awaited(c, sr.stream = "open"))
     BY <1>3, <1>4, <1>5, <1>8, <1>9, <1>10 DEF TaskIsKnown, Awaited, OverIsTried, WillBeTried
 <2>2. peer' = [peer EXCEPT ![p] = c] BY <1>2, <1>10
 <2>3. QED BY <1>1, <1>5, <1>7, <1>8, <2>1, <2>2, BusyPeerMoves
<1>11. CASE how = "refused"
 <2>1. Fetching => TaskIsKnown(f) /\ (p \notin Lost' => Awaited(f, sr.stream = "open"))
     BY <1>3, <1>4, <1>5, <1>8, <1>9, <1>11 DEF TaskIsKnown, Awaited, OverIsTried, WillBeTried
 <2>2. peer' = [peer EXCEPT ![p] = f] BY <1>2, <1>11
 <2>3. QED BY <1>1, <1>5, <1>7, <1>8, <2>1, <2>2, BusyPeerMoves
<1>12. CASE how = "no address"
 <2>1. Fetching => TaskIsKnown(n) /\ (Awaited(n, sr.stream = "open"))
     BY <1>1, <1>6, <1>9 DEF TaskIsKnown, Awaited, OverIsTried, WillBeTried
 <2>2. peer' = [peer EXCEPT ![p] = n] BY <1>2, <1>12
 <2>3. QED BY <1>1, <1>6, <1>7, <1>8, <2>1, <2>2, BusyPeerMoves
<1>13. QED BY <1>3, <1>10, <1>11, <1>12

(* A retry reads the peer store. *)
LEMMA Reading == ASSUME SearchInv, NEW p \in SearchPeer, readStore(p) PROVE SearchInv'
<1> DEFINE m == IF Fetching THEN markProviderDialed(peer[p]) ELSE peer[p]
           a == [peer[p] EXCEPT !.retry = "done"]
           b == [m EXCEPT !.retry = "dialing", !.used = peer[p].addrs]
           c == [peer[p] EXCEPT !.retry = "releasing"]
<1>1. /\ peer[p] \in PeerRec /\ peer \in [SearchPeer -> PeerRec] /\ sr \in SearchRec /\ peer[p].retry = "reading" /\ srJob' = srJob /\ sr' = sr
      /\ peer[p].retry \in RetryBusy
    BY PeerIsFollowed DEF readStore, RetryBusy
<1>2. peer' = [peer EXCEPT ![p] = CASE Cut -> a [] ~Cut /\ (~Fetching \/ "direct" \in peer[p].addrs) -> b [] OTHER -> c] BY DEF readStore
<1>3. m \in PeerRec /\ m.task = peer[p].task /\ m.tried = peer[p].tried /\ m.addrs = peer[p].addrs
      /\ m.verdict = (IF Fetching /\ peer[p].verdict # "none" THEN "dialed" ELSE peer[p].verdict)
    BY <1>1, DialIsNoted
<1> HIDE DEF m
<1>4. /\ a \in PeerRec /\ a.task = peer[p].task /\ a.retry = "done" /\ a.verdict = peer[p].verdict /\ a.addrs = peer[p].addrs
      /\ a.used = peer[p].used /\ a.tried = peer[p].tried
      /\ c \in PeerRec /\ c.task = peer[p].task /\ c.retry = "releasing" /\ c.verdict = peer[p].verdict /\ c.addrs = peer[p].addrs
      /\ c.used = peer[p].used /\ c.tried = peer[p].tried
    BY <1>1 DEF PeerRec
<1>5. /\ b \in PeerRec /\ b.task = peer[p].task /\ b.retry = "dialing" /\ b.verdict = m.verdict /\ b.addrs = peer[p].addrs
      /\ b.used = peer[p].addrs /\ b.tried = peer[p].tried
    BY <1>1, <1>3 DEF PeerRec
<1> HIDE DEF a, b, c
<1>6. Cut' = Cut /\ Lost' = Lost BY <1>1 DEF Cut, Won, Lost
<1>7. Fetching => TaskIsKnown(peer[p]) /\ peer[p].task = "retryable" /\ peer[p].verdict # "none" /\ (~Cut /\ p \notin Lost => OverIsTried(peer[p]))
    BY <1>1, PeerIsFollowed DEF TaskIsKnown, Awaited
<1>8. CASE Cut
 <2>1. Fetching => TaskIsKnown(a) BY <1>4, <1>7 DEF TaskIsKnown
 <2>2. peer' = [peer EXCEPT ![p] = a] BY <1>2, <1>8
 <2>3. QED BY <1>1, <1>4, <1>6, <1>8, <2>1, <2>2, BusyPeerMoves
<1>9. CASE ~Cut /\ (~Fetching \/ "direct" \in peer[p].addrs)
 <2>1. Fetching => TaskIsKnown(b) /\ (p \notin Lost => Awaited(b, sr.stream = "open"))
     BY <1>3, <1>5, <1>7, <1>9 DEF TaskIsKnown, Awaited, OverIsTried, WillBeTried
 <2>2. peer' = [peer EXCEPT ![p] = b] BY <1>2, <1>9
 <2>3. QED BY <1>1, <1>5, <1>6, <2>1, <2>2, BusyPeerMoves
<1>10. CASE ~Cut /\ ~(~Fetching \/ "direct" \in peer[p].addrs)
 <2>1. Fetching => TaskIsKnown(c) /\ (p \notin Lost => Awaited(c, sr.stream = "open"))
     BY <1>4, <1>7, <1>10 DEF TaskIsKnown, Awaited, OverIsTried
 <2>2. peer' = [peer EXCEPT ![p] = c] BY <1>2, <1>10
 <2>3. QED BY <1>1, <1>4, <1>6, <2>1, <2>2, BusyPeerMoves
<1>11. QED BY <1>8, <1>9, <1>10

(* A retry gives the peer back for another try. *)
LEMMA Releasing == ASSUME SearchInv, NEW p \in SearchPeer, release(p) PROVE SearchInv'
<1> DEFINE r == [peer[p] EXCEPT !.retry = "none"]
<1>1. /\ peer[p] \in PeerRec /\ sr \in SearchRec /\ peer[p].retry = "releasing" /\ srJob' = srJob /\ sr' = sr
      /\ peer[p].retry \in RetryBusy /\ peer' = [peer EXCEPT ![p] = r]
    BY PeerIsFollowed DEF release, RetryBusy
<1>2. /\ r \in PeerRec /\ r.task = peer[p].task /\ r.retry = "none" /\ r.verdict = peer[p].verdict /\ r.addrs = peer[p].addrs
      /\ r.used = peer[p].used /\ r.tried = peer[p].tried
    BY <1>1 DEF PeerRec
<1> HIDE DEF r
<1>3. Cut' = Cut /\ Lost' = Lost BY <1>1 DEF Cut, Won, Lost
<1>4. Fetching => /\ TaskIsKnown(peer[p]) /\ peer[p].task = "retryable"
                  /\ ~Cut /\ p \notin Lost => Awaited(peer[p], sr.stream = "open")
    BY <1>1, PeerIsFollowed DEF TaskIsKnown
<1>5. Fetching => TaskIsKnown(r) /\ (~Cut /\ p \notin Lost => Awaited(r, sr.stream = "open"))
    BY <1>1, <1>2, <1>4 DEF TaskIsKnown, Awaited, OverIsTried, WillBeTried
<1>6. QED BY <1>1, <1>2, <1>3, <1>5, BusyPeerMoves

(* The dial of a retry ends. *)
LEMMA Redialing == ASSUME SearchInv, NEW p \in SearchPeer, redial(p) PROVE SearchInv'
<1> DEFINE t == Tried(peer[p])
<1>1. /\ peer[p] \in PeerRec /\ sr \in SearchRec /\ peer[p].retry = "dialing" /\ srJob' = srJob /\ peer[p].retry \in RetryBusy
    BY PeerIsFollowed DEF redial, RetryBusy
<1>2. PICK next \in {"fetching", "releasing", "done"} :
          /\ peer' = [peer EXCEPT ![p] = [t EXCEPT !.retry = next]] /\ (Fetching => next # "releasing")
          /\ sr' = Connected(sr) \/ sr' = sr
 <2>1. PICK how \in DialResult(peer[p]) :
           /\ peer' = [peer EXCEPT ![p] = [t EXCEPT !.retry =
                 CASE how = "connected" /\ Fetching -> "fetching" [] how = "no address" /\ ~Fetching -> "releasing" [] OTHER -> "done"]]
           /\ sr' = IF how = "connected" THEN Connected(sr) ELSE sr
     BY DEF redial
 <2> HIDE DEF t
 <2>2. CASE how = "connected" /\ Fetching BY <2>1, <2>2
 <2>3. CASE how = "no address" /\ ~Fetching BY <2>1, <2>3
 <2>4. CASE ~(how = "connected" /\ Fetching) /\ ~(how = "no address" /\ ~Fetching) BY <2>1, <2>4
 <2>5. QED BY <2>2, <2>3, <2>4
<1>3. t \in PeerRec /\ t.task = peer[p].task /\ t.verdict = peer[p].verdict /\ t.addrs = peer[p].addrs /\ t.used = peer[p].used
      /\ t.tried = (peer[p].tried \/ "direct" \in peer[p].used)
    BY <1>1, DialIsNoted
<1> HIDE DEF t
<1> DEFINE r == [t EXCEPT !.retry = next]
<1>4. r \in PeerRec /\ r.task = t.task /\ r.retry = next /\ r.verdict = t.verdict /\ r.addrs = t.addrs /\ r.used = t.used /\ r.tried = t.tried
    BY <1>3 DEF PeerRec
<1>5. peer' = [peer EXCEPT ![p] = r] BY <1>2
<1> HIDE DEF r
<1>6. /\ sr' \in SearchRec /\ sr'.stream = sr.stream /\ sr'.listening = sr.listening /\ sr'.outcome = sr.outcome /\ sr'.reason = sr.reason
      /\ sr'.overtaken = sr.overtaken /\ sr'.tooLate = sr.tooLate /\ sr'.relayed = sr.relayed /\ sr'.winner = sr.winner /\ sr'.aborted = sr.aborted
    BY <1>1, <1>2, CountingConnections
<1>7. Cut' = Cut /\ Lost' = Lost BY <1>6 DEF Cut, Won, Lost
<1>8. Fetching => TaskIsKnown(peer[p]) BY PeerIsFollowed
<1>9. Fetching => TaskIsKnown(r) /\ Awaited(r, sr.stream = "open")
    BY <1>1, <1>2, <1>3, <1>4, <1>8 DEF TaskIsKnown, Awaited, OverIsTried, WillBeTried
<1>10. QED BY <1>1, <1>4, <1>5, <1>6, <1>7, <1>9, BusyPeerMoves

(* A peer answers, is asked in vain, or is cancelled with the search. *)
LEMMA Fetched == ASSUME SearchInv, NEW p \in SearchPeer, tryFetchFromPeer(p) PROVE SearchInv'
<1> DEFINE r == Finished(peer[p])
<1>1. /\ peer[p] \in PeerRec /\ sr \in SearchRec /\ (peer[p].task = "fetching" \/ peer[p].retry = "fetching") /\ srJob' = srJob
      /\ peer[p].task \in BusyStates \/ peer[p].retry \in RetryBusy
      /\ peer' = [peer EXCEPT ![p] = r] /\ (sr' = sr \/ sr' = [sr EXCEPT !.winner = {p}])
    BY PeerIsFollowed DEF tryFetchFromPeer, RetryBusy, BusyStates
<1>2. /\ r \in PeerRec /\ r.task = (IF peer[p].task = "fetching" THEN "done" ELSE peer[p].task)
      /\ r.retry = (IF peer[p].task = "fetching" THEN peer[p].retry ELSE "done") /\ r.verdict = peer[p].verdict
      /\ r.addrs = peer[p].addrs /\ r.used = peer[p].used /\ r.tried = peer[p].tried
    BY <1>1 DEF PeerRec, Finished
<1> HIDE DEF r
<1>3. /\ sr' \in SearchRec /\ sr'.stream = sr.stream /\ sr'.listening = sr.listening /\ sr'.outcome = sr.outcome /\ sr'.reason = sr.reason
      /\ sr'.overtaken = sr.overtaken /\ sr'.tooLate = sr.tooLate /\ sr'.relayed = sr.relayed /\ sr'.aborted = sr.aborted /\ (sr'.winner = sr.winner \/ sr'.winner # {})
    BY <1>1 DEF SearchRec
<1>4. (Cut => Cut') /\ Lost' = Lost BY <1>3 DEF Cut, Won, Lost
<1>5. Fetching => TaskIsKnown(r) /\ (~Cut' /\ p \notin Lost' => Awaited(r, sr.stream = "open"))
 <2>1. Fetching => TaskIsKnown(peer[p]) /\ (~Cut /\ p \notin Lost => Awaited(peer[p], sr.stream = "open")) BY PeerIsFollowed
 <2>2. QED BY <1>1, <1>2, <1>4, <2>1 DEF TaskIsKnown, Awaited, OverIsTried, WillBeTried
<1>6. QED BY <1>1, <1>2, <1>3, <1>4, <1>5, BusyPeerMoves

(* A dial under way when the search is cut rejects. *)
LEMMA Cancelling == ASSUME SearchInv, NEW p \in SearchPeer, cancelled(p) PROVE SearchInv'
<1> DEFINE m == markProviderDialed(peer[p])
           a == [m EXCEPT !.task = "done"]
           b == [peer[p] EXCEPT !.retry = "done"]
<1>1. /\ peer[p] \in PeerRec /\ sr \in SearchRec /\ srJob' = srJob /\ sr' = sr /\ Cut
      /\ (peer[p].task = "dialing" /\ peer' = [peer EXCEPT ![p] = a]) \/ (peer[p].retry = "dialing" /\ peer' = [peer EXCEPT ![p] = b])
    BY PeerIsFollowed DEF cancelled
<1>2. m \in PeerRec /\ m.retry = peer[p].retry /\ m.tried = peer[p].tried /\ m.verdict = (IF peer[p].verdict = "none" THEN "none" ELSE "dialed")
    BY <1>1, DialIsNoted
<1> HIDE DEF m
<1>3. /\ a \in PeerRec /\ a.task = "done" /\ a.retry = peer[p].retry /\ a.tried = peer[p].tried /\ a.verdict = m.verdict
      /\ b \in PeerRec /\ b.task = peer[p].task /\ b.retry = "done" /\ b.tried = peer[p].tried /\ b.verdict = peer[p].verdict
    BY <1>1, <1>2 DEF PeerRec
<1> HIDE DEF a, b
<1>4. Cut' /\ Lost' = Lost BY <1>1 DEF Cut, Won, Lost
<1>5. Fetching => TaskIsKnown(peer[p]) BY PeerIsFollowed
<1>6. CASE peer[p].task = "dialing" /\ peer' = [peer EXCEPT ![p] = a]
 <2>1. Fetching => TaskIsKnown(a) BY <1>2, <1>3, <1>5, <1>6 DEF TaskIsKnown
 <2>2. peer[p].task \in BusyStates BY <1>6 DEF BusyStates
 <2>3. QED BY <1>1, <1>3, <1>4, <1>6, <2>1, <2>2, BusyPeerMoves
<1>7. CASE peer[p].retry = "dialing" /\ peer' = [peer EXCEPT ![p] = b]
 <2>1. Fetching => TaskIsKnown(b) BY <1>3, <1>5, <1>7 DEF TaskIsKnown
 <2>2. peer[p].retry \in RetryBusy BY <1>7 DEF RetryBusy
 <2>3. QED BY <1>1, <1>3, <1>4, <1>7, <2>1, <2>2, BusyPeerMoves
<1>8. QED BY <1>1, <1>6, <1>7

(* A better address reaches the peer store, in time or not. *)
LEMMA MergingLater == ASSUME SearchInv, NEW p \in SearchPeer, laterMerge(p) PROVE SearchInv'
<1> DEFINE a == [peer[p] EXCEPT !.addrs = @ \cup {"direct"}]
           r == onPeerUpdate(a)
<1>1. /\ peer[p] \in PeerRec /\ peer \in [SearchPeer -> PeerRec] /\ sr \in SearchRec /\ srJob' = srJob /\ peer' = [peer EXCEPT ![p] = r]
      /\ sr' = (IF peer[p].retry \in {"releasing", "dialing"} THEN [sr EXCEPT !.overtaken = @ \cup {p}]
                ELSE IF sr.stream = "ended" THEN [sr EXCEPT !.tooLate = @ \cup {p}] ELSE sr)
    BY PeerIsFollowed DEF laterMerge
<1>2. /\ a \in PeerRec /\ a.task = peer[p].task /\ a.retry = peer[p].retry /\ a.verdict = peer[p].verdict
      /\ a.addrs = peer[p].addrs \cup {"direct"} /\ a.used = peer[p].used /\ a.tried = peer[p].tried
    BY <1>1 DEF PeerRec, Address
<1> HIDE DEF a
<1>3. /\ r \in PeerRec /\ r.task = peer[p].task /\ r.verdict = peer[p].verdict /\ r.addrs = peer[p].addrs \cup {"direct"}
      /\ r.used = peer[p].used /\ r.tried = peer[p].tried
      /\ r.retry = IF sr.listening /\ peer[p].task = "retryable" /\ peer[p].retry = "none" THEN "reading" ELSE peer[p].retry
    BY <1>2, TriggerStarts DEF onPeerUpdate
<1> HIDE DEF r
<1>4. /\ sr' \in SearchRec /\ sr'.stream = sr.stream /\ sr'.listening = sr.listening /\ sr'.outcome = sr.outcome /\ sr'.reason = sr.reason
      /\ sr'.asking = sr.asking /\ sr.overtaken \subseteq sr'.overtaken /\ sr.tooLate \subseteq sr'.tooLate /\ sr'.relayed = sr.relayed
      /\ sr'.winner = sr.winner /\ sr'.aborted = sr.aborted
      /\ (peer[p].retry \in {"releasing", "dialing"} => p \in sr'.overtaken)
      /\ (peer[p].retry \notin {"releasing", "dialing"} /\ sr.stream = "ended" => p \in sr'.tooLate)
    BY <1>1 DEF SearchRec
<1>5. SearchTypes' BY <1>1, <1>3, <1>4 DEF SearchInv, SearchTypes
<1>6. Fetching' = Fetching /\ Cut' = Cut /\ Lost \subseteq Lost' /\ SearchIsOrdered BY <1>1, <1>4 DEF Fetching, Cut, Won, Lost, SearchInv
<1>7. \A q \in SearchPeer : peer'[q] = IF q = p THEN r ELSE peer[q] BY <1>1
<1>8. SearchIsOrdered'
 <2>1. Fetching /\ sr.outcome # "running" => Drained'
  <3> SUFFICES ASSUME Fetching, sr.outcome # "running" PROVE Drained' OBVIOUS
  <3>1. ~sr.listening /\ Drained BY <1>6 DEF SearchIsOrdered
  <3>2. QED BY <1>3, <1>7, <3>1 DEF Drained
 <2>2. \A q \in SearchPeer : peer'[q].tried = peer[q].tried BY <1>3, <1>7
 <2>3. QED BY <1>4, <1>6, <2>1, <2>2 DEF SearchIsOrdered
<1>9. Fetching => TaskIsKnown(r) /\ (~Cut' /\ p \notin Lost' => Awaited(r, sr.stream = "open"))
 <2> SUFFICES ASSUME Fetching PROVE TaskIsKnown(r) /\ (~Cut /\ p \notin Lost' => Awaited(r, sr.stream = "open")) BY <1>6
 <2>1. TaskIsKnown(peer[p]) /\ (~Cut /\ p \notin Lost => Awaited(peer[p], sr.stream = "open")) BY PeerIsFollowed
 <2>2. TaskIsKnown(r) /\ (~Cut /\ p \notin Lost => OverIsTried(r)) BY <1>3, <2>1 DEF TaskIsKnown, Awaited, OverIsTried
 <2>3. ASSUME ~Cut, r.task # "unseen", p \notin Lost' PROVE WillBeTried(r, sr.stream = "open")
  <3>1. peer[p].retry \notin {"releasing", "dialing"} /\ sr.stream = "open" /\ sr.listening /\ p \notin Lost
      BY <1>1, <1>4, <1>6, <2>3 DEF SearchIsOrdered, SearchRec, Lost
  <3>2. CASE r.tried BY <3>2 DEF WillBeTried
  <3>3. CASE r.task \in {"merging", "dialing"} BY <3>3 DEF WillBeTried
  <3>4. CASE r.task = "retryable" /\ peer[p].retry \in {"none", "reading"} BY <1>3, <3>1, <3>4 DEF WillBeTried
  <3>5. CASE r.task \in {"fetching", "done"} \/ peer[p].retry \in {"fetching", "done"}
      BY <1>3, <2>1, <2>3, <3>1, <3>5 DEF Awaited, OverIsTried, WillBeTried
  <3>6. QED BY <1>1, <1>3, <2>3, <3>1, <3>2, <3>3, <3>4, <3>5 DEF PeerRec
 <2>4. QED BY <1>6, <2>2, <2>3 DEF Awaited
<1>10. PeersAreFollowed' BY <1>1, <1>3, <1>4, <1>6, <1>9, OnePeerMoves
<1>11. QED BY <1>5, <1>8, <1>10 DEF SearchInv

(* The peers stay as they are: only the search as a whole moves. *)
LEMMA PeersRest ==
    ASSUME SearchInv, srJob' = srJob, peer' = peer, sr' \in SearchRec, sr'.stream = sr.stream,
           sr'.overtaken = sr.overtaken, sr'.tooLate = sr.tooLate, sr'.relayed = sr.relayed, Cut => Cut', SearchIsOrdered'
    PROVE  SearchInv'
<1>1. SearchTypes' /\ Fetching' = Fetching BY DEF SearchInv, SearchTypes, Fetching
<1>2. PeersAreFollowed' BY <1>1 DEF SearchInv, PeersAreFollowed, Lost
<1>3. QED BY <1>1, <1>2 DEF SearchInv

(* A subscriber is asked, or the caller aborts: the fetch has not returned. *)
LEMMA AskingOrAborting == ASSUME SearchInv, askSubscriber \/ callerAborts PROVE SearchInv'
<1>1. sr \in SearchRec /\ SearchIsOrdered /\ srJob' = srJob /\ peer' = peer BY DEF SearchInv, SearchTypes, askSubscriber, callerAborts
<1>2. Fetching => sr.outcome = "running" BY <1>1 DEF SearchIsOrdered, askSubscriber, callerAborts, SearchRec
<1>3. /\ sr' \in SearchRec /\ sr'.stream = sr.stream /\ sr'.listening = sr.listening /\ sr'.outcome = sr.outcome /\ sr'.reason = sr.reason
      /\ sr'.overtaken = sr.overtaken /\ sr'.tooLate = sr.tooLate /\ sr'.relayed = sr.relayed
      /\ (sr'.winner = sr.winner \/ sr'.winner # {}) /\ (sr.aborted => sr'.aborted)
 <2>1. CASE callerAborts BY <1>1, <2>1 DEF callerAborts, SearchRec
 <2>2. CASE askSubscriber
  <3>1. sr.asking - 1 \in Nat BY <1>1, <2>2 DEF askSubscriber, SearchRec
  <3>2. PICK n \in Nat : sr' = [sr EXCEPT !.asking = n] \/ sr' = [sr EXCEPT !.asking = n, !.winner = {"subscriber"}]
      BY <2>2, <3>1 DEF askSubscriber
  <3>3. CASE sr' = [sr EXCEPT !.asking = n] BY <1>1, <3>3 DEF SearchRec
  <3>4. CASE sr' = [sr EXCEPT !.asking = n, !.winner = {"subscriber"}]
   <4>1. {"subscriber"} \in SUBSET (SearchPeer \cup {"subscriber"}) /\ {"subscriber"} # {} OBVIOUS
   <4> DEFINE ws == {"subscriber"}
   <4>2. sr' = [sr EXCEPT !.asking = n, !.winner = ws] /\ ws \in SUBSET (SearchPeer \cup {"subscriber"}) /\ ws # {} BY <3>4, <4>1
   <4> HIDE DEF ws
   <4>3. QED BY <1>1, <4>2 DEF SearchRec
  <3>5. QED BY <3>2, <3>3, <3>4
 <2>3. QED BY <2>1, <2>2
<1>4. SearchIsOrdered' BY <1>1, <1>2, <1>3, RunningMoves DEF SearchIsOrdered
<1>5. QED BY <1>1, <1>3, <1>4, PeersRest DEF Cut, Won

(* A warm-up waits for a subscriber and returns; it gives no reason. *)
LEMMA WarmingUp ==
    ASSUME SearchInv, warmupReturns \/ (\E how \in {"appeared", "timeout", "aborted"} : waitForTopicSubscriber(how))
    PROVE  SearchInv'
<1>1. sr \in SearchRec /\ SearchIsOrdered /\ srJob' = srJob /\ peer' = peer /\ ~Fetching
    BY DEF SearchInv, SearchTypes, warmupReturns, waitForTopicSubscriber
<1>2. /\ sr' \in SearchRec /\ sr'.stream = sr.stream /\ sr'.listening = sr.listening /\ sr'.reason = sr.reason
      /\ sr'.overtaken = sr.overtaken /\ sr'.tooLate = sr.tooLate /\ sr'.relayed = sr.relayed /\ sr'.winner = sr.winner /\ sr'.aborted = sr.aborted
      /\ (sr'.outcome = sr.outcome \/ sr'.outcome \in {"aborted", "failed", "found"})
 <2>1. CASE warmupReturns
  <3>1. \E o \in {"aborted", "failed", "found"} : sr' = [sr EXCEPT !.outcome = o] BY <2>1 DEF warmupReturns
  <3>2. QED BY <1>1, <3>1 DEF SearchRec
 <2>2. CASE \E how \in {"appeared", "timeout", "aborted"} : waitForTopicSubscriber(how) BY <1>1, <2>2 DEF waitForTopicSubscriber, SearchRec
 <2>3. QED BY <2>1, <2>2
<1>3. Fetching' = Fetching /\ Cut' = Cut BY <1>1, <1>2 DEF Fetching, Cut, Won
<1>4. SearchIsOrdered' BY <1>1, <1>2, <1>3 DEF SearchIsOrdered
<1>5. QED BY <1>1, <1>2, <1>3, <1>4, PeersRest

(* A fetch returns when everything it began has settled. *)
LEMMA Returning == ASSUME SearchInv, fetchReturns PROVE SearchInv'
<1> DEFINE o == CASE Won -> "found" [] ~Won /\ sr.aborted -> "aborted" [] OTHER -> "miss"
           w == IF Cut THEN "none" ELSE summarizeProviderReachability
<1>1. /\ sr \in SearchRec /\ SearchIsOrdered /\ srJob' = srJob /\ peer' = peer /\ Fetching
      /\ sr.stream = "ended" /\ sr.asking = 0 /\ Drained /\ sr' = [sr EXCEPT !.outcome = o, !.reason = w]
    BY DEF SearchInv, SearchTypes, fetchReturns
<1>2. o \in {"found", "aborted", "miss"} /\ (o = "miss" => ~Cut) BY DEF Cut
<1>3. w \in {"none", "relay-only-providers", "no-dialable-provider-addrs"}
      /\ (w # "none" => \A p \in SearchPeer : peer[p].verdict # "dialed")
    BY DEF summarizeProviderReachability
<1> HIDE DEF o, w
<1>4. /\ sr' \in SearchRec /\ sr'.stream = sr.stream /\ sr'.listening = sr.listening /\ sr'.outcome = o /\ sr'.reason = w
      /\ sr'.asking = sr.asking /\ sr'.overtaken = sr.overtaken /\ sr'.tooLate = sr.tooLate /\ sr'.relayed = sr.relayed
      /\ sr'.winner = sr.winner /\ sr'.aborted = sr.aborted
    BY <1>1, <1>2, <1>3 DEF SearchRec
<1>5. Fetching' = Fetching /\ Cut' = Cut /\ Drained' BY <1>1, <1>4 DEF Fetching, Cut, Won, Drained
<1>6. \A p \in SearchPeer : peer[p].verdict # "dialed" => ~peer[p].tried BY <1>1 DEF SearchInv, PeersAreFollowed, TaskIsKnown
<1>7. SearchIsOrdered' BY <1>1, <1>2, <1>3, <1>4, <1>5, <1>6 DEF SearchIsOrdered
<1>8. QED BY <1>1, <1>4, <1>5, <1>7, PeersRest

----------------------------------------
(* At first no peer was seen, and nothing is under way. *)
LEMMA SearchStarts == SearchInit => SearchInv
<1> SUFFICES ASSUME SearchInit PROVE SearchInv OBVIOUS
<1>1. srJob \in SearchWorkload /\ srJob.subscribers \in Nat BY SearchAssumption DEF SearchInit
<1>2. ASSUME NEW p \in SearchPeer
      PROVE  Known(p) \in PeerRec /\ Known(p).task = "unseen" /\ Known(p).retry = "none" /\ Known(p).verdict = "none" /\ ~Known(p).tried
    BY <1>1, SearchAssumption DEF Known, Unseen, PeerRec
<1>3. peer \in [SearchPeer -> PeerRec] /\ \A p \in SearchPeer : peer[p] = Known(p) BY <1>2 DEF SearchInit
<1>4. sr \in SearchRec /\ sr.stream = "open" /\ sr.listening /\ sr.reason = "none" /\ sr.outcome = "running"
    BY <1>1 DEF SearchInit, SearchRec
<1>5. SearchTypes /\ SearchIsOrdered BY <1>1, <1>3, <1>4 DEF SearchTypes, SearchIsOrdered
<1>6. PeersAreFollowed BY <1>2, <1>3 DEF PeersAreFollowed, TaskIsKnown, Awaited, OverIsTried
<1>7. QED BY <1>5, <1>6 DEF SearchInv

(* No announcement, dial, retry or merge breaks the invariant. *)
LEMMA SearchStep == SearchInv /\ [SearchNext]_searchVars => SearchInv'
<1> SUFFICES ASSUME SearchInv, [SearchNext]_searchVars PROVE SearchInv' OBVIOUS
<1>1. ASSUME NEW p \in SearchPeer, announce(p) \/ mergeAddrs(p) \/ dial(p) \/ readStore(p) \/ release(p) PROVE SearchInv'
    BY <1>1, Announcing, Merging, Dialing, Reading, Releasing
<1>2. ASSUME NEW p \in SearchPeer, redial(p) \/ tryFetchFromPeer(p) \/ cancelled(p) \/ laterMerge(p) PROVE SearchInv'
    BY <1>2, Redialing, Fetched, Cancelling, MergingLater
<1>3. CASE endStream \/ askSubscriber \/ callerAborts \/ fetchReturns BY <1>3, Ending, AskingOrAborting, Returning
<1>4. CASE warmupReturns \/ (\E how \in {"appeared", "timeout", "aborted"} : waitForTopicSubscriber(how)) BY <1>4, WarmingUp
<1>5. CASE UNCHANGED searchVars
    BY <1>5 DEF searchVars, SearchInv, SearchTypes, SearchIsOrdered, PeersAreFollowed, Lost, Fetching, Cut, Won, Drained
<1>6. QED BY <1>1, <1>2, <1>3, <1>4, <1>5 DEF SearchNext

(* Every reachable state of a search satisfies the invariant. *)
THEOREM SearchInvariant == SearchSpec => []SearchInv
<1>1. QED BY SearchStarts, SearchStep, PTL DEF SearchSpec

(* For any providers, routers, late addresses, aborts and limits: a fetch *)
(* that returns leaves nothing running, one that misses has tried every *)
(* usable address it knew of in time, and one that calls the providers *)
(* unreachable has tried none. *)
THEOREM SearchesAreThorough == SearchSpec => []SearchIsThorough
<1>1. SearchInv => SearchIsThorough
 <2> SUFFICES ASSUME SearchInv PROVE SearchIsThorough OBVIOUS
 <2>1. ReturnedIsQuiet BY DEF SearchInv, SearchIsOrdered, ReturnedIsQuiet, Drained
 <2>2. UnreachableIsLocal BY DEF SearchInv, SearchIsOrdered, UnreachableIsLocal
 <2>3. MissIsExhausted
  <3> SUFFICES ASSUME Fetching, sr.outcome = "miss", NEW p \in SearchPeer \ Lost,
                      peer[p].task # "unseen", "direct" \in peer[p].addrs
               PROVE  peer[p].tried
      BY DEF MissIsExhausted
  <3>1. ~Cut /\ sr.stream = "ended" /\ Drained BY DEF SearchInv, SearchIsOrdered
  <3>2. Awaited(peer[p], sr.stream = "open") BY <3>1 DEF SearchInv, PeersAreFollowed
  <3>3. QED BY <3>1, <3>2 DEF Awaited, OverIsTried, WillBeTried, Drained, BusyStates, RetryBusy
 <2>4. QED BY <2>1, <2>2, <2>3 DEF SearchIsThorough
<1>2. QED BY SearchInvariant, <1>1, PTL
----------------------------------------
(***************************************************************************)
(* The updating instances of communities.                                  *)
(***************************************************************************)
UpdKeys == Key \cup {Nothing}
UpdNames == Name \cup {Nothing}
UpdCids == Cid \cup {Nothing}
UpdAddrs == Key \cup Name \cup {Nothing}
UpdPushes == Key \cup Cid
UpdChains == Seq(Key)
UpdLoads == SUBSET Cid
UpdTopics == SUBSET Key
UpdNews == SUBSET UpdPushes
UpdHeards == SUBSET (Key \X UpdPushes)
UpdAliases == SUBSET UpdAddrs
UpdValues == Key \cup Cid \cup {Nothing}
UpdStates == {"none", "updating", "stopped"}
UpdVerdicts == {"unknown", "yes", "no"}
UpdFloors == SUBSET {"failed", "no"}
InCycle == {"retry", "naming", "resolve", "fetch", "prove", "verify", "apply"}
FetchPcs == {"fetch", "prove", "verify", "apply"}
UpdPcs == {"off", "begin", "parked"} \cup InCycle

UpdRows == [
    state : UpdStates, addr : UpdAddrs, publicKey : UpdKeys, name : UpdNames, anchor : UpdKeys, ipnsName : UpdKeys,
    hops : UpdChains, cid : UpdCids, loaded : UpdLoads, verdict : UpdVerdicts, floors : UpdFloors, bg : UpdNames,
    bgSig : Nat, sig : Nat, aliases : UpdAliases, topics : UpdTopics, news : UpdNews, heard : UpdHeards,
    revalidate : BOOLEAN, pc : UpdPcs, keyAt : UpdKeys, sigOnce : Nat, sigAt : Nat, astray : BOOLEAN, walk : UpdChains, got : UpdCids]

LoaderStates == {"none", "stopped", "updating", "done"}

LoaderRows == [
    state : LoaderStates, publicKey : UpdKeys, name : UpdNames, cid : UpdCids, verdict : UpdVerdicts,
    told : SUBSET Key, refused : SUBSET Nat, on : Updater \cup {Nothing}, owed : UpdKeys, astray : BOOLEAN]

UpdChanges == [at : Key, to : UpdPushes] \cup [at : Name, to : UpdKeys]

(* A cycle: the chain it walked is endorsed, the record it got is of that *)
(* chain, and a cycle that was aborted finds the community empty. *)
CycleIsSound(x, e) ==
    /\ x.sigOnce <= x.sigAt /\ x.sigAt <= x.sig
    /\ x.pc # "off" => x.addr \in Key \cup Name
    /\ x.pc = "naming" => x.publicKey = Nothing /\ x.addr \in Name
    /\ x.pc = "resolve" => Len(x.walk) = 1
    /\ x.pc \in FetchPcs => /\ Len(x.walk) \in {1, 2} /\ x.got \in Cid
                            /\ Len(x.walk) = 2 => <<x.walk[1], x.walk[2]>> \in e
                            /\ x.sig = x.sigAt => x.hops = x.walk
    /\ x.pc \in {"verify", "apply"} /\ Len(x.walk) = 1 => rec[x.got].anchor \in {Nothing, x.walk[1]}
    /\ x.pc = "apply" => ValidRecord(x.got, x.walk)
    /\ x.pc \in InCycle /\ x.sig # x.sigAt => x.cid = Nothing
    /\ x.pc \in {"resolve", "fetch", "prove"} /\ x.sig = x.sigAt /\ x.cid # Nothing /\ x.anchor = Nothing /\ ~x.astray => x.walk[1] = x.publicKey

(* What an instance shows is signed by its key, or by the minter of its *)
(* anchor; and so it is for the head of the chain it walks. *)
Vouches(k, c, e) == k = rec[c].signer \/ <<k, rec[c].signer>> \in e

ShowsItsRecord(x, e) ==
    x.cid # Nothing => /\ x.name = rec[x.cid].name /\ x.anchor = rec[x.cid].anchor
                       /\ x.anchor = Nothing => /\ x.publicKey = rec[x.cid].signer
                                                /\ x.hops # << >> /\ ~x.astray => Vouches(x.hops[1], x.cid, e)
                       /\ x.anchor # Nothing => x.publicKey = x.anchor /\ Vouches(x.anchor, x.cid, e)

VerdictHolds(x, v) ==
    /\ x.bg # Nothing => x.publicKey # Nothing
    /\ x.addr \notin Name /\ x.name = Nothing => x.verdict = "unknown"
    /\ x.verdict = "yes" => x.publicKey # Nothing /\ <<ClassifiedName(x), x.publicKey>> \in v

RowIsSound(x, e, v) == CycleIsSound(x, e) /\ ShowsItsRecord(x, e) /\ VerdictHolds(x, v)

(* What was pushed to a loop and is still the newest of its name waits for *)
(* the end of the cycle, unless the cycle has consumed it. *)
Kept(x, p) == ~Unconsumed(x, p[2]) \/ p[2] \in x.news

ArrivalsAreKept(x) ==
    /\ x.pc \in InCycle /\ x.sig # x.sigAt => \A p \in x.heard : p[2] \in x.news
    /\ x.pc \in FetchPcs /\ x.sig = x.sigAt => /\ x.cid \in x.loaded \cup {Nothing}
                                               /\ x.pc # "fetch" => x.got \in x.loaded
                                               /\ \A p \in x.heard : p[1] \in Range2(x.hops) => Kept(x, p) \/ p[2] = x.got
    /\ x.pc = "resolve" => x.cid \in x.loaded \cup {Nothing}
    /\ x.pc = "parked" => \A p \in x.heard : p[1] \in x.topics => ~Unconsumed(x, p[2])

HeardIsCached(x, c) == \A p \in x.heard : c[p[1]] = p[2]

UpdWorlds == [ipns : [Key -> UpdValues], txt : [Name -> UpdKeys], script : Seq(UpdChanges),
              endorsed : SUBSET (Key \X Key), vouched : SUBSET (Name \X UpdKeys)]
UpdCaches == [ipns : [Key -> UpdValues], named : [Name -> UpdKeys]]

WorldIsTold(n, c) ==
    /\ \A m \in Name : <<m, n.txt[m]>> \in n.vouched /\ (c.named[m] # Nothing => <<m, c.named[m]>> \in n.vouched)
    /\ \A k \in Key : /\ n.ipns[k] \in Key => <<k, n.ipns[k]>> \in n.endorsed
                      /\ c.ipns[k] \in Key => <<k, c.ipns[k]>> \in n.endorsed

WorldInv(n, c) == n \in UpdWorlds /\ c \in UpdCaches /\ WorldIsTold(n, c)

RowInv(x, n, c, must) ==
    x \in UpdRows /\ RowIsSound(x, n.endorsed, n.vouched) /\ HeardIsCached(x, c.ipns) /\ (must => ArrivalsAreKept(x))

LoaderInv(l, y, n) ==
    y \in LoaderRows /\ (y.cid # Nothing => (~y.astray => Vouches(y.publicKey, y.cid, n.endorsed)) /\ ~NameMismatch(l, y.cid))

MustKeep == ChainsAreShort /\ job.push

CommInv ==
    /\ job \in UpdWorkload /\ WorldInv(net, cache)
    /\ upd \in [Updater -> UpdRows] /\ loader \in [Loader -> LoaderRows]
    /\ \A u \in Updater : RowInv(upd[u], net, cache, MustKeep)
    /\ \A l \in Loader : LoaderInv(l, loader[l], net)

----------------------------------------
(* What the constants are: records, keys and names, and what is asked. *)
LEMMA UpdConstants ==
    /\ \A c \in Cid : rec[c].signer \in Key /\ rec[c].anchor \in UpdKeys /\ rec[c].name \in UpdNames /\ rec[c].at \in Nat \ {0}
    /\ Nothing \notin Key /\ Nothing \notin Name /\ Nothing \notin Cid /\ "deeper" \notin Key /\ "deeper" \notin Cid
    /\ \A k \in Key : k \notin Cid /\ k \notin Name
    /\ \A l \in Loader : Asks[l].name \in UpdNames /\ Asks[l].key \in UpdKeys /\ LoaderAddress(l) \in Key \cup Name
BY UpdAssumption DEF UpdKeys, UpdNames, LoaderAddress, Either

(* One field of a row replaced. *)
LEMMA RowEdits ==
    ASSUME NEW x \in UpdRows
    PROVE  /\ \A a \in UpdStates : [x EXCEPT !.state = a] \in UpdRows
           /\ \A a \in UpdKeys : [x EXCEPT !.publicKey = a] \in UpdRows
           /\ \A a \in UpdNames : [x EXCEPT !.name = a] \in UpdRows
           /\ \A a \in UpdKeys : [x EXCEPT !.anchor = a] \in UpdRows
           /\ \A a \in UpdKeys : [x EXCEPT !.ipnsName = a] \in UpdRows
           /\ \A a \in UpdChains : [x EXCEPT !.hops = a] \in UpdRows
           /\ \A a \in UpdCids : [x EXCEPT !.cid = a] \in UpdRows
           /\ \A a \in UpdLoads : [x EXCEPT !.loaded = a] \in UpdRows
           /\ \A a \in UpdVerdicts : [x EXCEPT !.verdict = a] \in UpdRows
           /\ \A a \in UpdFloors : [x EXCEPT !.floors = a] \in UpdRows
           /\ \A a \in UpdNames : [x EXCEPT !.bg = a] \in UpdRows
           /\ \A a \in Nat : [x EXCEPT !.bgSig = a] \in UpdRows
           /\ \A a \in Nat : [x EXCEPT !.sig = a] \in UpdRows
           /\ \A a \in UpdAliases : [x EXCEPT !.aliases = a] \in UpdRows
           /\ \A a \in UpdTopics : [x EXCEPT !.topics = a] \in UpdRows
           /\ \A a \in UpdNews : [x EXCEPT !.news = a] \in UpdRows
           /\ \A a \in UpdHeards : [x EXCEPT !.heard = a] \in UpdRows
           /\ \A a \in BOOLEAN : [x EXCEPT !.revalidate = a] \in UpdRows
           /\ \A a \in UpdPcs : [x EXCEPT !.pc = a] \in UpdRows
           /\ \A a \in UpdKeys : [x EXCEPT !.keyAt = a] \in UpdRows
           /\ \A a \in Nat : [x EXCEPT !.sigAt = a] \in UpdRows /\ [x EXCEPT !.sigOnce = a] \in UpdRows
           /\ \A a \in BOOLEAN : [x EXCEPT !.astray = a] \in UpdRows
           /\ \A a \in UpdChains : [x EXCEPT !.walk = a] \in UpdRows
           /\ \A a \in UpdCids : [x EXCEPT !.got = a] \in UpdRows
<1>1. \A a \in UpdStates : [x EXCEPT !.state = a] \in UpdRows BY DEF UpdRows
<1>2. \A a \in UpdKeys : [x EXCEPT !.publicKey = a] \in UpdRows BY DEF UpdRows
<1>3. \A a \in UpdNames : [x EXCEPT !.name = a] \in UpdRows BY DEF UpdRows
<1>4. \A a \in UpdKeys : [x EXCEPT !.anchor = a] \in UpdRows BY DEF UpdRows
<1>5. \A a \in UpdKeys : [x EXCEPT !.ipnsName = a] \in UpdRows BY DEF UpdRows
<1>6. \A a \in UpdChains : [x EXCEPT !.hops = a] \in UpdRows BY DEF UpdRows
<1>7. \A a \in UpdCids : [x EXCEPT !.cid = a] \in UpdRows BY DEF UpdRows
<1>8. \A a \in UpdLoads : [x EXCEPT !.loaded = a] \in UpdRows BY DEF UpdRows
<1>9. \A a \in UpdVerdicts : [x EXCEPT !.verdict = a] \in UpdRows BY DEF UpdRows
<1>10. \A a \in UpdFloors : [x EXCEPT !.floors = a] \in UpdRows BY DEF UpdRows
<1>11. \A a \in UpdNames : [x EXCEPT !.bg = a] \in UpdRows BY DEF UpdRows
<1>12. \A a \in Nat : [x EXCEPT !.bgSig = a] \in UpdRows BY DEF UpdRows
<1>13. \A a \in Nat : [x EXCEPT !.sig = a] \in UpdRows BY DEF UpdRows
<1>14. \A a \in UpdAliases : [x EXCEPT !.aliases = a] \in UpdRows BY DEF UpdRows
<1>15. \A a \in UpdTopics : [x EXCEPT !.topics = a] \in UpdRows BY DEF UpdRows
<1>16. \A a \in UpdNews : [x EXCEPT !.news = a] \in UpdRows BY DEF UpdRows
<1>17. \A a \in UpdHeards : [x EXCEPT !.heard = a] \in UpdRows BY DEF UpdRows
<1>18. \A a \in BOOLEAN : [x EXCEPT !.revalidate = a] \in UpdRows BY DEF UpdRows
<1>19. \A a \in UpdPcs : [x EXCEPT !.pc = a] \in UpdRows BY DEF UpdRows
<1>20. \A a \in UpdKeys : [x EXCEPT !.keyAt = a] \in UpdRows BY DEF UpdRows
<1>21. \A a \in Nat : [x EXCEPT !.sigAt = a] \in UpdRows BY DEF UpdRows
<1>24. \A a \in Nat : [x EXCEPT !.sigOnce = a] \in UpdRows BY DEF UpdRows
<1>25. \A a \in BOOLEAN : [x EXCEPT !.astray = a] \in UpdRows BY DEF UpdRows
<1>22. \A a \in UpdChains : [x EXCEPT !.walk = a] \in UpdRows BY DEF UpdRows
<1>23. \A a \in UpdCids : [x EXCEPT !.got = a] \in UpdRows BY DEF UpdRows
<1> QED
    BY <1>1, <1>2, <1>3, <1>4, <1>5, <1>6, <1>7, <1>8, <1>9, <1>10, <1>11, <1>12, <1>13, <1>14, <1>15, <1>16, <1>17, <1>18, <1>19, <1>20, <1>21, <1>22, <1>23, <1>24, <1>25

(* The fields of a row. *)
LEMMA RowTypes ==
    ASSUME NEW x \in UpdRows
    PROVE  /\ x.state \in UpdStates /\ x.addr \in UpdAddrs /\ x.publicKey \in UpdKeys /\ x.name \in UpdNames /\ x.anchor \in UpdKeys
           /\ x.ipnsName \in UpdKeys /\ x.hops \in UpdChains /\ x.cid \in UpdCids /\ x.loaded \in UpdLoads /\ x.verdict \in UpdVerdicts
           /\ x.floors \in UpdFloors /\ x.bg \in UpdNames /\ x.bgSig \in Nat /\ x.sig \in Nat /\ x.aliases \in UpdAliases
           /\ x.topics \in UpdTopics /\ x.news \in UpdNews /\ x.heard \in UpdHeards /\ x.revalidate \in BOOLEAN /\ x.pc \in UpdPcs
           /\ x.keyAt \in UpdKeys /\ x.sigAt \in Nat /\ x.sigOnce \in Nat /\ x.astray \in BOOLEAN /\ x.walk \in UpdChains /\ x.got \in UpdCids
BY DEF UpdRows

(* A chain has one name or two. *)
LEMMA OneHop ==
    ASSUME NEW k \in Key
    PROVE  <<k>> \in UpdChains /\ Len(<<k>>) = 1 /\ <<k>>[1] = k /\ Range2(<<k>>) = {k} /\ Last2(<<k>>) = k /\ <<k>> # << >> /\ First2(<<k>>) = k
BY DEF UpdChains, Range2, Last2, First2

(* A chain that was walked is not empty. *)
LEMMA NoHops ==
    ASSUME NEW w, Len(w) \in {1, 2}
    PROVE  w # << >>
<1>1. SUFFICES ASSUME w = << >> PROVE FALSE OBVIOUS
<1>2. Len(w) = 0 BY <1>1
<1> QED BY <1>2

(* A chain of one delegation. *)
LEMMA TwoHops ==
    ASSUME NEW k \in Key, NEW j \in Key
    PROVE  /\ <<k, j>> \in UpdChains /\ Len(<<k, j>>) = 2 /\ <<k, j>>[1] = k /\ <<k, j>>[2] = j
           /\ Range2(<<k, j>>) = {k, j} /\ Last2(<<k, j>>) = j /\ <<k, j>> # << >> /\ First2(<<k, j>>) = k
<1>1. DOMAIN <<k, j>> = {1, 2} /\ 1..2 = {1, 2} OBVIOUS
<1> QED BY <1>1 DEF UpdChains, Range2, Last2, First2

(* What a walk through a view of the network returns. *)
LEMMA WalkIs ==
    ASSUME NEW k \in Key, NEW view \in [Key -> UpdValues]
    PROVE  /\ Walk(view, k).hops \in UpdChains /\ Walk(view, k).value \in UpdCids \cup {"deeper"}
           /\ Walk(view, k).hops # << >> /\ Walk(view, k).hops[1] = k /\ Len(Walk(view, k).hops) \in {1, 2}
           /\ view[k] \notin Key => Walk(view, k).hops = <<k>> /\ Walk(view, k).value = view[k]
           /\ view[k] \in Key => /\ Walk(view, k).hops = <<k, view[k]>>
                                 /\ Walk(view, k).value = (IF view[view[k]] \in Key THEN "deeper" ELSE view[view[k]])
<1>1. CASE view[k] \notin Key
 <2>1. Walk(view, k) = [hops |-> <<k>>, value |-> view[k]] BY <1>1 DEF Walk
 <2>2. view[k] \in UpdCids BY <1>1 DEF UpdValues, UpdCids
 <2>3. Walk(view, k).hops = <<k>> /\ Walk(view, k).value = view[k] BY <2>1
 <2>4. <<k>> \in UpdChains /\ <<k>> # << >> /\ <<k>>[1] = k /\ Len(<<k>>) \in {1, 2} BY OneHop
 <2> QED BY <1>1, <2>2, <2>3, <2>4
<1>2. CASE view[k] \in Key
 <2>0. PICK j \in Key : j = view[k] BY <1>2
 <2>1. Walk(view, k) = [hops |-> <<k, j>>, value |-> IF view[j] \in Key THEN "deeper" ELSE view[j]] BY <1>2, <2>0 DEF Walk
 <2>2. view[j] \in Key \/ view[j] \in UpdCids BY <2>0 DEF UpdValues, UpdCids
 <2>3. Walk(view, k).hops = <<k, j>> /\ Walk(view, k).value = (IF view[j] \in Key THEN "deeper" ELSE view[j]) BY <2>1
 <2>4. <<k, j>> \in UpdChains /\ <<k, j>> # << >> /\ <<k, j>>[1] = k /\ Len(<<k, j>>) \in {1, 2} BY <2>0, TwoHops
 <2>5. /\ Walk(view, k).hops \in UpdChains /\ Walk(view, k).hops # << >> /\ Walk(view, k).hops[1] = k
       /\ Len(Walk(view, k).hops) \in {1, 2}
     BY <2>3, <2>4
 <2>6. Walk(view, k).value \in UpdCids \cup {"deeper"} BY <2>2, <2>3
 <2> QED BY <1>2, <2>0, <2>3, <2>5, <2>6
<1> QED BY <1>1, <1>2

(* A view shows of every name what the network or the cache has of it. *)
LEMMA ViewsAre ==
    ASSUME WorldInv(net, cache), NEW x, NEW view \in Views(x)
    PROVE  /\ view \in [Key -> UpdValues] /\ \A k \in Key : view[k] = net.ipns[k] \/ view[k] = cache.ipns[k]
           /\ ~job.push => view = net.ipns
<1>1. PICK cached : view = [k \in Key |-> IF k \in cached THEN cache.ipns[k] ELSE net.ipns[k]]
                    /\ cached \in (IF job.push /\ ~x.revalidate THEN SUBSET {k \in Key : cache.ipns[k] # Nothing} ELSE {{}})
    BY DEF Views
<1>2. net.ipns \in [Key -> UpdValues] /\ cache.ipns \in [Key -> UpdValues] BY DEF WorldInv, UpdWorlds, UpdCaches
<1> QED BY <1>1, <1>2

(* A loop watches keys: those of the chain it walked, when it walked one. *)
LEMMA WatchedAreKeys ==
    ASSUME NEW x \in UpdRows
    PROVE  WatchedNames(x) \in UpdTopics /\ (x.hops # << >> => WatchedNames(x) = Range2(x.hops))
<1>1. x.hops \in Seq(Key) /\ x.ipnsName \in UpdKeys /\ x.addr \in UpdAddrs /\ x.publicKey \in UpdKeys BY RowTypes DEF UpdChains
<1>2. Range2(x.hops) \subseteq Key BY <1>1 DEF Range2
<1>3. _pinnedIpnsName(x) \in UpdKeys BY <1>1 DEF _pinnedIpnsName, UpdKeys
<1> QED BY <1>1, <1>2, <1>3 DEF WatchedNames, UpdTopics, Either, UpdKeys

----------------------------------------
(* What the steps of a row leave as it is. *)
SameShown(x, y) == (x.astray => y.astray) /\ y.cid = x.cid /\ y.name = x.name /\ y.anchor = x.anchor /\ y.publicKey = x.publicKey /\ y.hops = x.hops
SameVerdict(x, y) == y.addr = x.addr /\ y.verdict = x.verdict /\ y.bg = x.bg /\ y.publicKey = x.publicKey /\ y.name = x.name

(* What is shown and what was found of the name stay true when they stay. *)
LEMMA SameIsSound ==
    ASSUME NEW x, NEW y, NEW e, NEW v
    PROVE  /\ SameShown(x, y) /\ ShowsItsRecord(x, e) => ShowsItsRecord(y, e)
           /\ SameVerdict(x, y) /\ VerdictHolds(x, v) => VerdictHolds(y, v)
<1>1. ASSUME SameShown(x, y), ShowsItsRecord(x, e)
      PROVE  ShowsItsRecord(y, e)
    BY <1>1 DEF SameShown, ShowsItsRecord
<1>2. ASSUME SameVerdict(x, y), VerdictHolds(x, v)
      PROVE  VerdictHolds(y, v)
    BY <1>2 DEF SameVerdict, VerdictHolds, ClassifiedName
<1> QED BY <1>1, <1>2

(* _syncIpnsArrivalSubscriptions changes what is watched, and no more. *)
LEMMA SyncDoes ==
    ASSUME NEW x \in UpdRows, NEW y, y = _syncIpnsArrivalSubscriptions(x)
    PROVE  /\ y \in UpdRows /\ SameShown(x, y) /\ SameVerdict(x, y)
           /\ y.pc = x.pc /\ y.sig = x.sig /\ y.sigAt = x.sigAt /\ y.sigOnce = x.sigOnce /\ y.loaded = x.loaded /\ y.heard = x.heard /\ y.news = x.news
           /\ y.walk = x.walk /\ y.got = x.got /\ y.ipnsName = x.ipnsName /\ y.state = x.state /\ y.keyAt = x.keyAt
           /\ y.revalidate = x.revalidate /\ y.aliases = x.aliases
           /\ job.push => y.topics = WatchedNames(x)
<1> DEFINE T == WatchedNames(x)
<1>1. T \in UpdTopics BY WatchedAreKeys
<1>2. y = [x EXCEPT !.topics = T] \/ y = x BY DEF _syncIpnsArrivalSubscriptions
<1>3. job.push => y = [x EXCEPT !.topics = T] BY DEF _syncIpnsArrivalSubscriptions
<1> HIDE DEF T
<1>4. y \in UpdRows BY <1>1, <1>2, RowEdits
<1>5. job.push => y.topics = T BY <1>3 DEF UpdRows
<1> QED BY <1>2, <1>4, <1>5 DEF UpdRows, SameShown, SameVerdict, T

(* _sleepUntilIpnsArrival sleeps only on records that were consumed. *)
LEMMA SleepDoes ==
    ASSUME NEW x \in UpdRows, NEW y, y = _sleepUntilIpnsArrival(x)
    PROVE  /\ y \in UpdRows /\ y.pc \in {"begin", "parked"} /\ SameShown(x, y) /\ SameVerdict(x, y)
           /\ y.sig = x.sig /\ y.sigAt = x.sigAt /\ y.sigOnce = x.sigOnce /\ y.loaded = x.loaded /\ y.heard = x.heard
           /\ job.push => y.topics = WatchedNames(x)
           /\ y.pc = "parked" => \A v \in x.news : ~Unconsumed(x, v)
<1>0. PICK z : z = _syncIpnsArrivalSubscriptions(x) OBVIOUS
<1>1. /\ z \in UpdRows /\ SameShown(x, z) /\ SameVerdict(x, z)
      /\ z.sig = x.sig /\ z.sigAt = x.sigAt /\ z.sigOnce = x.sigOnce /\ z.loaded = x.loaded /\ z.heard = x.heard /\ z.news = x.news
      /\ job.push => z.topics = WatchedNames(x)
    BY <1>0, SyncDoes
<1>2. \A v : Unconsumed(z, v) <=> Unconsumed(x, v) BY <1>1 DEF Unconsumed, SameShown
<1>3. IF {v \in z.news : Unconsumed(z, v)} # {} THEN y = [z EXCEPT !.pc = "begin", !.news = {}, !.revalidate = FALSE]
      ELSE y = [z EXCEPT !.pc = "parked", !.news = {}]
    BY <1>0 DEF _sleepUntilIpnsArrival
<1>4. CASE {v \in z.news : Unconsumed(z, v)} # {}
 <2>1. y = [[[z EXCEPT !.pc = "begin"] EXCEPT !.news = {}] EXCEPT !.revalidate = FALSE] BY <1>3, <1>4
 <2>2. [z EXCEPT !.pc = "begin"] \in UpdRows BY <1>1, RowEdits DEF UpdPcs
 <2>3. [[z EXCEPT !.pc = "begin"] EXCEPT !.news = {}] \in UpdRows BY <2>2, RowEdits DEF UpdNews
 <2>4. y \in UpdRows BY <2>1, <2>3, RowEdits
 <2>5. /\ y.pc = "begin" /\ SameShown(z, y) /\ SameVerdict(z, y) /\ y.sig = z.sig /\ y.sigAt = z.sigAt /\ y.sigOnce = z.sigOnce /\ y.loaded = z.loaded
       /\ y.heard = z.heard /\ y.topics = z.topics
     BY <1>1, <1>3, <1>4, ZenonT(40) DEF UpdRows, SameShown, SameVerdict
 <2> QED BY <2>4, <2>5, <1>1 DEF SameShown, SameVerdict
<1>5. CASE {v \in z.news : Unconsumed(z, v)} = {}
 <2>1. y = [[z EXCEPT !.pc = "parked"] EXCEPT !.news = {}] BY <1>3, <1>5
 <2>2. [z EXCEPT !.pc = "parked"] \in UpdRows BY <1>1, RowEdits DEF UpdPcs
 <2>0. {} \in UpdNews BY DEF UpdNews
 <2>6. [[z EXCEPT !.pc = "parked"] EXCEPT !.news = {}] \in UpdRows BY <2>0, <2>2, RowEdits
 <2>3. y \in UpdRows BY <2>1, <2>6
 <2>4. /\ y.pc = "parked" /\ SameShown(z, y) /\ SameVerdict(z, y) /\ y.sig = z.sig /\ y.sigAt = z.sigAt /\ y.sigOnce = z.sigOnce /\ y.loaded = z.loaded
       /\ y.heard = z.heard /\ y.topics = z.topics
     BY <1>1, <1>3, <1>5, ZenonT(40) DEF UpdRows, SameShown, SameVerdict
 <2>5. \A v \in x.news : ~Unconsumed(x, v) BY <1>1, <1>2, <1>5
 <2> QED BY <2>3, <2>4, <2>5, <1>1 DEF SameShown, SameVerdict
<1> QED BY <1>4, <1>5

(* A cycle that ends keeps what is true of its row. *)
LEMMA SleepKeeps ==
    ASSUME NEW x \in UpdRows, NEW y, y = _sleepUntilIpnsArrival(x), NEW e, NEW v, x.pc # "off",
           x.sigOnce <= x.sigAt /\ x.sigAt <= x.sig, x.addr \in Key \cup Name, ShowsItsRecord(x, e), VerdictHolds(x, v)
    PROVE  /\ y \in UpdRows /\ y.heard = x.heard /\ RowIsSound(y, e, v)
           /\ job.push /\ (\A p \in x.heard : p[1] \in WatchedNames(x) => Kept(x, p)) => ArrivalsAreKept(y)
<1>1. /\ y \in UpdRows /\ y.pc \in {"begin", "parked"} /\ SameShown(x, y) /\ SameVerdict(x, y)
      /\ y.sig = x.sig /\ y.sigAt = x.sigAt /\ y.sigOnce = x.sigOnce /\ y.loaded = x.loaded /\ y.heard = x.heard
      /\ job.push => y.topics = WatchedNames(x)
      /\ y.pc = "parked" => \A w \in x.news : ~Unconsumed(x, w)
    BY SleepDoes
<1>2. ShowsItsRecord(y, e) /\ VerdictHolds(y, v) BY <1>1, SameIsSound
<1>3. CycleIsSound(y, e) BY <1>1 DEF CycleIsSound, SameVerdict, InCycle, FetchPcs
<1>4. ASSUME job.push, \A p \in x.heard : p[1] \in WatchedNames(x) => Kept(x, p)
      PROVE  ArrivalsAreKept(y)
 <2>1. \A w : Unconsumed(y, w) <=> Unconsumed(x, w) BY <1>1 DEF Unconsumed, SameShown
 <2>2. y.pc = "parked" => \A p \in y.heard : p[1] \in y.topics => ~Unconsumed(y, p[2]) BY <1>1, <1>4, <2>1 DEF Kept
 <2> QED BY <1>1, <2>2 DEF ArrivalsAreKept, InCycle, FetchPcs
<1> QED BY <1>1, <1>2, <1>3, <1>4 DEF RowIsSound

----------------------------------------
(* What was pushed reaches a row. *)
PushReaches(names, at, c, d) ==
    /\ names \subseteq Key /\ at \in [Key -> UpdValues] /\ \A k \in names : at[k] # Nothing
    /\ \A k \in Key : d[k] = IF k \in names THEN at[k] ELSE c[k]

(* A record that arrives is noted by the loop that watches its name, and *)
(* wakes it from its sleep: nothing that was pushed and is still the *)
(* newest of its name is forgotten. *)
LEMMA ArrivalKeeps ==
    ASSUME NEW x \in UpdRows, NEW names, NEW at, NEW c, NEW d, PushReaches(names, at, c, d),
           NEW y, y = _onIpnsRecordArrival(x, names, at), NEW e, NEW v, RowIsSound(x, e, v), HeardIsCached(x, c)
    PROVE  /\ y \in UpdRows /\ RowIsSound(y, e, v) /\ SameShown(x, y) /\ HeardIsCached(y, d)
           /\ ArrivalsAreKept(x) => ArrivalsAreKept(y)
           /\ x.pc # "parked" => y.pc = x.pc
           /\ y.sig = x.sig /\ y.sigAt = x.sigAt /\ y.sigOnce = x.sigOnce /\ y.walk = x.walk /\ y.got = x.got /\ y.loaded = x.loaded /\ y.addr = x.addr
<1>7. /\ names \subseteq Key /\ at \in [Key -> UpdValues] /\ \A k \in names : at[k] # Nothing
      /\ \A k \in Key : d[k] = IF k \in names THEN at[k] ELSE c[k]
    BY DEF PushReaches
<1>0. PICK new : new = {k \in names \cap x.topics : Unconsumed(x, at[k])} OBVIOUS
<1>1.         /\ y \in UpdRows /\ SameShown(x, y) /\ SameVerdict(x, y)
              /\ y.sig = x.sig /\ y.sigAt = x.sigAt /\ y.sigOnce = x.sigOnce /\ y.loaded = x.loaded /\ y.walk = x.walk /\ y.got = x.got /\ y.topics = x.topics
              /\ y.ipnsName = x.ipnsName
              /\ \A p \in y.heard : (p \in x.heard /\ p[1] \notin names) \/ (p[1] \in new /\ p[2] = at[p[1]])
              /\ new # {} /\ x.pc = "parked" => y.pc = "begin"
              /\ ~(new # {} /\ x.pc = "parked") => y.pc = x.pc /\ x.news \subseteq y.news /\ \A k \in new : at[k] \in y.news
              /\ new \subseteq names \cap x.topics
 <2>1. new = {k \in names \cap x.topics : Unconsumed(x, at[k])} BY <1>0
 <2>2. PICK hs : hs = {p \in x.heard : p[1] \notin names} \cup {<<k, at[k]>> : k \in new} OBVIOUS
 <2>3. PICK ns : ns = x.news \cup {at[k] : k \in new} OBVIOUS
 <2>4. new \subseteq names \cap x.topics /\ \A k \in new : k \in Key /\ at[k] \in UpdPushes BY <1>7, <2>1 DEF UpdValues, UpdPushes
 <2>5. x.heard \in SUBSET (Key \X UpdPushes) /\ x.news \in SUBSET UpdPushes BY RowTypes DEF UpdHeards, UpdNews
 <2>6. hs \in UpdHeards
  <3>1. {<<k, at[k]>> : k \in new} \subseteq Key \X UpdPushes BY <2>4
  <3> QED BY <3>1, <2>2, <2>5 DEF UpdHeards
 <2>7. ns \in UpdNews BY <2>3, <2>4, <2>5 DEF UpdNews
 <2>12. \A p \in hs : (p \in x.heard /\ p[1] \notin names) \/ (p[1] \in new /\ p[2] = at[p[1]]) BY <2>2
 <2>13. x.news \subseteq ns /\ \A k \in new : at[k] \in ns BY <2>3
 <2>8. y = IF new # {} /\ x.pc = "parked" THEN [[x EXCEPT !.heard = hs] EXCEPT !.pc = "begin", !.news = {}, !.revalidate = FALSE]
           ELSE [[x EXCEPT !.heard = hs] EXCEPT !.news = ns]
  <3>1. [x EXCEPT !.heard = hs].news = x.news BY DEF UpdRows
  <3> QED BY <2>1, <2>2, <2>3, <3>1 DEF _onIpnsRecordArrival
 <2>9. [x EXCEPT !.heard = hs] \in UpdRows BY <2>6, RowEdits
 <2>10. CASE new # {} /\ x.pc = "parked"
  <3>1. y = [[[[x EXCEPT !.heard = hs] EXCEPT !.pc = "begin"] EXCEPT !.news = {}] EXCEPT !.revalidate = FALSE] BY <2>8, <2>10
  <3>2. [[x EXCEPT !.heard = hs] EXCEPT !.pc = "begin"] \in UpdRows BY <2>9, RowEdits DEF UpdPcs
  <3>3. {} \in UpdNews BY DEF UpdNews
  <3>4. [[[x EXCEPT !.heard = hs] EXCEPT !.pc = "begin"] EXCEPT !.news = {}] \in UpdRows BY <3>2, <3>3, RowEdits
  <3>5. y \in UpdRows BY <3>1, <3>4, RowEdits
  <3>6. /\ SameShown(x, y) /\ SameVerdict(x, y) /\ y.pc = "begin"
        /\ y.sig = x.sig /\ y.sigAt = x.sigAt /\ y.sigOnce = x.sigOnce /\ y.loaded = x.loaded /\ y.walk = x.walk /\ y.got = x.got /\ y.topics = x.topics
        /\ y.ipnsName = x.ipnsName /\ y.heard = hs
      BY <3>1 DEF UpdRows, SameShown, SameVerdict
  <3> QED BY <2>4, <2>10, <2>12, <3>5, <3>6
 <2>11. CASE ~(new # {} /\ x.pc = "parked")
  <3>1. y = [[x EXCEPT !.heard = hs] EXCEPT !.news = ns] BY <2>8, <2>11
  <3>2. y \in UpdRows BY <3>1, <2>7, <2>9, RowEdits, ZenonT(40)
  <3>3. /\ SameShown(x, y) /\ SameVerdict(x, y) /\ y.pc = x.pc /\ y.news = ns
        /\ y.sig = x.sig /\ y.sigAt = x.sigAt /\ y.sigOnce = x.sigOnce /\ y.loaded = x.loaded /\ y.walk = x.walk /\ y.got = x.got /\ y.topics = x.topics
        /\ y.ipnsName = x.ipnsName /\ y.heard = hs
      BY <3>1 DEF UpdRows, SameShown, SameVerdict
  <3> QED BY <2>4, <2>11, <2>12, <2>13, <3>2, <3>3
 <2> QED BY <2>10, <2>11
<1>2. ShowsItsRecord(y, e) /\ VerdictHolds(y, v) BY <1>1, SameIsSound DEF RowIsSound
<1>3. CycleIsSound(y, e)
 <2>1. CASE new # {} /\ x.pc = "parked" BY <1>1, <2>1 DEF RowIsSound, CycleIsSound, SameVerdict, InCycle, FetchPcs
 <2>2. CASE ~(new # {} /\ x.pc = "parked") BY <1>1, <2>2 DEF RowIsSound, CycleIsSound, SameVerdict, SameShown, ValidRecord
 <2> QED BY <2>1, <2>2
<1>4. \A p \in x.heard : p[1] \in Key BY RowTypes DEF UpdHeards
<1>5. HeardIsCached(y, d)
 <2>1. SUFFICES ASSUME NEW p \in y.heard
                PROVE  d[p[1]] = p[2]
     BY DEF HeardIsCached
 <2>2. CASE p \in x.heard /\ p[1] \notin names BY <1>7, <2>2, <1>4 DEF HeardIsCached
 <2>3. CASE p[1] \in new /\ p[2] = at[p[1]] BY <1>7, <2>3, <1>1
 <2> QED BY <1>1, <2>1, <2>2, <2>3
<1>6. ASSUME ArrivalsAreKept(x)
      PROVE  ArrivalsAreKept(y)
 <2>1. CASE new # {} /\ x.pc = "parked" BY <1>1, <2>1 DEF ArrivalsAreKept, InCycle, FetchPcs
 <2>2. CASE ~(new # {} /\ x.pc = "parked")
  <3>1. y.pc = x.pc /\ x.news \subseteq y.news /\ \A k \in new : at[k] \in y.news BY <1>1, <2>2
  <3>2. \A p \in y.heard : p \in x.heard \/ p[2] \in y.news BY <1>1, <3>1
  <3>3. \A w : Unconsumed(y, w) <=> Unconsumed(x, w) BY <1>1 DEF Unconsumed, SameShown
  <3>4. x.pc = "parked" => y.heard \subseteq x.heard BY <1>1, <2>2
  <3>5. y.pc \in InCycle /\ y.sig # y.sigAt => \A p \in y.heard : p[2] \in y.news BY <1>1, <1>6, <3>1, <3>2 DEF ArrivalsAreKept
  <3>6. y.pc \in FetchPcs /\ y.sig = y.sigAt => \A p \in y.heard : p[1] \in Range2(y.hops) => Kept(y, p) \/ p[2] = y.got
      BY <1>1, <1>6, <3>1, <3>2, <3>3 DEF ArrivalsAreKept, Kept, SameShown
  <3>7. y.pc = "parked" => \A p \in y.heard : p[1] \in y.topics => ~Unconsumed(y, p[2]) BY <1>1, <1>6, <3>1, <3>3, <3>4 DEF ArrivalsAreKept
  <3>8. /\ y.pc \in FetchPcs /\ y.sig = y.sigAt => y.cid \in y.loaded \cup {Nothing} /\ (y.pc # "fetch" => y.got \in y.loaded)
        /\ y.pc = "resolve" => y.cid \in y.loaded \cup {Nothing}
      BY <1>1, <1>6, <3>1 DEF ArrivalsAreKept, SameShown
  <3> QED BY <3>5, <3>6, <3>7, <3>8 DEF ArrivalsAreKept
 <2> QED BY <2>1, <2>2
<1> QED BY <1>1, <1>2, <1>3, <1>5, <1>6 DEF RowIsSound, SameVerdict

(* A name is resolved in the background only for a community whose key is *)
(* known. *)
LEMMA BackgroundDoes ==
    ASSUME NEW x \in UpdRows, NEW n \in Name, NEW y, y = _resolveNameInBackground(x, n)
    PROVE  /\ y \in UpdRows /\ SameShown(x, y) /\ y.addr = x.addr /\ y.verdict = x.verdict
           /\ y.pc = x.pc /\ y.sig = x.sig /\ y.sigAt = x.sigAt /\ y.sigOnce = x.sigOnce /\ y.loaded = x.loaded /\ y.heard = x.heard /\ y.news = x.news
           /\ y.walk = x.walk /\ y.got = x.got /\ y.topics = x.topics /\ y.ipnsName = x.ipnsName
           /\ \A v : VerdictHolds(x, v) /\ x.publicKey # Nothing => VerdictHolds(y, v)
<1>1. CASE y = x BY <1>1 DEF SameShown
<1>2. CASE y = [x EXCEPT !.bg = n, !.bgSig = x.sig]
 <2>1. y = [[x EXCEPT !.bg = n] EXCEPT !.bgSig = x.sig] BY <1>2
 <2>2. [x EXCEPT !.bg = n] \in UpdRows BY RowEdits DEF UpdNames
 <2>6. x.sig \in Nat BY RowTypes
 <2>7. [[x EXCEPT !.bg = n] EXCEPT !.bgSig = x.sig] \in UpdRows BY <2>2, <2>6, RowEdits
 <2>3. y \in UpdRows BY <2>1, <2>7
 <2>4. /\ SameShown(x, y) /\ y.addr = x.addr /\ y.verdict = x.verdict
       /\ y.pc = x.pc /\ y.sig = x.sig /\ y.sigAt = x.sigAt /\ y.sigOnce = x.sigOnce /\ y.loaded = x.loaded /\ y.heard = x.heard /\ y.news = x.news
       /\ y.walk = x.walk /\ y.got = x.got /\ y.topics = x.topics /\ y.ipnsName = x.ipnsName
     BY <2>1 DEF UpdRows, SameShown
 <2>5. ASSUME NEW v, VerdictHolds(x, v), x.publicKey # Nothing
       PROVE  VerdictHolds(y, v)
     BY <2>4, <2>5 DEF VerdictHolds, ClassifiedName, SameShown
 <2> QED BY <2>3, <2>4, <2>5
<1> QED BY <1>1, <1>2 DEF _resolveNameInBackground

(* A row shows what it shows. *)
LEMMA NoChange ==
    ASSUME NEW x
    PROVE  SameShown(x, x)
BY DEF SameShown

(* A fetch goes out for the key k. *)
LEMMA FetchDoes ==
    ASSUME NEW x \in UpdRows, NEW k \in Key, NEW y, y = FetchFrom(x, k)
    PROVE  /\ y \in UpdRows /\ y.cid = x.cid /\ y.name = x.name /\ y.anchor = x.anchor /\ y.publicKey = x.publicKey
           /\ y.hops = x.hops \/ y.hops = <<k>>
           /\ y.addr = x.addr /\ y.verdict = x.verdict /\ y.pc = "resolve" /\ y.sig = x.sig /\ y.sigAt = x.sigAt /\ y.sigOnce = x.sigOnce
           /\ y.cid \in y.loaded \cup {Nothing} /\ y.heard = x.heard /\ y.news = x.news /\ y.walk = <<k>>
           /\ x.astray \/ (x.cid # Nothing /\ k # x.publicKey) => y.astray
           /\ \A v : VerdictHolds(x, v) => VerdictHolds(y, v)
<1>1. PICK b : /\ b = IF x.addr \in Key /\ x.name # Nothing /\ x.publicKey # Nothing /\ x.verdict # "yes"
                      THEN _resolveNameInBackground(x, x.name) ELSE x
    OBVIOUS
<1>2. /\ b \in UpdRows /\ SameShown(x, b) /\ b.addr = x.addr /\ b.verdict = x.verdict
      /\ b.pc = x.pc /\ b.sig = x.sig /\ b.sigAt = x.sigAt /\ b.sigOnce = x.sigOnce /\ b.loaded = x.loaded /\ b.heard = x.heard /\ b.news = x.news
      /\ b.walk = x.walk /\ b.got = x.got /\ b.ipnsName = x.ipnsName
      /\ \A v : VerdictHolds(x, v) => VerdictHolds(b, v)
 <2>1. CASE x.addr \in Key /\ x.name # Nothing /\ x.publicKey # Nothing /\ x.verdict # "yes"
  <3>1. b = _resolveNameInBackground(x, x.name) BY <1>1, <2>1
  <3>2. x.name \in Name BY <2>1, RowTypes DEF UpdNames
  <3> QED BY <2>1, <3>1, <3>2, BackgroundDoes
 <2>2. CASE ~(x.addr \in Key /\ x.name # Nothing /\ x.publicKey # Nothing /\ x.verdict # "yes") BY <1>1, <2>2, NoChange
 <2> QED BY <2>1, <2>2
<1>3. PICK s : s = IF x.ipnsName = k THEN b ELSE _syncIpnsArrivalSubscriptions([b EXCEPT !.ipnsName = k, !.hops = <<k>>]) OBVIOUS
<1>4. /\ s \in UpdRows /\ s.cid = b.cid /\ s.name = b.name /\ s.anchor = b.anchor /\ s.publicKey = b.publicKey
      /\ s.hops = b.hops \/ s.hops = <<k>>
      /\ s.addr = b.addr /\ s.verdict = b.verdict /\ s.sig = b.sig /\ s.sigAt = b.sigAt /\ s.sigOnce = b.sigOnce /\ s.loaded = b.loaded
      /\ s.heard = b.heard /\ s.news = b.news /\ s.bg = b.bg /\ (b.astray => s.astray)
 <2>1. CASE x.ipnsName = k BY <1>2, <1>3, <2>1
 <2>2. CASE x.ipnsName # k
  <3>1. PICK c : c = [[b EXCEPT !.ipnsName = k] EXCEPT !.hops = <<k>>] OBVIOUS
  <3>2. [b EXCEPT !.ipnsName = k] \in UpdRows BY <1>2, RowEdits DEF UpdKeys
  <3>3. c \in UpdRows BY <3>1, <3>2, OneHop, RowEdits
  <3>4. /\ c.cid = b.cid /\ c.name = b.name /\ c.anchor = b.anchor /\ c.publicKey = b.publicKey /\ c.hops = <<k>>
        /\ c.addr = b.addr /\ c.verdict = b.verdict /\ c.sig = b.sig /\ c.sigAt = b.sigAt /\ c.sigOnce = b.sigOnce /\ c.loaded = b.loaded
        /\ c.heard = b.heard /\ c.news = b.news /\ c.bg = b.bg /\ c.astray = b.astray
      BY <1>2, <3>1 DEF UpdRows
  <3>5. s = _syncIpnsArrivalSubscriptions(c) BY <1>3, <2>2, <3>1
  <3> QED BY <3>3, <3>4, <3>5, SyncDoes DEF SameShown, SameVerdict
 <2> QED BY <2>1, <2>2
<1>5. PICK new : new = s.loaded \cup ({x.cid} \ {Nothing}) OBVIOUS
<1>6. new \in UpdLoads BY <1>4, <1>5, RowTypes DEF UpdLoads, UpdCids
<1>17. PICK lost \in BOOLEAN : lost = (s.astray \/ (x.cid # Nothing /\ k # x.publicKey)) OBVIOUS
<1>7. y = [[[[s EXCEPT !.loaded = new] EXCEPT !.walk = <<k>>] EXCEPT !.pc = "resolve"] EXCEPT !.astray = lost]
 <2>1. s.astray \in BOOLEAN BY <1>4, RowTypes
 <2> QED BY <2>1, <1>1, <1>3, <1>5, <1>17 DEF FetchFrom
<1>8. [s EXCEPT !.loaded = new] \in UpdRows BY <1>4, <1>6, RowEdits
<1>9. [[s EXCEPT !.loaded = new] EXCEPT !.walk = <<k>>] \in UpdRows BY <1>8, OneHop, RowEdits
<1>15. "resolve" \in UpdPcs BY DEF UpdPcs, InCycle
<1>16. [[[s EXCEPT !.loaded = new] EXCEPT !.walk = <<k>>] EXCEPT !.pc = "resolve"] \in UpdRows BY <1>9, <1>15, RowEdits
<1>18. [[[[s EXCEPT !.loaded = new] EXCEPT !.walk = <<k>>] EXCEPT !.pc = "resolve"] EXCEPT !.astray = lost] \in UpdRows BY <1>16, RowEdits
<1>10. y \in UpdRows BY <1>7, <1>18
<1>11. /\ y.cid = s.cid /\ y.name = s.name /\ y.anchor = s.anchor /\ y.publicKey = s.publicKey /\ y.hops = s.hops
       /\ y.addr = s.addr /\ y.verdict = s.verdict /\ y.pc = "resolve" /\ y.sig = s.sig /\ y.sigAt = s.sigAt /\ y.sigOnce = s.sigOnce /\ y.loaded = new
       /\ y.heard = s.heard /\ y.news = s.news /\ y.bg = s.bg /\ y.walk = <<k>> /\ y.astray = lost
    BY <1>4, <1>7 DEF UpdRows
<1>12. SameVerdict(b, y) BY <1>4, <1>11 DEF SameVerdict
<1>13. \A v : VerdictHolds(x, v) => VerdictHolds(y, v) BY <1>2, <1>12, SameIsSound
<1>14. y.cid \in y.loaded \cup {Nothing} BY <1>2, <1>4, <1>5, <1>11 DEF SameShown
<1> QED BY <1>2, <1>4, <1>10, <1>11, <1>13, <1>14, <1>17 DEF SameShown

(* A fetch keeps what is true of the row, whichever key it goes to. *)
LEMMA FetchKeeps ==
    ASSUME NEW x \in UpdRows, NEW k \in Key, NEW y, y = FetchFrom(x, k), NEW e, NEW v,
           x.addr \in Key \cup Name, x.sigOnce <= x.sigAt /\ x.sigAt <= x.sig, ShowsItsRecord(x, e), VerdictHolds(x, v),
           x.cid # Nothing => x.sig = x.sigAt
    PROVE  /\ y \in UpdRows /\ RowIsSound(y, e, v) /\ y.heard = x.heard
           /\ (x.sig # x.sigAt => \A p \in x.heard : p[2] \in x.news) => ArrivalsAreKept(y)
<1>1. /\ y \in UpdRows /\ y.cid = x.cid /\ y.name = x.name /\ y.anchor = x.anchor /\ y.publicKey = x.publicKey
      /\ y.hops = x.hops \/ y.hops = <<k>>
      /\ y.addr = x.addr /\ y.verdict = x.verdict /\ y.pc = "resolve" /\ y.sig = x.sig /\ y.sigAt = x.sigAt /\ y.sigOnce = x.sigOnce
      /\ y.cid \in y.loaded \cup {Nothing} /\ y.heard = x.heard /\ y.news = x.news /\ y.walk = <<k>>
      /\ x.astray \/ (x.cid # Nothing /\ k # x.publicKey) => y.astray
      /\ \A w : VerdictHolds(x, w) => VerdictHolds(y, w)
    BY FetchDoes
<1>2. <<k>>[1] = k /\ Len(<<k>>) = 1 BY OneHop
<1>3. ShowsItsRecord(y, e) BY <1>1, <1>2 DEF ShowsItsRecord, Vouches
<1>4. CycleIsSound(y, e) BY <1>1, <1>2 DEF CycleIsSound, InCycle, FetchPcs
<1>5. ASSUME x.sig # x.sigAt => \A p \in x.heard : p[2] \in x.news
      PROVE  ArrivalsAreKept(y)
    BY <1>1, <1>5 DEF ArrivalsAreKept, FetchPcs
<1> QED BY <1>1, <1>3, <1>4, <1>5 DEF RowIsSound

(* An attempt goes to the key that is pinned, or to the address, or asks *)
(* for the key of the name. *)
LEMMA AttemptKeeps ==
    ASSUME NEW x \in UpdRows, NEW y, y = Attempt(x), NEW e, NEW v,
           x.addr \in Key \cup Name, x.sigOnce <= x.sigAt /\ x.sigAt <= x.sig, ShowsItsRecord(x, e), VerdictHolds(x, v), x.cid # Nothing => x.sig = x.sigAt
    PROVE  /\ y \in UpdRows /\ RowIsSound(y, e, v) /\ y.heard = x.heard
           /\ (x.sig # x.sigAt => \A p \in x.heard : p[2] \in x.news) => ArrivalsAreKept(y)
<1>1. CASE _pinnedIpnsName(x) # Nothing
 <2>1. _pinnedIpnsName(x) = x.publicKey /\ x.publicKey # Nothing BY <1>1 DEF _pinnedIpnsName
 <2>2. x.publicKey \in Key BY <2>1, RowTypes DEF UpdKeys
 <2>3. PICK b : b = IF x.addr \in Name THEN _resolveNameInBackground(x, x.addr) ELSE x OBVIOUS
 <2>4. /\ b \in UpdRows /\ SameShown(x, b) /\ b.addr = x.addr
       /\ b.sig = x.sig /\ b.sigAt = x.sigAt /\ b.sigOnce = x.sigOnce /\ b.heard = x.heard /\ b.news = x.news /\ VerdictHolds(b, v)
  <3>1. CASE x.addr \in Name
   <4>1. b = _resolveNameInBackground(x, x.addr) BY <2>3, <3>1
   <4> QED BY <2>1, <3>1, <4>1, BackgroundDoes
  <3>2. CASE x.addr \notin Name BY <2>3, <3>2, NoChange
  <3> QED BY <3>1, <3>2
 <2>5. ShowsItsRecord(b, e) BY <2>4, SameIsSound
 <2>6. y = FetchFrom(b, x.publicKey) BY <1>1, <2>1, <2>3 DEF Attempt
 <2>7. b.addr \in Key \cup Name /\ b.sigOnce <= b.sigAt /\ b.sigAt <= b.sig /\ (b.cid # Nothing => b.sig = b.sigAt) /\ b.publicKey = x.publicKey
     BY <2>4 DEF SameShown
 <2>8. /\ y \in UpdRows /\ RowIsSound(y, e, v) /\ y.heard = b.heard
       /\ (b.sig # b.sigAt => \A p \in b.heard : p[2] \in b.news) => ArrivalsAreKept(y)
     BY <2>2, <2>4, <2>5, <2>6, <2>7, FetchKeeps
 <2> QED BY <2>4, <2>8
<1>2. CASE _pinnedIpnsName(x) = Nothing /\ x.addr \in Key
 <2>1. y = FetchFrom(x, x.addr) BY <1>2 DEF Attempt
 <2>2. x.addr \notin Name BY <1>2, UpdConstants
 <2>3. x.addr \in Key BY <1>2
 <2> QED BY <2>1, <2>2, <2>3, FetchKeeps
<1>3. CASE _pinnedIpnsName(x) = Nothing /\ x.addr \notin Key
 <2>1. y = [x EXCEPT !.pc = "naming"] BY <1>3 DEF Attempt
 <2>2. "naming" \in UpdPcs BY DEF UpdPcs, InCycle
 <2>3. [x EXCEPT !.pc = "naming"] \in UpdRows BY <2>2, RowEdits
 <2>4. y \in UpdRows BY <2>1, <2>3
 <2>5. /\ SameShown(x, y) /\ SameVerdict(x, y) /\ y.pc = "naming" /\ y.sig = x.sig /\ y.sigAt = x.sigAt /\ y.sigOnce = x.sigOnce /\ y.heard = x.heard /\ y.news = x.news
     BY <2>1 DEF UpdRows, SameShown, SameVerdict
 <2>6. x.addr \in Name /\ x.publicKey = Nothing BY <1>3 DEF _pinnedIpnsName
 <2>7. ShowsItsRecord(y, e) /\ VerdictHolds(y, v) BY <2>5, SameIsSound
 <2>8. CycleIsSound(y, e) BY <2>5, <2>6 DEF CycleIsSound, FetchPcs, SameShown, SameVerdict
 <2>9. ASSUME x.sig # x.sigAt => \A p \in x.heard : p[2] \in x.news
       PROVE  ArrivalsAreKept(y)
     BY <2>5, <2>9 DEF ArrivalsAreKept, FetchPcs
 <2> QED BY <2>4, <2>5, <2>7, <2>8, <2>9 DEF RowIsSound
<1> QED BY <1>1, <1>2, <1>3

----------------------------------------
(* A step of one instance. *)
LEMMA OneRow ==
    ASSUME CommInv, NEW u \in Updater, NEW y, Set(u, y), RowInv(y, net, cache, MustKeep), net' = net, job' = job,
           WorldInv(net, cache'), cache'.ipns = cache.ipns,
           loader' \in [Loader -> LoaderRows], \A l \in Loader : LoaderInv(l, loader'[l], net)
    PROVE  CommInv'
<1>1. upd \in [Updater -> UpdRows] /\ upd' = [upd EXCEPT ![u] = y] /\ y \in UpdRows BY DEF CommInv, Set, RowInv
<1>2. upd' \in [Updater -> UpdRows] /\ \A w \in Updater : upd'[w] = IF w = u THEN y ELSE upd[w] BY <1>1
<1>3. MustKeep' = MustKeep BY DEF MustKeep, ChainsAreShort
<1>4. \A w \in Updater : RowInv(upd'[w], net', cache', MustKeep')
 <2>1. TAKE w \in Updater
 <2>2. RowInv(upd'[w], net, cache, MustKeep) BY <1>2 DEF CommInv
 <2> QED BY <2>2, <1>3 DEF RowInv, HeardIsCached
<1>5. job' \in UpdWorkload /\ WorldInv(net', cache') /\ \A l \in Loader : LoaderInv(l, loader'[l], net') BY DEF CommInv
<1> QED BY <1>2, <1>4, <1>5 DEF CommInv

(* A step of one instance that shows its loaders nothing. *)
LEMMA OneRowOnly ==
    ASSUME CommInv, NEW u \in Updater, NEW y, Set(u, y), RowInv(y, net, cache, MustKeep), UNCHANGED <<net, cache, loader, job>>
    PROVE  CommInv'
<1>1. /\ net' = net /\ job' = job /\ WorldInv(net, cache') /\ cache'.ipns = cache.ipns
      /\ loader' \in [Loader -> LoaderRows] /\ \A l \in Loader : LoaderInv(l, loader'[l], net)
    BY DEF CommInv
<1> QED BY <1>1, OneRow

(* What the invariant says of one instance. *)
LEMMA RowsAre ==
    ASSUME CommInv, NEW u \in Updater, NEW x, x = upd[u]
    PROVE  /\ x \in UpdRows /\ RowIsSound(x, net.endorsed, net.vouched) /\ HeardIsCached(x, cache.ipns) /\ (MustKeep => ArrivalsAreKept(x))
           /\ x.pc # "off" => x.addr \in Key \cup Name
           /\ x.sigOnce <= x.sigAt /\ x.sigAt <= x.sig /\ ShowsItsRecord(x, net.endorsed) /\ VerdictHolds(x, net.vouched) /\ CycleIsSound(x, net.endorsed)
BY DEF CommInv, RowInv, RowIsSound, CycleIsSound

(* A cycle ends, with what was pushed in mind. *)
LEMMA EndOfCycle ==
    ASSUME NEW x \in UpdRows, NEW y, y = _sleepUntilIpnsArrival(x), NEW n, NEW c, NEW must, must => job.push,
           RowInv(x, n, c, must), x.pc \in InCycle, x.sig # x.sigAt \/ x.pc \in {"prove", "verify", "apply"}
    PROVE  RowInv(y, n, c, must)
<1>1. /\ RowIsSound(x, n.endorsed, n.vouched) /\ HeardIsCached(x, c.ipns) /\ (must => ArrivalsAreKept(x))
      /\ x.pc # "off" /\ x.addr \in Key \cup Name /\ x.sigOnce <= x.sigAt /\ x.sigAt <= x.sig /\ ShowsItsRecord(x, n.endorsed) /\ VerdictHolds(x, n.vouched)
    BY DEF RowInv, RowIsSound, CycleIsSound, InCycle
<1>2. ASSUME must
      PROVE  \A p \in x.heard : p[1] \in WatchedNames(x) => Kept(x, p)
 <2>1. CASE x.sig # x.sigAt BY <1>1, <1>2, <2>1 DEF ArrivalsAreKept, Kept
 <2>2. CASE x.sig = x.sigAt /\ x.pc \in {"prove", "verify", "apply"}
  <3>1. x.hops = x.walk /\ Len(x.walk) \in {1, 2} BY <1>1, <2>2 DEF RowIsSound, CycleIsSound, FetchPcs
  <3>2. WatchedNames(x) = Range2(x.hops)
   <4>1. x.hops # << >> BY <3>1, NoHops
   <4> QED BY <4>1 DEF WatchedNames
  <3>3. /\ x.got \in x.loaded /\ \A p \in x.heard : p[1] \in Range2(x.hops) => Kept(x, p) \/ p[2] = x.got
      BY <1>1, <1>2, <2>2 DEF ArrivalsAreKept, FetchPcs
  <3>4. x.got \notin Key
   <4>1. x.got \in Cid BY <1>1, <2>2 DEF RowIsSound, CycleIsSound, FetchPcs
   <4> QED BY <4>1, UpdConstants
  <3>5. ~Unconsumed(x, x.got) BY <3>3, <3>4 DEF Unconsumed
  <3> QED BY <3>2, <3>3, <3>5 DEF Kept
 <2> QED BY <2>1, <2>2
<1>3. /\ y \in UpdRows /\ y.heard = x.heard /\ RowIsSound(y, n.endorsed, n.vouched)
      /\ job.push /\ (\A p \in x.heard : p[1] \in WatchedNames(x) => Kept(x, p)) => ArrivalsAreKept(y)
    BY <1>1, SleepKeeps
<1>4. HeardIsCached(y, c.ipns) BY <1>1, <1>3 DEF HeardIsCached
<1> QED BY <1>2, <1>3, <1>4 DEF RowInv

(* Arrivals are kept where records are pushed. *)
LEMMA MustKeepPushes == MustKeep => job.push
BY DEF MustKeep

(* updateOnce begins a cycle, or attempts again after a failed attempt. *)
LEMMA BeginsKeep ==
    ASSUME CommInv, NEW u \in Updater, updateOnce(u)
    PROVE  CommInv'
<1>1. PICK x : x = upd[u] OBVIOUS
<1>2. /\ x \in UpdRows /\ RowIsSound(x, net.endorsed, net.vouched) /\ HeardIsCached(x, cache.ipns) /\ (MustKeep => ArrivalsAreKept(x))
      /\ x.pc # "off" => x.addr \in Key \cup Name
      /\ x.sigOnce <= x.sigAt /\ x.sigAt <= x.sig /\ ShowsItsRecord(x, net.endorsed) /\ VerdictHolds(x, net.vouched) /\ CycleIsSound(x, net.endorsed)
    BY <1>1, RowsAre
<1>3. PICK s : s = IF x.pc = "begin" THEN [x EXCEPT !.keyAt = x.publicKey, !.sigOnce = x.sig, !.sigAt = x.sig]
                   ELSE [x EXCEPT !.sigAt = x.sig]
    OBVIOUS
<1>4. PICK y : y = Attempt(s) OBVIOUS
<1>5. x.pc \in {"begin", "retry"} /\ Set(u, y) /\ UNCHANGED <<net, cache, loader, job>> BY <1>1, <1>3, <1>4 DEF updateOnce
<1>6. /\ s \in UpdRows /\ SameShown(x, s) /\ SameVerdict(x, s) /\ s.heard = x.heard /\ s.news = x.news
      /\ s.sigOnce <= s.sigAt /\ s.sigAt <= s.sig /\ s.sig = s.sigAt
 <2>0. x.publicKey \in UpdKeys /\ x.sig \in Nat /\ x.sigAt \in Nat /\ x.sigOnce \in Nat BY <1>2, RowTypes
 <2>1. CASE x.pc = "begin"
  <3>1. s = [[[x EXCEPT !.keyAt = x.publicKey] EXCEPT !.sigOnce = x.sig] EXCEPT !.sigAt = x.sig] BY <1>3, <2>1
  <3>2. [x EXCEPT !.keyAt = x.publicKey] \in UpdRows BY <1>2, <2>0, RowEdits
  <3>3. [[x EXCEPT !.keyAt = x.publicKey] EXCEPT !.sigOnce = x.sig] \in UpdRows BY <2>0, <3>2, RowEdits
  <3>4. [[[x EXCEPT !.keyAt = x.publicKey] EXCEPT !.sigOnce = x.sig] EXCEPT !.sigAt = x.sig] \in UpdRows BY <2>0, <3>3, RowEdits
  <3>5. s \in UpdRows BY <3>1, <3>4
  <3>6. SameShown(x, s) /\ SameVerdict(x, s) /\ s.heard = x.heard /\ s.news = x.news /\ s.sig = x.sig /\ s.sigAt = x.sig /\ s.sigOnce = x.sig
      BY <1>2, <3>1 DEF UpdRows, SameShown, SameVerdict
  <3> QED BY <2>0, <3>5, <3>6
 <2>2. CASE x.pc = "retry"
  <3>1. s = [x EXCEPT !.sigAt = x.sig] BY <1>3, <2>2
  <3>2. [x EXCEPT !.sigAt = x.sig] \in UpdRows BY <1>2, <2>0, RowEdits
  <3>3. s \in UpdRows BY <3>1, <3>2
  <3>4. SameShown(x, s) /\ SameVerdict(x, s) /\ s.heard = x.heard /\ s.news = x.news /\ s.sig = x.sig /\ s.sigAt = x.sig /\ s.sigOnce = x.sigOnce
      BY <1>2, <3>1 DEF UpdRows, SameShown, SameVerdict
  <3> QED BY <1>2, <2>0, <3>3, <3>4
 <2> QED BY <1>5, <2>1, <2>2
<1>8. ShowsItsRecord(s, net.endorsed) /\ VerdictHolds(s, net.vouched) BY <1>2, <1>6, SameIsSound
<1>9. s.addr \in Key \cup Name BY <1>2, <1>5, <1>6 DEF SameVerdict
<1>10. /\ y \in UpdRows /\ RowIsSound(y, net.endorsed, net.vouched) /\ y.heard = s.heard
       /\ (s.sig # s.sigAt => \A p \in s.heard : p[2] \in s.news) => ArrivalsAreKept(y)
    BY <1>4, <1>6, <1>8, <1>9, AttemptKeeps
<1>11. MustKeep => (s.sig # s.sigAt => \A p \in s.heard : p[2] \in s.news) BY <1>2, <1>6 DEF ArrivalsAreKept, InCycle
<1>12. HeardIsCached(y, cache.ipns) BY <1>2, <1>6, <1>10 DEF HeardIsCached
<1>13. RowInv(y, net, cache, MustKeep) BY <1>10, <1>11, <1>12 DEF RowInv
<1> QED BY <1>5, <1>13, OneRowOnly

(* An attempt that failed leaves all as it is but the step of the loop. *)
LEMMA RetryKeeps ==
    ASSUME NEW x \in UpdRows, NEW y, y = [x EXCEPT !.pc = "retry"], NEW n, NEW c, NEW must, RowInv(x, n, c, must), x.pc \in InCycle
    PROVE  RowInv(y, n, c, must)
<1>1. /\ RowIsSound(x, n.endorsed, n.vouched) /\ HeardIsCached(x, c.ipns) /\ (must => ArrivalsAreKept(x)) BY DEF RowInv
<1>2. "retry" \in UpdPcs BY DEF UpdPcs, InCycle
<1>3. [x EXCEPT !.pc = "retry"] \in UpdRows BY <1>2, RowEdits
<1>4. y \in UpdRows BY <1>3
<1>5. SameShown(x, y) /\ SameVerdict(x, y) /\ y.pc = "retry" /\ y.sig = x.sig /\ y.sigAt = x.sigAt /\ y.sigOnce = x.sigOnce /\ y.heard = x.heard /\ y.news = x.news
    BY DEF UpdRows, SameShown, SameVerdict
<1>6. ShowsItsRecord(y, n.endorsed) /\ VerdictHolds(y, n.vouched) BY <1>1, <1>5, SameIsSound DEF RowIsSound
<1>7. CycleIsSound(y, n.endorsed) BY <1>1, <1>5 DEF RowIsSound, CycleIsSound, InCycle, FetchPcs, SameShown, SameVerdict
<1>8. must => ArrivalsAreKept(y) BY <1>1, <1>5 DEF ArrivalsAreKept, InCycle, FetchPcs
<1>9. HeardIsCached(y, c.ipns) BY <1>1, <1>5 DEF HeardIsCached
<1> QED BY <1>4, <1>6, <1>7, <1>8, <1>9 DEF RowInv, RowIsSound

(* The answer to a name is one it gave. *)
LEMMA AnswersAreVouched ==
    ASSUME WorldInv(net, cache), NEW n \in Name, NEW k, NameAnswer(n, k), k \in UpdKeys
    PROVE  <<n, k>> \in net.vouched /\ WorldInv(net, cache') /\ cache'.ipns = cache.ipns
<1>1. net \in UpdWorlds /\ cache \in UpdCaches /\ WorldIsTold(net, cache) BY DEF WorldInv
<1>2. /\ <<n, net.txt[n]>> \in net.vouched /\ (cache.named[n] # Nothing => <<n, cache.named[n]>> \in net.vouched) BY <1>1 DEF WorldIsTold
<1>3. CASE k = cache.named[n] /\ k # Nothing /\ UNCHANGED cache BY <1>1, <1>2, <1>3 DEF WorldInv
<1>4. CASE k = net.txt[n] /\ k = Nothing /\ cache' = cache BY <1>1, <1>2, <1>4 DEF WorldInv
<1>5. CASE k = net.txt[n] /\ k # Nothing /\ cache' = [cache EXCEPT !.named[n] = k]
 <2>1. cache' \in UpdCaches /\ cache'.ipns = cache.ipns BY <1>1, <1>5 DEF UpdCaches
 <2>2. \A m \in Name : cache'.named[m] = IF m = n THEN k ELSE cache.named[m] BY <1>1, <1>5 DEF UpdCaches
 <2>3. WorldIsTold(net, cache') BY <1>1, <1>2, <1>5, <2>1, <2>2 DEF WorldIsTold
 <2> QED BY <1>1, <1>2, <1>5, <2>1, <2>3 DEF WorldInv
<1> QED BY <1>3, <1>4, <1>5 DEF NameAnswer

(* The answer to the name of the address: a key to fetch from, or another *)
(* try. *)
LEMMA NamingKeeps ==
    ASSUME CommInv, NEW u \in Updater, resolveAddress(u)
    PROVE  CommInv'
<1>1. PICK x : x = upd[u] OBVIOUS
<1>2. /\ x \in UpdRows /\ RowIsSound(x, net.endorsed, net.vouched) /\ HeardIsCached(x, cache.ipns) /\ (MustKeep => ArrivalsAreKept(x))
      /\ x.pc # "off" => x.addr \in Key \cup Name
      /\ x.sigOnce <= x.sigAt /\ x.sigAt <= x.sig /\ ShowsItsRecord(x, net.endorsed) /\ VerdictHolds(x, net.vouched) /\ CycleIsSound(x, net.endorsed)
    BY <1>1, RowsAre
<1>3. x.pc = "naming" /\ UNCHANGED <<net, loader, job>> BY <1>1 DEF resolveAddress
<1>4. x.publicKey = Nothing /\ x.addr \in Name /\ x.pc \in InCycle BY <1>2, <1>3 DEF CycleIsSound, InCycle
<1>5. x.cid = Nothing
 <2>1. SUFFICES ASSUME x.cid # Nothing PROVE FALSE OBVIOUS
 <2>2. x.cid \in Cid BY <1>2, <2>1, RowTypes DEF UpdCids
 <2>3. x.publicKey = rec[x.cid].signer \/ (x.anchor # Nothing /\ x.publicKey = x.anchor) BY <1>2, <2>1 DEF ShowsItsRecord
 <2> QED BY <1>4, <2>2, <2>3, UpdConstants
<1>6. \A y : RowInv(y, net, cache, MustKeep) /\ Set(u, y) /\ UNCHANGED cache => CommInv' BY <1>3, OneRowOnly
<1>7. RowInv(x, net, cache, MustKeep) BY <1>2 DEF RowInv
<1>8. CASE x.sig # x.sigAt /\ Set(u, _sleepUntilIpnsArrival(x)) /\ UNCHANGED cache
 <2>1. PICK y : y = _sleepUntilIpnsArrival(x) OBVIOUS
 <2>2. RowInv(y, net, cache, MustKeep) BY <1>2, <1>4, <1>7, <1>8, <2>1, EndOfCycle, MustKeepPushes
 <2> QED BY <1>6, <1>8, <2>1, <2>2
<1>9. ASSUME NEW y, y = [x EXCEPT !.pc = "retry"]
      PROVE  RowInv(y, net, cache, MustKeep)
    BY <1>2, <1>4, <1>7, <1>9, RetryKeeps
<1>10. CASE Set(u, [x EXCEPT !.pc = "retry"]) /\ UNCHANGED cache BY <1>6, <1>9, <1>10
<1>11. ASSUME x.sig = x.sigAt, NEW k \in UpdKeys, NameAnswer(x.addr, k), Set(u, IF k = Nothing THEN [x EXCEPT !.pc = "retry"] ELSE FetchFrom(x, k))
       PROVE  CommInv'
 <2>1. PICK y : y = IF k = Nothing THEN [x EXCEPT !.pc = "retry"] ELSE FetchFrom(x, k) OBVIOUS
 <2>2. WorldInv(net, cache') /\ cache'.ipns = cache.ipns BY <1>4, <1>11, AnswersAreVouched DEF CommInv
 <2>3. RowInv(y, net, cache, MustKeep)
  <3>1. CASE k = Nothing BY <1>9, <2>1, <3>1
  <3>2. CASE k # Nothing
   <4>1. k \in Key /\ y = FetchFrom(x, k) /\ x.addr \in Key \cup Name BY <1>2, <1>3, <1>11, <2>1, <3>2 DEF UpdKeys
   <4>2. /\ y \in UpdRows /\ RowIsSound(y, net.endorsed, net.vouched) /\ y.heard = x.heard
         /\ (x.sig # x.sigAt => \A p \in x.heard : p[2] \in x.news) => ArrivalsAreKept(y)
       BY <1>2, <1>5, <1>11, <4>1, FetchKeeps
   <4> QED BY <1>2, <1>11, <4>2 DEF RowInv, HeardIsCached
  <3> QED BY <3>1, <3>2
 <2>4. loader' \in [Loader -> LoaderRows] /\ \A l \in Loader : LoaderInv(l, loader'[l], net) BY <1>3 DEF CommInv
 <2>5. Set(u, y) BY <1>11, <2>1
 <2> QED BY <1>3, <2>2, <2>3, <2>4, <2>5, OneRow
<1> QED BY <1>1, <1>8, <1>10, <1>11 DEF resolveAddress, UpdKeys

(* The record of the chain comes, or the attempt fails. *)
LEMMA FetchRecordKeeps ==
    ASSUME CommInv, NEW u \in Updater, fetchRecord(u)
    PROVE  CommInv'
<1>1. PICK x : x = upd[u] OBVIOUS
<1>2. /\ x \in UpdRows /\ RowIsSound(x, net.endorsed, net.vouched) /\ HeardIsCached(x, cache.ipns) /\ (MustKeep => ArrivalsAreKept(x))
      /\ x.pc # "off" => x.addr \in Key \cup Name
      /\ x.sigOnce <= x.sigAt /\ x.sigAt <= x.sig /\ ShowsItsRecord(x, net.endorsed) /\ VerdictHolds(x, net.vouched) /\ CycleIsSound(x, net.endorsed)
    BY <1>1, RowsAre
<1>3. x.pc = "fetch" /\ UNCHANGED <<net, cache, loader, job>> BY <1>1 DEF fetchRecord
<1>4. RowInv(x, net, cache, MustKeep) /\ x.pc \in InCycle BY <1>2, <1>3 DEF RowInv, InCycle
<1>5. \A y : RowInv(y, net, cache, MustKeep) /\ Set(u, y) => CommInv' BY <1>3, OneRowOnly
<1>6. ASSUME x.sig # x.sigAt, NEW y, y = _sleepUntilIpnsArrival(x)
      PROVE  RowInv(y, net, cache, MustKeep)
    BY <1>2, <1>4, <1>6, EndOfCycle, MustKeepPushes
<1>7. ASSUME NEW y, y = [x EXCEPT !.pc = "retry"]
      PROVE  RowInv(y, net, cache, MustKeep)
    BY <1>2, <1>4, <1>7, RetryKeeps
<1>8. ASSUME x.sig = x.sigAt, NEW y, y = [x EXCEPT !.loaded = @ \cup {x.got}, !.pc = "prove"]
      PROVE  RowInv(y, net, cache, MustKeep)
 <2>1. x.got \in Cid /\ Len(x.walk) \in {1, 2} /\ (Len(x.walk) = 2 => <<x.walk[1], x.walk[2]>> \in net.endorsed) /\ x.hops = x.walk
     BY <1>2, <1>3, <1>8 DEF CycleIsSound, FetchPcs
 <2>2. PICK new : new = x.loaded \cup {x.got} OBVIOUS
 <2>3. new \in UpdLoads BY <1>2, <2>1, <2>2, RowTypes DEF UpdLoads
 <2>4. y = [[x EXCEPT !.loaded = new] EXCEPT !.pc = "prove"] BY <1>2, <1>8, <2>2 DEF UpdRows
 <2>5. "prove" \in UpdPcs BY DEF UpdPcs, InCycle
 <2>6. [x EXCEPT !.loaded = new] \in UpdRows BY <1>2, <2>3, RowEdits
 <2>7. [[x EXCEPT !.loaded = new] EXCEPT !.pc = "prove"] \in UpdRows BY <2>5, <2>6, RowEdits
 <2>8. y \in UpdRows BY <2>4, <2>7
 <2>9. /\ SameShown(x, y) /\ SameVerdict(x, y) /\ y.pc = "prove" /\ y.sig = x.sig /\ y.sigAt = x.sigAt /\ y.sigOnce = x.sigOnce /\ y.heard = x.heard
       /\ y.news = x.news /\ y.loaded = new /\ y.walk = x.walk /\ y.got = x.got
     BY <1>2, <2>4 DEF UpdRows, SameShown, SameVerdict
 <2>10. ShowsItsRecord(y, net.endorsed) /\ VerdictHolds(y, net.vouched) BY <1>2, <2>9, SameIsSound
 <2>11. CycleIsSound(y, net.endorsed) BY <1>2, <1>3, <1>8, <2>1, <2>9 DEF CycleIsSound, InCycle, FetchPcs, SameShown, SameVerdict
 <2>12. ASSUME MustKeep
        PROVE  ArrivalsAreKept(y)
  <3>1. /\ x.cid \in x.loaded \cup {Nothing}
        /\ \A p \in x.heard : p[1] \in Range2(x.hops) => Kept(x, p) \/ p[2] = x.got
      BY <1>2, <1>3, <1>8, <2>12 DEF ArrivalsAreKept, FetchPcs
  <3>2. \A p : Kept(x, p) => Kept(y, p) BY <2>2, <2>9 DEF Kept, Unconsumed, SameShown
  <3>3. \A p \in y.heard : p[1] \in Range2(y.hops) => Kept(y, p) \/ p[2] = y.got BY <2>9, <3>1, <3>2 DEF SameShown
  <3>4. y.cid \in y.loaded \cup {Nothing} /\ y.got \in y.loaded BY <2>2, <2>9, <3>1 DEF SameShown
  <3> QED BY <1>8, <2>9, <3>3, <3>4 DEF ArrivalsAreKept
 <2>13. HeardIsCached(y, cache.ipns) BY <1>2, <2>9 DEF HeardIsCached
 <2> QED BY <2>8, <2>10, <2>11, <2>12, <2>13 DEF RowInv, RowIsSound
<1>9. \/ x.sig # x.sigAt /\ Set(u, _sleepUntilIpnsArrival(x))
      \/ Set(u, [x EXCEPT !.pc = "retry"])
      \/ x.sig = x.sigAt /\ Set(u, [x EXCEPT !.loaded = @ \cup {x.got}, !.pc = "prove"])
    BY <1>1 DEF fetchRecord
<1> QED BY <1>5, <1>6, <1>7, <1>8, <1>9

(* A record goes on only when it is signed by the end of the chain that *)
(* was walked and its anchor is the key at the start. *)
LEMMA VerifyKeeps ==
    ASSUME CommInv, NEW u \in Updater, verifyRecord(u)
    PROVE  CommInv'
<1>1. PICK x : x = upd[u] OBVIOUS
<1>2. /\ x \in UpdRows /\ RowIsSound(x, net.endorsed, net.vouched) /\ HeardIsCached(x, cache.ipns) /\ (MustKeep => ArrivalsAreKept(x))
      /\ x.pc # "off" => x.addr \in Key \cup Name
      /\ x.sigOnce <= x.sigAt /\ x.sigAt <= x.sig /\ ShowsItsRecord(x, net.endorsed) /\ VerdictHolds(x, net.vouched) /\ CycleIsSound(x, net.endorsed)
    BY <1>1, RowsAre
<1>3. x.pc = "verify" /\ UNCHANGED <<net, cache, loader, job>> BY <1>1 DEF verifyRecord
<1>4. RowInv(x, net, cache, MustKeep) /\ x.pc \in InCycle BY <1>2, <1>3 DEF RowInv, InCycle
<1>5. \A y : RowInv(y, net, cache, MustKeep) /\ Set(u, y) => CommInv' BY <1>3, OneRowOnly
<1>6. ASSUME NEW y, y = _sleepUntilIpnsArrival(x)
      PROVE  RowInv(y, net, cache, MustKeep)
    BY <1>2, <1>3, <1>4, <1>6, EndOfCycle, MustKeepPushes
<1>7. ASSUME ValidRecord(x.got, x.walk), NEW y, y = [x EXCEPT !.pc = "apply"]
      PROVE  RowInv(y, net, cache, MustKeep)
 <2>1. "apply" \in UpdPcs BY DEF UpdPcs, InCycle
 <2>2. [x EXCEPT !.pc = "apply"] \in UpdRows BY <1>2, <2>1, RowEdits
 <2>3. y \in UpdRows BY <1>7, <2>2
 <2>4. /\ SameShown(x, y) /\ SameVerdict(x, y) /\ y.pc = "apply" /\ y.sig = x.sig /\ y.sigAt = x.sigAt /\ y.sigOnce = x.sigOnce /\ y.heard = x.heard
       /\ y.news = x.news /\ y.loaded = x.loaded /\ y.walk = x.walk /\ y.got = x.got
     BY <1>2, <1>7 DEF UpdRows, SameShown, SameVerdict
 <2>5. ShowsItsRecord(y, net.endorsed) /\ VerdictHolds(y, net.vouched) BY <1>2, <2>4, SameIsSound
 <2>6. CycleIsSound(y, net.endorsed) BY <1>2, <1>3, <1>7, <2>4 DEF CycleIsSound, InCycle, FetchPcs, SameShown, SameVerdict
 <2>7. ASSUME MustKeep
       PROVE  ArrivalsAreKept(y)
  <3>1. \A p : Kept(x, p) <=> Kept(y, p) BY <2>4 DEF Kept, Unconsumed, SameShown
  <3>2. ArrivalsAreKept(x) BY <1>2, <2>7
  <3> QED BY <1>3, <2>4, <3>1, <3>2 DEF ArrivalsAreKept, InCycle, FetchPcs, SameShown
 <2>8. HeardIsCached(y, cache.ipns) BY <1>2, <2>4 DEF HeardIsCached
 <2> QED BY <2>3, <2>5, <2>6, <2>7, <2>8 DEF RowInv, RowIsSound
<1>8. Set(u, IF ValidRecord(x.got, x.walk) THEN [x EXCEPT !.pc = "apply"] ELSE _sleepUntilIpnsArrival(x)) BY <1>1 DEF verifyRecord
<1> QED BY <1>5, <1>6, <1>7, <1>8

(* A sleep ends by itself. *)
LEMMA SafetyNetKeeps ==
    ASSUME CommInv, NEW u \in Updater, safetyNet(u)
    PROVE  CommInv'
<1>1. PICK x : x = upd[u] OBVIOUS
<1>2. /\ x \in UpdRows /\ RowIsSound(x, net.endorsed, net.vouched) /\ HeardIsCached(x, cache.ipns) /\ (MustKeep => ArrivalsAreKept(x))
      /\ x.pc # "off" => x.addr \in Key \cup Name
      /\ x.sigOnce <= x.sigAt /\ x.sigAt <= x.sig /\ ShowsItsRecord(x, net.endorsed) /\ VerdictHolds(x, net.vouched) /\ CycleIsSound(x, net.endorsed)
    BY <1>1, RowsAre
<1>3. PICK r \in BOOLEAN : Set(u, [x EXCEPT !.pc = "begin", !.revalidate = r]) BY <1>1 DEF safetyNet
<1>4. PICK y : y = [[x EXCEPT !.pc = "begin"] EXCEPT !.revalidate = r] OBVIOUS
<1>5. Set(u, y) /\ UNCHANGED <<net, cache, loader, job>> /\ x.pc = "parked" BY <1>1, <1>3, <1>4 DEF safetyNet
<1>6. [x EXCEPT !.pc = "begin"] \in UpdRows BY <1>2, RowEdits DEF UpdPcs
<1>7. [[x EXCEPT !.pc = "begin"] EXCEPT !.revalidate = r] \in UpdRows BY <1>6, RowEdits
<1>8. y \in UpdRows BY <1>4, <1>7
<1>9. /\ SameShown(x, y) /\ SameVerdict(x, y) /\ y.pc = "begin" /\ y.sig = x.sig /\ y.sigAt = x.sigAt /\ y.sigOnce = x.sigOnce /\ y.heard = x.heard
    BY <1>2, <1>4 DEF UpdRows, SameShown, SameVerdict
<1>10. ShowsItsRecord(y, net.endorsed) /\ VerdictHolds(y, net.vouched) BY <1>2, <1>9, SameIsSound
<1>11. CycleIsSound(y, net.endorsed) /\ ArrivalsAreKept(y)
    BY <1>2, <1>5, <1>9 DEF CycleIsSound, ArrivalsAreKept, InCycle, FetchPcs, SameVerdict
<1>12. RowInv(y, net, cache, MustKeep) BY <1>2, <1>8, <1>9, <1>10, <1>11 DEF RowInv, RowIsSound, HeardIsCached
<1> QED BY <1>5, <1>12, OneRowOnly

(* A step that touches neither the loop nor what it shows. *)
SameLoop(x, y) ==
    /\ y.pc = x.pc /\ y.sig = x.sig /\ y.sigAt = x.sigAt /\ y.sigOnce = x.sigOnce /\ y.heard = x.heard /\ y.news = x.news /\ y.loaded = x.loaded
    /\ y.walk = x.walk /\ y.got = x.got /\ y.topics = x.topics

(* A step beside the loop that changes only what was found of the name. *)
LEMMA BesideTheLoop ==
    ASSUME NEW x, NEW y \in UpdRows, SameShown(x, y), SameLoop(x, y), y.addr = x.addr, NEW n, NEW c, NEW must,
           RowInv(x, n, c, must), VerdictHolds(y, n.vouched)
    PROVE  RowInv(y, n, c, must)
<1>1. /\ RowIsSound(x, n.endorsed, n.vouched) /\ HeardIsCached(x, c.ipns) /\ (must => ArrivalsAreKept(x)) BY DEF RowInv
<1>2. ShowsItsRecord(y, n.endorsed) BY <1>1, SameIsSound DEF RowIsSound
<1>3. CycleIsSound(y, n.endorsed) BY <1>1 DEF RowIsSound, CycleIsSound, SameShown, SameLoop
<1>4. ASSUME must
      PROVE  ArrivalsAreKept(y)
 <2>1. \A p : Kept(x, p) <=> Kept(y, p) BY DEF Kept, Unconsumed, SameShown, SameLoop
 <2>2. ArrivalsAreKept(x) BY <1>1, <1>4
 <2>3. \A w : Unconsumed(x, w) <=> Unconsumed(y, w) BY DEF Unconsumed, SameShown, SameLoop
 <2> QED BY <2>1, <2>2, <2>3 DEF ArrivalsAreKept, SameShown, SameLoop
<1>5. HeardIsCached(y, c.ipns) BY <1>1 DEF HeardIsCached, SameLoop
<1> QED BY <1>2, <1>3, <1>4, <1>5 DEF RowInv, RowIsSound

(* The pause between lookups of a name ends. *)
LEMMA FloorKeeps ==
    ASSUME CommInv, NEW u \in Updater, floorExpires(u)
    PROVE  CommInv'
<1>1. PICK x : x = upd[u] OBVIOUS
<1>2. PICK y : y = [x EXCEPT !.floors = {}] OBVIOUS
<1>3. x \in UpdRows /\ VerdictHolds(x, net.vouched) /\ RowInv(x, net, cache, MustKeep) BY <1>1, RowsAre DEF RowInv
<1>4. {} \in UpdFloors BY DEF UpdFloors
<1>5. [x EXCEPT !.floors = {}] \in UpdRows BY <1>3, <1>4, RowEdits
<1>6. y \in UpdRows BY <1>2, <1>5
<1>7. SameShown(x, y) /\ SameLoop(x, y) /\ SameVerdict(x, y) BY <1>2, <1>3 DEF UpdRows, SameShown, SameLoop, SameVerdict
<1>8. VerdictHolds(y, net.vouched) /\ y.addr = x.addr BY <1>3, <1>7, SameIsSound DEF SameVerdict
<1>9. RowInv(y, net, cache, MustKeep) BY <1>3, <1>6, <1>7, <1>8, BesideTheLoop
<1>10. Set(u, y) /\ UNCHANGED <<net, cache, loader, job>> BY <1>1, <1>2 DEF floorExpires
<1> QED BY <1>9, <1>10, OneRowOnly

----------------------------------------
(* What the loaders are shown. *)
LEMMA LoaderEdits ==
    ASSUME NEW y \in LoaderRows
    PROVE  /\ \A a \in UpdKeys : [y EXCEPT !.publicKey = a] \in LoaderRows
           /\ \A a \in UpdNames : [y EXCEPT !.name = a] \in LoaderRows
           /\ \A a \in UpdCids : [y EXCEPT !.cid = a] \in LoaderRows
           /\ \A a \in UpdVerdicts : [y EXCEPT !.verdict = a] \in LoaderRows
           /\ \A a \in SUBSET Key : [y EXCEPT !.told = a] \in LoaderRows
           /\ \A a \in SUBSET Nat : [y EXCEPT !.refused = a] \in LoaderRows
           /\ \A a \in Updater \cup {Nothing} : [y EXCEPT !.on = a] \in LoaderRows
           /\ \A a \in UpdKeys : [y EXCEPT !.owed = a] \in LoaderRows
           /\ \A a \in LoaderStates : [y EXCEPT !.state = a] \in LoaderRows
           /\ \A a \in BOOLEAN : [y EXCEPT !.astray = a] \in LoaderRows
<1>1. \A a \in UpdKeys : [y EXCEPT !.publicKey = a] \in LoaderRows BY DEF LoaderRows
<1>2. \A a \in UpdNames : [y EXCEPT !.name = a] \in LoaderRows BY DEF LoaderRows
<1>3. \A a \in UpdCids : [y EXCEPT !.cid = a] \in LoaderRows BY DEF LoaderRows
<1>4. \A a \in UpdVerdicts : [y EXCEPT !.verdict = a] \in LoaderRows BY DEF LoaderRows
<1>5. \A a \in SUBSET Key : [y EXCEPT !.told = a] \in LoaderRows BY DEF LoaderRows
<1>6. \A a \in SUBSET Nat : [y EXCEPT !.refused = a] \in LoaderRows BY DEF LoaderRows
<1>7. \A a \in Updater \cup {Nothing} : [y EXCEPT !.on = a] \in LoaderRows BY DEF LoaderRows
<1>8. \A a \in UpdKeys : [y EXCEPT !.owed = a] \in LoaderRows BY DEF LoaderRows
<1>9. \A a \in LoaderStates : [y EXCEPT !.state = a] \in LoaderRows BY DEF LoaderRows
<1>10. \A a \in BOOLEAN : [y EXCEPT !.astray = a] \in LoaderRows BY DEF LoaderRows
<1> QED BY <1>1, <1>2, <1>3, <1>4, <1>5, <1>6, <1>7, <1>8, <1>9, <1>10

(* The key a record is shown under. *)
LEMMA RecordKeyIs ==
    ASSUME NEW c \in Cid, NEW hops \in UpdChains
    PROVE  /\ RecordKey(c, hops) \in Key
           /\ rec[c].anchor # Nothing => RecordKey(c, hops) = rec[c].anchor
           /\ rec[c].anchor = Nothing /\ hops # << >> => RecordKey(c, hops) = hops[1]
           /\ rec[c].anchor = Nothing /\ hops = << >> => RecordKey(c, hops) = rec[c].signer
<1>1. rec[c].signer \in Key /\ rec[c].anchor \in UpdKeys /\ Nothing \notin Key BY UpdConstants
<1>2. hops # << >> => hops[1] \in Key BY DEF UpdChains
<1>3. First2(hops) = IF hops = << >> THEN Nothing ELSE hops[1] BY DEF First2
<1> QED BY <1>1, <1>2, <1>3 DEF RecordKey, Either, UpdKeys

(* A record is shown under its anchor, or the start of the chain that led *)
(* to it. *)
LEMMA ShowDoes ==
    ASSUME NEW y \in LoaderRows, NEW c \in Cid, NEW hops \in UpdChains, NEW z, z = ShowRecord(y, c, hops)
    PROVE  z \in LoaderRows /\ z.cid = c /\ z.publicKey = RecordKey(c, hops)
<1>1. PICK k : k = RecordKey(c, hops) OBVIOUS
<1>2. PICK b : b = IF y.name # Nothing /\ y.name # rec[c].name THEN "unknown" ELSE y.verdict OBVIOUS
<1>3. PICK m : m = rec[c].name OBVIOUS
<1>4. k \in UpdKeys /\ m \in UpdNames /\ c \in UpdCids BY <1>1, <1>3, RecordKeyIs, UpdConstants DEF UpdKeys, UpdCids
<1>5. b \in UpdVerdicts BY <1>2 DEF LoaderRows, UpdVerdicts
<1>6. z = [[[[y EXCEPT !.cid = c] EXCEPT !.name = m] EXCEPT !.publicKey = k] EXCEPT !.verdict = b]
    BY <1>1, <1>2, <1>3 DEF ShowRecord, LoaderRows
<1>7. [y EXCEPT !.cid = c] \in LoaderRows BY <1>4, LoaderEdits
<1>8. [[y EXCEPT !.cid = c] EXCEPT !.name = m] \in LoaderRows BY <1>4, <1>7, LoaderEdits
<1>9. [[[y EXCEPT !.cid = c] EXCEPT !.name = m] EXCEPT !.publicKey = k] \in LoaderRows BY <1>4, <1>8, LoaderEdits
<1>10. [[[[y EXCEPT !.cid = c] EXCEPT !.name = m] EXCEPT !.publicKey = k] EXCEPT !.verdict = b] \in LoaderRows BY <1>5, <1>9, LoaderEdits
<1>11. z \in LoaderRows BY <1>6, <1>10
<1>12. z.cid = c /\ z.publicKey = k BY <1>6 DEF LoaderRows
<1> QED BY <1>1, <1>11, <1>12

(* The verdict that a mirror adopts is a verdict. *)
LEMMA AdoptedIsVerdict ==
    ASSUME NEW y \in LoaderRows, NEW x \in UpdRows, NEW b \in LoaderRows
    PROVE  _adoptMirroredNameResolved(y, x, b) \in UpdVerdicts
<1>1. x.verdict \in UpdVerdicts /\ y.verdict \in UpdVerdicts /\ b.verdict \in UpdVerdicts /\ "unknown" \in UpdVerdicts
    BY RowTypes DEF LoaderRows, UpdVerdicts
<1> QED BY <1>1 DEF _adoptMirroredNameResolved

(* A record shown with hops that lead to it, or none, is shown under a key *)
(* of it. *)
LEMMA ShownIsVouched ==
    ASSUME NEW x \in UpdRows, NEW n, ShowsItsRecord(x, n.endorsed), x.cid # Nothing, NEW hops, hops \in {x.hops, << >>}
    PROVE  x.cid \in Cid /\ hops \in UpdChains /\ (hops = << >> \/ ~x.astray => Vouches(RecordKey(x.cid, hops), x.cid, n.endorsed))
<1>1. x.cid \in Cid /\ x.hops \in UpdChains /\ << >> \in UpdChains BY RowTypes DEF UpdCids, UpdChains
<1>2. /\ x.anchor = rec[x.cid].anchor /\ (x.anchor = Nothing /\ x.hops # << >> /\ ~x.astray => Vouches(x.hops[1], x.cid, n.endorsed))
      /\ x.anchor # Nothing => Vouches(x.anchor, x.cid, n.endorsed)
    BY DEF ShowsItsRecord
<1>3. Vouches(rec[x.cid].signer, x.cid, n.endorsed) BY DEF Vouches
<1>4. hops \in UpdChains BY <1>1
<1>5. /\ rec[x.cid].anchor # Nothing => RecordKey(x.cid, hops) = rec[x.cid].anchor
      /\ rec[x.cid].anchor = Nothing /\ hops # << >> => RecordKey(x.cid, hops) = hops[1]
      /\ rec[x.cid].anchor = Nothing /\ hops = << >> => RecordKey(x.cid, hops) = rec[x.cid].signer
    BY <1>1, <1>4, RecordKeyIs
<1>6. CASE rec[x.cid].anchor # Nothing BY <1>1, <1>2, <1>4, <1>5, <1>6
<1>7. CASE rec[x.cid].anchor = Nothing /\ hops = << >> BY <1>1, <1>3, <1>4, <1>5, <1>7
<1>8. CASE rec[x.cid].anchor = Nothing /\ hops # << >> BY <1>1, <1>2, <1>4, <1>5, <1>8
<1> QED BY <1>6, <1>7, <1>8

(* A loader mirrors a record of its instance: it shows it under a key of *)
(* it, and never one that claims another name than it asked for. *)
LEMMA MirrorKeeps ==
    ASSUME NEW l \in Loader, NEW y, NEW n, LoaderInv(l, y, n), NEW x \in UpdRows, ShowsItsRecord(x, n.endorsed),
           NEW z, z = Mirror(l, y, x)
    PROVE  LoaderInv(l, z, n)
<1>1. y \in LoaderRows /\ (y.cid # Nothing => (~y.astray => Vouches(y.publicKey, y.cid, n.endorsed)) /\ ~NameMismatch(l, y.cid)) BY DEF LoaderInv
<1>2. CASE x.cid # Nothing /\ NameMismatch(l, x.cid)
 <2>1. PICK s : s = {rec[x.cid].at} OBVIOUS
 <2>2. s \in SUBSET Nat BY <1>2, <2>1, RowTypes, UpdConstants DEF UpdCids
 <2>3. z = [y EXCEPT !.refused = s] BY <1>2, <2>1 DEF Mirror
 <2>4. [y EXCEPT !.refused = s] \in LoaderRows BY <1>1, <2>2, LoaderEdits
 <2>5. z \in LoaderRows /\ z.cid = y.cid /\ z.publicKey = y.publicKey /\ z.astray = y.astray BY <1>1, <2>3, <2>4 DEF LoaderRows
 <2> QED BY <1>1, <2>5 DEF LoaderInv
<1>3. ASSUME NEW w \in LoaderRows, NEW t, t = _adoptMirroredNameResolved(w, x, y), z = [w EXCEPT !.verdict = t]
      PROVE  z \in LoaderRows /\ z.cid = w.cid /\ z.publicKey = w.publicKey /\ z.astray = w.astray
 <2>1. t \in UpdVerdicts BY <1>1, <1>3, AdoptedIsVerdict
 <2>2. [w EXCEPT !.verdict = t] \in LoaderRows BY <2>1, LoaderEdits
 <2> QED BY <1>3, <2>2 DEF LoaderRows
<1>4. CASE x.cid = Nothing
 <2>1. PICK w : w = [[y EXCEPT !.cid = Nothing] EXCEPT !.publicKey = x.publicKey] OBVIOUS
 <2>2. PICK t : t = _adoptMirroredNameResolved(w, x, y) OBVIOUS
 <2>3. z = [w EXCEPT !.verdict = t] BY <1>4, <2>1, <2>2 DEF Mirror
 <2>4. [y EXCEPT !.cid = Nothing] \in LoaderRows BY <1>1, LoaderEdits DEF UpdCids
 <2>5. x.publicKey \in UpdKeys BY RowTypes
 <2>6. [[y EXCEPT !.cid = Nothing] EXCEPT !.publicKey = x.publicKey] \in LoaderRows BY <2>4, <2>5, LoaderEdits
 <2>7. w \in LoaderRows BY <2>1, <2>6
 <2>8. w.cid = Nothing BY <1>1, <2>1 DEF LoaderRows
 <2> QED BY <1>3, <2>2, <2>3, <2>7, <2>8 DEF LoaderInv
<1>5. CASE x.cid # Nothing /\ ~NameMismatch(l, x.cid)
 <2>1. PICK v : v = ShowRecord(y, x.cid, x.hops) OBVIOUS
 <2>2. PICK w : w = [v EXCEPT !.astray = x.astray] OBVIOUS
 <2>3. PICK t : t = _adoptMirroredNameResolved(w, x, y) OBVIOUS
 <2>4. z = [w EXCEPT !.verdict = t] BY <1>5, <2>1, <2>2, <2>3 DEF Mirror
 <2>5. x.cid \in Cid /\ x.hops \in UpdChains /\ (~x.astray => Vouches(RecordKey(x.cid, x.hops), x.cid, n.endorsed)) BY <1>5, ShownIsVouched
 <2>6. v \in LoaderRows /\ v.cid = x.cid /\ v.publicKey = RecordKey(x.cid, x.hops) BY <1>1, <2>1, <2>5, ShowDoes
 <2>7. [v EXCEPT !.astray = x.astray] \in LoaderRows BY <2>6, RowTypes, LoaderEdits
 <2>8. w \in LoaderRows /\ w.cid = x.cid /\ w.publicKey = RecordKey(x.cid, x.hops) /\ w.astray = x.astray BY <2>2, <2>6, <2>7 DEF LoaderRows
 <2>9. z \in LoaderRows /\ z.cid = x.cid /\ z.publicKey = RecordKey(x.cid, x.hops) /\ z.astray = x.astray BY <1>3, <2>3, <2>4, <2>8
 <2> QED BY <1>5, <2>5, <2>9 DEF LoaderInv
<1> QED BY <1>2, <1>4, <1>5

(* An event reaches every loader of the instance. *)
LEMMA EmitKeeps ==
    ASSUME CommInv, NEW u \in Updater, NEW x \in UpdRows, ShowsItsRecord(x, net.endorsed), NEW s, s = Emit(u, x)
    PROVE  s \in [Loader -> LoaderRows] /\ \A l \in Loader : LoaderInv(l, s[l], net)
<1>1. \A l \in Loader : LoaderInv(l, loader[l], net) BY DEF CommInv
<1>2. ASSUME NEW l \in Loader, NEW z, z = Mirror(l, loader[l], x)
      PROVE  LoaderInv(l, z, net)
    BY <1>1, <1>2, MirrorKeeps
<1>3. ASSUME NEW l \in Loader
      PROVE  LoaderInv(l, s[l], net)
 <2>1. s[l] = IF loader[l].on = u THEN Mirror(l, loader[l], x) ELSE loader[l] BY DEF Emit
 <2> QED BY <1>1, <1>2, <2>1
<1>4. \A l \in Loader : s[l] \in LoaderRows BY <1>3 DEF LoaderInv
<1>5. s = [l \in Loader |-> s[l]] BY DEF Emit
<1> QED BY <1>3, <1>4, <1>5

----------------------------------------
(* A record that was fetched, verified and is newer is taken. *)
LEMMA InitDoes ==
    ASSUME NEW x \in UpdRows, NEW c \in Cid, NEW y, y = initCommunityIpfsPropsNoMerge(x, c)
    PROVE  /\ y \in UpdRows /\ SameLoop(x, y) /\ y.addr = x.addr /\ y.cid = c /\ y.hops = x.hops /\ y.bg = x.bg
           /\ y.anchor = rec[c].anchor /\ y.name = rec[c].name /\ y.publicKey = RecordKey(c, x.hops)
           /\ y.verdict = IF x.name # Nothing /\ x.name # rec[c].name THEN "unknown" ELSE x.verdict
<1>1. PICK k : k = RecordKey(c, x.hops) OBVIOUS
<1>2. PICK a : a = rec[c].anchor OBVIOUS
<1>3. PICK m : m = rec[c].name OBVIOUS
<1>4. PICK i : i = Either(rec[c].anchor, First2(x.hops)) OBVIOUS
<1>5. PICK b : b = IF x.name # Nothing /\ x.name # rec[c].name THEN "unknown" ELSE x.verdict OBVIOUS
<1>6. x.hops \in UpdChains /\ x.verdict \in UpdVerdicts BY RowTypes
<1>7. k \in UpdKeys /\ a \in UpdKeys /\ m \in UpdNames /\ c \in UpdCids
    BY <1>1, <1>2, <1>3, <1>6, RecordKeyIs, UpdConstants DEF UpdKeys, UpdCids
<1>8. i \in UpdKeys
 <2>1. x.hops # << >> => x.hops[1] \in Key BY <1>6 DEF UpdChains
 <2> QED BY <1>2, <1>4, <1>7, <2>1 DEF Either, First2, UpdKeys
<1>9. b \in UpdVerdicts BY <1>5, <1>6 DEF UpdVerdicts
<1>10. PICK z : z = [[[[[[[x EXCEPT !.cid = c] EXCEPT !.anchor = a] EXCEPT !.name = m] EXCEPT !.publicKey = k] EXCEPT !.ipnsName = i] EXCEPT !.verdict = b] EXCEPT !.astray = FALSE]
    OBVIOUS
<1>11. z = [x EXCEPT !.cid = c, !.anchor = rec[c].anchor, !.name = rec[c].name, !.publicKey = RecordKey(c, x.hops),
                     !.ipnsName = Either(rec[c].anchor, First2(x.hops)),
                     !.verdict = IF x.name # Nothing /\ x.name # rec[c].name THEN "unknown" ELSE @, !.astray = FALSE]
    BY <1>1, <1>2, <1>3, <1>4, <1>5, <1>10 DEF UpdRows
<1>12. z \in UpdRows
 <2>1. [x EXCEPT !.cid = c] \in UpdRows BY <1>7, RowEdits
 <2>2. [[x EXCEPT !.cid = c] EXCEPT !.anchor = a] \in UpdRows BY <1>7, <2>1, RowEdits
 <2>3. [[[x EXCEPT !.cid = c] EXCEPT !.anchor = a] EXCEPT !.name = m] \in UpdRows BY <1>7, <2>2, RowEdits
 <2>4. [[[[x EXCEPT !.cid = c] EXCEPT !.anchor = a] EXCEPT !.name = m] EXCEPT !.publicKey = k] \in UpdRows BY <1>7, <2>3, RowEdits
 <2>5. [[[[[x EXCEPT !.cid = c] EXCEPT !.anchor = a] EXCEPT !.name = m] EXCEPT !.publicKey = k] EXCEPT !.ipnsName = i] \in UpdRows
     BY <1>8, <2>4, RowEdits
 <2>6. [[[[[[x EXCEPT !.cid = c] EXCEPT !.anchor = a] EXCEPT !.name = m] EXCEPT !.publicKey = k] EXCEPT !.ipnsName = i] EXCEPT !.verdict = b] \in UpdRows
     BY <1>9, <2>5, RowEdits
 <2>7. [[[[[[[x EXCEPT !.cid = c] EXCEPT !.anchor = a] EXCEPT !.name = m] EXCEPT !.publicKey = k] EXCEPT !.ipnsName = i] EXCEPT !.verdict = b] EXCEPT !.astray = FALSE] \in UpdRows
     BY <2>6, RowEdits
 <2> QED BY <1>10, <2>7
<1>13. /\ SameLoop(x, z) /\ z.addr = x.addr /\ z.cid = c /\ z.hops = x.hops /\ z.bg = x.bg
       /\ z.anchor = a /\ z.name = m /\ z.publicKey = k /\ z.verdict = b
    BY <1>10 DEF UpdRows, SameLoop
<1>14. PICK al : y = [z EXCEPT !.aliases = al] /\ al \in UpdAliases
 <2>1. PICK now : now = {ProvenName(z), z.publicKey} \ {Nothing} OBVIOUS
 <2>2. PICK al : al = (z.aliases \ ((IF x.name # Nothing /\ x.name # z.name THEN {x.name} ELSE {}) \ now)) \cup now OBVIOUS
 <2>3. ProvenName(z) \in UpdAddrs /\ z.publicKey \in UpdAddrs BY <1>12, RowTypes DEF ProvenName, UpdAddrs, UpdNames, UpdKeys
 <2>4. now \subseteq UpdAddrs BY <2>1, <2>3
 <2>5. al \in UpdAliases BY <2>2, <2>4, <1>12, RowTypes DEF UpdAliases
 <2>6. y = [z EXCEPT !.aliases = al]
  <3>1. y = Aliased(z, x.name) BY <1>11 DEF initCommunityIpfsPropsNoMerge
  <3> QED BY <1>12, <2>1, <2>2, <3>1 DEF Aliased, UpdRows
 <2> QED BY <2>5, <2>6
<1>15. [z EXCEPT !.aliases = al] \in UpdRows BY <1>12, <1>14, RowEdits
<1>16. /\ SameLoop(z, y) /\ y.addr = z.addr /\ y.cid = z.cid /\ y.hops = z.hops /\ y.bg = z.bg
       /\ y.anchor = z.anchor /\ y.name = z.name /\ y.publicKey = z.publicKey /\ y.verdict = z.verdict
    BY <1>12, <1>14 DEF UpdRows, SameLoop
<1> QED BY <1>1, <1>2, <1>3, <1>5, <1>13, <1>14, <1>15, <1>16 DEF SameLoop

(* A record that is taken becomes what the instance shows, under its *)
(* anchor or its signer; what was found of another name is forgotten. *)
LEMMA AppliedDoes ==
    ASSUME NEW x \in UpdRows, x.got \in Cid, NEW y, y = Applied(x), NEW v, VerdictHolds(x, v)
    PROVE  /\ y \in UpdRows /\ y.addr = x.addr /\ y.cid = x.got /\ y.hops = x.hops
           /\ y.pc = x.pc /\ y.sig = x.sig /\ y.sigAt = x.sigAt /\ y.sigOnce = x.sigOnce /\ y.heard = x.heard /\ y.news = x.news /\ y.loaded = x.loaded
           /\ y.anchor = rec[x.got].anchor /\ y.name = rec[x.got].name /\ y.publicKey = RecordKey(x.got, x.hops)
           /\ VerdictHolds(y, v)
<1>1. PICK w : w = initCommunityIpfsPropsNoMerge(x, x.got) OBVIOUS
<1>2. /\ w \in UpdRows /\ SameLoop(x, w) /\ w.addr = x.addr /\ w.cid = x.got /\ w.hops = x.hops /\ w.bg = x.bg
      /\ w.anchor = rec[x.got].anchor /\ w.name = rec[x.got].name /\ w.publicKey = RecordKey(x.got, x.hops)
      /\ w.verdict = IF x.name # Nothing /\ x.name # rec[x.got].name THEN "unknown" ELSE x.verdict
    BY <1>1, InitDoes
<1>3. w.publicKey # Nothing BY <1>2, RecordKeyIs, RowTypes, UpdConstants
<1>4. PICK z : z = IF x.publicKey # Nothing /\ w.publicKey # x.publicKey THEN [w EXCEPT !.verdict = "unknown", !.floors = {}] ELSE w OBVIOUS
<1>5. /\ z \in UpdRows /\ SameShown(w, z) /\ SameLoop(w, z) /\ z.addr = w.addr /\ z.bg = w.bg
      /\ z.verdict = (IF x.publicKey # Nothing /\ w.publicKey # x.publicKey THEN "unknown" ELSE w.verdict)
 <2>1. CASE x.publicKey # Nothing /\ w.publicKey # x.publicKey
  <3>1. z = [[w EXCEPT !.verdict = "unknown"] EXCEPT !.floors = {}] BY <1>4, <2>1
  <3>2. "unknown" \in UpdVerdicts /\ {} \in UpdFloors BY DEF UpdVerdicts, UpdFloors
  <3>3. [w EXCEPT !.verdict = "unknown"] \in UpdRows BY <1>2, <3>2, RowEdits
  <3>4. [[w EXCEPT !.verdict = "unknown"] EXCEPT !.floors = {}] \in UpdRows BY <3>2, <3>3, RowEdits
  <3>5. z \in UpdRows BY <3>1, <3>4
  <3>6. SameShown(w, z) /\ SameLoop(w, z) /\ z.addr = w.addr /\ z.bg = w.bg /\ z.verdict = "unknown"
      BY <1>2, <3>1 DEF UpdRows, SameShown, SameLoop
  <3> QED BY <2>1, <3>5, <3>6
 <2>2. CASE ~(x.publicKey # Nothing /\ w.publicKey # x.publicKey)
  <3>1. z = w BY <1>4, <2>2
  <3> QED BY <1>2, <2>2, <3>1 DEF SameShown, SameLoop
 <2> QED BY <2>1, <2>2
<1>6. VerdictHolds(z, v)
 <2>1. /\ z.addr = x.addr /\ z.name = rec[x.got].name /\ z.publicKey # Nothing /\ z.bg = x.bg
       /\ z.verdict = "yes" => /\ x.verdict = "yes" /\ (x.name = Nothing \/ x.name = z.name)
                               /\ x.publicKey = Nothing \/ z.publicKey = x.publicKey
       /\ z.verdict \in {"unknown", x.verdict}
     BY <1>2, <1>3, <1>5 DEF SameShown
 <2>2. z.addr \notin Name /\ z.name = Nothing => z.verdict = "unknown"
  <3>1. ASSUME z.addr \notin Name, z.name = Nothing
        PROVE  z.verdict = "unknown"
   <4>1. CASE x.name = Nothing BY <2>1, <3>1, <4>1 DEF VerdictHolds
   <4>2. CASE x.name # Nothing
    <5>1. x.name # rec[x.got].name BY <2>1, <3>1, <4>2
    <5>2. w.verdict = "unknown" BY <1>2, <4>2, <5>1
    <5> QED BY <1>5, <5>2
   <4> QED BY <4>1, <4>2
  <3> QED BY <3>1
 <2>3. ASSUME z.verdict = "yes"
       PROVE  <<ClassifiedName(z), z.publicKey>> \in v
  <3>1. x.verdict = "yes" /\ x.publicKey # Nothing /\ <<ClassifiedName(x), x.publicKey>> \in v BY <2>1, <2>3 DEF VerdictHolds
  <3>2. z.publicKey = x.publicKey BY <2>1, <2>3, <3>1
  <3>3. ClassifiedName(z) = ClassifiedName(x)
   <4>1. CASE x.addr \in Name BY <2>1, <4>1 DEF ClassifiedName
   <4>2. CASE x.addr \notin Name
    <5>1. x.name # Nothing BY <3>1, <4>2 DEF VerdictHolds
    <5> QED BY <2>1, <2>3, <4>2, <5>1 DEF ClassifiedName
   <4> QED BY <4>1, <4>2
  <3> QED BY <3>1, <3>2, <3>3
 <2> QED BY <2>1, <2>2, <2>3 DEF VerdictHolds
<1>7. PICK name : name = IF z.addr \in Name THEN z.addr ELSE z.name OBVIOUS
<1>8. y = IF name # Nothing /\ z.verdict # "yes" THEN _resolveNameInBackground(z, name) ELSE z BY <1>1, <1>4, <1>7 DEF Applied
<1>9. /\ y \in UpdRows /\ SameShown(z, y) /\ y.addr = z.addr
      /\ y.pc = z.pc /\ y.sig = z.sig /\ y.sigAt = z.sigAt /\ y.sigOnce = z.sigOnce /\ y.loaded = z.loaded /\ y.heard = z.heard /\ y.news = z.news
      /\ VerdictHolds(y, v)
 <2>1. CASE name # Nothing /\ z.verdict # "yes"
  <3>1. name \in Name BY <1>5, <1>7, <2>1, RowTypes DEF UpdNames
  <3>2. z.publicKey # Nothing BY <1>3, <1>5 DEF SameShown
  <3>3. y = _resolveNameInBackground(z, name) BY <1>8, <2>1
  <3> QED BY <1>5, <1>6, <3>1, <3>2, <3>3, BackgroundDoes
 <2>2. CASE ~(name # Nothing /\ z.verdict # "yes")
  <3>1. y = z BY <1>8, <2>2
  <3> QED BY <1>5, <1>6, <3>1 DEF SameShown
 <2> QED BY <2>1, <2>2
<1> QED BY <1>2, <1>5, <1>9 DEF SameShown, SameLoop

(* applyUpdate takes the record, unless the cycle was aborted or it is no *)
(* newer. *)
LEMMA ApplyKeeps ==
    ASSUME CommInv, NEW u \in Updater, applyUpdate(u)
    PROVE  CommInv'
<1>1. PICK x : x = upd[u] OBVIOUS
<1>2. /\ x \in UpdRows /\ RowIsSound(x, net.endorsed, net.vouched) /\ HeardIsCached(x, cache.ipns) /\ (MustKeep => ArrivalsAreKept(x))
      /\ x.pc # "off" => x.addr \in Key \cup Name
      /\ x.sigOnce <= x.sigAt /\ x.sigAt <= x.sig /\ ShowsItsRecord(x, net.endorsed) /\ VerdictHolds(x, net.vouched) /\ CycleIsSound(x, net.endorsed)
    BY <1>1, RowsAre
<1>3. x.pc = "apply" /\ UNCHANGED <<net, cache, job>> BY <1>1 DEF applyUpdate
<1>4. RowInv(x, net, cache, MustKeep) /\ x.pc \in InCycle BY <1>2, <1>3 DEF RowInv, InCycle
<1>5. CASE StaleResult(x) \/ RecAt(x.got) <= RecAt(x.cid)
 <2>1. PICK y : y = _sleepUntilIpnsArrival(x) OBVIOUS
 <2>2. RowInv(y, net, cache, MustKeep) BY <1>2, <1>3, <1>4, <2>1, EndOfCycle, MustKeepPushes
 <2>3. Set(u, y) /\ UNCHANGED loader BY <1>1, <1>5, <2>1 DEF applyUpdate
 <2> QED BY <1>3, <2>2, <2>3, OneRowOnly
<1>6. CASE ~(StaleResult(x) \/ RecAt(x.got) <= RecAt(x.cid))
 <2>1. PICK y : y = Applied(x) OBVIOUS
 <2>2. PICK z : z = _sleepUntilIpnsArrival(y) OBVIOUS
 <2>3. Set(u, z) /\ loader' = Emit(u, y) BY <1>1, <1>6, <2>1, <2>2 DEF applyUpdate
 <2>4. /\ x.sig = x.sigAt /\ x.got \in Cid /\ x.hops = x.walk /\ Len(x.walk) \in {1, 2} /\ ValidRecord(x.got, x.walk)
       /\ Len(x.walk) = 2 => <<x.walk[1], x.walk[2]>> \in net.endorsed
       /\ Len(x.walk) = 1 => rec[x.got].anchor \in {Nothing, x.walk[1]}
     BY <1>2, <1>3, <1>6, RowTypes DEF StaleResult, CycleIsSound, FetchPcs
 <2>5. x.hops # << >> /\ x.hops \in UpdChains BY <1>2, <2>4, NoHops, RowTypes
 <2>6. /\ y \in UpdRows /\ y.addr = x.addr /\ y.cid = x.got /\ y.hops = x.hops
       /\ y.pc = x.pc /\ y.sig = x.sig /\ y.sigAt = x.sigAt /\ y.sigOnce = x.sigOnce /\ y.heard = x.heard /\ y.news = x.news /\ y.loaded = x.loaded
       /\ y.anchor = rec[x.got].anchor /\ y.name = rec[x.got].name /\ y.publicKey = RecordKey(x.got, x.hops)
       /\ VerdictHolds(y, net.vouched)
     BY <1>2, <2>1, <2>4, AppliedDoes
 <2>7. rec[x.got].anchor = Nothing => Len(x.walk) = 1 /\ rec[x.got].signer = x.walk[1]
  <3>1. x.walk[1] \in Key BY <2>4, <2>5 DEF UpdChains
  <3> QED BY <2>4, <3>1, UpdConstants DEF ValidRecord, Last2
 <2>8. rec[x.got].anchor # Nothing => rec[x.got].anchor = x.walk[1] /\ Vouches(x.walk[1], x.got, net.endorsed)
  <3>1. CASE Len(x.walk) = 1 BY <2>4, <3>1 DEF ValidRecord, Last2, Vouches
  <3>2. CASE Len(x.walk) = 2 BY <2>4, <3>2 DEF ValidRecord, Last2, Vouches
  <3> QED BY <2>4, <3>1, <3>2
 <2>9. ShowsItsRecord(y, net.endorsed)
  <3>1. CASE rec[x.got].anchor = Nothing
   <4>1. y.publicKey = x.walk[1] BY <2>4, <2>5, <2>6, <3>1, RecordKeyIs
   <4> QED BY <2>4, <2>6, <2>7, <3>1, <4>1 DEF ShowsItsRecord, Vouches
  <3>2. CASE rec[x.got].anchor # Nothing
   <4>1. y.publicKey = rec[x.got].anchor BY <2>4, <2>5, <2>6, <3>2, RecordKeyIs
   <4> QED BY <2>6, <2>8, <3>2, <4>1 DEF ShowsItsRecord, Vouches
  <3> QED BY <3>1, <3>2
 <2>10. /\ y.pc # "off" /\ y.sigOnce <= y.sigAt /\ y.sigAt <= y.sig /\ y.addr \in Key \cup Name BY <1>2, <1>3, <2>6
 <2>11. /\ z \in UpdRows /\ z.heard = y.heard /\ RowIsSound(z, net.endorsed, net.vouched)
        /\ job.push /\ (\A p \in y.heard : p[1] \in WatchedNames(y) => Kept(y, p)) => ArrivalsAreKept(z)
     BY <2>2, <2>6, <2>9, <2>10, SleepKeeps
 <2>12. ASSUME MustKeep
        PROVE  \A p \in y.heard : p[1] \in WatchedNames(y) => Kept(y, p)
  <3>1. /\ x.cid \in x.loaded \cup {Nothing} /\ x.got \in x.loaded
        /\ \A p \in x.heard : p[1] \in Range2(x.hops) => Kept(x, p) \/ p[2] = x.got
      BY <1>2, <1>3, <2>4, <2>12 DEF ArrivalsAreKept, FetchPcs
  <3>2. WatchedNames(y) = Range2(x.hops) BY <2>5, <2>6 DEF WatchedNames
  <3>3. x.heard \subseteq Key \X UpdPushes /\ Nothing \notin UpdPushes BY <1>2, RowTypes, UpdConstants DEF UpdHeards, UpdPushes
  <3>4. \A p \in x.heard : Kept(x, p) => Kept(y, p)
   <4>1. TAKE p \in x.heard
   <4>2. p[2] # Nothing BY <3>3
   <4> QED BY <2>6, <3>1, <4>2 DEF Kept, Unconsumed
  <3>5. ~Unconsumed(y, x.got) BY <2>4, <2>6, UpdConstants DEF Unconsumed
  <3> QED BY <2>6, <3>1, <3>2, <3>4, <3>5 DEF Kept
 <2>13. RowInv(z, net, cache, MustKeep) BY <1>2, <2>6, <2>11, <2>12, MustKeepPushes DEF RowInv, HeardIsCached
 <2>14. loader' \in [Loader -> LoaderRows] /\ \A l \in Loader : LoaderInv(l, loader'[l], net) BY <2>3, <2>6, <2>9, EmitKeeps
 <2>15. WorldInv(net, cache') /\ cache'.ipns = cache.ipns BY <1>3 DEF CommInv
 <2> QED BY <1>3, <2>3, <2>13, <2>14, <2>15, OneRow
<1> QED BY <1>5, <1>6

----------------------------------------
(* A walk: what it fetches is cached, and told to all who watch it. *)
LEMMA CachedIs ==
    ASSUME CommInv, NEW x, NEW view \in Views(x), NEW hops, Range2(hops) \subseteq Key, NEW d, d = Cached(view, hops)
    PROVE  /\ WorldInv(net, d) /\ PushReaches(NewlyFetched(view, hops), view, cache.ipns, d.ipns)
           /\ \A k \in Range2(hops) : job.push /\ view[k] # Nothing => d.ipns[k] = view[k]
           /\ \A k \in Key : view[k] \in Key => <<k, view[k]>> \in net.endorsed
<1>1. WorldInv(net, cache) /\ net \in UpdWorlds /\ cache \in UpdCaches /\ WorldIsTold(net, cache) BY DEF CommInv, WorldInv
<1>2. view \in [Key -> UpdValues] /\ \A k \in Key : view[k] = net.ipns[k] \/ view[k] = cache.ipns[k] BY <1>1, ViewsAre
<1>3. PICK f : f = NewlyFetched(view, hops) OBVIOUS
<1>4. f = {k \in Range2(hops) : job.push /\ view[k] \notin {Nothing, cache.ipns[k]}} BY <1>3 DEF NewlyFetched
<1>5. PICK i : i = [k \in Key |-> IF k \in f THEN view[k] ELSE cache.ipns[k]] OBVIOUS
<1>6. d = [cache EXCEPT !.ipns = i] BY <1>1, <1>3, <1>5 DEF Cached, UpdCaches
<1>7. i \in [Key -> UpdValues] /\ \A k \in Key : i[k] = IF k \in f THEN view[k] ELSE cache.ipns[k] BY <1>1, <1>2, <1>5 DEF UpdCaches
<1>8. d \in UpdCaches /\ d.ipns = i /\ d.named = cache.named BY <1>1, <1>6, <1>7 DEF UpdCaches
<1>9. \A k \in Key : view[k] \in Key => <<k, view[k]>> \in net.endorsed BY <1>1, <1>2 DEF WorldIsTold
<1>10. WorldIsTold(net, d) BY <1>1, <1>7, <1>8, <1>9 DEF WorldIsTold
<1>11. PushReaches(f, view, cache.ipns, i) BY <1>2, <1>4, <1>7 DEF PushReaches
<1>12. \A k \in Range2(hops) : job.push /\ view[k] # Nothing => i[k] = view[k] BY <1>4, <1>7
<1> QED BY <1>1, <1>3, <1>8, <1>9, <1>10, <1>11, <1>12 DEF WorldInv

(* A push reaches every instance that updates. *)
LEMMA ToldKeep ==
    ASSUME CommInv, NEW names, NEW at, NEW d, PushReaches(names, at, cache.ipns, d.ipns), NEW w \in Updater, NEW x, x = upd[w],
           NEW y, y = _onIpnsRecordArrival(x, names, at)
    PROVE  /\ RowInv(y, net, d, MustKeep) /\ SameShown(x, y) /\ y \in UpdRows
           /\ x.pc # "parked" => y.pc = x.pc
           /\ y.sig = x.sig /\ y.sigAt = x.sigAt /\ y.sigOnce = x.sigOnce /\ y.walk = x.walk /\ y.got = x.got /\ y.loaded = x.loaded /\ y.addr = x.addr
<1>1. /\ x \in UpdRows /\ RowIsSound(x, net.endorsed, net.vouched) /\ HeardIsCached(x, cache.ipns) /\ (MustKeep => ArrivalsAreKept(x))
    BY RowsAre
<1>2. /\ y \in UpdRows /\ RowIsSound(y, net.endorsed, net.vouched) /\ SameShown(x, y) /\ HeardIsCached(y, d.ipns)
      /\ ArrivalsAreKept(x) => ArrivalsAreKept(y)
      /\ x.pc # "parked" => y.pc = x.pc
      /\ y.sig = x.sig /\ y.sigAt = x.sigAt /\ y.sigOnce = x.sigOnce /\ y.walk = x.walk /\ y.got = x.got /\ y.loaded = x.loaded /\ y.addr = x.addr
    BY <1>1, ArrivalKeeps
<1> QED BY <1>1, <1>2 DEF RowInv

(* A step of a walk: one row moves on, the cache grows, everyone is told. *)
LEMMA WalkStep ==
    ASSUME CommInv, NEW u \in Updater, NEW view, NEW hops, NEW d, cache' = d, WorldInv(net, d),
           PushReaches(NewlyFetched(view, hops), view, cache.ipns, d.ipns),
           NEW y, RowInv(y, net, d, MustKeep), upd' = [Told(view, hops) EXCEPT ![u] = y], UNCHANGED <<net, loader, job>>
    PROVE  CommInv'
<1>1. \A w \in Updater : upd'[w] = IF w = u THEN y ELSE _onIpnsRecordArrival(upd[w], NewlyFetched(view, hops), view) BY DEF Told
<1>2. ASSUME NEW w \in Updater, NEW z, z = _onIpnsRecordArrival(upd[w], NewlyFetched(view, hops), view)
      PROVE  RowInv(z, net, d, MustKeep)
    BY <1>2, ToldKeep
<1>3. \A w \in Updater : RowInv(upd'[w], net, d, MustKeep) BY <1>1, <1>2
<1>4. upd' \in [Updater -> UpdRows]
 <2>1. \A w \in Updater : upd'[w] \in UpdRows BY <1>3 DEF RowInv
 <2>2. upd' = [w \in Updater |-> upd'[w]] BY DEF Told
 <2> QED BY <2>1, <2>2
<1>5. MustKeep' = MustKeep BY DEF MustKeep, ChainsAreShort
<1>6. /\ job' \in UpdWorkload /\ WorldInv(net', cache') /\ loader' \in [Loader -> LoaderRows]
      /\ \A l \in Loader : LoaderInv(l, loader'[l], net')
    BY DEF CommInv
<1> QED BY <1>3, <1>4, <1>5, <1>6 DEF CommInv

AllEndorsed(view, e) == \A j \in Key : view[j] \in Key => <<j, view[j]>> \in e

(* A chain is at most one delegation long, where chains are short. *)
LEMMA NothingDeeper ==
    ASSUME ChainsAreShort, NEW k \in Key, NEW view \in [Key -> UpdValues],
           AllEndorsed(view, net.endorsed)
    PROVE  view[k] \in Key => view[view[k]] \notin Key
<1>1. SUFFICES ASSUME view[k] \in Key, view[view[k]] \in Key PROVE FALSE OBVIOUS
<1>2. PICK j \in Key : j = view[k] BY <1>1
<1>3. <<k, j>> \in net.endorsed /\ <<j, view[j]>> \in net.endorsed BY <1>1, <1>2 DEF AllEndorsed
<1>4. <<k, j>>[2] # <<j, view[j]>>[1] BY <1>3 DEF ChainsAreShort
<1> QED BY <1>4

(* The wish to look a name up again is dropped. *)
LEMMA ForgetKeeps ==
    ASSUME NEW x \in UpdRows, NEW y, y = [x EXCEPT !.revalidate = FALSE], NEW n, NEW c, NEW must, RowInv(x, n, c, must)
    PROVE  RowInv(y, n, c, must) /\ SameShown(x, y) /\ SameLoop(x, y) /\ SameVerdict(x, y) /\ y \in UpdRows
<1>1. [x EXCEPT !.revalidate = FALSE] \in UpdRows BY RowEdits
<1>2. y \in UpdRows BY <1>1
<1>3. SameShown(x, y) /\ SameLoop(x, y) /\ SameVerdict(x, y) /\ y.addr = x.addr BY DEF UpdRows, SameShown, SameLoop, SameVerdict
<1>4. VerdictHolds(y, n.vouched) BY <1>3, SameIsSound DEF RowInv, RowIsSound
<1> QED BY <1>2, <1>3, <1>4, BesideTheLoop

(* What is known of a chain that was walked. *)
IsChain(view, k, e, hops, value) ==
    /\ hops \in UpdChains /\ Len(hops) \in {1, 2} /\ hops[1] = k /\ hops # << >> /\ Range2(hops) \subseteq Key
    /\ Len(hops) = 1 => Last2(hops) = k
    /\ Len(hops) = 2 => <<hops[1], hops[2]>> \in e /\ Last2(hops) = hops[2] /\ view[k] = hops[2] /\ hops[2] \in Key
                        /\ Range2(hops) = {k, hops[2]} /\ (value \in Cid => value = view[hops[2]])
    /\ value \in UpdCids \cup {"deeper"}
    /\ value \in Cid => \A j \in Range2(hops) : view[j] # Nothing /\ (view[j] = value \/ view[j] \in Key \cap Range2(hops))
    /\ value = "deeper" /\ value # Nothing => view[k] \in Key /\ view[view[k]] \in Key

(* A walk that comes to a record went along delegations that were *)
(* published. *)
LEMMA ChainIs ==
    ASSUME NEW k \in Key, NEW view \in [Key -> UpdValues], NEW e, AllEndorsed(view, e),
           NEW hops, NEW value, hops = Walk(view, k).hops, value = Walk(view, k).value
    PROVE  IsChain(view, k, e, hops, value)
<1>1. value \in UpdCids \cup {"deeper"} BY WalkIs
<1>2. CASE view[k] \notin Key
 <2>1. hops = <<k>> /\ value = view[k] BY <1>2, WalkIs
 <2>2. hops \in UpdChains /\ Len(hops) = 1 /\ hops[1] = k /\ hops # << >> /\ Range2(hops) = {k} /\ Last2(hops) = k BY <2>1, OneHop
 <2>3. value = "deeper" => value = Nothing BY <1>2, <2>1, UpdConstants DEF UpdValues
 <2> QED BY <1>1, <2>1, <2>2, <2>3, UpdConstants DEF IsChain
<1>3. CASE view[k] \in Key
 <2>1. PICK j \in Key : j = view[k] BY <1>3
 <2>2. hops = <<k, j>> /\ value = IF view[j] \in Key THEN "deeper" ELSE view[j] BY <1>3, <2>1, WalkIs
 <2>3. /\ hops \in UpdChains /\ Len(hops) = 2 /\ hops[1] = k /\ hops[2] = j /\ hops # << >> /\ Range2(hops) = {k, j} /\ Last2(hops) = j
     BY <2>1, <2>2, TwoHops
 <2>4. <<k, j>> \in e BY <2>1, <1>3 DEF AllEndorsed
 <2>5. value \in Cid => value = view[j] /\ value # Nothing BY <2>2, UpdConstants
 <2>6. value = "deeper" /\ value # Nothing => view[j] \in Key BY <2>1, <2>2, UpdConstants DEF UpdValues
 <2>7. j # Nothing BY <2>1, UpdConstants
 <2> QED BY <1>1, <2>1, <2>3, <2>4, <2>5, <2>6, <2>7 DEF IsChain
<1> QED BY <1>2, <1>3

(* What was pushed about the names of a walk is what the walk found. *)
LEMMA WalkedIsHeard ==
    ASSUME NEW x \in UpdRows, NEW view \in [Key -> UpdValues], NEW c, HeardIsCached(x, c), NEW hops, NEW value \in Cid,
           \A k \in Range2(hops) : view[k] # Nothing => c[k] = view[k],
           \A j \in Range2(hops) : view[j] # Nothing /\ (view[j] = value \/ view[j] \in Key \cap Range2(hops)),
           NEW z, z.heard = x.heard, z.hops = hops
    PROVE  \A p \in z.heard : p[1] \in Range2(z.hops) => p[2] = value \/ ~Unconsumed(z, p[2])
<1>1. TAKE p \in z.heard
<1>2. HAVE p[1] \in Range2(z.hops)
<1>3. p[2] = c[p[1]] BY DEF HeardIsCached
<1>4. p[2] = view[p[1]] BY <1>2, <1>3
<1>5. p[2] = value \/ p[2] \in Key \cap Range2(z.hops) BY <1>2, <1>4
<1> QED BY <1>5 DEF Unconsumed

(* _fetchCommunityIpnsP2PAndVerify walks from the key it was given to the *)
(* end of the chain, or fails; the names it crossed are cached and told. *)
LEMMA ResolveKeeps ==
    ASSUME CommInv, NEW u \in Updater, _fetchCommunityIpnsP2PAndVerify(u)
    PROVE  CommInv'
<1>1. PICK x : x = upd[u] OBVIOUS
<1>2. /\ x \in UpdRows /\ RowIsSound(x, net.endorsed, net.vouched) /\ HeardIsCached(x, cache.ipns) /\ (MustKeep => ArrivalsAreKept(x))
      /\ x.pc # "off" => x.addr \in Key \cup Name
      /\ x.sigOnce <= x.sigAt /\ x.sigAt <= x.sig /\ ShowsItsRecord(x, net.endorsed) /\ VerdictHolds(x, net.vouched) /\ CycleIsSound(x, net.endorsed)
    BY <1>1, RowsAre
<1>3. x.pc = "resolve" /\ UNCHANGED <<net, loader, job>> BY <1>1 DEF _fetchCommunityIpnsP2PAndVerify
<1>4. RowInv(x, net, cache, MustKeep) /\ x.pc \in InCycle /\ x.pc # "parked" BY <1>2, <1>3 DEF RowInv, InCycle
<1>5. \A y : RowInv(y, net, cache, MustKeep) /\ Set(u, y) /\ UNCHANGED cache => CommInv' BY <1>3, OneRowOnly
<1>6. CASE x.sig # x.sigAt /\ Set(u, _sleepUntilIpnsArrival(x)) /\ UNCHANGED cache
 <2>1. PICK y : y = _sleepUntilIpnsArrival(x) OBVIOUS
 <2>2. RowInv(y, net, cache, MustKeep) BY <1>2, <1>4, <1>6, <2>1, EndOfCycle, MustKeepPushes
 <2> QED BY <1>5, <1>6, <2>1, <2>2
<1>7. CASE Set(u, [x EXCEPT !.pc = "retry", !.revalidate = FALSE]) /\ UNCHANGED cache
 <2>1. PICK y : y = [x EXCEPT !.pc = "retry"] OBVIOUS
 <2>2. RowInv(y, net, cache, MustKeep) BY <1>2, <1>4, <2>1, RetryKeeps
 <2>3. PICK z : z = [y EXCEPT !.revalidate = FALSE] OBVIOUS
 <2>6. y \in UpdRows BY <2>2 DEF RowInv
 <2>4. RowInv(z, net, cache, MustKeep) BY <2>2, <2>3, <2>6, ForgetKeeps
 <2>5. Set(u, z) BY <1>2, <1>7, <2>1, <2>3 DEF UpdRows
 <2> QED BY <1>5, <1>7, <2>4, <2>5
<1>8. ASSUME x.sig = x.sigAt, NEW view \in Views(x),
             LET w == Walk(view, x.walk[1])
                 told == Told(view, w.hops)
                 y == [told[u] EXCEPT !.revalidate = FALSE]
                 z == [y EXCEPT !.hops = w.hops, !.walk = w.hops, !.got = w.value] IN
             /\ cache' = Cached(view, w.hops)
             /\ upd' = [told EXCEPT ![u] = IF w.value = Nothing THEN [y EXCEPT !.pc = "retry"]
                                          ELSE IF w.value = "deeper" THEN _sleepUntilIpnsArrival(y)
                                          ELSE IF w.value \in x.loaded THEN _sleepUntilIpnsArrival(z)
                                          ELSE [z EXCEPT !.pc = "fetch"]]
      PROVE  CommInv'
 <2>1. PICK k : k = x.walk[1] OBVIOUS
 <2>2. PICK hops : hops = Walk(view, k).hops OBVIOUS
 <2>3. PICK value : value = Walk(view, k).value OBVIOUS
 <2>4. PICK t : t = _onIpnsRecordArrival(x, NewlyFetched(view, hops), view) OBVIOUS
 <2>5. PICK y : y = [t EXCEPT !.revalidate = FALSE] OBVIOUS
 <2>6. PICK z : z = [y EXCEPT !.hops = hops, !.walk = hops, !.got = value] OBVIOUS
 <2>7. PICK r : r = IF value = Nothing THEN [y EXCEPT !.pc = "retry"]
                    ELSE IF value = "deeper" THEN _sleepUntilIpnsArrival(y)
                    ELSE IF value \in x.loaded THEN _sleepUntilIpnsArrival(z)
                    ELSE [z EXCEPT !.pc = "fetch"]
     OBVIOUS
 <2>8. PICK d : d = Cached(view, hops) OBVIOUS
 <2>9. Told(view, hops)[u] = t BY <1>1, <2>4 DEF Told
 <2>10. cache' = d /\ upd' = [Told(view, hops) EXCEPT ![u] = r] BY <1>8, <2>1, <2>2, <2>3, <2>5, <2>6, <2>7, <2>8, <2>9
 <2>11. k \in Key
  <3>1. Len(x.walk) = 1 /\ x.walk \in Seq(Key) BY <1>2, <1>3, RowTypes DEF CycleIsSound, UpdChains
  <3> QED BY <2>1, <3>1
 <2>12. view \in [Key -> UpdValues] BY <1>8, ViewsAre DEF CommInv
 <2>13. AllEndorsed(view, net.endorsed)
  <3>1. WorldIsTold(net, cache) /\ \A j \in Key : view[j] = net.ipns[j] \/ view[j] = cache.ipns[j] BY <1>8, ViewsAre DEF CommInv, WorldInv
  <3> QED BY <3>1 DEF WorldIsTold, AllEndorsed
 <2>14. /\ hops \in UpdChains /\ Len(hops) \in {1, 2} /\ hops[1] = k /\ hops # << >> /\ Range2(hops) \subseteq Key
        /\ Len(hops) = 2 => <<hops[1], hops[2]>> \in net.endorsed
        /\ value \in UpdCids \cup {"deeper"}
        /\ value \in Cid => \A j \in Range2(hops) : view[j] # Nothing /\ (view[j] = value \/ view[j] \in Key \cap Range2(hops))
        /\ value = "deeper" /\ value # Nothing => view[k] \in Key /\ view[view[k]] \in Key
  <3>1. IsChain(view, k, net.endorsed, hops, value) BY <2>2, <2>3, <2>11, <2>12, <2>13, ChainIs
  <3> QED BY <3>1 DEF IsChain
 <2>15. /\ WorldInv(net, d) /\ PushReaches(NewlyFetched(view, hops), view, cache.ipns, d.ipns)
        /\ \A j \in Range2(hops) : job.push /\ view[j] # Nothing => d.ipns[j] = view[j]
     BY <1>8, <2>8, <2>14, CachedIs
 <2>21. PICK names : names = NewlyFetched(view, hops) OBVIOUS
 <2>22. PushReaches(names, view, cache.ipns, d.ipns) /\ t = _onIpnsRecordArrival(x, names, view) BY <2>4, <2>15, <2>21
 <2>23. /\ t \in UpdRows /\ RowIsSound(t, net.endorsed, net.vouched) /\ SameShown(x, t) /\ HeardIsCached(t, d.ipns)
        /\ ArrivalsAreKept(x) => ArrivalsAreKept(t)
        /\ x.pc # "parked" => t.pc = x.pc
        /\ t.sig = x.sig /\ t.sigAt = x.sigAt /\ t.sigOnce = x.sigOnce /\ t.walk = x.walk /\ t.got = x.got /\ t.loaded = x.loaded /\ t.addr = x.addr
     BY <1>2, <2>22, ArrivalKeeps
 <2>16. /\ RowInv(t, net, d, MustKeep) /\ SameShown(x, t) /\ t \in UpdRows /\ t.pc = "resolve"
        /\ t.sig = x.sig /\ t.sigAt = x.sigAt /\ t.sigOnce = x.sigOnce /\ t.walk = x.walk /\ t.got = x.got /\ t.loaded = x.loaded /\ t.addr = x.addr
     BY <1>2, <1>3, <2>23 DEF RowInv
 <2>17. RowInv(y, net, d, MustKeep) /\ SameShown(t, y) /\ SameLoop(t, y) /\ SameVerdict(t, y) /\ y \in UpdRows BY <2>5, <2>16, ForgetKeeps
 <2>18. /\ y.pc = "resolve" /\ y.pc # "off" /\ y.pc \in InCycle /\ y.sig = y.sigAt /\ y.walk = x.walk /\ y.loaded = x.loaded
        /\ y.addr \in Key \cup Name /\ y.sigOnce <= y.sigAt /\ y.sigAt <= y.sig
     BY <1>2, <1>3, <1>8, <2>16, <2>17 DEF SameLoop, SameVerdict, InCycle
 <2>19. ShowsItsRecord(y, net.endorsed) /\ VerdictHolds(y, net.vouched) /\ HeardIsCached(y, d.ipns) /\ CycleIsSound(y, net.endorsed)
        /\ (MustKeep => ArrivalsAreKept(y))
     BY <2>17 DEF RowInv, RowIsSound
 <2>20. RowInv(r, net, d, MustKeep)
  <3>1. CASE value = Nothing
   <4>1. r = [y EXCEPT !.pc = "retry"] BY <2>7, <3>1
   <4> QED BY <2>17, <2>18, <4>1, RetryKeeps
  <3>2. CASE value # Nothing /\ value = "deeper"
   <4>1. r = _sleepUntilIpnsArrival(y) BY <2>7, <3>2
   <4>2. ~MustKeep BY <2>11, <2>12, <2>13, <2>14, <3>2, NothingDeeper DEF MustKeep
   <4>3. r \in UpdRows /\ r.heard = y.heard /\ RowIsSound(r, net.endorsed, net.vouched) BY <2>17, <2>18, <2>19, <4>1, SleepKeeps
   <4> QED BY <2>19, <4>2, <4>3 DEF RowInv, HeardIsCached
  <3>3. CASE value # Nothing /\ value # "deeper"
   <4>1. value \in Cid BY <2>14, <3>3 DEF UpdCids
   <4>2. /\ z \in UpdRows /\ z.hops = hops /\ z.walk = hops /\ z.got = value /\ z.astray = y.astray
         /\ z.cid = y.cid /\ z.name = y.name /\ z.anchor = y.anchor /\ z.publicKey = y.publicKey
         /\ z.pc = y.pc /\ z.sig = y.sig /\ z.sigAt = y.sigAt /\ z.sigOnce = y.sigOnce /\ z.heard = y.heard /\ z.loaded = y.loaded /\ SameVerdict(y, z)
    <5>1. z = [[[y EXCEPT !.hops = hops] EXCEPT !.walk = hops] EXCEPT !.got = value] BY <2>6
    <5>2. [y EXCEPT !.hops = hops] \in UpdRows BY <2>14, <2>17, RowEdits
    <5>3. [[y EXCEPT !.hops = hops] EXCEPT !.walk = hops] \in UpdRows BY <2>14, <5>2, RowEdits
    <5>4. value \in UpdCids BY <4>1 DEF UpdCids
    <5>5. [[[y EXCEPT !.hops = hops] EXCEPT !.walk = hops] EXCEPT !.got = value] \in UpdRows BY <5>3, <5>4, RowEdits
    <5>6. z \in UpdRows BY <5>1, <5>5
    <5> QED BY <2>17, <5>1, <5>6 DEF UpdRows, SameVerdict
   <4>3. ShowsItsRecord(z, net.endorsed) /\ VerdictHolds(z, net.vouched)
    <5>1. y.cid # Nothing /\ y.anchor = Nothing /\ ~y.astray => y.walk[1] = y.publicKey BY <2>18, <2>19 DEF CycleIsSound
    <5>2. y.walk[1] = hops[1] BY <2>1, <2>14, <2>18
    <5>3. ShowsItsRecord(z, net.endorsed) BY <2>19, <4>2, <5>1, <5>2 DEF ShowsItsRecord, Vouches
    <5> QED BY <2>19, <4>2, <5>3, SameIsSound
   <4>4. HeardIsCached(z, d.ipns) /\ z.addr \in Key \cup Name /\ z.sigOnce <= z.sigAt /\ z.sigAt <= z.sig /\ z.pc # "off"
       BY <2>18, <2>19, <4>2 DEF HeardIsCached, SameVerdict
   <4>5. ASSUME MustKeep
         PROVE  \A p \in z.heard : p[1] \in Range2(z.hops) => p[2] = value \/ ~Unconsumed(z, p[2])
    <5>1. \A j \in Range2(hops) : view[j] # Nothing => d.ipns[j] = view[j] BY <2>15, <4>5, MustKeepPushes
    <5>2. \A j \in Range2(hops) : view[j] # Nothing /\ (view[j] = value \/ view[j] \in Key \cap Range2(hops)) BY <2>14, <4>1
    <5> QED BY <2>12, <2>17, <2>19, <4>1, <4>2, <5>1, <5>2, WalkedIsHeard
   <4>6. CASE value \in x.loaded
    <5>1. r = _sleepUntilIpnsArrival(z) BY <2>7, <3>3, <4>6
    <5>2. ASSUME MustKeep
          PROVE  \A p \in z.heard : p[1] \in WatchedNames(z) => Kept(z, p)
     <6>1. WatchedNames(z) = Range2(z.hops) BY <2>14, <4>2 DEF WatchedNames
     <6>2. ~Unconsumed(z, value) BY <2>18, <4>1, <4>2, <4>6, UpdConstants DEF Unconsumed
     <6> QED BY <4>5, <5>2, <6>1, <6>2 DEF Kept
    <5>3. /\ r \in UpdRows /\ r.heard = z.heard /\ RowIsSound(r, net.endorsed, net.vouched)
          /\ job.push /\ (\A p \in z.heard : p[1] \in WatchedNames(z) => Kept(z, p)) => ArrivalsAreKept(r)
        BY <4>2, <4>3, <4>4, <5>1, SleepKeeps
    <5> QED BY <4>4, <5>2, <5>3, MustKeepPushes DEF RowInv, HeardIsCached
   <4>7. CASE value \notin x.loaded
    <5>1. r = [z EXCEPT !.pc = "fetch"] BY <2>7, <3>3, <4>7
    <5>2. "fetch" \in UpdPcs BY DEF UpdPcs, InCycle
    <5>3. [z EXCEPT !.pc = "fetch"] \in UpdRows BY <4>2, <5>2, RowEdits
    <5>4. r \in UpdRows BY <5>1, <5>3
    <5>5. /\ SameShown(z, r) /\ SameVerdict(z, r) /\ r.pc = "fetch" /\ r.sig = z.sig /\ r.sigAt = z.sigAt /\ r.sigOnce = z.sigOnce /\ r.heard = z.heard
          /\ r.news = z.news /\ r.loaded = z.loaded /\ r.walk = z.walk /\ r.got = z.got
        BY <4>2, <5>1 DEF UpdRows, SameShown, SameVerdict
    <5>6. ShowsItsRecord(r, net.endorsed) /\ VerdictHolds(r, net.vouched) BY <4>3, <5>5, SameIsSound
    <5>7. r.cid # Nothing /\ r.anchor = Nothing /\ ~r.astray => r.walk[1] = r.publicKey
     <6>1. y.cid # Nothing /\ y.anchor = Nothing /\ ~y.astray => y.walk[1] = y.publicKey BY <2>18, <2>19 DEF CycleIsSound
     <6> QED BY <2>1, <2>14, <2>18, <4>2, <5>5, <6>1 DEF SameShown
    <5>8. CycleIsSound(r, net.endorsed)
        BY <2>14, <2>18, <4>1, <4>2, <4>4, <5>5, <5>7 DEF CycleIsSound, InCycle, FetchPcs, SameShown, SameVerdict
    <5>9. ASSUME MustKeep
          PROVE  ArrivalsAreKept(r)
     <6>1. y.cid \in y.loaded \cup {Nothing} BY <2>18, <2>19, <5>9 DEF ArrivalsAreKept
     <6>2. \A p \in r.heard : p[1] \in Range2(r.hops) => p[2] = r.got \/ ~Unconsumed(r, p[2])
         BY <4>2, <4>5, <5>5, <5>9 DEF SameShown, Unconsumed
     <6> QED BY <2>18, <4>2, <5>5, <6>1, <6>2 DEF ArrivalsAreKept, Kept, SameShown
    <5>10. HeardIsCached(r, d.ipns) BY <4>4, <5>5 DEF HeardIsCached
    <5> QED BY <5>4, <5>6, <5>8, <5>9, <5>10 DEF RowInv, RowIsSound
   <4> QED BY <4>6, <4>7
  <3> QED BY <3>1, <3>2, <3>3
 <2> QED BY <1>3, <2>10, <2>15, <2>20, WalkStep
<1> QED BY <1>1, <1>6, <1>7, <1>8 DEF _fetchCommunityIpnsP2PAndVerify

(* _proveAnchorClaimIfUnwalked walks from the anchor that a record claims, *)
(* and takes the record only when that walk ends at its signer. *)
LEMMA ProveKeeps ==
    ASSUME CommInv, NEW u \in Updater, proveClaim(u)
    PROVE  CommInv'
<1>1. PICK x : x = upd[u] OBVIOUS
<1>2. /\ x \in UpdRows /\ RowIsSound(x, net.endorsed, net.vouched) /\ HeardIsCached(x, cache.ipns) /\ (MustKeep => ArrivalsAreKept(x))
      /\ x.pc # "off" => x.addr \in Key \cup Name
      /\ x.sigOnce <= x.sigAt /\ x.sigAt <= x.sig /\ ShowsItsRecord(x, net.endorsed) /\ VerdictHolds(x, net.vouched) /\ CycleIsSound(x, net.endorsed)
    BY <1>1, RowsAre
<1>3. x.pc = "prove" /\ UNCHANGED <<net, loader, job>> BY <1>1 DEF proveClaim
<1>4. RowInv(x, net, cache, MustKeep) /\ x.pc \in InCycle /\ x.pc # "parked" BY <1>2, <1>3 DEF RowInv, InCycle
<1>5. \A y : RowInv(y, net, cache, MustKeep) /\ Set(u, y) /\ UNCHANGED cache => CommInv' BY <1>3, OneRowOnly
<1>6. /\ Len(x.walk) \in {1, 2} /\ x.got \in Cid /\ (Len(x.walk) = 2 => <<x.walk[1], x.walk[2]>> \in net.endorsed)
      /\ x.sig = x.sigAt => x.hops = x.walk
      /\ x.sig # x.sigAt => x.cid = Nothing
    BY <1>2, <1>3 DEF CycleIsSound, FetchPcs, InCycle
<1>7. x.walk \in UpdChains /\ x.walk[1] \in Key
 <2>1. x.walk \in Seq(Key) BY <1>2, RowTypes DEF UpdChains
 <2> QED BY <1>6, <2>1 DEF UpdChains
<1>8. CASE ~NeedsProof(x) /\ Set(u, [x EXCEPT !.hops = x.walk, !.pc = "verify"]) /\ UNCHANGED cache
 <2>1. PICK y : y = [[x EXCEPT !.hops = x.walk] EXCEPT !.pc = "verify"] OBVIOUS
 <2>2. Set(u, y) BY <1>8, <2>1
 <2>3. "verify" \in UpdPcs BY DEF UpdPcs, InCycle
 <2>4. [x EXCEPT !.hops = x.walk] \in UpdRows BY <1>2, <1>7, RowEdits
 <2>5. [[x EXCEPT !.hops = x.walk] EXCEPT !.pc = "verify"] \in UpdRows BY <2>3, <2>4, RowEdits
 <2>6. y \in UpdRows BY <2>1, <2>5
 <2>7. /\ y.cid = x.cid /\ y.name = x.name /\ y.anchor = x.anchor /\ y.publicKey = x.publicKey /\ y.hops = x.walk /\ SameVerdict(x, y) /\ y.astray = x.astray
       /\ y.pc = "verify" /\ y.sig = x.sig /\ y.sigAt = x.sigAt /\ y.sigOnce = x.sigOnce /\ y.heard = x.heard /\ y.news = x.news /\ y.loaded = x.loaded
       /\ y.walk = x.walk /\ y.got = x.got
     BY <1>2, <2>1 DEF UpdRows, SameVerdict
 <2>8. ShowsItsRecord(y, net.endorsed) /\ VerdictHolds(y, net.vouched)
  <3>1. VerdictHolds(y, net.vouched) BY <1>2, <2>7, SameIsSound
  <3>2. CASE x.sig = x.sigAt
   <4>1. SameShown(x, y) BY <1>6, <2>7, <3>2 DEF SameShown
   <4> QED BY <1>2, <3>1, <4>1, SameIsSound
  <3>3. CASE x.sig # x.sigAt BY <1>6, <2>7, <3>1, <3>3 DEF ShowsItsRecord
  <3> QED BY <3>2, <3>3
 <2>9. CycleIsSound(y, net.endorsed)
  <3>1. Len(x.walk) = 1 => rec[x.got].anchor \in {Nothing, x.walk[1]} BY <1>8 DEF NeedsProof
  <3> QED BY <1>2, <1>3, <1>6, <2>7, <3>1 DEF CycleIsSound, InCycle, FetchPcs, SameVerdict
 <2>10. ASSUME MustKeep
        PROVE  ArrivalsAreKept(y)
  <3>1. CASE x.sig # x.sigAt BY <1>2, <1>4, <2>7, <2>10, <3>1 DEF ArrivalsAreKept
  <3>2. CASE x.sig = x.sigAt
   <4>1. \A p : Kept(x, p) <=> Kept(y, p) BY <1>6, <2>7, <3>2 DEF Kept, Unconsumed
   <4>2. ArrivalsAreKept(x) BY <1>2, <2>10
   <4> QED BY <1>3, <1>6, <2>7, <3>2, <4>1, <4>2 DEF ArrivalsAreKept, InCycle, FetchPcs
  <3> QED BY <3>1, <3>2
 <2>11. RowInv(y, net, cache, MustKeep) BY <1>2, <2>6, <2>7, <2>8, <2>9, <2>10 DEF RowInv, RowIsSound, HeardIsCached
 <2> QED BY <1>5, <1>8, <2>2, <2>11
<1>9. CASE x.sig # x.sigAt /\ Set(u, _sleepUntilIpnsArrival(x)) /\ UNCHANGED cache
 <2>1. PICK y : y = _sleepUntilIpnsArrival(x) OBVIOUS
 <2>2. RowInv(y, net, cache, MustKeep) BY <1>2, <1>4, <1>9, <2>1, EndOfCycle, MustKeepPushes
 <2> QED BY <1>5, <1>9, <2>1, <2>2
<1>10. CASE Set(u, [x EXCEPT !.pc = "retry"]) /\ UNCHANGED cache
 <2>1. PICK y : y = [x EXCEPT !.pc = "retry"] OBVIOUS
 <2>2. RowInv(y, net, cache, MustKeep) BY <1>2, <1>4, <2>1, RetryKeeps
 <2> QED BY <1>5, <1>10, <2>1, <2>2
<1>11. ASSUME NeedsProof(x), x.sig = x.sigAt, NEW view \in Views(x),
              LET w == Walk(view, rec[x.got].anchor)
                  told == Told(view, w.hops)
                  y == told[u] IN
              /\ cache' = Cached(view, w.hops)
              /\ upd' = [told EXCEPT ![u] = IF w.value = Nothing THEN [y EXCEPT !.pc = "retry"]
                                           ELSE IF w.value = "deeper" \/ Last2(w.hops) # x.walk[1] THEN _sleepUntilIpnsArrival(y)
                                           ELSE [y EXCEPT !.hops = w.hops, !.walk = w.hops, !.pc = "verify"]]
       PROVE  CommInv'
 <2>1. PICK k : k = rec[x.got].anchor OBVIOUS
 <2>2. PICK hops : hops = Walk(view, k).hops OBVIOUS
 <2>3. PICK value : value = Walk(view, k).value OBVIOUS
 <2>4. PICK t : t = _onIpnsRecordArrival(x, NewlyFetched(view, hops), view) OBVIOUS
 <2>5. PICK z : z = [[[t EXCEPT !.hops = hops] EXCEPT !.walk = hops] EXCEPT !.pc = "verify"] OBVIOUS
 <2>6. PICK r : r = IF value = Nothing THEN [t EXCEPT !.pc = "retry"]
                    ELSE IF value = "deeper" \/ Last2(hops) # x.walk[1] THEN _sleepUntilIpnsArrival(t)
                    ELSE z
     OBVIOUS
 <2>7. PICK d : d = Cached(view, hops) OBVIOUS
 <2>8. Told(view, hops)[u] = t BY <1>1, <2>4 DEF Told
 <2>9. z = [t EXCEPT !.hops = hops, !.walk = hops, !.pc = "verify"] BY <2>5
 <2>10. cache' = d /\ upd' = [Told(view, hops) EXCEPT ![u] = r] BY <1>11, <2>1, <2>2, <2>3, <2>6, <2>7, <2>8, <2>9
 <2>11. Len(x.walk) = 1 /\ k \in Key /\ k # x.walk[1]
  <3>1. Len(x.walk) = 1 /\ k \notin {Nothing, x.walk[1]} BY <1>11, <2>1 DEF NeedsProof
  <3> QED BY <1>6, <2>1, <3>1, UpdConstants DEF UpdKeys
 <2>12. view \in [Key -> UpdValues] BY <1>11, ViewsAre DEF CommInv
 <2>13. AllEndorsed(view, net.endorsed)
  <3>1. WorldIsTold(net, cache) /\ \A j \in Key : view[j] = net.ipns[j] \/ view[j] = cache.ipns[j] BY <1>11, ViewsAre DEF CommInv, WorldInv
  <3> QED BY <3>1 DEF WorldIsTold, AllEndorsed
 <2>14. /\ hops \in UpdChains /\ Len(hops) \in {1, 2} /\ hops[1] = k /\ hops # << >> /\ Range2(hops) \subseteq Key
        /\ Len(hops) = 1 => Last2(hops) = k
        /\ Len(hops) = 2 => <<hops[1], hops[2]>> \in net.endorsed /\ Last2(hops) = hops[2] /\ view[k] = hops[2] /\ hops[2] \in Key
                            /\ Range2(hops) = {k, hops[2]} /\ (value \in Cid => value = view[hops[2]])
        /\ value \in UpdCids \cup {"deeper"}
  <3>1. IsChain(view, k, net.endorsed, hops, value) BY <2>2, <2>3, <2>11, <2>12, <2>13, ChainIs
  <3> QED BY <3>1 DEF IsChain
 <2>15. /\ WorldInv(net, d) /\ PushReaches(NewlyFetched(view, hops), view, cache.ipns, d.ipns)
        /\ \A j \in Range2(hops) : job.push /\ view[j] # Nothing => d.ipns[j] = view[j]
     BY <1>11, <2>7, <2>14, CachedIs, SMTT(20)
 <2>16. PICK names : names = NewlyFetched(view, hops) OBVIOUS
 <2>17. PushReaches(names, view, cache.ipns, d.ipns) /\ t = _onIpnsRecordArrival(x, names, view) BY <2>4, <2>15, <2>16
 <2>18. /\ t \in UpdRows /\ RowIsSound(t, net.endorsed, net.vouched) /\ SameShown(x, t) /\ HeardIsCached(t, d.ipns)
        /\ ArrivalsAreKept(x) => ArrivalsAreKept(t)
        /\ x.pc # "parked" => t.pc = x.pc
        /\ t.sig = x.sig /\ t.sigAt = x.sigAt /\ t.sigOnce = x.sigOnce /\ t.walk = x.walk /\ t.got = x.got /\ t.loaded = x.loaded /\ t.addr = x.addr
     BY <1>2, <2>17, ArrivalKeeps
 <2>19. RowInv(t, net, d, MustKeep) /\ t.pc = "prove" /\ t.pc \in InCycle BY <1>2, <1>3, <1>4, <2>18 DEF RowInv
 <2>20. ShowsItsRecord(t, net.endorsed) /\ VerdictHolds(t, net.vouched) /\ CycleIsSound(t, net.endorsed) /\ (MustKeep => ArrivalsAreKept(t))
     BY <2>18, <2>19 DEF RowInv, RowIsSound
 <2>21. RowInv(r, net, d, MustKeep)
  <3>1. CASE value = Nothing
   <4>1. r = [t EXCEPT !.pc = "retry"] BY <2>6, <3>1
   <4> QED BY <2>18, <2>19, <4>1, RetryKeeps
  <3>2. CASE value # Nothing /\ (value = "deeper" \/ Last2(hops) # x.walk[1])
   <4>1. r = _sleepUntilIpnsArrival(t) BY <2>6, <3>2
   <4> QED BY <2>18, <2>19, <4>1, EndOfCycle, MustKeepPushes
  <3>3. CASE value # Nothing /\ value # "deeper" /\ Last2(hops) = x.walk[1]
   <4>1. r = z /\ value \in Cid BY <2>6, <2>14, <3>3 DEF UpdCids
   <4>2. /\ Len(hops) = 2 /\ hops[2] = x.walk[1] /\ <<k, x.walk[1]>> \in net.endorsed /\ view[k] = x.walk[1]
         /\ Range2(hops) = {k, x.walk[1]}
       BY <2>11, <2>14, <3>3
   <4>3. "verify" \in UpdPcs BY DEF UpdPcs, InCycle
   <4>4. [t EXCEPT !.hops = hops] \in UpdRows BY <2>14, <2>18, RowEdits
   <4>5. [[t EXCEPT !.hops = hops] EXCEPT !.walk = hops] \in UpdRows BY <2>14, <4>4, RowEdits
   <4>6. [[[t EXCEPT !.hops = hops] EXCEPT !.walk = hops] EXCEPT !.pc = "verify"] \in UpdRows BY <4>3, <4>5, RowEdits
   <4>7. z \in UpdRows BY <2>5, <4>6
   <4>8. /\ z.cid = t.cid /\ z.name = t.name /\ z.anchor = t.anchor /\ z.publicKey = t.publicKey /\ z.hops = hops /\ SameVerdict(t, z) /\ z.astray = t.astray
         /\ z.pc = "verify" /\ z.sig = t.sig /\ z.sigAt = t.sigAt /\ z.sigOnce = t.sigOnce /\ z.heard = t.heard /\ z.news = t.news /\ z.loaded = t.loaded
         /\ z.walk = hops /\ z.got = t.got
       BY <2>5, <2>18 DEF UpdRows, SameVerdict
   <4>9. VerdictHolds(z, net.vouched) BY <2>20, <4>8, SameIsSound
   <4>10. ShowsItsRecord(z, net.endorsed)
    <5>1. t.cid # Nothing /\ t.anchor = Nothing /\ ~t.astray => t.walk[1] = t.publicKey BY <1>11, <2>18, <2>19, <2>20 DEF CycleIsSound
    <5>2. t.cid # Nothing /\ t.anchor = Nothing /\ ~t.astray => Vouches(hops[1], t.cid, net.endorsed)
        BY <2>14, <2>18, <2>20, <4>2, <5>1 DEF ShowsItsRecord, Vouches
    <5> QED BY <2>20, <4>8, <5>2 DEF ShowsItsRecord
   <4>11. CycleIsSound(z, net.endorsed)
       BY <1>6, <1>11, <2>14, <2>18, <2>19, <2>20, <4>2, <4>8, SMTT(20) DEF CycleIsSound, InCycle, FetchPcs, SameVerdict
   <4>12. ASSUME MustKeep
          PROVE  ArrivalsAreKept(z)
    <5>1. /\ t.cid \in t.loaded \cup {Nothing} /\ t.got \in t.loaded
          /\ \A p \in t.heard : p[1] \in Range2(t.hops) => Kept(t, p) \/ p[2] = t.got
        BY <1>11, <2>18, <2>19, <2>20, <4>12 DEF ArrivalsAreKept, FetchPcs
    <5>2. t.hops = x.walk /\ x.walk[1] \in Range2(t.hops)
     <6>1. t.hops = x.walk BY <1>6, <1>11, <2>18 DEF SameShown
     <6> QED BY <2>11, <6>1 DEF Range2
    <5>3. ASSUME NEW p \in z.heard, p[1] \in Range2(z.hops)
          PROVE  Kept(z, p) \/ p[2] = z.got
     <6>1. p \in t.heard /\ p[2] = d.ipns[p[1]] BY <2>18, <4>8, <5>3 DEF HeardIsCached
     <6>2. CASE p[1] = k
      <7>1. p[2] = x.walk[1] BY <1>7, <2>15, <4>2, <4>12, <6>1, <6>2, UpdConstants, MustKeepPushes
      <7> QED BY <1>7, <4>2, <4>8, <7>1 DEF Kept, Unconsumed
     <6>3. CASE p[1] = x.walk[1]
      <7>1. p[2] \notin Key
       <8>1. SUFFICES ASSUME p[2] \in Key PROVE FALSE OBVIOUS
       <8>2. <<x.walk[1], p[2]>> \in net.endorsed BY <1>7, <2>15, <6>1, <6>3, <8>1 DEF WorldInv, WorldIsTold
       <8>3. <<k, x.walk[1]>>[2] # <<x.walk[1], p[2]>>[1] BY <4>2, <4>12, <8>2 DEF MustKeep, ChainsAreShort
       <8> QED BY <8>3
      <7>2. Kept(t, p) \/ p[2] = t.got BY <5>1, <5>2, <6>1, <6>3
      <7> QED BY <4>8, <7>1, <7>2 DEF Kept, Unconsumed
     <6> QED BY <4>2, <4>8, <5>3, <6>2, <6>3
    <5> QED BY <1>11, <2>18, <4>8, <5>1, <5>3 DEF ArrivalsAreKept
   <4>13. HeardIsCached(z, d.ipns) BY <2>18, <4>8 DEF HeardIsCached
   <4> QED BY <4>1, <4>7, <4>9, <4>10, <4>11, <4>12, <4>13 DEF RowInv, RowIsSound
  <3> QED BY <3>1, <3>2, <3>3
 <2> QED BY <1>3, <2>10, <2>15, <2>21, WalkStep
<1> QED BY <1>1, <1>8, <1>9, <1>10, <1>11 DEF proveClaim

----------------------------------------
(* The answer to a name: a verdict, or a migration. *)
LEMMA DoneKeeps ==
    ASSUME NEW x \in UpdRows, NEW y, y = [x EXCEPT !.bg = Nothing], NEW n, NEW c, NEW must, RowInv(x, n, c, must)
    PROVE  RowInv(y, n, c, must) /\ y \in UpdRows /\ SameShown(x, y) /\ SameLoop(x, y) /\ y.addr = x.addr /\ y.verdict = x.verdict
           /\ y.bg = Nothing /\ y.floors = x.floors
<1>1. [x EXCEPT !.bg = Nothing] \in UpdRows BY RowEdits DEF UpdNames
<1>2. y \in UpdRows BY <1>1
<1>3. SameShown(x, y) /\ SameLoop(x, y) /\ y.addr = x.addr /\ y.verdict = x.verdict /\ y.bg = Nothing /\ y.floors = x.floors
    BY DEF UpdRows, SameShown, SameLoop
<1>4. VerdictHolds(x, n.vouched) BY DEF RowInv, RowIsSound
<1>5. VerdictHolds(y, n.vouched) BY <1>3, <1>4 DEF VerdictHolds, SameShown, ClassifiedName
<1> QED BY <1>2, <1>3, <1>5, BesideTheLoop

(* A community whose name moved starts over with the new key: nothing *)
(* shown, nothing heard, its cycle aborted. *)
LEMMA MigratedDoes ==
    ASSUME NEW x \in UpdRows, NEW k \in Key, NEW y, y = Migrated(x, k)
    PROVE  /\ y \in UpdRows /\ y.cid = Nothing /\ y.publicKey = k /\ y.verdict = "yes" /\ y.bg = x.bg /\ y.addr = x.addr
           /\ y.name = x.name /\ y.heard = {} /\ y.sig = x.sig + 1 /\ y.sigAt = x.sigAt /\ y.sigOnce = x.sigOnce
           /\ y.pc = (IF x.pc = "parked" THEN "begin" ELSE x.pc) /\ y.walk = x.walk /\ y.got = x.got
<1>1. PICK s : s = x.sig + 1 OBVIOUS
<1>2. PICK pc : pc = IF x.pc = "parked" THEN "begin" ELSE x.pc OBVIOUS
<1>3. PICK a : a = [[[[[[x EXCEPT !.cid = Nothing] EXCEPT !.anchor = Nothing] EXCEPT !.publicKey = k] EXCEPT !.ipnsName = k] EXCEPT !.hops = <<k>>] EXCEPT !.astray = FALSE]
    OBVIOUS
<1>4. PICK b : b = [[[[[[a EXCEPT !.loaded = {}] EXCEPT !.verdict = "yes"] EXCEPT !.news = {}] EXCEPT !.heard = {}] EXCEPT !.sig = s] EXCEPT !.pc = pc]
    OBVIOUS
<1>5. a \in UpdRows
 <2>1. Nothing \in UpdCids /\ Nothing \in UpdKeys /\ k \in UpdKeys /\ <<k>> \in UpdChains BY OneHop DEF UpdCids, UpdKeys
 <2>2. [x EXCEPT !.cid = Nothing] \in UpdRows BY <2>1, RowEdits
 <2>3. [[x EXCEPT !.cid = Nothing] EXCEPT !.anchor = Nothing] \in UpdRows BY <2>1, <2>2, RowEdits
 <2>4. [[[x EXCEPT !.cid = Nothing] EXCEPT !.anchor = Nothing] EXCEPT !.publicKey = k] \in UpdRows BY <2>1, <2>3, RowEdits
 <2>5. [[[[x EXCEPT !.cid = Nothing] EXCEPT !.anchor = Nothing] EXCEPT !.publicKey = k] EXCEPT !.ipnsName = k] \in UpdRows
     BY <2>1, <2>4, RowEdits
 <2>6. [[[[[x EXCEPT !.cid = Nothing] EXCEPT !.anchor = Nothing] EXCEPT !.publicKey = k] EXCEPT !.ipnsName = k] EXCEPT !.hops = <<k>>] \in UpdRows
     BY <2>1, <2>5, RowEdits
 <2>7. [[[[[[x EXCEPT !.cid = Nothing] EXCEPT !.anchor = Nothing] EXCEPT !.publicKey = k] EXCEPT !.ipnsName = k] EXCEPT !.hops = <<k>>] EXCEPT !.astray = FALSE] \in UpdRows
     BY <2>6, RowEdits
 <2> QED BY <1>3, <2>7
<1>6. /\ a.cid = Nothing /\ a.publicKey = k /\ a.bg = x.bg /\ a.addr = x.addr /\ a.name = x.name /\ a.sigAt = x.sigAt /\ a.sigOnce = x.sigOnce /\ a.sig = x.sig
      /\ a.pc = x.pc /\ a.walk = x.walk /\ a.got = x.got
    BY <1>3 DEF UpdRows
<1>7. b \in UpdRows
 <2>1. {} \in UpdLoads /\ "yes" \in UpdVerdicts /\ {} \in UpdNews /\ {} \in UpdHeards BY DEF UpdLoads, UpdVerdicts, UpdNews, UpdHeards
 <2>2. s \in Nat /\ pc \in UpdPcs BY <1>1, <1>2, RowTypes DEF UpdPcs
 <2>3. [a EXCEPT !.loaded = {}] \in UpdRows BY <1>5, <2>1, RowEdits
 <2>4. [[a EXCEPT !.loaded = {}] EXCEPT !.verdict = "yes"] \in UpdRows BY <2>1, <2>3, RowEdits
 <2>5. [[[a EXCEPT !.loaded = {}] EXCEPT !.verdict = "yes"] EXCEPT !.news = {}] \in UpdRows BY <2>1, <2>4, RowEdits
 <2>6. [[[[a EXCEPT !.loaded = {}] EXCEPT !.verdict = "yes"] EXCEPT !.news = {}] EXCEPT !.heard = {}] \in UpdRows BY <2>1, <2>5, RowEdits
 <2>7. [[[[[a EXCEPT !.loaded = {}] EXCEPT !.verdict = "yes"] EXCEPT !.news = {}] EXCEPT !.heard = {}] EXCEPT !.sig = s] \in UpdRows
     BY <2>2, <2>6, RowEdits
 <2>8. [[[[[[a EXCEPT !.loaded = {}] EXCEPT !.verdict = "yes"] EXCEPT !.news = {}] EXCEPT !.heard = {}] EXCEPT !.sig = s] EXCEPT !.pc = pc] \in UpdRows
     BY <2>2, <2>7, RowEdits
 <2> QED BY <1>4, <2>8
<1>8. /\ b.cid = Nothing /\ b.publicKey = k /\ b.verdict = "yes" /\ b.bg = x.bg /\ b.addr = x.addr /\ b.name = x.name /\ b.heard = {}
      /\ b.sig = s /\ b.sigAt = x.sigAt /\ b.sigOnce = x.sigOnce /\ b.pc = pc /\ b.walk = x.walk /\ b.got = x.got
    BY <1>4, <1>5, <1>6 DEF UpdRows
<1>9. y = _syncIpnsArrivalSubscriptions(b)
 <2>1. a = _clearDataForKeyMigration(x, k) BY <1>3 DEF _clearDataForKeyMigration
 <2>2. b = [a EXCEPT !.loaded = {}, !.verdict = "yes", !.news = {}, !.heard = {}, !.sig = @ + 1, !.pc = IF @ = "parked" THEN "begin" ELSE @]
     BY <1>1, <1>2, <1>4, <1>5, <1>6 DEF UpdRows
 <2> QED BY <2>1, <2>2 DEF Migrated
<1>10. /\ y \in UpdRows /\ SameShown(b, y) /\ SameVerdict(b, y)
       /\ y.pc = b.pc /\ y.sig = b.sig /\ y.sigAt = b.sigAt /\ y.sigOnce = b.sigOnce /\ y.heard = b.heard /\ y.walk = b.walk /\ y.got = b.got
    BY <1>7, <1>9, SyncDoes
<1> QED BY <1>1, <1>2, <1>8, <1>10 DEF SameShown, SameVerdict

(* Starting over keeps what is true of the row. *)
LEMMA MigratedKeeps ==
    ASSUME NEW x \in UpdRows, NEW k \in Key, NEW y, y = Migrated(x, k), NEW n, NEW c, NEW must, RowInv(x, n, c, must),
           ClassifiedName(x) \in Name, <<ClassifiedName(x), k>> \in n.vouched, x.publicKey # Nothing
    PROVE  RowInv(y, n, c, must) /\ y \in UpdRows
<1>1. /\ y \in UpdRows /\ y.cid = Nothing /\ y.publicKey = k /\ y.verdict = "yes" /\ y.bg = x.bg /\ y.addr = x.addr
      /\ y.name = x.name /\ y.heard = {} /\ y.sig = x.sig + 1 /\ y.sigAt = x.sigAt /\ y.sigOnce = x.sigOnce
      /\ y.pc = (IF x.pc = "parked" THEN "begin" ELSE x.pc) /\ y.walk = x.walk /\ y.got = x.got
    BY MigratedDoes
<1>2. CycleIsSound(x, n.endorsed) /\ x.sig \in Nat /\ x.sigAt \in Nat BY RowTypes DEF RowInv, RowIsSound
<1>3. y.sig # y.sigAt /\ y.sigOnce <= y.sigAt /\ y.sigAt <= y.sig BY <1>1, <1>2 DEF CycleIsSound
<1>4. x.pc # "naming" BY <1>2 DEF CycleIsSound
<1>5. CycleIsSound(y, n.endorsed)
 <2>1. CASE x.pc = "parked" BY <1>1, <1>2, <1>3, <2>1 DEF CycleIsSound, InCycle, FetchPcs
 <2>2. CASE x.pc # "parked" BY <1>1, <1>2, <1>3, <1>4, <2>2 DEF CycleIsSound
 <2> QED BY <2>1, <2>2
<1>6. ShowsItsRecord(y, n.endorsed) BY <1>1 DEF ShowsItsRecord
<1>7. VerdictHolds(y, n.vouched)
 <2>1. ClassifiedName(y) = ClassifiedName(x) /\ k # Nothing BY <1>1, UpdConstants DEF ClassifiedName
 <2>2. y.addr \in Name \/ y.name # Nothing BY <1>1, UpdConstants DEF ClassifiedName
 <2> QED BY <1>1, <2>1, <2>2 DEF VerdictHolds
<1>8. ArrivalsAreKept(y) /\ HeardIsCached(y, c.ipns) BY <1>1, <1>3 DEF ArrivalsAreKept, HeardIsCached
<1> QED BY <1>1, <1>5, <1>6, <1>7, <1>8 DEF RowInv, RowIsSound

(* The wish to look a name up again is set or dropped. *)
LEMMA SetRevalidate ==
    ASSUME NEW x \in UpdRows, NEW r \in BOOLEAN, NEW y, y = [x EXCEPT !.revalidate = r], NEW n, NEW c, NEW must, RowInv(x, n, c, must)
    PROVE  RowInv(y, n, c, must) /\ SameShown(x, y) /\ y \in UpdRows
<1>1. [x EXCEPT !.revalidate = r] \in UpdRows BY RowEdits
<1>2. y \in UpdRows BY <1>1
<1>3. SameShown(x, y) /\ SameLoop(x, y) /\ SameVerdict(x, y) /\ y.addr = x.addr BY DEF UpdRows, SameShown, SameLoop, SameVerdict
<1>4. VerdictHolds(y, n.vouched) BY <1>3, SameIsSound DEF RowInv, RowIsSound
<1> QED BY <1>2, <1>3, <1>4, BesideTheLoop

(* An answer becomes the verdict on the name that was asked for. *)
LEMMA VerdictKeeps ==
    ASSUME NEW x \in UpdRows, NEW w \in {"yes", "no"}, NEW y, y = Verdict(x, w), NEW n, NEW c, NEW must, RowInv(x, n, c, must),
           x.bg = Nothing, ClassifiedName(x) \in Name, w = "yes" => x.publicKey # Nothing /\ <<ClassifiedName(x), x.publicKey>> \in n.vouched
    PROVE  RowInv(y, n, c, must) /\ y \in UpdRows /\ SameShown(x, y)
<1>1. PICK f : f = IF w = "no" THEN {"no"} ELSE {} OBVIOUS
<1>2. f \in UpdFloors /\ w \in UpdVerdicts BY <1>1 DEF UpdFloors, UpdVerdicts
<1>3. y = [[x EXCEPT !.verdict = w] EXCEPT !.floors = f] BY <1>1 DEF Verdict
<1>4. [x EXCEPT !.verdict = w] \in UpdRows BY <1>2, RowEdits
<1>5. [[x EXCEPT !.verdict = w] EXCEPT !.floors = f] \in UpdRows BY <1>2, <1>4, RowEdits
<1>6. y \in UpdRows BY <1>3, <1>5
<1>7. SameShown(x, y) /\ SameLoop(x, y) /\ y.addr = x.addr /\ y.verdict = w /\ y.bg = x.bg BY <1>3 DEF UpdRows, SameShown, SameLoop
<1>8. VerdictHolds(y, n.vouched)
 <2>1. x.addr \in Name \/ x.name # Nothing BY UpdConstants DEF ClassifiedName
 <2>2. ClassifiedName(y) = ClassifiedName(x) BY <1>7 DEF ClassifiedName, SameShown
 <2> QED BY <1>7, <2>1, <2>2 DEF VerdictHolds, SameShown
<1> QED BY <1>6, <1>7, <1>8, BesideTheLoop

(* A loader is told that the community moved. *)
LEMMA ToldOfMove ==
    ASSUME NEW l \in Loader, NEW y, NEW n, LoaderInv(l, y, n), NEW k \in Key, NEW z, z = [y EXCEPT !.told = @ \cup {k}]
    PROVE  LoaderInv(l, z, n)
<1>1. PICK t : t = y.told \cup {k} OBVIOUS
<1>2. y \in LoaderRows BY DEF LoaderInv
<1>3. t \in SUBSET Key BY <1>1, <1>2 DEF LoaderRows
<1>4. z = [y EXCEPT !.told = t] BY <1>1, <1>2 DEF LoaderRows
<1>5. [y EXCEPT !.told = t] \in LoaderRows BY <1>2, <1>3, LoaderEdits
<1>6. z \in LoaderRows /\ z.cid = y.cid /\ z.publicKey = y.publicKey BY <1>2, <1>4, <1>5 DEF LoaderRows
<1> QED BY <1>6 DEF LoaderInv

Moved(u, x, k) == [l \in Loader |-> IF loader[l].on = u THEN [Mirror(l, loader[l], x) EXCEPT !.told = @ \cup {k}] ELSE loader[l]]

(* All loaders of an instance are told that it moved. *)
LEMMA MoveIsTold ==
    ASSUME CommInv, NEW u, NEW x \in UpdRows, ShowsItsRecord(x, net.endorsed), NEW k \in Key, NEW s, s = Moved(u, x, k)
    PROVE  s \in [Loader -> LoaderRows] /\ \A l \in Loader : LoaderInv(l, s[l], net)
<1>1. \A l \in Loader : LoaderInv(l, loader[l], net) BY DEF CommInv
<1>2. ASSUME NEW l \in Loader, NEW m, m = Mirror(l, loader[l], x)
      PROVE  LoaderInv(l, m, net)
    BY <1>1, <1>2, MirrorKeeps
<1>3. ASSUME NEW l \in Loader
      PROVE  LoaderInv(l, s[l], net)
 <2>1. PICK m : m = Mirror(l, loader[l], x) OBVIOUS
 <2>2. PICK z : z = [m EXCEPT !.told = @ \cup {k}] OBVIOUS
 <2>3. LoaderInv(l, z, net) BY <1>2, <2>1, <2>2, ToldOfMove
 <2>4. s[l] = IF loader[l].on = u THEN z ELSE loader[l] BY <2>1, <2>2 DEF Moved
 <2> QED BY <1>1, <2>3, <2>4
<1>4. \A l \in Loader : s[l] \in LoaderRows BY <1>3 DEF LoaderInv
<1>5. s = [l \in Loader |-> s[l]] BY DEF Moved
<1> QED BY <1>3, <1>4, <1>5

(* answerName, which runs beside the loop: a verdict, a migration, or *)
(* nothing. *)
LEMMA AnswerKeeps ==
    ASSUME CommInv, NEW u \in Updater, answerName(u)
    PROVE  CommInv'
<1>1. PICK x : x = upd[u] OBVIOUS
<1>2. /\ x \in UpdRows /\ RowIsSound(x, net.endorsed, net.vouched) /\ HeardIsCached(x, cache.ipns) /\ (MustKeep => ArrivalsAreKept(x))
      /\ x.pc # "off" => x.addr \in Key \cup Name
      /\ x.sigOnce <= x.sigAt /\ x.sigAt <= x.sig /\ ShowsItsRecord(x, net.endorsed) /\ VerdictHolds(x, net.vouched) /\ CycleIsSound(x, net.endorsed)
    BY <1>1, RowsAre
<1>3. PICK done : done = [x EXCEPT !.bg = Nothing] OBVIOUS
<1>4. x.bg # Nothing /\ x.bg \in Name /\ UNCHANGED <<net, job>> BY <1>1, <1>2, RowTypes DEF answerName, UpdNames
<1>5. RowInv(x, net, cache, MustKeep) BY <1>2 DEF RowInv
<1>6. RowInv(done, net, cache, MustKeep) /\ done \in UpdRows /\ SameShown(x, done) /\ done.addr = x.addr /\ done.verdict = x.verdict
      /\ done.bg = Nothing /\ done.floors = x.floors
    BY <1>2, <1>3, <1>5, DoneKeeps
<1>7. x.publicKey # Nothing /\ x.publicKey \in Key BY <1>2, <1>4, RowTypes DEF VerdictHolds, UpdKeys
<1>8. CASE Set(u, done) /\ UNCHANGED <<cache, loader>> BY <1>4, <1>6, <1>8, OneRowOnly
<1>9. CASE Set(u, [done EXCEPT !.floors = @ \cup {"failed"}]) /\ UNCHANGED <<cache, loader>>
 <2>1. PICK f : f = done.floors \cup {"failed"} OBVIOUS
 <2>2. PICK y : y = [done EXCEPT !.floors = f] OBVIOUS
 <2>3. f \in UpdFloors BY <1>6, <2>1, RowTypes DEF UpdFloors
 <2>4. [done EXCEPT !.floors = f] \in UpdRows BY <1>6, <2>3, RowEdits
 <2>5. y \in UpdRows BY <2>2, <2>4
 <2>6. SameShown(done, y) /\ SameLoop(done, y) /\ SameVerdict(done, y) /\ y.addr = done.addr
     BY <1>6, <2>2 DEF UpdRows, SameShown, SameLoop, SameVerdict
 <2>7. VerdictHolds(y, net.vouched) BY <1>6, <2>6, SameIsSound DEF RowInv, RowIsSound
 <2>8. RowInv(y, net, cache, MustKeep) BY <1>6, <2>5, <2>6, <2>7, BesideTheLoop
 <2>9. Set(u, y) BY <1>6, <1>9, <2>1, <2>2 DEF UpdRows
 <2> QED BY <1>4, <1>9, <2>8, <2>9, OneRowOnly
<1>10. ASSUME NEW k \in Key \cup {Nothing}, NameAnswer(x.bg, k),
              IF ~nameStillIdentifiesCommunity(x) THEN Set(u, done) /\ UNCHANGED loader
              ELSE IF k # Nothing /\ k # x.publicKey /\ k \notin OwnHops(x)
              THEN \E revalidate \in IF job.push /\ x.pc = "parked" THEN BOOLEAN ELSE {x.revalidate} :
                   LET y == [Migrated(done, k) EXCEPT !.revalidate = revalidate] IN
                   /\ Set(u, y)
                   /\ loader' = [l \in Loader |-> IF loader[l].on = u
                                   THEN [Mirror(l, loader[l], y) EXCEPT !.told = @ \cup {k}] ELSE loader[l]]
              ELSE LET y == Verdict(done, IF k = x.publicKey THEN "yes" ELSE "no") IN
                   Set(u, y) /\ EmitVerdict(u, x, y)
       PROVE  CommInv'
 <2>1. k \in UpdKeys BY <1>10 DEF UpdKeys
 <2>2. <<x.bg, k>> \in net.vouched /\ WorldInv(net, cache') /\ cache'.ipns = cache.ipns BY <1>4, <1>10, <2>1, AnswersAreVouched DEF CommInv
 <2>3. ASSUME NEW y, RowInv(y, net, cache, MustKeep), Set(u, y), loader' \in [Loader -> LoaderRows],
              \A l \in Loader : LoaderInv(l, loader'[l], net)
       PROVE  CommInv'
     BY <1>4, <2>2, <2>3, OneRow
 <2>4. loader \in [Loader -> LoaderRows] /\ \A l \in Loader : LoaderInv(l, loader[l], net) BY DEF CommInv
 <2>5. CASE ~nameStillIdentifiesCommunity(x)
  <3>1. Set(u, done) /\ loader' = loader BY <1>10, <2>5
  <3> QED BY <1>6, <2>3, <2>4, <3>1
 <2>6. nameStillIdentifiesCommunity(x) => ClassifiedName(done) = x.bg /\ ClassifiedName(done) \in Name
     BY <1>4, <1>6 DEF nameStillIdentifiesCommunity, ClassifiedName, SameShown
 <2>7. CASE nameStillIdentifiesCommunity(x) /\ k # Nothing /\ k # x.publicKey /\ k \notin OwnHops(x)
  <3>1. PICK r \in BOOLEAN :
           LET y == [Migrated(done, k) EXCEPT !.revalidate = r] IN
           /\ Set(u, y)
           /\ loader' = [l \in Loader |-> IF loader[l].on = u
                           THEN [Mirror(l, loader[l], y) EXCEPT !.told = @ \cup {k}] ELSE loader[l]]
   <4>1. \A b \in (IF job.push /\ x.pc = "parked" THEN BOOLEAN ELSE {x.revalidate}) : b \in BOOLEAN BY <1>2, RowTypes
   <4> QED BY <1>10, <2>7, <4>1
  <3>2. PICK m : m = Migrated(done, k) OBVIOUS
  <3>3. PICK y : y = [m EXCEPT !.revalidate = r] OBVIOUS
  <3>4. k \in Key BY <1>10, <2>7
  <3>5. <<ClassifiedName(done), k>> \in net.vouched /\ done.publicKey # Nothing /\ ClassifiedName(done) \in Name
      BY <1>6, <1>7, <2>2, <2>6, <2>7 DEF SameShown
  <3>6. RowInv(m, net, cache, MustKeep) /\ m \in UpdRows BY <1>6, <3>2, <3>4, <3>5, MigratedKeeps
  <3>7. RowInv(y, net, cache, MustKeep) /\ y \in UpdRows BY <3>3, <3>6, SetRevalidate
  <3>8. ShowsItsRecord(y, net.endorsed) BY <3>7 DEF RowInv, RowIsSound
  <3>9. Set(u, y) /\ loader' = Moved(u, y, k) BY <3>1, <3>2, <3>3 DEF Moved
  <3>10. loader' \in [Loader -> LoaderRows] /\ \A l \in Loader : LoaderInv(l, loader'[l], net) BY <3>4, <3>7, <3>8, <3>9, MoveIsTold
  <3> QED BY <2>3, <3>7, <3>9, <3>10
 <2>8. CASE nameStillIdentifiesCommunity(x) /\ ~(k # Nothing /\ k # x.publicKey /\ k \notin OwnHops(x))
  <3>1. PICK w : w = IF k = x.publicKey THEN "yes" ELSE "no" OBVIOUS
  <3>2. PICK y : y = Verdict(done, w) OBVIOUS
  <3>3. Set(u, y) /\ EmitVerdict(u, x, y) BY <1>10, <2>8, <3>1, <3>2
  <3>4. w \in {"yes", "no"} /\ (w = "yes" => done.publicKey # Nothing /\ <<ClassifiedName(done), done.publicKey>> \in net.vouched)
      BY <1>6, <1>7, <2>2, <2>6, <2>8, <3>1 DEF SameShown
  <3>5. RowInv(y, net, cache, MustKeep) /\ y \in UpdRows /\ SameShown(done, y) BY <1>6, <2>6, <2>8, <3>2, <3>4, VerdictKeeps
  <3>6. ShowsItsRecord(y, net.endorsed) BY <3>5 DEF RowInv, RowIsSound
  <3>7. loader' \in [Loader -> LoaderRows] /\ \A l \in Loader : LoaderInv(l, loader'[l], net)
   <4>1. CASE loader' = loader BY <2>4, <4>1
   <4>2. CASE loader' = Emit(u, y) BY <3>5, <3>6, <4>2, EmitKeeps
   <4> QED BY <3>3, <4>1, <4>2 DEF EmitVerdict
  <3> QED BY <2>3, <3>3, <3>5, <3>7
 <2> QED BY <2>5, <2>7, <2>8
<1> QED BY <1>1, <1>3, <1>8, <1>9, <1>10 DEF answerName

----------------------------------------
(* A loader comes, joins an instance or makes one, and leaves. *)
LEMMA NoUpdaterKeeps ==
    ASSUME NEW s \in UpdStates, NEW y, y = [NoUpdater EXCEPT !.state = s], NEW n, NEW c, NEW must
    PROVE  NoUpdater \in UpdRows /\ y \in UpdRows /\ RowInv(y, n, c, must) /\ RowInv(NoUpdater, n, c, must)
<1>1. NoUpdater \in UpdRows
 <2>1. << >> \in UpdChains /\ {} \in UpdLoads /\ {} \in UpdFloors /\ {} \in UpdAliases /\ {} \in UpdTopics /\ {} \in UpdNews /\ {} \in UpdHeards
     BY DEF UpdChains, UpdLoads, UpdFloors, UpdAliases, UpdTopics, UpdNews, UpdHeards
 <2>2. Nothing \in UpdAddrs /\ Nothing \in UpdKeys /\ Nothing \in UpdNames /\ Nothing \in UpdCids
     BY DEF UpdAddrs, UpdKeys, UpdNames, UpdCids
 <2>3. "none" \in UpdStates /\ "unknown" \in UpdVerdicts /\ "off" \in UpdPcs BY DEF UpdStates, UpdVerdicts, UpdPcs
 <2> QED BY <2>1, <2>2, <2>3 DEF NoUpdater, UpdRows
<1>2. [NoUpdater EXCEPT !.state = s] \in UpdRows BY <1>1, RowEdits
<1>3. y \in UpdRows BY <1>2
<1>4. NoUpdater.pc = "off" /\ NoUpdater.cid = Nothing /\ NoUpdater.bg = Nothing /\ NoUpdater.verdict = "unknown" /\ NoUpdater.heard = {}
      /\ NoUpdater.sig = 0 /\ NoUpdater.sigAt = 0 /\ NoUpdater.sigOnce = 0
    BY DEF NoUpdater
<1>5. y.pc = "off" /\ y.cid = Nothing /\ y.bg = Nothing /\ y.verdict = "unknown" /\ y.heard = {} /\ y.sig = 0 /\ y.sigAt = 0 /\ y.sigOnce = 0
    BY <1>1, <1>4 DEF UpdRows
<1>6. ASSUME NEW z \in UpdRows, z.pc = "off", z.cid = Nothing, z.bg = Nothing, z.verdict = "unknown", z.heard = {}, z.sig = 0, z.sigAt = 0 /\ z.sigOnce = 0
      PROVE  RowInv(z, n, c, must)
 <2>1. CycleIsSound(z, n.endorsed) BY <1>6 DEF CycleIsSound, InCycle, FetchPcs
 <2>2. ShowsItsRecord(z, n.endorsed) /\ VerdictHolds(z, n.vouched) /\ ArrivalsAreKept(z) /\ HeardIsCached(z, c.ipns)
     BY <1>6 DEF ShowsItsRecord, VerdictHolds, ArrivalsAreKept, HeardIsCached, InCycle, FetchPcs
 <2> QED BY <2>1, <2>2 DEF RowInv, RowIsSound
<1> QED BY <1>1, <1>3, <1>4, <1>5, <1>6

(* A loader before it is created. *)
LEMMA NoLoaderIs == NoLoader \in LoaderRows /\ NoLoader.cid = Nothing
<1>1. Nothing \in UpdKeys /\ Nothing \in UpdNames /\ Nothing \in UpdCids /\ "none" \in LoaderStates /\ "unknown" \in UpdVerdicts
    BY DEF UpdKeys, UpdNames, UpdCids, LoaderStates, UpdVerdicts
<1> QED BY <1>1 DEF NoLoader, LoaderRows

(* A step of one loader. *)
LEMMA OneLoader ==
    ASSUME CommInv, NEW l \in Loader, NEW y, LoaderInv(l, y, net), loader' = [loader EXCEPT ![l] = y], UNCHANGED <<net, cache, job>>,
           upd' \in [Updater -> UpdRows], \A u \in Updater : RowInv(upd'[u], net, cache, MustKeep)
    PROVE  CommInv'
<1>1. y \in LoaderRows /\ loader \in [Loader -> LoaderRows] /\ \A m \in Loader : LoaderInv(m, loader[m], net) BY DEF CommInv, LoaderInv
<1>2. loader' \in [Loader -> LoaderRows] /\ \A m \in Loader : loader'[m] = IF m = l THEN y ELSE loader[m] BY <1>1
<1>3. \A m \in Loader : LoaderInv(m, loader'[m], net') BY <1>1, <1>2
<1>4. MustKeep' = MustKeep BY DEF MustKeep, ChainsAreShort
<1> QED BY <1>2, <1>3, <1>4 DEF CommInv

(* A loader takes over the key that it is owed the news of. *)
LEMMA AnnouncedKeeps ==
    ASSUME NEW l \in Loader, NEW y, NEW n, LoaderInv(l, y, n), NEW k \in UpdKeys, NEW z, z = Announced(y, k)
    PROVE  LoaderInv(l, z, n)
<1>1. y \in LoaderRows BY DEF LoaderInv
<1>2. CASE k = Nothing BY <1>2 DEF Announced
<1>3. CASE k # Nothing
 <2>1. PICK t : t = y.told \cup {k} OBVIOUS
 <2>2. PICK b : b = IF y.name # Nothing THEN "yes" ELSE y.verdict OBVIOUS
 <2>3. z = [[[[[y EXCEPT !.cid = Nothing] EXCEPT !.publicKey = k] EXCEPT !.told = t] EXCEPT !.owed = Nothing] EXCEPT !.verdict = b]
     BY <1>1, <1>3, <2>1, <2>2 DEF Announced, LoaderRows
 <2>4. t \in SUBSET Key /\ b \in UpdVerdicts /\ Nothing \in UpdCids /\ Nothing \in UpdKeys
     BY <1>1, <1>3, <2>1, <2>2 DEF LoaderRows, UpdVerdicts, UpdCids, UpdKeys
 <2>5. [y EXCEPT !.cid = Nothing] \in LoaderRows BY <1>1, <2>4, LoaderEdits
 <2>6. [[y EXCEPT !.cid = Nothing] EXCEPT !.publicKey = k] \in LoaderRows BY <2>5, LoaderEdits
 <2>7. [[[y EXCEPT !.cid = Nothing] EXCEPT !.publicKey = k] EXCEPT !.told = t] \in LoaderRows BY <2>4, <2>6, LoaderEdits
 <2>8. [[[[y EXCEPT !.cid = Nothing] EXCEPT !.publicKey = k] EXCEPT !.told = t] EXCEPT !.owed = Nothing] \in LoaderRows
     BY <2>4, <2>7, LoaderEdits
 <2>9. [[[[[y EXCEPT !.cid = Nothing] EXCEPT !.publicKey = k] EXCEPT !.told = t] EXCEPT !.owed = Nothing] EXCEPT !.verdict = b] \in LoaderRows
     BY <2>4, <2>8, LoaderEdits
 <2>10. z \in LoaderRows BY <2>3, <2>9
 <2>11. z.cid = Nothing BY <1>1, <2>3 DEF LoaderRows
 <2> QED BY <2>10, <2>11 DEF LoaderInv
<1> QED BY <1>2, <1>3

(* A community that is created beside one that updates starts with what *)
(* that one shows, unless it claims another name. *)
LEMMA WarmStartKeeps ==
    ASSUME NEW l \in Loader, NEW y, NEW n, LoaderInv(l, y, n), NEW x \in UpdRows, ShowsItsRecord(x, n.endorsed),
           NEW z, z = WarmStart(l, y, x)
    PROVE  LoaderInv(l, z, n)
<1>1. y \in LoaderRows BY DEF LoaderInv
<1>2. CASE z = y BY <1>2
<1>3. CASE z = [y EXCEPT !.owed = x.publicKey]
 <2>1. x.publicKey \in UpdKeys BY RowTypes
 <2>2. [y EXCEPT !.owed = x.publicKey] \in LoaderRows BY <1>1, <2>1, LoaderEdits
 <2>3. z \in LoaderRows /\ z.cid = y.cid /\ z.publicKey = y.publicKey /\ z.astray = y.astray BY <1>1, <1>3, <2>2 DEF LoaderRows
 <2> QED BY <2>3 DEF LoaderInv
<1>4. CASE RecAt(x.cid) # 0 /\ ~NameMismatch(l, x.cid)
           /\ z = (LET w == ShowRecord(y, x.cid, << >>) IN [w EXCEPT !.verdict = _adoptMirroredNameResolved(w, x, y)])
 <2>1. PICK hops : hops = << >> OBVIOUS
 <2>2. PICK w : w = ShowRecord(y, x.cid, hops) OBVIOUS
 <2>3. PICK t : t = _adoptMirroredNameResolved(w, x, y) OBVIOUS
 <2>4. z = [w EXCEPT !.verdict = t] BY <1>4, <2>1, <2>2, <2>3
 <2>5. x.cid # Nothing BY <1>4 DEF RecAt
 <2>6. x.cid \in Cid /\ hops \in UpdChains /\ Vouches(RecordKey(x.cid, hops), x.cid, n.endorsed) BY <2>1, <2>5, ShownIsVouched
 <2>7. w \in LoaderRows /\ w.cid = x.cid /\ w.publicKey = RecordKey(x.cid, hops) BY <1>1, <2>2, <2>6, ShowDoes
 <2>8. t \in UpdVerdicts BY <1>1, <2>3, <2>7, AdoptedIsVerdict
 <2>9. [w EXCEPT !.verdict = t] \in LoaderRows BY <2>7, <2>8, LoaderEdits
 <2>10. z \in LoaderRows /\ z.cid = x.cid /\ z.publicKey = RecordKey(x.cid, hops) BY <2>4, <2>7, <2>9 DEF LoaderRows
 <2> QED BY <1>4, <2>6, <2>10 DEF LoaderInv
<1> QED BY <1>2, <1>3, <1>4 DEF WarmStart

(* createCommunity, with or without an instance to start from. *)
LEMMA CreateKeeps ==
    ASSUME CommInv, NEW l \in Loader, createCommunity(l)
    PROVE  CommInv'
<1>1. PICK y : y = [NoLoader EXCEPT !.state = "stopped", !.publicKey = Asks[l].key, !.name = Asks[l].name] OBVIOUS
<1>2. PICK found : found = findUpdatingCommunity(y) OBVIOUS
<1>3. PICK u : u = CHOOSE v \in found : TRUE OBVIOUS
<1>4. PICK z : z = IF found = {} THEN y ELSE WarmStart(l, y, upd[u]) OBVIOUS
<1>5. loader' = [loader EXCEPT ![l] = z] /\ UNCHANGED <<net, cache, upd, job>> BY <1>1, <1>2, <1>3, <1>4 DEF createCommunity
<1>6. LoaderInv(l, y, net)
 <2>1. Asks[l].key \in UpdKeys /\ Asks[l].name \in UpdNames /\ "stopped" \in LoaderStates BY UpdConstants DEF LoaderStates
 <2>2. y = [[[NoLoader EXCEPT !.state = "stopped"] EXCEPT !.publicKey = Asks[l].key] EXCEPT !.name = Asks[l].name] BY <1>1
 <2>3. [NoLoader EXCEPT !.state = "stopped"] \in LoaderRows BY <2>1, NoLoaderIs, LoaderEdits
 <2>4. [[NoLoader EXCEPT !.state = "stopped"] EXCEPT !.publicKey = Asks[l].key] \in LoaderRows BY <2>1, <2>3, LoaderEdits
 <2>5. [[[NoLoader EXCEPT !.state = "stopped"] EXCEPT !.publicKey = Asks[l].key] EXCEPT !.name = Asks[l].name] \in LoaderRows
     BY <2>1, <2>4, LoaderEdits
 <2>6. y \in LoaderRows BY <2>2, <2>5
 <2>7. y.cid = Nothing BY <1>1, NoLoaderIs DEF LoaderRows
 <2> QED BY <2>6, <2>7 DEF LoaderInv
<1>7. LoaderInv(l, z, net)
 <2>1. CASE found = {} BY <1>4, <1>6, <2>1
 <2>2. CASE found # {}
  <3>1. u \in Updater BY <1>2, <1>3, <2>2 DEF findUpdatingCommunity
  <3>2. PICK x : x = upd[u] OBVIOUS
  <3>3. x \in UpdRows /\ ShowsItsRecord(x, net.endorsed) BY <3>1, <3>2, RowsAre
  <3>4. z = WarmStart(l, y, x) BY <1>4, <2>2, <3>2
  <3> QED BY <1>6, <3>3, <3>4, WarmStartKeeps
 <2> QED BY <2>1, <2>2
<1>8. upd' \in [Updater -> UpdRows] /\ \A w \in Updater : RowInv(upd'[w], net, cache, MustKeep) BY <1>5 DEF CommInv
<1> QED BY <1>5, <1>7, <1>8, OneLoader

(* A loader joins an instance that updates, and mirrors what it shows. *)
LEMMA AttachedKeeps ==
    ASSUME NEW l \in Loader, NEW y, NEW n, LoaderInv(l, y, n), NEW u \in Updater, NEW x \in UpdRows, ShowsItsRecord(x, n.endorsed),
           NEW z, z = Attached(l, y, u, x)
    PROVE  LoaderInv(l, z, n)
<1>1. PICK moved : moved = IF {y.publicKey, x.publicKey} # {Nothing} /\ Nothing \notin {y.publicKey, x.publicKey}
                              /\ y.publicKey # x.publicKey THEN x.publicKey ELSE Nothing
    OBVIOUS
<1>2. PICK a : a = [y EXCEPT !.on = u] OBVIOUS
<1>3. PICK b : b = Announced(a, moved) OBVIOUS
<1>4. z = IF RecAt(b.cid) < RecAt(x.cid) THEN Mirror(l, b, x) ELSE b BY <1>1, <1>2, <1>3 DEF Attached
<1>5. moved \in UpdKeys BY <1>1, RowTypes DEF UpdKeys
<1>6. LoaderInv(l, a, n)
 <2>1. y \in LoaderRows BY DEF LoaderInv
 <2>2. [y EXCEPT !.on = u] \in LoaderRows BY <2>1, LoaderEdits
 <2>3. a \in LoaderRows /\ a.cid = y.cid /\ a.publicKey = y.publicKey /\ a.astray = y.astray BY <1>2, <2>1, <2>2 DEF LoaderRows
 <2> QED BY <2>3 DEF LoaderInv
<1>7. LoaderInv(l, b, n) BY <1>3, <1>5, <1>6, AnnouncedKeeps
<1>8. CASE RecAt(b.cid) < RecAt(x.cid)
 <2>1. z = Mirror(l, b, x) BY <1>4, <1>8
 <2> QED BY <1>7, <2>1, MirrorKeeps
<1>9. CASE ~(RecAt(b.cid) < RecAt(x.cid)) BY <1>4, <1>7, <1>9
<1> QED BY <1>8, <1>9

(* An instance that begins to update shows nothing yet. *)
LEMMA NewUpdaterKeeps ==
    ASSUME NEW l \in Loader, NEW y \in LoaderRows, NEW x, x = NewUpdater(l, y), NEW n, NEW c, NEW must
    PROVE  x \in UpdRows /\ RowInv(x, n, c, must)
<1>1. PICK a : a = LoaderAddress(l) OBVIOUS
<1>2. PICK m : m = IF a \in Name THEN a ELSE Nothing OBVIOUS
<1>3. PICK k : k = IF a \in Key THEN a ELSE y.publicKey OBVIOUS
<1>4. a \in Key \cup Name /\ a \in UpdAddrs /\ m \in UpdNames /\ k \in UpdKeys
 <2>1. a \in Key \cup Name BY <1>1, UpdConstants
 <2>2. y.publicKey \in UpdKeys BY DEF LoaderRows
 <2> QED BY <1>2, <1>3, <2>1, <2>2 DEF UpdAddrs, UpdNames, UpdKeys
<1>5. PICK o : o = [NoUpdater EXCEPT !.state = "updating"] OBVIOUS
<1>6. PICK p : p = [[[[[o EXCEPT !.addr = a] EXCEPT !.name = m] EXCEPT !.publicKey = k] EXCEPT !.pc = "begin"] EXCEPT !.sig = 1] OBVIOUS
<1>7. o \in UpdRows BY <1>5, NoUpdaterKeeps DEF UpdStates
<1>8. p \in UpdRows
 <2>1. [o EXCEPT !.addr = a] \in UpdRows BY <1>4, <1>7 DEF UpdRows
 <2>2. [[o EXCEPT !.addr = a] EXCEPT !.name = m] \in UpdRows BY <1>4, <2>1, RowEdits
 <2>3. [[[o EXCEPT !.addr = a] EXCEPT !.name = m] EXCEPT !.publicKey = k] \in UpdRows BY <1>4, <2>2, RowEdits
 <2>4. "begin" \in UpdPcs /\ 1 \in Nat BY DEF UpdPcs
 <2>5. [[[[o EXCEPT !.addr = a] EXCEPT !.name = m] EXCEPT !.publicKey = k] EXCEPT !.pc = "begin"] \in UpdRows BY <2>3, <2>4, RowEdits
 <2>6. [[[[[o EXCEPT !.addr = a] EXCEPT !.name = m] EXCEPT !.publicKey = k] EXCEPT !.pc = "begin"] EXCEPT !.sig = 1] \in UpdRows
     BY <2>4, <2>5, RowEdits
 <2> QED BY <1>6, <2>6
<1>9. /\ o.cid = Nothing /\ o.bg = Nothing /\ o.verdict = "unknown" /\ o.heard = {} /\ o.sigAt = 0 /\ o.sigOnce = 0 BY <1>5 DEF NoUpdater
<1>10. /\ p.cid = Nothing /\ p.bg = Nothing /\ p.verdict = "unknown" /\ p.heard = {} /\ p.sigAt = 0 /\ p.sigOnce = 0 /\ p.sig = 1 /\ p.pc = "begin" /\ p.addr = a
    BY <1>6, <1>7, <1>9 DEF UpdRows
<1>11. PICK al : al = (p.aliases \ ({} \ ({ProvenName(p), p.publicKey} \ {Nothing}))) \cup ({ProvenName(p), p.publicKey} \ {Nothing})
    OBVIOUS
<1>12. PICK q : q = [p EXCEPT !.aliases = al] OBVIOUS
<1>13. al \in UpdAliases
 <2>1. ProvenName(p) \in UpdAddrs /\ p.publicKey \in UpdAddrs BY <1>8, RowTypes DEF ProvenName, UpdAddrs, UpdNames, UpdKeys
 <2>2. p.aliases \subseteq UpdAddrs BY <1>8, RowTypes DEF UpdAliases
 <2> QED BY <1>11, <2>1, <2>2 DEF UpdAliases
<1>14. [p EXCEPT !.aliases = al] \in UpdRows BY <1>8, <1>13, RowEdits
<1>15. q \in UpdRows BY <1>12, <1>14
<1>16. /\ q.cid = Nothing /\ q.bg = Nothing /\ q.verdict = "unknown" /\ q.heard = {} /\ q.sigAt = 0 /\ q.sigOnce = 0 /\ q.sig = 1 /\ q.pc = "begin" /\ q.addr = a
    BY <1>8, <1>10, <1>12 DEF UpdRows
<1>17. x = _syncIpnsArrivalSubscriptions(q)
 <2>1. p = [NoUpdater EXCEPT !.state = "updating", !.addr = a, !.name = m, !.publicKey = k, !.pc = "begin", !.sig = 1] BY <1>5, <1>6
 <2>2. q = Aliased(p, Nothing) BY <1>8, <1>11, <1>12 DEF Aliased, UpdRows
 <2> QED BY <1>1, <1>2, <1>3, <2>1, <2>2 DEF NewUpdater
<1>18. /\ x \in UpdRows /\ SameShown(q, x) /\ SameVerdict(q, x) /\ x.pc = q.pc /\ x.sig = q.sig /\ x.sigAt = q.sigAt /\ x.sigOnce = q.sigOnce /\ x.heard = q.heard
    BY <1>15, <1>17, SyncDoes
<1>19. CycleIsSound(x, n.endorsed) BY <1>4, <1>16, <1>18 DEF CycleIsSound, InCycle, FetchPcs, SameVerdict
<1>20. ShowsItsRecord(x, n.endorsed) /\ VerdictHolds(x, n.vouched) BY <1>16, <1>18 DEF ShowsItsRecord, VerdictHolds, SameShown, SameVerdict
<1>21. ArrivalsAreKept(x) /\ HeardIsCached(x, c.ipns) BY <1>16, <1>18 DEF ArrivalsAreKept, HeardIsCached, InCycle, FetchPcs
<1> QED BY <1>18, <1>19, <1>20, <1>21 DEF RowInv, RowIsSound

(* An instance loses an alias to another. *)
LEMMA UnaliasedKeeps ==
    ASSUME NEW x \in UpdRows, NEW s, NEW y, y = [x EXCEPT !.aliases = @ \ s], NEW n, NEW c, NEW must, RowInv(x, n, c, must)
    PROVE  RowInv(y, n, c, must)
<1>1. PICK al : al = x.aliases \ s OBVIOUS
<1>2. al \in UpdAliases BY <1>1, RowTypes DEF UpdAliases
<1>3. y = [x EXCEPT !.aliases = al] BY <1>1 DEF UpdRows
<1>4. [x EXCEPT !.aliases = al] \in UpdRows BY <1>2, RowEdits
<1>5. y \in UpdRows BY <1>3, <1>4
<1>6. SameShown(x, y) /\ SameLoop(x, y) /\ SameVerdict(x, y) /\ y.addr = x.addr BY <1>3 DEF UpdRows, SameShown, SameLoop, SameVerdict
<1>7. VerdictHolds(y, n.vouched) BY <1>6, SameIsSound DEF RowInv, RowIsSound
<1> QED BY <1>5, <1>6, <1>7, BesideTheLoop

(* update joins the instance that updates the community, or makes one. *)
LEMMA UpdateKeeps ==
    ASSUME CommInv, NEW l \in Loader, update(l)
    PROVE  CommInv'
<1>1. PICK o : o = [loader[l] EXCEPT !.state = "updating"] OBVIOUS
<1>2. PICK y : y = Announced(o, loader[l].owed) OBVIOUS
<1>3. PICK found : found = findUpdatingCommunity(y) OBVIOUS
<1>4. LoaderInv(l, loader[l], net) /\ loader[l] \in LoaderRows BY DEF CommInv
<1>5. LoaderInv(l, o, net)
 <2>1. "updating" \in LoaderStates BY DEF LoaderStates
 <2>2. [loader[l] EXCEPT !.state = "updating"] \in LoaderRows BY <1>4, <2>1, LoaderEdits
 <2>3. o \in LoaderRows /\ o.cid = loader[l].cid /\ o.publicKey = loader[l].publicKey /\ o.astray = loader[l].astray BY <1>1, <1>4, <2>2 DEF LoaderRows
 <2> QED BY <1>4, <2>3 DEF LoaderInv
<1>6. LoaderInv(l, y, net) /\ y \in LoaderRows
 <2>1. PICK k : k = loader[l].owed OBVIOUS
 <2>2. k \in UpdKeys BY <1>4, <2>1 DEF LoaderRows
 <2>3. y = Announced(o, k) BY <1>2, <2>1
 <2>4. LoaderInv(l, y, net) BY <1>5, <2>2, <2>3, AnnouncedKeeps
 <2> QED BY <2>4 DEF LoaderInv
<1>7. UNCHANGED <<net, cache, job>> BY DEF update
<1>8. \A u \in Updater : RowInv(upd[u], net, cache, MustKeep) BY DEF CommInv
<1>9. CASE found # {}
 <2>1. PICK u : u = CHOOSE v \in found : TRUE OBVIOUS
 <2>2. PICK x : x = upd[u] OBVIOUS
 <2>3. PICK z : z = Attached(l, y, u, x) OBVIOUS
 <2>4. loader' = [loader EXCEPT ![l] = z] /\ upd' = upd BY <1>1, <1>2, <1>3, <1>9, <2>1, <2>2, <2>3 DEF update
 <2>5. u \in Updater BY <1>3, <1>9, <2>1 DEF findUpdatingCommunity
 <2>6. x \in UpdRows /\ ShowsItsRecord(x, net.endorsed) BY <2>2, <2>5, RowsAre
 <2>7. LoaderInv(l, z, net) BY <1>6, <2>3, <2>5, <2>6, AttachedKeeps
 <2>8. upd' \in [Updater -> UpdRows] /\ \A w \in Updater : RowInv(upd'[w], net, cache, MustKeep) BY <1>8, <2>4 DEF CommInv
 <2> QED BY <1>7, <2>4, <2>7, <2>8, OneLoader
<1>10. CASE found = {}
 <2>1. PICK u \in Updater :
          LET x == NewUpdater(l, y) IN
          /\ upd' = [v \in Updater |-> IF v = u THEN x ELSE [upd[v] EXCEPT !.aliases = @ \ x.aliases]]
          /\ loader' = [loader EXCEPT ![l] = Attached(l, y, u, x)]
     BY <1>1, <1>2, <1>3, <1>10 DEF update
 <2>2. PICK x : x = NewUpdater(l, y) OBVIOUS
 <2>3. PICK z : z = Attached(l, y, u, x) OBVIOUS
 <2>4. /\ upd' = [v \in Updater |-> IF v = u THEN x ELSE [upd[v] EXCEPT !.aliases = @ \ x.aliases]]
       /\ loader' = [loader EXCEPT ![l] = z]
     BY <2>1, <2>2, <2>3
 <2>5. x \in UpdRows /\ RowInv(x, net, cache, MustKeep) BY <1>6, <2>2, NewUpdaterKeeps
 <2>6. ShowsItsRecord(x, net.endorsed) BY <2>5 DEF RowInv, RowIsSound
 <2>7. LoaderInv(l, z, net) BY <1>6, <2>3, <2>5, <2>6, AttachedKeeps
 <2>8. ASSUME NEW w \in Updater
       PROVE  RowInv(upd'[w], net, cache, MustKeep)
  <3>1. CASE w = u BY <2>4, <2>5, <3>1
  <3>2. CASE w # u
   <4>1. PICK v : v = upd[w] OBVIOUS
   <4>2. PICK s : s = x.aliases OBVIOUS
   <4>3. PICK r : r = [v EXCEPT !.aliases = @ \ s] OBVIOUS
   <4>4. v \in UpdRows /\ RowInv(v, net, cache, MustKeep) BY <1>8, <4>1 DEF RowInv
   <4>5. RowInv(r, net, cache, MustKeep) BY <4>3, <4>4, UnaliasedKeeps
   <4>6. upd'[w] = r BY <2>4, <3>2, <4>1, <4>2, <4>3
   <4> QED BY <4>5, <4>6
  <3> QED BY <3>1, <3>2
 <2>9. upd' \in [Updater -> UpdRows]
  <3>1. \A w \in Updater : upd'[w] \in UpdRows BY <2>8 DEF RowInv
  <3>2. upd' = [w \in Updater |-> upd'[w]] BY <2>4
  <3> QED BY <3>1, <3>2
 <2> QED BY <1>7, <2>4, <2>7, <2>8, <2>9, OneLoader
<1> QED BY <1>9, <1>10

(* stop leaves the instance; with its last loader the instance stops. *)
LEMMA StopKeeps ==
    ASSUME CommInv, NEW l \in Loader, stop(l)
    PROVE  CommInv'
<1>1. PICK y : y = [[loader[l] EXCEPT !.state = "done"] EXCEPT !.on = Nothing] OBVIOUS
<1>2. PICK s : s = [NoUpdater EXCEPT !.state = "stopped"] OBVIOUS
<1>3. LoaderInv(l, loader[l], net) /\ loader[l] \in LoaderRows /\ loader \in [Loader -> LoaderRows] BY DEF CommInv
<1>4. loader' = [loader EXCEPT ![l] = y] /\ UNCHANGED <<net, cache, job>> BY <1>1, <1>3 DEF stop
<1>5. upd' = upd \/ upd' = [upd EXCEPT ![loader[l].on] = s] BY <1>2 DEF stop
<1>6. LoaderInv(l, y, net)
 <2>1. "done" \in LoaderStates BY DEF LoaderStates
 <2>2. [loader[l] EXCEPT !.state = "done"] \in LoaderRows BY <1>3, <2>1, LoaderEdits
 <2>3. [[loader[l] EXCEPT !.state = "done"] EXCEPT !.on = Nothing] \in LoaderRows BY <2>2, LoaderEdits
 <2>4. y \in LoaderRows /\ y.cid = loader[l].cid /\ y.publicKey = loader[l].publicKey /\ y.astray = loader[l].astray BY <1>1, <1>3, <2>3 DEF LoaderRows
 <2> QED BY <1>3, <2>4 DEF LoaderInv
<1>7. s \in UpdRows /\ RowInv(s, net, cache, MustKeep) BY <1>2, NoUpdaterKeeps DEF UpdStates
<1>8. upd \in [Updater -> UpdRows] /\ \A w \in Updater : RowInv(upd[w], net, cache, MustKeep) BY DEF CommInv
<1>9. upd' \in [Updater -> UpdRows] /\ \A w \in Updater : upd'[w] \in {s, upd[w]} BY <1>5, <1>7, <1>8
<1>10. \A w \in Updater : RowInv(upd'[w], net, cache, MustKeep) BY <1>7, <1>8, <1>9
<1> QED BY <1>4, <1>6, <1>9, <1>10, OneLoader

----------------------------------------
(* What once was endorsed or vouched for stays so. *)
LEMMA MoreIsSound ==
    ASSUME NEW n, NEW o, n.endorsed \subseteq o.endorsed, n.vouched \subseteq o.vouched, NEW c, NEW must, NEW must2, must2 => must
    PROVE  /\ \A x : RowInv(x, n, c, must) => RowInv(x, o, c, must2)
           /\ \A l, y : LoaderInv(l, y, n) => LoaderInv(l, y, o)
<1>1. ASSUME NEW x, RowInv(x, n, c, must)
      PROVE  RowInv(x, o, c, must2)
 <2>1. CycleIsSound(x, n.endorsed) /\ ShowsItsRecord(x, n.endorsed) /\ VerdictHolds(x, n.vouched) BY <1>1 DEF RowInv, RowIsSound
 <2>2. CycleIsSound(x, o.endorsed) BY <2>1 DEF CycleIsSound
 <2>3. ShowsItsRecord(x, o.endorsed) BY <2>1 DEF ShowsItsRecord, Vouches
 <2>4. VerdictHolds(x, o.vouched) BY <2>1 DEF VerdictHolds
 <2> QED BY <1>1, <2>2, <2>3, <2>4 DEF RowInv, RowIsSound
<1>2. ASSUME NEW l, NEW y, LoaderInv(l, y, n)
      PROVE  LoaderInv(l, y, o)
    BY <1>2 DEF LoaderInv, Vouches
<1> QED BY <1>1, <1>2

(* The owner publishes a record, a delegation or a name: what was endorsed *)
(* and vouched for stays so, and what is pushed is kept. *)
LEMMA PublishKeeps ==
    ASSUME CommInv, publish
    PROVE  CommInv'
<1>1. PICK c : c = Head(net.script) OBVIOUS
<1>2. PICK n : n = Changed(c) OBVIOUS
<1>3. PICK e : e = net.endorsed \cup {<<k, n.ipns[k]>> : k \in {j \in Key : n.ipns[j] \in Key}} OBVIOUS
<1>4. PICK v : v = net.vouched \cup {<<m, n.txt[m]>> : m \in Name} OBVIOUS
<1>5. net \in UpdWorlds /\ cache \in UpdCaches /\ WorldIsTold(net, cache) BY DEF CommInv, WorldInv
<1>6. net.script # << >> /\ c \in UpdChanges /\ Tail(net.script) \in Seq(UpdChanges)
 <2>1. net.script \in Seq(UpdChanges) /\ net.script # << >> BY <1>5 DEF UpdWorlds, publish
 <2> QED BY <1>1, <2>1
<1>7. (c.at \in Key /\ c.to \in UpdPushes) \/ (c.at \notin Key /\ c.at \in Name /\ c.to \in UpdKeys) BY <1>6, UpdConstants DEF UpdChanges
<1>8. /\ n.ipns \in [Key -> UpdValues] /\ n.txt \in [Name -> UpdKeys] /\ n.endorsed = net.endorsed /\ n.vouched = net.vouched
      /\ n.script = net.script /\ n \in UpdWorlds
      /\ c.at \in Key => \A k \in Key : n.ipns[k] = IF k = c.at THEN c.to ELSE net.ipns[k]
      /\ c.at \notin Key => n.ipns = net.ipns
 <2>1. CASE c.at \in Key
  <3>1. n = [net EXCEPT !.ipns = [net.ipns EXCEPT ![c.at] = c.to]] BY <1>2, <1>5, <2>1 DEF Changed, UpdWorlds
  <3>2. [net.ipns EXCEPT ![c.at] = c.to] \in [Key -> UpdValues] BY <1>5, <1>7, <2>1 DEF UpdWorlds, UpdPushes, UpdValues
  <3>3. n.ipns = [net.ipns EXCEPT ![c.at] = c.to] /\ n.txt = net.txt /\ n.endorsed = net.endorsed /\ n.vouched = net.vouched
        /\ n.script = net.script /\ n \in UpdWorlds
      BY <1>5, <3>1, <3>2 DEF UpdWorlds
  <3>4. net.ipns \in [Key -> UpdValues] /\ net.txt \in [Name -> UpdKeys] BY <1>5 DEF UpdWorlds
  <3> QED BY <2>1, <3>2, <3>3, <3>4
 <2>2. CASE c.at \notin Key
  <3>1. n = [net EXCEPT !.txt = [net.txt EXCEPT ![c.at] = c.to]] BY <1>2, <1>5, <2>2 DEF Changed, UpdWorlds
  <3>2. [net.txt EXCEPT ![c.at] = c.to] \in [Name -> UpdKeys] BY <1>5, <1>7, <2>2 DEF UpdWorlds
  <3>3. n.ipns = net.ipns /\ n.txt = [net.txt EXCEPT ![c.at] = c.to] /\ n.endorsed = net.endorsed /\ n.vouched = net.vouched
        /\ n.script = net.script /\ n \in UpdWorlds
      BY <1>5, <3>1, <3>2 DEF UpdWorlds
  <3>4. net.ipns \in [Key -> UpdValues] BY <1>5 DEF UpdWorlds
  <3> QED BY <2>2, <3>2, <3>3, <3>4
 <2> QED BY <2>1, <2>2
<1>9. /\ net' = [n EXCEPT !.script = Tail(net.script), !.endorsed = e, !.vouched = v]
 <2>1. net' = [n EXCEPT !.script = Tail(@),
                       !.endorsed = @ \cup {<<k, n.ipns[k]>> : k \in {j \in Key : n.ipns[j] \in Key}},
                       !.vouched = @ \cup {<<m, n.txt[m]>> : m \in Name}]
     BY <1>1, <1>2 DEF publish
 <2> QED BY <1>3, <1>4, <1>8, <2>1 DEF UpdWorlds
<1>10. e \in SUBSET (Key \X Key) /\ v \in SUBSET (Name \X UpdKeys)
 <2>1. {<<k, n.ipns[k]>> : k \in {j \in Key : n.ipns[j] \in Key}} \subseteq Key \X Key OBVIOUS
 <2>2. {<<m, n.txt[m]>> : m \in Name} \subseteq Name \X UpdKeys BY <1>8
 <2>3. net.endorsed \subseteq Key \X Key /\ net.vouched \subseteq Name \X UpdKeys BY <1>5 DEF UpdWorlds
 <2> QED BY <1>3, <1>4, <2>1, <2>2, <2>3
<1>11. /\ net'.endorsed = e /\ net'.vouched = v /\ net'.ipns = n.ipns /\ net'.txt = n.txt /\ net' \in UpdWorlds
    BY <1>6, <1>8, <1>9, <1>10 DEF UpdWorlds
<1>12. net.endorsed \subseteq e /\ net.vouched \subseteq v BY <1>3, <1>4
<1>13. /\ \A k \in Key : n.ipns[k] \in Key => <<k, n.ipns[k]>> \in e
       /\ \A m \in Name : <<m, n.txt[m]>> \in v
    BY <1>3, <1>4
<1>14. UNCHANGED <<loader, job>> BY DEF publish
<1>15. MustKeep' => MustKeep BY <1>11, <1>12, <1>14 DEF MustKeep, ChainsAreShort
<1>16. ASSUME NEW x, NEW d, RowInv(x, net, d, MustKeep)
       PROVE  RowInv(x, net', d, MustKeep')
    BY <1>11, <1>12, <1>15, <1>16, MoreIsSound
<1>17. \A l \in Loader : LoaderInv(l, loader'[l], net')
 <2>1. ASSUME NEW l \in Loader
       PROVE  LoaderInv(l, loader[l], net')
  <3>1. LoaderInv(l, loader[l], net) BY DEF CommInv
  <3> QED BY <1>11, <1>12, <3>1 DEF LoaderInv, Vouches
 <2> QED BY <1>14, <2>1
<1>18. ASSUME WorldInv(net', cache'), upd' \in [Updater -> UpdRows], \A w \in Updater : RowInv(upd'[w], net, cache', MustKeep)
       PROVE  CommInv'
 <2>1. \A w \in Updater : RowInv(upd'[w], net', cache', MustKeep') BY <1>16, <1>18
 <2>2. loader' \in [Loader -> LoaderRows] /\ job' \in UpdWorkload BY <1>14 DEF CommInv
 <2> QED BY <1>17, <1>18, <2>1, <2>2 DEF CommInv
<1>19. CASE UNCHANGED <<cache, upd>>
 <2>1. WorldIsTold(net', cache') BY <1>5, <1>11, <1>12, <1>13, <1>19 DEF WorldIsTold
 <2>2. upd' \in [Updater -> UpdRows] /\ \A w \in Updater : RowInv(upd'[w], net, cache', MustKeep) BY <1>19 DEF CommInv
 <2> QED BY <1>5, <1>11, <1>18, <1>19, <2>1, <2>2 DEF WorldInv
<1>20. CASE /\ c.at \in Key /\ job.push
            /\ cache' = [cache EXCEPT !.ipns[c.at] = c.to]
            /\ upd' = [u \in Updater |-> _onIpnsRecordArrival(upd[u], {c.at}, n.ipns)]
 <2>1. PICK i : i = [cache.ipns EXCEPT ![c.at] = c.to] OBVIOUS
 <2>2. PICK d : d = [cache EXCEPT !.ipns = i] OBVIOUS
 <2>3. cache' = d BY <1>5, <1>20, <2>1, <2>2 DEF UpdCaches
 <2>4. c.to \in UpdPushes BY <1>7, <1>20
 <2>5. i \in [Key -> UpdValues] /\ \A k \in Key : i[k] = IF k = c.at THEN c.to ELSE cache.ipns[k]
     BY <1>5, <1>20, <2>1, <2>4 DEF UpdCaches, UpdValues, UpdPushes
 <2>6. d \in UpdCaches /\ d.ipns = i /\ d.named = cache.named BY <1>5, <2>2, <2>5 DEF UpdCaches
 <2>7. n.ipns[c.at] = c.to /\ c.to # Nothing BY <1>8, <1>20, <2>4, UpdConstants DEF UpdPushes
 <2>8. WorldIsTold(net', d)
  <3>1. \A m \in Name : <<m, n.txt[m]>> \in v /\ (d.named[m] # Nothing => <<m, d.named[m]>> \in v)
      BY <1>5, <1>12, <1>13, <2>6 DEF WorldIsTold
  <3>2. \A k \in Key : n.ipns[k] \in Key => <<k, n.ipns[k]>> \in e BY <1>13
  <3>3. ASSUME NEW k \in Key, d.ipns[k] \in Key
        PROVE  <<k, d.ipns[k]>> \in e
   <4>1. CASE k = c.at BY <2>5, <2>6, <2>7, <3>2, <3>3, <4>1
   <4>2. CASE k # c.at BY <1>5, <1>12, <2>5, <2>6, <3>3, <4>2 DEF WorldIsTold
   <4> QED BY <4>1, <4>2
  <3> QED BY <1>11, <3>1, <3>2, <3>3 DEF WorldIsTold
 <2>9. PICK names : names = {c.at} OBVIOUS
 <2>10. PICK at : at = n.ipns OBVIOUS
 <2>11. PushReaches(names, at, cache.ipns, d.ipns) BY <1>8, <1>20, <2>5, <2>6, <2>7, <2>9, <2>10 DEF PushReaches
 <2>12. ASSUME NEW w \in Updater
        PROVE  RowInv(upd'[w], net, d, MustKeep)
  <3>1. PICK y : y = _onIpnsRecordArrival(upd[w], names, at) OBVIOUS
  <3>2. RowInv(y, net, d, MustKeep) BY <2>11, <3>1, ToldKeep
  <3> QED BY <1>20, <2>9, <2>10, <3>1, <3>2
 <2>13. upd' \in [Updater -> UpdRows]
  <3>1. \A w \in Updater : upd'[w] \in UpdRows BY <2>12 DEF RowInv
  <3>2. upd' = [w \in Updater |-> upd'[w]] BY <1>20
  <3> QED BY <3>1, <3>2
 <2>14. WorldInv(net', cache') BY <1>11, <2>3, <2>6, <2>8 DEF WorldInv
 <2> QED BY <1>18, <2>3, <2>12, <2>13, <2>14
<1> QED BY <1>1, <1>2, <1>19, <1>20 DEF publish

----------------------------------------
(* No instance runs at first, and no loader shows anything. *)
LEMMA CommInit == UpdInit => CommInv
<1> SUFFICES ASSUME UpdInit PROVE CommInv OBVIOUS
<1>1. /\ job \in UpdWorkload
      /\ job.ipns \in [Key -> UpdValues] /\ job.txt \in [Name -> UpdKeys] /\ job.script \in Seq(UpdChanges)
    BY UpdAssumption DEF UpdInit, UpdValues, UpdKeys, UpdChanges, UpdPushes
<1>2. PICK e : e = {<<k, job.ipns[k]>> : k \in {j \in Key : job.ipns[j] \in Key}} OBVIOUS
<1>3. PICK v : v = {<<m, job.txt[m]>> : m \in Name} OBVIOUS
<1>4. net = [ipns |-> job.ipns, txt |-> job.txt, script |-> job.script, endorsed |-> e, vouched |-> v] BY <1>2, <1>3 DEF UpdInit
<1>5. e \in SUBSET (Key \X Key) /\ v \in SUBSET (Name \X UpdKeys) BY <1>1, <1>2, <1>3
<1>6. net \in UpdWorlds /\ net.ipns = job.ipns /\ net.txt = job.txt /\ net.endorsed = e /\ net.vouched = v BY <1>1, <1>4, <1>5 DEF UpdWorlds
<1>7. cache = [ipns |-> [k \in Key |-> Nothing], named |-> [m \in Name |-> Nothing]] BY DEF UpdInit
<1>8. cache \in UpdCaches /\ (\A k \in Key : cache.ipns[k] = Nothing) /\ \A m \in Name : cache.named[m] = Nothing
    BY <1>7 DEF UpdCaches, UpdValues, UpdKeys
<1>9. WorldIsTold(net, cache)
 <2>1. \A m \in Name : <<m, job.txt[m]>> \in v BY <1>3
 <2>2. \A k \in Key : job.ipns[k] \in Key => <<k, job.ipns[k]>> \in e BY <1>2
 <2> QED BY <1>6, <1>8, <2>1, <2>2, UpdConstants DEF WorldIsTold
<1>10. NoUpdater \in UpdRows /\ RowInv(NoUpdater, net, cache, MustKeep)
 <2>1. "none" \in UpdStates BY DEF UpdStates
 <2> QED BY <2>1, NoUpdaterKeeps
<1>11. upd \in [Updater -> UpdRows] /\ \A u \in Updater : RowInv(upd[u], net, cache, MustKeep) BY <1>10 DEF UpdInit
<1>12. loader \in [Loader -> LoaderRows] /\ \A l \in Loader : LoaderInv(l, loader[l], net) BY NoLoaderIs DEF UpdInit, LoaderInv
<1> QED BY <1>1, <1>6, <1>8, <1>9, <1>11, <1>12 DEF CommInv, WorldInv

(* Every step keeps the invariant. *)
LEMMA CommNext == CommInv /\ [UpdNext]_updVars => CommInv'
<1> SUFFICES ASSUME CommInv, [UpdNext]_updVars PROVE CommInv' OBVIOUS
<1>1. CASE publish BY <1>1, PublishKeeps
<1>2. ASSUME NEW u \in Updater, UpdaterStep(u) PROVE CommInv'
    BY <1>2, BeginsKeep, NamingKeeps, ResolveKeeps, FetchRecordKeeps, ProveKeeps, VerifyKeeps, ApplyKeeps, SafetyNetKeeps,
       AnswerKeeps, FloorKeeps DEF UpdaterStep
<1>3. ASSUME NEW l \in Loader, createCommunity(l) \/ update(l) \/ stop(l) PROVE CommInv' BY <1>3, CreateKeeps, UpdateKeeps, StopKeeps
<1>4. CASE UNCHANGED updVars
 <2>1. net' = net /\ cache' = cache /\ upd' = upd /\ loader' = loader /\ job' = job BY <1>4 DEF updVars
 <2>2. MustKeep' = MustKeep BY <2>1 DEF MustKeep, ChainsAreShort
 <2> QED BY <2>1, <2>2 DEF CommInv
<1> QED BY <1>1, <1>2, <1>3, <1>4 DEF UpdNext

(* The invariant says more than the property that is checked. *)
LEMMA CommInvMeans == CommInv => UpdatesAreTrue
<1> SUFFICES ASSUME CommInv PROVE UpdatesAreTrue OBVIOUS
<1>1. ASSUME NEW u \in Updater
      PROVE  /\ upd[u].cid # Nothing => Endorses(upd[u].publicKey, upd[u].cid)
             /\ upd[u].verdict = "yes" => <<ClassifiedName(upd[u]), upd[u].publicKey>> \in net.vouched
             /\ MustKeep /\ upd[u].pc = "parked" => \A p \in upd[u].heard : p[1] \in upd[u].topics => ~Unconsumed(upd[u], p[2])
 <2>1. PICK x : x = upd[u] OBVIOUS
 <2>2. ShowsItsRecord(x, net.endorsed) /\ VerdictHolds(x, net.vouched) /\ (MustKeep => ArrivalsAreKept(x)) BY <2>1, RowsAre
 <2>3. x.cid # Nothing => Endorses(x.publicKey, x.cid) BY <2>2 DEF ShowsItsRecord, Endorses, Vouches
 <2>4. x.verdict = "yes" => <<ClassifiedName(x), x.publicKey>> \in net.vouched BY <2>2 DEF VerdictHolds
 <2>5. MustKeep /\ x.pc = "parked" => \A p \in x.heard : p[1] \in x.topics => ~Unconsumed(x, p[2]) BY <2>2 DEF ArrivalsAreKept
 <2> QED BY <2>1, <2>3, <2>4, <2>5
<1>2. ASSUME NEW l \in Loader
      PROVE  loader[l].cid # Nothing => (~loader[l].astray => Endorses(loader[l].publicKey, loader[l].cid)) /\ ~NameMismatch(l, loader[l].cid)
 <2>1. LoaderInv(l, loader[l], net) BY DEF CommInv
 <2> QED BY <2>1 DEF LoaderInv, Endorses, Vouches
<1>3. ShownUnderItsKey BY <1>1, <1>2 DEF ShownUnderItsKey
<1>4. NoMissedArrival BY <1>1 DEF NoMissedArrival, MustKeep
<1>5. VerdictIsVouched BY <1>1 DEF VerdictIsVouched
<1>6. RequestedNameClaimed BY <1>2 DEF RequestedNameClaimed
<1> QED BY <1>3, <1>4, <1>5, <1>6 DEF UpdatesAreTrue

(* A community is shown only under a key that its record is signed by or *)
(* that delegated to its signer, a verdict on a name is one that the name *)
(* gave, a loader is never shown a record that claims another name than it *)
(* asked for, and a loop that sleeps has consumed every record that was *)
(* pushed to it: for any number of keys, names, records, instances and *)
(* loaders, whatever fails, moves or is delegated in between (updateOnce, *)
(* _fetchCommunityIpnsP2PAndVerify and the arrival subscriptions of *)
(* community-client-manager.ts, the mirroring of remote-community.ts). *)
(* A loader that is shown the record of an instance gone astray is the *)
(* exception ShownUnderItsKey names. *)
THEOREM CommunitiesAreTrue == UpdSpec => []UpdatesAreTrue
<1>1. UpdInit => CommInv BY CommInit
<1>2. CommInv /\ [UpdNext]_updVars => CommInv' BY CommNext
<1>3. CommInv => UpdatesAreTrue BY CommInvMeans
<1> QED BY <1>1, <1>2, <1>3, PTL DEF UpdSpec
====
