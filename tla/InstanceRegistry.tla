-------------------- MODULE InstanceRegistry --------------------
(***************************************************************************)
(* The registry of running instances: a community or a comment is tracked  *)
(* under several aliases (names, keys, cids), and whoever loads the same   *)
(* thing finds the instance that already runs.  One registry serves every  *)
(* client of the process, its aliases scoped by data path.                 *)
(***************************************************************************)
EXTENDS Naturals, FiniteSets

CONSTANTS
    Instance,
    Identity,    \* names, keys and minter keys
    DataPath,
    dataPath,    \* dataPath[v]: the canonical data path behind an instance
    equivalent   \* equivalent[a]: an identity and its .eth or .bso twin

ASSUME RegistryAssumption ==
    /\ dataPath \in [Instance -> DataPath]
    /\ equivalent \in [Identity -> SUBSET Identity]
    /\ \A a \in Identity : a \in equivalent[a]

VARIABLES
    entries,    \* _entries: tracked instances with their aliases
    aliases,    \* _aliases: alias to the instances it stands for
    known,      \* known[v]: the identities the instance has now
    history     \* history[v]: every identity it was ever tracked under, unscoped

registryVars == <<entries, aliases, known, history>>

Alias == DataPath \X Identity
(* A prefix, so that a bare alias never matches across data paths. *)
scopeAliasesToDataPath(v, ids) == {dataPath[v]} \X ids

getCommunityRegistryAliases(ids) == UNION {equivalent[a] : a \in ids}
has(v) == entries[v].tracked

findByAlias(a) == aliases[a]
findByAliases(d, ids) == UNION {findByAlias(<<d, a>>) : a \in getCommunityRegistryAliases(ids)}

(* addAliases: an alias another instance holds is taken from it. *)
addAliases(v, as) ==
    LET new == as \ entries[v].as IN
    /\ entries' = [w \in Instance |->
            IF w = v THEN [tracked |-> TRUE, as |-> entries[v].as \cup as]
            ELSE [entries[w] EXCEPT !.as = @ \ new]]
    /\ aliases' = [a \in Alias |-> IF a \in new THEN {v} ELSE aliases[a]]

persistAliases(v) ==
    history' = [history EXCEPT ![v] = @ \cup getCommunityRegistryAliases(known[v])]

(* track: the whole history is taken again, under the present scope. *)
track(v) ==
    /\ known[v] # {}
    /\ persistAliases(v)
    /\ addAliases(v, scopeAliasesToDataPath(v, history'[v]))
    /\ UNCHANGED known

(* refreshTrackedCommunityAliases *)
refreshAliases(v) == has(v) /\ track(v)

removeAliases(v, as) ==
    LET gone == as \cap entries[v].as IN
    /\ entries' = [entries EXCEPT ![v].as = @ \ gone]
    /\ aliases' = [a \in Alias |-> IF a \in gone THEN aliases[a] \ {v} ELSE aliases[a]]

(* forgetTrackedUpdatingCommunityName: a record no longer claims the name. *)
forgetName(v, name) ==
    LET forget == equivalent[name] \ getCommunityRegistryAliases(known[v]) IN
    /\ has(v) /\ name \notin known[v] /\ name \in history[v]
    /\ history' = [history EXCEPT ![v] = @ \ forget]
    /\ removeAliases(v, scopeAliasesToDataPath(v, forget))
    /\ UNCHANGED known

untrack_KeepIndex(v) ==
    /\ entries' = [entries EXCEPT ![v] = [tracked |-> FALSE, as |-> {}]]
    /\ UNCHANGED <<aliases, known, history>>

untrack(v) ==
    /\ entries' = [entries EXCEPT ![v] = [tracked |-> FALSE, as |-> {}]]
    /\ aliases' = [a \in Alias |-> IF a \in entries[v].as THEN aliases[a] \ {v} ELSE aliases[a]]
    /\ UNCHANGED <<known, history>>

(* A load, a rename or a key migration gives the instance other identities; *)
(* it is filed under them at its next refresh. *)
identify(v, ids) ==
    /\ known' = [known EXCEPT ![v] = ids]
    /\ UNCHANGED <<entries, aliases, history>>

RegistryInit ==
    /\ entries = [v \in Instance |-> [tracked |-> FALSE, as |-> {}]]
    /\ aliases = [a \in Alias |-> {}]
    /\ known = [v \in Instance |-> {}]
    /\ history = [v \in Instance |-> {}]

RegistryNext ==
    \E v \in Instance :
        \/ track(v) \/ refreshAliases(v) \/ untrack(v)
        \/ \E a \in Identity : forgetName(v, a)
        \/ \E ids \in SUBSET Identity : identify(v, ids)

RegistrySpec == RegistryInit /\ [][RegistryNext]_registryVars

----------------------------------------
(* Both maps of the registry, and what each instance is and was known as. *)
RegistryTypeOK ==
    /\ entries \in [Instance -> [tracked : BOOLEAN, as : SUBSET Alias]]
    /\ aliases \in [Alias -> SUBSET Instance]
    /\ known \in [Instance -> SUBSET Identity]
    /\ history \in [Instance -> SUBSET Identity]

(* The two maps of the registry stay each other's inverse through the *)
(* aliases instances take from one another, and no untracked instance is *)
(* reachable under an alias it once had. *)
IndexesAgree ==
    /\ \A v \in Instance, a \in Alias : a \in entries[v].as <=> v \in aliases[a]
    /\ \A v \in Instance : ~entries[v].tracked => entries[v].as = {}

(* An alias has one owner, so that findByAlias never throws. *)
OneOwner == \A a \in Alias : \A v, w \in aliases[a] : v = w

(* Two communities with the same address and different data paths never find *)
(* each other (issue #238). *)
ScopeHolds == \A d \in DataPath, ids \in SUBSET Identity : \A v \in findByAliases(d, ids) : dataPath[v] = d

(* Whoever looks an instance up finds the one instance tracked under that *)
(* alias in its own data path, or none (TrackedInstanceRegistry). *)
RegistryIsSound ==
    IndexesAgree /\ OneOwner /\ ScopeHolds
========================================
