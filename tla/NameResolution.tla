-------------------- MODULE NameResolution --------------------
(***************************************************************************)
(* Verifying the domain names of authors in the background: sweeps that    *)
(* overlap, the resolvers tried in order with a persistent cache in front  *)
(* of each, and the verdicts that the whole client shares.                 *)
(*                                                                         *)
(* A step runs from one await to the next.  An entry is a name with the    *)
(* key that signed the publication; a TXT record holds a key, something    *)
(* that is not a key, or nothing.                                          *)
(***************************************************************************)
EXTENDS Naturals, Sequences, FiniteSets

CONSTANTS
    Entry,        \* [name, signer]: author name and signer of a publication
    Sweep,        \* calls of resolveAuthorNamesInBackground
    Resolvers,    \* the configured resolvers, in order
    canResolve,   \* canResolve[r]: the names a resolver handles
    NameLimit,    \* MAX_CONCURRENT_AUTHOR_NAME_RESOLUTIONS
    NameWorkload, \* [txt, later, down, asks, aborts]
    NotAKey, NoRecord

ASSUME NameAssumption == NameLimit \in Nat \ {0} /\ NotAKey # NoRecord /\ Len(Resolvers) \in Nat

VARIABLES
    nameJob,
    txt,       \* txt[n]: the TXT record of a name now
    stored,    \* stored[r][n]: the persistent cache, with whether it is within maxAge
    verdict,   \* verdict[e] of nameResolvedCache: "yes", "no" or "unknown"
    inFlight,  \* _authorNameResolvesInFlight
    failed,    \* nameResolveFailedCache
    attempt,   \* attempt[s][e]: a sweep's attempt to resolve an entry
    aborted,   \* sweeps whose abort signal fired
    told,      \* sweeps whose onResolved ran
    answers    \* [name, value]: every answer a resolver or its cache ever gave

nameVars == <<nameJob, txt, stored, verdict, inFlight, failed, attempt, aborted, told, answers>>

Nm == {e.name : e \in Entry}
Index == 1..Len(Resolvers)
NoAttempt == [pc |-> "none", r |-> 0, answered |-> FALSE, value |-> NoRecord]
Live(a) == a.pc \in {"queued", "lookup", "resolve", "store"}

(* The next resolver after number i that can handle the name, or 0. *)
NextResolver(n, i) ==
    LET rest == {j \in Index : j > i /\ n \in canResolve[Resolvers[j]]} IN
        IF rest = {} THEN 0 ELSE CHOOSE j \in rest : \A k \in rest : j <= k

canResolveName(n) == NextResolver(n, 0) # 0

(* An entry is left alone while a verdict stands, an attempt is out, or the *)
(* last attempt learned nothing a moment ago. *)
ShouldResolve(e) ==
    canResolveName(e.name) /\ verdict[e] = "unknown" /\ e \notin inFlight /\ e \notin failed

resolveAuthorNamesInBackground(s) ==
    LET todo == {e \in nameJob.asks[s] : ShouldResolve(e)} IN
    /\ \A e \in Entry : attempt[s][e] = NoAttempt
    /\ todo # {} /\ s \notin aborted
    /\ inFlight' = inFlight \cup todo
    /\ attempt' = [attempt EXCEPT ![s] = [e \in Entry |-> IF e \in todo THEN [NoAttempt EXCEPT !.pc = "queued"] ELSE @[e]]]
    /\ UNCHANGED <<nameJob, txt, stored, verdict, failed, aborted, told, answers>>

(* resolveOne ends, whatever the outcome: the mark of the entry goes, and *)
(* when the last attempt of a sweep that set a verdict ends, it is told. *)
Ended(s, e, a) ==
    LET now == [attempt EXCEPT ![s][e] = [a EXCEPT !.pc = IF @ = "set" THEN "set" ELSE "ended"]] IN
    /\ attempt' = now
    /\ inFlight' = inFlight \ {e}
    /\ told' = IF (\A x \in Entry : ~Live(now[s][x])) /\ (\E x \in Entry : now[s][x].pc = "set")
               THEN told \cup {s} ELSE told

setVerdict(e, v) == verdict' = [verdict EXCEPT ![e] = v]

Learned(s, e, v) ==
    /\ setVerdict(e, v)
    /\ Ended(s, e, [attempt[s][e] EXCEPT !.pc = "set"])
    /\ UNCHANGED failed

AskLater(s, e) == failed' = failed \cup {e} /\ Ended(s, e, attempt[s][e]) /\ UNCHANGED verdict
Dropped(s, e) == Ended(s, e, attempt[s][e]) /\ UNCHANGED <<verdict, failed>>

VerdictOf(e, value) == IF value = e.signer THEN "yes" ELSE "no"

Concluded_NeverAnswered(s, e, a) == Learned(s, e, VerdictOf(e, a.value))

(* The resolvers are exhausted or one gave a record.  No answer at all is *)
(* not an answer: it throws ERR_ALL_NAME_RESOLVERS_FAILED. *)
Concluded(s, e, a) == IF a.answered THEN Learned(s, e, VerdictOf(e, a.value)) ELSE AskLater(s, e)

Moved(s, e, a) == attempt' = [attempt EXCEPT ![s][e] = a] /\ UNCHANGED <<verdict, inFlight, failed, told>>

(* On to the next resolver, or to the conclusion. *)
Onward(s, e, a) ==
    LET j == NextResolver(e.name, a.r) IN
        IF a.value # NoRecord \/ j = 0 THEN Concluded(s, e, a)
        ELSE Moved(s, e, [a EXCEPT !.pc = "lookup", !.r = j])

Busy(s) == {e \in Entry : attempt[s][e].pc \in {"lookup", "resolve", "store"}}

(* pLimit: the attempt's turn.  An aborted sweep resolves nothing more. *)
beginAttempt(s, e) ==
    LET a == attempt[s][e] IN
    /\ a.pc = "queued" /\ Cardinality(Busy(s)) < NameLimit
    /\ IF s \in aborted THEN Dropped(s, e) ELSE Onward(s, e, a)
    /\ UNCHANGED <<nameJob, txt, stored, aborted, answers>>

(* NameResolutionCache.get, with a maxAge. *)
lookUp(s, e) ==
    LET a == attempt[s][e]
        hit == stored[Resolvers[a.r]][e.name] IN
    /\ a.pc = "lookup"
    /\ IF hit.fresh
       THEN /\ answers' = answers \cup {[name |-> e.name, value |-> hit.value]}
            /\ Onward(s, e, [a EXCEPT !.value = hit.value, !.answered = TRUE])
       ELSE UNCHANGED answers /\ IF s \in aborted THEN Dropped(s, e) ELSE Moved(s, e, [a EXCEPT !.pc = "resolve"])
    /\ UNCHANGED <<nameJob, txt, stored, aborted>>

(* resolve, raced against the abort signal: an answer, or an error that is *)
(* only noted.  A record that was found is persisted first. *)
resolveEntry(s, e) ==
    LET a == attempt[s][e] IN
    /\ a.pc = "resolve"
    /\ \/ s \in aborted /\ Dropped(s, e) /\ UNCHANGED answers
       \/ s \notin aborted /\ Resolvers[a.r] \in nameJob.down /\ Onward(s, e, a) /\ UNCHANGED answers
       \/ /\ s \notin aborted
          /\ answers' = answers \cup {[name |-> e.name, value |-> txt[e.name]]}
          /\ IF txt[e.name] = NoRecord THEN Onward(s, e, [a EXCEPT !.answered = TRUE])
             ELSE Moved(s, e, [a EXCEPT !.pc = "store", !.value = txt[e.name], !.answered = TRUE])
    /\ UNCHANGED <<nameJob, txt, stored, aborted>>

store(s, e) ==
    LET a == attempt[s][e] IN
    /\ a.pc = "store"
    /\ stored' = [stored EXCEPT ![Resolvers[a.r]][e.name] = [value |-> a.value, fresh |-> TRUE]]
    /\ Onward(s, e, a)
    /\ UNCHANGED <<nameJob, txt, aborted, answers>>

abort(s) ==
    /\ s \in nameJob.aborts \ aborted
    /\ aborted' = aborted \cup {s}
    /\ UNCHANGED <<nameJob, txt, stored, verdict, inFlight, failed, attempt, told, answers>>

----------------------------------------
(* Verdicts, floors and cache entries expire; a TXT record changes. *)
verdictExpires(e) ==
    /\ verdict[e] # "unknown" /\ setVerdict(e, "unknown")
    /\ UNCHANGED <<nameJob, txt, stored, inFlight, failed, attempt, aborted, told, answers>>

floorEnds(e) ==
    /\ e \in failed /\ failed' = failed \ {e}
    /\ UNCHANGED <<nameJob, txt, stored, verdict, inFlight, attempt, aborted, told, answers>>

entryAges(r, n) ==
    /\ stored[r][n].fresh /\ stored' = [stored EXCEPT ![r][n].fresh = FALSE]
    /\ UNCHANGED <<nameJob, txt, verdict, inFlight, failed, attempt, aborted, told, answers>>

recordChanges ==
    /\ txt # nameJob.later /\ txt' = nameJob.later
    /\ UNCHANGED <<nameJob, stored, verdict, inFlight, failed, attempt, aborted, told, answers>>

NameInit ==
    /\ nameJob \in NameWorkload
    /\ txt = nameJob.txt
    /\ stored = [r \in {Resolvers[i] : i \in Index} |-> [n \in Nm |-> [value |-> NoRecord, fresh |-> FALSE]]]
    /\ verdict = [e \in Entry |-> "unknown"]
    /\ inFlight = {} /\ failed = {} /\ aborted = {} /\ told = {} /\ answers = {}
    /\ attempt = [s \in Sweep |-> [e \in Entry |-> NoAttempt]]

NameNext ==
    \/ \E s \in Sweep : resolveAuthorNamesInBackground(s) \/ abort(s)
    \/ \E s \in Sweep, e \in Entry : beginAttempt(s, e) \/ lookUp(s, e) \/ resolveEntry(s, e) \/ store(s, e)
    \/ \E e \in Entry : verdictExpires(e) \/ floorEnds(e)
    \/ \E i \in Index, n \in Nm : entryAges(Resolvers[i], n)
    \/ recordChanges

NameSpec == NameInit /\ [][NameNext]_nameVars

----------------------------------------
(* A name is denied to its signer only on the strength of an answer that *)
(* contradicts it, and granted only on one that confirms it: an outage of *)
(* every resolver, or an aborted sweep, leaves no verdict (issue #353). *)
VerdictIsEarned ==
    \A e \in Entry :
        /\ verdict[e] = "no" => \E a \in answers : a.name = e.name /\ a.value # e.signer
        /\ verdict[e] = "yes" => [name |-> e.name, value |-> e.signer] \in answers

(* An entry is marked in flight exactly while one attempt resolves it, so *)
(* overlapping sweeps never ask twice and no failure leaves it marked. *)
OneAttempt ==
    \A e \in Entry : Cardinality({s \in Sweep : Live(attempt[s][e])}) = IF e \in inFlight THEN 1 ELSE 0

(* Background name resolution says of a name what a resolver said of it, *)
(* asking once at a time, through outages, aborts and overlapping sweeps. *)
ResolutionIsEarned ==
    VerdictIsEarned /\ OneAttempt
========================================
