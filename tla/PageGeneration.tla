-------------------- MODULE PageGeneration --------------------
(***************************************************************************)
(* The pages a community generates for one scope (its posts, or the        *)
(* replies of one comment): every configured sort orders its comments and  *)
(* cuts them into pages; some sorts embed their first page in the record,  *)
(* the others are added to IPFS, all at once, under a budget of bytes.     *)
(* Serialized entries are kept from one generation to the next.            *)
(*                                                                         *)
(* Sizes are small numbers of units; module PageSizes has the real ones.   *)
(***************************************************************************)
EXTENDS Naturals, Sequences, FiniteSets, SequencesExt, FiniteSetsExt

CONSTANTS
    GenComment,
    GenPage,       \* the limit of a first page that is not embedded (1 MiB)
    GenMaxPage,    \* MAX_PAGE_SIZE_BYTES
    GenBudget,     \* bytes of pages being built at once
    GenCache,      \* bytes of entries kept between generations
    GenWorkload    \* [sorts, entry, preload, rounds, edits, faults]

\* sorts: a sequence of [set, preloaded, flat, score, window, broken], the configured sorts in order:
\* the comments its exclusions leave, whether it is embedded, what its file's score says (0
\* leaves a comment out), how old a comment may be, whether the file throws.
\* entry[c] = [size, pinned, age]
ASSUME GenAssumption ==
    /\ GenPage \in Nat \ {0} /\ GenMaxPage \in Nat /\ GenPage <= GenMaxPage
    /\ GenBudget \in Nat \ {0} /\ GenCache \in Nat

VARIABLES
    gnJob,     \* the workload chosen
    gnVersion, \* updatedAt of each comment's CommentUpdate
    gnCache,   \* EntryJsonCache: (comment, with replies) -> the version kept
    gn,        \* the generation: its step, plan and outcome
    adding,    \* adding[s]: the pages of sort s on their way into IPFS
    budget     \* PageBytesBudget: bytes in flight, and the sorts waiting

genVars == <<gnJob, gnVersion, gnCache, gn, adding, budget>>

Sorts == 1..Len(gnJob.sorts)
Size(c) == gnJob.entry[c].size
Sizes(s) == MapThenSumSet(Size, ToSet(s))

----------------------------------------
(* sortComments: pinned comments first and past any window, then the rest, *)
(* each by falling score; a stable sort, so equal scores keep their order. *)
Scored(sort) ==
    {c \in sort.set : /\ sort.score[c] # 0
                      /\ gnJob.entry[c].pinned \/ gnJob.entry[c].age <= sort.window}

Before(sort, c, d) ==
    LET pc == gnJob.entry[c].pinned pd == gnJob.entry[d].pinned IN
    \/ pc /\ ~pd
    \/ pc = pd /\ sort.score[c] > sort.score[d]
    \/ pc = pd /\ sort.score[c] = sort.score[d] /\ c < d

sortComments(sort) == SetToSortSeq(Scored(sort), LAMBDA c, d : Before(sort, c, d))

(* _chunkComments: pages of doubling size after the first. *)
PageLimit(index, first) == IF index = 0 THEN first ELSE Min({GenPage * 2 ^ (index - 1), GenMaxPage})

_chunkComments(seq, first) ==
    IF Sizes(seq) <= first THEN <<seq>>
    ELSE FoldLeft(LAMBDA chunks, c :
                    LET open == chunks[Len(chunks)] IN
                    IF open # << >> /\ Sizes(Append(open, c)) > PageLimit(Len(chunks) - 1, first)
                    THEN Append(chunks, <<c>>)
                    ELSE [chunks EXCEPT ![Len(chunks)] = Append(@, c)],
                  << << >> >>, seq)

(* Preloaded sorts share the space of the record; one whose first page does *)
(* not fit its share is generated like the others. *)
Loaded == {s \in Sorts : gnJob.sorts[s].set # {}}
Share == LET n == Cardinality({s \in Loaded : gnJob.sorts[s].preloaded}) IN IF n = 0 THEN 0 ELSE gnJob.preload \div n

Planned(s) ==
    LET sort == gnJob.sorts[s]
        ordered == sortComments(sort)
        chunks == _chunkComments(ordered, IF sort.preloaded THEN Share ELSE GenPage)
        embeds == sort.preloaded /\ Sizes(chunks[1]) <= Share
    IN IF s \notin Loaded \/ sort.broken \/ ordered = << >> THEN [embed |-> FALSE, chunks |-> << >>, whole |-> FALSE]
       ELSE [embed |-> embeds, chunks |-> IF sort.preloaded /\ ~embeds THEN _chunkComments(ordered, GenPage) ELSE chunks,
             whole |-> embeds /\ Len(chunks) = 1 /\ Len(chunks[1]) = Cardinality(sort.set)]

----------------------------------------
(* EntryJsonCache: an entry is kept under its shape, with or without its *)
(* replies, while its CommentUpdate is the same and the bytes allow. *)
Shape(c, flat) == <<c, ~flat>>

CachedBytes(cache) == MapThenSumSet(LAMBDA k : Size(k[1]), DOMAIN cache)

Without(cache, keys) == [k \in DOMAIN cache \ keys |-> cache[k]]

offer(cache, c, flat) ==
    LET key == Shape(c, flat)
        rest == Without(cache, {key})
    IN IF key \in DOMAIN cache /\ cache[key].at = gnVersion[c] THEN cache
       ELSE IF CachedBytes(rest) + Size(c) > GenCache THEN rest
       ELSE [k \in DOMAIN rest \cup {key} |-> IF k = key THEN [at |-> gnVersion[c], replies |-> ~flat] ELSE rest[k]]

sizeAll(cache, sorts) ==
    FoldLeft(LAMBDA kept, s : FoldLeft(LAMBDA k, c : offer(k, c, gnJob.sorts[s].flat), kept, SetToSeq(gnJob.sorts[s].set)),
             cache, SetToSortSeq(sorts, <))

(* stringsOf: the kept entry if it is current, else one serialized afresh. *)
stringsOf(s, chunk) ==
    [i \in 1..Len(chunk) |->
        LET c == chunk[i]
            flat == gnJob.sorts[s].flat
            key == Shape(c, flat)
            kept == key \in DOMAIN gnCache /\ gnCache[key].at = gnVersion[c]
        IN [cid |-> c, at |-> gnVersion[c], replies |-> IF kept THEN gnCache[key].replies ELSE ~flat]]

retainOnly(cache) ==
    LET listed == UNION {gnJob.sorts[s].set : s \in Sorts}
    IN Without(cache, {k \in DOMAIN cache : k[1] \notin listed})

----------------------------------------
(* _generatePagesForSorts: load, size, sort and cut, then decide. *)
NotAdding == [state |-> "none", page |-> 0, added |-> << >>]

Published == {s \in Sorts : gn.plan[s].chunks # << >>}
Embedding == {s \in Published : gn.plan[s].embed}

beginGeneration ==
    /\ gn.pc = "idle" /\ gn.round <= gnJob.rounds
    /\ gnCache' = sizeAll(gnCache, Loaded)
    /\ gn' = [gn EXCEPT !.pc = "deciding", !.plan = [s \in Sorts |-> Planned(s)]]
    /\ UNCHANGED <<gnJob, gnVersion, adding, budget>>

Failed == {s \in Loaded : gnJob.sorts[s].broken}

nothingToPublish ==
    /\ gn.pc = "deciding" /\ Published = {}
    /\ gn' = [gn EXCEPT !.pc = "done", !.outcome = IF Failed # {} THEN "threw" ELSE "nothing"]
    /\ UNCHANGED <<gnJob, gnVersion, gnCache, adding, budget>>

skippingOtherSortsIsSound == Embedding = Published \/ \A s \in Embedding : gn.plan[s].whole

singleChunkShortcut ==
    /\ Embedding # {} /\ \A s \in Embedding : Len(gn.plan[s].chunks) = 1
    /\ skippingOtherSortsIsSound

publishEmbeddedOnly ==
    /\ gn.pc = "deciding" /\ Published # {} /\ singleChunkShortcut
    /\ gn' = [gn EXCEPT !.pc = "done", !.outcome = "embedded"]
    /\ UNCHANGED <<gnJob, gnVersion, gnCache, adding, budget>>

FirstAdded(s) == IF gn.plan[s].embed THEN 2 ELSE 1

beginAdding ==
    /\ gn.pc = "deciding" /\ Published # {} /\ ~singleChunkShortcut
    /\ gn' = [gn EXCEPT !.pc = "adding"]
    /\ adding' = [s \in Sorts |-> IF s \in Published
                     THEN [state |-> "next", page |-> Len(gn.plan[s].chunks), added |-> << >>] ELSE NotAdding]
    /\ UNCHANGED <<gnJob, gnVersion, gnCache, budget>>

----------------------------------------
(* _addChunksToIpfs: a sort adds its pages from the last to the first, each *)
(* when the bytes in flight allow it; a page over the budget goes alone. *)
PageCost(s) == 2 * Sizes(gn.plan[s].chunks[adding[s].page])

fits(inFlight, bytes) == inFlight = 0 \/ inFlight + bytes <= GenBudget

acquire(s) ==
    /\ adding[s].state = "next" /\ adding[s].page >= FirstAdded(s)
    /\ IF fits(budget.inFlight, PageCost(s))
       THEN /\ budget' = [budget EXCEPT !.inFlight = @ + PageCost(s)]
            /\ adding' = [adding EXCEPT ![s].state = "building"]
       ELSE /\ budget' = [budget EXCEPT !.waiting = Append(@, s)]
            /\ adding' = [adding EXCEPT ![s].state = "waiting"]
    /\ UNCHANGED <<gnJob, gnVersion, gnCache, gn>>

(* release admits the waiters that fit, in the order they came, and counts *)
(* each before it goes on. *)
Admitted(inFlight) ==
    FoldLeft(LAMBDA b, s : IF fits(b.inFlight, PageCost(s))
                           THEN [b EXCEPT !.inFlight = @ + PageCost(s), !.admitted = @ \cup {s}]
                           ELSE [b EXCEPT !.waiting = Append(@, s)],
             [inFlight |-> inFlight, waiting |-> << >>, admitted |-> {}], budget.waiting)

release_OnSuccess(s, ok) ==
    LET after == Admitted(IF ok THEN budget.inFlight - PageCost(s) ELSE budget.inFlight)
    IN after

release(s, ok) == Admitted(budget.inFlight - PageCost(s))

addPage(s) ==
    /\ adding[s].state = "building"
    /\ \E ok \in IF "add" \in gnJob.faults THEN BOOLEAN ELSE {TRUE} :
         LET after == release(s, ok)
             chunk == gn.plan[s].chunks[adding[s].page]
         IN /\ budget' = [inFlight |-> after.inFlight, waiting |-> after.waiting]
            /\ adding' = [t \in Sorts |->
                 IF t = s THEN IF ok THEN [state |-> "next", page |-> adding[s].page - 1,
                                           added |-> <<stringsOf(s, chunk)>> \o adding[s].added]
                                     ELSE [adding[s] EXCEPT !.state = "failed"]
                 ELSE IF t \in after.admitted THEN [adding[t] EXCEPT !.state = "building"] ELSE adding[t]]
            /\ gn' = IF ok \/ gn.pc # "adding" THEN gn ELSE [gn EXCEPT !.pc = "done", !.outcome = "threw"]
    /\ UNCHANGED <<gnJob, gnVersion, gnCache>>

AllAdded == \A s \in Published : adding[s].state = "next" /\ adding[s].page < FirstAdded(s)

returnPages ==
    /\ gn.pc = "adding" /\ AllAdded
    /\ gn' = [gn EXCEPT !.pc = "done", !.outcome = "pages"]
    /\ UNCHANGED <<gnJob, gnVersion, gnCache, adding, budget>>

(* The cycle ends; comments are edited before the next.  What a generation *)
(* did not list is dropped from the kept entries, unless it threw.  The next *)
(* one has a budget of its own. *)
nextGeneration ==
    /\ gn.pc = "done" /\ gn.round < gnJob.rounds
    /\ \A s \in Sorts : adding[s].state \notin {"building", "waiting"}
    /\ \E edited \in SUBSET gnJob.edits :
         gnVersion' = [c \in GenComment |-> gnVersion[c] + IF c \in edited THEN 1 ELSE 0]
    /\ gnCache' = IF gn.outcome = "threw" THEN gnCache ELSE retainOnly(gnCache)
    /\ gn' = [gn EXCEPT !.pc = "idle", !.round = @ + 1, !.outcome = "none"]
    /\ adding' = [s \in Sorts |-> NotAdding]
    /\ budget' = [inFlight |-> 0, waiting |-> << >>]
    /\ UNCHANGED gnJob

GenInit ==
    /\ gnJob \in GenWorkload
    /\ gnVersion = [c \in GenComment |-> 1]
    /\ gnCache = << >>
    /\ gn = [pc |-> "idle", round |-> 1, plan |-> << >>, outcome |-> "none"]
    /\ adding = [s \in Sorts |-> NotAdding]
    /\ budget = [inFlight |-> 0, waiting |-> << >>]

GenNext ==
    \/ beginGeneration \/ nothingToPublish \/ publishEmbeddedOnly \/ beginAdding \/ returnPages \/ nextGeneration
    \/ \E s \in Sorts : acquire(s) \/ addPage(s)

GenSpec == GenInit /\ [][GenNext]_genVars

----------------------------------------
Building == {s \in Sorts : adding[s].state = "building"}

(* The bytes of the pages being built stay within the budget, except for one *)
(* page that is over it alone. *)
BudgetHolds ==
    MapThenSumSet(LAMBDA s : PageCost(s), Building) > GenBudget => Cardinality(Building) = 1

(* No sort waits for a page of nobody: as long as one waits, another's page *)
(* is on its way in and will let it go on, failed adds included. *)
SomebodyMakesProgress == budget.waiting # << >> => Building # {}

(* What a reader can get of a sort: the pages it was given, or all of the *)
(* comments of an embedded page, which it sorts itself. *)
EmbeddedComments == UNION {ToSet(gn.plan[s].chunks[1]) : s \in Embedding}

Shown(s) == FlattenSeq([i \in 1..Len(adding[s].added) |-> [j \in 1..Len(adding[s].added[i]) |-> adding[s].added[i][j].cid]])

(* The comments the exclusions leave to some embedded sort. *)
TakenIn == UNION {gnJob.sorts[s].set : s \in Embedding}

(* Every sort that did not fail can be read in full from what is published: *)
(* in its own order through its chain of pages, or, when only embedded pages *)
(* are published, out of those, but for comments that the exclusions of every *)
(* embedded sort keep out; nothing is published only if nothing is to show. *)
EverySortIsReadable ==
    gn.pc = "done" =>
        /\ gn.outcome = "pages" =>
             \A s \in Sorts \ Failed :
                (IF s \in Embedding THEN gn.plan[s].chunks[1] ELSE << >>) \o Shown(s) = sortComments(gnJob.sorts[s])
        /\ gn.outcome = "embedded" => \A s \in Sorts \ Failed : Scored(gnJob.sorts[s]) \cap TakenIn \subseteq EmbeddedComments
        /\ gn.outcome = "nothing" => \A s \in Sorts : Scored(gnJob.sorts[s]) = {}

(* What the documentation says of the shortcut: what it leaves out can be *)
(* rebuilt from the embedded pages. *)
SkippedIsRebuildable ==
    gn.pc = "done" /\ gn.outcome = "embedded" => \A s \in Sorts \ Failed : Scored(gnJob.sorts[s]) \subseteq EmbeddedComments

(* A page holds the current entry of every comment on it, with its replies *)
(* on a nested sort and without them on a flat one, whatever was kept from *)
(* the other sorts and from earlier generations. *)
PagesHoldTheirEntries ==
    \A s \in Sorts : \A i \in 1..Len(adding[s].added) : \A j \in 1..Len(adding[s].added[i]) :
        LET e == adding[s].added[i][j] IN e.at = gnVersion[e.cid] /\ e.replies = ~gnJob.sorts[s].flat
========================================
