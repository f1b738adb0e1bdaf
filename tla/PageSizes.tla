-------------------- MODULE PageSizes --------------------
(***************************************************************************)
(* How a community cuts a sorted list of comments into pages.  The pages   *)
(* may grow from 1 MiB to 32 MiB, what counts is the size `ipfs add`       *)
(* reports for them, and a page over its limit fails the whole generation. *)
(* The cut is made one comment at a time, on an estimate: each comment     *)
(* counts as what `ipfs add` would report for its JSON alone.              *)
(***************************************************************************)
EXTENDS Naturals, Sequences, FiniteSets

CONSTANTS
    PzWorkload   \* [entry, count, first, embed]: the bytes of every comment, how many, the first page's
                 \* limit, and whether the first page is embedded in the record

ASSUME PzAssumption ==
    \A w \in PzWorkload : w.entry \in Nat \ {0} /\ w.count \in Nat \ {0} /\ w.first \in Nat /\ w.embed \in BOOLEAN

VARIABLES
    pzJob,   \* the workload chosen
    pzCut    \* the cut so far: comments taken, the open page, its estimate, the closed pages

pzVars == <<pzJob, pzCut>>

MiB == 1048576
MAX_PAGE_SIZE_BYTES == 32 * MiB
SAFETY_MARGIN == 1024
UNIXFS_CHUNK_BYTES == 262144
UNIXFS_MAX_LINKS_PER_NODE == 174

ASSUME OneNodeHoldsAPage == MAX_PAGE_SIZE_BYTES <= UNIXFS_MAX_LINKS_PER_NODE * UNIXFS_CHUNK_BYTES

----------------------------------------
(* What `ipfs add` reports for a file of so many bytes: its UnixFS leaves *)
(* and the node over them.  One node is enough up to 43 MiB. *)
protobufVarintBytes(v) == 1 + Cardinality({k \in 1..4 : v >= 128 ^ k})
protobufBytesFieldBytes(n) == 1 + protobufVarintBytes(n) + n
protobufVarintFieldBytes(v) == 1 + protobufVarintBytes(v)

unixFsLeafBytes(n) ==
    protobufBytesFieldBytes(2 + (IF n > 0 THEN protobufBytesFieldBytes(n) ELSE 0) + protobufVarintFieldBytes(n))

(* full leaves of one chunk each and a last one of `rest` bytes *)
LinkBytes(n) == protobufBytesFieldBytes(36 + 2 + protobufVarintFieldBytes(unixFsLeafBytes(n)))

unixFsParentNode(full, rest) ==
    LET bytes == full * UNIXFS_CHUNK_BYTES + rest
        unixfs == 2 + full * protobufVarintFieldBytes(UNIXFS_CHUNK_BYTES) + protobufVarintFieldBytes(rest)
                    + protobufVarintFieldBytes(bytes)
    IN full * LinkBytes(UNIXFS_CHUNK_BYTES) + LinkBytes(rest) + protobufBytesFieldBytes(unixfs)
         + full * unixFsLeafBytes(UNIXFS_CHUNK_BYTES) + unixFsLeafBytes(rest)

calculateUnixFsDagSizeCidV0(bytes) ==
    IF bytes <= UNIXFS_CHUNK_BYTES THEN unixFsLeafBytes(bytes)
    ELSE LET full == (bytes - 1) \div UNIXFS_CHUNK_BYTES
         IN unixFsParentNode(full, bytes - full * UNIXFS_CHUNK_BYTES)

(* {"comments":[ ... ]} with commas, and with ,"nextCid":"Qm..." if more *)
(* follows. *)
pageBytes(count, bytes, hasNextCid) ==
    13 + (IF hasNextCid THEN 62 ELSE 2) + (IF count = 0 THEN 0 ELSE count - 1) + bytes

pageDagSize(count, bytes, hasNextCid) == calculateUnixFsDagSizeCidV0(pageBytes(count, bytes, hasNextCid))

----------------------------------------
Doubled(k) == IF k > 5 THEN MAX_PAGE_SIZE_BYTES ELSE MiB * 2 ^ k

(* _chunkComments: a comment that does not fit the open page, less a margin, *)
(* opens the next. *)
getCurrentMaxSize(index) == IF index = 0 THEN pzJob.first ELSE Doubled(index - 1)

Wrapper(hasNextCid) == pageDagSize(0, 0, hasNextCid) - 2

Comma == IF pzCut.count > 0 THEN 1 ELSE 0

Exceeds(size) == pzCut.acc + Comma + size > getCurrentMaxSize(Len(pzCut.pages)) - SAFETY_MARGIN

OnePage ==
    /\ pzCut.taken = 0
    /\ pageDagSize(pzJob.count, pzJob.count * pzJob.entry, FALSE) <= pzJob.first
    /\ pzCut' = [pzCut EXCEPT !.taken = pzJob.count, !.pages = <<pzJob.count>>]
    /\ UNCHANGED pzJob

takeComment ==
    LET size == calculateUnixFsDagSizeCidV0(pzJob.entry)
        fresh == Wrapper(pzCut.taken + 1 < pzJob.count)
        oversized == pzCut.count = 0 /\ size > getCurrentMaxSize(Len(pzCut.pages)) - SAFETY_MARGIN
    IN /\ pzCut.taken < pzJob.count
       /\ pageDagSize(pzJob.count, pzJob.count * pzJob.entry, FALSE) > pzJob.first
       /\ pzCut' = IF Exceeds(size) /\ pzCut.count > 0
                   THEN [taken |-> pzCut.taken + 1, count |-> 1, acc |-> fresh + Comma + size,
                         pages |-> Append(pzCut.pages, pzCut.count)]
                   ELSE [pzCut EXCEPT !.taken = @ + 1, !.count = @ + 1,
                                      !.acc = (IF Exceeds(size) /\ oversized THEN fresh ELSE @) + Comma + size]
       /\ UNCHANGED pzJob

lastPage ==
    /\ pzCut.taken = pzJob.count /\ pzCut.count > 0
    /\ pzCut' = [pzCut EXCEPT !.count = 0, !.pages = Append(@, pzCut.count)]
    /\ UNCHANGED pzJob

PzInit ==
    /\ pzJob \in PzWorkload
    /\ pzCut = [taken |-> 0, count |-> 0, acc |-> Wrapper(TRUE), pages |-> << >>]

PzNext == OnePage \/ takeComment \/ lastPage

PzSpec == PzInit /\ [][PzNext]_pzVars

----------------------------------------
(* _addChunksToIpfs refuses a page over this size. *)
maximumPageSize(page) == Doubled(IF ~pzJob.embed THEN page - 1 ELSE IF page > 1 THEN page - 2 ELSE 0)

(* Every page the cut makes, and adds to IPFS, is one the generator accepts: *)
(* the estimate of a page is never under its size by more than the margin. *)
PagesFit ==
    pzCut.taken = pzJob.count /\ pzCut.count = 0 =>
        \A p \in 1..Len(pzCut.pages) :
            (p > 1 \/ ~pzJob.embed) =>
                pageDagSize(pzCut.pages[p], pzCut.pages[p] * pzJob.entry, p < Len(pzCut.pages)) <= maximumPageSize(p)
========================================
