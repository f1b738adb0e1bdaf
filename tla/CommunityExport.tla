-------------------- MODULE CommunityExport --------------------
(***************************************************************************)
(* Exports of one local community: each copies the database to a file of   *)
(* its own, one after the other, under a record the community shows and    *)
(* persists. A signal, a destroy or the RPC server cancels one, an HTTP    *)
(* download takes a finished one away, and a load of the community reads   *)
(* the records back and prunes them.                                       *)
(***************************************************************************)
EXTENDS Naturals, Sequences, FiniteSets

CONSTANTS
    XpExport,    \* exports
    XpDownload,  \* HTTP downloads
    XpWorkload   \* [cancels, crashes, faults]: whether exports are cancelled, the process may
                 \* die, and the database and the disk may fail

ASSUME XpAssumption == XpExport # {} /\ IsFiniteSet(XpExport)

VARIABLES
    xpJob,
    exportRecords,     \* _exports: [id, is] in order, "running", "complete" or "error"
    savedRecords,      \* the same list in the database
    xpTask,            \* [XpExport -> "new", "saving", "queued", "copying", "hashed", "renamed", "done"]
    exportQueue,       \* exports in the order they will run
    activeExports,     \* _activeExports
    xpAborted,         \* exports whose controller was aborted
    exportFiles,       \* exports whose file is at its final path
    partialFiles,      \* exports whose .partial file is there
    xpGet,             \* [XpDownload -> [pc, id, idx]]
    dbOpen,            \* between start() and stop()
    xpCrashed,         \* history
    orphaned,          \* history: exports whose record a load, a stale place or a failed unlink
                       \* parted from their file
    leftBehind         \* history: exports whose file went and whose record did not

xpVars == <<xpJob, exportRecords, savedRecords, xpTask, exportQueue, activeExports, xpAborted,
            exportFiles, partialFiles, xpGet, dbOpen, xpCrashed, orphaned, leftBehind>>

Past == <<dbOpen, xpCrashed, orphaned, leftBehind>>
Lists == <<exportRecords, savedRecords>>
Disk == <<exportFiles, partialFiles>>
IndexOf(x) == {i \in DOMAIN exportRecords : exportRecords[i].id = x}

(* persistExports: a write that fails, to a closed database too, is logged. *)
Saves(list) == \/ dbOpen /\ savedRecords' = list
               \/ (xpJob.faults \/ ~dbOpen) /\ UNCHANGED savedRecords

Show(list) == exportRecords' = list /\ Saves(list)

(* A record that is no longer there is left alone. *)
updateRecord(x, is) == Show([i \in DOMAIN exportRecords |->
    IF i \in IndexOf(x) THEN [exportRecords[i] EXCEPT !.is = is] ELSE exportRecords[i]])

----------------------------------------
exportCommunityEmbedded(x) ==
    /\ xpTask[x] = "new" /\ xpTask' = [xpTask EXCEPT ![x] = "saving"]
    /\ Show(Append(exportRecords, [id |-> x, is |-> "running"]))
    /\ UNCHANGED <<xpJob, exportQueue, activeExports, xpAborted, Disk, xpGet, Past>>

(* Only now is the caller's signal listened to. *)
enqueueExport(x) ==
    /\ xpTask[x] = "saving" /\ xpTask' = [xpTask EXCEPT ![x] = "queued"]
    /\ exportQueue' = Append(exportQueue, x) /\ activeExports' = activeExports \cup {x}
    /\ UNCHANGED <<xpJob, Lists, xpAborted, Disk, xpGet, Past>>

(* The caller's signal, cancelExport of the RPC server, and destroy(). *)
cancelExportEmbedded(x) ==
    /\ xpJob.cancels /\ x \in activeExports /\ xpAborted' = xpAborted \cup {x}
    /\ UNCHANGED <<xpJob, Lists, xpTask, exportQueue, activeExports, Disk, xpGet, Past>>

abortExports ==
    /\ xpJob.cancels /\ activeExports # {} /\ xpAborted' = xpAborted \cup activeExports
    /\ UNCHANGED <<xpJob, Lists, xpTask, exportQueue, activeExports, Disk, xpGet, Past>>

Settles(x) == xpTask' = [xpTask EXCEPT ![x] = "done"] /\ exportQueue' = Tail(exportQueue)

(* An export that was cancelled in the queue keeps its handle. *)
runExportTask(x) ==
    /\ xpTask[x] = "queued" /\ Head(exportQueue) = x
    /\ IF IndexOf(x) = {} \/ \E i \in IndexOf(x) : exportRecords[i].is = "error"
       THEN Settles(x) /\ UNCHANGED <<Lists, partialFiles>>
       ELSE IF x \in xpAborted THEN Settles(x) /\ updateRecord(x, "error") /\ UNCHANGED partialFiles
       ELSE /\ xpTask' = [xpTask EXCEPT ![x] = "copying"] /\ partialFiles' = partialFiles \cup {x}
            /\ UNCHANGED <<Lists, exportQueue>>
    /\ UNCHANGED <<xpJob, activeExports, xpAborted, exportFiles, xpGet, Past>>

(* Copied, scrubbed and hashed, the signal read again after each. *)
backupCommunityDb(x) ==
    /\ xpTask[x] = "copying" /\ x \notin xpAborted /\ xpTask' = [xpTask EXCEPT ![x] = "hashed"]
    /\ UNCHANGED <<xpJob, Lists, exportQueue, activeExports, xpAborted, Disk, xpGet, Past>>

(* Aborted or failed: the copy is removed, the record says so. *)
backupThrows(x) ==
    /\ xpTask[x] = "copying" /\ Settles(x) /\ updateRecord(x, "error")
    /\ partialFiles' = partialFiles \ {x} /\ activeExports' = activeExports \ {x}
    /\ UNCHANGED <<xpJob, xpAborted, exportFiles, xpGet, Past>>

(* The progress of a copy rewrites the list in the database. *)
onProgress(x) ==
    /\ xpTask[x] = "copying" /\ IndexOf(x) # {} /\ Show(exportRecords)
    /\ UNCHANGED <<xpJob, xpTask, exportQueue, activeExports, xpAborted, Disk, xpGet, Past>>

renamePartial(x) ==
    /\ xpTask[x] = "hashed" /\ xpTask' = [xpTask EXCEPT ![x] = "renamed"]
    /\ exportFiles' = exportFiles \cup {x} /\ partialFiles' = partialFiles \ {x}
    /\ UNCHANGED <<xpJob, Lists, exportQueue, activeExports, xpAborted, xpGet, Past>>

exportCompletes(x) ==
    /\ xpTask[x] = "renamed" /\ Settles(x) /\ updateRecord(x, "complete") /\ activeExports' = activeExports \ {x}
    /\ UNCHANGED <<xpJob, xpAborted, Disk, xpGet, Past>>

----------------------------------------
_handleExportsHttpRequest(d) ==
    /\ xpGet[d].pc = "new"
    /\ \E i \in DOMAIN exportRecords : LET r == exportRecords[i] IN
          /\ r.is = "complete" /\ r.id \in exportFiles
          /\ xpGet' = [xpGet EXCEPT ![d] = [pc |-> "streams", id |-> r.id, idx |-> 0]]
    /\ UNCHANGED <<xpJob, Lists, xpTask, exportQueue, activeExports, xpAborted, Disk, Past>>

(* A download that breaks off leaves the export for the next. *)
downloadAborted(d) ==
    /\ xpGet[d].pc = "streams" /\ xpGet' = [xpGet EXCEPT ![d].pc = "done"]
    /\ UNCHANGED <<xpJob, Lists, xpTask, exportQueue, activeExports, xpAborted, Disk, Past>>

(* Streamed to its end: the place of the record is looked up, the file goes. *)
deleteExportRecord(d) ==
    /\ xpGet[d].pc = "streams"
    /\ LET at == {i \in IndexOf(xpGet[d].id) : exportRecords[i].is = "complete"}
       IN xpGet' = [xpGet EXCEPT ![d] =
             IF at = {} THEN [@ EXCEPT !.pc = "done"] ELSE [@ EXCEPT !.pc = "unlinks", !.idx = CHOOSE i \in at : TRUE]]
    /\ UNCHANGED <<xpJob, Lists, xpTask, exportQueue, activeExports, xpAborted, Disk, Past>>

(* A file that cannot be removed stays, and its record goes all the same. *)
unlinkExport(d) ==
    /\ xpGet[d].pc = "unlinks" /\ xpGet' = [xpGet EXCEPT ![d].pc = "splices"]
    /\ \/ exportFiles' = exportFiles \ {xpGet[d].id} /\ UNCHANGED orphaned
       \/ xpJob.faults /\ orphaned' = orphaned \cup {xpGet[d].id} /\ UNCHANGED exportFiles
    /\ UNCHANGED <<xpJob, Lists, xpTask, exportQueue, activeExports, xpAborted, partialFiles, dbOpen, xpCrashed, leftBehind>>

(* The record at that place goes, whichever it is by now. *)
spliceRecord(d) ==
    /\ xpGet[d].pc = "splices" /\ xpGet' = [xpGet EXCEPT ![d].pc = "done"]
    /\ LET at == xpGet[d].idx
           hit == {exportRecords[i].id : i \in {at} \cap DOMAIN exportRecords}
       IN /\ Show([i \in 1..(Len(exportRecords) - Cardinality(hit)) |-> exportRecords[IF i < at THEN i ELSE i + 1]])
          /\ orphaned' = orphaned \cup (hit \ {xpGet[d].id})
          /\ leftBehind' = IF xpGet[d].id \in hit THEN leftBehind ELSE leftBehind \cup {xpGet[d].id}
    /\ UNCHANGED <<xpJob, xpTask, exportQueue, activeExports, xpAborted, Disk, dbOpen, xpCrashed>>

----------------------------------------
\* Mutant: an export the process died in is kept.
Survives_Running(r) == r.is = "complete" => r.id \in exportFiles

(* What a load keeps: a finished export whose file is there, a failed one. *)
Survives(r) == r.is = "error" \/ (r.is = "complete" /\ r.id \in exportFiles)

(* The records that survive, in the order they had; the list as it was when *)
(* the database cannot be read. *)
loadAndPruneExportsFromKeyv(held) ==
    \/ \E n \in 0..Len(savedRecords) : \E place \in [1..n -> DOMAIN savedRecords] :
           /\ \A i, j \in 1..n : i < j => place[i] < place[j]
           /\ {place[i] : i \in 1..n} = {i \in DOMAIN savedRecords : Survives(savedRecords[i])}
           /\ exportRecords' = [i \in 1..n |-> savedRecords[place[i]]]
           /\ savedRecords' = exportRecords' \/ (xpJob.faults /\ UNCHANGED savedRecords)
    \/ xpJob.faults /\ exportRecords' = held /\ UNCHANGED savedRecords

Told(list, x) == {list[i].is : i \in {j \in DOMAIN list : list[j].id = x}}
UnderWay(x) == xpTask[x] \notin {"new", "done"}

(* A load cannot know of an export under way, nor of what was not saved. *)
Overlooked == {x \in XpExport : UnderWay(x) \/ Told(savedRecords, x) # Told(exportRecords, x)}

(* start() loads the records again, whatever runs; stop() closes the *)
(* database under it. *)
startCommunity ==
    /\ ~dbOpen /\ dbOpen' = TRUE /\ loadAndPruneExportsFromKeyv(exportRecords)
    /\ orphaned' = orphaned \cup Overlooked
    /\ leftBehind' = IF exportRecords' = exportRecords THEN leftBehind ELSE {}
    /\ UNCHANGED <<xpJob, xpTask, exportQueue, activeExports, xpAborted, Disk, xpGet, xpCrashed>>

stopCommunity ==
    /\ dbOpen /\ dbOpen' = FALSE
    /\ UNCHANGED <<xpJob, Lists, xpTask, exportQueue, activeExports, xpAborted, Disk, xpGet, xpCrashed, orphaned, leftBehind>>

crashAndLoad ==
    /\ xpJob.crashes /\ ~xpCrashed /\ xpCrashed' = TRUE
    /\ xpTask' = [x \in XpExport |-> IF xpTask[x] = "new" THEN "new" ELSE "done"]
    /\ exportQueue' = <<>> /\ activeExports' = {} /\ xpAborted' = {}
    /\ xpGet' = [d \in XpDownload |-> IF xpGet[d].pc = "new" THEN xpGet[d] ELSE [xpGet[d] EXCEPT !.pc = "done"]]
    /\ dbOpen' = TRUE /\ loadAndPruneExportsFromKeyv(<<>>)
    /\ orphaned' = orphaned \cup Overlooked \cup (IF xpJob.faults THEN XpExport ELSE {})
    /\ leftBehind' = {}
    /\ UNCHANGED <<xpJob, Disk>>

----------------------------------------
XpInit ==
    /\ xpJob \in XpWorkload /\ exportRecords = <<>> /\ savedRecords = <<>>
    /\ xpTask = [x \in XpExport |-> "new"] /\ exportQueue = <<>> /\ activeExports = {} /\ xpAborted = {}
    /\ exportFiles = {} /\ partialFiles = {}
    /\ xpGet = [d \in XpDownload |-> [pc |-> "new", id |-> CHOOSE x \in XpExport : TRUE, idx |-> 0]]
    /\ dbOpen = TRUE /\ xpCrashed = FALSE /\ orphaned = {} /\ leftBehind = {}

XpNext ==
    \/ \E x \in XpExport :
          \/ exportCommunityEmbedded(x) \/ enqueueExport(x) \/ cancelExportEmbedded(x) \/ runExportTask(x)
          \/ backupCommunityDb(x) \/ onProgress(x) \/ backupThrows(x) \/ renamePartial(x) \/ exportCompletes(x)
    \/ \E d \in XpDownload :
          _handleExportsHttpRequest(d) \/ downloadAborted(d) \/ deleteExportRecord(d)
          \/ unlinkExport(d) \/ spliceRecord(d)
    \/ abortExports \/ startCommunity \/ stopCommunity \/ crashAndLoad

XpSpec == XpInit /\ [][XpNext]_xpVars

----------------------------------------
(* What the community shows is so: an export that shows as running will be *)
(* ended by a task of this process, and one that shows as complete has its *)
(* file until a download takes it; only a download whose place is stale, as *)
(* when two end together, leaves a record without its file. *)
RecordIsTrue ==
    \A i \in DOMAIN exportRecords : LET r == exportRecords[i] IN
       /\ r.is = "running" => UnderWay(r.id)
       /\ r.is = "complete" => \/ r.id \in exportFiles \cup leftBehind
                              \/ \E d \in XpDownload : xpGet[d].pc = "splices" /\ xpGet[d].id = r.id

(* Nothing is left behind: a file at its final path belongs to a complete *)
(* record or to a task about to complete it, and a partial copy to a backup *)
(* that runs; but for what a load overlooked, a stale place parted from its *)
(* record, or an unlink left. *)
ExportsAreListed ==
    /\ \A x \in exportFiles \ orphaned : xpTask[x] = "renamed" \/ "complete" \in Told(exportRecords, x)
    /\ \A x \in partialFiles \ orphaned : xpTask[x] \in {"copying", "hashed"}

(* An export that was cancelled before its file took its final path ends as *)
(* cancelled, whichever step of the copy the signal found it in. *)
CancelledIsNotCompleted ==
    [][\A x \in xpAborted : xpTask[x] \in {"queued", "copying"} =>
          xpTask'[x] \in {"queued", "done", "copying"}
          /\ (xpTask'[x] = "done" => x \notin partialFiles' \cup exportFiles')]_xpVars

(* The list of exports and the files in the export folder say the same, *)
(* through cancels, failures, downloads, restarts and crashes. *)
ExportsAreSound ==
    RecordIsTrue /\ ExportsAreListed
========================================
