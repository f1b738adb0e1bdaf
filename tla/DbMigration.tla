-------------------- MODULE DbMigration --------------------
(***************************************************************************)
(* createOrMigrateTablesIfNeeded of a community's database, with a process *)
(* that may be killed, or an operation that may throw, between any two     *)
(* statements: the statements are not in one transaction.                  *)
(***************************************************************************)
EXTENDS Naturals, Sequences, FiniteSets

CONSTANTS
    Tables,      \* the tables in the order they are rebuilt: comments, then those
                 \* whose rows are checked and deleted one by one, as edits are
    Rows,        \* Rows[t]: the rows of table t before the migration
    RowParent,   \* RowParent[r]: the row whose purge also removes r, or NoRow
    InvalidRows, \* rows whose schema or signature no longer verifies
    RowId,       \* RowId[r]: the rowid, which is kept by the copy of a table
    Signature,   \* Signature[r]: the value in the row's signature column
    MaxCrashes,
    NoRow, Missing

TableSet == {Tables[i] : i \in 1..Len(Tables)}
AllRows  == UNION {Rows[t] : t \in TableSet}
Comments == Tables[1]

(* Parents are comments.  The field that names the parent is signed, so two *)
(* rows that verify under one signature have one parent. *)
ASSUME MigrationAssumption ==
    /\ Tables \in Seq(TableSet) /\ Tables # <<>>
    /\ \A i, j \in 1..Len(Tables) : Tables[i] = Tables[j] => i = j
    /\ \A t \in TableSet : \A u \in TableSet \ {t} : Rows[t] \cap Rows[u] = {}
    /\ NoRow \notin AllRows /\ \A S \in SUBSET AllRows : S # Missing
    /\ RowParent \in [AllRows -> Rows[Comments] \cup {NoRow}]
    /\ RowId \in [AllRows -> Nat]
    /\ InvalidRows \subseteq AllRows /\ MaxCrashes \in Nat
    /\ \A r, s \in AllRows \ InvalidRows : Signature[r] = Signature[s] => RowParent[r] = RowParent[s]

VARIABLES
    disk,     \* [main, temp, filled, updates, version, state]: what the file holds
    backups,  \* copies under .backup_before_migration, [run, main, temp]
    boot,     \* [at, table, run, due]: the process opening the database, and the
              \* duplicates it has listed and not come to
    crashes   \* [count, cut, threw]: kills so far, tables cut between DROP and
              \* RENAME, and duplicates a migration threw over

migVars == <<disk, backups, boot, crashes>>

MigInit ==
    /\ disk = [main |-> [t \in TableSet |-> Rows[t]], temp |-> [t \in TableSet |-> Missing],
               filled |-> {}, updates |-> TRUE, version |-> "old", state |-> "old"]
    /\ backups = {}
    /\ boot = [at |-> "start", table |-> 1, run |-> 1, due |-> {}]
    /\ crashes = [count |-> 0, cut |-> {}, threw |-> {}]

Reach(stage) == boot' = [boot EXCEPT !.at = stage]
ThisTable == Tables[boot.table]

backupBeforeMigration_SameName ==
    /\ boot.at = "start"
    /\ IF disk.version = "new" THEN Reach("vacuum") /\ UNCHANGED backups
       ELSE /\ backups' = {[run |-> boot.run, main |-> disk.main, temp |-> disk.temp]}
            /\ Reach("drop")
    /\ UNCHANGED <<disk, crashes>>

(* Nothing to do for a file of this version; otherwise it is copied first. *)
backupBeforeMigration ==
    /\ boot.at = "start"
    /\ IF disk.version = "new" THEN Reach("vacuum") /\ UNCHANGED backups
       ELSE /\ backups' = backups \cup {[run |-> boot.run, main |-> disk.main, temp |-> disk.temp]}
            /\ Reach("drop")
    /\ UNCHANGED <<disk, crashes>>

(* The CommentUpdates are calculated again after a migration. *)
dropOldTables ==
    /\ boot.at = "drop"
    /\ disk' = [disk EXCEPT !.updates = FALSE]
    /\ Reach("create")
    /\ UNCHANGED <<backups, crashes>>

(* One table: a missing one is created empty; an existing one is copied into *)
(* a new table, row ids kept, which then takes its name. *)
createTable ==
    /\ boot.at = "create"
    /\ IF disk.main[ThisTable] = Missing
       THEN disk' = [disk EXCEPT !.main[ThisTable] = {}] /\ Reach("next")
       ELSE disk' = [disk EXCEPT !.temp[ThisTable] = {}] /\ Reach("copy")
    /\ UNCHANGED <<backups, crashes>>

copyTable ==
    /\ boot.at = "copy"
    /\ disk' = [disk EXCEPT !.temp[ThisTable] = disk.main[ThisTable]]
    /\ Reach("dropTable")
    /\ UNCHANGED <<backups, crashes>>

dropTable ==
    /\ boot.at = "dropTable"
    /\ disk' = [disk EXCEPT !.main[ThisTable] = Missing]
    /\ Reach("rename")
    /\ UNCHANGED <<backups, crashes>>

renameTable ==
    /\ boot.at = "rename"
    /\ disk' = [disk EXCEPT !.main[ThisTable] = disk.temp[ThisTable], !.temp[ThisTable] = Missing]
    /\ Reach("next")
    /\ UNCHANGED <<backups, crashes>>

nextTable ==
    /\ boot.at = "next"
    /\ boot' = IF boot.table < Len(Tables) THEN [boot EXCEPT !.table = @ + 1, !.at = "create"]
               ELSE [boot EXCEPT !.at = "invalid"]
    /\ UNCHANGED <<disk, backups, crashes>>

(* What goes when r goes is what has r among the rows above it, itself *)
(* included: the least set with r in it that holds the parent of each row. *)
ClosedUp(S) == \A x \in S : RowParent[x] = NoRow \/ RowParent[x] \in S
RowsAbove == [r \in AllRows |-> {x \in AllRows : \A S \in SUBSET AllRows : r \in S /\ ClosedUp(S) => x \in S}]

(* purgeComment: the comment goes with its replies, edits and votes. *)
purgeTree(r) == disk' = [disk EXCEPT !.main = [t \in TableSet |-> {x \in @[t] : r \notin RowsAbove[x]}]]

Stored == UNION {disk.main[t] : t \in TableSet}

(* Comments are read once, and each that does not verify is purged with its *)
(* tree in a transaction, unless an earlier purge took it along; the edits *)
(* left are checked one by one. *)
purgeInvalidComments ==
    /\ boot.at = "invalid"
    /\ \/ \E r \in InvalidRows \cap disk.main[Comments] : purgeTree(r) /\ UNCHANGED boot
       \/ InvalidRows \cap disk.main[Comments] = {} /\ Reach("invalidEdits") /\ UNCHANGED disk
    /\ UNCHANGED <<backups, crashes>>

OtherRowsWithout(gone) ==
    disk' = [disk EXCEPT !.main = [t \in TableSet |-> IF t = Comments THEN @[t] ELSE @[t] \ gone[t]]]

purgeInvalidEdits ==
    /\ boot.at = "invalidEdits"
    /\ OtherRowsWithout([t \in TableSet |-> InvalidRows])
    /\ Reach("duplicates")
    /\ UNCHANGED <<backups, crashes>>

(* Of two rows of a table with one signature the newer goes. *)
OlderCopies(r, S) == {x \in S : Signature[x] = Signature[r] /\ RowId[x] < RowId[r]}
Duplicates(t) == {r \in disk.main[t] : OlderCopies(r, disk.main[t]) # {}}

listDuplicates ==
    /\ boot.at = "duplicates"
    /\ boot' = [boot EXCEPT !.at = "purging", !.due = Duplicates(Comments)]
    /\ UNCHANGED <<disk, backups, crashes>>

(* The list was read before the first purge, so a duplicate in the tree of *)
(* another one is gone when its turn comes, and purging it throws: those *)
(* after it in the list stay for the next start. *)
purgeDuplicate ==
    /\ boot.at = "purging" /\ UNCHANGED backups
    /\ \/ \E r \in boot.due :
             /\ \A x \in boot.due : RowId[r] <= RowId[x]
             /\ \/ r \in disk.main[Comments] /\ purgeTree(r)
                   /\ boot' = [boot EXCEPT !.due = @ \ {r}] /\ UNCHANGED crashes
                \/ r \notin disk.main[Comments] /\ Reach("threw") /\ UNCHANGED disk
                   /\ crashes' = [crashes EXCEPT !.threw = @ \cup {r}]
       \/ boot.due = {} /\ Reach("duplicateRows") /\ UNCHANGED <<disk, crashes>>

(* Duplicates of the other tables are single rows, deleted in a transaction. *)
purgeDuplicateRows ==
    /\ boot.at = "duplicateRows"
    /\ OtherRowsWithout([t \in TableSet |-> Duplicates(t)])
    /\ Reach("backfill")
    /\ UNCHANGED <<backups, crashes>>

(* _backfillApprovedCommentNumbers and the target author columns. *)
backfill ==
    /\ boot.at = "backfill"
    /\ disk' = [disk EXCEPT !.filled = Stored]
    /\ Reach("version")
    /\ UNCHANGED <<backups, crashes>>

(* The backfills run before the version is written; the internal state is *)
(* migrated after it, through the same connection. *)
setVersion ==
    /\ boot.at = "version"
    /\ disk' = [disk EXCEPT !.version = "new"]
    /\ Reach("state")
    /\ UNCHANGED <<backups, crashes>>

migrateInternalState ==
    /\ boot.at = "state"
    /\ disk' = [disk EXCEPT !.state = "new"]
    /\ Reach("vacuum")
    /\ UNCHANGED <<backups, crashes>>

(* VACUUM, then the copy this run made is removed. *)
finishMigration ==
    /\ boot.at = "vacuum"
    /\ backups' = {b \in backups : b.run # boot.run}
    /\ Reach("open")
    /\ UNCHANGED <<disk, crashes>>

(* The connection is closed and the error thrown to the caller of start, who *)
(* may call it again; a kill can fall between any two statements. *)
startAgain ==
    /\ boot.at = "threw"
    /\ boot' = [at |-> "start", table |-> 1, run |-> boot.run + 1, due |-> {}]
    /\ UNCHANGED <<disk, backups, crashes>>

crash ==
    /\ crashes.count < MaxCrashes /\ boot.at \notin {"open", "threw"}
    /\ crashes' = [crashes EXCEPT !.count = @ + 1,
                                  !.cut = @ \cup (IF boot.at = "rename" THEN {ThisTable} ELSE {})]
    /\ boot' = [at |-> "start", table |-> 1, run |-> boot.run + 1, due |-> {}]
    /\ UNCHANGED <<disk, backups>>

MigNext ==
    \/ backupBeforeMigration \/ dropOldTables \/ createTable \/ copyTable \/ dropTable
    \/ renameTable \/ nextTable \/ purgeInvalidComments \/ purgeInvalidEdits
    \/ listDuplicates \/ purgeDuplicate \/ purgeDuplicateRows \/ backfill \/ setVersion \/ migrateInternalState
    \/ finishMigration \/ startAgain \/ crash

MigSpec == MigInit /\ [][MigNext]_migVars

----------------------------------------
(* A row is kept if all that it hangs from verifies and none of it is a copy *)
(* of an older row that also would be stored. *)
ValidRows == {r \in AllRows : RowsAbove[r] \cap InvalidRows = {}}
Twice == {r \in ValidRows : \E t \in TableSet : r \in Rows[t] /\ OlderCopies(r, Rows[t] \cap ValidRows) # {}}
KeptRows == {r \in ValidRows : RowsAbove[r] \cap Twice = {}}

HoldsRow(store, r) == \E t \in TableSet : store[t] # Missing /\ r \in store[t]

(* Wherever the process is killed, every row that is valid and no duplicate *)
(* is still in a table, in a copy that has not taken the table's name yet, *)
(* or in a backup. *)
RowsRecoverable ==
    \A r \in KeptRows : \/ HoldsRow(disk.main, r) \/ HoldsRow(disk.temp, r)
                        \/ \E b \in backups : HoldsRow(b.main, r)

(* A database at the new version holds exactly the rows the migration keeps, *)
(* backfilled, however often it was started again, unless a kill fell *)
(* between the DROP of a table and the RENAME of its copy. *)
MigratedIsComplete ==
    disk.version = "new" /\ crashes.cut = {} =>
        \A t \in TableSet : disk.main[t] = Rows[t] \cap KeptRows /\ disk.main[t] \subseteq disk.filled

(* A migration that throws over a duplicate in the tree of another one does *)
(* so once for that row: the purges before the throw are committed, and the *)
(* next start does not list the row again. *)
ThrowsOnce == boot.run <= 1 + crashes.count + Cardinality(crashes.threw)

(* A migration that is killed at any statement, and started again, loses no *)
(* valid row, ends with the rows it should keep and does not throw over the *)
(* same duplicate twice (createOrMigrateTablesIfNeeded). *)
MigrationIsSafe ==
    RowsRecoverable /\ MigratedIsComplete /\ ThrowsOnce
========================================
