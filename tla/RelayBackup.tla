----------------------------- MODULE RelayBackup -----------------------------
(***************************************************************************)
(* Backup and restore of the relay's database (scripts/relay-backup.js): a *)
(* restore checks the backup, copies it beside the live file, checkpoints  *)
(* and retires the live file, and renames the copy into its place.  Power  *)
(* may fail between any two steps, and each step may fail.                 *)
(*                                                                         *)
(* SQLite (external) is a main file and the commits its write-ahead log    *)
(* still holds; what it reads is both.  A file is the set of commits it    *)
(* holds, or damaged.  The relay is stopped while a restore runs, which    *)
(* the script asks for and, but for a busy database, cannot check.         *)
(***************************************************************************)
EXTENDS Naturals

CONSTANTS
    MaxCommits,     \* bound: transactions of the relay
    MaxRestores,    \* bound: restores
    Missing,        \* there is no such file
    Damaged         \* an incomplete file

ASSUME BackupAssumption ==
    /\ MaxCommits \in Nat /\ MaxRestores \in Nat
    /\ Missing # Damaged
    /\ \A file \in SUBSET (1..MaxCommits) : file \notin {Missing, Damaged}

VARIABLES
    live,           \* the database file
    log,            \* commits that only the live file's -wal holds
    backup,         \* the backup file
    temporary,      \* the copy beside the live file
    retired,        \* the files kept as pre-restore databases
    mine,           \* the one of the restore in progress
    relay,          \* stopped or running
    restoring,      \* the step of the restore in progress
    commits,        \* history variable: commits so far
    restores

backupVars == <<live, log, backup, temporary, retired, mine, relay, restoring, commits, restores>>

BackupInit ==
    /\ live = {} /\ log = {} /\ backup = Missing /\ temporary = Missing
    /\ retired = {} /\ mine = Missing /\ relay = "running" /\ restoring = "no" /\ commits = 0 /\ restores = 0

IsDatabase(file) == file \notin {Missing, Damaged}

-----------------------------------------------------------------------------
(***************************************************************************)
(* The relay and SQLite                                                    *)
(***************************************************************************)
RelayCommits ==
    /\ relay = "running" /\ commits < MaxCommits
    /\ commits' = commits + 1
    /\ log' = log \cup {commits'}
    /\ UNCHANGED <<live, backup, temporary, retired, mine, relay, restoring, restores>>

Checkpoints ==
    /\ relay = "running" /\ log # {}
    /\ live' = live \cup log /\ log' = {}
    /\ UNCHANGED <<backup, temporary, retired, mine, relay, restoring, commits, restores>>

\* The last connection checkpoints when it closes; a crash leaves the log.
RelayStopsRunning(clean) ==
    /\ relay = "running"
    /\ relay' = "stopped"
    /\ live' = IF clean THEN live \cup log ELSE live
    /\ log' = IF clean THEN {} ELSE log
    /\ UNCHANGED <<backup, temporary, retired, mine, restoring, commits, restores>>

\* openRelayDatabase() creates a database that does not exist; a log beside an
\* empty file is discarded.
RelayRuns ==
    /\ relay = "stopped" /\ restoring = "no"
    /\ relay' = "running"
    /\ live' = IF live = Missing THEN {} ELSE live
    /\ log' = IF live = Missing THEN {} ELSE log
    /\ UNCHANGED <<backup, temporary, retired, mine, restoring, commits, restores>>

-----------------------------------------------------------------------------
(***************************************************************************)
(* Backup                                                                  *)
(***************************************************************************)
\* createBackup(): a consistent copy, also while the relay runs, to a name that is
\* new.  A failure of the copy removes it; a crash leaves what was written.
BackupTaken ==
    /\ IsDatabase(live) /\ backup = Missing /\ restoring = "no"
    /\ \/ backup' = live \cup log
       \/ backup' = Damaged
    /\ UNCHANGED <<live, log, temporary, retired, mine, relay, restoring, commits, restores>>

\* The operator moves a backup away; a file may be damaged meanwhile.
BackupGone ==
    /\ backup # Missing /\ restoring = "no"
    /\ backup' = Missing
    /\ UNCHANGED <<live, log, temporary, retired, mine, relay, restoring, commits, restores>>

-----------------------------------------------------------------------------
(***************************************************************************)
(* restoreBackup()                                                         *)
(***************************************************************************)
RestoreUnchanged == UNCHANGED <<backup, relay, commits, restores>>

\* verifyBackupSilently(): a damaged backup, or one that is not the file its
\* metadata describes, ends the restore here.  The copy is made next.
Verifies ==
    /\ restoring = "no" /\ relay = "stopped" /\ restores < MaxRestores
    /\ IsDatabase(backup)
    /\ restores' = restores + 1
    /\ \/ temporary' = backup /\ restoring' = "copied"
       \/ temporary' = Damaged /\ restoring' = "no"
    /\ UNCHANGED <<live, log, backup, mine, retired, relay, commits>>

\* Fault: the log is left to removeSqliteSidecars().
LeavesLog ==
    /\ restoring = "copied" /\ live # Missing
    /\ restoring' = "checkpointed"
    /\ RestoreUnchanged /\ UNCHANGED <<live, log, temporary, mine, retired>>

\* checkpointDatabase()
CheckpointsLive ==
    /\ restoring = "copied" /\ live # Missing
    /\ live' = live \cup log /\ log' = {}
    /\ restoring' = "checkpointed"
    /\ RestoreUnchanged /\ UNCHANGED <<temporary, mine, retired>>

\* The rename to the pre-restore name.
Retires ==
    /\ restoring = "checkpointed"
    /\ retired' = retired \cup {live} /\ mine' = live
    /\ live' = Missing
    /\ restoring' = "moved"
    /\ RestoreUnchanged /\ UNCHANGED <<log, temporary>>

\* removeSqliteSidecars(), reached with or without a database to retire.
RemovesSidecars ==
    /\ \/ restoring = "moved"
       \/ restoring = "copied" /\ live = Missing
    /\ log' = {}
    /\ restoring' = "cleared"
    /\ RestoreUnchanged /\ UNCHANGED <<live, temporary, mine, retired>>

\* The rename of the copy.  inspectDatabase() then reads it; what it finds
\* changes nothing: the catch block sees a database in place.
Replaces ==
    /\ restoring = "cleared"
    /\ live' = temporary /\ temporary' = Missing
    /\ restoring' = "no" /\ mine' = Missing
    /\ RestoreUnchanged /\ UNCHANGED <<log, retired>>

\* The catch block puts the database back that this restore moved.
Fails ==
    /\ restoring # "no"
    /\ temporary' = Missing /\ restoring' = "no" /\ mine' = Missing
    /\ IF mine # Missing /\ live = Missing
         THEN live' = mine /\ retired' = retired \ {mine}
         ELSE UNCHANGED <<live, retired>>
    /\ RestoreUnchanged /\ UNCHANGED log

\* Power fails: nothing runs the catch block, and the copy stays.
Crashes ==
    /\ restoring # "no"
    /\ restoring' = "no" /\ mine' = Missing
    /\ RestoreUnchanged /\ UNCHANGED <<live, log, temporary, retired>>

BackupNext ==
    \/ RelayCommits \/ Checkpoints \/ RelayRuns
    \/ \E clean \in BOOLEAN : RelayStopsRunning(clean)
    \/ BackupTaken \/ BackupGone
    \/ Verifies \/ CheckpointsLive \/ Retires \/ RemovesSidecars \/ Replaces \/ Fails \/ Crashes

BackupSpec == BackupInit /\ [][BackupNext]_backupVars

-----------------------------------------------------------------------------
Readable == IF IsDatabase(live) THEN live \cup log ELSE {}

\* INVARIANT.  Wherever a restore stops, by an error or by a power failure, and
\* however often it is repeated, no transaction of the relay is lost: each is in
\* what SQLite reads as the live database or in a pre-restore database
\* (relay-backup.js:7 "The previous live database is preserved").
AllCommitsKept == 1..commits \subseteq Readable \cup UNION retired
==============================================================================
