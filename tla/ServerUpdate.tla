----------------------------- MODULE ServerUpdate -----------------------------
(***************************************************************************)
(* The operator commands of the server (infra/docker/voxhf-server.sh):     *)
(* start, backup, restore, update and rollback move the checkout, the      *)
(* image, the container, the database and its backups one after another,   *)
(* any step may fail, and the operator or a reboot may interrupt them      *)
(* between two steps.                                                      *)
(*                                                                         *)
(* Releases are numbers; every release brings a migration, so that the     *)
(* schema of a database is the newest release that has opened it.  Every   *)
(* release holds the backup helper.                                        *)
(***************************************************************************)
EXTENDS Naturals

CONSTANTS
    Newest,         \* bound: the releases are 1..Newest
    MaxWrites,      \* bound: changes that the relay commits
    MaxCommands     \* bound: commands

Stopped == 0
NoRecord == [previous |-> 0]

VARIABLES
    upstream,       \* the release on origin/main
    head,           \* the release that is checked out
    image,          \* the release the relay's image was built of
    serving,        \* the release of the running relay, if it is not Stopped
    db,             \* the database: schema and writes
    backups,        \* files of the backup directory, with the copies that restore keeps
    rollback,       \* ROLLBACK_FILE
    command, step,  \* the command at work and its next step
    kept,           \* previous and backup, the variables of update
    report,         \* history variable: the command that reported [OK] last
    stored,        \* history variable: writes so far
    commands

serverVars == <<upstream, head, image, serving, db, backups, rollback, command, step, kept, report,
                stored, commands>>
releaseVars == <<upstream, head, image>>
historyVars == <<stored, commands>>

ServerInit ==
    /\ upstream = 1 /\ head = 1 /\ image = 1 /\ serving = 1
    /\ db = [schema |-> 1, writes |-> {}]
    /\ backups = {} /\ rollback = NoRecord
    /\ command = "" /\ step = "" /\ kept = NoRecord /\ report = ""
    /\ stored = 0 /\ commands = 0

-----------------------------------------------------------------------------
At(s) == step = s
Goes(s) == step' = s /\ UNCHANGED <<command, report>>
\* set -e, or fail
Aborts == command' = "" /\ step' = "" /\ report' = ""
Succeeds == command' = "" /\ step' = "" /\ report' = command

\* applyMigrations(): opening the database runs the migrations it lacks in their
\* order, each in a transaction of its own, and may fail after any of them.
Migrated(release) == {[db EXCEPT !.schema = v] : v \in {db.schema} \cup (db.schema..release)}

\* compose up -d --build: the image is built, or the build fails and the container
\* stays as it is.  The new relay may open the database and not stay up.
Ups(release) ==
    /\ image' = release
    /\ serving' \in {release, Stopped}
    /\ db' \in Migrated(release)
    /\ serving' = release => db'.schema >= release

\* compose exec needs the running container.
BackupNamed ==
    /\ serving # Stopped
    /\ backups' = backups \cup {db}

\* wait_for_health()
Healthy == serving' # Stopped

-----------------------------------------------------------------------------
Begins(c, s) ==
    /\ command = "" /\ commands < MaxCommands
    /\ command' = c /\ step' = s /\ commands' = commands + 1
    /\ report' = ""
    /\ UNCHANGED <<releaseVars, serving, db, backups, rollback, kept, stored>>

\* command_start() and, behind "if !", the end of command_update().
CommandStart ==
    /\ At("start")
    /\ \/ /\ Ups(head)
          /\ IF Healthy THEN Succeeds ELSE Aborts
       \/ /\ UNCHANGED <<image, serving, db>>
          /\ IF command = "update" /\ Healthy THEN Succeeds ELSE Aborts
    /\ UNCHANGED <<upstream, head, backups, rollback, kept, historyVars>>

CommandBackup ==
    /\ At("backup")
    /\ BackupNamed
    /\ Succeeds
    /\ UNCHANGED <<releaseVars, serving, db, rollback, kept, historyVars>>

\* command_update(): backup_named before-update
UpdateBacksUp ==
    /\ At("before-update")
    /\ BackupNamed
    /\ kept' = [previous |-> head, backup |-> db]
    /\ Goes("pull")
    /\ UNCHANGED <<releaseVars, serving, db, rollback, historyVars>>

\* git pull --ff-only
UpdatePulls ==
    /\ At("pull")
    /\ head' = upstream
    /\ Goes("record")
    /\ UNCHANGED <<upstream, image, serving, db, backups, rollback, kept, historyVars>>

UpdateRecords ==
    /\ At("record")
    /\ rollback' = kept
    /\ Goes("start")
    /\ UNCHANGED <<releaseVars, serving, db, backups, kept, historyVars>>

\* command_rollback(): backup_named before-rollback, only of a running relay
RollbackBacksUp ==
    /\ At("before-rollback") /\ rollback # NoRecord
    /\ IF serving # Stopped THEN BackupNamed ELSE UNCHANGED backups
    /\ Goes("stop")
    /\ UNCHANGED <<releaseVars, serving, db, rollback, kept, historyVars>>

\* compose stop
StopsRelay ==
    /\ At("stop")
    /\ serving' = Stopped
    /\ Goes("restore")
    /\ UNCHANGED <<releaseVars, db, backups, rollback, kept, historyVars>>

\* Fault: the current database is not kept.
RestoredOver(backup) == db' = backup /\ UNCHANGED backups

\* restore_database(): relay-backup.js keeps the current database beside the new.
RestoreDatabase(backup) == db' = backup /\ backups' = backups \cup {db}

Restores ==
    /\ At("restore")
    /\ IF command = "rollback" THEN RestoreDatabase(rollback.backup) /\ Goes("reset")
       ELSE \E b \in backups : RestoreDatabase(b) /\ Goes("up")
    /\ UNCHANGED <<releaseVars, serving, rollback, kept, historyVars>>

\* git reset --hard
RollbackResets ==
    /\ At("reset")
    /\ head' = rollback.previous
    /\ Goes("rebuild")
    /\ UNCHANGED <<upstream, image, serving, db, backups, rollback, kept, historyVars>>

\* compose up -d --build of a rollback
RollbackUps ==
    /\ At("rebuild")
    /\ Ups(head)
    /\ IF Healthy THEN Succeeds ELSE Aborts
    /\ UNCHANGED <<upstream, head, backups, rollback, kept, historyVars>>

\* compose up -d of a restore: the image is not built.
RestoreUps ==
    /\ At("up")
    /\ Ups(image)
    /\ IF Healthy THEN Succeeds ELSE Aborts
    /\ UNCHANGED <<upstream, head, backups, rollback, kept, historyVars>>

\* A step fails without effect and the script ends, or the operator or a reboot ends
\* it: Docker starts a relay again that was not stopped.
Interrupted ==
    /\ command # ""
    /\ Aborts
    /\ UNCHANGED <<releaseVars, serving, db, backups, rollback, kept, historyVars>>

-----------------------------------------------------------------------------
ReleasePublished ==
    /\ upstream < Newest
    /\ upstream' = upstream + 1
    /\ UNCHANGED <<head, image, serving, db, backups, rollback, command, step, kept, report, historyVars>>

RelayWrites ==
    /\ serving # Stopped /\ stored < MaxWrites
    /\ stored' = stored + 1
    /\ db' = [db EXCEPT !.writes = @ \cup {stored'}]
    /\ UNCHANGED <<releaseVars, serving, backups, rollback, command, step, kept, report, commands>>

ServerNext ==
    \/ Begins("start", "start") \/ Begins("backup", "backup") \/ Begins("update", "before-update")
    \/ Begins("rollback", "before-rollback") \/ Begins("restore", "stop")
    \/ CommandStart \/ CommandBackup
    \/ UpdateBacksUp \/ UpdatePulls \/ UpdateRecords
    \/ RollbackBacksUp \/ StopsRelay \/ Restores \/ RollbackResets \/ RollbackUps \/ RestoreUps
    \/ Interrupted \/ ReleasePublished \/ RelayWrites

ServerSpec == ServerInit /\ [][ServerNext]_serverVars

-----------------------------------------------------------------------------
\* Whatever fails or is interrupted, and whatever is restored over, each change the
\* relay ever committed is in the database or in a file beside it; and a rollback
\* that reported success left the recorded release running, on the database that
\* was recorded for it and what the relay has written since.  A running relay finds
\* every migration it knows in the database.
ServerKeepsData ==
    /\ \A w \in 1..stored : \E d \in backups \cup {db} : w \in d.writes
    /\ serving # Stopped => db.schema >= serving
    /\ report = "rollback" =>
           /\ serving = rollback.previous /\ head = rollback.previous
           /\ rollback.backup.writes \subseteq db.writes

\* "[OK] Updated" (voxhf-server.sh:159): after an update that reported success the
\* relay runs the release that was pulled.
UpdatedMeansRunning == report = "update" => serving = head
==============================================================================
