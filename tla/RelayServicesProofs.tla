------------------------- MODULE RelayServicesProofs -------------------------
(***************************************************************************)
(* Proofs about the parts of MCRelayServices beside the routing and the    *)
(* tables of AccountsProofs, for any constants: the backup of the relay's  *)
(* database, the operator's commands, the page's control channel and its   *)
(* transmissions, presence, the radio panels and the agent's tickets.      *)
(* Each part has its own inductive invariant; what the run states of       *)
(* several parts follows at the end.                                       *)
(***************************************************************************)
EXTENDS MCRelayServices, AccountsProofs, FiniteSetTheorems, SequenceTheorems

-----------------------------------------------------------------------------
(***************************************************************************)
(* RelayBackup                                                             *)
(***************************************************************************)
Files == SUBSET (1..commits)

BackupTypeOK ==
    /\ commits \in 0..MaxCommits /\ restores \in 0..MaxRestores
    /\ live \in Files \cup {Missing}
    /\ log \in Files
    /\ backup \in Files \cup {Missing, Damaged}
    /\ temporary \in Files \cup {Missing, Damaged}
    /\ retired \subseteq Files
    /\ mine \in Files \cup {Missing}
    /\ relay \in {"running", "stopped"}
    /\ restoring \in {"no", "copied", "checkpointed", "moved", "cleared"}

\* Where a restore is: the relay is stopped while it runs, its copy is a
\* database, the log is empty before the live file is retired, and what the
\* catch block would put back is among the retired files.
RestoreInOrder ==
    /\ relay = "running" => live # Missing /\ restoring = "no"
    /\ restoring # "no" => IsDatabase(temporary)
    /\ restoring = "checkpointed" => live # Missing /\ log = {}
    /\ restoring \in {"moved", "cleared"} => live = Missing /\ log = {}
    /\ mine # Missing => mine \in retired /\ restoring \in {"moved", "cleared"}

BackupIInv == BackupTypeOK /\ RestoreInOrder /\ AllCommitsKept

\* A set of commits is not one of the two other values of a file.
LEMMA FilesAreDatabases ==
    BackupTypeOK => \A file \in Files : file \notin {Missing, Damaged}
<1> SUFFICES ASSUME BackupTypeOK, NEW file \in Files PROVE file \notin {Missing, Damaged}
    OBVIOUS
<1>1. file \in SUBSET (1..MaxCommits)
    BY BackupAssumption DEF BackupTypeOK, Files
<1> QED BY <1>1, BackupAssumption

LEMMA BackupIInit == BackupInit => BackupIInv
<1> SUFFICES ASSUME BackupInit PROVE BackupIInv
    OBVIOUS
<1>1. BackupTypeOK
    BY BackupAssumption DEF BackupInit, BackupTypeOK, Files
<1>2. {} \notin {Missing, Damaged}
    BY <1>1, FilesAreDatabases DEF Files
<1> QED BY <1>1, <1>2, BackupAssumption DEF BackupInit, BackupIInv, RestoreInOrder, AllCommitsKept

LEMMA BackupStep == BackupIInv /\ [BackupNext]_backupVars => BackupIInv'
<1> SUFFICES ASSUME BackupIInv, [BackupNext]_backupVars PROVE BackupIInv'
    OBVIOUS
<1> USE DEF BackupIInv, BackupTypeOK, RestoreInOrder, AllCommitsKept, Readable, IsDatabase, Files,
            RestoreUnchanged
<1>0. /\ MaxCommits \in Nat /\ MaxRestores \in Nat /\ Missing # Damaged
      /\ \A file \in SUBSET (1..commits) : file \notin {Missing, Damaged}
      /\ {} \notin {Missing, Damaged}
    BY FilesAreDatabases, BackupAssumption
<1>1. CASE RelayCommits
    BY <1>0, <1>1 DEF RelayCommits
<1>2. CASE Checkpoints
    BY <1>0, <1>2 DEF Checkpoints
<1>3. CASE RelayRuns
    <2>1. CASE live = Missing
        BY <1>0, <1>3, <2>1 DEF RelayRuns
    <2>2. CASE live # Missing
        BY <1>0, <1>3, <2>2 DEF RelayRuns
    <2> QED BY <2>1, <2>2
<1>4. ASSUME NEW clean \in BOOLEAN, RelayStopsRunning(clean) PROVE BackupIInv'
    BY <1>0, <1>4 DEF RelayStopsRunning
<1>5. CASE BackupTaken
    BY <1>0, <1>5 DEF BackupTaken
<1>6. CASE BackupGone
    BY <1>0, <1>6 DEF BackupGone
<1>7. CASE Verifies
    <2>1. CASE temporary' = backup /\ restoring' = "copied"
        BY <1>0, <1>7, <2>1 DEF Verifies
    <2>2. CASE temporary' = Damaged /\ restoring' = "no"
        BY <1>0, <1>7, <2>2 DEF Verifies
    <2> QED BY <1>7, <2>1, <2>2 DEF Verifies
<1>8. CASE CheckpointsLive
    BY <1>0, <1>8 DEF CheckpointsLive
<1>9. CASE Retires
    BY <1>0, <1>9 DEF Retires
<1>10. CASE RemovesSidecars
    BY <1>0, <1>10 DEF RemovesSidecars
<1>11. CASE Replaces
    BY <1>0, <1>11 DEF Replaces
<1>12. CASE Fails
    <2>1. CASE mine # Missing /\ live = Missing
        <3>1. mine \in Files /\ live' = mine /\ retired' = retired \ {mine} /\ log' = log /\ commits' = commits
            BY <1>12, <2>1 DEF Fails
        <3>2. 1..commits \subseteq UNION retired
            BY <2>1
        <3>3. AllCommitsKept'
            BY <1>0, <3>1, <3>2
        <3>4. BackupTypeOK' /\ RestoreInOrder'
            BY <1>0, <1>12, <2>1, <3>1 DEF Fails
        <3> QED BY <3>3, <3>4
    <2>2. CASE ~(mine # Missing /\ live = Missing)
        BY <1>0, <1>12, <2>2 DEF Fails
    <2> QED BY <2>1, <2>2
<1>13. CASE Crashes
    BY <1>0, <1>13 DEF Crashes
<1>14. CASE UNCHANGED backupVars
    BY <1>14 DEF backupVars
<1> QED BY <1>1, <1>2, <1>3, <1>4, <1>5, <1>6, <1>7, <1>8, <1>9, <1>10, <1>11, <1>12, <1>13, <1>14
        DEF BackupNext

\* Wherever a restore stops, every transaction of the relay is in a file.
THEOREM RestoreLosesNothing == BackupSpec => []AllCommitsKept
<1>1. BackupIInv => AllCommitsKept
    BY DEF BackupIInv
<1> QED BY BackupIInit, BackupStep, <1>1, PTL DEF BackupSpec

-----------------------------------------------------------------------------
(***************************************************************************)
(* ServerUpdate                                                            *)
(***************************************************************************)
Databases == [schema : Nat, writes : SUBSET Nat]
Records   == [previous : Nat, backup : Databases]

ServerTypeOK ==
    /\ upstream \in Nat /\ head \in Nat /\ image \in Nat /\ serving \in Nat /\ stored \in Nat
    /\ db \in Databases /\ backups \subseteq Databases
    /\ rollback \in Records \cup {NoRecord} /\ kept \in Records \cup {NoRecord}

\* Which command is at which step, and nothing is reported while one works.
CommandAtStep ==
    /\ report # "" => command = "" /\ step = ""
    /\ At("start") => command \in {"start", "update"}
    /\ At("backup") => command = "backup"
    /\ step \in {"before-update", "pull", "record"} => command = "update"
    /\ step \in {"before-rollback", "reset", "rebuild"} => command = "rollback"
    /\ step \in {"stop", "restore"} => command \in {"rollback", "restore"}
    /\ At("up") => command = "restore"

\* The database is only replaced while no relay runs, and a rollback has its record,
\* then the database of it, then the release of it.
RollbackInOrder ==
    /\ step \in {"restore", "reset", "rebuild", "up"} => serving = Stopped
    /\ command = "rollback" /\ step \in {"stop", "restore", "reset", "rebuild"} => rollback # NoRecord
    /\ step \in {"reset", "rebuild"} => rollback.backup.writes \subseteq db.writes
    /\ At("rebuild") => head = rollback.previous

ServerIInv == ServerTypeOK /\ CommandAtStep /\ RollbackInOrder /\ ServerKeepsData

LEMMA Successor == \A n \in Nat : n + 1 \in Nat /\ 1..(n + 1) = 1..n \cup {n + 1}
OBVIOUS

LEMMA StoresOne ==
    ASSUME ServerTypeOK, RelayWrites
    PROVE  /\ db' \in Databases /\ db'.schema = db.schema /\ db'.writes = db.writes \cup {stored'}
           /\ stored' \in Nat /\ 1..stored' = 1..stored \cup {stored'}
<1>1. stored \in Nat /\ stored' = stored + 1
    BY DEF ServerTypeOK, RelayWrites
<1>2. stored' \in Nat /\ 1..stored' = 1..stored \cup {stored'}
    BY <1>1, Successor
<1>3. db \in Databases /\ db' = [db EXCEPT !.writes = @ \cup {stored'}]
    BY DEF ServerTypeOK, RelayWrites
<1> QED BY <1>2, <1>3 DEF Databases

\* Bringing the relay up keeps the changes that the database holds, and a relay that
\* stays up has found its migrations.
LEMMA UpsKeepsWrites ==
    ASSUME ServerTypeOK, NEW release \in Nat, Ups(release)
    PROVE  /\ image' = release /\ serving' \in {release, Stopped}
           /\ db' \in Databases /\ db'.writes = db.writes /\ db'.schema >= db.schema
           /\ serving' = release => db'.schema >= release
<1>1. PICK v \in {db.schema} \cup (db.schema..release) : db' = [db EXCEPT !.schema = v]
    BY DEF Ups, Migrated
<1>2. db.schema \in Nat /\ v \in Nat /\ v >= db.schema
    BY <1>1 DEF ServerTypeOK, Databases
<1>3. db' \in Databases /\ db'.writes = db.writes /\ db'.schema >= db.schema
    BY <1>1, <1>2 DEF ServerTypeOK, Databases
<1> QED BY <1>3 DEF Ups

\* No change is lost when the files only grow and the database keeps its changes or
\* is among the files.
LEMMA WritesKept ==
    ASSUME ServerKeepsData, stored' = stored, backups \subseteq backups',
           db \in backups' \/ db.writes \subseteq db'.writes
    PROVE  \A w \in 1..stored' : \E d \in backups' \cup {db'} : w \in d.writes
BY DEF ServerKeepsData

LEMMA ServerIInit == ServerInit => ServerIInv
<1> SUFFICES ASSUME ServerInit PROVE ServerIInv
    OBVIOUS
<1>1. ServerTypeOK
    BY DEF ServerInit, ServerTypeOK, Databases
<1>2. CommandAtStep /\ RollbackInOrder
    BY DEF ServerInit, CommandAtStep, RollbackInOrder, At
<1>3. ServerKeepsData
    <2>1. 1..0 = {}
        OBVIOUS
    <2>2. stored = 0 /\ serving = 1 /\ db.schema = 1 /\ report = ""
        BY DEF ServerInit
    <2>3. \A w \in 1..stored : \E d \in backups \cup {db} : w \in d.writes
        BY <2>1, <2>2
    <2>4. 1 >= 1
        OBVIOUS
    <2>5. db.schema >= serving /\ report # "rollback"
        BY <2>2, <2>4, Zenon
    <2> QED BY <2>3, <2>5, Zenon DEF ServerKeepsData
<1> QED BY <1>1, <1>2, <1>3 DEF ServerIInv

LEMMA ServerStep == ServerIInv /\ [ServerNext]_serverVars => ServerIInv'
<1> SUFFICES ASSUME ServerIInv, [ServerNext]_serverVars PROVE ServerIInv'
    OBVIOUS
<1> USE DEF ServerIInv, CommandAtStep, RollbackInOrder, Stopped, At, Goes, Aborts, Succeeds, releaseVars,
            historyVars
<1>1. ASSUME NEW c \in {"start", "backup", "update", "rollback", "restore"}, NEW s,
             Begins(c, s),
             <<c, s>> \in {<<"start", "start">>, <<"backup", "backup">>, <<"update", "before-update">>,
                           <<"rollback", "before-rollback">>, <<"restore", "stop">>}
      PROVE  ServerIInv'
    BY <1>1 DEF Begins, ServerTypeOK, ServerKeepsData
<1>2. CASE CommandStart
    <2>1. CASE Ups(head) /\ (IF Healthy THEN Succeeds ELSE Aborts)
        <3>1. /\ image' = head /\ serving' \in {head, Stopped} /\ db' \in Databases
              /\ db'.writes = db.writes /\ (serving' = head => db'.schema >= head)
            BY <2>1, UpsKeepsWrites DEF ServerTypeOK
        <3>2. ServerTypeOK'
            <4>1. head \in Nat /\ 0 \in Nat
                BY DEF ServerTypeOK
            <4>2. image' \in Nat /\ serving' \in Nat
                BY <3>1, <4>1, Zenon
            <4> QED BY <1>2, <3>1, <4>2 DEF CommandStart, ServerTypeOK
        <3>3. CommandAtStep' /\ RollbackInOrder'
            BY <1>2, <2>1, <3>1 DEF CommandStart, Healthy
        <3>4. serving' # Stopped => db'.schema >= serving'
            BY <2>1, <3>1 DEF Healthy
        <3> QED BY <1>2, <2>1, <3>1, <3>2, <3>3, <3>4, WritesKept DEF CommandStart, Healthy, ServerKeepsData
    <2>2. CASE UNCHANGED <<image, serving, db>>
        BY <1>2, <2>2 DEF CommandStart, Healthy, ServerTypeOK, ServerKeepsData
    <2> QED BY <1>2, <2>1, <2>2 DEF CommandStart
<1>3. CASE CommandBackup
    BY <1>3, WritesKept DEF CommandBackup, BackupNamed, ServerTypeOK, ServerKeepsData
<1>4. CASE UpdateBacksUp
    BY <1>4, WritesKept DEF UpdateBacksUp, BackupNamed, ServerTypeOK, ServerKeepsData, Records
<1>5. CASE UpdatePulls
    BY <1>5 DEF UpdatePulls, ServerTypeOK, ServerKeepsData
<1>6. CASE UpdateRecords
    BY <1>6 DEF UpdateRecords, ServerTypeOK, ServerKeepsData
<1>7. CASE RollbackBacksUp
    BY <1>7, WritesKept DEF RollbackBacksUp, BackupNamed, ServerTypeOK, ServerKeepsData
<1>8. CASE StopsRelay
    BY <1>8 DEF StopsRelay, ServerTypeOK, ServerKeepsData
<1>9. CASE Restores
    <2>1. CASE command = "rollback"
        <3>1. rollback \in Records
            BY <1>9, <2>1 DEF Restores, ServerTypeOK
        <3>2. RestoreDatabase(rollback.backup) /\ step' = "reset"
            BY <1>9, <2>1 DEF Restores
        <3> QED BY <1>9, <2>1, <3>1, <3>2, WritesKept
                DEF Restores, RestoreDatabase, ServerTypeOK, ServerKeepsData, Records, Databases
    <2>2. CASE command # "rollback"
        <3>1. PICK b \in backups : RestoreDatabase(b) /\ step' = "up"
            BY <1>9, <2>2 DEF Restores
        <3> QED BY <1>9, <2>2, <3>1, WritesKept
                DEF Restores, RestoreDatabase, ServerTypeOK, ServerKeepsData
    <2> QED BY <2>1, <2>2
<1>10. CASE RollbackResets
    BY <1>10 DEF RollbackResets, ServerTypeOK, ServerKeepsData, Records
<1>11. CASE RollbackUps
    BY <1>11, UpsKeepsWrites, WritesKept DEF RollbackUps, Healthy, ServerTypeOK, ServerKeepsData, Databases
<1>12. CASE RestoreUps
    BY <1>12, UpsKeepsWrites, WritesKept DEF RestoreUps, Healthy, ServerTypeOK, ServerKeepsData, Databases
<1>13. CASE Interrupted
    BY <1>13 DEF Interrupted, ServerTypeOK, ServerKeepsData
<1>14. CASE ReleasePublished
    <2>1. upstream \in Nat /\ upstream' = upstream + 1
        BY <1>14 DEF ReleasePublished, ServerTypeOK
    <2>2. upstream' \in Nat
        BY <2>1, Successor
    <2> QED BY <1>14, <2>2 DEF ReleasePublished, ServerTypeOK, ServerKeepsData
<1>15. CASE RelayWrites
    <2>2. \A w \in 1..stored' : \E d \in backups' \cup {db'} : w \in d.writes
        <3> SUFFICES ASSUME NEW w \in 1..stored' PROVE \E d \in backups' \cup {db'} : w \in d.writes
            OBVIOUS
        <3>1. CASE w = stored'
            BY <1>15, StoresOne, <3>1
        <3>2. CASE w \in 1..stored
            <4>1. PICK d \in backups \cup {db} : w \in d.writes
                BY <3>2 DEF ServerKeepsData
            <4> QED BY <1>15, StoresOne, <4>1 DEF RelayWrites
        <3> QED BY <1>15, StoresOne, <3>1, <3>2
    <2> QED BY <1>15, StoresOne, <2>2 DEF RelayWrites, ServerTypeOK, ServerKeepsData
<1>16. CASE UNCHANGED serverVars
    BY <1>16 DEF serverVars, ServerTypeOK, ServerKeepsData
<1> QED BY <1>1, <1>2, <1>3, <1>4, <1>5, <1>6, <1>7, <1>8, <1>9, <1>10, <1>11, <1>12, <1>13, <1>14,
           <1>15, <1>16 DEF ServerNext

\* Whatever command fails or is interrupted, no change that the relay committed is
\* gone, a running relay finds its migrations, and a rollback that reports success
\* runs what was recorded.
THEOREM ServerCommandsKeepData == ServerSpec => []ServerKeepsData
<1>1. ServerIInv => ServerKeepsData
    BY DEF ServerIInv
<1> QED BY ServerIInit, ServerStep, <1>1, PTL DEF ServerSpec

-----------------------------------------------------------------------------
(***************************************************************************)
(* The microphone of the page, as part of WebLink                          *)
(***************************************************************************)
TalkTypeOK ==
    /\ holdSeq \in Nat /\ holdActive \in BOOLEAN
    /\ asking \subseteq Captures /\ onAir \in Captures \cup {NoTx}

\* At most one capture waits for each press, of no press to come, and while the last
\* press is held and its capture waits, nothing is on the air.
AskingIsForThePress ==
    /\ \A capture \in asking : capture.seq <= holdSeq
    /\ \A capture, other \in asking : capture.seq = other.seq => capture = other
    /\ \A capture \in asking : HoldCurrent(capture.seq) => onAir = NoTx

TalkIInv == TalkTypeOK /\ AskingIsForThePress /\ OnAirWhileHeld

(***************************************************************************)
(* WebLink                                                                 *)
(***************************************************************************)
AskedOfRelay == [type : {"list", "select"}, agent : Agents \cup {NoAgent}]
ToldPage     == [type : {"online", "offline", "revoked", "flight", "noflight"}, agent : Agents \cup {NoAgent}]

PageTypeOK ==
    /\ known \subseteq Agents /\ agentsUp \subseteq Agents
    /\ chosen \in Agents \cup {NoAgent} /\ relaySelected \in Agents \cup {NoAgent}
    /\ toRelay \in Seq(AskedOfRelay) /\ toPage \in Seq(ToldPage)

\* An online flight leaves nothing behind that could still block the page.
NothingBlocksFlight == status = "flight" => connected /\ ~controlsOff /\ ~offlineTimer

\* The last selection on its way to the relay.
LastSelects(agent) ==
    \E i \in DOMAIN toRelay :
        /\ toRelay[i] = Select(agent)
        /\ \A j \in DOMAIN toRelay : j > i => toRelay[j].type # "select"

NoSelection == \A i \in DOMAIN toRelay : toRelay[i].type # "select"
Revoking(agent) == \E i \in DOMAIN toPage : toPage[i] = [type |-> "revoked", agent |-> agent]

\* The agent shown was selected on this socket: the selection is on its way, or the
\* relay serves it, refused it, or is about to tell the page that it was revoked.
ChoiceIsOnItsWay ==
    ws = "open" /\ chosen # NoAgent =>
        /\ chosenHere = chosen
        /\ \/ LastSelects(chosen)
           \/ NoSelection /\ (relaySelected = chosen \/ chosen \in refusals \/ Revoking(chosen))

\* A page that is local has no agents, and nothing is told of one.
LocalHasNoAgents ==
    mode = "local" =>
        /\ chosen = NoAgent /\ relaySelected = NoAgent /\ agentsUp = {} /\ toRelay = <<>>
        /\ \A i \in DOMAIN toPage : toPage[i].agent = NoAgent

PageIInv == PageTypeOK /\ NothingBlocksFlight /\ ChoiceIsOnItsWay

LEMMA TalkIInit == TalkInit => TalkIInv
<1> SUFFICES ASSUME TalkInit PROVE TalkIInv
    OBVIOUS
<1>1. TalkTypeOK /\ OnAirWhileHeld
    BY DEF TalkInit, TalkTypeOK, OnAirWhileHeld
<1>2. AskingIsForThePress
    BY DEF TalkInit, AskingIsForThePress
<1> QED BY <1>1, <1>2 DEF TalkIInv

\* What ends every hold, and what leaves the transmission alone.
LEMMA StopTxKeeps == TalkIInv /\ StopTx /\ UNCHANGED <<holdSeq, asking>> => TalkIInv'
BY DEF TalkIInv, TalkTypeOK, AskingIsForThePress, OnAirWhileHeld, HoldCurrent, LastPress, StopTx, FinishTx

LEMMA TalkLeftAlone == TalkIInv /\ UNCHANGED <<holdSeq, holdActive, asking, onAir, tail>> => TalkIInv'
BY DEF TalkIInv, TalkTypeOK, AskingIsForThePress, OnAirWhileHeld, HoldCurrent, LastPress

LEMMA TalkSteps == TalkIInv /\ TalkStep => TalkIInv'
<1> SUFFICES ASSUME TalkIInv, TalkStep PROVE TalkIInv'
    OBVIOUS
<1> USE DEF TalkIInv, TalkTypeOK, AskingIsForThePress, OnAirWhileHeld, HoldCurrent, LastPress
<1>1. ASSUME NEW button \in Buttons, NEW disabled, Press(button, disabled) PROVE TalkIInv'
    <2> DEFINE capture == [seq |-> holdSeq + 1, monitor |-> button = "monitor"]
    <2>1. capture \in Captures /\ capture.seq = holdSeq + 1
        <3>1. (button = "monitor") \in BOOLEAN
            OBVIOUS
        <3>2. holdSeq + 1 \in 1..MaxPresses
            BY <1>1, TalkAssumption DEF Press
        <3> QED BY <3>1, <3>2 DEF Captures
    <2>2. asking' = IF (button # "monitor" /\ ~txReady) \/ onAir # NoTx THEN asking
                    ELSE asking \cup {capture}
        BY <1>1 DEF Press
    <2>3. holdSeq' = holdSeq + 1 /\ holdActive' = TRUE /\ onAir' = onAir
        BY <1>1 DEF Press
    <2> HIDE DEF capture
    <2>4. \A c \in asking : c.seq \in Nat /\ c.seq <= holdSeq
        BY DEF Captures
    <2>5. holdSeq' \in Nat /\ holdSeq < holdSeq'
        BY <2>3
    <2>6. CASE asking' = asking
        BY <2>3, <2>4, <2>5, <2>6
    <2>7. CASE asking' = asking \cup {capture} /\ onAir = NoTx
        BY <2>1, <2>3, <2>4, <2>5, <2>7
    <2> QED BY <2>2, <2>6, <2>7
<1>2. ASSUME NEW button \in Buttons, Release(button) PROVE TalkIInv'
    BY <1>2, StopTxKeeps DEF Release
<1>3. ASSUME NEW capture \in asking, NEW sent \in BOOLEAN, CaptureGranted(capture, sent) PROVE TalkIInv'
    BY <1>3 DEF CaptureGranted
<1>4. ASSUME NEW capture \in asking, NEW opened, CaptureFails(capture, opened) PROVE TalkIInv'
    BY <1>4 DEF CaptureFails
<1>5. CASE TailEnds
    BY <1>5 DEF TailEnds, FinishTx
<1>6. (ws = "open") \in BOOLEAN
    OBVIOUS
<1> QED BY <1>1, <1>2, <1>3, <1>4, <1>5, <1>6 DEF TalkStep

LEMMA TalkOfPage == TalkIInv /\ [PageNext]_pageVars => TalkIInv'
<1> SUFFICES ASSUME TalkIInv, [PageNext]_pageVars PROVE TalkIInv'
    OBVIOUS
<1> DEFINE Rests == UNCHANGED <<holdSeq, holdActive, asking, onAir, tail>>
           Stops == StopTx /\ UNCHANGED <<holdSeq, asking>>
<1> USE DEF talkVars
<1>1. PageStarts \/ RetryFires \/ Heartbeat \/ FallsSilent => Rests
    BY DEF PageStarts, RetryFires, Heartbeat, FallsSilent, OpenSocket
<1>2. SocketOpens => Rests
    BY DEF SocketOpens, RelayOnline
<1>3. ASSUME NEW g, SocketCloses(g) PROVE Rests \/ Stops
    BY <1>3 DEF SocketCloses, GoOffline
<1>4. AgentOnline => Rests
    BY DEF AgentOnline
<1>5. AgentOffline \/ PairingRevoked \/ OfflineTimerFires => Rests \/ Stops
    BY DEF AgentOffline, PairingRevoked, OfflineTimerFires, GoOffline
<1>6. StatusArrives => Rests \/ Stops
    BY DEF StatusArrives, SetOnline, SetOverlay, GoOffline
<1>7. RelayHandles => Rests
    BY DEF RelayHandles
<1>8. ASSUME NEW agent, AgentComes(agent) \/ AgentGoes(agent) \/ RelayRevokes(agent) PROVE Rests
    BY <1>8 DEF AgentComes, AgentGoes, RelayRevokes, RelayReports
<1>9. ASSUME NEW online, AgentReports(online) PROVE Rests
    BY <1>9 DEF AgentReports, RelayReports
<1>10. UNCHANGED pageVars => Rests
    BY DEF pageVars
<1>11. Rests \/ Stops \/ TalkStep => TalkIInv'
    BY StopTxKeeps, TalkLeftAlone, TalkSteps
<1> QED BY <1>1, <1>2, <1>3, <1>4, <1>5, <1>6, <1>7, <1>8, <1>9, <1>10, <1>11 DEF PageNext

\* However late the microphone is granted, what is on the air is held or in its tail.
THEOREM TransmitsWhileHeld == PageSpec => []OnAirWhileHeld
<1>1. PageInit => TalkIInv
    BY TalkIInit DEF PageInit
<1>2. TalkIInv => OnAirWhileHeld
    BY DEF TalkIInv
<1> QED BY <1>1, <1>2, TalkOfPage, PTL DEF PageSpec

-----------------------------------------------------------------------------
\* What is left when the first message of a channel is taken, and what is there
\* when some are appended.
LEMMA TakeFirst ==
    ASSUME NEW S, NEW q \in Seq(S), q # <<>>
    PROVE  /\ Tail(q) \in Seq(S) /\ DOMAIN q = 1..Len(q) /\ DOMAIN Tail(q) = 1..(Len(q) - 1)
           /\ Len(q) \in Nat /\ 1 \in DOMAIN q /\ Head(q) = q[1] /\ Head(q) \in S
           /\ \A i \in DOMAIN Tail(q) : i + 1 \in DOMAIN q /\ Tail(q)[i] = q[i + 1]
           /\ \A i \in DOMAIN q : i # 1 => i - 1 \in DOMAIN Tail(q) /\ Tail(q)[i - 1] = q[i]
<1>1. Len(q) \in Nat /\ Len(q) # 0 /\ DOMAIN q = 1..Len(q)
    BY EmptySeq, LenProperties
<1>2. /\ Tail(q) \in Seq(S) /\ Head(q) \in S /\ Head(q) = q[1] /\ Len(Tail(q)) = Len(q) - 1
      /\ \A i \in 1..Len(Tail(q)) : Tail(q)[i] = q[i + 1]
    BY HeadTailProperties
<1>3. DOMAIN Tail(q) = 1..(Len(q) - 1)
    BY <1>2, LenProperties
<1>4. ASSUME NEW i \in DOMAIN Tail(q) PROVE i + 1 \in DOMAIN q /\ Tail(q)[i] = q[i + 1]
    BY <1>1, <1>2, <1>3
<1>5. ASSUME NEW i \in DOMAIN q, i # 1 PROVE i - 1 \in DOMAIN Tail(q) /\ Tail(q)[i - 1] = q[i]
    <2>1. i - 1 \in DOMAIN Tail(q) /\ (i - 1) + 1 = i
        BY <1>1, <1>3, <1>5
    <2> QED BY <1>4, <2>1
<1> QED BY <1>1, <1>2, <1>3, <1>4, <1>5

LEMMA AppendOne ==
    ASSUME NEW S, NEW q \in Seq(S), NEW m \in S
    PROVE  /\ Append(q, m) \in Seq(S) /\ DOMAIN q \subseteq DOMAIN Append(q, m)
           /\ \A i \in DOMAIN q : Append(q, m)[i] = q[i]
           /\ \E n \in DOMAIN Append(q, m) :
                  /\ Append(q, m)[n] = m
                  /\ \A i \in DOMAIN Append(q, m) : i \in DOMAIN q \/ i = n
                  /\ \A i \in DOMAIN Append(q, m) : ~(i > n)
<1>1. /\ Append(q, m) \in Seq(S) /\ Len(Append(q, m)) = Len(q) + 1
      /\ \A i \in 1..Len(q) : Append(q, m)[i] = q[i]
      /\ Append(q, m)[Len(q) + 1] = m
    BY AppendProperties
<1>2. Len(q) \in Nat /\ DOMAIN q = 1..Len(q) /\ DOMAIN Append(q, m) = 1..(Len(q) + 1)
    BY <1>1, LenProperties
<1>3. Len(q) + 1 \in DOMAIN Append(q, m)
    BY <1>2
<1> QED BY <1>1, <1>2, <1>3

LEMMA JoinKeeps ==
    ASSUME NEW S, NEW q \in Seq(S), NEW r \in Seq(S)
    PROVE  q \o r \in Seq(S) /\ \A i \in DOMAIN q : i \in DOMAIN (q \o r) /\ (q \o r)[i] = q[i]
<1>1. /\ q \o r \in Seq(S) /\ Len(q \o r) = Len(q) + Len(r)
      /\ \A i \in 1..(Len(q) + Len(r)) : (q \o r)[i] = IF i <= Len(q) THEN q[i] ELSE r[i - Len(q)]
    BY ConcatProperties
<1>2. /\ Len(q) \in Nat /\ Len(r) \in Nat /\ DOMAIN q = 1..Len(q)
      /\ DOMAIN (q \o r) = 1..(Len(q) + Len(r))
    BY <1>1, LenProperties
<1> QED BY <1>1, <1>2

\* The relay takes a message of the page: selections that follow it stay the last.
LEMMA RelayTakesOne ==
    ASSUME PageTypeOK, toRelay # <<>>, toRelay' = Tail(toRelay), NEW agent
    PROVE  /\ toRelay' \in Seq(AskedOfRelay) /\ Head(toRelay) \in AskedOfRelay
           /\ NoSelection => NoSelection' /\ Head(toRelay).type # "select"
           /\ LastSelects(agent) => LastSelects(agent)' \/ (Head(toRelay) = Select(agent) /\ NoSelection')
<1>0. toRelay \in Seq(AskedOfRelay)
    BY DEF PageTypeOK
<1>1. /\ Tail(toRelay) \in Seq(AskedOfRelay) /\ 1 \in DOMAIN toRelay /\ DOMAIN toRelay = 1..Len(toRelay)
      /\ Len(toRelay) \in Nat /\ DOMAIN Tail(toRelay) = 1..(Len(toRelay) - 1)
      /\ Head(toRelay) = toRelay[1] /\ Head(toRelay) \in AskedOfRelay
      /\ \A i \in DOMAIN Tail(toRelay) : i + 1 \in DOMAIN toRelay /\ Tail(toRelay)[i] = toRelay[i + 1]
      /\ \A i \in DOMAIN toRelay : i # 1 => i - 1 \in DOMAIN Tail(toRelay) /\ Tail(toRelay)[i - 1] = toRelay[i]
    BY <1>0, TakeFirst
<1>2. NoSelection => NoSelection' /\ Head(toRelay).type # "select"
    BY <1>1 DEF NoSelection
<1>3. ASSUME LastSelects(agent)
      PROVE  LastSelects(agent)' \/ (Head(toRelay) = Select(agent) /\ NoSelection')
    <2>1. PICK i \in DOMAIN toRelay :
              /\ toRelay[i] = Select(agent)
              /\ \A j \in DOMAIN toRelay : j > i => toRelay[j].type # "select"
        BY <1>3 DEF LastSelects
    <2>2. CASE i = 1
        <3>1. \A j \in DOMAIN toRelay' : toRelay'[j].type # "select"
            BY <1>1, <2>1, <2>2
        <3> QED BY <1>1, <2>1, <2>2, <3>1 DEF NoSelection
    <2>3. CASE i # 1
        <3>1. i - 1 \in DOMAIN toRelay' /\ toRelay'[i - 1] = Select(agent)
            BY <1>1, <2>1, <2>3
        <3>2. \A j \in DOMAIN toRelay' : j > i - 1 => toRelay'[j].type # "select"
            BY <1>1, <2>1, <2>3
        <3> QED BY <3>1, <3>2 DEF LastSelects, Select
    <2> QED BY <2>2, <2>3
<1> QED BY <1>1, <1>2, <1>3

LEMMA PageChooses ==
    ASSUME PageTypeOK, NEW agent \in Agents, toRelay' = Append(toRelay, Select(agent))
    PROVE  toRelay' \in Seq(AskedOfRelay) /\ LastSelects(agent)'
<1>1. Select(agent) \in AskedOfRelay
    BY DEF Select, AskedOfRelay
<1>2. toRelay' \in Seq(AskedOfRelay) /\ \E n \in DOMAIN toRelay' :
          toRelay'[n] = Select(agent) /\ \A i \in DOMAIN toRelay' : ~(i > n)
    BY <1>1, AppendOne DEF PageTypeOK
<1> QED BY <1>2 DEF LastSelects, Select

LEMMA SameSelections ==
    ASSUME toRelay' = toRelay, NEW agent
    PROVE  (LastSelects(agent) => LastSelects(agent)') /\ (NoSelection => NoSelection')
BY DEF LastSelects, NoSelection, Select

\* The page takes a message, or the relay sends some.
LEMMA PageTakes ==
    ASSUME PageTypeOK, toPage # <<>>, toPage' = Tail(toPage), NEW agent,
           Head(toPage) # [type |-> "revoked", agent |-> agent]
    PROVE  toPage' \in Seq(ToldPage) /\ (Revoking(agent) => Revoking(agent)')
<1>1. /\ Tail(toPage) \in Seq(ToldPage) /\ Head(toPage) = toPage[1]
      /\ \A i \in DOMAIN toPage : i # 1 => i - 1 \in DOMAIN Tail(toPage) /\ Tail(toPage)[i - 1] = toPage[i]
    BY TakeFirst DEF PageTypeOK
<1> QED BY <1>1 DEF Revoking

LEMMA RelaySends ==
    ASSUME PageTypeOK, NEW messages \in Seq(ToldPage), toPage' = toPage \o messages, NEW agent
    PROVE  toPage' \in Seq(ToldPage) /\ (Revoking(agent) => Revoking(agent)')
<1>1. toPage' \in Seq(ToldPage) /\ \A i \in DOMAIN toPage : i \in DOMAIN toPage' /\ toPage'[i] = toPage[i]
    BY JoinKeeps DEF PageTypeOK
<1> QED BY <1>1 DEF Revoking

LEMMA RelayTells ==
    ASSUME PageTypeOK, NEW m \in ToldPage, toPage' = toPage \o <<m>>, NEW agent
    PROVE  /\ toPage' \in Seq(ToldPage) /\ (Revoking(agent) => Revoking(agent)')
           /\ m = [type |-> "revoked", agent |-> agent] => Revoking(agent)'
           /\ \A i \in DOMAIN toPage' : toPage'[i] = m \/ (i \in DOMAIN toPage /\ toPage'[i] = toPage[i])
<1>1. <<m>> \in Seq(ToldPage) /\ toPage \in Seq(ToldPage)
    BY DEF PageTypeOK
<1>2. toPage' \in Seq(ToldPage) /\ (Revoking(agent) => Revoking(agent)')
    BY <1>1, RelaySends
<1>3. /\ Len(toPage') = Len(toPage) + 1 /\ Len(toPage) \in Nat
      /\ DOMAIN toPage = 1..Len(toPage) /\ DOMAIN toPage' = 1..Len(toPage')
      /\ \A i \in 1..Len(toPage') :
             toPage'[i] = IF i <= Len(toPage) THEN toPage[i] ELSE <<m>>[i - Len(toPage)]
    BY <1>1, <1>2, ConcatProperties, LenProperties
<1>4. Len(toPage) + 1 \in DOMAIN toPage' /\ toPage'[Len(toPage) + 1] = m
    BY <1>3
<1>5. \A i \in DOMAIN toPage' : toPage'[i] = m \/ (i \in DOMAIN toPage /\ toPage'[i] = toPage[i])
    BY <1>3
<1> QED BY <1>2, <1>4, <1>5 DEF Revoking

LEMMA SameReports == ASSUME toPage' = toPage, NEW agent PROVE Revoking(agent) => Revoking(agent)'
BY DEF Revoking

\* The choice stays on its way when the channels and the choice are left alone.
LEMMA ChoiceLeftAlone ==
    ASSUME ChoiceIsOnItsWay,
           UNCHANGED <<chosen, chosenHere, toRelay, relaySelected>>, refusals \subseteq refusals',
           ws' = "open" => ws = "open" /\ (Revoking(chosen) => Revoking(chosen)')
    PROVE  ChoiceIsOnItsWay'
<1> SUFFICES ASSUME ws' = "open", chosen # NoAgent
             PROVE  \/ LastSelects(chosen)'
                    \/ NoSelection' /\ (relaySelected = chosen \/ chosen \in refusals' \/ Revoking(chosen)')
    BY DEF ChoiceIsOnItsWay
<1> QED BY SameSelections DEF ChoiceIsOnItsWay

LEMMA PageIInit == PageInit => PageIInv
<1> SUFFICES ASSUME PageInit PROVE PageIInv
    OBVIOUS
<1>1. <<>> \in Seq(AskedOfRelay) /\ <<>> \in Seq(ToldPage)
    OBVIOUS
<1> QED BY <1>1 DEF PageInit, PageIInv, PageTypeOK, NothingBlocksFlight, ChoiceIsOnItsWay

\* A new socket begins with nothing known and nothing on its way.
LEMMA SocketIsNew == PageIInv /\ OpenSocket => PageIInv'
<1> SUFFICES ASSUME PageIInv, OpenSocket PROVE PageIInv'
    OBVIOUS
<1>1. <<>> \in Seq(AskedOfRelay) /\ <<>> \in Seq(ToldPage)
    OBVIOUS
<1> QED BY <1>1 DEF OpenSocket, PageIInv, PageTypeOK, NothingBlocksFlight, ChoiceIsOnItsWay, choiceVars

LEMMA ArrivalTakes ==
    ASSUME PageIInv, NEW m, Arrives(m), NEW agent, m # [type |-> "revoked", agent |-> agent]
    PROVE  toPage' \in Seq(ToldPage) /\ (Revoking(agent) => Revoking(agent)')
BY PageTakes DEF Arrives, PageIInv

LEMMA PageOfList ==
    ASSUME NEW order, order \in [1..Cardinality(agentsUp) -> agentsUp], PageTypeOK
    PROVE  [i \in DOMAIN order |-> DeviceState(order[i], TRUE)] \in Seq(ToldPage)
<1> DEFINE list == [i \in DOMAIN order |-> DeviceState(order[i], TRUE)]
<1>1. Cardinality(agentsUp) \in Nat
    BY FS_Subset, FS_CardinalityType, LinkAssumption DEF PageTypeOK
<1>2. DOMAIN order = 1..Cardinality(agentsUp) /\ \A i \in DOMAIN order : order[i] \in Agents
    BY DEF PageTypeOK
<1>3. \A i \in DOMAIN order : DeviceState(order[i], TRUE) \in ToldPage
    BY <1>2 DEF DeviceState, ToldPage
<1>4. list \in [1..Cardinality(agentsUp) -> ToldPage]
    BY <1>2, <1>3
<1> HIDE DEF list
<1>5. list \in Seq(ToldPage)
    BY <1>1, <1>4, SeqDef
<1> QED BY <1>5 DEF list

LEMMA RelayReportKept ==
    ASSUME PageIInv, NEW m \in ToldPage, RelayReports(m), relaySelected' = relaySelected,
           agentsUp' \subseteq Agents
    PROVE  PageIInv'
<1>1. toPage' = toPage \/ toPage' = toPage \o <<m>>
    BY DEF RelayReports, RelayAnswers
<1>2. UNCHANGED <<known, chosen, chosenHere, toRelay, refusals, ws, status, connected, controlsOff, offlineTimer>>
    BY DEF RelayReports, choiceVars, landingVars, socketVars
<1>3. ASSUME NEW agent PROVE toPage' \in Seq(ToldPage) /\ (Revoking(agent) => Revoking(agent)')
    <2>1. CASE toPage' = toPage
        BY <2>1, SameReports DEF PageIInv, PageTypeOK
    <2>2. CASE toPage' = toPage \o <<m>>
        BY <2>2, RelayTells DEF PageIInv
    <2> QED BY <1>1, <2>1, <2>2
<1>4. ChoiceIsOnItsWay'
    BY <1>2, <1>3, ChoiceLeftAlone DEF PageIInv
<1> QED BY <1>2, <1>3, <1>4 DEF PageIInv, PageTypeOK, NothingBlocksFlight

LEMMA RelayHandlesKeeps == PageIInv /\ RelayHandles => PageIInv'
<1> SUFFICES ASSUME PageIInv, RelayHandles PROVE PageIInv'
    OBVIOUS
<1>1. /\ toRelay # <<>> /\ toRelay' = Tail(toRelay) /\ ws = "open"
      /\ UNCHANGED <<known, chosen, chosenHere, agentsUp, ws, status, connected, controlsOff, offlineTimer>>
    BY DEF RelayHandles, choiceVars, landingVars, socketVars
<1>2. /\ toRelay' \in Seq(AskedOfRelay) /\ Head(toRelay) \in AskedOfRelay
      /\ NoSelection => NoSelection' /\ Head(toRelay).type # "select"
      /\ LastSelects(chosen) => LastSelects(chosen)' \/ (Head(toRelay) = Select(chosen) /\ NoSelection')
    BY <1>1, RelayTakesOne DEF PageIInv
<1>3. CASE Head(toRelay) = DeviceList
    <2>0. Head(toRelay).type # "select"
        BY <1>3 DEF DeviceList
    <2>1. PICK order \in [1..Cardinality(agentsUp) -> agentsUp] :
              RelayAnswers([i \in DOMAIN order |-> DeviceState(order[i], TRUE)])
        BY <2>0 DEF RelayHandles
    <2> DEFINE list == [i \in DOMAIN order |-> DeviceState(order[i], TRUE)]
    <2>2. toPage' \in Seq(ToldPage) /\ (Revoking(chosen) => Revoking(chosen)')
        <3>1. list \in Seq(ToldPage) /\ toPage' = toPage \o list
            BY <2>1, PageOfList DEF RelayAnswers, PageIInv
        <3> HIDE DEF list
        <3>2. \A agent : toPage' \in Seq(ToldPage) /\ (Revoking(agent) => Revoking(agent)')
            BY <3>1, RelaySends DEF PageIInv
        <3> QED BY <1>1, <3>2
    <2>3. UNCHANGED <<relaySelected, refusals>>
        BY <2>0 DEF RelayHandles
    <2>4. ChoiceIsOnItsWay'
        BY <1>1, <1>2, <1>3, <2>2, <2>3 DEF ChoiceIsOnItsWay, PageIInv, DeviceList, Select
    <2> QED BY <1>1, <1>2, <2>2, <2>3, <2>4 DEF PageIInv, PageTypeOK, NothingBlocksFlight
<1>4. CASE /\ Head(toRelay).type = "select" /\ Head(toRelay).agent \in agentsUp
           /\ relaySelected' = Head(toRelay).agent
           /\ RelayAnswers(<<DeviceState(relaySelected', TRUE)>>) /\ UNCHANGED refusals
    <2>1. relaySelected' \in Agents /\ DeviceState(relaySelected', TRUE) \in ToldPage
        BY <1>4 DEF PageIInv, PageTypeOK, DeviceState, ToldPage
    <2>2. toPage' \in Seq(ToldPage)
        BY <1>4, <2>1, RelayTells DEF RelayAnswers, PageIInv
    <2>3. ChoiceIsOnItsWay'
        BY <1>1, <1>2, <1>4 DEF ChoiceIsOnItsWay, PageIInv, Select
    <2> QED BY <1>1, <1>2, <2>1, <2>2, <2>3 DEF PageIInv, PageTypeOK, NothingBlocksFlight
<1>5. CASE /\ Head(toRelay).type = "select" /\ Head(toRelay).agent \notin agentsUp
           /\ refusals' = refusals \cup {Head(toRelay).agent} /\ UNCHANGED <<relaySelected, toPage>>
    <2>1. ChoiceIsOnItsWay'
        BY <1>1, <1>2, <1>5, SameReports DEF ChoiceIsOnItsWay, PageIInv, Select
    <2> QED BY <1>1, <1>2, <1>5, <2>1 DEF PageIInv, PageTypeOK, NothingBlocksFlight
<1> QED BY <1>3, <1>4, <1>5 DEF RelayHandles

\* The local proxy is the only partner of a page that is local.
LEMMA LocalStep == PageTypeOK /\ LocalHasNoAgents /\ [PageNext]_pageVars => LocalHasNoAgents'
<1> SUFFICES ASSUME PageTypeOK, LocalHasNoAgents, [PageNext]_pageVars, mode' = "local"
             PROVE  LocalHasNoAgents'
    BY DEF LocalHasNoAgents
<1> USE DEF choiceVars, landingVars, socketVars, farVars, talkVars
<1>1. mode = "local"
    <2>1. mode' = mode
        BY DEF PageNext, PageStarts, RetryFires, Heartbeat, FallsSilent, OpenSocket, SocketOpens, SocketCloses,
               AgentOnline, AgentOffline, PairingRevoked, StatusArrives, Arrives, OfflineTimerFires, RelayHandles,
               AgentComes, AgentGoes, RelayRevokes, AgentReports, RelayReports, TalkStep, controlVars, pageVars
    <2> QED BY <2>1
<1>2. /\ chosen = NoAgent /\ relaySelected = NoAgent /\ agentsUp = {} /\ toRelay = <<>>
      /\ \A i \in DOMAIN toPage : toPage[i].agent = NoAgent
    BY <1>1 DEF LocalHasNoAgents
<1>3. ASSUME UNCHANGED <<chosen, relaySelected, agentsUp, toRelay>>, toPage' \in {toPage, <<>>}
      PROVE  LocalHasNoAgents'
    BY <1>2, <1>3 DEF LocalHasNoAgents
<1>4. ASSUME NEW m, Arrives(m) PROVE m.agent = NoAgent /\ \A i \in DOMAIN toPage' : toPage'[i].agent = NoAgent
    <2>1. toPage \in Seq(ToldPage) /\ toPage # <<>> /\ m = Head(toPage) /\ toPage' = Tail(toPage)
        BY <1>4 DEF Arrives, PageTypeOK
    <2>2. /\ 1 \in DOMAIN toPage /\ Head(toPage) = toPage[1]
          /\ \A i \in DOMAIN toPage' : i + 1 \in DOMAIN toPage /\ toPage'[i] = toPage[i + 1]
        BY <2>1, TakeFirst
    <2> QED BY <1>2, <2>1, <2>2
<1>5. CASE PageStarts \/ RetryFires \/ Heartbeat \/ FallsSilent
    BY <1>2, <1>5 DEF PageStarts, RetryFires, Heartbeat, FallsSilent, OpenSocket, LocalHasNoAgents
<1>6. CASE SocketOpens
    BY <1>1, <1>3, <1>6 DEF SocketOpens
<1>7. ASSUME NEW g, SocketCloses(g) PROVE LocalHasNoAgents'
    BY <1>2, <1>7 DEF SocketCloses, LocalHasNoAgents
<1>8. CASE AgentOnline \/ AgentOffline \/ PairingRevoked
    <2>1. PICK agent \in Agents, type \in {"online", "offline", "revoked"} :
              Arrives([type |-> type, agent |-> agent])
        BY <1>8 DEF AgentOnline, AgentOffline, PairingRevoked, DeviceState
    <2>2. agent = NoAgent
        BY <1>4, <2>1
    <2> QED BY <2>2, LinkAssumption
<1>9. CASE StatusArrives
    <2>1. PICK m : Arrives(m)
        BY <1>9 DEF StatusArrives
    <2> QED BY <1>2, <1>4, <1>9, <2>1 DEF StatusArrives, Arrives, LocalHasNoAgents
<1>10. CASE OfflineTimerFires
    BY <1>3, <1>10 DEF OfflineTimerFires
<1>11. CASE RelayHandles
    BY <1>2, <1>11 DEF RelayHandles
<1>12. ASSUME NEW agent \in Agents, AgentComes(agent) \/ AgentGoes(agent) \/ RelayRevokes(agent)
       PROVE  LocalHasNoAgents'
    BY <1>1, <1>2, <1>12, LinkAssumption DEF AgentComes, AgentGoes, RelayRevokes
<1>13. ASSUME NEW online \in BOOLEAN, AgentReports(online) PROVE LocalHasNoAgents'
    <2> DEFINE m == [type |-> IF online THEN "flight" ELSE "noflight", agent |-> relaySelected]
    <2>1. RelayReports(m) /\ UNCHANGED <<agentsUp, relaySelected, chosen, toRelay>>
        BY <1>13 DEF AgentReports, RelayReports
    <2>2. m.agent = NoAgent /\ m \in ToldPage
        BY <1>2 DEF ToldPage
    <2>3. CASE toPage' = toPage
        BY <1>3, <2>1, <2>3
    <2>4. CASE toPage' = toPage \o <<m>>
        <3> HIDE DEF m
        <3>1. \A i \in DOMAIN toPage' : toPage'[i] = m \/ (i \in DOMAIN toPage /\ toPage'[i] = toPage[i])
            BY <2>2, <2>4, RelayTells
        <3> QED BY <1>2, <2>1, <2>2, <3>1 DEF LocalHasNoAgents
    <2> QED BY <2>1, <2>3, <2>4 DEF RelayReports, RelayAnswers
<1>14. CASE TalkStep
    BY <1>3, <1>14 DEF TalkStep, controlVars
<1>15. CASE UNCHANGED pageVars
    BY <1>3, <1>15 DEF pageVars, controlVars
<1> QED BY <1>5, <1>6, <1>7, <1>8, <1>9, <1>10, <1>11, <1>12, <1>13, <1>14, <1>15 DEF PageNext

\* A message arrives that changes no choice; one that a selection follows.
LEMMA ArrivalKeepsChoice ==
    ASSUME PageIInv, NEW m, Arrives(m), m.type # "revoked" \/ m.agent # chosen,
           UNCHANGED <<chosen, chosenHere, toRelay>>
    PROVE  toPage' \in Seq(ToldPage) /\ ChoiceIsOnItsWay'
<1>1. m # [type |-> "revoked", agent |-> chosen]
    OBVIOUS
<1>2. toPage' \in Seq(ToldPage) /\ (Revoking(chosen) => Revoking(chosen)')
    <2>1. \A agent : agent = chosen => toPage' \in Seq(ToldPage) /\ (Revoking(agent) => Revoking(agent)')
        BY <1>1, ArrivalTakes
    <2> QED BY <2>1
<1>3. UNCHANGED <<relaySelected, refusals, ws>>
    BY DEF Arrives, socketVars
<1> QED BY <1>2, <1>3, ChoiceLeftAlone DEF PageIInv

LEMMA ArrivalInChannel == ASSUME PageIInv, NEW m, Arrives(m) PROVE toPage' \in Seq(ToldPage)
BY TakeFirst DEF Arrives, PageIInv, PageTypeOK

LEMMA PageStepKeeps == PageIInv /\ LocalHasNoAgents /\ [PageNext]_pageVars => PageIInv'
<1> SUFFICES ASSUME PageIInv, LocalHasNoAgents, [PageNext]_pageVars PROVE PageIInv'
    OBVIOUS
<1>0. PageTypeOK /\ NothingBlocksFlight /\ ChoiceIsOnItsWay
    BY DEF PageIInv
<1> USE DEF choiceVars, landingVars, socketVars, farVars
<1>1. ASSUME UNCHANGED <<known, agentsUp, chosen, chosenHere, relaySelected, toRelay, toPage, refusals, ws,
                         status, connected, controlsOff, offlineTimer>>
      PROVE  PageIInv'
    <2>1. ChoiceIsOnItsWay'
        BY <1>0, <1>1, ChoiceLeftAlone, SameReports
    <2> QED BY <1>0, <1>1, <2>1 DEF PageIInv, PageTypeOK, NothingBlocksFlight
<1>2. CASE PageStarts \/ Heartbeat
    BY <1>2, SocketIsNew DEF PageStarts, Heartbeat
<1>3. CASE RetryFires
    BY <1>1, <1>3, SocketIsNew DEF RetryFires
<1>4. CASE FallsSilent
    BY <1>1, <1>4 DEF FallsSilent
<1>5. CASE SocketOpens
    <2>1. UNCHANGED <<connected, status, known, chosen, agentsUp, relaySelected, refusals, toPage>>
        BY <1>5 DEF SocketOpens
    <2>2. CASE mode = "local" /\ UNCHANGED <<controlsOff, offlineTimer, chosenHere, toRelay>>
        BY <1>0, <2>1, <2>2 DEF LocalHasNoAgents, PageIInv, PageTypeOK, NothingBlocksFlight, ChoiceIsOnItsWay
    <2>3. CASE RelayOnline /\ AsksAgain
        <3>1. /\ DeviceList \in AskedOfRelay /\ DeviceList.type # "select"
              /\ chosen # NoAgent => Select(chosen) \in AskedOfRelay
            BY <1>0 DEF DeviceList, Select, AskedOfRelay, PageTypeOK
        <3>2. CASE chosen = NoAgent
            <4>1. toRelay' = <<DeviceList>>
                BY <2>3, <3>2 DEF AsksAgain
            <4>2. toRelay' \in Seq(AskedOfRelay)
                BY <3>1, <4>1
            <4> QED BY <1>0, <2>1, <2>3, <3>2, <4>2
                    DEF RelayOnline, PageIInv, PageTypeOK, NothingBlocksFlight, ChoiceIsOnItsWay
        <3>3. CASE chosen # NoAgent
            <4>1. toRelay' = <<DeviceList>> \o <<Select(chosen)>> /\ chosenHere' = chosen
                BY <2>3, <3>3 DEF AsksAgain
            <4>2. /\ toRelay' \in Seq(AskedOfRelay) /\ DOMAIN toRelay' = 1..2
                  /\ toRelay'[2] = Select(chosen)
                <5>1. /\ <<DeviceList>> \in Seq(AskedOfRelay) /\ Len(<<DeviceList>>) = 1
                      /\ <<Select(chosen)>> \in Seq(AskedOfRelay) /\ Len(<<Select(chosen)>>) = 1
                      /\ <<Select(chosen)>>[1] = Select(chosen)
                    BY <3>1, <3>3
                <5>2. /\ toRelay' \in Seq(AskedOfRelay) /\ Len(toRelay') = 2
                      /\ \A i \in 1..2 : toRelay'[i] = IF i <= 1 THEN <<DeviceList>>[i] ELSE <<Select(chosen)>>[i - 1]
                    BY <4>1, <5>1, ConcatProperties
                <5>3. DOMAIN toRelay' = 1..2
                    BY <5>2, LenProperties
                <5> QED BY <5>1, <5>2, <5>3
            <4>3. LastSelects(chosen)'
                BY <2>1, <4>2 DEF LastSelects, Select
            <4> QED BY <1>0, <2>1, <2>3, <4>1, <4>2, <4>3
                    DEF RelayOnline, PageIInv, PageTypeOK, NothingBlocksFlight, ChoiceIsOnItsWay
        <3> QED BY <3>2, <3>3
    <2> QED BY <1>5, <2>2, <2>3 DEF SocketOpens
<1>6. ASSUME NEW g, SocketCloses(g) PROVE PageIInv'
    <2>1. CASE g = pageGeneration
        <3>1. <<>> \in Seq(AskedOfRelay) /\ <<>> \in Seq(ToldPage)
            OBVIOUS
        <3> QED BY <1>0, <1>6, <2>1, <3>1
                DEF SocketCloses, PageIInv, PageTypeOK, NothingBlocksFlight, ChoiceIsOnItsWay
    <2>2. CASE g # pageGeneration
        BY <1>1, <1>6, <2>2 DEF SocketCloses
    <2> QED BY <2>1, <2>2
<1>7. CASE AgentOnline
    <2>1. PICK agent \in Agents :
              /\ Arrives(DeviceState(agent, TRUE)) /\ known' = known \cup {agent}
              /\ \/ Chooses(agent)
                 \/ UNCHANGED <<chosen, chosenHere, toRelay>>
              /\ UNCHANGED landingVars
        BY <1>7 DEF AgentOnline
    <2>2. UNCHANGED <<agentsUp, relaySelected>>
        BY <2>1 DEF Arrives
    <2>3. toPage' \in Seq(ToldPage) /\ known' \subseteq Agents
        BY <1>0, <2>1, ArrivalInChannel DEF PageTypeOK
    <2>4. CASE Chooses(agent)
        <3>1. toRelay' \in Seq(AskedOfRelay) /\ LastSelects(agent)' /\ chosen' = agent /\ chosenHere' = agent
            BY <1>0, <2>4, PageChooses DEF Chooses
        <3>2. LastSelects(chosen)'
            BY <3>1 DEF LastSelects, Select
        <3> QED BY <1>0, <2>1, <2>2, <2>3, <3>1, <3>2
                DEF PageIInv, PageTypeOK, NothingBlocksFlight, ChoiceIsOnItsWay
    <2>5. CASE UNCHANGED <<chosen, chosenHere, toRelay>>
        <3>1. ChoiceIsOnItsWay'
            BY <2>1, <2>5, ArrivalKeepsChoice DEF DeviceState
        <3> QED BY <1>0, <2>1, <2>2, <2>3, <2>5, <3>1 DEF PageIInv, PageTypeOK, NothingBlocksFlight
    <2> QED BY <2>1, <2>4, <2>5
<1>8. CASE AgentOffline
    <2>1. PICK agent \in Agents :
              /\ Arrives(DeviceState(agent, FALSE)) /\ known' = known \ {agent}
              /\ \/ chosen' = NoAgent /\ status' = "none"
                 \/ UNCHANGED <<chosen, chosenHere, landingVars>>
              /\ UNCHANGED toRelay
        BY <1>8 DEF AgentOffline
    <2>2. UNCHANGED <<agentsUp, relaySelected>>
        BY <2>1 DEF Arrives
    <2>3. toPage' \in Seq(ToldPage) /\ known' \subseteq Agents
        BY <1>0, <2>1, ArrivalInChannel DEF PageTypeOK
    <2>4. CASE chosen' = NoAgent /\ status' = "none"
        BY <1>0, <2>1, <2>2, <2>3, <2>4 DEF PageIInv, PageTypeOK, NothingBlocksFlight, ChoiceIsOnItsWay
    <2>5. CASE UNCHANGED <<chosen, chosenHere, landingVars>>
        <3>1. ChoiceIsOnItsWay'
            BY <2>1, <2>5, ArrivalKeepsChoice DEF DeviceState
        <3> QED BY <1>0, <2>1, <2>2, <2>3, <2>5, <3>1 DEF PageIInv, PageTypeOK, NothingBlocksFlight
    <2> QED BY <2>1, <2>4, <2>5
<1>9. CASE PairingRevoked
    <2>1. PICK agent \in Agents :
              /\ Arrives([type |-> "revoked", agent |-> agent]) /\ known' \subseteq known
              /\ chosen' = IF chosen = agent THEN NoAgent ELSE chosen
              /\ status' = "none" /\ UNCHANGED <<chosenHere, toRelay>>
        BY <1>9 DEF PairingRevoked
    <2>2. UNCHANGED <<agentsUp, relaySelected>>
        BY <2>1 DEF Arrives
    <2>3. toPage' \in Seq(ToldPage) /\ known' \subseteq Agents
        BY <1>0, <2>1, ArrivalInChannel DEF PageTypeOK
    <2>4. CASE chosen = agent
        BY <1>0, <2>1, <2>2, <2>3, <2>4 DEF PageIInv, PageTypeOK, NothingBlocksFlight, ChoiceIsOnItsWay
    <2>5. CASE chosen # agent
        <3>1. ChoiceIsOnItsWay'
            BY <2>1, <2>5, ArrivalKeepsChoice
        <3> QED BY <1>0, <2>1, <2>2, <2>3, <2>5, <3>1 DEF PageIInv, PageTypeOK, NothingBlocksFlight
    <2> QED BY <2>4, <2>5
<1>10. CASE StatusArrives
    <2>1. PICK online \in BOOLEAN :
              /\ Arrives([type |-> IF online THEN "flight" ELSE "noflight", agent |-> relaySelected])
              /\ status' = IF online THEN "flight" ELSE "noflight"
              /\ IF online THEN SetOnline ELSE SetOverlay
              /\ UNCHANGED <<choiceVars, toRelay>>
        BY <1>10 DEF StatusArrives
    <2>2. toPage' \in Seq(ToldPage) /\ ChoiceIsOnItsWay'
        BY <2>1, ArrivalKeepsChoice
    <2>3. NothingBlocksFlight'
        BY <2>1 DEF SetOnline, NothingBlocksFlight
    <2> QED BY <1>0, <2>1, <2>2, <2>3 DEF Arrives, PageIInv, PageTypeOK
<1>11. CASE OfflineTimerFires
    <2>1. status # "flight"
        BY <1>0, <1>11 DEF OfflineTimerFires, NothingBlocksFlight
    <2>2. ChoiceIsOnItsWay'
        BY <1>0, <1>11, ChoiceLeftAlone, SameReports DEF OfflineTimerFires
    <2> QED BY <1>0, <1>11, <2>1, <2>2 DEF OfflineTimerFires, PageIInv, PageTypeOK, NothingBlocksFlight
<1>12. CASE RelayHandles
    BY <1>12, RelayHandlesKeeps
<1>13. ASSUME NEW agent \in Agents, AgentComes(agent) \/ AgentGoes(agent) PROVE PageIInv'
    <2>1. PICK online \in BOOLEAN : RelayReports(DeviceState(agent, online))
        BY <1>13 DEF AgentComes, AgentGoes
    <2>2. DeviceState(agent, online) \in ToldPage
        BY DEF DeviceState, ToldPage
    <2>3. agentsUp' \subseteq Agents /\ relaySelected' = relaySelected
        BY <1>0, <1>13 DEF AgentComes, AgentGoes, PageTypeOK
    <2> QED BY <2>1, <2>2, <2>3, RelayReportKept
<1>14. ASSUME NEW agent \in Agents, RelayRevokes(agent) PROVE PageIInv'
    <2> DEFINE m == [type |-> "revoked", agent |-> agent]
    <2>1. m \in ToldPage
        BY DEF ToldPage
    <2>2. /\ relaySelected = agent /\ relaySelected' = NoAgent
          /\ UNCHANGED <<known, chosen, chosenHere, toRelay, refusals, ws, status, connected, controlsOff,
                         offlineTimer, agentsUp>>
          /\ IF ws = "open" THEN toPage' = toPage \o <<m>> ELSE toPage' = toPage
        BY <1>14 DEF RelayRevokes, RelayReports, RelayAnswers
    <2> HIDE DEF m
    <2>3. toPage' \in Seq(ToldPage)
        BY <1>0, <2>1, <2>2, RelayTells DEF PageTypeOK
    <2>4. ASSUME ws = "open" PROVE Revoking(agent)' /\ \A other : Revoking(other) => Revoking(other)'
        BY <1>0, <2>1, <2>2, <2>4, RelayTells DEF m
    <2>5. ChoiceIsOnItsWay'
        <3> SUFFICES ASSUME ws' = "open", chosen' # NoAgent
                     PROVE  \/ LastSelects(chosen)'
                            \/ NoSelection' /\ (chosen \in refusals' \/ Revoking(chosen)')
            BY <1>0, <2>2 DEF ChoiceIsOnItsWay
        <3>1. \/ LastSelects(chosen)
              \/ NoSelection /\ (agent = chosen \/ chosen \in refusals \/ Revoking(chosen))
            BY <1>0, <2>2 DEF ChoiceIsOnItsWay
        <3>2. (LastSelects(chosen) => LastSelects(chosen)') /\ (NoSelection => NoSelection')
            BY <2>2 DEF LastSelects, NoSelection, Select
        <3>3. (agent = chosen \/ Revoking(chosen)) => Revoking(chosen)'
            BY <2>2, <2>4
        <3> QED BY <2>2, <3>1, <3>2, <3>3
    <2> QED BY <1>0, <2>2, <2>3, <2>5 DEF PageIInv, PageTypeOK, NothingBlocksFlight
<1>15. ASSUME NEW online \in BOOLEAN, AgentReports(online) PROVE PageIInv'
    <2> DEFINE m == [type |-> IF online THEN "flight" ELSE "noflight", agent |-> relaySelected]
    <2>1. m \in ToldPage
        BY <1>0 DEF ToldPage, PageTypeOK
    <2> QED BY <1>0, <1>15, <2>1, RelayReportKept DEF AgentReports, PageTypeOK
<1>16. CASE TalkStep
    BY <1>1, <1>16 DEF TalkStep, controlVars
<1>17. CASE UNCHANGED pageVars
    BY <1>1, <1>17 DEF pageVars, controlVars
<1> QED BY <1>2, <1>3, <1>4, <1>5, <1>6, <1>7, <1>8, <1>9, <1>10, <1>11, <1>12, <1>13, <1>14, <1>15,
           <1>16, <1>17 DEF PageNext

\* A flight that is online is not blocked, and on every socket the agent shown is
\* served by the relay or was refused once nothing is on its way.
THEOREM PageFollowsLink == PageSpec => []PageKeepsUp
<1>1. PageInit => PageIInv /\ LocalHasNoAgents
    <2>1. DOMAIN <<>> = {}
        OBVIOUS
    <2> QED BY <2>1, PageIInit DEF PageInit, LocalHasNoAgents
<1>2. PageIInv /\ LocalHasNoAgents /\ [PageNext]_pageVars => (PageIInv /\ LocalHasNoAgents)'
    BY PageStepKeeps, LocalStep DEF PageIInv
<1>3. PageIInv => PageKeepsUp
    <2> SUFFICES ASSUME PageIInv PROVE OnlineIsNotBlocked /\ ShownIsServedOrRefused
        BY DEF PageKeepsUp
    <2>1. OnlineIsNotBlocked
        BY DEF OnlineIsNotBlocked, PageIInv, NothingBlocksFlight
    <2>2. ShownIsServedOrRefused
        <3> SUFFICES ASSUME LinkSettled, chosen \in known PROVE relaySelected = chosen \/ chosen \in refusals
            BY DEF ShownIsServedOrRefused
        <3>1. DOMAIN toRelay = {} /\ DOMAIN toPage = {} /\ ws = "open"
            BY DEF LinkSettled
        <3>2. chosen # NoAgent
            BY LinkAssumption DEF PageIInv, PageTypeOK
        <3> QED BY <3>1, <3>2 DEF PageIInv, ChoiceIsOnItsWay, LastSelects, Revoking
    <2> QED BY <2>1, <2>2
<1> QED BY <1>1, <1>2, <1>3, PTL DEF PageSpec

-----------------------------------------------------------------------------
(***************************************************************************)
(* RelayPresence                                                           *)
(***************************************************************************)
Values       == Readings \cup {Absent}
WireMessages == [topic : Topics \cup {"hello"}, value : Values]

PresenceTypeOK ==
    /\ reading \in [Topics -> Readings]
    /\ uplink \in Uplinks \cup {Absent}
    /\ wire \in [Uplinks -> Seq(WireMessages)]
    /\ peer \in [Uplinks -> {"none", "open", "announced", "closing"}]
    /\ heard \in [Uplinks -> BOOLEAN] /\ silent \in [Uplinks -> Nat]
    /\ shown \in [ws : Uplinks, last : [Topics -> Values]] \cup {Absent}
    /\ display \in [Pages -> [Topics -> Values]]
    /\ watching \subseteq Pages

\* Whoever answered since the last turn of the heartbeat is not silent.
HeardAreNotSilent ==
    \A w \in Uplinks : peer[w] \in {"open", "announced"} => silent[w] <= IF heard[w] THEN 0 ELSE 1

\* The topics whose state the relay can know.
Known(t) == t \in Topics \ LocalTopics /\ reading[t] \notin Refused \cup {Unknown}

\* The last message of a topic on its way carries the agent's state; or none is on
\* its way, and where the device is on this socket, it and its pages show that state.
LastWord(q, t, value) ==
    \E i \in DOMAIN q :
        /\ q[i] = Update(t, value)
        /\ \A j \in DOMAIN q : j > i => q[j].topic # t
NoWord(q, t) == \A i \in DOMAIN q : q[i].topic # t
ShowsTopic(t) ==
    shown # Absent /\ shown.ws = uplink /\ t \notin overtaken =>
        /\ shown.last[t] = reading[t]
        /\ \A p \in watching : display[p][t] = reading[t]

TopicKept(t) ==
    \/ LastWord(wire[uplink], t, reading[t])
    \/ peer[uplink] # "open" /\ NoWord(wire[uplink], t) /\ ShowsTopic(t)

\* hello is the first message of a socket, and the relay hears it once.
HelloFirst ==
    /\ \A i \in DOMAIN wire[uplink] : wire[uplink][i].topic = "hello" => i = 1 /\ peer[uplink] # "announced"
    /\ peer[uplink] = "open" => wire[uplink] # <<>> /\ wire[uplink][1].topic = "hello"

StateIsKept == uplink # Absent => HelloFirst /\ \A t \in Topics : Known(t) => TopicKept(t)

PresenceIInv == PresenceTypeOK /\ HeardAreNotSilent /\ StateIsKept

\* A message leaves the wire, or is put on it.
LEMMA NoWordTaken ==
    ASSUME NEW q \in Seq(WireMessages), q # <<>>, NEW t, NoWord(q, t)
    PROVE  NoWord(Tail(q), t) /\ Head(q).topic # t
<1>1. /\ 1 \in DOMAIN q /\ Head(q) = q[1]
      /\ \A i \in DOMAIN Tail(q) : i + 1 \in DOMAIN q /\ Tail(q)[i] = q[i + 1]
    BY TakeFirst
<1> QED BY <1>1 DEF NoWord

LEMMA WordTaken ==
    ASSUME NEW q \in Seq(WireMessages), q # <<>>, NEW t, NEW value, LastWord(q, t, value)
    PROVE  LastWord(Tail(q), t, value) \/ (Head(q) = Update(t, value) /\ NoWord(Tail(q), t))
<1>1. /\ Len(q) \in Nat /\ DOMAIN q = 1..Len(q) /\ DOMAIN Tail(q) = 1..(Len(q) - 1)
      /\ 1 \in DOMAIN q /\ Head(q) = q[1]
      /\ \A i \in DOMAIN Tail(q) : i + 1 \in DOMAIN q /\ Tail(q)[i] = q[i + 1]
      /\ \A i \in DOMAIN q : i # 1 => i - 1 \in DOMAIN Tail(q) /\ Tail(q)[i - 1] = q[i]
    BY TakeFirst
<1>2. PICK i \in DOMAIN q : q[i] = Update(t, value) /\ \A j \in DOMAIN q : j > i => q[j].topic # t
    BY DEF LastWord
<1>3. CASE i = 1
    BY <1>1, <1>2, <1>3 DEF NoWord
<1>4. CASE i # 1
    <2>1. i - 1 \in DOMAIN Tail(q) /\ Tail(q)[i - 1] = Update(t, value)
        BY <1>1, <1>2, <1>4
    <2>2. \A j \in DOMAIN Tail(q) : j > i - 1 => Tail(q)[j].topic # t
        BY <1>1, <1>2, <1>4
    <2> QED BY <2>1, <2>2 DEF LastWord
<1> QED BY <1>3, <1>4

LEMMA WordAppended ==
    ASSUME NEW q \in Seq(WireMessages), NEW m \in WireMessages, NEW t, NEW value
    PROVE  /\ m.topic # t => (NoWord(q, t) => NoWord(Append(q, m), t))
           /\ m.topic # t => (LastWord(q, t, value) => LastWord(Append(q, m), t, value))
           /\ m = Update(t, value) => LastWord(Append(q, m), t, value)
<1>1. PICK n \in DOMAIN Append(q, m) :
          /\ Append(q, m)[n] = m
          /\ \A i \in DOMAIN Append(q, m) : i \in DOMAIN q \/ i = n
          /\ \A i \in DOMAIN Append(q, m) : ~(i > n)
    BY AppendOne
<1>2. DOMAIN q \subseteq DOMAIN Append(q, m) /\ \A i \in DOMAIN q : Append(q, m)[i] = q[i]
    BY AppendOne
<1>3. m.topic # t => (NoWord(q, t) => NoWord(Append(q, m), t))
    BY <1>1, <1>2 DEF NoWord
<1>4. m.topic # t => (LastWord(q, t, value) => LastWord(Append(q, m), t, value))
    <2> SUFFICES ASSUME m.topic # t, LastWord(q, t, value) PROVE LastWord(Append(q, m), t, value)
        OBVIOUS
    <2>1. PICK i \in DOMAIN q : q[i] = Update(t, value) /\ \A j \in DOMAIN q : j > i => q[j].topic # t
        BY DEF LastWord
    <2>2. i \in DOMAIN Append(q, m) /\ Append(q, m)[i] = Update(t, value)
        BY <1>2, <2>1
    <2>3. \A j \in DOMAIN Append(q, m) : j > i => Append(q, m)[j].topic # t
        BY <1>1, <1>2, <2>1
    <2> QED BY <2>2, <2>3 DEF LastWord
<1>5. m = Update(t, value) => LastWord(Append(q, m), t, value)
    BY <1>1 DEF LastWord
<1> QED BY <1>3, <1>4, <1>5

\* SetToSeq enumerates a finite set without repetition.
LEMMA Enumeration ==
    ASSUME NEW S, IsFiniteSet(S)
    PROVE  /\ SetToSeq(S) \in Seq(S) /\ IsInjective(SetToSeq(S))
           /\ DOMAIN SetToSeq(S) = 1..Cardinality(S) /\ Cardinality(S) \in Nat
           /\ \A x \in S : \E i \in DOMAIN SetToSeq(S) : SetToSeq(S)[i] = x
<1> DEFINE n == Cardinality(S)
<1>1. n \in Nat /\ ExistsBijection(1..n, S)
    BY FS_CardinalityType
<1>2. \E f \in [1..n -> S] : IsInjective(f)
    BY <1>1 DEF ExistsBijection, Bijection, Injection
<1>3. SetToSeq(S) \in [1..n -> S] /\ IsInjective(SetToSeq(S))
    BY <1>2 DEF SetToSeq
<1>4. SetToSeq(S) \in Injection(1..n, S) /\ IsFiniteSet(1..n) /\ Cardinality(1..n) = n
    BY <1>1, <1>3, FS_Interval DEF Injection
<1>5. SetToSeq(S) \in Surjection(1..n, S)
    BY <1>4, FS_Injection
<1> QED BY <1>1, <1>3, <1>5, SeqDef DEF Surjection

LEMMA SameLength == \A m, n \in Nat : 1..m = 1..n => m = n
<1> SUFFICES ASSUME NEW m \in Nat, NEW n \in Nat, 1..m = 1..n PROVE m = n
    OBVIOUS
<1>1. (m = 0 \/ m \in 1..m) /\ (n = 0 \/ n \in 1..n)
    OBVIOUS
<1>2. (m = 0 \/ m \in 1..n) /\ (n = 0 \/ n \in 1..m)
    BY <1>1
<1> QED BY <1>2

LEMMA OpeningTells ==
    ASSUME PresenceTypeOK
    PROVE  /\ Opening \in Seq(WireMessages) /\ Opening # <<>> /\ Opening[1] = HelloMsg
           /\ \A i \in DOMAIN Opening : Opening[i].topic = "hello" => i = 1
           /\ \A t \in Topics : reading[t] # Unknown => LastWord(Opening, t, reading[t])
<1> DEFINE Spoken == {t \in Topics : IsSent(t)}
           order == SetToSeq(Spoken)
           told == [i \in DOMAIN order |-> Update(order[i], reading[order[i]])]
<1>1. /\ order \in Seq(Spoken) /\ IsInjective(order)
      /\ \A t \in Spoken : \E i \in DOMAIN order : order[i] = t
    BY FS_Subset, PresenceAssumption, Enumeration
<1>2. Len(order) \in Nat /\ DOMAIN order = 1..Len(order) /\ \A i \in DOMAIN order : order[i] \in Spoken
    BY <1>1, LenProperties, ElementOfSeq
<1>3. Opening = <<HelloMsg>> \o told
    BY DEF Opening
<1> HIDE DEF order
<1>4. \A i \in DOMAIN order : order[i] \in Topics /\ told[i] = Update(order[i], reading[order[i]])
    BY <1>2
<1>5. /\ told \in [1..Len(order) -> WireMessages]
      /\ HelloMsg \in WireMessages
    BY <1>2, <1>4 DEF PresenceTypeOK, Update, WireMessages, Values, HelloMsg
<1> HIDE DEF Spoken, told
<1>6. /\ told \in Seq(WireMessages) /\ Len(told) = Len(order)
      /\ <<HelloMsg>> \in Seq(WireMessages) /\ Len(<<HelloMsg>>) = 1 /\ <<HelloMsg>>[1] = HelloMsg
    <2>1. told \in Seq(WireMessages)
        BY <1>2, <1>5, SeqDef
    <2>2. DOMAIN told = 1..Len(told) /\ Len(told) \in Nat /\ DOMAIN told = 1..Len(order)
        <3>1. DOMAIN told = 1..Len(order)
            BY <1>5
        <3>2. \A q \in Seq(WireMessages) : Len(q) \in Nat /\ DOMAIN q = 1..Len(q)
            BY LenProperties, Zenon
        <3> QED BY <2>1, <3>1, <3>2, Zenon
    <2>3. Len(told) = Len(order)
        BY <1>2, <2>2, SameLength
    <2> QED BY <1>5, <2>1, <2>3
<1>7. /\ Opening \in Seq(WireMessages) /\ Len(Opening) = 1 + Len(order)
      /\ \A i \in 1..(1 + Len(order)) : Opening[i] = IF i <= 1 THEN <<HelloMsg>>[i] ELSE told[i - 1]
    BY <1>3, <1>6, ConcatProperties
<1>8. DOMAIN Opening = 1..(1 + Len(order))
    BY <1>7, LenProperties
<1>9. Opening[1] = HelloMsg /\ Opening # <<>>
    BY <1>2, <1>6, <1>7
<1>10. \A i \in DOMAIN Opening : i # 1 =>
           i - 1 \in DOMAIN order /\ Opening[i] = Update(order[i - 1], reading[order[i - 1]])
    BY <1>2, <1>4, <1>7, <1>8
<1>11. \A i \in DOMAIN Opening : Opening[i].topic = "hello" => i = 1
    BY <1>4, <1>10, PresenceAssumption DEF Update
<1>12. ASSUME NEW t \in Topics, reading[t] # Unknown PROVE LastWord(Opening, t, reading[t])
    <2>1. PICK k \in DOMAIN order : order[k] = t
        BY <1>1, <1>12 DEF Spoken, IsSent
    <2>2. k + 1 \in DOMAIN Opening /\ k + 1 # 1 /\ (k + 1) - 1 = k
        BY <1>2, <1>8
    <2>3. Opening[k + 1] = Update(t, reading[t])
        BY <1>10, <2>1, <2>2
    <2>4. ASSUME NEW j \in DOMAIN Opening, j > k + 1 PROVE Opening[j].topic # t
        <3>1. j - 1 \in DOMAIN order /\ j - 1 # k /\ Opening[j].topic = order[j - 1]
            BY <1>2, <1>8, <1>10, <2>4 DEF Update
        <3> QED BY <1>1, <2>1, <3>1 DEF IsInjective
    <2> QED BY <2>2, <2>3, <2>4 DEF LastWord
<1> QED BY <1>7, <1>9, <1>11, <1>12

LEMMA PresenceIInit == PresenceInit => PresenceIInv
<1> SUFFICES ASSUME PresenceInit PROVE PresenceIInv
    OBVIOUS
<1>1. <<>> \in Seq(WireMessages)
    OBVIOUS
<1>2. PresenceTypeOK
    BY <1>1 DEF PresenceInit, PresenceTypeOK, Nothing0, Values
<1>3. HeardAreNotSilent /\ StateIsKept
    BY DEF PresenceInit, HeardAreNotSilent, StateIsKept
<1> QED BY <1>2, <1>3 DEF PresenceIInv

\* The types, and the heartbeat.
LEMMA PresenceTypes == PresenceTypeOK /\ [PresenceNext]_presenceVars => PresenceTypeOK'
<1> SUFFICES ASSUME PresenceTypeOK, [PresenceNext]_presenceVars PROVE PresenceTypeOK'
    OBVIOUS
<1> USE DEF PresenceTypeOK
<1>1. ASSUME NEW w \in Uplinks, AgentOpens(w) PROVE PresenceTypeOK'
    BY <1>1, OpeningTells DEF AgentOpens
<1>2. ASSUME NEW w \in Uplinks, RelayHears(w) PROVE PresenceTypeOK'
    <2>1. /\ Tail(wire[w]) \in Seq(WireMessages) /\ Head(wire[w]) \in WireMessages
        BY <1>2, TakeFirst DEF RelayHears
    <2> DEFINE m == Head(wire[w])
    <2>2. /\ wire' = [wire EXCEPT ![w] = Tail(@)] /\ heard' = [heard EXCEPT ![w] = TRUE]
          /\ silent' = [silent EXCEPT ![w] = 0] /\ UNCHANGED <<reading, uplink, watching>>
        BY <1>2 DEF RelayHears
    <2>3. CASE m.topic = "hello" /\ Registers(w)
        BY <2>1, <2>2, <2>3 DEF Registers, Nothing0, Values
    <2>4. CASE m.topic # "hello" /\ Routes(w, m)
        <3>1. m.topic \in Topics /\ m.value \in Values
            BY <2>1, <2>4 DEF WireMessages
        <3>2. display' \in [Pages -> [Topics -> Values]]
            BY <2>4, <3>1 DEF Routes, Forwarded
        <3>3. shown' \in [ws : Uplinks, last : [Topics -> Values]] \cup {Absent}
            BY <2>4, <3>1 DEF Routes, Remembers
        <3> QED BY <2>1, <2>2, <2>4, <3>2, <3>3 DEF Routes
    <2>5. CASE Refuses(w, m)
        BY <2>1, <2>2, <2>5 DEF Refuses
    <2> QED BY <1>2, <2>3, <2>4, <2>5 DEF RelayHears
<1>3. ASSUME NEW w \in Uplinks, Beat(w) PROVE PresenceTypeOK'
    <2>1. silent[w] + 1 \in Nat
        OBVIOUS
    <2> QED BY <1>3, <2>1 DEF Beat, BeatEnds
<1>4. ASSUME NEW w \in Uplinks, RelayCloses(w) PROVE PresenceTypeOK'
    <2>1. <<>> \in Seq(WireMessages)
        OBVIOUS
    <2> QED BY <1>4, <2>1 DEF RelayCloses
<1>5. CASE AgentLoses
    <2>1. PICK n \in 0..Len(wire[uplink]) : wire' = [wire EXCEPT ![uplink] = SubSeq(@, 1, n)]
        BY <1>5 DEF AgentLoses
    <2>2. SubSeq(wire[uplink], 1, n) \in Seq(WireMessages)
        BY <1>5 DEF AgentLoses
    <2> QED BY <1>5, <2>1, <2>2 DEF AgentLoses
<1>6. CASE AgentPongs
    BY <1>6 DEF AgentPongs
<1>7. ASSUME NEW t \in Topics, NEW value \in Readings, Publishes(t, value) PROVE PresenceTypeOK'
    <2>1. Update(t, value) \in WireMessages
        BY DEF Update, WireMessages, Values
    <2>2. uplink # Absent => Append(wire[uplink], Update(t, value)) \in Seq(WireMessages)
        BY <2>1
    <2> QED BY <1>7, <2>2 DEF Publishes
<1>8. ASSUME NEW p \in Pages, PageSelects(p) PROVE PresenceTypeOK'
    BY <1>8 DEF PageSelects, SelectsDevice, Cached
<1>9. ASSUME NEW p \in Pages, PageLeaves(p) PROVE PresenceTypeOK'
    BY <1>9 DEF PageLeaves
<1>10. CASE UNCHANGED presenceVars
    BY <1>10 DEF presenceVars
<1> QED BY <1>1, <1>2, <1>3, <1>4, <1>5, <1>6, <1>7, <1>8, <1>9, <1>10 DEF PresenceNext

LEMMA HeartbeatStep ==
    PresenceTypeOK /\ HeardAreNotSilent /\ [PresenceNext]_presenceVars => HeardAreNotSilent'
<1> SUFFICES ASSUME PresenceTypeOK, HeardAreNotSilent, [PresenceNext]_presenceVars PROVE HeardAreNotSilent'
    OBVIOUS
<1> USE DEF PresenceTypeOK, HeardAreNotSilent
<1>1. ASSUME NEW w \in Uplinks, AgentOpens(w) PROVE HeardAreNotSilent'
    BY <1>1 DEF AgentOpens
<1>2. ASSUME NEW w \in Uplinks, RelayHears(w) PROVE HeardAreNotSilent'
    <2>1. /\ heard' = [heard EXCEPT ![w] = TRUE] /\ silent' = [silent EXCEPT ![w] = 0]
          /\ \A v \in Uplinks : v # w => peer'[v] = peer[v]
        BY <1>2 DEF RelayHears, Registers, Routes, Refuses
    <2> QED BY <2>1
<1>3. ASSUME NEW w \in Uplinks, Beat(w) PROVE HeardAreNotSilent'
    BY <1>3 DEF Beat, BeatEnds
<1>4. ASSUME NEW w \in Uplinks, RelayCloses(w) PROVE HeardAreNotSilent'
    BY <1>4 DEF RelayCloses
<1>5. CASE AgentPongs
    BY <1>5 DEF AgentPongs
<1>6. CASE AgentLoses \/ UNCHANGED presenceVars
    BY <1>6 DEF AgentLoses, presenceVars
<1>7. ASSUME NEW t \in Topics, NEW value \in Readings, Publishes(t, value) PROVE HeardAreNotSilent'
    BY <1>7 DEF Publishes
<1>8. ASSUME NEW p \in Pages, PageSelects(p) \/ PageLeaves(p) PROVE HeardAreNotSilent'
    BY <1>8 DEF PageSelects, PageLeaves
<1> QED BY <1>1, <1>2, <1>3, <1>4, <1>5, <1>6, <1>7, <1>8 DEF PresenceNext

\* What a step that leaves the agent's channel alone has to keep.
LEMMA ChannelLeftAlone ==
    ASSUME StateIsKept, uplink # Absent,
           uplink' = uplink, reading' = reading, wire'[uplink] = wire[uplink],
           peer'[uplink] \in {peer[uplink], "closing"},
           \A t \in Topics : Known(t) /\ ShowsTopic(t) => ShowsTopic(t)'
    PROVE  StateIsKept'
<1>1. HelloFirst'
    BY DEF StateIsKept, HelloFirst
<1>2. ASSUME NEW t \in Topics, Known(t)' PROVE TopicKept(t)'
    <2>1. Known(t) /\ TopicKept(t)
        BY <1>2 DEF StateIsKept, Known
    <2>2. ShowsTopic(t) => ShowsTopic(t)'
        BY <2>1
    <2> QED BY <2>1, <2>2 DEF TopicKept
<1> QED BY <1>1, <1>2 DEF StateIsKept

\* The relay hears the agent's own socket.
LEMMA RelayHearsAgent ==
    ASSUME PresenceTypeOK, StateIsKept, uplink # Absent, RelayHears(uplink)
    PROVE  StateIsKept'
<1> DEFINE m == Head(wire[uplink])
<1>1. /\ wire[uplink] \in Seq(WireMessages) /\ wire[uplink] # <<>> /\ wire'[uplink] = Tail(wire[uplink])
      /\ peer[uplink] \in {"open", "announced"} /\ UNCHANGED <<uplink, reading, watching>>
      /\ uplink \in Uplinks
    BY DEF RelayHears, PresenceTypeOK
<1>2. /\ m \in WireMessages /\ m = wire[uplink][1] /\ 1 \in DOMAIN wire[uplink]
      /\ DOMAIN Tail(wire[uplink]) = 1..(Len(wire[uplink]) - 1)
      /\ \A i \in DOMAIN Tail(wire[uplink]) :
             i + 1 \in DOMAIN wire[uplink] /\ Tail(wire[uplink])[i] = wire[uplink][i + 1]
    BY <1>1, TakeFirst
<1>3. HelloFirst /\ \A t \in Topics : Known(t) => TopicKept(t)
    BY DEF StateIsKept
<1>4. \A i \in DOMAIN wire'[uplink] : wire'[uplink][i].topic # "hello"
    <2> SUFFICES ASSUME NEW i \in DOMAIN wire'[uplink] PROVE wire'[uplink][i].topic # "hello"
        OBVIOUS
    <2>1. i + 1 \in DOMAIN wire[uplink] /\ i + 1 # 1 /\ wire'[uplink][i] = wire[uplink][i + 1]
        BY <1>1, <1>2, LenProperties
    <2> QED BY <1>3, <2>1 DEF HelloFirst
<1>5. CASE m.topic = "hello"
    <2>1. peer[uplink] = "open" /\ peer'[uplink] = "announced"
        BY <1>1, <1>2, <1>3, <1>5 DEF RelayHears, Registers, Routes, Refuses, HelloFirst, PresenceTypeOK
    <2>2. ASSUME NEW t \in Topics, Known(t)' PROVE TopicKept(t)'
        <3>1. LastWord(wire[uplink], t, reading[t])
            BY <1>1, <1>3, <2>1, <2>2 DEF Known, TopicKept
        <3>2. m # Update(t, reading[t])
            BY <1>5, PresenceAssumption DEF Update
        <3>3. LastWord(wire'[uplink], t, reading[t])
            BY <1>1, <3>1, <3>2, WordTaken
        <3> QED BY <1>1, <3>3 DEF TopicKept
    <2> QED BY <1>1, <1>4, <2>1, <2>2 DEF StateIsKept, HelloFirst
<1>6. CASE m.topic # "hello"
    <2>1. peer[uplink] = "announced" /\ peer'[uplink] = "announced"
        BY <1>1, <1>2, <1>3, <1>6 DEF RelayHears, Routes, Refuses, HelloFirst
    <2>2. Routes(uplink, m) \/ (Refuses(uplink, m) /\ m.value \in Refused)
        BY <1>6, <2>1 DEF RelayHears, Refuses
    <2>3. m.topic \in Topics
        BY <1>2, <1>6 DEF WireMessages
    <2>4. ASSUME NEW t \in Topics, Known(t)' PROVE TopicKept(t)'
        <3>1. Known(t) /\ TopicKept(t)
            BY <1>1, <1>3, <2>4 DEF Known
        <3>2. CASE LastWord(wire[uplink], t, reading[t]) /\ ~LastWord(wire'[uplink], t, reading[t])
            <4>1. m = Update(t, reading[t]) /\ NoWord(wire'[uplink], t)
                BY <1>1, <3>2, WordTaken
            <4>2. Routes(uplink, m) /\ m.topic = t /\ m.value = reading[t]
                BY <2>2, <3>1, <4>1 DEF Update, Known
            <4>3. ShowsTopic(t)'
                BY <1>1, <4>2 DEF Routes, Remembers, Forwarded, ShowsTopic, PresenceTypeOK
            <4> QED BY <1>1, <2>1, <4>1, <4>3 DEF TopicKept
        <3>3. CASE LastWord(wire'[uplink], t, reading[t])
            BY <1>1, <3>3 DEF TopicKept
        <3>4. CASE NoWord(wire[uplink], t) /\ ShowsTopic(t)
            <4>1. NoWord(wire'[uplink], t) /\ m.topic # t
                BY <1>1, <3>4, NoWordTaken
            <4>2. ShowsTopic(t)'
                BY <1>1, <2>2, <3>4, <4>1
                DEF Routes, Refuses, Remembers, Forwarded, ShowsTopic, PresenceTypeOK
            <4> QED BY <1>1, <2>1, <4>1, <4>2 DEF TopicKept
        <3> QED BY <3>1, <3>2, <3>3, <3>4 DEF TopicKept
    <2> QED BY <1>1, <1>4, <2>1, <2>4 DEF StateIsKept, HelloFirst
<1> QED BY <1>5, <1>6

\* It hears another socket: what that one writes over the agent's topics is overtaken.
LEMMA RelayHearsOther ==
    ASSUME PresenceTypeOK, StateIsKept, uplink # Absent, NEW w \in Uplinks, w # uplink, RelayHears(w)
    PROVE  StateIsKept'
<1> DEFINE m == Head(wire[w])
<1>1. /\ UNCHANGED <<uplink, reading, watching>> /\ wire'[uplink] = wire[uplink] /\ peer'[uplink] = peer[uplink]
      /\ uplink \in Uplinks
    BY DEF RelayHears, Registers, Routes, Refuses, PresenceTypeOK
<1>2. ASSUME NEW t \in Topics, Known(t), ShowsTopic(t) PROVE ShowsTopic(t)'
    <2>1. CASE Registers(w)
        BY <1>1, <2>1 DEF Registers, ShowsTopic
    <2>2. CASE m.topic # "hello" /\ Routes(w, m)
        <3>1. m.topic \in Topics
            <4>1. m \in WireMessages
                BY HeadTailProperties DEF RelayHears, PresenceTypeOK
            <4> QED BY <2>2, <4>1 DEF WireMessages
        <3> QED BY <1>1, <1>2, <2>2, <3>1
                DEF Routes, Remembers, Forwarded, ShowsTopic, PresenceTypeOK
    <2>3. CASE Refuses(w, m)
        BY <1>1, <1>2, <2>3 DEF Refuses, ShowsTopic
    <2> QED BY <2>1, <2>2, <2>3 DEF RelayHears
<1> QED BY <1>1, <1>2, ChannelLeftAlone

LEMMA StateStep == PresenceTypeOK /\ StateIsKept /\ [PresenceNext]_presenceVars => StateIsKept'
<1> SUFFICES ASSUME PresenceTypeOK, StateIsKept, [PresenceNext]_presenceVars, uplink' # Absent
             PROVE  StateIsKept'
    BY DEF StateIsKept
<1>1. ASSUME NEW w \in Uplinks, AgentOpens(w) PROVE StateIsKept'
    <2>1. /\ uplink' = w /\ wire'[w] = Opening /\ peer'[w] = "open" /\ reading' = reading
        BY <1>1 DEF AgentOpens, PresenceTypeOK
    <2>2. HelloFirst'
        BY <2>1, OpeningTells DEF HelloFirst, HelloMsg
    <2>3. ASSUME NEW t \in Topics, Known(t)' PROVE TopicKept(t)'
        BY <2>1, <2>3, OpeningTells DEF TopicKept, Known
    <2> QED BY <2>2, <2>3 DEF StateIsKept
<1>2. ASSUME NEW w \in Uplinks, RelayHears(w) PROVE StateIsKept'
    BY <1>2, RelayHearsAgent, RelayHearsOther DEF RelayHears
<1>3. ASSUME NEW w \in Uplinks, Beat(w) PROVE StateIsKept'
    <2>1. ASSUME NEW t PROVE ShowsTopic(t) => ShowsTopic(t)'
        BY <1>3 DEF Beat, ShowsTopic
    <2> QED BY <1>3, <2>1, ChannelLeftAlone DEF Beat, BeatEnds, PresenceTypeOK
<1>4. ASSUME NEW w \in Uplinks, RelayCloses(w) PROVE StateIsKept'
    <2>1. uplink # Absent /\ w # uplink /\ uplink' = uplink
        BY <1>4 DEF RelayCloses
    <2>2. ASSUME NEW t PROVE ShowsTopic(t) => ShowsTopic(t)'
        BY <1>4, <2>1 DEF RelayCloses, ShowsTopic
    <2> QED BY <1>4, <2>1, <2>2, ChannelLeftAlone DEF RelayCloses, PresenceTypeOK
<1>5. CASE AgentLoses
    BY <1>5 DEF AgentLoses
<1>6. CASE AgentPongs
    <2>1. ASSUME NEW t PROVE ShowsTopic(t) => ShowsTopic(t)'
        BY <1>6 DEF AgentPongs, ShowsTopic
    <2> QED BY <1>6, <2>1, ChannelLeftAlone DEF AgentPongs
<1>7. ASSUME NEW topic \in Topics, NEW value \in Readings, Publishes(topic, value) PROVE StateIsKept'
    <2>1. /\ uplink # Absent /\ uplink' = uplink /\ peer' = peer /\ uplink \in Uplinks
          /\ wire[uplink] \in Seq(WireMessages)
          /\ \A t \in Topics : t # topic => reading'[t] = reading[t]
          /\ reading'[topic] = value
        BY <1>7 DEF Publishes, PresenceTypeOK
    <2>2. HelloFirst /\ \A t \in Topics : Known(t) => TopicKept(t)
        BY <2>1 DEF StateIsKept
    <2>3. ASSUME NEW t \in Topics, t # topic PROVE ShowsTopic(t) => ShowsTopic(t)'
        BY <1>7, <2>1, <2>3 DEF Publishes, ShowsTopic
    <2>4. CASE topic \in LocalTopics
        <3>1. wire' = wire
            BY <1>7, <2>4 DEF Publishes
        <3>2. HelloFirst'
            BY <2>1, <2>2, <3>1 DEF HelloFirst
        <3>3. ASSUME NEW t \in Topics, Known(t)' PROVE TopicKept(t)'
            <4>1. t # topic /\ Known(t)
                BY <2>1, <2>4, <3>3 DEF Known
            <4> QED BY <2>1, <2>2, <2>3, <3>1, <4>1 DEF TopicKept
        <3> QED BY <3>2, <3>3 DEF StateIsKept
    <2>5. CASE topic \notin LocalTopics
        <3> DEFINE m == Update(topic, value)
        <3>1. /\ wire'[uplink] = Append(wire[uplink], m) /\ m \in WireMessages /\ m.topic = topic
            BY <1>7, <2>1, <2>5 DEF Publishes, PresenceTypeOK, Update, WireMessages, Values
        <3>2. HelloFirst'
            <4> HIDE DEF m
            <4>1. /\ DOMAIN wire[uplink] \subseteq DOMAIN wire'[uplink]
                  /\ \A i \in DOMAIN wire[uplink] : wire'[uplink][i] = wire[uplink][i]
                  /\ \E n \in DOMAIN wire'[uplink] : wire'[uplink][n] = m
                         /\ \A i \in DOMAIN wire'[uplink] : i \in DOMAIN wire[uplink] \/ i = n
                BY <2>1, <3>1, AppendOne
            <4>2. m.topic # "hello"
                BY <3>1, PresenceAssumption
            <4>3. \A i \in DOMAIN wire'[uplink] :
                      wire'[uplink][i].topic = "hello" => i = 1 /\ peer[uplink] # "announced"
                BY <2>2, <4>1, <4>2 DEF HelloFirst
            <4>4. peer[uplink] = "open" => wire'[uplink] # <<>> /\ wire'[uplink][1].topic = "hello"
                <5> SUFFICES ASSUME peer[uplink] = "open" PROVE wire'[uplink] # <<>> /\ wire'[uplink][1].topic = "hello"
                    OBVIOUS
                <5>1. 1 \in DOMAIN wire[uplink]
                    BY <2>1, <2>2, TakeFirst DEF HelloFirst
                <5> QED BY <2>2, <4>1, <5>1 DEF HelloFirst
            <4> QED BY <2>1, <4>3, <4>4 DEF HelloFirst
        <3>3. ASSUME NEW t \in Topics, Known(t)' PROVE TopicKept(t)'
            <4>1. CASE t = topic
                <5>1. LastWord(wire'[uplink], t, value)
                    BY <2>1, <3>1, <4>1, WordAppended
                <5> QED BY <2>1, <4>1, <5>1 DEF TopicKept
            <4>2. CASE t # topic
                <5>1. Known(t) /\ TopicKept(t)
                    BY <2>1, <2>2, <3>3, <4>2 DEF Known
                <5>2. /\ NoWord(wire[uplink], t) => NoWord(wire'[uplink], t)
                      /\ LastWord(wire[uplink], t, reading[t]) => LastWord(wire'[uplink], t, reading[t])
                    BY <2>1, <3>1, <4>2, WordAppended
                <5> QED BY <2>1, <2>3, <4>2, <5>1, <5>2 DEF TopicKept
            <4> QED BY <4>1, <4>2
        <3> QED BY <3>2, <3>3 DEF StateIsKept
    <2> QED BY <2>4, <2>5
<1>8. ASSUME NEW p \in Pages, PageSelects(p) PROVE StateIsKept'
    <2>1. ASSUME NEW t \in Topics, Known(t), ShowsTopic(t) PROVE ShowsTopic(t)'
        <3>1. reading[t] \in Readings /\ reading[t] # Absent
            BY PresenceAssumption DEF PresenceTypeOK
        <3> QED BY <1>8, <2>1, <3>1 DEF PageSelects, SelectsDevice, Cached, ShowsTopic, PresenceTypeOK
    <2> QED BY <1>8, <2>1, ChannelLeftAlone DEF PageSelects
<1>9. ASSUME NEW p \in Pages, PageLeaves(p) PROVE StateIsKept'
    <2>1. ASSUME NEW t PROVE ShowsTopic(t) => ShowsTopic(t)'
        BY <1>9 DEF PageLeaves, ShowsTopic
    <2> QED BY <1>9, <2>1, ChannelLeftAlone DEF PageLeaves
<1>10. CASE UNCHANGED presenceVars
    <2>1. ASSUME NEW t PROVE ShowsTopic(t) => ShowsTopic(t)'
        BY <1>10 DEF presenceVars, ShowsTopic
    <2> QED BY <1>10, <2>1, ChannelLeftAlone DEF presenceVars
<1> QED BY <1>1, <1>2, <1>3, <1>4, <1>5, <1>6, <1>7, <1>8, <1>9, <1>10 DEF PresenceNext

\* Once its messages have arrived, the relay's snapshots and the pages show the
\* agent's state, and an agent that is gone is offered for two beats at most.
THEOREM PresenceIsTrue == PresenceSpec => []PresenceHolds
<1>1. PresenceIInv /\ [PresenceNext]_presenceVars => PresenceIInv'
    BY PresenceTypes, HeartbeatStep, StateStep DEF PresenceIInv
<1>2. PresenceIInv => PresenceHolds
    <2> SUFFICES ASSUME PresenceIInv PROVE PagesShowAgent /\ SilentAgentsLeave
        BY DEF PresenceHolds
    <2>1. PagesShowAgent
        <3> SUFFICES ASSUME Settled, NEW t \in Topics \ (LocalTopics \cup overtaken),
                            reading[t] \notin Refused \cup {Unknown}
                     PROVE  /\ shown.last[t] = reading[t]
                            /\ \A p \in watching : display[p][t] = reading[t]
            BY DEF PagesShowAgent
        <3>1. uplink \in Uplinks /\ uplink # Absent
            BY PresenceAssumption DEF PresenceIInv, PresenceTypeOK, Settled
        <3>2. TopicKept(t) /\ ~LastWord(wire[uplink], t, reading[t])
            BY <3>1 DEF PresenceIInv, StateIsKept, Known, Settled, LastWord
        <3> QED BY <3>2 DEF TopicKept, ShowsTopic, Settled
    <2>2. SilentAgentsLeave
        BY DEF PresenceIInv, PresenceTypeOK, HeardAreNotSilent, SilentAgentsLeave
    <2> QED BY <2>1, <2>2
<1> QED BY PresenceIInit, <1>1, <1>2, PTL DEF PresenceSpec


-----------------------------------------------------------------------------
(***************************************************************************)
(* Cockpit                                                                 *)
(***************************************************************************)
Shown      == Tunings \cup Modes \cup {Untuned}
AnUpdate   == {"freq_update", "xpdr_update", "own_position"} \X Shown
AnOrder    == ({"sim_com"} \X Tunings) \cup ({"sim_xpdr"} \X Modes)
OfRadio    == {"freq_update"}
OfMode     == {"xpdr_update", "own_position"}
Tunes      == {"sim_com"}

CockpitTypeOK ==
    /\ simRadio \in Tunings /\ currentCom \in Tunings \cup {Untuned} /\ simMode \in Modes
    /\ currentMode \in Shown \cup {NoMode}
    /\ label \in [Tabs -> Shown] /\ shownMode \in [Tabs -> Shown]
    /\ orders \in [Tabs -> Seq(AnOrder)] /\ updates \in [Tabs -> Seq(AnUpdate)]

\* The last message of these kinds in a queue has this value; or there is none.
LastOf(q, kinds, value) ==
    \E i \in DOMAIN q : /\ q[i][1] \in kinds /\ q[i][2] = value
                        /\ \A j \in DOMAIN q : j > i => q[j][1] \notin kinds
NoneOf(q, kinds) == \A i \in DOMAIN q : q[i][1] \notin kinds

\* The last frequency on its way to a page is the agent's; without one, the page
\* shows the agent's, or what it asked for last, or what could not be taken.
LabelFollows(t) ==
    \/ LastOf(updates[t], OfRadio, currentCom)
    \/ /\ NoneOf(updates[t], OfRadio)
       /\ \/ label[t] = currentCom
          \/ LastOf(orders[t], Tunes, label[t])
          \/ NoneOf(orders[t], Tunes) /\ t \in refusedTuning

\* The last mode on its way to a page that was told is PilotCore's, or it shows that.
ModeFollows(t) ==
    t \in modeReported =>
        \/ LastOf(updates[t], OfMode, simMode)
        \/ NoneOf(updates[t], OfMode) /\ shownMode[t] = simMode

CockpitIInv ==
    /\ CockpitTypeOK /\ currentCom \in {Untuned, simRadio}
    /\ \A t \in Tabs : LabelFollows(t) /\ ModeFollows(t)


\* A message leaves a queue, or is put on it.
LEMMA QueueTakes ==
    ASSUME NEW S, NEW q \in Seq(S), q # <<>>, NEW kinds
    PROVE  /\ NoneOf(q, kinds) => NoneOf(Tail(q), kinds) /\ Head(q)[1] \notin kinds
           /\ \A value : LastOf(q, kinds, value) =>
                  \/ LastOf(Tail(q), kinds, value)
                  \/ Head(q)[1] \in kinds /\ Head(q)[2] = value /\ NoneOf(Tail(q), kinds)
<1>1. /\ Len(q) \in Nat /\ DOMAIN q = 1..Len(q) /\ DOMAIN Tail(q) = 1..(Len(q) - 1)
      /\ 1 \in DOMAIN q /\ Head(q) = q[1]
      /\ \A i \in DOMAIN Tail(q) : i + 1 \in DOMAIN q /\ Tail(q)[i] = q[i + 1]
      /\ \A i \in DOMAIN q : i # 1 => i - 1 \in DOMAIN Tail(q) /\ Tail(q)[i - 1] = q[i]
    BY TakeFirst
<1>2. NoneOf(q, kinds) => NoneOf(Tail(q), kinds) /\ Head(q)[1] \notin kinds
    BY <1>1 DEF NoneOf
<1>3. ASSUME NEW value, LastOf(q, kinds, value)
      PROVE  \/ LastOf(Tail(q), kinds, value)
             \/ Head(q)[1] \in kinds /\ Head(q)[2] = value /\ NoneOf(Tail(q), kinds)
    <2>1. PICK i \in DOMAIN q : /\ q[i][1] \in kinds /\ q[i][2] = value
                                /\ \A j \in DOMAIN q : j > i => q[j][1] \notin kinds
        BY <1>3 DEF LastOf
    <2>2. CASE i = 1
        BY <1>1, <2>1, <2>2 DEF NoneOf
    <2>3. CASE i # 1
        <3>1. /\ i - 1 \in DOMAIN Tail(q) /\ Tail(q)[i - 1][1] \in kinds /\ Tail(q)[i - 1][2] = value
              /\ \A j \in DOMAIN Tail(q) : j > i - 1 => Tail(q)[j][1] \notin kinds
            BY <1>1, <2>1, <2>3
        <3> QED BY <3>1 DEF LastOf
    <2> QED BY <2>2, <2>3
<1> QED BY <1>2, <1>3

LEMMA QueueGrows ==
    ASSUME NEW S, NEW q \in Seq(S), NEW m \in S, NEW kinds
    PROVE  /\ m[1] \notin kinds =>
                  /\ NoneOf(q, kinds) => NoneOf(Append(q, m), kinds)
                  /\ \A value : LastOf(q, kinds, value) => LastOf(Append(q, m), kinds, value)
           /\ m[1] \in kinds => LastOf(Append(q, m), kinds, m[2])
<1>1. PICK n \in DOMAIN Append(q, m) :
          /\ Append(q, m)[n] = m
          /\ \A i \in DOMAIN Append(q, m) : i \in DOMAIN q \/ i = n
          /\ \A i \in DOMAIN Append(q, m) : ~(i > n)
    BY AppendOne
<1>2. DOMAIN q \subseteq DOMAIN Append(q, m) /\ \A i \in DOMAIN q : Append(q, m)[i] = q[i]
    BY AppendOne
<1>3. m[1] \notin kinds => (NoneOf(q, kinds) => NoneOf(Append(q, m), kinds))
    BY <1>1, <1>2 DEF NoneOf
<1>4. ASSUME m[1] \notin kinds, NEW value, LastOf(q, kinds, value)
      PROVE  LastOf(Append(q, m), kinds, value)
    <2>1. PICK i \in DOMAIN q : /\ q[i][1] \in kinds /\ q[i][2] = value
                                /\ \A j \in DOMAIN q : j > i => q[j][1] \notin kinds
        BY <1>4 DEF LastOf
    <2>2. /\ i \in DOMAIN Append(q, m) /\ Append(q, m)[i] = q[i]
          /\ \A j \in DOMAIN Append(q, m) : j > i => Append(q, m)[j][1] \notin kinds
        BY <1>1, <1>2, <1>4, <2>1
    <2> QED BY <2>1, <2>2 DEF LastOf
<1>5. m[1] \in kinds => LastOf(Append(q, m), kinds, m[2])
    BY <1>1 DEF LastOf
<1> QED BY <1>3, <1>4, <1>5

LEMMA CockpitIInit == CockpitInit => CockpitIInv
<1> SUFFICES ASSUME CockpitInit PROVE CockpitIInv
    OBVIOUS
<1>1. <<>> \in Seq(AnOrder) /\ <<>> \in Seq(AnUpdate) /\ DOMAIN <<>> = {}
    BY EmptySeq
<1>2. CockpitTypeOK
    BY <1>1 DEF CockpitInit, CockpitTypeOK, Shown, Modes
<1>3. ASSUME NEW t \in Tabs PROVE LabelFollows(t) /\ ModeFollows(t)
    BY <1>1, <1>3 DEF CockpitInit, LabelFollows, ModeFollows, NoneOf
<1> QED BY <1>2, <1>3 DEF CockpitInit, CockpitIInv

\* A change of the radio is told to a page: it is its last word on it.
LEMMA ComIsTold ==
    ASSUME CockpitTypeOK, NEW t \in Tabs, LabelFollows(t), NEW f \in Tunings, currentCom' = f,
           \/ currentCom = f /\ updates'[t] = updates[t]
           \/ updates'[t] = Append(updates[t], <<"freq_update", f>>),
           label' = label, orders'[t] = orders[t], t \in refusedTuning => t \in refusedTuning'
    PROVE  LabelFollows(t)' /\ (ModeFollows(t) /\ UNCHANGED <<simMode, shownMode, modeReported>> => ModeFollows(t)')
<1>1. updates[t] \in Seq(AnUpdate) /\ <<"freq_update", f>> \in AnUpdate
    BY DEF CockpitTypeOK, AnUpdate, Shown
<1>2. CASE currentCom = f /\ updates'[t] = updates[t]
    BY <1>2 DEF LabelFollows, ModeFollows
<1>3. CASE updates'[t] = Append(updates[t], <<"freq_update", f>>)
    <2> DEFINE m == <<"freq_update", f>>
    <2>1. m \in AnUpdate /\ m[1] \in OfRadio /\ m[1] \notin OfMode /\ m[2] = f
        BY <1>1 DEF OfRadio, OfMode
    <2>2. updates'[t] = Append(updates[t], m)
        BY <1>3
    <2> HIDE DEF m
    <2>3. LastOf(updates'[t], OfRadio, f)
        BY <1>1, <2>1, <2>2, QueueGrows
    <2>4. /\ NoneOf(updates[t], OfMode) => NoneOf(updates'[t], OfMode)
          /\ \A value : LastOf(updates[t], OfMode, value) => LastOf(updates'[t], OfMode, value)
        BY <1>1, <2>1, <2>2, QueueGrows
    <2> QED BY <2>3, <2>4 DEF LabelFollows, ModeFollows
<1> QED BY <1>2, <1>3

\* A message about the mode leaves the radio's words alone.
LEMMA ModeIsTold ==
    ASSUME NEW q \in Seq(AnUpdate), NEW m \in AnUpdate, m[1] \in OfMode
    PROVE  /\ NoneOf(q, OfRadio) => NoneOf(Append(q, m), OfRadio)
           /\ \A value : LastOf(q, OfRadio, value) => LastOf(Append(q, m), OfRadio, value)
           /\ Append(q, m) \in Seq(AnUpdate)
           /\ LastOf(Append(q, m), OfMode, m[2])
<1>1. m[1] \notin OfRadio
    BY DEF OfRadio, OfMode
<1> QED BY <1>1, QueueGrows, AppendOne


LEMMA ToldTypes ==
    ASSUME NEW queues \in [Tabs -> Seq(AnUpdate)], NEW m \in AnUpdate
    PROVE  Told(queues, m) \in [Tabs -> Seq(AnUpdate)]
<1>1. \A t \in Tabs : Append(queues[t], m) \in Seq(AnUpdate)
    BY AppendOne
<1> QED BY <1>1 DEF Told

LEMMA CockpitTypes == CockpitTypeOK /\ [CockpitNext]_cockpitVars => CockpitTypeOK'
<1> SUFFICES ASSUME CockpitTypeOK, [CockpitNext]_cockpitVars PROVE CockpitTypeOK'
    OBVIOUS
<1> USE DEF CockpitTypeOK, simVars, panelVars
<1>0. /\ \A q \in Seq(AnUpdate) : \A m \in AnUpdate : Append(q, m) \in Seq(AnUpdate)
      /\ \A q \in Seq(AnOrder) : \A m \in AnOrder : Append(q, m) \in Seq(AnOrder)
      /\ \A q \in Seq(AnUpdate) : q # <<>> => Tail(q) \in Seq(AnUpdate) /\ Head(q) \in AnUpdate
      /\ \A q \in Seq(AnOrder) : q # <<>> => Tail(q) \in Seq(AnOrder) /\ Head(q) \in AnOrder
      /\ <<>> \in Seq(AnUpdate) /\ <<>> \in Seq(AnOrder)
    BY AppendOne, TakeFirst, EmptySeq
<1>1. /\ \A m \in AnUpdate \cup AnOrder : m[2] \in Shown
      /\ \A v \in Shown : /\ <<"freq_update", v>> \in AnUpdate /\ <<"xpdr_update", v>> \in AnUpdate
                          /\ <<"own_position", v>> \in AnUpdate
      /\ \A m \in AnOrder : IF m[1] = "sim_com" THEN m[2] \in Tunings ELSE m[2] \in Modes
      /\ \A m \in Modes : m \in Shown /\ Flipped(m) \in Modes /\ <<"sim_xpdr", m>> \in AnOrder
      /\ \A f \in Tunings : f \in Shown /\ <<"sim_com", f>> \in AnOrder
      /\ currentCom \in Shown
    BY DEF AnUpdate, AnOrder, Shown, Modes, Flipped
<1>2. CASE CoreComes \/ CoreGoes \/ PilotToggles
    BY <1>1, <1>2 DEF CoreComes, CoreGoes, PilotToggles
<1>3. CASE PositionSeen
    <2> DEFINE moded == ModeUpdated(simMode, updates)
    <2>1. moded \in [Tabs -> Seq(AnUpdate)]
        BY <1>0, <1>1 DEF ModeUpdated, Told
    <2>2. updates' = Told(moded, <<"own_position", simMode>>) /\ simMode \in Shown
        BY <1>1, <1>3 DEF PositionSeen
    <2> HIDE DEF moded
    <2>3. updates' \in [Tabs -> Seq(AnUpdate)]
        BY <1>0, <1>1, <2>1, <2>2 DEF Told
    <2> QED BY <1>1, <1>3, <2>3 DEF PositionSeen
<1>4. ASSUME NEW f \in Tunings, CoreTells(f) PROVE CockpitTypeOK'
    BY <1>0, <1>1, <1>4 DEF CoreTells, Told
<1>5. ASSUME NEW t \in Tabs, AgentHandles(t) PROVE CockpitTypeOK'
    <2> DEFINE c == Head(orders[t])
    <2>1. c \in AnOrder /\ orders' \in [Tabs -> Seq(AnOrder)] /\ UNCHANGED <<label, shownMode>>
        BY <1>0, <1>5 DEF AgentHandles
    <2>2. CASE c[1] = "sim_com" /\ AgentSetsCom(t, c[2])
        <3>1. c[2] \in Tunings /\ c[2] \in Shown
            BY <1>1, <2>1, <2>2
        <3> HIDE DEF c
        <3>2. updates' \in [Tabs -> Seq(AnUpdate)]
            <4>1. <<"freq_update", c[2]>> \in AnUpdate
                BY <1>1, <3>1
            <4>2. updates' = updates \/ updates' = Told(updates, <<"freq_update", c[2]>>)
                BY <2>2 DEF AgentSetsCom, ComUpdated
            <4> QED BY <4>1, <4>2, ToldTypes
        <3>3. /\ simRadio' \in Tunings /\ currentCom' \in Tunings \cup {Untuned}
              /\ UNCHANGED <<simMode, currentMode>>
            BY <2>2, <3>1 DEF AgentSetsCom, ComUpdated
        <3> QED BY <2>1, <3>2, <3>3
    <2>3. CASE c[1] # "sim_com" /\ AgentToggles(c[2])
        <3>1. c[2] \in Modes /\ c[2] \in Shown
            BY <1>1, <2>1, <2>3
        <3> HIDE DEF c
        <3>2. updates' \in [Tabs -> Seq(AnUpdate)]
            <4>1. <<"xpdr_update", c[2]>> \in AnUpdate
                BY <1>1, <3>1
            <4>2. updates' = updates \/ updates' = Told(updates, <<"xpdr_update", c[2]>>)
                BY <2>3 DEF AgentToggles, ModeUpdated
            <4> QED BY <4>1, <4>2, ToldTypes
        <3>3. /\ simMode' \in Modes /\ currentMode' \in Shown \cup {NoMode}
              /\ UNCHANGED <<simRadio, currentCom>>
            BY <1>1, <2>3, <3>1 DEF AgentToggles
        <3> QED BY <2>1, <3>2, <3>3
    <2> QED BY <1>5, <2>2, <2>3 DEF AgentHandles
<1>6. ASSUME NEW t \in Tabs, PageApplies(t) PROVE CockpitTypeOK'
    <2> DEFINE u == Head(updates[t])
    <2>1. u[2] \in Shown /\ updates' \in [Tabs -> Seq(AnUpdate)]
        BY <1>0, <1>1, <1>6 DEF PageApplies
    <2> QED BY <1>6, <2>1 DEF PageApplies, SetComLabel, ApplyXpdrState
<1>7. ASSUME NEW t \in Tabs, PageLoads(t) PROVE CockpitTypeOK'
    BY <1>0, <1>1, <1>7 DEF PageLoads
<1>8. ASSUME NEW t \in Tabs, NEW f \in Tunings, TuneCom(t, f) PROVE CockpitTypeOK'
    BY <1>0, <1>1, <1>8 DEF TuneCom
<1>9. ASSUME NEW t \in Tabs, NEW m \in Modes, SetXpdrMode(t, m) PROVE CockpitTypeOK'
    BY <1>0, <1>1, <1>9 DEF SetXpdrMode
<1>10. CASE UNCHANGED cockpitVars
    BY <1>10 DEF cockpitVars
<1> QED BY <1>2, <1>3, <1>4, <1>5, <1>6, <1>7, <1>8, <1>9, <1>10 DEF CockpitNext

\* What neither takes nor adds a word about the radio, or about the mode, changes
\* nothing of what a page will show.
LEMMA LabelKept ==
    ASSUME NEW t, LabelFollows(t), UNCHANGED <<currentCom, label[t]>>,
           t \in refusedTuning => t \in refusedTuning',
           NoneOf(updates[t], OfRadio) => NoneOf(updates'[t], OfRadio),
           \A v : LastOf(updates[t], OfRadio, v) => LastOf(updates'[t], OfRadio, v),
           NoneOf(orders[t], Tunes) => NoneOf(orders'[t], Tunes),
           \A v : LastOf(orders[t], Tunes, v) => LastOf(orders'[t], Tunes, v)
    PROVE  LabelFollows(t)'
BY DEF LabelFollows

LEMMA CockpitStep == CockpitIInv /\ [CockpitNext]_cockpitVars => CockpitIInv'
<1> SUFFICES ASSUME CockpitIInv, [CockpitNext]_cockpitVars PROVE CockpitIInv'
    OBVIOUS
<1>1. CockpitTypeOK /\ CockpitTypeOK'
    BY CockpitTypes DEF CockpitIInv
<1>2. currentCom' \in {Untuned, simRadio'}
    <2>1. UNCHANGED <<simRadio, currentCom>> \/ currentCom' = simRadio'
        BY DEF CockpitNext, CoreComes, CoreGoes, PilotToggles, PositionSeen, CoreTells, AgentHandles,
               AgentSetsCom, AgentToggles, ComUpdated, PageApplies, PageLoads, TuneCom, SetXpdrMode,
               cockpitVars, simVars, panelVars
    <2> QED BY <2>1 DEF CockpitIInv
<1>3. \A t \in Tabs : /\ LabelFollows(t) /\ ModeFollows(t)
                      /\ updates[t] \in Seq(AnUpdate) /\ orders[t] \in Seq(AnOrder)
    BY <1>1 DEF CockpitIInv, CockpitTypeOK
<1> SUFFICES ASSUME NEW t \in Tabs PROVE LabelFollows(t)' /\ ModeFollows(t)'
    BY <1>1, <1>2 DEF CockpitIInv
<1> USE DEF simVars, panelVars
<1>4. CASE CoreComes \/ CoreGoes \/ PilotToggles \/ UNCHANGED cockpitVars
    BY <1>3, <1>4 DEF CoreComes, CoreGoes, PilotToggles, cockpitVars, LabelFollows, ModeFollows
<1>5. CASE PositionSeen
    <2> DEFINE moded == ModeUpdated(simMode, updates)
               position == <<"own_position", simMode>>
    <2>1. simMode \in Shown /\ position \in AnUpdate /\ position[1] \in OfMode /\ position[2] = simMode
        BY <1>1 DEF CockpitTypeOK, Shown, AnUpdate, OfMode
    <2>2. /\ moded[t] \in Seq(AnUpdate)
          /\ NoneOf(updates[t], OfRadio) => NoneOf(moded[t], OfRadio)
          /\ \A v : LastOf(updates[t], OfRadio, v) => LastOf(moded[t], OfRadio, v)
        <3> DEFINE m == <<"xpdr_update", simMode>>
        <3>1. m \in AnUpdate /\ m[1] \in OfMode
            BY <2>1 DEF AnUpdate, OfMode
        <3>2. moded[t] = updates[t] \/ moded[t] = Append(updates[t], m)
            BY DEF ModeUpdated, Told
        <3> HIDE DEF m, moded
        <3> QED BY <1>3, <3>1, <3>2, ModeIsTold
    <2>3. updates'[t] = Append(moded[t], position)
        BY <1>5 DEF PositionSeen, Told
    <2> HIDE DEF moded, position
    <2>4. /\ NoneOf(updates[t], OfRadio) => NoneOf(updates'[t], OfRadio)
          /\ \A v : LastOf(updates[t], OfRadio, v) => LastOf(updates'[t], OfRadio, v)
          /\ LastOf(updates'[t], OfMode, simMode)
        BY <2>1, <2>2, <2>3, ModeIsTold
    <2>5. UNCHANGED <<currentCom, simMode, label, orders, refusedTuning>>
        BY <1>5 DEF PositionSeen
    <2> QED BY <1>3, <2>4, <2>5, LabelKept DEF ModeFollows
<1>6. ASSUME NEW f \in Tunings, CoreTells(f) PROVE LabelFollows(t)' /\ ModeFollows(t)'
    <2>1. /\ currentCom' = f /\ UNCHANGED <<label, orders, refusedTuning, simMode, shownMode, modeReported>>
          /\ \/ currentCom = f /\ updates'[t] = updates[t]
             \/ updates'[t] = Append(updates[t], <<"freq_update", f>>)
        BY <1>6 DEF CoreTells, Told
    <2> QED BY <1>1, <1>3, <2>1, ComIsTold
<1>7. ASSUME NEW u \in Tabs, AgentHandles(u) PROVE LabelFollows(t)' /\ ModeFollows(t)'
    <2> DEFINE c == Head(orders[u])
    <2>1. /\ UNCHANGED <<label, shownMode>> /\ orders[u] # <<>> /\ c \in AnOrder
          /\ t # u => orders'[t] = orders[t]
          /\ t = u => /\ orders'[t] = Tail(orders[t])
                      /\ NoneOf(orders[t], Tunes) => NoneOf(orders'[t], Tunes) /\ c[1] \notin Tunes
                      /\ \A v : LastOf(orders[t], Tunes, v) =>
                             \/ LastOf(orders'[t], Tunes, v)
                             \/ c[1] \in Tunes /\ c[2] = v /\ NoneOf(orders'[t], Tunes)
        BY <1>1, <1>3, <1>7, QueueTakes, TakeFirst DEF AgentHandles, CockpitTypeOK
    <2>2. CASE c[1] = "sim_com" /\ AgentSetsCom(u, c[2])
        <3>1. c[2] \in Tunings /\ c[1] \in Tunes
            BY <2>1, <2>2 DEF AnOrder, Tunes
        <3> HIDE DEF c
        <3>2. CASE coreOpen
            <4>1. /\ currentCom' = c[2] /\ UNCHANGED <<simMode, modeReported>>
                  /\ refusedTuning' = refusedTuning \ {u}
                  /\ \/ currentCom = c[2] /\ updates'[t] = updates[t]
                     \/ updates'[t] = Append(updates[t], <<"freq_update", c[2]>>)
                BY <2>2, <3>2 DEF AgentSetsCom, ComUpdated, Told
            <4>2. CASE t # u
                BY <1>1, <1>3, <2>1, <3>1, <4>1, <4>2, ComIsTold
            <4>3. CASE t = u /\ currentCom = c[2] /\ updates'[t] = updates[t]
                BY <1>3, <2>1, <3>1, <4>1, <4>3 DEF LabelFollows, ModeFollows
            <4>4. CASE updates'[t] = Append(updates[t], <<"freq_update", c[2]>>)
                <5> DEFINE m == <<"freq_update", c[2]>>
                <5>1. m \in AnUpdate /\ m[1] \in OfRadio /\ m[1] \notin OfMode /\ m[2] = c[2]
                    BY <3>1 DEF OfRadio, OfMode, AnUpdate, Shown
                <5>2. updates'[t] = Append(updates[t], m) /\ updates[t] \in Seq(AnUpdate)
                    BY <1>3, <4>4
                <5> HIDE DEF m
                <5>3. LastOf(updates'[t], OfRadio, c[2])
                    BY <5>1, <5>2, QueueGrows
                <5>4. /\ NoneOf(updates[t], OfMode) => NoneOf(updates'[t], OfMode)
                      /\ \A v : LastOf(updates[t], OfMode, v) => LastOf(updates'[t], OfMode, v)
                    BY <5>1, <5>2, QueueGrows
                <5> QED BY <1>3, <2>1, <4>1, <5>3, <5>4 DEF LabelFollows, ModeFollows
            <4> QED BY <4>1, <4>2, <4>3, <4>4
        <3>3. CASE ~coreOpen
            <4>1. /\ UNCHANGED <<currentCom, simMode, modeReported, updates>>
                  /\ refusedTuning' = refusedTuning \cup {u}
                BY <2>2, <3>3 DEF AgentSetsCom
            <4>2. CASE t # u
                BY <1>3, <2>1, <4>1, <4>2 DEF LabelFollows, ModeFollows
            <4>3. CASE t = u
                BY <1>3, <2>1, <3>1, <4>1, <4>3 DEF LabelFollows, ModeFollows
            <4> QED BY <4>2, <4>3
        <3> QED BY <3>2, <3>3
    <2>3. CASE c[1] # "sim_com" /\ AgentToggles(c[2])
        <3>1. c[2] \in Modes /\ c[1] \notin Tunes
            BY <2>1, <2>3 DEF AnOrder, Tunes
        <3> HIDE DEF c
        <3>2. UNCHANGED <<currentCom, refusedTuning>>
            BY <2>3 DEF AgentToggles
        <3>3. /\ NoneOf(orders[t], Tunes) => NoneOf(orders'[t], Tunes)
              /\ \A v : LastOf(orders[t], Tunes, v) => LastOf(orders'[t], Tunes, v)
            BY <2>1, <3>1
        <3>4. CASE coreOpen
            <4> DEFINE m == <<"xpdr_update", c[2]>>
            <4>1. m \in AnUpdate /\ m[1] \in OfMode
                BY <3>1 DEF AnUpdate, OfMode, Shown
            <4>2. updates'[t] = updates[t] \/ updates'[t] = Append(updates[t], m)
                BY <2>3, <3>4 DEF AgentToggles, ModeUpdated, Told
            <4>3. modeReported' = {}
                BY <2>3, <3>4 DEF AgentToggles
            <4> HIDE DEF m
            <4>4. /\ NoneOf(updates[t], OfRadio) => NoneOf(updates'[t], OfRadio)
                  /\ \A v : LastOf(updates[t], OfRadio, v) => LastOf(updates'[t], OfRadio, v)
                BY <1>3, <4>1, <4>2, ModeIsTold
            <4> QED BY <1>3, <2>1, <3>2, <3>3, <4>3, <4>4, LabelKept DEF ModeFollows
        <3>5. CASE ~coreOpen
            <4>1. UNCHANGED <<updates, simMode, modeReported>>
                BY <2>3, <3>5 DEF AgentToggles
            <4>2. ModeFollows(t)'
                BY <1>3, <2>1, <4>1 DEF ModeFollows
            <4> QED BY <1>3, <2>1, <3>2, <3>3, <4>1, <4>2, LabelKept
        <3> QED BY <3>4, <3>5
    <2> QED BY <1>7, <2>2, <2>3 DEF AgentHandles
<1>8. ASSUME NEW u \in Tabs, PageApplies(u) PROVE LabelFollows(t)' /\ ModeFollows(t)'
    <2> DEFINE m == Head(updates[u])
    <2>1. UNCHANGED <<currentCom, simMode, orders, refusedTuning, modeReported>> /\ updates[u] # <<>>
        BY <1>8 DEF PageApplies
    <2>2. CASE t # u
        <3>1. updates'[t] = updates[t] /\ label'[t] = label[t] /\ shownMode'[t] = shownMode[t]
            BY <1>1, <1>8, <2>2 DEF PageApplies, SetComLabel, ApplyXpdrState, CockpitTypeOK
        <3> QED BY <1>3, <2>1, <3>1 DEF LabelFollows, ModeFollows
    <2>3. CASE t = u
        <3>1. /\ updates'[t] = Tail(updates[t]) /\ m \in AnUpdate
              /\ \A kinds : /\ NoneOf(updates[t], kinds) => NoneOf(updates'[t], kinds) /\ m[1] \notin kinds
                            /\ \A v : LastOf(updates[t], kinds, v) =>
                                  \/ LastOf(updates'[t], kinds, v)
                                  \/ m[1] \in kinds /\ m[2] = v /\ NoneOf(updates'[t], kinds)
            BY <1>1, <1>3, <2>1, <2>3, <1>8, QueueTakes, TakeFirst DEF PageApplies, CockpitTypeOK
        <3>2. CASE m[1] = "freq_update"
            <4>1. label'[t] = m[2] /\ UNCHANGED shownMode /\ m[1] \in OfRadio /\ m[1] \notin OfMode
                BY <1>1, <1>8, <2>3, <3>2 DEF PageApplies, SetComLabel, CockpitTypeOK, OfRadio, OfMode
            <4> HIDE DEF m
            <4>2. LabelFollows(t)'
                BY <1>3, <2>1, <3>1, <4>1 DEF LabelFollows
            <4>3. ModeFollows(t)'
                BY <1>3, <2>1, <3>1, <4>1 DEF ModeFollows
            <4> QED BY <4>2, <4>3
        <3>3. CASE m[1] # "freq_update"
            <4>1. shownMode'[t] = m[2] /\ UNCHANGED label /\ m[1] \notin OfRadio /\ m[1] \in OfMode
                BY <1>1, <1>8, <2>3, <3>1, <3>3
                DEF PageApplies, ApplyXpdrState, CockpitTypeOK, OfRadio, OfMode, AnUpdate
            <4> HIDE DEF m
            <4>2. LabelFollows(t)'
                BY <1>3, <2>1, <3>1, <4>1 DEF LabelFollows
            <4>3. ModeFollows(t)'
                BY <1>3, <2>1, <3>1, <4>1 DEF ModeFollows
            <4> QED BY <4>2, <4>3
        <3> QED BY <3>2, <3>3
    <2> QED BY <2>2, <2>3
<1>9. ASSUME NEW u \in Tabs, PageLoads(u) PROVE LabelFollows(t)' /\ ModeFollows(t)'
    <2>1. UNCHANGED <<currentCom, simMode, orders>>
        BY <1>9 DEF PageLoads
    <2>2. CASE t # u
        <3>1. /\ updates'[t] = updates[t] /\ label'[t] = label[t] /\ shownMode'[t] = shownMode[t]
              /\ t \in refusedTuning' <=> t \in refusedTuning
              /\ t \in modeReported' <=> t \in modeReported
            BY <1>1, <1>9, <2>2 DEF PageLoads, CockpitTypeOK
        <3> QED BY <1>3, <2>1, <3>1 DEF LabelFollows, ModeFollows
    <2>3. CASE t = u
        <3>1. updates'[t] = <<>> /\ label'[t] = currentCom /\ t \notin modeReported'
            BY <1>1, <1>9, <2>3 DEF PageLoads, CockpitTypeOK
        <3>2. NoneOf(updates'[t], OfRadio)
            BY <3>1, EmptySeq DEF NoneOf
        <3> QED BY <2>1, <3>1, <3>2 DEF LabelFollows, ModeFollows
    <2> QED BY <2>2, <2>3
<1>10. ASSUME NEW u \in Tabs, NEW f \in Tunings, TuneCom(u, f) PROVE LabelFollows(t)' /\ ModeFollows(t)'
    <2>1. UNCHANGED <<currentCom, simMode, shownMode, updates, refusedTuning, modeReported>>
        BY <1>10 DEF TuneCom
    <2>2. CASE t # u
        <3>1. orders'[t] = orders[t] /\ label'[t] = label[t]
            BY <1>1, <1>10, <2>2 DEF TuneCom, CockpitTypeOK
        <3> QED BY <1>3, <2>1, <3>1 DEF LabelFollows, ModeFollows
    <2>3. CASE t = u
        <3> DEFINE m == <<"sim_com", f>>
        <3>1. m \in AnOrder /\ m[1] \in Tunes /\ m[2] = f
            BY DEF AnOrder, Tunes
        <3>2. orders'[t] = Append(orders[t], m) /\ label'[t] = f
            BY <1>1, <1>10, <2>3 DEF TuneCom, CockpitTypeOK
        <3> HIDE DEF m
        <3>3. LastOf(orders'[t], Tunes, f)
            BY <1>3, <3>1, <3>2, QueueGrows
        <3> QED BY <1>3, <2>1, <3>2, <3>3 DEF LabelFollows, ModeFollows
    <2> QED BY <2>2, <2>3
<1>11. ASSUME NEW u \in Tabs, NEW mo \in Modes, SetXpdrMode(u, mo) PROVE LabelFollows(t)' /\ ModeFollows(t)'
    <2>1. UNCHANGED <<currentCom, simMode, label, updates, refusedTuning>>
        BY <1>11 DEF SetXpdrMode
    <2>2. CASE t # u
        <3>1. /\ orders'[t] = orders[t] /\ shownMode'[t] = shownMode[t]
              /\ t \in modeReported' <=> t \in modeReported
            BY <1>1, <1>11, <2>2 DEF SetXpdrMode, CockpitTypeOK
        <3> QED BY <1>3, <2>1, <3>1 DEF LabelFollows, ModeFollows
    <2>3. CASE t = u
        <3> DEFINE m == <<"sim_xpdr", mo>>
        <3>1. m \in AnOrder /\ m[1] \notin Tunes
            BY DEF AnOrder, Tunes
        <3>2. orders'[t] = Append(orders[t], m) /\ t \notin modeReported'
            BY <1>1, <1>11, <2>3 DEF SetXpdrMode, CockpitTypeOK
        <3> HIDE DEF m
        <3>3. /\ NoneOf(orders[t], Tunes) => NoneOf(orders'[t], Tunes)
              /\ \A v : LastOf(orders[t], Tunes, v) => LastOf(orders'[t], Tunes, v)
            BY <1>3, <3>1, <3>2, QueueGrows
        <3> QED BY <1>3, <2>1, <3>2, <3>3, LabelKept DEF ModeFollows
    <2> QED BY <2>2, <2>3
<1> QED BY <1>4, <1>5, <1>6, <1>7, <1>8, <1>9, <1>10, <1>11 DEF CockpitNext

\* When all has arrived, every page shows the radio and the mode PilotCore is on.
THEOREM PanelsFollowRadio == CockpitSpec => []PanelsSettle
<1>1. CockpitIInv => PanelsSettle
    <2> SUFFICES ASSUME CockpitIInv, AllHandled, NEW t \in Tabs
                 PROVE  /\ t \notin refusedTuning => label[t] = currentCom
                        /\ t \in modeReported => shownMode[t] = simMode
                        /\ currentCom \in {Untuned, simRadio}
        BY DEF PanelsSettle
    <2>1. updates[t] = <<>> /\ orders[t] = <<>> /\ LabelFollows(t) /\ ModeFollows(t)
        BY DEF AllHandled, CockpitIInv
    <2>2. \A kinds, v : ~LastOf(<<>>, kinds, v)
        BY EmptySeq DEF LastOf
    <2> QED BY <2>1, <2>2 DEF LabelFollows, ModeFollows, CockpitIInv
<1> QED BY CockpitIInit, CockpitStep, <1>1, PTL DEF CockpitSpec


-----------------------------------------------------------------------------
(***************************************************************************)
(* AgentLink                                                               *)
(***************************************************************************)
Devoted      == SUBSET Subscribers
LinkMessages == [type : {"hello", "ticket", "commit", "disarm"}, session : 0..MaxFlights, tickets : Devoted]
Covered      == IF flight.armed THEN opted ELSE {}
OpenTickets  == UNION {b.tickets : b \in OpenBatch}

LinkTypeOK ==
    /\ opted \in Devoted /\ written \in Devoted /\ expired \in Devoted
    /\ unsynced \in BOOLEAN /\ refused \in BOOLEAN /\ refresh \in BOOLEAN
    /\ flights \in 0..MaxFlights /\ flight \in [armed : BOOLEAN, session : 0..flights]
    /\ flight.armed => flight.session # 0
    /\ link \in {"down", "open", "ended"} /\ seen \in {"none", "old", "current"}
    /\ channel \in Seq(LinkMessages) /\ losses \in Nat
    /\ batches \subseteq [open : BOOLEAN, tickets : Devoted, n : Nat]
    /\ entry \in [session : 1..MaxFlights, tickets : Devoted] \cup {NoEntry}

\* The messages of one sending stay together: tickets are followed by the commit, and a
\* batch that is open at the relay by more of them.  hello comes first and once.
Sequenced(q) ==
    \A i \in DOMAIN q :
        /\ q[i].type = "hello" <=> q[i].session = 0
        /\ q[i].type = "ticket" => i + 1 \in DOMAIN q /\ q[i + 1].type \in {"ticket", "commit"}
        /\ q[i].type # "ticket" => q[i].tickets = {}

InOrder ==
    /\ Sequenced(channel)
    /\ \A i \in DOMAIN channel : channel[i].type = "hello" => i = 1 /\ seen # "current"
    /\ link # "open" => channel = <<>> /\ seen # "current"
    /\ link = "open" /\ seen # "current" => channel # <<>> /\ channel[1].type = "hello"
    /\ seen = "current" /\ OpenBatch # {} => channel # <<>> /\ channel[1].type \in {"ticket", "commit"}

\* The end of a queue sends the tickets of D for session s, from behind place b on;
\* where b is 0, some may have been taken already.
Sends(q, b, s, D, taken) ==
    /\ b \in Nat /\ b < Len(q)
    /\ q[Len(q)].type = "commit" /\ q[Len(q)].session = s
    /\ \A i \in DOMAIN q : b < i /\ i # Len(q) => q[i].type = "ticket"
    /\ b # 0 => q[b].type # "ticket"
    /\ \A d \in Subscribers : d \in D <=> (b = 0 /\ d \in taken) \/ \E i \in DOMAIN q : b < i /\ d \in q[i].tickets

\* It ends the session s.
Ends(q, s) == q # <<>> /\ q[Len(q)].type = "disarm" /\ q[Len(q)].session = s

\* What was sent last covers the flight, or ends it; or the relay did that.
EntryFollows ==
    link = "open" /\ ~unsynced /\ ~refused /\ flight.session # 0 =>
        \/ /\ Covered = {}
           /\ \/ Ends(channel, flight.session)
              \/ channel = <<>> /\ (entry = NoEntry \/ entry.session # flight.session)
        \/ /\ flight.armed
           /\ \E D \in Devoted :
                 /\ Covered \subseteq D /\ D \subseteq Covered \cup expired
                 /\ \/ \E b \in 0..Len(channel) : Sends(channel, b, flight.session, D, OpenTickets)
                    \/ channel = <<>> /\ entry = [session |-> flight.session, tickets |-> D]

LinkIInv == LinkTypeOK /\ (link = "open" => refresh = flight.armed) /\ InOrder /\ EntryFollows

\* The tickets of a set of devices, one message each, in whatever order.
LEMMA TicketsOfDevices ==
    ASSUME NEW group \in Devoted, NEW f \in [armed : BOOLEAN, session : 0..MaxFlights]
    PROVE  /\ TicketsFor(f, group) \in Seq(LinkMessages)
           /\ \A i \in DOMAIN TicketsFor(f, group) :
                  TicketsFor(f, group)[i].type = "ticket" /\ TicketsFor(f, group)[i].session = f.session
           /\ \A d \in Subscribers :
                  d \in group <=> \E i \in DOMAIN TicketsFor(f, group) : d \in TicketsFor(f, group)[i].tickets
<1> DEFINE order == SetToSeq(group)
           n == Cardinality(group)
           told == TicketsFor(f, group)
<1>1. IsFiniteSet(group)
    BY FS_Subset, AgentLinkAssumption DEF Devoted
<1>2. /\ order \in Seq(group) /\ DOMAIN order = 1..n /\ n \in Nat
      /\ \A d \in group : \E i \in DOMAIN order : order[i] = d
    BY <1>1, Enumeration
<1>3. \A i \in 1..n : order[i] \in group
    BY <1>2, ElementOfSeq, LenProperties
<1> HIDE DEF order, n
<1>4. told = [i \in 1..n |-> Msg("ticket", f, {order[i]})]
    BY DEF TicketsFor, order, n
<1>5. \A i \in 1..n : Msg("ticket", f, {order[i]}) \in LinkMessages
    BY <1>3 DEF Msg, LinkMessages, Devoted
<1>6. told \in [1..n -> LinkMessages]
    BY <1>4, <1>5
<1>7. told \in Seq(LinkMessages) /\ DOMAIN told = 1..n
    BY <1>2, <1>6, SeqDef
<1>8. \A i \in 1..n : told[i].type = "ticket" /\ told[i].session = f.session /\ told[i].tickets = {order[i]}
    BY <1>4 DEF Msg
<1> HIDE DEF told
<1>9. ASSUME NEW d \in Subscribers PROVE d \in group <=> \E i \in DOMAIN told : d \in told[i].tickets
    <2>1. \A i \in 1..n : d \in told[i].tickets <=> d = order[i]
        BY <1>8
    <2>2. d \in group <=> \E i \in 1..n : d = order[i]
        BY <1>2, <1>3
    <2> QED BY <1>7, <2>1, <2>2
<1> QED BY <1>7, <1>8, <1>9 DEF told

\* Places of a queue that is put behind another.
LEMMA Behind ==
    ASSUME NEW S, NEW q \in Seq(S), NEW r \in Seq(S)
    PROVE  /\ q \o r \in Seq(S) /\ Len(q \o r) = Len(q) + Len(r) /\ Len(q) \in Nat /\ Len(r) \in Nat
           /\ DOMAIN q = 1..Len(q) /\ DOMAIN r = 1..Len(r) /\ DOMAIN (q \o r) = 1..(Len(q) + Len(r))
           /\ \A i \in 1..Len(q) : (q \o r)[i] = q[i]
           /\ \A i \in 1..Len(r) : (q \o r)[Len(q) + i] = r[i]
           /\ \A i \in 1..(Len(q) + Len(r)) : i > Len(q) => i - Len(q) \in 1..Len(r) /\ (q \o r)[i] = r[i - Len(q)]
<1>1. /\ q \o r \in Seq(S) /\ Len(q \o r) = Len(q) + Len(r)
      /\ \A i \in 1..(Len(q) + Len(r)) : (q \o r)[i] = IF i <= Len(q) THEN q[i] ELSE r[i - Len(q)]
    BY ConcatProperties
<1>2. /\ Len(q) \in Nat /\ Len(r) \in Nat /\ DOMAIN q = 1..Len(q) /\ DOMAIN r = 1..Len(r)
      /\ DOMAIN (q \o r) = 1..(Len(q) + Len(r))
    BY <1>1, LenProperties
<1>3. \A i \in 1..Len(q) : (q \o r)[i] = q[i]
    BY <1>1, <1>2
<1>4. ASSUME NEW i \in 1..Len(r) PROVE (q \o r)[Len(q) + i] = r[i]
    <2>1. Len(q) + i \in 1..(Len(q) + Len(r)) /\ ~(Len(q) + i <= Len(q)) /\ (Len(q) + i) - Len(q) = i
        BY <1>2
    <2> QED BY <1>1, <2>1
<1>5. ASSUME NEW i \in 1..(Len(q) + Len(r)), i > Len(q)
      PROVE  i - Len(q) \in 1..Len(r) /\ (q \o r)[i] = r[i - Len(q)]
    <2>1. i - Len(q) \in 1..Len(r) /\ ~(i <= Len(q))
        BY <1>2, <1>5
    <2> QED BY <1>1, <2>1
<1> QED BY <1>1, <1>2, <1>3, <1>4, <1>5

LEMMA OrderJoined ==
    ASSUME NEW q \in Seq(LinkMessages), NEW r \in Seq(LinkMessages), Sequenced(q), Sequenced(r)
    PROVE  Sequenced(q \o r)
<1> DEFINE j == q \o r
<1>1. /\ Len(q) \in Nat /\ Len(r) \in Nat
      /\ DOMAIN q = 1..Len(q) /\ DOMAIN r = 1..Len(r) /\ DOMAIN j = 1..(Len(q) + Len(r))
      /\ \A i \in 1..Len(q) : j[i] = q[i]
      /\ \A i \in 1..Len(r) : j[Len(q) + i] = r[i]
      /\ \A i \in 1..(Len(q) + Len(r)) : i > Len(q) => i - Len(q) \in 1..Len(r) /\ j[i] = r[i - Len(q)]
    BY Behind
<1> HIDE DEF j
<1>2. SUFFICES ASSUME NEW i \in DOMAIN j
               PROVE  /\ j[i].type = "hello" <=> j[i].session = 0
                      /\ j[i].type = "ticket" => i + 1 \in DOMAIN j /\ j[i + 1].type \in {"ticket", "commit"}
                      /\ j[i].type # "ticket" => j[i].tickets = {}
    BY DEF Sequenced, j
<1>3. CASE i <= Len(q)
    <2>1. i \in DOMAIN q /\ j[i] = q[i]
        BY <1>1, <1>3
    <2>2. ASSUME q[i].type = "ticket" PROVE i + 1 \in DOMAIN j /\ j[i + 1] = q[i + 1]
        <3>1. i + 1 \in DOMAIN q
            BY <2>1, <2>2 DEF Sequenced
        <3> QED BY <1>1, <3>1
    <2> QED BY <2>1, <2>2 DEF Sequenced
<1>4. CASE i > Len(q)
    <2> DEFINE k == i - Len(q)
    <2>1. k \in DOMAIN r /\ j[i] = r[k] /\ i = Len(q) + k
        BY <1>1, <1>4
    <2>2. ASSUME r[k].type = "ticket" PROVE i + 1 \in DOMAIN j /\ j[i + 1] = r[k + 1]
        <3>1. k + 1 \in DOMAIN r
            BY <2>1, <2>2 DEF Sequenced
        <3>2. i + 1 = Len(q) + (k + 1)
            BY <1>1, <2>1
        <3>3. i + 1 \in DOMAIN j
            BY <1>1, <3>1, <3>2
        <3> QED BY <1>1, <3>1, <3>2, <3>3
    <2> HIDE DEF k
    <2> QED BY <2>1, <2>2 DEF Sequenced
<1> QED BY <1>1, <1>3, <1>4

\* What is put behind a queue is what its end says.
LEMMA EndJoined ==
    ASSUME NEW q \in Seq(LinkMessages), NEW r \in Seq(LinkMessages), NEW s,
           q # <<>> => q[Len(q)].type # "ticket"
    PROVE  /\ Ends(r, s) => Ends(q \o r, s)
           /\ \A D, b, taken :
                  Sends(r, b, s, D, {}) /\ (q = <<>> => taken = {}) =>
                      Len(q) + b \in 0..Len(q \o r) /\ Sends(q \o r, Len(q) + b, s, D, taken)
<1> DEFINE j == q \o r
<1>1. /\ j \in Seq(LinkMessages) /\ Len(j) = Len(q) + Len(r) /\ Len(q) \in Nat /\ Len(r) \in Nat
      /\ DOMAIN q = 1..Len(q) /\ DOMAIN r = 1..Len(r) /\ DOMAIN j = 1..(Len(q) + Len(r))
      /\ \A i \in 1..Len(q) : j[i] = q[i]
      /\ \A i \in 1..Len(r) : j[Len(q) + i] = r[i]
      /\ \A i \in 1..(Len(q) + Len(r)) : i > Len(q) => i - Len(q) \in 1..Len(r) /\ j[i] = r[i - Len(q)]
    BY Behind
<1>2. (q = <<>> <=> Len(q) = 0) /\ (r = <<>> <=> Len(r) = 0) /\ (j = <<>> <=> Len(j) = 0)
    BY <1>1, EmptySeq
<1> HIDE DEF j
<1>3. Len(r) # 0 => j[Len(j)] = r[Len(r)]
    BY <1>1
<1>4. Ends(r, s) => Ends(j, s)
    BY <1>1, <1>2, <1>3 DEF Ends
<1>5. ASSUME NEW D, NEW b, NEW taken, Sends(r, b, s, D, {}), q = <<>> => taken = {}
      PROVE  Len(q) + b \in 0..Len(j) /\ Sends(j, Len(q) + b, s, D, taken)
    <2>1. b \in Nat /\ b < Len(r)
        BY <1>5 DEF Sends
    <2>2. Len(q) + b \in 0..Len(j) /\ Len(q) + b < Len(j) /\ Len(q) + b \in Nat
        BY <1>1, <2>1
    <2>3. j[Len(j)].type = "commit" /\ j[Len(j)].session = s
        BY <1>1, <1>3, <1>5, <2>1 DEF Sends
    <2>4. ASSUME NEW i \in DOMAIN j, Len(q) + b < i, i # Len(j) PROVE j[i].type = "ticket"
        <3>0. i \in 1..(Len(q) + Len(r)) /\ i > Len(q) /\ i # Len(q) + Len(r)
            BY <1>1, <2>1, <2>4
        <3>1. i - Len(q) \in DOMAIN r /\ j[i] = r[i - Len(q)]
            BY <1>1, <3>0
        <3>2. Len(q) \in Nat /\ Len(r) \in Nat /\ i \in Nat
            BY <1>1, <3>0
        <3>3. b < i - Len(q) /\ i - Len(q) # Len(r)
            BY <2>1, <2>4, <3>0, <3>2
        <3> QED BY <1>5, <3>1, <3>3 DEF Sends
    <2>5. ASSUME Len(q) + b # 0 PROVE j[Len(q) + b].type # "ticket"
        <3>1. CASE b = 0
            BY <1>1, <1>2, <2>5, <3>1
        <3>2. CASE b # 0
            <4>1. b \in DOMAIN r /\ r[b].type # "ticket"
                BY <1>1, <1>5, <2>1, <3>2 DEF Sends
            <4>2. j[Len(q) + b] = r[b]
                BY <1>1, <2>1, <4>1
            <4> QED BY <4>1, <4>2
        <3> QED BY <3>1, <3>2
    <2>6. ASSUME NEW d \in Subscribers
          PROVE  d \in D <=> (Len(q) + b = 0 /\ d \in taken) \/ \E i \in DOMAIN j : Len(q) + b < i /\ d \in j[i].tickets
        <3>1. d \in D <=> \E i \in DOMAIN r : b < i /\ d \in r[i].tickets
            BY <1>5 DEF Sends
        <3>2. ~(Len(q) + b = 0 /\ d \in taken)
            BY <1>1, <1>2, <1>5, <2>1
        <3>3. ASSUME NEW i \in DOMAIN r, b < i, d \in r[i].tickets
              PROVE  \E k \in DOMAIN j : Len(q) + b < k /\ d \in j[k].tickets
            <4>0. i \in 1..Len(r) /\ Len(q) \in Nat /\ Len(r) \in Nat /\ DOMAIN j = 1..(Len(q) + Len(r))
                BY <1>1
            <4>1. Len(q) + i \in DOMAIN j /\ Len(q) + b < Len(q) + i
                BY <2>1, <3>3, <4>0
            <4>2. j[Len(q) + i] = r[i]
                BY <1>1, <4>0, Zenon
            <4> QED BY <3>3, <4>1, <4>2
        <3>4. ASSUME NEW k \in DOMAIN j, Len(q) + b < k, d \in j[k].tickets
              PROVE  \E i \in DOMAIN r : b < i /\ d \in r[i].tickets
            <4>1. k - Len(q) \in DOMAIN r /\ b < k - Len(q) /\ j[k] = r[k - Len(q)]
                BY <1>1, <2>1, <3>4
            <4> QED BY <3>4, <4>1
        <3> QED BY <3>1, <3>2, <3>3, <3>4
    <2> QED BY <2>2, <2>3, <2>4, <2>5, <2>6 DEF Sends
<1> QED BY <1>4, <1>5 DEF j

\* What one sending puts in the channel.
LEMMA WhatIsSent ==
    ASSUME NEW group \in Devoted, NEW f \in [armed : BOOLEAN, session : 0..MaxFlights], f.armed => f.session # 0,
           NEW clearFirst \in BOOLEAN
    PROVE  /\ Messages(group, f, clearFirst) \in Seq(LinkMessages)
           /\ Sequenced(Messages(group, f, clearFirst))
           /\ \A i \in DOMAIN Messages(group, f, clearFirst) : Messages(group, f, clearFirst)[i].type # "hello"
           /\ f.session # 0 =>
                  IF f.armed /\ group # {}
                  THEN \E b \in Nat : Sends(Messages(group, f, clearFirst), b, f.session, group, {})
                  ELSE Ends(Messages(group, f, clearFirst), f.session)
<1> DEFINE end == Msg("commit", f, {})
           off == Msg("disarm", f, {})
           sent == TicketsFor(f, group)
           all == sent \o <<end>>
           m == Messages(group, f, clearFirst)
<1>1. /\ end \in LinkMessages /\ end.type = "commit" /\ end.session = f.session /\ end.tickets = {}
      /\ off \in LinkMessages /\ off.type = "disarm" /\ off.session = f.session /\ off.tickets = {}
    BY DEF Msg, LinkMessages, Devoted
<1>2. /\ sent \in Seq(LinkMessages)
      /\ \A i \in DOMAIN sent : sent[i].type = "ticket" /\ sent[i].session = f.session
      /\ \A d \in Subscribers : d \in group <=> \E i \in DOMAIN sent : d \in sent[i].tickets
    BY TicketsOfDevices
<1>3. \/ f.session = 0 /\ m = <<>>
      \/ f.session # 0 /\ ~(f.armed /\ group # {}) /\ m = <<off>>
      \/ f.session # 0 /\ f.armed /\ group # {} /\ (m = (<<>> \o sent) \o <<end>> \/ m = (<<off>> \o sent) \o <<end>>)
    BY DEF Messages
<1> HIDE DEF end, off, sent, m
<1>4. /\ <<end>> \in Seq(LinkMessages) /\ Len(<<end>>) = 1 /\ <<end>>[1] = end
      /\ <<off>> \in Seq(LinkMessages) /\ Len(<<off>>) = 1 /\ <<off>>[1] = off /\ <<off>> # <<>>
      /\ DOMAIN <<off>> = {1} /\ Len(<<off>>) \in DOMAIN <<off>>
      /\ <<>> \in Seq(LinkMessages) /\ Len(<<>>) = 0 /\ DOMAIN <<>> = {}
    BY <1>1, EmptySeq
<1>5. CASE f.session = 0
    BY <1>3, <1>4, <1>5 DEF Sequenced, m
<1>6. CASE f.session # 0 /\ ~(f.armed /\ group # {})
    BY <1>1, <1>3, <1>4, <1>6 DEF Sequenced, Ends, m
<1>7. CASE f.session # 0 /\ f.armed /\ group # {}
    <2>1. /\ all \in Seq(LinkMessages) /\ Len(all) = Len(sent) + 1 /\ Len(sent) \in Nat
          /\ DOMAIN sent = 1..Len(sent) /\ DOMAIN all = 1..(Len(sent) + 1)
          /\ \A i \in 1..Len(sent) : all[i] = sent[i]
          /\ all[Len(sent) + 1] = end
        <3>1. /\ all \in Seq(LinkMessages) /\ Len(all) = Len(sent) + Len(<<end>>) /\ Len(sent) \in Nat
              /\ DOMAIN sent = 1..Len(sent) /\ DOMAIN all = 1..(Len(sent) + Len(<<end>>))
              /\ \A i \in 1..Len(sent) : all[i] = sent[i]
              /\ \A i \in 1..Len(<<end>>) : all[Len(sent) + i] = <<end>>[i]
            BY <1>2, <1>4, Behind
        <3> QED BY <1>4, <3>1
    <2> HIDE DEF all
    <2>2. \A i \in DOMAIN all : (i \in DOMAIN sent /\ all[i] = sent[i]) \/ (i = Len(sent) + 1 /\ all[i] = end)
        BY <2>1
    <2>3. \A i \in DOMAIN sent : i + 1 \in DOMAIN all /\ i \in DOMAIN all
        BY <2>1
    <2>4. Sequenced(all)
        BY <1>1, <1>2, <1>7, <2>1, <2>2, <2>3 DEF Sequenced
    <2>5. \A i \in DOMAIN all : all[i].type # "hello"
        BY <1>1, <1>2, <2>2
    <2>6. Sends(all, 0, f.session, group, {})
        <3>1. 0 \in Nat /\ 0 < Len(all) /\ all[Len(all)] = end
            BY <2>1
        <3>2. \A i \in DOMAIN all : i # Len(all) => all[i].type = "ticket"
            BY <1>2, <2>1, <2>2
        <3>3. ASSUME NEW d \in Subscribers
              PROVE  d \in group <=> \E i \in DOMAIN all : 0 < i /\ d \in all[i].tickets
            <4>1. \A i \in DOMAIN sent : 0 < i /\ i \in DOMAIN all /\ all[i] = sent[i]
                BY <2>1
            <4> QED BY <1>1, <1>2, <2>2, <4>1
        <3> QED BY <1>1, <3>1, <3>2, <3>3 DEF Sends
    <2>7. ASSUME NEW front \in Seq(LinkMessages), Sequenced(front), m = front \o all,
                 \A i \in DOMAIN front : front[i].type # "hello",
                 front # <<>> => front[Len(front)].type # "ticket"
          PROVE  /\ m \in Seq(LinkMessages) /\ Sequenced(m) /\ \A i \in DOMAIN m : m[i].type # "hello"
                 /\ \E b \in Nat : Sends(m, b, f.session, group, {})
        <3>1. /\ m \in Seq(LinkMessages) /\ DOMAIN front = 1..Len(front) /\ Len(front) \in Nat
              /\ DOMAIN m = 1..(Len(front) + Len(all))
              /\ DOMAIN all = 1..Len(all) /\ Len(all) \in Nat
              /\ \A i \in 1..Len(front) : m[i] = front[i]
              /\ \A i \in 1..(Len(front) + Len(all)) : i > Len(front) =>
                    i - Len(front) \in 1..Len(all) /\ m[i] = all[i - Len(front)]
            <4> DEFINE j == front \o all
            <4>1. /\ j \in Seq(LinkMessages) /\ DOMAIN front = 1..Len(front) /\ Len(front) \in Nat
                  /\ DOMAIN j = 1..(Len(front) + Len(all))
                  /\ DOMAIN all = 1..Len(all) /\ Len(all) \in Nat
                  /\ \A i \in 1..Len(front) : j[i] = front[i]
                  /\ \A i \in 1..(Len(front) + Len(all)) : i > Len(front) =>
                        i - Len(front) \in 1..Len(all) /\ j[i] = all[i - Len(front)]
                <5>1. front \in Seq(LinkMessages) /\ all \in Seq(LinkMessages)
                    BY <2>1, <2>7
                <5> QED BY <5>1, Behind
            <4>2. m = j
                BY <2>7
            <4> HIDE DEF j
            <4> QED BY <4>1, <4>2
        <3>2. \A i \in DOMAIN m : m[i].type # "hello"
            BY <2>5, <2>7, <3>1
        <3>3. Sends(m, Len(front) + 0, f.session, group, {})
            BY <2>1, <2>6, <2>7, EndJoined
        <3>4. Len(front) + 0 \in Nat
            BY <3>1
        <3> QED BY <2>1, <2>4, <2>7, <3>1, <3>2, <3>3, <3>4, OrderJoined
    <2>8. Sequenced(<<>>) /\ Sequenced(<<off>>) /\ \A i \in DOMAIN <<off>> : <<off>>[i] = off
        BY <1>1, <1>4, <1>7 DEF Sequenced
    <2>9. m = <<>> \o all \/ m = <<off>> \o all
        <3>1. (<<>> \o sent) \o <<end>> = <<>> \o all
            BY <1>2, <1>4, ConcatAssociative DEF all
        <3>2. (<<off>> \o sent) \o <<end>> = <<off>> \o all
            BY <1>2, <1>4, ConcatAssociative DEF all
        <3> QED BY <1>3, <1>7, <3>1, <3>2
    <2> QED BY <1>1, <1>4, <1>7, <2>7, <2>8, <2>9 DEF m
<1> QED BY <1>5, <1>6, <1>7


\* The first message is taken from what was sent last.
LEMMA SendsTaken ==
    ASSUME NEW q \in Seq(LinkMessages), q # <<>>, Sequenced(q), NEW b, NEW s, NEW D, NEW taken, Sends(q, b, s, D, taken)
    PROVE  \/ b - 1 \in 0..Len(Tail(q)) /\ \A other : Sends(Tail(q), b - 1, s, D, other)
           \/ /\ Head(q).type # "ticket"
              /\ Sends(Tail(q), 0, s, D, {})
           \/ /\ Head(q).type = "ticket"
              /\ Sends(Tail(q), 0, s, D, taken \cup Head(q).tickets)
           \/ /\ Head(q).type = "commit" /\ Head(q).session = s /\ Tail(q) = <<>>
              /\ \A d \in Subscribers : d \in D <=> d \in taken
<1> DEFINE rest == Tail(q)
<1>1. /\ rest \in Seq(LinkMessages) /\ DOMAIN q = 1..Len(q) /\ DOMAIN rest = 1..(Len(q) - 1) /\ Len(q) \in Nat
      /\ 1 \in DOMAIN q /\ Head(q) = q[1]
      /\ \A i \in DOMAIN rest : i + 1 \in DOMAIN q /\ rest[i] = q[i + 1]
      /\ \A i \in DOMAIN q : i # 1 => i - 1 \in DOMAIN rest /\ rest[i - 1] = q[i]
    BY TakeFirst
<1>2. Len(rest) \in Nat /\ DOMAIN rest = 1..Len(rest) /\ (rest = <<>> <=> Len(rest) = 0)
    BY <1>1, LenProperties, EmptySeq
<1>3. Len(rest) = Len(q) - 1
    <2>1. Len(q) - 1 \in Nat
        BY <1>1
    <2> QED BY <1>1, <1>2, <2>1, SameLength
<1>4. /\ b \in Nat /\ b < Len(q)
      /\ q[Len(q)].type = "commit" /\ q[Len(q)].session = s
      /\ \A i \in DOMAIN q : b < i /\ i # Len(q) => q[i].type = "ticket"
      /\ b # 0 => q[b].type # "ticket"
      /\ \A d \in Subscribers : d \in D <=> (b = 0 /\ d \in taken) \/ \E i \in DOMAIN q : b < i /\ d \in q[i].tickets
    BY DEF Sends
<1> HIDE DEF rest
<1>5. Len(q) # 1 => Len(rest) # 0 /\ rest[Len(rest)] = q[Len(q)]
    BY <1>1, <1>3
<1>6. CASE b # 0
    <2>1. b - 1 \in Nat /\ b - 1 < Len(rest) /\ b - 1 \in 0..Len(rest) /\ Len(q) # 1
        BY <1>1, <1>3, <1>4, <1>6
    <2>2. rest[Len(rest)].type = "commit" /\ rest[Len(rest)].session = s
        BY <1>4, <1>5, <2>1
    <2>3. ASSUME NEW i \in DOMAIN rest, b - 1 < i, i # Len(rest) PROVE rest[i].type = "ticket"
        <3>1. i + 1 \in DOMAIN q /\ b < i + 1 /\ i + 1 # Len(q) /\ rest[i] = q[i + 1]
            BY <1>1, <1>2, <1>3, <1>4, <2>3
        <3> QED BY <1>4, <3>1
    <2>4. ASSUME NEW d \in Subscribers PROVE d \in D <=> \E i \in DOMAIN rest : b - 1 < i /\ d \in rest[i].tickets
        <3>1. d \in D <=> \E i \in DOMAIN q : b < i /\ d \in q[i].tickets
            BY <1>4, <1>6
        <3>2. ASSUME NEW i \in DOMAIN rest, b - 1 < i, d \in rest[i].tickets
              PROVE  \E k \in DOMAIN q : b < k /\ d \in q[k].tickets
            <4>1. i + 1 \in DOMAIN q /\ b < i + 1 /\ rest[i] = q[i + 1]
                BY <1>1, <1>2, <1>4, <3>2
            <4> QED BY <3>2, <4>1
        <3>3. ASSUME NEW k \in DOMAIN q, b < k, d \in q[k].tickets
              PROVE  \E i \in DOMAIN rest : b - 1 < i /\ d \in rest[i].tickets
            <4>1. k - 1 \in DOMAIN rest /\ b - 1 < k - 1 /\ rest[k - 1] = q[k]
                BY <1>1, <1>4, <1>6, <3>3
            <4> QED BY <3>3, <4>1
        <3> QED BY <3>1, <3>2, <3>3
    <2>5. CASE b = 1
        BY <1>1, <1>4, <2>1, <2>2, <2>3, <2>4, <2>5 DEF Sends, rest
    <2>6. CASE b # 1
        <3>1. b - 1 \in DOMAIN rest /\ rest[b - 1] = q[b] /\ b - 1 # 0
            BY <1>1, <1>4, <1>6, <2>6
        <3> QED BY <1>4, <1>6, <2>1, <2>2, <2>3, <2>4, <3>1 DEF Sends, rest
    <2> QED BY <2>5, <2>6
<1>7. CASE b = 0 /\ Len(q) = 1
    <2>1. /\ q[1].type = "commit" /\ q[1].session = s /\ q[1].tickets = {} /\ rest = <<>>
          /\ \A i \in DOMAIN q : i = 1
        BY <1>1, <1>2, <1>3, <1>4, <1>7 DEF Sequenced
    <2>2. \A d \in Subscribers : d \in D <=> d \in taken
        BY <1>1, <1>4, <1>7, <2>1
    <2> QED BY <1>1, <2>1, <2>2 DEF rest
<1>8. CASE b = 0 /\ Len(q) # 1
    <2>1. q[1].type = "ticket"
        BY <1>1, <1>4, <1>8
    <2>2. 0 < Len(rest) /\ rest[Len(rest)].type = "commit" /\ rest[Len(rest)].session = s
        BY <1>2, <1>4, <1>5, <1>8
    <2>3. ASSUME NEW i \in DOMAIN rest, i # Len(rest) PROVE rest[i].type = "ticket"
        <3>1. i + 1 \in DOMAIN q /\ 0 < i + 1 /\ i + 1 # Len(q) /\ rest[i] = q[i + 1]
            BY <1>1, <1>2, <1>3, <2>3
        <3> QED BY <1>4, <1>8, <3>1
    <2>4. ASSUME NEW d \in Subscribers
          PROVE  d \in D <=> d \in taken \cup q[1].tickets \/ \E i \in DOMAIN rest : 0 < i /\ d \in rest[i].tickets
        <3>1. d \in D <=> d \in taken \/ \E i \in DOMAIN q : 0 < i /\ d \in q[i].tickets
            BY <1>4, <1>8
        <3>2. ASSUME NEW i \in DOMAIN rest, d \in rest[i].tickets
              PROVE  \E k \in DOMAIN q : 0 < k /\ d \in q[k].tickets
            <4>1. i + 1 \in DOMAIN q /\ 0 < i + 1 /\ rest[i] = q[i + 1]
                BY <1>1, <1>2
            <4> QED BY <3>2, <4>1
        <3>3. ASSUME NEW k \in DOMAIN q, d \in q[k].tickets, k # 1
              PROVE  \E i \in DOMAIN rest : 0 < i /\ d \in rest[i].tickets
            <4>1. k - 1 \in DOMAIN rest /\ 0 < k - 1 /\ rest[k - 1] = q[k]
                BY <1>1, <3>3
            <4> QED BY <3>3, <4>1
        <3> QED BY <1>1, <3>1, <3>2, <3>3
    <2>5. Sends(rest, 0, s, D, taken \cup q[1].tickets)
        BY <2>2, <2>3, <2>4 DEF Sends
    <2> QED BY <1>1, <2>1, <2>5 DEF rest
<1> QED BY <1>6, <1>7, <1>8

LEMMA EndsTaken ==
    ASSUME NEW q \in Seq(LinkMessages), q # <<>>, NEW s, Ends(q, s)
    PROVE  Ends(Tail(q), s) \/ (Tail(q) = <<>> /\ Head(q).type = "disarm" /\ Head(q).session = s)
<1> DEFINE rest == Tail(q)
<1>1. /\ rest \in Seq(LinkMessages) /\ DOMAIN q = 1..Len(q) /\ DOMAIN rest = 1..(Len(q) - 1) /\ Len(q) \in Nat
      /\ 1 \in DOMAIN q /\ Head(q) = q[1]
      /\ \A i \in DOMAIN q : i # 1 => i - 1 \in DOMAIN rest /\ rest[i - 1] = q[i]
    BY TakeFirst
<1>2. Len(rest) \in Nat /\ DOMAIN rest = 1..Len(rest) /\ (rest = <<>> <=> Len(rest) = 0)
    BY <1>1, LenProperties, EmptySeq
<1>3. Len(rest) = Len(q) - 1
    <2>1. Len(q) - 1 \in Nat
        BY <1>1
    <2> QED BY <1>1, <1>2, <2>1, SameLength
<1> HIDE DEF rest
<1>4. CASE Len(q) = 1
    BY <1>1, <1>2, <1>3, <1>4 DEF Ends, rest
<1>5. CASE Len(q) # 1
    <2>1. rest[Len(rest)] = q[Len(q)] /\ rest # <<>>
        BY <1>1, <1>2, <1>3, <1>5
    <2> QED BY <2>1 DEF Ends, rest
<1> QED BY <1>4, <1>5

\* What is left of the order when the first message is taken.
LEMMA OrderTaken ==
    ASSUME NEW q \in Seq(LinkMessages), q # <<>>, Sequenced(q)
    PROVE  /\ Sequenced(Tail(q))
           /\ Head(q).type = "ticket" => Tail(q) # <<>> /\ Tail(q)[1].type \in {"ticket", "commit"}
<1>1. /\ Tail(q) \in Seq(LinkMessages) /\ DOMAIN q = 1..Len(q) /\ DOMAIN Tail(q) = 1..(Len(q) - 1) /\ Len(q) \in Nat
      /\ 1 \in DOMAIN q /\ Head(q) = q[1]
      /\ \A i \in DOMAIN Tail(q) : i + 1 \in DOMAIN q /\ Tail(q)[i] = q[i + 1]
      /\ \A i \in DOMAIN q : i # 1 => i - 1 \in DOMAIN Tail(q) /\ Tail(q)[i - 1] = q[i]
    BY TakeFirst
<1>2. ASSUME NEW i \in DOMAIN Tail(q), Tail(q)[i].type = "ticket"
      PROVE  i + 1 \in DOMAIN Tail(q) /\ Tail(q)[i + 1].type \in {"ticket", "commit"}
    <2>1. i + 1 \in DOMAIN q /\ (i + 1) + 1 \in DOMAIN q /\ q[(i + 1) + 1].type \in {"ticket", "commit"}
        BY <1>1, <1>2 DEF Sequenced
    <2>2. (i + 1) + 1 # 1 /\ ((i + 1) + 1) - 1 = i + 1
        BY <1>1
    <2> QED BY <1>1, <2>1, <2>2
<1>3. Sequenced(Tail(q))
    BY <1>1, <1>2 DEF Sequenced
<1>4. ASSUME Head(q).type = "ticket" PROVE Tail(q) # <<>> /\ Tail(q)[1].type \in {"ticket", "commit"}
    <2>1. 1 + 1 \in DOMAIN q /\ q[1 + 1].type \in {"ticket", "commit"}
        BY <1>1, <1>4 DEF Sequenced
    <2>2. (1 + 1) - 1 = 1 /\ 1 + 1 # 1
        OBVIOUS
    <2>3. 1 \in DOMAIN Tail(q) /\ Tail(q)[1] = q[1 + 1]
        BY <1>1, <2>1, <2>2
    <2>4. DOMAIN <<>> = {}
        BY EmptySeq
    <2>5. Tail(q) # <<>>
        BY <2>3, <2>4
    <2> QED BY <2>1, <2>3, <2>5
<1> QED BY <1>3, <1>4


LEMMA LinkIInit == LinkInit => LinkIInv
<1> SUFFICES ASSUME LinkInit PROVE LinkIInv
    OBVIOUS
<1>1. <<>> \in Seq(LinkMessages) /\ DOMAIN <<>> = {}
    BY EmptySeq
<1>2. LinkTypeOK
    <2>1. /\ flights \in 0..MaxFlights /\ flight \in [armed : BOOLEAN, session : 0..flights]
          /\ flight.armed => flight.session # 0
        BY AgentLinkAssumption DEF LinkInit
    <2>2. opted \in Devoted /\ written \in Devoted /\ expired \in Devoted /\ losses \in Nat
        BY DEF LinkInit, Devoted
    <2>3. unsynced \in BOOLEAN /\ refused \in BOOLEAN /\ refresh \in BOOLEAN
        BY Zenon DEF LinkInit
    <2> QED BY <1>1, <2>1, <2>2, <2>3 DEF LinkInit, LinkTypeOK
<1>3. InOrder
    BY <1>1 DEF LinkInit, InOrder, Sequenced
<1> QED BY <1>2, <1>3 DEF LinkInit, LinkIInv, EntryFollows

\* Before the agent sends: the channel does not end among tickets, and where it is empty
\* no batch is open.
LEMMA ChannelComplete ==
    ASSUME LinkTypeOK, InOrder
    PROVE  /\ channel # <<>> => channel[Len(channel)].type # "ticket"
           /\ link = "open" /\ channel = <<>> => OpenTickets = {}
<1>1. channel \in Seq(LinkMessages) /\ Len(channel) \in Nat /\ DOMAIN channel = 1..Len(channel)
    BY LenProperties DEF LinkTypeOK
<1>2. ASSUME channel # <<>> PROVE channel[Len(channel)].type # "ticket"
    <2>1. Len(channel) \in DOMAIN channel /\ Len(channel) + 1 \notin DOMAIN channel
        BY <1>1, <1>2, EmptySeq
    <2> QED BY <2>1 DEF InOrder, Sequenced
<1>3. link = "open" /\ channel = <<>> => OpenBatch = {}
    BY DEF InOrder, LinkTypeOK
<1>4. OpenBatch = {} => OpenTickets = {}
    BY DEF OpenTickets
<1> QED BY <1>2, <1>3, <1>4

\* After a sending, what the relay was told last is the flight as it is now.
LEMMA SyncKeeps ==
    ASSUME LinkTypeOK, InOrder, link = "open" => refresh = flight.armed,
           NEW clearFirst \in BOOLEAN, Sync(opted', flight', clearFirst), UNCHANGED <<link, losses, seen, batches, entry>>,
           opted' \in Devoted, flight' \in [armed : BOOLEAN, session : 0..MaxFlights],
           flight'.armed => flight'.session # 0
    PROVE  /\ channel' \in Seq(LinkMessages) /\ InOrder' /\ EntryFollows'
           /\ unsynced' \in BOOLEAN /\ refused' \in BOOLEAN /\ refresh' \in BOOLEAN
           /\ link' = "open" => refresh' = flight'.armed
<1>1. /\ channel \in Seq(LinkMessages) /\ OpenBatch' = OpenBatch /\ OpenTickets' = OpenTickets
      /\ unsynced' \in BOOLEAN /\ refused' \in BOOLEAN /\ refresh' \in BOOLEAN
      /\ link' = "open" => refresh' = flight'.armed
    BY DEF LinkTypeOK, OpenBatch, OpenTickets, Sync
<1>2. CASE link # "open"
    <2>1. channel' = channel
        BY <1>2 DEF Sync
    <2> QED BY <1>1, <1>2, <2>1 DEF InOrder, EntryFollows
<1>3. CASE link = "open"
    <2> DEFINE m == Messages(opted', flight', clearFirst)
               s == flight'.session
    <2>1. channel' = channel \o m
        BY <1>3 DEF Sync
    <2>2. /\ m \in Seq(LinkMessages) /\ Sequenced(m)
          /\ \A i \in DOMAIN m : m[i].type # "hello"
          /\ s # 0 => IF flight'.armed /\ opted' # {}
                      THEN \E b \in Nat : Sends(m, b, s, opted', {})
                      ELSE Ends(m, s)
        BY WhatIsSent
    <2> HIDE DEF m, s
    <2>3. Sequenced(channel')
        BY <1>1, <2>1, <2>2, OrderJoined DEF InOrder
    <2>4. /\ channel' \in Seq(LinkMessages) /\ DOMAIN channel \subseteq DOMAIN channel'
          /\ \A i \in DOMAIN channel : channel'[i] = channel[i]
          /\ \A i \in DOMAIN channel' : i \in DOMAIN channel \/ \E k \in DOMAIN m : channel'[i] = m[k]
          /\ channel # <<>> => channel' # <<>> /\ 1 \in DOMAIN channel
        <3> DEFINE j == channel \o m
        <3>1. /\ j \in Seq(LinkMessages) /\ Len(channel) \in Nat /\ Len(m) \in Nat
              /\ DOMAIN channel = 1..Len(channel) /\ DOMAIN m = 1..Len(m) /\ DOMAIN j = 1..(Len(channel) + Len(m))
              /\ \A i \in 1..Len(channel) : j[i] = channel[i]
              /\ \A i \in 1..(Len(channel) + Len(m)) :
                    i > Len(channel) => i - Len(channel) \in 1..Len(m) /\ j[i] = m[i - Len(channel)]
            BY <1>1, <2>2, Behind
        <3>2. DOMAIN <<>> = {} /\ (channel # <<>> => Len(channel) # 0)
            <4>1. DOMAIN <<>> = {}
                BY EmptySeq
            <4>2. \A q \in Seq(LinkMessages) : q # <<>> => Len(q) # 0
                BY EmptySeq
            <4> QED BY <1>1, <4>1, <4>2, Zenon
        <3> HIDE DEF j
        <3>3. \A i \in DOMAIN j : i \in DOMAIN channel \/ \E k \in DOMAIN m : j[i] = m[k]
            BY <3>1
        <3>4. channel # <<>> => j # <<>> /\ 1 \in DOMAIN channel
            <4> SUFFICES ASSUME channel # <<>> PROVE j # <<>> /\ 1 \in DOMAIN channel
                OBVIOUS
            <4>1. 1 \in 1..Len(channel) /\ 1 \in 1..(Len(channel) + Len(m))
                BY <3>1, <3>2
            <4>2. 1 \in DOMAIN channel /\ DOMAIN j # {}
                BY <3>1, <4>1
            <4> QED BY <3>2, <4>2, Zenon
        <3>5. DOMAIN channel \subseteq DOMAIN j
            BY <3>1
        <3> QED BY <2>1, <3>1, <3>3, <3>4, <3>5 DEF j
    <2>5. InOrder'
        <3>1. \A i \in DOMAIN channel' : channel'[i].type = "hello" => i = 1 /\ seen # "current"
            BY <2>2, <2>4 DEF InOrder
        <3>2. link = "open" /\ seen # "current" => channel' # <<>> /\ channel'[1].type = "hello"
            BY <2>4 DEF InOrder
        <3>3. seen = "current" /\ OpenBatch # {} => channel' # <<>> /\ channel'[1].type \in {"ticket", "commit"}
            BY <2>4 DEF InOrder
        <3> QED BY <1>1, <1>3, <2>3, <3>1, <3>2, <3>3 DEF InOrder
    <2>6. ASSUME s # 0, flight'.armed, opted' # {} PROVE EntryFollows'
        <3>1. PICK b \in Nat : Sends(m, b, s, opted', {})
            BY <2>2, <2>6
        <3>2. Len(channel) + b \in 0..Len(channel') /\ Sends(channel', Len(channel) + b, s, opted', OpenTickets)
            BY <1>1, <1>3, <2>1, <2>2, <3>1, ChannelComplete, EndJoined
        <3>3. Covered' = opted'
            BY <2>6 DEF Covered
        <3> QED BY <1>1, <2>6, <3>2, <3>3 DEF EntryFollows, s
    <2>7. ASSUME s # 0, ~(flight'.armed /\ opted' # {}) PROVE EntryFollows'
        <3>1. Ends(channel', s)
            BY <1>1, <2>1, <2>2, <2>7, ChannelComplete, EndJoined
        <3>2. Covered' = {}
            BY <2>7 DEF Covered
        <3> QED BY <3>1, <3>2 DEF EntryFollows, s
    <2>8. s = 0 => EntryFollows'
        BY DEF EntryFollows, s
    <2> QED BY <1>1, <2>4, <2>5, <2>6, <2>7, <2>8
<1> QED BY <1>2, <1>3

\* A new connection announces the device and covers the flight.
LEMMA OpeningKeeps ==
    ASSUME LinkTypeOK, InOrder, LinkOpens
    PROVE  LinkTypeOK' /\ InOrder' /\ EntryFollows'
<1> DEFINE m == Messages(opted, flight, FALSE)
           s == flight.session
<1>1. /\ link' = "open" /\ channel' = <<Hello>> \o m /\ seen # "current" /\ refused' = FALSE
      /\ UNCHANGED <<opted, written, expired, flight, flights, losses, seen, batches, entry>>
      /\ refresh' = flight.armed /\ unsynced' = FALSE
    BY DEF LinkOpens, optVars, InOrder
<1>2. /\ flight \in [armed : BOOLEAN, session : 0..MaxFlights] /\ opted \in Devoted /\ (flight.armed => s # 0)
      /\ flight.armed \in BOOLEAN
    BY AgentLinkAssumption DEF LinkTypeOK
<1>3. /\ m \in Seq(LinkMessages) /\ Sequenced(m)
      /\ \A i \in DOMAIN m : m[i].type # "hello"
      /\ s # 0 => IF flight.armed /\ opted # {}
                  THEN \E b \in Nat : Sends(m, b, s, opted, {})
                  ELSE Ends(m, s)
    BY <1>2, WhatIsSent
<1> HIDE DEF m, s
<1>4. Hello \in LinkMessages /\ Hello.type = "hello" /\ Hello.session = 0 /\ Hello.tickets = {}
    BY AgentLinkAssumption DEF Hello, LinkMessages, Devoted
<1>5. /\ <<Hello>> \in Seq(LinkMessages) /\ Len(<<Hello>>) = 1 /\ <<Hello>>[1] = Hello /\ <<Hello>> # <<>>
      /\ DOMAIN <<Hello>> = {1}
    BY <1>4
<1>6. Sequenced(<<Hello>>)
    BY <1>4, <1>5 DEF Sequenced
<1>7. /\ channel' \in Seq(LinkMessages) /\ channel' # <<>> /\ channel'[1].type = "hello"
      /\ \A i \in DOMAIN channel' : channel'[i].type = "hello" => i = 1
    <2> DEFINE j == <<Hello>> \o m
    <2>1. /\ j \in Seq(LinkMessages) /\ Len(j) = 1 + Len(m) /\ Len(m) \in Nat /\ DOMAIN m = 1..Len(m)
          /\ DOMAIN j = 1..(1 + Len(m)) /\ j[1] = Hello
          /\ \A i \in 1..(1 + Len(m)) : i > 1 => i - 1 \in 1..Len(m) /\ j[i] = m[i - 1]
        <3>1. /\ j \in Seq(LinkMessages) /\ Len(j) = Len(<<Hello>>) + Len(m) /\ Len(m) \in Nat /\ DOMAIN m = 1..Len(m)
              /\ DOMAIN j = 1..(Len(<<Hello>>) + Len(m))
              /\ \A i \in 1..Len(<<Hello>>) : j[i] = <<Hello>>[i]
              /\ \A i \in 1..(Len(<<Hello>>) + Len(m)) :
                    i > Len(<<Hello>>) => i - Len(<<Hello>>) \in 1..Len(m) /\ j[i] = m[i - Len(<<Hello>>)]
            BY <1>3, <1>5, Behind
        <3> QED BY <1>5, <3>1
    <2> HIDE DEF j
    <2>2. \A i \in DOMAIN j : j[i].type = "hello" => i = 1
        BY <1>3, <2>1
    <2>3. j # <<>>
        BY <2>1, EmptySeq
    <2> QED BY <1>1, <1>4, <2>1, <2>2, <2>3 DEF j
<1>8. Sequenced(channel')
    BY <1>1, <1>3, <1>5, <1>6, OrderJoined
<1>9. InOrder'
    BY <1>1, <1>7, <1>8 DEF InOrder
<1>10. LinkTypeOK'
    BY <1>1, <1>2, <1>7 DEF LinkTypeOK
<1>11. ASSUME s # 0, flight.armed, opted # {} PROVE EntryFollows'
    <2>1. PICK b \in Nat : Sends(m, b, s, opted, {})
        BY <1>3, <1>11
    <2>2. Len(<<Hello>>) + b \in 0..Len(channel') /\ Sends(channel', Len(<<Hello>>) + b, s, opted, OpenTickets')
        BY <1>1, <1>3, <1>4, <1>5, <2>1, EndJoined
    <2>3. Covered' = opted /\ flight'.session = s /\ flight'.armed
        BY <1>1, <1>11 DEF Covered, s
    <2> QED BY <1>2, <2>2, <2>3 DEF EntryFollows
<1>12. ASSUME s # 0, ~(flight.armed /\ opted # {}) PROVE EntryFollows'
    <2>1. Ends(channel', s)
        BY <1>1, <1>3, <1>4, <1>5, <1>12, EndJoined
    <2>2. Covered' = {} /\ flight'.session = s
        BY <1>1, <1>12 DEF Covered, s
    <2> QED BY <2>1, <2>2 DEF EntryFollows
<1>13. s = 0 => EntryFollows'
    BY <1>1 DEF EntryFollows, s
<1> QED BY <1>9, <1>10, <1>11, <1>12, <1>13


\* Nothing is sent or taken, and what was asked for is still covered.
LEMMA EntryKept ==
    ASSUME EntryFollows, UNCHANGED <<link, channel, flight, entry>>, OpenTickets' = OpenTickets,
           unsynced => unsynced', refused => refused', Covered' \subseteq Covered, Covered \subseteq Covered' \cup expired',
           expired \subseteq expired'
    PROVE  EntryFollows'
<1> SUFFICES ASSUME link' = "open", ~unsynced', ~refused', flight'.session # 0
             PROVE  EntryFollows'
    BY DEF EntryFollows
<1>1. CASE /\ Covered = {}
           /\ \/ Ends(channel, flight.session)
              \/ channel = <<>> /\ (entry = NoEntry \/ entry.session # flight.session)
    BY <1>1 DEF EntryFollows
<1>2. ASSUME flight.armed, NEW D \in Devoted, Covered \subseteq D, D \subseteq Covered \cup expired,
             \/ \E b \in 0..Len(channel) : Sends(channel, b, flight.session, D, OpenTickets)
             \/ channel = <<>> /\ entry = [session |-> flight.session, tickets |-> D]
      PROVE  EntryFollows'
    <2>1. Covered' \subseteq D /\ D \subseteq Covered' \cup expired'
        BY <1>2
    <2> QED BY <1>2, <2>1 DEF EntryFollows
<1> QED BY <1>1, <1>2 DEF EntryFollows

\* The relay takes a message.
LEMMA TakingKeeps ==
    ASSUME LinkTypeOK, InOrder, EntryFollows, RelayTakes
    PROVE  LinkTypeOK' /\ InOrder' /\ EntryFollows'
<1> DEFINE m == Head(channel)
<1>1. /\ UNCHANGED <<opted, written, expired, unsynced, flight, flights, link, reconnect, refresh, losses>>
      /\ channel # <<>> /\ channel' = Tail(channel) /\ channel \in Seq(LinkMessages) /\ Sequenced(channel)
    BY DEF RelayTakes, agentVars, optVars, LinkTypeOK, InOrder
<1>2. /\ channel' \in Seq(LinkMessages) /\ m \in LinkMessages /\ m = channel[1] /\ 1 \in DOMAIN channel
      /\ DOMAIN channel' = 1..(Len(channel) - 1) /\ Len(channel) \in Nat
      /\ \A i \in DOMAIN channel' : i + 1 \in DOMAIN channel /\ channel'[i] = channel[i + 1]
    BY <1>1, TakeFirst
<1>3. /\ Sequenced(channel')
      /\ m.type = "ticket" => channel' # <<>> /\ channel'[1].type \in {"ticket", "commit"}
    BY <1>1, OrderTaken
<1>4. link = "open" /\ (seen # "current" <=> m.type = "hello")
    BY <1>1, <1>2 DEF InOrder
<1>5. \A i \in DOMAIN channel' : channel'[i].type # "hello"
    BY <1>1, <1>2 DEF InOrder
<1>6. OpenBatch # {} /\ seen = "current" => m.type \in {"ticket", "commit"}
    BY <1>1, <1>2 DEF InOrder
<1>7. (m.type = "hello" <=> m.session = 0) /\ (m.type # "ticket" => m.tickets = {}) /\ m.tickets \in Devoted
      /\ m.session \in 0..MaxFlights
    BY <1>1, <1>2 DEF Sequenced, LinkMessages
<1>8. \/ m.type = "hello" /\ TakeHello
      \/ m.type = "ticket" /\ TakeTicket(m)
      \/ m.type = "commit" /\ TakeCommit(m)
      \/ m.type = "disarm" /\ TakeDisarm(m)
    BY DEF RelayTakes
<1> HIDE DEF m
<1>9. OpenTickets \in Devoted
    BY DEF OpenTickets, OpenBatch, LinkTypeOK, Devoted
<1>10. seen' = "current" /\ refused' \in BOOLEAN /\ (refused => refused')
    BY <1>4, <1>8 DEF TakeHello, TakeTicket, TakeCommit, TakeDisarm, LinkTypeOK
<1>11. batches' \subseteq [open : BOOLEAN, tickets : Devoted, n : Nat]
    <2>1. CASE m.type = "hello" /\ TakeHello
        <3>1. ASSUME NEW b \in [open : BOOLEAN, tickets : Devoted, n : Nat]
              PROVE  [b EXCEPT !.open = FALSE] \in [open : BOOLEAN, tickets : Devoted, n : Nat]
            OBVIOUS
        <3>2. batches \subseteq [open : BOOLEAN, tickets : Devoted, n : Nat]
            BY DEF LinkTypeOK
        <3>3. batches' = {[b EXCEPT !.open = FALSE] : b \in batches}
            BY <2>1 DEF TakeHello
        <3> QED BY <3>1, <3>2, <3>3
    <2>2. CASE m.type = "ticket" /\ TakeTicket(m)
        <3>1. CASE OpenBatch # {}
            <4>1. batches' = {IF b.open THEN [b EXCEPT !.tickets = @ \cup m.tickets] ELSE b : b \in batches}
                BY <2>2, <3>1 DEF TakeTicket
            <4>2. \A b \in batches : b.tickets \cup m.tickets \in Devoted
                BY <1>7 DEF LinkTypeOK, Devoted
            <4> QED BY <4>1, <4>2 DEF LinkTypeOK
        <3>2. CASE OpenBatch = {}
            <4>1. batches' = batches \cup {[open |-> TRUE, tickets |-> m.tickets, n |-> losses]} \/ batches' = batches
                BY <2>2, <3>2 DEF TakeTicket
            <4>2. [open |-> TRUE, tickets |-> m.tickets, n |-> losses] \in [open : BOOLEAN, tickets : Devoted, n : Nat]
                BY <1>7 DEF LinkTypeOK
            <4> QED BY <4>1, <4>2 DEF LinkTypeOK
        <3> QED BY <3>1, <3>2
    <2>3. CASE m.type = "commit" /\ TakeCommit(m)
        BY <2>3 DEF TakeCommit, LinkTypeOK
    <2>4. CASE m.type = "disarm" /\ TakeDisarm(m)
        BY <2>4 DEF TakeDisarm, LinkTypeOK
    <2> QED BY <1>8, <2>1, <2>2, <2>3, <2>4
<1>12. entry' \in [session : 1..MaxFlights, tickets : Devoted] \cup {NoEntry}
    <2>1. CASE m.type = "commit" /\ TakeCommit(m)
        <3>1. m.session \in 1..MaxFlights
            BY <1>7, <2>1, AgentLinkAssumption
        <3>2. entry' = entry \/ entry' = [session |-> m.session, tickets |-> OpenTickets]
            BY <2>1 DEF TakeCommit, OpenTickets
        <3> QED BY <1>9, <3>1, <3>2 DEF LinkTypeOK
    <2>2. CASE entry' = entry \/ entry' = NoEntry
        BY <2>2 DEF LinkTypeOK
    <2> QED BY <1>8, <2>1, <2>2 DEF TakeHello, TakeTicket, TakeDisarm
<1>13. LinkTypeOK'
    BY <1>1, <1>2, <1>10, <1>11, <1>12 DEF LinkTypeOK
\* What is at the relay after each kind of message.
<1>14. /\ m.type \notin {"ticket"} => OpenTickets' = {} /\ OpenBatch' = {}
       /\ m.type = "ticket" => refused' \/ OpenTickets' = OpenTickets \cup m.tickets
    <2>1. CASE m.type = "hello" /\ TakeHello
        <3>1. OpenBatch' = {}
            BY <2>1 DEF TakeHello, OpenBatch, LinkTypeOK
        <3> QED BY <2>1, <3>1 DEF OpenTickets
    <2>2. CASE m.type = "ticket" /\ TakeTicket(m)
        <3>1. CASE OpenBatch # {}
            <4>1. batches' = {IF b.open THEN [b EXCEPT !.tickets = @ \cup m.tickets] ELSE b : b \in batches}
                BY <2>2, <3>1 DEF TakeTicket
            <4> DEFINE With(b) == [b EXCEPT !.tickets = @ \cup m.tickets]
            <4>2. OpenBatch' = {With(b) : b \in OpenBatch}
                BY <4>1 DEF OpenBatch, LinkTypeOK
            <4>3. \A b \in OpenBatch : With(b).tickets = b.tickets \cup m.tickets
                BY DEF OpenBatch, LinkTypeOK
            <4> HIDE DEF With
            <4>4. ASSUME NEW d PROVE d \in OpenTickets' <=> d \in OpenTickets \cup m.tickets
                <5>1. d \in OpenTickets' <=> \E b \in OpenBatch : d \in b.tickets \cup m.tickets
                    <6>1. d \in OpenTickets' <=> \E c \in OpenBatch' : d \in c.tickets
                        BY DEF OpenTickets
                    <6>2. \A c : c \in OpenBatch' <=> \E b \in OpenBatch : c = With(b)
                        BY <4>2
                    <6> QED BY <4>3, <6>1, <6>2
                <5>2. d \in OpenTickets <=> \E b \in OpenBatch : d \in b.tickets
                    BY DEF OpenTickets
                <5> QED BY <3>1, <5>1, <5>2
            <4>5. OpenTickets' = OpenTickets \cup m.tickets
                BY <4>4
            <4> QED BY <2>2, <4>5
        <3>2. CASE OpenBatch = {} /\ ~refused'
            <4>1. batches' = batches \cup {[open |-> TRUE, tickets |-> m.tickets, n |-> losses]} \/ refused'
                BY <2>2, <3>2 DEF TakeTicket
            <4>2. OpenBatch' = {[open |-> TRUE, tickets |-> m.tickets, n |-> losses]}
                BY <3>2, <4>1 DEF OpenBatch
            <4>3. OpenTickets' = m.tickets /\ OpenTickets = {}
                BY <3>2, <4>2 DEF OpenTickets
            <4> QED BY <2>2, <4>3
        <3> QED BY <2>2, <3>1, <3>2
    <2>3. CASE m.type = "commit" /\ TakeCommit(m)
        <3>1. OpenBatch' = {}
            BY <2>3 DEF TakeCommit, OpenBatch
        <3> QED BY <2>3, <3>1 DEF OpenTickets
    <2>4. CASE m.type = "disarm" /\ TakeDisarm(m)
        <3>1. OpenBatch = {}
            BY <1>4, <1>6, <2>4
        <3>2. OpenBatch' = {}
            BY <2>4, <3>1 DEF TakeDisarm, OpenBatch
        <3> QED BY <2>4, <3>2 DEF OpenTickets
    <2> QED BY <1>8, <2>1, <2>2, <2>3, <2>4
<1>15. InOrder'
    <2>1. OpenBatch' # {} => channel' # <<>> /\ channel'[1].type \in {"ticket", "commit"}
        BY <1>3, <1>14
    <2> QED BY <1>1, <1>3, <1>4, <1>5, <1>10, <2>1 DEF InOrder
<1>16. EntryFollows'
    <2> DEFINE s == flight.session
    <2> SUFFICES ASSUME ~unsynced, ~refused', s # 0 PROVE EntryFollows'
        BY <1>1 DEF EntryFollows
    <2>1. ~refused /\ Covered' = Covered /\ s' = s /\ flight'.armed = flight.armed /\ expired' = expired
        BY <1>1, <1>10 DEF Covered
    <2>2. CASE Covered = {} /\ Ends(channel, s)
        <3>1. Ends(channel', s) \/ (channel' = <<>> /\ m.type = "disarm" /\ m.session = s)
            BY <1>1, <2>2, EndsTaken DEF m
        <3>2. ASSUME m.type = "disarm", m.session = s PROVE entry' = NoEntry \/ entry'.session # s
            BY <1>8, <3>2 DEF TakeDisarm
        <3> QED BY <2>1, <2>2, <3>1, <3>2 DEF EntryFollows
    <2>3. ASSUME flight.armed, NEW D \in Devoted, Covered \subseteq D, D \subseteq Covered \cup expired,
                 NEW b \in 0..Len(channel), Sends(channel, b, s, D, OpenTickets)
          PROVE  EntryFollows'
        <3>1. SUFFICES \/ \E k \in 0..Len(channel') : Sends(channel', k, s, D, OpenTickets')
                       \/ channel' = <<>> /\ entry' = [session |-> s, tickets |-> D]
            BY <2>1, <2>3 DEF EntryFollows
        <3>2. 0 \in 0..Len(channel')
            BY <1>2, LenProperties
        <3>3. CASE b - 1 \in 0..Len(channel') /\ \A other : Sends(channel', b - 1, s, D, other)
            BY <3>3
        <3>4. CASE m.type # "ticket" /\ Sends(channel', 0, s, D, {})
            BY <1>14, <3>2, <3>4
        <3>5. CASE m.type = "ticket" /\ Sends(channel', 0, s, D, OpenTickets \cup m.tickets)
            BY <1>14, <3>2, <3>5
        <3>6. CASE /\ m.type = "commit" /\ m.session = s /\ channel' = <<>>
                   /\ \A d \in Subscribers : d \in D <=> d \in OpenTickets
            <4>1. D = OpenTickets
                BY <1>9, <3>6 DEF Devoted
            <4>2. entry' = [session |-> s, tickets |-> OpenTickets]
                BY <1>8, <3>6 DEF TakeCommit, OpenTickets
            <4> QED BY <3>6, <4>1, <4>2
        <3>7. \/ b - 1 \in 0..Len(channel') /\ \A other : Sends(channel', b - 1, s, D, other)
              \/ m.type # "ticket" /\ Sends(channel', 0, s, D, {})
              \/ m.type = "ticket" /\ Sends(channel', 0, s, D, OpenTickets \cup m.tickets)
              \/ /\ m.type = "commit" /\ m.session = s /\ channel' = <<>>
                 /\ \A d \in Subscribers : d \in D <=> d \in OpenTickets
            <4> HIDE DEF s
            <4>1. Sends(channel, b, s, D, OpenTickets)
                BY <2>3
            <4> QED BY <1>1, <4>1, SendsTaken DEF m
        <3> QED BY <3>3, <3>4, <3>5, <3>6, <3>7
    <2> QED BY <1>1, <1>4, <2>1, <2>2, <2>3 DEF EntryFollows
<1> QED BY <1>13, <1>15, <1>16

LEMMA LinkStep == LinkIInv /\ [LinkNext]_linkVars => LinkIInv'
<1> SUFFICES ASSUME LinkIInv, [LinkNext]_linkVars PROVE LinkIInv'
    OBVIOUS
<1>1. LinkTypeOK /\ InOrder /\ EntryFollows /\ (link = "open" => refresh = flight.armed)
    BY DEF LinkIInv
<1>2. /\ flight \in [armed : BOOLEAN, session : 0..MaxFlights] /\ (flight.armed => flight.session # 0)
      /\ flights \in 0..MaxFlights /\ MaxFlights \in Nat
    BY <1>1, AgentLinkAssumption DEF LinkTypeOK
<1>3. ASSUME UNCHANGED <<channel, seen, batches, link>> PROVE InOrder' /\ OpenTickets' = OpenTickets
    BY <1>1, <1>3 DEF InOrder, OpenBatch, OpenTickets
<1>4. ASSUME link' # "open", channel' = <<>>, seen' # "current" PROVE InOrder' /\ EntryFollows'
    <2>1. Sequenced(<<>>) /\ DOMAIN <<>> = {}
        BY EmptySeq DEF Sequenced
    <2> QED BY <1>4, <2>1 DEF InOrder, EntryFollows
<1>5. <<>> \in Seq(LinkMessages)
    BY EmptySeq
<1>6. ASSUME NEW group \in SUBSET Subscribers, OptIn(group) PROVE LinkIInv'
    <2>1. /\ opted' = group /\ opted' \in Devoted /\ expired' \in Devoted /\ Covered' \in Devoted
          /\ UNCHANGED <<flight, flights, link, reconnect, losses, seen, batches, entry>>
        BY <1>1, <1>6 DEF OptIn, LinkTypeOK, Devoted, Covered
    <2>2. CASE written' = group /\ Sync(group, flight, TRUE)
        <3>1. Sync(opted', flight', TRUE)
            BY <2>1, <2>2
        <3>2. /\ channel' \in Seq(LinkMessages) /\ InOrder' /\ EntryFollows'
              /\ unsynced' \in BOOLEAN /\ refused' \in BOOLEAN /\ refresh' \in BOOLEAN
              /\ link' = "open" => refresh' = flight'.armed
            BY <1>1, <1>2, <2>1, <3>1, SyncKeeps
        <3>3. written' \in Devoted
            BY <2>1, <2>2
        <3> QED BY <1>1, <2>1, <3>2, <3>3 DEF LinkTypeOK, LinkIInv
    <2>3. CASE unsynced' = TRUE /\ UNCHANGED <<written, channel, refresh, refused>>
        <3>1. EntryFollows'
            BY <2>3 DEF EntryFollows
        <3>2. unsynced' \in BOOLEAN
            BY <2>3, Zenon
        <3> QED BY <1>1, <1>3, <2>1, <2>3, <3>1, <3>2 DEF LinkTypeOK, LinkIInv
    <2> QED BY <1>6, <2>2, <2>3 DEF OptIn
<1>7. ASSUME NEW d \in Subscribers, Expires(d) PROVE LinkIInv'
    <2>1. /\ UNCHANGED <<unsynced, flight, flights, link, reconnect, refresh, losses, channel, seen, batches, entry, refused>>
          /\ opted' = opted \ {d} /\ expired' = expired \cup {d} /\ d \in opted
          /\ opted' \in Devoted /\ expired' \in Devoted /\ written' \in Devoted
        BY <1>1, <1>7 DEF Expires, relayVars, LinkTypeOK, Devoted
    <2>2. Covered' \subseteq Covered /\ Covered \subseteq Covered' \cup expired' /\ expired \subseteq expired'
        BY <2>1 DEF Covered
    <2>3. EntryFollows'
        BY <1>1, <1>3, <2>1, <2>2, EntryKept
    <2> QED BY <1>1, <1>3, <2>1, <2>3 DEF LinkTypeOK, LinkIInv
<1>8. CASE Arm
    <2>1. /\ flights' = flights + 1 /\ flights < MaxFlights /\ UNCHANGED <<opted, written, expired, link, reconnect, losses, seen, batches, entry>>
          /\ flight' = [armed |-> TRUE, session |-> flights + 1] /\ Sync(opted, flight', FALSE)
        BY <1>8 DEF Arm, optVars
    <2>2. /\ flights' \in 0..MaxFlights /\ flight' \in [armed : BOOLEAN, session : 0..flights']
          /\ flight' \in [armed : BOOLEAN, session : 0..MaxFlights] /\ flight'.session # 0
        BY <1>2, <2>1
    <2>3. opted' \in Devoted /\ Sync(opted', flight', FALSE)
        BY <1>1, <2>1 DEF LinkTypeOK
    <2>4. /\ channel' \in Seq(LinkMessages) /\ InOrder' /\ EntryFollows'
          /\ unsynced' \in BOOLEAN /\ refused' \in BOOLEAN /\ refresh' \in BOOLEAN
          /\ link' = "open" => refresh' = flight'.armed
        BY <1>1, <2>1, <2>2, <2>3, SyncKeeps
    <2> QED BY <1>1, <2>1, <2>2, <2>3, <2>4 DEF LinkTypeOK, LinkIInv
<1>9. CASE EndFlight
    <2>1. /\ UNCHANGED <<opted, written, expired, flights, link, reconnect, losses, seen, batches, entry>>
          /\ flight' = [flight EXCEPT !.armed = FALSE] /\ Sync(opted, flight', FALSE)
        BY <1>9 DEF EndFlight, optVars
    <2>2. /\ flight' \in [armed : BOOLEAN, session : 0..MaxFlights] /\ ~flight'.armed
          /\ flight' \in [armed : BOOLEAN, session : 0..flights]
        BY <1>1, <1>2, <2>1 DEF LinkTypeOK
    <2>3. opted' \in Devoted /\ Sync(opted', flight', FALSE)
        BY <1>1, <2>1 DEF LinkTypeOK
    <2>4. /\ channel' \in Seq(LinkMessages) /\ InOrder' /\ EntryFollows'
          /\ unsynced' \in BOOLEAN /\ refused' \in BOOLEAN /\ refresh' \in BOOLEAN
          /\ link' = "open" => refresh' = flight'.armed
        BY <1>1, <2>1, <2>2, <2>3, SyncKeeps
    <2> QED BY <1>1, <2>1, <2>2, <2>3, <2>4 DEF LinkTypeOK, LinkIInv
<1>10. CASE Refresh
    <2>1. /\ UNCHANGED <<opted, written, expired, flight, flights, link, reconnect, losses, seen, batches, entry>>
          /\ Sync(opted, flight, FALSE)
        BY <1>10 DEF Refresh, optVars
    <2>2. opted' \in Devoted /\ Sync(opted', flight', FALSE)
        BY <1>1, <2>1 DEF LinkTypeOK
    <2>3. /\ channel' \in Seq(LinkMessages) /\ InOrder' /\ EntryFollows'
          /\ unsynced' \in BOOLEAN /\ refused' \in BOOLEAN /\ refresh' \in BOOLEAN
          /\ link' = "open" => refresh' = flight'.armed
        BY <1>1, <1>2, <2>1, <2>2, SyncKeeps
    <2> QED BY <1>1, <2>1, <2>2, <2>3 DEF LinkTypeOK, LinkIInv
<1>11. CASE LinkOpens
    <2>1. refresh' = flight'.armed
        BY <1>11 DEF LinkOpens
    <2> QED BY <1>1, <1>11, <2>1, OpeningKeeps DEF LinkIInv
<1>12. ASSUME NEW state \in {"down", "ended"}, LinkCloses(state)
       PROVE  /\ InOrder' /\ EntryFollows' /\ channel' \in Seq(LinkMessages) /\ link' \in {"down", "open", "ended"}
              /\ seen' \in {"none", "old", "current"} /\ refresh' \in BOOLEAN /\ link' # "open"
    <2>1. /\ channel' = <<>> /\ link' = state /\ link' # "open" /\ seen' # "current"
          /\ seen' \in {"none", "old", "current"}
        BY <1>1, <1>12 DEF LinkCloses, LinkTypeOK
    <2>2. refresh' \in BOOLEAN
        BY <1>12, Zenon DEF LinkCloses
    <2> QED BY <1>4, <1>5, <2>1, <2>2
<1>13. CASE LinkLost
    <2>1. /\ UNCHANGED <<opted, written, expired, unsynced, flight, flights, batches, entry, refused>>
          /\ losses' = losses + 1 /\ LinkCloses("down")
        BY <1>13 DEF LinkLost, optVars
    <2>2. losses' \in Nat
        BY <1>1, <2>1 DEF LinkTypeOK
    <2> QED BY <1>1, <1>12, <2>1, <2>2 DEF LinkTypeOK, LinkIInv
<1>14. CASE UpdateRequired
    <2>1. /\ UNCHANGED <<opted, written, expired, unsynced, flight, flights, batches, entry, refused, losses>>
          /\ LinkCloses("ended")
        BY <1>14 DEF UpdateRequired, optVars
    <2> QED BY <1>1, <1>12, <2>1 DEF LinkTypeOK, LinkIInv
<1>15. CASE AgentRestarts
    <2>1. /\ UNCHANGED <<written, flights, batches, entry, refused>>
          /\ losses' = losses + 1 /\ LinkCloses("down")
          /\ opted' = written /\ expired' = expired \ written /\ unsynced' = FALSE
          /\ flight' = [armed |-> FALSE, session |-> 0]
        BY <1>15 DEF AgentRestarts
    <2>2. losses' \in Nat /\ opted' \in Devoted /\ expired' \in Devoted
        BY <1>1, <2>1 DEF LinkTypeOK, Devoted
    <2>3. flight' \in [armed : BOOLEAN, session : 0..flights'] /\ ~flight'.armed
        BY <1>2, <2>1
    <2>4. unsynced' \in BOOLEAN
        BY <2>1, Zenon
    <2> QED BY <1>1, <1>12, <2>1, <2>2, <2>3, <2>4 DEF LinkTypeOK, LinkIInv
<1>16. CASE RelayTakes
    <2>1. UNCHANGED <<link, refresh, flight>>
        BY <1>16 DEF RelayTakes, agentVars
    <2> QED BY <1>1, <1>16, <2>1, TakingKeeps DEF LinkIInv
<1>17. CASE BatchAges
    <2>1. /\ UNCHANGED <<opted, written, expired, unsynced, flight, flights, link, reconnect, refresh, losses, channel, seen, entry, refused>>
          /\ batches' \subseteq batches /\ OpenBatch' = OpenBatch
        BY <1>17 DEF BatchAges, agentVars, optVars, OpenBatch
    <2>2. OpenTickets' = OpenTickets /\ Covered' = Covered
        BY <2>1 DEF OpenTickets, Covered
    <2>3. InOrder'
        BY <1>1, <2>1 DEF InOrder
    <2>4. EntryFollows'
        BY <1>1, <2>1, <2>2, EntryKept
    <2> QED BY <1>1, <2>1, <2>3, <2>4 DEF LinkTypeOK, LinkIInv
<1>18. CASE RelayNotices
    <2>1. /\ UNCHANGED <<opted, written, expired, unsynced, flight, flights, link, reconnect, refresh, losses, channel, entry, refused, batches>>
          /\ seen = "old" /\ seen' = "none"
        BY <1>18 DEF RelayNotices, agentVars, optVars
    <2>2. OpenTickets' = OpenTickets /\ Covered' = Covered
        BY <2>1 DEF OpenTickets, OpenBatch, Covered
    <2>3. InOrder'
        BY <1>1, <2>1 DEF InOrder
    <2>4. EntryFollows'
        BY <1>1, <2>1, <2>2, EntryKept
    <2> QED BY <1>1, <2>1, <2>3, <2>4 DEF LinkTypeOK, LinkIInv
<1>19. CASE RelayFires
    <2>1. /\ UNCHANGED <<opted, written, expired, unsynced, flight, flights, link, reconnect, refresh, losses, channel, seen, refused, batches>>
          /\ seen = "none" /\ entry' = NoEntry
        BY <1>19 DEF RelayFires, agentVars, optVars
    <2>2. OpenTickets' = OpenTickets /\ Covered' = Covered
        BY <2>1 DEF OpenTickets, OpenBatch, Covered
    <2>3. link = "open" => channel # <<>>
        BY <1>1, <2>1 DEF InOrder
    <2>4. EntryFollows'
        BY <1>1, <2>1, <2>2, <2>3 DEF EntryFollows
    <2> QED BY <1>1, <1>3, <2>1, <2>4 DEF LinkTypeOK, LinkIInv
<1>20. CASE RelayRestarts
    <2>1. /\ UNCHANGED <<opted, written, expired, unsynced, flight, flights>>
          /\ losses' = losses + 1 /\ link' = "down" /\ channel' = <<>> /\ refresh' = FALSE
          /\ seen' = "none" /\ batches' = {} /\ entry' = NoEntry /\ refused' = FALSE
        BY <1>20 DEF RelayRestarts, optVars
    <2>2. losses' \in Nat
        BY <1>1, <2>1 DEF LinkTypeOK
    <2>3. refused' \in BOOLEAN /\ refresh' \in BOOLEAN
        BY <2>1, Zenon
    <2> QED BY <1>1, <1>4, <1>5, <2>1, <2>2, <2>3 DEF LinkTypeOK, LinkIInv
<1>21. CASE UNCHANGED linkVars
    <2>1. UNCHANGED <<opted, written, expired, unsynced, flight, flights, link, reconnect, refresh, losses, channel, seen, entry, refused, batches>>
        BY <1>21 DEF linkVars, agentVars, relayVars, optVars
    <2>2. OpenTickets' = OpenTickets /\ Covered' = Covered
        BY <2>1 DEF OpenTickets, OpenBatch, Covered
    <2>3. EntryFollows'
        BY <1>1, <2>1, <2>2, EntryKept
    <2> QED BY <1>1, <1>3, <2>1, <2>3 DEF LinkTypeOK, LinkIInv
<1> QED BY <1>6, <1>7, <1>8, <1>9, <1>10, <1>11, <1>13, <1>14, <1>15, <1>16, <1>17, <1>18, <1>19, <1>20, <1>21
        DEF LinkNext, LocalAgentStep, RelayStep

\* When all has arrived, the relay's entry covers the devices that opted in, and no other
\* but those whose endpoint was gone.
THEOREM EntryMatchesFlight == LinkSpec => []RelayMatchesAgent
<1>1. LinkIInv => RelayMatchesAgent
    <2> SUFFICES ASSUME LinkIInv, Quiet
                 PROVE  /\ Covered # {} => /\ refresh
                                           /\ entry # NoEntry /\ entry.session = flight.session
                                           /\ Covered \subseteq entry.tickets
                        /\ (entry # NoEntry /\ entry.session = flight.session) =>
                               entry.tickets \subseteq Covered \cup expired
        BY DEF RelayMatchesAgent, Covered
    <2>1. link = "open" /\ channel = <<>> /\ ~unsynced /\ ~refused /\ LinkTypeOK /\ EntryFollows /\ refresh = flight.armed
        BY DEF LinkIInv, Quiet
    <2>2. Len(channel) = 0 /\ \A s : ~Ends(channel, s)
        BY <2>1, EmptySeq DEF Ends
    <2>3. \A b, s, D, taken : ~Sends(channel, b, s, D, taken)
        BY <2>2 DEF Sends
    <2>4. CASE flight.session = 0
        <3>1. Covered = {} /\ (entry = NoEntry \/ entry.session # 0)
            BY <2>1, <2>4, AgentLinkAssumption DEF LinkTypeOK, Covered
        <3> QED BY <2>4, <3>1
    <2>5. CASE flight.session # 0 /\ Covered = {} /\ (entry = NoEntry \/ entry.session # flight.session)
        BY <2>5
    <2>6. ASSUME flight.armed, NEW D \in Devoted, Covered \subseteq D, D \subseteq Covered \cup expired,
                 entry = [session |-> flight.session, tickets |-> D], flight.session # 0
          PROVE  /\ refresh /\ entry # NoEntry /\ entry.session = flight.session
                 /\ Covered \subseteq entry.tickets /\ entry.tickets \subseteq Covered \cup expired
        <3>1. flight.session \in 1..MaxFlights
            BY <2>1, <2>6, AgentLinkAssumption DEF LinkTypeOK
        <3>2. entry # NoEntry
            BY <2>6, <3>1, AgentLinkAssumption DEF Devoted
        <3> QED BY <2>1, <2>6, <3>2
    <2> QED BY <2>1, <2>2, <2>3, <2>4, <2>5, <2>6 DEF EntryFollows
<1> QED BY LinkIInit, LinkStep, <1>1, PTL DEF LinkSpec


-----------------------------------------------------------------------------
(***************************************************************************)
(* RemoteCommands                                                          *)
(***************************************************************************)
\* Values of different kinds differ.
LEMMA Kinds ==
    /\ \A f : Object(f).tag = "object" /\ Object(f).fields = f
    /\ \A f : Object(f) # Refusal /\ Object(f) # Null /\ Object(f) # Bad
    /\ \A l : Items(l).tag = "list" /\ Items(l).items = l
    /\ \A l : Items(l) # Refusal /\ Items(l) # Null /\ Items(l) # Bad
    /\ Null # Refusal /\ Null # Bad /\ Empty # Bad /\ True # False
    /\ \A v : v.tag = "object" => v # Refusal /\ v # Null /\ v # Bad
    /\ \A v : IsGood(v) => v # Bad /\ v # Refusal /\ v # Null
    /\ \A x : IsGood(Good(x))
    /\ IsGood(Com(1)) /\ IsGood(Com(2))
<1>1. /\ \A f : Object(f).tag = "object" /\ Object(f).fields = f
      /\ \A l : Items(l).tag = "list" /\ Items(l).items = l
    BY DEF Object, Items
<1>2. /\ Refusal.tag = "refused" /\ Null.tag = "null"
      /\ Bad.tag = "text" /\ Bad.class = "bad" /\ Empty.tag = "text" /\ Empty.class = "empty"
    BY DEF Refusal, Null, Bad, Empty, Text
<1>3. \A x : Good(x).tag = "text" /\ Good(x).class = "good" /\ Good(x).value = x
    BY DEF Good, Text
<1>4. True.value = "true" /\ False.value = "false" /\ IsGood(Com(1)) /\ IsGood(Com(2))
    BY <1>3 DEF True, False, Com, IsGood
<1>5. True # False
    BY <1>4
<1> QED BY <1>1, <1>2, <1>3, <1>4, <1>5 DEF IsGood

\* A payload that has only known fields and none that is bad.
Clean(v) == v.tag = "object" /\ \A n \in DOMAIN v.fields : v.fields[n] # Bad /\ n # "unknown"

LEMMA ShapesAreKnown ==
    ASSUME NEW t \in ShapedTypes PROVE "unknown" \notin ShapeOf[t].req \cup ShapeOf[t].opt
BY DEF ShapeOf, ShapedTypes, BareTypes, Shape, ChatShape

LEMMA ShapeIsKept ==
    ASSUME NEW v, NEW s, RequireShape(v, s) # Refusal
    PROVE  /\ RequireShape(v, s) = v /\ v.tag = "object"
           /\ DOMAIN v.fields \subseteq s.req \cup s.opt /\ s.req \subseteq DOMAIN v.fields
           /\ \A n \in DOMAIN v.fields : v.fields[n] # Bad
BY Kinds DEF RequireShape, Only, NoneBad

LEMMA ShapedIsClean ==
    ASSUME NEW t \in ShapedTypes, NEW v, RequireShape(v, ShapeOf[t]) # Refusal
    PROVE  RequireShape(v, ShapeOf[t]) = v /\ Clean(v)
BY ShapesAreKnown, ShapeIsKept DEF Clean

\* The items of a list that passes.
LEMMA ItemsPass ==
    ASSUME NEW v, NEW results, EachItem(v, results) # Refusal
    PROVE  EachItem(v, results) = Items(results) /\ \A i \in DOMAIN results : results[i] # Refusal
BY DEF EachItem, ToSet

\* The validators of payloads that are not flat, for any value.
LEMMA HistoryIsClean ==
    ASSUME NEW v, ValidateChatHistory(v) # Refusal PROVE Clean(ValidateChatHistory(v))
<1> DEFINE list == v.fields["messages"]
           results == [i \in DOMAIN list.items |-> RequireShape(list.items[i], ChatShape)]
           messages == EachItem(list, results)
<1>1. messages # Refusal /\ ValidateChatHistory(v) = Object(Field("messages", messages))
    BY DEF ValidateChatHistory
<1>2. messages = Items(results)
    BY <1>1, ItemsPass
<1> HIDE DEF messages
<1>3. DOMAIN Field("messages", messages) = {"messages"} /\ Field("messages", messages)["messages"] = messages
    BY DEF Field
<1> QED BY <1>1, <1>2, <1>3, Kinds DEF Clean

LEMMA TimerIsWhole ==
    ASSUME NEW v, ValidateUnicomTimerState(v) # Refusal
    PROVE  /\ ValidateUnicomTimerState(v) = v /\ Clean(v)
           /\ v.fields["active"] = False <=> "startedAt" \notin DOMAIN v.fields
<1>1. /\ ValidateUnicomTimerState(v) = v /\ v.tag = "object" /\ "active" \in DOMAIN v.fields
      /\ DOMAIN v.fields \subseteq {"active", "startedAt", "expiresAt"}
      /\ \/ v.fields["active"] = False /\ DOMAIN v.fields = {"active"}
         \/ v.fields["active"] = True /\ AllGood(v, {"startedAt", "expiresAt"})
    BY DEF ValidateUnicomTimerState, Only, Has
<1>2. True # Bad /\ False # Bad
    BY Kinds DEF True, False
<1> QED BY <1>1, <1>2, Kinds DEF Clean, AllGood, Has

LEMMA TicketIsClean ==
    ASSUME NEW v, ValidateAgentWatchdogTicket(v) # Refusal
    PROVE  ValidateAgentWatchdogTicket(v) = v /\ Clean(v)
<1>1. /\ ValidateAgentWatchdogTicket(v) = v /\ v.tag = "object"
      /\ DOMAIN v.fields \subseteq {"sessionId", "batchId", "ticket"}
      /\ AllGood(v, {"sessionId", "batchId"}) /\ RequireShape(v.fields["ticket"], TicketShape) # Refusal
    BY DEF ValidateAgentWatchdogTicket, Only
<1>2. v.fields["ticket"].tag = "object"
    BY <1>1, ShapeIsKept
<1>3. \A n \in DOMAIN v.fields : n = "ticket" \/ IsGood(v.fields[n])
    BY <1>1 DEF AllGood
<1> QED BY <1>1, <1>2, <1>3, Kinds DEF Clean

LEMMA StationIsNamed ==
    ASSUME NEW s, NormalizeStationSnapshot(s) # Refusal
    PROVE  {"callsign", "freq"} \subseteq DOMAIN NormalizeStationSnapshot(s).fields
<1>1. /\ NormalizeStationSnapshot(s) = Object(Field("freq", Or(s, "freq", Empty)) ++ s.fields)
      /\ "callsign" \in DOMAIN s.fields
    BY DEF NormalizeStationSnapshot, AllGood, Has
<1>2. DOMAIN (Field("freq", Or(s, "freq", Empty)) ++ s.fields) = {"freq"} \cup DOMAIN s.fields
    BY DEF ++, Field
<1> QED BY <1>1, <1>2, Kinds

LEMMA StationsAreNamed ==
    ASSUME NEW v, ValidateStationsState(v) # Refusal
    PROVE  /\ Clean(ValidateStationsState(v))
           /\ \A s \in ToSet(ValidateStationsState(v).fields["stations"].items) :
                  {"callsign", "freq"} \subseteq DOMAIN s.fields
<1> DEFINE list == v.fields["stations"]
           results == [i \in DOMAIN list.items |-> NormalizeStationSnapshot(list.items[i])]
           stations == EachItem(list, results)
           own == IF Has(v, "ownPosition") THEN v.fields["ownPosition"] ELSE Null
           place == Object([n \in {"lat", "lon"} |-> own.fields[n]])
           alone == Field("stations", stations)
           both == Field("stations", stations) ++ Field("ownPosition", place)
<1>1. /\ stations # Refusal
      /\ ValidateStationsState(v) = Object(alone) \/ ValidateStationsState(v) = Object(both)
    BY DEF ValidateStationsState
<1>2. stations = Items(results) /\ \A i \in DOMAIN results : results[i] # Refusal
    BY <1>1, ItemsPass
<1>3. \A i \in DOMAIN results : {"callsign", "freq"} \subseteq DOMAIN results[i].fields
    BY <1>2, StationIsNamed
<1>4. stations # Bad /\ place # Bad /\ stations.items = results
    BY <1>2, Kinds
<1> HIDE DEF stations, place, results
<1>5. DOMAIN alone = {"stations"} /\ alone["stations"] = stations
    BY DEF Field
<1>6. /\ DOMAIN both = {"stations", "ownPosition"} /\ both["stations"] = stations
      /\ both["ownPosition"] = place
    BY DEF ++, Field
<1> HIDE DEF alone, both
<1>7. PICK f \in {alone, both} : ValidateStationsState(v) = Object(f)
    BY <1>1
<1>8. /\ ValidateStationsState(v).tag = "object" /\ ValidateStationsState(v).fields = f
      /\ f["stations"] = stations /\ \A n \in DOMAIN f : f[n] # Bad /\ n # "unknown"
    BY <1>4, <1>5, <1>6, <1>7, Kinds
<1> QED BY <1>3, <1>4, <1>8 DEF Clean, ToSet

LEMMA PlanIsWhole ==
    ASSUME NEW v, NormalizeFlightPlanSnapshot(v) # Refusal
    PROVE  /\ NormalizeFlightPlanSnapshot(v).tag = "object"
           /\ DOMAIN NormalizeFlightPlanSnapshot(v).fields = {"departure", "destination", "alternate"}
BY Kinds DEF NormalizeFlightPlanSnapshot

LEMMA EntryIsWhole ==
    ASSUME NEW v, NormalizeWeatherEntry(v) # Refusal PROVE WholeEntry(NormalizeWeatherEntry(v))
BY Kinds DEF NormalizeWeatherEntry, WholeEntry

LEMMA SlotIsWhole ==
    ASSUME NEW v, NormalizeWeatherSlot(v) # Refusal PROVE WholeSlot(NormalizeWeatherSlot(v))
<1> DEFINE entries == [n \in {"metar", "taf"} |-> NormalizeWeatherEntry(Or(v, n, Null))]
           slot == Field("icao", Or(v, "icao", Empty)) ++ entries
<1>1. /\ NormalizeWeatherSlot(v) = Object(slot)
      /\ entries["metar"] # Refusal /\ entries["taf"] # Refusal
    BY DEF NormalizeWeatherSlot
<1>2. WholeEntry(entries["metar"]) /\ WholeEntry(entries["taf"])
    BY <1>1, EntryIsWhole
<1>3. DOMAIN entries = {"metar", "taf"}
    OBVIOUS
<1> HIDE DEF entries
<1>4. /\ DOMAIN slot = {"icao", "metar", "taf"}
      /\ slot["metar"] = entries["metar"] /\ slot["taf"] = entries["taf"]
    BY <1>3 DEF ++, Field
<1> QED BY <1>1, <1>2, <1>4, Kinds DEF WholeSlot

LEMMA SnapshotIsWhole ==
    ASSUME NEW v, NormalizeWeatherSnapshot(v) # Refusal
    PROVE  /\ NormalizeWeatherSnapshot(v).tag = "object"
           /\ \A n \in {"departure", "destination"} : WholeSlot(NormalizeWeatherSnapshot(v).fields[n])
<1> DEFINE slots == [n \in {"departure", "destination"} |-> NormalizeWeatherSlot(Or(v, n, Object(NoFields)))]
<1>1. NormalizeWeatherSnapshot(v) = Object(slots) /\ \A n \in {"departure", "destination"} : slots[n] # Refusal
    BY DEF NormalizeWeatherSnapshot
<1>2. \A n \in {"departure", "destination"} : WholeSlot(slots[n])
    BY <1>1, SlotIsWhole
<1> HIDE DEF slots
<1> QED BY <1>1, <1>2, Kinds

LEMMA WeatherIsWhole ==
    ASSUME NEW v, ValidateWeatherState(v) # Refusal
    PROVE  /\ Clean(ValidateWeatherState(v))
           /\ DOMAIN ValidateWeatherState(v).fields["flightPlan"].fields = {"departure", "destination", "alternate"}
           /\ \A n \in {"departure", "destination"} :
                  WholeSlot(ValidateWeatherState(v).fields["weatherState"].fields[n])
<1> DEFINE flightPlan == NormalizeFlightPlanSnapshot(Or(v, "flightPlan", Object(NoFields)))
           weather == NormalizeWeatherSnapshot(Or(v, "weatherState", Object(NoFields)))
           standing == v.fields["flightPlanStatus"]
           state3 == Field("flightPlanStatus", standing) ++ Field("flightPlan", flightPlan) ++ Field("weatherState", weather)
<1>1. /\ ValidateWeatherState(v) = Object(state3) /\ flightPlan # Refusal /\ weather # Refusal
      /\ IsGood(standing)
    BY DEF ValidateWeatherState, AllGood
<1>2. flightPlan.tag = "object" /\ DOMAIN flightPlan.fields = {"departure", "destination", "alternate"}
    BY <1>1, PlanIsWhole
<1>3. weather.tag = "object" /\ \A n \in {"departure", "destination"} : WholeSlot(weather.fields[n])
    BY <1>1, SnapshotIsWhole
<1> HIDE DEF flightPlan, weather, standing
<1>4. /\ DOMAIN state3 = {"flightPlanStatus", "flightPlan", "weatherState"}
      /\ state3["flightPlanStatus"] = standing /\ state3["flightPlan"] = flightPlan
      /\ state3["weatherState"] = weather
    BY DEF ++, Field
<1> HIDE DEF state3
<1>5. /\ ValidateWeatherState(v).fields = state3 /\ ValidateWeatherState(v).tag = "object"
    BY <1>1, Kinds
<1>6. standing # Bad /\ flightPlan # Bad /\ weather # Bad
    BY <1>1, <1>2, <1>3, Kinds
<1>7. Clean(ValidateWeatherState(v))
    BY <1>4, <1>5, <1>6 DEF Clean
<1> QED BY <1>2, <1>3, <1>4, <1>5, <1>7

\* Whatever the relay lets pass is whole and has nothing bad or unknown in it, for any
\* message of a known type.
LEMMA PayloadIsUsable ==
    ASSUME NEW type \in Types, NEW v, ValidatePayload(type, v) # Refusal
    PROVE  Clean(ValidatePayload(type, v)) /\ Whole(type, ValidatePayload(type, v).fields)
<1>1. /\ "stations.state" \notin ShapedTypes /\ "weather.state" \notin ShapedTypes
      /\ "chat.history" \notin ShapedTypes /\ "agent.watchdog.ticket" \notin ShapedTypes
      /\ "unicom.timer.state" \notin ShapedTypes
    BY DEF ShapedTypes, BareTypes
<1>2. type \in ShapedTypes \cup {"stations.state", "weather.state", "chat.history", "agent.watchdog.ticket",
                                 "unicom.timer.state"}
    BY DEF Types, AgentTypes, ShapedTypes
<1>3. CASE type \in ShapedTypes
    BY <1>1, <1>3, ShapedIsClean DEF ValidatePayload, Whole
<1>4. CASE type = "stations.state"
    BY <1>1, <1>4, StationsAreNamed DEF ValidatePayload, Whole
<1>5. CASE type = "weather.state"
    BY <1>1, <1>5, WeatherIsWhole DEF ValidatePayload, Whole
<1>6. CASE type = "chat.history"
    BY <1>1, <1>6, HistoryIsClean DEF ValidatePayload, Whole
<1>7. CASE type = "agent.watchdog.ticket"
    BY <1>1, <1>7, TicketIsClean DEF ValidatePayload, Whole
<1>8. CASE type = "unicom.timer.state"
    BY <1>1, <1>8, TimerIsWhole DEF ValidatePayload, Whole
<1> QED BY <1>2, <1>3, <1>4, <1>5, <1>6, <1>7, <1>8

\* A payload that RequireShape passes as it is.
Fits(type, f) ==
    /\ type \in ShapedTypes
    /\ DOMAIN f \subseteq ShapeOf[type].req \cup ShapeOf[type].opt
    /\ ShapeOf[type].req \subseteq DOMAIN f
    /\ \A n \in DOMAIN f : IsGood(f[n]) \/ (n \in ShapeOf[type].blank /\ f[n] = Empty)

\* What the page asks is carried by a message of the router's, the rules pass it unless
\* the local proxy would do nothing or put it right first, and the agent calls for it
\* what the local proxy calls.
Carried(a, type, f) ==
    /\ SendRemoteAction(a) = [type |-> type, source |-> "browser", payload |-> Object(f)]
    /\ type \in BrowserToAgentTypes \cup {"ping"} /\ type \in ShapedTypes
    /\ Fits(type, f) \/ HandleWebCommand(a) = NoCall \/ PutRight(a)
    /\ type # "ping" => HandleRemoteCommand(type, f) = HandleWebCommand(a)

SubscriptionFields == ShapeOf["notification.subscribe"].req \cup ShapeOf["notification.subscribe"].opt

LEMMA SubscriptionIsCarried ==
    ASSUME NEW a, a = Ask("notification_subscribe", Full(SubscriptionFields))
    PROVE  Carried(a, "notification.subscribe", a.fields)
<1>1. a.action = "notification_subscribe" /\ a.fields = Full(SubscriptionFields)
    BY DEF Ask
<1>2. DOMAIN a.fields = SubscriptionFields /\ \A n \in SubscriptionFields : IsGood(a.fields[n])
    BY <1>1, Kinds DEF Full
<1>3. [n \in SubscriptionFields \cap SubscriptionFields |-> a.fields[n]] = a.fields
    BY <1>1 DEF Full
<1>4. SendRemoteAction(a) = [type |-> "notification.subscribe", source |-> "browser", payload |-> Object(a.fields)]
    BY <1>1, <1>2, <1>3 DEF SendRemoteAction
<1>5. "notification.subscribe" \in ShapedTypes \cap BrowserToAgentTypes
    BY DEF ShapedTypes, BrowserToAgentTypes
<1>6. Fits("notification.subscribe", a.fields)
    BY <1>2, <1>5 DEF Fits, SubscriptionFields
<1>7. HandleRemoteCommand("notification.subscribe", a.fields) = HandleWebCommand(a)
    BY <1>1 DEF HandleRemoteCommand, HandleWebCommand
<1> QED BY <1>4, <1>5, <1>6, <1>7 DEF Carried

LEMMA AsksAreCarried ==
    ASSUME NEW a \in Asks, SendRemoteAction(a) # NoMessage PROVE \E type, f : Carried(a, type, f)
<1>1. \A x : IsGood(Good(x))
    BY Kinds
<1> USE <1>1, Kinds DEF Carried, SendRemoteAction, HandleRemoteCommand, HandleWebCommand, Fits, ShapeOf, ShapedTypes,
        BareTypes, BrowserToAgentTypes, Shape, Ask, Full, Field, FieldOr, NoFields
<1>2. a = Ask("ping", NoFields) => Carried(a, "ping", a.fields)
    OBVIOUS
<1>3. a = Ask("unicom_timer_start", NoFields) => Carried(a, "unicom.timer.start", a.fields)
    OBVIOUS
<1>4. a = Ask("unicom_timer_cancel", NoFields) => Carried(a, "unicom.timer.cancel", a.fields)
    OBVIOUS
<1>5. a = Ask("sim_ident", NoFields) => Carried(a, "xpdr.ident", a.fields)
    OBVIOUS
<1>6. a = Ask("voice_tx_stop", NoFields) => Carried(a, "tx.stop", a.fields)
    OBVIOUS
<1>7. a = Ask("weather_request", Full({"kind", "icao"})) => Carried(a, "weather.request", a.fields)
    OBVIOUS
<1>8. a = Ask("weather_request", Full({"kind", "icao", "source", "role"})) => Carried(a, "weather.request", a.fields)
    OBVIOUS
<1>9. a = Ask("voice_tx_start", Field("com", Com(1))) => Carried(a, "tx.start", a.fields)
    OBVIOUS
<1>10. a = Ask("voice_tx_start", Field("com", Com(2))) => Carried(a, "tx.start", a.fields)
    OBVIOUS
<1>11. ASSUME NEW g \in [recipient : {Good("recipient"), Loose("recipient"), Bad}, text : {Good("text"), Loose("text")}],
              a = Ask("send_message", g)
       PROVE  Carried(a, "chat.send", a.fields)
    <2>1. /\ a.action = "send_message" /\ a.fields = g /\ DOMAIN g = {"recipient", "text"}
          /\ g["recipient"] \in {Good("recipient"), Loose("recipient"), Bad}
          /\ g["text"] \in {Good("text"), Loose("text")}
        BY <1>11
    <2>2. SendRemoteAction(a) = [type |-> "chat.send", source |-> "browser", payload |-> Object(g)]
        <3>1. [n \in {"recipient", "text"} \cap DOMAIN g |-> g[n]] = g
            BY <2>1
        <3> QED BY <2>1, <3>1
    <2>3. HandleWebCommand(a) = SendChatCommand(g) /\ HandleRemoteCommand("chat.send", g) = SendChatCommand(g)
        BY <2>1
    <2>4. CASE g["recipient"] = Good("recipient") /\ g["text"] = Good("text")
        <3>1. Fits("chat.send", g)
            BY <2>1, <2>4
        <3> QED BY <2>1, <2>2, <2>3, <3>1
    <2>5. CASE g["recipient"] = Bad
        <3>1. ~IsGood(Tidied(g["recipient"]))
            <4>1. Bad.class = "bad" /\ ~IsGood(Bad)
                BY DEF Bad, Text, IsGood
            <4>2. Tidied(Bad) = Bad
                BY <4>1 DEF Tidied
            <4> QED BY <2>5, <4>1, <4>2
        <3>2. HandleWebCommand(a) = NoCall
            BY <2>3, <3>1 DEF SendChatCommand
        <3> QED BY <2>1, <2>2, <2>3, <3>2
    <2>6. CASE g["recipient"] = Loose("recipient") \/ g["text"] = Loose("text")
        <3>1. PutRight(a)
            BY <2>1, <2>6 DEF PutRight, Loose, Text
        <3> QED BY <2>1, <2>2, <2>3, <3>1
    <2> QED BY <2>1, <2>4, <2>5, <2>6
<1>12. ASSUME NEW c \in {Good("callsign"), Bad}, a = Ask("atis_request", Field("callsign", c))
       PROVE  Carried(a, "atis.request", a.fields)
    <2>1. a.action = "atis_request" /\ DOMAIN a.fields = {"callsign"} /\ a.fields["callsign"] = c
        BY <1>12
    <2>2. SendRemoteAction(a) = [type |-> "atis.request", source |-> "browser", payload |-> Object(a.fields)]
        <3>1. [n \in {"callsign"} \cap DOMAIN a.fields |-> a.fields[n]] = a.fields
            BY <1>12, <2>1
        <3> QED BY <2>1, <3>1
    <2>3. /\ HandleWebCommand(a) = SendAtisRequest(a.fields)
          /\ HandleRemoteCommand("atis.request", a.fields) = SendAtisRequest(a.fields)
        BY <2>1
    <2>4. CASE c = Good("callsign")
        <3>1. Fits("atis.request", a.fields)
            BY <2>1, <2>4
        <3> QED BY <2>1, <2>2, <2>3, <3>1
    <2>5. CASE c = Bad
        <3>1. HandleWebCommand(a) = NoCall
            BY <2>1, <2>3, <2>5 DEF SendAtisRequest, Bad, Text, IsGood
        <3> QED BY <2>1, <2>2, <2>3, <3>1
    <2> QED BY <2>4, <2>5
<1>13. a = Ask("sim_squawk", Full({"code"})) => Carried(a, "xpdr.setSquawk", a.fields)
    OBVIOUS
<1>14. a = Ask("sim_xpdr", Full({"mode"})) => Carried(a, "xpdr.setMode", a.fields)
    OBVIOUS
<1>15. a = Ask("notification_unsubscribe", Full({"endpoint"})) => Carried(a, "notification.unsubscribe", a.fields)
    OBVIOUS
<1>16. a = Ask("notification_subscribe", Full(SubscriptionFields)) => Carried(a, "notification.subscribe", a.fields)
    BY SubscriptionIsCarried
<1>17. ASSUME NEW n \in {1, 2}, NEW station \in {Good("station"), Empty},
              a = Ask(IF n = 2 THEN "sim_com2" ELSE "sim_com1",
                      [Full({"freq", "station"}) EXCEPT !["station"] = station])
       PROVE  Carried(a, "radio.set", Field("com", Com(n)) ++ a.fields)
    <2> DEFINE f == Field("com", Com(n)) ++ a.fields
    <2>1. /\ DOMAIN f = {"com", "freq", "station"}
          /\ f["com"] = Com(n) /\ f["freq"] = Good("freq") /\ f["station"] = station
          /\ a.fields["freq"] = Good("freq") /\ a.fields["station"] = station
        BY <1>17 DEF ++
    <2>2. f = Field("com", Com(n)) ++ Field("freq", a.fields["freq"]) ++ Field("station", a.fields["station"])
        BY <2>1, <1>17 DEF ++
    <2>3. a.action = IF n = 2 THEN "sim_com2" ELSE "sim_com1"
        BY <1>17
    <2> HIDE DEF f
    <2>4. SendRemoteAction(a) = [type |-> "radio.set", source |-> "browser", payload |-> Object(f)]
        BY <2>2, <2>3
    <2>5. Fits("radio.set", f)
        BY <1>17, <2>1 DEF Com
    <2>6. HandleRemoteCommand("radio.set", f) = HandleWebCommand(a)
        BY <2>1, <2>3 DEF RadioSet
    <2> QED BY <2>4, <2>5, <2>6 DEF f
<1>18. a.action \in {"test_audio", "voice_tx_monitor_start", "remote_pairing_renew"} => SendRemoteAction(a) = NoMessage
    OBVIOUS
<1>19. ASSUME NEW act \in BareActions, a = Ask(act, NoFields) PROVE \E type, f : Carried(a, type, f)
    <2>1. a.action = act
        BY <1>19
    <2> HIDE DEF Carried, SendRemoteAction, HandleRemoteCommand, HandleWebCommand, Fits, ShapeOf, Ask, NoFields
    <2> QED BY <1>2, <1>3, <1>4, <1>5, <1>6, <1>18, <1>19, <2>1 DEF BareActions
<1> HIDE DEF Carried, SendRemoteAction, HandleRemoteCommand, HandleWebCommand, Fits, ShapeOf, Ask, Full, Field
<1>20. ASSUME NEW act \in {"sim_com1", "sim_com2"}, NEW f \in Tuned, a = Ask(act, f) PROVE \E type, g : Carried(a, type, g)
    <2>1. PICK n \in {1, 2} : act = IF n = 2 THEN "sim_com2" ELSE "sim_com1"
        OBVIOUS
    <2>2. PICK station \in {Good("station"), Empty} : f = [Full({"freq", "station"}) EXCEPT !["station"] = station]
        BY DEF Tuned, Full
    <2>3. Carried(a, "radio.set", Field("com", Com(n)) ++ a.fields)
        BY <1>17, <1>20, <2>1, <2>2
    <2> QED BY <2>3
<1>21. ASSUME NEW n \in {{"kind", "icao"}, {"kind", "icao", "source", "role"}}, a = Ask("weather_request", Full(n))
       PROVE  \E type, f : Carried(a, type, f)
    BY <1>7, <1>8, <1>21
<1>22. ASSUME NEW n \in {1, 2}, a = Ask("voice_tx_start", Field("com", Com(n))) PROVE \E type, f : Carried(a, type, f)
    BY <1>9, <1>10, <1>22
<1> QED BY <1>11, <1>12, <1>13, <1>14, <1>15, <1>16, <1>19, <1>20, <1>21, <1>22 DEF Asks, SubscriptionFields

\* What is under way is what the relay's rules make of the message, the agent's rules
\* change nothing in it, and the agent calls what it says.
CommandIInv ==
    /\ asked \in Asks \cup {NoAsk}
    /\ asked # NoAsk => message \in {NoMessage, SendRemoteAction(asked)}
    /\ message # NoMessage => message.type \in Types /\ DOMAIN message = {"type", "source", "payload"}
    /\ forwarded # Null => message # NoMessage /\ forwarded = ValidateRemoteMessage(message, {message.source})
    /\ applied # Null => forwarded # Refusal /\ applied = forwarded /\ message.type \in BrowserToAgentTypes
    /\ performed # NoCall => /\ applied \notin {Null, Refusal}
                             /\ performed = HandleRemoteCommand(message.type, applied.fields)

LEMMA RoutedAreShaped ==
    /\ BrowserToAgentTypes \subseteq ShapedTypes /\ ShapedTypes \subseteq Types
    /\ \A t \in BrowserToAgentTypes \cup {"ping"} : "browser" \in SourcesOf(t)
<1>1. BrowserToAgentTypes \subseteq ShapedTypes /\ ShapedTypes \subseteq Types
    BY DEF BrowserToAgentTypes, ShapedTypes, BareTypes, Types
<1>2. (BrowserToAgentTypes \cup {"ping"}) \cap (AgentTypes \cup RelayTypes) = {}
    BY DEF BrowserToAgentTypes, AgentTypes, RelayTypes
<1> QED BY <1>1, <1>2 DEF SourcesOf

LEMMA ShapedIsRequired ==
    ASSUME NEW m, m.type \in ShapedTypes, NEW sources, "browser" \in SourcesOf(m.type), "browser" \in sources
    PROVE  ValidateRemoteMessage(m, sources) = RequireShape(m.payload, ShapeOf[m.type])
<1>1. SourcesOf(m.type) \cap sources # {}
    OBVIOUS
<1>2. m.type \notin {"stations.state", "weather.state", "chat.history", "agent.watchdog.ticket", "unicom.timer.state"}
    BY DEF ShapedTypes, BareTypes
<1>3. ValidatePayload(m.type, m.payload) = RequireShape(m.payload, ShapeOf[m.type])
    BY <1>2 DEF ValidatePayload
<1> QED BY <1>1, <1>3 DEF ValidateRemoteMessage

LEMMA CommandIInit == CommandsInit => CommandIInv
BY DEF CommandsInit, RulesInit, CommandIInv

LEMMA CommandStep == CommandIInv /\ [CommandsNext]_commandVars => CommandIInv'
<1> SUFFICES ASSUME CommandIInv, [CommandsNext]_commandVars PROVE CommandIInv'
    OBVIOUS
<1>1. ASSUME NEW a \in Asks, PageAsks(a) PROVE CommandIInv'
    <2>1. /\ message = NoMessage /\ asked' = a /\ message' \in {NoMessage, SendRemoteAction(a)}
          /\ UNCHANGED <<forwarded, applied, performed>>
        BY <1>1 DEF PageAsks
    <2>2. forwarded = Null /\ applied = Null /\ performed = NoCall
        BY <2>1, Kinds DEF CommandIInv, ValidateRemoteMessage
    <2>3. message' # NoMessage => message'.type \in Types /\ DOMAIN message' = {"type", "source", "payload"}
        <3> SUFFICES ASSUME message' # NoMessage PROVE message'.type \in Types /\ DOMAIN message' = {"type", "source", "payload"}
            OBVIOUS
        <3>1. PICK type, f : Carried(a, type, f)
            BY <2>1, AsksAreCarried
        <3> QED BY <2>1, <3>1, RoutedAreShaped DEF Carried
    <2> QED BY <2>1, <2>2, <2>3 DEF CommandIInv
<1>2. CASE AgentPerforms
    BY <1>2 DEF AgentPerforms, CommandIInv, messageVars
<1>3. ASSUME asked = NoAsk, NEW type \in Types, NEW source, NEW p, Sent(type, source, p),
             UNCHANGED <<hasAgent, asked, performed>>
      PROVE  CommandIInv'
    <2>1. /\ message = NoMessage /\ message' = [type |-> type, source |-> source, payload |-> p]
          /\ UNCHANGED <<forwarded, applied, performed, asked>>
        BY <1>3 DEF Sent
    <2>2. forwarded = Null /\ applied = Null /\ performed = NoCall
        BY <2>1, Kinds DEF CommandIInv
    <2> QED BY <1>3, <2>1, <2>2 DEF CommandIInv
<1>4. ASSUME RelayParses, UNCHANGED <<hasAgent, asked, performed>> PROVE CommandIInv'
    <2>1. /\ message # NoMessage /\ forwarded = Null /\ forwarded' = ValidateRemoteMessage(message, {message.source})
          /\ UNCHANGED <<message, applied, asked, performed>>
        BY <1>4 DEF RelayParses
    <2>2. applied = Null /\ performed = NoCall
        BY <2>1 DEF CommandIInv
    <2> QED BY <2>1, <2>2 DEF CommandIInv
<1>5. ASSUME message.type \in BrowserToAgentTypes, AgentParses, UNCHANGED <<hasAgent, asked, performed>>
      PROVE  CommandIInv'
    <2> DEFINE shape == ShapeOf[message.type]
               again == [message EXCEPT !.payload = forwarded]
    <2>1. /\ forwarded \notin {Null, Refusal} /\ message.source = "browser" /\ applied = Null
          /\ applied' = ValidateRemoteMessage(again, {"browser", "agent", "relay"})
          /\ UNCHANGED <<message, forwarded, asked, performed>>
        BY <1>5 DEF AgentParses
    <2>2. /\ forwarded = RequireShape(message.payload, shape) /\ "browser" \in SourcesOf(message.type)
          /\ DOMAIN message = {"type", "source", "payload"} /\ message.type \in ShapedTypes
        <3>1. /\ message # NoMessage /\ forwarded = ValidateRemoteMessage(message, {"browser"})
              /\ message.type \in ShapedTypes /\ "browser" \in SourcesOf(message.type)
            BY <1>5, <2>1, RoutedAreShaped DEF CommandIInv
        <3> QED BY <3>1, ShapedIsRequired DEF CommandIInv
    <2>3. forwarded = message.payload
        BY <2>1, <2>2, ShapeIsKept
    <2>4. again.type = message.type /\ again.payload = forwarded
        BY <2>2
    <2> HIDE DEF again
    <2>5. applied' = RequireShape(forwarded, shape)
        BY <2>1, <2>2, <2>4, ShapedIsRequired
    <2>6. applied' = forwarded /\ performed = NoCall
        BY <2>1, <2>2, <2>3, <2>5 DEF CommandIInv
    <2> QED BY <1>5, <2>1, <2>6 DEF CommandIInv
<1>6. CASE UNCHANGED commandVars
    BY <1>6 DEF commandVars, messageVars, CommandIInv
<1> QED BY <1>1, <1>2, <1>3, <1>4, <1>5, <1>6 DEF CommandsNext

\* What the relay passes on is whole, and what the page asks through the relay is what
\* it asks of the local proxy, for any length of the lists.  What the local proxy would
\* do and the relay refuses is only what the proxy puts right first.
THEOREM RelayedIsDoneAsLocal == CommandsSpec => []RemoteWorksAsLocal
<1>1. CommandIInv => ForwardedIsUsable
    <2> SUFFICES ASSUME CommandIInv, forwarded \notin {Null, Refusal}
                 PROVE  /\ message.source \in SourcesOf(message.type)
                        /\ Whole(message.type, forwarded.fields)
                        /\ \A n \in DOMAIN forwarded.fields : forwarded.fields[n] # Bad /\ n # "unknown"
                        /\ applied # Null => applied = forwarded
        BY DEF ForwardedIsUsable
    <2>1. /\ message.type \in Types /\ message.source \in SourcesOf(message.type)
          /\ forwarded = ValidatePayload(message.type, message.payload)
        BY DEF CommandIInv, ValidateRemoteMessage
    <2>2. Clean(forwarded) /\ Whole(message.type, forwarded.fields)
        BY <2>1, PayloadIsUsable
    <2> QED BY <2>1, <2>2 DEF CommandIInv, Clean
<1>2. CommandIInv => RemoteDoesAsLocal
    <2> SUFFICES ASSUME CommandIInv, asked # NoAsk
                 PROVE  /\ Refusal \in {forwarded, applied} => HandleWebCommand(asked) = NoCall \/ PutRight(asked)
                        /\ message # NoMessage => message.type \in BrowserToAgentTypes \cup {"ping"}
                        /\ performed # NoCall => performed = HandleWebCommand(asked)
        BY DEF RemoteDoesAsLocal
    <2>1. CASE message = NoMessage
        BY <2>1, Kinds DEF CommandIInv
    <2>2. CASE message # NoMessage
        <3>1. asked \in Asks /\ message = SendRemoteAction(asked)
            BY <2>2 DEF CommandIInv
        <3>2. PICK type, f : Carried(asked, type, f)
            BY <2>2, <3>1, AsksAreCarried
        <3>3. /\ message.type = type /\ message.source = "browser" /\ message.payload = Object(f)
              /\ type \in BrowserToAgentTypes \cup {"ping"} /\ type \in ShapedTypes
            BY <3>1, <3>2 DEF Carried
        <3>4. ValidateRemoteMessage(message, {message.source}) = RequireShape(Object(f), ShapeOf[type])
            BY <3>3, RoutedAreShaped, ShapedIsRequired
        <3>5. Fits(type, f) => RequireShape(Object(f), ShapeOf[type]) = Object(f)
            BY Kinds DEF Fits, RequireShape, Only, NoneBad
        <3>6. RequireShape(Object(f), ShapeOf[type]) \in {Object(f), Refusal}
            BY DEF RequireShape
        <3>7. /\ forwarded \in {Null, RequireShape(Object(f), ShapeOf[type])}
              /\ applied # Null => applied = forwarded /\ forwarded # Refusal
            BY <3>4 DEF CommandIInv
        <3>8. ASSUME Refusal \in {forwarded, applied} PROVE HandleWebCommand(asked) = NoCall \/ PutRight(asked)
            <4>1. ~Fits(type, f)
                BY <3>5, <3>7, <3>8, Kinds
            <4> QED BY <3>2, <4>1 DEF Carried
        <3>9. ASSUME performed # NoCall PROVE performed = HandleWebCommand(asked)
            <4>1. applied \notin {Null, Refusal} /\ performed = HandleRemoteCommand(type, applied.fields)
                BY <3>3, <3>9 DEF CommandIInv
            <4>2. applied = Object(f)
                BY <3>6, <3>7, <4>1
            <4>3. type # "ping"
                BY <3>3, <4>1 DEF CommandIInv, BrowserToAgentTypes
            <4> QED BY <3>2, <4>1, <4>2, <4>3, Kinds DEF Carried
        <3> QED BY <3>3, <3>8, <3>9
    <2> QED BY <2>1, <2>2
<1> QED BY CommandIInit, CommandStep, <1>1, <1>2, PTL DEF CommandsSpec, RemoteWorksAsLocal

-----------------------------------------------------------------------------
(***************************************************************************)
(* The parts together                                                      *)
(***************************************************************************)
\* A behaviour of the services is, for each part, a behaviour of that part that may rest.
LEMMA PartsBehave ==
    ServicesSpec => /\ AccountSpec /\ UsersSpec /\ OwnerSpec /\ PresenceSpec /\ BackupSpec
                    /\ LinkSpec /\ CommandsSpec /\ ServerSpec /\ PageSpec /\ CockpitSpec
<1>1. ServicesInit => /\ AccountInit /\ UsersInit /\ OwnerInit /\ PresenceInit /\ BackupInit
                      /\ LinkInit /\ CommandsInit /\ ServerInit /\ PageInit /\ CockpitInit
    BY DEF ServicesInit
<1>2. [ServicesNext]_relayPartVars =>
          /\ [AccountNext]_accountVars /\ [UsersNext]_userVars /\ [OwnerNext]_ownerVars
          /\ [PresenceNext]_presenceVars /\ [BackupNext]_backupVars /\ [LinkNext]_linkVars
          /\ [CommandsNext]_commandVars /\ [ServerNext]_serverVars /\ [PageNext]_pageVars /\ [CockpitNext]_cockpitVars
    BY DEF ServicesNext, PartRests, relayPartVars
<1> QED BY <1>1, <1>2, PTL DEF ServicesSpec, AccountSpec, UsersSpec, OwnerSpec, PresenceSpec, BackupSpec,
           LinkSpec, CommandsSpec, ServerSpec, PageSpec, CockpitSpec

\* What the relay's database was given holds: the tokens moved into it, and every
\* transaction wherever a restore stops.
THEOREM DatabaseIsKept == ServicesSpec => []DatabaseHolds
<1>1. MigrationHolds /\ AllCommitsKept => DatabaseHolds
    BY DEF DatabaseHolds
<1> QED BY PartsBehave, MigrationIsSafe, RestoreLosesNothing, <1>1, PTL

\* Whichever part of the relay is at work, it keeps what it promises.
THEOREM ServicesKeepPromises ==
    ServicesSpec => []( /\ AccessFollowsAccounts /\ SessionsFollowPassword /\ PasskeysHaveCodes /\ PresenceHolds
                        /\ DatabaseHolds /\ RelayMatchesAgent /\ RemoteWorksAsLocal /\ ServerKeepsData
                        /\ OnAirWhileHeld /\ PageKeepsUp /\ PanelsSettle )
BY PartsBehave, AccessIsAuthorized, SessionsEndWithPassword, RecoveryCodesWithPasskeys, PresenceIsTrue, DatabaseIsKept,
   EntryMatchesFlight, RelayedIsDoneAsLocal, ServerCommandsKeepData, TransmitsWhileHeld, PageFollowsLink, PanelsFollowRadio, PTL

==============================================================================
