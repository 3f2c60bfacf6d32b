----------------------------- MODULE Deployment ------------------------------
(***************************************************************************)
(* A release is put into service by scripts/deploy.sh, and a failed one is *)
(* taken back with its databases: backupDatabase and restoreDatabase       *)
(* (server/shared/db/database-backup.ts), openDatabase (runtime/shared/db/ *)
(* database.ts), which migrates, and the service under systemd.  Commands  *)
(* may fail, processes die and the machine stop between any two steps.     *)
(*                                                                         *)
(* The database is two files, and a restore replaces them one after the    *)
(* other.  What a file holds is "moment", the last write it has seen (the  *)
(* two files of a whole database have seen the same), and "schema", the    *)
(* release whose migrations it has.  Both files carry the same dataset id  *)
(* at every moment, so that openDatabase cannot tell two moments apart.    *)
(*                                                                         *)
(* Releases are numbered: deployment n brings release n, and migrations of *)
(* its own.  Renames and removals are durable in the order in which they   *)
(* were made (journalled metadata and the fsyncs of database-backup.ts).   *)
(***************************************************************************)
EXTENDS Integers

CONSTANTS
    MaxDeploys,     \* bound of the model: deployments
    MaxMoment,      \* bound of the model: writes
    MaxFaults       \* bound of the model: failing commands, deaths, stops of the machine

ASSUME DeploymentAssumption ==
    MaxDeploys \in Nat /\ MaxMoment \in Nat \ {0} /\ MaxFaults \in Nat

VARIABLES
    live,       \* the two database files
    wal,        \* the files beside which a write-ahead log with commits lies
    clock,      \* the last moment so far
    snaps,      \* snaps[n]: the backup set deployment n made, or NoSnapshot
    journal,    \* the snapshot named in restore.json, 0 if there is none
    staged,     \* the copies restore.json names; NoFile once renamed
    cli,        \* the step of db:restore that is next, "none" if it does not run
    app,        \* the process that has the database open
    want,       \* systemd keeps the service up
    current,    \* the release the link "current" points to
    marked,     \* the releases with .deploy-in-progress or .deploy-failed
    kept,       \* the snapshots with such a mark
    script,     \* deploy.sh: its next step, its deployment, the release before it
    faults

dbVars == <<live, wal, clock>>
restoreVars == <<snaps, journal, staged, cli>>
releaseVars == <<current, marked, kept, script>>

vars == <<dbVars, restoreVars, app, want, releaseVars, faults>>

Deploys == 1..MaxDeploys

Files == {"ops", "data"}

Content == [moment : 0..MaxMoment, schema : 0..MaxDeploys]

\* A file that lost the log it needs, or got the log of another.
Damaged == [moment |-> 0, schema |-> 0]

NoFile == [moment |-> -1, schema |-> -1]

NoSnapshot == [f \in Files |-> NoFile]

Pair == [Files -> Content]

Whole(pair) == pair["ops"].moment = pair["data"].moment /\ pair["ops"].moment > 0

Before == {"stop", "backup", "link"}
After == {"prepare", "start", "ready", "unmark"}
Back == {"rollback", "restore", "restoring", "relink", "restart", "verify"}

Init ==
    /\ live = [f \in Files |-> [moment |-> 1, schema |-> 0]]
    /\ wal = {} /\ clock = 1
    /\ snaps = [n \in Deploys |-> NoSnapshot]
    /\ journal = 0 /\ staged = NoSnapshot /\ cli = "none"
    /\ app = [at |-> "down", by |-> "service", release |-> 0]
    /\ want = TRUE /\ current = 0
    /\ marked = {} /\ kept = {}
    /\ script = [at |-> "idle", n |-> 0, before |-> 0]
    /\ faults = 0

Fault == faults < MaxFaults /\ faults' = faults + 1

-----------------------------------------------------------------------------
(* The process that has the database open: openDatabase, then the service. *)

\* Mutant: an unfinished restore is not looked for.
OpensAnyway == TRUE

\* openDatabase refuses to open while a restore is unfinished.
Opens == journal = 0

Open(by) ==
    /\ app.at = "down" /\ Opens
    /\ app' = [at |-> "opening", by |-> by, release |-> current]

StartService ==
    /\ want /\ Open("service")
    /\ UNCHANGED <<dbVars, restoreVars, want, releaseVars, faults>>

\* migrateDatabaseRole: migrations the file has already are passed over, and
\* so are those the code does not know.
Migrated(content) ==
    [content EXCEPT !.schema = IF app.release > @ THEN app.release ELSE @]

MigrateOperations ==
    /\ app.at = "opening"
    /\ app' = [app EXCEPT !.at = "opened"]
    /\ live' = [live EXCEPT !["ops"] = Migrated(@)]
    /\ wal' = wal \cup {"ops"}
    /\ UNCHANGED <<clock, restoreVars, want, releaseVars, faults>>

\* The service goes on; db:prepare closes the database, which empties the log.
MigrateData ==
    /\ app.at = "opened"
    /\ live' = [live EXCEPT !["data"] = Migrated(@)]
    /\ IF app.by = "service"
       THEN /\ app' = [app EXCEPT !.at = "up"]
            /\ wal' = wal \cup {"data"}
            /\ UNCHANGED script
       ELSE /\ app' = [app EXCEPT !.at = "down"]
            /\ wal' = {}
            /\ script' = IF script.at = "prepare" THEN [script EXCEPT !.at = "start"] ELSE script
    /\ UNCHANGED <<clock, restoreVars, want, current, marked, kept, faults>>

\* What the service writes; the two files belong together again.
Write ==
    /\ app.at = "up" /\ clock < MaxMoment
    /\ clock' = clock + 1
    /\ live' = [f \in Files |-> [live[f] EXCEPT !.moment = clock']]
    /\ wal' = Files
    /\ UNCHANGED <<restoreVars, app, want, releaseVars, faults>>

ProcessDies ==
    /\ app.at # "down"
    /\ Fault
    /\ app' = [app EXCEPT !.at = "down"]
    /\ UNCHANGED <<dbVars, restoreVars, want, releaseVars>>

\* systemctl stop: SIGTERM, and SIGKILL after 30 s.
StopService ==
    /\ want' = FALSE
    /\ IF app.by = "service" /\ app.at # "down"
       THEN app' = [app EXCEPT !.at = "down"] /\ wal' \in {{}, wal}
       ELSE UNCHANGED <<app, wal>>

-----------------------------------------------------------------------------
(* restoreDatabase.                                                        *)

\* Mutant: a restore that was interrupted is not resumed.
ResumesNever(n) == journal = 0

\* The same restore may be resumed, no other may be begun.
Resumes(n) == journal \in {0, n}

\* The set is complete and its hashes are right.  The copies are complete
\* before restore.json names them.
BeginRestore(n) ==
    /\ cli = "none"
    /\ snaps[n] # NoSnapshot /\ Resumes(n)
    /\ staged' = IF journal = 0 THEN snaps[n] ELSE staged
    /\ journal' = n
    /\ cli' = "logs"
    /\ UNCHANGED <<dbVars, snaps, app, faults>>

\* A log whose commits are not in its file yet takes them with it.
RemoveLogs ==
    /\ cli = "logs"
    /\ cli' = "data"
    /\ live' = [f \in Files |-> IF f \in wal THEN Damaged ELSE live[f]]
    /\ wal' = {}
    /\ UNCHANGED <<clock, snaps, journal, staged, app, want, releaseVars, faults>>

Rename(f, next) ==
    /\ cli = f
    /\ cli' = next
    /\ IF staged[f] = NoFile THEN UNCHANGED <<live, staged>>
       ELSE /\ live' = [live EXCEPT ![f] = IF f \in wal THEN Damaged ELSE staged[f]]
            /\ staged' = [staged EXCEPT ![f] = NoFile]
    /\ UNCHANGED <<wal, clock, snaps, journal, app, want, releaseVars, faults>>

RenameData == Rename("data", "ops")
RenameOperations == Rename("ops", "check")

\* The files are compared with the set before restore.json is removed.
EndRestore ==
    /\ cli = "check"
    /\ IF live = snaps[journal]
       THEN /\ journal' = 0 /\ staged' = NoSnapshot
            /\ script' = IF script.at = "restoring" THEN [script EXCEPT !.at = "relink"] ELSE script
       ELSE UNCHANGED <<journal, staged, script>>
    /\ cli' = "none"
    /\ UNCHANGED <<dbVars, snaps, app, want, current, marked, kept, faults>>

RestoreFails ==
    /\ cli # "none"
    /\ Fault
    /\ cli' = "none"
    /\ UNCHANGED <<dbVars, snaps, journal, staged, app, want, releaseVars>>

-----------------------------------------------------------------------------
(* deploy.sh: the way forward.                                             *)

Goes(from, to) == script.at = from /\ script' = [script EXCEPT !.at = to]

\* A release with a mark is not replaced.
Begin ==
    /\ script.at = "idle" /\ cli = "none"
    /\ script.n < MaxDeploys /\ current \notin marked
    /\ script' = [at |-> "stop", n |-> script.n + 1, before |-> current]
    /\ marked' = marked \cup {script'.n}
    /\ UNCHANGED <<dbVars, restoreVars, app, want, current, kept, faults>>

StopForBackup ==
    /\ Goes("stop", "backup")
    /\ StopService
    /\ UNCHANGED <<live, clock, restoreVars, current, marked, kept, faults>>

\* db:backup into files of another name, and their renaming.
Backup ==
    /\ Goes("backup", "link")
    /\ snaps' = [snaps EXCEPT ![script.n] = live]
    /\ kept' = kept \cup {script.n}
    /\ UNCHANGED <<dbVars, journal, staged, cli, app, want, current, marked, faults>>

Link ==
    /\ Goes("link", "prepare")
    /\ current' = script.n
    /\ UNCHANGED <<dbVars, restoreVars, app, want, marked, kept, faults>>

Prepare ==
    /\ script.at = "prepare" /\ Open("prepare")
    /\ UNCHANGED <<dbVars, restoreVars, want, releaseVars, faults>>

Start ==
    /\ Goes("start", "ready")
    /\ want' = TRUE
    /\ UNCHANGED <<dbVars, restoreVars, app, current, marked, kept, faults>>

ServiceIsReady == app.at = "up" /\ app.by = "service"

Ready ==
    /\ Goes("ready", "unmark")
    /\ ServiceIsReady
    /\ marked' = marked \ {script.n}
    /\ UNCHANGED <<dbVars, restoreVars, app, want, current, kept, faults>>

\* cleanup_successful_artifacts: no snapshot without a mark is kept.
Commit ==
    /\ Goes("unmark", "idle")
    /\ kept' = kept \ {script.n}
    /\ snaps' = [n \in Deploys |-> IF n \in kept' THEN snaps[n] ELSE NoSnapshot]
    /\ UNCHANGED <<dbVars, journal, staged, cli, app, want, current, marked, faults>>

-----------------------------------------------------------------------------
(* deploy.sh: remote_exit and rollback_release.                            *)

\* A command fails, the service does not become ready in two minutes, or the
\* script is told to end; db:prepare ends first.
Fail ==
    /\ app.by = "prepare" => app.at = "down"
    /\ \/ script.at \in After \cup {"link"} /\ script' = [script EXCEPT !.at = "rollback"]
       \/ script.at \in Before /\ script' = [script EXCEPT !.at = "restart"]
    /\ Fault
    /\ UNCHANGED <<dbVars, restoreVars, app, want, current, marked, kept>>

\* db:prepare exits with 1.
PrepareRefused ==
    /\ ~ Opens /\ Goes("prepare", "rollback")
    /\ UNCHANGED <<dbVars, restoreVars, app, want, current, marked, kept, faults>>

\* Mutant: the code is taken back, and the database is not.
RollBackCodeOnly ==
    /\ Goes("rollback", "relink")
    /\ StopService
    /\ UNCHANGED <<live, clock, restoreVars, current, marked, kept, faults>>

RollBack ==
    /\ Goes("rollback", "restore")
    /\ StopService
    /\ UNCHANGED <<live, clock, restoreVars, current, marked, kept, faults>>

RestoreDatabase ==
    /\ Goes("restore", "restoring")
    /\ BeginRestore(script.n)
    /\ UNCHANGED <<want, current, marked, kept>>

Relink ==
    /\ Goes("relink", "restart")
    /\ current' = script.before
    /\ UNCHANGED <<dbVars, restoreVars, app, want, marked, kept, faults>>

Restart ==
    /\ Goes("restart", "verify")
    /\ want' = TRUE
    /\ UNCHANGED <<dbVars, restoreVars, app, current, marked, kept, faults>>

\* The snapshot and the release go only when the service runs again.
Recovered ==
    /\ Goes("verify", "idle")
    /\ ServiceIsReady
    /\ snaps' = [snaps EXCEPT ![script.n] = NoSnapshot]
    /\ kept' = kept \ {script.n} /\ marked' = marked \ {script.n}
    /\ UNCHANGED <<dbVars, journal, staged, cli, app, want, current, faults>>

\* The restore is refused or has failed, or the service is not ready.
Stuck ==
    \/ script.at = "restore" /\ (snaps[script.n] = NoSnapshot \/ ~ Resumes(script.n))
    \/ script.at = "restoring" /\ cli = "none"
    \/ script.at = "verify" /\ ~ ServiceIsReady

\* What is needed to recover by hand stays, and is marked.
GiveUp ==
    /\ Stuck
    /\ script' = [script EXCEPT !.at = "idle"]
    /\ marked' = marked \cup {script.n} /\ kept' = kept \cup {script.n}
    /\ UNCHANGED <<dbVars, restoreVars, app, want, current, faults>>

\* Another command of the way back fails.
BackFails ==
    /\ script.at \in Back \ {"restoring"}
    /\ Fault
    /\ script' = [script EXCEPT !.at = "idle"]
    /\ marked' = marked \cup {script.n} /\ kept' = kept \cup {script.n}
    /\ UNCHANGED <<dbVars, restoreVars, app, want, current>>

-----------------------------------------------------------------------------
(* The machine and its operator.                                           *)

\* The service is enabled: it starts with the machine.
MachineStops ==
    /\ Fault
    /\ app' = [app EXCEPT !.at = "down"]
    /\ script' = [script EXCEPT !.at = "idle"] /\ cli' = "none"
    /\ want' = TRUE
    /\ UNCHANGED <<dbVars, snaps, journal, staged, current, marked, kept>>

\* SIGKILL, or a second signal during remote_exit; db:prepare goes on, and
\* db:restore may.
ScriptDies ==
    /\ script.at # "idle"
    /\ Fault
    /\ script' = [script EXCEPT !.at = "idle"] /\ cli' \in {cli, "none"}
    /\ UNCHANGED <<dbVars, snaps, journal, staged, app, want, current, marked, kept>>

\* "After an interruption run the same db:restore again", with the service
\* stopped.
OperatorStops ==
    /\ script.at = "idle" /\ journal # 0 /\ want
    /\ StopService
    /\ UNCHANGED <<live, clock, restoreVars, releaseVars, faults>>

OperatorRestores ==
    /\ script.at = "idle" /\ journal # 0 /\ ~ want
    /\ BeginRestore(journal)
    /\ UNCHANGED <<want, releaseVars>>

OperatorStarts ==
    /\ script.at = "idle" /\ cli = "none" /\ journal = 0 /\ ~ want
    /\ want' = TRUE
    /\ UNCHANGED <<dbVars, restoreVars, app, releaseVars, faults>>

-----------------------------------------------------------------------------
DatabaseNext == StartService \/ MigrateOperations \/ MigrateData \/ Write \/ ProcessDies

RestoreNext == RemoveLogs \/ RenameData \/ RenameOperations \/ EndRestore \/ RestoreFails

\* What the script does next when nothing fails.
ScriptGoesOn ==
    \/ StopForBackup \/ Backup \/ Link \/ Prepare \/ PrepareRefused \/ Start \/ Ready \/ Commit
    \/ RollBack \/ RestoreDatabase \/ Relink \/ Restart \/ Recovered \/ GiveUp

ScriptNext == Begin \/ ScriptGoesOn \/ Fail \/ BackFails

OperatorNext == MachineStops \/ ScriptDies \/ OperatorStops \/ OperatorRestores \/ OperatorStarts

Next == DatabaseNext \/ RestoreNext \/ ScriptNext \/ OperatorNext

Spec == Init /\ [][Next]_vars

(* Commands that were started end, the script and systemd go on, and the   *)
(* operator does what the documentation asks for.  Faults are bounded;     *)
(* nobody has to deploy anything.                                          *)
Fairness ==
    /\ WF_vars(StartService) /\ WF_vars(MigrateOperations) /\ WF_vars(MigrateData)
    /\ WF_vars(RemoveLogs \/ RenameData \/ RenameOperations \/ EndRestore)
    /\ WF_vars(ScriptGoesOn)
    /\ WF_vars(OperatorStops) /\ WF_vars(OperatorRestores) /\ WF_vars(OperatorStarts)

LiveSpec == Spec /\ Fairness

-----------------------------------------------------------------------------
(* Properties.                                                             *)

\* Whoever has the database open has two files of one moment that kept their
\* logs: a restore that was interrupted between the two
\* renames is never served, whatever starts the service.
RunsOnWholeDatabase == app.at # "down" => Whole(live)

\* No release runs on a database that a later one has migrated: a deployment
\* that is taken back takes its migrations with it, whatever fails on the way
\* (docs/DECISIONS.md:65).
OldCodeMeetsOldSchema ==
    app.at = "up" => \A f \in Files : live[f].schema <= app.release

\* An interrupted restore is finished in the end, by the script or by hand,
\* also when a later deployment comes in between.
RestoresFinish == journal # 0 ~> journal = 0
=============================================================================
