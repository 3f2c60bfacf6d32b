--------------------------- MODULE DeploymentProofs ---------------------------
(* The safety properties of a deployment, for any number of releases, writes *)
(* and failures: an inductive invariant in eleven parts.                     *)
EXTENDS Deployment, TLAPS

Processes ==
    [at : {"down", "opening", "opened", "up"}, by : {"service", "prepare"}, release : 0..MaxDeploys]

Scripts ==
    [at : {"idle"} \cup Before \cup After \cup Back, n : 0..MaxDeploys, before : 0..MaxDeploys]

TypeOK ==
    /\ live \in Pair /\ wal \subseteq Files /\ clock \in 1..MaxMoment
    /\ snaps \in [Deploys -> Pair \cup {NoSnapshot}]
    /\ journal \in 0..MaxDeploys
    /\ staged \in [Files -> Content \cup {NoFile}]
    /\ cli \in {"none", "logs", "data", "ops", "check"}
    /\ app \in Processes
    /\ want \in BOOLEAN /\ current \in 0..MaxDeploys
    /\ marked \subseteq Deploys /\ kept \subseteq Deploys
    /\ script \in Scripts
    /\ script.at # "idle" => script.n \in Deploys

-----------------------------------------------------------------------------
(* The inductive invariant.                                                *)

\* While no restore is unfinished the database is whole; while one is, the set
\* it restores is.
JournalCovers ==
    IF journal = 0 THEN Whole(live) ELSE Whole(snaps[journal])

\* Only the script and the operator restore, and only what the journal names.
RestoreIsJournalled ==
    /\ cli # "none" => journal # 0 /\ script.at \in {"restoring", "idle"}
    /\ script.at = "restoring" => journal = script.n
    /\ script.at \in {"start", "ready", "unmark", "relink"} => journal = 0
    /\ script.at = "relink" => cli = "none"
    /\ journal <= script.n
    /\ script.at \in {"stop", "backup"} => journal < script.n

\* Nobody has the database open while a restore is unfinished, and whoever has
\* is of the current release.
OpenIsCurrent ==
    app.at # "down" => journal = 0 /\ app.release = current

\* db:prepare outlives its script, and its release keeps its mark.
PrepareIsMarked ==
    /\ app.at # "down" /\ app.by = "prepare" =>
          script.at \in {"prepare", "idle"} /\ current \in marked
    /\ script.at \in Before \cup {"prepare"} => script.n \in marked
    /\ script.at = "prepare" => current = script.n

\* The service is stopped from before the backup until after db:prepare, and
\* while its database is taken back.
ServiceIsStopped ==
    /\ script.at \in {"backup", "link", "prepare", "restore", "restoring", "relink"} => ~ want
    /\ script.at \in {"backup", "link", "restore", "restoring", "relink"} => app.at = "down"
    /\ script.at = "prepare" /\ app.at # "down" => app.by = "prepare"

\* Releases only go forward, but for the way back.
ReleasesGoForward ==
    /\ current <= script.n /\ script.before <= script.n
    /\ script.at # "idle" => script.before <= current
    /\ script.at \in Before => current = script.before

\* No file of a pair has migrations of a release later than n.
UpTo(pair, n) == \A f \in Files : pair[f].schema <= n

\* No release after the current one has migrated what is, or will be, served.
SchemaIsCurrent ==
    /\ UpTo(IF journal = 0 THEN live ELSE snaps[journal], current)
    /\ script.at = "relink" => UpTo(live, script.before)

BackedUp == {"link", "prepare", "start", "ready", "unmark", "rollback", "restore", "restoring"}

\* The backup a deployment falls back on is whole, and of the release before.
BackupIsGood ==
    script.at \in BackedUp /\ journal \in {0, script.n} =>
        Whole(snaps[script.n]) /\ UpTo(snaps[script.n], script.before)

\* A file that was renamed is the backup's and has no log any more.
CopyOrRenamed ==
    journal # 0 => \A f \in Files :
        \/ staged[f] = snaps[journal][f]
        \/ staged[f] = NoFile /\ live[f] = snaps[journal][f] /\ f \notin wal

\* The steps of a restore that have been taken.
StepsTaken ==
    /\ cli \in {"data", "ops", "check"} => wal = {}
    /\ cli \in {"ops", "check"} => staged["data"] = NoFile
    /\ cli = "check" => staged["ops"] = NoFile

IInv ==
    /\ TypeOK
    /\ JournalCovers /\ RestoreIsJournalled /\ OpenIsCurrent /\ PrepareIsMarked
    /\ ServiceIsStopped /\ ReleasesGoForward /\ SchemaIsCurrent /\ BackupIsGood
    /\ CopyOrRenamed /\ StepsTaken

\* A restore that comes to its end has restored both files: the comparison
\* with the set never fails, however often the restore was interrupted.
RestoresCheckOut == cli = "check" => live = snaps[journal]

-----------------------------------------------------------------------------
\* The actions of the system.
LEMMA Steps ==
    Next <=>
        \/ StartService \/ MigrateOperations \/ MigrateData \/ Write \/ ProcessDies
        \/ RemoveLogs \/ RenameData \/ RenameOperations \/ EndRestore \/ RestoreFails
        \/ Begin \/ StopForBackup \/ Backup \/ Link \/ Prepare \/ PrepareRefused \/ Start \/ Ready
        \/ Commit \/ RollBack \/ RestoreDatabase \/ Relink \/ Restart \/ Recovered \/ GiveUp
        \/ Fail \/ BackFails
        \/ MachineStops \/ ScriptDies \/ OperatorStops \/ OperatorRestores \/ OperatorStarts
  BY DEF Next, DatabaseNext, RestoreNext, ScriptGoesOn, ScriptNext, OperatorNext

\* A migration leaves a file of the database, and so does damage.
LEMMA MigratedIsContent ==
    ASSUME TypeOK, NEW c \in Content
    PROVE  Migrated(c) \in Content
  <1>1. app.release \in 0..MaxDeploys
    BY DEF TypeOK, Processes
  <1> QED BY <1>1, DeploymentAssumption DEF Migrated, Content

LEMMA DamagedIsContent == Damaged \in Content
  BY DeploymentAssumption DEF Damaged, Content

\* Every step leaves the variables in their types.
LEMMA TypeOKStep == IInv /\ [Next]_vars => TypeOK'
  <1> SUFFICES ASSUME TypeOK, Next PROVE TypeOK'
    BY DEF IInv, vars, dbVars, restoreVars, releaseVars, TypeOK
  <1>1. CASE StartService
    BY <1>1, DeploymentAssumption DEF TypeOK, StartService, dbVars, restoreVars, releaseVars, Open,
       Opens, Pair, Content, Files, Deploys, NoSnapshot, NoFile, Damaged, Before, After, Back,
       Scripts, Processes
  <1>2. CASE MigrateOperations
    <2>1. live' \in Pair
      BY <1>2, MigratedIsContent DEF TypeOK, MigrateOperations, Pair
    <2>2. app' \in Processes
      BY <1>2 DEF TypeOK, MigrateOperations, Processes
    <2> QED BY <1>2, <2>1, <2>2 DEF TypeOK, MigrateOperations, Files, restoreVars, releaseVars
  <1>3. CASE MigrateData
    <2>1. live' \in Pair
      BY <1>3, MigratedIsContent DEF TypeOK, MigrateData, Pair
    <2>2. script' \in Scripts /\ (script'.at # "idle" => script'.n \in Deploys)
      BY <1>3 DEF TypeOK, MigrateData, Scripts, After
    <2>3. app' \in Processes
      BY <1>3 DEF TypeOK, MigrateData, Processes
    <2> QED BY <1>3, <2>1, <2>2, <2>3 DEF TypeOK, MigrateData, Files, restoreVars
  <1>4. CASE Write
    <2>1. clock' \in 1..MaxMoment
      BY <1>4, DeploymentAssumption DEF TypeOK, Write
    <2>2. ASSUME NEW c \in Content PROVE [c EXCEPT !.moment = clock'] \in Content
      BY <2>1, DeploymentAssumption DEF Content
    <2>3. live' \in Pair
      BY <1>4, <2>2 DEF TypeOK, Write, Pair
    <2> QED BY <1>4, <2>1, <2>3 DEF TypeOK, Write, restoreVars, releaseVars
  <1>5. CASE ProcessDies
    BY <1>5 DEF TypeOK, ProcessDies, dbVars, restoreVars, releaseVars, Processes
  <1>6. CASE RemoveLogs
    <2>1. live' \in Pair
      BY <1>6, DamagedIsContent DEF TypeOK, RemoveLogs, Pair
    <2> QED BY <1>6, <2>1 DEF TypeOK, RemoveLogs, releaseVars
  <1>7. CASE RenameData
    <2>1. live' \in Pair /\ staged' \in [Files -> Content \cup {NoFile}]
      BY <1>7, DamagedIsContent DEF TypeOK, RenameData, Rename, Pair
    <2> QED BY <1>7, <2>1 DEF TypeOK, RenameData, Rename, releaseVars
  <1>8. CASE RenameOperations
    <2>1. live' \in Pair /\ staged' \in [Files -> Content \cup {NoFile}]
      BY <1>8, DamagedIsContent DEF TypeOK, RenameOperations, Rename, Pair
    <2> QED BY <1>8, <2>1 DEF TypeOK, RenameOperations, Rename, releaseVars
  <1>9. CASE EndRestore
    <2>1. staged' \in [Files -> Content \cup {NoFile}] /\ journal' \in 0..MaxDeploys
      BY <1>9, DeploymentAssumption DEF TypeOK, EndRestore, NoSnapshot
    <2>2. script' \in Scripts /\ (script'.at # "idle" => script'.n \in Deploys)
      BY <1>9 DEF TypeOK, EndRestore, Scripts, Back
    <2> QED BY <1>9, <2>1, <2>2 DEF TypeOK, EndRestore, dbVars
  <1>10. CASE RestoreFails
    BY <1>10 DEF TypeOK, RestoreFails, dbVars, releaseVars
  <1>11. CASE Begin
    <2>1. script.n + 1 \in Deploys
      BY <1>11, DeploymentAssumption DEF TypeOK, Begin, Deploys, Scripts
    <2>2. script' \in Scripts /\ script'.n = script.n + 1
      BY <1>11, <2>1, DeploymentAssumption DEF TypeOK, Begin, Scripts, Before, Deploys
    <2> QED BY <1>11, <2>1, <2>2 DEF TypeOK, Begin, dbVars, restoreVars
  <1>12. CASE StopForBackup
    BY <1>12 DEF TypeOK, StopForBackup, restoreVars, Goes, StopService, Before, Scripts, Processes
  <1>13. CASE Backup
    BY <1>13 DEF TypeOK, Backup, dbVars, Goes, Before, Scripts
  <1>14. CASE Link
    BY <1>14 DEF TypeOK, Link, dbVars, restoreVars, Goes, After, Scripts
  <1>15. CASE Prepare
    BY <1>15 DEF TypeOK, Prepare, dbVars, restoreVars, releaseVars, Open, Processes
  <1>16. CASE PrepareRefused
    BY <1>16 DEF TypeOK, PrepareRefused, dbVars, restoreVars, Goes, Back, Scripts
  <1>17. CASE Start
    BY <1>17 DEF TypeOK, Start, dbVars, restoreVars, Goes, After, Scripts
  <1>18. CASE Ready
    BY <1>18 DEF TypeOK, Ready, dbVars, restoreVars, Goes, After, Scripts
  <1>19. CASE Commit
    BY <1>19 DEF TypeOK, Commit, dbVars, Goes, Scripts
  <1>20. CASE RollBack
    BY <1>20 DEF TypeOK, RollBack, restoreVars, Goes, StopService, Back, Scripts, Processes
  <1>21. CASE RestoreDatabase
    <2>1. script.n \in Deploys /\ Deploys \subseteq 0..MaxDeploys
      BY <1>21, DeploymentAssumption DEF TypeOK, RestoreDatabase, Goes, Deploys, Scripts
    <2>2. snaps[script.n] \in [Files -> Content \cup {NoFile}]
      <3>1. snaps[script.n] \in Pair \cup {NoSnapshot}
        BY <2>1 DEF TypeOK
      <3>2. CASE snaps[script.n] \in Pair
        BY <3>2 DEF Pair
      <3>3. CASE snaps[script.n] = NoSnapshot
        BY <3>3 DEF NoSnapshot
      <3> QED BY <3>1, <3>2, <3>3
    <2>3. script' \in Scripts /\ script'.n = script.n
      BY <1>21 DEF TypeOK, RestoreDatabase, Goes, Scripts, Back
    <2> QED BY <1>21, <2>1, <2>2, <2>3 DEF TypeOK, RestoreDatabase, BeginRestore, dbVars
  <1>22. CASE Relink
    BY <1>22 DEF TypeOK, Relink, dbVars, restoreVars, Goes, Back, Scripts
  <1>23. CASE Restart
    BY <1>23 DEF TypeOK, Restart, dbVars, restoreVars, Goes, Back, Scripts
  <1>24. CASE Recovered
    BY <1>24 DEF TypeOK, Recovered, dbVars, Goes, Scripts
  <1>25. CASE GiveUp
    BY <1>25 DEF TypeOK, GiveUp, dbVars, restoreVars, Stuck, Scripts
  <1>26. CASE Fail
    BY <1>26 DEF TypeOK, Fail, dbVars, restoreVars, Before, After, Back, Scripts
  <1>27. CASE BackFails
    BY <1>27 DEF TypeOK, BackFails, dbVars, restoreVars, Back, Scripts
  <1>28. CASE MachineStops
    BY <1>28 DEF TypeOK, MachineStops, dbVars, Scripts, Processes
  <1>29. CASE ScriptDies
    BY <1>29 DEF TypeOK, ScriptDies, dbVars, Scripts
  <1>30. CASE OperatorStops
    BY <1>30 DEF TypeOK, OperatorStops, restoreVars, releaseVars, StopService, Processes
  <1>31. CASE OperatorRestores
    BY <1>31 DEF TypeOK, OperatorRestores, dbVars, releaseVars, BeginRestore
  <1>32. CASE OperatorStarts
    BY <1>32 DEF TypeOK, OperatorStarts, dbVars, restoreVars, releaseVars
  <1> QED BY <1>1, <1>2, <1>3, <1>4, <1>5, <1>6, <1>7, <1>8, <1>9, <1>10, <1>11, <1>12, <1>13,
          <1>14, <1>15, <1>16, <1>17, <1>18, <1>19, <1>20, <1>21, <1>22, <1>23, <1>24, <1>25, <1>26,
          <1>27, <1>28, <1>29, <1>30, <1>31, <1>32, Steps

\* The restored set takes over from the database when restore.json is written,
\* and hands it back when the files agree with it.
LEMMA JournalCoversStep == IInv /\ [Next]_vars => JournalCovers'
  <1> SUFFICES ASSUME JournalCovers, TypeOK, RestoreIsJournalled, OpenIsCurrent, BackupIsGood, Next
               PROVE  JournalCovers'
    BY DEF IInv, vars, dbVars, restoreVars, releaseVars, JournalCovers, Whole
  <1>1. CASE StartService \/ ProcessDies \/ RestoreFails \/ Begin \/ StopForBackup \/ Link \/
            Prepare \/ PrepareRefused \/ Start \/ Ready \/ RollBack \/ Relink \/ Restart \/ GiveUp
            \/ Fail \/ BackFails \/ MachineStops \/ ScriptDies \/ OperatorStops \/ OperatorStarts
    <2>1. UNCHANGED <<live, snaps, journal>>
      BY <1>1 DEF StartService, ProcessDies, RestoreFails, Begin, StopForBackup, Link, Prepare,
         PrepareRefused, Start, Ready, RollBack, Relink, Restart, GiveUp, Fail, BackFails,
         MachineStops, ScriptDies, OperatorStops, OperatorStarts, Open, Goes, StopService, dbVars,
         restoreVars
    <2> QED BY <2>1 DEF JournalCovers, Whole
  <1>2. CASE MigrateOperations
    BY <1>2 DEF JournalCovers, MigrateOperations, restoreVars, Migrated, Whole
  <1>3. CASE MigrateData
    BY <1>3 DEF JournalCovers, MigrateData, restoreVars, Migrated, Whole
  <1>4. CASE Write
    BY <1>4 DEF JournalCovers, TypeOK, Write, restoreVars, Whole, Pair, Content, Files
  <1>5. CASE RemoveLogs
    BY <1>5 DEF JournalCovers, RestoreIsJournalled, RemoveLogs
  <1>6. CASE RenameData
    BY <1>6 DEF JournalCovers, RestoreIsJournalled, RenameData, Rename
  <1>7. CASE RenameOperations
    BY <1>7 DEF JournalCovers, RestoreIsJournalled, RenameOperations, Rename
  <1>8. CASE EndRestore
    BY <1>8 DEF JournalCovers, EndRestore, dbVars
  <1>9. CASE Backup
    BY <1>9 DEF JournalCovers, TypeOK, RestoreIsJournalled, Backup, dbVars, Goes
  <1>10. CASE Commit
    BY <1>10 DEF JournalCovers, RestoreIsJournalled, Commit, dbVars, Goes
  <1>11. CASE RestoreDatabase
    BY <1>11 DEF JournalCovers, BackupIsGood, BackedUp, RestoreDatabase, Goes, BeginRestore,
                 Resumes, TypeOK, Deploys, Whole, dbVars
  <1>12. CASE Recovered
    BY <1>12 DEF JournalCovers, OpenIsCurrent, Recovered, dbVars, ServiceIsReady
  <1>13. CASE OperatorRestores
    BY <1>13 DEF JournalCovers, OperatorRestores, dbVars, BeginRestore
  <1> QED BY <1>1, <1>2, <1>3, <1>4, <1>5, <1>6, <1>7, <1>8, <1>9, <1>10, <1>11, <1>12, <1>13, Steps

\* A restore runs only for the set its journal names, and not during the way
\* forward.
LEMMA RestoreIsJournalledStep == IInv /\ [Next]_vars => RestoreIsJournalled'
  <1> SUFFICES ASSUME RestoreIsJournalled, TypeOK, OpenIsCurrent, ServiceIsStopped,
                  ReleasesGoForward, Next
               PROVE  RestoreIsJournalled'
    BY DEF IInv, vars, dbVars, restoreVars, releaseVars, RestoreIsJournalled
  <1>1. CASE StartService \/ MigrateOperations \/ Write \/ ProcessDies \/ Prepare \/ OperatorStops
            \/ OperatorStarts
    <2>1. UNCHANGED <<journal, cli, script>>
      BY <1>1 DEF StartService, MigrateOperations, Write, ProcessDies, Prepare, OperatorStops,
         OperatorStarts, Open, StopService, restoreVars, releaseVars
    <2> QED BY <2>1 DEF RestoreIsJournalled
  <1>2. CASE MigrateData
    BY <1>2 DEF RestoreIsJournalled, TypeOK, OpenIsCurrent, MigrateData, restoreVars, Scripts
  <1>3. CASE RemoveLogs
    BY <1>3 DEF RestoreIsJournalled, RemoveLogs, releaseVars
  <1>4. CASE RenameData
    BY <1>4 DEF RestoreIsJournalled, RenameData, releaseVars, Rename
  <1>5. CASE RenameOperations
    BY <1>5 DEF RestoreIsJournalled, RenameOperations, releaseVars, Rename
  <1>6. CASE EndRestore
    <2>1. CASE live = snaps[journal]
      <3>1. /\ journal' = 0 /\ cli' = "none" /\ script'.n = script.n
            /\ (script'.at = script.at /\ script.at # "restoring") \/ script'.at = "relink"
        BY <1>6, <2>1 DEF TypeOK, Scripts, EndRestore
      <3> QED BY <1>6, <3>1, DeploymentAssumption DEF RestoreIsJournalled, EndRestore, TypeOK,
         Scripts
    <2>2. CASE live # snaps[journal]
      BY <1>6, <2>2 DEF RestoreIsJournalled, EndRestore
    <2> QED BY <2>1, <2>2
  <1>7. CASE RestoreFails
    BY <1>7 DEF RestoreIsJournalled, RestoreFails, releaseVars
  <1>8. CASE Begin
    BY <1>8 DEF RestoreIsJournalled, TypeOK, ServiceIsStopped, ReleasesGoForward, Begin,
       restoreVars, Scripts
  <1>9. CASE StopForBackup
    BY <1>9 DEF RestoreIsJournalled, StopForBackup, restoreVars, Goes
  <1>10. CASE Backup
    BY <1>10 DEF RestoreIsJournalled, Backup, Goes
  <1>11. CASE Link
    BY <1>11 DEF RestoreIsJournalled, Link, restoreVars, Goes
  <1>12. CASE PrepareRefused
    BY <1>12 DEF RestoreIsJournalled, PrepareRefused, restoreVars, Goes
  <1>13. CASE Start
    BY <1>13 DEF RestoreIsJournalled, Start, restoreVars, Goes
  <1>14. CASE Ready
    BY <1>14 DEF RestoreIsJournalled, Ready, restoreVars, Goes
  <1>15. CASE Commit
    BY <1>15 DEF RestoreIsJournalled, Commit, Goes
  <1>16. CASE RollBack
    BY <1>16 DEF RestoreIsJournalled, RollBack, restoreVars, Goes
  <1>17. CASE RestoreDatabase
    <2>1. script'.n = script.n /\ script'.at = "restoring" /\ script.n \in Deploys
      BY <1>17 DEF TypeOK, Scripts, RestoreDatabase, Goes
    <2> QED BY <1>17, <2>1 DEF RestoreIsJournalled, RestoreDatabase, BeginRestore, Deploys
  <1>18. CASE Relink
    BY <1>18 DEF RestoreIsJournalled, Relink, restoreVars, Goes
  <1>19. CASE Restart
    BY <1>19 DEF RestoreIsJournalled, Restart, restoreVars, Goes
  <1>20. CASE Recovered
    BY <1>20 DEF RestoreIsJournalled, Recovered, Goes
  <1>21. CASE GiveUp
    BY <1>21 DEF RestoreIsJournalled, GiveUp, restoreVars
  <1>22. CASE Fail
    BY <1>22 DEF RestoreIsJournalled, TypeOK, Fail, restoreVars, Before, After, Scripts
  <1>23. CASE BackFails
    BY <1>23 DEF RestoreIsJournalled, BackFails, restoreVars
  <1>24. CASE MachineStops
    BY <1>24 DEF RestoreIsJournalled, MachineStops
  <1>25. CASE ScriptDies
    BY <1>25 DEF RestoreIsJournalled, ScriptDies
  <1>26. CASE OperatorRestores
    BY <1>26 DEF RestoreIsJournalled, OperatorRestores, releaseVars, BeginRestore
  <1> QED BY <1>1, <1>2, <1>3, <1>4, <1>5, <1>6, <1>7, <1>8, <1>9, <1>10, <1>11, <1>12, <1>13,
          <1>14, <1>15, <1>16, <1>17, <1>18, <1>19, <1>20, <1>21, <1>22, <1>23, <1>24, <1>25, <1>26,
          Steps

\* openDatabase looks at the journal, and current and journal change only
\* while nobody has the database open.
LEMMA OpenIsCurrentStep == IInv /\ [Next]_vars => OpenIsCurrent'
  <1> SUFFICES ASSUME OpenIsCurrent, TypeOK, ServiceIsStopped, Next
               PROVE  OpenIsCurrent'
    BY DEF IInv, vars, dbVars, restoreVars, releaseVars, OpenIsCurrent
  <1>1. CASE Write \/ RemoveLogs \/ RenameData \/ RenameOperations \/ RestoreFails \/ Begin \/
            Backup \/ PrepareRefused \/ Start \/ Ready \/ Commit \/ Restart \/ Recovered \/ GiveUp
            \/ Fail \/ BackFails \/ ScriptDies \/ OperatorStarts
    <2>1. UNCHANGED <<journal, app, current>>
      BY <1>1 DEF Write, RemoveLogs, RenameData, RenameOperations, RestoreFails, Begin, Backup,
         PrepareRefused, Start, Ready, Commit, Restart, Recovered, GiveUp, Fail, BackFails,
         ScriptDies, OperatorStarts, Rename, Goes, restoreVars, releaseVars
    <2> QED BY <2>1 DEF OpenIsCurrent
  <1>2. CASE StartService
    BY <1>2 DEF OpenIsCurrent, StartService, restoreVars, releaseVars, Open, Opens
  <1>3. CASE MigrateOperations
    BY <1>3 DEF OpenIsCurrent, MigrateOperations, restoreVars, releaseVars
  <1>4. CASE MigrateData
    BY <1>4 DEF OpenIsCurrent, TypeOK, MigrateData, restoreVars, Processes
  <1>5. CASE ProcessDies
    BY <1>5 DEF OpenIsCurrent, ProcessDies, restoreVars, releaseVars
  <1>6. CASE EndRestore
    BY <1>6 DEF OpenIsCurrent, EndRestore
  <1>7. CASE StopForBackup
    BY <1>7 DEF OpenIsCurrent, TypeOK, StopForBackup, restoreVars, StopService, Processes
  <1>8. CASE Link
    BY <1>8 DEF OpenIsCurrent, ServiceIsStopped, Link, restoreVars, Goes
  <1>9. CASE Prepare
    BY <1>9 DEF OpenIsCurrent, Prepare, restoreVars, releaseVars, Open, Opens
  <1>10. CASE RollBack
    BY <1>10 DEF OpenIsCurrent, TypeOK, RollBack, restoreVars, StopService, Processes
  <1>11. CASE RestoreDatabase
    BY <1>11 DEF OpenIsCurrent, ServiceIsStopped, RestoreDatabase, Goes, BeginRestore, Resumes
  <1>12. CASE Relink
    BY <1>12 DEF OpenIsCurrent, ServiceIsStopped, Relink, restoreVars, Goes
  <1>13. CASE MachineStops
    BY <1>13 DEF OpenIsCurrent, MachineStops
  <1>14. CASE OperatorStops
    BY <1>14 DEF OpenIsCurrent, OperatorStops, restoreVars, releaseVars, StopService
  <1>15. CASE OperatorRestores
    BY <1>15 DEF OpenIsCurrent, OperatorRestores, releaseVars, BeginRestore
  <1> QED BY <1>1, <1>2, <1>3, <1>4, <1>5, <1>6, <1>7, <1>8, <1>9, <1>10, <1>11, <1>12, <1>13,
          <1>14, <1>15, Steps

\* A release that db:prepare may still be migrating for is marked, so that no
\* deployment begins.
LEMMA PrepareIsMarkedStep == IInv /\ [Next]_vars => PrepareIsMarked'
  <1> SUFFICES ASSUME PrepareIsMarked, TypeOK, OpenIsCurrent, Next
               PROVE  PrepareIsMarked'
    BY DEF IInv, vars, dbVars, restoreVars, releaseVars, PrepareIsMarked
  <1>1. CASE Write \/ RemoveLogs \/ RenameData \/ RenameOperations \/ RestoreFails \/
            OperatorRestores \/ OperatorStarts
    <2>1. UNCHANGED <<app, current, marked, script>>
      BY <1>1 DEF Write, RemoveLogs, RenameData, RenameOperations, RestoreFails, OperatorRestores,
         OperatorStarts, Rename, BeginRestore, releaseVars
    <2> QED BY <2>1 DEF PrepareIsMarked
  <1>2. CASE StartService
    BY <1>2 DEF PrepareIsMarked, StartService, releaseVars, Open
  <1>3. CASE MigrateOperations
    BY <1>3 DEF PrepareIsMarked, MigrateOperations, releaseVars
  <1>4. CASE MigrateData
    BY <1>4 DEF PrepareIsMarked, TypeOK, MigrateData, Scripts, Processes
  <1>5. CASE ProcessDies
    BY <1>5 DEF PrepareIsMarked, ProcessDies, releaseVars
  <1>6. CASE EndRestore
    BY <1>6 DEF PrepareIsMarked, TypeOK, EndRestore, Before, Scripts
  <1>7. CASE Begin
    BY <1>7 DEF PrepareIsMarked, Begin
  <1>8. CASE StopForBackup
    BY <1>8 DEF PrepareIsMarked, TypeOK, StopForBackup, Goes, StopService, After, Back, Scripts,
       Processes
  <1>9. CASE Backup
    BY <1>9 DEF PrepareIsMarked, Backup, Goes, Before
  <1>10. CASE Link
    BY <1>10 DEF PrepareIsMarked, Link, Goes, Before
  <1>11. CASE Prepare
    BY <1>11 DEF PrepareIsMarked, Prepare, releaseVars
  <1>12. CASE PrepareRefused
    BY <1>12 DEF PrepareIsMarked, OpenIsCurrent, PrepareRefused, Opens, Goes
  <1>13. CASE Start
    BY <1>13 DEF PrepareIsMarked, Start, Goes, Before
  <1>14. CASE Ready
    BY <1>14 DEF PrepareIsMarked, Ready, Goes, Before
  <1>15. CASE Commit
    BY <1>15 DEF PrepareIsMarked, Commit, Goes, Before
  <1>16. CASE RollBack
    BY <1>16 DEF PrepareIsMarked, TypeOK, RollBack, Goes, StopService, Before, Processes
  <1>17. CASE RestoreDatabase
    BY <1>17 DEF PrepareIsMarked, RestoreDatabase, Goes, BeginRestore, Resumes, Before
  <1>18. CASE Relink
    BY <1>18 DEF PrepareIsMarked, Relink, Goes, Before
  <1>19. CASE Restart
    BY <1>19 DEF PrepareIsMarked, Restart, Goes, Before
  <1>20. CASE Recovered
    BY <1>20 DEF PrepareIsMarked, Recovered, Goes, Before
  <1>21. CASE GiveUp
    BY <1>21 DEF PrepareIsMarked, GiveUp
  <1>22. CASE Fail
    BY <1>22 DEF PrepareIsMarked, TypeOK, Fail, Before, Scripts
  <1>23. CASE BackFails
    BY <1>23 DEF PrepareIsMarked, BackFails
  <1>24. CASE MachineStops
    BY <1>24 DEF PrepareIsMarked, MachineStops, Before
  <1>25. CASE ScriptDies
    BY <1>25 DEF PrepareIsMarked, ScriptDies, Before
  <1>26. CASE OperatorStops
    BY <1>26 DEF PrepareIsMarked, OpenIsCurrent, OperatorStops, releaseVars, StopService
  <1> QED BY <1>1, <1>2, <1>3, <1>4, <1>5, <1>6, <1>7, <1>8, <1>9, <1>10, <1>11, <1>12, <1>13,
          <1>14, <1>15, <1>16, <1>17, <1>18, <1>19, <1>20, <1>21, <1>22, <1>23, <1>24, <1>25, <1>26,
          Steps

\* The script stops the service before it touches the database, and nobody
\* starts it in between.
LEMMA ServiceIsStoppedStep == IInv /\ [Next]_vars => ServiceIsStopped'
  <1> SUFFICES ASSUME ServiceIsStopped, TypeOK, PrepareIsMarked, Next
               PROVE  ServiceIsStopped'
    BY DEF IInv, vars, dbVars, restoreVars, releaseVars, ServiceIsStopped
  <1>1. CASE Write \/ RemoveLogs \/ RenameData \/ RenameOperations \/ RestoreFails \/
            OperatorRestores
    <2>1. UNCHANGED <<app, want, script>>
      BY <1>1 DEF Write, RemoveLogs, RenameData, RenameOperations, RestoreFails, OperatorRestores,
         Rename, BeginRestore, releaseVars
    <2> QED BY <2>1 DEF ServiceIsStopped
  <1>2. CASE StartService
    BY <1>2 DEF ServiceIsStopped, StartService, releaseVars
  <1>3. CASE MigrateOperations
    BY <1>3 DEF ServiceIsStopped, MigrateOperations, releaseVars
  <1>4. CASE MigrateData
    BY <1>4 DEF ServiceIsStopped, TypeOK, MigrateData, Processes
  <1>5. CASE ProcessDies
    BY <1>5 DEF ServiceIsStopped, ProcessDies, releaseVars
  <1>6. CASE EndRestore
    BY <1>6 DEF ServiceIsStopped, EndRestore
  <1>7. CASE Begin
    BY <1>7 DEF ServiceIsStopped, Begin
  <1>8. CASE StopForBackup
    BY <1>8 DEF ServiceIsStopped, TypeOK, PrepareIsMarked, StopForBackup, Goes, StopService,
       Processes
  <1>9. CASE Backup
    BY <1>9 DEF ServiceIsStopped, Backup, Goes
  <1>10. CASE Link
    BY <1>10 DEF ServiceIsStopped, Link, Goes
  <1>11. CASE Prepare
    BY <1>11 DEF ServiceIsStopped, Prepare, releaseVars, Open
  <1>12. CASE PrepareRefused
    BY <1>12 DEF ServiceIsStopped, PrepareRefused, Goes
  <1>13. CASE Start
    BY <1>13 DEF ServiceIsStopped, Start, Goes
  <1>14. CASE Ready
    BY <1>14 DEF ServiceIsStopped, Ready, Goes
  <1>15. CASE Commit
    BY <1>15 DEF ServiceIsStopped, Commit, Goes
  <1>16. CASE RollBack
    BY <1>16 DEF ServiceIsStopped, TypeOK, PrepareIsMarked, RollBack, Goes, StopService, Processes
  <1>17. CASE RestoreDatabase
    BY <1>17 DEF ServiceIsStopped, RestoreDatabase, Goes, BeginRestore, Resumes
  <1>18. CASE Relink
    BY <1>18 DEF ServiceIsStopped, Relink, Goes
  <1>19. CASE Restart
    BY <1>19 DEF ServiceIsStopped, Restart, Goes
  <1>20. CASE Recovered
    BY <1>20 DEF ServiceIsStopped, Recovered, Goes
  <1>21. CASE GiveUp
    BY <1>21 DEF ServiceIsStopped, GiveUp
  <1>22. CASE Fail
    BY <1>22 DEF ServiceIsStopped, TypeOK, Fail, Scripts
  <1>23. CASE BackFails
    BY <1>23 DEF ServiceIsStopped, BackFails
  <1>24. CASE MachineStops
    BY <1>24 DEF ServiceIsStopped, MachineStops
  <1>25. CASE ScriptDies
    BY <1>25 DEF ServiceIsStopped, ScriptDies
  <1>26. CASE OperatorStops
    BY <1>26 DEF ServiceIsStopped, OperatorStops, releaseVars
  <1>27. CASE OperatorStarts
    BY <1>27 DEF ServiceIsStopped, OperatorStarts, releaseVars
  <1> QED BY <1>1, <1>2, <1>3, <1>4, <1>5, <1>6, <1>7, <1>8, <1>9, <1>10, <1>11, <1>12, <1>13,
          <1>14, <1>15, <1>16, <1>17, <1>18, <1>19, <1>20, <1>21, <1>22, <1>23, <1>24, <1>25, <1>26,
          <1>27, Steps

\* The link goes to the new release, or back to the one before it.
LEMMA ReleasesGoForwardStep == IInv /\ [Next]_vars => ReleasesGoForward'
  <1> SUFFICES ASSUME ReleasesGoForward, TypeOK, Next PROVE ReleasesGoForward'
    BY DEF IInv, vars, dbVars, restoreVars, releaseVars, ReleasesGoForward
  <1>1. CASE StartService \/ MigrateOperations \/ Write \/ ProcessDies \/ RemoveLogs \/ RenameData
            \/ RenameOperations \/ RestoreFails \/ Prepare \/ OperatorStops \/ OperatorRestores \/
            OperatorStarts
    <2>1. UNCHANGED <<current, script>>
      BY <1>1 DEF StartService, MigrateOperations, Write, ProcessDies, RemoveLogs, RenameData,
         RenameOperations, RestoreFails, Prepare, OperatorStops, OperatorRestores, OperatorStarts,
         Open, Rename, StopService, BeginRestore, releaseVars
    <2> QED BY <2>1 DEF ReleasesGoForward
  <1>2. CASE MigrateData
    BY <1>2 DEF ReleasesGoForward, TypeOK, MigrateData, Before, Scripts
  <1>3. CASE EndRestore
    BY <1>3 DEF ReleasesGoForward, TypeOK, EndRestore, Before, Scripts
  <1>4. CASE Begin
    BY <1>4 DEF ReleasesGoForward, TypeOK, Begin, Scripts
  <1>5. CASE StopForBackup
    BY <1>5 DEF ReleasesGoForward, StopForBackup, Goes, Before
  <1>6. CASE Backup
    BY <1>6 DEF ReleasesGoForward, Backup, Goes, Before
  <1>7. CASE Link
    BY <1>7 DEF ReleasesGoForward, TypeOK, Link, Goes, Before, Scripts
  <1>8. CASE PrepareRefused
    BY <1>8 DEF ReleasesGoForward, PrepareRefused, Goes, Before
  <1>9. CASE Start
    BY <1>9 DEF ReleasesGoForward, Start, Goes, Before
  <1>10. CASE Ready
    BY <1>10 DEF ReleasesGoForward, Ready, Goes, Before
  <1>11. CASE Commit
    BY <1>11 DEF ReleasesGoForward, Commit, Goes, Before
  <1>12. CASE RollBack
    BY <1>12 DEF ReleasesGoForward, RollBack, Goes, Before
  <1>13. CASE RestoreDatabase
    BY <1>13 DEF ReleasesGoForward, RestoreDatabase, Goes, Resumes, Before
  <1>14. CASE Relink
    BY <1>14 DEF ReleasesGoForward, TypeOK, Relink, Goes, Scripts
  <1>15. CASE Restart
    BY <1>15 DEF ReleasesGoForward, Restart, Goes, Before
  <1>16. CASE Recovered
    BY <1>16 DEF ReleasesGoForward, Recovered, Goes, Before
  <1>17. CASE GiveUp
    BY <1>17 DEF ReleasesGoForward, GiveUp, Before
  <1>18. CASE Fail
    BY <1>18 DEF ReleasesGoForward, TypeOK, Fail, Before, After, Scripts
  <1>19. CASE BackFails
    BY <1>19 DEF ReleasesGoForward, BackFails, Before
  <1>20. CASE MachineStops
    BY <1>20 DEF ReleasesGoForward, MachineStops, Before
  <1>21. CASE ScriptDies
    BY <1>21 DEF ReleasesGoForward, ScriptDies, Before
  <1> QED BY <1>1, <1>2, <1>3, <1>4, <1>5, <1>6, <1>7, <1>8, <1>9, <1>10, <1>11, <1>12, <1>13,
          <1>14, <1>15, <1>16, <1>17, <1>18, <1>19, <1>20, <1>21, Steps

\* Only a process of the current release migrates, and the link goes back only
\* after the database.
LEMMA SchemaIsCurrentStep == IInv /\ [Next]_vars => SchemaIsCurrent'
  <1> SUFFICES ASSUME SchemaIsCurrent, TypeOK, RestoreIsJournalled, OpenIsCurrent, ServiceIsStopped,
                  ReleasesGoForward, BackupIsGood, Next
               PROVE  SchemaIsCurrent'
    BY DEF IInv, vars, dbVars, restoreVars, releaseVars, SchemaIsCurrent, UpTo
  <1>1. CASE StartService \/ ProcessDies \/ RestoreFails \/ Prepare \/ OperatorStops \/
            OperatorStarts
    <2>1. UNCHANGED <<live, snaps, journal, current, script>>
      BY <1>1 DEF StartService, ProcessDies, RestoreFails, Prepare, OperatorStops, OperatorStarts,
         Open, StopService, dbVars, restoreVars, releaseVars
    <2> QED BY <2>1 DEF SchemaIsCurrent, UpTo
  <1>2. CASE MigrateOperations
    BY <1>2 DEF SchemaIsCurrent, TypeOK, OpenIsCurrent, ServiceIsStopped, MigrateOperations,
       restoreVars, releaseVars, Migrated, UpTo
  <1>3. CASE MigrateData
    BY <1>3 DEF SchemaIsCurrent, TypeOK, OpenIsCurrent, ServiceIsStopped, MigrateData, restoreVars,
       Migrated, UpTo, Scripts
  <1>4. CASE Write
    BY <1>4 DEF SchemaIsCurrent, ServiceIsStopped, Write, restoreVars, releaseVars, UpTo
  <1>5. CASE RemoveLogs
    BY <1>5 DEF SchemaIsCurrent, RestoreIsJournalled, RemoveLogs, releaseVars
  <1>6. CASE RenameData
    BY <1>6 DEF SchemaIsCurrent, RestoreIsJournalled, RenameData, releaseVars, Rename
  <1>7. CASE RenameOperations
    BY <1>7 DEF SchemaIsCurrent, RestoreIsJournalled, RenameOperations, releaseVars, Rename
  <1>8. CASE EndRestore
    <2>1. CASE live = snaps[journal]
      <3>1. journal' = 0 /\ journal # 0 /\ live' = live /\ current' = current
        BY <1>8, <2>1 DEF EndRestore, RestoreIsJournalled, dbVars
      <3>2. UpTo(live, current)
        BY <2>1, <3>1 DEF SchemaIsCurrent
      <3>3. ASSUME script'.at = "relink" PROVE UpTo(live, script'.before)
        <4>1. script.at = "restoring" /\ script'.before = script.before
          BY <1>8, <2>1, <3>3 DEF EndRestore, RestoreIsJournalled, TypeOK, Scripts
        <4> QED BY <4>1, <2>1 DEF RestoreIsJournalled, BackupIsGood, BackedUp
      <3> QED BY <3>1, <3>2, <3>3 DEF SchemaIsCurrent, UpTo
    <2>2. CASE live # snaps[journal]
      BY <1>8, <2>2 DEF EndRestore, SchemaIsCurrent, UpTo, dbVars
    <2> QED BY <2>1, <2>2
  <1>9. CASE Begin
    BY <1>9 DEF SchemaIsCurrent, Begin, dbVars, restoreVars
  <1>10. CASE StopForBackup
    BY <1>10 DEF SchemaIsCurrent, StopForBackup, restoreVars, Goes
  <1>11. CASE Backup
    BY <1>11 DEF SchemaIsCurrent, TypeOK, RestoreIsJournalled, Backup, dbVars, Goes
  <1>12. CASE Link
    <2> DEFINE pair == IF journal = 0 THEN live ELSE snaps[journal]
    <2>1. pair \in Pair \cup {NoSnapshot}
      BY DeploymentAssumption DEF TypeOK, Deploys
    <2>2. \A f \in Files : pair[f].schema \in Int
      BY <2>1, DeploymentAssumption DEF Pair, Content, NoSnapshot, NoFile
    <2>3. /\ current' = script.n /\ script'.at = "prepare"
          /\ current <= script.n /\ script.n \in Nat /\ current \in Nat
      BY <1>12, DeploymentAssumption DEF Link, Goes, ReleasesGoForward, TypeOK, Scripts
    <2> HIDE DEF pair
    <2>4. UpTo(pair, current')
      BY <2>2, <2>3 DEF SchemaIsCurrent, UpTo, pair
    <2> QED BY <1>12, <2>3, <2>4 DEF SchemaIsCurrent, UpTo, Link, pair, dbVars, restoreVars
  <1>13. CASE PrepareRefused
    BY <1>13 DEF SchemaIsCurrent, PrepareRefused, dbVars, restoreVars, Goes
  <1>14. CASE Start
    BY <1>14 DEF SchemaIsCurrent, Start, dbVars, restoreVars, Goes
  <1>15. CASE Ready
    BY <1>15 DEF SchemaIsCurrent, Ready, dbVars, restoreVars, Goes
  <1>16. CASE Commit
    BY <1>16 DEF SchemaIsCurrent, RestoreIsJournalled, Commit, dbVars, Goes
  <1>17. CASE RollBack
    BY <1>17 DEF SchemaIsCurrent, RollBack, restoreVars, Goes
  <1>18. CASE RestoreDatabase
    <2>1. /\ script.at = "restore" /\ script'.at = "restoring" /\ script.n \in Deploys
          /\ journal \in {0, script.n} /\ journal' = script.n /\ snaps' = snaps /\ current' =
             current
      BY <1>18 DEF TypeOK, Scripts, RestoreDatabase, Goes, BeginRestore, Resumes
    <2>2. snaps[script.n] \in Pair /\ UpTo(snaps[script.n], script.before)
      BY <1>18, <2>1 DEF BackupIsGood, BackedUp, TypeOK, RestoreDatabase, BeginRestore
    <2>3. script.before <= current /\ script.before \in Nat /\ current \in Nat
      BY <2>1, DeploymentAssumption DEF ReleasesGoForward, TypeOK, Scripts
    <2>4. \A f \in Files : snaps[script.n][f].schema \in Nat
      BY <2>2, DeploymentAssumption DEF Pair, Content
    <2>5. UpTo(snaps[script.n], current)
      BY <2>2, <2>3, <2>4 DEF UpTo
    <2> QED BY <2>1, <2>5 DEF SchemaIsCurrent, UpTo, Deploys
  <1>19. CASE Relink
    BY <1>19 DEF SchemaIsCurrent, RestoreIsJournalled, Relink, dbVars, restoreVars, Goes
  <1>20. CASE Restart
    BY <1>20 DEF SchemaIsCurrent, Restart, dbVars, restoreVars, Goes
  <1>21. CASE Recovered
    BY <1>21 DEF SchemaIsCurrent, OpenIsCurrent, Recovered, dbVars, Goes, ServiceIsReady
  <1>22. CASE GiveUp
    BY <1>22 DEF SchemaIsCurrent, GiveUp, dbVars, restoreVars
  <1>23. CASE Fail
    BY <1>23 DEF SchemaIsCurrent, TypeOK, Fail, dbVars, restoreVars, Scripts
  <1>24. CASE BackFails
    BY <1>24 DEF SchemaIsCurrent, BackFails, dbVars, restoreVars
  <1>25. CASE MachineStops
    BY <1>25 DEF SchemaIsCurrent, MachineStops, dbVars
  <1>26. CASE ScriptDies
    BY <1>26 DEF SchemaIsCurrent, ScriptDies, dbVars
  <1>27. CASE OperatorRestores
    BY <1>27 DEF SchemaIsCurrent, OperatorRestores, dbVars, releaseVars, BeginRestore
  <1> QED BY <1>1, <1>2, <1>3, <1>4, <1>5, <1>6, <1>7, <1>8, <1>9, <1>10, <1>11, <1>12, <1>13,
          <1>14, <1>15, <1>16, <1>17, <1>18, <1>19, <1>20, <1>21, <1>22, <1>23, <1>24, <1>25, <1>26,
          <1>27, Steps

\* The backup is of a whole, stopped database, and stays as it was made.
LEMMA BackupIsGoodStep == IInv /\ [Next]_vars => BackupIsGood'
  <1> SUFFICES ASSUME BackupIsGood, TypeOK, JournalCovers, RestoreIsJournalled, OpenIsCurrent,
                  ReleasesGoForward, SchemaIsCurrent, Next
               PROVE  BackupIsGood'
    BY DEF IInv, vars, dbVars, restoreVars, releaseVars, BackupIsGood, UpTo, BackedUp, Whole
  <1>1. CASE StartService \/ MigrateOperations \/ Write \/ ProcessDies \/ RemoveLogs \/ RenameData
            \/ RenameOperations \/ RestoreFails \/ Prepare \/ OperatorStops \/ OperatorStarts
    <2>1. UNCHANGED <<snaps, journal, script>>
      BY <1>1 DEF StartService, MigrateOperations, Write, ProcessDies, RemoveLogs, RenameData,
         RenameOperations, RestoreFails, Prepare, OperatorStops, OperatorStarts, Open, Rename,
         StopService, restoreVars, releaseVars
    <2> QED BY <2>1 DEF BackupIsGood, UpTo, BackedUp, Whole
  <1>2. CASE MigrateData
    BY <1>2, DeploymentAssumption DEF BackupIsGood, TypeOK, JournalCovers, RestoreIsJournalled,
       SchemaIsCurrent, ReleasesGoForward, OpenIsCurrent, MigrateData, restoreVars, BackedUp,
       Scripts
  <1>3. CASE EndRestore
    BY <1>3 DEF BackupIsGood, TypeOK, RestoreIsJournalled, EndRestore, BackedUp, Scripts
  <1>4. CASE Begin
    BY <1>4 DEF BackupIsGood, Begin, restoreVars, BackedUp
  <1>5. CASE StopForBackup
    BY <1>5 DEF BackupIsGood, StopForBackup, restoreVars, Goes, BackedUp
  <1>6. CASE Backup
    BY <1>6 DEF BackupIsGood, TypeOK, JournalCovers, RestoreIsJournalled, SchemaIsCurrent,
       ReleasesGoForward, Backup, Goes, After, Back, Scripts
  <1>7. CASE Link
    BY <1>7 DEF BackupIsGood, Link, restoreVars, Goes, BackedUp
  <1>8. CASE PrepareRefused
    BY <1>8 DEF BackupIsGood, PrepareRefused, restoreVars, Goes, BackedUp
  <1>9. CASE Start
    BY <1>9 DEF BackupIsGood, Start, restoreVars, Goes, BackedUp
  <1>10. CASE Ready
    BY <1>10 DEF BackupIsGood, Ready, restoreVars, Goes, BackedUp
  <1>11. CASE Commit
    BY <1>11 DEF BackupIsGood, Commit, Goes, BackedUp
  <1>12. CASE RollBack
    BY <1>12 DEF BackupIsGood, RollBack, restoreVars, Goes, BackedUp
  <1>13. CASE RestoreDatabase
    BY <1>13 DEF BackupIsGood, RestoreDatabase, Goes, BeginRestore, Resumes, BackedUp
  <1>14. CASE Relink
    BY <1>14 DEF BackupIsGood, Relink, restoreVars, Goes, BackedUp
  <1>15. CASE Restart
    BY <1>15 DEF BackupIsGood, Restart, restoreVars, Goes, BackedUp
  <1>16. CASE Recovered
    BY <1>16 DEF BackupIsGood, Recovered, Goes, BackedUp
  <1>17. CASE GiveUp
    BY <1>17 DEF BackupIsGood, GiveUp, restoreVars, BackedUp
  <1>18. CASE Fail
    BY <1>18 DEF BackupIsGood, TypeOK, Fail, restoreVars, BackedUp, After, Scripts
  <1>19. CASE BackFails
    BY <1>19 DEF BackupIsGood, BackFails, restoreVars, BackedUp
  <1>20. CASE MachineStops
    BY <1>20 DEF BackupIsGood, MachineStops, BackedUp
  <1>21. CASE ScriptDies
    BY <1>21 DEF BackupIsGood, ScriptDies, BackedUp
  <1>22. CASE OperatorRestores
    BY <1>22 DEF BackupIsGood, OperatorRestores, releaseVars, BeginRestore
  <1> QED BY <1>1, <1>2, <1>3, <1>4, <1>5, <1>6, <1>7, <1>8, <1>9, <1>10, <1>11, <1>12, <1>13,
          <1>14, <1>15, <1>16, <1>17, <1>18, <1>19, <1>20, <1>21, <1>22, Steps

\* A restore leaves each file a copy to rename or the restored file.
LEMMA CopyOrRenamedStep == IInv /\ [Next]_vars => CopyOrRenamed'
  <1> SUFFICES ASSUME CopyOrRenamed, TypeOK, RestoreIsJournalled, OpenIsCurrent, StepsTaken, Next
               PROVE  CopyOrRenamed'
    BY DEF IInv, vars, dbVars, restoreVars, releaseVars, CopyOrRenamed, Whole
  <1>1. CASE StartService \/ ProcessDies \/ RestoreFails \/ Begin \/ Link \/ Prepare \/
            PrepareRefused \/ Start \/ Ready \/ Relink \/ Restart \/ GiveUp \/ Fail \/ BackFails \/
            MachineStops \/ ScriptDies \/ OperatorStarts
    <2>1. UNCHANGED <<live, wal, snaps, journal, staged>>
      BY <1>1 DEF StartService, ProcessDies, RestoreFails, Begin, Link, Prepare, PrepareRefused,
         Start, Ready, Relink, Restart, GiveUp, Fail, BackFails, MachineStops, ScriptDies,
         OperatorStarts, Open, Goes, dbVars, restoreVars
    <2> QED BY <2>1 DEF CopyOrRenamed, Whole
  <1>2. CASE MigrateOperations
    BY <1>2 DEF CopyOrRenamed, OpenIsCurrent, MigrateOperations, restoreVars
  <1>3. CASE MigrateData
    BY <1>3 DEF CopyOrRenamed, OpenIsCurrent, MigrateData, restoreVars
  <1>4. CASE Write
    BY <1>4 DEF CopyOrRenamed, OpenIsCurrent, Write, restoreVars
  <1>5. CASE RemoveLogs
    BY <1>5 DEF CopyOrRenamed, RemoveLogs
  <1>6. CASE RenameData
    BY <1>6 DEF CopyOrRenamed, TypeOK, StepsTaken, RenameData, Rename, Pair
  <1>7. CASE RenameOperations
    BY <1>7 DEF CopyOrRenamed, TypeOK, StepsTaken, RenameOperations, Rename, Pair
  <1>8. CASE EndRestore
    BY <1>8 DEF CopyOrRenamed, EndRestore, dbVars
  <1>9. CASE StopForBackup
    BY <1>9 DEF CopyOrRenamed, StopForBackup, restoreVars, StopService
  <1>10. CASE Backup
    <2> SUFFICES ASSUME journal # 0 PROVE CopyOrRenamed'
      BY <1>10 DEF CopyOrRenamed, Backup
    <2>1. journal < script.n /\ journal \in Deploys
      BY <1>10, DeploymentAssumption DEF RestoreIsJournalled, Backup, Goes, TypeOK, Deploys, Scripts
    <2>2. snaps'[journal] = snaps[journal]
      BY <1>10, <2>1, DeploymentAssumption DEF TypeOK, Backup, Deploys
    <2> QED BY <1>10, <2>2 DEF CopyOrRenamed, Backup, dbVars
  <1>11. CASE Commit
    BY <1>11 DEF CopyOrRenamed, RestoreIsJournalled, Commit, dbVars, Goes
  <1>12. CASE RollBack
    BY <1>12 DEF CopyOrRenamed, RollBack, restoreVars, StopService
  <1>13. CASE RestoreDatabase
    BY <1>13 DEF CopyOrRenamed, RestoreDatabase, dbVars, BeginRestore, Resumes
  <1>14. CASE Recovered
    BY <1>14 DEF CopyOrRenamed, OpenIsCurrent, Recovered, dbVars, ServiceIsReady
  <1>15. CASE OperatorStops
    BY <1>15 DEF CopyOrRenamed, OperatorStops, restoreVars, StopService
  <1>16. CASE OperatorRestores
    BY <1>16 DEF CopyOrRenamed, OperatorRestores, dbVars, BeginRestore
  <1> QED BY <1>1, <1>2, <1>3, <1>4, <1>5, <1>6, <1>7, <1>8, <1>9, <1>10, <1>11, <1>12, <1>13,
          <1>14, <1>15, <1>16, Steps

\* The logs go before the files, and the files before the comparison.
LEMMA StepsTakenStep == IInv /\ [Next]_vars => StepsTaken'
  <1> SUFFICES ASSUME StepsTaken, TypeOK, RestoreIsJournalled, OpenIsCurrent, Next
               PROVE  StepsTaken'
    BY DEF IInv, vars, dbVars, restoreVars, releaseVars, StepsTaken
  <1>1. CASE StartService \/ ProcessDies \/ Begin \/ Backup \/ Link \/ Prepare \/ PrepareRefused \/
            Start \/ Ready \/ Commit \/ Relink \/ Restart \/ Recovered \/ GiveUp \/ Fail \/
            BackFails \/ OperatorStarts
    <2>1. UNCHANGED <<wal, staged, cli>>
      BY <1>1 DEF StartService, ProcessDies, Begin, Backup, Link, Prepare, PrepareRefused, Start,
         Ready, Commit, Relink, Restart, Recovered, GiveUp, Fail, BackFails, OperatorStarts, Open,
         Goes, dbVars, restoreVars
    <2> QED BY <2>1 DEF StepsTaken
  <1>2. CASE MigrateOperations
    BY <1>2 DEF StepsTaken, RestoreIsJournalled, OpenIsCurrent, MigrateOperations, restoreVars
  <1>3. CASE MigrateData
    BY <1>3 DEF StepsTaken, RestoreIsJournalled, OpenIsCurrent, MigrateData, restoreVars
  <1>4. CASE Write
    BY <1>4 DEF StepsTaken, RestoreIsJournalled, OpenIsCurrent, Write, restoreVars
  <1>5. CASE RemoveLogs
    BY <1>5 DEF StepsTaken, RemoveLogs
  <1>6. CASE RenameData
    BY <1>6 DEF StepsTaken, TypeOK, RenameData, Rename, Files
  <1>7. CASE RenameOperations
    BY <1>7 DEF StepsTaken, TypeOK, RenameOperations, Rename, Files
  <1>8. CASE EndRestore
    BY <1>8 DEF StepsTaken, EndRestore, dbVars
  <1>9. CASE RestoreFails
    BY <1>9 DEF StepsTaken, RestoreFails, dbVars
  <1>10. CASE StopForBackup
    BY <1>10 DEF StepsTaken, StopForBackup, restoreVars, StopService
  <1>11. CASE RollBack
    BY <1>11 DEF StepsTaken, RollBack, restoreVars, StopService
  <1>12. CASE RestoreDatabase
    BY <1>12 DEF StepsTaken, RestoreDatabase, dbVars, BeginRestore, Resumes
  <1>13. CASE MachineStops
    BY <1>13 DEF StepsTaken, MachineStops, dbVars
  <1>14. CASE ScriptDies
    BY <1>14 DEF StepsTaken, ScriptDies, dbVars
  <1>15. CASE OperatorStops
    BY <1>15 DEF StepsTaken, OperatorStops, restoreVars, StopService
  <1>16. CASE OperatorRestores
    BY <1>16 DEF StepsTaken, OperatorRestores, dbVars, BeginRestore
  <1> QED BY <1>1, <1>2, <1>3, <1>4, <1>5, <1>6, <1>7, <1>8, <1>9, <1>10, <1>11, <1>12, <1>13,
          <1>14, <1>15, <1>16, Steps
-----------------------------------------------------------------------------
\* The system starts whole, with nothing going on.
LEMMA InitIInv == Init => IInv
  <1> SUFFICES ASSUME Init PROVE IInv
    OBVIOUS
  <1> USE DeploymentAssumption DEF Init
  <1>1. TypeOK
    <2>1. live \in Pair /\ staged \in [Files -> Content \cup {NoFile}]
      BY DEF Pair, Content, NoSnapshot
    <2>2. app \in Processes /\ script \in Scripts
      BY DEF Processes, Scripts
    <2> QED BY <2>1, <2>2 DEF TypeOK, Deploys
  <1>2. JournalCovers /\ RestoreIsJournalled /\ OpenIsCurrent
    BY DEF JournalCovers, Whole, Files, RestoreIsJournalled, OpenIsCurrent
  <1>3. PrepareIsMarked /\ ServiceIsStopped /\ ReleasesGoForward
    BY DEF PrepareIsMarked, Before, ServiceIsStopped, ReleasesGoForward
  <1>4. SchemaIsCurrent /\ BackupIsGood
    BY DEF SchemaIsCurrent, UpTo, BackupIsGood, BackedUp
  <1>5. CopyOrRenamed /\ StepsTaken
    BY DEF CopyOrRenamed, StepsTaken
  <1> QED BY <1>1, <1>2, <1>3, <1>4, <1>5 DEF IInv

\* The invariant the theorems rest on: it holds of every reachable state.
THEOREM Inductive == Spec => []IInv
  <1>1. IInv /\ [Next]_vars => IInv'
    BY TypeOKStep, JournalCoversStep, RestoreIsJournalledStep, OpenIsCurrentStep, PrepareIsMarkedStep,
       ServiceIsStoppedStep, ReleasesGoForwardStep, SchemaIsCurrentStep, BackupIsGoodStep,
       CopyOrRenamedStep, StepsTakenStep DEF IInv
  <1> QED BY InitIInv, <1>1, PTL DEF Spec

\* The variables keep their types.
THEOREM TypeCorrect == Spec => []TypeOK
  <1>1. IInv => TypeOK
    BY DEF IInv
  <1> QED BY Inductive, <1>1, PTL

\* Nobody is served a database whose files are of different moments or lost
\* their logs: openDatabase refuses while restore.json is there
\* (database-backup.ts, database.ts).
THEOREM OnlyWholeDatabasesAreServed == Spec => []RunsOnWholeDatabase
  <1>1. IInv => RunsOnWholeDatabase
    BY DEF IInv, OpenIsCurrent, JournalCovers, RunsOnWholeDatabase
  <1> QED BY Inductive, <1>1, PTL

\* A release that is served finds no migrations of a later one: rollback_release
\* of deploy.sh restores the database before it takes the link back.
THEOREM SchemasAreNeverAhead == Spec => []OldCodeMeetsOldSchema
  <1>1. IInv => OldCodeMeetsOldSchema
    <2> SUFFICES ASSUME IInv, app.at = "up"
                 PROVE  \A f \in Files : live[f].schema <= app.release
      BY DEF OldCodeMeetsOldSchema
    <2>1. journal = 0 /\ app.release = current
      BY DEF IInv, OpenIsCurrent
    <2> QED BY <2>1 DEF IInv, SchemaIsCurrent, UpTo
  <1> QED BY Inductive, <1>1, PTL

\* restoreDatabase compares the files with the set before it removes
\* restore.json; that comparison succeeds, however often the restore was
\* interrupted and resumed.
THEOREM RestoresNeverFailTheirCheck == Spec => []RestoresCheckOut
  <1>1. IInv => RestoresCheckOut
    <2> SUFFICES ASSUME IInv, cli = "check"
                 PROVE  live = snaps[journal]
      BY DEF RestoresCheckOut
    <2>1. journal # 0 /\ journal \in Deploys /\ Whole(snaps[journal])
      BY DeploymentAssumption DEF IInv, TypeOK, RestoreIsJournalled, JournalCovers, Deploys
    <2>2. snaps[journal] \in Pair
      BY <2>1 DEF IInv, TypeOK, Whole, NoSnapshot, NoFile, Files
    <2>3. \A f \in Files : staged[f] = NoFile
      BY DEF IInv, StepsTaken, Files
    <2>4. \A f \in Files : snaps[journal][f] # NoFile
      BY <2>2, DeploymentAssumption DEF Pair, Content, NoFile
    <2>5. \A f \in Files : live[f] = snaps[journal][f]
      BY <2>1, <2>3, <2>4 DEF IInv, CopyOrRenamed
    <2> QED BY <2>2, <2>5 DEF IInv, TypeOK, Pair
  <1> QED BY Inductive, <1>1, PTL
===============================================================================
