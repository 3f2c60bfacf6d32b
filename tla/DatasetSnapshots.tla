-------------------------- MODULE DatasetSnapshots ---------------------------
(***************************************************************************)
(* The versions of the calculation database that the server publishes      *)
(* (agents/application/dataset-snapshots.ts and the child process          *)
(* workers/dataset-publisher.ts).                                          *)
(*                                                                         *)
(* ensureLatest joins a publication that is in progress, answers at once   *)
(* when the current version is that of the database's revision, and        *)
(* otherwise starts a child that copies the database.  The copy is of some *)
(* moment after the start: the revision may have moved since the caller    *)
(* asked, and moves on before the copy is published.                       *)
(*                                                                         *)
(* The operators change the variables of this module only; Preparation     *)
(* composes them with the callers.                                         *)
(***************************************************************************)
EXTENDS Integers, Sequences

CONSTANTS
    Requests,       \* the ranges of data a collection may bring
    MaxRevision     \* bound of the model: writes to the calculation database

ASSUME DatasetSnapshotsAssumption == MaxRevision \in Nat \ {0}

VARIABLES
    data,           \* the calculation database: revision, and what it holds
    snaps,          \* snaps[v]: the copy published as version v
    kept,           \* the versions whose files are still in the directory
    current,        \* the version the server has in memory, 0 for none
    publication,    \* the publication in progress
    refused         \* the revision whose publication failed a moment ago, or 0

snapVars == <<data, snaps, kept, current, publication, refused>>

Copy == [rev : 1..MaxRevision, have : SUBSET Requests]

NoCopy == [rev |-> 1, have |-> {}]

NoPublication == [at |-> "none", key |-> 0, copy |-> NoCopy]

Versions == 1..Len(snaps)

SnapshotsTypeOK ==
    /\ data \in Copy
    /\ snaps \in Seq(Copy)
    /\ kept \subseteq Versions
    /\ current \in 0..Len(snaps)
    /\ publication \in [at : {"none", "copying", "copied", "committed"},
                        key : 0..MaxRevision, copy : Copy]
    /\ refused \in 0..MaxRevision

SnapshotsInit ==
    /\ data = NoCopy
    /\ snaps = <<NoCopy>>
    /\ kept = {1}
    /\ current = 1
    /\ publication = NoPublication
    /\ refused = 0

-----------------------------------------------------------------------------
\* The triggers of the data tables: every write moves the revision.
Write(brought) ==
    /\ data.rev < MaxRevision
    /\ data' = [rev |-> data.rev + 1, have |-> data.have \cup brought]
    /\ UNCHANGED <<snaps, kept, current, publication, refused>>

Publishing == publication.at # "none"

\* Mutant: the revision of the database is not compared.
IsLatestAlways == ~ Publishing /\ refused # data.rev /\ current # 0

\* The three answers of ensureLatest that need no wait of their own.
IsLatest == ~ Publishing /\ refused # data.rev /\ current # 0 /\ snaps[current].rev = data.rev

Refuses == ~ Publishing /\ refused = data.rev

\* The fourth: join the publication in progress or start one.
JoinOrStart ==
    /\ ~ IsLatest
    /\ ~ Refuses
    /\ publication' = IF Publishing THEN publication
                      ELSE [at |-> "copying", key |-> data.rev, copy |-> NoCopy]
    /\ UNCHANGED <<data, snaps, kept, current, refused>>

\* The child has copied and verified the database.
CopyData ==
    /\ publication.at = "copying"
    /\ publication' = [publication EXCEPT !.at = "copied", !.copy = data]
    /\ UNCHANGED <<data, snaps, kept, current, refused>>

\* Mutant: the new version is the one after the version in memory.
CommitAfterCurrent ==
    /\ publication.at = "copied"
    /\ snaps' = Append(SubSeq(snaps, 1, current), publication.copy)
    /\ kept' = kept \cup {current + 1}
    /\ publication' = [publication EXCEPT !.at = "committed"]
    /\ UNCHANGED <<data, current, refused>>

\* The child has renamed latest.json: the version exists from here on.  Its
\* number follows the highest of the directory.
Commit ==
    /\ publication.at = "copied"
    /\ snaps' = Append(snaps, publication.copy)
    /\ kept' = kept \cup {Len(snaps) + 1}
    /\ publication' = [publication EXCEPT !.at = "committed"]
    /\ UNCHANGED <<data, current, refused>>

\* The server has received the manifest: everybody who waits is answered.
Settle ==
    /\ publication.at = "committed"
    /\ current' = Len(snaps)
    /\ publication' = NoPublication
    /\ refused' = 0
    /\ UNCHANGED <<data, snaps, kept>>

\* Bound of the model: one committed version is published a second time.
MayLoseCommit == \A v, w \in Versions : snaps[v].rev = snaps[w].rev => v = w

\* The child fails, perhaps after its commit and before the server has its
\* answer; the same revision is not tried again for 30 seconds.
FailPublication ==
    /\ Publishing
    /\ publication.at = "committed" => MayLoseCommit
    /\ publication' = NoPublication
    /\ refused' = publication.key
    /\ UNCHANGED <<data, snaps, kept, current>>

RetryDelayOver ==
    /\ refused # 0
    /\ refused' = 0
    /\ UNCHANGED <<data, snaps, kept, current, publication>>

\* prune: the current version, the one before it and the pinned ones stay.
Prune(pinned) ==
    /\ current # 0 /\ ~ Publishing
    /\ kept' = {v \in kept : v >= current - 1 \/ v \in pinned}
    /\ UNCHANGED <<data, snaps, current, publication, refused>>

\* The server dies, and its child with it.
LosePublication ==
    /\ publication' = NoPublication
    /\ refused' = 0
    /\ UNCHANGED <<data, snaps, kept, current>>

\* The constructor reads latest.json.
ReadLatest ==
    /\ current' = Len(snaps)
    /\ UNCHANGED <<data, snaps, kept, publication, refused>>

\* Each commit gets a number of its own and changes no published version, also
\* after a crash between the child's commit and the server's answer to it; the
\* pointer of the server never moves back.
VersionsAreImmutable ==
    [][ /\ current' >= current
        /\ publication'.at = "committed" /\ publication.at # "committed"
              => Len(snaps') > Len(snaps)
        /\ \A v \in 1..Len(snaps) : snaps'[v] = snaps[v] ]_snapVars

=============================================================================
