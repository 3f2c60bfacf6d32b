------------------------- MODULE PreparationProofs --------------------------
(***************************************************************************)
(* Proofs about Preparation, for any jobs, agents, requests and revisions, *)
(* any number of attempts and failed collections.                          *)
(*                                                                         *)
(* The three queues meet in few places.  SnapStep is what a step may do to *)
(* the published versions, RowMove(j) what it may do to the row of one     *)
(* job; the requests and the collection under way are looked at action by  *)
(* action.                                                                 *)
(***************************************************************************)
EXTENDS Preparation, TLAPS

-----------------------------------------------------------------------------
(* The invariant.                                                          *)

\* What the copy c can have: data of a revision are the same wherever they are.
Dated(c) == c.rev <= data.rev /\ (c.rev = data.rev => c.have = data.have)

\* The version of a commit the server has not heard of is above every other.
SnapshotsAreDated ==
    /\ \A v \in Versions : Dated(snaps[v])
    /\ publication.at \in {"copied", "committed"} => Dated(publication.copy)
    /\ publication.at = "committed" => current < Len(snaps)
    /\ ~ up => publication.at = "none"

\* A job may end for want of data at its last failure only; a lease is of a
\* version the server knew, and a row without one has no live lease.
RowFacts(j) ==
    /\ jobs[j].status \in {"NONE"} \cup Active => jobs[j].failures < MaxFailures
    /\ jobs[j].version <= current
    /\ jobs[j].status = "RUNNING" /\ jobs[j].version = 0 => jobs[j].ttl = Expired

RequestsCanFail ==
    \A q \in Requests : reqs[q].status \in {"QUEUED", "RUNNING"} => reqs[q].attempts < MaxCollections

\* At most one request, and none without a server.
RunnerIsSingle ==
    /\ runner.attempts < MaxCollections
    /\ runner.at = "idle" => runner = NoRunner
    /\ \A q, r \in runner.request : q = r
    /\ ~ up => runner = NoRunner

\* What was collected for a request that is done is in the version v, if it is
\* this version that is said to have it.
Honest(v) ==
    \A q \in Requests :
        GapRemains(reqs[q], v) /\ q \in data.have => q \in snaps[v].have

\* The versions of running jobs, and the one a dispatch may still give away.
VersionsInUseAreHonest ==
    /\ \A j \in Jobs : jobs[j].status = "RUNNING" /\ jobs[j].version # 0 => Honest(jobs[j].version)
    /\ sampling # 0 => Honest(sampling)

IInv ==
    /\ TypeOK
    /\ SnapshotsAreDated
    /\ \A j \in Jobs : RowFacts(j)
    /\ RequestsCanFail
    /\ RunnerIsSingle
    /\ NoOrphanedCollection
    /\ SingleFlight
    /\ WaitingJobsAreRemembered
    /\ VersionsInUseAreHonest

-----------------------------------------------------------------------------
(* The published versions.                                                 *)

SnapStep ==
    \/ UNCHANGED snapVars
    \/ up /\ JoinOrStart
    \/ \E B \in SUBSET Requests : Write(B)
    \/ CopyData \/ Commit \/ RetryDelayOver
    \/ up /\ (Settle \/ FailPublication \/ \E P : Prune(P))
    \/ LosePublication
    \/ ~ up /\ up' /\ ReadLatest

LEMMA SnapSteps == ASSUME Next PROVE SnapStep /\ (up' = up \/ Crash \/ Boot)
  <1>1. CASE UserNext
    BY <1>1 DEF UserNext, StartJob, EndProviderCheck, CancelJob, CollectJob, SnapStep
  <1>2. CASE DispatchNext
    BY <1>2 DEF DispatchNext, AskForLatest, StartSampling, EndSampling, Offer, OfferWhileSampling,
                FetchDataset, InvalidateClient, ClaimJob, ClaimAfterSampling, SnapStep
  <1>3. CASE AgentNext
    BY <1>3 DEF AgentNext, HeartbeatJob, NeedsData, FinishJob, SnapStep
  <1>4. CASE CollectNext
    BY <1>4 DEF CollectNext, ResumeJob, BeginCollection, StoreCollected, EndCollection, BecomeDue,
                FailCollection, StoreOther, SnapStep
  <1>5. CASE PublishNext
    BY <1>5 DEF PublishNext, CopyDataset, CommitDataset, RetryDataset, PublicationSettled,
                PublicationFailed, PruneDatasets, SnapStep
  <1>6. CASE SweepJobs \/ Tick
    BY <1>6 DEF SweepJobs, Tick, SnapStep
  <1>7. CASE Crash \/ Boot
    BY <1>7 DEF Crash, Boot, SnapStep
  <1> QED BY <1>1, <1>2, <1>3, <1>4, <1>5, <1>6, <1>7 DEF Next

Publications == [at : {"none", "copying", "copied", "committed"}, key : 0..MaxRevision, copy : Copy]

LEMMA SnapshotTypes ==
    ASSUME SnapshotsTypeOK
    PROVE  /\ data \in Copy /\ snaps \in Seq(Copy) /\ publication \in Publications
           /\ Len(snaps) \in Nat /\ current \in 0..Len(snaps) /\ kept \subseteq 1..Len(snaps)
           /\ refused \in 0..MaxRevision
           /\ publication.key \in 0..MaxRevision /\ publication.copy \in Copy
           /\ data.rev \in 1..MaxRevision /\ data.have \subseteq Requests
           /\ \A c \in Copy : c.rev \in 1..MaxRevision
           /\ \A v \in 1..Len(snaps) : snaps[v] \in Copy
           /\ NoCopy \in Copy /\ NoPublication \in Publications /\ NoPublication.at = "none"
  <1>1. NoCopy \in Copy
    BY DatasetSnapshotsAssumption DEF NoCopy, Copy
  <1>2. NoPublication \in Publications
    BY <1>1, DatasetSnapshotsAssumption DEF NoPublication, Publications
  <1>3. /\ data \in Copy /\ snaps \in Seq(Copy) /\ publication \in Publications
        /\ current \in 0..Len(snaps) /\ kept \subseteq 1..Len(snaps) /\ refused \in 0..MaxRevision
    BY DEF SnapshotsTypeOK, Versions, Publications
  <1>4. publication.key \in 0..MaxRevision /\ publication.copy \in Copy
    BY <1>3 DEF Publications
  <1>5. \A c \in Copy : c.rev \in 1..MaxRevision /\ c.have \subseteq Requests
    BY DEF Copy
  <1>6. Len(snaps) \in Nat /\ \A v \in 1..Len(snaps) : snaps[v] \in Copy
    BY <1>3
  <1> QED BY <1>1, <1>2, <1>3, <1>4, <1>5, <1>6 DEF NoPublication

LEMMA SnapStepKeepsType ==
    ASSUME SnapshotsTypeOK, SnapStep
    PROVE  SnapshotsTypeOK'
  <1> DEFINE Typed(d, s, k, c, p, r) ==
               /\ d \in Copy /\ s \in Seq(Copy) /\ p \in Publications
               /\ c \in 0..Len(s) /\ k \subseteq 1..Len(s) /\ r \in 0..MaxRevision
  <1>g. SUFFICES Typed(data', snaps', kept', current', publication', refused')
    BY DEF SnapshotsTypeOK, Versions, Publications
  <1> USE SnapshotTypes, DatasetSnapshotsAssumption
  <1>1. CASE UNCHANGED snapVars
    BY <1>1 DEF snapVars
  <1>2. CASE JoinOrStart
    <2>1. [at |-> "copying", key |-> data.rev, copy |-> NoCopy] \in Publications
      <3>1. data.rev \in 0..MaxRevision
        BY data.rev \in 1..MaxRevision, DatasetSnapshotsAssumption
      <3> QED BY <3>1 DEF Publications
    <2> QED BY <1>2, <2>1 DEF JoinOrStart
  <1>3. ASSUME NEW B \in SUBSET Requests, Write(B)
        PROVE  Typed(data', snaps', kept', current', publication', refused')
    <2>1. [rev |-> data.rev + 1, have |-> data.have \cup B] \in Copy
      BY <1>3 DEF Write, Copy
    <2> QED BY <1>3, <2>1 DEF Write
  <1>4. CASE CopyData
    <2>1. [publication EXCEPT !.at = "copied", !.copy = data] \in Publications
      BY DEF Publications
    <2> QED BY <1>4, <2>1 DEF CopyData
  <1>5. CASE Commit
    <2>1. snaps' \in Seq(Copy) /\ Len(snaps') = Len(snaps) + 1
      BY <1>5 DEF Commit
    <2>2. [publication EXCEPT !.at = "committed"] \in Publications
      BY DEF Publications
    <2> QED BY <1>5, <2>1, <2>2 DEF Commit
  <1>6. CASE RetryDelayOver
    BY <1>6 DEF RetryDelayOver
  <1>7. CASE LosePublication
    BY <1>7 DEF LosePublication
  <1>8. CASE ReadLatest
    BY <1>8 DEF ReadLatest
  <1>9. CASE Settle
    BY <1>9 DEF Settle
  <1>10. CASE FailPublication
    BY <1>10 DEF FailPublication
  <1>11. CASE \E P : Prune(P)
    BY <1>11 DEF Prune
  <1> QED BY <1>1, <1>2, <1>3, <1>4, <1>5, <1>6, <1>7, <1>8, <1>9, <1>10, <1>11 DEF SnapStep

\* Published versions do not change, and the server never goes back to an older one.
LEMMA VersionsStay ==
    ASSUME SnapshotsTypeOK, SnapshotsAreDated, SnapStep
    PROVE  /\ Len(snaps) <= Len(snaps') /\ Len(snaps') \in Nat
           /\ \A v \in Versions : snaps'[v] = snaps[v]
           /\ current <= current'
           /\ publication'.at = "committed" /\ publication.at # "committed"
                => Len(snaps') > Len(snaps)
  <1> USE SnapshotTypes
  <1>1. CASE Commit
    <2>1. Len(snaps') = Len(snaps) + 1 /\ current' = current
      BY <1>1 DEF Commit
    <2>2. \A v \in 1..Len(snaps) : snaps'[v] = snaps[v]
      BY <1>1 DEF Commit
    <2> QED BY <2>1, <2>2 DEF Versions
  <1>2. CASE UNCHANGED <<snaps, current>>
    <2>1. ~ Commit
      BY <1>2 DEF Commit
    <2>2. CASE JoinOrStart
      BY <1>2, <2>2 DEF JoinOrStart, Publishing
    <2>3. CASE CopyData
      BY <1>2, <2>3 DEF CopyData, Publications
    <2>4. CASE publication' \in {publication, NoPublication}
      BY <1>2, <2>4
    <2>5. JoinOrStart \/ CopyData \/ publication' \in {publication, NoPublication}
      BY <2>1 DEF SnapStep, snapVars, RetryDelayOver, LosePublication, Write, ReadLatest, Settle,
                  FailPublication, Prune
    <2> QED BY <2>2, <2>3, <2>4, <2>5
  <1>3. CASE ReadLatest \/ Settle
    BY <1>3 DEF ReadLatest, Settle
  <1>4. Commit \/ UNCHANGED <<snaps, current>> \/ ReadLatest \/ Settle
    BY DEF SnapStep, snapVars, JoinOrStart, Write, CopyData, RetryDelayOver, LosePublication,
           FailPublication, Prune
  <1> QED BY <1>1, <1>2, <1>3, <1>4

LEMMA SnapStepKeepsDates ==
    ASSUME SnapshotsTypeOK, SnapshotsAreDated, up \in BOOLEAN, SnapStep,
           ~ up' => ~ up \/ Crash
    PROVE  SnapshotsAreDated'
  <1> USE SnapshotTypes DEF Versions
  <1>d. SUFFICES /\ \A v \in 1..Len(snaps') : Dated(snaps[v])'
                 /\ publication'.at \in {"copied", "committed"} => Dated(publication.copy)'
                 /\ publication'.at = "committed" => current' < Len(snaps')
                 /\ ~ up' => publication'.at = "none"
    BY DEF SnapshotsAreDated
  <1>0. /\ \A v \in 1..Len(snaps) : Dated(snaps[v]) /\ snaps[v].rev \in Nat
        /\ publication.at \in {"copied", "committed"} => Dated(publication.copy)
        /\ publication.at = "committed" => current < Len(snaps)
        /\ ~ up => publication.at = "none"
        /\ data.rev \in Nat /\ publication.copy.rev \in Nat
    BY DEF SnapshotsAreDated
  <1>1. CASE publication' = NoPublication /\ UNCHANGED <<data, snaps>>
    BY <1>0, <1>1 DEF Dated
  <1>2. CASE UNCHANGED <<data, snaps, publication>>
    <2>1. publication.at = "committed" => current' = current
      BY <1>0, <1>2 DEF SnapStep, snapVars, JoinOrStart, Write, CopyData, Commit, RetryDelayOver,
                        LosePublication, ReadLatest, Settle, FailPublication, Prune
    <2>2. ~ up' => publication.at = "none"
      BY <1>0, <1>2 DEF Crash, LosePublication
    <2> QED BY <1>0, <1>2, <2>1, <2>2 DEF Dated
  <1>3. CASE up /\ JoinOrStart
    <2>1. up' /\ UNCHANGED <<data, snaps, current>>
      BY <1>3 DEF JoinOrStart, Crash, LosePublication, NoPublication, Publishing
    <2> QED BY <1>0, <1>3, <2>1 DEF JoinOrStart, Dated, Publishing
  <1>4. CASE \E B \in SUBSET Requests : Write(B)
    <2>1. data'.rev = data.rev + 1 /\ UNCHANGED <<snaps, current, publication>>
      BY <1>4 DEF Write
    <2>2. ~ up' => publication'.at = "none"
      BY <1>0, <2>1 DEF Crash, LosePublication
    <2> QED BY <1>0, <2>1, <2>2 DEF Dated
  <1>5. CASE CopyData
    <2>1. publication'.at = "copied" /\ publication'.copy = data /\ UNCHANGED <<data, snaps>>
      BY <1>5 DEF CopyData, Publications
    <2>2. up'
      BY <1>0, <1>5, <2>1 DEF CopyData, Crash, LosePublication
    <2> QED BY <1>0, <2>1, <2>2 DEF Dated
  <1>6. CASE Commit
    <2>1. /\ publication'.at = "committed" /\ publication'.copy = publication.copy
          /\ snaps' = Append(snaps, publication.copy) /\ Len(snaps') = Len(snaps) + 1
          /\ current' < Len(snaps') /\ data' = data
      BY <1>6 DEF Commit, Publications
    <2>2. up'
      BY <1>0, <1>6, <2>1 DEF Commit, Crash, LosePublication
    <2>3. ASSUME NEW v \in 1..Len(snaps') PROVE Dated(snaps[v])'
      <3>1. CASE v \in 1..Len(snaps)
        BY <1>0, <2>1, <3>1 DEF Dated
      <3>2. CASE v = Len(snaps) + 1
        BY <1>0, <1>6, <2>1, <3>2 DEF Dated, Commit
      <3> QED BY <2>1, <3>1, <3>2
    <2> QED BY <1>0, <1>6, <2>1, <2>2, <2>3 DEF Dated, Commit
  <1> QED BY <1>1, <1>2, <1>3, <1>4, <1>5, <1>6
          DEF SnapStep, snapVars, RetryDelayOver, LosePublication, ReadLatest, Settle,
              FailPublication, Prune

-----------------------------------------------------------------------------
(* What one step may do to the row of j.                                   *)

Becomes(j, r) == jobs'[j] = r

Live(j) == jobs[j].status = "RUNNING" /\ jobs[j].ttl >= 0

Stays(j) == Becomes(j, jobs[j])

Started(j) ==
    /\ jobs[j].status = "NONE" /\ ~ IsTaken(j)
    /\ \A k \in Jobs \ {j} : Stays(k)
    /\ \E check \in BOOLEAN : Becomes(j, Insert(jobs[j], check))

Checked(j) ==
    /\ jobs[j].discovery /\ CanEndCheck(jobs[j])
    /\ \E ok \in BOOLEAN : Becomes(j, EndCheck(jobs[j], ok))

Asked(j)     == Becomes(j, Cancel(jobs[j]))
Removed(j)   == jobs[j].status \in Terminal /\ Becomes(j, [Blank EXCEPT !.status = "DELETED"])

Claimed(j) ==
    /\ Claimable(jobs[j]) /\ jobs[j].attempt < MaxAttempts
    /\ UNCHANGED <<snapVars, reqs, sampling>>
    /\ \E a \in Agents, v \in {current, sampling} :
         /\ v # 0
         /\ v = sampling \/ IsLatest
         /\ Becomes(j, Claim(jobs[j], a, v, LeaseTicks))

Extended(j)  == Live(j) /\ Becomes(j, Heartbeat(jobs[j], LeaseTicks))

Deferred(j)  ==
    /\ Live(j) /\ Becomes(j, WaitForData(jobs[j]))
    /\ \E q \in Requests : waits'[j] = {q} /\ reqs'[q].status # "NONE"

Finished(j) ==
    /\ Live(j)
    /\ \E outcome \in Terminal, fresh \in BOOLEAN :
         /\ fresh => IsCurrent(jobs[j].version)
         /\ Becomes(j, Finish(jobs[j], outcome, fresh))

HandedBack(j) == jobs[j].status = "RUNNING" /\ Becomes(j, HandBack(jobs[j]))
Resumed(j)    == \E failed \in BOOLEAN : Becomes(j, Resume(jobs[j], failed))
GivenBack(j)  == SweepSelects(jobs[j]) /\ Becomes(j, Swept(jobs[j]))
Recovered(j)  == Becomes(j, Recover(jobs[j]))
Aged(j)       == Live(j) /\ Becomes(j, [jobs[j] EXCEPT !.ttl = @ - 1])

RowMove(j) ==
    \/ Stays(j)    \/ Started(j)  \/ Checked(j)    \/ Asked(j)   \/ Removed(j)
    \/ Claimed(j)  \/ Extended(j) \/ Deferred(j)   \/ Finished(j)
    \/ HandedBack(j) \/ Resumed(j) \/ GivenBack(j) \/ Recovered(j) \/ Aged(j)

LEMMA OneRow ==
    ASSUME TypeOK, NEW k \in Jobs, NEW r, SetJob(k, r), NEW j \in Jobs
    PROVE  IF j = k THEN Becomes(j, r) ELSE Stays(j)
  BY DEF TypeOK, SetJob, Becomes, Stays

\* A request that was asked for is known from then on.
LEMMA AskedIsKnown ==
    ASSUME NEW q \in Requests, NEW v, reqs \in [Requests -> RequestRow],
           SetRequest(q, Ask(reqs[q], v))
    PROVE  /\ reqs'[q].status # "NONE"
           /\ reqs' \in [Requests -> RequestRow]
           /\ reqs'[q].status = "RUNNING" <=> reqs[q].status = "RUNNING"
           /\ reqs'[q].status = "COMPLETED" => reqs[q].status = "COMPLETED"
                                               /\ reqs'[q].available = reqs[q].available
           /\ reqs'[q].status \in {"QUEUED", "RUNNING"} =>
                \/ reqs'[q].attempts = 0
                \/ reqs[q].status = reqs'[q].status /\ reqs[q].attempts = reqs'[q].attempts
           /\ \A p \in Requests : p # q => reqs'[p] = reqs[p]
  <1>0. /\ reqs[q] \in RequestRow /\ reqs' = [reqs EXCEPT ![q] = Ask(reqs[q], v)]
        /\ "QUEUED" \in RequestStatus /\ 0 \in 0..MaxCollections
    BY DataQueueAssumption DEF SetRequest, RequestStatus
  <1>a. /\ reqs'[q] = Ask(reqs[q], v) /\ \A p \in Requests : p # q => reqs'[p] = reqs[p]
        /\ Ask(reqs[q], v) \in RequestRow => reqs' \in [Requests -> RequestRow]
    BY <1>0
  <1>1. CASE reqs[q].status = "NONE"
    <2>1. Ask(reqs[q], v) = [status |-> "QUEUED", attempts |-> 0, available |-> 0, due |-> TRUE]
      BY <1>1 DEF Ask, NoRequest
    <2>2. Ask(reqs[q], v) \in RequestRow
      BY <1>0, <2>1 DEF RequestRow
    <2>3. Ask(reqs[q], v).status = "QUEUED" /\ Ask(reqs[q], v).attempts = 0
      BY <2>1
    <2> QED BY <1>a, <1>1, <2>2, <2>3
  <1>2. CASE reqs[q].status # "NONE" /\ ~ Ended(reqs[q])
    BY <1>0, <1>2 DEF Ask
  <1>3. CASE reqs[q].status # "NONE" /\ Ended(reqs[q])
    <2> DEFINE s == IF reqs[q].available <= v THEN "QUEUED" ELSE reqs[q].status
    <2>1. Ask(reqs[q], v) = [reqs[q] EXCEPT !.attempts = 0, !.status = s]
      BY <1>0, <1>3 DEF Ask, RequestRow
    <2>2. s \in RequestStatus /\ s \in {"QUEUED", reqs[q].status}
      BY <1>0 DEF RequestRow
    <2> HIDE DEF s
    <2>3. /\ Ask(reqs[q], v) \in RequestRow /\ Ask(reqs[q], v).status = s
          /\ Ask(reqs[q], v).attempts = 0 /\ Ask(reqs[q], v).available = reqs[q].available
      BY <1>0, <2>1, <2>2 DEF RequestRow
    <2> QED BY <1>a, <1>3, <2>2, <2>3 DEF Ended
  <1> QED BY <1>1, <1>2, <1>3

\* Whatever the step, each row is moved by one statement at most.
LEMMA RowMoves == ASSUME IInv, Next PROVE \A j \in Jobs : RowMove(j)
  <1> SUFFICES ASSUME NEW j \in Jobs PROVE RowMove(j)
    OBVIOUS
  <1>t. TypeOK
    BY DEF IInv
  <1>g. \A l \in granted : l.job \in Jobs
    BY <1>t DEF TypeOK, Lease
  <1>1. ASSUME NEW k \in Jobs, NEW b \in BOOLEAN, StartJob(k, b) PROVE RowMove(j)
    <2>1. \A i \in Jobs : IF i = k THEN Becomes(i, Insert(jobs[i], b)) ELSE Stays(i)
      BY <1>1, <1>t, OneRow DEF StartJob
    <2>2. j = k => Started(j)
      BY <1>1, <2>1 DEF StartJob, Started
    <2> QED BY <2>1, <2>2 DEF RowMove
  <1>2. ASSUME NEW k \in Jobs, NEW b \in BOOLEAN, EndProviderCheck(k, b) PROVE RowMove(j)
    BY <1>2, <1>t, OneRow DEF EndProviderCheck, RowMove, Checked
  <1>3. ASSUME NEW k \in Jobs, CancelJob(k) \/ CollectJob(k) PROVE RowMove(j)
    BY <1>3, <1>t, OneRow DEF CancelJob, CollectJob, RowMove, Asked, Removed
  <1>4. ASSUME NEW a \in Agents, NEW k \in Jobs, ClaimJob(a, k) \/ ClaimAfterSampling(a, k)
        PROVE  RowMove(j)
    <2>1. PICK v \in {current, sampling} : /\ GrantJob(a, k, v) /\ v # 0
                                           /\ v = sampling \/ IsLatest
                                           /\ UNCHANGED <<snapVars, reqs, sampling>>
      BY <1>4 DEF ClaimJob, ClaimAfterSampling, IsLatest, collectVars, agentVars
    <2>2. IF j = k THEN Becomes(j, Claim(jobs[k], a, v, LeaseTicks)) ELSE Stays(j)
      BY <1>t, <2>1, OneRow DEF GrantJob
    <2>3. j = k => Claimed(j)
      BY <2>1, <2>2 DEF GrantJob, Claimed
    <2> QED BY <2>2, <2>3 DEF RowMove
  <1>5. ASSUME NEW l \in granted, HeartbeatJob(l) PROVE RowMove(j)
    BY <1>5, <1>t, <1>g, OneRow DEF HeartbeatJob, Owns, RowMove, Extended, Live
  <1>6. ASSUME NEW l \in granted, NEW q \in Requests, NeedsData(l, q) PROVE RowMove(j)
    <2>1. CASE GapRemains(reqs[q], jobs[l.job].version)
      <3>1. IF j = l.job THEN Becomes(j, Finish(jobs[j], "FAILED", FALSE)) ELSE Stays(j)
        BY <1>6, <1>t, <1>g, <2>1, OneRow DEF NeedsData
      <3>2. j = l.job => Finished(j)
        BY <1>6, <3>1 DEF NeedsData, Owns, Live, Finished, Terminal
      <3> QED BY <3>1, <3>2 DEF RowMove
    <2>2. CASE ~ GapRemains(reqs[q], jobs[l.job].version)
      <3>1. /\ IF j = l.job THEN Becomes(j, WaitForData(jobs[j])) ELSE Stays(j)
            /\ reqs'[q].status # "NONE" /\ waits' = [waits EXCEPT ![l.job] = {q}]
        BY <1>6, <1>t, <1>g, <2>2, OneRow, AskedIsKnown DEF NeedsData, TypeOK
      <3>2. j = l.job => Deferred(j)
        BY <1>6, <1>t, <3>1 DEF NeedsData, Owns, Live, Deferred, TypeOK
      <3> QED BY <3>1, <3>2 DEF RowMove
    <2> QED BY <2>1, <2>2
  <1>7. ASSUME NEW l \in granted, NEW outcome \in Terminal, FinishJob(l, outcome) PROVE RowMove(j)
    <2> DEFINE fresh == IsCurrent(jobs[l.job].version)
    <2>1. fresh \in BOOLEAN
      BY DEF IsCurrent
    <2>2. IF j = l.job THEN Becomes(j, Finish(jobs[j], outcome, fresh)) ELSE Stays(j)
      BY <1>7, <1>t, <1>g, OneRow DEF FinishJob
    <2>3. j = l.job => Finished(j)
      BY <1>7, <2>1, <2>2 DEF FinishJob, Owns, Live, Finished
    <2> QED BY <2>2, <2>3 DEF RowMove
  <1>8. ASSUME NEW a \in Agents, InvalidateClient(a) PROVE RowMove(j)
    BY <1>8 DEF InvalidateClient, RowMove, HandedBack, Stays, Becomes
  <1>9. ASSUME NEW k \in Jobs, ResumeJob(k) PROVE RowMove(j)
    <2>1. PICK q \in waits[k] : SetJob(k, Resume(jobs[k], reqs[q].status = "FAILED"))
      BY <1>9 DEF ResumeJob
    <2> DEFINE failed == reqs[q].status = "FAILED"
    <2>2. IF j = k THEN Becomes(j, Resume(jobs[j], failed)) ELSE Stays(j)
      BY <1>t, <2>1, OneRow
    <2> QED BY <2>2 DEF RowMove, Resumed
  <1>10. CASE SweepJobs
    BY <1>10 DEF SweepJobs, RowMove, GivenBack, Stays, Becomes
  <1>11. CASE Boot
    BY <1>11 DEF Boot, RowMove, Recovered, Becomes
  <1>12. CASE Tick
    <2>1. jobs'[j] = IF jobs[j].ttl >= 0 /\ jobs[j].status = "RUNNING"
                     THEN [jobs[j] EXCEPT !.ttl = @ - 1] ELSE jobs[j]
      BY <1>12 DEF Tick
    <2> QED BY <2>1 DEF RowMove, Aged, Live, Stays, Becomes
  <1>13. CASE jobs' = jobs
    BY <1>13 DEF RowMove, Stays, Becomes
  <1>14. \/ \E k \in Jobs, b \in BOOLEAN : StartJob(k, b) \/ EndProviderCheck(k, b)
         \/ \E k \in Jobs : CancelJob(k) \/ CollectJob(k) \/ ResumeJob(k)
         \/ \E a \in Agents, k \in Jobs : ClaimJob(a, k) \/ ClaimAfterSampling(a, k)
         \/ \E l \in granted : HeartbeatJob(l) \/ (\E q \in Requests : NeedsData(l, q))
                               \/ (\E outcome \in Terminal : FinishJob(l, outcome))
         \/ \E a \in Agents : InvalidateClient(a)
         \/ SweepJobs \/ Boot \/ Tick
         \/ jobs' = jobs
    <2>1. CASE UserNext \/ AgentNext \/ SweepJobs \/ Boot \/ Tick
      BY <2>1 DEF UserNext, AgentNext
    <2>2. CASE DispatchNext
      BY <2>2 DEF DispatchNext, AskForLatest, StartSampling, EndSampling, Offer, OfferWhileSampling,
                  FetchDataset, queueVars
    <2>3. CASE CollectNext
      BY <2>3 DEF CollectNext, BeginCollection, StoreCollected, EndCollection, BecomeDue,
                  FailCollection, StoreOther, queueVars
    <2>4. CASE PublishNext \/ Crash
      BY <2>4 DEF PublishNext, CopyDataset, CommitDataset, RetryDataset, PublicationSettled,
                  PublicationFailed, PruneDatasets, Crash, queueVars
    <2> QED BY <2>1, <2>2, <2>3, <2>4 DEF Next
  <1> QED BY <1>1, <1>2, <1>3, <1>4, <1>5, <1>6, <1>7, <1>8, <1>9, <1>10, <1>11, <1>12, <1>13, <1>14

-----------------------------------------------------------------------------
(* Single rows.                                                            *)

\* What the statements of PreparationQueue leave of a row.
LEMMA RowMoveKeepsRow ==
    ASSUME IInv, Next, NEW j \in Jobs
    PROVE  jobs'[j] \in Row /\ RowFacts(j)'
  <1> DEFINE r == jobs[j]
             x == jobs'[j]
             SameLease1 == x.attempt = r.attempt /\ x.version = r.version
             Dead == x.ttl = Expired
  <1>0. /\ r \in Row /\ RowFacts(j) /\ RowMove(j) /\ current <= current' /\ current' \in Nat
        /\ current \in Nat /\ sampling \in Nat /\ sampling <= current
    <2>1. SnapshotsTypeOK /\ SnapshotsAreDated /\ jobs \in [Jobs -> Row] /\ RowFacts(j)
          /\ sampling \in 0..current
      BY DEF IInv, TypeOK
    <2>2. SnapStep /\ RowMove(j)
      BY SnapSteps, RowMoves
    <2>3. current <= current' /\ current' \in Nat
      BY <2>1, <2>2, VersionsStay, SnapStepKeepsType DEF SnapshotsTypeOK
    <2>4. current \in Nat
      BY <2>1, SnapshotTypes
    <2> QED BY <2>1, <2>2, <2>3, <2>4
  <1>c. /\ Expired = -1 /\ NoToken = 0 /\ LeaseTicks \in Nat
        /\ MaxFailures \in Nat \ {0} /\ MaxAttempts \in Nat /\ NoAgent \notin Agents
        /\ \A s \in Active \cup Terminal \cup {"NONE", "DELETED"} : s \in Status
        /\ 0 \in 0..MaxAttempts /\ 0 \in 0..MaxFailures /\ NoToken \in 0..MaxAttempts
        /\ Expired \in Expired..LeaseTicks /\ LeaseTicks \in Expired..LeaseTicks
    BY PreparationAssumption, PreparationQueueAssumption DEF Expired, NoToken, Status
  <1>t. /\ r.status \in Status /\ r.attempt \in 0..MaxAttempts /\ r.failures \in 0..MaxFailures
        /\ r.version \in Nat /\ r.ttl \in Expired..LeaseTicks /\ r.cancel \in BOOLEAN
        /\ r.discovery \in BOOLEAN
    BY <1>0 DEF Row
  <1>f. /\ r.status \in {"NONE"} \cup Active => r.failures < MaxFailures
        /\ r.version <= current'
        /\ r.status = "RUNNING" /\ r.version = 0 => r.ttl = Expired
    BY <1>0, <1>t DEF RowFacts
  <1> DEFINE Fine == /\ x.status \in {"NONE"} \cup Active => x.failures < MaxFailures
                     /\ x.version <= current'
                     /\ x.status = "RUNNING" /\ x.version = 0 => x.ttl = Expired
  <1>g. SUFFICES x \in Row /\ Fine
    BY DEF RowFacts
  <1>1. CASE Stays(j)
    BY <1>0, <1>f, <1>1 DEF Stays, Becomes
  <1>2. CASE Started(j)
    <2>1. PICK check \in BOOLEAN : x = Insert(r, check)
      BY <1>2 DEF Started, Becomes
    <2> DEFINE s == IF check THEN "WAITING_DATA" ELSE "QUEUED"
    <2>2. s \in Status /\ s # "RUNNING"
      BY <1>c DEF Active, Waiting
    <2>3. x = [r EXCEPT !.status = s, !.discovery = check]
      BY <2>1 DEF Insert
    <2> HIDE DEF s
    <2>4. x \in Row /\ x.status = s /\ x.failures = r.failures /\ x.version = r.version
      BY <1>0, <2>2, <2>3 DEF Row
    <2> QED BY <1>2, <1>f, <2>2, <2>4 DEF Started
  <1>3. CASE Checked(j)
    <2>1. PICK ok \in BOOLEAN : x = EndCheck(r, ok)
      BY <1>3 DEF Checked, Becomes
    <2>2. r.status = "WAITING_DATA" /\ {"FAILED", "QUEUED"} \subseteq Status
      BY <1>3, <1>c DEF Checked, CanEndCheck, Active, Terminal
    <2>3. x \in Row /\ x.failures = r.failures /\ x.version = r.version /\ x.status # "RUNNING"
      BY <1>0, <2>1, <2>2 DEF EndCheck, Row
    <2> QED BY <1>f, <2>2, <2>3 DEF Active, Waiting
  <1>4. CASE Asked(j)
    <2>1. x = Cancel(r) /\ "CANCELLED" \in Status
      BY <1>4, <1>c DEF Asked, Becomes, Terminal
    <2>2. /\ x \in Row /\ x.failures = r.failures /\ x.version = r.version /\ x.ttl = r.ttl
          /\ x.status \in {r.status, "CANCELLED"}
      BY <1>0, <2>1 DEF Cancel, Row
    <2> QED BY <1>f, <2>2 DEF Active, Waiting
  <1>5. CASE Removed(j)
    <2>1. x = [status |-> "DELETED", discovery |-> FALSE, cancel |-> FALSE,
               attempt |-> 0, failures |-> 0, token |-> NoToken, ttl |-> Expired,
               client |-> NoAgent, version |-> 0, result |-> 0]
      BY <1>5 DEF Removed, Becomes, Blank
    <2>2. x \in Row
      BY <1>c, <2>1 DEF Row
    <2> QED BY <1>0, <1>c, <2>1, <2>2
  <1>6. CASE Claimed(j)
    <2>1. PICK a \in Agents, v \in {current, sampling} :
            v # 0 /\ x = Claim(r, a, v, LeaseTicks)
      BY <1>6 DEF Claimed, Becomes
    <2>2. /\ "RUNNING" \in Status /\ r.attempt + 1 \in 0..MaxAttempts /\ v \in Nat /\ v <= current'
          /\ a \in Agents \cup {NoAgent}
      BY <1>0, <1>6, <1>c, <1>t DEF Claimed, Active
    <2>3. x \in Row /\ x.failures = r.failures /\ x.version = v
      BY <1>0, <1>c, <2>1, <2>2 DEF Claim, Row
    <2>4. r.status = "QUEUED"
      BY <1>6 DEF Claimed, Claimable
    <2> QED BY <1>f, <2>1, <2>2, <2>3, <2>4 DEF Active
  <1>7. CASE Extended(j)
    <2>1. x = [r EXCEPT !.ttl = LeaseTicks] /\ r.status = "RUNNING" /\ r.ttl >= 0
      BY <1>7 DEF Extended, Live, Becomes, Heartbeat
    <2>2. x \in Row /\ x.failures = r.failures /\ x.version = r.version /\ x.status = "RUNNING"
      BY <1>0, <1>c, <2>1 DEF Row
    <2> QED BY <1>f, <1>c, <2>1, <2>2 DEF Active
  <1>8. CASE Deferred(j)
    <2>1. x = [r EXCEPT !.status = "WAITING_DATA", !.token = NoToken, !.ttl = Expired]
          /\ r.status = "RUNNING"
      BY <1>8 DEF Deferred, Live, Becomes, WaitForData, Release
    <2>2. x \in Row /\ x.failures = r.failures /\ x.version = r.version /\ x.status = "WAITING_DATA"
      <3>1. "WAITING_DATA" \in Status
        BY <1>c DEF Active, Waiting
      <3> QED BY <1>0, <1>c, <2>1, <3>1 DEF Row
    <2> QED BY <1>f, <2>1, <2>2 DEF Active
  <1>9. CASE Finished(j)
    <2>1. PICK outcome \in Terminal, fresh \in BOOLEAN : x = Finish(r, outcome, fresh)
      BY <1>9 DEF Finished, Becomes
    <2> DEFINE end == IF r.cancel THEN "CANCELLED" ELSE outcome
               kept1 == IF end = "COMPLETED" THEN r.attempt ELSE 0
    <2>2. end \in Terminal /\ end \in Status /\ kept1 \in 0..MaxAttempts /\ "QUEUED" \in Status
      BY <1>c, <1>t DEF Terminal, Active
    <2>3. \/ x = [r EXCEPT !.status = "QUEUED", !.token = NoToken, !.ttl = Expired]
          \/ x = [r EXCEPT !.status = end, !.result = kept1]
      BY <2>1 DEF Finish, Release
    <2> HIDE DEF end, kept1
    <2>4. /\ x \in Row /\ x.failures = r.failures /\ x.version = r.version
          /\ x.status \in {end, "QUEUED"}
      BY <1>0, <1>c, <2>2, <2>3 DEF Row
    <2>5. r.status = "RUNNING"
      BY <1>9 DEF Finished, Live
    <2> QED BY <1>f, <2>2, <2>4, <2>5 DEF Active, Terminal
  <1>10. CASE HandedBack(j)
    <2> DEFINE s == IF r.cancel THEN "CANCELLED" ELSE "QUEUED"
    <2>1. s \in Status /\ s # "RUNNING"
      BY <1>c DEF Terminal, Active
    <2>2. x = [r EXCEPT !.status = s, !.token = NoToken, !.ttl = Expired]
      BY <1>10 DEF HandedBack, HandBack, Becomes, Release
    <2> HIDE DEF s
    <2>3. x \in Row /\ x.failures = r.failures /\ x.version = r.version /\ x.status = s
      BY <1>0, <1>c, <2>1, <2>2 DEF Row
    <2> QED BY <1>10, <1>f, <2>1, <2>3 DEF HandedBack, Active
  <1>11. CASE Resumed(j)
    <2>1. PICK failed \in BOOLEAN : x = Resume(r, failed)
      BY <1>11 DEF Resumed, Becomes
    <2> DEFINE s == IF r.cancel THEN "CANCELLED" ELSE IF failed THEN "FAILED" ELSE "QUEUED"
    <2>2. s \in Status /\ s # "RUNNING"
      BY <1>c DEF Terminal, Active
    <2>3. x = r \/ (x = [r EXCEPT !.status = s] /\ r.status = "WAITING_DATA")
      BY <2>1 DEF Resume
    <2> HIDE DEF s
    <2>4. x \in Row /\ x.failures = r.failures /\ x.version = r.version /\ x.ttl = r.ttl
          /\ (x.status = r.status \/ (x.status = s /\ r.status = "WAITING_DATA"))
      BY <1>0, <2>2, <2>3 DEF Row
    <2> QED BY <1>f, <2>2, <2>4 DEF Active, Waiting
  <1>12. CASE GivenBack(j)
    <2> DEFINE lost == r.failures + 1
               s    == IF r.cancel THEN "CANCELLED"
                       ELSE IF lost >= MaxFailures THEN "FAILED" ELSE "QUEUED"
               n    == IF r.attempt > 0 THEN lost ELSE r.failures
    <2>1. r.status \in Active
      BY <1>12 DEF GivenBack, SweepSelects, Active
    <2>2. /\ s \in Status /\ s # "RUNNING" /\ n \in 0..MaxFailures /\ s # "NONE"
          /\ s \in Active => n < MaxFailures
      BY <1>c, <1>t, <1>f, <2>1 DEF Terminal, Active, Waiting
    <2>3. x = [r EXCEPT !.status = s, !.token = NoToken, !.ttl = Expired, !.failures = n]
      BY <1>0, <1>12 DEF GivenBack, Swept, Becomes, Release, Row
    <2> HIDE DEF s, n
    <2>4. x \in Row /\ x.failures = n /\ x.version = r.version /\ x.status = s
      BY <1>0, <1>c, <2>2, <2>3 DEF Row
    <2> QED BY <1>f, <2>2, <2>4
  <1>13. CASE Recovered(j)
    <2>1. x = Recover(r) /\ "FAILED" \in Status /\ "QUEUED" \in Status
      BY <1>13, <1>c DEF Recovered, Becomes, Terminal, Active
    <2>2. /\ x \in Row /\ x.failures = r.failures /\ x.version = r.version /\ x.ttl = r.ttl
          /\ x.status = r.status \/ (x.status \in {"FAILED", "QUEUED"} /\ r.status \in Waiting)
      BY <1>0, <2>1 DEF Recover, Row, Waiting
    <2> QED BY <1>f, <2>2 DEF Active
  <1>14. CASE Aged(j)
    <2>1. x = [r EXCEPT !.ttl = @ - 1] /\ r.ttl - 1 \in Expired..LeaseTicks
      BY <1>0, <1>14, <1>c, <1>t DEF Aged, Live, Becomes
    <2>2. x \in Row /\ x.failures = r.failures /\ x.version = r.version /\ x.status = "RUNNING"
      BY <1>0, <1>14, <2>1 DEF Row, Aged, Live
    <2> QED BY <1>f, <1>14, <1>c, <1>t, <2>2 DEF Active, Aged, Live
  <1> QED BY <1>0, <1>1, <1>2, <1>3, <1>4, <1>5, <1>6, <1>7, <1>8, <1>9, <1>10, <1>11, <1>12,
             <1>13, <1>14 DEF RowMove

LEMMA NextKeepsRows ==
    ASSUME IInv, Next
    PROVE  jobs' \in [Jobs -> Row] /\ \A j \in Jobs : RowFacts(j)'
  <1>1. jobs' = [j \in Jobs |-> jobs'[j]]
    <2>0. jobs \in [Jobs -> Row]
      BY DEF IInv, TypeOK
    <2>1. CASE UserNext \/ AgentNext
      BY <2>0, <2>1 DEF UserNext, AgentNext, StartJob, EndProviderCheck, CancelJob, CollectJob,
                        HeartbeatJob, NeedsData, FinishJob, SetJob
    <2>2. CASE DispatchNext
      BY <2>0, <2>2 DEF DispatchNext, AskForLatest, StartSampling, EndSampling, Offer,
                        OfferWhileSampling, FetchDataset, InvalidateClient, ClaimJob,
                        ClaimAfterSampling, GrantJob, SetJob, queueVars
    <2>3. CASE CollectNext
      BY <2>0, <2>3 DEF CollectNext, ResumeJob, BeginCollection, StoreCollected, EndCollection,
                        BecomeDue, FailCollection, StoreOther, queueVars, SetJob
    <2>4. CASE PublishNext \/ SweepJobs \/ Crash \/ Boot \/ Tick
      BY <2>0, <2>4 DEF PublishNext, CopyDataset, CommitDataset, RetryDataset, PublicationSettled,
                        PublicationFailed, PruneDatasets, SweepJobs, Crash, Boot, Tick, queueVars
    <2> QED BY <2>1, <2>2, <2>3, <2>4 DEF Next
  <1> QED BY <1>1, RowMoveKeepsRow

\* A row that ended does not come back: only a new job becomes active.
LEMMA ActiveMoves ==
    ASSUME NEW j \in Jobs, RowMove(j), jobs[j] \in Row, jobs'[j].status \in Active
    PROVE  jobs[j].status \in Active \/ Started(j)
  <1> USE DEF Becomes, Active, Waiting
  <1>1. CASE Stays(j) \/ Checked(j) \/ Asked(j) \/ Recovered(j)
    BY <1>1 DEF Stays, Checked, CanEndCheck, Asked, Cancel, Recovered, Recover, Row
  <1>2. CASE Claimed(j) \/ Extended(j) \/ Deferred(j) \/ Finished(j) \/ HandedBack(j) \/ Aged(j)
    BY <1>2 DEF Claimed, Claimable, Extended, Deferred, Finished, HandedBack, Aged, Live
  <1>3. CASE Resumed(j) \/ GivenBack(j)
    BY <1>3 DEF Resumed, Resume, GivenBack, SweepSelects
  <1>4. CASE Removed(j)
    BY <1>4 DEF Removed, Blank
  <1> QED BY <1>1, <1>2, <1>3, <1>4 DEF RowMove

LEMMA NextKeepsSingleFlight == ASSUME IInv, Next PROVE SingleFlight'
  <1> SUFFICES ASSUME NEW j \in Jobs, NEW k \in Jobs, SameInput[j] = SameInput[k],
                      jobs'[j].status \in Active, jobs'[k].status \in Active, j # k
               PROVE  FALSE
    BY DEF SingleFlight
  <1>0. RowMove(j) /\ RowMove(k) /\ jobs[j] \in Row /\ jobs[k] \in Row /\ SingleFlight
    BY RowMoves DEF IInv, TypeOK
  <1>1. jobs[j].status \in Active \/ Started(j)
    BY <1>0, ActiveMoves
  <1>2. jobs[k].status \in Active \/ Started(k)
    BY <1>0, ActiveMoves
  <1>3. CASE Started(j)
    BY <1>3 DEF Started, IsTaken, Stays, Becomes
  <1>4. CASE Started(k)
    BY <1>4 DEF Started, IsTaken, Stays, Becomes
  <1> QED BY <1>0, <1>1, <1>2, <1>3, <1>4 DEF SingleFlight

-----------------------------------------------------------------------------
(* Requests and the collection under way.                                  *)

RequestFacts ==
    /\ reqs \in [Requests -> RequestRow]
    /\ runner \in [at : {"idle", "collect", "publish"}, request : SUBSET Requests,
                   attempts : 0..MaxCollections]
    /\ up \in BOOLEAN
    /\ RequestsCanFail /\ RunnerIsSingle /\ NoOrphanedCollection

LEMMA RequestFactsHold == ASSUME IInv PROVE RequestFacts
  BY DEF IInv, TypeOK, RequestFacts

\* Nothing happens to the requests, or jobs ask for more.
LEMMA RequestsStay ==
    ASSUME RequestFacts, UNCHANGED <<reqs, runner, up>>
    PROVE  RequestFacts'
  BY DEF RequestFacts, RequestsCanFail, RunnerIsSingle, NoOrphanedCollection

\* The row of the request q that was collected is r from now on.
LEMMA CollectionEnds ==
    ASSUME RequestFacts, up, up', runner' = NoRunner, NEW q \in runner.request, NEW r \in RequestRow,
           reqs' = [reqs EXCEPT ![q] = r], r.status # "RUNNING",
           r.status = "QUEUED" => r.attempts < MaxCollections
    PROVE  RequestFacts'
  <1>0. /\ q \in Requests /\ \A p \in Requests : p # q => reqs'[p] = reqs[p] /\ p \notin runner.request
        /\ reqs'[q] = r
    BY DEF RequestFacts, RunnerIsSingle
  <1>1. NoRunner \in [at : {"idle", "collect", "publish"}, request : SUBSET Requests,
                      attempts : 0..MaxCollections]
    BY DataQueueAssumption DEF NoRunner
  <1>2. NoRunner.at = "idle" /\ NoRunner.request = {} /\ NoRunner.attempts = 0
    BY DEF NoRunner
  <1>3. RequestsCanFail' /\ NoOrphanedCollection'
    BY <1>0, <1>2 DEF RequestFacts, RequestsCanFail, NoOrphanedCollection
  <1>4. RunnerIsSingle'
    BY <1>2, DataQueueAssumption DEF RunnerIsSingle
  <1> QED BY <1>1, <1>3, <1>4 DEF RequestFacts

\* What becomes of a request whose collection fails.
LEMMA FailedRow ==
    ASSUME RequestFacts, NEW q \in Requests, NEW how \in Failure
    PROVE  LET r == Failed(reqs[q], runner.attempts, how)
           IN  /\ r \in RequestRow /\ r.status \notin {"RUNNING", "COMPLETED", "NONE"}
               /\ r.status = "QUEUED" => r.attempts < MaxCollections
  <1> DEFINE r == Failed(reqs[q], runner.attempts, how)
             n == runner.attempts
  <1>0. /\ reqs[q] \in RequestRow /\ n \in Nat /\ n < MaxCollections /\ MaxCollections \in Nat
        /\ n \in 0..MaxCollections /\ n + 1 \in 0..MaxCollections
        /\ {"QUEUED", "BLOCKED", "FAILED"} \subseteq RequestStatus
    BY DataQueueAssumption DEF RequestFacts, RunnerIsSingle, RequestStatus
  <1>1. CASE how = "later"
    <2>1. r = [reqs[q] EXCEPT !.status = "QUEUED", !.attempts = n, !.due = FALSE]
      BY <1>1 DEF Failed
    <2> QED BY <1>0, <2>1 DEF RequestRow
  <1>2. CASE how = "blocked"
    <2>1. r = [reqs[q] EXCEPT !.status = "BLOCKED", !.attempts = n, !.due = FALSE]
      BY <1>2 DEF Failed
    <2> QED BY <1>0, <2>1 DEF RequestRow
  <1>3. CASE how = "error"
    <2> DEFINE s == IF n + 1 >= MaxCollections THEN "FAILED" ELSE "QUEUED"
    <2>1. r = [reqs[q] EXCEPT !.attempts = n + 1, !.due = FALSE, !.status = s]
      BY <1>3 DEF Failed
    <2>2. s \in RequestStatus /\ (s = "QUEUED" => n + 1 < MaxCollections)
          /\ s \notin {"RUNNING", "COMPLETED", "NONE"}
      BY <1>0
    <2> HIDE DEF s
    <2>3. r \in RequestRow /\ r.status = s /\ r.attempts = n + 1
      BY <1>0, <2>1, <2>2 DEF RequestRow
    <2> QED BY <2>2, <2>3
  <1> QED BY <1>1, <1>2, <1>3 DEF Failure

LEMMA CompletedRow ==
    ASSUME RequestFacts, NEW q \in Requests, NEW v \in Nat
    PROVE  LET r == Completed(reqs[q], v)
           IN  r \in RequestRow /\ r.status = "COMPLETED" /\ r.available = v
  <1>1. reqs[q] \in RequestRow /\ "COMPLETED" \in RequestStatus
    BY DEF RequestFacts, RequestStatus
  <1> QED BY <1>1 DEF Completed, RequestRow

\* How a request can come to be done.
DoneMove(q) ==
    reqs'[q].status = "COMPLETED" =>
      \/ reqs[q].status = "COMPLETED" /\ reqs'[q].available = reqs[q].available
      \/ IsLatest /\ UNCHANGED snapVars /\ reqs'[q].available = current
      \/ Settle /\ reqs'[q].available = Len(snaps)

LEMMA NextKeepsRequests ==
    ASSUME IInv, Next
    PROVE  /\ RequestFacts'
           /\ \A q \in Requests : (reqs[q].status # "NONE" => reqs'[q].status # "NONE") /\ DoneMove(q)
  <1> DEFINE Goal == /\ RequestFacts'
                     /\ \A q \in Requests : /\ reqs[q].status # "NONE" => reqs'[q].status # "NONE"
                                            /\ DoneMove(q)
  <1> SUFFICES Goal
    OBVIOUS
  <1>0. RequestFacts /\ granted \subseteq Lease /\ current \in Nat /\ Len(snaps) \in Nat
    BY RequestFactsHold, SnapshotTypes DEF IInv, TypeOK
  <1>r. /\ reqs \in [Requests -> RequestRow] /\ runner.request \subseteq Requests
        /\ \A q, p \in runner.request : p = q
    BY <1>0 DEF RequestFacts, RunnerIsSingle
  <1>1. CASE UNCHANGED <<reqs, runner, up>>
    BY <1>0, <1>1, RequestsStay DEF DoneMove
  <1>2. ASSUME NEW l \in granted, NEW q \in Requests, NeedsData(l, q), reqs' # reqs PROVE Goal
    <2>1. SetRequest(q, Ask(reqs[q], jobs[l.job].version)) /\ UNCHANGED <<runner, up>>
      BY <1>2 DEF NeedsData
    <2>2. /\ reqs'[q].status # "NONE" /\ reqs' \in [Requests -> RequestRow]
          /\ reqs'[q].status = "RUNNING" <=> reqs[q].status = "RUNNING"
          /\ reqs'[q].status = "COMPLETED" =>
               reqs[q].status = "COMPLETED" /\ reqs'[q].available = reqs[q].available
          /\ reqs'[q].status \in {"QUEUED", "RUNNING"} =>
               \/ reqs'[q].attempts = 0
               \/ reqs[q].status = reqs'[q].status /\ reqs[q].attempts = reqs'[q].attempts
          /\ \A p \in Requests : p # q => reqs'[p] = reqs[p]
      BY <1>r, <2>1, AskedIsKnown
    <2>3. RequestsCanFail' /\ NoOrphanedCollection' /\ RunnerIsSingle'
      BY <1>0, <2>1, <2>2, DataQueueAssumption
         DEF RequestFacts, RequestsCanFail, NoOrphanedCollection, RunnerIsSingle
    <2> QED BY <1>0, <2>1, <2>2, <2>3 DEF RequestFacts, DoneMove
  <1>3. ASSUME NEW q \in Requests, BeginCollection(q) PROVE Goal
    <2>0. /\ up /\ up' = up /\ runner = NoRunner /\ reqs[q].status = "QUEUED"
          /\ reqs' = [reqs EXCEPT ![q] = [reqs[q] EXCEPT !.status = "RUNNING"]]
          /\ runner' = [at |-> "collect", request |-> {q}, attempts |-> reqs[q].attempts]
      BY <1>3 DEF BeginCollection, Collectable, SetRequest, Begin
    <2>1. /\ reqs[q] \in RequestRow /\ "RUNNING" \in RequestStatus
          /\ reqs[q].attempts \in 0..MaxCollections /\ reqs[q].attempts < MaxCollections
      BY <1>0, <1>r, <2>0 DEF RequestFacts, RequestsCanFail, RequestRow, RequestStatus
    <2>2. /\ reqs'[q] \in RequestRow /\ reqs'[q].status = "RUNNING"
          /\ reqs'[q].attempts = reqs[q].attempts
          /\ \A p \in Requests : p # q => reqs'[p] = reqs[p]
      BY <1>r, <2>0, <2>1 DEF RequestRow
    <2>3. reqs' \in [Requests -> RequestRow]
      BY <1>r, <2>0, <2>2
    <2>4. /\ runner' \in [at : {"idle", "collect", "publish"}, request : SUBSET Requests,
                          attempts : 0..MaxCollections]
          /\ runner'.request = {q} /\ runner'.at = "collect" /\ runner'.attempts < MaxCollections
      BY <2>0, <2>1
    <2>5. runner.request = {}
      BY <2>0 DEF NoRunner
    <2>6. RequestsCanFail' /\ NoOrphanedCollection'
      BY <1>0, <2>0, <2>1, <2>2, <2>4, <2>5
         DEF RequestFacts, RequestsCanFail, NoOrphanedCollection
    <2>7. RunnerIsSingle'
      BY <2>0, <2>4 DEF RunnerIsSingle
    <2>8. RequestFacts'
      BY <1>0, <2>0, <2>3, <2>4, <2>6, <2>7 DEF RequestFacts
    <2> QED BY <2>2, <2>8 DEF DoneMove
  <1>4. ASSUME NEW q \in Requests, EndCollection(q) PROVE Goal
    <2>0. up /\ up' = up /\ q \in runner.request /\ runner.at = "collect"
      BY <1>4 DEF EndCollection
    <2>1. CASE IsLatest /\ SetRequest(q, Completed(reqs[q], current)) /\ runner' = NoRunner
               /\ UNCHANGED snapVars
      <3>1. /\ Completed(reqs[q], current) \in RequestRow
            /\ Completed(reqs[q], current).status = "COMPLETED"
            /\ Completed(reqs[q], current).available = current
        BY <1>0, CompletedRow
      <3>2. reqs' = [reqs EXCEPT ![q] = Completed(reqs[q], current)]
        BY <2>1 DEF SetRequest
      <3>3. RequestFacts'
        BY <1>0, <2>0, <2>1, <3>1, <3>2, CollectionEnds
      <3> QED BY <1>r, <2>1, <3>1, <3>2, <3>3 DEF DoneMove
    <2>2. CASE runner' = [runner EXCEPT !.at = "publish"] /\ UNCHANGED reqs
      <3>1. /\ runner' \in [at : {"idle", "collect", "publish"}, request : SUBSET Requests,
                            attempts : 0..MaxCollections]
            /\ runner'.request = runner.request /\ runner'.at = "publish"
            /\ runner'.attempts = runner.attempts
        BY <1>0, <2>2 DEF RequestFacts
      <3>2. RunnerIsSingle' /\ NoOrphanedCollection' /\ RequestsCanFail'
        BY <1>0, <2>0, <2>2, <3>1
           DEF RequestFacts, RunnerIsSingle, NoOrphanedCollection, RequestsCanFail
      <3> QED BY <1>0, <2>0, <2>2, <3>1, <3>2 DEF RequestFacts, DoneMove
    <2> QED BY <1>4, <2>1, <2>2 DEF EndCollection
  <1>5. ASSUME NEW q \in Requests, NEW how \in Failure, FailCollection(q, how) PROVE Goal
    <2> DEFINE r == Failed(reqs[q], runner.attempts, how)
    <2>0. /\ up /\ up' = up /\ q \in runner.request /\ runner' = NoRunner
          /\ reqs' = [reqs EXCEPT ![q] = r]
      BY <1>5 DEF FailCollection, SetRequest
    <2>1. /\ r \in RequestRow /\ r.status \notin {"RUNNING", "COMPLETED", "NONE"}
          /\ r.status = "QUEUED" => r.attempts < MaxCollections
      BY <1>0, FailedRow
    <2> HIDE DEF r
    <2>2. RequestFacts'
      BY <1>0, <2>0, <2>1, CollectionEnds
    <2> QED BY <1>r, <2>0, <2>1, <2>2 DEF DoneMove
  <1>6. ASSUME NEW q \in Requests, BecomeDue(q) PROVE Goal
    <2>0. reqs' = [reqs EXCEPT ![q] = [reqs[q] EXCEPT !.due = TRUE]] /\ UNCHANGED <<runner, up>>
      BY <1>6 DEF BecomeDue, SetRequest
    <2>1. reqs[q] \in RequestRow
      BY <1>r
    <2>2. /\ reqs'[q] \in RequestRow /\ reqs'[q].status = reqs[q].status
          /\ reqs'[q].attempts = reqs[q].attempts /\ reqs'[q].available = reqs[q].available
          /\ \A p \in Requests : p # q => reqs'[p] = reqs[p]
      BY <1>r, <2>0, <2>1 DEF RequestRow
    <2>3. reqs' \in [Requests -> RequestRow]
      BY <1>r, <2>0, <2>2
    <2>4. RequestsCanFail' /\ NoOrphanedCollection' /\ RunnerIsSingle'
      BY <1>0, <2>0, <2>2 DEF RequestFacts, RequestsCanFail, NoOrphanedCollection, RunnerIsSingle
    <2> QED BY <1>0, <2>0, <2>2, <2>3, <2>4 DEF RequestFacts, DoneMove
  <1>7. CASE PublicationSettled /\ runner.at = "publish"
    <2>0. /\ up /\ up' = up /\ runner' = NoRunner /\ Settle
          /\ reqs' = [q \in Requests |-> IF q \in runner.request
                                         THEN Completed(reqs[q], Len(snaps)) ELSE reqs[q]]
      BY <1>7 DEF PublicationSettled
    <2>1. CASE runner.request = {}
      <3>1. reqs' = reqs
        BY <1>r, <2>0, <2>1
      <3>2. /\ NoRunner \in [at : {"idle", "collect", "publish"}, request : SUBSET Requests,
                             attempts : 0..MaxCollections]
            /\ NoRunner.request = {} /\ NoRunner.attempts = 0
        BY DataQueueAssumption DEF NoRunner
      <3>3. RequestsCanFail' /\ NoOrphanedCollection' /\ RunnerIsSingle'
        BY <1>0, <2>0, <2>1, <3>1, <3>2, DataQueueAssumption
           DEF RequestFacts, RequestsCanFail, NoOrphanedCollection, RunnerIsSingle
      <3> QED BY <1>0, <2>0, <3>1, <3>2, <3>3 DEF RequestFacts, DoneMove
    <2>2. ASSUME NEW q \in runner.request PROVE Goal
      <3> DEFINE r == Completed(reqs[q], Len(snaps))
      <3>1. r \in RequestRow /\ r.status = "COMPLETED" /\ r.available = Len(snaps)
        BY <1>0, <1>r, CompletedRow
      <3> HIDE DEF r
      <3>2. reqs' = [reqs EXCEPT ![q] = r]
        BY <1>r, <2>0 DEF r
      <3>3. RequestFacts'
        BY <1>0, <2>0, <3>1, <3>2, CollectionEnds
      <3> QED BY <1>r, <2>0, <3>1, <3>2, <3>3 DEF DoneMove
    <2> QED BY <2>1, <2>2
  <1>8. CASE PublicationFailed /\ runner.at = "publish"
    <2>0. /\ up /\ up' = up /\ runner' = NoRunner
          /\ reqs' = [q \in Requests |-> IF q \in runner.request
                                         THEN Failed(reqs[q], runner.attempts, "error") ELSE reqs[q]]
      BY <1>8 DEF PublicationFailed
    <2>1. CASE runner.request = {}
      <3>1. reqs' = reqs
        BY <1>r, <2>0, <2>1
      <3>2. /\ NoRunner \in [at : {"idle", "collect", "publish"}, request : SUBSET Requests,
                             attempts : 0..MaxCollections]
            /\ NoRunner.request = {} /\ NoRunner.attempts = 0
        BY DataQueueAssumption DEF NoRunner
      <3>3. RequestsCanFail' /\ NoOrphanedCollection' /\ RunnerIsSingle'
        BY <1>0, <2>0, <2>1, <3>1, <3>2, DataQueueAssumption
           DEF RequestFacts, RequestsCanFail, NoOrphanedCollection, RunnerIsSingle
      <3> QED BY <1>0, <2>0, <3>1, <3>2, <3>3 DEF RequestFacts, DoneMove
    <2>2. ASSUME NEW q \in runner.request PROVE Goal
      <3> DEFINE r == Failed(reqs[q], runner.attempts, "error")
      <3>0. "error" \in Failure
        BY DEF Failure
      <3>1. /\ r \in RequestRow /\ r.status \notin {"RUNNING", "COMPLETED", "NONE"}
            /\ r.status = "QUEUED" => r.attempts < MaxCollections
        BY <1>0, <1>r, <3>0, FailedRow
      <3> HIDE DEF r
      <3>2. reqs' = [reqs EXCEPT ![q] = r]
        BY <1>r, <2>0 DEF r
      <3>3. RequestFacts'
        BY <1>0, <2>0, <3>1, <3>2, CollectionEnds
      <3> QED BY <1>r, <2>0, <3>1, <3>2, <3>3 DEF DoneMove
    <2> QED BY <2>1, <2>2
  <1>9. CASE Crash
    <2>1. /\ NoRunner \in [at : {"idle", "collect", "publish"}, request : SUBSET Requests,
                           attempts : 0..MaxCollections]
          /\ NoRunner.request = {} /\ NoRunner.attempts = 0
      BY DataQueueAssumption DEF NoRunner
    <2>2. up' = FALSE /\ reqs' = reqs /\ runner' = NoRunner
      BY <1>9 DEF Crash
    <2>3. RequestsCanFail' /\ NoOrphanedCollection' /\ RunnerIsSingle'
      BY <1>0, <2>1, <2>2, DataQueueAssumption
         DEF RequestFacts, RequestsCanFail, NoOrphanedCollection, RunnerIsSingle
    <2> QED BY <1>0, <2>1, <2>2, <2>3 DEF RequestFacts, DoneMove
  <1>10. CASE Boot
    <2>1. /\ up' = TRUE /\ ~ up /\ runner' = runner /\ runner = NoRunner /\ runner.request = {}
          /\ reqs' = [q \in Requests |-> RecoverRequest(reqs[q])]
      BY <1>0, <1>10 DEF Boot, RequestFacts, RunnerIsSingle, NoRunner
    <2>2. ASSUME NEW q \in Requests
          PROVE  /\ reqs'[q] \in RequestRow /\ reqs'[q].attempts = reqs[q].attempts
                 /\ reqs'[q].available = reqs[q].available
                 /\ reqs'[q].status = IF reqs[q].status = "RUNNING" THEN "QUEUED" ELSE reqs[q].status
      <3>1. reqs[q] \in RequestRow /\ "QUEUED" \in RequestStatus
        BY <1>r DEF RequestStatus
      <3> QED BY <2>1, <3>1 DEF RecoverRequest, RequestRow
    <2>3. reqs' \in [Requests -> RequestRow]
      BY <2>1, <2>2
    <2>4. RequestsCanFail' /\ NoOrphanedCollection' /\ RunnerIsSingle'
      BY <1>0, <2>1, <2>2 DEF RequestFacts, RequestsCanFail, NoOrphanedCollection, RunnerIsSingle
    <2> QED BY <1>0, <2>1, <2>2, <2>3, <2>4 DEF RequestFacts, DoneMove
  <1>11. \/ UNCHANGED <<reqs, runner, up>>
         \/ \E l \in granted, q \in Requests : NeedsData(l, q) /\ reqs' # reqs
         \/ \E q \in Requests : \/ BeginCollection(q) \/ EndCollection(q) \/ BecomeDue(q)
                                \/ \E how \in Failure : FailCollection(q, how)
         \/ (PublicationSettled \/ PublicationFailed) /\ runner.at = "publish"
         \/ Crash \/ Boot
    <2>1. CASE UserNext \/ SweepJobs \/ Tick
      BY <2>1 DEF UserNext, StartJob, EndProviderCheck, CancelJob, CollectJob, SweepJobs, Tick, collectVars
    <2>2. CASE DispatchNext
      BY <2>2 DEF DispatchNext, AskForLatest, StartSampling, EndSampling, Offer, OfferWhileSampling,
                  FetchDataset, InvalidateClient, ClaimJob, ClaimAfterSampling, collectVars
    <2>3. CASE AgentNext
      BY <2>3 DEF AgentNext, HeartbeatJob, NeedsData, FinishJob, collectVars
    <2>4. CASE CollectNext
      BY <2>4 DEF CollectNext, ResumeJob, StoreCollected, StoreOther, collectVars
    <2>5. CASE PublishNext
      BY <2>5 DEF PublishNext, CopyDataset, CommitDataset, RetryDataset, PublicationSettled,
                  PublicationFailed, PruneDatasets, collectVars
    <2> QED BY <2>1, <2>2, <2>3, <2>4, <2>5 DEF Next
  <1> HIDE DEF Goal
  <1> QED BY <1>1, <1>2, <1>3, <1>4, <1>5, <1>6, <1>7, <1>8, <1>9, <1>10, <1>11

-----------------------------------------------------------------------------
(* Waits.                                                                  *)

\* A wait is written with its request, and deleted with the status of its job.
WaitMove(j) ==
    \/ waits'[j] = waits[j]
    \/ Deferred(j)
    \/ waits'[j] = {} /\ jobs'[j].status # "WAITING_DATA"

LEMMA NextMovesWaits ==
    ASSUME IInv, Next
    PROVE  /\ waits' \in [Jobs -> {{}} \cup {{q} : q \in Requests}]
           /\ \A j \in Jobs : WaitMove(j)
  <1>0. /\ waits \in [Jobs -> {{}} \cup {{q} : q \in Requests}] /\ jobs \in [Jobs -> Row]
        /\ reqs \in [Requests -> RequestRow] /\ \A l \in granted : l.job \in Jobs
    BY DEF IInv, TypeOK, Lease
  <1>1. CASE waits' = waits
    BY <1>0, <1>1 DEF WaitMove
  <1>2. ASSUME NEW l \in granted, NEW q \in Requests, NeedsData(l, q), waits' # waits
        PROVE  /\ waits' \in [Jobs -> {{}} \cup {{p} : p \in Requests}]
               /\ \A j \in Jobs : WaitMove(j)
    <2>1. /\ SetJob(l.job, WaitForData(jobs[l.job])) /\ waits' = [waits EXCEPT ![l.job] = {q}]
          /\ SetRequest(q, Ask(reqs[q], jobs[l.job].version)) /\ Owns(jobs[l.job], l)
      BY <1>2 DEF NeedsData
    <2>2. reqs'[q].status # "NONE"
      BY <1>0, <2>1, AskedIsKnown
    <2>3. Deferred(l.job)
      BY <1>0, <2>1, <2>2 DEF Deferred, Live, Owns, SetJob, Becomes
    <2> QED BY <1>0, <2>1, <2>3 DEF WaitMove
  <1>3. ASSUME NEW j \in Jobs, ResumeJob(j)
        PROVE  /\ waits' \in [Jobs -> {{}} \cup {{p} : p \in Requests}]
               /\ \A k \in Jobs : WaitMove(k)
    <2>1. PICK q \in waits[j] : SetJob(j, Resume(jobs[j], reqs[q].status = "FAILED"))
      BY <1>3 DEF ResumeJob
    <2>2. jobs'[j].status # "WAITING_DATA"
      BY <1>0, <2>1 DEF SetJob, Resume, Row
    <2>3. waits' = [waits EXCEPT ![j] = {}]
      BY <1>3 DEF ResumeJob
    <2> QED BY <1>0, <2>2, <2>3 DEF WaitMove
  <1>4. \/ waits' = waits
        \/ \E l \in granted, q \in Requests : NeedsData(l, q) /\ waits' # waits
        \/ \E j \in Jobs : ResumeJob(j)
    <2>1. CASE UserNext \/ SweepJobs \/ Tick \/ Crash \/ Boot
      BY <2>1 DEF UserNext, StartJob, EndProviderCheck, CancelJob, CollectJob, SweepJobs, Tick,
                  collectVars, Crash, Boot
    <2>2. CASE DispatchNext
      BY <2>2 DEF DispatchNext, AskForLatest, StartSampling, EndSampling, Offer, OfferWhileSampling,
                  FetchDataset, InvalidateClient, ClaimJob, ClaimAfterSampling, collectVars
    <2>3. CASE AgentNext
      BY <2>3 DEF AgentNext, HeartbeatJob, NeedsData, FinishJob, collectVars
    <2>4. CASE CollectNext
      BY <2>4 DEF CollectNext, BeginCollection, EndCollection, FailCollection, BecomeDue,
                  StoreCollected, StoreOther, collectVars
    <2>5. CASE PublishNext
      BY <2>5 DEF PublishNext, CopyDataset, CommitDataset, RetryDataset, PublicationSettled,
                  PublicationFailed, PruneDatasets, collectVars
    <2> QED BY <2>1, <2>2, <2>3, <2>4, <2>5 DEF Next
  <1> QED BY <1>1, <1>2, <1>3, <1>4

\* Only NEEDS_DATA makes a job wait for a request.
LEMMA WaitingMoves ==
    ASSUME NEW j \in Jobs, RowMove(j), jobs[j] \in Row,
           jobs'[j].status = "WAITING_DATA", ~ jobs'[j].discovery
    PROVE  Deferred(j) \/ (jobs[j].status = "WAITING_DATA" /\ ~ jobs[j].discovery)
  <1> USE DEF Becomes, Waiting
  <1>1. CASE Stays(j) \/ Started(j)
    BY <1>1 DEF Stays, Started, Insert, Row
  <1>2. CASE Checked(j) \/ Asked(j) \/ Recovered(j)
    BY <1>2 DEF Checked, CanEndCheck, EndCheck, Asked, Cancel, Recovered, Recover, Row
  <1>3. CASE Claimed(j) \/ Extended(j) \/ Aged(j)
    BY <1>3 DEF Claimed, Claim, Extended, Heartbeat, Aged, Live, Row
  <1>4. CASE Finished(j)
    <2>1. PICK outcome \in Terminal, fresh \in BOOLEAN : jobs'[j] = Finish(jobs[j], outcome, fresh)
      BY <1>4 DEF Finished
    <2>2. jobs'[j].status \in Terminal \cup {"QUEUED"}
      BY <2>1 DEF Finish, Release, Row, Terminal
    <2> QED BY <2>2 DEF Terminal
  <1>5. CASE HandedBack(j) \/ GivenBack(j)
    BY <1>5 DEF HandedBack, HandBack, GivenBack, Swept, Release, Row
  <1>6. CASE Resumed(j) \/ Removed(j)
    BY <1>6 DEF Resumed, Resume, Removed, Blank, Row
  <1> QED BY <1>1, <1>2, <1>3, <1>4, <1>5, <1>6 DEF RowMove

LEMMA NextKeepsWaits == ASSUME IInv, Next PROVE WaitingJobsAreRemembered'
  <1> SUFFICES ASSUME NEW j \in Jobs, jobs'[j].status = "WAITING_DATA", ~ jobs'[j].discovery
               PROVE  \E q \in waits'[j] : reqs'[q].status # "NONE"
    BY DEF WaitingJobsAreRemembered
  <1>0. RowMove(j) /\ jobs[j] \in Row /\ WaitMove(j) /\ waits[j] \subseteq Requests
    BY RowMoves, NextMovesWaits DEF IInv, TypeOK
  <1>1. CASE Deferred(j)
    BY <1>1 DEF Deferred
  <1>2. CASE ~ Deferred(j)
    <2>1. waits'[j] = waits[j]
      BY <1>0, <1>2 DEF WaitMove
    <2>2. jobs[j].status = "WAITING_DATA" /\ ~ jobs[j].discovery
      BY <1>0, <1>2, WaitingMoves
    <2>3. PICK q \in waits[j] : reqs[q].status # "NONE"
      BY <2>2 DEF IInv, WaitingJobsAreRemembered
    <2> QED BY <1>0, <2>1, <2>3, NextKeepsRequests
  <1> QED BY <1>1, <1>2

-----------------------------------------------------------------------------
(* Versions in use.                                                        *)

\* Data of a request come in while it is collected, and not otherwise.
LEMMA DataMove ==
    ASSUME IInv, Next, NEW q \in Requests, q \in data'.have, q \notin data.have
    PROVE  reqs'[q].status = "RUNNING"
  <1>1. \E p \in Requests : StoreCollected(p) /\ q = p
    <2>1. data' # data
      OBVIOUS
    <2>2. CASE UserNext \/ SweepJobs \/ Tick \/ Crash \/ Boot
      BY <2>1, <2>2 DEF UserNext, StartJob, EndProviderCheck, CancelJob, CollectJob, SweepJobs, Tick,
                        snapVars, Crash, LosePublication, Boot, ReadLatest
    <2>3. CASE DispatchNext
      BY <2>1, <2>3 DEF DispatchNext, AskForLatest, JoinOrStart, StartSampling, EndSampling, Offer,
                  OfferWhileSampling, FetchDataset, InvalidateClient, ClaimJob, ClaimAfterSampling, snapVars
    <2>4. CASE AgentNext
      BY <2>1, <2>4 DEF AgentNext, HeartbeatJob, NeedsData, FinishJob, snapVars
    <2>5. CASE CollectNext
      <3>1. CASE StoreOther
        BY <3>1 DEF StoreOther, Write
      <3>2. ASSUME NEW p \in Requests, StoreCollected(p) PROVE p = q
        BY <3>2 DEF StoreCollected, Write
      <3>3. CASE ~ StoreOther /\ ~ \E p \in Requests : StoreCollected(p)
        BY <2>1, <2>5, <3>3 DEF CollectNext, ResumeJob, BeginCollection, EndCollection, JoinOrStart,
                                FailCollection, BecomeDue, snapVars
      <3> QED BY <3>1, <3>2, <3>3
    <2>6. CASE PublishNext
      BY <2>1, <2>6 DEF PublishNext, CopyDataset, CommitDataset, RetryDataset, PublicationSettled,
                  PublicationFailed, PruneDatasets, CopyData, Commit, RetryDelayOver, Settle,
                  FailPublication, Prune
    <2> QED BY <2>2, <2>3, <2>4, <2>5, <2>6 DEF Next
  <1>2. StoreCollected(q)
    BY <1>1
  <1>3. up /\ q \in runner.request /\ reqs' = reqs
    BY <1>2 DEF StoreCollected, collectVars
  <1> QED BY <1>3 DEF IInv, NoOrphanedCollection

\* A version the server has made sure of has all that was collected.
LEMMA LatestIsHonest ==
    ASSUME SnapshotsTypeOK, SnapshotsAreDated, IsLatest
    PROVE  Honest(current)
  <1>1. current \in Versions
    BY SnapshotTypes DEF IsLatest, Versions
  <1> QED BY <1>1 DEF IsLatest, SnapshotsAreDated, Dated, Honest

\* A version in use stays honest: what becomes done with it was made sure of,
\* and what a publication brings has a higher number.
LEMMA HonestStays ==
    ASSUME IInv, Next, NEW v \in Nat \ {0}, v <= current, Honest(v)
    PROVE  Honest(v)'
  <1> SUFFICES ASSUME NEW q \in Requests, GapRemains(reqs'[q], v), q \in data'.have
               PROVE  q \in snaps'[v].have
    BY DEF Honest
  <1>0. /\ SnapshotsTypeOK /\ SnapshotsAreDated /\ SnapStep /\ DoneMove(q)
        /\ current \in Nat /\ Len(snaps) \in Nat /\ current <= Len(snaps)
    <2>1. SnapshotsTypeOK /\ SnapshotsAreDated
      BY DEF IInv, TypeOK
    <2>2. SnapStep /\ DoneMove(q)
      BY SnapSteps, NextKeepsRequests
    <2>3. current \in 0..Len(snaps) /\ Len(snaps) \in Nat
      BY <2>1, SnapshotTypes
    <2> QED BY <2>1, <2>2, <2>3
  <1>1. snaps'[v] = snaps[v]
    BY <1>0, VersionsStay DEF Versions
  <1>2. reqs'[q].status = "COMPLETED" /\ reqs'[q].available = v
    BY DEF GapRemains
  <1>3. q \in data.have
    BY <1>2, DataMove
  <1>4. CASE reqs[q].status = "COMPLETED" /\ reqs'[q].available = reqs[q].available
    BY <1>1, <1>2, <1>3, <1>4 DEF Honest, GapRemains
  <1>5. CASE IsLatest /\ UNCHANGED snapVars /\ reqs'[q].available = current
    <2>1. v = current /\ v \in Versions
      BY <1>0, <1>2, <1>5 DEF Versions
    <2> QED BY <1>0, <1>1, <1>3, <1>5, <2>1 DEF IsLatest, SnapshotsAreDated, Dated
  <1>6. CASE Settle /\ reqs'[q].available = Len(snaps)
    BY <1>0, <1>2, <1>6 DEF Settle, SnapshotsAreDated
  <1> QED BY <1>0, <1>2, <1>4, <1>5, <1>6 DEF DoneMove

\* A row that runs is of the version it had, or of one that was just given.
LEMMA RunningMoves ==
    ASSUME NEW j \in Jobs, RowMove(j), jobs[j] \in Row, jobs'[j].status = "RUNNING"
    PROVE  \/ jobs[j].status = "RUNNING" /\ jobs'[j].version = jobs[j].version
           \/ Claimed(j)
  <1> USE DEF Becomes, Waiting
  <1>1. CASE Stays(j) \/ Started(j)
    BY <1>1 DEF Stays, Started, Insert, Row
  <1>2. CASE Checked(j) \/ Asked(j) \/ Recovered(j)
    BY <1>2 DEF Checked, CanEndCheck, EndCheck, Asked, Cancel, Recovered, Recover, Row
  <1>3. CASE Extended(j) \/ Aged(j) \/ Deferred(j)
    BY <1>3 DEF Extended, Heartbeat, Aged, Live, Deferred, WaitForData, Release, Row
  <1>4. CASE Finished(j)
    <2>1. PICK outcome \in Terminal, fresh \in BOOLEAN : jobs'[j] = Finish(jobs[j], outcome, fresh)
      BY <1>4 DEF Finished
    <2>2. jobs'[j].status \in Terminal \cup {"QUEUED"}
      BY <2>1 DEF Finish, Release, Row, Terminal
    <2> QED BY <2>2 DEF Terminal
  <1>5. CASE HandedBack(j) \/ GivenBack(j)
    BY <1>5 DEF HandedBack, HandBack, GivenBack, Swept, Release, Row
  <1>6. CASE Resumed(j) \/ Removed(j)
    BY <1>6 DEF Resumed, Resume, Removed, Blank, Row
  <1> QED BY <1>1, <1>2, <1>3, <1>4, <1>5, <1>6 DEF RowMove

LEMMA SamplingMoves ==
    ASSUME Next
    PROVE  \/ sampling' \in {0, sampling}
           \/ sampling' = current /\ IsLatest /\ UNCHANGED <<snapVars, reqs>>
  <1>1. CASE UserNext \/ SweepJobs \/ Tick \/ Crash \/ Boot
    BY <1>1 DEF UserNext, StartJob, EndProviderCheck, CancelJob, CollectJob, SweepJobs, Tick,
                agentVars, Crash, Boot
  <1>2. CASE DispatchNext
    BY <1>2 DEF DispatchNext, AskForLatest, StartSampling, EndSampling, Offer, OfferWhileSampling,
                OfferDataset, FetchDataset, InvalidateClient, ClaimJob, ClaimAfterSampling, agentVars,
                collectVars
  <1>3. CASE AgentNext
    BY <1>3 DEF AgentNext, HeartbeatJob, NeedsData, FinishJob, agentVars
  <1>4. CASE CollectNext
    BY <1>4 DEF CollectNext, ResumeJob, BeginCollection, EndCollection, FailCollection, BecomeDue,
                StoreCollected, StoreOther, agentVars
  <1>5. CASE PublishNext
    BY <1>5 DEF PublishNext, CopyDataset, CommitDataset, RetryDataset, PublicationSettled,
                PublicationFailed, PruneDatasets, agentVars
  <1> QED BY <1>1, <1>2, <1>3, <1>4, <1>5 DEF Next

LEMMA NextKeepsHonesty == ASSUME IInv, Next PROVE VersionsInUseAreHonest'
  <1>0. /\ SnapshotsTypeOK /\ SnapshotsAreDated /\ current \in Nat /\ sampling \in 0..current
        /\ VersionsInUseAreHonest /\ jobs \in [Jobs -> Row]
    BY SnapshotTypes DEF IInv, TypeOK
  <1>1. ASSUME NEW j \in Jobs, jobs'[j].status = "RUNNING", jobs'[j].version # 0
        PROVE  Honest(jobs[j].version)'
    <2>0. RowMove(j) /\ jobs[j] \in Row /\ RowFacts(j)
      BY <1>0, RowMoves DEF IInv
    <2>1. CASE jobs[j].status = "RUNNING" /\ jobs'[j].version = jobs[j].version
      <3> DEFINE v == jobs[j].version
      <3>1. v \in Nat \ {0} /\ v <= current /\ Honest(v)
        BY <1>0, <1>1, <2>0, <2>1 DEF Row, RowFacts, VersionsInUseAreHonest
      <3>2. Honest(v)'
        <4> HIDE DEF v
        <4>1. PICK w \in Nat \ {0} : w = v /\ w <= current /\ Honest(w)
          BY <3>1
        <4>2. Honest(w)'
          BY <4>1, HonestStays
        <4>3. w = v /\ jobs'[j].version = w
          BY <2>1, <4>1 DEF v
        <4> QED BY <4>2, <4>3 DEF Honest, v
      <3> QED BY <3>2
    <2>2. CASE Claimed(j)
      <3>1. PICK a \in Agents, v \in {current, sampling} :
              /\ v # 0 /\ (v = sampling \/ IsLatest)
              /\ jobs'[j] = Claim(jobs[j], a, v, LeaseTicks)
        BY <2>2 DEF Claimed, Becomes
      <3>2. jobs'[j].version = v /\ UNCHANGED <<snapVars, reqs>>
        BY <2>0, <2>2, <3>1 DEF Claim, Row, Claimed
      <3>3. Honest(v)
        <4>1. CASE v = sampling
          BY <1>0, <3>1, <4>1 DEF VersionsInUseAreHonest
        <4>2. CASE v = current /\ IsLatest
          BY <1>0, <4>2, LatestIsHonest
        <4> QED BY <3>1, <4>1, <4>2
      <3> QED BY <3>2, <3>3 DEF Honest, snapVars
    <2> QED BY <1>1, <2>0, <2>1, <2>2, RunningMoves
  <1>2. ASSUME sampling' # 0 PROVE Honest(sampling)'
    <2>1. CASE sampling' = sampling
      <3>1. PICK w \in Nat \ {0} : w = sampling /\ w <= current /\ Honest(w)
        BY <1>0, <1>2, <2>1 DEF VersionsInUseAreHonest
      <3>2. Honest(w)'
        BY <3>1, HonestStays
      <3> QED BY <2>1, <3>1, <3>2 DEF Honest
    <2>2. CASE sampling' = current /\ IsLatest /\ UNCHANGED <<snapVars, reqs>>
      BY <1>0, <2>2, LatestIsHonest DEF Honest, snapVars
    <2> QED BY <1>2, <2>1, <2>2, SamplingMoves
  <1> QED BY <1>1, <1>2 DEF VersionsInUseAreHonest

-----------------------------------------------------------------------------
(* The rest of the types, and the invariant.                               *)


LEMMA NextKeepsGranted == ASSUME IInv, Next PROVE granted' \subseteq Lease
  <1>0. /\ granted \subseteq Lease /\ jobs \in [Jobs -> Row]
        /\ current \in Nat /\ sampling \in Nat
    BY SnapshotTypes DEF IInv, TypeOK
  <1>1. ASSUME NEW a \in Agents, NEW k \in Jobs, ClaimJob(a, k) \/ ClaimAfterSampling(a, k)
        PROVE  granted' \subseteq Lease
    <2>1. PICK v \in {current, sampling} : GrantJob(a, k, v)
      BY <1>1 DEF ClaimJob, ClaimAfterSampling
    <2> DEFINE l == [job |-> k, attempt |-> jobs[k].attempt + 1, token |-> jobs[k].attempt + 1,
                     client |-> a, version |-> v]
    <2>2. jobs[k].attempt + 1 \in 1..MaxAttempts
      BY <1>0, <2>1, PreparationAssumption DEF GrantJob, Row
    <2>3. l \in Lease
      BY <1>0, <2>2 DEF Lease
    <2>4. granted' = granted \cup {l}
      BY <2>1 DEF GrantJob
    <2> QED BY <1>0, <2>3, <2>4
  <1>2. CASE granted' = granted
    BY <1>0, <1>2
  <1>3. granted' = granted \/ \E a \in Agents, k \in Jobs : ClaimJob(a, k) \/ ClaimAfterSampling(a, k)
    <2>1. CASE UserNext \/ SweepJobs \/ Tick \/ Crash \/ Boot
      BY <2>1 DEF UserNext, StartJob, EndProviderCheck, CancelJob, CollectJob, SweepJobs, Tick,
                  queueVars, Crash, Boot
    <2>2. CASE DispatchNext
      BY <2>2 DEF DispatchNext, AskForLatest, StartSampling, EndSampling, Offer, OfferWhileSampling,
                  FetchDataset, InvalidateClient, queueVars
    <2>3. CASE AgentNext
      BY <2>3 DEF AgentNext, HeartbeatJob, NeedsData, FinishJob
    <2>4. CASE CollectNext
      BY <2>4 DEF CollectNext, ResumeJob, BeginCollection, EndCollection, FailCollection, BecomeDue,
                  StoreCollected, StoreOther, queueVars
    <2>5. CASE PublishNext
      BY <2>5 DEF PublishNext, CopyDataset, CommitDataset, RetryDataset, PublicationSettled,
                  PublicationFailed, PruneDatasets, queueVars
    <2> QED BY <2>1, <2>2, <2>3, <2>4, <2>5 DEF Next
  <1> QED BY <1>1, <1>2, <1>3

LEMMA NextKeepsAgents ==
    ASSUME IInv, Next
    PROVE  held' \in [Agents -> Nat] /\ offered' \in [Agents -> Nat] /\ delays' \in 0..MaxDelays
  <1>0. /\ held \in [Agents -> Nat] /\ offered \in [Agents -> Nat] /\ delays \in 0..MaxDelays
        /\ current \in Nat /\ sampling \in Nat /\ MaxDelays \in Nat
    BY SnapshotTypes, PreparationAssumption DEF IInv, TypeOK
  <1>1. CASE UserNext \/ SweepJobs \/ Tick \/ Boot
    BY <1>0, <1>1 DEF UserNext, StartJob, EndProviderCheck, CancelJob, CollectJob, SweepJobs, Tick,
                collectVars, agentVars, Boot
  <1>2. CASE DispatchNext
    <2>1. ASSUME NEW a \in Agents, Offer(a) \/ OfferWhileSampling(a) \/ FetchDataset(a)
          PROVE  held' \in [Agents -> Nat] /\ offered' \in [Agents -> Nat] /\ delays' = delays
      <3>1. delays' = delays
        BY <2>1 DEF Offer, OfferWhileSampling, FetchDataset, collectVars
      <3>2. CASE Offer(a)
        BY <1>0, <3>1, <3>2 DEF Offer, OfferDataset
      <3>3. CASE OfferWhileSampling(a)
        BY <1>0, <3>1, <3>3 DEF OfferWhileSampling, OfferDataset
      <3>4. CASE FetchDataset(a)
        BY <1>0, <3>1, <3>4 DEF FetchDataset
      <3> QED BY <2>1, <3>1, <3>2, <3>3, <3>4
    <2>2. CASE UNCHANGED <<held, offered, delays>>
      BY <1>0, <2>2
    <2>3. \/ UNCHANGED <<held, offered, delays>>
          \/ \E a \in Agents : Offer(a) \/ OfferWhileSampling(a) \/ FetchDataset(a)
      BY <1>2 DEF DispatchNext, AskForLatest, StartSampling, EndSampling, InvalidateClient, ClaimJob,
                  ClaimAfterSampling, collectVars, agentVars
    <2> QED BY <1>0, <2>1, <2>2, <2>3
  <1>3. CASE AgentNext
    BY <1>0, <1>3 DEF AgentNext, HeartbeatJob, NeedsData, FinishJob, agentVars, collectVars
  <1>4. CASE CollectNext
    <2>1. UNCHANGED agentVars
      BY <1>4 DEF CollectNext, ResumeJob, BeginCollection, EndCollection, FailCollection, BecomeDue,
                  StoreCollected, StoreOther
    <2>2. delays' = delays \/ (delays' = delays + 1 /\ delays < MaxDelays)
      BY <1>4 DEF CollectNext, ResumeJob, BeginCollection, EndCollection, FailCollection, BecomeDue,
                  StoreCollected, StoreOther, collectVars
    <2> QED BY <1>0, <2>1, <2>2 DEF agentVars
  <1>5. CASE PublishNext
    BY <1>0, <1>5 DEF PublishNext, CopyDataset, CommitDataset, RetryDataset, PublicationSettled,
                PublicationFailed, PruneDatasets, agentVars, collectVars
  <1>6. CASE Crash
    BY <1>0, <1>6 DEF Crash
  <1> QED BY <1>1, <1>2, <1>3, <1>4, <1>5, <1>6 DEF Next

LEMMA InitIInv == Init => IInv
  <1> SUFFICES ASSUME Init PROVE IInv
    OBVIOUS
  <1>s. /\ NoCopy \in Copy /\ NoCopy.rev = 1 /\ NoCopy.have = {} /\ NoPublication.at = "none"
        /\ NoPublication \in [at : {"none", "copying", "copied", "committed"},
                              key : 0..MaxRevision, copy : Copy]
    <2>1. NoCopy \in Copy /\ NoCopy.rev = 1 /\ NoCopy.have = {}
      BY DatasetSnapshotsAssumption DEF NoCopy, Copy
    <2> QED BY <2>1, DatasetSnapshotsAssumption DEF NoPublication
  <1>1. /\ data = NoCopy /\ snaps = <<NoCopy>> /\ kept = {1} /\ current = 1
        /\ publication = NoPublication /\ refused = 0 /\ Len(snaps) = 1 /\ snaps[1] = NoCopy
    BY DEF Init, SnapshotsInit
  <1>2. SnapshotsTypeOK
    BY <1>s, <1>1, DatasetSnapshotsAssumption DEF SnapshotsTypeOK, Versions
  <1>3. SnapshotsAreDated
    BY <1>s, <1>1 DEF SnapshotsAreDated, Dated, Versions
  <1>4. ASSUME NEW j \in Jobs
        PROVE  /\ jobs[j] \in Row /\ RowFacts(j) /\ jobs[j].version = 0
               /\ jobs[j].status \in {"NONE", "RUNNING", "WAITING_DAILY_QUOTA"}
    <2>1. PICK k \in Jobs, s \in {"NONE", "RUNNING", "WAITING_DAILY_QUOTA"} :
            jobs = [i \in Jobs |-> IF i = k THEN Legacy(s) ELSE Blank]
      BY DEF Init
    <2>2. PICK t \in {"NONE", "RUNNING", "WAITING_DAILY_QUOTA"} :
            jobs[j] = [status |-> t, discovery |-> FALSE, cancel |-> FALSE,
                       attempt |-> 0, failures |-> 0, token |-> NoToken, ttl |-> Expired,
                       client |-> NoAgent, version |-> 0, result |-> 0]
      BY <2>1 DEF Legacy, Blank
    <2>3. t \in Status
      BY DEF Status, Active, Waiting
    <2>4. jobs[j] \in Row
      BY <2>2, <2>3, PreparationAssumption, PreparationQueueAssumption DEF Row, NoToken, Expired
    <2>5. RowFacts(j)
      BY <1>1, <2>2, PreparationQueueAssumption DEF RowFacts
    <2> QED BY <2>2, <2>4, <2>5
  <1>5. jobs \in [Jobs -> Row]
    <2>1. jobs = [j \in Jobs |-> jobs[j]]
      BY DEF Init
    <2> QED BY <1>4, <2>1
  <1>6. /\ \A q \in Requests : reqs[q] = NoRequest
        /\ NoRequest \in RequestRow /\ NoRequest.status = "NONE"
    BY DataQueueAssumption DEF Init, NoRequest, RequestRow, RequestStatus
  <1>7. /\ NoRunner \in [at : {"idle", "collect", "publish"}, request : SUBSET Requests,
                         attempts : 0..MaxCollections]
        /\ NoRunner.request = {} /\ NoRunner.attempts = 0
    BY DataQueueAssumption DEF NoRunner
  <1>8. TypeOK
    <2>1. reqs \in [Requests -> RequestRow] /\ runner = NoRunner /\ up = FALSE
      BY <1>6 DEF Init
    <2>2. /\ granted \subseteq Lease /\ waits \in [Jobs -> {{}} \cup {{q} : q \in Requests}]
          /\ held \in [Agents -> Nat] /\ offered \in [Agents -> Nat]
          /\ sampling \in 0..current /\ delays \in 0..MaxDelays
      BY <1>1, PreparationAssumption DEF Init
    <2> QED BY <1>2, <1>5, <1>7, <2>1, <2>2 DEF TypeOK
  <1>9. RequestsCanFail /\ RunnerIsSingle /\ NoOrphanedCollection
    BY <1>6, <1>7, DataQueueAssumption DEF Init, RequestsCanFail, RunnerIsSingle, NoOrphanedCollection
  <1>10. SingleFlight
    BY DEF Init, SingleFlight, Legacy, Blank, Active, Waiting
  <1>11. WaitingJobsAreRemembered
    BY <1>4 DEF WaitingJobsAreRemembered
  <1>12. VersionsInUseAreHonest
    BY <1>4 DEF VersionsInUseAreHonest, Init
  <1> QED BY <1>3, <1>4, <1>8, <1>9, <1>10, <1>11, <1>12 DEF IInv

LEMMA NextKeepsIInv == ASSUME IInv, Next PROVE IInv'
  <1>0. SnapshotsTypeOK /\ SnapshotsAreDated /\ up \in BOOLEAN /\ sampling \in 0..current
    BY DEF IInv, TypeOK
  <1>1. SnapStep /\ (up' = up \/ Crash \/ Boot)
    BY SnapSteps
  <1>2. SnapshotsTypeOK'
    BY <1>0, <1>1, SnapStepKeepsType
  <1>3. SnapshotsAreDated'
    <2>1. ~ up' => ~ up \/ Crash
      BY <1>0, <1>1 DEF Boot
    <2> QED BY <1>0, <1>1, <2>1, SnapStepKeepsDates
  <1>4. sampling' \in 0..current'
    <2>1. current \in Nat /\ current' \in Nat /\ current <= current'
      BY <1>0, <1>1, <1>2, VersionsStay, SnapshotTypes DEF SnapshotsTypeOK
    <2>2. sampling' \in {0, sampling, current}
      BY SamplingMoves
    <2> QED BY <1>0, <2>1, <2>2
  <1>5. RequestFacts'
    BY NextKeepsRequests
  <1>6. TypeOK'
    BY <1>2, <1>4, <1>5, NextKeepsRows, NextKeepsGranted, NextKeepsAgents, NextMovesWaits
       DEF TypeOK, RequestFacts
  <1>7. RequestsCanFail' /\ RunnerIsSingle' /\ NoOrphanedCollection'
    BY <1>5 DEF RequestFacts
  <1> QED BY <1>3, <1>6, <1>7, NextKeepsRows, NextKeepsSingleFlight, NextKeepsWaits, NextKeepsHonesty
          DEF IInv

LEMMA StutterKeepsIInv == ASSUME IInv, UNCHANGED vars PROVE IInv'
  BY DEF IInv, vars, snapVars, queueVars, collectVars, agentVars, TypeOK, SnapshotsTypeOK, Versions,
         SnapshotsAreDated, Dated, RowFacts, RequestsCanFail, RunnerIsSingle, NoOrphanedCollection,
         SingleFlight, WaitingJobsAreRemembered, VersionsInUseAreHonest, Honest

\* IInv holds in every reachable state.
THEOREM PreparationInvariant == Spec => []IInv
  <1>1. IInv /\ [Next]_vars => IInv'
    BY NextKeepsIInv, StutterKeepsIInv
  <1> QED BY InitIInv, <1>1, PTL DEF Spec

-----------------------------------------------------------------------------
(* Safety.                                                                 *)

\* Every variable keeps its type: attempts and failures stay within their
\* limits, and a dispatch samples for a version the server has known.
THEOREM PreparationTypes == Spec => []TypeOK
  <1>1. IInv => TypeOK
    BY DEF IInv
  <1> QED BY <1>1, PreparationInvariant, PTL

\* At no time are two previews of one input under way.
THEOREM OnePreviewPerInput == Spec => []SingleFlight
  <1>1. IInv => SingleFlight
    BY DEF IInv
  <1> QED BY <1>1, PreparationInvariant, PTL

\* A job that waits for data waits for a request the queue knows.
THEOREM WaitsAreRemembered == Spec => []WaitingJobsAreRemembered
  <1>1. IInv => WaitingJobsAreRemembered
    BY DEF IInv
  <1> QED BY <1>1, PreparationInvariant, PTL

\* While the server is up, the requests that are RUNNING are those it works on.
THEOREM CollectionsHaveARunner == Spec => []NoOrphanedCollection
  <1>1. IInv => NoOrphanedCollection
    BY DEF IInv
  <1> QED BY <1>1, PreparationInvariant, PTL

\* No job is told that its gap is permanent by a version that was copied before
\* the data came.
THEOREM GapsAreReal == Spec => []NoFalseGap
  <1>1. IInv => NoFalseGap
    <2> SUFFICES ASSUME IInv, NEW j \in Jobs, NEW q \in Requests,
                        jobs[j].status = "RUNNING", jobs[j].ttl >= 0,
                        GapRemains(reqs[q], jobs[j].version), q \in data.have
                 PROVE  q \in snaps[jobs[j].version].have
      BY DEF NoFalseGap
    <2>1. jobs[j].version # 0
      BY DEF IInv, RowFacts, Expired
    <2>2. Honest(jobs[j].version)
      BY <2>1 DEF IInv, VersionsInUseAreHonest
    <2> QED BY <2>2 DEF Honest
  <1> QED BY <1>1, PreparationInvariant, PTL

-----------------------------------------------------------------------------
(* Steps.                                                                  *)

\* Only the result of a live lease, on data that are still current, completes
\* a job; it does not if the job was cancelled.
LEMMA CompletedMoves ==
    ASSUME NEW j \in Jobs, RowMove(j), jobs[j] \in Row,
           jobs'[j].status = "COMPLETED", jobs[j].status # "COMPLETED"
    PROVE  /\ Live(j) /\ ~ jobs[j].cancel
           /\ IsCurrent(jobs[j].version)
           /\ jobs'[j].result = jobs[j].attempt
  <1> USE DEF Becomes
  <1>1. CASE Stays(j) \/ Started(j) \/ Removed(j)
    BY <1>1 DEF Stays, Started, Insert, Removed, Blank, Row
  <1>2. CASE Checked(j) \/ Asked(j) \/ Recovered(j)
    BY <1>2 DEF Checked, CanEndCheck, EndCheck, Asked, Cancel, Recovered, Recover, Row
  <1>3. CASE Extended(j) \/ Aged(j) \/ Deferred(j)
    BY <1>3 DEF Extended, Heartbeat, Aged, Live, Deferred, WaitForData, Release, Row
  <1>4. CASE Claimed(j)
    <2>1. jobs'[j].status = "RUNNING"
      BY <1>4 DEF Claimed, Claim, Row
    <2> QED BY <2>1
  <1>5. CASE HandedBack(j) \/ GivenBack(j) \/ Resumed(j)
    BY <1>5 DEF HandedBack, HandBack, GivenBack, Swept, Release, Resumed, Resume, Row
  <1>6. CASE Finished(j)
    <2>1. PICK outcome \in Terminal, fresh \in BOOLEAN :
            (fresh => IsCurrent(jobs[j].version)) /\ jobs'[j] = Finish(jobs[j], outcome, fresh)
      BY <1>6 DEF Finished
    <2> DEFINE end == IF jobs[j].cancel THEN "CANCELLED" ELSE outcome
    <2>2. CASE end = "COMPLETED" /\ ~ fresh
      <3>1. jobs'[j].status = "QUEUED"
        BY <2>1, <2>2 DEF Finish, Release, Row
      <3> QED BY <3>1
    <2>3. CASE ~ (end = "COMPLETED" /\ ~ fresh)
      <3>1. jobs'[j] = [jobs[j] EXCEPT !.status = end,
                                       !.result = IF end = "COMPLETED" THEN jobs[j].attempt ELSE 0]
        BY <2>1, <2>3 DEF Finish
      <3>2. jobs'[j].status = end
        BY <3>1 DEF Row
      <3>3. end = "COMPLETED"
        BY <3>2
      <3>4. jobs'[j].result = jobs[j].attempt
        BY <3>1, <3>3 DEF Row
      <3> QED BY <1>6, <2>1, <2>3, <3>3, <3>4 DEF Finished
    <2> QED BY <2>2, <2>3
  <1> QED BY <1>1, <1>2, <1>3, <1>4, <1>5, <1>6 DEF RowMove

\* A preview is accepted from the live lease of the last attempt only, and only
\* on the revision the database has at that moment.
THEOREM AcceptedPreviews == Spec => AcceptedPreviewsAreCurrent
  <1> DEFINE Accepted ==
               \A j \in Jobs : jobs'[j].status = "COMPLETED" /\ jobs[j].status # "COMPLETED" =>
                 /\ jobs[j].ttl >= 0
                 /\ jobs'[j].result = jobs[j].attempt
                 /\ snaps[jobs[j].version].rev = data.rev
  <1>1. IInv /\ [Next]_vars => [Accepted]_vars
    <2> SUFFICES ASSUME IInv, Next PROVE Accepted
      OBVIOUS
    <2>1. \A j \in Jobs : RowMove(j) /\ jobs[j] \in Row
      BY RowMoves DEF IInv, TypeOK
    <2> QED BY <2>1, CompletedMoves DEF Live, IsCurrent
  <1> QED BY <1>1, PreparationInvariant, PTL DEF Spec, AcceptedPreviewsAreCurrent

\* A published version never changes, each commit has a number of its own, and
\* the server's pointer does not go back, whatever it has missed of a commit.
THEOREM PublishedVersionsStay == Spec => VersionsAreImmutable
  <1> DEFINE Kept ==
               /\ current' >= current
               /\ publication'.at = "committed" /\ publication.at # "committed"
                    => Len(snaps') > Len(snaps)
               /\ \A v \in 1..Len(snaps) : snaps'[v] = snaps[v]
  <1>1. IInv /\ [Next]_vars => [Kept]_snapVars
    <2>1. ASSUME IInv, Next PROVE Kept
      <3>1. SnapshotsTypeOK /\ SnapshotsAreDated /\ SnapStep /\ current \in Nat
        BY <2>1, SnapSteps, SnapshotTypes DEF IInv, TypeOK
      <3>2. current' \in Nat
        BY <3>1, SnapStepKeepsType, SnapshotTypes DEF SnapshotsTypeOK
      <3> QED BY <3>1, <3>2, VersionsStay, SnapshotTypes DEF Versions
    <2>2. UNCHANGED vars => UNCHANGED snapVars
      BY DEF vars
    <2> HIDE DEF Kept
    <2> QED BY <2>1, <2>2
  <1> QED BY <1>1, PreparationInvariant, PTL DEF Spec, VersionsAreImmutable

\* A cancellation that was accepted is not overtaken: not by the result of the
\* agent that computes, by a collection that ends, or by the sweep.
CancelledStay ==
    [][\A j \in Jobs : jobs[j].cancel =>
         /\ jobs'[j].cancel \/ jobs'[j].status = "DELETED"
         /\ jobs'[j].status = "COMPLETED" => jobs[j].status = "COMPLETED"]_vars

LEMMA CancelMoves ==
    ASSUME NEW j \in Jobs, RowMove(j), jobs[j] \in Row, jobs[j].cancel
    PROVE  jobs'[j].cancel \/ jobs'[j].status = "DELETED"
  <1> DEFINE r == jobs[j]
  <1> USE DEF Becomes
  <1>0. r \in Row /\ r.cancel = TRUE
    BY DEF Row
  <1>1. CASE Stays(j)
    BY <1>1 DEF Stays
  <1>2. CASE Started(j)
    BY <1>0, <1>2 DEF Started, Insert, Row
  <1>3. CASE Removed(j)
    BY <1>3 DEF Removed, Blank
  <1>4. CASE Checked(j)
    BY <1>0, <1>4 DEF Checked, EndCheck, Row
  <1>5. CASE Asked(j)
    BY <1>0, <1>5 DEF Asked, Cancel, Row
  <1>6. CASE Recovered(j)
    BY <1>0, <1>6 DEF Recovered, Recover, Row
  <1>7. CASE Extended(j)
    BY <1>0, <1>7 DEF Extended, Heartbeat, Row
  <1>8. CASE Aged(j)
    BY <1>0, <1>8 DEF Aged, Row
  <1>9. CASE Deferred(j)
    BY <1>0, <1>9 DEF Deferred, WaitForData, Release, Row
  <1>10. CASE Claimed(j)
    BY <1>10 DEF Claimed, Claimable
  <1>11. CASE HandedBack(j)
    BY <1>0, <1>11 DEF HandedBack, HandBack, Release, Row
  <1>12. CASE GivenBack(j)
    BY <1>0, <1>12 DEF GivenBack, Swept, Release, Row
  <1>13. CASE Resumed(j)
    BY <1>0, <1>13 DEF Resumed, Resume, Row
  <1>14. CASE Finished(j)
    <2>1. PICK outcome \in Terminal, fresh \in BOOLEAN : jobs'[j] = Finish(jobs[j], outcome, fresh)
      BY <1>14 DEF Finished
    <2> QED BY <1>0, <2>1 DEF Finish, Release, Row
  <1> QED BY <1>1, <1>2, <1>3, <1>4, <1>5, <1>6, <1>7, <1>8, <1>9, <1>10, <1>11, <1>12, <1>13, <1>14
          DEF RowMove

\* An accepted cancellation wins.
THEOREM PreparationCancellationsWin == Spec => CancelledStay
  <1> DEFINE Wins ==
               \A j \in Jobs : jobs[j].cancel =>
                 /\ jobs'[j].cancel \/ jobs'[j].status = "DELETED"
                 /\ jobs'[j].status = "COMPLETED" => jobs[j].status = "COMPLETED"
  <1>1. IInv /\ [Next]_vars => [Wins]_vars
    <2> SUFFICES ASSUME IInv, Next PROVE Wins
      OBVIOUS
    <2>1. \A j \in Jobs : RowMove(j) /\ jobs[j] \in Row
      BY RowMoves DEF IInv, TypeOK
    <2> QED BY <2>1, CompletedMoves, CancelMoves
  <1> QED BY <1>1, PreparationInvariant, PTL DEF Spec, CancelledStay

\* Once a version is leased, pruning leaves it alone while the job runs on it.
LeasedVersionsAreNotPruned ==
    [][\A j \in Jobs :
         /\ jobs[j].status = "RUNNING" /\ jobs'[j].status = "RUNNING"
         /\ jobs'[j].version = jobs[j].version /\ jobs[j].version \in kept
         => jobs[j].version \in kept']_vars

LEMMA OnlyPruneRemoves == ASSUME Next PROVE kept \subseteq kept' \/ Prune(Pinned)
  <1>1. CASE UserNext \/ SweepJobs \/ Tick \/ Crash \/ Boot
    BY <1>1 DEF UserNext, StartJob, EndProviderCheck, CancelJob, CollectJob, SweepJobs, Tick,
                snapVars, Crash, LosePublication, Boot, ReadLatest
  <1>2. CASE DispatchNext
    BY <1>2 DEF DispatchNext, AskForLatest, JoinOrStart, StartSampling, EndSampling, Offer,
                OfferWhileSampling, FetchDataset, InvalidateClient, ClaimJob, ClaimAfterSampling, snapVars
  <1>3. CASE AgentNext
    BY <1>3 DEF AgentNext, HeartbeatJob, NeedsData, FinishJob, snapVars
  <1>4. CASE CollectNext
    BY <1>4 DEF CollectNext, ResumeJob, BeginCollection, StoreCollected, EndCollection, JoinOrStart,
                FailCollection, BecomeDue, StoreOther, Write, snapVars
  <1>5. CASE PublishNext
    BY <1>5 DEF PublishNext, CopyDataset, CommitDataset, RetryDataset, PublicationSettled,
                PublicationFailed, PruneDatasets, CopyData, Commit, RetryDelayOver, Settle,
                FailPublication
  <1> QED BY <1>1, <1>2, <1>3, <1>4, <1>5 DEF Next

\* The files of a version stay from its lease to the end of it, if they were
\* there when it was leased.
THEOREM LeasedVersionsStay == Spec => LeasedVersionsAreNotPruned
  <1> DEFINE Left ==
               \A j \in Jobs :
                 /\ jobs[j].status = "RUNNING" /\ jobs'[j].status = "RUNNING"
                 /\ jobs'[j].version = jobs[j].version /\ jobs[j].version \in kept
                 => jobs[j].version \in kept'
  <1>1. [Next]_vars => [Left]_vars
    BY OnlyPruneRemoves DEF Prune, Pinned
  <1> QED BY <1>1, PTL DEF Spec, LeasedVersionsAreNotPruned

=============================================================================
