----------------------------- MODULE Preparation -----------------------------
(***************************************************************************)
(* Universe previews on the server: preparation jobs and their leases      *)
(* (PreparationQueue), the shared queue of data collections (DataQueue),   *)
(* the published data versions (DatasetSnapshots) and the dispatcher of    *)
(* AgentCoordinator that brings them together.                             *)
(*                                                                         *)
(*   start -> QUEUED -> claim with a version -> RUNNING -> COMPLETED       *)
(*   a gap in the data: RUNNING -> WAITING_DATA -> the collection of the   *)
(*   missing range -> a new version -> QUEUED again                        *)
(*                                                                         *)
(* Agents are free: a message about any lease ever granted may arrive at   *)
(* any time and any number of times.                                       *)
(***************************************************************************)
EXTENDS PreparationQueue, DataQueue, DatasetSnapshots, FiniteSets

CONSTANTS
    Jobs,           \* the rows that may be inserted
    SameInput,      \* SameInput[j]: the request_hash of the row j
    Agents,         \* the devices, and the executor inside the server
    Local,          \* the executor inside the server
    LeaseTicks,     \* AGENT_LEASE_MS in ticks
    MaxAttempts,    \* bound of the model: claims of one job
    MaxDelays,      \* bound of the model: collections put off by the provider
    LastAsked,      \* bound of the model: the last version a pass or a HELLO
                    \* asks for; later ones are asked for by collections
    LastOther,      \* bound of the model: the last revision that is not the
                    \* end of a collection
    LastCancelled   \* bound of the model: the last attempt that is cancelled

ASSUME PreparationAssumption ==
    /\ Local \in Agents /\ NoAgent \notin Agents
    /\ LeaseTicks \in Nat
    /\ MaxAttempts \in Nat /\ MaxDelays \in Nat
    /\ LastAsked \in Nat /\ LastOther \in Nat /\ LastCancelled \in Nat

VARIABLES
    jobs,       \* backtest_preparation_jobs with agent_preparation_leases
    granted,    \* every lease that was ever sent to an agent
    reqs,       \* agent_data_requests
    waits,      \* agent_data_waits: waits[j], the request j waits for, or {}
    runner,     \* the collection AgentDataQueue is busy with
    held,       \* held[a]: the version the agent says it has (CAPACITY)
    offered,    \* offered[a]: the version it was last told to fetch (DATASET)
    sampling,   \* the version the dispatcher holds while it samples the
                \* memory of local backtests between two turns of the loop, or 0
    delays,     \* collections put off so far (bounds the model)
    up

queueVars == <<jobs, granted>>
collectVars == <<reqs, waits, runner, delays>>
agentVars == <<held, offered, sampling>>
vars == <<snapVars, queueVars, collectVars, agentVars, up>>

Lease == [job : Jobs, attempt : 1..MaxAttempts, token : 1..MaxAttempts,
          client : Agents, version : Nat]

Row == [status : Status, discovery : BOOLEAN, cancel : BOOLEAN,
        attempt : 0..MaxAttempts, failures : 0..MaxFailures,
        token : 0..MaxAttempts, ttl : Expired..LeaseTicks,
        client : Agents \cup {NoAgent}, version : Nat,
        result : 0..MaxAttempts]

RequestRow == [status : RequestStatus, attempts : 0..MaxCollections,
               available : Nat, due : BOOLEAN]

NoRunner == [at |-> "idle", request |-> {}, attempts |-> 0]

TypeOK ==
    /\ SnapshotsTypeOK
    /\ jobs \in [Jobs -> Row]
    /\ granted \subseteq Lease
    /\ reqs \in [Requests -> RequestRow]
    /\ waits \in [Jobs -> {{}} \cup {{q} : q \in Requests}]
    /\ runner \in [at : {"idle", "collect", "publish"}, request : SUBSET Requests,
                   attempts : 0..MaxCollections]
    /\ held \in [Agents -> Nat]
    /\ offered \in [Agents -> Nat]
    /\ sampling \in 0..current
    /\ delays \in 0..MaxDelays
    /\ up \in BOOLEAN

\* Rows of a server that did not lease to agents: one that ran, one that
\* waited for the next day's quota.
Legacy(s) == [Blank EXCEPT !.status = s]

Init ==
    /\ SnapshotsInit
    /\ \E j \in Jobs, s \in {"NONE", "RUNNING", "WAITING_DAILY_QUOTA"} :
         jobs = [k \in Jobs |-> IF k = j THEN Legacy(s) ELSE Blank]
    /\ granted = {}
    /\ reqs = [q \in Requests |-> NoRequest]
    /\ waits = [j \in Jobs |-> {}]
    /\ runner = NoRunner
    /\ held = [a \in Agents |-> 0]
    /\ offered = [a \in Agents |-> 0]
    /\ sampling = 0
    /\ delays = 0
    /\ up = FALSE

SetJob(j, r) == jobs' = [jobs EXCEPT ![j] = r]
SetRequest(q, r) == reqs' = [reqs EXCEPT ![q] = r]

-----------------------------------------------------------------------------
(* The user (BacktestPreparationOrchestrator on the server).               *)

\* The single flight of start: an active row with the same hash.
IsTaken(j) == \E k \in Jobs : SameInput[k] = SameInput[j] /\ jobs[k].status \in Active

StartJob(j, check) ==
    /\ up
    /\ jobs[j].status = "NONE"
    /\ ~ IsTaken(j)
    /\ SetJob(j, Insert(jobs[j], check))
    /\ UNCHANGED <<snapVars, granted, collectVars, agentVars, up>>

\* The check of the provider's filings that runs beside the job has ended.
EndProviderCheck(j, ok) ==
    /\ up
    /\ jobs[j].discovery /\ CanEndCheck(jobs[j])
    /\ SetJob(j, EndCheck(jobs[j], ok))
    /\ UNCHANGED <<snapVars, granted, collectVars, agentVars, up>>

CancelJob(j) ==
    /\ up
    /\ Cancel(jobs[j]) # jobs[j]
    /\ jobs[j].attempt <= LastCancelled
    /\ SetJob(j, Cancel(jobs[j]))
    /\ UNCHANGED <<snapVars, granted, collectVars, agentVars, up>>

\* references.collect: nobody refers to the job any more.
CollectJob(j) ==
    /\ up
    /\ jobs[j].status \in Terminal
    /\ SetJob(j, [Blank EXCEPT !.status = "DELETED"])
    /\ UNCHANGED <<snapVars, granted, collectVars, agentVars, up>>

-----------------------------------------------------------------------------
(* Dispatch (AgentCoordinator).                                            *)

\* A pass finds the current version out of date, or a device says HELLO: the
\* version is published, and the pass goes on with it when it is (Settle).
AskForLatest ==
    /\ up
    /\ Len(snaps) < LastAsked
    /\ JoinOrStart
    /\ UNCHANGED <<queueVars, collectVars, agentVars, up>>

\* DATASET: a pass, or the answer to HELLO, names the version v to an agent
\* that has another.
OfferDataset(a, v) ==
    /\ v # held[a] /\ offered[a] # v
    /\ offered' = [offered EXCEPT ![a] = v]
    /\ UNCHANGED <<held, sampling>>

Offer(a) ==
    /\ up
    /\ current # 0 /\ OfferDataset(a, current)
    /\ UNCHANGED <<snapVars, queueVars, collectVars, up>>

OfferWhileSampling(a) ==
    /\ up
    /\ sampling # 0 /\ OfferDataset(a, sampling)
    /\ UNCHANGED <<snapVars, queueVars, collectVars, up>>

\* The agent has fetched the version it was told to and reports CAPACITY.
FetchDataset(a) ==
    /\ held[a] # offered[a]
    /\ held' = [held EXCEPT ![a] = offered[a]]
    /\ UNCHANGED <<snapVars, queueVars, collectVars, offered, sampling, up>>

\* assign: connection.datasetVersion = dataset.version.
Holds(a, v) == held[a] = v

\* Which of the queued jobs is given is left open.
GrantJob(a, j, v) ==
    /\ Claimable(jobs[j])
    /\ Holds(a, v)
    /\ jobs[j].attempt < MaxAttempts
    /\ SetJob(j, Claim(jobs[j], a, v, LeaseTicks))
    /\ granted' = granted \cup {[job |-> j, attempt |-> jobs[j].attempt + 1,
                                 token |-> jobs[j].attempt + 1, client |-> a, version |-> v]}

\* A pass that found the current version up to date.  (A pass that waited for
\* a publication goes on before any agent can have fetched the new version:
\* it gives nothing, and the pass that follows it starts here again.)
ClaimJob(a, j) ==
    /\ up
    /\ IsLatest
    /\ GrantJob(a, j, current)
    /\ UNCHANGED <<snapVars, collectVars, agentVars, up>>

\* localBacktestCandidate counts facts for queued backtests and gives way to
\* other work every 16 symbols ...
StartSampling ==
    /\ up
    /\ sampling = 0
    /\ IsLatest /\ Holds(Local, current)
    /\ sampling' = current
    /\ UNCHANGED <<snapVars, queueVars, collectVars, held, offered, up>>

\* ... and the pass goes on with the version it began with.
ClaimAfterSampling(a, j) ==
    /\ up
    /\ sampling # 0
    /\ GrantJob(a, j, sampling)
    /\ UNCHANGED <<snapVars, collectVars, agentVars, up>>

EndSampling ==
    /\ sampling # 0
    /\ sampling' = 0
    /\ UNCHANGED <<snapVars, queueVars, collectVars, held, offered, up>>

-----------------------------------------------------------------------------
(* Messages of agents (AgentCoordinator.message).                          *)

HeartbeatJob(l) ==
    /\ up
    /\ Owns(jobs[l.job], l)
    /\ SetJob(l.job, Heartbeat(jobs[l.job], LeaseTicks))
    /\ UNCHANGED <<snapVars, granted, collectVars, agentVars, up>>

\* NEEDS_DATA: the job, the request and the wait in one transaction; when
\* the request throws, the job fails instead.
NeedsData(l, q) ==
    /\ up
    /\ Owns(jobs[l.job], l)
    /\ IF GapRemains(reqs[q], jobs[l.job].version)
       THEN /\ SetJob(l.job, Finish(jobs[l.job], "FAILED", FALSE))
            /\ UNCHANGED <<reqs, waits>>
       ELSE /\ SetJob(l.job, WaitForData(jobs[l.job]))
            /\ SetRequest(q, Ask(reqs[q], jobs[l.job].version))
            /\ waits' = [waits EXCEPT ![l.job] = {q}]
    /\ UNCHANGED <<snapVars, granted, runner, delays, agentVars, up>>

\* snapshots.get: the manifest of the lease's version, if it was not pruned.
IsCurrent(v) == v \in kept /\ snaps[v].rev = data.rev

FinishJob(l, outcome) ==
    /\ up
    /\ Owns(jobs[l.job], l)
    /\ SetJob(l.job, Finish(jobs[l.job], outcome, IsCurrent(jobs[l.job].version)))
    /\ UNCHANGED <<snapVars, granted, collectVars, agentVars, up>>

\* HELLO with another runner version, or the shutdown of the local executor.
InvalidateClient(a) ==
    /\ up
    /\ \E j \in Jobs : jobs[j].client = a /\ jobs[j].status = "RUNNING"
    /\ jobs' = [j \in Jobs |-> IF jobs[j].client = a /\ jobs[j].status = "RUNNING"
                               THEN HandBack(jobs[j]) ELSE jobs[j]]
    /\ UNCHANGED <<snapVars, granted, collectVars, agentVars, up>>

-----------------------------------------------------------------------------
(* The collection queue (AgentDataQueue).                                  *)

\* resumeReady: the job and the wait in one transaction.
ResumeJob(j) ==
    /\ up
    /\ \E q \in waits[j] :
         /\ Ended(reqs[q])
         /\ SetJob(j, Resume(jobs[j], reqs[q].status = "FAILED"))
    /\ waits' = [waits EXCEPT ![j] = {}]
    /\ UNCHANGED <<snapVars, granted, reqs, runner, delays, agentVars, up>>

\* tick and runNext up to the await of the collection.
BeginCollection(q) ==
    /\ up
    /\ runner = NoRunner
    /\ Collectable(reqs[q])
    /\ SetRequest(q, Begin(reqs[q]))
    /\ runner' = [at |-> "collect", request |-> {q}, attempts |-> reqs[q].attempts]
    /\ UNCHANGED <<snapVars, queueVars, waits, delays, agentVars, up>>

\* The collection stores the data of its range.  Data the provider does not
\* have are never stored.
StoreCollected(q) ==
    /\ up
    /\ runner.at = "collect" /\ q \in runner.request
    /\ Write({q})
    /\ UNCHANGED <<queueVars, collectVars, agentVars, up>>

\* A part of a range, or the daily collections of the symbol master.
StoreOther ==
    /\ up
    /\ data.rev < LastOther
    /\ Write({})
    /\ UNCHANGED <<queueVars, collectVars, agentVars, up>>

\* The collection is done.  Its version is there already, or is awaited.
EndCollection(q) ==
    /\ up
    /\ runner.at = "collect" /\ q \in runner.request
    /\ \/ /\ IsLatest
          /\ SetRequest(q, Completed(reqs[q], current))
          /\ runner' = NoRunner
          /\ UNCHANGED snapVars
       \/ /\ JoinOrStart
          /\ runner' = [runner EXCEPT !.at = "publish"]
          /\ UNCHANGED reqs
    /\ UNCHANGED <<queueVars, waits, delays, agentVars, up>>

\* The collection, or the publication it asks for, throws.
FailCollection(q, how) ==
    /\ up
    /\ runner.at = "collect" /\ q \in runner.request
    /\ how = "later" => delays < MaxDelays
    /\ SetRequest(q, Failed(reqs[q], runner.attempts, how))
    /\ runner' = NoRunner
    /\ delays' = IF how = "later" THEN delays + 1 ELSE delays
    /\ UNCHANGED <<snapVars, queueVars, waits, agentVars, up>>

\* next_attempt_at_ms has come.
BecomeDue(q) ==
    /\ ~ reqs[q].due
    /\ reqs[q].status # "BLOCKED"
    /\ SetRequest(q, [reqs[q] EXCEPT !.due = TRUE])
    /\ UNCHANGED <<snapVars, queueVars, waits, runner, delays, agentVars, up>>

-----------------------------------------------------------------------------
(* Publication.                                                            *)

CopyDataset   == CopyData /\ UNCHANGED <<queueVars, collectVars, agentVars, up>>
CommitDataset == Commit /\ UNCHANGED <<queueVars, collectVars, agentVars, up>>
RetryDataset  == RetryDelayOver /\ UNCHANGED <<queueVars, collectVars, agentVars, up>>

\* The version is there.  The collection that waits for it is completed with
\* it, whoever started the publication.
PublicationSettled ==
    /\ up
    /\ Settle
    /\ IF runner.at = "publish"
       THEN /\ reqs' = [q \in Requests |-> IF q \in runner.request
                            THEN Completed(reqs[q], Len(snaps)) ELSE reqs[q]]
            /\ runner' = NoRunner
       ELSE UNCHANGED <<reqs, runner>>
    /\ UNCHANGED <<queueVars, waits, delays, agentVars, up>>

PublicationFailed ==
    /\ up
    /\ FailPublication
    /\ IF runner.at = "publish"
       THEN /\ reqs' = [q \in Requests |-> IF q \in runner.request
                            THEN Failed(reqs[q], runner.attempts, "error") ELSE reqs[q]]
            /\ runner' = NoRunner
       ELSE UNCHANGED <<reqs, runner>>
    /\ UNCHANGED <<queueVars, waits, delays, agentVars, up>>

Pinned == {jobs[j].version : j \in {k \in Jobs : jobs[k].status = "RUNNING"}}

PruneDatasets ==
    /\ up
    /\ Prune(Pinned)
    /\ kept' # kept
    /\ UNCHANGED <<queueVars, collectVars, agentVars, up>>

-----------------------------------------------------------------------------
(* Recovery.                                                               *)

SweepJobs ==
    /\ up
    /\ \E j \in Jobs : SweepSelects(jobs[j])
    /\ jobs' = [j \in Jobs |-> IF SweepSelects(jobs[j]) THEN Swept(jobs[j]) ELSE jobs[j]]
    /\ UNCHANGED <<snapVars, granted, collectVars, agentVars, up>>

Crash ==
    /\ up
    /\ up' = FALSE
    /\ LosePublication
    /\ runner' = NoRunner
    /\ sampling' = 0
    /\ held' = [held EXCEPT ![Local] = 0]
    /\ offered' = [offered EXCEPT ![Local] = 0]
    /\ UNCHANGED <<queueVars, reqs, waits, delays>>

\* main.ts: AgentCoordinator.start, then recoverOrphaned.
Boot ==
    /\ ~ up
    /\ up' = TRUE
    /\ ReadLatest
    /\ reqs' = [q \in Requests |-> RecoverRequest(reqs[q])]
    /\ jobs' = [j \in Jobs |-> Recover(jobs[j])]
    /\ UNCHANGED <<granted, waits, runner, delays, agentVars>>

Tick ==
    /\ \E j \in Jobs : jobs[j].ttl >= 0 /\ jobs[j].status = "RUNNING"
    /\ jobs' = [j \in Jobs |-> IF jobs[j].ttl >= 0 /\ jobs[j].status = "RUNNING"
                               THEN [jobs[j] EXCEPT !.ttl = @ - 1] ELSE jobs[j]]
    /\ UNCHANGED <<snapVars, granted, collectVars, agentVars, up>>

-----------------------------------------------------------------------------
UserNext ==
    \E j \in Jobs :
      \/ \E b \in BOOLEAN : StartJob(j, b) \/ EndProviderCheck(j, b)
      \/ CancelJob(j)
      \/ CollectJob(j)

DispatchNext ==
    \/ AskForLatest \/ StartSampling \/ EndSampling
    \/ \E a \in Agents :
         \/ Offer(a) \/ OfferWhileSampling(a) \/ FetchDataset(a) \/ InvalidateClient(a)
         \/ \E j \in Jobs : ClaimJob(a, j) \/ ClaimAfterSampling(a, j)

AgentNext ==
    \E l \in granted :
      \/ HeartbeatJob(l)
      \/ \E q \in Requests : NeedsData(l, q)
      \/ \E outcome \in Terminal : FinishJob(l, outcome)

CollectNext ==
    \/ \E j \in Jobs : ResumeJob(j)
    \/ \E q \in Requests :
         \/ BeginCollection(q) \/ StoreCollected(q) \/ EndCollection(q) \/ BecomeDue(q)
         \/ \E how \in Failure : FailCollection(q, how)
    \/ StoreOther

PublishNext ==
    \/ CopyDataset \/ CommitDataset \/ RetryDataset
    \/ PublicationSettled \/ PublicationFailed \/ PruneDatasets

Next ==
    UserNext \/ DispatchNext \/ AgentNext \/ CollectNext \/ PublishNext
    \/ SweepJobs \/ Crash \/ Boot \/ Tick

Spec == Init /\ [][Next]_vars

(* Timers of the server that keep coming due are served, although the      *)
(* server may die between any two of them (strong fairness); a dead server *)
(* is restarted; a provider answers, and a retry's time comes.             *)
Fairness ==
    /\ WF_vars(Boot)
    /\ SF_vars(SweepJobs)
    /\ \A j \in Jobs : SF_vars(ResumeJob(j))
    /\ \A q \in Requests :
         /\ WF_vars(BecomeDue(q))
         /\ SF_vars(BeginCollection(q))
         /\ SF_vars(EndCollection(q) \/ \E how \in Failure : FailCollection(q, how))
    /\ SF_vars(CopyDataset) /\ SF_vars(CommitDataset)
    /\ SF_vars(PublicationSettled)

LiveSpec == Spec /\ Fairness

-----------------------------------------------------------------------------
(* Safety.                                                                 *)

\* Two users who ask for the same preview share one job (start): at no time
\* are two jobs with the same input under way, however jobs come back to the
\* queue after waits, lost leases and restarts.
SingleFlight ==
    \A j, k \in Jobs : /\ SameInput[j] = SameInput[k]
                       /\ jobs[j].status \in Active /\ jobs[k].status \in Active
                       => j = k

\* A job that waits for data is not forgotten: its wait names a request that
\* the queue knows (waitForData and resumeReady each write both tables).
WaitingJobsAreRemembered ==
    \A j \in Jobs : jobs[j].status = "WAITING_DATA" /\ ~ jobs[j].discovery
        => \E q \in waits[j] : reqs[q].status # "NONE"

\* A job is told "the gap remains although the data were collected" only if
\* the collected data were in the version it runs on.  (The publication that
\* ends a collection may be one that was started, and copied, before the
\* collection stored its data.)
NoFalseGap ==
    \A j \in Jobs, q \in Requests :
      /\ jobs[j].status = "RUNNING" /\ jobs[j].ttl >= 0
      /\ GapRemains(reqs[q], jobs[j].version)
      /\ q \in data.have
      => q \in snaps[jobs[j].version].have

\* One collection at a time, and none that nobody works on: a collection the
\* server died in goes back to the queue.
NoOrphanedCollection ==
    up => \A q \in Requests : reqs[q].status = "RUNNING" <=> q \in runner.request

\* The server keeps the versions that running leases refer to.
LeasedVersionsAreKept ==
    \A j \in Jobs : jobs[j].status = "RUNNING" /\ jobs[j].version # 0
        => jobs[j].version \in kept

-----------------------------------------------------------------------------
(* Steps.                                                                  *)

\* A preview becomes COMPLETED only from the live lease of its last attempt,
\* and only if it was computed on the revision the database has at that step;
\* collections go on while the agent computes.
AcceptedPreviewsAreCurrent ==
    [][\A j \in Jobs : jobs'[j].status = "COMPLETED" /\ jobs[j].status # "COMPLETED" =>
         /\ jobs[j].ttl >= 0
         /\ jobs'[j].result = jobs[j].attempt
         /\ snaps[jobs[j].version].rev = data.rev]_vars

-----------------------------------------------------------------------------
(* Liveness.                                                               *)

\* A job that waits for data goes on, unless the provider is blocked: lost
\* leases, failing publications, restarts in the middle of a collection and
\* other jobs' requests for the same range do not leave it behind.
WaitingJobsGoOn ==
    \A j \in Jobs :
      jobs[j].status = "WAITING_DATA" /\ ~ jobs[j].discovery ~>
        \/ jobs[j].status # "WAITING_DATA"
        \/ \E q \in waits[j] : reqs[q].status = "BLOCKED"

\* A cancelled job ends, also when the agent that runs it is gone.
CancelledJobsEnd ==
    \A j \in Jobs :
      jobs[j].cancel /\ (jobs[j].status = "RUNNING" => jobs[j].ttl = Expired) ~>
        jobs[j].status \in Terminal \cup {"DELETED"}
=============================================================================
