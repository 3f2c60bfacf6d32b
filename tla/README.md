# Formal models of trading-webapp

This directory holds TLA+ models of the backtest platform in this repository: the TLC runs that check
them on small instances, and proofs, which TLAPS checks for every instance, about the leases of backtests, the devices that hold them, the rows and the analysis of preparations, batches and
experiments, deployments, the backtest engine and the collection of market data. Every safety property that a passing run checks is also proved.
Each definition names, in `PROJECT.json` under `map`, the lines of code it stands for.

The program is a TypeScript monolith (Fastify and two SQLite files). Users submit backtests and
previews of universes; the server leases them to devices, which connect over a WebSocket, and to one
executor of its own; it collects missing market data from KRX, DART and FRED, publishes the
calculation database in versions, and imports results with a forked child. Paths below are
relative to the repository's root.

## 1. The system

| Part | State | Operations | Interacts through | What is hard | Correct when |
|---|---|---|---|---|---|
| Backtest jobs and leases (`src/server/modules/backtest/application/{job-queue,backtest-lease-service,job-orchestrator}.ts`, `infrastructure/forked-backtest-result-completer.ts`, `src/workers/backtest-result-import-child.ts`) | rows of `backtest_jobs`; uploads and import children under way | submit, claim, heartbeat, reserve a transfer, complete, finish, defer, cancel, sweep, recover, delete | rows shared with the import child, a process of its own; events | the sweep and cancel read before they write; an orphaned child commits after a crash; heartbeats shorten a transfer's reservation | a result belongs to the last lease; a cancellation wins; an ended job stays; only expiry uses up retries; nothing is stuck |
| Coordinator (`agents/application/agent-coordinator.ts`, `presentation/agent-routes.ts`) | connections; which device runs what | connect, HELLO, HEARTBEAT, FINISH, NEEDS_DATA, dispatch, tick, result upload | WebSocket messages, HTTP, the queues | awaits inside assign; a replaced connection drops messages; acknowledgement of what was refused | one executor per job; reports are confirmed; an update is no failure |
| Device (`src/agent/client.ts`) | runs, outbox in memory and on disk, connection | take a job, heartbeat, queue a report, upload, acknowledge, update, restart | as above; its children over IPC | a full disk, a restart, lost answers, its own copy of the expiry | no good result is dropped; it stops before the server gives the lease away |
| Preparations (`agents/application/agent-preparation-queue.ts`, `runtime/modules/backtest/application/backtest-preparation-orchestrator.ts`) | rows of `backtest_preparation_jobs` and `agent_preparation_leases` | start, cancel, claim, heartbeat, wait for data, resume, finish, sweep, recover | the data queue, the snapshots, the draft's references | data change while an agent computes; waits over restarts | accepted previews are current; one job per input; waits are not forgotten |
| Data requests (`agents/application/agent-data-queue.ts`, `agent-collection-runtime.ts`) | `agent_data_requests`, `agent_data_waits` | request, collect, store, retry, block, resume, recover | providers, publication, waiting jobs | a crash in a collection, shared requests, "the gap is permanent" | one collection at a time, none orphaned; no false gap |
| Published versions (`agents/application/dataset-snapshots.ts`, `src/workers/dataset-publisher.ts`) | version files, `latest.json`, what the server knows of it | ensureLatest, copy, commit, prune, restart | a forked child and the file system | a crash between commit and its report; joining an older publication; pruning | a version number names one content; leased versions are kept |
| Preparation analysis (`universe-rule-resolver.ts`, `resolveUntilReady` of `backtest-preparation-orchestrator.ts`, `preparation-runtime.ts`) | exclusions carried from lease to lease | resolve a universe stage by stage, name what is missing, complete the preview | inside a lease, on one version of the data | upper bounds over partial data, exclusions that are final, data that others collect meanwhile | the preview is that of complete data; only what may matter is asked for; it ends |
| Engine and strategies (`runtime/modules/backtest/domain/engine.ts`, `runtime/modules/strategy`) | positions, pending and deferred orders, forced exits under way, the active entry of the universe schedule | a loop over the days: delistings, splits, schedule, open, strategy | none | buys that are put off past their checks, sales that wait over halts, splits and further entries | the cap holds; who leaves the universe is sold as a whole; buys wait for the sales and for nothing else |
| Period validation and clone batches (`period-validation-service.ts`, `seed-clone-batch-service.ts`) | experiments, groups, trials; batches and items | tick, prepare and run a group, cancel, promote, recover | the job queue and its events | awaits inside a tick, crash between a job's move and its event, previews that are collected while they are referred to | the queue limit holds; runs are compared on one revision; nothing is launched after a cancellation; batches and experiments end |
| Submission and drafts (`submission-validation.ts`, `backtest-wizard-draft-service.ts`, `preparation-reference-service.ts`, `forked-submission-validator.ts`) | drafts with a revision, references to preparations | save, submit, collect unreferenced previews | routes, a forked validator | lost updates, a preview deleted while it is used | a referenced preview is kept |
| Market data (`symbol-master-service.ts`, `symbol-master-version.ts`, `symbol-master-scheduler.ts`, `symbol-master-backfill.ts`, `candle-coverage-service.ts`) | versions with validity intervals, covered dates, trading days, dates under way; the tick and the backfill in memory | collect a date, ask for a trading day, daily scheduler, backfill, questions about universes and delistings | KRX, shared quota, the data queue | dates in any order, several at a time, with awaits; late publication; securities left out of an answer; resumption | a universe that is known is true; only what is gone is delisted; the collection catches up |
| Facts (`fact-sync-service.ts`, `dart-filing-discovery.ts`, `fact-coverage-store.ts`, `pit-fact-view.ts`, `sync-plan.ts`) | facts, coverage, watermarks, pending filings | discover, plan, fetch, store, confirm | DART, quota | corrections published later, watermarks over failures | no look-ahead; a watermark never passes what is missing |
| Providers (`provider-request-policy.ts`, `external-api-usage.ts`, `rest-client.ts`, `krx-historical-universe-source.ts`) | request plans, daily usage, stored answers | authorize, attempt, defer, complete | the collections | counts over restarts, a quota met in the middle of a batch of attempts | an empty answer is only final if the calendar says so; nothing is blocked for ever |
| Databases (`database.ts`, `database-layout.ts`, `database-backup.ts`) | two SQLite files and a restore journal | open, migrate, back up, restore | the file system | two files, one restore | after any interruption the restore can be finished, and no mixture is opened |
| Deployment (`scripts/deploy.sh`) | the link `current`, marks on releases and snapshots | stop, back up, link, prepare, start; roll back | systemd, the databases' commands | a failure, a kill or a power cut at any step, also on the way back | code and schema go back together; what is needed to recover stays |
| Authentication (`auth-service.ts`, `session-policy.ts`, `agent-registry.ts`) | sessions, failures, TOTP steps, device tokens | log in, renew, revoke | all routes | two expiries, replay | a code is used once; a revoked device gets nothing |
| Notifications, results, bootstrap, web | subscriptions; none; none; pages | | events | | |

`PROJECT.json` lists the same parts under `components` with their status, and under `hazards`, at its
line, everything in this code that is hard to test.

### How the parts interact

- The main process is one JavaScript thread: what happens between two awaits is one step. better-sqlite3 is
  synchronous, so a handler without an await is atomic as far as other handlers go, but **not** for the import
  child and the publishing child, which are processes that commit on their own.
- A device only ever acts through a lease (job, attempt, random token, device); every statement that serves
  it checks token, attempt and expiry in its `WHERE`.
- At start, `main.ts` recovers in a fixed order: unleased jobs, the data queue, the sweep, the local executor, the clone
  batches, then preparations (`recoverOrphaned`).
- A job that needs data gives its slot back; the data queue collects, then publishes, then resumes the job.

## 2. Modules

```
BacktestJob (abstract)        <- implemented by -  BacktestLease  <- implemented by -  AgentSystem
                                                     | EXTENDS                          | EXTENDS
                                                   JobQueue                           AgentClient
Preparation  EXTENDS  PreparationQueue, DataQueue, DatasetSnapshots
Experiments  EXTENDS  PeriodValidation  EXTENDS  SeedBatches  EXTENDS  Submissions
Analysis     EXTENDS  UniverseResolver
MarketCollection  EXTENDS  SymbolMaster  EXTENDS  KrxSource
                             | INSTANCE
                           VersionTimeline
Deployment
Engine
BacktestLeaseProofs    EXTENDS BacktestLease, TLAPS
AgentSystemProofs      EXTENDS AgentSystem, BacktestLeaseProofs, FiniteSetTheorems, SequenceTheorems
PreparationProofs      EXTENDS Preparation, TLAPS
AnalysisProofs         EXTENDS Analysis, FiniteSetTheorems, WellFoundedInduction, TLAPS
MarketCollectionProofs EXTENDS MarketCollection, WellFoundedInduction, TLAPS
ExperimentsProofs      EXTENDS Experiments, FiniteSetTheorems, WellFoundedInduction, TLAPS
EngineProofs           EXTENDS Engine, FiniteSetTheorems, TLAPS
DeploymentProofs       EXTENDS Deployment, TLAPS
```

| Module | Models | State | Kind |
|---|---|---|---|
| `JobQueue` | one row of `backtest_jobs`; each SQL statement of `job-queue.ts` as a pair of operators, its `WHERE` and the row after it | none | operators |
| `BacktestLease` | who runs which statement and when: users, agents, the sweep (select, then apply), cancel (read, then write), uploads, import children, crash, boot, clock | `rows`, `issued`, `granted`, `uploads`, `up`, `main` | state machine |
| `BacktestJob` | what the user is promised of a job: its phases and which moves are allowed | `job` | abstract specification |
| `BacktestLeaseProofs` | the theorems about leases of backtests | | proofs |
| `AgentClient` | the record of a device, and how each handler of `client.ts` changes it | none | operators |
| `AgentSystem` | devices, both ends of each connection, messages in order, uploads over HTTP, releases; each step of the server is an action of `BacktestLease` | `dev`, `toServer`, `toDevice`, `conn`, `posts`, `release`, `faults` and those of `BacktestLease` | composition |
| `PreparationQueue` | one preparation row with its lease row, statement by statement | none | operators |
| `DataQueue` | one request row: request, completed, failed, recover | none | operators |
| `DatasetSnapshots` | versions, the publication under way, what the server knows | `data`, `snaps`, `kept`, `current`, `publication`, `refused` | state machine parts |
| `Preparation` | the composition: users, dispatch with its awaits, agents, collections, publications, pruning, crash, boot, clock | those, `jobs`, `granted`, `reqs`, `waits`, `runner`, `held`, `offered`, `sampling`, `delays`, `up` | composition |
| `PreparationProofs` | the theorems about previews, collections and versions | | proofs |
| `Submissions` | submissions with their checks before and after the await, the reference collector, the wizard's binding, the queue's limit; tables in, tables out | none | operators |
| `SeedBatches` | `pump`, events, creation, cancellation, recovery of a batch of seeds | none | operators |
| `PeriodValidation` | the tick of the experiments cut at its awaits: prepare a group, launch it, compare, select, go on to the next phase or fold; cancellation, recovery | none | operators |
| `Experiments` | the composition: users, the timer, jobs, previews and data that move by themselves, deaths of the server | `db`, `tick`, `post`, `up`, `crashes` | composition |
| `UniverseResolver` | `resolveOrDescribeNeeds`: what one pass over partly collected data selects, excludes and needs | none | operators |
| `Analysis` | one preparation from lease to lease, the requests it makes, collections for it and for others, lost leases | `rule`, `world`, `store`, `job`, `others`, `lost` | state machine |
| `AnalysisProofs` | rankings and recursion over the stages, what the resolver knows stage by stage, the theorems about previews | | proofs |
| `VersionTimeline` | `symbol-master-version.ts`: the history of a security as a set of versions, the overlay of an interval, the joining of versions | none | operators |
| `KrxSource` | the exchange and the calendar, stored answers, the plan of a date's requests, quota and budget of the day | `history`, `today`, `posted`, `stored`, `partial`, `waiting`, `quota`, `spent`, `faults` | state machine parts |
| `SymbolMaster` | `ingestDate` cut at its awaits, the write of a trading day or a holiday, who waits for which date, delistings | `versions`, `covered`, `tradingDays`, `ingest`, `caller` | state machine parts |
| `MarketCollection` | the composition: the scheduler's tick, the backfill's loop, `ensureTradingDay`, restarts, days that pass | those, `tick`, `backfill`, `syncDate`, `starts` | composition |
| `MarketCollectionProofs` | the theorems about overlays, and from them those about universes and delistings | | proofs |
| `Deployment` | `deploy.sh`, backup and restore of the two files, opening with migrations, systemd, the operator | `live`, `wal`, `clock`, `snaps`, `journal`, `staged`, `cli`, `app`, `want`, `current`, `marked`, `kept`, `script`, `faults` | state machine |
| `Engine` | `runBacktestSteps` of `engine.ts`: the loop over the days with its positions and orders, beside an arbitrary strategy and an arbitrary market | `phase`, `day`, `bars`, `members`, `activated`, `rebalance`, `position`, `basis`, `pending`, `queue`, `nextOpen`, `deferred`, `unresolved`, `awaiting`, `ready`, `promoted`, `retired`, `maxPositions`, `dry`, `asked`, and the history `untried` | state machine |
| `EngineProofs` | the theorems about positions and orders | | proofs |
| `DeploymentProofs` | the theorems about deployments and restores | | proofs |
| `ExperimentsProofs` | the theorems about previews, batches and experiments | | proofs |
| `AgentSystemProofs` | the invariant of devices and server, lemmas about the steps of each, the theorems about devices, the refinement | | proofs |
| `MC*` | small sets of model values for TLC | | |

How code is translated:

- **Statements.** `UPDATE ... SET s WHERE w` is `CanX(row, args)` (w) and `X(row, args)` (s). A statement that
  matches nothing changes nothing: the action is then disabled or, where the caller still answers (an ACK, a
  refusal), the composition takes the answer alone.
- **Awaits and processes.** A handler is cut exactly where another actor can run: at an await, at the boundary of
  another process, at a timer. `BacktestLease.main` holds what the main process has read and not yet written
  (`sweep`, `cancel`); `Preparation` holds the manifest that `assign` keeps while it samples.
- **Time.** An expiry is stored as the ticks that remain; `Expired` is the past. A tick is the period of the upload
  renewal (30 s). A heartbeat is not forced: an agent may be silent for any time. The timer of the renewal is
  one of the server itself and has its turn in every tick a live upload sees; whether the renewal then succeeds, finds the lease gone, or finds the
  database locked by an import and is swallowed (`agent-routes.ts:126`) is left open. `missed`, a history variable, counts the failures in a row.
- **Tokens.** A random token is the number of the attempt it was issued for; a hash is its argument. That tokens are
  never reused is what the generator gives.
- **Messages.** Each direction of a connection is a sequence, emptied when it breaks. The two ends notice separately.
  `posts` are the uploads a device waits for; the server may go on with an upload whose request has failed.
- **Tables.** `Submissions`, `SeedBatches` and `PeriodValidation` write a synchronous piece of code as a function from the tables `d` to the
  tables after it, so that one handler calls another as in the code; `Experiments` says where the pieces are separated by an await.
- **Data.** In `UniverseResolver` the providers' data are a record `w`, and what has been collected is a set of pairs (kind, date or symbol). A
  value is a small number, the better the higher; a report is there, faulty, or not collected. A ranking is said by the place of each symbol (`Precedes`, `Selected`): sorting and
cutting off is keeping those with fewer than `limit` ones before them. A loop over the stages is a function of the number of stages behind it (`AfterStages`).
- **Dates.** In the market data modules a date is a number, a version the interval from its first date up to its end, `Forever` the end of one that is still valid (NULL).
  Of a date it is enough to know how many of its answers are stored, as they are asked for in a fixed order.
- **Results.** The contents of a result are the attempt that computed it, the contents of a data version the set of requests
  whose data it has, the input of a preview a class of `SameInput`.
- **Engine.** A day is cut into the phases of its loop; `phase` is where the loop is. What the engine is given (bars, delistings, the members of an entry) is chosen on the day it
  matters, which is the same as choosing all of it beforehand, since the loop never looks ahead. Orders are sets: of several buys at one open any may be first, and a buy is filled in
  full, in part or not at all, which covers cash, costs, the seed and the volume limit. `untried` is a history variable: the forced exits that no open has tried.
- **Shell.** `deploy.sh` is a program counter (`script.at`): one value for each command that can fail or be interrupted with an effect of
  its own. The contents of a database file are the last write it has seen and the release whose migrations it has.
- **Mutants.** A definition marked `Mutant:` is a plausible bug in the operator that follows it. It is used by
  nothing; `PROJECT.json` pairs each property with a mutant that violates it.

## 3. Runs

All runs exhaust their state space. Sizes are distinct states.

### Leases of backtests

`backtest_lease_safety` (425,059). One job, two agents (a device and the local executor), leases of two ticks, three attempts, two failures, two uploads.
- `ResultOfLastLease`: COMPLETED exactly when a result is stored, and it is that of the last attempt.
- `TransferKeepsLease`: a transfer's lease does not expire while the server is up, unless as many renewals in a row as an ordinary lease has ticks (three of
  30 s, `AGENT_LEASE_MS`) found the database locked. The exception is real: heartbeats shorten the 15 minutes of a transfer to 90 s, and an import of another result, or an
  orphaned one, may keep the lock longer than that. The transfer is then lost, and the job is computed again.
- `ImplementsBacktestJob`: the specification of the life of a job that a user sees; in it a cancellation wins over a late result, and an ended job stays.
- `ExpiredLeaseIsGivenBack`, under the fairness below.

### Devices and connections

`agent_system_faults` (186,670). One device, one attempt, two faults (a broken connection, a killed process, a crash, a failed
upload), one change of release, one upload at a time, two messages under way.
- `DeviceExpiresFirst`: a device's copy of the expiry never runs ahead of the server's.
- `OneExecutor`: while a device computes and believes in its lease, the row still carries that lease. Nobody else can have it, so that
  one device and the server's row are enough to state it. The exception is a release that was changed meanwhile: `UPDATE_REQUIRED` takes the leases back first.
- `ResultsAreNotDropped`: a result leaves the outbox only when it is stored or its lease is worthless.
- `ImplementsBacktestLease`: `AgentSystem` takes only steps of `BacktestLease`, whose agents are arbitrary. What
  is proved there therefore holds here on these instances. Two uploads at once are in `backtest_lease_safety`.
- `ReportsAreConfirmed` and `LostRunsAreStopped`, under the fairness below: faults that end leave nothing unreported and nothing running for nobody.

`agent_system_cancellation`: a violation, see section 6.

### Preparations and data

`preparation_safety` (101,010). One job, one request, three revisions of the data, two attempts, one delay: `NoFalseGap`; the steps
`AcceptedPreviewsAreCurrent` and `VersionsAreImmutable`; `WaitingJobsGoOn` and `CancelledJobsEnd`, under the fairness below. `NoFalseGap`
holds for a reason that is easy to lose: `ensureLatest` may join a publication whose copy is older than the data
just collected, and the request is then completed with a version that lacks them; but a dispatch re-reads the revision and gives the job only to an agent that holds the version it has just
made sure of. The run reaches that: one write starts a publication beside the collection, the copy is taken, the collection stores its data, and ends by joining; the job is then
leased a second time, with the version that was looked at before all this.

That two jobs never compute one input together takes two jobs and is proved instead (`OnePreviewPerInput`).

`preparation_pruning`: a violation, see section 6.

### Preparation analysis

`analysis` (111,896). Three symbols, two dates, two universes of two or three stages, 33 worlds the providers may have (missing
classifications, no earnings, short histories, faulty reports, unusable capital changes, holes in prices), nothing collected or what a migration left,
one collection for others and one lost lease.
- `PreviewIsTrue`: the universe of a preview is the one that complete data give, without the symbols it names as excluded.
- `OnlySurvivorsAreFetched`: DART is only asked about symbols that may still be selected.
- `FailsForAReason`: a preparation only fails when the providers' data are the cause.
- `AnalysisEnds`: it ends, whatever is collected for others meanwhile.

`stale_needs`: a violation, see section 6.

### Market data

`market_collection` (138,262). Four dates, the third a holiday and the day on which a behaviour begins; two securities with two histories (one changes and changes back while the
other is left out of an answer; one is listed while the other only trades and is delisted); a backfill until a date or until today, single dates asked for
(the last one before the days between are collected), one fault (a failure, a 429, a spent budget or a restart).
- `UniversesAreTrue`: of every date that the master can answer for, it names the right trading day and the securities as that day's base information had them. It would break if a
  gap that is filled reached over a later observation, if a day that is published late were taken for a holiday, or if a date were written over the coverage of another.
- `DelistingsAreFinal`: exactly the securities that are on no collected day any more are reported delisted, on the first day without them; what was left out of the answers of some days is not.
- `CollectionCatchesUp`: once something is covered, every past day is, over and over as days pass. What is covered ahead of a hole counts as caught up: the scheduler looks at the
  last covered date only.
- `ExhaustedBackfillsGoOn`: a backfill that was out of calls ends with its range covered, unless it fails or the server restarts and forgets it.

Met while modelling, each in the behaviours of this run:
- The scheduler starts an exhausted backfill again without its end date (`symbol-master-scheduler.ts:108`), so that it goes on until today, although `symbol-master-backfill.ts:81` says that the
  end date is there to save calls.
- A quota that is refused in a batch of attempts that was partly used up ends as RETRY_BACKOFF, and the backfill as FAILED, which is not taken up again.
- A security without base information on the last collected day is reported delisted until a later day has it. `DelistingsAreFinal` says of what has been collected only.

### Clone batches and experiments

`seed_batches` (116,059). A batch of two seeds beside the wizard, single clones and a queue with one place, one death of the server.
- `ReferencedPreparationsStay`: a preview that a job, a batch or the wizard refers to is there.
- `BatchEndsQuietly`: a batch that ended has nothing waiting and nothing under way.
- `BatchesEnd`: a batch ends, although a death between the end of a job and its event loses the event.

`period_validation` (about 245,000). Holdout, or walk-forward with two folds, two revisions of the data, one death of the server.
- `ExperimentEndsQuietly`: an experiment that ended has no run and no preview under way.
- `ExperimentsKeepTheirRuns`: the runs an experiment has to compare cannot be deleted.
- `ComparedOnSameData`: runs of one group are launched on one revision, also when the data change in the await between them.
- `BackgroundRespectsLimit`: the launch of a run does not fill the queue beyond its limit. A tick looks at the queue before it awaits `buildEnqueue` and again after it;
  in between, devices hand back runs that were under way. That users submit and items of a batch are promoted in between is covered by the theorem `BackgroundStaysWithinLimit`.
- `CancelledExperimentsLaunchNothing`: a tick that awaited over a cancellation launches nothing.
- `ExperimentsEnd`.

### Backtest engine

`backtest_engine` (1,761,100). Two symbols over five days, entries of the schedule on days 1, 3 and 5, a split of one symbol and a reverse split of the other, one delisting, one symbol
at a time that does not trade, a cap of one or two, and a strategy that may ask for a buy or a sale of each symbol on each day.
- `CapHolds`: no more symbols are held than `maxPositions`, although buys skip that check when they are put off.
- `OutcastsAreLeaving`: the symbols held from outside the universe are those on their way out, and each has exactly one sale waiting, for all that is held of it.
- `BuysWaitForExits`: nothing is bought at an open while a sale the universe demands was not tried at any.
- `BuysAreNotForgotten`: a buy is put off for such a sale only; none is left behind when the sale is called off, delisted or cannot be filled.
- `OneBuyPerSymbol`: a buy that was put off and asked for again is not there twice.

Met while modelling, each in the behaviours of this run:
- A sale of the two-phase strategies carries the engine's reason `REBALANCE_EXIT` (`two-phase-rebalance.ts:46`); if it is filled in part, the engine goes on to sell everything that is held by
  then (`engine.ts:1068`), also what was bought at the same open.
- A symbol that was taken back into the universe is no longer resolved: if a reverse split then closes its position, `onForcedExit` is not called, and a strategy that keeps a list of what it
  holds is not told.

### Deployment

`deployment` (42,247). Two deployments, three faults.
- `RunsOnWholeDatabase`: no process has the database open while its two files are of different moments. Both carry the same dataset id at
  all times, so that only `restore.json`, which `openDatabase` looks for, can tell.
- `OldCodeMeetsOldSchema`: no release serves on a schema that a later one has migrated.
- `RestoresFinish`: an interrupted restore is finished in the end.

The interesting case: the first deployment fails after its mark was removed from the release, its
restore is interrupted, and a second deployment starts, since it only looks at the mark of `current`. It even takes a backup, of two files that do not belong together (`db:backup` does
not look for `restore.json`), and then fails in `db:prepare`, which does; its own rollback is refused, because the journal names the other snapshot. The first restore can
still be finished, since the mark on its snapshot has kept it.

### Bounds

| Bound | Meaning | Why it is enough |
|---|---|---|
| `LeaseTicks`, `TransferTicks` | 90 s and 15 min in ticks; 2 and 3 (1 and 1 with devices, 1 in `preparation_safety`) | the order "heartbeat shortens, renewal lengthens or fails, tick expires" needs a lease shorter than a transfer, and a lease of two ticks, so that one renewal may fail and the next one succeed |
| `MaxFailures` | `AGENT_MAX_ATTEMPTS` (3); 1 or 2 | one loss that requeues and one that fails |
| `MaxAttempts` | leases granted per job; 1 to 3 | a stale lease needs two; a stale lease beside one requeued twice needs three |
| `MaxUploads` | uploads under way; 1 or 2 | two in `backtest_lease_safety`: an upload repeated while the first is imported, an orphan beside a new one, a renewal while another upload is imported |
| `MaxRevision`, `MaxCollections` | changes of the data, collections of a request | three in `preparation_safety`: a publication begins at the second, and the collection that joins it writes the third; `preparation_pruning` needs three versions |
| `LastAsked`, `LastOther`, `LastCancelled` | the last version a pass or a HELLO asks for, the last revision that is not written at the end of a collection, the last attempt that is cancelled; 2, 2 and 1 in `preparation_safety` | what the server and its users may begin at any time: a pass publishes beside a collection, a write comes before it, a cancellation meets a waiting, a queued and a running job. The third version and revision come from collections. None is an action that fairness speaks of |
| `MaxDelays` | collections put off by the provider | one |
| `MayLoseCommit` | a publishing child whose answer is lost: one such loss per run | the next publication must skip the number, whichever it is |
| `MaxWire` | messages under way when a timer adds one | two, so that an answer meets a repeated request |
| `MaxFaults`, `MaxRelease` of `AgentSystem` | faults and releases | two: a lost answer and a restart, in either order, beside an update. |
| `MaxDeploys`, `MaxMoment`, `MaxFaults` of `Deployment` | deployments, writes, faults | a deployment on top of one that failed; a write before and one after a backup; a failure, an interruption of the way back, and one of the way back from that. Three deployments, four writes and five faults (1,684,738 states) show nothing else |
| `MaxPreps`, `MaxQueued`, `MaxRevision`, `MaxCrashes` of `Experiments` | previews of one input at a time, places in the queue, revisions of the data, deaths | a preview beside one that is being cancelled (and, in an experiment, one more); a full and a free queue; data that change once; one death, after which everything must go on by recovery alone |
| `MaxOthers`, `MaxLost` of `Analysis` | collections for others, lost leases | one: the order of "collected for others" and "asked for" is what matters, a lost lease repeats a pass |
| `LastDay`, `Histories` of `KrxSource` | dates, truths about the securities | a gap needs a date before, in and after it, and one more for a trading day in front of a holiday; each security has a version that ends, one that begins, one that returns |
| `Markets` | one market in place of two | the requests of a date are made one after the other for every market, and of the markets only whether one has traded matters; the collection of a date has two requests, with an await between any two |
| `LastDay`, `MaxDelistings`, `MaxHalted` of `Engine` | days, symbols delisted in a run, symbols that do not trade on a day when others do | an entry, its exit, a halt at that open, an entry that takes the symbol back and one that drops it again, with splits between them; the last day decides nothing that an open could fill, so nothing is asked for on it |
| `Symbols`, `Caps`, `Lot` of `Engine` | symbols, caps, lots of the strategy | one symbol leaves while the other comes, with a cap of one; a quantity of one is halved to nothing by the reverse split and doubled by the split. The theorems have no such bounds |
| `MaxFaults`, `MaxStarts`, `MaxLookback` of the market data | faults, backfills, days looked back | one fault that any of the callers may meet; a backfill beside the scheduler; 2 instead of 10 days, so that the limit is met |

No constant bounds how long an agent is silent, how often a sweep finds the database locked, or the order of handlers.
Deadlock is checked in `backtest_lease_safety`. In those of `MarketCollection` (days, starts and faults are bounded), `Deployment` (bounded deployments, writes and faults: the
service just runs), `Preparation`, `Experiments`, `Analysis`, `Engine` (a batch, an experiment, a preparation, a run has ended) and `AgentSystem` it is not (`CHECK_DEADLOCK FALSE`). In `AgentSystem` users, attempts and faults are bounded: a system whose only job has
ended, and whose devices have nothing to report, really rests.

### Fairness

- `BacktestLease`: a server that died is restarted (`Restart=on-failure`, `infra/systemd/quant-platform.service:14`): weak fairness of `Boot`. A
  microtask follows its promise: weak fairness of `CancelWrite`. The sweep is a timer: it keeps coming due, but
  between two turns the main process does other things, the database may be locked, and the server may die, so it is enabled again and again
  and not continuously: strong fairness of its two halves. Nothing is assumed of users, agents and the clock.
- `Preparation`: the same for boot and sweep; the timer of the coordinator for resumption, collection and publication (strong,
  as the server may die between any two steps); a provider answers or fails, and the time of a retry comes.
- `AgentSystem`: once the bounded faults are over, processes run, connections last, and every message is handled. Weak fairness of
  what only a device can disable, strong fairness of handlers that have to wait for the main process. Not assumed: that a
  computation ends, that a user does anything, that time passes.

- `Experiments`: the timer of the experiments, a tick whose await is over and the restart by systemd take their turn (weak fairness of the three together); previews end
  (weak, per input); jobs are claimed (weak) and end (strong, as an agent may hand a job back and claim it any number of times) one after the other. Nothing is
  assumed of users.
- `Analysis`: an agent claims and goes on, and what is asked for is collected: three weak fairness conditions. That a request is answered is what
  `WaitingJobsGoOn` of `preparation_safety` shows.
- `MarketCollection`: promises of the event loop are kept (a date under way, the backfill, the tick, `ensureTradingDay`, weak), the hourly timer of the scheduler comes (`server.ts:219`), plans come to the time
  of their retry, days pass and the exchange publishes every past day some time. Nobody has to start a backfill or to ask for a date, and no answer has to be an error.
- `Deployment`: commands that were started end, the script goes on to its next command, systemd starts what is enabled, and the operator does what
  `docs/AGENT_OPERATIONS.md:229` asks for: stop the service, repeat the same `db:restore`, start it. Weak fairness is enough, since nothing else takes
  their turn. Nobody has to deploy.

## 4. Proofs

### Leases of backtests

`BacktestLeaseProofs` proves, for any sets of jobs and agents and any values of the bounds allowed by the named
assumptions of `JobQueue` and `BacktestLease` (positive failure limit, `LeaseTicks` not above `TransferTicks`, the local executor among
the agents, `NoAgent` not among them), the safety properties and the refinement that `backtest_lease_safety` checks, and, without a place in a run, that nothing is queued with its retries used up (`QueuedIsClaimable`), a
cancellation wins, an ended job stays, an active job is leased, a dead lease stays dead (`LeaseNeverRevives`) and only expiry counts as a failure (`OnlyExpiryCountsAsFailure`).

**The invariant.** None of the properties is inductive alone. `ResultOfLastLease` needs that a live token belongs to the current attempt
(`TokensAreFresh`), `QueuedIsClaimable` needs `RetriesRemain`, `TransferKeepsLease` needs to know what a transfer's lease may have run down to: a
tick less for every renewal missed (`RenewalOutlivesTick`), and all of them need to know that what the sweep and the cancellation have read is still true of rows that
are active (`SeenIsCurrent`): this is the precise sense in which a read outside the transaction is harmless. `IInv` is the conjunction; it is `InductiveInvariant`.

**The argument.** The actions are many, but a row can only move in 13 ways. `RowMove(j)` lists them, `RowMoves` shows that every action moves every row by
one of them or leaves it, and then each fact about single rows is proved by cases of `RowMove` instead of by cases of
`Next`: `RowMoveKeepsRowInv` for the invariant, `LeaseStep` for the leases, `PhaseTable` and `RowMoveIsMove` for the refinement. What relates
rows to the other variables has a lemma for each variable (`NextKeepsGranted`, `NextKeepsUploads`, `NextKeepsMain`,
`NextKeepsTransfers`). Each theorem then combines `InductiveInvariant` with a lemma on one step by PTL.

### Previews, collections and versions

`PreparationProofs` proves, for any sets of jobs, agents and requests and any values of the bounds allowed by the named assumptions of
`PreparationQueue`, `DataQueue`, `DatasetSnapshots` and `Preparation` (a positive number of failures and of collections; the local executor is an agent), every safety property that
`preparation_safety` checks, and five that no run has a place for: one input has one preview at a time (`SingleFlight`), the wait of a waiting job is remembered (`WaitingJobsAreRemembered`),
no collection is orphaned (`NoOrphanedCollection`), an accepted cancellation wins (`CancelledStay`),
and pruning leaves a leased version alone if it was there when it was leased (`LeasedVersionsAreNotPruned`). The condition is needed: without it `preparation_pruning` shows the violation.

**The invariant.** Three of its parts carry the others.
- `SnapshotsAreDated`: a copy is never newer than the database, two copies of one revision hold the same, and a committed version the server has not
  heard of is above the one it knows. From it follow that versions are immutable and that an accepted preview is current.
- `VersionsInUseAreHonest`: if the queue says of the version of a running job that the collection for a request is in it, and the data have what was collected, then the version
  has it. `NoFalseGap` is a weakening of it. The part about `sampling` is needed because a dispatch gives away, after an await, a version it looked at before.
- `RunnerIsSingle` with `RequestsCanFail`: what the collection under way has read of its request is still true of it, so that a failure leaves a request that can be asked for again.

**The argument.** As above, but the three queues meet in few places: `SnapStep` lists what a step may do to the versions, `RowMove(j)` what it may do to the row
of one job, `WaitMove` what to a wait, and `DoneMove` how a request becomes completed. Each is shown once for every action of `Next`; the parts of the
invariant are then proved from these lists.

### The backtest engine

`EngineProofs` proves, for any finite set of symbols, any days on which entries begin, any splits, caps and bounds, every property that `backtest_engine` checks, and that a delisted code is never held, ordered or waited for
again (`RetiredAreGone`, which no run has a place for). The strategy, the market and the schedule are arbitrary in `Engine`, so nothing is assumed of them.

**The invariant.** `EngineInvariant` is the conjunction of the types, of the phases in which each set of orders is in use (`OrderInv`), and of
- `SlotInv`: what is held **and what is about to be bought** fits the cap. `CapHolds` alone is not inductive, since a buy that waits for a symbol that does not trade is filled later without another check.
- `MemberInv`: who is held is a member or on its way out, and only members are bought. This is what makes `unresolved` mean something.
- `ExitInv`: each symbol on its way out has exactly one sale, for all that is held, in one of three places (pending, in the queue of the open, kept for the next open), and the wait for exits lasts as long as one of them
  was not tried. `OutcastsAreLeaving` is what is left of it between two opens.
- `WaitInv`: when the loop leaves an open, the wait is on exactly if there is an exit that was not tried; so a deferred buy waits for something.
- `BuyInv`: besides `OneBuyPerSymbol`, after an open every pending buy of a symbol that trades was promoted or asked for today. Without it a strategy could ask again for what is pending, and only what was promoted gives way.

**The argument.** Each part has a lemma with one step per action. `Rebalance`, with its LETs, is first turned into what it does order by order (`RebalanceEffect`, lemma `Rebalanced`), and the scaling of orders into a correspondence of
orders (`ScaledOrdersAreOrders`), so that the parts are proved from those.

### Market data

`MarketCollectionProofs` proves, for any number of dates and markets, any calendar, any securities and histories of the exchange and any values of the bounds, both invariants that `market_collection` checks
(`UniversesAlwaysTrue`, `DelistingsAlwaysFinal`), and that neither the exception of `normalizeTimeline` nor `assertUniversesEqual` ever undoes a write (`WritesAlwaysSound`), so that no date stays uncollected for this
reason. The assumptions are those of `KrxSource` and `SymbolMaster`: dates and holidays are what they say (`DaysAssumption`, `CalendarAssumption`; the first date is no holiday), there is a market (`MarketsAssumption`), and the marks for "not in the
answers" and "traded without base information" are no ids and no entries (`AnswersAssumption`, `EntriesAssumption`).

**The overlay.** Of `overlayVersionTimeline` it is proved, for every history without overlaps (the rows of one code), every interval that is not empty and every entry,
that it changes what is said of the dates of the interval and of no other (`OverlayChangesOnlyTheInterval`), and that it makes a history without overlaps again
(`OverlayIsHistory`). The pieces are of four kinds; `PieceSays` and `PieceFor` say what each kind says of a date, from which the pieces say what they should and do not overlap. `Normalize` joins
the first piece of a chain with its last one. That there is a first and a last one follows from the least-number principle (`LeastDate`, `GreatestDate`, from the library's theorem that the order of the
naturals is well-founded); that nothing in between is missing is the definition of `Leads`. So a joined version says of a date what a piece says of it (`NormalizeInventsNothing`,
`NormalizeLosesNothing`), and two that speak of one date have the same ends (`JoinedVersionsAgree`).

**The invariant.** `CollectionInv` has four parts beside the overlay.
- `TypesInv`, and `AnswersInv`: stored answers are final, a collection under way has not got past what is stored, and has got past the trades of the markets only on a day with trading. So a date that is
  recorded as a holiday after all its answers were empty is one, although a day that is published late looks the same for a while.
- `DaysInv`: the trading days are exactly the covered days on which the exchange was open.
- `VersionsInv`: the versions of a security are a history, every boundary of which is a trading day, and which says of each trading day what that day's answers allow. The middle condition is what the properties do not say and cannot do without: it is
  why an interval that begins at a date between two observations and ends at the next one never changes what is said of a third, and why a version that ends does so on a day that was collected.

`UniversesAreTrue` follows for the date within coverage, since no boundary lies between it and the trading day before it. For `DelistingsAreFinal`, the reported days are shown to be the ends of the last versions, and each the least trading day behind the last day
on which the security was held.

**The argument.** Only one kind of step disturbs `VersionsInv`, the write of a trading day, and it is the overlay of `[d, NextObservation(d))`; the rest of `Next` asks, waits or goes on (`Asks`, `AskingKeepsInv`). `CollectionInv` was checked by TLC on the instance of the run before it
was proved.

### Preparation analysis

`AnalysisProofs` proves, for any finite sets of symbols and dates, any set of rules of any number of stages, any providers' data and any number of collections for others and lost leases, the three invariants that `analysis` checks, and, as an
action property, that an analysis goes forward (`AnalysisGoesForward`): each pass that is followed by another excludes a symbol more, what a lease waits for is missing in its version, and the next lease has it. This is the safety half of `AnalysisEnds`; the other half is fairness. Assumed
are `ResolverAssumption` (symbols and dates are numbers, since ties are broken by code), `AnalysisAssumption` (the rules are rules) and `WorldsAssumption` (the providers' data have the fields the resolver reads).

**Rankings and recursion.** What a stage takes is said by places: `FirstAreBest` shows that those with fewer than `limit` ones before them are as many as there are up to the limit, and that each of them precedes everybody
who is left; `BestIsUnique`, that there is one such set. With them the place-by-place definition is the sorted prefix of `rankUniverseStage`. A function defined by recursion over the stages is what its equations say
(`Recursion`, `AfterStagesFollow`, `SurvivorsOfAStage`). The library's induction theorems take an operator, which no installed prover can instantiate; `UpTo` states induction for a set of numbers instead, from the library's theorem that the order of the
naturals is well-founded (`LeastMember`).

**The invariant.** What holds after a stage is said against `Survivors`, what the stages select from complete data.
- `Bounds`: the candidates contain the true survivors, and are the true survivors while no stage is unresolved. This is the upper bound of the source, and it is only kept if nobody
  is to be excluded for good in the stage (`NobodyGoes`), since an exclusion changes what complete data would select.
- `Known`, over all stages of a date: what is needed is missing in the version; a contradiction is the provider's; candidates were not excluded; if everybody who goes has gone already, `Bounds` holds and an unresolved stage names what it needs; and
  after stages that KRX alone decides, `Bounds` holds in any case and nothing but that day's metrics is needed. The last part is why DART is only asked about survivors (`OnlySurvivorsAreFetched`).
- `JobInv`: a final schedule is the true one, a completed one can be run, what is waited for concerns survivors, and a failure has a reason.
- `Forward`: what is waited for is missing in the lease's version, and is in the store when the job is queued again.

**The argument.** One lemma per kind of stage (`KrxStageIsSound`, `DartStageIsSound`, `PriceStageIsSound`, joined in `StageIsSound`), each saying what it does to `Bounds`; `KnownAfterStages` goes over the stages, `DateIsTrue` and `ResolveIsTrue` over the dates, `RequestIsFor` and `FinalRequestIsFor` from
needs to requests. The steps of the lease then only combine these. The case in which an unresolved stage is dropped because no candidate is left (section 6, 3) is covered: by `Bounds`,
where no candidate is left there is no true survivor, given the exclusions the preview names.

### Devices and server

`AgentSystemProofs` proves, for any devices, jobs, faults, releases and length of the wire, and with the assumptions of `BacktestLease` (whose `AgentSystemAssumption` only says that the bounds are numbers),
every safety property that `agent_system_faults` checks, that what was saved before a stop is taken up again after it (`SavedReportsAreSent`), and the refinement
`SystemImplementsLeases`. Through it the theorems of `BacktestLeaseProofs`, whose agents are arbitrary, hold of devices that follow `client.ts`.

**The invariant.** `SysInv` takes over `IInv` of the leases and adds
- `SysTypeOK`, which says more than types: whatever a device, a message or an upload names is a lease granted to that very device. This is what the refinement needs.
- `GrantedOnce` and `LinkInv`: an attempt is granted once, and what the server has "ready" is a device with a link and of its release.
- `AnswerInv` and `UpdateInv`: an ACK or a refusal under way, and a request to update, are still true when they arrive, since a lease that is dead stays dead (`DroppedStays`). `ResultsAreNotDropped` and `SavedReportsAreSent` rest on it.
- `ExpiryInv`: no copy of an expiry, in a run or in a message, is ahead of the server's, unless the lease is gone.
- `JobInv`, `SilenceInv`, `LeaseInv`: of one lease there is one run, one job message or one report; what a device computes was not reported, and the server's row still has its lease, unless every copy of the expiry has passed or the server has a later release. `OneExecutor` follows.

**The argument.** What can happen is first reduced to four kinds: a step of one device (`DeviceMove(a)`), a step of the server (`ServerMove`), a crash and a tick. `DeviceSteps` and `ServerSteps` show it action by
action; each part of the invariant is then kept by the four kinds, without another look at the actions. The refinement (`SysStepIsStep`) has a case for each action: those of devices leave the leases alone, those of the server are their namesakes.

### Deployments and restores

`DeploymentProofs` proves, for any number of releases, moments and faults, both invariants that `deployment` checks, and that the comparison at the end of a restore never fails, however often it was interrupted and taken up again (`RestoresCheckOut`).

**The invariant** has ten parts beside the types; each says what one thing that survives a crash tells of the others. `JournalCovers` is the heart: while `restore.json` is there, the set it names is whole, otherwise the
live files are. `CopyOrRenamed` and `StepsTaken` say how far an interrupted restore came, by what is still staged; `OpenIsCurrent`, `ServiceIsStopped` and `PrepareIsMarked` who may have the files open; `SchemaIsCurrent`, `BackupIsGood` and `ReleasesGoForward`
what schema they have. `OldCodeMeetsOldSchema` needs all of the last six, since `rollback_release` may be entered by a shell whose `db:prepare` survives it.

**The argument.** One lemma for each part, in it one step per action; what is not said by a part of the invariant about a step is said by its guard.

### Previews, batches and experiments

`ExperimentsProofs` proves, for any previews, slots of users, items and trials and any values of the bounds allowed by `SubmissionsAssumption` (finite sets, numbers from one on), every safety property of `seed_batches` and `period_validation`.

**The invariant.** `ExpInv` is `Sound(db, tick, post)`: a predicate on tables, the place where a tick waits and the submission that waits.
- `RefsInv` is `ReferencedPreparationsStay`; `BatchInv` adds to `BatchEndsQuietly` that only a dispatched item has a job; `EndInv` to `ExperimentEndsQuietly` that a completed experiment has run all its trials.
- `LaunchInv` and `GroupInv`: the groups before the present one ran to their end, those after it have not begun. So an experiment cannot be decided on a run that is missing.
- `RevInv`: the runs of a group are on the revision the group was prepared on, or on a later one. `ComparedOnSameData` needs it together with the guard `SameRevision`, which is read just before a decision.
- `TickInv` and `PostInv`: what a tick that waits for its run, or a submission that waits for its checks, comes back to. An experiment that is still in the phase the tick remembers still has the trial
  and its preview; this is why `samePhase` is enough of a check.

**The argument.** The operators are functions on tables, so every one has a lemma of its own: from sound tables it makes sound ones, and what else it does is a move (`ExpMove`, `SameExp`) or an outcome of the tick (`Outcome`). `Step`
collects what the properties say of a step, `Lawful` what they say of an experiment; `NextIsStep` shows them for every action from the lemmas of the operators it is composed of.

**The limit of the queue.** `BackgroundRespectsLimit` is about one step, not about states: users and devices that hand jobs back may overfill the queue, and only what the server submits by itself is within the limit.
A step from `d` to `e` is therefore `Bounded` if no job of a batch or an experiment appeared and the queue did not grow, or if `e` is not overfull; steps of this kind compose (`BoundedTwice`), which an implication
from "a job appeared" alone does not. Two facts are counted. `pump` takes the items whose place among those that wait is within the room, and `FewAreFirst` says that no more than `room` numbers of a finite set are (the last of them has the largest place,
taken with the well-foundedness of the numbers, and all lie below it); `QueueGrows` adds them to the queue. An experiment adds one run, after it found room in the same piece of code (`ResumeBuildBounded`): a check before the await would not do.

The invariants of all the proof modules were checked with TLC on the instances of the runs before they were proved. A few operators were reshaped for the proofs without changing what they say (`PeriodValidation.Take`, the moves of `AgentSystem`), and the constants got the assumptions named above.

### What is only model-checked

- Liveness everywhere, since fairness and ENABLED are out of the prover's reach: `ExpiredLeaseIsGivenBack`, `ReportsAreConfirmed`, `LostRunsAreStopped`, `WaitingJobsGoOn`, `CancelledJobsEnd`, `AnalysisEnds`, `CollectionCatchesUp`,
  `ExhaustedBackfillsGoOn`, `BatchesEnd`, `ExperimentsEnd` and `RestoresFinish`. Of `AnalysisEnds` the measure that decreases is proved (`AnalysisGoesForward`).
- Which invariants and action properties have theorems is in `PROJECT.json` under `theorems`; all those of passing runs do.
- The three violations of section 6 are behaviours on small instances, and need no proof.

## 5. What is not modelled

- Two clocks: the server and its devices share one. A device whose clock is fast gives its runs up early, one whose clock is slow
  computes on after its lease; the server is not affected either way, since only its own clock decides.
- Sizes: slots, estimated bars, memory plans and budgets, file sizes. Which of the claimable jobs a device gets is left open, so every order is covered.
- In `Analysis`: years of coverage and the requests that follow from them, the identities of symbols over renames, the alignment of capital changes, the rules by which
  reports, prices or changes are found unusable (a symbol has them or not), and price histories that are partly collected. A version is what had been
  collected when the lease began; publication and queues are in `Preparation`.
- In `Experiments`: more than one batch and one experiment at a time, which candidate an experiment prefers among equal ones (left open), the wizard beside an
  experiment, the revision numbers of drafts, and the queue of the forked validator.
- Market data beside the symbol master: daily bars and their replay, candle coverage, selection metrics, benchmarks, identities over renames; the check that base information has not
  collapsed to less than 80 %. Of the exchange's answers: corrupt raw snapshots, exact attempt counts, and years whose calendar is not known, in which holidays stay pending.
- Facts (`fact-sync-service.ts`, `dart-fact-source.ts`) and the DART client: what a collection stores is one step of the data queue in `Preparation` and one of `Analysis`. Watermarks and
  pending filings are what the plan of section 7 begins with.
- What results, facts and candles contain; the strategies, and of the engine prices, cash, costs, the draw of the seed, the days before `tradeFromTsMs`, metrics and reports: floating point, which TLA+ has not. That a symbol does not trade on a day and that it has no bar are one thing in `Engine` (`engine.ts:87` says so; the engine is given both). Runs without a universe schedule,
  where nobody leaves and every symbol may be bought. A strategy asks for at most one order per symbol and day, as those of the registry do.
- Authentication, revocation of a device, notifications, and the web application.
- In `Deployment`: building, uploading and unpacking a release; a first deployment on a machine without a database; copies of a restore
  that are incomplete when it is interrupted (`restore.json` does not name them yet); restoring by hand a snapshot other than the interrupted one. A rename or
  removal is taken to be durable in the order in which it was made.
- `Preparation` and `AgentSystem` are not composed: the first takes agents that may send anything at any time about a
  lease they were granted, which includes what a device does.

## 6. Where the code and its documentation differ

1. **A leased version can have been deleted** (`preparation_pruning`, `LeasedVersionsAreKept`). `docs/AGENT_OPERATIONS.md:203` says that the server keeps
   the versions that the current, the previous and running leases refer to. `assign` (`agent-coordinator.ts:735`) keeps the manifest it was
   given over the awaits of `localBacktestCandidate`. While it samples, two publications can end and a tick can prune the version, which is then neither current, nor previous, nor leased;
   `assign` then claims a preparation with it. (What is leased while its files are there keeps them: `LeasedVersionsStay`.)
2. **A job can be cancelled by nobody** (`agent_system_cancellation`, `OnlyUsersCancel`). `docs/AGENT_OPERATIONS.md:182` says that on expiry the device cancels the computation and
   the server assigns the job again. A device stops at its own copy of the expiry (`client.ts:431`), and reports every stopped run as
   CANCELLED (`worker-diagnostics.ts:173`). If the server had just extended the lease, and its answer is late or lost, the server's expiry has not passed: it accepts the
   report, and the job ends as CANCELLED instead of going back to the queue.

3. **A preview can depend on what others had collected** (`stale_needs`, `DroppedNeedsChangeNothing`). `universe-rule-resolver.ts:1144` says that the needs left by
   an unresolved stage cannot change the final selection of a date without candidates, and drops them (lines 1120, 1147). But exclusions are only recorded
   while no stage is unresolved (lines 794, 901, 984). Had the reports been collected, the later stage would have excluded its short histories for the whole
   period, and the next symbol would have moved up on that date. The preview that is completed names what it excluded and is true to it (`PreviewIsTrue`); it is
   not always the one that complete data give from the start.

## 7. Plan

Done: `JobQueue`, `BacktestLease`, `BacktestJob`, their proofs; `PreparationQueue`, `DataQueue`, `DatasetSnapshots`, `Preparation`, its proofs; `AgentClient`, `AgentSystem`;
their proofs, with the refinement; `Submissions`, `SeedBatches`, `PeriodValidation`, `Experiments` and their proofs; `UniverseResolver`, `Analysis` and their proofs; `Deployment` with its proofs; `Engine` with its proofs; `VersionTimeline`,
`KrxSource`, `SymbolMaster`, `MarketCollection` with their proofs.

What is left, in this order:

1. **Facts**: `FactSync`, `PendingFilings`, the coverage of reports and the DART quota, on the pattern of `KrxSource` and `MarketCollection`; daily bars and their replay beside `SymbolMaster`.
2. **Engine**: cash and costs on integers, `PitFactView` and `SyncPlan` as operators against reference definitions.
3. **Accounts and drafts**: sessions, the device registry, revisions of drafts, the queue of the forked validator.
4. **Proofs**: the same for the modules of 1 to 3, each with its own invariant; for the device a clock that runs ahead of or behind the server's by a constant, under which `DeviceExpiresFirst` and
   `OneExecutor` would hold up to that constant.
