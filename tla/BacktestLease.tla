--------------------------- MODULE BacktestLease ----------------------------
(***************************************************************************)
(* The server's side of a leased backtest: BacktestLeaseService, JobQueue, *)
(* JobOrchestrator, the result route and the forked import child, over the *)
(* durable table backtest_jobs.                                            *)
(*                                                                         *)
(* Agents are left free: a message about any lease ever granted may arrive *)
(* at any time and any number of times, which covers lost, delayed,        *)
(* duplicated and reordered messages, restarts of the agent and answers    *)
(* that cross a timeout.  Agents that follow client.ts are in AgentSystem. *)
(*                                                                         *)
(* The main process runs its handlers one at a time, but it is not alone:  *)
(* the import child is another process on the same database.  A handler    *)
(* that reads and then writes is two steps, and the child may commit       *)
(* between them (the variable "main" says what was read).                  *)
(***************************************************************************)
EXTENDS JobQueue, FiniteSets

CONSTANTS
    Jobs,           \* the jobs a user may submit
    Agents,         \* the devices, and the executor inside the server
    Local,          \* the executor inside the server (LOCAL_AGENT_ID)
    LeaseTicks,     \* AGENT_LEASE_MS in ticks of the 30 s renewal timer
    TransferTicks,  \* ARTIFACT_TRANSFER_LEASE_MS in the same ticks
    MaxAttempts,    \* bound of the model: claims of one job
    MaxUploads      \* bound of the model: uploads in progress at a time

ASSUME BacktestLeaseAssumption ==
    /\ Local \in Agents
    /\ NoAgent \notin Agents
    /\ LeaseTicks \in Nat \ {0}
    /\ TransferTicks \in Nat
    /\ TransferTicks >= LeaseTicks
    /\ MaxAttempts \in Nat
    /\ MaxUploads \in Nat

VARIABLES
    rows,       \* the table backtest_jobs
    issued,     \* issued[j]: tokens generated for j, all different
    granted,    \* every lease that was ever sent to an agent
    uploads,    \* result uploads the server (or an orphaned child) works on
    up,         \* the main process is running
    main        \* what the main process has read and not yet acted on

vars == <<rows, issued, granted, uploads, up, main>>

Lease == [job : Jobs, attempt : 1..MaxAttempts, token : 1..MaxAttempts,
          agent : Agents]

\* receiving: the body is being read; importing: the child has opened the
\* database; orphan: the same child after its parent died.
Stage == {"receiving", "importing", "orphan"}

\* renewed: the timer of the route has had its turn in this tick.  missed, a
\* history variable: how many renewals in a row found the database locked.
Upload == [lease : Lease, stage : Stage, live : BOOLEAN, renewed : BOOLEAN,
           missed : 0..LeaseTicks]

Seen == [job : Jobs, status : Status, attempt : 0..MaxAttempts, failures : 0..MaxFailures]

Idle == [at |-> "idle", seen |-> {}]

MaxTtl == TransferTicks

Row == [status : Status, attempt : 0..MaxAttempts, failures : 0..MaxFailures,
        token : 0..MaxAttempts, ttl : Expired..MaxTtl,
        agent : Agents \cup {NoAgent}, result : 0..MaxAttempts]

TypeOK ==
    /\ rows \in [Jobs -> Row]
    /\ issued \in [Jobs -> 0..MaxAttempts]
    /\ granted \subseteq Lease
    /\ uploads \subseteq Upload
    /\ up \in BOOLEAN
    /\ main \in [at : {"idle", "sweep", "cancel"}, seen : SUBSET Seen]

Snapshot(j) == [job |-> j, status |-> rows[j].status,
                attempt |-> rows[j].attempt, failures |-> rows[j].failures]

SetRow(j, r) == rows' = [rows EXCEPT ![j] = r]

\* A handler of the main process starts.
Ready == up /\ main = Idle

\* AgentCoordinator.ownsBacktest
Owns(l) == rows[l.job].agent = l.agent

(* The server is down at first, over a table that may hold jobs a server   *)
(* without leases left active.                                             *)
Legacy(s) == [Blank EXCEPT !.status = s]

Init ==
    /\ rows \in [Jobs -> {Blank} \cup {Legacy(s) : s \in Active}]
    /\ issued = [j \in Jobs |-> 0]
    /\ granted = {}
    /\ uploads = {}
    /\ up = FALSE
    /\ main = Idle

-----------------------------------------------------------------------------
(* The user.                                                               *)

SubmitJob(j) ==
    /\ Ready
    /\ rows[j].status = "NONE"
    /\ SetRow(j, Enqueue(rows[j]))
    /\ UNCHANGED <<issued, granted, uploads, up, main>>

\* cancel() reads the job ...
CancelRead(j) ==
    /\ Ready
    /\ rows[j].status \in Cancellable
    /\ main' = [at |-> "cancel", seen |-> {Snapshot(j)}]
    /\ UNCHANGED <<rows, issued, granted, uploads, up>>

\* ... and setStatus writes only where the status is still the one it read.
CancelWrite ==
    /\ up
    /\ main.at = "cancel"
    /\ \E s \in main.seen :
         IF rows[s.job].status = s.status
         THEN SetRow(s.job, [rows[s.job] EXCEPT !.status = CancelStatus(s.status)])
         ELSE UNCHANGED rows
    /\ main' = Idle
    /\ UNCHANGED <<issued, granted, uploads, up>>

DeleteJob(j) ==
    /\ Ready
    /\ rows[j].status \in Terminal
    /\ SetRow(j, Delete(rows[j]))
    /\ UNCHANGED <<issued, granted, uploads, up, main>>

-----------------------------------------------------------------------------
(* Leases.                                                                 *)

NewLease(a, j) == [job |-> j, attempt |-> rows'[j].attempt,
                   token |-> issued'[j], agent |-> a]

\* claimNextLease; which queued job an agent is given is left open here.
ClaimJob(a, j) ==
    /\ Ready
    /\ Claimable(rows[j])
    /\ issued[j] < MaxAttempts
    /\ issued' = [issued EXCEPT ![j] = @ + 1]
    /\ SetRow(j, Claim(rows[j], a, issued'[j], LeaseTicks))
    /\ granted' = granted \cup {NewLease(a, j)}
    /\ UNCHANGED <<uploads, up, main>>

HeartbeatLease(l) ==
    /\ Ready
    /\ Owns(l)
    /\ CanHeartbeat(rows[l.job], l)
    /\ SetRow(l.job, Heartbeat(rows[l.job], LeaseTicks))
    /\ UNCHANGED <<issued, granted, uploads, up, main>>

FinishLease(l, outcome) ==
    /\ Ready
    /\ Owns(l)
    /\ CanFinish(rows[l.job], l)
    /\ SetRow(l.job, Finish(rows[l.job], outcome))
    /\ UNCHANGED <<issued, granted, uploads, up, main>>

\* Only the executor inside the server may hand a job back before it starts.
DeferLease(l) ==
    /\ Ready
    /\ l.agent = Local
    /\ Owns(l)
    /\ CanDefer(rows[l.job], l)
    /\ SetRow(l.job, HandBack(rows[l.job]))
    /\ UNCHANGED <<issued, granted, uploads, up, main>>

\* invalidateClientLeases: the client runs another version (or, for Local,
\* the server has stopped its own executor).
InvalidateClient(a) ==
    /\ Ready
    /\ rows' = [j \in Jobs |-> IF rows[j].agent = a /\ rows[j].status \in Active
                               THEN HandBack(rows[j]) ELSE rows[j]]
    /\ UNCHANGED <<issued, granted, uploads, up, main>>

-----------------------------------------------------------------------------
(* Results.                                                                *)

NewUpload(l) == [lease |-> l, stage |-> "receiving", live |-> FALSE, renewed |-> TRUE,
                 missed |-> 0]

\* The result route reserves the transfer.  The lease of a job being
\* cancelled is extended too, and the upload then refused with 409.
StartUpload(l) ==
    /\ Ready
    /\ Owns(l)
    /\ CanHeartbeat(rows[l.job], l)
    /\ Cardinality(uploads) < MaxUploads
    /\ SetRow(l.job, Heartbeat(rows[l.job], TransferTicks))
    /\ uploads' = IF rows[l.job].status = "CANCELLING" THEN uploads
                  ELSE uploads \cup {NewUpload(l)}
    /\ UNCHANGED <<issued, granted, up, main>>

Advance(u, v) == uploads' = (uploads \ {u}) \cup {v}

\* The import child writes everything in one IMMEDIATE transaction, and for as
\* long as that takes a write of the main process may give up (SQLITE_BUSY).
Locked == \E u \in uploads : u.stage \in {"importing", "orphan"}

\* The renewal timer of the route has its turn for u, once in a tick.  The
\* executor inside the server uploads without such a timer.
RenewalDue(u) == Ready /\ u.stage # "orphan" /\ u.lease.agent # Local /\ ~ u.renewed

\* Mutant: the renewal runs, and renews nothing.
RenewUploadIdle(u) ==
    /\ RenewalDue(u)
    /\ Advance(u, [u EXCEPT !.renewed = TRUE])
    /\ UNCHANGED <<rows, issued, granted, up, main>>

\* The timer calls reserveArtifactTransfer while the upload is received,
\* validated and imported; of a lease that is gone it extends nothing.
RenewUpload(u) ==
    /\ RenewalDue(u)
    /\ \/ /\ CanHeartbeat(rows[u.lease.job], u.lease)
          /\ SetRow(u.lease.job, Heartbeat(rows[u.lease.job], TransferTicks))
          /\ Advance(u, [u EXCEPT !.renewed = TRUE, !.missed = 0])
       \/ /\ ~ CanHeartbeat(rows[u.lease.job], u.lease)
          /\ Advance(u, [u EXCEPT !.renewed = TRUE])
          /\ UNCHANGED rows
    /\ UNCHANGED <<issued, granted, up, main>>

\* It finds the database locked; the error is swallowed and the next turn of
\* the timer tries again.
RenewUploadBusy(u) ==
    /\ RenewalDue(u)
    /\ Locked
    /\ Advance(u, [u EXCEPT !.renewed = TRUE,
                            !.missed = IF @ < LeaseTicks THEN @ + 1 ELSE @])
    /\ UNCHANGED <<rows, issued, granted, up, main>>

\* The child, one at a time, has validated the artifact and reads the clock:
\* live is what lease_expires_at_ms >= nowMs will say.
StartImport(u) ==
    /\ up
    /\ u.stage = "receiving"
    /\ \A v \in uploads : v.stage # "importing"
    /\ Advance(u, [u EXCEPT !.stage = "importing",
                            !.live = LiveLease(rows[u.lease.job], u.lease)])
    /\ UNCHANGED <<rows, issued, granted, up, main>>

\* completeLeasedResult in the child: rows and status in one transaction.
\* Whether the pinned schedule still identifies its symbols is left open.
CommitImport(u) ==
    /\ u.stage \in {"importing", "orphan"}
    /\ \/ /\ CanComplete(rows[u.lease.job], u.lease, u.live)
          /\ \/ SetRow(u.lease.job, Complete(rows[u.lease.job], u.lease))
             \/ SetRow(u.lease.job, RejectIdentity(rows[u.lease.job]))
       \/ /\ ~ CanComplete(rows[u.lease.job], u.lease, u.live)
          /\ UNCHANGED rows
    /\ uploads' = uploads \ {u}
    /\ UNCHANGED <<issued, granted, up, main>>

\* The connection breaks, the artifact is rejected, the child fails, or the
\* server stops and kills it: nothing was committed.
AbortUpload(u) ==
    /\ uploads' = uploads \ {u}
    /\ UNCHANGED <<rows, issued, granted, up, main>>

-----------------------------------------------------------------------------
(* Recovery.                                                               *)

ExpiredRows == {Snapshot(j) : j \in {k \in Jobs : SweepSelects(rows[k])}}

SweepSelect ==
    /\ Ready
    /\ ExpiredRows # {}
    /\ main' = [at |-> "sweep", seen |-> ExpiredRows]
    /\ UNCHANGED <<rows, issued, granted, uploads, up>>

Swept(j) ==
    LET mine == {s \in main.seen : s.job = j /\ CanExpire(rows[j], s)}
    IN  IF mine # {} THEN Expire(rows[j], CHOOSE s \in mine : TRUE) ELSE rows[j]

SweepApply ==
    /\ up
    /\ main.at = "sweep"
    /\ rows' = [j \in Jobs |-> Swept(j)]
    /\ main' = Idle
    /\ UNCHANGED <<issued, granted, uploads, up>>

\* The transaction gives up while a child holds the write lock; the error is
\* swallowed and the next sweep tries again.
SweepBusy ==
    /\ up
    /\ main.at = "sweep"
    /\ Locked
    /\ main' = Idle
    /\ UNCHANGED <<rows, issued, granted, uploads, up>>

\* The main process dies.  A child that is importing may outlive it.
Crash ==
    /\ up
    /\ up' = FALSE
    /\ main' = Idle
    /\ \E survivors \in SUBSET {u \in uploads : u.stage \in {"importing", "orphan"}} :
         uploads' = {[u EXCEPT !.stage = "orphan"] : u \in survivors}
    /\ UNCHANGED <<rows, issued, granted>>

\* JobOrchestrator.start, then BacktestLeaseService.start sweeps at once.
Boot ==
    /\ ~ up
    /\ up' = TRUE
    /\ rows' = [j \in Jobs |-> Interrupt(rows[j])]
    /\ main' = [at |-> "sweep", seen |-> ExpiredRows]
    /\ UNCHANGED <<issued, granted, uploads>>

\* A tick of the clock.  The renewal timer has the period of the tick: while
\* the server runs, it has its turn for every upload in every tick, whether
\* the renewal then succeeds, finds the database locked or finds no lease.
Tick ==
    /\ up => \A u \in uploads : u.renewed \/ u.stage = "orphan" \/ u.lease.agent = Local
    /\ rows' = [j \in Jobs |-> IF rows[j].ttl >= 0 THEN [rows[j] EXCEPT !.ttl = @ - 1]
                               ELSE rows[j]]
    /\ uploads' = {[u EXCEPT !.renewed = FALSE] : u \in uploads}
    /\ rows' # rows \/ uploads' # uploads
    /\ UNCHANGED <<issued, granted, up, main>>

-----------------------------------------------------------------------------
UserNext == \E j \in Jobs : SubmitJob(j) \/ CancelRead(j) \/ DeleteJob(j)

AgentNext ==
    \/ \E a \in Agents, j \in Jobs : ClaimJob(a, j)
    \/ \E l \in granted :
         \/ HeartbeatLease(l)
         \/ \E outcome \in {"FAILED", "CANCELLED"} : FinishLease(l, outcome)
         \/ DeferLease(l)
         \/ StartUpload(l)
    \/ \E a \in Agents : InvalidateClient(a)

ServerNext ==
    \/ CancelWrite \/ SweepSelect \/ SweepApply \/ SweepBusy
    \/ \E u \in uploads :
         \/ RenewUpload(u) \/ RenewUploadBusy(u)
         \/ StartImport(u) \/ CommitImport(u) \/ AbortUpload(u)

Next == UserNext \/ AgentNext \/ ServerNext \/ Crash \/ Boot \/ Tick

Spec == Init /\ [][Next]_vars

(* Due timers and microtasks of the main process get their turn (strong    *)
(* fairness: between two turns the process serves other requests, and the  *)
(* sweep may find the database locked), and a dead server is restarted     *)
(* (Restart=on-failure).  Nothing is assumed of users, agents or the       *)
(* clock.                                                                  *)
Fairness ==
    /\ WF_vars(Boot) /\ WF_vars(CancelWrite)
    /\ SF_vars(SweepSelect) /\ SF_vars(SweepApply)

LiveSpec == Spec /\ Fairness

-----------------------------------------------------------------------------
(* Safety.                                                                 *)

\* A job is COMPLETED exactly when a result is stored for it, and the result
\* was uploaded under the very lease that is recorded as the last attempt
\* (completeLeasedResult stores rows and status in one transaction).
ResultOfLastLease ==
    \A j \in Jobs : /\ rows[j].status = "COMPLETED" <=> rows[j].result # 0
                    /\ rows[j].result \in {0, rows[j].attempt}

\* While the server is up every active job carries a lease some agent was
\* granted, so an expiry can always give it back; no other job carries one.
ActiveIsLeased ==
    \A j \in Jobs :
      IF rows[j].status \in Active /\ (up \/ rows[j].agent # NoAgent)
      THEN [job |-> j, attempt |-> rows[j].attempt, token |-> rows[j].token,
            agent |-> rows[j].agent] \in granted
      ELSE rows[j].token = NoToken

\* A queued job can be claimed: no path puts a job back in the queue with its
\* failures used up, where claimNextLease would never pick it again.
QueuedIsClaimable ==
    \A j \in Jobs : rows[j].status = "QUEUED" =>
        rows[j].failures < MaxFailures /\ rows[j].agent = NoAgent

\* While the server receives or imports a device's result, the lease it came
\* under cannot expire (reserveArtifactTransfer and its 30 s renewal), even
\* though ordinary heartbeats keep shortening it and an import may keep the
\* database locked: only when as many renewals in a row have failed as an
\* ordinary lease has ticks (AGENT_LEASE_MS, three renewals) may it pass.
TransferKeepsLease ==
    \A u \in uploads :
      /\ up /\ u.stage # "orphan" /\ u.lease.agent # Local
      /\ SameLease(rows[u.lease.job], u.lease)
      /\ u.missed < LeaseTicks
      => rows[u.lease.job].ttl >= 0

-----------------------------------------------------------------------------
(* The inductive invariant: the properties above and what they rest on.    *)

\* A token belongs to one attempt, and no lease is younger than its row.
TokensAreFresh ==
    /\ \A j \in Jobs : rows[j].attempt = issued[j]
    /\ \A l \in granted : l.token = l.attempt /\ l.attempt <= issued[l.job]

\* The expiry is set exactly as long as the token is.
ExpiryBelongsToToken ==
    \A j \in Jobs : rows[j].token = NoToken => rows[j].ttl = Expired

\* A job that may still run has not used up its failures.
RetriesRemain ==
    \A j \in Jobs : rows[j].status \in {"NONE", "QUEUED"} \cup Active
                    => rows[j].failures < MaxFailures

\* A job that was never given to an agent has none.
NewJobIsUnowned ==
    \A j \in Jobs : rows[j].status = "NONE" => rows[j].agent = NoAgent

\* What the main process read before a write is stale only in jobs that the
\* import child has finished meanwhile.
SeenIsCurrent ==
    /\ main.at # "idle" => up
    /\ main.at = "idle" => main.seen = {}
    /\ main.at = "cancel" => \A s \in main.seen : s.status \in Cancellable
    /\ main.at = "sweep" => \A s \in main.seen :
         rows[s.job].status \in Active => Snapshot(s.job) = s

UploadsAreGranted ==
    \A u \in uploads : u.lease \in granted /\ (~ up => u.stage = "orphan")

\* What is left of a transfer's lease: a tick less for every renewal missed,
\* and for the tick in which the timer has not had its turn yet.
RenewalOutlivesTick ==
    \A u \in uploads :
      /\ up /\ u.stage # "orphan" /\ u.lease.agent # Local
      /\ SameLease(rows[u.lease.job], u.lease)
      /\ u.missed < LeaseTicks
      => rows[u.lease.job].ttl >= LeaseTicks - u.missed - (IF u.renewed THEN 0 ELSE 1)

IInv ==
    /\ TypeOK
    /\ ResultOfLastLease
    /\ ActiveIsLeased
    /\ QueuedIsClaimable
    /\ TransferKeepsLease
    /\ TokensAreFresh
    /\ ExpiryBelongsToToken
    /\ RetriesRemain
    /\ NewJobIsUnowned
    /\ SeenIsCurrent
    /\ UploadsAreGranted
    /\ RenewalOutlivesTick

-----------------------------------------------------------------------------
(* Steps.                                                                  *)

\* Once a cancellation is accepted the job can only become CANCELLED: not a
\* late result, not a failure report, not the sweep, not a heartbeat.
CancelWins ==
    [][\A j \in Jobs : rows[j].status = "CANCELLING" /\ rows[j].agent # NoAgent
         => rows'[j].status \in {"CANCELLING", "CANCELLED"}]_vars

\* A lease that expired or was released never comes back to life: the token
\* is not valid again until a claim starts another attempt.
LeaseNeverRevives ==
    [][\A l \in granted :
         ~ LiveLease(rows[l.job], l) => ~ LiveLease(rows'[l.job], l)]_vars

\* A terminal job changes no more, whatever arrives, except by being deleted.
TerminalIsFinal ==
    [][\A j \in Jobs : rows[j].status \in Terminal =>
         rows'[j] = rows[j] \/ rows'[j].status = "DELETED"]_vars

\* Retries are used up by expired leases only: not by handing a job back, an
\* update of the agent or a restart ("업데이트는 계산 실패로 세지 않는다").
OnlyExpiryCountsAsFailure ==
    [][\A j \in Jobs : rows'[j].failures # rows[j].failures =>
         /\ rows'[j].failures = rows[j].failures + 1
         /\ rows[j].token # NoToken /\ rows[j].ttl = Expired]_vars

\* A crash and the recovery after it leave every lease alone, whatever state
\* its job is in: the agent goes on computing.
RestartKeepsLeases ==
    [][up' # up => \A l \in granted : SameLease(rows[l.job], l)
         => rows'[l.job] = rows[l.job]]_vars

-----------------------------------------------------------------------------
(* Liveness.                                                               *)

LeasedAs(j, n) == rows[j].status \in Active /\ rows[j].attempt = n

\* An expired lease is given back, although a sweep may find the database
\* locked by an import, may be overtaken by one, or may die with the server.
ExpiredLeaseIsGivenBack ==
    \A j \in Jobs, n \in 0..MaxAttempts :
      LeasedAs(j, n) /\ rows[j].ttl = Expired ~> ~ LeasedAs(j, n)

-----------------------------------------------------------------------------
(* BacktestLease implements BacktestJob.                                   *)

PhaseOf(r) ==
    CASE r.status = "NONE"        -> "none"
      [] r.status = "QUEUED"      -> "waiting"
      [] r.status \in Active /\ r.agent = NoAgent -> "orphaned"
      [] r.status \in {"STARTING", "RUNNING"} /\ r.agent # NoAgent -> "executing"
      [] r.status = "CANCELLING" /\ r.agent # NoAgent -> "cancelling"
      [] r.status = "COMPLETED"   -> "completed"
      [] r.status = "FAILED"      -> "failed"
      [] r.status = "CANCELLED"   -> "cancelled"
      [] r.status = "INTERRUPTED" -> "interrupted"
      [] r.status = "DELETED"     -> "deleted"

Abstraction ==
    [j \in Jobs |-> [phase |-> PhaseOf(rows[j]), run |-> rows[j].attempt,
                     result |-> rows[j].result]]

Promise == INSTANCE BacktestJob WITH job <- Abstraction

\* What the user of the queue is promised (BacktestJob) holds of the leases.
ImplementsBacktestJob == Promise!Spec
=============================================================================
