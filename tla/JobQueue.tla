------------------------------ MODULE JobQueue ------------------------------
(***************************************************************************)
(* One row of the table backtest_jobs and the SQL statements that          *)
(* JobQueue (backtest/application/job-queue.ts) runs on it.  A statement   *)
(* "UPDATE ... SET s WHERE w" is a pair of operators: the predicate w over *)
(* the row, and the row after s.  Modules with state (BacktestLease,       *)
(* AgentSystem) say who runs which statement and when.                     *)
(*                                                                         *)
(* A row keeps the columns the state machine depends on:                   *)
(*   status    the job status, NONE before the insert, DELETED after it    *)
(*   attempt   how many times the job was leased                           *)
(*   failures  lease_failures, the leases lost by expiry                   *)
(*   token     lease_token_hash, NoToken for NULL                          *)
(*   ttl       lease_expires_at_ms - now, in ticks of the renewal timer;   *)
(*             Expired once the expiry lies in the past (or is NULL)       *)
(*   agent     agent_id, NoAgent for NULL                                  *)
(*   result    the attempt whose result was imported into backtest_runs    *)
(*             (one row per job: job_id is UNIQUE), 0 when there is none   *)
(* Progress, activity, audit and timestamp columns are left out.           *)
(***************************************************************************)
EXTENDS Integers

CONSTANTS
    MaxFailures,    \* AGENT_MAX_ATTEMPTS
    NoAgent         \* NULL in agent_id

ASSUME MaxFailuresAssumption == MaxFailures \in Nat \ {0}

NoToken == 0
Expired == -1

Active   == {"STARTING", "RUNNING", "CANCELLING"}
Terminal == {"CANCELLED", "COMPLETED", "FAILED", "INTERRUPTED"}
Status   == {"NONE", "QUEUED", "DELETED"} \cup Active \cup Terminal

Blank == [status |-> "NONE", attempt |-> 0, failures |-> 0, token |-> NoToken,
          ttl |-> Expired, agent |-> NoAgent, result |-> 0]

-----------------------------------------------------------------------------
(* The conditions the WHERE clauses share.  A lease l is what a claim      *)
(* handed to an agent: the job, the attempt, the token and the agent.      *)

SameLease(r, l) == r.attempt = l.attempt /\ r.token = l.token

\* ... AND attempt = ? AND lease_token_hash = ? AND lease_expires_at_ms >= ?
LiveLease(r, l) == SameLease(r, l) /\ r.ttl >= 0

\* SET status = s, lease_token_hash = NULL, lease_expires_at_ms = NULL
Release(r, s) == [r EXCEPT !.status = s, !.token = NoToken, !.ttl = Expired]

ReleaseOwner(r, s) == [Release(r, s) EXCEPT !.agent = NoAgent]

-----------------------------------------------------------------------------
Enqueue(r) == [r EXCEPT !.status = "QUEUED"]

Claimable(r) == r.status = "QUEUED" /\ r.failures < MaxFailures

Claim(r, a, token, ttl) ==
    [r EXCEPT !.status = "STARTING", !.agent = a, !.attempt = @ + 1,
              !.token = token, !.ttl = ttl]

CanHeartbeat(r, l) == LiveLease(r, l) /\ r.status \in Active

\* heartbeatLease: the first heartbeat is what makes the job RUNNING.
Heartbeat(r, ttl) ==
    [r EXCEPT !.status = IF @ = "STARTING" THEN "RUNNING" ELSE @, !.ttl = ttl]

CanFinish(r, l) == LiveLease(r, l) /\ r.status \in Active

\* finishLease: a cancellation in progress wins over the agent's outcome.
Finish(r, outcome) ==
    Release(r, IF r.status = "CANCELLING" THEN "CANCELLED" ELSE outcome)

CanDefer(r, l) == LiveLease(r, l) /\ r.status \in {"STARTING", "CANCELLING"}

\* deferLease and the UPDATE of invalidateClientLeases: back to the queue
\* without counting a failure.
HandBack(r) ==
    ReleaseOwner(r, IF r.status = "CANCELLING" THEN "CANCELLED" ELSE "QUEUED")

-----------------------------------------------------------------------------
(* completeLeasedResult, one IMMEDIATE transaction.  "live" stands for the *)
(* test lease_expires_at_ms >= nowMs with the caller's nowMs.              *)

\* Mutant: the transaction compares neither the attempt nor the token.
CanCompleteAnyLease(r, l, live) == live /\ r.status \in {"STARTING", "RUNNING"}

CanComplete(r, l, live) ==
    SameLease(r, l) /\ live /\ r.status \in {"STARTING", "RUNNING"}

\* The imported rows are those of the uploaded artifact.
Complete(r, l) == [Release(r, "COMPLETED") EXCEPT !.result = l.attempt]

RejectIdentity(r) == Release(r, "FAILED")

-----------------------------------------------------------------------------
(* recoverExpiredLeases: the SELECT takes a snapshot s of the row, the     *)
(* transaction after it writes what follows from s if the row still        *)
(* qualifies.                                                              *)

\* Mutant: the sweep leaves jobs that are being cancelled to their agents.
SweepSelectsRunning(r) ==
    r.agent # NoAgent /\ r.status \in {"STARTING", "RUNNING"} /\ r.ttl = Expired

SweepSelects(r) == r.agent # NoAgent /\ r.status \in Active /\ r.ttl = Expired

\* Mutant: the UPDATE trusts the SELECT and checks nothing again.
CanExpireBlindly(r, s) == TRUE

CanExpire(r, s) == r.attempt = s.attempt /\ r.ttl = Expired /\ r.status \in Active

ExpiryStatus(s) ==
    IF s.status = "CANCELLING" THEN "CANCELLED"
    ELSE IF s.failures + 1 >= MaxFailures THEN "FAILED" ELSE "QUEUED"

Expire(r, s) ==
    LET released == [Release(r, ExpiryStatus(s)) EXCEPT !.failures = @ + 1]
    IN  IF ExpiryStatus(s) = "QUEUED" THEN [released EXCEPT !.agent = NoAgent]
                                      ELSE released

-----------------------------------------------------------------------------
\* JobOrchestrator.cancel: the status it writes, given the one it read.
CancelStatus(seen) == IF seen = "QUEUED" THEN "CANCELLED" ELSE "CANCELLING"

Cancellable == {"QUEUED", "STARTING", "RUNNING"}

IsUnleased(r) == r.status \in Active /\ r.agent = NoAgent

\* recoverUnleasedJobs
Interrupt(r) == IF IsUnleased(r) THEN [r EXCEPT !.status = "INTERRUPTED"] ELSE r

\* deleteJob: the row goes, and backtest_runs with it (ON DELETE CASCADE).
Delete(r) == [r EXCEPT !.status = "DELETED", !.result = 0]
=============================================================================
