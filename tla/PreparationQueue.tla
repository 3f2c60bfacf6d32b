--------------------------- MODULE PreparationQueue --------------------------
(***************************************************************************)
(* One row of backtest_preparation_jobs with its row of                    *)
(* agent_preparation_leases, and the SQL statements that                   *)
(* AgentPreparationQueue (agents/application/agent-preparation-queue.ts)   *)
(* and, on the server, BacktestPreparationOrchestrator run on them.  As in *)
(* JobQueue a statement is a predicate over the row and the row after it;  *)
(* Preparation says who runs which statement and when.                     *)
(*                                                                         *)
(*   status     NONE before the insert, DELETED after references.collect   *)
(*   discovery  phase = FILING_DISCOVERY: the job waits for the check of   *)
(*              the provider's filings, not for a collection               *)
(*   cancel     cancel_requested                                           *)
(*   attempt    how often the job was leased; 0: there is no lease row     *)
(*   failures   leases lost by expiry                                      *)
(*   token      lease_token_hash, NoToken for NULL                         *)
(*   ttl        ticks left of the lease, Expired when it lies in the past  *)
(*   client     client_id of the lease row                                 *)
(*   version    dataset_version of the lease row                           *)
(*   result     the attempt whose preview is stored, 0 for none            *)
(* Progress, timestamps and error texts are left out.                      *)
(***************************************************************************)
EXTENDS Integers

CONSTANTS
    MaxFailures,    \* AGENT_MAX_ATTEMPTS
    NoAgent

ASSUME PreparationQueueAssumption == MaxFailures \in Nat \ {0}

NoToken == 0
Expired == -1

Waiting  == {"WAITING_DATA", "WAITING_DAILY_QUOTA"}
Active   == {"QUEUED", "RUNNING"} \cup Waiting
Terminal == {"COMPLETED", "FAILED", "CANCELLED"}
Status   == {"NONE", "DELETED"} \cup Active \cup Terminal

Blank == [status |-> "NONE", discovery |-> FALSE, cancel |-> FALSE,
          attempt |-> 0, failures |-> 0, token |-> NoToken, ttl |-> Expired,
          client |-> NoAgent, version |-> 0, result |-> 0]

-----------------------------------------------------------------------------
\* start: the insert, with or without a check of the filings before it.
Insert(r, check) ==
    [r EXCEPT !.status = IF check THEN "WAITING_DATA" ELSE "QUEUED",
              !.discovery = check]

\* The check of the filings has ended (persistAndEmit on WAITING_DATA).
CanEndCheck(r) == r.status = "WAITING_DATA"

EndCheck(r, ok) ==
    IF ~ ok THEN [r EXCEPT !.status = "FAILED"]
    ELSE IF r.cancel \/ ~ r.discovery THEN r
    ELSE [r EXCEPT !.status = "QUEUED", !.discovery = FALSE]

\* cancel: a job that waits ends at once, one that may run is only marked.
Cancel(r) ==
    IF r.status \in Waiting THEN [r EXCEPT !.status = "CANCELLED", !.cancel = TRUE]
    ELSE IF r.status \in {"QUEUED", "RUNNING"} THEN [r EXCEPT !.cancel = TRUE]
    ELSE r

\* recoverOrphaned on the server.
Recover(r) ==
    IF r.status = "WAITING_DATA" /\ r.discovery THEN [r EXCEPT !.status = "FAILED"]
    ELSE IF r.status = "WAITING_DAILY_QUOTA" THEN [r EXCEPT !.status = "QUEUED"]
    ELSE r

-----------------------------------------------------------------------------
Release(r, s) == [r EXCEPT !.status = s, !.token = NoToken, !.ttl = Expired]

Claimable(r) == r.status = "QUEUED" /\ ~ r.cancel

Claim(r, a, v, ttl) ==
    [r EXCEPT !.status = "RUNNING", !.client = a, !.attempt = @ + 1,
              !.token = r.attempt + 1, !.ttl = ttl, !.version = v, !.result = 0]

SameLease(r, l) == r.client = l.client /\ r.attempt = l.attempt /\ r.token = l.token

Owns(r, l) == SameLease(r, l) /\ r.status = "RUNNING" /\ r.ttl >= 0

Heartbeat(r, ttl) == [r EXCEPT !.ttl = ttl]

WaitForData(r) == Release(r, "WAITING_DATA")

\* Mutant: any result of a live lease is accepted.
FinishAny(r, outcome, current) ==
    LET end == IF r.cancel THEN "CANCELLED" ELSE outcome
    IN  [r EXCEPT !.status = end, !.result = IF end = "COMPLETED" THEN r.attempt ELSE 0]

\* finish, given whether the data are still those the lease was computed on.
\* The token stays in the row: a result sent again is recognised by it, and
\* changes nothing.
Finish(r, outcome, current) ==
    LET end == IF r.cancel THEN "CANCELLED" ELSE outcome
    IN  IF end = "COMPLETED" /\ ~ current THEN Release(r, "QUEUED")
        ELSE [r EXCEPT !.status = end,
                       !.result = IF end = "COMPLETED" THEN r.attempt ELSE 0]

\* Mutant: the sweep looks at running jobs only.
SweepSelectsRunning(r) == r.status = "RUNNING" /\ r.ttl = Expired

SweepSelects(r) ==
    \/ r.status = "RUNNING" /\ r.ttl = Expired
    \/ r.status \in {"QUEUED"} \cup Waiting /\ r.cancel

\* The failures are counted in the lease row, if there is one.
Swept(r) ==
    LET lost == r.failures + 1
        end  == IF r.cancel THEN "CANCELLED"
                ELSE IF lost >= MaxFailures THEN "FAILED" ELSE "QUEUED"
    IN  [Release(r, end) EXCEPT !.failures = IF r.attempt > 0 THEN lost ELSE @]

\* resume, guarded by WAITING_DATA.
Resume(r, failed) ==
    IF r.status # "WAITING_DATA" THEN r
    ELSE [r EXCEPT !.status = IF r.cancel THEN "CANCELLED"
                              ELSE IF failed THEN "FAILED" ELSE "QUEUED"]

\* invalidateClientLeases
HandBack(r) == Release(r, IF r.cancel THEN "CANCELLED" ELSE "QUEUED")
=============================================================================
