------------------------------ MODULE DataQueue ------------------------------
(***************************************************************************)
(* One row of agent_data_requests, and the statements AgentDataQueue       *)
(* (agents/application/agent-data-queue.ts) runs on it.                    *)
(*                                                                         *)
(*   status     NONE before the first job asks for these data              *)
(*   attempts   failed collections in a row                                *)
(*   available  available_version, the published version that holds what   *)
(*              was collected, 0 for NULL                                  *)
(*   due        next_attempt_at_ms <= now                                  *)
(* A request is identified by its normalised range: equal requests of      *)
(* several jobs are one row.                                               *)
(***************************************************************************)
EXTENDS Integers

CONSTANT MaxCollections     \* the 3 of "attempts >= 3"

ASSUME DataQueueAssumption == MaxCollections \in Nat \ {0}

RequestStatus == {"NONE", "QUEUED", "RUNNING", "BLOCKED", "COMPLETED", "FAILED"}

NoRequest == [status |-> "NONE", attempts |-> 0, available |-> 0, due |-> TRUE]

Ended(r) == r.status \in {"COMPLETED", "FAILED"}

\* request: the same gap is left by the very version that was collected for it.
GapRemains(r, version) == r.status = "COMPLETED" /\ r.available = version

\* request: the upsert.  A request that ended is collected again unless a
\* newer version than the job's already holds the result.
Ask(r, version) ==
    IF r.status = "NONE" THEN [NoRequest EXCEPT !.status = "QUEUED"]
    ELSE IF ~ Ended(r) THEN r
    ELSE [r EXCEPT !.attempts = 0,
                   !.status = IF r.available <= version THEN "QUEUED" ELSE @]

Collectable(r) == r.status = "QUEUED" /\ r.due

Begin(r) == [r EXCEPT !.status = "RUNNING"]

\* The collected data are in the published version.
Completed(r, version) == [r EXCEPT !.status = "COMPLETED", !.available = version]

(* The ways a collection ends without its data: an error (an attempt is    *)
(* used up), a scheduled retry or an exhausted quota (wait, no attempt),   *)
(* and a provider that is blocked for good.                                *)
Failure == {"error", "later", "blocked"}

\* Mutant: a failing collection is retried without limit.
FailedForever(r, attempts, how) ==
    CASE how = "later"   -> [r EXCEPT !.status = "QUEUED", !.due = FALSE]
      [] how = "blocked" -> [r EXCEPT !.status = "BLOCKED", !.due = FALSE]
      [] how = "error"   -> [r EXCEPT !.status = "QUEUED", !.due = FALSE]

\* The catch branch of runNext; attempts is what the row said at the start.
Failed(r, attempts, how) ==
    CASE how = "later"   -> [r EXCEPT !.status = "QUEUED", !.attempts = attempts,
                                      !.due = FALSE]
      [] how = "blocked" -> [r EXCEPT !.status = "BLOCKED", !.attempts = attempts,
                                      !.due = FALSE]
      [] how = "error"   ->
            [r EXCEPT !.attempts = attempts + 1, !.due = FALSE,
                      !.status = IF attempts + 1 >= MaxCollections
                                 THEN "FAILED" ELSE "QUEUED"]

\* recover
RecoverRequest(r) == IF r.status = "RUNNING" THEN [r EXCEPT !.status = "QUEUED"] ELSE r
=============================================================================
