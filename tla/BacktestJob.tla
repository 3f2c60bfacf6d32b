----------------------------- MODULE BacktestJob ----------------------------
(***************************************************************************)
(* What a user of the backtest queue is promised about a job, with nothing *)
(* of leases, tokens, agents, uploads or restarts.                         *)
(*                                                                         *)
(* A job waits, is executed by one run at a time (run numbers grow), may   *)
(* be handed back and run again, and ends in exactly one final phase.  A   *)
(* result belongs to the run that was executing when the job completed;    *)
(* once a cancellation is accepted the only way on is "cancelled".         *)
(***************************************************************************)
EXTENDS Integers

CONSTANT Jobs

VARIABLE job        \* job[j].phase, job[j].run, job[j].result

Phase == {"none", "waiting", "executing", "cancelling", "orphaned",
          "completed", "failed", "cancelled", "interrupted", "deleted"}

Final == {"completed", "failed", "cancelled", "interrupted"}

Fresh(phase) == [phase |-> phase, run |-> 0, result |-> 0]

\* Jobs left active by a server that did not lease them are "orphaned".
Init == job \in [Jobs -> {Fresh("none"), Fresh("orphaned")}]

(* x -> y : the moves of one job.                                          *)
To(x, y, phase) == y = [x EXCEPT !.phase = phase]

Submit(x, y)        == x.phase = "none" /\ To(x, y, "waiting")
Execute(x, y)       == /\ x.phase = "waiting"
                       /\ y = [phase |-> "executing", run |-> x.run + 1, result |-> x.result]
HandBackMove(x, y)  == x.phase = "executing" /\ To(x, y, "waiting")
AskToCancel(x, y)   == x.phase = "executing" /\ To(x, y, "cancelling")
Cancelled(x, y)     == /\ x.phase \in {"waiting", "executing", "cancelling"}
                       /\ To(x, y, "cancelled")
Failed(x, y)        == x.phase = "executing" /\ To(x, y, "failed")
Completed(x, y)     == /\ x.phase = "executing"
                       /\ y = [phase |-> "completed", run |-> x.run, result |-> x.run]
Interrupted(x, y)   == x.phase = "orphaned" /\ To(x, y, "interrupted")
Deleted(x, y)       == /\ x.phase \in Final
                       /\ y = [phase |-> "deleted", run |-> x.run, result |-> 0]

Move(x, y) ==
    \/ Submit(x, y)    \/ Execute(x, y)   \/ HandBackMove(x, y)
    \/ AskToCancel(x, y) \/ Cancelled(x, y) \/ Failed(x, y)
    \/ Completed(x, y) \/ Interrupted(x, y) \/ Deleted(x, y)

(* One step may move several jobs: the sweep, the recovery at boot and the *)
(* invalidation of a client each write many rows in one transaction.       *)
Next ==
    /\ job' \in [Jobs -> [phase : Phase, run : Nat, result : Nat]]
    /\ \A j \in Jobs : job'[j] = job[j] \/ Move(job[j], job'[j])

Spec == Init /\ [][Next]_job
=============================================================================
