-------------------------- MODULE MCBacktestLease ---------------------------
(* Instances of BacktestLease for TLC. *)
EXTENDS BacktestLease, TLC

CONSTANTS j1, j2, local, a1, none

MCJobs == {j1, j2}
MCOneJob == {j1}
MCAgents == {local, a1}
=============================================================================
