---------------------------- MODULE MCPreparation ----------------------------
(* Instances of Preparation for TLC. *)
EXTENDS Preparation, TLC

CONSTANTS j1, j2, q1, local, a1, none

MCOneJob == {j1}
MCTwoJobs == {j1, j2}
MCOneRequest == {q1}
MCLocalOnly == {local}
MCAgents == {local, a1}

\* Every job has the same input.
MCSameInput == [j \in Jobs |-> 1]

\* Every job has an input of its own.
MCOwnInput == [j \in Jobs |-> j]
=============================================================================
