--------------------------- MODULE MCAgentSystem ----------------------------
(* Instances of AgentSystem for TLC. *)
EXTENDS AgentSystem, TLC

CONSTANTS j1, local, a1, a2, none

MCJobs == {j1}
MCOneDevice == {local, a1}
=============================================================================
