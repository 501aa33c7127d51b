------------------------ MODULE MCComputeScenarioLive ------------------------
(* Model values for the liveness run of ComputeScenario: three            *)
(* identifiers give a server with an attached volume and a snapshot, or a *)
(* security group with its rules and a server in it.                      *)
EXTENDS ComputeScenario, TLC

CONSTANTS r1, r2, r3

MCRes == {r1, r2, r3}

=============================================================================
