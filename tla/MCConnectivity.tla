--------------------------- MODULE MCConnectivity ---------------------------
(* Connectivity for TLC: two addresses as model values, and the poll's     *)
(* refinement stated as a formula.                                         *)
EXTENDS Connectivity

CONSTANTS a1, a2

MCAddrs == {a1, a2}

PollBudgetSpec == Poll!Spec

=============================================================================
