------------------------- MODULE MCComputeScenario -------------------------
(* Model values for ComputeScenario: four identifiers are enough for a    *)
(* server, a volume attached to it, a security group with its rules.      *)
EXTENDS ComputeScenario, TLC

CONSTANTS r1, r2, r3, r4

MCRes == {r1, r2, r3, r4}

\* Identifiers are interchangeable: which one a service hands out is
\* irrelevant to every property.
Symmetry == Permutations(MCRes)

=============================================================================
