------------------------- MODULE MCNetworkScenario -------------------------
(* Model values for NetworkScenario: four identifiers are enough for a    *)
(* network with its router and subnet and a server or port on it.       *)
EXTENDS NetworkScenario, TLC

CONSTANTS r1, r2, r3, r4

MCRes == {r1, r2, r3, r4}

\* Identifiers are interchangeable: which one a service hands out is
\* irrelevant to every property.
Symmetry == Permutations(MCRes)

=============================================================================
