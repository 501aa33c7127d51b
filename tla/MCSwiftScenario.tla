-------------------------- MODULE MCSwiftScenario --------------------------
(* Model values for SwiftScenario: three identifiers give a container     *)
(* with two objects, or two containers and an object.                     *)
EXTENDS SwiftScenario, TLC

CONSTANTS r1, r2, r3

MCRes == {r1, r2, r3}

\* Identifiers are interchangeable.
Symmetry == Permutations(MCRes)

=============================================================================
