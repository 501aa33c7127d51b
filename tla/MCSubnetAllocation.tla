------------------------ MODULE MCSubnetAllocation ------------------------
(* Two workers, two blocks, two calls each: enough for both workers to   *)
(* race for the same block and for one call to run out of blocks.        *)
EXTENDS SubnetAllocation, TLC

CONSTANTS w1, w2

MCWorkers == {w1, w2}

=============================================================================
