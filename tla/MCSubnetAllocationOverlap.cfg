\* A service that rejects a block used on any network: workers in different
\* tenants pass cidr_in_use for the same block and one of them takes the
\* overlap Conflict and moves on, until the blocks run out.
CONSTANTS
  w1 = w1
  w2 = w2
  Workers <- MCWorkers
  NBlocks = 2
  MaxCalls = 2
  SharedTenant = FALSE
  OverlapScope = "all"

SPECIFICATION Spec

INVARIANT ExhaustedOnlyWhenFull
PROPERTY CallsReturn

\* Every worker stops after MaxCalls calls.
CHECK_DEADLOCK FALSE
