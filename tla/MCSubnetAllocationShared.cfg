\* Workers sharing one tenant (tenant isolation off) on a service that
\* allows overlapping blocks on different networks.
CONSTANTS
  w1 = w1
  w2 = w2
  Workers <- MCWorkers
  NBlocks = 2
  MaxCalls = 2
  SharedTenant = TRUE
  OverlapScope = "network"

SPECIFICATION Spec

INVARIANT UniqueBlockPerTenant

\* Every worker stops after MaxCalls calls.
CHECK_DEADLOCK FALSE
