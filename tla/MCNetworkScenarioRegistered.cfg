\* The assertions that precede addCleanup in _create_network,
\* _create_subnet, _create_router, the security group, pool and vip
\* factories may fail.
CONSTANTS
  r1 = r1  r2 = r2  r3 = r3  r4 = r4
  Res <- MCRes
  NoRes = NoRes
  ServerWaitOnDelete = {TRUE}
  VolumeWaitOnDelete = {TRUE}
  PublicRouter = FALSE
  EarlyChecksFail = TRUE
SPECIFICATION NetworkSpec
SYMMETRY Symmetry
PROPERTY RegisteredOnExit
CHECK_DEADLOCK FALSE
