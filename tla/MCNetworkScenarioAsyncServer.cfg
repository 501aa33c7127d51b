\* Servers created with wait_on_delete=False on the test's networks.
CONSTANTS
  r1 = r1  r2 = r2  r3 = r3  r4 = r4
  Res <- MCRes
  NoRes = NoRes
  ServerWaitOnDelete = {FALSE}
  VolumeWaitOnDelete = {TRUE}
  PublicRouter = TRUE
  EarlyChecksFail = FALSE
SPECIFICATION NetworkSpec
SYMMETRY Symmetry
INVARIANT NoConflictUnlessTimeout
CHECK_DEADLOCK FALSE
