\* Neutron factories with synchronous server deletes and a tenant router.
CONSTANTS
  r1 = r1  r2 = r2  r3 = r3  r4 = r4
  Res <- MCRes
  NoRes = NoRes
  ServerWaitOnDelete = {TRUE}
  VolumeWaitOnDelete = {TRUE}
  PublicRouter = FALSE
  EarlyChecksFail = FALSE
SPECIFICATION NetworkSpec
SYMMETRY Symmetry
INVARIANT NoConflictUnlessTimeout
INVARIANT CleanTeardown
\* The test stops once its cleanups have run (phase "done").
CHECK_DEADLOCK FALSE
