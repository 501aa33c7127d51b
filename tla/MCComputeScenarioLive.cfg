\* Compute factories with both wait_on_delete choices, checked for the
\* safety properties and teardown termination together.  No symmetry: it
\* is not sound for liveness checking.
CONSTANTS
  r1 = r1  r2 = r2  r3 = r3
  Res <- MCRes
  NoRes = NoRes
  ServerWaitOnDelete = {TRUE, FALSE}
  VolumeWaitOnDelete = {TRUE, FALSE}
SPECIFICATION ComputeFairSpec
INVARIANT TypeOK
INVARIANT WaitOnlyAfterDelete
INVARIANT CleanTeardown
INVARIANT LeftDeletingOnlyAfterTimeout
PROPERTY TeardownCompletes
\* The test stops once its cleanups have run (phase "done").
CHECK_DEADLOCK FALSE
