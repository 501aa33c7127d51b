\* Containers and objects; listings and the container database lag behind
\* object deletes.
CONSTANTS
  r1 = r1  r2 = r2  r3 = r3
  Res <- MCRes
  NoRes = NoRes
SPECIFICATION SwiftSpec
SYMMETRY Symmetry
INVARIANT NotFoundAbsorbed
INVARIANT CleanTeardown
\* The test stops once its cleanups have run (phase "done").
CHECK_DEADLOCK FALSE
