\* nova_volume_attach registers no detach: a volume created after its
\* server is deleted first by LIFO while still attached.
CONSTANTS
  r1 = r1  r2 = r2  r3 = r3  r4 = r4
  Res <- MCRes
  NoRes = NoRes
  ServerWaitOnDelete = {TRUE}
  VolumeWaitOnDelete = {TRUE}
SPECIFICATION ComputeSpec
SYMMETRY Symmetry
INVARIANT NoConflictUnlessTimeout
CHECK_DEADLOCK FALSE
