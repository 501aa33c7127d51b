\* The node re-enters 'deploying' after the ramdisk calls back, and the
\* cleanup of a failed deploy frees it.
CONSTANTS
  ShortPolls = 2
  LongPolls = 3
  CallbackRedeploys = TRUE
  CleanupDisassociates = TRUE
SPECIFICATION FairSpec
INVARIANT TypeOK
PROPERTY BootEnds
\* The test stops once boot_instance or terminate_instance returned or raised.
CHECK_DEADLOCK FALSE
