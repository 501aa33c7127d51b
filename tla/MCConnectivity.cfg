\* A three-second ping_timeout in half seconds: a poll of up to three
\* pings, replies that take up to the one-second deadline, lost pings, and
\* a network that may change its mind twice.
CONSTANTS
  a1 = a1  a2 = a2
  Addrs <- MCAddrs
  PingTimeout = 6
  Interval = 2
  PingDeadline = 2
  Lossy = TRUE
  SshDrops = TRUE
  TenantReachable = TRUE
  ConsoleEnabled = TRUE
  ConsoleFails = FALSE
  MaxFlips = 2
SPECIFICATION FairSpec
INVARIANT WallTimeBound
INVARIANT CheckedEveryAddress
PROPERTY PollBudgetSpec
PROPERTY CheckEnds
\* The check stops once it has passed or raised.
CHECK_DEADLOCK FALSE
