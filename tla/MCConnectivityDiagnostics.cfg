\* As MCConnectivity.cfg, with get_console_output able to fail while the
\* handler logs the console of the servers.
CONSTANTS
  a1 = a1  a2 = a2
  Addrs <- MCAddrs
  PingTimeout = 6
  Interval = 2
  PingDeadline = 2
  Lossy = TRUE
  SshDrops = TRUE
  TenantReachable = TRUE
  ConsoleEnabled = TRUE
  ConsoleFails = TRUE
  MaxFlips = 2
SPECIFICATION Spec
INVARIANT OriginalErrorPropagates
CHECK_DEADLOCK FALSE
