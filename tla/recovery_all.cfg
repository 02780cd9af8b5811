\* One tunnel, with a keepalive or without, userspace WireGuard: a command fails, a reading is wrong, the daemon is killed
\* each once, and the peer or the interface comes or goes twice.
SPECIFICATION FairSpec
CONSTANTS
  Tunnels <- OneTunnel
  StartBackoff = 3
  CycleBackoff = 12
  StaleAfter = 1
  Rekey = 1
  Period = 1
  MaxTook = 1
  Userspace = TRUE
  Budget <- SomeEach
INVARIANTS StartsSoon
PROPERTIES LoyalNotCut Spacing EventuallyLive
