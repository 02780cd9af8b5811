\* Two tunnels and an address pinned twice: a command fails, the daemon is killed, another
\* program flushes, a question goes unanswered and `stop` runs once each, and tunnels come
\* and go twice.  A flush takes at most four pin rules: two for each failed command.
SPECIFICATION FairSpec
CONSTANTS
  Tunnels <- TwoTunnels
  Pinned <- TwicePins
  Bonded = {}
  Unlisted = {"c9"}
  Default = "bond"
  Multipath = TRUE
  MaxTunnels = 2
  MaxFlush = 4
  Budget <- AllUpsets
INVARIANTS CleanPassRoutes NoChurn StopUnroutes
PROPERTIES ApplyRoutes EventuallyRouted
