\* Two tunnels and three pinned clients; a test, on what an earlier one may have left, beside
\* a daemon or without one, and one upset.
SPECIFICATION FairSpec
CONSTANTS
  Tunnels <- TwoTunnels
  Pinned <- ThreePins
  Rounds = 2
  Probes = 2
  Attempts = 2
  Tests = 1
  Budget = 1
INVARIANTS CleansUp BroughtBack HonestVerdict
PROPERTIES RestoresAll TestEnds
CHECK_DEADLOCK FALSE
