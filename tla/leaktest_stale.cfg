\* The rebuild applies what it has read before the daemon read and applied more.
SPECIFICATION FairSpec
CONSTANTS
  Tunnels <- TwoTunnels
  Pinned <- NoPins
  Rounds = 2
  Probes = 2
  Attempts = 2
  Tests = 1
  Budget = 0
PROPERTY BondedAgain
CHECK_DEADLOCK FALSE
