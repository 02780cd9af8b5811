\* An address pinned twice: a healthy restore is not recognised.
SPECIFICATION Spec
CONSTANTS
  Tunnels <- TwoTunnels
  Pinned <- TwicePins
  Rounds = 2
  Probes = 2
  Attempts = 2
  Tests = 1
  Budget = 0
PROPERTY Recognised
CHECK_DEADLOCK FALSE
