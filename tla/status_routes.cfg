\* The plan cannot be applied once.
SPECIFICATION Spec
CONSTANTS
  Tunnels <- Two
  Pinned <- Three
  TunnelDir = TRUE
  Has6 = TRUE
  MaxUpsets = 1
INVARIANTS OkMeansRouted
