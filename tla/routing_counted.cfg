\* A failed deletion and a plan that goes back to the last one applied.
SPECIFICATION Spec
CONSTANTS
  Tunnels <- TwoTunnels
  Pinned <- ThreePins
  Bonded = {}
  Unlisted = {"c9"}
  Default = "bond"
  Multipath = TRUE
  MaxTunnels = 2
  MaxFlush = 32
  Budget <- FaultChange
INVARIANTS CleanPassAlwaysRoutes
