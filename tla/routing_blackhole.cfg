\* A failed command and two changes of a tunnel.
SPECIFICATION Spec
CONSTANTS
  Tunnels <- TwoTunnels
  Pinned <- TwoPins
  Bonded = {}
  Unlisted = {"c9"}
  Default = "bond"
  Multipath = TRUE
  MaxTunnels = 2
  MaxFlush = 32
  Budget <- FaultChange
INVARIANTS CleanPassBondsLive
