\* An interface is deleted under a pin table.
SPECIFICATION Spec
CONSTANTS
  Tunnels <- ThreeTunnels
  Pinned <- TwoPins
  Bonded = {}
  Unlisted = {"c9"}
  Default = "bond"
  Multipath = TRUE
  MaxTunnels = 3
  MaxFlush = 32
  Budget <- OneDeletion
INVARIANTS PinnedNeverSpread
