\* The multipath route is refused once, on a kernel that has multipath.
SPECIFICATION FairSpec
CONSTANTS
  Tunnels <- TwoTunnels
  Pinned <- TwoPins
  Bonded = {}
  Unlisted = {"c9"}
  Default = "bond"
  Multipath = TRUE
  MaxTunnels = 2
  MaxFlush = 32
  Budget <- OneFault
PROPERTIES EventuallyBonded
