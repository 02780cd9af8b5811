\* Two tunnels; one "wg show" fails.
SPECIFICATION Spec
CONSTANTS
  Tunnels <- TwoTunnels
  StartBackoff = 3
  CycleBackoff = 6
  StaleAfter = 1
  Rekey = 1
  Period = 1
  MaxTook = 1
  Userspace = FALSE
  Budget <- OneMisread
PROPERTIES NoHairTrigger
