\* The same address is pinned twice.
SPECIFICATION FairSpec
CONSTANTS
  Tunnels <- Two
  Pinned <- Twice
  TunnelDir = FALSE
  Has6 = TRUE
  MaxUpsets = 1
PROPERTIES SettlesOk
