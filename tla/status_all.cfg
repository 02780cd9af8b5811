\* Two tunnels or none yet, three pinned clients; the world changes twice.
SPECIFICATION FairSpec
CONSTANTS
  Tunnels <- Two
  Pinned <- Three
  TunnelDir = TRUE
  Has6 = TRUE
  MaxUpsets = 2
INVARIANTS Honest
PROPERTIES SettlesOk AlarmStays
