\* One tunnel; nothing goes wrong.
SPECIFICATION Spec
CONSTANTS
  Tunnels <- OneTunnel
  StartBackoff = 3
  CycleBackoff = 6
  StaleAfter = 1
  Rekey = 1
  Period = 1
  MaxTook = 1
  Userspace = FALSE
  Budget <- NoUpsets
PROPERTIES HandshakeAwaited
