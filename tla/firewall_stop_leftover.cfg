\* One failed command, one kill, one stop.
SPECIFICATION Spec
CONSTANTS
  LANs = {"lan1", "lan2"}
  Ifs = {"wg0", "other"}
  TunnelIfs = {"wg0"}
  WgNamed = {"wg0"}
  DNS = TRUE
  Targets4 = {"REJECT", "DROP"}
  Targets6 = {"REJECT", "DROP"}
  Forwards6 = TRUE
  MaxPurge = 64
  Budget <- OneFault
INVARIANTS StopAlwaysClears
