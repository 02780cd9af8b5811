\* A tunnel directory with a file wg0.conf and a file uk-london.conf, and no upset.
SPECIFICATION Spec
CONSTANTS
  LANs = {"lan1", "lan2"}
  Ifs = {"wg0", "uk-london", "other"}
  TunnelIfs = {"wg0", "uk-london"}
  WgNamed = {"wg0"}
  DNS = TRUE
  Targets4 = {"REJECT", "DROP"}
  Targets6 = {"REJECT", "DROP"}
  Forwards6 = TRUE
  MaxPurge = 64
  Budget <- OneCrash
INVARIANTS TunnelsCarry
