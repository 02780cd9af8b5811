\* Every upset, two networks, a machine with REJECT and DROP that forwards IPv6.  A purge takes
\* at most the lines of two armings.
SPECIFICATION Spec
CONSTANTS
  LANs = {"lan1", "lan2"}
  Ifs = {"wg0", "other"}
  TunnelIfs = {"wg0"}
  WgNamed = {"wg0"}
  DNS = TRUE
  Targets4 = {"REJECT", "DROP"}
  Targets6 = {"REJECT", "DROP"}
  Forwards6 = TRUE
  MaxPurge = 14
  Budget <- AllUpsets
INVARIANTS TypeOK AllowsNeedCatchAll ArmedPolicy NoOrphans PassRestores StopClears
PROPERTIES ImplementsGateway
