\* Other programs and `bondvpn stop` write between any two commands of a daemon on DSM 7.3,
\* whose firewalls have DROP only.
SPECIFICATION RacyFairSpec
CONSTANTS
  LANs = {"lan1"}
  Ifs = {"wg0", "other"}
  TunnelIfs = {"wg0"}
  WgNamed = {"wg0"}
  DNS = TRUE
  Targets4 = {"DROP"}
  Targets6 = {"DROP"}
  Forwards6 = TRUE
  MaxPurge = 8
  Budget <- AnyTwo
INVARIANTS NoNeedlessRearm
PROPERTIES EventuallyRestored
