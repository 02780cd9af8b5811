\* Up to three commands at once on one machine, each configuration file and machine in turn.
SPECIFICATION Spec
CONSTANTS
  Bits = 4
  MaxTunnels = 2
  Procs = {"p1", "p2", "p3"}
  Scenes <- AllScenes
INVARIANTS ReadAsWritten ToldAsWritten SafeToStart SelfReachable BackendTruth TokenWorks
\* Every command ends, or serves with nothing left to repair.
CHECK_DEADLOCK FALSE
