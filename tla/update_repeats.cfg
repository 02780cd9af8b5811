\* One check fails after a release was announced.
SPECIFICATION Spec
CONSTANTS
  Releases <- OneMore
  Build <- Build190
  UpdateCheckOn = TRUE
  MayDie = {}
  CheckEvery = 3
  Timeout = 1
  Budget = 2
INVARIANTS NeverRepeats
