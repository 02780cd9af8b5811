\* Releases appear one after the other; two requests fail, and the first source may be dead.
SPECIFICATION FairSpec
CONSTANTS
  Releases <- Upwards
  Build <- Build190
  UpdateCheckOn = TRUE
  MayDie = {1}
  CheckEvery = 3
  Timeout = 1
  Budget = 2
INVARIANTS AvailableIsNewer SaidOnce BoundedDelay
PROPERTIES EventuallyKnown
