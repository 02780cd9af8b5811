\* A running tunnel is removed, with nothing else going on.
SPECIFICATION FairSpec
CONSTANTS
  Names = {1}
  Safe <- Plain1
  Versions = {"v1", "v2"}
  Installed = {1}
  FirstText = "v1"
  Uploaders = {}
  Getters = {}
  Deleters = {"del1"}
  Droppers = {}
  About <- Remove
  KeepsTime = FALSE
  Casts = {{"del1"}}
  Together = {}
  MaxTunnels = 1
PROPERTIES RemovedStops
