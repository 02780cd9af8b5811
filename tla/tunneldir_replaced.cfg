\* A running tunnel is replaced, with nothing else going on.
SPECIFICATION FairSpec
CONSTANTS
  Names = {1}
  Safe <- Plain1
  Versions = {"v1", "v2"}
  Installed = {1}
  FirstText = "v1"
  Uploaders = {"put1"}
  Getters = {}
  Deleters = {}
  Droppers = {}
  About <- Replace
  KeepsTime = FALSE
  Casts = {{"put1"}}
  Together = {}
  MaxTunnels = 1
PROPERTIES ReplacedRuns
