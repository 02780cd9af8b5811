\* A file is replaced twice, the second time while the run loop copies the first.
SPECIFICATION FairSpec
CONSTANTS
  Names = {1}
  Safe <- Plain1
  Versions = {"v1", "v2"}
  Installed = {1}
  FirstText = "v1"
  Uploaders = {"put1", "put2"}
  Getters = {}
  Deleters = {}
  Droppers = {}
  About <- Twice
  KeepsTime = FALSE
  Casts = {{"put1", "put2"}}
  Together = {{"put1", "put2"}}
  MaxTunnels = 1
PROPERTIES CopyFollows
