\* A file is added; the run loop and a GET make its working copy at once.
SPECIFICATION Spec
CONSTANTS
  Names = {1}
  Safe <- Plain1
  Versions = {"v1", "v2"}
  Installed = {}
  FirstText = "v1"
  Uploaders = {"put1"}
  Getters = {"get1"}
  Deleters = {}
  Droppers = {}
  About <- AddGet
  KeepsTime = FALSE
  Casts = {{"put1", "get1"}}
  Together = {{"put1", "get1"}}
  MaxTunnels = 1
INVARIANTS NeverTorn
