\* Two files are added at once where one more is allowed.
SPECIFICATION Spec
CONSTANTS
  Names = {1, 2, 3}
  Safe <- Plain3
  Versions = {"v1"}
  Installed = {1}
  FirstText = "v1"
  Uploaders = {"put1", "put2"}
  Getters = {}
  Deleters = {}
  Droppers = {}
  About <- AddTwo
  KeepsTime = FALSE
  Casts = {{"put1", "put2"}}
  Together = {{"put1", "put2"}}
  MaxTunnels = 2
INVARIANTS CapHolds
