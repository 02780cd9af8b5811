\* A file is copied in beside one of the same name in other letters.
SPECIFICATION FairSpec
CONSTANTS
  Names = {1, 2}
  Safe <- SameTwice
  Versions = {"v1", "v2"}
  Installed = {1}
  FirstText = "v1"
  Uploaders = {}
  Getters = {}
  Deleters = {}
  Droppers = {"smb1"}
  About <- Capitals
  KeepsTime = FALSE
  Casts = {{"smb1"}}
  Together = {}
  MaxTunnels = 2
PROPERTIES CopyFollows
