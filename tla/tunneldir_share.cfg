\* A running file is replaced over the share with an older one.
SPECIFICATION FairSpec
CONSTANTS
  Names = {1}
  Safe <- Plain1
  Versions = {"v1", "v2"}
  Installed = {1}
  FirstText = "v1"
  Uploaders = {}
  Getters = {}
  Deleters = {}
  Droppers = {"smb1"}
  About <- Copied
  KeepsTime = TRUE
  Casts = {{"smb1"}}
  Together = {}
  MaxTunnels = 1
PROPERTIES CopyFollows
