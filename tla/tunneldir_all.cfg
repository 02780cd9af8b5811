\* One at a time: a file is replaced, by a request and over the share, another is added and
\* removed, the list is read.  At the same time: one is added while another is removed and
\* a third, with a name no interface can have, is copied in.
SPECIFICATION FairSpec
CONSTANTS
  Names = {1, 2, 3, 4}
  Safe <- TooLong4
  Versions = {"v1", "v2"}
  Installed = {1, 2}
  FirstText = "v1"
  Uploaders = {"put1", "put2"}
  Getters = {"get1"}
  Deleters = {"del1"}
  Droppers = {"smb1", "smb2"}
  About <- OneEach
  KeepsTime = FALSE
  Casts = {{"put1", "put2", "get1", "del1", "smb1"}, {"put2", "del1", "smb2"}}
  Together = {{"put2", "del1", "smb2"}}
  MaxTunnels = 2
INVARIANTS CapHolds NeverTorn
PROPERTIES CopyFollows UploadRuns
