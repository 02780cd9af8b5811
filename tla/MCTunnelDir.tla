----------------------------- MODULE MCTunnelDir ----------------------------
(* Small instances of TunnelDir for TLC: who is about which file.          *)
EXTENDS TunnelDir, TLC

Plain1 == 1 :> 1
Plain2 == Plain1 @@ 2 :> 2
Plain3 == Plain2 @@ 3 :> 3
TooLong4 == Plain3 @@ 4 :> 0      \* the fourth name is no interface name
SameTwice == 1 :> 1 @@ 2 :> 1     \* the second name is the first in capitals

OneEach   == "put1" :> 1 @@ "put2" :> 3 @@ "get1" :> 2 @@ "del1" :> 2 @@ "smb1" :> 1 @@ "smb2" :> 4
AddRemove == "put1" :> 2 @@ "del1" :> 1
AddGet    == "put1" :> 1 @@ "get1" :> 1
Twice     == "put1" :> 1 @@ "put2" :> 1
Replace   == "put1" :> 1
AddTwo    == "put1" :> 2 @@ "put2" :> 3
Remove    == "del1" :> 1
Copied    == "smb1" :> 1
Capitals  == "smb1" :> 2
=============================================================================
