------------------------------- MODULE WgConf -------------------------------
(***************************************************************************)
(* A provider's WireGuard file: what `check` and cmdRun look for in it      *)
(* (wgconf.go), and what is sent to wireguard-go on a machine whose kernel  *)
(* has no WireGuard (userspace.go:uapiFromConfig).  Nothing here has a      *)
(* state.                                                                   *)
(*                                                                          *)
(* A line is [key, val].  The key of a section header is "[Interface]" or   *)
(* "[Peer]"; a value is "ok", "bad" when it cannot be read, "" when it is   *)
(* empty, or what the key makes of it ("off", "0").                         *)
(***************************************************************************)
EXTENDS Naturals, Sequences, SequencesExt

Line(k, v) == [key |-> k, val |-> v]

-----------------------------------------------------------------------------
(* parseWGConf and Problems: sections are not looked at, the last line of a *)
(* key stands.                                                              *)

LastOf(lines, k, otherwise) ==
  FoldLeft(LAMBDA v, l : IF l.key = k THEN l.val ELSE v, otherwise, lines)

WGFatal(lines) == LastOf(lines, "Table", "") # "off" \/ LastOf(lines, "DNS", "") # ""

-----------------------------------------------------------------------------
(* uapiFromConfig.  The text it writes is a sequence of lines; `open` says  *)
(* that "public_key=" has been written and its line not yet ended.          *)

InterfaceKeys == {"PrivateKey", "ListenPort"}
PeerKeys  == {"PresharedKey", "Endpoint", "AllowedIPs", "PersistentKeepalive"}
\* A value that cannot be read ends the conversion, or leaves its line out.
Essential == {"PrivateKey", "PublicKey", "PresharedKey", "Endpoint"}
Optional  == {"ListenPort", "PersistentKeepalive"}

Garbage == Line("garbage", "ok")

Emit(s, l) ==
  [s EXCEPT !.text = Append(@, IF s.open THEN Garbage ELSE l), !.open = FALSE]

ConvertLine_KeyTwice(s, l) ==
  CASE s.failed \/ (l.key \in Essential /\ l.val # "ok") -> [s EXCEPT !.failed = TRUE]
    [] ~s.failed /\ l.key = "[Peer]" ->
         [s EXCEPT !.text = IF s.open THEN Append(@, Garbage) ELSE @,
                   !.open = ~s.open, !.inPeer = TRUE]
    [] ~s.failed /\ l.key \in InterfaceKeys \cup PeerKeys \cup {"PublicKey"} /\ l.val = "ok" ->
         Emit(s, l)
    [] OTHER -> s
ConvertLine(s, l) ==
  CASE s.failed \/ (l.key \in Essential /\ l.val # "ok") -> [s EXCEPT !.failed = TRUE]
    [] ~s.failed /\ l.key = "[Peer]" ->
         [s EXCEPT !.text = IF s.open THEN Append(@, Garbage) ELSE @,
                   !.open = ~s.open, !.inPeer = TRUE]
    [] ~s.failed /\ l.key = "PublicKey" /\ l.val = "ok" ->
         [s EXCEPT !.text = Append(@, IF s.open THEN l ELSE Garbage), !.open = FALSE]
    [] ~s.failed /\ l.key \in InterfaceKeys \cup PeerKeys /\ l.val = "ok" -> Emit(s, l)
    [] OTHER -> s

Untold == [text |-> << >>, open |-> FALSE, inPeer |-> FALSE, failed |-> FALSE]

Uapi(lines) ==
  LET upto[n \in 0 .. Len(lines)] ==
        IF n = 0 THEN Untold ELSE ConvertLine(upto[n - 1], lines[n])
  IN upto[Len(lines)]

\* wireguard-go takes a text in which every line is "key=value" and a peer's settings come
\* after its key.
UapiTaken(u) ==
  /\ ~u.failed /\ u.inPeer /\ ~u.open
  /\ \A i \in DOMAIN u.text :
       /\ u.text[i].key # "garbage"
       /\ u.text[i].key \in PeerKeys => \E j \in 1 .. i - 1 : u.text[j].key = "PublicKey"
=============================================================================
