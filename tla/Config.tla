------------------------------- MODULE Config -------------------------------
(***************************************************************************)
(* The configuration file (config.go): how its lines are read, what is      *)
(* wrong with it, and whether the subnet it names would cut the machine off *)
(* from its own network.  Nothing here has a state.                         *)
(*                                                                          *)
(* A value is a tuple: << >> when it is empty, << word >> for a word,        *)
(* << "ip", a >> for an address and << "net", a, len >> for a CIDR.          *)
(***************************************************************************)
EXTENDS Integers, Sequences, FiniteSets, SequencesExt

CONSTANTS
  Bits,        \* width of an address (32 in the code)
  MaxTunnels   \* 5 in the code

ASSUME ConfigAssumption == Bits \in Nat /\ MaxTunnels \in Nat

-----------------------------------------------------------------------------
(* Addresses and networks (net.ParseCIDR, net.IPNet).                      *)

PowerOfTwo[n \in 0 .. Bits] == IF n = 0 THEN 1 ELSE 2 * PowerOfTwo[n - 1]
Addresses == 0 .. PowerOfTwo[Bits] - 1

IsIP(v)  == Len(v) = 2
IsNet(v) == Len(v) = 3

Span(v)    == PowerOfTwo[Bits - v[3]]
NetworkOf(v) == v[2] - (v[2] % Span(v))            \* n.IP: the host bits are masked away
InNet(v, a) == (a \div Span(v)) = (v[2] \div Span(v))
Block(v)   == {a \in Addresses : InNet(v, a)}
Networks   == {<< "net", a, len >> : a \in Addresses, len \in 0 .. Bits}

-----------------------------------------------------------------------------
(* LoadConfig.  A line that is neither empty nor a comment is an item of a  *)
(* list ("item"), has no colon ("junk"), or is a key with a value ("set")   *)
(* or without one ("open").                                                 *)

Lists    == {"tunnels", "pin", "bond", "disks"}
Switches == {"update_check", "dashboard"}
Settings == Switches \cup {"clients", "default", "lan", "wan_interface", "tunnel_dir",
                           "dns", "listen", "stale_handshake"}

\* parseBool and parseDuration refuse the line; the other settings take any value.
Unreadable(l) ==
  l.val = << "bad" >> /\ l.key \in Switches \cup {"stale_handshake"}
\* A disk is written "label /path", here << "disk" >>.
NoPath(l) == l.val # << "disk" >>

DefaultConfig ==
  [k \in Lists \cup Settings |->
     CASE k = "default" -> << "bond" >>
       [] k \in {"lan", "wan_interface"} -> << "auto" >>
       [] k \in Switches -> << "true" >>
       [] k = "stale_handshake" -> << "180s" >>
       [] k = "listen" -> << "loopback" >>
       [] OTHER -> << >>]

\* What has been read: the configuration, the open section, how many lines were refused.
Unread == [cfg |-> DefaultConfig, section |-> "", errs |-> 0]

Refuse(s) == [s EXCEPT !.errs = @ + 1]

ReadItem(s, l) ==
  IF s.section \notin Lists \/ (s.section = "disks" /\ NoPath(l)) THEN Refuse(s)
  ELSE [s EXCEPT !.cfg[s.section] = Append(@, l.val)]

ReadSetting(s, l) ==
  IF l.key \notin Settings \/ Unreadable(l) THEN Refuse(s)
  ELSE [s EXCEPT !.cfg[l.key] = l.val]

ReadLine_KeepsSection(s, l) ==
  CASE l.kind = "item" -> ReadItem(s, l)
    [] l.kind = "junk" -> Refuse(s)
    [] l.kind = "open" -> [s EXCEPT !.section = l.key]
    [] l.kind = "set"  -> ReadSetting(s, l)
ReadLine(s, l) ==
  CASE l.kind = "item" -> ReadItem(s, l)
    [] l.kind = "junk" -> Refuse(s)
    [] l.kind = "open" -> [s EXCEPT !.section = l.key]
    [] l.kind = "set"  -> ReadSetting([s EXCEPT !.section = ""], l)

LoadConfig(lines) ==
  LET upto[n \in 0 .. Len(lines)] ==
        IF n = 0 THEN Unread ELSE ReadLine(upto[n - 1], lines[n])
  IN upto[Len(lines)]

-----------------------------------------------------------------------------
(* Problems and Validate.                                                  *)

ListedClients(c) == Range(c["pin"]) \cup Range(c["bond"])

Problems(c) ==
  {p \in {"tunnels", "too_many", "clients", "default", "address", "lan", "dns", "listen"} :
     CASE p = "tunnels"  -> c["tunnels"] = << >> /\ c["tunnel_dir"] = << >>
       [] p = "too_many" -> Len(c["tunnels"]) > MaxTunnels
       [] p = "clients"  -> ~IsNet(c["clients"])
       [] p = "default"  -> c["default"] \notin {<< "pin" >>, << "bond" >>}
       [] p = "address"  -> \E a \in ListedClients(c) :
                              ~IsIP(a) \/ (IsNet(c["clients"]) /\ ~InNet(c["clients"], a[2]))
       [] p = "lan"      -> c["lan"] # << "auto" >> /\ ~IsNet(c["lan"])
       [] p = "dns"      -> ~IsIP(c["dns"])
       [] p = "listen"   -> c["listen"] = << "bad" >>}

Valid(s) == s.errs = 0 /\ Problems(s.cfg) = {}

-----------------------------------------------------------------------------
(* GuardAgainstSelf: `mgmt` is the addresses of the WAN interface.          *)

Overlap(n, m) == InNet(n, NetworkOf(m)) \/ InNet(m, NetworkOf(n))
GuardAgainstSelf_Inside(clients, lan, mgmt) ==
  \/ \E a \in mgmt : InNet(clients, a)
  \/ IsNet(lan) /\ InNet(clients, NetworkOf(lan))
GuardAgainstSelf(clients, lan, mgmt) ==
  \/ \E a \in mgmt : InNet(clients, a)
  \/ IsNet(lan) /\ Overlap(clients, lan)
=============================================================================
