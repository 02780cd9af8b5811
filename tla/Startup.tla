------------------------------ MODULE Startup ------------------------------
(***************************************************************************)
(* The commands of bondvpn, each a process of its own, on one machine with  *)
(* one configuration file: what every command does before anything is       *)
(* trusted (main.go:prepare), what `run` does until it serves (cmdRun),     *)
(* what `check` says of all that beforehand (check.go), and what they share:*)
(* the kill switch, the probe interface by which each of them finds out how *)
(* tunnels are made (userspace.go:detectBackend), and the file that keeps   *)
(* the settings token (settings.go:adminToken).                             *)
(*                                                                          *)
(* A scene is the file, the WireGuard file it names and the machine:        *)
(*   lines    the configuration file (Config)                               *)
(*   wg       the WireGuard file (WgConf)                                    *)
(*   host     [route, addr]: the interface of the default route, << >> when *)
(*            there is none, and the networks of each interface in order    *)
(*   later    the host after its router has been replaced                   *)
(*   kernel, wggo   whether the kernel has WireGuard; wireguard-go with tun  *)
(*   tools    whether ip, iptables, wg and wg-quick are installed           *)
(*   open6    whether it forwards IPv6 and ip6tables can block none of it    *)
(*   root     whether `check` is run as root; the other commands are         *)
(*   env      the token chosen at deploy time: "none", "short" or "set"     *)
(*   may      which commands each process may be                            *)
(*   upsets   what may happen to them, each thing once                      *)
(***************************************************************************)
EXTENDS Config, WgConf

CONSTANTS
  Procs,    \* the processes started on this machine
  Scenes    \* the files and machines considered

Commands == {"run", "check", "token", "stop"}

ASSUME StartupAssumption ==
  /\ Procs \cap {"", "env"} = {}
  /\ \A s \in Scenes :
       /\ s.may \in [Procs -> SUBSET Commands]
       /\ s.upsets \subseteq {"kill", "flush", "move", "delete", "fault"}
       /\ s.open6 \in BOOLEAN
       /\ s.lines \in Seq(Range(s.lines)) /\ s.wg \in Seq(Range(s.wg))
       /\ \A i \in DOMAIN s.lines :
            /\ s.lines[i].kind \in {"open", "set", "item", "junk"}
            /\ IsNet(s.lines[i].val) => s.lines[i].val \in Networks
       /\ \A h \in {s.host, s.later} : \A iface \in DOMAIN h.addr :
            h.addr[iface] \in Seq(Networks)

VARIABLES
  scene, host,  \* the files and the machine; where the machine is on the network
  armed,        \* what the kill switch in the kernel was armed for, or Disarmed
  probe,        \* whether the interface bvprobe0 exists
  file,         \* the settings token in its file: the process that made it, or ""
  kind, pc,     \* which command each process is, and where it is in it
  cfg,          \* what it has read of the configuration file
  fails,        \* whether `check` has met a problem
  backend,      \* currentBackend(), "" until it has been found out
  up,           \* what became of the tunnel it brought up
  tok,          \* the token it goes by, "" for none
  upset,        \* the upsets that may still come
  raced,        \* what two processes have been in at the same time
  outdated      \* whose token was deleted from the file after they had read it

vars == << scene, host, armed, probe, file, kind, pc, cfg, fails, backend, up, tok,
           upset, raced, outdated >>
machine == << scene, host, armed, probe, file >>
history == << upset, raced, outdated >>

Disarmed == [clients |-> << >>, lan |-> << >>]
Ended == {"refused", "problems", "safe", "printed", "stopped", "dead"}
NoTunnel == [how |-> "", text |-> << >>]

Itinerary(p) ==
  CASE kind[p] = "run"   -> << "load", "resolve", "guard", "confs", "arm", "probe_del", "up",
                               "token", "serving" >>
    [] kind[p] = "token" -> << "load", "resolve", "guard", "token", "printed" >>
    [] kind[p] = "stop"  -> << "load", "resolve", "guard", "probe_del", "disarm", "stopped" >>
    [] kind[p] = "check" -> IF scene.root
                            THEN << "load", "confs", "resolve", "guard", "probe_del", "verdict" >>
                            ELSE << "load", "confs", "probe_del", "verdict" >>
After(p, step) ==
  LET way == Itinerary(p) IN way[1 + CHOOSE i \in DOMAIN way : way[i] = step]

Rooted(p) == kind[p] # "check" \/ scene.root

-----------------------------------------------------------------------------
Init ==
  /\ scene \in Scenes
  /\ host = scene.host
  /\ armed = Disarmed /\ probe = FALSE /\ file = ""
  /\ kind = [p \in Procs |-> ""]
  /\ pc = [p \in Procs |-> "off"]
  /\ cfg = [p \in Procs |-> DefaultConfig]
  /\ fails = [p \in Procs |-> FALSE]
  /\ backend = [p \in Procs |-> ""]
  /\ up = [p \in Procs |-> NoTunnel]
  /\ tok = [p \in Procs |-> ""]
  /\ upset = scene.upsets /\ raced = {} /\ outdated = {}

\* One service: a second daemon is started only when the first has ended.
Start(p, k) ==
  /\ pc[p] = "off" /\ k \in scene.may[p]
  /\ k = "run" => \A q \in Procs : kind[q] = "run" => pc[q] \in Ended
  /\ kind' = [kind EXCEPT ![p] = k]
  /\ pc' = [pc EXCEPT ![p] = "load"]
  /\ UNCHANGED << machine, cfg, fails, backend, up, tok, history >>

\* The other commands give up at the first thing wrong; `check` notes it and goes on.
Judge_Warns(p, step, bad) ==
  /\ fails' = [fails EXCEPT ![p] = @ \/ (bad /\ step # "guard")]
  /\ pc' = [pc EXCEPT ![p] = IF bad /\ kind[p] # "check" THEN "refused" ELSE After(p, step)]
Judge(p, step, bad) ==
  /\ fails' = [fails EXCEPT ![p] = @ \/ bad]
  /\ pc' = [pc EXCEPT ![p] = IF bad /\ kind[p] # "check" THEN "refused" ELSE After(p, step)]

-----------------------------------------------------------------------------
(* prepare, and the same questions in cmdCheck.                            *)

Load(p) ==
  /\ pc[p] = "load"
  /\ LET read == LoadConfig(scene.lines) IN
       /\ cfg' = [cfg EXCEPT ![p] = read.cfg]
       /\ Judge(p, "load", ~Valid(read))
  /\ UNCHANGED << machine, kind, backend, up, tok, history >>

\* resolve: "auto" is filled in from the host.
Nets(iface) == IF iface \in DOMAIN host.addr THEN host.addr[iface] ELSE << >>
Wan(c) == IF c["wan_interface"] = << "auto" >> THEN host.route ELSE c["wan_interface"]
Resolvable(c) ==
  /\ Wan(c) # << >>
  /\ c["lan"] = << "auto" >> => Nets(Wan(c)) # << >>
Resolved(c) ==
  [c EXCEPT !["wan_interface"] = Wan(c),
            !["lan"] = IF @ # << "auto" >> THEN @
                       ELSE LET first == Nets(Wan(c))[1]
                            IN << "net", NetworkOf(first), first[3] >>]

\* When nothing can be resolved, `check` asks no more of the network.
Resolve(p) ==
  /\ pc[p] = "resolve"
  /\ IF Resolvable(cfg[p])
     THEN cfg' = [cfg EXCEPT ![p] = Resolved(@)] /\ Judge(p, "resolve", FALSE)
     ELSE cfg' = cfg /\ Judge(p, IF kind[p] = "check" THEN "guard" ELSE "resolve", TRUE)
  /\ UNCHANGED << machine, kind, backend, up, tok, history >>

\* ifaceAddrs and GuardAgainstSelf.  `check` has already said what is wrong with a subnet
\* that is none.
Guard(p) ==
  /\ pc[p] = "guard"
  /\ LET c == cfg[p]
         known == c["wan_interface"] \in DOMAIN host.addr
         mgmt == {n[2] : n \in Range(Nets(c["wan_interface"]))}
     IN Judge(p, "guard",
              \/ ~known
              \/ IsNet(c["clients"]) /\ GuardAgainstSelf(c["clients"], c["lan"], mgmt))
  /\ UNCHANGED << machine, kind, cfg, backend, up, tok, history >>

\* checkTunnelConfigs: one file, listed or in the tunnel directory.
Paths(c) == Range(c["tunnels"]) \cup (IF c["tunnel_dir"] = << >> THEN {} ELSE {<< "file" >>})
Confs(p) ==
  /\ pc[p] = "confs"
  /\ Judge(p, "confs",
           \/ << "missing" >> \in Paths(cfg[p])
           \/ << "file" >> \in Paths(cfg[p]) /\ WGFatal(scene.wg))
  /\ UNCHANGED << machine, kind, cfg, backend, up, tok, history >>

-----------------------------------------------------------------------------
(* The kill switch, as far as this module needs it (Firewall has the rest). *)

ArmedFor(c) == [clients |-> c["clients"], lan |-> c["lan"]]

\* IPv4 first, and then IPv6, which a machine that forwards it must be able to block.  What
\* has been armed stays when the daemon gives up.
Arm(p) ==
  /\ pc[p] = "arm"
  /\ armed' = IF scene.tools THEN ArmedFor(cfg[p]) ELSE armed
  /\ Judge(p, "arm", ~scene.tools \/ scene.open6)
  /\ UNCHANGED << scene, host, probe, file, kind, cfg, backend, up, tok, history >>

\* repairFirewall, of a daemon that serves.
Repair(p) ==
  /\ pc[p] = "serving" /\ armed = Disarmed
  /\ armed' = ArmedFor(cfg[p])
  /\ UNCHANGED << scene, host, probe, file, kind, pc, cfg, fails, backend, up, tok, history >>

Disarm(p) ==
  /\ pc[p] = "disarm"
  /\ armed' = Disarmed
  /\ pc' = [pc EXCEPT ![p] = After(p, "disarm")]
  /\ UNCHANGED << scene, host, probe, file, kind, cfg, fails, backend, up, tok, history >>

-----------------------------------------------------------------------------
(* detectBackend, by way of currentBackend.  All processes use one name.   *)

Fallback == IF scene.wggo THEN "userspace" ELSE "none"
MachineBackend == IF scene.kernel THEN "kernel" ELSE Fallback

\* `check` counts a machine that cannot make a tunnel, or lacks the tools, as a problem.
Detected(p, b) ==
  /\ backend' = [backend EXCEPT ![p] = b]
  /\ fails' = [fails EXCEPT ![p] = @ \/ (kind[p] = "check" /\ (b = "none" \/ ~scene.tools))]
  /\ pc' = [pc EXCEPT ![p] = After(p, "probe_del")]

ProbeDel_Skips(p) ==
  /\ pc[p] = "probe_del"
  /\ pc' = [pc EXCEPT ![p] = "probe_add"]
  /\ UNCHANGED << machine, kind, cfg, fails, backend, up, tok, history >>
ProbeDel(p) ==
  /\ pc[p] = "probe_del"
  /\ probe' = (probe /\ ~Rooted(p))
  /\ pc' = [pc EXCEPT ![p] = "probe_add"]
  /\ UNCHANGED << scene, host, armed, file, kind, cfg, fails, backend, up, tok, history >>

Probing == {"probe_add", "probe_undo"}

ProbeAdd(p) ==
  /\ pc[p] = "probe_add"
  /\ raced' = IF \E q \in Procs \ {p} : pc[q] \in Probing THEN raced \cup {"probe"} ELSE raced
  /\ \/ /\ scene.kernel /\ Rooted(p) /\ ~probe
        /\ probe' = TRUE
        /\ pc' = [pc EXCEPT ![p] = "probe_undo"]
        /\ UNCHANGED << fails, backend, upset >>
     \/ /\ ~(scene.kernel /\ Rooted(p) /\ ~probe)
        /\ Detected(p, Fallback)
        /\ UNCHANGED << probe, upset >>
     \/ \* the command fails, or is cut off by its timeout before or after its effect
        /\ scene.kernel /\ Rooted(p) /\ ~probe /\ "fault" \in upset
        /\ upset' = upset \ {"fault"}
        /\ probe' \in BOOLEAN
        /\ Detected(p, Fallback)
  /\ UNCHANGED << scene, host, armed, file, kind, cfg, up, tok, outdated >>

ProbeUndo(p) ==
  /\ pc[p] = "probe_undo"
  /\ probe' = FALSE
  /\ Detected(p, "kernel")
  /\ UNCHANGED << scene, host, armed, file, kind, cfg, up, tok, history >>

\* bringUp.  wg-quick takes the file as it is; wireguard-go gets what uapiFromConfig makes
\* of it, and its interface stays when it does not take that.
BringUp(p) ==
  /\ pc[p] = "up"
  /\ up' = [up EXCEPT ![p] =
       CASE backend[p] = "kernel" -> [how |-> "wg-quick", text |-> << >>]
         [] backend[p] = "none" -> NoTunnel
         [] backend[p] = "userspace" ->
              LET u == Uapi(scene.wg)
              IN IF UapiTaken(u) THEN [how |-> "wireguard-go", text |-> u.text]
                                 ELSE [how |-> "bare", text |-> << >>]]
  /\ pc' = [pc EXCEPT ![p] = After(p, "up")]
  /\ UNCHANGED << machine, kind, cfg, fails, backend, tok, history >>

\* The verdict of `check`: "Safe to start" or not.
Verdict(p) ==
  /\ pc[p] = "verdict"
  /\ pc' = [pc EXCEPT ![p] = IF fails[p] THEN "problems" ELSE "safe"]
  /\ UNCHANGED << machine, kind, cfg, fails, backend, up, tok, history >>

-----------------------------------------------------------------------------
(* adminToken, called by serveStatus and by `bondvpn token`.               *)

\* A daemon without a token serves without the settings page.
Got(p, t) ==
  /\ tok' = [tok EXCEPT ![p] = t]
  /\ pc' = [pc EXCEPT ![p] = IF t = "" /\ kind[p] = "token" THEN "refused"
                             ELSE After(p, "token")]

NoDashboard(p) == kind[p] = "run" /\ cfg[p]["dashboard"] = << "false" >>
Creating == {"truncate", "write"}

TokenRead_AlwaysNew(p) ==
  /\ pc[p] = "token"
  /\ pc' = [pc EXCEPT ![p] = "truncate"]
  /\ UNCHANGED << machine, kind, cfg, fails, backend, up, tok, history >>
TokenRead(p) ==
  /\ pc[p] = "token"
  /\ \/ NoDashboard(p) /\ Got(p, "") /\ raced' = raced
     \/ ~NoDashboard(p) /\ scene.env = "set" /\ Got(p, "env") /\ raced' = raced
     \/ ~NoDashboard(p) /\ scene.env = "short" /\ Got(p, "") /\ raced' = raced
     \/ ~NoDashboard(p) /\ scene.env = "none" /\ file # "" /\ Got(p, file) /\ raced' = raced
     \/ /\ ~NoDashboard(p) /\ scene.env = "none" /\ file = ""
        /\ pc' = [pc EXCEPT ![p] = "truncate"] /\ tok' = tok
        /\ raced' = IF \E q \in Procs : pc[q] \in Creating THEN raced \cup {"token"} ELSE raced
  /\ UNCHANGED << machine, kind, cfg, fails, backend, up, upset, outdated >>

\* os.WriteFile: the file is emptied, then written.
TokenTruncate(p) ==
  /\ pc[p] = "truncate"
  /\ \/ /\ file' = ""
        /\ pc' = [pc EXCEPT ![p] = "write"]
        /\ UNCHANGED << tok, upset >>
     \/ \* the file cannot be written
        /\ "fault" \in upset
        /\ upset' = upset \ {"fault"}
        /\ file' = file
        /\ Got(p, "")
  /\ UNCHANGED << scene, host, armed, probe, kind, cfg, fails, backend, up, raced, outdated >>

TokenWrite(p) ==
  /\ pc[p] = "write"
  /\ file' = p
  /\ Got(p, p)
  /\ UNCHANGED << scene, host, armed, probe, kind, cfg, fails, backend, up, history >>

-----------------------------------------------------------------------------
(* What happens to the machine and its processes.                          *)

Kill(p) ==
  /\ "kill" \in upset /\ pc[p] \notin Ended \cup {"off"}
  /\ upset' = upset \ {"kill"}
  /\ pc' = [pc EXCEPT ![p] = "dead"]
  /\ UNCHANGED << machine, kind, cfg, fails, backend, up, tok, raced, outdated >>

\* Another program flushes the firewall.
Flush ==
  /\ "flush" \in upset /\ armed # Disarmed
  /\ upset' = upset \ {"flush"}
  /\ armed' = Disarmed
  /\ UNCHANGED << scene, host, probe, file, kind, pc, cfg, fails, backend, up, tok, raced,
                  outdated >>

\* The router is replaced.
Move ==
  /\ "move" \in upset /\ host # scene.later
  /\ upset' = upset \ {"move"}
  /\ host' = scene.later
  /\ UNCHANGED << scene, armed, probe, file, kind, pc, cfg, fails, backend, up, tok, raced,
                  outdated >>

\* "delete that file for a new one"
Delete ==
  /\ "delete" \in upset /\ file # ""
  /\ upset' = upset \ {"delete"}
  /\ file' = ""
  /\ outdated' = {p \in Procs : tok[p] # "" \/ pc[p] \in Creating}
  /\ UNCHANGED << scene, host, armed, probe, kind, pc, cfg, fails, backend, up, tok, raced >>

Step(p) ==
  \/ \E k \in Commands : Start(p, k)
  \/ Load(p) \/ Resolve(p) \/ Guard(p) \/ Confs(p)
  \/ Arm(p) \/ Repair(p) \/ Disarm(p)
  \/ ProbeDel(p) \/ ProbeAdd(p) \/ ProbeUndo(p) \/ BringUp(p) \/ Verdict(p)
  \/ TokenRead(p) \/ TokenTruncate(p) \/ TokenWrite(p)

Next ==
  \/ \E p \in Procs : Step(p) \/ Kill(p)
  \/ Flush \/ Move \/ Delete

Spec == Init /\ [][Next]_vars

-----------------------------------------------------------------------------
(* The file read declaratively: what each line means, from the lines above. *)

Belongs(f, i, k) ==
  /\ f[i].kind = "item"
  /\ \E j \in 1 .. i - 1 :
       /\ f[j].kind = "open" /\ f[j].key = k
       /\ \A between \in j + 1 .. i - 1 : f[between].kind \notin {"open", "set"}
Misread(f, i) ==
  \/ f[i].kind = "junk"
  \/ f[i].kind = "item" /\ ~\E k \in Lists : Belongs(f, i, k)
  \/ f[i].kind = "item" /\ Belongs(f, i, "disks") /\ NoPath(f[i])
  \/ f[i].kind = "set" /\ (f[i].key \notin Settings \/ Unreadable(f[i]))

Items(f, k) == {i \in DOMAIN f : Belongs(f, i, k) /\ ~Misread(f, i)}
Sets(f, k)  == {i \in DOMAIN f : f[i].kind = "set" /\ f[i].key = k /\ ~Misread(f, i)}

\* s is what f holds at the places in S, in their order.
InOrder(s, f, S) ==
  /\ Len(s) = Cardinality(S)
  /\ \A i \in S : s[Cardinality({j \in S : j <= i})] = f[i]

Means(f, k, v) ==
  IF k \in Lists
  THEN InOrder(v, [i \in DOMAIN f |-> f[i].val], Items(f, k))
  ELSE \/ Sets(f, k) = {} /\ v = DefaultConfig[k]
       \/ \E i \in Sets(f, k) : v = f[i].val /\ \A j \in Sets(f, k) : j <= i

\* What the WireGuard file says, when every peer starts with its key and every value can be
\* read: its lines but for the headers and what wireguard-go is not told.
Told == {"PrivateKey", "PublicKey"} \cup InterfaceKeys \cup PeerKeys
WellFormed(w) ==
  /\ \E i \in DOMAIN w : w[i].key = "[Peer]"
  /\ \A i \in DOMAIN w : w[i].val # "bad" /\ (w[i].key \in Essential => w[i].val = "ok")
  /\ \A i \in DOMAIN w : w[i].key = "[Peer]" =>
       i < Len(w) /\ w[i + 1].key = "PublicKey"
  /\ \A i \in DOMAIN w : w[i].key = "PublicKey" => i > 1 /\ w[i - 1].key = "[Peer]"
  /\ \A i \in DOMAIN w : w[i].key \in PeerKeys =>
       \E j \in 1 .. i - 1 : w[j].key = "[Peer]"

-----------------------------------------------------------------------------
TypeOK ==
  /\ scene \in Scenes /\ host \in {scene.host, scene.later}
  /\ probe \in BOOLEAN /\ file \in {""} \cup Procs
  /\ kind \in [Procs -> {""} \cup Commands]
  /\ backend \in [Procs -> {"", "kernel", "userspace", "none"}]
  /\ tok \in [Procs -> {"", "env"} \cup Procs]
  /\ fails \in [Procs -> BOOLEAN]

Happened == scene.upsets \ upset

\* The reader goes through the file line by line with one open section in hand.  What comes of
\* it is what the file means read as a whole: a setting is its last readable line, a list holds
\* exactly the items under its own name, and any line that is neither makes the commands give
\* up (config.go:LoadConfig).
ReadAsWritten ==
  \A p \in Procs : pc[p] \notin {"off", "load", "dead"} =>
    /\ \A k \in (Lists \cup Settings) \ {"lan", "wan_interface"} :
         Means(scene.lines, k, cfg[p][k])
    /\ kind[p] # "check" /\ pc[p] # "refused" =>
         \A i \in DOMAIN scene.lines : ~Misread(scene.lines, i)

\* wireguard-go is told a well-formed file line by line, each peer's settings after its key;
\* its interface is never left without them (userspace.go:uapiFromConfig).
ToldAsWritten ==
  \A p \in Procs : WellFormed(scene.wg) =>
    /\ up[p].how # "bare"
    /\ up[p].how = "wireguard-go" =>
         InOrder(up[p].text, scene.wg,
                 {i \in DOMAIN scene.wg : scene.wg[i].key \in Told /\ scene.wg[i].val = "ok"})

\* When `check`, run as root, has said "Safe to start", neither the daemon nor `stop` gives up
\* on this machine, unless the network has changed or a system call has failed since.  The one
\* other reason is the daemon's: IPv6 that the machine forwards and ip6tables cannot block, at
\* most a warning of `check` (check.go:cmdCheck against main.go:prepare and cmdRun).
SafeSaid ==
  Happened \cap {"move", "fault"} = {} /\ scene.root /\ \E c \in Procs : pc[c] = "safe"
SafeToStart ==
  SafeSaid =>
    \A p \in Procs : kind[p] \in {"run", "stop"} /\ pc[p] = "refused" =>
      kind[p] = "run" /\ scene.open6

\* The network the machine is managed on is never among its clients: as long as it stays there,
\* no address of its LAN, and none of its WAN interface, is one the armed kill switch takes for
\* a client's (config.go:GuardAgainstSelf, before applyKillSwitch).
SelfReachable ==
  (armed # Disarmed /\ host = scene.host) =>
    \E p \in Procs :
      /\ kind[p] = "run" /\ armed = ArmedFor(cfg[p])
      /\ \A n \in Range(Nets(cfg[p]["wan_interface"])) : ~InNet(armed.clients, n[2])
      /\ Block(armed.clients) \cap Block(armed.lan) = {}

\* What a command takes for the machine's way to make tunnels is the machine's, whatever other
\* commands have left behind, unless two of them were probing at once or a probe failed
\* (userspace.go:detectBackend, cached by tunnel.go:currentBackend).
BackendTruth ==
  ("probe" \notin raced /\ "fault" \notin Happened) =>
    \A p \in Procs : Rooted(p) /\ backend[p] # "" => backend[p] = MachineBackend

\* The token `bondvpn token` has printed opens the daemon's settings page, after restarts and
\* kills too, unless two processes were making the token at once or it was deleted in between
\* (settings.go:adminToken).
TokenWorks ==
  ("token" \notin raced /\ "fault" \notin Happened) =>
    \A p, r \in Procs \ outdated :
      /\ kind[p] = "token" /\ pc[p] = "printed"
      /\ kind[r] = "run" /\ pc[r] = "serving" /\ ~NoDashboard(r)
      => tok[p] = tok[r]

-----------------------------------------------------------------------------
(* What does not hold: see the README.                                     *)

\* Probing at the same time does no harm either: `check` "changes nothing", and the answer
\* "cannot change while the daemon runs" (check.go:24, tunnel.go:34).
BackendAlwaysTruth ==
  "fault" \notin Happened =>
    \A p \in Procs : kind[p] = "run" /\ backend[p] # "" => backend[p] = MachineBackend

\* What `check` calls safe to start does start, on a machine without ip6tables too (check.go:
\* 164-166 warns of it, killswitch.go:151-155 gives up).
SafeAlwaysStarts == SafeSaid => \A p \in Procs : kind[p] = "run" => pc[p] # "refused"

\* What `check` calls safe to start comes up.
SafeMeansUp ==
  (Happened \cap {"move", "fault"} = {} /\ \E c \in Procs : pc[c] = "safe")
    => \A p \in Procs : pc[p] = "serving" => up[p].how \in {"wg-quick", "wireguard-go"}

\* A daemon serves with the token that `bondvpn token` prints, however they were started.
TokenAlwaysWorks ==
  \A p, r \in Procs \ outdated :
    /\ kind[p] = "token" /\ pc[p] = "printed"
    /\ kind[r] = "run" /\ pc[r] = "serving" /\ ~NoDashboard(r)
    => tok[p] = tok[r]

\* A kill switch that has been armed can be taken down with `bondvpn stop`.
StopAlwaysPossible ==
  armed # Disarmed => \A p \in Procs : kind[p] = "stop" => pc[p] # "refused"
=============================================================================
