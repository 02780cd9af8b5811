------------------------------ MODULE Firewall ------------------------------
(***************************************************************************)
(* The kill switch and the rules beside it (killswitch.go, nat.go, dns.go) *)
(* and the two callers that write them: the daemon, which arms on start    *)
(* (main.go:cmdRun) and repairs on every tick (main.go:repairFirewall), and *)
(* `bondvpn stop` (main.go:cmdStop).                                       *)
(*                                                                         *)
(* One step is one iptables command, because the kernel's tables are       *)
(* shared: the daemon can be killed, a command can fail (xtables lock held *)
(* by another program, timeout) and another program can flush the tables   *)
(* between any two of them.                                                *)
(***************************************************************************)
EXTENDS Naturals, Sequences, FiniteSets

CONSTANTS
  LANs,       \* the networks `lan: auto` can resolve to, one per start
  Ifs,        \* the interfaces a packet of a client may leave by
  TunnelIfs,  \* the WireGuard tunnels among them
  WgNamed,    \* the interfaces whose name begins with "wg"
  DNS,        \* TRUE: the config names a tunnel resolver (cfg.DNS)
  Targets4,   \* the blocking targets this machine's iptables can load
  Targets6,   \* the same for ip6tables
  Forwards6,  \* TRUE: the kernel forwards IPv6
  MaxPurge,   \* how many rules one purge deletes at most (64 in the code)
  Budget      \* how often each upset, and any of them, may happen: bounds only

Blocks == {"REJECT", "DROP"}
Upsets == {"fault", "crash", "tamper", "stop", "any"}
Protos == {"udp", "tcp"}

ASSUME LANsAssumption == LANs # {} /\ LANs \cap {"any", "clients", "net"} = {}
ASSUME IfsAssumption == TunnelIfs \subseteq Ifs /\ WgNamed \subseteq Ifs
ASSUME MachineAssumption ==
  /\ DNS \in BOOLEAN
  /\ Forwards6 \in BOOLEAN
  /\ Targets4 \subseteq Blocks
  /\ Targets6 \subseteq Blocks
ASSUME BoundAssumption ==
  /\ MaxPurge \in Nat \ {0}
  /\ Budget \in [Upsets -> Nat]

-----------------------------------------------------------------------------
(* The rules.  `lan` is "any" in the rules that do not name the LAN.       *)

Kinds == {"catch_all", "wg", "lan", "self", "established", "dns_udp", "dns_tcp"}
Rule  == [kind : Kinds, lan : LANs \cup {"any"}, act : Blocks \cup {"ACCEPT"}]

MkRule(k, l, a) == [kind |-> k, lan |-> l, act |-> a]

CatchAll(b) == MkRule("catch_all", "any", b)

\* The inserts of applyKillSwitch, in the order they run.
InsertOrder_DnsFirst(l, b) ==
  << CatchAll(b), MkRule("dns_udp", l, b), MkRule("dns_tcp", l, b),
     MkRule("wg", "any", "ACCEPT"), MkRule("lan", l, "ACCEPT"),
     MkRule("self", "any", "ACCEPT"), MkRule("established", "any", "ACCEPT") >>
InsertOrder(l, b) ==
  << CatchAll(b),
     MkRule("wg", "any", "ACCEPT"),
     MkRule("lan", l, "ACCEPT"),
     MkRule("self", "any", "ACCEPT"),
     MkRule("established", "any", "ACCEPT"),
     MkRule("dns_udp", l, b),
     MkRule("dns_tcp", l, b) >>

NRules == 7

\* Every insert is "-I DOCKER-USER 1": the newest rule is the first one read.
Inserted_Appends(c, r) == Append(c, r)
Inserted(c, r) == << r >> \o c

-----------------------------------------------------------------------------
VARIABLES
  \* the kernel
  exists,   \* the chain DOCKER-USER is there
  chain,    \* our rules in it, top to bottom
  jump,     \* FORWARD jumps to DOCKER-USER
  six,      \* how many copies of each blocking rule the IPv6 chain holds
  jump6,    \* the IPv6 FORWARD jumps to its DOCKER-USER
  nat,      \* how many copies of the MASQUERADE rule
  dns,      \* how many copies of each DNAT rule
  \* the daemon
  pc, mode, \* the next command; "start" inside cmdRun, "repair" on a tick
  lan,      \* cfg.LAN, resolved when the process starts
  block,    \* blockAction: cached for the life of the process
  next,     \* the insert to run, an index of InsertOrder
  purged,   \* rules deleted by the purge in progress
  \* `bondvpn stop`
  stop,     \* its next command, "off" before it ran and "done" after
  stopped,  \* rules deleted by its purge
  \* history: what the properties speak of
  clean,    \* no upset since the current pass (or stop) began
  settled,  \* a pass has ended clean and no upset has happened since
  intact,   \* the last arming ran to its end and nobody touched the chain since
  left      \* the upsets still allowed

kernel == << exists, chain, jump, six, jump6, nat, dns >>
proc   == << pc, mode, lan, block, next, purged >>
hist   == << clean, settled, intact >>
vars   == << kernel, proc, stop, stopped, hist, left >>

ArmPCs == {"chain", "jump", "purge", "block", "insert", "six_REJECT", "six_DROP", "jump6"}
PCs    == ArmPCs \cup {"down", "nat", "dns_udp", "dns_tcp", "idle", "check"}
StopPCs == {"off", "dns", "nat", "purge", "six", "done"}

FlagsOK ==
  /\ exists \in BOOLEAN /\ jump \in BOOLEAN /\ jump6 \in BOOLEAN
  /\ clean \in BOOLEAN /\ settled \in BOOLEAN /\ intact \in BOOLEAN
CountsOK ==
  /\ six \in [Blocks -> Nat] /\ dns \in [Protos -> Nat] /\ nat \in Nat
  /\ left \in [Upsets -> Nat]
ProcOK ==
  /\ pc \in PCs /\ mode \in {"start", "repair"}
  /\ lan \in LANs /\ block \in Blocks \cup {"unknown"}
  /\ next \in 1 .. NRules /\ purged \in Nat
  /\ stop \in StopPCs /\ stopped \in Nat
TypeOK == FlagsOK /\ CountsOK /\ ProcOK /\ chain \in Seq(Rule)

Init ==
  /\ exists \in BOOLEAN /\ jump = FALSE /\ jump6 = FALSE
  /\ chain = << >> /\ nat = 0
  /\ six = [b \in Blocks |-> 0] /\ dns = [p \in Protos |-> 0]
  /\ pc = "down" /\ mode = "start"
  /\ lan \in LANs /\ block = "unknown" /\ next = 1 /\ purged = 0
  /\ stop = "off" /\ stopped = 0
  /\ clean = FALSE /\ settled = FALSE /\ intact = FALSE
  /\ left = Budget

-----------------------------------------------------------------------------
(* What is in the kernel, as the code asks for it.                         *)

InChain(r) == \E i \in DOMAIN chain : chain[i] = r

\* killSwitchArmed: `-C` of the catch-all in the form this process installs.
KillSwitchArmed_RejectOnly == exists /\ InChain(CatchAll("REJECT"))
KillSwitchArmed_ChainOnly == exists
KillSwitchArmed == exists /\ InChain(CatchAll(block))

\* ipv6Blocked: either form will do, and a kernel that does not forward needs none.
Ipv6Blocked_Assumed == TRUE
Ipv6Blocked == (\E b \in Blocks : six[b] > 0) \/ ~Forwards6

\* The rule can be loaded and there is a chain to put it in.
Loadable(r) == exists /\ r.act \in Targets4 \cup {"ACCEPT"}

-----------------------------------------------------------------------------
(* Upsets.                                                                 *)

\* `bondvpn stop` is not running.
NoStop == stop \in {"off", "done"}

Counted(u) ==
  /\ left[u] > 0 /\ left["any"] > 0
  /\ left' = [left EXCEPT ![u] = @ - 1, !["any"] = @ - 1]
Spend(u) ==
  /\ Counted(u)
  /\ clean' = FALSE /\ settled' = FALSE

\* A command of ours returns an error and has done nothing.
Fault == Spend("fault")
Fine  == UNCHANGED << left, clean, settled >>

-----------------------------------------------------------------------------
(* The daemon.                                                             *)

\* An error while arming: fatal in cmdRun, logged by repairFirewall.
Abort == pc' = IF mode = "start" THEN "down" ELSE "nat"

\* A new process.  Its caches are empty and "auto" is resolved afresh.
Start ==
  /\ pc = "down"
  /\ \E l \in LANs : lan' = l
  /\ pc' = "chain" /\ mode' = "start" /\ block' = "unknown" /\ next' = 1
  /\ clean' = NoStop /\ settled' = FALSE /\ intact' = FALSE
  /\ stop' = IF NoStop THEN "off" ELSE stop
  /\ UNCHANGED << kernel, purged, stopped, left >>

\* ensureChain, the chain: listed, and created when the listing fails.  A failed
\* listing of a chain that is there ends in a failed -N.
EnsureChain ==
  /\ pc = "chain"
  /\ \/ exists' = TRUE /\ pc' = "jump" /\ Fine
     \/ Fault /\ Abort /\ UNCHANGED exists
  /\ UNCHANGED << chain, jump, six, jump6, nat, dns, mode, lan, block, next,
                  purged, stop, stopped, intact >>

\* ensureChain, the jump from FORWARD.  A failed check of a jump that is there adds a
\* second one, which changes nothing.
EnsureJump ==
  /\ pc = "jump"
  /\ \/ exists /\ jump' = TRUE /\ pc' = "purge" /\ Fine
     \/ exists /\ jump /\ UNCHANGED jump /\ pc' = "purge" /\ Fault
     \/ (Fault \/ (~exists /\ Fine)) /\ Abort /\ UNCHANGED jump
  /\ UNCHANGED << exists, chain, six, jump6, nat, dns, mode, lan, block, next,
                  purged, stop, stopped, intact >>

\* One round of purgeOurRules: list the chain, delete the first rule of ours.
\* Any error ends the purge without a word.
PurgeMore_Never(n) == FALSE
PurgeMore_LeavesLast(n) == Len(chain) > 1 /\ n < MaxPurge
PurgeMore(n) == chain # << >> /\ n < MaxPurge
\* ... the first line that names the client subnet, and the loop over the lines ends there.
Purged_LastLine(c) == SubSeq(c, 1, Len(c) - 1)
Purged(c) == Tail(c)
Purge ==
  /\ pc = "purge"
  /\ \/ /\ PurgeMore(purged) /\ Fine
        /\ chain' = Purged(chain) /\ purged' = purged + 1 /\ intact' = FALSE
        /\ UNCHANGED pc
     \/ /\ (~PurgeMore(purged) /\ Fine) \/ Fault
        /\ pc' = "block" /\ purged' = 0
        /\ UNCHANGED << chain, intact >>
  /\ UNCHANGED << exists, jump, six, jump6, nat, dns, mode, lan, block, next,
                  stop, stopped >>

\* rejectArgs: REJECT unless appending it to a scratch chain fails; when the
\* scratch chain itself cannot be made, REJECT is assumed.  Asked once.
RejectArgs ==
  /\ pc = "block"
  /\ \/ block # "unknown" /\ UNCHANGED block /\ Fine
     \/ /\ block = "unknown"
        /\ \/ block' = (IF "REJECT" \in Targets4 THEN "REJECT" ELSE "DROP") /\ Fine
           \/ block' \in Blocks /\ Fault
  /\ pc' = "insert" /\ next' = 1
  /\ UNCHANGED << kernel, mode, lan, purged, stop, stopped, intact >>

\* One "-I DOCKER-USER 1 ..." of applyKillSwitch.
Insert ==
  LET r == InsertOrder(lan, block)[next] IN
  /\ pc = "insert"
  /\ \/ /\ Loadable(r) /\ Fine
        /\ chain' = Inserted(chain, r)
        /\ pc' = IF next = NRules THEN "six_REJECT" ELSE "insert"
        /\ next' = IF next = NRules THEN 1 ELSE next + 1
        /\ intact' = (next = 1 \/ intact)
     \/ /\ (~Loadable(r) /\ Fine) \/ Fault
        /\ Abort /\ intact' = FALSE
        /\ UNCHANGED << chain, next >>
  /\ UNCHANGED << exists, jump, six, jump6, nat, dns, mode, lan, block, purged,
                  stop, stopped >>

\* "-C rule || -A rule" on a rule with n copies.  `missed`: the check fails although
\* the rule is there, and a second copy is appended.
Checked(n, missed) == IF missed THEN n > 0 /\ Fault ELSE Fine
Ensured(n, missed) == IF n = 0 \/ missed THEN n + 1 ELSE n
\* The append fails, after a check that found nothing or failed too.
NotAdded == Fault

\* applyKillSwitch6, one of its two attempts.  Falling off the end of the loop is
\* fatal only where the kernel forwards IPv6.
NoTarget6 == IF Forwards6 THEN Abort ELSE pc' = "nat"
Try6(at, b, otherwise) ==
  /\ pc = at
  /\ \/ \E missed \in BOOLEAN :
          /\ b \in Targets6 /\ Checked(six[b], missed)
          /\ six' = [six EXCEPT ![b] = Ensured(@, missed)]
          /\ pc' = "jump6"
     \/ /\ IF b \in Targets6 THEN NotAdded ELSE Fine
        /\ UNCHANGED six /\ otherwise
  /\ UNCHANGED << exists, chain, jump, jump6, nat, dns, mode, lan, block, next,
                  purged, stop, stopped, intact >>
Block6 == \/ Try6("six_REJECT", "REJECT", pc' = "six_DROP")
          \/ Try6("six_DROP", "DROP", NoTarget6)

\* The jump from the IPv6 FORWARD chain is inserted quietly: nobody hears that it failed.
EnsureJump6 ==
  /\ pc = "jump6" /\ pc' = "nat"
  /\ \/ jump6' = TRUE /\ Fine
     \/ UNCHANGED jump6 /\ Fault
  /\ UNCHANGED << exists, chain, jump, six, nat, dns, mode, lan, block, next,
                  purged, stop, stopped, intact >>

\* applyNAT.  Fatal in cmdRun, a warning in repairFirewall.
ApplyNAT ==
  /\ pc = "nat"
  /\ \/ \E missed \in BOOLEAN :
          /\ Checked(nat, missed) /\ nat' = Ensured(nat, missed)
          /\ pc' = IF DNS THEN "dns_udp" ELSE "idle"
     \/ /\ NotAdded /\ UNCHANGED nat
        /\ pc' = IF mode = "start" THEN "down" ELSE IF DNS THEN "dns_udp" ELSE "idle"
  /\ UNCHANGED << exists, chain, jump, six, jump6, dns, mode, lan, block, next,
                  purged, stop, stopped, intact >>

\* applyDNSRedirect, one protocol: udp, then tcp.  The first error ends it.
ApplyDNSRedirect(at, p) ==
  /\ pc = at
  /\ \/ \E missed \in BOOLEAN :
          /\ Checked(dns[p], missed)
          /\ dns' = [dns EXCEPT ![p] = Ensured(@, missed)]
          /\ pc' = IF p = "udp" THEN "dns_tcp" ELSE "idle"
     \/ /\ NotAdded /\ UNCHANGED dns
        /\ pc' = IF mode = "start" THEN "down" ELSE "idle"
  /\ UNCHANGED << exists, chain, jump, six, jump6, nat, mode, lan, block, next,
                  purged, stop, stopped, intact >>

\* The ticker fires (and, once, right after cmdRun's own steps): a repair pass begins.
Tick ==
  /\ pc = "idle" /\ pc' = "check" /\ mode' = "repair"
  /\ settled' = (clean /\ NoStop) /\ clean' = NoStop
  /\ UNCHANGED << kernel, lan, block, next, purged, stop, stopped, intact, left >>

\* repairFirewall: the whole switch is armed again when the catch-all or the IPv6 rule
\* is missing, or when asking for it failed.
Check ==
  /\ pc = "check"
  /\ \/ Fine /\ pc' = IF KillSwitchArmed /\ Ipv6Blocked THEN "nat" ELSE "chain"
     \/ Fault /\ pc' = "chain"
  /\ UNCHANGED << kernel, mode, lan, block, next, purged, stop, stopped, intact >>

Pass == \/ EnsureChain \/ EnsureJump \/ Purge \/ RejectArgs \/ Insert \/ Block6
        \/ EnsureJump6 \/ ApplyNAT
        \/ ApplyDNSRedirect("dns_udp", "udp") \/ ApplyDNSRedirect("dns_tcp", "tcp")
        \/ Tick \/ Check
Daemon == Start \/ Pass

\* SIGTERM (between two passes the run loop returns; before it, the default action
\* kills), SIGKILL, a power cut: the process is gone, and the kernel's tables stay.
Exit ==
  /\ pc # "down" /\ pc' = "down" /\ purged' = 0 /\ Spend("crash")
  /\ UNCHANGED << kernel, mode, lan, block, next, stop, stopped, intact >>

-----------------------------------------------------------------------------
(* `bondvpn stop`, after it has taken the tunnels and the routing down.     *)
(* Every command of it is quiet: an error is not reported and not retried.  *)

Less_Unchecked(n) == n - 1
Less(n) == IF n = 0 THEN 0 ELSE n - 1

StopBegin ==
  /\ NoStop /\ stop' = "dns"
  /\ Counted("stop")
  /\ clean' = (pc = "down") /\ settled' = FALSE
  /\ UNCHANGED << kernel, proc, stopped, intact >>

RemoveDNSRedirect ==
  /\ stop = "dns" /\ stop' = "nat"
  /\ \E failed \in SUBSET Protos :
       /\ IF failed = {} THEN Fine ELSE Fault
       /\ dns' = [p \in Protos |-> IF p \in failed THEN dns[p] ELSE Less(dns[p])]
  /\ UNCHANGED << exists, chain, jump, six, jump6, nat, proc, stopped, intact >>

RemoveNAT ==
  /\ stop = "nat" /\ stop' = "purge"
  /\ \/ nat' = Less(nat) /\ Fine
     \/ UNCHANGED nat /\ Fault
  /\ UNCHANGED << exists, chain, jump, six, jump6, dns, proc, stopped, intact >>

StopPurge ==
  /\ stop = "purge"
  /\ \/ /\ PurgeMore(stopped) /\ Fine
        /\ chain' = Purged(chain) /\ stopped' = stopped + 1
        /\ UNCHANGED stop
     \/ /\ (~PurgeMore(stopped) /\ Fine) \/ Fault
        /\ stop' = "six" /\ stopped' = 0 /\ UNCHANGED chain
  /\ intact' = FALSE
  /\ UNCHANGED << exists, jump, six, jump6, nat, dns, proc >>

Remove6 ==
  /\ stop = "six" /\ stop' = "done"
  /\ \E failed \in SUBSET Blocks :
       /\ IF failed = {} THEN Fine ELSE Fault
       /\ six' = [b \in Blocks |-> IF b \in failed THEN six[b] ELSE Less(six[b])]
  /\ UNCHANGED << exists, chain, jump, jump6, nat, dns, proc, stopped, intact >>

StopStep == RemoveDNSRedirect \/ RemoveNAT \/ StopPurge \/ Remove6

-----------------------------------------------------------------------------
(* Another program (firewalld, ufw, iptables-restore, Docker, a person) at  *)
(* the same tables.                                                         *)

Tamper ==
  /\ Spend("tamper")
  /\ UNCHANGED << proc, stop, stopped >>
  /\ \/ /\ exists' = FALSE /\ chain' = << >> /\ jump' = FALSE       \* iptables-restore
        /\ nat' = 0 /\ dns' = [p \in Protos |-> 0] /\ intact' = FALSE
        /\ UNCHANGED << six, jump6 >>
     \/ /\ chain' = << >> /\ intact' = FALSE                        \* -F DOCKER-USER
        /\ UNCHANGED << exists, jump, six, jump6, nat, dns >>
     \/ /\ jump' = FALSE                                            \* -F FORWARD
        /\ UNCHANGED << exists, chain, six, jump6, nat, dns, intact >>
     \/ /\ nat' = 0 /\ dns' = [p \in Protos |-> 0]                  \* -t nat -F
        /\ UNCHANGED << exists, chain, jump, six, jump6, intact >>
     \/ /\ six' = [b \in Blocks |-> 0] /\ jump6' = FALSE            \* ip6tables -F
        /\ UNCHANGED << exists, chain, jump, nat, dns, intact >>

\* One rule of ours goes, the rest stay.
DeleteOne ==
  /\ Spend("tamper") /\ intact' = FALSE
  /\ \E i \in DOMAIN chain :
       chain' = SubSeq(chain, 1, i - 1) \o SubSeq(chain, i + 1, Len(chain))
  /\ UNCHANGED << exists, jump, six, jump6, nat, dns, proc, stop, stopped >>

-----------------------------------------------------------------------------
(* Spec: nobody touches the tables while we write them, and `stop` runs     *)
(* with the daemon down.  RacySpec: anybody, at any time.                   *)

Next ==
  \/ NoStop /\ Daemon
  \/ Exit
  \/ pc = "down" /\ (StopBegin \/ StopStep)
  \/ pc \in {"down", "idle"} /\ NoStop /\ Tamper

RacyNext == Daemon \/ Exit \/ StopBegin \/ StopStep \/ Tamper \/ DeleteOne

\* The supervisor starts the daemon again (Restart=always), the ticker keeps firing, and
\* a command in flight ends: run() kills it at its deadline.
Spec         == Init /\ [][Next]_vars
FairSpec     == Spec /\ WF_vars(NoStop /\ Daemon) /\ WF_vars(StopStep)
RacySpec     == Init /\ [][RacyNext]_vars
RacyFairSpec == RacySpec /\ WF_vars(Daemon) /\ WF_vars(StopStep)

-----------------------------------------------------------------------------
(* Packets of a client, and what the chain says of each: the action of the  *)
(* first rule that matches, "pass" when none does.                          *)

Packet == [dst : LANs \cup {"clients", "net"}, out : Ifs,
           dns : Protos \cup {"no"}, established : BOOLEAN]

Matches(r, p) ==
  \/ r.kind = "catch_all"
  \/ r.kind = "wg" /\ p.out \in WgNamed
  \/ r.kind = "lan" /\ p.dst = r.lan
  \/ r.kind = "self" /\ p.dst = "clients"
  \/ r.kind = "established" /\ p.established
  \/ r.kind = "dns_udp" /\ p.dst = r.lan /\ p.dns = "udp"
  \/ r.kind = "dns_tcp" /\ p.dst = r.lan /\ p.dns = "tcp"

Verdict(p) ==
  LET hits == {i \in DOMAIN chain : Matches(chain[i], p)}
  IN  IF hits = {} THEN "pass"
      ELSE chain[CHOOSE i \in hits : \A j \in hits : i <= j].act

Allowed(p) ==
  /\ ~(p.dst = lan /\ p.dns \in Protos)
  /\ p.established \/ p.dst \in {"clients", lan} \/ p.out \in TunnelIfs

\* What may pass at any moment of an arming: a new packet for the internet may leave by a
\* tunnel only.
Legitimate == {p \in Packet : p.established \/ p.dst # "net" \/ p.out \in TunnelIfs}

Passing == {p \in Packet : jump => Verdict(p) \in {"pass", "ACCEPT"}}

G == INSTANCE Gateway WITH
       Traffic <- Packet, Legit <- Legitimate, passes <- Passing,
       writing <- pc \in ArmPCs \/ stop = "purge",
       flushes <- Budget["tamper"] - left["tamper"]

-----------------------------------------------------------------------------
(* Properties.                                                              *)

\* A client's packet for the internet meets a rule that blocks it.
Closed == jump /\ \E b \in Blocks : InChain(CatchAll(b))

\* What repairFirewall looks at is all in place.
Restored ==
  /\ InChain(CatchAll(block)) /\ nat > 0
  /\ Forwards6 => \E b \in Blocks : six[b] > 0
  /\ DNS => \A p \in Protos : dns[p] > 0

\* Fail closed at every step: wherever arming is killed or a command of it fails, no
\* allow of ours stands without a catch-all below it (killswitch.go:79-81).  Inserting
\* the catch-all first and purging from the top are what keeps it true.
AllowsNeedCatchAll ==
  \A i \in DOMAIN chain : chain[i].act = "ACCEPT" =>
    \E j \in DOMAIN chain : j > i /\ chain[j].kind = "catch_all"

\* The kill switch as Gateway.tla states it.  Arming, purging and removing one rule at a
\* time never forward a packet in the clear while any rule of ours stands, and nothing of
\* ours but an arming or a removal changes what is forwarded.
ImplementsGateway == G!Spec

\* The order documented at killswitch.go:21-28, as what it does to packets: after an
\* arming that ran to its end, on top of whatever earlier armings left behind, exactly
\* the allowed packets pass, and none of them under an address range of an old LAN.
ArmedPolicy ==
  intact /\ pc \in {"idle", "check"} =>
    \A p \in Packet : Verdict(p) = IF Allowed(p) THEN "ACCEPT" ELSE block

\* nat.go:15 "One rule covers every tunnel", README.md:225: a gateway armed without an
\* upset carries its clients' packets down every tunnel, and translates them there.
TunnelsCarry ==
  intact /\ clean /\ pc = "idle" =>
    \A p \in Packet :
      p.dst = "net" /\ p.out \in TunnelIfs =>
        Verdict(p) = "ACCEPT" /\ nat > 0 /\ p.out \in WgNamed

\* killswitch.go:198-202: an arming in which nothing failed leaves one set of rules, with
\* the current LAN, however many sets and LANs came before it.
NoOrphans ==
  intact /\ clean /\ pc = "idle" /\ mode = "start" =>
    /\ Len(chain) = NRules
    /\ \A i \in DOMAIN chain : chain[i].lan \in {"any", lan}

\* main.go:293-294: a pass with no upset in it ends with everything that repairFirewall
\* checks back in place, whatever happened before the pass.
PassRestores == pc = "idle" /\ clean => Restored

\* killswitch.go:231-234 and status.go:ipv6Blocked: once a pass has ended well the next
\* one does not arm again, whichever targets this machine has.  Arming purges first, so
\* a needless one opens the gateway every fifteen seconds.
NoNeedlessRearm == settled => pc \notin ArmPCs

\* When faults, kills, flushes and stops end, the gateway ends restored: a start that
\* failed is retried by the supervisor, a repair that failed by the next tick.
EventuallyRestored == <>[]Restored

Cleared ==
  /\ chain = << >> /\ nat = 0
  /\ \A p \in Protos : dns[p] = 0
  /\ \A b \in Blocks : six[b] = 0

\* `bondvpn stop` leaves no rule of ours (main.go:26, CHANGELOG.md:412), of however many
\* starts, networks and kills, as long as no command of ours has ever failed: each
\* MASQUERADE, DNAT and IPv6 rule is deleted once, and so must be there at most once.
StopClears ==
  stop = "done" /\ clean /\ left["fault"] = Budget["fault"] => Cleared

\* The same whatever has failed before the stop.
StopAlwaysClears == stop = "done" /\ clean => Cleared

\* main.go:279-281: a restart must not open a window.  While the daemon runs and nobody
\* else touches the tables, a closed gateway stays closed.
NeverReopens == [][Closed /\ Pass => Closed']_vars

\* main.go:289-294: whatever was removed underneath us is reinstalled by the next pass,
\* so a pass with no upset in it ends closed.
PassCloses == pc = "idle" /\ clean => Closed
=============================================================================
