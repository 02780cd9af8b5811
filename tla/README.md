# TLA+ models of bondvpn

bondvpn is a gateway daemon for a Linux host. Containers on a client subnet
reach the internet only through WireGuard tunnels: each new connection of a bonded
client takes one of several tunnels, each pinned client always the same one, and a
kill switch in the firewall blocks everything else. One Go process keeps four things
true by running `iptables`, `ip`, `wg` and `wg-quick` (or `wireguard-go`) every 15
seconds: the firewall, the tunnels, the policy routing, and the list of tunnels itself.

The other commands (`check`, `status`, `token`, `stop`, `leak-test`) are processes of
their own on the same kernel and files.

This directory models those parts, checks them with TLC, and proves with TLAPS the type
correctness and every checked safety property of its components, for every value of their
constants. Source lines are those of the repository
(`killswitch.go:76` is line 76 of that file).

## 1. Inventory

| Component | State it keeps | Operations | Talks to | What makes it correct |
|---|---|---|---|---|
| Kill switch (`killswitch.go`), NAT (`nat.go`), DNS redirect (`dns.go`) | chain DOCKER-USER and the jump to it, the IPv6 chain, NAT rules (all in the kernel); `blockAction` in the process | `applyKillSwitch`, `purgeOurRules`, `killSwitchArmed`, `applyNAT`, `applyDNSRedirect`, the removals | called by `cmdRun` on start, `repairFirewall` on each tick, `cmdStop`; shares the tables with every other program | fails closed at every step; a finished arming is exactly the documented policy; no orphans; repaired after a flush; not armed again for nothing; `stop` leaves nothing |
| Run loop (`main.go`) | `lastSig`, `lastAttempt`, `upd`, `current` | arm, bring up, check for updates, then per tick: read, repair, recover, read, plan, apply, publish | all others | a failed step is repeated by a later pass |
| Policy routing (`routing.go`) | rules at four priorities, the bond table, five pin tables (kernel); `multipathMissing` | `BuildPlan`, `Apply`, `Installed`, `Describe` | reads the tunnels, writes `ip rule` and `ip route` | after an apply every client is on its planned route; what `Installed` does not notice is not wrong; no churn |
| Tunnels and recovery (`tunnel.go`, `userspace.go`) | interfaces and handshakes (kernel, `wireguard-go`), attempt times | `readTunnels`, `bringUp`, `bringDown`, `recoverTunnels` | `wg`, `wg-quick`, the far ends | a tunnel comes back; one that shakes hands is not cut; attempts keep their distance |
| Tunnel directory (`tunneldir.go`, `wgnormalise.go`) and settings requests (`settings.go`) | `*.conf` files, working copies in `.bondvpn/`, partial files, `warned` | listing, normalised copies, GET, POST, DELETE | the run loop and HTTP handlers without a lock; people over a share | never a torn config; copies follow their files; the cap; an upload runs |
| Update check (`update.go`) | `UpdateState`, time of the last check | `checkUpdate`, `newerVersion` | two HTTP sources, inside the run loop | only later releases, said once; bounded delay |
| Leak test and probe (`leaktest.go`, `probe.go`) | a network namespace, the tunnels while it drops them | `Run`, `RestoreTunnels` | the same tunnels and routing as the daemon | tunnels are restored; a leak is reported only if there is one |
| Status and HTTP (`status.go`, `dashboard.go`), host (`host.go`) | the document `current` behind a mutex | `buildStatus`, `/status`, `/healthz`, `bondvpn status` | reads everything of the others, fact by fact; monitoring reads it | what it says was so; no alarm for good on a gateway that is well; no silence on one that is not |
| Configuration and its check (`config.go`, `check.go`, `wgconf.go`) | none after start | `LoadConfig`, `Problems`, `GuardAgainstSelf`, `checkTunnelConfigs`, `cmdCheck` | the file, the host's addresses | the file means what it says; what `check` calls safe is not refused; the network the machine is managed on is not among its clients |
| WireGuard backend (`userspace.go`) | the backend, cached by each process; the interface `bvprobe0` while probing | `detectBackend`, `uapiFromConfig`, up and down | the kernel, `wireguard-go` | the answer is the machine's; a file is passed on as written |
| Settings token (`settings.go`) | one file, and each process's copy | `adminToken` by the daemon and by `bondvpn token` | each other, through the file | the token that is printed opens the page |
| Command runner, addresses (`sys.go`) | none | `run`, `quiet`, `resolve` | the programs | a command ends at its deadline; "auto" is what the host has |
| Tools, packaging, test bed | - | sign, count, install | - | outside the gateway |

What is hard here: nothing the daemon writes is its own. The kernel's tables
outlive the process and other programs change them between any two commands; a
command may fail, or time out; the process may be killed between any two commands
and starts again knowing nothing; decisions are taken on a snapshot that minutes of
`wg-quick` make old; settings handlers and the run loop share files without a
lock. `PROJECT.json` lists each such hazard at its line.

## 2. The modules

Each component has a module; `MC<module>` extends it with the sequences and
budgets that the `.cfg` files choose from. One step is one command (or system call)
of the code, unless said otherwise, so that failures, kills and other programs fall
between any two. How often each upset may happen is a `Budget`: it bounds the
behaviours, never what a single step does.

The modules are separate because the components meet only at narrow points: `Routing`
has tunnels that just come and go, and `Recovery` is how they do; `UpdateCheck` has
one step for the pass that the other modules spell out; `Status` sees of each only what
a question to it answers. `LeakTest` composes two processes, `Startup` as many as there
are commands; `Startup` extends the stateless `Config` and `WgConf`; `Firewall`
implements `Gateway`. The theorems about a component are in `<component>Proofs`, which
extends its module: there is one for each module but `Gateway`, `Config` and `WgConf`, whose
theorems are those of `FirewallProofs` and `StartupProofs`.

### Firewall

| In the model | In the code |
|---|---|
| `exists`, `chain`, `jump` | DOCKER-USER, our rules in it from top to bottom, the jump from FORWARD |
| `six`, `jump6`, `nat`, `dns` | numbers of copies of the IPv6, MASQUERADE and DNAT rules |
| `pc`, `mode`, `next`, `purged` | the command the daemon is at, in `cmdRun` or in a repair, and the loops' counters |
| `lan`, `block` | `cfg.LAN` (resolved on each start when `auto`), `blockAction` |
| `stop`, `stopped` | `bondvpn stop`, another process, and its purge |
| `clean`, `settled`, `intact`, `left` | history and bounds |

`Start` is prepare and the beginning of `cmdRun`; `EnsureChain`, `EnsureJump`,
`Purge`, `RejectArgs`, `Insert`, `Block6`, `EnsureJump6` are `applyKillSwitch`,
one command each (a check and the append after it are one step, and either may
fail); `ApplyNAT` and `ApplyDNSRedirect` follow; `Tick` and `Check` are the ticker and
`repairFirewall`; `StopBegin` to `Remove6` are `cmdStop`. An error is fatal in
`cmdRun` and only logged in a repair (`Abort`). `Exit` is any end of the process: the
tables stay.

A packet (`Packet`) is where it goes, by which interface, whether it is DNS, and
whether its connection is established; `Verdict` is the first rule that matches.
`Closed` speaks of new connections. An established one passes by design.

Interfaces have names: `TunnelIfs` are the tunnels and `WgNamed` the names that `wg+`
matches. `Purged` takes the first rule off, as a purge does. Rules of ours only are in
the chain.

`Spec` has other programs and `stop` between passes and while the daemon is down;
`RacySpec` has them at any time.

### Gateway

The abstract specification of the kill switch has neither chain nor rule: `passes` is the
set of packets the machine forwards, `writing` that somebody is rewriting the switch, and
`flushes` how often another program has removed rules. A writer may `Seal` (from one command
on only legitimate packets pass, whatever passed before) or `Reopen` (the last rule goes and
everything passes, but only if nothing passed before); a flush is everybody else's. The
mapping in `Firewall` takes `passes` from the verdict on each packet (`Passing`), `writing`
from the arming's place or `stop`'s purge, `flushes` from the budget spent. `ImplementsGateway`
then says that no single command of an arming, a purge or a removal, failed or not, ever
leaves a state in which some rule of ours stands and a packet passes in the clear: the
order of the inserts and of the deletions is what makes it true, and deleting the last
line first (the mutant `Purged_LastLine`) breaks it.

### Routing

`bond`, `pin`, `rules`, `pinRules` are what is in tables 51820 and the pin tables and
at the four priorities. `Read` to `Check` is `refresh`; then the commands of `Apply`
in their order, with the loops of `applyPinTables` (`slot`) and of `applyRules` over a
Go map (`todo`, in any order). A plan is its `Live`: all the rest, and the string that
`Describe` makes of it, is a function of that. Other programs flush rules or a table; a
deleted interface takes its routes with it, as Linux does. `ip rule add` of a rule
that is there is refused, as Linux does. `DelPins` takes away at most `MaxFlush` pin rules, as
`flushOurRules` gives up after 32 deletions of one priority. `StopBegin` to `StopPinTable` are `bondvpn stop`,
while the daemon is down; `StartAgain` starts it afterwards. `Exits` is where a new connection goes: the
first rule whose table has a route.

### Recovery

Time is in units. `Elapse` may come between any two commands and while one runs, up to
its deadline. `since` is the time since `lastAttempt` and `waited` the same at the
moment the pass took `now`. `Cut` and `UpAgain` are `bringDown` and `bringUp` of a
restart. A `bringUp` that fails leaves an interface that was never configured (`dud`)
with wireguard-go, and none with wg-quick. `Read` may be wrong: a failed `wg show` (or
a clock that was set) takes the handshakes of all tunnels, a failed `ip link show` one
interface. `kept` are the tunnels whose WireGuard file has PersistentKeepalive. With it a
peer that answers shakes hands within a unit and again within `Rekey`. Without it the tunnel
may be idle and never shake hands, though all is well with it: such a file is accepted with a
warning (`wgconf.go:72-79`). A file from the settings page or a tunnel directory is given the
line when it has none (`wgnormalise.go:73`); one listed under `tunnels:` is not.
`StaleAfter` is any number, as `stale_handshake` is any duration.

### TunnelDir

`fs` maps a path to an inode and `data` an inode to what it holds: a text, whether
that says `Table = off`, and a modification time. So a writer that has a file open keeps
writing it after a rename. `List`, `Stat`, `Read`, `Open`, `Write`, `Rename` are
`tunnelPaths` and `normalisedCopy`, run by the loop, by each GET and by a POST
that adds a file; `Upload` and the last three also by a POST; `Delete` and
`DeleteCopy` by a DELETE; `Drop` and `Dropped` are a file copied in over a share.
`Safe` is `safeName`: the name of a file's working copy and interface, 0 when it is refused.
`Casts` are the sets of actors of an instance, and those in `Together` work at the same time;
the others one after the other. The run loop works beside each of them. Names are the numbers
from 1 on, and a new inode is any that no path names and nobody has open.

### UpdateCheck

A version is its tuple of numbers. `Boot` and `Tick` start a check as `cmdRun` does,
`Fetched` and `NotFetched` are one source answering or not, `Refresh` the rest of the
pass. The second source may lag one release behind the first (`behind`).

### LeakTest

`pc` and `plan` are functions of the two processes, the test and the daemon. The test's
steps are `FindAddress` to `Inside` (`setupProbe`), `DropTunnel` and `ProbeTarget`
(`LeakTest.Run`), `StartTunnel`, `Wait`, `Rebuild`, `Judge` (`RestoreTunnels`), and
`TeardownProbe`; the daemon's are its pass as far as it meets the test: `Pass`, `Recover`,
`Cycle`, `Again`, `Replan`, `Compare`. Both take the three steps of `Apply`. `ns` and `veth`
are the probe's namespace and pair; `Bonded` and `Reaches` are where a probe's packet
goes: by a bonded tunnel, or, when the bond table is empty, to the ISP's interface where
only the kill switch (`sealed`) stops it. `Kill` runs nothing that was deferred: without
a daemon the tunnels then stay down. The model has no clock: the wait looks `Rounds` times
and the daemon's pass may be as slow as its commands (`leaktest_stale` needs the daemon to
read and apply between two neighbouring commands of the test, or a pass that lasts as long
as the test). A backoff of the daemon is the choice to leave a tunnel alone.

### Config, WgConf

Stateless. `Config` is the configuration file: `ReadLine` is one turn of `LoadConfig`'s loop
(the open section, the lines it refuses), `Problems` what is wrong with the whole,
`GuardAgainstSelf` the check against the machine's own network, over addresses of `Bits`
bits. A line is what the reader makes of it (an item, a setting, a section, neither);
comments, quotes and number formats are left out. `WgConf` is a provider's file: the last `Table` and `DNS`
line for `check` and `run`, and `ConvertLine`, which writes a UAPI text key by key and
opens "public_key=" at the section's header.

### Startup

A state is one machine with one configuration file (`scene`) and up to three processes on
it. `Itinerary` is the order in which `run`, `check`, `token` and `stop` do what they have in
common: `Load`, `Resolve`, `Guard`, `Confs`, `Arm`, the three commands of `detectBackend`
(`ProbeDel`, `ProbeAdd`, `ProbeUndo`), `BringUp`, and the reading and two-step writing of the
token. `Judge` is what a command does on a problem: `check` counts, the others give up.
The kill switch is here only what it was armed for. Arming fails without the programs, and on
a machine that forwards IPv6 which ip6tables cannot block (`open6`). `Kill`, `Flush`, `Move` (the router is
replaced), `Delete` (of the token's file) and one failing call are the upsets of a scene.

### Status

One step is one question or repair of a pass: `Begin` to `Apply` are `refresh`, `Ask` and
`Build` are `buildStatus`, `Publish` is what /status and /healthz serve until the next pass.
With `who = "cli"` the same document is built by `bondvpn status`, without a pass. `held`
records everything that was so since the tunnels were read for the document, so that
`Honest` can speak of moments that have gone by. Problems and warnings are those of the code;
figures, counters and the multipath warning fail nothing and are left out.

## 3. What is checked

Every property is stated in words above its definition. All twelve runs are in
`PROJECT.json`; `tlc -config <run>.cfg <module>` repeats one.

| Run | Bounds | Shows |
|---|---|---|
| `firewall_safe` | two LANs; REJECT and DROP; one failure, kill, flush and stop, in any order and place; a purge of 14 lines, the most that can be left | `TypeOK`, `AllowsNeedCatchAll`, `ArmedPolicy`, `NoOrphans`, `PassRestores`, `StopClears`, `ImplementsGateway` |
| `firewall_live` | DROP only; any two upsets, anywhere (also a single deleted rule); purge limit 8 | `NoNeedlessRearm`, `EventuallyRestored` |
| `routing_all` | two tunnels, three pins with one address twice, multipath; a failure, a crash, two changes, a flush, an unanswered question, a stop; flushes of 4 pin rules | `ApplyRoutes`, `CleanPassRoutes`, `NoChurn`, `StopUnroutes`, `EventuallyRouted` |
| `recovery_all` | one tunnel, kept alive or not, wireguard-go; backoffs 3 and 12, tick 1, command 1; a failure, a wrong reading, a kill, two changes | `StartsSoon`, `LoyalNotCut`, `Spacing`, `EventuallyLive` |
| `tunneldir_all` | four names, one of them refused, cap 2; two POSTs, a GET, a DELETE, a file over the share, one at a time; a POST, a DELETE and a copied file at once | `CapHolds`, `NeverTorn`, `CopyFollows`, `UploadRuns` |
| `update_checks` | five releases, two failures, a first source that may be dead | `AvailableIsNewer`, `SaidOnce`, `BoundedDelay`, `EventuallyKnown` |
| `leaktest_all` | two tunnels, three pins, two looks, two probes, two attempts; one upset; a daemon or none | `CleansUp`, `BroughtBack`, `HonestVerdict`, `RestoresAll`, `TestEnds` |
| `startup_all` | 512 files that end in any three of eight lines, 19 edited files, 21 machines, three sequences of upsets; addresses of four bits; three processes | `ReadAsWritten`, `ToldAsWritten`, `SafeToStart`, `SelfReachable`, `BackendTruth`, `TokenWorks` |
| `status_all` | two tunnels, three pins; two changes of the world; with tunnels or none yet, forwarding IPv6 or not; the daemon or the command | `Honest`, `SettlesOk`, `AlarmStays` |
| `firewall_restart_window` | one restart | `NeverReopens` is violated |
| `firewall_lost_jump` | one flush of FORWARD | `PassCloses` is violated |
| `firewall_names` | a tunnel called uk-london | `TunnelsCarry` is violated |

Why the bounds are enough. The commands of one arming or apply are all there, so
every place where one can fail or be interrupted is. Two LANs make orphans; two
tunnels are a bond and make pins wrap, move and go; three pin entries on two tunnels
share one. One budget of each upset, combined, gives the interrupted repair of an
interrupted repair. `Recovery` treats tunnels one by one apart from the time they
take, so one tunnel with long commands stands for several. Backoffs keep the order of
the code's (tick < start backoff < cycle backoff, and the cycle backoff longer than the
bound on a start). The code's limits of 64 lines of a purge and 32 rules of a flush are
constants, so that they are reached: 14 is the least for which `NoOrphans` holds with one
failure, and 3 for two clients and one failure in `Routing`, where 4 is what the theorems ask for.
`LeakTest` begins on anything an earlier test that was killed may have
left, so one upset (a failed command, a kill, a quiet peer, an opened firewall, a cycled
tunnel) is the second one. `TunnelDir` needs two writers of one path, or of one cap. In `Startup` four
bits give networks that contain, equal, touch and miss each other; three lines after a
complete file give every order of opening, closing and mistaking a section; two processes
that probe or make a token at once are one race, the third sees what it left. In `Status` a
fact has to change and change back to deceive, which is two changes.

Fairness. The supervisor restarts the process (`bondvpn.service`: `Restart=always`),
the ticker keeps firing, and `run` kills a command at its deadline (`sys.go:20`), so the
daemon always takes its next step: weak fairness of the daemon's actions as a whole.
A command of the leak test ends too, and a pass of `Status`. Time passes. A request that has begun is served; none has to come. That a kept tunnel whose peer answers shakes hands in time is WireGuard's
keepalive, and `EventuallyLive` needs it within `StaleAfter` (120 s of the default 180 s). No fairness is
assumed of upsets, of peers or of other programs, and the copy of the update file
catches up in the end (otherwise `EventuallyKnown` would say nothing of a dead
first source).

### Where the code does not do what it says

The three violated properties are in `PROJECT.json` under `findings` with the lines
they contradict.

1. A restart deletes the standing rules, catch-all last, before it inserts new ones
   (`applyKillSwitch` calls `purgeOurRules` first). Every re-arm does the same.
2. A flush of FORWARD alone is never repaired: only the catch-all is looked for.
3. A tunnel whose file is not called wg-something is brought up and bonded, and the kill
   switch and NAT, which name `wg+`, block what goes through it.

Each of these configurations gives a counterexample to a property that holds only under the
restriction its run makes. Where the first column names a run, its `.cfg` is changed as said
there, and checks that one property only:

| cfg (module), or run and change | Property | What happens |
|---|---|---|
| `firewall_stop_leftover` (Firewall) | `StopAlwaysClears` | a failed `-C` adds a second MASQUERADE, `stop` deletes one |
| `routing_counted` (Routing) | `CleanPassAlwaysRoutes` | the leftover of a failed deletion makes the count right while a rule is missing |
| `routing_one_of_two` (Routing) | `EventuallyBonded` | one failure of the multipath command leaves the bond on one tunnel until the plan changes, and reports a kernel without multipath (`routing.go:95-100`) |
| `routing_all`: `Default = "pin"`, `Pinned <- TwoPins`, `Budget <- NoUpset`, `SPECIFICATION Spec` | `ModeHonoured` | with `default: pin` an address not listed is bonded: `ModeFor` is called by its test only (`config.go:33-34`, README.md:262) |
| `routing_blackhole` (Routing) | `CleanPassBondsLive` | a bond table not empty but wrong is taken as installed |
| `routing_spread` (Routing) | `PinnedNeverSpread` | a deleted interface empties a pin table and until the next pass its client takes the bond (`routing.go:195-199` says no way out at all) |
| `routing_all`: `MaxFlush = 1`; each alone | `StopUnroutes`, `ApplyRoutes`, `CleanPassRoutes`, `NoChurn` | more pinned clients than one flush deletes (33 in the code): `stop` leaves their rules; an `Apply` in which nothing fails keeps old ones or is refused the new ones (`routing.go:177`), so that clients go where an old plan sent them and every tick applies again. The same with no failure in the budget; with one, the first two already at `MaxFlush = 2` |
| `firewall_safe`: `MaxPurge = 13` | `NoOrphans` | what a half-failed arming adds to a standing one is more than one purge takes |
| `recovery_startup`: this property only | `IdleNotCut` | a tunnel without PersistentKeepalive is idle, and is cut although its peer is there and it is "perfectly healthy" (`wgconf.go:72-74`) |
| `recovery_startup`: `Rekey = 3` | `LoyalNotCut` | twice `stale_handshake` is less than WireGuard's 120 s: a tunnel full of traffic is cut between two handshakes; nothing refuses such a value (`config.go:216-222`) |
| `recovery_startup` (Recovery) | `HandshakeAwaited` | the first pass cycles a tunnel made moments ago by the first bring-up |
| `recovery_misread` (Recovery) | `NoHairTrigger` | one failed `wg show` cycles every tunnel that has no backoff to serve (`tunnel.go:212-213`) |
| `tunneldir_torn` (TunnelDir) | `NeverTorn` | the loop and a GET write the same `.partial` |
| `tunneldir_stale` (TunnelDir) | `CopyFollows` | a file replaced while its copy is made is older than the copy |
| `tunneldir_share` (TunnelDir) | `CopyFollows` | a file copied in with an old time is older than the copy |
| `tunneldir_alias` (TunnelDir) | `CopyFollows` | two files whose names differ in case have one working copy |
| `tunneldir_replaced` (TunnelDir) | `ReplacedRuns` | a running tunnel is not restarted when its file is replaced |
| `tunneldir_cap` (TunnelDir) | `CapHolds` | two POSTs at once |
| `tunneldir_removed` (TunnelDir) | `RemovedStops` | a removed tunnel keeps running |
| `update_repeats` (UpdateCheck) | `NeverRepeats` | a failed check forgets, the next one announces again |
| `leaktest_all`: this invariant only | `HonestLeakBeside` | the daemon starts a dropped tunnel, bonds it, and a probe goes through it |
| `leaktest_all`: this action property only | `OkIsRouted` | the last `Apply` fails and `RestoreTunnels` returns nil: it looks at the plan (`leaktest.go:107` says "Success is not "it ran" - it is the bond being populated") |
| `leaktest_twice` (LeakTest) | `Recognised` | `len(cfg.Pinned)` counts an address listed twice; the restore fails after six attempts that were all good |
| `leaktest_stale` (LeakTest) | `BondedAgain` | the rebuild applies a reading older than the daemon's, and the bond stays on one tunnel: what the daemon applied last is its plan, and the bond table is not empty |
| `startup_all`: `Scenes <- CheckToo` | `BackendAlwaysTruth` | `check` has made `bvprobe0`, the starting daemon cannot, and takes the machine for one without WireGuard for as long as it runs (`check.go:22-24`: "changes nothing") |
| `startup_all`: `Scenes <- TokenToo` | `TokenAlwaysWorks` | the daemon and `bondvpn token` both find no token, and each goes by its own |
| `startup_all`: `Scenes <- NoKernel` | `SafeMeansUp` | a peer's PublicKey is not its first line; `check` says safe, wireguard-go refuses the text and the interface stays bare |
| `startup_all`: `Scenes <- OpenSix` | `SafeAlwaysStarts` | no ip6tables, on a machine that forwards IPv6: `check` warns and says safe (`check.go:164-166`), the daemon is refused (`killswitch.go:151-156`) |
| `startup_all`: `Scenes <- CutOff` | `StopAlwaysPossible` | with `auto` and no default route `bondvpn stop` gives up like every other command, and the switch stays armed |
| `status_pins` (Status) | `SettlesOk` | one address pinned twice is two entries on one tunnel: /healthz fails for good |
| `status_routes` (Status) | `OkMeansRouted` | a failed `Apply` is a line in the log, and no document ever says it |

Smaller things met on the way, which no property is about: a `check` that is not run as
root on a machine with kernel WireGuard reports that it cannot make tunnels; `lan: auto`
is resolved once, so the exception follows a new LAN only after a restart; the branches for
"live but not carrying traffic", for an open IPv6 switch on a machine that does not forward,
and for a document not yet made cannot be reached; a `clients` subnet written with host bits is never
matched by the purge, since `iptables -L -n` prints it without them.

## 4. What is proved

Each theorem holds for every value of the constants that the module's named assumptions
allow: any tunnels, pins, networks, releases, periods, budgets and purge limits. What a
theorem needs beyond those is a hypothesis in its statement.

| Theorem | States | Hypothesis, and why |
|---|---|---|
| **FirewallProofs** `TypeCorrect`, `RacyTypeCorrect` | `TypeOK` under `Spec` and `RacySpec` | |
| `FailClosed` | `AllowsNeedCatchAll` | of `Spec`; false of `RacySpec`, where a flush may come between two inserts |
| `Refinement` | `ImplementsGateway` | `WgNamed` within `TunnelIfs`: else a foreign interface called wg-something is legitimate traffic to the switch |
| `Policy` | `ArmedPolicy`, of `RacySpec` | `WgNamed = TunnelIfs`: else `firewall_names` |
| `Restores`, `NoRearm` | `PassRestores`, `NoNeedlessRearm`, of `RacySpec` | |
| `Orphans` | `NoOrphans` | `Room`, part of the invariant: an arming inserts seven rules, a failed one may leave them all, and a purge deletes 64 at most; so while seven times (failures + 1) is within the limit |
| `Stops` | `StopClears` | `NRules <= MaxPurge`, which 7 and 64 satisfy |
| **RoutingProofs** `TypeCorrect` | `TypeOK` | |
| `Applies`, `Routes`, `Settled`, `StopUnrouted` | `ApplyRoutes`, `CleanPassRoutes`, `NoChurn`, `StopUnroutes` | `Room`: the rules of all pinned clients, and as many again for each failed command, or one for each client and pin table, are within `MaxFlush`. In the code: 32 pinned clients while nothing fails, six whatever fails; else the row above |
| **RecoveryProofs** `TypeCorrect` | `TypeOK` | |
| `Spaced` | `Spacing` | |
| `NotCut` | `LoyalNotCut` | `Rekey <= 2 * StaleAfter`: 120 s and the default of 360 s; else the row above |
| `Restarted` | `StartsSoon` | |
| **UpdateCheckProofs** `TypeCorrect` | `TypeOK` | |
| `VersionOrder` | `NewerVersion` is asymmetric, transitive, and total on versions that differ | |
| `Delayed`, `NewerOnly` | `BoundedDelay`, `AvailableIsNewer` | |
| `Announced` | `SaidOnce` | `Ascending`: each release is newer than those before; else one could be withdrawn by the next |
| **LeakTestProofs** `TypeCorrect` | `TypeOK` | |
| `Cleans`, `BringsBack` | `CleansUp`, `BroughtBack` | |
| `HonestVerdicts` | `HonestVerdict` | |
| `RestoredWhole` | the first half of `RestoresAll` (`RestoredAll`), of any pins | |
| `Restores` | `RestoresAll` | `PinsDistinct`: else `leaktest_twice` |
| **StatusProofs** `TypeCorrect`, `HonestDocuments` | `TypeOK`, `Honest` | |
| **StartupProofs** `TypesOK` | `TypeOK` | |
| `LoadConfigMeans`, `UapiTells` | what reading a file and converting a WireGuard file line by line gives, of every file | |
| `FileReadAsWritten`, `FileToldAsWritten` | `ReadAsWritten`, `ToldAsWritten` | |
| `CheckIsRight` | `SafeToStart`, which excepts a daemon that cannot block IPv6 (`SafeAlwaysStarts`) | |
| `MachineIsReachable` | `SelfReachable` | |
| `BackendIsTrue`, `PrintedTokenWorks` | `BackendTruth`, `TokenWorks` | |
| **TunnelDirProofs** `TypesOK` | `TypeOK`, and that each process is at a place of its own kind | |
| `NoPartOfAFile` | `NeverTorn` | `OneCopier`: of those that work at the same time none is a GET, one at most a POST, and what is copied in meanwhile has a refused name, so that one process at a time makes copies; else `tunneldir_torn` |
| `NoFileOverTheCap` | `CapHolds` | `OneCopier` (else `tunneldir_cap`) and `DropsReplace`: no more files than the cap to begin with, and what is copied in replaces one that nobody is removing, or has a refused name, for nothing counts the files of a share |

`tunneldir_all` satisfies both hypotheses, with all four kinds of process at work. What
`StartupProofs` assumes of its scenes is `StartupAssumption`: a file is a sequence of lines of
the four kinds, addresses and networks are of one width, and the empty token and the one of the
environment are nobody's own.

A property is seldom inductive. What had to be added, and why:

*Firewall.* `TypeOK` needs that `block` is known when the first insert comes (`TInv`: an insert
writes it into a rule). `AllowsNeedCatchAll` needs a catch-all to be below each insert:
`Grounded` says that the last rule of the chain is a catch-all, that every catch-all blocks, and
that a pass past its first insert finds the chain not empty. Inserts add at the top and
purges take from the top, so the last rule changes only when the chain becomes empty. The
same invariant gives the refinement, step by step: an arming's commands seal, a purge's last
one reopens only what nothing passed, and everything else stutters. With anybody at the table
at any time only the upper part of the chain is known: `Stacked` says which rules the arming
has put on top, `Armed` that after the last insert all seven are there, whatever lies below.
`PassInv` follows a pass: what is in place after each command (`InPlace`, as far as nothing was
upset), that the block target found is one the host has, and what the next pass will find
(`Settling`). Of leftovers, `Sized` bounds the length of the chain by what failed commands
can have left, so that a purge within the limit empties it; `Fresh` counts the rules of
this arming; `Single` and `Removed` say that without failures every rule beside the chain is
there once at most, and gone after its removal.

*Routing.* `Slots` bounds the loops over the pin tables, which is the type of the table that a
command names. For a stop, `Emptied` and `Unrouted` say what is gone as far as it has come.
For the loop, `Known` says that while nothing was upset the reading is what the machine
has, `Filling` what the commands of `Apply` have done so far (each pin table up to `slot`, the
rules out of `todo`) and `Filled` that a finished one is the plan; `Settling` that a plan on
record was installed, so that the next pass finds it so. `Bounded` counts the pin rules: an
Apply adds those of its clients, and only a failed flush leaves any of those before it, so
that within `Room` one flush takes all.

*Recovery.* Every clock is bounded by the pass so far, which `Busy` bounds by the
commands the loop has given (two deadlines for each tunnel it has passed). `Apart` bounds
what the process has noted of the last attempt by the true one; `Loyal` and `Faithful` say that a
kept tunnel that has worked for any time has shaken hands lately, and that what the reading found stale
has worked for no longer than the pass has lasted; `Noticed` and `Soon` follow one tunnel
from going down to the tick at which its backoff is over.

*UpdateCheck.* `Waiting` charges each source's deadline to the place the check has reached;
`Reported` says that an answer has been compared with this build; `SaidNow`, for ascending
releases, that the last thing said is still so, and `Copied` that the second source is at most one
behind. The lemma `Compared` proves of `NewerVersion`, a recursive function over the fields,
that it is the comparison by the first difference (`Lexicographic`), which `VersionOrder` then
shows to be an order.

*LeakTest.* `Turns` bounds every loop by its place. `Missing` follows the tunnels the test has
taken down until each is started or its start has failed, `Brought` that the loop of
`RestoreTunnels` has passed them all; the rest of a run comes after it. `Reborn` is the
heart of the verdict: a tunnel that was dropped is routed again only after a new handshake
and by the daemon's plan, so what a probe reaches is never an old route, and a packet that
arrives by the ISP's interface is a leak (`OpenLeaks`, `Escapes`). `Restoring` follows the wait,
the rebuild and the commands of the last `Apply`; `WholePlan` needs a counting lemma: as many
distinct pins and tunnels as there are is all of them.

*Status.* `Noticing` says that `held` has every fact that was so since the document was begun,
and `Answers` that each answer given was among them when it was given.

*Startup.* `LoadConfigMeans` follows the reader: before line i the open section, every setting,
every list and the count of mistakes are those of the lines so far (`ReadSoFar`), and the lines of a
list come in their order (`InOrder`, which determines a sequence by an increasing numbering
of a set of lines). `UapiTells` does the same for the text written key by key (`ToldSoFar`), where a
well-formed file opens "public_key=" exactly once in each peer. The commands then keep what
they have read (`ReadInv`) but for the network that `auto` stands for, and their interface what it
took (`ToldInv`). `ProbeInv` says that while no two have been probing at once the probe interface
is away when it is to be added, so that only the machine can refuse it, and that a kill between
the commands leaves one that the next `ip link del` takes; `TokenInv` that one process makes the
token, that the file is empty meanwhile, and that whoever has a token that was not deleted has
the file's. `NetInv` says that until the machine moves all commands resolve `auto` to the same
network, and that past the guard it does not hold the machine (`Cut`); `ArmedInv` that the switch was
armed by such a daemon; from the two blocks of addresses that do not meet follows
`SelfReachable`. `SafeInv` compares two commands: what `check` has asked so far (`Asked`) with all
that can refuse a daemon or a `stop` (`Fit`).

*TunnelDir.* No two paths name one inode, and there is a free one whenever a path is free, by
counting (`RoomForAnother`). One process at a time makes copies: outside `Together` because one
at a time is at work (`AloneInv`), inside because until the upload is being written every copy is
fresh and nobody makes one, and afterwards only the loop does (`TogetherInv`). So each writer has
its own partial file with a text that was accepted (`WrittenInv`), a file is torn only while it is
being copied in (`CopiedInv`, `SourceInv`), when nobody reads it because nobody else is at work or
its name is refused (`CopiedInAlone`), and a copy never is (`CopyInv`). For the cap, a listing has passed or has still to pass every file of a good name
and an upload is begun only when there is room for one more (`ListInv`).

Lemmas on natural numbers, at the head of the proof modules that need them, stand in for
induction, which the provers cannot instantiate over a predicate: what is to be shown of each
number is a set of numbers, whose least or greatest element the well-foundedness of finite
sets gives. They are what the facts about recursive functions (`LiveTunnels`, `NewerVersion`, the
two readers of `Startup`), about loops and about cardinalities rest on. No module declares a
RECURSIVE operator.

Every safety property that a run checks is a theorem. Only model-checked are the liveness
properties (`EventuallyRestored`, `EventuallyRouted`, `EventuallyLive`, `EventuallyKnown`,
`CopyFollows`, `UploadRuns`, `TestEnds`, `SettlesOk`, `AlarmStays`): fairness and ENABLED are beyond
the prover. Of `TunnelDir` the two invariants are theorems under the hypotheses above and false
of every cast, as its counterexamples show.

Each module states its `TypeOK`; the runs check that of `Firewall`, the theorems show all, and
each can be added to a run by name.

## 5. Not modelled

The dashboard's page, host figures, the update file's tools, the packaging: they keep no state of
the gateway and decide nothing in it (see `components` in `PROJECT.json`). In modelled parts:
what normalisation does to a text beyond accepting it, and the text of the configuration's values;
the multipath warning and `ensureHashPolicy` (warnings); `ModeFor` (called by its test only);
established connections as such; rules of other programs in our chain and rule numbers gone
stale; the scratch chain as steps of its own; which free address the probe takes (a lost ping
makes one in use look free); `warned`, a map written without a lock that decides only what is
logged; what an HTTP request looks like, apart from what it does. `LeakTest` and `Status` take an
`Apply` or a `stop` to delete all pin rules: what they show is for as many as one flush takes
(`routing.go:177`). The flush of the other three priorities deletes the one rule there can be.
`Startup` idealises one machine: without `ip` its probe still answers right.

## 6. Plan

1. (done) `Firewall`, `Routing`, `Recovery`, `TunnelDir`, `UpdateCheck`, `LeakTest`,
   their runs, and the first proofs.
2. (done) `Gateway` and its refinement by `Firewall`, interface names, the removals of
   `bondvpn stop`, `safeName`, `Config`, `WgConf`, `Startup`, `Status`.
3. (done) The proofs of section 4: first `Firewall` with its refinement of `Gateway`, `Routing`,
   `Recovery`, `UpdateCheck`, `LeakTest` and `Status`, then `Startup` with its two readers, and
   `TunnelDir` under its hypotheses.
4. A chain of `Firewall` with foreign rules in it, deleted by a number gone stale, and with a
   client subnet that the listing prints in another form.
5. Runs of the same module that differ only in bounds are merged as properties are added.
