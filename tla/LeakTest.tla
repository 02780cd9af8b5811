------------------------------ MODULE LeakTest ------------------------------
(***************************************************************************)
(* `bondvpn leak-test` (main.go:cmdLeakTest, leaktest.go, probe.go): a     *)
(* process of its own that makes a probe in the clients' network, drops    *)
(* every tunnel, probes three times, brings the tunnels back and rebuilds  *)
(* the routing.  The daemon may be running beside it: every 15 seconds it  *)
(* starts what is down and applies its own plan (main.go:refresh).         *)
(*                                                                         *)
(* The commands of Apply are the module Routing; here they are three steps *)
(* that either process takes: the flush of the bond table, its new route,  *)
(* and the pin tables with the rules.  Tunnels are wg-quick's.             *)
(***************************************************************************)
EXTENDS Naturals, Sequences, FiniteSets

CONSTANTS
  Tunnels,   \* the configured interfaces, in order
  Pinned,    \* cfg.Pinned
  Rounds,    \* how often the wait for handshakes looks: stands for its 60 seconds
  Probes,    \* how many targets are probed (3 in the code)
  Attempts,  \* how often the routing is rebuilt (6 in the code)
  Tests,     \* how often the command is run
  Budget     \* how many upsets may happen: bounds the behaviours only

Ifaces == {Tunnels[i] : i \in DOMAIN Tunnels}
Upsets == {"fault", "kill", "quiet", "tamper", "cycle"}
Procs  == {"test", "daemon"}

ASSUME ConfigAssumption ==
  /\ Tunnels \in Seq(STRING) /\ Tunnels # << >> /\ "none" \notin Ifaces
  /\ \A i, j \in DOMAIN Tunnels : Tunnels[i] = Tunnels[j] => i = j
  /\ Pinned \in Seq(STRING)
ASSUME BoundsAssumption ==
  /\ {Rounds, Probes, Attempts} \subseteq Nat \ {0}
  /\ {Tests, Budget} \subseteq Nat

VARIABLES
  up, fresh,  \* the interfaces that exist, and those that have handshaken
  bond,       \* next hops of the bond table's default route, {} when it is empty
  pin,        \* the interface of the default route of each pin table, or "none"
  ruled,      \* the policy rules: "none", "bare" (the exceptions), "full"
  sealed,     \* a client's packet cannot leave by the ISP's interface
  ns, veth,   \* the probe's namespace; its veth pair: "none", "host", "moved" (one end)
  pc, plan,   \* of both processes; plan is Plan.Live
  applied,    \* the daemon's lastSig
  down, idle, \* the daemon's snapshot: tunnels that are down, that have not handshaken
  cut,        \* the tunnel the daemon is cycling, or "none"
  n,          \* the test's loops: tunnel, probe, round of waiting or attempt
  leaks, late,          \* a leak has been counted; the wait has ended at its deadline
  result, restored,     \* what cmdLeakTest and RestoreTunnels have returned
  escaped, open, failed, botched,  \* history: see the properties
  tests, left, spent    \* tests and upsets still allowed; the kinds there have been

links   == << up, fresh >>
routes  == << bond, pin, ruled >>
probe   == << ns, veth >>
memory  == << applied, down, idle, cut >>
verdict == << leaks, late, result, restored >>
history == << escaped, open, botched >>
upsets  == << tests, left, spent >>
vars == << links, routes, sealed, probe, pc, plan, memory, n, verdict, history, failed, upsets >>

TestPCs == {"none", "find", "clear_ns", "clear_veth", "add_ns", "add_veth", "move", "inside",
            "drop", "probe", "up", "wait", "rebuild", "flush", "add", "rest", "judge",
            "del_ns", "del_veth"}
DaemonPCs == {"off", "idle", "recover", "again", "plan", "flush", "add", "rest"}

TypeOK ==
  /\ up \subseteq Ifaces /\ fresh \subseteq up /\ bond \subseteq up
  /\ pin \in [DOMAIN Tunnels -> up \cup {"none"}]
  /\ ruled \in {"none", "bare", "full"} /\ sealed \in BOOLEAN
  /\ ns \in BOOLEAN /\ veth \in {"none", "host", "moved"} /\ (veth = "moved" => ns)
  /\ pc \in [Procs -> TestPCs \cup DaemonPCs]
  /\ pc["test"] \in TestPCs /\ pc["daemon"] \in DaemonPCs
  /\ plan \in [Procs -> Seq(Ifaces)] /\ \A p \in Procs : Len(plan[p]) <= Len(Tunnels)
  /\ down \subseteq Ifaces /\ idle \subseteq Ifaces /\ cut \in Ifaces \cup {"none"}
  /\ \E most \in {Len(Tunnels), Probes, Rounds, Attempts} : n \in 1 .. most
  /\ {leaks, late} \subseteq BOOLEAN
  /\ result \in {"none", "setup_failed", "leaks", "passed", "killed"}
  /\ restored \in {"none", "ok", "failed"}
  /\ {escaped, open, botched} \subseteq BOOLEAN /\ failed \subseteq Ifaces
  /\ tests \in 0 .. Tests /\ left \in 0 .. Budget /\ spent \subseteq Upsets

-----------------------------------------------------------------------------
(* Plans.                                                                  *)

\* liveTunnels, in configured order.
LiveTunnels(seen) ==
  LET upto[k \in 0 .. Len(Tunnels)] ==
        IF k = 0 THEN << >>
        ELSE IF Tunnels[k] \in seen THEN Append(upto[k - 1], Tunnels[k]) ELSE upto[k - 1]
  IN  upto[Len(Tunnels)]
SetOf(s) == {s[i] : i \in DOMAIN s}

\* The entries of cfg.Pinned that stand: of an address listed twice the last one.
LastEntries == {i \in DOMAIN Pinned : \A j \in DOMAIN Pinned : Pinned[j] = Pinned[i] => j <= i}
Slot(i, live) == ((i - 1) % Len(live)) + 1
DistinctPins(live) == Cardinality({live[Slot(i, live)] : i \in LastEntries})

PinTables(live) ==
  [i \in DOMAIN Tunnels |-> IF i <= Len(live) THEN live[i] ELSE "none"]
Rules(live) == IF live = << >> THEN "bare" ELSE "full"

Installed(live) ==
  /\ ruled = Rules(live)
  /\ live # << >> =>
       bond # {} /\ \A i \in LastEntries : pin[Slot(i, live)] = live[Slot(i, live)]

\* The test begins on a gateway at rest, with its daemon or without; a stopped one may
\* have been left open.  An earlier test may have been killed anywhere.
Init ==
  /\ up \in SUBSET Ifaces /\ fresh \in SUBSET up
  /\ bond = fresh /\ pin = PinTables(LiveTunnels(fresh)) /\ ruled = Rules(LiveTunnels(fresh))
  /\ \E d \in {"off", "idle"} : /\ pc = [test |-> "none", daemon |-> d]
                                /\ sealed \in {TRUE, d = "idle"}
  /\ ns \in BOOLEAN /\ veth \in {"none", "host", "moved"} /\ (veth = "moved" => ns)
  /\ plan = [p \in Procs |-> << >>] /\ applied = LiveTunnels(fresh)
  /\ down = {} /\ idle = {} /\ cut = "none"
  /\ n = 1 /\ leaks = FALSE /\ late = FALSE /\ result = "none" /\ restored = "none"
  /\ escaped = FALSE /\ open = FALSE /\ failed = {} /\ botched = FALSE
  /\ tests = Tests /\ left = Budget /\ spent = {}

-----------------------------------------------------------------------------
(* Commands.                                                               *)

Spend(u) == left > 0 /\ left' = left - 1 /\ spent' = spent \cup {u} /\ UNCHANGED tests
Fault == Spend("fault")
Fine  == UNCHANGED upsets
Refused(possible) == (~possible /\ Fine) \/ Fault

Goto(p, where) == pc' = [pc EXCEPT ![p] = where]

\* An interface goes, and with it every route through it.
Removed(t) ==
  /\ up' = up \ {t} /\ fresh' = fresh \ {t}
  /\ bond' = (IF t \in bond THEN {} ELSE bond)
  /\ pin' = [i \in DOMAIN pin |-> IF pin[i] = t THEN "none" ELSE pin[i]]
  /\ UNCHANGED ruled

\* bringDown, whose error nobody sees.
BringDown(t) ==
  \/ t \in up /\ Removed(t) /\ Fine
  \/ Refused(t \in up) /\ UNCHANGED << links, routes >>

\* bringUp: wg-quick refuses an interface that exists, and a failed one leaves none.
BringUp(t) ==
  /\ \/ t \notin up /\ Fine /\ up' = up \cup {t} /\ failed' = failed \ {t}
     \/ t \in up /\ Fine /\ UNCHANGED << up, failed >>
     \/ t \notin up /\ Fault /\ UNCHANGED up /\ failed' = failed \cup {t}
  /\ UNCHANGED << fresh, routes >>

\* readTunnels: a handshake that cannot be read counts as none.
Reads(seen) == (seen = fresh /\ Fine) \/ (seen # fresh /\ Fault)
\* BuildPlan on what has been read.
ReadPlan(p) ==
  \E seen \in SUBSET fresh : Reads(seen) /\ plan' = [plan EXCEPT ![p] = LiveTunnels(seen)]

-----------------------------------------------------------------------------
(* Plan.Apply, in either process.  After an error the daemon waits for its *)
(* next pass, and the test goes on to judge what it has planned.           *)

Forget(p) == plan' = [plan EXCEPT ![p] = << >>]
Returns(p, sig) ==
  IF p = "test" THEN Goto(p, "judge") /\ UNCHANGED << plan, applied >>
  ELSE Goto(p, "idle") /\ Forget(p) /\ applied' = sig
Failed(p)   == Returns(p, applied)
On(p, next) == Goto(p, next) /\ UNCHANGED << plan, applied >>
Unapplied == UNCHANGED << links, sealed, probe, down, idle, cut, n, verdict, history, failed >>

FlushBond(p) ==
  /\ pc[p] = "flush" /\ On(p, IF plan[p] = << >> THEN "rest" ELSE "add")
  /\ \/ bond' = {} /\ Fine
     \/ UNCHANGED bond /\ Fault
  /\ UNCHANGED << pin, ruled >> /\ Unapplied

\* All of the plan's tunnels, or its first when that is refused, or an error.
AddBond(p) ==
  LET all == SetOf(plan[p]) IN
  /\ pc[p] = "add"
  /\ \/ all \subseteq up /\ Fine /\ bond' = all /\ On(p, "rest")
     \/ /\ Refused(all \subseteq up)
        /\ \/ /\ Len(plan[p]) > 1 /\ plan[p][1] \in up
              /\ bond' = {plan[p][1]} /\ On(p, "rest")
           \/ /\ (Len(plan[p]) = 1 \/ plan[p][1] \notin up)
              /\ UNCHANGED bond /\ Failed(p)
  /\ UNCHANGED << pin, ruled >> /\ Unapplied

\* The pin tables and the rules.  What fails on the way leaves some of either.
Rest(p) ==
  LET all == SetOf(plan[p]) IN
  /\ pc[p] = "rest"
  /\ \/ /\ all \subseteq up /\ Fine
        /\ pin' = PinTables(plan[p]) /\ ruled' = Rules(plan[p]) /\ Returns(p, plan[p])
     \/ /\ Refused(all \subseteq up)
        /\ \/ /\ \E i \in 0 .. Len(plan[p]) :
                   /\ \A j \in 1 .. i : plan[p][j] \in up
                   /\ pin' = [k \in DOMAIN pin |-> IF k <= i THEN plan[p][k]
                                                   ELSE IF k = i + 1 THEN "none" ELSE pin[k]]
              /\ UNCHANGED ruled
           \/ /\ all \subseteq up
              /\ pin' = PinTables(plan[p]) /\ ruled' \in {"none", "bare"}
        /\ Failed(p)
  /\ UNCHANGED bond /\ Unapplied

Apply(p) == FlushBond(p) \/ AddBond(p) \/ Rest(p)

-----------------------------------------------------------------------------
(* The probe's namespace (setupProbe, teardownProbe).                      *)

At(where, after) == pc["test"] = where /\ Goto("test", after)
InSetup == UNCHANGED << links, routes, sealed, plan, memory, n, leaks, late, restored,
                        escaped, open, failed >>

Start ==
  /\ At("none", "find") /\ tests > 0 /\ tests' = tests - 1
  /\ leaks' = FALSE /\ late' = FALSE /\ result' = "none" /\ restored' = "none"
  /\ escaped' = FALSE /\ open' = FALSE /\ botched' = FALSE
  /\ UNCHANGED << links, routes, sealed, probe, plan, memory, n, failed, left, spent >>

\* clientBridge and freeClientAddr; without an address nothing else is tried.
FindAddress ==
  /\ pc["test"] = "find" /\ UNCHANGED probe /\ InSetup
  /\ \/ Fine /\ Goto("test", "clear_ns") /\ UNCHANGED << result, botched >>
     \/ Fault /\ Goto("test", "none") /\ result' = "setup_failed" /\ botched' = TRUE

\* teardownProbe, before the setup and at every end.  With the namespace goes the end of
\* the pair that is in it, and with that the other one.
DelNs(at, after) ==
  /\ At(at, after)
  /\ \/ ns' = FALSE /\ veth' = (IF veth = "moved" THEN "none" ELSE veth) /\ Fine
        /\ UNCHANGED botched
     \/ UNCHANGED probe /\ Fault /\ botched' = TRUE
  /\ UNCHANGED result /\ InSetup
DelVeth(at, after) ==
  /\ At(at, after)
  /\ \/ veth' = "none" /\ Fine /\ UNCHANGED botched
     \/ UNCHANGED veth /\ Fault /\ botched' = TRUE
  /\ UNCHANGED << ns, result >> /\ InSetup

SetupFails_Returns == Goto("test", "none") /\ result' = "setup_failed" /\ UNCHANGED probe
SetupFails == Goto("test", "del_ns") /\ result' = "setup_failed" /\ UNCHANGED probe
Set(at, possible, done, after) ==
  /\ pc["test"] = at /\ UNCHANGED botched /\ InSetup
  /\ \/ possible /\ Fine /\ done /\ Goto("test", after) /\ UNCHANGED result
     \/ Refused(possible) /\ SetupFails

AddNs   == Set("add_ns", ~ns, ns' = TRUE /\ UNCHANGED veth, "add_veth")
AddVeth == Set("add_veth", veth = "none", veth' = "host" /\ UNCHANGED ns, "move")
Move    == Set("move", ns /\ veth = "host", veth' = "moved" /\ UNCHANGED ns, "inside")

\* The address, link and route inside the namespace; then readTunnels in cmdLeakTest,
\* of which only the list of tunnels is used.
Inside ==
  /\ pc["test"] = "inside" /\ UNCHANGED botched
  /\ UNCHANGED << links, routes, sealed, plan, memory, leaks, late, restored,
                  escaped, open, failed >>
  /\ \/ Fine /\ Goto("test", "drop") /\ n' = 1 /\ UNCHANGED << probe, result >>
     \/ Fault /\ SetupFails /\ UNCHANGED n

ClearProbe    == DelNs("clear_ns", "clear_veth") \/ DelVeth("clear_veth", "add_ns")
TeardownProbe == DelNs("del_ns", "del_veth") \/ DelVeth("del_veth", "none")
SetupProbe    == FindAddress \/ ClearProbe \/ AddNs \/ AddVeth \/ Move \/ Inside

-----------------------------------------------------------------------------
(* LeakTest.Run and RestoreTunnels.                                        *)

\* The loop at `where` has m turns; after the last the test is at `after`.
Turn(where, m, after) ==
  /\ pc["test"] = where
  /\ IF n < m THEN n' = n + 1 /\ UNCHANGED pc ELSE n' = 1 /\ Goto("test", after)

DropTunnel ==
  /\ Turn("drop", Len(Tunnels), "probe") /\ BringDown(Tunnels[n])
  /\ UNCHANGED << sealed, probe, plan, memory, verdict, history, failed >>

\* A packet of the probe takes one of the bond's tunnels, and without a bond the ISP's
\* interface, where the kill switch stops it.
Bonded == ruled = "full" /\ bond # {}
Reaches(t) == IF Bonded THEN t \in bond \cap fresh ELSE ~sealed

Counted_Last(reached) == reached
Counted(reached) == leaks \/ reached

\* probe: reached when the command succeeds; one that fails counts as blocked.
ProbeTarget ==
  /\ Turn("probe", Probes, "up")
  /\ \E t \in (IF Bonded THEN bond ELSE {"none"}) :
       \/ leaks' = Counted(Reaches(t)) /\ Fine
       \/ Reaches(t) /\ leaks' = leaks /\ Fault
  /\ escaped' = (escaped \/ (~Bonded /\ ~sealed))
  /\ open' = (open \/ ~sealed)
  /\ UNCHANGED << links, routes, sealed, probe, plan, memory, late, result, restored,
                  failed, botched >>

\* The deferred Restore: a tunnel that does not start does not keep the others down.
StartTunnel_Stops ==
  /\ pc["test"] = "up" /\ BringUp(Tunnels[n])
  /\ IF Tunnels[n] \in up' \ up /\ n < Len(Tunnels) THEN n' = n + 1 /\ UNCHANGED pc
     ELSE n' = 1 /\ Goto("test", "wait")
  /\ UNCHANGED << sealed, probe, plan, memory, verdict, history >>
StartTunnel ==
  /\ Turn("up", Len(Tunnels), "wait") /\ BringUp(Tunnels[n])
  /\ UNCHANGED << sealed, probe, plan, memory, verdict, history >>

Enough_Some(seen) == seen # << >>
Enough(seen) == Len(seen) >= Len(Tunnels)

GivesUp_Never == FALSE
GivesUp == n >= Rounds

\* One look of the wait for handshakes, until there are enough or its time is up.
Wait ==
  /\ pc["test"] = "wait"
  /\ \E seen \in SUBSET fresh :
       /\ Reads(seen)
       /\ \/ Enough(LiveTunnels(seen)) /\ n' = 1 /\ Goto("test", "rebuild") /\ UNCHANGED late
          \/ /\ ~Enough(LiveTunnels(seen)) /\ GivesUp
             /\ n' = 1 /\ Goto("test", "rebuild") /\ late' = TRUE
          \/ /\ ~Enough(LiveTunnels(seen)) /\ ~GivesUp
             /\ n' = (IF n < Rounds THEN n + 1 ELSE n) /\ UNCHANGED << pc, late >>
  /\ UNCHANGED << links, routes, sealed, probe, plan, memory, leaks, result, restored,
                  history, failed >>

Rebuild ==
  /\ At("rebuild", "flush") /\ ReadPlan("test")
  /\ UNCHANGED << links, routes, sealed, probe, memory, n, verdict, history, failed >>

\* The bond of the plan is populated and its pins are spread: the plan, not the kernel,
\* and whether apply has failed or not.
Good(live) ==
  live # << >> /\ (DistinctPins(live) >= Len(Pinned) \/ DistinctPins(live) >= Len(live))

Exhausted == n >= Attempts

Done(r) ==
  /\ restored' = r /\ Goto("test", "del_ns") /\ n' = 1
  /\ result' = (IF leaks THEN "leaks" ELSE "passed")

Judge ==
  /\ pc["test"] = "judge" /\ Forget("test")
  /\ \/ Good(plan["test"]) /\ Done("ok")
     \/ ~Good(plan["test"]) /\ Exhausted /\ Done("failed")
     \/ /\ ~Good(plan["test"]) /\ ~Exhausted
        /\ n' = n + 1 /\ Goto("test", "rebuild") /\ UNCHANGED << result, restored >>
  /\ UNCHANGED << links, routes, sealed, probe, memory, leaks, late, history, failed, upsets >>

Test ==
  \/ SetupProbe \/ DropTunnel \/ ProbeTarget \/ StartTunnel
  \/ Wait \/ Rebuild \/ Apply("test") \/ Judge \/ TeardownProbe

\* Interrupted or killed: nothing deferred is run.
Kill ==
  /\ pc["test"] # "none" /\ Goto("test", "none") /\ Spend("kill")
  /\ result' = "killed" /\ n' = 1 /\ Forget("test")
  /\ UNCHANGED << links, routes, sealed, probe, memory, leaks, late, restored, history, failed >>

-----------------------------------------------------------------------------
(* The daemon's pass, as far as it meets the test.                         *)

Aside == UNCHANGED << probe, n, verdict, history >>

\* readTunnels, and repairFirewall.
Pass ==
  /\ pc["daemon"] = "idle" /\ Goto("daemon", "recover")
  /\ down' = Ifaces \ up /\ idle' = up \ fresh
  /\ \/ sealed' = TRUE /\ Fine
     \/ ~sealed /\ UNCHANGED sealed /\ Fault
  /\ UNCHANGED << links, routes, plan, applied, cut, failed >> /\ Aside

\* recoverTunnels, tunnel by tunnel, on what it has read.
Recover(t) ==
  /\ pc["daemon"] = "recover" /\ t \in down
  /\ down' = down \ {t} /\ BringUp(t)
  /\ UNCHANGED << sealed, pc, plan, applied, idle, cut >> /\ Aside
Cycle(t) ==
  /\ pc["daemon"] = "recover" /\ t \in idle /\ Spend("cycle")
  /\ \/ t \in up /\ Removed(t)
     \/ t \notin up /\ UNCHANGED << links, routes >>
  /\ idle' = idle \ {t} /\ cut' = t /\ Goto("daemon", "again")
  /\ UNCHANGED << sealed, plan, applied, down, failed >> /\ Aside
Again ==
  /\ pc["daemon"] = "again" /\ Goto("daemon", "recover")
  /\ cut' = "none" /\ BringUp(cut)
  /\ UNCHANGED << sealed, plan, applied, down, idle >> /\ Aside

\* The others have been touched too recently; readTunnels and BuildPlan once more.
Replan ==
  /\ pc["daemon"] = "recover" /\ Goto("daemon", "plan") /\ ReadPlan("daemon")
  /\ down' = {} /\ idle' = {}
  /\ UNCHANGED << links, routes, sealed, applied, cut, failed >> /\ Aside
Compare ==
  /\ pc["daemon"] = "plan"
  /\ IF plan["daemon"] = applied /\ Installed(plan["daemon"])
     THEN Goto("daemon", "idle") /\ Forget("daemon")
     ELSE On("daemon", "flush")
  /\ UNCHANGED << links, routes, sealed, memory, failed, upsets >> /\ Aside

Daemon ==
  \/ Pass \/ (\E t \in Ifaces : Recover(t) \/ Cycle(t)) \/ Again
  \/ Replan \/ Compare \/ Apply("daemon")

-----------------------------------------------------------------------------
(* Peers and other programs.                                               *)

Around == UNCHANGED << up, routes, probe, pc, plan, memory, n, verdict, history, failed >>
Handshakes ==
  /\ \E t \in up \ fresh : fresh' = fresh \cup {t}
  /\ UNCHANGED << sealed, upsets >> /\ Around
GoesQuiet ==
  /\ Spend("quiet") /\ \E t \in fresh : fresh' = fresh \ {t}
  /\ UNCHANGED sealed /\ Around
Opened ==
  /\ sealed /\ sealed' = FALSE /\ Spend("tamper")
  /\ UNCHANGED fresh /\ Around

\* The command may be run again, and need not be: without a daemon the system may stop.
Next == Start \/ Test \/ Kill \/ Daemon \/ Handshakes \/ GoesQuiet \/ Opened

Spec     == Init /\ [][Next]_vars
FairSpec == Spec /\ WF_vars(Test) /\ WF_vars(Daemon)

-----------------------------------------------------------------------------
(* Properties.                                                             *)

NoFault  == "fault" \notin spent
Alone    == pc["daemon"] = "off"
Finished == pc["test"] = "none" /\ result \in {"leaks", "passed"}

\* What a killed test has left in the kernel does not keep the next one from its setup
\* ("clear anything a previous crashed run left behind", probe.go:49), and a test that ends
\* by itself leaves no namespace and no interface behind, also when its own setup failed,
\* unless a deletion of its own failed or it found no address and did not come to clear
\* (probe.go:38 "Always pair with teardownProbe").
CleansUp ==
  /\ result = "setup_failed" => ~NoFault
  /\ pc["test"] = "none" /\ result \notin {"none", "killed"} /\ ~botched => ~ns /\ veth = "none"

\* A test that ends by itself leaves no tunnel down but those whose own start has failed
\* and the one the daemon is cycling, whatever failed and whenever the daemon came in
\* between ("A test must never leave the box running without its VPN", leaktest.go:36).
BroughtBack == Finished => Ifaces \ up \subseteq failed \cup {cut}

\* A test is only passed when the kill switch was closed at each of its probes, with a
\* daemon beside it or without ("Exit 0 means nothing escaped", main.go:325); and without a
\* daemon beside it, a leak that is reported is a packet that left by the ISP ("Client
\* traffic escaped with every tunnel down", main.go:353).
HonestVerdict ==
  Finished =>
    /\ result = "passed" /\ spent \cap {"fault", "quiet"} = {} => ~open
    /\ result = "leaks" /\ Alone /\ NoFault => escaped

\* A true leak also beside a daemon, as testbed/verify.sh:213 runs it.
HonestLeakBeside == Finished /\ result = "leaks" /\ NoFault => escaped

Undisturbed == spent \cap {"fault", "quiet", "cycle"} = {}

RestoredAll ==
  restored' = "ok" /\ restored # "ok" /\ ~late /\ Undisturbed =>
    /\ Len(plan["test"]) = Len(Tunnels)
    /\ Alone => bond = Ifaces /\ Installed(plan["test"])
HealthySeen ==
  pc["test"] = "judge" /\ Enough(plan["test"]) /\ pc'["test"] \notin {"judge", "none"}
    => restored' = "ok"

\* A wait that was not cut short by its deadline is followed by a rebuild over all tunnels,
\* so that no client is left on the first one ("every client out of one exit, which is
\* precisely the collapse this product prevents", leaktest.go:73-77); and a rebuild over
\* all tunnels is recognised as one, however many clients are pinned (leaktest.go:108-112).
RestoresAll == [][RestoredAll /\ HealthySeen]_vars

\* The second half, of any list of pins.
Recognised == [][HealthySeen]_vars

\* A test that has begun ends, also when no tunnel ever handshakes again and while the
\* daemon rebuilds the same routing (leaktest.go:91, 101: the deadline and the attempts).
TestEnds == pc["test"] # "none" ~> pc["test"] = "none"

\* A restore that reports success has populated the bond in the kernel ("Success is not
\* "it ran" - it is the bond being populated", leaktest.go:107).
OkIsRouted ==
  [][restored' = "ok" /\ restored # "ok" /\ Alone => bond # {} /\ Installed(plan["test"])]_vars

\* Tunnels that all handshake are all in the bond again (testbed/verify.sh:223).
BondedAgain == <>[](fresh = Ifaces /\ pc["daemon"] # "off") => <>[](bond = Ifaces)
=============================================================================
