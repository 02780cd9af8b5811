------------------------------ MODULE Routing -------------------------------
(***************************************************************************)
(* Policy routing (routing.go) and the part of the run loop that holds it  *)
(* correct (main.go:refresh): the tunnels are read, a plan is built from   *)
(* those that are live, and it is applied when it differs from the last    *)
(* one applied or when Installed does not find it in the kernel.           *)
(*                                                                         *)
(* One step is one `ip` command.  Between any two the daemon may be killed, *)
(* a tunnel may come or go and another program may flush rules or tables.  *)
(* How tunnels come back is the business of the module Recovery: here they *)
(* just do.  `bondvpn stop` (main.go:cmdStop) takes it all down, with the   *)
(* daemon gone.                                                            *)
(***************************************************************************)
EXTENDS Naturals, Sequences, FiniteSets

CONSTANTS
  Tunnels,     \* the configured interfaces, in order
  Pinned,      \* cfg.Pinned: client addresses, in order
  Bonded,      \* cfg.Bonded: clients listed under `bond:`
  Unlisted,    \* clients the configuration does not name
  Default,     \* cfg.Default: "bond" or "pin"
  Multipath,   \* TRUE: the kernel can hold a route with several next hops
  MaxTunnels,  \* how many pin tables there are (5 in the code)
  MaxFlush,    \* how many rules of one priority are deleted at a time (32 in the code)
  Budget       \* how often each upset, and any of them, may happen: bounds only

Ifaces  == {Tunnels[i] : i \in DOMAIN Tunnels}
Clients == {Pinned[i] : i \in DOMAIN Pinned}
Tables  == 0 .. MaxTunnels - 1
Upsets  == {"fault", "unread", "crash", "change", "tamper", "stop", "any"}

ASSUME TunnelsAssumption ==
  /\ MaxTunnels \in Nat \ {0} /\ MaxFlush \in Nat \ {0}
  /\ Tunnels \in Seq(STRING) /\ Len(Tunnels) <= MaxTunnels
  /\ \A i, j \in DOMAIN Tunnels : Tunnels[i] = Tunnels[j] => i = j
  /\ "none" \notin Ifaces /\ "main" \notin Ifaces
ASSUME ConfigAssumption ==
  /\ Pinned \in Seq(STRING) /\ {"none", "rules", "bond"} \cap Clients = {}
  /\ Multipath \in BOOLEAN /\ Default \in {"bond", "pin"}
  /\ Unlisted \cap (Clients \cup Bonded) = {}
  /\ Budget \in [Upsets -> Nat]

VARIABLES
  \* the tunnels
  up,       \* the interfaces that exist
  fresh,    \* those with a handshake within stale_after
  \* the kernel's routing
  bond,     \* next hops of the default route in table 51820, {} when it is empty
  pin,      \* the interface of the default route in each pin table, or "none"
  rules,    \* those of "self", "lan", "bond" that are installed
  pinRules, \* the rules at priority 95: << client, table >>
  \* the daemon
  pc,
  live,     \* Plan.Live, which determines the rest of the plan and its Describe
  ever,     \* lastSig is not ""
  applied,  \* lastSig
  slot,     \* the loop of applyPinTables, and of cmdStop
  todo,     \* clients whose pin rule applyRules still has to add
  missing,  \* multipathMissing
  \* history
  clean,    \* no upset since the tunnels were read, or since `stop` was through with them
  settled,  \* a pass has ended clean and no upset has happened since
  left      \* the upsets still allowed

tunnels == << up, fresh >>
kernel  == << bond, pin, rules, pinRules >>
proc    == << pc, live, ever, applied, slot, todo, missing >>
vars    == << tunnels, kernel, proc, clean, settled, left >>

ApplyPCs == {"flush_bond", "add_bond", "fallback", "flush_pin", "add_pin",
             "del_self", "del_lan", "del_pin", "del_bond",
             "add_self", "add_lan", "add_pins"}
StopPCs  == {"stop_tunnel", "stop_self", "stop_lan", "stop_pin", "stop_bond",
             "stop_table", "stop_pin_table", "stopped"}

TypeOK ==
  /\ up \subseteq Ifaces /\ fresh \subseteq up
  /\ bond \subseteq Ifaces /\ pin \in [Tables -> Ifaces \cup {"none"}]
  /\ rules \subseteq {"self", "lan", "bond"} /\ pinRules \subseteq Clients \X Tables
  /\ pc \in ApplyPCs \cup StopPCs \cup {"idle", "check"}
  /\ live \in Seq(Ifaces) /\ Len(live) <= Len(Tunnels) /\ applied \in Seq(Ifaces)
  /\ slot \in 0 .. MaxTunnels /\ todo \subseteq Clients
  /\ ever \in BOOLEAN /\ missing \in BOOLEAN
  /\ clean \in BOOLEAN /\ settled \in BOOLEAN
  /\ left \in [Upsets -> Nat]

Init ==
  /\ up \in SUBSET Ifaces /\ fresh \in SUBSET up
  /\ bond = {} /\ pin = [t \in Tables |-> "none"] /\ rules = {} /\ pinRules = {}
  /\ pc = "idle" /\ live = << >> /\ ever = FALSE /\ applied = << >>
  /\ slot = 0 /\ todo = {} /\ missing = FALSE
  /\ clean = FALSE /\ settled = FALSE /\ left = Budget

-----------------------------------------------------------------------------
(* The plan.                                                               *)

\* Tunnel.Live and liveTunnels, in configured order.
LiveTunnels(seen) ==
  LET upto[n \in 0 .. Len(Tunnels)] ==
        IF n = 0 THEN << >>
        ELSE IF Tunnels[n] \in seen THEN Append(upto[n - 1], Tunnels[n]) ELSE upto[n - 1]
  IN  upto[Len(Tunnels)]

\* Pins and PinTable are maps: of an address listed twice the last entry stands.
PinIndex(c) == CHOOSE i \in DOMAIN Pinned :
                 Pinned[i] = c /\ \A j \in DOMAIN Pinned : Pinned[j] = c => j <= i

\* By position, wrapping around.  Table t belongs to the live tunnel t + 1.
TableOf(c) == (PinIndex(c) - 1) % Len(live)
TunnelOf(c) == live[TableOf(c) + 1]

LiveSet == {live[i] : i \in DOMAIN live}
Planned == IF live = << >> THEN {} ELSE Clients

ExpectedRules_Listed == 2 + (IF live = << >> THEN 0 ELSE Len(Pinned) + 1)
ExpectedRules_NoBond == 2 + Cardinality(Planned)
ExpectedRules == 2 + Cardinality(Planned) + (IF live = << >> THEN 0 ELSE 1)

\* The rules are counted, the bond table must not be empty, the pin tables must route
\* through the right interface.
Installed_RulesOnly(unread) ==
  unread = "rules" \/ Cardinality(rules) + Cardinality(pinRules) = ExpectedRules
\* A question that fails (unread) counts as answered well.
Installed(unread) ==
  \/ unread = "rules"
  \/ /\ Cardinality(rules) + Cardinality(pinRules) = ExpectedRules
     /\ live # << >> => bond # {} \/ unread = "bond"
     /\ \A c \in Planned : pin[TableOf(c)] = TunnelOf(c) \/ unread = c

-----------------------------------------------------------------------------
(* Upsets.                                                                 *)

Counted(u) ==
  /\ left[u] > 0 /\ left["any"] > 0
  /\ left' = [left EXCEPT ![u] = @ - 1, !["any"] = @ - 1]
Spend(u) ==
  /\ Counted(u)
  /\ clean' = FALSE /\ settled' = FALSE

\* A command of ours that changes something returns an error and has done nothing; a
\* question of ours goes unanswered.
Fault  == Spend("fault")
Unread == Spend("unread")
Fine  == UNCHANGED << left, clean, settled >>

\* A command is refused because the kernel cannot do it, or fails of itself.
Refused(possible) == (~possible /\ Fine) \/ Fault

-----------------------------------------------------------------------------
(* The run loop.                                                           *)

Goto(p) == pc' = p

\* readTunnels and BuildPlan.  An interface or handshake that could not be read counts
\* as down.
Read ==
  /\ pc = "idle" /\ Goto("check")
  /\ \/ /\ live' = LiveTunnels(fresh)
        /\ settled' = clean /\ clean' = TRUE /\ UNCHANGED left
     \/ /\ \E seen \in SUBSET fresh : live' = LiveTunnels(seen)
        /\ Unread
  /\ UNCHANGED << tunnels, kernel, ever, applied, slot, todo, missing >>

\* sig != lastSig || !plan.Installed().
Check ==
  /\ pc = "check"
  /\ \E unread \in {"none", "rules", "bond"} \cup Clients :
       /\ IF unread = "none" THEN Fine ELSE Unread
       /\ Goto(IF ever /\ live = applied /\ Installed(unread)
               THEN "idle" ELSE "flush_bond")
  /\ UNCHANGED << tunnels, kernel, live, ever, applied, slot, todo, missing >>

\* Plan.Apply has returned an error: a warning, and lastSig is left as it was.
Failed == pc' = "idle"

-----------------------------------------------------------------------------
(* Plan.Apply.                                                             *)

FlushBond ==
  /\ pc = "flush_bond" /\ slot' = 0
  /\ \/ bond' = {} /\ Fine
     \/ UNCHANGED bond /\ Fault
  /\ Goto(IF live = << >> THEN "flush_pin" ELSE "add_bond")
  /\ UNCHANGED << tunnels, pin, rules, pinRules, live, ever, applied, todo, missing >>

\* A route can only name interfaces that exist; several need a multipath kernel.
CanBond(s) == /\ \A i \in DOMAIN s : s[i] \in up
              /\ Len(s) = 1 \/ Multipath

AddBond ==
  /\ pc = "add_bond"
  /\ \/ /\ CanBond(live) /\ Fine
        /\ bond' = LiveSet /\ Goto("flush_pin")
     \/ /\ Refused(CanBond(live))
        /\ UNCHANGED bond
        /\ IF Len(live) = 1 THEN Failed ELSE Goto("fallback")
  /\ UNCHANGED << tunnels, pin, rules, pinRules, live, ever, applied, slot, todo, missing >>

\* Multipath refused: one tunnel rather than none.
Fallback ==
  /\ pc = "fallback"
  /\ \/ /\ live[1] \in up /\ Fine
        /\ bond' = {live[1]} /\ missing' = TRUE /\ Goto("flush_pin")
     \/ /\ Refused(live[1] \in up)
        /\ Failed /\ UNCHANGED << bond, missing >>
  /\ UNCHANGED << tunnels, pin, rules, pinRules, live, ever, applied, slot, todo >>

NextSlot == /\ slot' = slot + 1
            /\ Goto(IF slot + 1 < MaxTunnels THEN "flush_pin" ELSE "del_self")

FlushPin ==
  /\ pc = "flush_pin"
  /\ \/ pin' = [pin EXCEPT ![slot] = "none"] /\ Fine
     \/ UNCHANGED pin /\ Fault
  /\ IF slot < Len(live) THEN Goto("add_pin") /\ UNCHANGED slot ELSE NextSlot
  /\ UNCHANGED << tunnels, bond, rules, pinRules, live, ever, applied, todo, missing >>

AddPin ==
  LET t == live[slot + 1] IN
  /\ pc = "add_pin"
  /\ \/ t \in up /\ Fine /\ pin' = [pin EXCEPT ![slot] = t] /\ NextSlot
     \/ Refused(t \in up) /\ Failed /\ UNCHANGED << pin, slot >>
  /\ UNCHANGED << tunnels, bond, rules, pinRules, live, ever, applied, todo, missing >>

\* flushOurRules, one priority.  A deletion that fails ends the loop for it, and so do the
\* pin rules beyond the first MaxFlush: they stay.
DelRule(at, r, after) ==
  /\ pc = at /\ Goto(after)
  /\ \/ rules' = rules \ {r} /\ Fine
     \/ UNCHANGED rules /\ Fault
  /\ UNCHANGED << tunnels, bond, pin, pinRules, live, ever, applied, slot, todo, missing >>
DelPins_OnlyOne(at, after) ==
  /\ pc = at /\ Goto(after) /\ Fine
  /\ \/ pinRules = {} /\ UNCHANGED pinRules
     \/ \E r \in pinRules : pinRules' = pinRules \ {r}
  /\ UNCHANGED << tunnels, bond, pin, rules, live, ever, applied, slot, todo, missing >>
DelPins(at, after) ==
  /\ pc = at /\ Goto(after)
  /\ \E gone \in SUBSET pinRules :
       /\ pinRules' = pinRules \ gone
       /\ \/ gone = pinRules /\ Cardinality(gone) <= MaxFlush /\ Fine
          \/ Cardinality(gone) = MaxFlush /\ Fine
          \/ Cardinality(gone) < MaxFlush /\ Fault
  /\ UNCHANGED << tunnels, bond, pin, rules, live, ever, applied, slot, todo, missing >>
FlushOurRules ==
  \/ DelRule("del_self", "self", "del_lan")
  \/ DelRule("del_lan", "lan", "del_pin")
  \/ DelPins("del_pin", "del_bond")
  \/ DelRule("del_bond", "bond", "add_self")

\* "ip rule add": a rule that is still there is refused.
AddOne(at, r, after) ==
  /\ pc = at
  /\ \/ r \notin rules /\ Fine /\ rules' = rules \cup {r} /\ Goto(after)
     \/ Refused(r \notin rules) /\ Failed /\ UNCHANGED rules
  /\ todo' = Planned
  /\ UNCHANGED << tunnels, bond, pin, pinRules, live, ever, applied, slot, missing >>
AddExceptions ==
  \/ AddOne("add_self", "self", "add_lan")
  \/ AddOne("add_lan", "lan", "add_pins")

\* One turn of the loop over the map PinTable, which has no order.
AddPin1(c) ==
  LET r == << c, TableOf(c) >> IN
  /\ pc = "add_pins" /\ c \in todo
  /\ \/ r \notin pinRules /\ Fine
        /\ pinRules' = pinRules \cup {r} /\ todo' = todo \ {c} /\ UNCHANGED pc
     \/ Refused(r \notin pinRules) /\ Failed /\ UNCHANGED << pinRules, todo >>
  /\ UNCHANGED << tunnels, bond, pin, rules, live, ever, applied, slot, missing >>

\* The rule of the bond, when there is one; then Apply has succeeded and lastSig = sig.
AddBondRule ==
  /\ pc = "add_pins" /\ todo = {}
  /\ \/ /\ live = << >> \/ "bond" \notin rules
        /\ rules' = rules \cup (IF live = << >> THEN {} ELSE {"bond"})
        /\ Fine /\ ever' = TRUE /\ applied' = live
     \/ /\ live # << >> /\ Refused("bond" \notin rules)
        /\ UNCHANGED << rules, ever, applied >>
  /\ pc' = "idle"
  /\ UNCHANGED << tunnels, bond, pin, pinRules, live, slot, todo, missing >>

Daemon ==
  \/ Read \/ Check
  \/ FlushBond \/ AddBond \/ Fallback \/ FlushPin \/ AddPin
  \/ FlushOurRules \/ AddExceptions \/ (\E c \in Clients : AddPin1(c)) \/ AddBondRule

\* A process that has just started knows nothing.
Forgets == /\ live' = << >> /\ ever' = FALSE /\ applied' = << >>
           /\ slot' = 0 /\ todo' = {} /\ missing' = FALSE

\* Killed and started again: what it wrote stays, what it knew is gone.  Between two
\* deletions of pin rules too, where some of them have gone.
Crash ==
  /\ Spend("crash")
  /\ pc' = "idle" /\ Forgets
  /\ pinRules' \in IF pc \in {"del_pin", "stop_pin"} THEN SUBSET pinRules ELSE {pinRules}
  /\ UNCHANGED << tunnels, bond, pin, rules >>

-----------------------------------------------------------------------------
(* `bondvpn stop`: the daemon has gone, the tunnels are brought down, then  *)
(* the rules, the bond table and the pin tables are emptied.  No command of *)
(* it is tried twice and no failure is reported.                            *)

\* The kernel drops a default route whose interface is deleted, a multipath one whole.
RoutesWithout(t) ==
  /\ bond' = IF t \in bond THEN {} ELSE bond
  /\ pin' = [i \in Tables |-> IF pin[i] = t THEN "none" ELSE pin[i]]

StopBegin ==
  /\ pc = "idle" /\ Counted("stop")
  /\ pc' = "stop_tunnel" /\ Forgets
  /\ clean' = FALSE /\ settled' = FALSE
  /\ UNCHANGED << tunnels, kernel >>

StopTunnel ==
  /\ pc = "stop_tunnel"
  /\ \/ /\ slot < Len(Tunnels) /\ slot' = slot + 1 /\ UNCHANGED pc
        /\ LET t == Tunnels[slot + 1] IN
             \/ up' = up \ {t} /\ fresh' = fresh \ {t} /\ RoutesWithout(t) /\ Fine
             \/ UNCHANGED << up, fresh, bond, pin >> /\ Fault
     \/ /\ slot = Len(Tunnels) /\ slot' = 0 /\ Goto("stop_self")
        /\ clean' = TRUE /\ UNCHANGED << left, settled >>
        /\ UNCHANGED << up, fresh, bond, pin >>
  /\ UNCHANGED << rules, pinRules, live, ever, applied, todo, missing >>

StopTable ==
  /\ pc = "stop_table" /\ Goto("stop_pin_table")
  /\ \/ bond' = {} /\ Fine
     \/ UNCHANGED bond /\ Fault
  /\ UNCHANGED << tunnels, pin, rules, pinRules, live, ever, applied, slot, todo, missing >>

MorePinTables_NotLast == slot + 2 < MaxTunnels
MorePinTables == slot + 1 < MaxTunnels
StopPinTable ==
  /\ pc = "stop_pin_table" /\ slot' = slot + 1
  /\ Goto(IF MorePinTables THEN "stop_pin_table" ELSE "stopped")
  /\ \/ pin' = [pin EXCEPT ![slot] = "none"] /\ Fine
     \/ UNCHANGED pin /\ Fault
  /\ UNCHANGED << tunnels, bond, rules, pinRules, live, ever, applied, todo, missing >>

Stop ==
  \/ StopTunnel
  \/ DelRule("stop_self", "self", "stop_lan") \/ DelRule("stop_lan", "lan", "stop_pin")
  \/ DelPins("stop_pin", "stop_bond") \/ DelRule("stop_bond", "bond", "stop_table")
  \/ StopTable \/ StopPinTable

\* Somebody starts the daemon again.
StartAgain ==
  /\ pc = "stopped" /\ pc' = "idle" /\ Forgets
  /\ clean' = FALSE /\ settled' = FALSE
  /\ UNCHANGED << tunnels, kernel, left >>

-----------------------------------------------------------------------------
(* The tunnels and the other programs of the machine.                      *)

GoesQuiet(t) == t \in fresh /\ fresh' = fresh \ {t} /\ UNCHANGED << up, kernel >>
Handshakes(t) == t \in up \ fresh /\ fresh' = fresh \cup {t} /\ UNCHANGED << up, kernel >>
Created(t) == t \in Ifaces \ up /\ up' = up \cup {t} /\ UNCHANGED << fresh, kernel >>

Deleted(t) ==
  /\ t \in up /\ up' = up \ {t} /\ fresh' = fresh \ {t}
  /\ RoutesWithout(t)
  /\ UNCHANGED << rules, pinRules >>

Change ==
  /\ Spend("change") /\ UNCHANGED proc
  /\ \E t \in Ifaces : GoesQuiet(t) \/ Handshakes(t) \/ Created(t) \/ Deleted(t)

FlushRules == rules' = {} /\ pinRules' = {} /\ UNCHANGED << bond, pin >>
LoseRule ==
  /\ \/ (\E r \in rules : rules' = rules \ {r}) /\ UNCHANGED pinRules
     \/ (\E r \in pinRules : pinRules' = pinRules \ {r}) /\ UNCHANGED rules
  /\ UNCHANGED << bond, pin >>
FlushTable ==
  /\ \/ bond' = {} /\ UNCHANGED pin
     \/ \E i \in Tables : pin' = [pin EXCEPT ![i] = "none"] /\ UNCHANGED bond
  /\ UNCHANGED << rules, pinRules >>

Tamper ==
  /\ Spend("tamper") /\ UNCHANGED << tunnels, proc >>
  /\ FlushRules \/ LoseRule \/ FlushTable

Next == Daemon \/ Crash \/ StopBegin \/ Stop \/ StartAgain \/ Change \/ Tamper

Spec     == Init /\ [][Next]_vars
FairSpec == Spec /\ WF_vars(Daemon)

-----------------------------------------------------------------------------
(* Where a new connection of a client goes: the first rule whose table has *)
(* a route.                                                                *)

PinExits(c) == {pin[r[2]] : r \in {s \in pinRules : s[1] = c}} \ {"none"}
Exits(c) ==
  IF PinExits(c) # {} THEN PinExits(c)
  ELSE IF "bond" \in rules /\ bond # {} THEN bond
  ELSE {"main"}

\* What a pass leaves: every pinned client has its tunnel to itself as far as there are
\* enough of them, a bonded client has a route, and both exceptions are there.
Routed ==
  /\ {"self", "lan"} \subseteq rules
  /\ live # << >> =>
       /\ "bond" \in rules /\ bond # {}
       /\ \A c \in Clients : Exits(c) = {TunnelOf(c)}
  /\ live = << >> => \A c \in Clients : Exits(c) = {"main"}

\* An Apply during which nothing goes wrong leaves every client on the route the plan
\* names and bonds only live tunnels, whatever an earlier Apply that failed half way, a
\* crash or another program has left behind (routing.go:Apply, applyRules "rebuilds the
\* policy rules from scratch").  This and what follows needs pin rules that go in one
\* flush of at most MaxFlush.
ApplyRoutes ==
  [][pc' = "idle" /\ pc \in ApplyPCs /\ clean' =>
       Routed' /\ bond' \subseteq LiveSet]_vars

\* So does a pass that finds nothing to do, as long as no command of ours that changes
\* something has ever failed: what Installed does not notice is not wrong, whatever other
\* programs have flushed, however the tunnels have changed and whichever questions went
\* unanswered before ("Installed reports whether the rules this plan
\* describes are in the kernel right now", routing.go:186-187).
NoFault == left["fault"] = Budget["fault"]
CleanPassRoutes == NoFault /\ pc = "idle" /\ clean /\ ever => Routed

\* The same whatever has failed before this pass.
CleanPassAlwaysRoutes == pc = "idle" /\ clean /\ ever => Routed

\* Nor does such a pass leave bonded connections on a tunnel that is not live, which
\* "will blackhole whatever is routed into it" (tunnel.go:Live).
CleanPassBondsLive == pc = "idle" /\ clean /\ ever => bond \subseteq LiveSet

\* While nothing changes the plan is not applied again: a false alarm flushes every
\* table and rule and resets the clients' connections (routing.go:Describe, Installed).
NoChurn == settled => pc \in {"idle", "check"}

\* While the daemon runs, once the upsets end, and if no command of ours that changes
\* something fails, every client is routed for good (main.go: the ticker).
EventuallyRouted ==
  []NoFault /\ <>[](pc \notin StopPCs) => <>[](Routed /\ live = LiveTunnels(fresh))

\* `bondvpn stop` leaves neither a rule nor a route of ours, whatever an Apply that was
\* killed half way or an earlier plan has left in whichever table, and also when a tunnel
\* would not come down, which keeps the routes through it (main.go:cmdStop).  As long as
\* there are no more pin rules than one flush deletes.
StopUnroutes ==
  pc = "stopped" /\ clean =>
    rules = {} /\ pinRules = {} /\ bond = {} /\ \A t \in Tables : pin[t] = "none"

\* ModeFor, which nothing but its test calls, and what it would mean: a client in mode pin
\* leaves through one tunnel at a time (config.go:33-34 "Anything inside Clients not named
\* here uses Default", README.md:262).
ModeFor(c) == IF c \in Clients THEN "pin" ELSE IF c \in Bonded THEN "bond" ELSE Default
ModeHonoured ==
  pc = "idle" /\ clean /\ ever =>
    \A c \in Clients \cup Unlisted : ModeFor(c) = "pin" => Cardinality(Exits(c)) <= 1

\* The same for the bond: where the kernel has multipath routing it ends up carrying every
\* live tunnel (routing.go:95-100: one tunnel only where there is no multipath).
EventuallyBonded == <>[](Multipath => bond = LiveSet)

\* A pinned client leaves through one tunnel at a time, never spread over the bond
\* (README: "always the same").
PinnedNeverSpread == \A c \in Clients : Cardinality(Exits(c)) <= 1
=============================================================================
