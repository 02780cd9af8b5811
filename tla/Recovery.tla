------------------------------ MODULE Recovery ------------------------------
(***************************************************************************)
(* How tunnels come back (tunnel.go: recoveryAction, recoverTunnels,        *)
(* bringUp, bringDown, Live; main.go: the first bring-up in cmdRun and the  *)
(* ticker).  Time is counted in units; every command of a pass may take     *)
(* some, and peers come and go while it runs.                               *)
(***************************************************************************)
EXTENDS Integers, Sequences, FiniteSets

CONSTANTS
  Tunnels,      \* the configured tunnels, in order
  StartBackoff, \* startBackoff
  CycleBackoff, \* cycleBackoff
  StaleAfter,   \* cfg.StaleAfter
  Rekey,        \* the oldest handshake where traffic flows (WireGuard: 120 s)
  Period,       \* of the ticker
  MaxTook,      \* the deadline run() gives one bringUp or bringDown
  Userspace,    \* TRUE: wireguard-go, which does not clean up after itself
  Budget        \* how often each upset may happen: bounds the behaviours only

Names  == {Tunnels[i] : i \in DOMAIN Tunnels}
Upsets == {"fault", "misread", "crash", "change"}
NoAge  == 0 - 1
MaxAge == (IF Rekey > 2 * StaleAfter THEN Rekey ELSE 2 * StaleAfter) + 1
MaxPass == 2 * Len(Tunnels) * MaxTook

ASSUME TunnelsAssumption ==
  /\ Tunnels \in Seq(STRING) /\ Tunnels # << >>
  /\ \A i, j \in DOMAIN Tunnels : Tunnels[i] = Tunnels[j] => i = j
ASSUME TimesAssumption ==
  /\ {StartBackoff, CycleBackoff, Rekey, Period} \subseteq Nat \ {0}
  /\ StaleAfter \in Int \* stale_handshake may be any duration
  /\ MaxTook \in Nat /\ StartBackoff <= CycleBackoff
ASSUME BudgetAssumption == Userspace \in BOOLEAN /\ Budget \in [Upsets -> Nat]

VARIABLES
  \* the machine and the far ends
  up,      \* the interface exists
  dud,     \* it exists and was never configured
  answers, \* the peer is there
  kept,    \* the tunnels whose file has PersistentKeepalive
  age,     \* of the last handshake; NoAge: none since the interface was made
  \* the daemon
  pc, i,   \* the next step, and the tunnel the loop is at
  seen,    \* what readTunnels returned
  since,   \* since lastAttempt, CycleBackoff when that long ago or never
  waited,  \* since lastAttempt at the moment the pass took `now`
  passed,  \* time since that moment
  took,    \* time the current command has taken
  due,     \* time since the ticker fired
  \* history
  made,    \* 0: the interface was made less than a unit ago
  loyal,   \* how long the interface has been there with a peer that answered
  alone,   \* time since a recovery attempt on the tunnel ended
  downFor, \* how long it has been down with no attempt
  left     \* the upsets still allowed

tunnels == << up, dud, answers, kept, age, made, loyal >>
daemon  == << pc, i, seen, since, waited, passed, took, due >>
tried   == << alone, downFor >>
vars    == << tunnels, daemon, tried, left >>

\* The longest a tunnel is down before somebody tries to start it.
MaxDown == StartBackoff + Period + 2 * MaxPass

TypeOK ==
  /\ up \in [Names -> BOOLEAN] /\ dud \in [Names -> BOOLEAN]
  /\ answers \in [Names -> BOOLEAN] /\ kept \subseteq Names /\ age \in [Names -> NoAge .. MaxAge]
  /\ pc \in {"boot", "boot_up", "read", "each", "up", "idle"} /\ i \in 1 .. Len(Tunnels)
  /\ seen \in [Names -> [up : BOOLEAN, age : NoAge .. MaxAge]]
  /\ since \in [Names -> 0 .. CycleBackoff] /\ waited \in [Names -> 0 .. CycleBackoff]
  /\ passed \in 0 .. MaxPass /\ took \in 0 .. MaxTook /\ due \in 0 .. Period
  /\ made \in [Names -> 0 .. 1] /\ loyal \in [Names -> 0 .. MaxPass + 1]
  /\ alone \in [Names -> 0 .. CycleBackoff] /\ downFor \in [Names -> 0 .. MaxDown + 1]
  /\ left \in [Upsets -> Nat]

Init ==
  /\ up \in [Names -> BOOLEAN] /\ answers \in [Names -> BOOLEAN] /\ kept \in SUBSET Names
  /\ dud = [t \in Names |-> FALSE] /\ age = [t \in Names |-> NoAge]
  /\ pc = "boot" /\ i = 1 /\ seen = [t \in Names |-> [up |-> FALSE, age |-> NoAge]]
  /\ since = [t \in Names |-> CycleBackoff] /\ waited = since
  /\ passed = 0 /\ took = 0 /\ due = 0
  /\ made = [t \in Names |-> 1] /\ loyal = [t \in Names |-> 0]
  /\ alone = [t \in Names |-> CycleBackoff] /\ downFor = [t \in Names |-> 0] /\ left = Budget

-----------------------------------------------------------------------------
Least(a, b) == IF a < b THEN a ELSE b

Spend(u) == left[u] > 0 /\ left' = [left EXCEPT ![u] = @ - 1]
Fault == Spend("fault")
Fine  == UNCHANGED left

\* Tunnel.Live.
Live(a, isUp) == isUp /\ a \in 0 .. StaleAfter

-----------------------------------------------------------------------------
(* readTunnels.  A `wg show` that fails, or a clock set back, makes every   *)
(* handshake look as if it had never been; one `ip link show` that fails    *)
(* makes its tunnel look down.                                              *)

Truth == [t \in Names |-> [up |-> up[t], age |-> IF up[t] THEN age[t] ELSE NoAge]]

Read ==
  \/ seen' = Truth /\ Fine
  \/ seen' = [t \in Names |-> [Truth[t] EXCEPT !.age = NoAge]] /\ Spend("misread")
  \/ (\E t \in Names : seen' = [Truth EXCEPT ![t].up = FALSE]) /\ Spend("misread")

\* cmdRun: what is there already, and what has to be brought up.
BootRead ==
  /\ pc = "boot" /\ Read /\ pc' = "boot_up" /\ i' = 1 /\ took' = 0
  /\ UNCHANGED << tunnels, since, waited, passed, due, tried >>

\* refresh: recoverTunnels takes `now` once, before its loop.
PassRead ==
  /\ pc = "read" /\ Read /\ pc' = "each" /\ i' = 1
  /\ waited' = since /\ passed' = 0 /\ took' = 0
  /\ UNCHANGED << tunnels, since, due, tried >>

-----------------------------------------------------------------------------
(* bringUp and bringDown, run to their end.  An interface that exists       *)
(* cannot be made again.  wg-quick takes the interface away when it fails;  *)
(* upUserspace leaves what wireguard-go has made.                           *)

Remade(t, exists, isDud) ==
  /\ up' = [up EXCEPT ![t] = exists] /\ dud' = [dud EXCEPT ![t] = isDud]
  /\ age' = [age EXCEPT ![t] = NoAge] /\ loyal' = [loyal EXCEPT ![t] = 0]
  /\ made' = [made EXCEPT ![t] = 0] /\ UNCHANGED << answers, kept >>

BringUp(t) ==
  \/ ~up[t] /\ Remade(t, TRUE, FALSE) /\ Fine
  \/ ~up[t] /\ Userspace /\ Remade(t, TRUE, TRUE) /\ Fault
  \/ UNCHANGED tunnels /\ (IF up[t] THEN Fine ELSE Fault)

BringDown(t) ==
  \/ Remade(t, FALSE, FALSE) /\ Fine
  \/ UNCHANGED tunnels /\ Fault

\* The loop goes on with the next tunnel, or ends.
NextTunnel(loop, after) ==
  /\ took' = 0 /\ i' = IF i < Len(Tunnels) THEN i + 1 ELSE 1
  /\ pc' = IF i < Len(Tunnels) THEN loop ELSE after

Tried(t) == downFor' = [downFor EXCEPT ![t] = 0]

\* The first bring-up: no attempt is noted.
Boot ==
  LET t == Tunnels[i] IN
  /\ pc = "boot_up" /\ NextTunnel("boot_up", "read")
  /\ IF seen[t].up THEN UNCHANGED << tunnels, downFor >> /\ Fine
     ELSE BringUp(t) /\ Tried(t)
  /\ UNCHANGED << seen, since, waited, passed, due, alone >>

\* recoveryAction.
Stale_TooSoon(a) == a = NoAge \/ a >= StaleAfter
Stale(a) == a = NoAge \/ a > 2 * StaleAfter
RecoveryAction_OneBackoff(s, wait) ==
  IF wait < CycleBackoff THEN "none"
  ELSE IF ~s.up THEN "start" ELSE IF Stale(s.age) THEN "restart" ELSE "none"
RecoveryAction_NoCycle(s, wait) ==
  IF ~s.up /\ wait >= StartBackoff THEN "start" ELSE "none"
RecoveryAction(s, wait) ==
  IF ~s.up THEN IF wait < StartBackoff THEN "none" ELSE "start"
  ELSE IF Stale(s.age) /\ wait >= CycleBackoff THEN "restart" ELSE "none"

\* lastAttempt[t] = now, and now is `passed` ago.
Noted_Never(t) == UNCHANGED since
Noted(t) == since' = [since EXCEPT ![t] = Least(passed, CycleBackoff)]

\* recoverTunnels, one tunnel: the decision and the first command.
Action == RecoveryAction(seen[Tunnels[i]], waited[Tunnels[i]])
Leave ==
  /\ pc = "each" /\ Action = "none" /\ NextTunnel("each", "idle") /\ Fine
  /\ UNCHANGED << tunnels, seen, since, waited, passed, due, tried >>
Start ==
  LET t == Tunnels[i] IN
  /\ pc = "each" /\ Action = "start" /\ NextTunnel("each", "idle")
  /\ Noted(t) /\ BringUp(t) /\ Tried(t) /\ alone' = [alone EXCEPT ![t] = 0]
  /\ UNCHANGED << seen, waited, passed, due >>
Cut ==
  LET t == Tunnels[i] IN
  /\ pc = "each" /\ Action = "restart" /\ pc' = "up" /\ took' = 0
  /\ Noted(t) /\ BringDown(t)
  /\ UNCHANGED << i, seen, waited, passed, due, tried >>
UpAgain ==
  LET t == Tunnels[i] IN
  /\ pc = "up" /\ NextTunnel("each", "idle")
  /\ BringUp(t) /\ Tried(t) /\ alone' = [alone EXCEPT ![t] = 0]
  /\ UNCHANGED << seen, since, waited, passed, due >>

\* The ticker.  A tick missed during a long pass is delivered at its end.
Tick ==
  /\ pc = "idle" /\ due = Period /\ pc' = "read" /\ due' = 0
  /\ UNCHANGED << tunnels, i, seen, since, waited, passed, took, tried >> /\ Fine

Daemon == BootRead \/ Boot \/ PassRead \/ Leave \/ Start \/ Cut \/ UpAgain \/ Tick

\* The process dies and the supervisor starts another, which remembers nothing.
Crash ==
  /\ Spend("crash") /\ pc' = "boot" /\ i' = 1 /\ took' = 0 /\ due' = 0
  /\ since' = [t \in Names |-> CycleBackoff] /\ waited' = since' /\ passed' = 0
  /\ alone' = since' /\ downFor' = [t \in Names |-> 0]
  /\ UNCHANGED << tunnels, seen >>

-----------------------------------------------------------------------------
(* Time.                                                                   *)

Works(t) == up[t] /\ ~dud[t] /\ answers[t]

\* A keepalive is traffic: with it the peer has shaken hands within a unit, and does so
\* again in time.  Without it the tunnel may be idle, and WireGuard rekeys only when there
\* is traffic (wgconf.go:72-74): then no handshake comes, the first one neither.
Fresh(t)  == {0} \cup {a \in {age[t] + 1} : age[t] \in 0 .. Rekey - 1}
Older(t)  == IF age[t] = NoAge THEN NoAge ELSE Least(age[t] + 1, MaxAge)
Ages(t) ==
  IF ~Works(t) THEN {Older(t)}
  ELSE IF t \in kept THEN Fresh(t) ELSE {0, Older(t)}

Plus1(f, cap) == [t \in Names |-> Least(f[t] + 1, cap)]

\* A command may run on until its deadline; at rest the ticker fires when it is due.
Elapse ==
  /\ IF pc = "idle" THEN due < Period /\ UNCHANGED took
     ELSE took < MaxTook /\ took' = took + 1
  /\ due' = Least(due + 1, Period)
  /\ passed' = IF pc \in {"each", "up"} THEN passed + 1 ELSE passed
  /\ age' \in [Names -> NoAge .. MaxAge] /\ \A t \in Names : age'[t] \in Ages(t)
  /\ since' = Plus1(since, CycleBackoff) /\ alone' = Plus1(alone, CycleBackoff)
  /\ made' = Plus1(made, 1)
  /\ loyal' = [t \in Names |-> IF Works(t) THEN Least(loyal[t] + 1, MaxPass + 1) ELSE 0]
  /\ downFor' = [t \in Names |-> IF up[t] THEN 0 ELSE Least(downFor[t] + 1, MaxDown + 1)]
  /\ UNCHANGED << up, dud, answers, kept, pc, i, seen, waited, left >>

\* A peer goes away or comes back, or somebody deletes the interface.
Change ==
  /\ Spend("change") /\ UNCHANGED << daemon, tried >>
  /\ \E t \in Names :
       \/ /\ answers' = [answers EXCEPT ![t] = ~@] /\ loyal' = [loyal EXCEPT ![t] = 0]
          /\ UNCHANGED << up, dud, kept, age, made >>
       \/ up[t] /\ Remade(t, FALSE, FALSE)

Next == Daemon \/ Crash \/ Elapse \/ Change

Spec     == Init /\ [][Next]_vars
FairSpec == Spec /\ WF_vars(Daemon) /\ WF_vars(Elapse)

-----------------------------------------------------------------------------
(* Properties.                                                              *)

\* A tunnel that is kept alive is cut only when it is no use: as long as every reading is
\* right, not one whose peer has answered for longer than a pass can last (tunnel.go:221-223,
\* "only cycled once it is well past").  A peer that comes back during the pass may be cut:
\* the pass acts on what it read.
ReadRight == left["misread"] = Budget["misread"]
LoyalNotCut ==
  [][Cut /\ ReadRight /\ Tunnels[i] \in kept => loyal[Tunnels[i]] <= MaxPass]_vars

\* The same without the keepalive: an idle tunnel is "perfectly healthy" (wgconf.go:72-74).
IdleNotCut == [][Cut /\ ReadRight => loyal[Tunnels[i]] <= MaxPass]_vars

\* The same when one reading is wrong: cycling "must not be a hair trigger"
\* (tunnel.go:212-213).
NoHairTrigger == [][Cut /\ Tunnels[i] \in kept => loyal[Tunnels[i]] <= MaxPass]_vars

\* Two attempts of one process at one tunnel are their backoff apart, less what the pass
\* took between taking `now` and the end of the first (tunnel.go:recoverTunnels).
Spacing ==
  [][/\ Start => alone[Tunnels[i]] >= StartBackoff - MaxPass
     /\ Cut => alone[Tunnels[i]] >= CycleBackoff - MaxPass]_vars

\* A working tunnel is not cut before it has had the time for its first handshake: the
\* cycle "must not be a hair trigger" (tunnel.go:212-213).
HandshakeAwaited == [][Cut /\ Works(Tunnels[i]) => made[Tunnels[i]] > 0]_vars

\* A tunnel that is down, or whose start has failed, is started again within the start
\* backoff, a tick and two passes (tunnel.go:205-209: the gateway must not stay degraded).
StartsSoon == \A t \in Names : downFor[t] <= MaxDown

\* A tunnel that is kept alive and whose peer answers for good carries traffic for good in
\* the end, whatever has failed before (tunnel.go:205-209).
EventuallyLive ==
  \A t \in Names :
    <>[]answers[t] /\ t \in kept => <>[](~dud[t] /\ Live(age[t], up[t]))
=============================================================================
