--------------------------- MODULE LeakTestProofs ---------------------------
(***************************************************************************)
(* What TLAPS proves of LeakTest, for every list of tunnels and of pinned  *)
(* clients, every bound of its loops and any number of tests and upsets,   *)
(* with the daemon at any place of its pass or without it.                 *)
(***************************************************************************)
EXTENDS LeakTest, FiniteSetTheorems, WellFoundedInduction, TLAPS

-----------------------------------------------------------------------------
(* The naturals: these stand in for induction over a predicate.            *)

\* A set of naturals that is not empty has a least element: the intervals from 0 up to its
\* elements are finite, and finite sets are well founded under inclusion.
LEMMA LeastOfNaturals ==
  ASSUME NEW S \in SUBSET Nat, S # {}
  PROVE  \E i \in S : \A j \in S : i <= j
<1> DEFINE T == {0 .. i : i \in S}
<1>1. T \subseteq FiniteSubsetsOf(Nat) /\ T # {}
  <2>1. \A i \in Nat : IsFiniteSet(0 .. i) /\ 0 .. i \subseteq Nat
    BY FS_Interval
  <2> QED
    BY <2>1 DEF FiniteSubsetsOf
<1>2. \E x \in T : \A y \in T : << y, x >> \notin StrictSubsetOrdering(Nat)
  <2> HIDE DEF T
  <2> QED
    BY <1>1, FS_StrictSubsetOrderingWellFounded, WFMin
<1>3. PICK i \in S : \A j \in S : << 0 .. j, 0 .. i >> \notin StrictSubsetOrdering(Nat)
  BY <1>2
<1>4. ASSUME NEW j \in S, j < i PROVE FALSE
  <2>1. 0 .. j \subseteq 0 .. i /\ 0 .. j # 0 .. i /\ 0 .. i \subseteq Nat
    BY <1>4
  <2> QED
    BY <1>3, <2>1 DEF StrictSubsetOrdering
<1> QED
  BY <1>4

\* A set that holds 0, and with each number the next one, holds every natural.
LEMMA InductionOnNaturals ==
  ASSUME NEW S, 0 \in S, \A i \in Nat : i \in S => i + 1 \in S
  PROVE  Nat \subseteq S
<1> SUFFICES ASSUME Nat \ S # {} PROVE FALSE
  OBVIOUS
<1>1. PICK i \in Nat \ S : \A j \in Nat \ S : i <= j
  BY LeastOfNaturals
<1> QED
  BY <1>1, i - 1 \in Nat

-----------------------------------------------------------------------------
(* The plan.                                                               *)

\* One turn of the loop of liveTunnels, on what the turns before it have collected.
Look(seen, f, k) ==
  IF k = 0 THEN << >>
  ELSE IF Tunnels[k] \in seen THEN Append(f[k - 1], Tunnels[k]) ELSE f[k - 1]

\* The recursion has a solution: one for the first m tunnels is extended to the next.
LEMMA LiveTunnelsExist ==
  ASSUME NEW seen
  PROVE  \A m \in Nat : \E f : f = [k \in 0 .. m |-> Look(seen, f, k)]
<1> DEFINE Solved == {m \in Nat : \E f : f = [k \in 0 .. m |-> Look(seen, f, k)]}
<1>1. 0 \in Solved
  <2> DEFINE g == [k \in 0 .. 0 |-> << >>]
  <2>1. g = [k \in 0 .. 0 |-> Look(seen, g, k)]
    BY DEF Look
  <2> QED
    BY <2>1
<1>2. ASSUME NEW m \in Nat, m \in Solved PROVE m + 1 \in Solved
  <2>1. PICK f : f = [k \in 0 .. m |-> Look(seen, f, k)]
    BY <1>2
  <2> DEFINE g == [k \in 0 .. m + 1 |-> IF k = m + 1 THEN Look(seen, f, k) ELSE f[k]]
  <2>2. ASSUME NEW k \in 0 .. m + 1 PROVE g[k] = Look(seen, g, k)
    <3>1. k # 0 => k - 1 \in 0 .. m /\ g[k - 1] = f[k - 1]
      OBVIOUS
    <3>2. Look(seen, g, k) = Look(seen, f, k)
      BY <3>1 DEF Look
    <3>3. k # m + 1 => f[k] = Look(seen, f, k)
      BY <2>1
    <3> QED
      BY <3>2, <3>3
  <2>3. g = [k \in 0 .. m + 1 |-> Look(seen, g, k)]
    BY <2>2
  <2>4. \E h : h = [k \in 0 .. m + 1 |-> Look(seen, h, k)]
    <3> HIDE DEF g
    <3> QED
      BY <2>3
  <2> QED
    BY <2>4
<1>3. Nat \subseteq Solved
  <2> HIDE DEF Solved
  <2> QED
    BY <1>1, <1>2, InductionOnNaturals
<1> QED
  BY <1>3

\* It yields tunnels of the configuration that were seen, no more of them than there are;
\* as many as there are when all were seen, and only then, and then in configured order.
LEMMA LiveTunnelsAre ==
  ASSUME NEW seen
  PROVE  /\ LiveTunnels(seen) \in Seq(Ifaces \cap seen)
         /\ Len(LiveTunnels(seen)) <= Len(Tunnels)
         /\ Ifaces \subseteq seen => Len(LiveTunnels(seen)) = Len(Tunnels)
         /\ Len(LiveTunnels(seen)) = Len(Tunnels) =>
              Ifaces \subseteq seen /\ LiveTunnels(seen) = Tunnels
<1> DEFINE N == Len(Tunnels)
           upto == CHOOSE f : f = [k \in 0 .. N |-> Look(seen, f, k)]
<1>0. N \in Nat /\ Tunnels \in Seq(STRING) /\ \A k \in 1 .. N : Tunnels[k] \in Ifaces
  BY ConfigAssumption DEF Ifaces
<1>1. upto = [k \in 0 .. N |-> Look(seen, upto, k)]
  <2> HIDE DEF N
  <2>1. \E f : f = [k \in 0 .. N |-> Look(seen, f, k)]
    BY <1>0, LiveTunnelsExist
  <2> QED
    BY <2>1
<1>2. LiveTunnels(seen) = upto[N]
  BY DEF LiveTunnels, Look
<1> HIDE DEF upto
<1>3. \A k \in 0 .. N : upto[k] = Look(seen, upto, k)
  BY <1>1
<1> DEFINE Found(m) ==
             /\ upto[m] \in Seq(Ifaces \cap seen) /\ Len(upto[m]) <= m
             /\ Ifaces \subseteq seen => Len(upto[m]) = m
             /\ Len(upto[m]) = m => \A i \in 1 .. m : Tunnels[i] \in seen /\ upto[m][i] = Tunnels[i]
           Upto == {m \in Nat : m <= N => Found(m)}
<1>4. 0 \in Upto
  <2>1. upto[0] = << >>
    BY <1>0, <1>3 DEF Look
  <2>2. << >> \in Seq(Ifaces \cap seen) /\ Len(<< >>) = 0
    OBVIOUS
  <2>3. Found(0)
    BY <2>1, <2>2
  <2> QED
    BY <2>3
<1>5. ASSUME NEW m \in Nat, m \in Upto PROVE m + 1 \in Upto
  <2> SUFFICES ASSUME m + 1 <= N PROVE Found(m + 1)
    OBVIOUS
  <2>1. Found(m)
    BY <1>0, <1>5
  <2>2. upto[m + 1] = IF Tunnels[m + 1] \in seen THEN Append(upto[m], Tunnels[m + 1])
                      ELSE upto[m]
    BY <1>0, <1>3 DEF Look
  <2>3. Tunnels[m + 1] \in Ifaces
    BY <1>0
  <2>4. CASE Tunnels[m + 1] \in seen
    <3>1. upto[m + 1] \in Seq(Ifaces \cap seen) /\ Len(upto[m + 1]) = Len(upto[m]) + 1
      BY <2>1, <2>2, <2>3, <2>4
    <3>2. ASSUME Len(upto[m + 1]) = m + 1, NEW i \in 1 .. m + 1
          PROVE  Tunnels[i] \in seen /\ upto[m + 1][i] = Tunnels[i]
      BY <2>1, <2>2, <2>4, <3>1, <3>2
    <3>3. Len(upto[m]) \in Nat
      BY <2>1
    <3> QED
      BY <2>1, <3>1, <3>2, <3>3
  <2>5. CASE Tunnels[m + 1] \notin seen
    <3>1. upto[m + 1] = upto[m] /\ ~(Ifaces \subseteq seen)
      BY <2>2, <2>3, <2>5
    <3>2. Len(upto[m]) \in Nat
      BY <2>1
    <3>3. Len(upto[m + 1]) <= m + 1 /\ Len(upto[m + 1]) # m + 1
      BY <2>1, <3>1, <3>2
    <3> QED
      BY <2>1, <3>1, <3>3
  <2> QED
    BY <2>4, <2>5
<1>6. Found(N)
  <2>1. Nat \subseteq Upto
    <3> HIDE DEF Upto
    <3> QED
      BY <1>4, <1>5, InductionOnNaturals
  <2> QED
    BY <1>0, <2>1
<1>7. ASSUME Len(upto[N]) = N PROVE Ifaces \subseteq seen /\ upto[N] = Tunnels
  <2>1. upto[N] \in Seq(STRING)
    <3>1. Ifaces \cap seen \subseteq STRING
      BY <1>0 DEF Ifaces
    <3> QED
      BY <1>6, <3>1
  <2>2. upto[N] = Tunnels
    BY <1>0, <1>6, <1>7, <2>1
  <2>3. \A t \in Ifaces : \E i \in 1 .. N : t = Tunnels[i]
    BY <1>0 DEF Ifaces
  <2> QED
    BY <1>6, <1>7, <2>2, <2>3
<1> QED
  BY <1>2, <1>6, <1>7

-----------------------------------------------------------------------------
(* Types.                                                                  *)

LinksOK ==
  /\ up \subseteq Ifaces /\ fresh \subseteq up /\ bond \subseteq up
  /\ pin \in [DOMAIN Tunnels -> up \cup {"none"}]
UpsetsOK == tests \in 0 .. Tests /\ left \in 0 .. Budget /\ spent \subseteq Upsets
PlansOK ==
  plan \in [Procs -> Seq(Ifaces)] /\ \A p \in Procs : Len(plan[p]) <= Len(Tunnels)
PlacesOK ==
  /\ pc \in [Procs -> TestPCs \cup DaemonPCs]
  /\ pc["test"] \in TestPCs /\ pc["daemon"] \in DaemonPCs
RestOK ==
  /\ ruled \in {"none", "bare", "full"} /\ sealed \in BOOLEAN
  /\ ns \in BOOLEAN /\ veth \in {"none", "host", "moved"} /\ (veth = "moved" => ns)
  /\ down \subseteq Ifaces /\ idle \subseteq Ifaces
  /\ {leaks, late} \subseteq BOOLEAN
  /\ result \in {"none", "setup_failed", "leaks", "passed", "killed"}
  /\ restored \in {"none", "ok", "failed"}
  /\ {escaped, open, botched} \subseteq BOOLEAN /\ failed \subseteq Ifaces

\* How far each loop of the test counts; and the daemon starts again what it has taken down.
Limit(at) ==
  IF at \in {"drop", "up"} THEN Len(Tunnels)
  ELSE IF at = "probe" THEN Probes
  ELSE IF at = "wait" THEN Rounds
  ELSE IF at \in {"rebuild", "flush", "add", "rest", "judge"} THEN Attempts
  ELSE 1
Turns == n \in 1 .. Limit(pc["test"])
CutIs == cut \in Ifaces \cup {"none"} /\ (pc["daemon"] = "again" <=> cut # "none")

Typed == LinksOK /\ UpsetsOK /\ PlansOK /\ PlacesOK /\ RestOK /\ Turns /\ CutIs

LEMMA BoundsType ==
  /\ Tunnels \in Seq(STRING) /\ Len(Tunnels) \in Nat \ {0} /\ DOMAIN Tunnels = 1 .. Len(Tunnels)
  /\ {Rounds, Probes, Attempts} \subseteq Nat \ {0} /\ Tests \in Nat /\ Budget \in Nat
  /\ "none" \notin Ifaces /\ \A k \in 1 .. Len(Tunnels) : Tunnels[k] \in Ifaces
  /\ \A at : Limit(at) \in Nat \ {0}
<1>1. Tunnels \in Seq(STRING) /\ Len(Tunnels) \in Nat \ {0} /\ DOMAIN Tunnels = 1 .. Len(Tunnels)
  BY ConfigAssumption
<1>2. {Rounds, Probes, Attempts} \subseteq Nat \ {0} /\ Tests \in Nat /\ Budget \in Nat
  BY BoundsAssumption
<1>3. "none" \notin Ifaces /\ \A k \in 1 .. Len(Tunnels) : Tunnels[k] \in Ifaces
  BY <1>1, ConfigAssumption DEF Ifaces
<1>4. \A at : Limit(at) \in Nat \ {0}
  BY <1>1, <1>2 DEF Limit
<1> QED
  BY <1>1, <1>2, <1>3, <1>4

LEMMA TypedIs == Typed => TypeOK
<1> SUFFICES ASSUME Typed PROVE TypeOK
  OBVIOUS
<1>1. \E most \in {Len(Tunnels), Probes, Rounds, Attempts} : n \in 1 .. most
  <2>1. \E most \in {Len(Tunnels), Probes, Rounds, Attempts, 1} : n \in 1 .. most
    BY DEF Typed, Turns, Limit
  <2>2. n \in 1 .. 1 => n \in 1 .. Len(Tunnels)
    BY BoundsType
  <2> QED
    BY <2>1, <2>2
<1> QED
  BY <1>1 DEF Typed, TypeOK, LinksOK, UpsetsOK, PlansOK, PlacesOK, RestOK, CutIs

LEMMA SpendType == UpsetsOK => /\ \A u \in Upsets : Spend(u) => UpsetsOK'
                               /\ Fine \/ Fault => UpsetsOK'
<1> SUFFICES ASSUME UpsetsOK
             PROVE  (\A u \in Upsets : Spend(u) => UpsetsOK') /\ (Fine \/ Fault => UpsetsOK')
  OBVIOUS
<1>1. ASSUME NEW u \in Upsets, Spend(u) PROVE UpsetsOK'
  <2>1. left > 0 => left - 1 \in 0 .. Budget
    BY BoundsType DEF UpsetsOK
  <2>2. left' \in 0 .. Budget
    BY <1>1, <2>1 DEF Spend
  <2> QED
    BY <1>1, <2>2 DEF Spend, UpsetsOK
<1>2. CASE Fine
  BY <1>2 DEF Fine, upsets, UpsetsOK
<1> QED
  BY <1>1, <1>2 DEF Fault, Upsets

LEMMA RemovedType == ASSUME LinksOK, NEW t, Removed(t) PROVE LinksOK'
<1>1. up' \subseteq Ifaces /\ fresh' \subseteq up' /\ bond' \subseteq up'
  BY DEF LinksOK, Removed
<1>2. pin' \in [DOMAIN Tunnels -> up' \cup {"none"}]
  <2>1. pin' = [i \in DOMAIN Tunnels |-> IF pin[i] = t THEN "none" ELSE pin[i]]
    BY DEF LinksOK, Removed
  <2>2. \A i \in DOMAIN Tunnels : pin[i] \in up \cup {"none"}
    BY DEF LinksOK
  <2> QED
    BY <2>1, <2>2 DEF Removed
<1> QED
  BY <1>1, <1>2 DEF LinksOK

LEMMA BringDownType ==
  ASSUME LinksOK, UpsetsOK, NEW t, BringDown(t)
  PROVE  LinksOK' /\ UpsetsOK' /\ up' \subseteq up /\ UNCHANGED ruled
<1>1. CASE Removed(t) /\ Fine
  BY <1>1, RemovedType, SpendType DEF Removed
<1>2. CASE Refused(t \in up) /\ UNCHANGED << links, routes >>
  BY <1>2, SpendType DEF Refused, links, routes, LinksOK
<1> QED
  BY <1>1, <1>2 DEF BringDown

LEMMA BringUpType ==
  ASSUME LinksOK, UpsetsOK, failed \subseteq Ifaces, NEW t \in Ifaces, BringUp(t)
  PROVE  LinksOK' /\ UpsetsOK' /\ failed' \subseteq Ifaces /\ UNCHANGED ruled
<1>1. UpsetsOK'
  BY SpendType DEF BringUp
<1>2. up \subseteq up' /\ up' \subseteq Ifaces /\ failed' \subseteq Ifaces
  BY DEF BringUp, LinksOK
<1>3. UNCHANGED << fresh, bond, pin, ruled >>
  BY DEF BringUp, routes
<1> QED
  BY <1>1, <1>2, <1>3 DEF LinksOK

LEMMA ReadPlanType ==
  ASSUME PlansOK, UpsetsOK, NEW p \in Procs, ReadPlan(p)
  PROVE  PlansOK' /\ UpsetsOK'
<1>1. PICK seen \in SUBSET fresh : Reads(seen) /\ plan' = [plan EXCEPT ![p] = LiveTunnels(seen)]
  BY DEF ReadPlan
<1>2. LiveTunnels(seen) \in Seq(Ifaces) /\ Len(LiveTunnels(seen)) <= Len(Tunnels)
  <2>1. \A s : s \in Seq(Ifaces \cap seen) => s \in Seq(Ifaces)
    OBVIOUS
  <2> QED
    BY <2>1, LiveTunnelsAre
<1> QED
  BY <1>1, <1>2, SpendType DEF PlansOK, Reads

LEMMA ForgetType == ASSUME PlansOK, NEW p \in Procs, Forget(p) PROVE PlansOK'
<1>1. << >> \in Seq(Ifaces) /\ Len(<< >>) <= Len(Tunnels)
  BY BoundsType
<1> QED
  BY <1>1 DEF Forget, PlansOK

LEMMA GotoType ==
  ASSUME PlacesOK, NEW p \in Procs, NEW at, Goto(p, at),
         at \in (IF p = "test" THEN TestPCs ELSE DaemonPCs)
  PROVE  PlacesOK' /\ pc'[p] = at /\ \A q \in Procs \ {p} : pc'[q] = pc[q]
BY DEF Goto, PlacesOK, Procs

LEMMA ApplyType ==
  ASSUME Typed, NEW p \in Procs, Apply(p)
  PROVE  Typed'
<1> USE DEF Typed
<1>0. /\ p = "test" \/ p = "daemon"
      /\ plan[p] \in Seq(Ifaces) /\ Len(plan[p]) <= Len(Tunnels) /\ Len(plan[p]) \in Nat
  BY DEF Procs, PlansOK
<1>1. UNCHANGED << up, fresh, sealed, ns, veth, down, idle, cut, n, verdict, history, failed >>
  BY DEF Apply, FlushBond, AddBond, Rest, Unapplied, links, probe
<1>2. pc[p] \in {"flush", "add", "rest"} /\ UpsetsOK'
  BY SpendType DEF Apply, FlushBond, AddBond, Rest, Refused
<1>3. \/ \E at \in {"add", "rest"} : On(p, at)
      \/ \E sig : Returns(p, sig)
  BY DEF Apply, FlushBond, AddBond, Rest, Failed
<1>4. PlansOK' /\ PlacesOK' /\ pc'[p] \in {"add", "rest", IF p = "test" THEN "judge" ELSE "idle"}
      /\ \A q \in Procs \ {p} : pc'[q] = pc[q]
  <2>1. ASSUME NEW at \in {"add", "rest"}, On(p, at)
        PROVE  PlansOK' /\ PlacesOK' /\ pc'[p] = at /\ \A q \in Procs \ {p} : pc'[q] = pc[q]
    <3>1. at \in TestPCs /\ at \in DaemonPCs
      BY DEF TestPCs, DaemonPCs
    <3> QED
      BY <2>1, <3>1, GotoType DEF On, PlansOK
  <2>2. CASE p = "test" /\ \E sig : Returns(p, sig)
    <3>1. "judge" \in TestPCs
      BY DEF TestPCs
    <3> QED
      BY <2>2, <3>1, GotoType DEF Returns, PlansOK
  <2>3. CASE p = "daemon" /\ \E sig : Returns(p, sig)
    <3>1. "idle" \in DaemonPCs
      BY DEF DaemonPCs
    <3> QED
      BY <2>3, <3>1, GotoType, ForgetType DEF Returns
  <2> QED
    BY <1>0, <1>3, <2>1, <2>2, <2>3
<1>5. Turns'
  <2>1. Limit(pc'["test"]) = Limit(pc["test"])
    BY <1>0, <1>2, <1>4 DEF Limit, Procs
  <2> QED
    BY <1>1, <2>1 DEF Turns
<1>6. CutIs'
  <2>1. pc'["daemon"] = "again" <=> pc["daemon"] = "again"
    BY <1>0, <1>2, <1>4 DEF Procs
  <2> QED
    BY <1>1, <2>1 DEF CutIs
<1>7. LinksOK' /\ RestOK'
  <2>1. bond' \subseteq up
    <3>1. bond' = bond \/ bond' = {} \/ bond' \subseteq up
      BY DEF Apply, FlushBond, AddBond, Rest
    <3> QED
      BY <3>1 DEF LinksOK
  <2>2. pin' \in [DOMAIN Tunnels -> up \cup {"none"}] /\ ruled' \in {"none", "bare", "full"}
    <3>1. CASE UNCHANGED << pin, ruled >>
      BY <3>1 DEF LinksOK, RestOK
    <3>2. CASE SetOf(plan[p]) \subseteq up /\ pin' = PinTables(plan[p])
      <4>1. \A i \in DOMAIN Tunnels : i <= Len(plan[p]) => plan[p][i] \in up
        BY <1>0, <3>2, BoundsType DEF SetOf
      <4>2. pin' \in [DOMAIN Tunnels -> up \cup {"none"}]
        BY <3>2, <4>1 DEF PinTables
      <4>3. ruled' \in {"none", "bare", "full"}
        BY <3>2 DEF Apply, FlushBond, AddBond, Rest, Rules, RestOK
      <4> QED
        BY <4>2, <4>3
    <3>3. ASSUME NEW i \in 0 .. Len(plan[p]), \A j \in 1 .. i : plan[p][j] \in up,
                 pin' = [k \in DOMAIN pin |-> IF k <= i THEN plan[p][k]
                                              ELSE IF k = i + 1 THEN "none" ELSE pin[k]],
                 UNCHANGED ruled
          PROVE  pin' \in [DOMAIN Tunnels -> up \cup {"none"}] /\ ruled' \in {"none", "bare", "full"}
      <4>1. DOMAIN pin = 1 .. Len(Tunnels)
        BY BoundsType DEF LinksOK
      <4>2. \A k \in DOMAIN Tunnels : k <= i => plan[p][k] \in up
        BY <3>3, <1>0, BoundsType
      <4>3. \A k \in DOMAIN Tunnels : pin[k] \in up \cup {"none"}
        BY DEF LinksOK
      <4> QED
        BY <3>3, <4>1, <4>2, <4>3, BoundsType DEF RestOK
    <3> QED
      BY <3>1, <3>2, <3>3 DEF Apply, FlushBond, AddBond, Rest
  <2> QED
    BY <1>1, <2>1, <2>2 DEF LinksOK, RestOK, verdict, history
<1> QED
  BY <1>2, <1>4, <1>5, <1>6, <1>7

\* A step of the test's own, that leaves the routing and the daemon alone.
LEMMA TestTurnType ==
  ASSUME Typed, NEW at, NEW m, NEW after, Turn(at, m, after), m = Limit(at), after \in TestPCs
  PROVE  /\ PlacesOK' /\ Turns' /\ pc'["daemon"] = pc["daemon"]
         /\ (n < m /\ pc' = pc /\ n' = n + 1) \/ (n = m /\ n' = 1 /\ pc'["test"] = after)
<1>1. pc["test"] = at /\ n \in 1 .. m /\ m \in Nat /\ Limit(after) \in Nat \ {0}
  BY BoundsType DEF Turn, Typed, Turns
<1>2. CASE n < m /\ pc' = pc /\ n' = n + 1
  BY <1>1, <1>2 DEF Typed, PlacesOK, Turns
<1>3. CASE ~(n < m) /\ n' = 1 /\ Goto("test", after)
  <2>1. PlacesOK' /\ pc'["test"] = after /\ pc'["daemon"] = pc["daemon"]
    BY <1>3, GotoType DEF Typed, Procs
  <2> QED
    BY <1>1, <1>3, <2>1 DEF Turns
<1> QED
  BY <1>2, <1>3 DEF Turn

\* A step of the test to another place, where its count is a first one.
LEMMA TestGotoType ==
  ASSUME PlacesOK, NEW after \in TestPCs, Goto("test", after)
  PROVE  /\ PlacesOK' /\ pc'["test"] = after /\ pc'["daemon"] = pc["daemon"]
         /\ n' = 1 \/ (n' = n /\ Turns /\ Limit(after) = Limit(pc["test"])) => Turns'
<1>1. PlacesOK' /\ pc'["test"] = after /\ pc'["daemon"] = pc["daemon"]
  BY GotoType DEF Procs
<1> QED
  BY <1>1, BoundsType DEF Turns

LEMMA SetupType == Typed /\ (Start \/ SetupProbe \/ TeardownProbe \/ Kill) => Typed'
<1> SUFFICES ASSUME Typed, Start \/ SetupProbe \/ TeardownProbe \/ Kill PROVE Typed'
  OBVIOUS
<1> USE DEF Typed
<1>0. {"none", "find", "clear_ns", "clear_veth", "add_ns", "add_veth", "move", "inside", "drop",
       "del_ns", "del_veth"} \subseteq TestPCs
  BY DEF TestPCs
<1>1. /\ UNCHANGED << up, fresh, bond, pin, ruled, sealed, memory, leaks, late >> \/ Start
      /\ UNCHANGED << up, fresh, bond, pin, ruled, sealed, down, idle, cut, failed >>
      /\ UNCHANGED plan \/ Forget("test")
  BY DEF Start, SetupProbe, FindAddress, ClearProbe, TeardownProbe, DelNs, DelVeth, AddNs, AddVeth,
         Move, Set, Inside, Kill, InSetup, links, routes, memory
<1>2. LinksOK' /\ PlansOK'
  <2>1. PlansOK'
    BY <1>1, ForgetType DEF PlansOK, Procs
  <2> QED
    BY <1>1, <2>1 DEF LinksOK
<1>3. UpsetsOK'
  <2>1. CASE Start
    <3>1. tests > 0 => tests - 1 \in 0 .. Tests
      BY BoundsType DEF UpsetsOK
    <3> QED
      BY <2>1, <3>1 DEF Start, UpsetsOK
  <2>2. CASE Kill
    BY <2>2, SpendType DEF Kill, Upsets
  <2>3. CASE SetupProbe \/ TeardownProbe
    BY <2>3, SpendType DEF SetupProbe, FindAddress, ClearProbe, TeardownProbe, DelNs, DelVeth,
                           AddNs, AddVeth, Move, Set, Inside, Refused
  <2> QED
    BY <2>1, <2>2, <2>3
<1>4. PlacesOK' /\ Turns' /\ pc'["daemon"] = pc["daemon"]
  <2>1. \E after \in {"none", "find", "clear_ns", "clear_veth", "add_ns", "add_veth", "move",
                      "inside", "drop", "del_ns", "del_veth"} :
          /\ Goto("test", after)
          /\ n' = 1 \/ (n' = n /\ Limit(after) = Limit(pc["test"]))
    BY DEF Start, SetupProbe, FindAddress, ClearProbe, TeardownProbe, DelNs, DelVeth, AddNs,
           AddVeth, Move, Set, Inside, Kill, InSetup, SetupFails, At, Limit
  <2> QED
    BY <1>0, <2>1, TestGotoType
<1>5. RestOK' /\ CutIs'
  <2>1. CutIs'
    BY <1>1, <1>4 DEF CutIs
  <2>2. ns' \in BOOLEAN /\ veth' \in {"none", "host", "moved"} /\ (veth' = "moved" => ns')
    <3>1. CASE DelNs("clear_ns", "clear_veth") \/ DelNs("del_ns", "del_veth")
      BY <3>1 DEF DelNs, RestOK, probe
    <3>2. CASE ~(DelNs("clear_ns", "clear_veth") \/ DelNs("del_ns", "del_veth"))
      BY <3>2 DEF Start, SetupProbe, FindAddress, ClearProbe, TeardownProbe, DelVeth, AddNs,
                  AddVeth, Move, Set, Inside, Kill, SetupFails, probe, RestOK
    <3> QED
      BY <3>1, <3>2
  <2>3. /\ {leaks', late', escaped', open'} \subseteq BOOLEAN
        /\ restored' \in {"none", "ok", "failed"}
    BY DEF Start, SetupProbe, FindAddress, ClearProbe, TeardownProbe, DelNs, DelVeth, AddNs,
           AddVeth, Move, Set, Inside, Kill, InSetup, history, RestOK
  <2>4. result' \in {"none", "setup_failed", "leaks", "passed", "killed"} /\ botched' \in BOOLEAN
    BY DEF Start, SetupProbe, FindAddress, ClearProbe, TeardownProbe, DelNs, DelVeth, AddNs,
           AddVeth, Move, Set, Inside, Kill, SetupFails, history, RestOK
  <2> QED
    BY <1>1, <2>1, <2>2, <2>3, <2>4 DEF RestOK
<1> QED
  BY <1>2, <1>3, <1>4, <1>5

LEMMA RunType ==
  Typed /\ (DropTunnel \/ ProbeTarget \/ StartTunnel \/ Wait \/ Rebuild \/ Judge) => Typed'
<1> SUFFICES ASSUME Typed, DropTunnel \/ ProbeTarget \/ StartTunnel \/ Wait \/ Rebuild \/ Judge
             PROVE  Typed'
  OBVIOUS
<1> USE DEF Typed
<1>0. /\ {"probe", "up", "wait", "rebuild", "flush", "del_ns"} \subseteq TestPCs
      /\ Limit("drop") = Len(Tunnels) /\ Limit("up") = Len(Tunnels) /\ Limit("probe") = Probes
      /\ Limit("wait") = Rounds /\ Limit("rebuild") = Attempts /\ Limit("judge") = Attempts
  BY DEF TestPCs, Limit
<1>1. CASE DropTunnel
  <2>1. PlacesOK' /\ Turns' /\ pc'["daemon"] = pc["daemon"]
    BY <1>0, <1>1, TestTurnType DEF DropTunnel
  <2>2. LinksOK' /\ UpsetsOK' /\ UNCHANGED ruled
    BY <1>1, BringDownType DEF DropTunnel
  <2> QED
    BY <1>1, <2>1, <2>2 DEF DropTunnel, PlansOK, RestOK, CutIs, probe, memory, verdict, history
<1>2. CASE ProbeTarget
  <2>1. PlacesOK' /\ Turns' /\ pc'["daemon"] = pc["daemon"]
    BY <1>0, <1>2, TestTurnType DEF ProbeTarget
  <2>2. UpsetsOK'
    BY <1>2, SpendType DEF ProbeTarget
  <2>3. /\ UNCHANGED << up, fresh, bond, pin, ruled, sealed, ns, veth, plan, down, idle, cut, late >>
        /\ UNCHANGED << result, restored, failed, botched >>
    BY <1>2 DEF ProbeTarget, links, routes, probe, memory
  <2>4. leaks' \in BOOLEAN
    <3>1. leaks \in BOOLEAN
      BY DEF RestOK
    <3>2. \A t : (leaks \/ Reaches(t)) \in BOOLEAN
      OBVIOUS
    <3> QED
      BY <1>2, <3>1, <3>2 DEF ProbeTarget, Counted
  <2>5. escaped' \in BOOLEAN /\ open' \in BOOLEAN
    BY <1>2 DEF ProbeTarget
  <2> QED
    BY <2>1, <2>2, <2>3, <2>4, <2>5 DEF LinksOK, PlansOK, RestOK, CutIs
<1>3. CASE StartTunnel
  <2>1. PlacesOK' /\ Turns' /\ pc'["daemon"] = pc["daemon"]
    BY <1>0, <1>3, TestTurnType DEF StartTunnel
  <2>2. Tunnels[n] \in Ifaces
    BY <1>0, <1>3, BoundsType DEF StartTunnel, Turn, Turns
  <2>3. LinksOK' /\ UpsetsOK' /\ failed' \subseteq Ifaces /\ UNCHANGED ruled
    BY <1>3, <2>2, BringUpType DEF StartTunnel, RestOK
  <2> QED
    BY <1>3, <2>1, <2>3 DEF StartTunnel, PlansOK, RestOK, CutIs, probe, memory, verdict, history
<1>4. CASE Wait
  <2>1. PlacesOK' /\ Turns' /\ pc'["daemon"] = pc["daemon"]
    <3>1. CASE n' = 1 /\ Goto("test", "rebuild")
      BY <1>0, <3>1, TestGotoType
    <3>2. CASE ~GivesUp /\ n' = (IF n < Rounds THEN n + 1 ELSE n) /\ UNCHANGED pc
      <4>1. pc["test"] = "wait" /\ Rounds \in Nat
        BY <1>4, BoundsType DEF Wait
      <4> QED
        BY <1>0, <3>2, <4>1 DEF Turns, PlacesOK, GivesUp
    <3> QED
      BY <1>4, <3>1, <3>2 DEF Wait
  <2>2. UpsetsOK' /\ late' \in BOOLEAN
    BY <1>4, SpendType DEF Wait, Reads, RestOK
  <2> QED
    BY <1>4, <2>1, <2>2 DEF Wait, LinksOK, PlansOK, RestOK, CutIs, links, routes, probe, memory, history
<1>5. CASE Rebuild
  <2>1. PlacesOK' /\ Turns' /\ pc'["daemon"] = pc["daemon"]
    BY <1>0, <1>5, TestGotoType DEF Rebuild, At, Limit
  <2>2. PlansOK' /\ UpsetsOK'
    BY <1>5, ReadPlanType DEF Rebuild, Procs
  <2> QED
    BY <1>5, <2>1, <2>2 DEF Rebuild, LinksOK, RestOK, CutIs, links, routes, probe, memory, verdict,
                            history
<1>6. CASE Judge
  <2>1. PlansOK'
    BY <1>6, ForgetType DEF Judge, Procs
  <2>2. PlacesOK' /\ Turns' /\ pc'["daemon"] = pc["daemon"]
    <3>1. CASE n' = 1 /\ Goto("test", "del_ns")
      BY <1>0, <3>1, TestGotoType
    <3>2. CASE ~Exhausted /\ n' = n + 1 /\ Goto("test", "rebuild")
      <4>1. PlacesOK' /\ pc'["test"] = "rebuild" /\ pc'["daemon"] = pc["daemon"]
        BY <1>0, <3>2, TestGotoType
      <4>2. pc["test"] = "judge" /\ Attempts \in Nat
        BY <1>6, BoundsType DEF Judge
      <4> QED
        BY <1>0, <3>2, <4>1, <4>2 DEF Turns, Exhausted
    <3> QED
      BY <1>6, <3>1, <3>2 DEF Judge, Done
  <2>3. /\ result' \in {"none", "setup_failed", "leaks", "passed", "killed"}
        /\ restored' \in {"none", "ok", "failed"}
    BY <1>6 DEF Judge, Done, RestOK
  <2> QED
    BY <1>6, <2>1, <2>2, <2>3 DEF Judge, LinksOK, UpsetsOK, RestOK, CutIs, links, routes, probe,
                                  memory, history, upsets
<1> QED
  BY <1>1, <1>2, <1>3, <1>4, <1>5, <1>6

\* A step of the daemon to another place of its pass.
LEMMA DaemonGotoType ==
  ASSUME PlacesOK, Turns, UNCHANGED n, NEW after \in DaemonPCs, Goto("daemon", after)
  PROVE  PlacesOK' /\ Turns' /\ pc'["daemon"] = after /\ pc'["test"] = pc["test"]
<1>1. PlacesOK' /\ pc'["daemon"] = after /\ pc'["test"] = pc["test"]
  BY GotoType DEF Procs
<1> QED
  BY <1>1 DEF Turns

LEMMA PassType ==
  Typed /\ (Pass \/ (\E t \in Ifaces : Recover(t) \/ Cycle(t)) \/ Again \/ Replan \/ Compare) => Typed'
<1> SUFFICES ASSUME Typed,
                    Pass \/ (\E t \in Ifaces : Recover(t) \/ Cycle(t)) \/ Again \/ Replan \/ Compare
             PROVE  Typed'
  OBVIOUS
<1> USE DEF Typed
<1>0. {"idle", "recover", "again", "plan", "flush"} \subseteq DaemonPCs
  BY DEF DaemonPCs
<1>a. UNCHANGED << ns, veth, n, leaks, late, result, restored, escaped, open, botched >>
  BY DEF Pass, Recover, Cycle, Again, Replan, Compare, Aside, probe, verdict, history
<1>1. CASE Pass
  <2>1. PlacesOK' /\ Turns' /\ pc'["daemon"] = "recover" /\ pc'["test"] = pc["test"]
    BY <1>0, <1>1, <1>a, DaemonGotoType DEF Pass
  <2>2. UpsetsOK' /\ sealed' \in BOOLEAN
    BY <1>1, SpendType DEF Pass, RestOK
  <2> QED
    BY <1>1, <1>a, <2>1, <2>2 DEF Pass, LinksOK, PlansOK, RestOK, CutIs, links, routes
<1>2. ASSUME NEW t \in Ifaces, Recover(t) PROVE Typed'
  <2>1. LinksOK' /\ UpsetsOK' /\ failed' \subseteq Ifaces /\ UNCHANGED ruled
    BY <1>2, BringUpType DEF Recover, RestOK
  <2> QED
    BY <1>2, <1>a, <2>1 DEF Recover, PlansOK, PlacesOK, RestOK, Turns, CutIs
<1>3. ASSUME NEW t \in Ifaces, Cycle(t) PROVE Typed'
  <2>1. PlacesOK' /\ Turns' /\ pc'["daemon"] = "again" /\ pc'["test"] = pc["test"]
    BY <1>0, <1>3, <1>a, DaemonGotoType DEF Cycle
  <2>2. UpsetsOK'
    BY <1>3, SpendType DEF Cycle, Upsets
  <2>3. LinksOK' /\ UNCHANGED ruled
    <3>1. CASE Removed(t)
      BY <3>1, RemovedType DEF Removed
    <3>2. CASE UNCHANGED << links, routes >>
      BY <3>2 DEF links, routes, LinksOK
    <3> QED
      BY <1>3, <3>1, <3>2 DEF Cycle
  <2>4. CutIs'
    BY <1>3, <2>1, BoundsType DEF Cycle, CutIs
  <2> QED
    BY <1>3, <1>a, <2>1, <2>2, <2>3, <2>4 DEF Cycle, PlansOK, RestOK
<1>4. CASE Again
  <2>1. PlacesOK' /\ Turns' /\ pc'["daemon"] = "recover" /\ pc'["test"] = pc["test"]
    BY <1>0, <1>4, <1>a, DaemonGotoType DEF Again
  <2>2. cut \in Ifaces
    BY <1>4 DEF Again, CutIs
  <2>3. LinksOK' /\ UpsetsOK' /\ failed' \subseteq Ifaces /\ UNCHANGED ruled
    BY <1>4, <2>2, BringUpType DEF Again, RestOK
  <2> QED
    BY <1>4, <1>a, <2>1, <2>3 DEF Again, PlansOK, RestOK, CutIs
<1>5. CASE Replan
  <2>1. PlacesOK' /\ Turns' /\ pc'["daemon"] = "plan" /\ pc'["test"] = pc["test"]
    BY <1>0, <1>5, <1>a, DaemonGotoType DEF Replan
  <2>2. PlansOK' /\ UpsetsOK'
    BY <1>5, ReadPlanType DEF Replan, Procs
  <2> QED
    BY <1>5, <1>a, <2>1, <2>2 DEF Replan, LinksOK, RestOK, CutIs, links, routes
<1>6. CASE Compare
  <2>1. \E at \in {"idle", "flush"} : Goto("daemon", at)
    BY <1>6 DEF Compare, On
  <2>2. PlacesOK' /\ Turns' /\ pc'["daemon"] \in {"idle", "flush"} /\ pc'["test"] = pc["test"]
    BY <1>0, <1>a, <2>1, DaemonGotoType
  <2>3. PlansOK'
    BY <1>6, ForgetType DEF Compare, On, PlansOK, Procs
  <2> QED
    BY <1>6, <1>a, <2>2, <2>3 DEF Compare, LinksOK, UpsetsOK, RestOK, CutIs, links, routes, memory,
                                  upsets
<1> QED
  BY <1>1, <1>2, <1>3, <1>4, <1>5, <1>6

LEMMA AroundType == Typed /\ (Handshakes \/ GoesQuiet \/ Opened \/ UNCHANGED vars) => Typed'
<1> SUFFICES ASSUME Typed, Handshakes \/ GoesQuiet \/ Opened \/ UNCHANGED vars PROVE Typed'
  OBVIOUS
<1> USE DEF Typed
<1>1. /\ UNCHANGED << up, bond, pin, ruled, ns, veth, pc, plan, down, idle, cut, n, verdict, history,
                      failed >>
      /\ fresh' \subseteq up /\ sealed' \in BOOLEAN
  BY DEF Handshakes, GoesQuiet, Opened, Around, vars, links, routes, probe, memory, LinksOK, RestOK
<1>2. UpsetsOK'
  BY SpendType DEF Handshakes, GoesQuiet, Opened, vars, upsets, Upsets, UpsetsOK
<1> QED
  BY <1>1, <1>2 DEF LinksOK, PlansOK, PlacesOK, RestOK, Turns, CutIs, verdict, history

LEMMA StepType == Typed /\ [Next]_vars => Typed'
BY ApplyType, SetupType, RunType, PassType, AroundType DEF Next, Test, Daemon, Procs

LEMMA InitType == Init => Typed
<1> SUFFICES ASSUME Init PROVE Typed
  OBVIOUS
<1>1. LiveTunnels(fresh) \in Seq(Ifaces \cap fresh) /\ Len(LiveTunnels(fresh)) <= Len(Tunnels)
  BY LiveTunnelsAre
<1> DEFINE live == LiveTunnels(fresh)
<1>2. LinksOK
  <2>1. \A i \in DOMAIN Tunnels : i <= Len(live) => live[i] \in fresh
    <3> HIDE DEF live
    <3>1. live \in Seq(Ifaces \cap fresh)
      BY <1>1 DEF live
    <3> QED
      BY <3>1, BoundsType
  <2>2. pin = [i \in DOMAIN Tunnels |-> IF i <= Len(live) THEN live[i] ELSE "none"]
    BY DEF Init, PinTables
  <2> QED
    BY <2>1, <2>2 DEF Init, LinksOK
<1>3. UpsetsOK
  BY BoundsType DEF Init, UpsetsOK
<1>4. PlansOK
  <2>1. << >> \in Seq(Ifaces) /\ Len(<< >>) <= Len(Tunnels)
    BY BoundsType
  <2> QED
    BY <2>1 DEF Init, PlansOK
<1>5. PlacesOK /\ Turns /\ CutIs
  <2>1. pc["test"] = "none" /\ n = 1 /\ Limit("none") = 1
    BY DEF Init, Limit
  <2> QED
    BY <2>1 DEF Init, PlacesOK, Turns, CutIs, Procs, TestPCs, DaemonPCs
<1>6. RestOK
  BY DEF Init, RestOK, Rules
<1> QED
  BY <1>2, <1>3, <1>4, <1>5, <1>6 DEF Typed

LEMMA AlwaysTyped == Spec => []Typed
BY InitType, StepType, PTL DEF Spec

\* Of every variable, in every reachable state, the type the code gives it: no loop of the
\* command runs past its last tunnel, probe, look or attempt.
THEOREM TypeCorrect == Spec => []TypeOK
BY AlwaysTyped, TypedIs, PTL

-----------------------------------------------------------------------------
(* What the daemon, the peers and other programs leave to the test.        *)

Beside == Daemon \/ Handshakes \/ GoesQuiet \/ Opened \/ UNCHANGED vars

LEMMA LeftAlone ==
  ASSUME Typed, Beside
  PROVE  /\ pc'["test"] = pc["test"] /\ plan'["test"] = plan["test"]
         /\ UNCHANGED << ns, veth, n, leaks, late, result, restored, escaped, open, botched >>
<1> USE DEF Typed
<1>1. CASE Daemon /\ ~Apply("daemon")
  <2>1. UNCHANGED << ns, veth, n, leaks, late, result, restored, escaped, open, botched >>
    BY <1>1 DEF Daemon, Pass, Recover, Cycle, Again, Replan, Compare, Aside, probe, verdict, history
  <2>2. pc'["test"] = pc["test"]
    BY <1>1 DEF Daemon, Pass, Recover, Cycle, Again, Replan, Compare, On, Goto, PlacesOK, Procs
  <2>3. plan'["test"] = plan["test"]
    BY <1>1 DEF Daemon, Pass, Recover, Cycle, Again, Replan, ReadPlan, Compare, On, Forget, PlansOK,
                Procs
  <2> QED
    BY <2>1, <2>2, <2>3
<1>2. CASE Apply("daemon")
  <2>1. UNCHANGED << ns, veth, n, leaks, late, result, restored, escaped, open, botched >>
    BY <1>2 DEF Apply, FlushBond, AddBond, Rest, Unapplied, probe, verdict, history
  <2>2. pc'["test"] = pc["test"] /\ plan'["test"] = plan["test"]
    BY <1>2 DEF Apply, FlushBond, AddBond, Rest, Failed, Returns, On, Goto, Forget, PlacesOK,
                PlansOK, Procs
  <2> QED
    BY <2>1, <2>2
<1>3. CASE Handshakes \/ GoesQuiet \/ Opened \/ UNCHANGED vars
  BY <1>3 DEF Handshakes, GoesQuiet, Opened, Around, vars, probe, verdict, history
<1> QED
  BY <1>1, <1>2, <1>3 DEF Beside

\* An upset that has been is never forgotten.
LEMMA SpentStays == [Next]_vars => spent \subseteq spent'
<1> SUFFICES ASSUME [Next]_vars PROVE spent \subseteq spent'
  OBVIOUS
<1> USE DEF Fine, Fault, Spend, upsets, Refused
<1>1. CASE Start \/ Kill \/ SetupProbe \/ TeardownProbe
  BY <1>1 DEF Start, Kill, SetupProbe, FindAddress, ClearProbe, TeardownProbe, DelNs, DelVeth, AddNs,
              AddVeth, Move, Set, Inside
<1>2. CASE DropTunnel \/ ProbeTarget \/ StartTunnel \/ Wait \/ Rebuild \/ Judge
  BY <1>2 DEF DropTunnel, BringDown, ProbeTarget, StartTunnel, BringUp, Wait, Reads, Rebuild, ReadPlan,
              Judge
<1>3. CASE \E p \in Procs : Apply(p)
  BY <1>3 DEF Apply, FlushBond, AddBond, Rest
<1>4. CASE Daemon /\ ~Apply("daemon")
  BY <1>4 DEF Daemon, Pass, Recover, Cycle, Again, Replan, ReadPlan, Reads, Compare, BringUp
<1>5. CASE Handshakes \/ GoesQuiet \/ Opened \/ UNCHANGED vars
  BY <1>5 DEF Handshakes, GoesQuiet, Opened, vars
<1> QED
  BY <1>1, <1>2, <1>3, <1>4, <1>5 DEF Next, Test, Daemon, Procs

-----------------------------------------------------------------------------
(* The probe's namespace and its pair.                                     *)

\* What each step of the setup finds when no command has failed, and what the teardown has
\* left behind it.
Cleared ==
  NoFault =>
    /\ result # "setup_failed"
    /\ pc["test"] = "clear_veth" => ~ns /\ veth # "moved"
    /\ pc["test"] = "add_ns" => ~ns /\ veth = "none"
    /\ pc["test"] = "add_veth" => ns /\ veth = "none"
    /\ pc["test"] = "move" => ns /\ veth = "host"
TornDown ==
  ~botched =>
    /\ pc["test"] = "del_veth" => ~ns
    /\ pc["test"] = "none" /\ result \notin {"none", "killed"} => ~ns /\ veth = "none"

LEMMA StepCleared == Typed /\ Cleared /\ TornDown /\ [Next]_vars => Cleared' /\ TornDown'
<1> SUFFICES ASSUME Typed, Cleared, TornDown, [Next]_vars PROVE Cleared' /\ TornDown'
  OBVIOUS
<1>0. /\ pc \in [Procs -> TestPCs \cup DaemonPCs] /\ "test" \in Procs
      /\ veth \in {"none", "host", "moved"} /\ (veth = "moved" => ns)
      /\ ns \in BOOLEAN /\ botched \in BOOLEAN
  BY DEF Typed, PlacesOK, RestOK, Procs
<1>1. NoFault' => NoFault
  BY SpentStays DEF NoFault
<1>f. Fault => ~NoFault'
  BY DEF Fault, Spend, NoFault
<1>2. CASE Beside
  BY <1>1, <1>2, LeftAlone DEF Cleared, TornDown
<1>3. CASE Start \/ Kill \/ FindAddress \/ Inside
  <2>1. UNCHANGED << ns, veth >>
    BY <1>3 DEF Start, Kill, FindAddress, Inside, probe, SetupFails
  <2>2. \/ pc'["test"] \in {"find", "clear_ns", "drop"} /\ result' \in {result, "none"}
        \/ pc'["test"] = "none" /\ result' = "killed"
        \/ pc'["test"] = "none" /\ botched' /\ result' = "setup_failed" /\ ~NoFault'
        \/ pc'["test"] = "del_ns" /\ result' = "setup_failed" /\ ~NoFault'
    BY <1>0, <1>3, <1>f DEF Start, Kill, FindAddress, Inside, SetupFails, At, Goto
  <2> QED
    BY <1>1, <2>1, <2>2 DEF Cleared, TornDown
<1>4. CASE ClearProbe
  <2>1. CASE DelNs("clear_ns", "clear_veth")
    <3>1. pc'["test"] = "clear_veth" /\ result' = result
      BY <1>0, <2>1 DEF DelNs, At, Goto
    <3>2. ~NoFault' \/ (~ns' /\ veth' # "moved")
      BY <1>0, <1>f, <2>1 DEF DelNs
    <3>3. botched' \/ ~ns'
      BY <2>1 DEF DelNs
    <3> QED
      BY <1>1, <3>1, <3>2, <3>3 DEF Cleared, TornDown
  <2>2. CASE DelVeth("clear_veth", "add_ns")
    <3>1. pc["test"] = "clear_veth" /\ pc'["test"] = "add_ns" /\ result' = result /\ ns' = ns
      BY <1>0, <2>2 DEF DelVeth, At, Goto
    <3>2. ~NoFault' \/ veth' = "none"
      BY <1>f, <2>2 DEF DelVeth
    <3> QED
      BY <1>1, <3>1, <3>2 DEF Cleared, TornDown
  <2> QED
    BY <1>4, <2>1, <2>2 DEF ClearProbe
<1>5. CASE AddNs \/ AddVeth \/ Move
  <2>1. CASE SetupFails
    <3>1. pc'["test"] = "del_ns" /\ result' = "setup_failed"
      BY <1>0, <2>1 DEF SetupFails, Goto
    <3>2. ~NoFault'
      <4>1. pc'["test"] \notin {"add_veth", "move", "inside"}
        BY <3>1
      <4>2. \/ pc["test"] = "add_ns" /\ Refused(~ns)
            \/ pc["test"] = "add_veth" /\ Refused(veth = "none")
            \/ pc["test"] = "move" /\ Refused(ns /\ veth = "host")
        BY <1>0, <1>5, <4>1 DEF AddNs, AddVeth, Move, Set, Goto
      <4> QED
        BY <1>1, <1>f, <4>2 DEF Refused, Cleared
    <3> QED
      BY <3>1, <3>2 DEF Cleared, TornDown
  <2>2. CASE ~SetupFails
    <3>1. \/ /\ pc["test"] = "add_ns" /\ pc'["test"] = "add_veth" /\ result' = result
             /\ ns' = TRUE /\ veth' = veth
          \/ /\ pc["test"] = "add_veth" /\ pc'["test"] = "move" /\ result' = result
             /\ veth' = "host" /\ ns' = ns
          \/ pc'["test"] = "inside" /\ result' = result
      BY <1>0, <1>5, <2>2 DEF AddNs, AddVeth, Move, Set, Goto
    <3> QED
      BY <1>1, <3>1 DEF Cleared, TornDown
  <2> QED
    BY <2>1, <2>2
<1>6. CASE TeardownProbe
  <2>1. CASE DelNs("del_ns", "del_veth")
    <3>1. pc'["test"] = "del_veth" /\ result' = result /\ (botched' \/ ~ns')
      BY <1>0, <2>1 DEF DelNs, At, Goto
    <3> QED
      BY <1>1, <3>1 DEF Cleared, TornDown
  <2>2. CASE DelVeth("del_veth", "none")
    <3>1. pc["test"] = "del_veth" /\ pc'["test"] = "none" /\ result' = result /\ ns' = ns
      BY <1>0, <2>2 DEF DelVeth, At, Goto
    <3>2. botched' \/ (veth' = "none" /\ botched' = botched)
      BY <2>2 DEF DelVeth
    <3> QED
      BY <1>1, <3>1, <3>2 DEF Cleared, TornDown
  <2> QED
    BY <1>6, <2>1, <2>2 DEF TeardownProbe
<1>7. CASE DropTunnel \/ ProbeTarget \/ StartTunnel \/ Wait \/ Rebuild \/ Judge \/ Apply("test")
  <2>1. pc'["test"] \in {"drop", "probe", "up", "wait", "rebuild", "flush", "add", "rest", "judge",
                         "del_ns"}
    BY <1>0, <1>7 DEF DropTunnel, ProbeTarget, StartTunnel, Turn, Wait, Rebuild, At, Judge, Done,
                      Apply, FlushBond, AddBond, Rest, Failed, Returns, On, Goto
  <2>2. result' \in {result, "leaks", "passed"}
    BY <1>7 DEF DropTunnel, ProbeTarget, StartTunnel, Wait, Rebuild, Judge, Done, Apply, FlushBond,
                AddBond, Rest, Unapplied, verdict
  <2> QED
    BY <1>1, <2>1, <2>2 DEF Cleared, TornDown
<1> QED
  BY <1>2, <1>3, <1>4, <1>5, <1>6, <1>7 DEF Next, Test, SetupProbe, Beside

\* A namespace or an interface that a killed test has left does not keep the next one from
\* its setup, and a test that ends by itself leaves neither (probe.go:setupProbe,
\* teardownProbe), in any order with the daemon.
THEOREM Cleans == Spec => []CleansUp
<1>1. Init => Cleared /\ TornDown
  BY DEF Init, Cleared, TornDown
<1>2. Cleared /\ TornDown => CleansUp
  BY DEF Cleared, TornDown, CleansUp
<1> QED
  BY <1>1, <1>2, AlwaysTyped, StepCleared, PTL DEF Spec

-----------------------------------------------------------------------------
(* The tunnels are brought back.                                           *)

Missing == Ifaces \ (up \cup failed \cup {cut})

\* Only the loop that drops the tunnels makes one missing: the daemon names the one it takes
\* down until it has started it again.
LEMMA MissingShrinks == Typed /\ [Next]_vars /\ pc["test"] # "drop" => Missing' \subseteq Missing
<1> SUFFICES ASSUME Typed, [Next]_vars, pc["test"] # "drop" PROVE Missing' \subseteq Missing
  OBVIOUS
<1>1. CASE UNCHANGED << up, failed, cut >>
  BY <1>1 DEF Missing
<1>2. CASE StartTunnel \/ \E t \in Ifaces : Recover(t)
  BY <1>2 DEF StartTunnel, Recover, BringUp, Missing, memory
<1>3. ASSUME NEW t \in Ifaces, Cycle(t) PROVE Missing' \subseteq Missing
  <2>1. cut \notin Ifaces /\ cut' = t /\ UNCHANGED failed
    BY <1>3, BoundsType DEF Cycle, Typed, CutIs
  <2>2. up \subseteq up' \cup {t}
    BY <1>3 DEF Cycle, Removed, links
  <2> QED
    BY <2>1, <2>2 DEF Missing
<1>4. CASE Again
  <2>1. up \subseteq up' /\ failed \subseteq failed' \cup up' /\ cut \in up' \cup failed'
    BY <1>4 DEF Again, BringUp
  <2> QED
    BY <2>1 DEF Missing
<1>5. CASE Start \/ Kill \/ SetupProbe \/ TeardownProbe
  BY <1>1, <1>5 DEF Start, Kill, SetupProbe, FindAddress, ClearProbe, TeardownProbe, DelNs, DelVeth,
                    AddNs, AddVeth, Move, Set, Inside, InSetup, links, memory
<1>6. CASE DropTunnel \/ ProbeTarget \/ Wait \/ Rebuild \/ Judge
  BY <1>1, <1>6 DEF DropTunnel, Turn, ProbeTarget, Wait, Rebuild, Judge, links, memory
<1>7. CASE \E p \in Procs : Apply(p)
  BY <1>1, <1>7 DEF Apply, FlushBond, AddBond, Rest, Unapplied, links
<1>8. CASE Pass \/ Replan \/ Compare
  BY <1>1, <1>8 DEF Pass, Replan, Compare, links, memory
<1>9. CASE Handshakes \/ GoesQuiet \/ Opened \/ UNCHANGED vars
  BY <1>1, <1>9 DEF Handshakes, GoesQuiet, Opened, Around, vars, links, memory
<1> QED
  BY <1>2, <1>3, <1>4, <1>5, <1>6, <1>7, <1>8, <1>9 DEF Next, Test, Daemon, Procs

\* The loop of RestoreTunnels has started what it has come past, and the rest of the test
\* comes after it; the command returns no result before its teardown.
Brought ==
  /\ pc["test"] = "up" => \A j \in 1 .. n - 1 : Tunnels[j] \notin Missing
  /\ pc["test"] \in {"wait", "rebuild", "flush", "add", "rest", "judge"} => Missing = {}
  /\ result \in {"leaks", "passed"} => pc["test"] \in {"del_ns", "del_veth", "none"} /\ Missing = {}

LEMMA StepBrought == Typed /\ Brought /\ [Next]_vars => Brought'
<1> SUFFICES ASSUME Typed, Brought, [Next]_vars PROVE Brought'
  OBVIOUS
<1>0. pc \in [Procs -> TestPCs \cup DaemonPCs] /\ "test" \in Procs
  BY DEF Typed, PlacesOK, Procs
<1>1. pc["test"] # "drop" => Missing' \subseteq Missing
  BY MissingShrinks
<1>2. CASE Beside
  BY <1>1, <1>2, LeftAlone DEF Brought
<1>3. CASE Start \/ Kill \/ SetupProbe
  <2>1. pc'["test"] \notin {"up", "wait", "rebuild", "flush", "add", "rest", "judge"}
    BY <1>0, <1>3 DEF Start, Kill, SetupProbe, FindAddress, ClearProbe, DelNs, DelVeth, AddNs,
                      AddVeth, Move, Set, Inside, SetupFails, At, Goto
  <2>2. result' \notin {"leaks", "passed"}
    <3>1. result' \in {"none", "killed", "setup_failed"} \/
            (result' = result /\ pc["test"] \notin {"del_ns", "del_veth", "none"})
      BY <1>3 DEF Start, Kill, SetupProbe, FindAddress, ClearProbe, DelNs, DelVeth, AddNs, AddVeth,
                  Move, Set, Inside, SetupFails, At
    <3> QED
      BY <3>1 DEF Brought
  <2> QED
    BY <2>1, <2>2 DEF Brought
<1>4. CASE TeardownProbe
  <2>1. /\ pc["test"] \in {"del_ns", "del_veth"} /\ pc'["test"] \in {"del_veth", "none"}
        /\ result' = result
    BY <1>0, <1>4 DEF TeardownProbe, DelNs, DelVeth, At, Goto
  <2> QED
    BY <1>1, <2>1 DEF Brought
<1>5. CASE DropTunnel \/ ProbeTarget
  <2>1. /\ pc'["test"] \in {"drop", "probe", "up"} /\ (pc'["test"] = "up" => n' = 1)
        /\ pc["test"] \in {"drop", "probe"} /\ result' = result
    BY <1>0, <1>5 DEF DropTunnel, ProbeTarget, Turn, Goto, verdict
  <2> QED
    BY <2>1 DEF Brought
<1>6. CASE StartTunnel
  <2>1. Tunnels[n] \notin Missing'
    <3>1. Tunnels[n] \in up' \cup failed'
      BY <1>6 DEF StartTunnel, BringUp
    <3> QED
      BY <3>1 DEF Missing
  <2>2. n \in 1 .. Len(Tunnels) /\ pc["test"] = "up" /\ result' = result /\ Len(Tunnels) \in Nat
    BY <1>6, BoundsType DEF StartTunnel, Turn, Typed, Turns, Limit, verdict
  <2>3. \A j \in 1 .. n : Tunnels[j] \notin Missing'
    <3>1. \A j \in 1 .. n - 1 : Tunnels[j] \notin Missing'
      BY <1>1, <2>2 DEF Brought
    <3>2. \A j \in 1 .. n : j = n \/ j \in 1 .. n - 1
      BY <2>2
    <3> QED
      BY <2>1, <3>1, <3>2
  <2>4. CASE n' = n + 1 /\ UNCHANGED pc
    <3>1. \A j \in 1 .. n' - 1 : Tunnels[j] \notin Missing'
      BY <2>2, <2>3, <2>4
    <3> QED
      BY <2>2, <2>4, <3>1 DEF Brought
  <2>5. CASE ~(n < Len(Tunnels)) /\ Goto("test", "wait")
    <3>1. Missing' = {}
      <4>1. \A t \in Ifaces : \E j \in 1 .. n : t = Tunnels[j]
        BY <2>2, <2>5, BoundsType DEF Ifaces
      <4> QED
        BY <2>3, <4>1 DEF Missing
    <3>2. pc'["test"] = "wait"
      BY <1>0, <2>5 DEF Goto
    <3> QED
      BY <2>2, <3>1, <3>2 DEF Brought
  <2> QED
    BY <1>6, <2>4, <2>5 DEF StartTunnel, Turn
<1>7. CASE Wait \/ Rebuild \/ Apply("test") \/ Judge
  <2>1. /\ pc["test"] \in {"wait", "rebuild", "flush", "add", "rest", "judge"}
        /\ pc'["test"] \in {"wait", "rebuild", "flush", "add", "rest", "judge", "del_ns"}
    BY <1>0, <1>7 DEF Wait, Rebuild, At, Judge, Done, Apply, FlushBond, AddBond, Rest, Failed,
                      Returns, On, Goto
  <2>2. result' = result \/ pc'["test"] = "del_ns"
    BY <1>0, <1>7 DEF Wait, Rebuild, Judge, Done, Goto, Apply, FlushBond, AddBond, Rest, Unapplied,
                      verdict
  <2> QED
    BY <1>1, <2>1, <2>2 DEF Brought
<1> QED
  BY <1>2, <1>3, <1>4, <1>5, <1>6, <1>7 DEF Next, Test, Beside

\* A test that ends by itself leaves no tunnel down, but those whose own start has failed and
\* the one the daemon is about to start again (leaktest.go:RestoreTunnels).
THEOREM BringsBack == Spec => []BroughtBack
<1>1. Init => Brought
  BY DEF Init, Brought
<1>2. Brought => BroughtBack
  BY DEF Brought, BroughtBack, Finished, Missing
<1> QED
  BY <1>1, <1>2, AlwaysTyped, StepBrought, PTL DEF Spec

-----------------------------------------------------------------------------
(* The verdict.                                                            *)

\* The tunnels the test has taken down and does not start yet.
Dropped ==
  IF pc["test"] = "drop" THEN {Tunnels[j] : j \in 1 .. n - 1}
  ELSE IF pc["test"] = "probe" THEN Ifaces ELSE {}
Quietly == spent \cap {"fault", "quiet"} = {}
Planning == pc["daemon"] \in {"plan", "flush", "add", "rest"}

\* Of a tunnel it has taken down only a new handshake brings a route back, by way of the
\* daemon's plan; so what is routed reaches the probe's targets, and is a leak.
Reborn ==
  Quietly => \A t \in Dropped :
               /\ t \in bond => t \in fresh
               /\ Planning /\ t \in SetOf(plan["daemon"]) /\ t \in up => t \in fresh
OpenLeaks == Quietly /\ open => leaks

LEMMA StepRebornBeside == Typed /\ Reborn /\ Beside /\ Quietly' => Reborn'
<1> SUFFICES ASSUME Typed, Reborn, Beside, Quietly' PROVE Reborn'
  OBVIOUS
<1>0. /\ pc \in [Procs -> TestPCs \cup DaemonPCs] /\ Procs = {"test", "daemon"}
      /\ plan \in [Procs -> Seq(Ifaces)]
  BY DEF Typed, PlacesOK, PlansOK, Procs
<1>1. Quietly /\ ~Fault
  <2>1. [Next]_vars
    BY DEF Beside, Next
  <2>2. spent \subseteq spent'
    BY <2>1, SpentStays
  <2>3. ~Fault
    BY DEF Quietly, Fault, Spend
  <2> QED
    BY <2>2, <2>3 DEF Quietly
<1>2. Dropped' = Dropped
  BY LeftAlone DEF Dropped
<1>3. /\ \A t \in Dropped : t \in bond => t \in fresh
      /\ Planning => \A t \in Dropped : t \in SetOf(plan["daemon"]) /\ t \in up => t \in fresh
  BY <1>1 DEF Reborn
<1>4. CASE Pass \/ (\E t \in Ifaces : Recover(t)) \/ Again
  <2>1. UNCHANGED << fresh, bond >> /\ pc'["daemon"] = "recover"
    BY <1>0, <1>4 DEF Pass, Recover, Again, BringUp, Goto, links, routes
  <2> QED
    BY <1>2, <1>3, <2>1 DEF Reborn, Planning
<1>5. ASSUME NEW u \in Ifaces, Cycle(u) PROVE Reborn'
  <2>1. pc'["daemon"] = "again"
    BY <1>0, <1>5 DEF Cycle, Goto
  <2>2. \A t \in bond' : t \in bond /\ (t \in fresh => t \in fresh')
    BY <1>5 DEF Cycle, Removed, links, routes
  <2> QED
    BY <1>2, <1>3, <2>1, <2>2 DEF Reborn, Planning
<1>6. CASE Replan
  <2>1. UNCHANGED << up, fresh, bond >>
    BY <1>6 DEF Replan, links, routes
  <2>2. PICK seen \in SUBSET fresh : Reads(seen) /\ plan' = [plan EXCEPT !["daemon"] = LiveTunnels(seen)]
    BY <1>6 DEF Replan, ReadPlan
  <2>3. SetOf(plan'["daemon"]) \subseteq fresh
    <3>1. plan'["daemon"] = LiveTunnels(seen) /\ LiveTunnels(seen) \in Seq(Ifaces \cap seen)
      BY <1>0, <2>2, LiveTunnelsAre
    <3> QED
      BY <3>1 DEF SetOf
  <2> QED
    BY <1>2, <1>3, <2>1, <2>3 DEF Reborn
<1>7. CASE Compare
  <2>1. UNCHANGED << up, fresh, bond >> /\ pc["daemon"] = "plan"
    BY <1>7 DEF Compare, links, routes
  <2>2. pc'["daemon"] = "idle" \/ plan' = plan
    BY <1>0, <1>7 DEF Compare, On, Goto
  <2> QED
    BY <1>2, <1>3, <2>1, <2>2 DEF Reborn, Planning
<1>8. CASE Apply("daemon")
  <2>1. UNCHANGED << up, fresh >> /\ Planning
    BY <1>8 DEF Apply, FlushBond, AddBond, Rest, Unapplied, links, Planning
  <2>2. pc'["daemon"] = "idle" \/ plan' = plan
    BY <1>0, <1>8 DEF Apply, FlushBond, AddBond, Rest, Failed, Returns, On, Goto
  <2>3. \A t \in bond' : t \in bond \/ (t \in SetOf(plan["daemon"]) /\ t \in up)
    <3>1. bond' \in {bond, {}} \/ (bond' = SetOf(plan["daemon"]) /\ bond' \subseteq up)
            \/ (bond' = {plan["daemon"][1]} /\ plan["daemon"][1] \in up /\ Len(plan["daemon"]) > 1)
      BY <1>8 DEF Apply, FlushBond, AddBond, Rest
    <3>2. Len(plan["daemon"]) > 1 => plan["daemon"][1] \in SetOf(plan["daemon"])
      BY <1>0 DEF SetOf
    <3> QED
      BY <3>1, <3>2
  <2> QED
    BY <1>2, <1>3, <2>1, <2>2, <2>3 DEF Reborn, Planning
<1>9. CASE Handshakes \/ GoesQuiet \/ Opened \/ UNCHANGED vars
  <2>1. ~GoesQuiet
    BY DEF GoesQuiet, Spend, Quietly
  <2>2. UNCHANGED << up, bond, pc, plan >> /\ fresh \subseteq fresh'
    BY <1>9, <2>1 DEF Handshakes, Opened, Around, vars, links, routes
  <2> QED
    BY <1>2, <1>3, <2>2 DEF Reborn, Planning
<1> QED
  BY <1>4, <1>5, <1>6, <1>7, <1>8, <1>9 DEF Beside, Daemon

LEMMA StepReborn == Typed /\ Reborn /\ [Next]_vars => Reborn'
<1> SUFFICES ASSUME Typed, Reborn, [Next]_vars, Quietly' PROVE Reborn'
  BY DEF Reborn
<1>0. pc \in [Procs -> TestPCs \cup DaemonPCs] /\ Procs = {"test", "daemon"}
  BY DEF Typed, PlacesOK, Procs
<1>1. Quietly /\ ~Fault
  <2>1. spent \subseteq spent'
    BY SpentStays
  <2>2. ~Fault
    BY DEF Quietly, Fault, Spend
  <2> QED
    BY <2>1, <2>2 DEF Quietly
<1>2. CASE Beside
  BY <1>2, StepRebornBeside
<1>3. CASE DropTunnel
  <2>1. /\ pc["test"] = "drop" /\ n \in 1 .. Len(Tunnels) /\ Len(Tunnels) \in Nat
        /\ UNCHANGED plan /\ bond \subseteq up
    BY <1>3, BoundsType DEF DropTunnel, Turn, Typed, Turns, Limit, LinksOK
  <2>2. pc'["daemon"] = pc["daemon"]
    BY <1>0, <1>3 DEF DropTunnel, Turn, Goto
  <2>3. /\ Tunnels[n] \notin up' /\ Tunnels[n] \notin bond' /\ up' \subseteq up /\ bond' \subseteq bond
        /\ fresh \subseteq fresh' \cup {Tunnels[n]}
    BY <1>1, <1>3, <2>1 DEF DropTunnel, BringDown, Refused, Removed, links, routes
  <2>4. Dropped' \subseteq Dropped \cup {Tunnels[n]}
    <3>1. CASE n' = n + 1 /\ UNCHANGED pc
      <4>1. \A j \in 1 .. n' - 1 : j = n \/ j \in 1 .. n - 1
        BY <2>1, <3>1
      <4> QED
        BY <2>1, <3>1, <4>1 DEF Dropped
    <3>2. CASE ~(n < Len(Tunnels)) /\ Goto("test", "probe")
      <4>1. \A t \in Ifaces : \E j \in 1 .. n : t = Tunnels[j]
        BY <2>1, <3>2, BoundsType DEF Ifaces
      <4>2. \A j \in 1 .. n : j = n \/ j \in 1 .. n - 1
        BY <2>1
      <4>3. \A t \in Ifaces : t \in Dropped \cup {Tunnels[n]}
        BY <2>1, <4>1, <4>2 DEF Dropped
      <4>4. Dropped' = Ifaces
        BY <1>0, <3>2 DEF Dropped, Goto
      <4> QED
        BY <4>3, <4>4
    <3> QED
      BY <1>3, <3>1, <3>2 DEF DropTunnel, Turn
  <2>5. ASSUME NEW t \in Dropped', t # Tunnels[n]
        PROVE  /\ t \in bond' => t \in fresh'
               /\ Planning' /\ t \in SetOf(plan["daemon"]) /\ t \in up' => t \in fresh'
    <3>1. t \in Dropped
      BY <2>4, <2>5
    <3>2. /\ t \in bond => t \in fresh
          /\ Planning /\ t \in SetOf(plan["daemon"]) /\ t \in up => t \in fresh
      BY <1>1, <3>1 DEF Reborn
    <3> QED
      BY <2>2, <2>3, <2>5, <3>2 DEF Planning
  <2> QED
    BY <2>1, <2>3, <2>5 DEF Reborn
<1>4. CASE ProbeTarget
  <2>1. UNCHANGED << up, fresh, bond, plan >> /\ pc'["daemon"] = pc["daemon"]
    BY <1>0, <1>4 DEF ProbeTarget, Turn, Goto, links, routes
  <2>2. Dropped' \subseteq Dropped
    BY <1>0, <1>4 DEF ProbeTarget, Turn, Goto, Dropped
  <2> QED
    BY <1>1, <2>1, <2>2 DEF Reborn, Planning
<1>5. CASE Start \/ Kill \/ SetupProbe \/ TeardownProbe
  <2>1. pc'["test"] # "probe" /\ (pc'["test"] = "drop" => n' = 1)
    BY <1>0, <1>5 DEF Start, Kill, SetupProbe, FindAddress, ClearProbe, TeardownProbe, DelNs, DelVeth,
                      AddNs, AddVeth, Move, Set, Inside, SetupFails, At, Goto
  <2> QED
    BY <2>1 DEF Reborn, Dropped
<1>6. CASE StartTunnel \/ Wait \/ Rebuild \/ Judge \/ Apply("test")
  <2>1. pc'["test"] \notin {"drop", "probe"}
    BY <1>0, <1>6 DEF StartTunnel, Turn, Wait, Rebuild, At, Judge, Done, Apply, FlushBond, AddBond,
                      Rest, Failed, Returns, On, Goto
  <2> QED
    BY <2>1 DEF Reborn, Dropped
<1> QED
  BY <1>2, <1>3, <1>4, <1>5, <1>6 DEF Next, Test, Beside

\* Without a daemon nothing brings a tunnel back before the test does, and a leak went out by
\* the ISP's interface.
Escapes == Alone /\ NoFault => Dropped \cap up = {} /\ (leaks => escaped)

LEMMA StepAlone == Typed /\ [Next]_vars /\ Alone' => Alone /\ ~Daemon
<1> SUFFICES ASSUME Typed, [Next]_vars, Alone' PROVE Alone /\ ~Daemon
  OBVIOUS
<1>0. pc \in [Procs -> TestPCs \cup DaemonPCs] /\ Procs = {"test", "daemon"}
  BY DEF Typed, PlacesOK, Procs
<1>1. ~Daemon
  <2>1. Daemon => pc["daemon"] # "off"
    BY DEF Daemon, Pass, Recover, Cycle, Again, Replan, Compare, Apply, FlushBond, AddBond, Rest
  <2>2. Daemon => pc'["daemon"] \in {"idle", "recover", "again", "plan", "flush", "add", "rest",
                                    pc["daemon"]}
    BY <1>0 DEF Daemon, Pass, Recover, Cycle, Again, Replan, Compare, Apply, FlushBond, AddBond, Rest,
                Failed, Returns, On, Goto
  <2> QED
    BY <2>1, <2>2 DEF Alone
<1>2. pc'["daemon"] = pc["daemon"]
  <2>1. CASE Handshakes \/ GoesQuiet \/ Opened \/ UNCHANGED vars
    BY <2>1 DEF Handshakes, GoesQuiet, Opened, Around, vars
  <2>2. CASE Start \/ Kill \/ SetupProbe \/ TeardownProbe
    BY <1>0, <2>2 DEF Start, Kill, SetupProbe, FindAddress, ClearProbe, TeardownProbe, DelNs, DelVeth,
                      AddNs, AddVeth, Move, Set, Inside, SetupFails, At, Goto
  <2>3. CASE DropTunnel \/ ProbeTarget \/ StartTunnel \/ Wait \/ Rebuild \/ Judge \/ Apply("test")
    BY <1>0, <2>3 DEF DropTunnel, ProbeTarget, StartTunnel, Turn, Wait, Rebuild, At, Judge, Done,
                      Apply, FlushBond, AddBond, Rest, Failed, Returns, On, Goto
  <2> QED
    BY <1>1, <2>1, <2>2, <2>3 DEF Next, Test
<1> QED
  BY <1>1, <1>2 DEF Alone

LEMMA StepEscapes == Typed /\ Escapes /\ [Next]_vars => Escapes'
<1> SUFFICES ASSUME Typed, Escapes, [Next]_vars, Alone', NoFault' PROVE Escapes'
  BY DEF Escapes
<1>0. pc \in [Procs -> TestPCs \cup DaemonPCs] /\ "test" \in Procs
  BY DEF Typed, PlacesOK, Procs
<1>1. ~Daemon /\ ~Fault /\ Dropped \cap up = {} /\ (leaks => escaped)
  <2>1. Alone /\ ~Daemon
    BY StepAlone
  <2>2. NoFault /\ ~Fault
    BY SpentStays DEF NoFault, Fault, Spend
  <2> QED
    BY <2>1, <2>2 DEF Escapes
<1>2. CASE Handshakes \/ GoesQuiet \/ Opened \/ UNCHANGED vars
  <2>1. UNCHANGED << up, pc, n, leaks, escaped >>
    BY <1>2 DEF Handshakes, GoesQuiet, Opened, Around, vars, links, verdict, history
  <2> QED
    BY <1>1, <2>1 DEF Escapes, Dropped
<1>3. CASE Start \/ Kill \/ SetupProbe \/ TeardownProbe
  <2>1. pc'["test"] # "probe" /\ (pc'["test"] = "drop" => n' = 1)
    BY <1>0, <1>3 DEF Start, Kill, SetupProbe, FindAddress, ClearProbe, TeardownProbe, DelNs, DelVeth,
                      AddNs, AddVeth, Move, Set, Inside, SetupFails, At, Goto
  <2>2. (UNCHANGED << leaks, escaped >>) \/ ~leaks'
    BY <1>3 DEF Start, Kill, SetupProbe, FindAddress, ClearProbe, TeardownProbe, DelNs, DelVeth,
                AddNs, AddVeth, Move, Set, Inside, InSetup, history
  <2>3. Dropped' = {}
    BY <2>1 DEF Dropped
  <2> QED
    BY <1>1, <2>2, <2>3 DEF Escapes
<1>4. CASE DropTunnel
  <2>1. /\ pc["test"] = "drop" /\ n \in 1 .. Len(Tunnels) /\ Len(Tunnels) \in Nat
        /\ UNCHANGED << leaks, escaped >>
    BY <1>4, BoundsType DEF DropTunnel, Turn, Typed, Turns, Limit, verdict, history
  <2>2. Tunnels[n] \notin up' /\ up' \subseteq up
    BY <1>1, <1>4 DEF DropTunnel, BringDown, Refused, Removed, links
  <2>3. \A j \in 1 .. n : Tunnels[j] \notin up'
    <3>1. \A j \in 1 .. n : j = n \/ j \in 1 .. n - 1
      BY <2>1
    <3>2. \A j \in 1 .. n - 1 : Tunnels[j] \notin up
      BY <1>1, <2>1 DEF Dropped
    <3> QED
      BY <2>2, <3>1, <3>2
  <2>4. CASE n' = n + 1 /\ UNCHANGED pc
    <3>1. \A j \in 1 .. n' - 1 : Tunnels[j] \notin up'
      BY <2>1, <2>3, <2>4
    <3>2. Dropped' = {Tunnels[j] : j \in 1 .. n' - 1}
      BY <2>1, <2>4 DEF Dropped
    <3> QED
      BY <1>1, <2>1, <3>1, <3>2 DEF Escapes
  <2>5. CASE ~(n < Len(Tunnels)) /\ Goto("test", "probe")
    <3>1. \A t \in Ifaces : \E j \in 1 .. n : t = Tunnels[j]
      BY <2>1, <2>5, BoundsType DEF Ifaces
    <3>2. Dropped' = Ifaces
      BY <1>0, <2>5 DEF Dropped, Goto
    <3> QED
      BY <1>1, <2>1, <2>3, <3>1, <3>2 DEF Escapes
  <2> QED
    BY <1>4, <2>4, <2>5 DEF DropTunnel, Turn
<1>5. CASE ProbeTarget
  <2>1. up = {} /\ ~Bonded
    BY <1>1, <1>5 DEF ProbeTarget, Turn, Dropped, Typed, LinksOK, Bonded
  <2>2. leaks' => escaped'
    <3>1. leaks' = (leaks \/ ~sealed)
      BY <1>1, <1>5, <2>1 DEF ProbeTarget, Counted, Reaches
    <3>2. escaped' = (escaped \/ ~sealed)
      BY <1>5, <2>1 DEF ProbeTarget
    <3> QED
      BY <1>1, <3>1, <3>2
  <2>3. up' = {}
    BY <1>5, <2>1 DEF ProbeTarget, links
  <2> QED
    BY <2>2, <2>3 DEF Escapes
<1>6. CASE StartTunnel \/ Wait \/ Rebuild \/ Judge \/ Apply("test")
  <2>1. pc'["test"] \notin {"drop", "probe"}
    BY <1>0, <1>6 DEF StartTunnel, Turn, Wait, Rebuild, At, Judge, Done, Apply, FlushBond, AddBond,
                      Rest, Failed, Returns, On, Goto
  <2>2. UNCHANGED << leaks, escaped >>
    BY <1>6 DEF StartTunnel, Wait, Rebuild, Judge, Apply, FlushBond, AddBond, Rest, Unapplied, verdict,
                history
  <2> QED
    BY <1>1, <2>1, <2>2 DEF Escapes, Dropped
<1> QED
  BY <1>1, <1>2, <1>3, <1>4, <1>5, <1>6 DEF Next, Test

\* The result is the one of the probes.
Tells == (result = "passed" => ~leaks) /\ (result = "leaks" => leaks)

LEMMA StepTells == Typed /\ Brought /\ Tells /\ [Next]_vars => Tells'
<1> SUFFICES ASSUME Typed, Brought, Tells, [Next]_vars PROVE Tells'
  OBVIOUS
<1>1. CASE Beside
  BY <1>1, LeftAlone DEF Tells
<1>2. CASE Start \/ Kill \/ SetupProbe \/ TeardownProbe
  <2>1. result' \in {"none", "killed", "setup_failed"} \/ UNCHANGED << result, leaks >>
    BY <1>2 DEF Start, Kill, SetupProbe, FindAddress, ClearProbe, TeardownProbe, DelNs, DelVeth,
                AddNs, AddVeth, Move, Set, Inside, InSetup, SetupFails
  <2> QED
    BY <2>1 DEF Tells
<1>3. CASE ProbeTarget
  BY <1>3 DEF ProbeTarget, Turn, Brought, Tells
<1>4. CASE DropTunnel \/ StartTunnel \/ Wait \/ Rebuild \/ Judge \/ Apply("test")
  BY <1>4 DEF DropTunnel, StartTunnel, Wait, Rebuild, Judge, Done, Apply, FlushBond, AddBond, Rest,
              Unapplied, verdict, Tells
<1> QED
  BY <1>1, <1>2, <1>3, <1>4 DEF Next, Test, Beside

LEMMA StepOpenLeaks == Typed /\ Reborn /\ OpenLeaks /\ [Next]_vars => OpenLeaks'
<1> SUFFICES ASSUME Typed, Reborn, OpenLeaks, [Next]_vars, Quietly' PROVE OpenLeaks'
  BY DEF OpenLeaks
<1>1. Quietly /\ ~Fault
  BY SpentStays DEF Quietly, Fault, Spend
<1>2. CASE Beside
  BY <1>1, <1>2, LeftAlone DEF OpenLeaks
<1>3. CASE ProbeTarget
  <2>1. Bonded => bond \subseteq fresh /\ bond # {}
    <3>1. bond \subseteq Dropped
      BY <1>3 DEF ProbeTarget, Turn, Dropped, Typed, LinksOK
    <3> QED
      BY <1>1, <3>1 DEF Reborn, Bonded
  <2>2. leaks' = (leaks \/ Bonded \/ ~sealed)
    <3>1. CASE Bonded
      <4>1. PICK t \in bond : leaks' = (leaks \/ Reaches(t))
        BY <1>1, <1>3, <3>1 DEF ProbeTarget, Counted
      <4>2. Reaches(t) <=> TRUE
        BY <2>1, <3>1 DEF Reaches
      <4> QED
        BY <3>1, <4>1, <4>2
    <3>2. CASE ~Bonded
      BY <1>1, <1>3, <3>2 DEF ProbeTarget, Counted, Reaches
    <3> QED
      BY <3>1, <3>2
  <2>3. open' = (open \/ ~sealed)
    BY <1>3 DEF ProbeTarget
  <2> QED
    BY <1>1, <2>2, <2>3 DEF OpenLeaks
<1>4. CASE Start \/ Kill \/ SetupProbe \/ TeardownProbe
  BY <1>1, <1>4 DEF Start, Kill, SetupProbe, FindAddress, ClearProbe, TeardownProbe, DelNs, DelVeth,
                    AddNs, AddVeth, Move, Set, Inside, InSetup, history, OpenLeaks
<1>5. CASE DropTunnel \/ StartTunnel \/ Wait \/ Rebuild \/ Judge \/ Apply("test")
  BY <1>1, <1>5 DEF DropTunnel, StartTunnel, Wait, Rebuild, Judge, Apply, FlushBond, AddBond, Rest,
                    Unapplied, verdict, history, OpenLeaks
<1> QED
  BY <1>2, <1>3, <1>4, <1>5 DEF Next, Test, Beside

\* A test that passes has found the kill switch closed at each of its probes, also beside a
\* daemon; and what it reports without one has left by the ISP's interface
\* (leaktest.go:Run, probe.go:probe).
THEOREM HonestVerdicts == Spec => []HonestVerdict
<1>1. Init => Brought /\ Reborn /\ OpenLeaks /\ Escapes /\ Tells
  <2> SUFFICES ASSUME Init PROVE Brought /\ Reborn /\ OpenLeaks /\ Escapes /\ Tells
    OBVIOUS
  <2>1. Dropped = {} /\ ~leaks /\ ~open /\ result = "none" /\ pc["test"] = "none"
    BY DEF Init, Dropped
  <2> QED
    BY <2>1 DEF Brought, Reborn, OpenLeaks, Escapes, Tells
<1>2. OpenLeaks /\ Escapes /\ Tells => HonestVerdict
  BY DEF OpenLeaks, Escapes, Tells, HonestVerdict, Quietly
<1> QED
  BY <1>1, <1>2, AlwaysTyped, StepBrought, StepReborn, StepOpenLeaks, StepEscapes, StepTells, PTL
  DEF Spec

-----------------------------------------------------------------------------
(* The restore.                                                            *)

InRestore == {"rebuild", "flush", "add", "rest", "judge"}

\* After a wait that has seen every tunnel they all stay, each rebuild plans them all, and
\* without a daemon its commands install what it has planned.
Restoring ==
  Undisturbed /\ ~late =>
    /\ pc["test"] \in InRestore => fresh = Ifaces
    /\ pc["test"] \in InRestore \ {"rebuild"} => plan["test"] = Tunnels
    /\ Alone /\ pc["test"] \in {"rest", "judge"} => bond = Ifaces
    /\ Alone /\ pc["test"] = "judge" => Installed(plan["test"])
\* A plan of as many tunnels as there are is the one of all of them.
WholePlan == Len(plan["test"]) >= Len(Tunnels) => plan["test"] = Tunnels

\* A remainder is smaller than what it is the remainder by.
LEMMA Remainder == ASSUME NEW a \in Nat, NEW m \in Nat \ {0} PROVE a % m \in 0 .. m - 1
OBVIOUS

\* Each pin of a plan of all tunnels finds its own in the table that is made of it.
LEMMA AllPinned ==
  /\ Tunnels # << >> /\ Ifaces # {}
  /\ \A i \in LastEntries : PinTables(Tunnels)[Slot(i, Tunnels)] = Tunnels[Slot(i, Tunnels)]
<1>1. /\ Tunnels # << >> /\ Len(Tunnels) \in Nat \ {0} /\ DOMAIN Tunnels = 1 .. Len(Tunnels)
      /\ Ifaces # {}
  BY BoundsType, ConfigAssumption
<1>2. ASSUME NEW i \in LastEntries
      PROVE  PinTables(Tunnels)[Slot(i, Tunnels)] = Tunnels[Slot(i, Tunnels)]
  <2>1. i - 1 \in Nat
    BY ConfigAssumption DEF LastEntries
  <2>2. (i - 1) % Len(Tunnels) \in 0 .. Len(Tunnels) - 1
    BY <1>1, <2>1, Remainder
  <2>3. Slot(i, Tunnels) \in 1 .. Len(Tunnels)
    BY <1>1, <2>2 DEF Slot
  <2> QED
    BY <1>1, <2>3 DEF PinTables
<1> QED
  BY <1>1, <1>2

LEMMA StepRestoring == Typed /\ Restoring /\ [Next]_vars => Restoring'
<1> SUFFICES ASSUME Typed, Restoring, [Next]_vars, Undisturbed', ~late' PROVE Restoring'
  BY DEF Restoring
<1>0. /\ pc \in [Procs -> TestPCs \cup DaemonPCs] /\ plan \in [Procs -> Seq(Ifaces)]
      /\ Procs = {"test", "daemon"} /\ fresh \subseteq up /\ up \subseteq Ifaces
  BY DEF Typed, PlacesOK, PlansOK, LinksOK, Procs
<1>1. Undisturbed /\ ~Fault
  BY SpentStays DEF Undisturbed, Fault, Spend
<1>a. Alone' => Alone /\ ~Daemon
  BY StepAlone
<1>2. CASE Beside
  <2>1. pc["test"] \in InRestore => fresh' = fresh
    <3>1. CASE Handshakes
      BY <1>0, <1>1, <3>1, LeftAlone, <1>2 DEF Handshakes, Restoring
    <3>2. ~GoesQuiet /\ \A t : ~Cycle(t)
      BY DEF GoesQuiet, Cycle, Spend, Undisturbed
    <3>3. CASE Pass \/ (\E t \in Ifaces : Recover(t)) \/ Again \/ Replan \/ Compare \/ Apply("daemon")
      BY <3>3 DEF Pass, Recover, Again, BringUp, Replan, Compare, Apply, FlushBond, AddBond, Rest,
                  Unapplied, links
    <3>4. CASE Opened \/ UNCHANGED vars
      BY <3>4 DEF Opened, vars, links
    <3> QED
      BY <1>2, <3>1, <3>2, <3>3, <3>4 DEF Beside, Daemon
  <2>2. Alone' => UNCHANGED routes
    <3>1. Alone' => Handshakes \/ GoesQuiet \/ Opened \/ UNCHANGED vars
      BY <1>2, <1>a DEF Beside
    <3> QED
      BY <3>1 DEF Handshakes, GoesQuiet, Opened, Around, vars
  <2>3. Alone' => Alone /\ bond' = bond /\ (Installed(plan["test"]) => Installed(plan["test"])')
    BY <1>a, <1>2, <2>2, LeftAlone DEF routes, Installed
  <2> QED
    BY <1>1, <1>2, <2>1, <2>3, LeftAlone DEF Restoring
<1>3. CASE Start \/ Kill \/ SetupProbe \/ TeardownProbe \/ DropTunnel \/ ProbeTarget \/ StartTunnel
  <2>1. pc'["test"] \notin InRestore
    BY <1>0, <1>3 DEF Start, Kill, SetupProbe, FindAddress, ClearProbe, TeardownProbe, DelNs, DelVeth,
                      AddNs, AddVeth, Move, Set, Inside, SetupFails, At, Goto, DropTunnel, ProbeTarget,
                      StartTunnel, Turn, InRestore
  <2> QED
    BY <2>1 DEF Restoring, InRestore
<1>4. CASE Wait
  <2>1. pc'["test"] \in {"wait", "rebuild"} /\ UNCHANGED fresh
    BY <1>0, <1>4 DEF Wait, Goto, links
  <2>2. pc'["test"] = "rebuild" => fresh = Ifaces
    <3>1. PICK seen \in SUBSET fresh : Enough(LiveTunnels(seen)) \/ late' \/ UNCHANGED pc
      BY <1>4 DEF Wait
    <3>2. Enough(LiveTunnels(seen)) => Ifaces \subseteq seen
      <4>1. PICK k : k = Len(LiveTunnels(seen))
        OBVIOUS
      <4>2. k \in Nat /\ k <= Len(Tunnels) /\ Len(Tunnels) \in Nat
        <5>1. LiveTunnels(seen) \in Seq(Ifaces \cap seen) /\ k <= Len(Tunnels)
          BY <4>1, LiveTunnelsAre
        <5> QED
          BY <4>1, <5>1, BoundsType
      <4>3. k >= Len(Tunnels) => k = Len(Tunnels)
        BY <4>2
      <4> QED
        BY <4>1, <4>3, LiveTunnelsAre DEF Enough
    <3> QED
      BY <1>0, <1>4, <3>1, <3>2 DEF Wait
  <2> QED
    BY <2>1, <2>2 DEF Restoring, InRestore
<1>5. CASE Rebuild
  <2>1. pc'["test"] = "flush" /\ fresh' = fresh /\ fresh = Ifaces
    BY <1>0, <1>1, <1>5 DEF Rebuild, At, Goto, links, verdict, Restoring, InRestore
  <2>2. plan'["test"] = Tunnels
    <3>1. plan'["test"] = LiveTunnels(fresh)
      BY <1>0, <1>1, <1>5 DEF Rebuild, ReadPlan, Reads
    <3> QED
      BY <2>1, <3>1, LiveTunnelsAre
  <2> QED
    BY <2>1, <2>2 DEF Restoring
<1>6. CASE Apply("test")
  <2>1. /\ fresh' = fresh /\ fresh = Ifaces /\ up = Ifaces /\ plan["test"] = Tunnels
        /\ pc["test"] \in {"flush", "add", "rest"}
    BY <1>0, <1>1, <1>6 DEF Apply, FlushBond, AddBond, Rest, Unapplied, links, verdict, Restoring,
                            InRestore
  <2>2. plan' = plan
    BY <1>6 DEF Apply, FlushBond, AddBond, Rest, Failed, Returns, On
  <2>3. SetOf(plan["test"]) = Ifaces /\ Tunnels # << >>
    BY <2>1, ConfigAssumption DEF SetOf, Ifaces
  <2>4. CASE FlushBond("test")
    <3>1. pc'["test"] = "add"
      BY <1>0, <2>1, <2>3, <2>4 DEF FlushBond, On, Goto
    <3> QED
      BY <2>1, <2>2, <3>1 DEF Restoring
  <2>5. CASE AddBond("test")
    <3>1. pc'["test"] = "rest" /\ bond' = Ifaces
      BY <1>0, <1>1, <2>1, <2>3, <2>5 DEF AddBond, On, Goto, Refused
    <3> QED
      BY <2>1, <2>2, <3>1 DEF Restoring
  <2>6. CASE Rest("test")
    <3>1. /\ pc["test"] = "rest" /\ pc'["test"] = "judge" /\ bond' = bond
          /\ pin' = PinTables(Tunnels) /\ ruled' = Rules(Tunnels)
      BY <1>0, <1>1, <2>1, <2>3, <2>6 DEF Rest, Returns, Goto, Refused
    <3>2. Alone' => bond = Ifaces
      BY <1>1, <1>a, <2>6, <3>1 DEF Restoring, Rest, Unapplied, verdict
    <3>3. Alone' => Installed(plan["test"])'
      BY <2>1, <2>2, <3>1, <3>2, AllPinned DEF Installed
    <3> QED
      BY <2>1, <2>2, <3>1, <3>2, <3>3 DEF Restoring
  <2> QED
    BY <1>6, <2>4, <2>5, <2>6 DEF Apply
<1>7. CASE Judge
  <2>1. pc'["test"] \in {"rebuild", "del_ns"} /\ fresh' = fresh /\ fresh = Ifaces
    BY <1>0, <1>1, <1>7 DEF Judge, Done, Goto, links, Restoring, InRestore
  <2> QED
    BY <2>1 DEF Restoring, InRestore
<1> QED
  BY <1>2, <1>3, <1>4, <1>5, <1>6, <1>7 DEF Next, Test, Beside

LEMMA StepWholePlan == Typed /\ WholePlan /\ [Next]_vars => WholePlan'
<1> SUFFICES ASSUME Typed, WholePlan, [Next]_vars PROVE WholePlan'
  OBVIOUS
<1>0. plan \in [Procs -> Seq(Ifaces)] /\ "test" \in Procs /\ Len(Tunnels) \in Nat \ {0}
  BY BoundsType DEF Typed, PlansOK, Procs
<1>e. Len(<< >>) = 0 /\ ~(0 >= Len(Tunnels))
  BY <1>0
<1>1. CASE plan'["test"] = plan["test"]
  BY <1>1 DEF WholePlan
<1>2. CASE plan'["test"] = << >>
  BY <1>2, <1>e DEF WholePlan
<1>3. CASE Rebuild
  <2>1. PICK seen \in SUBSET fresh : plan'["test"] = LiveTunnels(seen)
    BY <1>0, <1>3 DEF Rebuild, ReadPlan
  <2>2. PICK k : k = Len(LiveTunnels(seen))
    OBVIOUS
  <2>3. k \in Nat /\ k <= Len(Tunnels)
    <3>1. LiveTunnels(seen) \in Seq(Ifaces \cap seen) /\ k <= Len(Tunnels)
      BY <2>2, LiveTunnelsAre
    <3> QED
      BY <2>2, <3>1
  <2>4. k >= Len(Tunnels) => k = Len(Tunnels)
    BY <1>0, <2>3
  <2>5. k >= Len(Tunnels) => LiveTunnels(seen) = Tunnels
    BY <2>2, <2>4, LiveTunnelsAre
  <2> QED
    BY <2>1, <2>2, <2>5 DEF WholePlan
<1>4. CASE Beside
  BY <1>1, <1>4, LeftAlone
<1>5. CASE Kill \/ Judge
  BY <1>0, <1>2, <1>5 DEF Kill, Judge, Forget
<1>6. CASE Start \/ SetupProbe \/ TeardownProbe \/ DropTunnel \/ ProbeTarget \/ StartTunnel \/ Wait
  BY <1>1, <1>6 DEF Start, SetupProbe, FindAddress, ClearProbe, TeardownProbe, DelNs, DelVeth, AddNs,
                    AddVeth, Move, Set, Inside, InSetup, DropTunnel, ProbeTarget, StartTunnel, Wait
<1>7. CASE Apply("test")
  BY <1>1, <1>7 DEF Apply, FlushBond, AddBond, Rest, Failed, Returns, On
<1> QED
  BY <1>3, <1>4, <1>5, <1>6, <1>7 DEF Next, Test, Beside

\* Only a judgement tells of a restore.
LEMMA RestoredByJudge == Typed /\ [Next]_vars /\ restored' = "ok" /\ restored # "ok" => Judge
<1> SUFFICES ASSUME Typed, [Next]_vars, ~Judge PROVE restored' \in {restored, "none"}
  OBVIOUS
<1>1. CASE Beside
  BY <1>1, LeftAlone
<1>2. CASE Start \/ Kill \/ SetupProbe \/ TeardownProbe
  BY <1>2 DEF Start, Kill, SetupProbe, FindAddress, ClearProbe, TeardownProbe, DelNs, DelVeth, AddNs,
              AddVeth, Move, Set, Inside, InSetup
<1>3. CASE DropTunnel \/ ProbeTarget \/ StartTunnel \/ Wait \/ Rebuild \/ Apply("test")
  BY <1>3 DEF DropTunnel, ProbeTarget, StartTunnel, Wait, Rebuild, Apply, FlushBond, AddBond, Rest,
              Unapplied, verdict
<1> QED
  BY <1>1, <1>2, <1>3 DEF Next, Test, Beside

LEMMA JudgeRestored == Typed /\ Restoring /\ [Next]_vars => RestoredAll
<1> SUFFICES ASSUME Typed, Restoring, [Next]_vars, restored' = "ok", restored # "ok", ~late, Undisturbed
             PROVE  /\ Len(plan["test"]) = Len(Tunnels)
                    /\ Alone => bond = Ifaces /\ Installed(plan["test"])
  BY DEF RestoredAll
<1>1. pc["test"] = "judge"
  BY RestoredByJudge DEF Judge
<1> QED
  BY <1>1 DEF Restoring, InRestore

LEMMA InitRestored == Init => Restoring /\ WholePlan
<1> SUFFICES ASSUME Init PROVE Restoring /\ WholePlan
  OBVIOUS
<1>1. pc["test"] = "none" /\ plan["test"] = << >>
  BY DEF Init, Procs
<1>2. Len(<< >>) = 0 /\ ~(0 >= Len(Tunnels))
  BY BoundsType
<1> QED
  BY <1>1, <1>2 DEF Restoring, WholePlan, InRestore

\* A restore that succeeds after a wait that has seen every tunnel has planned them all, and
\* without a daemon beside it has installed what it planned (leaktest.go:RestoreTunnels).
THEOREM RestoredWhole == Spec => [][RestoredAll]_vars
BY AlwaysTyped, InitRestored, StepRestoring, JudgeRestored, PTL DEF Spec

\* No client is pinned twice.
PinsDistinct == \A i, j \in DOMAIN Pinned : Pinned[i] = Pinned[j] => i = j

\* Then the pins over all tunnels take one tunnel each, or every tunnel.
LEMMA PinsSpread ==
  ASSUME PinsDistinct
  PROVE  DistinctPins(Tunnels) = Len(Pinned) \/ DistinctPins(Tunnels) = Len(Tunnels)
<1> DEFINE P == Len(Pinned)
           N == Len(Tunnels)
           S == {Tunnels[Slot(i, Tunnels)] : i \in LastEntries}
<1>1. P \in Nat /\ N \in Nat \ {0} /\ DOMAIN Pinned = 1 .. P /\ DOMAIN Tunnels = 1 .. N
  BY BoundsType, ConfigAssumption
<1>2. LastEntries = 1 .. P
  BY <1>1 DEF LastEntries, PinsDistinct
<1>3. \A i, j \in 1 .. N : Tunnels[i] = Tunnels[j] => i = j
  BY <1>1, ConfigAssumption
<1>4. \A i \in 1 .. P : Slot(i, Tunnels) \in 1 .. N
  <2>1. \A i \in 1 .. P : i - 1 \in Nat
    BY <1>1
  <2>2. \A i \in 1 .. P : (i - 1) % N \in 0 .. N - 1
    BY <1>1, <2>1, Remainder
  <2> QED
    BY <1>1, <2>2 DEF Slot
<1>5. \A i \in 1 .. P : i <= N => Slot(i, Tunnels) = i
  <2> SUFFICES ASSUME NEW i \in 1 .. P, i <= N PROVE Slot(i, Tunnels) = i
    OBVIOUS
  <2>1. \A a \in Nat : a < N => a % N = a
    BY <1>1
  <2>2. i - 1 \in Nat /\ i - 1 < N
    BY <1>1
  <2>3. (i - 1) % N = i - 1
    BY <2>1, <2>2
  <2> QED
    BY <2>3 DEF Slot
<1>6. CASE P <= N
  <2> DEFINE f == [i \in 1 .. P |-> Tunnels[i]]
  <2>1. S = {Tunnels[i] : i \in 1 .. P}
    BY <1>1, <1>2, <1>5, <1>6
  <2>2. f \in Bijection(1 .. P, S)
    <3>1. f \in [1 .. P -> S] /\ \A a, b \in 1 .. P : f[a] = f[b] => a = b
      <4>1. 1 .. P \subseteq 1 .. N
        BY <1>1, <1>6
      <4>2. f \in [1 .. P -> S]
        BY <2>1
      <4> QED
        BY <1>3, <4>1, <4>2
    <3>2. \A t \in S : \E i \in 1 .. P : f[i] = t
      BY <2>1
    <3> QED
      BY <3>1, <3>2 DEF Bijection, Injection, Surjection, IsInjective
  <2>3. Cardinality(S) = P
    BY <1>1, <2>2, FS_CountingElements DEF ExistsBijection
  <2> QED
    BY <2>3 DEF DistinctPins
<1>7. CASE ~(P <= N)
  <2> DEFINE f == [i \in 1 .. N |-> Tunnels[i]]
  <2>1. S = {Tunnels[i] : i \in 1 .. N}
    <3>1. \A i \in 1 .. N : i \in 1 .. P /\ Slot(i, Tunnels) = i
      BY <1>1, <1>5, <1>7
    <3> QED
      BY <1>2, <1>4, <3>1
  <2>2. f \in Bijection(1 .. N, S)
    <3>1. f \in [1 .. N -> S] /\ \A a, b \in 1 .. N : f[a] = f[b] => a = b
      BY <1>1, <1>3, <2>1
    <3>2. \A t \in S : \E i \in 1 .. N : f[i] = t
      BY <2>1
    <3> QED
      BY <3>1, <3>2 DEF Bijection, Injection, Surjection, IsInjective
  <2>3. Cardinality(S) = N
    BY <1>1, <2>2, FS_CountingElements DEF ExistsBijection
  <2> QED
    BY <2>3 DEF DistinctPins
<1> QED
  BY <1>6, <1>7

LEMMA JudgeHealthy == Typed /\ WholePlan /\ PinsDistinct /\ [Next]_vars => HealthySeen
<1> SUFFICES ASSUME Typed, WholePlan, PinsDistinct, [Next]_vars, pc["test"] = "judge",
                    Enough(plan["test"]), pc'["test"] \notin {"judge", "none"}
             PROVE  restored' = "ok"
  BY DEF HealthySeen
<1>0. pc \in [Procs -> TestPCs \cup DaemonPCs] /\ "test" \in Procs
  BY DEF Typed, PlacesOK, Procs
<1>1. Judge
  <2>1. ~Beside
    BY LeftAlone
  <2>2. ~Kill
    BY <1>0 DEF Kill, Goto
  <2> QED
    BY <2>1, <2>2 DEF Beside, Next, Test, Start, SetupProbe, FindAddress, ClearProbe, TeardownProbe,
                      DelNs, DelVeth, AddNs, AddVeth, Move, Set, Inside, At, DropTunnel, ProbeTarget,
                      StartTunnel, Turn, Wait, Rebuild, Apply, FlushBond, AddBond, Rest
<1>2. Good(plan["test"])
  <2>1. plan["test"] = Tunnels
    BY DEF WholePlan, Enough
  <2>2. DistinctPins(Tunnels) >= Len(Pinned) \/ DistinctPins(Tunnels) >= Len(Tunnels)
    <3>1. Len(Pinned) \in Nat /\ Len(Tunnels) \in Nat
      BY ConfigAssumption
    <3> QED
      BY <3>1, PinsSpread
  <2> QED
    BY <2>1, <2>2, ConfigAssumption DEF Good
<1> QED
  BY <1>1, <1>2 DEF Judge, Done

\* When no client is pinned twice a rebuild over all tunnels is recognised as one, however
\* many are pinned (leaktest.go:107-116).  With one pinned twice it need not be.
THEOREM Restores == PinsDistinct => (Spec => RestoresAll)
<1> SUFFICES ASSUME PinsDistinct PROVE Spec => RestoresAll
  OBVIOUS
<1>1. Typed /\ WholePlan /\ [Next]_vars => HealthySeen
  BY JudgeHealthy
<1> QED
  BY <1>1, AlwaysTyped, InitRestored, StepRestoring, StepWholePlan, JudgeRestored, PTL
  DEF Spec, RestoresAll
=============================================================================
