---------------------------- MODULE RoutingProofs ----------------------------
(***************************************************************************)
(* What TLAPS proves of Routing, for every list of tunnels and of pinned   *)
(* clients, every kernel and every budget of upsets; from StopUnrouted on   *)
(* as long as one flush takes all pin rules there can be (Room).            *)
(***************************************************************************)
EXTENDS Routing, FiniteSetTheorems, WellFoundedInduction, TLAPS

-----------------------------------------------------------------------------
(* The naturals: these stand in for induction over a predicate.            *)

\* A set of naturals that is not empty has a least element: the intervals from 0 up to its
\* elements are finite, and finite sets are well founded under inclusion.
LEMMA LeastOfNaturals ==
  ASSUME NEW S \in SUBSET Nat, S # {}
  PROVE  \E i \in S : \A j \in S : i <= j
<1> DEFINE T == {0 .. i : i \in S}
<1>1. T \subseteq FiniteSubsetsOf(Nat) /\ T # {}
  <2>1. \A i \in Nat : IsFiniteSet(0 .. i) /\ 0 .. i \subseteq Nat
    BY FS_Interval
  <2> QED
    BY <2>1 DEF FiniteSubsetsOf
<1>2. \E x \in T : \A y \in T : << y, x >> \notin StrictSubsetOrdering(Nat)
  <2> HIDE DEF T
  <2> QED
    BY <1>1, FS_StrictSubsetOrderingWellFounded, WFMin
<1>3. PICK i \in S : \A j \in S : << 0 .. j, 0 .. i >> \notin StrictSubsetOrdering(Nat)
  BY <1>2
<1>4. ASSUME NEW j \in S, j < i PROVE FALSE
  <2>1. 0 .. j \subseteq 0 .. i /\ 0 .. j # 0 .. i /\ 0 .. i \subseteq Nat
    BY <1>4
  <2> QED
    BY <1>3, <2>1 DEF StrictSubsetOrdering
<1> QED
  BY <1>4

\* A set of naturals that is not empty and has a bound has a greatest element.
LEMMA GreatestOfNaturals ==
  ASSUME NEW n \in Nat, NEW S \in SUBSET (0 .. n), S # {}
  PROVE  \E i \in S : \A j \in S : j <= i
<1> DEFINE T == {n - i : i \in S}
<1>1. T \in SUBSET Nat /\ T # {}
  <2>1. \A i \in 0 .. n : n - i \in Nat
    OBVIOUS
  <2>2. \A i \in S : n - i \in Nat
    BY <2>1
  <2> QED
    BY <2>2
<1>2. PICK k \in T : \A m \in T : k <= m
  <2> HIDE DEF T
  <2> QED
    BY <1>1, LeastOfNaturals
<1>3. PICK i \in S : k = n - i
  BY <1>2
<1>4. ASSUME NEW j \in S PROVE j <= i
  <2>1. n - j \in T
    OBVIOUS
  <2>2. n - i <= n - j /\ i \in 0 .. n /\ j \in 0 .. n
    BY <2>1, <1>2, <1>3
  <2> QED
    BY <2>2
<1> QED
  BY <1>4

\* A set that holds 0, and with each number the next one, holds every natural.
LEMMA InductionOnNaturals ==
  ASSUME NEW S, 0 \in S, \A n \in Nat : n \in S => n + 1 \in S
  PROVE  Nat \subseteq S
<1> SUFFICES ASSUME Nat \ S # {} PROVE FALSE
  OBVIOUS
<1>1. PICK i \in Nat \ S : \A j \in Nat \ S : i <= j
  BY LeastOfNaturals
<1> QED
  BY <1>1, i - 1 \in Nat

-----------------------------------------------------------------------------
(* The plan.                                                               *)

\* One turn of the loop of liveTunnels, on what the turns before it have collected.
Turn(seen, f, k) ==
  IF k = 0 THEN << >>
  ELSE IF Tunnels[k] \in seen THEN Append(f[k - 1], Tunnels[k]) ELSE f[k - 1]

\* The recursion has a solution: one for the first m tunnels is extended to the next.
LEMMA LiveTunnelsExist ==
  ASSUME NEW seen
  PROVE  \A n \in Nat : \E f : f = [k \in 0 .. n |-> Turn(seen, f, k)]
<1> DEFINE Solved == {m \in Nat : \E f : f = [k \in 0 .. m |-> Turn(seen, f, k)]}
<1>1. 0 \in Solved
  <2> DEFINE g == [k \in 0 .. 0 |-> << >>]
  <2>1. g = [k \in 0 .. 0 |-> Turn(seen, g, k)]
    BY DEF Turn
  <2> QED
    BY <2>1
<1>2. ASSUME NEW m \in Nat, m \in Solved PROVE m + 1 \in Solved
  <2>1. PICK f : f = [k \in 0 .. m |-> Turn(seen, f, k)]
    BY <1>2
  <2> DEFINE g == [k \in 0 .. m + 1 |-> IF k = m + 1 THEN Turn(seen, f, k) ELSE f[k]]
  <2>2. ASSUME NEW k \in 0 .. m + 1 PROVE g[k] = Turn(seen, g, k)
    <3>1. k # 0 => k - 1 \in 0 .. m /\ g[k - 1] = f[k - 1]
      OBVIOUS
    <3>2. Turn(seen, g, k) = Turn(seen, f, k)
      BY <3>1 DEF Turn
    <3>3. k # m + 1 => f[k] = Turn(seen, f, k)
      BY <2>1
    <3> QED
      BY <3>2, <3>3
  <2>3. g = [k \in 0 .. m + 1 |-> Turn(seen, g, k)]
    BY <2>2
  <2>4. \E h : h = [k \in 0 .. m + 1 |-> Turn(seen, h, k)]
    <3> HIDE DEF g
    <3> QED
      BY <2>3
  <2> QED
    BY <2>4
<1>3. Nat \subseteq Solved
  <2> HIDE DEF Solved
  <2> QED
    BY <1>1, <1>2, InductionOnNaturals
<1> QED
  BY <1>3

\* It yields a sequence of tunnels of the configuration that were seen, and no more of
\* them than there are.
LEMMA LiveTunnelsType ==
  ASSUME NEW seen
  PROVE  LiveTunnels(seen) \in Seq(Ifaces \cap seen) /\ Len(LiveTunnels(seen)) <= Len(Tunnels)
<1> DEFINE N == Len(Tunnels)
           upto == CHOOSE f : f = [k \in 0 .. N |-> Turn(seen, f, k)]
<1>0. N \in Nat
  BY TunnelsAssumption
<1>1. upto = [k \in 0 .. N |-> Turn(seen, upto, k)]
  <2> HIDE DEF N
  <2>1. \E f : f = [k \in 0 .. N |-> Turn(seen, f, k)]
    BY <1>0, LiveTunnelsExist
  <2> QED
    BY <2>1
<1>2. LiveTunnels(seen) = upto[N]
  BY DEF LiveTunnels, Turn
<1> HIDE DEF upto
<1>3. \A k \in 0 .. N : upto[k] = Turn(seen, upto, k)
  BY <1>1
<1> DEFINE Good == {m \in Nat : m <= N => upto[m] \in Seq(Ifaces \cap seen) /\ Len(upto[m]) <= m}
<1>4. 0 \in Good
  <2>1. upto[0] = << >>
    BY <1>0, <1>3 DEF Turn
  <2>2. << >> \in Seq(Ifaces \cap seen) /\ Len(<< >>) <= 0
    OBVIOUS
  <2> QED
    BY <2>1, <2>2
<1>5. ASSUME NEW m \in Nat, m \in Good PROVE m + 1 \in Good
  <2> SUFFICES ASSUME m + 1 <= N
               PROVE  upto[m + 1] \in Seq(Ifaces \cap seen) /\ Len(upto[m + 1]) <= m + 1
    OBVIOUS
  <2>1. upto[m] \in Seq(Ifaces \cap seen) /\ Len(upto[m]) <= m
    BY <1>0, <1>5
  <2>2. upto[m + 1] = IF Tunnels[m + 1] \in seen THEN Append(upto[m], Tunnels[m + 1])
                      ELSE upto[m]
    BY <1>0, <1>3 DEF Turn
  <2>3. Tunnels[m + 1] \in Ifaces
    BY <1>0, TunnelsAssumption DEF Ifaces
  <2> QED
    BY <2>1, <2>2, <2>3
<1>6. Nat \subseteq Good
  <2> HIDE DEF Good
  <2> QED
    BY <1>4, <1>5, InductionOnNaturals
<1> QED
  BY <1>0, <1>2, <1>6

\* Every pinned client has an entry that stands, and with a live tunnel one of its tables.
LEMMA PinIndexType == ASSUME NEW c \in Clients PROVE PinIndex(c) \in DOMAIN Pinned
<1> DEFINE S == {k \in DOMAIN Pinned : Pinned[k] = c}
<1>1. S # {} /\ S \in SUBSET (0 .. Len(Pinned)) /\ Len(Pinned) \in Nat
  BY ConfigAssumption DEF Clients
<1>2. PICK k \in S : \A j \in S : j <= k
  <2> HIDE DEF S
  <2> QED
    BY <1>1, GreatestOfNaturals
<1> QED
  BY <1>2 DEF PinIndex

\* A remainder is smaller than what it is the remainder by.
LEMMA Remainder == ASSUME NEW a \in Nat, NEW n \in Nat \ {0} PROVE a % n \in 0 .. n - 1
OBVIOUS

LEMMA TableOfType ==
  ASSUME NEW c \in Clients, live \in Seq(Ifaces), live # << >>
  PROVE  TableOf(c) \in 0 .. Len(live) - 1 /\ TunnelOf(c) \in Ifaces
<1>1. PinIndex(c) - 1 \in Nat /\ Len(live) \in Nat \ {0}
  BY PinIndexType, ConfigAssumption
<1>2. TableOf(c) \in 0 .. Len(live) - 1
  BY <1>1, Remainder DEF TableOf
<1> QED
  BY <1>1, <1>2 DEF TunnelOf

-----------------------------------------------------------------------------
(* Types, and where the loops over the tables are.                         *)

Slots ==
  /\ pc = "flush_pin" => slot < MaxTunnels
  /\ pc = "add_pin" => slot < Len(live)
  /\ pc = "stop_tunnel" => slot <= Len(Tunnels)
  /\ pc \in {"stop_self", "stop_lan", "stop_pin", "stop_bond", "stop_table"} => slot = 0
  /\ pc = "stop_pin_table" => slot < MaxTunnels
  /\ pc \in {"add_bond", "fallback"} => live # << >> /\ slot = 0
  /\ pc = "add_pins" => todo \subseteq Planned

\* What every step spends.
LEMMA SpendType ==
  TypeOK => /\ \A u \in Upsets \ {"any"} :
                 Counted(u) => left' \in [Upsets -> Nat]
            /\ Fine \/ Fault \/ Unread =>
                 left' \in [Upsets -> Nat] /\ clean' \in BOOLEAN /\ settled' \in BOOLEAN
            /\ Spend("crash") \/ Spend("change") \/ Spend("tamper") =>
                 left' \in [Upsets -> Nat] /\ clean' \in BOOLEAN /\ settled' \in BOOLEAN
<1> SUFFICES ASSUME TypeOK
             PROVE  /\ \A u \in Upsets \ {"any"} :
                         Counted(u) => left' \in [Upsets -> Nat]
                    /\ Fine \/ Fault \/ Unread =>
                         left' \in [Upsets -> Nat] /\ clean' \in BOOLEAN /\ settled' \in BOOLEAN
                    /\ Spend("crash") \/ Spend("change") \/ Spend("tamper") =>
                         left' \in [Upsets -> Nat] /\ clean' \in BOOLEAN /\ settled' \in BOOLEAN
  OBVIOUS
<1>1. ASSUME NEW u \in Upsets \ {"any"}, Counted(u) PROVE left' \in [Upsets -> Nat]
  <2>1. left \in [Upsets -> Nat] /\ u \in Upsets /\ "any" \in Upsets /\ u # "any"
    BY DEF TypeOK, Upsets
  <2>2. left[u] - 1 \in Nat /\ left["any"] - 1 \in Nat
    BY <1>1, <2>1 DEF Counted
  <2> QED
    BY <1>1, <2>1, <2>2 DEF Counted
<1>2. ASSUME NEW u \in Upsets \ {"any"}, Spend(u)
      PROVE  left' \in [Upsets -> Nat] /\ clean' \in BOOLEAN /\ settled' \in BOOLEAN
  BY <1>1, <1>2 DEF Spend
<1>3. CASE Fine
  BY <1>3 DEF Fine, TypeOK
<1> QED
  BY <1>1, <1>2, <1>3 DEF Fine, TypeOK, Fault, Unread, Upsets

LEMMA StepType == TypeOK /\ Slots /\ [Next]_vars => TypeOK' /\ Slots'
<1> SUFFICES ASSUME TypeOK, Slots, [Next]_vars PROVE TypeOK' /\ Slots'
  OBVIOUS
<1>0. /\ MaxTunnels \in Nat \ {0} /\ Len(Tunnels) \in Nat /\ Len(Tunnels) <= MaxTunnels
      /\ Len(live) \in Nat /\ slot \in Nat
  BY TunnelsAssumption DEF TypeOK
<1>a. \A k \in 1 .. Len(live) : live[k] \in Ifaces
  BY DEF TypeOK
<1>b. LiveSet \subseteq Ifaces
  BY <1>a DEF LiveSet, TypeOK
<1>c. << >> \in Seq(Ifaces) /\ Len(<< >>) = 0
  OBVIOUS
<1>d. ASSUME Fine \/ Fault \/ Unread
      PROVE  left' \in [Upsets -> Nat] /\ clean' \in BOOLEAN /\ settled' \in BOOLEAN
  BY <1>d, SpendType
<1>e. ASSUME Spend("crash") \/ Spend("change") \/ Spend("tamper")
      PROVE  left' \in [Upsets -> Nat] /\ clean' \in BOOLEAN /\ settled' \in BOOLEAN
  BY <1>e, SpendType
<1>f. ASSUME Forgets
      PROVE  /\ live' \in Seq(Ifaces) /\ Len(live') <= Len(Tunnels) /\ applied' \in Seq(Ifaces)
             /\ slot' \in 0 .. MaxTunnels /\ slot' = 0 /\ todo' \subseteq Clients
             /\ ever' \in BOOLEAN /\ missing' \in BOOLEAN
  <2>1. live' \in Seq(Ifaces) /\ Len(live') <= Len(Tunnels) /\ applied' \in Seq(Ifaces)
    <3>1. live' = << >> /\ applied' = << >>
      BY <1>f DEF Forgets
    <3> QED
      BY <3>1, <1>0, <1>c
  <2>2. slot' \in 0 .. MaxTunnels /\ slot' = 0
    BY <1>f, <1>0 DEF Forgets
  <2> QED
    BY <1>f, <2>1, <2>2 DEF Forgets
<1> USE DEF Goto, Refused
<1>1. CASE Read
  <2>1. PICK seen \in SUBSET fresh : live' = LiveTunnels(seen)
    BY <1>1 DEF Read
  <2>2. LiveTunnels(seen) \in Seq(Ifaces \cap seen) /\ Len(LiveTunnels(seen)) <= Len(Tunnels)
    BY LiveTunnelsType
  <2>3. \A s : s \in Seq(Ifaces \cap seen) => s \in Seq(Ifaces)
    OBVIOUS
  <2>4. live' \in Seq(Ifaces) /\ Len(live') <= Len(Tunnels)
    BY <2>1, <2>2, <2>3
  <2>5. Unread => left' \in [Upsets -> Nat] /\ clean' \in BOOLEAN /\ settled' \in BOOLEAN
    BY <1>d
  <2>6. left' \in [Upsets -> Nat] /\ clean' \in BOOLEAN /\ settled' \in BOOLEAN
    BY <1>1, <2>5 DEF Read, TypeOK
  <2> QED
    BY <1>1, <2>4, <2>6 DEF Read, TypeOK, Slots, tunnels, kernel
<1>2. CASE Check
  <2>1. left' \in [Upsets -> Nat] /\ clean' \in BOOLEAN /\ settled' \in BOOLEAN
    BY <1>2, <1>d DEF Check
  <2> QED
    BY <1>2, <2>1 DEF Check, TypeOK, Slots, tunnels, kernel, ApplyPCs
<1>3. CASE FlushBond
  <2>1. left' \in [Upsets -> Nat] /\ clean' \in BOOLEAN /\ settled' \in BOOLEAN
    BY <1>3, <1>d DEF FlushBond
  <2> QED
    BY <1>3, <1>0, <2>1 DEF FlushBond, TypeOK, Slots, tunnels, ApplyPCs
<1>4. CASE AddBond
  <2>1. left' \in [Upsets -> Nat] /\ clean' \in BOOLEAN /\ settled' \in BOOLEAN
    BY <1>4, <1>d DEF AddBond
  <2>2. bond' \subseteq Ifaces /\ pc' \in {"flush_pin", "fallback", "idle"}
    BY <1>4, <1>b DEF AddBond, Failed, TypeOK
  <2>3. slot < MaxTunnels
    BY <1>4, <1>0 DEF AddBond, Slots
  <2> QED
    BY <1>4, <1>0, <2>1, <2>2, <2>3 DEF AddBond, TypeOK, Slots, tunnels, ApplyPCs
<1>5. CASE Fallback
  <2>1. left' \in [Upsets -> Nat] /\ clean' \in BOOLEAN /\ settled' \in BOOLEAN
    BY <1>5, <1>d DEF Fallback
  <2>2. live[1] \in Ifaces /\ slot < MaxTunnels
    <3>1. live # << >> /\ slot = 0
      BY <1>5 DEF Fallback, Slots
    <3> QED
      BY <3>1, <1>0, <1>a DEF TypeOK
  <2>3. bond' \subseteq Ifaces /\ pc' \in {"flush_pin", "idle"} /\ missing' \in BOOLEAN
    BY <1>5, <2>2 DEF Fallback, Failed, TypeOK
  <2> QED
    BY <1>5, <1>0, <2>1, <2>2, <2>3 DEF Fallback, TypeOK, Slots, tunnels, ApplyPCs
<1>6. CASE FlushPin
  <2>1. left' \in [Upsets -> Nat] /\ clean' \in BOOLEAN /\ settled' \in BOOLEAN
    BY <1>6, <1>d DEF FlushPin
  <2>2. pin' \in [Tables -> Ifaces \cup {"none"}]
    BY <1>6 DEF FlushPin, TypeOK
  <2>3. \/ pc' = "add_pin" /\ slot' = slot /\ slot < Len(live)
        \/ pc' = "flush_pin" /\ slot' = slot + 1 /\ slot + 1 < MaxTunnels
        \/ pc' = "del_self" /\ slot' = slot + 1 /\ slot + 1 <= MaxTunnels
    BY <1>6, <1>0 DEF FlushPin, NextSlot, Slots
  <2> QED
    BY <1>6, <1>0, <2>1, <2>2, <2>3 DEF FlushPin, TypeOK, Slots, tunnels, ApplyPCs
<1>7. CASE AddPin
  <2>1. left' \in [Upsets -> Nat] /\ clean' \in BOOLEAN /\ settled' \in BOOLEAN
    BY <1>7, <1>d DEF AddPin
  <2>2. pin' \in [Tables -> Ifaces \cup {"none"}]
    <3>1. live[slot + 1] \in Ifaces
      BY <1>7, <1>0, <1>a DEF AddPin, Slots
    <3> QED
      BY <1>7, <3>1 DEF AddPin, TypeOK
  <2>3. \/ pc' = "idle" /\ slot' = slot
        \/ pc' = "flush_pin" /\ slot' = slot + 1 /\ slot + 1 < MaxTunnels
        \/ pc' = "del_self" /\ slot' = slot + 1 /\ slot + 1 <= MaxTunnels
    <3>1. slot < MaxTunnels
      BY <1>7, <1>0 DEF AddPin, Slots, TypeOK
    <3> QED
      BY <1>7, <1>0, <3>1 DEF AddPin, NextSlot, Failed
  <2> QED
    BY <1>7, <1>0, <2>1, <2>2, <2>3 DEF AddPin, TypeOK, Slots, tunnels, ApplyPCs
<1>8. ASSUME NEW at, NEW r, NEW after, DelRule(at, r, after),
             << at, after >> \in {<< "del_self", "del_lan" >>, << "del_lan", "del_pin" >>,
                << "del_bond", "add_self" >>, << "stop_self", "stop_lan" >>,
                << "stop_lan", "stop_pin" >>, << "stop_bond", "stop_table" >>}
      PROVE  TypeOK' /\ Slots'
  <2>1. left' \in [Upsets -> Nat] /\ clean' \in BOOLEAN /\ settled' \in BOOLEAN
    BY <1>8, <1>d DEF DelRule
  <2> QED
    BY <1>8, <1>0, <2>1 DEF DelRule, TypeOK, Slots, tunnels, ApplyPCs, StopPCs
<1>9. CASE DelPins("del_pin", "del_bond") \/ DelPins("stop_pin", "stop_bond")
  <2>1. left' \in [Upsets -> Nat] /\ clean' \in BOOLEAN /\ settled' \in BOOLEAN
    BY <1>9, <1>d DEF DelPins
  <2> QED
    BY <1>9, <1>0, <2>1 DEF DelPins, TypeOK, Slots, tunnels, ApplyPCs, StopPCs
<1>10. ASSUME NEW at, NEW r \in {"self", "lan"}, NEW after, AddOne(at, r, after),
              after \in {"add_lan", "add_pins"}
       PROVE  TypeOK' /\ Slots'
  <2>1. Planned \subseteq Clients /\ UNCHANGED live
    BY <1>10 DEF Planned, AddOne
  <2>2. Planned' = Planned
    BY <2>1 DEF Planned
  <2>3. left' \in [Upsets -> Nat] /\ clean' \in BOOLEAN /\ settled' \in BOOLEAN
    BY <1>10, <1>d DEF AddOne
  <2> QED
    BY <1>10, <1>0, <2>1, <2>2, <2>3 DEF AddOne, Failed, TypeOK, Slots, tunnels, ApplyPCs
<1>11. ASSUME NEW c \in Clients, AddPin1(c) PROVE TypeOK' /\ Slots'
  <2>1. c \in Planned /\ live # << >> /\ UNCHANGED live
    BY <1>11 DEF AddPin1, Slots, Planned
  <2>2. << c, TableOf(c) >> \in Clients \X Tables
    BY <1>0, <2>1, TableOfType DEF TypeOK, Tables
  <2>3. Planned' = Planned
    BY <2>1 DEF Planned
  <2>4. left' \in [Upsets -> Nat] /\ clean' \in BOOLEAN /\ settled' \in BOOLEAN
    BY <1>11, <1>d DEF AddPin1
  <2> QED
    BY <1>11, <1>0, <2>2, <2>3, <2>4 DEF AddPin1, Failed, TypeOK, Slots, tunnels, ApplyPCs
<1>12. CASE AddBondRule
  <2>1. left' \in [Upsets -> Nat] /\ clean' \in BOOLEAN /\ settled' \in BOOLEAN
    BY <1>12, <1>d DEF AddBondRule
  <2> QED
    BY <1>12, <1>0, <2>1 DEF AddBondRule, TypeOK, Slots, tunnels
<1>13. CASE Crash
  <2>1. left' \in [Upsets -> Nat] /\ clean' \in BOOLEAN /\ settled' \in BOOLEAN
    BY <1>13, <1>e DEF Crash
  <2> QED
    BY <1>13, <1>f, <2>1 DEF Crash, TypeOK, Slots, tunnels, kernel
<1>14. CASE StopBegin
  <2>1. left' \in [Upsets -> Nat]
    BY <1>14, SpendType DEF StopBegin, Upsets
  <2>2. Forgets /\ pc' = "stop_tunnel" /\ clean' = FALSE /\ settled' = FALSE
        /\ UNCHANGED << tunnels, kernel >>
    BY <1>14 DEF StopBegin
  <2>3. TypeOK'
    BY <2>1, <2>2, <1>f DEF TypeOK, tunnels, kernel, StopPCs
  <2> QED
    BY <2>2, <2>3, <1>0, <1>f DEF Slots
<1>15. CASE StopTunnel
  <2>1. CASE slot = Len(Tunnels) /\ slot' = 0 /\ pc' = "stop_self" /\ clean' = TRUE
              /\ UNCHANGED << left, settled, up, fresh, bond, pin >>
    BY <1>15, <1>0, <2>1 DEF StopTunnel, TypeOK, Slots, StopPCs
  <2>2. CASE /\ slot < Len(Tunnels) /\ slot' = slot + 1 /\ UNCHANGED pc
             /\ Fine \/ Fault
             /\ \/ \E t \in Ifaces : up' = up \ {t} /\ fresh' = fresh \ {t} /\ RoutesWithout(t)
                \/ UNCHANGED << up, fresh, bond, pin >>
    <3>1. left' \in [Upsets -> Nat] /\ clean' \in BOOLEAN /\ settled' \in BOOLEAN
      BY <2>2, <1>d
    <3>2. /\ up' \subseteq Ifaces /\ fresh' \subseteq up' /\ bond' \subseteq Ifaces
          /\ pin' \in [Tables -> Ifaces \cup {"none"}]
      BY <2>2 DEF RoutesWithout, TypeOK
    <3> QED
      BY <1>15, <1>0, <2>2, <3>1, <3>2 DEF StopTunnel, TypeOK, Slots
  <2>3. slot < Len(Tunnels) => Tunnels[slot + 1] \in Ifaces
    BY <1>0 DEF Ifaces
  <2> QED
    BY <1>15, <2>1, <2>2, <2>3 DEF StopTunnel
<1>16. CASE StopTable
  <2>1. left' \in [Upsets -> Nat] /\ clean' \in BOOLEAN /\ settled' \in BOOLEAN
    BY <1>16, <1>d DEF StopTable
  <2> QED
    BY <1>16, <1>0, <2>1 DEF StopTable, TypeOK, Slots, tunnels, StopPCs
<1>17. CASE StopPinTable
  <2>1. left' \in [Upsets -> Nat] /\ clean' \in BOOLEAN /\ settled' \in BOOLEAN
    BY <1>17, <1>d DEF StopPinTable
  <2> QED
    BY <1>17, <1>0, <2>1 DEF StopPinTable, MorePinTables, TypeOK, Slots, tunnels, StopPCs
<1>18. CASE StartAgain
  BY <1>18, <1>f DEF StartAgain, TypeOK, Slots, tunnels, kernel
<1>19. CASE Change
  <2>1. /\ UNCHANGED proc
        /\ left' \in [Upsets -> Nat] /\ clean' \in BOOLEAN /\ settled' \in BOOLEAN
    BY <1>19, <1>e DEF Change
  <2>2. /\ up' \subseteq Ifaces /\ fresh' \subseteq up' /\ bond' \subseteq Ifaces
        /\ pin' \in [Tables -> Ifaces \cup {"none"}] /\ UNCHANGED << rules, pinRules >>
    BY <1>19 DEF Change, GoesQuiet, Handshakes, Created, Deleted, RoutesWithout, TypeOK, kernel
  <2> QED
    BY <2>1, <2>2 DEF TypeOK, Slots, proc, Planned
<1>20. CASE Tamper
  <2>1. /\ UNCHANGED << tunnels, proc >>
        /\ left' \in [Upsets -> Nat] /\ clean' \in BOOLEAN /\ settled' \in BOOLEAN
    BY <1>20, <1>e DEF Tamper
  <2>2. /\ bond' \subseteq Ifaces /\ pin' \in [Tables -> Ifaces \cup {"none"}]
        /\ rules' \subseteq rules /\ pinRules' \subseteq pinRules
    BY <1>20 DEF Tamper, FlushRules, LoseRule, FlushTable, TypeOK
  <2> QED
    BY <2>1, <2>2 DEF TypeOK, Slots, tunnels, proc, Planned
<1>21. CASE UNCHANGED vars
  BY <1>21 DEF vars, tunnels, kernel, proc, TypeOK, Slots, Planned
<1>22. CASE FlushOurRules
  <2>1. CASE DelRule("del_self", "self", "del_lan")
    BY <2>1, <1>8
  <2>2. CASE DelRule("del_lan", "lan", "del_pin")
    BY <2>2, <1>8
  <2>3. CASE DelRule("del_bond", "bond", "add_self")
    BY <2>3, <1>8
  <2> QED
    BY <1>22, <1>9, <2>1, <2>2, <2>3 DEF FlushOurRules
<1>23. CASE AddExceptions
  BY <1>23, <1>10 DEF AddExceptions
<1>24. CASE Daemon
  BY <1>24, <1>1, <1>2, <1>3, <1>4, <1>5, <1>6, <1>7, <1>11, <1>12, <1>22, <1>23 DEF Daemon
<1>25. CASE Stop
  <2>1. CASE DelRule("stop_self", "self", "stop_lan")
    BY <2>1, <1>8
  <2>2. CASE DelRule("stop_lan", "lan", "stop_pin")
    BY <2>2, <1>8
  <2>3. CASE DelRule("stop_bond", "bond", "stop_table")
    BY <2>3, <1>8
  <2> QED
    BY <1>25, <1>9, <1>15, <1>16, <1>17, <2>1, <2>2, <2>3 DEF Stop
<1> QED
  BY <1>13, <1>14, <1>18, <1>19, <1>20, <1>21, <1>24, <1>25 DEF Next

LEMMA InitType == Init => TypeOK /\ Slots
<1> SUFFICES ASSUME Init PROVE TypeOK /\ Slots
  OBVIOUS
<1>1. << >> \in Seq(Ifaces) /\ Len(<< >>) = 0
  OBVIOUS
<1>2. Len(Tunnels) \in Nat /\ MaxTunnels \in Nat
  BY TunnelsAssumption
<1>3. live = << >> /\ applied = << >> /\ slot = 0
  BY DEF Init
<1>4. live \in Seq(Ifaces) /\ Len(live) <= Len(Tunnels) /\ applied \in Seq(Ifaces)
      /\ slot \in 0 .. MaxTunnels
  BY <1>1, <1>2, <1>3
<1>5. TypeOK
  BY <1>4, ConfigAssumption DEF Init, TypeOK
<1>6. Slots
  BY DEF Init, Slots
<1> QED
  BY <1>5, <1>6

\* Of every variable, in every reachable state, the type the code gives it.
THEOREM TypeCorrect == Spec => []TypeOK
BY InitType, StepType, PTL DEF Spec

-----------------------------------------------------------------------------
(* Upsets: when none has happened to a command of ours.                    *)

\* No command of ours that changes something has failed, ever or since the tunnels were
\* read (`stop`: were brought down).
Sure == NoFault \/ clean

\* What is left of the budget of faults is at most the budget.
Within == left["fault"] <= Budget["fault"]

\* What each kind of step makes of that.
LEMMA Upset ==
  TypeOK /\ Within =>
    /\ Fine => Within' /\ (NoFault' <=> NoFault) /\ clean' = clean /\ settled' = settled
    /\ Fault => Within' /\ ~NoFault' /\ ~clean' /\ ~settled'
    /\ Unread => Within' /\ (NoFault' <=> NoFault) /\ ~clean' /\ ~settled'
    /\ \A u \in {"crash", "change", "tamper"} :
         Spend(u) => Within' /\ (NoFault' <=> NoFault) /\ ~clean' /\ ~settled'
    /\ Counted("stop") => Within' /\ (NoFault' <=> NoFault)
    /\ UNCHANGED left => Within' /\ (NoFault' <=> NoFault)
<1> SUFFICES ASSUME TypeOK, Within
             PROVE  /\ Fine => Within' /\ (NoFault' <=> NoFault) /\ clean' = clean /\ settled' = settled
                    /\ Fault => Within' /\ ~NoFault' /\ ~clean' /\ ~settled'
                    /\ Unread => Within' /\ (NoFault' <=> NoFault) /\ ~clean' /\ ~settled'
                    /\ \A u \in {"crash", "change", "tamper"} :
                         Spend(u) => Within' /\ (NoFault' <=> NoFault) /\ ~clean' /\ ~settled'
                    /\ Counted("stop") => Within' /\ (NoFault' <=> NoFault)
                    /\ UNCHANGED left => Within' /\ (NoFault' <=> NoFault)
  OBVIOUS
<1>0. left \in [Upsets -> Nat] /\ Budget \in [Upsets -> Nat]
  BY ConfigAssumption DEF TypeOK
<1>1. ASSUME NEW u \in Upsets \ {"any", "fault"}, Counted(u) PROVE left'["fault"] = left["fault"]
  BY <1>0, <1>1 DEF Counted, Upsets
<1>2. ASSUME NEW u \in Upsets \ {"any", "fault"}, Counted(u) PROVE Within' /\ (NoFault' <=> NoFault)
  BY <1>1, <1>2 DEF Within, NoFault
<1>3. ASSUME NEW u, Spend(u) PROVE Counted(u) /\ ~clean' /\ ~settled'
  BY <1>3 DEF Spend
<1>4. UNCHANGED left => Within' /\ (NoFault' <=> NoFault)
  BY DEF Within, NoFault
<1>5. ASSUME Fault PROVE Within' /\ ~NoFault' /\ ~clean' /\ ~settled'
  <2>1. left["fault"] > 0 /\ left'["fault"] = left["fault"] - 1
    BY <1>0, <1>5 DEF Fault, Spend, Counted, Upsets
  <2>2. left["fault"] \in Nat /\ Budget["fault"] \in Nat
    BY <1>0 DEF Upsets
  <2>3. Within' /\ ~NoFault'
    BY <2>1, <2>2 DEF Within, NoFault
  <2> QED
    BY <1>3, <1>5, <2>3 DEF Fault
<1>6. Unread => Within' /\ (NoFault' <=> NoFault) /\ ~clean' /\ ~settled'
  BY <1>2, <1>3 DEF Unread, Upsets
<1>7. Fine => Within' /\ (NoFault' <=> NoFault) /\ clean' = clean /\ settled' = settled
  BY <1>4 DEF Fine
<1>8. ASSUME NEW u \in {"crash", "change", "tamper"}, Spend(u)
      PROVE  Within' /\ (NoFault' <=> NoFault) /\ ~clean' /\ ~settled'
  BY <1>2, <1>3, <1>8 DEF Upsets
<1>9. Counted("stop") => Within' /\ (NoFault' <=> NoFault)
  BY <1>2 DEF Upsets
<1> QED
  BY <1>4, <1>5, <1>6, <1>7, <1>8, <1>9

-----------------------------------------------------------------------------
(* How many pin rules there are: one flush takes away no more than MaxFlush *)
(* of them.  What an Apply adds is one for each pinned client, so there are *)
(* more only after a flush that has failed.                                *)

\* Every client has its rule and those that each failed command can have left behind; or
\* has one for every table.
Room ==
  \/ Cardinality(Clients) * (Budget["fault"] + 1) <= MaxFlush
  \/ Cardinality(Clients) * MaxTunnels <= MaxFlush

Spent == Budget["fault"] - left["fault"]

Bounded ==
  /\ Cardinality(pinRules) <= Cardinality(Clients) * (Spent + 1)
  /\ pc \in {"del_bond", "add_self", "add_lan"} =>
       Cardinality(pinRules) <= Cardinality(Clients) * Spent
  /\ pc = "add_pins" =>
       Cardinality(pinRules) + Cardinality(todo) <= Cardinality(Clients) * (Spent + 1)

LEMMA ClientsFinite == IsFiniteSet(Clients) /\ Cardinality(Clients) \in Nat
<1> DEFINE f == [k \in 1 .. Len(Pinned) |-> Pinned[k]]
<1>1. IsFiniteSet(1 .. Len(Pinned))
  BY ConfigAssumption, FS_Interval
<1>2. f \in Surjection(1 .. Len(Pinned), Clients)
  BY ConfigAssumption DEF Clients, Surjection
<1>3. IsFiniteSet(Clients)
  <2> HIDE DEF f
  <2> QED
    BY <1>1, <1>2, FS_Surjection
<1> QED
  BY <1>3, FS_CardinalityType

LEMMA Times ==
  ASSUME NEW k \in Nat, NEW m \in Nat, NEW n \in Nat, m <= n
  PROVE  /\ k * m \in Nat /\ k * n \in Nat /\ k * (m + 1) \in Nat /\ k * (n + 1) \in Nat
         /\ k * (m + 1) = k * m + k /\ k * (n + 1) = k * n + k
         /\ k * m <= k * n
<1>1. /\ k * m \in Nat /\ k * n \in Nat /\ k * (m + 1) \in Nat /\ k * (n + 1) \in Nat
  OBVIOUS
<1>2. k * (m + 1) = k * m + k /\ k * (n + 1) = k * n + k
  OBVIOUS
<1>3. k * m <= k * n
  <2>1. PICK d \in Nat : n = m + d
    <3>1. n - m \in Nat /\ n = m + (n - m)
      OBVIOUS
    <3> QED
      BY <3>1
  <2>2. k * d \in Nat /\ k * (m + d) = k * m + k * d
    OBVIOUS
  <2> QED
    BY <1>1, <2>1, <2>2
<1> QED
  BY <1>1, <1>2, <1>3

LEMMA SpentSteps ==
  TypeOK /\ Within =>
    /\ Spent \in Nat
    /\ Fault => Spent' = Spent + 1
    /\ Fine \/ Unread \/ UNCHANGED left \/ Counted("stop") => Spent' = Spent
    /\ \A u \in {"crash", "change", "tamper"} : Spend(u) => Spent' = Spent
<1> SUFFICES ASSUME TypeOK, Within
             PROVE  /\ Spent \in Nat
                    /\ Fault => Spent' = Spent + 1
                    /\ Fine \/ Unread \/ UNCHANGED left \/ Counted("stop") => Spent' = Spent
                    /\ \A u \in {"crash", "change", "tamper"} : Spend(u) => Spent' = Spent
  OBVIOUS
<1>0. left \in [Upsets -> Nat] /\ left["fault"] \in Nat /\ Budget["fault"] \in Nat
  BY ConfigAssumption DEF TypeOK, Upsets
<1>1. Spent \in Nat
  BY <1>0 DEF Spent, Within
<1>2. ASSUME Fault PROVE Spent' = Spent + 1
  <2>1. left'["fault"] = left["fault"] - 1
    BY <1>0, <1>2 DEF Fault, Spend, Counted, Upsets
  <2> QED
    BY <1>0, <2>1 DEF Spent
<1>3. ASSUME NEW u \in Upsets \ {"any", "fault"}, Counted(u) PROVE Spent' = Spent
  BY <1>0, <1>3 DEF Counted, Upsets, Spent
<1>4. UNCHANGED left => Spent' = Spent
  BY DEF Spent
<1>5. \A u \in {"unread", "stop", "crash", "change", "tamper"} : Counted(u) => Spent' = Spent
  BY <1>3 DEF Upsets
<1> QED
  BY <1>1, <1>2, <1>4, <1>5 DEF Fine, Unread, Spend

LEMMA PinRulesFinite ==
  TypeOK => /\ IsFiniteSet(pinRules) /\ Cardinality(pinRules) \in Nat
            /\ Cardinality(pinRules) <= Cardinality(Clients) * MaxTunnels
<1> SUFFICES ASSUME TypeOK
             PROVE  /\ IsFiniteSet(pinRules) /\ Cardinality(pinRules) \in Nat
                    /\ Cardinality(pinRules) <= Cardinality(Clients) * MaxTunnels
  OBVIOUS
<1>1. IsFiniteSet(Tables) /\ Cardinality(Tables) = MaxTunnels
  <2>1. MaxTunnels \in Nat /\ MaxTunnels > 0
    BY TunnelsAssumption
  <2>2. 0 \in Int /\ MaxTunnels - 1 \in Int /\ ~(0 > MaxTunnels - 1)
    BY <2>1
  <2>3. IsFiniteSet(0 .. MaxTunnels - 1) /\ Cardinality(0 .. MaxTunnels - 1) = MaxTunnels - 1 - 0 + 1
    BY <2>2, FS_Interval
  <2> QED
    BY <2>1, <2>3 DEF Tables
<1>2. IsFiniteSet(Clients \X Tables)
      /\ Cardinality(Clients \X Tables) = Cardinality(Clients) * Cardinality(Tables)
  BY <1>1, ClientsFinite, FS_Product
<1>3. pinRules \in SUBSET (Clients \X Tables)
  BY DEF TypeOK
<1>4. IsFiniteSet(pinRules) /\ Cardinality(pinRules) <= Cardinality(Clients \X Tables)
  BY <1>2, <1>3, FS_Subset
<1> QED
  BY <1>1, <1>2, <1>4, FS_CardinalityType

\* So one flush takes them all away unless it fails.
LEMMA FlushEmpties ==
  ASSUME Room, TypeOK, Within, Bounded, NEW at, NEW after, DelPins(at, after)
  PROVE  /\ Fine \/ Fault
         /\ Fine /\ ~Fault => pinRules' = {}
<1>0. MaxFlush \in Nat /\ MaxTunnels \in Nat /\ Cardinality(Clients) \in Nat
      /\ Budget["fault"] \in Nat /\ left["fault"] \in Nat
  BY TunnelsAssumption, ConfigAssumption, ClientsFinite DEF TypeOK, Upsets
<1>1. Cardinality(pinRules) <= MaxFlush
  <2>1. CASE Cardinality(Clients) * MaxTunnels <= MaxFlush
    <3>1. Cardinality(Clients) * MaxTunnels \in Nat
      BY <1>0, Times
    <3> QED
      BY <1>0, <2>1, <3>1, PinRulesFinite
  <2>2. CASE Cardinality(Clients) * (Budget["fault"] + 1) <= MaxFlush
    <3>1. Spent + 1 \in Nat /\ Budget["fault"] + 1 \in Nat /\ Spent + 1 <= Budget["fault"] + 1
      BY <1>0, SpentSteps DEF Spent
    <3>2. /\ Cardinality(Clients) * (Spent + 1) \in Nat
          /\ Cardinality(Clients) * (Budget["fault"] + 1) \in Nat
          /\ Cardinality(Clients) * (Spent + 1) <= Cardinality(Clients) * (Budget["fault"] + 1)
      BY <1>0, <3>1, Times
    <3> QED
      BY <1>0, <2>2, <3>2, PinRulesFinite DEF Bounded
  <2> QED
    BY <2>1, <2>2 DEF Room
<1>2. PICK gone \in SUBSET pinRules :
        /\ pinRules' = pinRules \ gone
        /\ \/ gone = pinRules /\ Cardinality(gone) <= MaxFlush /\ Fine
           \/ Cardinality(gone) = MaxFlush /\ Fine
           \/ Cardinality(gone) < MaxFlush /\ Fault
  BY DEF DelPins
<1>3. /\ IsFiniteSet(pinRules) /\ IsFiniteSet(gone) /\ Cardinality(gone) <= Cardinality(pinRules)
      /\ Cardinality(pinRules) = Cardinality(gone) => pinRules = gone
      /\ Cardinality(pinRules) \in Nat /\ Cardinality(gone) \in Nat
  BY PinRulesFinite, FS_Subset, FS_CardinalityType
<1>4. Cardinality(gone) = MaxFlush => gone = pinRules
  BY <1>0, <1>1, <1>3
<1> QED
  BY <1>2, <1>4

LEMMA StepBounded == Room /\ TypeOK /\ Slots /\ Within /\ Bounded /\ [Next]_vars => Bounded'
<1> SUFFICES ASSUME Room, TypeOK, Slots, Within, Bounded, [Next]_vars PROVE Bounded'
  OBVIOUS
<1> DEFINE C == Cardinality(Clients)
<1>0. /\ TypeOK' /\ C \in Nat /\ Spent \in Nat /\ IsFiniteSet(Clients)
      /\ IsFiniteSet(pinRules) /\ Cardinality(pinRules) \in Nat
      /\ IsFiniteSet(todo) /\ Cardinality(todo) \in Nat
      /\ IsFiniteSet(todo') /\ Cardinality(todo') \in Nat /\ Cardinality(todo') <= C
      /\ todo \subseteq Clients
  BY StepType, ClientsFinite, SpentSteps, PinRulesFinite, FS_Subset, FS_CardinalityType DEF TypeOK
<1>n. /\ C * Spent \in Nat /\ C * (Spent + 1) \in Nat /\ C * (Spent + 2) \in Nat
      /\ C * (Spent + 1) = C * Spent + C /\ C * (Spent + 2) = C * Spent + C + C
  <2>1. C * Spent \in Nat /\ C * (Spent + 1) \in Nat /\ C * (Spent + 1) = C * Spent + C
    BY <1>0, Times
  <2>2. Spent + 1 \in Nat /\ (Spent + 1) + 1 = Spent + 2
    BY <1>0
  <2>3. C * ((Spent + 1) + 1) = C * (Spent + 1) + C /\ C * ((Spent + 1) + 1) \in Nat
    BY <1>0, <2>2, Times
  <2> QED
    BY <2>1, <2>2, <2>3
\* The budget moves by one, or not at all.
<1>b. ASSUME Spent' = Spent \/ Spent' = Spent + 1
      PROVE  /\ C * Spent' \in Nat /\ C * (Spent' + 1) \in Nat
             /\ C * Spent <= C * Spent' /\ C * (Spent + 1) <= C * (Spent' + 1)
  <2>1. Spent' = Spent + 1 => Spent' + 1 = Spent + 2
    BY <1>0
  <2> QED
    BY <1>0, <1>b, <1>n, <2>1
\* Rules only go.
<1>a. ASSUME Spent' = Spent \/ Spent' = Spent + 1, pinRules' \subseteq pinRules,
             pc' \in {"del_bond", "add_self", "add_lan"} => pc \in {"del_bond", "add_self", "add_lan"},
             pc' = "add_pins" => pc = "add_pins" /\ todo' = todo
      PROVE  Bounded'
  <2>1. Cardinality(pinRules') \in Nat /\ Cardinality(pinRules') <= Cardinality(pinRules)
    BY <1>0, <1>a, FS_Subset, FS_CardinalityType
  <2>2. Cardinality(pinRules') <= C * (Spent' + 1)
    BY <1>0, <1>a, <1>b, <1>n, <2>1 DEF Bounded
  <2>3. pc' \in {"del_bond", "add_self", "add_lan"} => Cardinality(pinRules') <= C * Spent'
    BY <1>0, <1>a, <1>b, <1>n, <2>1 DEF Bounded
  <2>4. pc' = "add_pins" => Cardinality(pinRules') + Cardinality(todo') <= C * (Spent' + 1)
    BY <1>0, <1>a, <1>b, <1>n, <2>1 DEF Bounded
  <2> QED
    BY <2>2, <2>3, <2>4 DEF Bounded
<1> HIDE DEF C
<1>s. /\ Fault => Spent' = Spent + 1
      /\ Fine \/ Unread \/ UNCHANGED left \/ Counted("stop") => Spent' = Spent
      /\ \A u \in {"crash", "change", "tamper"} : Spend(u) => Spent' = Spent
  BY SpentSteps
<1> USE DEF Goto, Refused, Failed
<1>1. CASE Read
  BY <1>1, <1>a, <1>s DEF Read, kernel
<1>2. CASE Check
  BY <1>2, <1>a, <1>s DEF Check, kernel
<1>3. CASE FlushBond
  BY <1>3, <1>a, <1>s DEF FlushBond
<1>4. CASE AddBond
  BY <1>4, <1>a, <1>s DEF AddBond
<1>5. CASE Fallback
  BY <1>5, <1>a, <1>s DEF Fallback
<1>6. CASE FlushPin
  BY <1>6, <1>a, <1>s DEF FlushPin, NextSlot
<1>7. CASE AddPin
  BY <1>7, <1>a, <1>s DEF AddPin, NextSlot
<1>8. ASSUME NEW at, NEW r, NEW after, DelRule(at, r, after),
             << at, after >> \in {<< "del_self", "del_lan" >>, << "del_lan", "del_pin" >>,
                << "del_bond", "add_self" >>, << "stop_self", "stop_lan" >>,
                << "stop_lan", "stop_pin" >>, << "stop_bond", "stop_table" >>}
      PROVE  Bounded'
  BY <1>8, <1>a, <1>s DEF DelRule
<1>9. ASSUME NEW at, NEW after \in {"del_bond", "stop_bond"}, DelPins(at, after) PROVE Bounded'
  <2>1. pc' = after /\ pinRules' \subseteq pinRules
    BY <1>9 DEF DelPins
  <2>2. CASE Fault
    <3>1. Spent' = Spent + 1 /\ Cardinality(pinRules') \in Nat
          /\ Cardinality(pinRules') <= Cardinality(pinRules)
      BY <1>0, <1>s, <2>1, <2>2, FS_Subset, FS_CardinalityType
    <3>2. Cardinality(pinRules') <= C * Spent' /\ Cardinality(pinRules') <= C * (Spent' + 1)
      BY <1>0, <1>b, <1>n, <3>1 DEF Bounded, C
    <3> QED
      BY <2>1, <3>2 DEF Bounded, C
  <2>3. CASE ~Fault
    <3>1. Spent' = Spent /\ pinRules' = {}
      BY <1>9, <1>s, <2>3, FlushEmpties
    <3>2. Cardinality(pinRules') = 0
      BY <3>1, FS_EmptySet
    <3> QED
      BY <1>0, <1>b, <2>1, <3>1, <3>2 DEF Bounded, C
  <2> QED
    BY <2>2, <2>3
<1>10. ASSUME NEW at, NEW r, NEW after, AddOne(at, r, after),
             << at, after >> \in {<< "add_self", "add_lan" >>, << "add_lan", "add_pins" >>}
      PROVE  Bounded'
  <2>1. CASE pc' # "add_pins"
    BY <1>10, <1>a, <1>s, <2>1 DEF AddOne
  <2>2. CASE pc' = "add_pins"
    <3>1. /\ pc = "add_lan" /\ UNCHANGED pinRules /\ Spent' = Spent
      BY <1>10, <1>s, <2>2 DEF AddOne
    <3>2. Cardinality(pinRules) <= C * Spent
      BY <3>1 DEF Bounded, C
    <3>3. Cardinality(pinRules) + Cardinality(todo') <= C * (Spent + 1)
      BY <1>0, <1>n, <3>2
    <3> QED
      BY <1>0, <1>n, <2>2, <3>1, <3>3 DEF Bounded, C
  <2> QED
    BY <2>1, <2>2
<1>11. ASSUME NEW c \in Clients, AddPin1(c) PROVE Bounded'
  <2>1. CASE UNCHANGED pinRules /\ pc' = "idle"
    BY <1>11, <1>a, <1>s, <2>1 DEF AddPin1
  <2>2. CASE /\ << c, TableOf(c) >> \notin pinRules /\ Fine
             /\ pinRules' = pinRules \cup {<< c, TableOf(c) >>} /\ todo' = todo \ {c}
    <3>1. pc = "add_pins" /\ pc' = "add_pins" /\ c \in todo /\ Spent' = Spent
      BY <1>11, <1>s, <2>2 DEF AddPin1
    <3>2. Cardinality(pinRules') = Cardinality(pinRules) + 1
      BY <1>0, <2>2, FS_AddElement
    <3>3. Cardinality(todo') = Cardinality(todo) - 1
      BY <1>0, <2>2, <3>1, FS_RemoveElement
    <3>4. Cardinality(pinRules) + Cardinality(todo) <= C * (Spent + 1)
      BY <3>1 DEF Bounded, C
    <3> QED
      BY <1>0, <1>n, <3>1, <3>2, <3>3, <3>4 DEF Bounded, C
  <2> QED
    BY <1>11, <2>1, <2>2 DEF AddPin1
<1>12. CASE AddBondRule
  BY <1>12, <1>a, <1>s DEF AddBondRule
<1>13. CASE Crash
  BY <1>13, <1>a, <1>s DEF Crash
<1>14. CASE StopBegin
  BY <1>14, <1>a, <1>s DEF StopBegin, kernel
<1>15. CASE StopTunnel
  BY <1>15, <1>a, <1>s DEF StopTunnel
<1>16. CASE StopTable \/ StopPinTable
  BY <1>16, <1>a, <1>s DEF StopTable, StopPinTable
<1>17. CASE StartAgain
  BY <1>17, <1>a, <1>s DEF StartAgain, kernel
<1>18. CASE Change
  BY <1>18, <1>a, <1>s DEF Change, proc, GoesQuiet, Handshakes, Created, Deleted, kernel
<1>19. CASE Tamper
  BY <1>19, <1>a, <1>s DEF Tamper, proc, FlushRules, LoseRule, FlushTable
<1>20. CASE UNCHANGED vars
  BY <1>20, <1>a, <1>s DEF vars, proc, kernel
<1>21. CASE FlushOurRules
  <2>1. CASE DelRule("del_self", "self", "del_lan")
    BY <2>1, <1>8
  <2>2. CASE DelRule("del_lan", "lan", "del_pin")
    BY <2>2, <1>8
  <2>3. CASE DelRule("del_bond", "bond", "add_self")
    BY <2>3, <1>8
  <2> QED
    BY <1>21, <1>9, <2>1, <2>2, <2>3 DEF FlushOurRules
<1>22. CASE AddExceptions
  <2>1. CASE AddOne("add_self", "self", "add_lan")
    BY <2>1, <1>10
  <2>2. CASE AddOne("add_lan", "lan", "add_pins")
    BY <2>2, <1>10
  <2> QED
    BY <1>22, <2>1, <2>2 DEF AddExceptions
<1>23. CASE Daemon
  BY <1>23, <1>1, <1>2, <1>3, <1>4, <1>5, <1>6, <1>7, <1>11, <1>12, <1>21, <1>22 DEF Daemon
<1>24. CASE Stop
  <2>1. CASE DelRule("stop_self", "self", "stop_lan")
    BY <2>1, <1>8
  <2>2. CASE DelRule("stop_lan", "lan", "stop_pin")
    BY <2>2, <1>8
  <2>3. CASE DelRule("stop_bond", "bond", "stop_table")
    BY <2>3, <1>8
  <2> QED
    BY <1>24, <1>9, <1>15, <1>16, <2>1, <2>2, <2>3 DEF Stop
<1> QED
  BY <1>13, <1>14, <1>17, <1>18, <1>19, <1>20, <1>23, <1>24 DEF Next

-----------------------------------------------------------------------------
(* The rules: they are taken away before they are added, so that as long as *)
(* no command fails none of an older plan is left when the first is added.  *)

\* Those that applyRules has added so far of its plan.
AddedPins == {<< c, TableOf(c) >> : c \in Planned \ todo}

Emptied ==
  /\ pc \in {"del_lan", "stop_lan"} => "self" \notin rules
  /\ pc \in {"del_pin", "stop_pin", "del_bond", "stop_bond"} => rules \subseteq {"bond"}
  /\ pc \in {"del_bond", "stop_bond", "add_self", "add_lan", "stop_table", "stop_pin_table",
             "stopped"} => pinRules = {}
  /\ pc \in {"add_self", "stop_table", "stop_pin_table", "stopped"} => rules = {}
  /\ pc = "add_lan" => rules \subseteq {"self"}
  /\ pc = "add_pins" => rules \subseteq {"self", "lan"} /\ pinRules \subseteq AddedPins

LEMMA AddedPinsSame == UNCHANGED << live, todo >> => AddedPins' = AddedPins
BY DEF AddedPins, TableOf, Planned

\* One turn of the loop over the pins adds one of them to those.
LEMMA AddedPinsMore ==
  ASSUME NEW c \in Clients, AddPin1(c), UNCHANGED live, todo' = todo \ {c}, Slots
  PROVE  /\ AddedPins' = AddedPins \cup {<< c, TableOf(c) >>}
         /\ << c, TableOf(c) >> \notin AddedPins
<1>1. c \in Planned /\ c \in todo
  BY DEF AddPin1, Slots
<1>2. Planned' = Planned /\ \A d : TableOf(d)' = TableOf(d)
  BY DEF Planned, TableOf
<1> QED
  BY <1>1, <1>2 DEF AddedPins

LEMMA StepEmptied ==
  Room /\ TypeOK /\ Slots /\ Within /\ Bounded /\ (Sure => Emptied) /\ [Next]_vars =>
    Within' /\ (Sure' => Emptied')
<1> SUFFICES ASSUME Room, TypeOK, Slots, Within, Bounded, Sure => Emptied, [Next]_vars
             PROVE  Within' /\ (Sure' => Emptied')
  OBVIOUS
\* Where no loop ends and nothing is added.
<1>a. ASSUME Within', pc' \in {"idle", "check", "flush_bond", "add_bond", "fallback", "flush_pin",
                               "add_pin", "del_self", "stop_tunnel", "stop_self"}
      PROVE  Within' /\ (Sure' => Emptied')
  BY <1>a DEF Emptied
\* Where rules only go.
<1>b. ASSUME Within', Sure' => Sure, UNCHANGED << pc, live, todo >>,
             rules' \subseteq rules, pinRules' \subseteq pinRules
      PROVE  Within' /\ (Sure' => Emptied')
  BY <1>b, AddedPinsSame DEF Emptied
<1> USE DEF Goto, Refused, Failed
<1>1. CASE Read
  BY <1>1, <1>a, Upset DEF Read
<1>2. CASE Check
  BY <1>2, <1>a, Upset DEF Check
<1>3. CASE FlushBond
  BY <1>3, <1>a, Upset DEF FlushBond
<1>4. CASE AddBond
  BY <1>4, <1>a, Upset DEF AddBond
<1>5. CASE Fallback
  BY <1>5, <1>a, Upset DEF Fallback
<1>6. CASE FlushPin
  BY <1>6, <1>a, Upset DEF FlushPin, NextSlot
<1>7. CASE AddPin
  BY <1>7, <1>a, Upset DEF AddPin, NextSlot
<1>8. ASSUME NEW at, NEW r, NEW after, DelRule(at, r, after),
             << at, r, after >> \in {<< "del_self", "self", "del_lan" >>, << "del_lan", "lan", "del_pin" >>,
                << "del_bond", "bond", "add_self" >>, << "stop_self", "self", "stop_lan" >>,
                << "stop_lan", "lan", "stop_pin" >>, << "stop_bond", "bond", "stop_table" >>}
      PROVE  Within' /\ (Sure' => Emptied')
  <2>1. CASE Fault
    BY <2>1, Upset DEF Sure
  <2>2. CASE Fine /\ rules' = rules \ {r}
    <3>1. Within' /\ (Sure' => Sure)
      BY <2>2, Upset DEF Sure
    <3>2. Emptied => Emptied'
      BY <1>8, <2>2 DEF DelRule, Emptied, TypeOK
    <3> QED
      BY <3>1, <3>2
  <2> QED
    BY <1>8, <2>1, <2>2 DEF DelRule
<1>9. CASE DelPins("del_pin", "del_bond") \/ DelPins("stop_pin", "stop_bond")
  <2>1. CASE Fault
    BY <2>1, Upset DEF Sure
  <2>2. CASE Fine /\ pinRules' = {}
    <3>1. Within' /\ (Sure' => Sure)
      BY <2>2, Upset DEF Sure
    <3>2. Emptied => Emptied'
      BY <1>9, <2>2 DEF DelPins, Emptied
    <3> QED
      BY <3>1, <3>2
  <2> QED
    BY <1>9, <2>1, <2>2, FlushEmpties
<1>10. ASSUME NEW at, NEW r, NEW after, AddOne(at, r, after),
             << at, r, after >> \in {<< "add_self", "self", "add_lan" >>, << "add_lan", "lan", "add_pins" >>}
      PROVE  Within' /\ (Sure' => Emptied')
  <2>1. CASE Fault
    BY <2>1, Upset DEF Sure
  <2>2. CASE Fine /\ rules' = rules \cup {r} /\ pc' = after
    <3>1. Within' /\ (Sure' => Sure)
      BY <2>2, Upset DEF Sure
    <3>2. Emptied => Emptied'
      BY <1>10, <2>2 DEF AddOne, Emptied
    <3> QED
      BY <3>1, <3>2
  <2>3. CASE Fine /\ pc' = "idle"
    BY <2>3, <1>a, Upset
  <2> QED
    BY <1>10, <2>1, <2>2, <2>3 DEF AddOne
<1>11. ASSUME NEW c \in Clients, AddPin1(c) PROVE Within' /\ (Sure' => Emptied')
  <2>1. CASE Fault
    BY <2>1, Upset DEF Sure
  <2>2. CASE Fine /\ pinRules' = pinRules \cup {<< c, TableOf(c) >>} /\ todo' = todo \ {c}
    <3>1. Within' /\ (Sure' => Sure)
      BY <2>2, Upset DEF Sure
    <3>2. AddedPins' = AddedPins \cup {<< c, TableOf(c) >>}
      BY <1>11, <2>2, AddedPinsMore DEF AddPin1
    <3>3. Emptied => Emptied'
      BY <1>11, <2>2, <3>2 DEF AddPin1, Emptied
    <3> QED
      BY <3>1, <3>3
  <2>3. CASE Fine /\ pc' = "idle"
    BY <2>3, <1>a, Upset
  <2> QED
    BY <1>11, <2>1, <2>2, <2>3 DEF AddPin1
<1>12. CASE AddBondRule
  BY <1>12, <1>a, Upset DEF AddBondRule
<1>13. CASE Crash
  BY <1>13, <1>a, Upset DEF Crash
<1>14. CASE StopBegin
  BY <1>14, <1>a, Upset DEF StopBegin
<1>15. CASE StopTunnel
  BY <1>15, <1>a, Upset DEF StopTunnel
<1>16. CASE StopTable \/ StopPinTable
  <2>1. CASE Fault
    BY <2>1, Upset DEF Sure
  <2>2. CASE Fine
    <3>1. Within' /\ (Sure' => Sure)
      BY <2>2, Upset DEF Sure
    <3>2. Emptied => Emptied'
      BY <1>16 DEF StopTable, StopPinTable, Emptied
    <3> QED
      BY <3>1, <3>2
  <2> QED
    BY <1>16, <2>1, <2>2 DEF StopTable, StopPinTable
<1>17. CASE StartAgain
  BY <1>17, <1>a, Upset DEF StartAgain
<1>18. CASE Change
  <2>1. /\ Within' /\ (Sure' => Sure) /\ UNCHANGED << pc, live, todo >>
        /\ UNCHANGED << rules, pinRules >>
    BY <1>18, Upset DEF Change, Sure, proc, GoesQuiet, Handshakes, Created, Deleted, kernel
  <2> QED
    BY <1>b, <2>1
<1>19. CASE Tamper
  <2>1. /\ Within' /\ (Sure' => Sure) /\ UNCHANGED << pc, live, todo >>
        /\ rules' \subseteq rules /\ pinRules' \subseteq pinRules
    BY <1>19, Upset DEF Tamper, Sure, proc, FlushRules, LoseRule, FlushTable
  <2> QED
    BY <1>b, <2>1
<1>20. CASE UNCHANGED vars
  <2>1. /\ Within' /\ (Sure' => Sure) /\ UNCHANGED << pc, live, todo >>
        /\ rules' \subseteq rules /\ pinRules' \subseteq pinRules
    BY <1>20, Upset DEF vars, Sure, proc, kernel
  <2> QED
    BY <1>b, <2>1
<1>21. CASE FlushOurRules
  <2>1. CASE DelRule("del_self", "self", "del_lan")
    BY <2>1, <1>8
  <2>2. CASE DelRule("del_lan", "lan", "del_pin")
    BY <2>2, <1>8
  <2>3. CASE DelRule("del_bond", "bond", "add_self")
    BY <2>3, <1>8
  <2> QED
    BY <1>21, <1>9, <2>1, <2>2, <2>3 DEF FlushOurRules
<1>22. CASE AddExceptions
  BY <1>22, <1>10 DEF AddExceptions
<1>23. CASE Daemon
  BY <1>23, <1>1, <1>2, <1>3, <1>4, <1>5, <1>6, <1>7, <1>11, <1>12, <1>21, <1>22 DEF Daemon
<1>24. CASE Stop
  <2>1. CASE DelRule("stop_self", "self", "stop_lan")
    BY <2>1, <1>8
  <2>2. CASE DelRule("stop_lan", "lan", "stop_pin")
    BY <2>2, <1>8
  <2>3. CASE DelRule("stop_bond", "bond", "stop_table")
    BY <2>3, <1>8
  <2> QED
    BY <1>24, <1>9, <1>15, <1>16, <2>1, <2>2, <2>3 DEF Stop
<1> QED
  BY <1>13, <1>14, <1>17, <1>18, <1>19, <1>20, <1>23, <1>24 DEF Next

-----------------------------------------------------------------------------
(* `bondvpn stop`.                                                         *)

\* The tables it has emptied so far.
Unrouted ==
  /\ pc \in {"stop_pin_table", "stopped"} => bond = {}
  /\ pc = "stop_pin_table" => \A t \in 0 .. slot - 1 : pin[t] = "none"
  /\ pc = "stopped" => \A t \in Tables : pin[t] = "none"

LEMMA StepUnrouted ==
  TypeOK /\ Slots /\ Within /\ (clean => Unrouted) /\ [Next]_vars => (clean' => Unrouted')
<1> SUFFICES ASSUME TypeOK, Slots, Within, clean => Unrouted, [Next]_vars, clean'
             PROVE  Unrouted'
  OBVIOUS
<1>a. ASSUME pc' \notin {"stop_pin_table", "stopped"} PROVE Unrouted'
  BY <1>a DEF Unrouted
<1> USE DEF Goto, Refused, Failed
<1>1. CASE Daemon
  BY <1>1, <1>a DEF Daemon, Read, Check, FlushBond, AddBond, Fallback, FlushPin, AddPin, NextSlot,
     FlushOurRules, DelRule, DelPins, AddExceptions, AddOne, AddPin1, AddBondRule
<1>2. CASE Crash \/ StopBegin \/ StartAgain
  BY <1>2, <1>a DEF Crash, StopBegin, StartAgain
<1>3. CASE StopTunnel
  BY <1>3, <1>a DEF StopTunnel
<1>4. ASSUME NEW at, NEW r, NEW after \in {"stop_lan", "stop_pin", "stop_table"},
             DelRule(at, r, after)
      PROVE  Unrouted'
  BY <1>4, <1>a DEF DelRule
<1>5. CASE DelPins("stop_pin", "stop_bond")
  BY <1>5, <1>a DEF DelPins
<1>6. CASE StopTable
  <2>1. (Fine /\ bond' = {}) \/ Fault
    BY <1>6 DEF StopTable
  <2>2. bond' = {} /\ pc' = "stop_pin_table" /\ slot' = 0
    BY <1>6, <2>1, Upset DEF StopTable, Slots
  <2> QED
    BY <2>2 DEF Unrouted
<1>7. CASE StopPinTable
  <2>1. Fine /\ pin' = [pin EXCEPT ![slot] = "none"]
    BY <1>7, Upset DEF StopPinTable
  <2>2. clean /\ Unrouted
    BY <2>1, Upset
  <2>3. /\ MaxTunnels \in Nat \ {0} /\ slot \in Nat /\ slot < MaxTunnels /\ slot' = slot + 1
        /\ bond' = {} /\ \A t \in 0 .. slot - 1 : pin[t] = "none"
    BY <1>7, <2>2, TunnelsAssumption DEF StopPinTable, Unrouted, TypeOK, Slots
  <2>4. \A t \in 0 .. slot : pin'[t] = "none"
    BY <2>1, <2>3 DEF TypeOK, Tables
  <2>5. pc' = "stop_pin_table" \/ (pc' = "stopped" /\ slot + 1 = MaxTunnels)
    BY <1>7, <2>3 DEF StopPinTable, MorePinTables
  <2> QED
    BY <2>3, <2>4, <2>5 DEF Unrouted, Tables
<1>8. CASE Change \/ Tamper
  BY <1>8, Upset DEF Change, Tamper
<1>9. CASE UNCHANGED vars
  BY <1>9 DEF vars, kernel, proc, Unrouted
<1>10. CASE Stop
  <2>1. CASE DelRule("stop_self", "self", "stop_lan")
    BY <2>1, <1>4
  <2>2. CASE DelRule("stop_lan", "lan", "stop_pin")
    BY <2>2, <1>4
  <2>3. CASE DelRule("stop_bond", "bond", "stop_table")
    BY <2>3, <1>4
  <2> QED
    BY <1>10, <1>3, <1>5, <1>6, <1>7, <2>1, <2>2, <2>3 DEF Stop
<1> QED
  BY <1>1, <1>2, <1>8, <1>9, <1>10 DEF Next

\* What every step keeps, to begin with.
Taken == TypeOK /\ Slots /\ Within /\ Bounded /\ (Sure => Emptied)

LEMMA InitTaken == Init => Taken
<1> SUFFICES ASSUME Init PROVE Taken
  OBVIOUS
<1>1. Within
  BY ConfigAssumption DEF Init, Within, Upsets
<1>2. Emptied
  BY DEF Init, Emptied
<1>3. Bounded
  <2>1. Spent \in Nat /\ Cardinality(Clients) \in Nat /\ Cardinality(pinRules) = 0
    BY <1>1, InitType, SpentSteps, ClientsFinite, FS_EmptySet DEF Init
  <2>2. Cardinality(Clients) * (Spent + 1) \in Nat
    BY <2>1, Times
  <2> QED
    BY <2>1, <2>2 DEF Init, Bounded
<1> QED
  BY <1>1, <1>2, <1>3, InitType DEF Taken

LEMMA StepTaken == Room /\ Taken /\ [Next]_vars => Taken'
BY StepType, StepBounded, StepEmptied DEF Taken

\* A `bondvpn stop` after whose tunnels nothing fails leaves no rule and no route of ours,
\* whatever daemons and failures have left before (main.go:cmdStop).
THEOREM StopUnrouted == ASSUME Room PROVE Spec => []StopUnroutes
<1>1. Init => (clean => Unrouted)
  BY DEF Init, Unrouted
<1>2. Taken /\ (clean => Unrouted) /\ [Next]_vars => (clean => Unrouted)'
  BY StepUnrouted DEF Taken
<1>3. Taken /\ (clean => Unrouted) => StopUnroutes
  BY DEF Taken, Sure, Emptied, Unrouted, StopUnroutes
<1>4. Taken /\ [Next]_vars => Taken'
  BY Room, StepTaken
<1> QED
  BY <1>1, <1>2, <1>3, <1>4, InitTaken, PTL DEF Spec

-----------------------------------------------------------------------------
(* Counting the rules tells whether they are those of the plan.            *)

\* Those of a plan over the live tunnels s.
RulesOf(s) == {"self", "lan"} \cup (IF s = << >> THEN {} ELSE {"bond"})
PinRulesOf(s) == IF s = << >> THEN {} ELSE {<< c, (PinIndex(c) - 1) % Len(s) >> : c \in Clients}

LEMMA RulesCount ==
  ASSUME NEW s
  PROVE  /\ IsFiniteSet(RulesOf(s))
         /\ Cardinality(RulesOf(s)) = IF s = << >> THEN 2 ELSE 3
<1>1. IsFiniteSet({"self"}) /\ Cardinality({"self"}) = 1
  BY FS_Singleton
<1>2. IsFiniteSet({"self", "lan"}) /\ Cardinality({"self", "lan"}) = 2
  <2>1. {"self", "lan"} = {"self"} \cup {"lan"} /\ "lan" \notin {"self"}
    OBVIOUS
  <2>2. IsFiniteSet({"self"} \cup {"lan"}) /\ Cardinality({"self"} \cup {"lan"}) = 2
    BY <1>1, <2>1, FS_AddElement
  <2> QED
    BY <2>1, <2>2
<1>3. IsFiniteSet({"self", "lan"} \cup {"bond"}) /\ Cardinality({"self", "lan"} \cup {"bond"}) = 3
  <2>1. "bond" \notin {"self", "lan"}
    OBVIOUS
  <2> QED
    BY <1>2, <2>1, FS_AddElement
<1>4. CASE s = << >>
  <2>1. RulesOf(s) = {"self", "lan"}
    BY <1>4 DEF RulesOf
  <2> QED
    BY <1>2, <1>4, <2>1
<1>5. CASE s # << >>
  <2>1. RulesOf(s) = {"self", "lan"} \cup {"bond"}
    BY <1>5 DEF RulesOf
  <2> QED
    BY <1>3, <1>5, <2>1
<1> QED
  BY <1>4, <1>5

\* One for each pinned client, however many of them share a table.
LEMMA PinRulesCount ==
  ASSUME NEW s
  PROVE  /\ IsFiniteSet(PinRulesOf(s))
         /\ Cardinality(PinRulesOf(s)) = IF s = << >> THEN 0 ELSE Cardinality(Clients)
<1>1. CASE s = << >>
  <2>1. PinRulesOf(s) = {}
    BY <1>1 DEF PinRulesOf
  <2> QED
    BY <1>1, <2>1, FS_EmptySet
<1>2. CASE s # << >>
  <2> DEFINE f == [c \in Clients |-> << c, (PinIndex(c) - 1) % Len(s) >>]
  <2>1. PinRulesOf(s) = {f[c] : c \in Clients}
    BY <1>2 DEF PinRulesOf
  <2>2. \A c, d \in Clients : f[c] = f[d] => c = d
    OBVIOUS
  <2>3. f \in Bijection(Clients, PinRulesOf(s))
    <3>1. f = [c \in Clients |-> f[c]]
      OBVIOUS
    <3> HIDE DEF f
    <3>2. f \in [Clients -> PinRulesOf(s)]
      BY <2>1, <3>1
    <3>3. \A r \in PinRulesOf(s) : \E c \in Clients : f[c] = r
      BY <2>1
    <3> QED
      BY <2>2, <3>2, <3>3 DEF Bijection, Injection, Surjection, IsInjective
  <2>4. ExistsBijection(Clients, PinRulesOf(s))
    BY <2>3 DEF ExistsBijection
  <2> QED
    BY <1>2, <2>4, ClientsFinite, FS_Bijection
<1> QED
  BY <1>1, <1>2

LEMMA PlanCount ==
  /\ ExpectedRules = Cardinality(RulesOf(live)) + Cardinality(PinRulesOf(live))
  /\ Cardinality(RulesOf(live)) \in Nat /\ Cardinality(PinRulesOf(live)) \in Nat
<1>1. CASE live = << >>
  BY <1>1, RulesCount, PinRulesCount, FS_EmptySet DEF ExpectedRules, Planned
<1>2. CASE live # << >>
  BY <1>2, RulesCount, PinRulesCount, ClientsFinite DEF ExpectedRules, Planned
<1> QED
  BY <1>1, <1>2

\* Rules that are among those of the plan, and as many, are those of the plan.
LEMMA CountIsEnough ==
  ASSUME rules \subseteq RulesOf(live), pinRules \subseteq PinRulesOf(live),
         Cardinality(rules) + Cardinality(pinRules) = ExpectedRules
  PROVE  rules = RulesOf(live) /\ pinRules = PinRulesOf(live)
<1>1. /\ IsFiniteSet(rules) /\ Cardinality(rules) <= Cardinality(RulesOf(live))
      /\ Cardinality(RulesOf(live)) = Cardinality(rules) => RulesOf(live) = rules
  BY RulesCount, FS_Subset
<1>2. /\ IsFiniteSet(pinRules) /\ Cardinality(pinRules) <= Cardinality(PinRulesOf(live))
      /\ Cardinality(PinRulesOf(live)) = Cardinality(pinRules) => PinRulesOf(live) = pinRules
  BY PinRulesCount, FS_Subset
<1>3. Cardinality(rules) \in Nat /\ Cardinality(pinRules) \in Nat
  BY <1>1, <1>2, FS_CardinalityType
<1>4. Cardinality(rules) = Cardinality(RulesOf(live))
      /\ Cardinality(pinRules) = Cardinality(PinRulesOf(live))
  <2> DEFINE a == Cardinality(rules)
             b == Cardinality(pinRules)
             c == Cardinality(RulesOf(live))
             d == Cardinality(PinRulesOf(live))
  <2>1. /\ a \in Nat /\ b \in Nat /\ c \in Nat /\ d \in Nat
        /\ a <= c /\ b <= d /\ a + b = c + d
    BY <1>1, <1>2, <1>3, PlanCount
  <2> HIDE DEF a, b, c, d
  <2>2. a = c /\ b = d
    BY <2>1
  <2> QED
    BY <2>2 DEF a, b, c, d
<1> QED
  BY <1>1, <1>2, <1>4

-----------------------------------------------------------------------------
(* As long as no command of ours has failed, the rules that are installed   *)
(* between two Applies are among those of the last one that succeeded.      *)

Early == {"idle", "check", "flush_bond", "add_bond", "fallback", "flush_pin", "add_pin", "del_self"}
Known == NoFault /\ ever /\ pc \in Early =>
           rules \subseteq RulesOf(applied) /\ pinRules \subseteq PinRulesOf(applied)

\* Once all are added, those of the plan.
LEMMA AllAdded == todo = {} => AddedPins = PinRulesOf(live)
BY DEF AddedPins, PinRulesOf, Planned, TableOf

LEMMA StepKnown == Taken /\ Known /\ [Next]_vars => Known'
<1> SUFFICES ASSUME Taken, Known, [Next]_vars PROVE Known'
  OBVIOUS
<1>0. TypeOK /\ Slots /\ Within /\ (NoFault => Emptied)
  BY DEF Taken, Sure
\* Nothing is added, and Apply has not come to the rules.
<1>a. ASSUME NoFault' => NoFault, UNCHANGED << ever, applied >>, pc' \in Early => pc \in Early,
             rules' \subseteq rules, pinRules' \subseteq pinRules
      PROVE  Known'
  BY <1>a DEF Known
\* Apply is busy with the rules, the daemon has forgotten all, or a command has failed.
<1>b. ASSUME ~NoFault' \/ ~ever' \/ pc' \notin Early PROVE Known'
  BY <1>b DEF Known
<1>u. /\ Fine \/ Unread => (NoFault' => NoFault)
      /\ Fault => ~NoFault'
      /\ Spend("change") \/ Spend("tamper") => (NoFault' => NoFault)
      /\ UNCHANGED left => (NoFault' => NoFault)
  BY <1>0, Upset
<1> USE DEF Goto, Refused, Failed
<1>1. CASE Read
  BY <1>1, <1>a, <1>u DEF Read, kernel, Early
<1>2. CASE Check
  BY <1>2, <1>a, <1>u DEF Check, kernel, Early
<1>3. CASE FlushBond
  BY <1>3, <1>a, <1>b, <1>u DEF FlushBond, Early
<1>4. CASE AddBond
  BY <1>4, <1>a, <1>b, <1>u DEF AddBond, Early
<1>5. CASE Fallback
  BY <1>5, <1>a, <1>b, <1>u DEF Fallback, Early
<1>6. CASE FlushPin
  BY <1>6, <1>a, <1>b, <1>u DEF FlushPin, NextSlot, Early
<1>7. CASE AddPin
  BY <1>7, <1>a, <1>b, <1>u DEF AddPin, NextSlot, Early
<1>8. CASE FlushOurRules
  BY <1>8, <1>b DEF FlushOurRules, DelRule, DelPins, Early
<1>9. CASE AddExceptions
  <2>1. CASE pc' \notin Early
    BY <2>1, <1>b
  <2>2. CASE pc' \in Early
    <3>1. \/ Refused("self" \notin rules) /\ pc = "add_self"
          \/ Refused("lan" \notin rules) /\ pc = "add_lan"
      BY <1>9, <2>2 DEF AddExceptions, AddOne, Early
    <3>2. NoFault' => Emptied
      BY <1>0, <1>u, <3>1
    <3>3. NoFault' => /\ pc = "add_self" => "self" \notin rules
                      /\ pc = "add_lan" => "lan" \notin rules
      BY <3>2 DEF Emptied
    <3> QED
      BY <1>b, <1>u, <3>1, <3>3
  <2> QED
    BY <2>1, <2>2
<1>10. ASSUME NEW c \in Clients, AddPin1(c) PROVE Known'
  <2>1. CASE pc' \notin Early
    BY <2>1, <1>b
  <2>2. CASE pc' \in Early
    <3>1. /\ pc = "add_pins" /\ c \in todo /\ Refused(<< c, TableOf(c) >> \notin pinRules)
      BY <1>10, <2>2 DEF AddPin1, Early
    <3>2. NoFault' => pinRules \subseteq AddedPins
      BY <1>0, <1>u, <3>1 DEF Emptied
    <3>3. << c, TableOf(c) >> \notin AddedPins
      BY <3>1 DEF AddedPins
    <3> QED
      BY <1>b, <1>u, <3>1, <3>2, <3>3
  <2> QED
    BY <2>1, <2>2
<1>11. CASE AddBondRule
  <2>1. pc = "add_pins" /\ todo = {}
    BY <1>11 DEF AddBondRule
  <2>2. NoFault => rules \subseteq {"self", "lan"} /\ pinRules \subseteq PinRulesOf(live)
    BY <1>0, <2>1, AllAdded DEF Emptied
  <2>3. CASE Fine /\ rules' = rules \cup (IF live = << >> THEN {} ELSE {"bond"}) /\ applied' = live
    <3>1. NoFault' => rules' \subseteq RulesOf(live) /\ pinRules' \subseteq PinRulesOf(live)
      BY <1>11, <1>u, <2>2, <2>3 DEF AddBondRule, RulesOf
    <3> QED
      BY <2>3, <3>1 DEF Known
  <2>4. CASE Refused("bond" \notin rules)
    BY <1>b, <1>u, <2>2, <2>4
  <2> QED
    BY <1>11, <2>3, <2>4 DEF AddBondRule
<1>12. CASE Crash \/ StopBegin \/ StartAgain
  BY <1>12, <1>b DEF Crash, StopBegin, StartAgain, Forgets
<1>13. CASE Stop
  BY <1>13, <1>b DEF Stop, StopTunnel, DelRule, DelPins, StopTable, StopPinTable, Early
<1>14. CASE Change
  BY <1>14, <1>a, <1>u DEF Change, proc, GoesQuiet, Handshakes, Created, Deleted, kernel
<1>15. CASE Tamper
  BY <1>15, <1>a, <1>u DEF Tamper, proc, FlushRules, LoseRule, FlushTable
<1>16. CASE UNCHANGED vars
  BY <1>16, <1>a, <1>u DEF vars, proc, kernel
<1> QED
  BY <1>1, <1>2, <1>3, <1>4, <1>5, <1>6, <1>7, <1>8, <1>9, <1>10, <1>11, <1>12, <1>13, <1>14,
     <1>15, <1>16 DEF Next, Daemon

-----------------------------------------------------------------------------
(* What an Apply during which nothing goes wrong has done so far.          *)

\* Each live tunnel among the first n has its table.
Pins(n) == \A k \in 1 .. n : k <= Len(live) => pin[k - 1] = live[k]

Filled ==
  /\ live = LiveTunnels(fresh)
  /\ pc \notin {"idle", "check", "flush_bond", "add_bond", "fallback"} =>
       bond \subseteq LiveSet /\ (live # << >> => bond # {})
  /\ pc \in {"flush_pin", "add_pin"} => Pins(slot)
  /\ pc \in {"del_self", "del_lan", "del_pin", "del_bond", "add_self", "add_lan", "add_pins"} =>
       Pins(Len(live))
  /\ pc = "add_lan" => rules = {"self"}
  /\ pc = "add_pins" => rules = {"self", "lan"} /\ pinRules = AddedPins
  /\ pc = "idle" => ever /\ applied = live /\ Installed("none")
Filling == clean /\ pc \in ApplyPCs \cup {"idle", "check"} => Filled

\* The plan's rules, with a table for each live tunnel and one in the bond.
PlanHeld ==
  /\ TypeOK /\ Pins(Len(live)) /\ (live # << >> => bond # {})
  /\ rules = RulesOf(live) /\ pinRules = PinRulesOf(live)

\* The same seen from the clients: the table of each of them routes through its tunnel.
Exact ==
  /\ rules = RulesOf(live) /\ pinRules = PinRulesOf(live) /\ (live # << >> => bond # {})
  /\ \A c \in Planned : pin[TableOf(c)] = TunnelOf(c)

LEMMA HeldIsExact == PlanHeld => Exact
<1> SUFFICES ASSUME PlanHeld, NEW c \in Planned PROVE pin[TableOf(c)] = TunnelOf(c)
  BY DEF Exact, PlanHeld
<1>1. c \in Clients /\ live # << >> /\ live \in Seq(Ifaces)
  BY DEF Planned, TypeOK, PlanHeld
<1>2. TableOf(c) \in 0 .. Len(live) - 1 /\ Len(live) \in Nat
  BY <1>1, TableOfType
<1> DEFINE k == TableOf(c) + 1
<1>3. k \in 1 .. Len(live) /\ k - 1 = TableOf(c) /\ k <= Len(live)
  BY <1>2
<1>4. pin[k - 1] = live[k]
  BY <1>3 DEF Pins, PlanHeld
<1> QED
  BY <1>3, <1>4 DEF TunnelOf

LEMMA PlanInstalled == PlanHeld => Installed("none")
BY HeldIsExact, PlanCount DEF Exact, Installed

LEMMA InstalledSame == UNCHANGED << kernel, live >> => (Installed("none")' <=> Installed("none"))
BY DEF Installed, ExpectedRules, Planned, TableOf, TunnelOf, kernel

\* Every live tunnel exists.
LEMMA LiveAreUp ==
  ASSUME TypeOK, live = LiveTunnels(fresh)
  PROVE  /\ \A k \in 1 .. Len(live) : live[k] \in up
         /\ live # << >> => live[1] \in up /\ live[1] \in LiveSet /\ LiveSet # {}
         /\ Len(live) <= MaxTunnels
<1>1. live \in Seq(Ifaces \cap fresh)
  BY LiveTunnelsType
<1>2. \A k \in 1 .. Len(live) : live[k] \in up
  BY <1>1 DEF TypeOK
<1>3. live # << >> => 1 \in DOMAIN live /\ 1 \in 1 .. Len(live)
  BY <1>1
<1>4. Len(live) <= MaxTunnels
  BY TunnelsAssumption DEF TypeOK
<1> QED
  BY <1>2, <1>3, <1>4 DEF LiveSet

\* An Apply that ends has installed the plan.
Ends == pc \in ApplyPCs /\ pc' = "idle" => PlanHeld' /\ bond' \subseteq LiveSet

LEMMA StepFilling == Taken /\ Filling /\ [Next]_vars => Filling' /\ (clean' => Ends)
<1> SUFFICES ASSUME Taken, Filling, [Next]_vars, clean', pc' \in ApplyPCs \cup {"idle", "check"}
             PROVE  Filled' /\ Ends
  BY DEF Filling, Ends
<1>0. /\ TypeOK /\ Slots /\ Within /\ (clean => Emptied)
      /\ MaxTunnels \in Nat \ {0} /\ Len(live) \in Nat /\ slot \in Nat
  BY TunnelsAssumption DEF Taken, Sure, TypeOK
<1>u. /\ Fine => clean' = clean
      /\ ~Fault /\ ~Unread
  BY <1>0, Upset
<1>f. ASSUME clean, pc \in ApplyPCs PROVE Filled
  BY <1>f DEF Filling
<1>g. ASSUME live = LiveTunnels(fresh)
      PROVE  /\ \A k \in 1 .. Len(live) : live[k] \in up
             /\ live # << >> => live[1] \in up /\ live[1] \in LiveSet
             /\ Len(live) <= MaxTunnels
  BY <1>0, <1>g, LiveAreUp
<1> USE DEF Goto, Refused, Failed
<1>1. CASE Read
  <2>1. pc' = "check" /\ live' = LiveTunnels(fresh) /\ UNCHANGED fresh
    BY <1>1, <1>u DEF Read, tunnels
  <2> QED
    BY <2>1 DEF Filled, Ends, ApplyPCs
<1>2. CASE Check
  <2>1. /\ clean /\ pc = "check" /\ UNCHANGED << tunnels, kernel, live, ever, applied >>
        /\ pc' \in {"idle", "flush_bond"}
        /\ pc' = "idle" => ever /\ live = applied /\ Installed("none")
    BY <1>2, <1>u DEF Check
  <2>2. live = LiveTunnels(fresh)
    BY <2>1 DEF Filling, Filled
  <2> QED
    BY <2>1, <2>2, InstalledSame DEF Filled, Ends, ApplyPCs, tunnels
<1>3. CASE FlushBond
  <2>1. /\ clean /\ pc = "flush_bond" /\ bond' = {} /\ slot' = 0 /\ UNCHANGED << live, fresh, pin >>
        /\ pc' = IF live = << >> THEN "flush_pin" ELSE "add_bond"
    BY <1>3, <1>u DEF FlushBond, tunnels
  <2>2. live = LiveTunnels(fresh)
    <3>1. Filled
      BY <1>f, <2>1 DEF ApplyPCs
    <3> QED
      BY <3>1 DEF Filled
  <2>3. Pins(slot)'
    BY <2>1 DEF Pins
  <2> QED
    BY <2>1, <2>2, <2>3 DEF Filled, Ends, ApplyPCs
<1>4. CASE AddBond
  <2>1. /\ clean /\ pc = "add_bond" /\ live # << >> /\ slot = 0
        /\ UNCHANGED << live, fresh, pin, slot >>
    BY <1>0, <1>4, <1>u DEF AddBond, tunnels, Slots
  <2>2. live = LiveTunnels(fresh) /\ live[1] \in LiveSet
    <3>1. Filled
      BY <1>f, <2>1 DEF ApplyPCs
    <3>2. live = LiveTunnels(fresh)
      BY <3>1 DEF Filled
    <3> QED
      BY <1>g, <2>1, <3>2
  <2>3. Len(live) = 1 => CanBond(live)
    <3>1. DOMAIN live = 1 .. Len(live)
      BY <1>0 DEF TypeOK
    <3>2. \A k \in 1 .. Len(live) : live[k] \in up
      BY <1>g, <2>2
    <3> QED
      BY <3>1, <3>2 DEF CanBond
  <2>4. (pc' = "flush_pin" /\ bond' = LiveSet) \/ pc' = "fallback"
    BY <1>4, <1>u, <2>3 DEF AddBond
  <2>5. Pins(slot)' /\ LiveSet' = LiveSet
    BY <2>1 DEF Pins, LiveSet
  <2> QED
    BY <2>1, <2>2, <2>4, <2>5 DEF Filled, Ends, ApplyPCs
<1>5. CASE Fallback
  <2>1. /\ clean /\ pc = "fallback" /\ live # << >> /\ slot = 0
        /\ UNCHANGED << live, fresh, pin, slot >>
    BY <1>0, <1>5, <1>u DEF Fallback, tunnels, Slots
  <2>2. live = LiveTunnels(fresh) /\ live[1] \in LiveSet /\ live[1] \in up
    <3>1. Filled
      BY <1>f, <2>1 DEF ApplyPCs
    <3>2. live = LiveTunnels(fresh)
      BY <3>1 DEF Filled
    <3> QED
      BY <1>g, <2>1, <3>2
  <2>3. pc' = "flush_pin" /\ bond' = {live[1]}
    BY <1>5, <1>u, <2>2 DEF Fallback
  <2>4. Pins(slot)' /\ LiveSet' = LiveSet
    BY <2>1 DEF Pins, LiveSet
  <2> QED
    BY <2>1, <2>2, <2>3, <2>4 DEF Filled, Ends, ApplyPCs
<1>6. CASE FlushPin
  <2>1. /\ clean /\ pc = "flush_pin" /\ UNCHANGED << live, fresh, bond >>
        /\ pin' = [pin EXCEPT ![slot] = "none"]
    BY <1>6, <1>u DEF FlushPin, tunnels
  <2>2. /\ live = LiveTunnels(fresh) /\ Pins(slot) /\ Len(live) <= MaxTunnels
        /\ bond \subseteq LiveSet /\ (live # << >> => bond # {})
    <3>1. Filled
      BY <1>f, <2>1 DEF ApplyPCs
    <3>2. live = LiveTunnels(fresh) /\ Pins(slot) /\ bond \subseteq LiveSet
          /\ (live # << >> => bond # {})
      BY <2>1, <3>1 DEF Filled
    <3> QED
      BY <1>g, <3>2
  <2>3. \A k \in 1 .. slot : k <= Len(live) => pin'[k - 1] = live[k]
    BY <1>0, <2>1, <2>2 DEF Pins, TypeOK
  <2>4. \/ pc' = "add_pin" /\ slot' = slot
        \/ pc' = "flush_pin" /\ slot' = slot + 1 /\ slot >= Len(live)
        \/ pc' = "del_self" /\ slot >= Len(live)
    BY <1>0, <1>6 DEF FlushPin, NextSlot
  <2>5. /\ pc' \in {"add_pin", "flush_pin"} => Pins(slot)'
        /\ pc' = "del_self" => Pins(Len(live))'
    BY <1>0, <2>1, <2>3, <2>4 DEF Pins
  <2>6. LiveSet' = LiveSet
    BY <2>1 DEF LiveSet
  <2> QED
    BY <2>1, <2>2, <2>4, <2>5, <2>6 DEF Filled, Ends, ApplyPCs
<1>7. CASE AddPin
  <2>1. /\ clean /\ pc = "add_pin" /\ UNCHANGED << live, fresh, bond >> /\ slot < Len(live)
    BY <1>0, <1>7, <1>u DEF AddPin, tunnels, Slots
  <2>2. /\ live = LiveTunnels(fresh) /\ Pins(slot) /\ Len(live) <= MaxTunnels
        /\ bond \subseteq LiveSet /\ (live # << >> => bond # {}) /\ live[slot + 1] \in up
    <3>1. Filled
      BY <1>f, <2>1 DEF ApplyPCs
    <3>2. live = LiveTunnels(fresh) /\ Pins(slot) /\ bond \subseteq LiveSet
          /\ (live # << >> => bond # {})
      BY <2>1, <3>1 DEF Filled
    <3>3. slot + 1 \in 1 .. Len(live)
      BY <1>0, <2>1
    <3> QED
      BY <1>g, <3>2, <3>3
  <2>3. pin' = [pin EXCEPT ![slot] = live[slot + 1]] /\ NextSlot
    BY <1>7, <1>u, <2>2 DEF AddPin
  <2>4. \A k \in 1 .. slot + 1 : k <= Len(live) => pin'[k - 1] = live[k]
    BY <1>0, <2>1, <2>2, <2>3 DEF Pins, TypeOK, Tables
  <2>5. \/ pc' = "flush_pin" /\ slot' = slot + 1
        \/ pc' = "del_self" /\ slot + 1 >= Len(live)
    BY <1>0, <2>2, <2>3 DEF NextSlot
  <2>6. /\ pc' = "flush_pin" => Pins(slot)'
        /\ pc' = "del_self" => Pins(Len(live))'
    BY <1>0, <2>1, <2>4, <2>5 DEF Pins
  <2>7. LiveSet' = LiveSet
    BY <2>1 DEF LiveSet
  <2> QED
    BY <2>1, <2>2, <2>5, <2>6, <2>7 DEF Filled, Ends, ApplyPCs
<1>8. CASE FlushOurRules
  <2>1. /\ clean /\ pc \in {"del_self", "del_lan", "del_pin", "del_bond"}
        /\ pc' \in {"del_lan", "del_pin", "del_bond", "add_self"}
        /\ UNCHANGED << live, fresh, bond, pin >>
    BY <1>8, <1>u DEF FlushOurRules, DelRule, DelPins, tunnels
  <2>2. /\ live = LiveTunnels(fresh) /\ Pins(Len(live))
        /\ bond \subseteq LiveSet /\ (live # << >> => bond # {})
    <3>1. Filled
      BY <1>f, <2>1 DEF ApplyPCs
    <3> QED
      BY <2>1, <3>1 DEF Filled
  <2>3. Pins(Len(live))' /\ LiveSet' = LiveSet
    BY <2>1, <2>2 DEF Pins, LiveSet
  <2> QED
    BY <2>1, <2>2, <2>3 DEF Filled, Ends, ApplyPCs
<1>9. CASE AddExceptions
  <2>1. /\ clean /\ UNCHANGED << live, fresh, bond, pin, pinRules >> /\ todo' = Planned
        /\ pc \in {"add_self", "add_lan"}
        /\ pc = "add_self" /\ "self" \notin rules => rules' = rules \cup {"self"} /\ pc' = "add_lan"
        /\ pc = "add_lan" /\ "lan" \notin rules => rules' = rules \cup {"lan"} /\ pc' = "add_pins"
    BY <1>9, <1>u DEF AddExceptions, AddOne, tunnels
  <2>2. /\ live = LiveTunnels(fresh) /\ Pins(Len(live))
        /\ bond \subseteq LiveSet /\ (live # << >> => bond # {})
        /\ pc = "add_lan" => rules = {"self"}
    <3>1. Filled
      BY <1>f, <2>1 DEF ApplyPCs
    <3> QED
      BY <2>1, <3>1 DEF Filled
  <2>3. (pc = "add_self" => rules = {}) /\ pinRules = {}
    <3>1. Emptied
      BY <1>0, <2>1
    <3> QED
      BY <2>1, <3>1 DEF Emptied
  <2>4. Pins(Len(live))' /\ LiveSet' = LiveSet /\ AddedPins' = {}
    BY <2>1, <2>2 DEF Pins, LiveSet, AddedPins, Planned
  <2> QED
    BY <2>1, <2>2, <2>3, <2>4 DEF Filled, Ends, ApplyPCs
<1>10. ASSUME NEW c \in Clients, AddPin1(c) PROVE Filled' /\ Ends
  <2>1. /\ clean /\ UNCHANGED << live, fresh, bond, pin, rules >> /\ pc = "add_pins" /\ c \in todo
    BY <1>10, <1>u DEF AddPin1, tunnels
  <2>2. /\ live = LiveTunnels(fresh) /\ Pins(Len(live))
        /\ bond \subseteq LiveSet /\ (live # << >> => bond # {})
        /\ rules = {"self", "lan"} /\ pinRules = AddedPins
    <3>1. Filled
      BY <1>f, <2>1 DEF ApplyPCs
    <3> QED
      BY <2>1, <3>1 DEF Filled
  <2>3. << c, TableOf(c) >> \notin pinRules
    BY <2>1, <2>2 DEF AddedPins
  <2>4. /\ pinRules' = pinRules \cup {<< c, TableOf(c) >>} /\ todo' = todo \ {c} /\ pc' = pc
    BY <1>10, <1>u, <2>3 DEF AddPin1
  <2>5. AddedPins' = AddedPins \cup {<< c, TableOf(c) >>}
    BY <1>0, <1>10, <2>1, <2>4, AddedPinsMore
  <2>6. Pins(Len(live))' /\ LiveSet' = LiveSet
    BY <2>1, <2>2 DEF Pins, LiveSet
  <2> QED
    BY <2>1, <2>2, <2>4, <2>5, <2>6 DEF Filled, Ends, ApplyPCs
<1>11. CASE AddBondRule
  <2>1. /\ clean /\ UNCHANGED << live, fresh, bond, pin, pinRules >> /\ pc = "add_pins" /\ todo = {}
    BY <1>11, <1>u DEF AddBondRule, tunnels
  <2>2. /\ live = LiveTunnels(fresh) /\ Pins(Len(live))
        /\ bond \subseteq LiveSet /\ (live # << >> => bond # {})
        /\ rules = {"self", "lan"} /\ pinRules = AddedPins
    <3>1. Filled
      BY <1>f, <2>1 DEF ApplyPCs
    <3> QED
      BY <2>1, <3>1 DEF Filled
  <2>3. /\ rules' = RulesOf(live) /\ pinRules' = PinRulesOf(live) /\ ever' = TRUE
        /\ applied' = live /\ pc' = "idle"
    BY <1>11, <1>u, <2>1, <2>2, AllAdded DEF AddBondRule, RulesOf
  <2>4. TypeOK' /\ Pins(Len(live))'
    BY <1>0, <2>1, <2>2, StepType DEF Pins
  <2>5. rules' = RulesOf(live') /\ pinRules' = PinRulesOf(live')
    BY <2>1, <2>3
  <2>6. PlanHeld'
    <3>1. live' # << >> => bond' # {}
      BY <2>1, <2>2
    <3> QED
      BY <2>4, <2>5, <3>1 DEF PlanHeld
  <2>7. Installed("none")'
    BY <2>6, PlanInstalled, PTL
  <2>8. bond' \subseteq LiveSet' /\ (live' # << >> => bond' # {}) /\ live' = LiveTunnels(fresh')
    BY <2>1, <2>2 DEF LiveSet
  <2> QED
    BY <2>1, <2>2, <2>3, <2>6, <2>7, <2>8 DEF Filled, Ends
<1>12. CASE Crash \/ StopBegin \/ StartAgain
  BY <1>0, <1>12, Upset DEF Crash, StopBegin, StartAgain
<1>13. CASE Stop
  BY <1>13 DEF Stop, StopTunnel, DelRule, DelPins, StopTable, StopPinTable, ApplyPCs
<1>14. CASE Change \/ Tamper
  BY <1>0, <1>14, Upset DEF Change, Tamper
<1>15. CASE UNCHANGED vars
  <2>1. Filled /\ UNCHANGED << kernel, live, fresh, pc, slot, todo, ever, applied >>
    BY <1>15 DEF Filling, vars, tunnels, proc
  <2>2. /\ Installed("none")' <=> Installed("none")
        /\ AddedPins' = AddedPins /\ LiveSet' = LiveSet
        /\ (Pins(slot) => Pins(slot)') /\ (Pins(Len(live)) => Pins(Len(live))')
    BY <2>1, InstalledSame, AddedPinsSame DEF Pins, LiveSet, kernel
  <2> QED
    BY <2>1, <2>2 DEF Filled, Ends, ApplyPCs, kernel
<1> QED
  BY <1>1, <1>2, <1>3, <1>4, <1>5, <1>6, <1>7, <1>8, <1>9, <1>10, <1>11, <1>12, <1>13, <1>14,
     <1>15 DEF Next, Daemon

\* So that is where every client leaves.
LEMMA ExactRoutes == TypeOK /\ Exact => Routed
<1> SUFFICES ASSUME TypeOK, Exact PROVE Routed
  OBVIOUS
<1>1. CASE live = << >>
  <2>1. rules = {"self", "lan"} /\ pinRules = {}
    BY <1>1 DEF Exact, RulesOf, PinRulesOf
  <2>2. \A c : PinExits(c) = {}
    BY <2>1 DEF PinExits
  <2>3. \A c : Exits(c) = {"main"}
    BY <2>1, <2>2 DEF Exits
  <2> QED
    BY <1>1, <2>1, <2>3 DEF Routed
<1>2. CASE live # << >>
  <2>1. {"self", "lan", "bond"} \subseteq rules /\ bond # {}
    BY <1>2 DEF Exact, RulesOf
  <2>2. ASSUME NEW c \in Clients PROVE Exits(c) = {TunnelOf(c)}
    <3>1. pinRules = {<< d, TableOf(d) >> : d \in Clients}
      BY <1>2 DEF Exact, PinRulesOf, TableOf
    <3>2. {s \in pinRules : s[1] = c} = {<< c, TableOf(c) >>}
      BY <3>1
    <3>3. pin[TableOf(c)] = TunnelOf(c)
      BY <1>2 DEF Exact, Planned
    <3>4. TunnelOf(c) # "none"
      BY <1>2, TableOfType, TunnelsAssumption DEF TypeOK
    <3>5. PinExits(c) = {TunnelOf(c)}
      <4>1. << c, TableOf(c) >>[2] = TableOf(c)
        OBVIOUS
      <4>2. {pin[r[2]] : r \in {<< c, TableOf(c) >>}} = {TunnelOf(c)}
        BY <3>3, <4>1
      <4>3. PinExits(c) = {pin[r[2]] : r \in {<< c, TableOf(c) >>}} \ {"none"}
        BY <3>2 DEF PinExits
      <4> QED
        BY <3>4, <4>2, <4>3
    <3> QED
      BY <3>5 DEF Exits
  <2> QED
    BY <1>2, <2>1, <2>2 DEF Routed
<1> QED
  BY <1>1, <1>2

-----------------------------------------------------------------------------
(* After a clean pass.                                                     *)

Settling == settled => /\ clean /\ pc \in {"idle", "check"}
                       /\ pc = "check" => ever /\ live = applied /\ Installed("none")

LEMMA StepSettling == Taken /\ Filling /\ Settling /\ [Next]_vars => Settling'
<1> SUFFICES ASSUME Taken, Filling, Settling, [Next]_vars, settled'
             PROVE  /\ clean' /\ pc' \in {"idle", "check"}
                    /\ pc' = "check" => ever' /\ live' = applied' /\ Installed("none")'
  BY DEF Settling
<1>0. TypeOK /\ Within
  BY DEF Taken
<1>1. CASE Read
  <2>1. clean /\ clean' /\ pc = "idle" /\ pc' = "check" /\ live' = LiveTunnels(fresh)
        /\ UNCHANGED << kernel, ever, applied >>
    BY <1>0, <1>1, Upset DEF Read, Goto
  <2>2. live = LiveTunnels(fresh) /\ ever /\ applied = live /\ Installed("none")
    BY <2>1 DEF Filling, Filled
  <2> QED
    BY <2>1, <2>2, InstalledSame
<1>2. CASE Check
  <2>1. settled /\ clean /\ clean' = clean /\ ever /\ live = applied /\ Installed("none")
    BY <1>0, <1>2, Upset DEF Check, Settling
  <2>2. pc' = "idle"
    BY <1>0, <1>2, <2>1, Upset DEF Check, Goto
  <2> QED
    BY <2>1, <2>2
<1>3. CASE UNCHANGED vars
  <2>1. UNCHANGED << settled, clean, pc, ever, applied, live, kernel >>
    BY <1>3 DEF vars, proc
  <2>2. settled
    BY <2>1
  <2> QED
    BY <2>1, <2>2, InstalledSame DEF Settling
<1>4. CASE Crash \/ StopBegin \/ StartAgain \/ Change \/ Tamper
  BY <1>0, <1>4, Upset DEF Crash, StopBegin, StartAgain, Change, Tamper
<1>5. CASE pc \notin {"idle", "check"} /\ (settled' => settled)
  BY <1>5 DEF Settling
<1>6. Fine \/ Fault => (settled' => settled)
  BY <1>0, Upset
<1>7. CASE Stop
  BY <1>5, <1>6, <1>7 DEF Stop, StopTunnel, DelRule, DelPins, StopTable, StopPinTable
<1>8. CASE FlushBond \/ AddBond \/ Fallback \/ FlushPin \/ AddPin
  BY <1>5, <1>6, <1>8 DEF FlushBond, AddBond, Fallback, FlushPin, AddPin, Refused
<1>9. CASE FlushOurRules \/ AddExceptions \/ (\E c \in Clients : AddPin1(c)) \/ AddBondRule
  BY <1>5, <1>6, <1>9 DEF FlushOurRules, DelRule, DelPins, AddExceptions, AddOne, AddPin1,
     AddBondRule, Refused
<1> QED
  BY <1>1, <1>2, <1>3, <1>4, <1>7, <1>8, <1>9 DEF Next, Daemon

\* The inductive invariant of the run loop.
Loop == Taken /\ Known /\ Filling /\ Settling

LEMMA SpecLoop == ASSUME Room PROVE Spec => []Loop
<1>1. Init => Loop
  BY InitTaken DEF Init, Loop, Known, Filling, Settling
<1>2. Loop /\ [Next]_vars => Loop'
  BY Room, StepTaken, StepKnown, StepFilling, StepSettling DEF Loop
<1> QED
  BY <1>1, <1>2, PTL DEF Spec

\* While nothing changes the plan is not applied again (routing.go:Installed, main.go:refresh).
THEOREM Settled == ASSUME Room PROVE Spec => []NoChurn
<1>1. Loop => NoChurn
  BY DEF Loop, Settling, NoChurn
<1> QED
  BY <1>1, Room, SpecLoop, PTL

\* As long as no command of ours has failed, a pass without an upset ends with every client
\* on the route the plan names, whether it applied the plan or found it installed.
THEOREM Routes == ASSUME Room PROVE Spec => []CleanPassRoutes
<1>1. Loop => CleanPassRoutes
  <2> SUFFICES ASSUME Loop, NoFault, pc = "idle", clean, ever PROVE Routed
    BY DEF CleanPassRoutes
  <2>1. applied = live /\ Installed("none")
    BY DEF Loop, Filling, Filled
  <2>2. rules \subseteq RulesOf(live) /\ pinRules \subseteq PinRulesOf(live)
    BY <2>1 DEF Loop, Known, Early
  <2>3. /\ Cardinality(rules) + Cardinality(pinRules) = ExpectedRules
        /\ live # << >> => bond # {}
        /\ \A c \in Planned : pin[TableOf(c)] = TunnelOf(c)
    BY <2>1, ConfigAssumption DEF Installed, Planned
  <2>4. Exact
    BY <2>2, <2>3, CountIsEnough DEF Exact
  <2> QED
    BY <2>4, ExactRoutes DEF Loop, Taken
<1> QED
  BY <1>1, Room, SpecLoop, PTL

\* An Apply during which nothing goes wrong installs the plan, whatever an earlier one that
\* failed half way, a crash or another program has left (routing.go:Apply, applyRules).
THEOREM Applies == ASSUME Room PROVE Spec => ApplyRoutes
<1>1. Loop /\ Loop' /\ [Next]_vars =>
        [pc' = "idle" /\ pc \in ApplyPCs /\ clean' => Routed' /\ bond' \subseteq LiveSet]_vars
  <2> SUFFICES ASSUME Loop, Loop', [Next]_vars, pc' = "idle", pc \in ApplyPCs, clean'
               PROVE  Routed' /\ bond' \subseteq LiveSet
    OBVIOUS
  <2>1. PlanHeld' /\ bond' \subseteq LiveSet
    BY StepFilling DEF Loop, Ends
  <2>2. Exact'
    BY <2>1, HeldIsExact, PTL
  <2>3. Routed'
    <3>1. TypeOK'
      BY <2>1 DEF PlanHeld
    <3> QED
      BY <2>2, <3>1, ExactRoutes, PTL
  <2> QED
    BY <2>1, <2>3
<1> QED
  BY <1>1, Room, SpecLoop, PTL DEF ApplyRoutes, Spec
=============================================================================
