---------------------------- MODULE StartupProofs ----------------------------
(***************************************************************************)
(* What TLAPS proves of Startup, for every width of address, every set of  *)
(* processes and every set of files and machines.                          *)
(***************************************************************************)
EXTENDS Startup, FiniteSetTheorems, WellFoundedInduction, TLAPS

-----------------------------------------------------------------------------
(* The naturals: these stand in for induction over a predicate.            *)

\* A set of naturals that is not empty has a least element: the intervals from 0 up to its
\* elements are finite, and finite sets are well founded under inclusion.
LEMMA LeastOfNaturals ==
  ASSUME NEW S \in SUBSET Nat, S # {}
  PROVE  \E i \in S : \A j \in S : i <= j
<1> DEFINE T == {0 .. i : i \in S}
<1>1. T \subseteq FiniteSubsetsOf(Nat) /\ T # {}
  <2>1. \A i \in Nat : IsFiniteSet(0 .. i) /\ 0 .. i \subseteq Nat
    BY FS_Interval
  <2> QED
    BY <2>1 DEF FiniteSubsetsOf
<1>2. \E x \in T : \A y \in T : << y, x >> \notin StrictSubsetOrdering(Nat)
  <2> HIDE DEF T
  <2> QED
    BY <1>1, FS_StrictSubsetOrderingWellFounded, WFMin
<1>3. PICK i \in S : \A j \in S : << 0 .. j, 0 .. i >> \notin StrictSubsetOrdering(Nat)
  BY <1>2
<1>4. ASSUME NEW j \in S, j < i PROVE FALSE
  <2>1. 0 .. j \subseteq 0 .. i /\ 0 .. j # 0 .. i /\ 0 .. i \subseteq Nat
    BY <1>4
  <2> QED
    BY <1>3, <2>1 DEF StrictSubsetOrdering
<1> QED
  BY <1>4

\* A set that holds 0, and with each number the next one, holds every natural.
LEMMA InductionOnNaturals ==
  ASSUME NEW S, 0 \in S, \A n \in Nat : n \in S => n + 1 \in S
  PROVE  Nat \subseteq S
<1> SUFFICES ASSUME Nat \ S # {} PROVE FALSE
  OBVIOUS
<1>1. PICK i \in Nat \ S : \A j \in Nat \ S : i <= j
  BY LeastOfNaturals
<1> QED
  BY <1>1, i - 1 \in Nat

-----------------------------------------------------------------------------
(* Reading line by line.                                                   *)

\* f takes n steps, from `first` on.
StepByStep(f, n, first, step) ==
  \A k \in 0 .. n : f[k] = IF k = 0 THEN first ELSE step[k][f[k - 1]]

\* What is read step by step has a value after every step.
LEMMA StepsExist ==
  ASSUME NEW T, NEW first \in T, NEW step \in [Nat -> [T -> T]], NEW n \in Nat
  PROVE  \E f \in [0 .. n -> T] : StepByStep(f, n, first, step)
<1> DEFINE Solved == {m \in Nat : \E f \in [0 .. m -> T] : StepByStep(f, m, first, step)}
<1>1. 0 \in Solved
  <2> DEFINE g == [k \in 0 .. 0 |-> first]
  <2>1. g \in [0 .. 0 -> T] /\ StepByStep(g, 0, first, step)
    BY DEF StepByStep
  <2> QED
    BY <2>1
<1>2. ASSUME NEW m \in Nat, m \in Solved PROVE m + 1 \in Solved
  <2>1. PICK f \in [0 .. m -> T] : StepByStep(f, m, first, step)
    BY <1>2
  <2> DEFINE g == [k \in 0 .. m + 1 |-> IF k = m + 1 THEN step[k][f[m]] ELSE f[k]]
  <2>2. g \in [0 .. m + 1 -> T]
    BY <2>1
  <2>3. ASSUME NEW k \in 0 .. m + 1
        PROVE  g[k] = IF k = 0 THEN first ELSE step[k][g[k - 1]]
    <3>1. CASE k = m + 1
      <4>1. m \in 0 .. m + 1 /\ m # m + 1 /\ k - 1 = m /\ k # 0
        BY <3>1
      <4> QED
        BY <4>1, <3>1
    <3>2. CASE k # m + 1
      <4>1. k \in 0 .. m /\ (k # 0 => k - 1 \in 0 .. m + 1 /\ k - 1 # m + 1)
        BY <3>2
      <4>2. f[k] = IF k = 0 THEN first ELSE step[k][f[k - 1]]
        BY <2>1, <4>1 DEF StepByStep
      <4> QED
        BY <4>1, <4>2, <3>2
    <3> QED
      BY <3>1, <3>2
  <2>4. StepByStep(g, m + 1, first, step)
    <3> HIDE DEF g
    <3> QED
      BY <2>3 DEF StepByStep
  <2> HIDE DEF g
  <2> QED
    BY <2>2, <2>4
<1>3. Nat \subseteq Solved
  <2> HIDE DEF Solved
  <2> QED
    BY <1>1, <1>2, InductionOnNaturals
<1> QED
  BY <1>3

-----------------------------------------------------------------------------
(* Addresses and networks.                                                 *)

LEMMA PowerOfTwoDef ==
  PowerOfTwo = [k \in 0 .. Bits |-> IF k = 0 THEN 1 ELSE 2 * PowerOfTwo[k - 1]]
<1> DEFINE step == [k \in Nat |-> [x \in Nat |-> 2 * x]]
<1>1. step \in [Nat -> [Nat -> Nat]] /\ 1 \in Nat
  OBVIOUS
<1>2. Bits \in Nat
  BY ConfigAssumption
<1> HIDE DEF step
<1>3. PICK f \in [0 .. Bits -> Nat] : StepByStep(f, Bits, 1, step)
  BY <1>1, <1>2, StepsExist
<1>4. ASSUME NEW k \in 0 .. Bits PROVE f[k] = IF k = 0 THEN 1 ELSE 2 * f[k - 1]
  <2>1. k # 0 => k \in Nat /\ f[k - 1] \in Nat
    BY <1>2
  <2>2. k # 0 => step[k][f[k - 1]] = 2 * f[k - 1]
    BY <2>1 DEF step
  <2> QED
    BY <1>3, <2>2 DEF StepByStep
<1>5. f = [k \in 0 .. Bits |-> IF k = 0 THEN 1 ELSE 2 * f[k - 1]]
  BY <1>3, <1>4
<1> QED
  BY <1>5 DEF PowerOfTwo

LEMMA PowerOfTwoType ==
  /\ \A n \in 0 .. Bits : PowerOfTwo[n] \in Nat \ {0}
  /\ \A n \in 0 .. Bits - 1 : PowerOfTwo[n + 1] = 2 * PowerOfTwo[n]
<1>1. ASSUME NEW n \in 0 .. Bits
      PROVE  PowerOfTwo[n] = IF n = 0 THEN 1 ELSE 2 * PowerOfTwo[n - 1]
  BY PowerOfTwoDef
<1>2. ASSUME NEW n \in 0 .. Bits - 1 PROVE PowerOfTwo[n + 1] = 2 * PowerOfTwo[n]
  <2>1. n + 1 \in 0 .. Bits /\ n + 1 # 0 /\ n + 1 - 1 = n
    BY ConfigAssumption
  <2> QED
    BY <2>1, <1>1
<1> DEFINE Good == {m \in Nat : m <= Bits => PowerOfTwo[m] \in Nat \ {0}}
<1>3. 0 \in Good
  BY <1>1, ConfigAssumption
<1>4. ASSUME NEW m \in Nat, m \in Good PROVE m + 1 \in Good
  <2> SUFFICES ASSUME m + 1 <= Bits PROVE PowerOfTwo[m + 1] \in Nat \ {0}
    OBVIOUS
  <2>1. m \in 0 .. Bits - 1 /\ PowerOfTwo[m] \in Nat \ {0}
    BY <1>4, ConfigAssumption
  <2> QED
    BY <2>1, <1>2
<1>5. Nat \subseteq Good
  <2> HIDE DEF Good
  <2> QED
    BY <1>3, <1>4, InductionOnNaturals
<1> QED
  BY <1>2, <1>5, ConfigAssumption

\* A larger power of two is a multiple of a smaller one.
LEMMA PowersDivide ==
  ASSUME NEW m \in 0 .. Bits, NEW n \in 0 .. Bits, m <= n
  PROVE  \E q \in Nat \ {0} : PowerOfTwo[n] = q * PowerOfTwo[m]
<1> DEFINE Good == {d \in Nat : m + d <= Bits =>
                      \E q \in Nat \ {0} : PowerOfTwo[m + d] = q * PowerOfTwo[m]}
<1>0. Bits \in Nat /\ PowerOfTwo[m] \in Nat
  BY ConfigAssumption, PowerOfTwoType
<1>1. 0 \in Good
  <2>1. PowerOfTwo[m + 0] = 1 * PowerOfTwo[m]
    BY <1>0
  <2> QED
    BY <2>1
<1>2. ASSUME NEW d \in Nat, d \in Good PROVE d + 1 \in Good
  <2> SUFFICES ASSUME m + (d + 1) <= Bits
               PROVE  \E q \in Nat \ {0} : PowerOfTwo[m + (d + 1)] = q * PowerOfTwo[m]
    OBVIOUS
  <2>1. m + d \in 0 .. Bits - 1 /\ m + (d + 1) = (m + d) + 1
    BY <1>0
  <2>2. PICK q \in Nat \ {0} : PowerOfTwo[m + d] = q * PowerOfTwo[m]
    BY <1>2, <2>1, <1>0
  <2>3. PowerOfTwo[m + (d + 1)] = 2 * (q * PowerOfTwo[m])
    BY <2>1, <2>2, PowerOfTwoType
  <2>4. 2 * (q * PowerOfTwo[m]) = (2 * q) * PowerOfTwo[m] /\ 2 * q \in Nat \ {0}
    BY <1>0
  <2> QED
    BY <2>3, <2>4
<1>3. Nat \subseteq Good
  <2> HIDE DEF Good
  <2> QED
    BY <1>1, <1>2, InductionOnNaturals
<1>4. n - m \in Nat /\ m + (n - m) = n /\ n <= Bits
  BY <1>0
<1>5. n - m \in Good
  <2> HIDE DEF Good
  <2> QED
    BY <1>3, <1>4
<1> QED
  BY <1>4, <1>5

\* What a quotient is.
LEMMA Quotient ==
  ASSUME NEW a \in Nat, NEW d \in Nat \ {0}
  PROVE  /\ a \div d \in Nat
         /\ (a \div d) * d <= a /\ a < (a \div d) * d + d
         /\ a - (a % d) = (a \div d) * d
OBVIOUS

LEMMA QuotientUnique ==
  ASSUME NEW a \in Nat, NEW d \in Nat \ {0}, NEW k \in Nat, k * d <= a, a < k * d + d
  PROVE  a \div d = k
OBVIOUS

\* The place of a number in blocks of q * d is that of the first number of its block of d.
LEMMA FirstOfBlock ==
  ASSUME NEW a \in Nat, NEW d \in Nat \ {0}, NEW q \in Nat \ {0}
  PROVE  ((a \div d) * d) \div (q * d) = a \div (q * d)
<1> DEFINE u == a \div d
           k == a \div (q * d)
<1>0. q * d \in Nat \ {0}
  OBVIOUS
<1>1. u \in Nat /\ u * d <= a /\ a < u * d + d
  BY Quotient
<1>2. k \in Nat /\ k * (q * d) <= a /\ a < k * (q * d) + q * d
  BY <1>0, Quotient
<1> HIDE DEF u, k
<1>3. k * (q * d) = (k * q) * d /\ k * q \in Nat
  BY <1>2
<1>4. k * (q * d) <= u * d
  <2>1. (k * q) * d < (u + 1) * d
    BY <1>1, <1>2, <1>3
  <2>2. k * q < u + 1
    BY <2>1, <1>1, <1>3
  <2>3. k * q <= u
    BY <2>2, <1>1, <1>3
  <2> QED
    BY <2>3, <1>1, <1>3
<1>5. u * d < k * (q * d) + q * d
  BY <1>1, <1>2
<1>6. u * d \in Nat
  BY <1>1
<1>7. (u * d) \div (q * d) = k
  BY <1>0, <1>2, <1>4, <1>5, <1>6, QuotientUnique
<1> QED
  BY <1>7 DEF u, k

\* Two networks of which neither holds the other's first address hold no address in common:
\* the larger of two that meet holds all of the smaller.
LEMMA LargerHoldsFirst ==
  ASSUME NEW n \in Networks, NEW m \in Networks, n[3] <= m[3],
         NEW a \in Addresses, InNet(n, a), InNet(m, a)
  PROVE  InNet(n, NetworkOf(m))
<1>1. /\ n[3] \in 0 .. Bits /\ m[3] \in 0 .. Bits
      /\ n[2] \in Addresses /\ m[2] \in Addresses
  BY DEF Networks
<1>2. /\ Bits \in Nat /\ Bits - m[3] \in 0 .. Bits /\ Bits - n[3] \in 0 .. Bits
      /\ Bits - m[3] <= Bits - n[3]
  BY <1>1, ConfigAssumption
<1>3. Addresses \subseteq Nat
  BY <1>2, PowerOfTwoType DEF Addresses
<1>4. Span(m) \in Nat \ {0} /\ Span(n) \in Nat \ {0}
  BY <1>2, PowerOfTwoType DEF Span
<1>5. PICK q \in Nat \ {0} : Span(n) = q * Span(m)
  BY <1>2, PowersDivide DEF Span
<1>6. NetworkOf(m) = (m[2] \div Span(m)) * Span(m)
  BY <1>1, <1>3, <1>4, Quotient DEF NetworkOf
<1>7. NetworkOf(m) = (a \div Span(m)) * Span(m)
  BY <1>6 DEF InNet
<1>8. ((a \div Span(m)) * Span(m)) \div (q * Span(m)) = a \div (q * Span(m))
  <2>1. a \in Nat
    BY <1>3
  <2> QED
    BY <2>1, <1>4, FirstOfBlock
<1>9. NetworkOf(m) \div Span(n) = a \div Span(n)
  BY <1>5, <1>7, <1>8
<1> QED
  BY <1>9 DEF InNet

LEMMA ApartWhenNotOverlapping ==
  ASSUME NEW n \in Networks, NEW m \in Networks, ~Overlap(n, m)
  PROVE  Block(n) \cap Block(m) = {}
<1>1. n[3] \in Int /\ m[3] \in Int
  BY ConfigAssumption DEF Networks
<1>2. n[3] <= m[3] \/ m[3] <= n[3]
  BY <1>1
<1> QED
  BY <1>2, LargerHoldsFirst DEF Block, Overlap
-----------------------------------------------------------------------------
(* Sequences in the order of what they are taken from.                     *)

LEMMA InOrderEmpty == ASSUME NEW f PROVE InOrder(<< >>, f, {})
BY FS_EmptySet DEF InOrder

LEMMA InOrderExtends ==
  ASSUME NEW V, NEW s \in Seq(V), NEW v \in V, NEW f, NEW n \in Nat, NEW S \in SUBSET (1 .. n),
         InOrder(s, f, S), f[n + 1] = v
  PROVE  InOrder(Append(s, v), f, S \cup {n + 1})
<1> DEFINE T == S \cup {n + 1}
           t == Append(s, v)
<1>0. n \in Int /\ 1 \in Int
  OBVIOUS
<1>1. IsFiniteSet(S)
  BY <1>0, FS_Interval, FS_Subset
<1>2. Cardinality(S) \in Nat /\ Cardinality(T) = Cardinality(S) + 1
  BY <1>1, FS_AddElement, FS_CardinalityType
<1>3. Len(s) = Cardinality(S) /\ Len(t) = Cardinality(T)
  BY <1>2 DEF InOrder
<1>4. ASSUME NEW i \in S PROVE t[Cardinality({j \in T : j <= i})] = f[i]
  <2> DEFINE R == {j \in S : j <= i}
  <2>1. {j \in T : j <= i} = R
    OBVIOUS
  <2>2. IsFiniteSet(R) /\ Cardinality(R) \in Nat /\ Cardinality(R) <= Cardinality(S)
    BY <1>1, FS_Subset, FS_CardinalityType
  <2>3. Cardinality(R) # 0
    <3>1. i \in R
      OBVIOUS
    <3> HIDE DEF R
    <3> QED
      BY <3>1, <2>2, FS_EmptySet
  <2>4. s[Cardinality(R)] = f[i]
    BY DEF InOrder
  <2> HIDE DEF R, T
  <2>5. t[Cardinality(R)] = s[Cardinality(R)]
    BY <2>2, <2>3, <1>2, <1>3
  <2> QED
    BY <2>1, <2>4, <2>5
<1>5. t[Cardinality({j \in T : j <= n + 1})] = f[n + 1]
  <2>1. \A j \in T : j <= n + 1
    OBVIOUS
  <2> HIDE DEF T
  <2>2. {j \in T : j <= n + 1} = T
    BY <2>1
  <2>3. t[Cardinality(T)] = v
    BY <1>2, <1>3
  <2> QED
    BY <2>2, <2>3
<1>6. \A i \in T : i \in S \/ i = n + 1
  OBVIOUS
<1> HIDE DEF t, T
<1>7. InOrder(t, f, T)
  BY <1>3, <1>4, <1>5, <1>6 DEF InOrder
<1> QED
  BY <1>7 DEF t, T

-----------------------------------------------------------------------------
(* The configuration file.                                                 *)

IsFile(f) ==
  /\ f \in Seq(Range(f))
  /\ \A i \in DOMAIN f : f[i].kind \in {"open", "set", "item", "junk"}

Vals(f) == {f[i].val : i \in DOMAIN f}
Configs(f) ==
  {c \in [Lists \cup Settings -> Seq(Vals(f)) \cup Vals(f) \cup Range(DefaultConfig)] :
     \A k \in Lists : c[k] \in Seq(Vals(f))}
Sections(f) == {""} \cup {f[i].key : i \in DOMAIN f}
Readings(f) == [cfg : Configs(f), section : Sections(f), errs : Nat]

LEMMA FileIsSeq ==
  ASSUME NEW f, f \in Seq(Range(f))
  PROVE  Len(f) \in Nat /\ DOMAIN f = 1 .. Len(f)
OBVIOUS

LEMMA KeysApart == Lists \cap Settings = {} /\ "" \notin Lists /\ "" \notin Settings
BY DEF Lists, Settings, Switches

LEMMA UnreadType == ASSUME NEW f PROVE Unread \in Readings(f)
<1>1. \A k \in Lists : DefaultConfig[k] = << >>
  BY DEF DefaultConfig, Lists, Switches
<1>2. DefaultConfig \in Configs(f)
  <2>1. DOMAIN DefaultConfig = Lists \cup Settings
    BY DEF DefaultConfig
  <2>2. DefaultConfig = [k \in Lists \cup Settings |-> DefaultConfig[k]]
    BY DEF DefaultConfig
  <2>3. \A k \in Lists \cup Settings : DefaultConfig[k] \in Range(DefaultConfig)
    BY <2>1 DEF Range
  <2>4. << >> \in Seq(Vals(f))
    OBVIOUS
  <2> QED
    BY <1>1, <2>2, <2>3, <2>4 DEF Configs
<1> QED
  BY <1>2 DEF Unread, Readings, Sections

LEMMA ReadLineType ==
  ASSUME NEW f, IsFile(f), NEW s \in Readings(f), NEW i \in DOMAIN f
  PROVE  ReadLine(s, f[i]) \in Readings(f)
<1> DEFINE l == f[i]
<1>1. ASSUME NEW t \in Readings(f) PROVE Refuse(t) \in Readings(f)
  <2>1. t.errs \in Nat /\ t.errs + 1 \in Nat
    BY DEF Readings
  <2>2. Refuse(t) = [t EXCEPT !.errs = t.errs + 1]
    BY DEF Refuse, Readings
  <2> QED
    BY <2>1, <2>2 DEF Readings
<1>2. ReadItem(s, l) \in Readings(f)
  <2>1. CASE s.section \notin Lists \/ (s.section = "disks" /\ NoPath(l))
    BY <2>1, <1>1 DEF ReadItem
  <2>2. CASE ~(s.section \notin Lists \/ (s.section = "disks" /\ NoPath(l)))
    <3> DEFINE k == s.section
               c == [s.cfg EXCEPT ![k] = Append(@, l.val)]
    <3>1. k \in Lists /\ s.cfg \in Configs(f) /\ s.cfg[k] \in Seq(Vals(f)) /\ l.val \in Vals(f)
      BY <2>2 DEF Readings, Configs, Vals
    <3>2. Append(s.cfg[k], l.val) \in Seq(Vals(f))
      BY <3>1
    <3>3. c \in Configs(f)
      BY <3>1, <3>2 DEF Configs
    <3>4. ReadItem(s, l) = [s EXCEPT !.cfg = c]
      BY <2>2 DEF ReadItem
    <3> QED
      BY <3>3, <3>4 DEF Readings
  <2> QED
    BY <2>1, <2>2
<1>3. ASSUME NEW t \in Readings(f) PROVE ReadSetting(t, l) \in Readings(f)
  <2>1. CASE l.key \notin Settings \/ Unreadable(l)
    BY <2>1, <1>1 DEF ReadSetting
  <2>2. CASE ~(l.key \notin Settings \/ Unreadable(l))
    <3> DEFINE c == [t.cfg EXCEPT ![l.key] = l.val]
    <3>1. l.key \in Settings /\ l.key \notin Lists /\ t.cfg \in Configs(f) /\ l.val \in Vals(f)
      BY <2>2, <1>3, KeysApart DEF Readings, Vals
    <3>2. c \in Configs(f)
      BY <3>1 DEF Configs
    <3>3. ReadSetting(t, l) = [t EXCEPT !.cfg = c]
      BY <2>2 DEF ReadSetting
    <3> QED
      BY <1>3, <3>2, <3>3 DEF Readings
  <2> QED
    BY <2>1, <2>2
<1>4. [s EXCEPT !.section = l.key] \in Readings(f) /\ [s EXCEPT !.section = ""] \in Readings(f)
  <2>1. l.key \in Sections(f) /\ "" \in Sections(f)
    BY DEF Sections
  <2> QED
    BY <2>1 DEF Readings
<1>5. l.kind \in {"open", "set", "item", "junk"}
  BY DEF IsFile
<1> QED
  BY <1>1, <1>2, <1>3, <1>4, <1>5 DEF ReadLine

\* LoadConfig is what has been read after the last line.
LEMMA LoadConfigSteps ==
  ASSUME NEW f, IsFile(f)
  PROVE  \E upto \in [0 .. Len(f) -> Readings(f)] :
           /\ upto[0] = Unread
           /\ \A k \in 1 .. Len(f) : upto[k] = ReadLine(upto[k - 1], f[k])
           /\ LoadConfig(f) = upto[Len(f)]
<1> DEFINE T == Readings(f)
           N == Len(f)
           step == [k \in Nat |-> [s \in T |-> IF k \in 1 .. N THEN ReadLine(s, f[k]) ELSE s]]
           Solves(g) == g = [n \in 0 .. N |-> IF n = 0 THEN Unread ELSE ReadLine(g[n - 1], f[n])]
           upto == CHOOSE g : Solves(g)
<1>0. N \in Nat /\ DOMAIN f = 1 .. N
  BY FileIsSeq DEF IsFile
<1>1. Unread \in T
  BY UnreadType
<1>2. step \in [Nat -> [T -> T]]
  <2>1. ASSUME NEW k \in Nat, NEW s \in T
        PROVE  (IF k \in 1 .. N THEN ReadLine(s, f[k]) ELSE s) \in T
    BY <1>0, ReadLineType
  <2> HIDE DEF T, N
  <2> QED
    BY <2>1
<1> HIDE DEF T, N
<1>3. ASSUME NEW k \in 1 .. N, NEW s \in T PROVE step[k][s] = ReadLine(s, f[k])
  BY <1>0
<1> HIDE DEF step
<1>4. PICK h \in [0 .. N -> T] : StepByStep(h, N, Unread, step)
  BY <1>0, <1>1, <1>2, StepsExist
<1>5. Solves(h)
  <2>1. ASSUME NEW k \in 0 .. N PROVE h[k] = IF k = 0 THEN Unread ELSE ReadLine(h[k - 1], f[k])
    <3>1. k # 0 => k \in 1 .. N /\ h[k - 1] \in T
      BY <1>0
    <3>2. h[k] = IF k = 0 THEN Unread ELSE step[k][h[k - 1]]
      BY <1>4 DEF StepByStep
    <3> QED
      BY <1>3, <3>1, <3>2
  <2> QED
    BY <1>4, <2>1
<1>6. Solves(upto)
  <2> HIDE DEF Solves
  <2> QED
    BY <1>5
<1>7. LoadConfig(f) = upto[N]
  BY DEF LoadConfig, N
<1> HIDE DEF upto
<1>8. upto[0] = Unread /\ \A k \in 1 .. N : upto[k] = ReadLine(upto[k - 1], f[k])
  BY <1>0, <1>6
<1>9. \A k \in 0 .. N : upto[k] \in T
  <2> DEFINE Good == {m \in Nat : m <= N => upto[m] \in T}
  <2>1. 0 \in Good
    BY <1>1, <1>8
  <2>2. ASSUME NEW m \in Nat, m \in Good PROVE m + 1 \in Good
    <3> SUFFICES ASSUME m + 1 <= N PROVE upto[m + 1] \in T
      OBVIOUS
    <3>1. m + 1 \in 1 .. N /\ m + 1 - 1 = m /\ upto[m] \in T
      BY <2>2, <1>0
    <3> QED
      BY <3>1, <1>8, <1>0, ReadLineType DEF T
  <2>3. Nat \subseteq Good
    <3> HIDE DEF Good
    <3> QED
      BY <2>1, <2>2, InductionOnNaturals
  <2> QED
    BY <2>3, <1>0
<1>10. upto \in [0 .. N -> T]
  BY <1>6, <1>9
<1> QED
  BY <1>7, <1>8, <1>10 DEF T, N

\* The section open before line i.
Opened(f, i, k) ==
  \E j \in 1 .. i - 1 :
    /\ f[j].kind = "open" /\ f[j].key = k
    /\ \A between \in j + 1 .. i - 1 : f[between].kind \notin {"open", "set"}

\* What has been read when m lines have.
SettingRead(f, m, k, v) ==
  \/ Sets(f, k) \cap (1 .. m) = {} /\ v = DefaultConfig[k]
  \/ \E i \in Sets(f, k) \cap (1 .. m) :
       v = f[i].val /\ \A j \in Sets(f, k) \cap (1 .. m) : j <= i
ListRead(f, m, k, v) == InOrder(v, [i \in DOMAIN f |-> f[i].val], Items(f, k) \cap (1 .. m))
ReadSoFar(f, m, s) ==
  /\ \A k \in Lists : s.section = k <=> Opened(f, m + 1, k)
  /\ s.errs = 0 <=> \A i \in 1 .. m : ~Misread(f, i)
  /\ \A k \in Lists : ListRead(f, m, k, s.cfg[k])
  /\ \A k \in Settings : SettingRead(f, m, k, s.cfg[k])

LEMMA OpenedNext ==
  ASSUME NEW f, IsFile(f), NEW m \in Nat, m + 1 \in DOMAIN f, NEW k
  PROVE  Opened(f, m + 2, k) <=>
           CASE f[m + 1].kind = "open" -> f[m + 1].key = k
             [] f[m + 1].kind = "set" -> FALSE
             [] OTHER -> Opened(f, m + 1, k)
<1> DEFINE n == m + 1
<1>0. n \in Nat /\ m + 2 = n + 1 /\ n - 1 = m /\ n + 1 - 1 = n
  OBVIOUS
<1>1. CASE f[n].kind = "open"
  <2>1. ASSUME f[n].key = k PROVE Opened(f, n + 1, k)
    <3>1. n \in 1 .. n + 1 - 1 /\ n + 1 .. n + 1 - 1 = {}
      OBVIOUS
    <3> QED
      BY <1>1, <2>1, <3>1 DEF Opened
  <2>2. ASSUME Opened(f, n + 1, k) PROVE f[n].key = k
    <3>1. PICK j \in 1 .. n :
            /\ f[j].kind = "open" /\ f[j].key = k
            /\ \A between \in j + 1 .. n : f[between].kind \notin {"open", "set"}
      BY <2>2, <1>0 DEF Opened
    <3>2. j = n
      BY <1>1, <3>1
    <3> QED
      BY <3>1, <3>2
  <2> QED
    BY <1>0, <1>1, <2>1, <2>2
<1>2. CASE f[n].kind = "set"
  <2>1. ASSUME Opened(f, n + 1, k) PROVE FALSE
    <3>1. PICK j \in 1 .. n :
            /\ f[j].kind = "open" /\ f[j].key = k
            /\ \A between \in j + 1 .. n : f[between].kind \notin {"open", "set"}
      BY <2>1, <1>0 DEF Opened
    <3>2. j # n /\ n \in j + 1 .. n
      BY <1>2, <3>1
    <3> QED
      BY <1>2, <3>1, <3>2
  <2> QED
    BY <1>0, <1>2, <2>1
<1>3. CASE f[n].kind \notin {"open", "set"}
  <2>1. ASSUME Opened(f, n + 1, k) PROVE Opened(f, n, k)
    <3>1. PICK j \in 1 .. n :
            /\ f[j].kind = "open" /\ f[j].key = k
            /\ \A between \in j + 1 .. n : f[between].kind \notin {"open", "set"}
      BY <2>1, <1>0 DEF Opened
    <3>2. j # n
      BY <1>3, <3>1
    <3>3. j \in 1 .. n - 1 /\ \A between \in j + 1 .. n - 1 : between \in j + 1 .. n
      BY <3>2
    <3> QED
      BY <3>1, <3>3 DEF Opened
  <2>2. ASSUME Opened(f, n, k) PROVE Opened(f, n + 1, k)
    <3>1. PICK j \in 1 .. n - 1 :
            /\ f[j].kind = "open" /\ f[j].key = k
            /\ \A between \in j + 1 .. n - 1 : f[between].kind \notin {"open", "set"}
      BY <2>2 DEF Opened
    <3>2. j \in 1 .. n + 1 - 1
      OBVIOUS
    <3>3. \A between \in j + 1 .. n + 1 - 1 : between = n \/ between \in j + 1 .. n - 1
      OBVIOUS
    <3> QED
      BY <1>3, <3>1, <3>2, <3>3 DEF Opened
  <2> QED
    BY <1>0, <1>3, <2>1, <2>2
<1> QED
  BY <1>1, <1>2, <1>3

LEMMA OneMore ==
  ASSUME NEW S, NEW m \in Nat
  PROVE  S \cap (1 .. m + 1) = IF m + 1 \in S THEN (S \cap (1 .. m)) \cup {m + 1}
                               ELSE S \cap (1 .. m)
<1>1. 1 .. m + 1 = (1 .. m) \cup {m + 1}
  OBVIOUS
<1> QED
  BY <1>1

\* A line that is no readable setting leaves the settings, one that is no readable item the lists.
LEMMA SettingStays ==
  ASSUME NEW f, NEW m \in Nat, NEW k, NEW v, m + 1 \notin Sets(f, k), SettingRead(f, m, k, v)
  PROVE  SettingRead(f, m + 1, k, v)
<1>1. Sets(f, k) \cap (1 .. m + 1) = Sets(f, k) \cap (1 .. m)
  BY OneMore
<1> QED
  BY <1>1 DEF SettingRead

LEMMA ListStays ==
  ASSUME NEW f, NEW m \in Nat, NEW k, NEW v, m + 1 \notin Items(f, k), ListRead(f, m, k, v)
  PROVE  ListRead(f, m + 1, k, v)
<1>1. Items(f, k) \cap (1 .. m + 1) = Items(f, k) \cap (1 .. m)
  BY OneMore
<1> QED
  BY <1>1 DEF ListRead

LEMMA ErrsNext ==
  ASSUME NEW f, NEW m \in Nat, NEW e \in Nat, NEW e2 \in Nat,
         e = 0 <=> \A i \in 1 .. m : ~Misread(f, i),
         e2 = IF Misread(f, m + 1) THEN e + 1 ELSE e
  PROVE  e2 = 0 <=> \A i \in 1 .. m + 1 : ~Misread(f, i)
<1>1. \A i : i \in 1 .. m + 1 <=> i \in 1 .. m \/ i = m + 1
  OBVIOUS
<1>2. e2 = 0 <=> e = 0 /\ ~Misread(f, m + 1)
  OBVIOUS
<1> QED
  BY <1>1, <1>2

LEMMA ReadNext ==
  ASSUME NEW f, IsFile(f), NEW m \in Nat, m + 1 \in DOMAIN f,
         NEW s \in Readings(f), ReadSoFar(f, m, s)
  PROVE  ReadSoFar(f, m + 1, ReadLine(s, f[m + 1]))
<1> DEFINE n == m + 1
           l == f[n]
           t == ReadLine(s, l)
<1> SUFFICES ReadSoFar(f, n, t)
  OBVIOUS
<1>0. /\ n \in Nat /\ s.errs \in Nat /\ s.cfg \in Configs(f) /\ n + 1 = m + 2
      /\ l.kind \in {"open", "set", "item", "junk"}
      /\ t \in Readings(f) /\ t.errs \in Nat
  BY ReadLineType DEF Readings, IsFile
<1>1. /\ \A k \in Lists : s.section = k <=> Opened(f, n, k)
      /\ s.errs = 0 <=> \A i \in 1 .. m : ~Misread(f, i)
      /\ \A k \in Lists : ListRead(f, m, k, s.cfg[k])
      /\ \A k \in Settings : SettingRead(f, m, k, s.cfg[k])
  BY DEF ReadSoFar
<1>2. \A k : Belongs(f, n, k) <=> l.kind = "item" /\ Opened(f, n, k)
  BY DEF Belongs, Opened
<1>3. \A k : n \in Items(f, k) <=> Belongs(f, n, k) /\ ~Misread(f, n)
  BY DEF Items
<1>4. \A k : n \in Sets(f, k) <=> l.kind = "set" /\ l.key = k /\ ~Misread(f, n)
  BY DEF Sets
<1>5. \A k \in Lists : Opened(f, n + 1, k) <=>
           CASE l.kind = "open" -> l.key = k
             [] l.kind = "set" -> FALSE
             [] OTHER -> Opened(f, n, k)
  BY <1>0, OpenedNext
<1> HIDE DEF n, l
<1>6. ASSUME /\ \A k \in Lists : t.section = k <=> Opened(f, n + 1, k)
             /\ t.errs = IF Misread(f, n) THEN s.errs + 1 ELSE s.errs
             /\ \A k \in Lists : ListRead(f, n, k, t.cfg[k])
             /\ \A k \in Settings : SettingRead(f, n, k, t.cfg[k])
      PROVE  ReadSoFar(f, n, t)
  <2> HIDE DEF t
  <2>1. t.errs = 0 <=> \A i \in 1 .. n : ~Misread(f, i)
    BY <1>0, <1>1, <1>6, ErrsNext DEF n
  <2> QED
    BY <1>6, <2>1 DEF ReadSoFar
<1>7. ASSUME t.cfg = s.cfg, \A k : n \notin Items(f, k), \A k : n \notin Sets(f, k)
      PROVE  /\ \A k \in Lists : ListRead(f, n, k, t.cfg[k])
             /\ \A k \in Settings : SettingRead(f, n, k, t.cfg[k])
  <2> HIDE DEF t
  <2> QED
    BY <1>1, <1>7, ListStays, SettingStays DEF n
<1>8. ASSUME Misread(f, n) PROVE \A k : n \notin Items(f, k) /\ n \notin Sets(f, k)
  BY <1>3, <1>4, <1>8
<1>9. /\ Refuse(s).cfg = s.cfg /\ Refuse(s).section = s.section
      /\ Refuse(s).errs = s.errs + 1
  BY DEF Refuse, Readings
<1>10. CASE l.kind = "open"
  <2>1. t = [s EXCEPT !.section = l.key]
    BY <1>10 DEF ReadLine
  <2>2. t.cfg = s.cfg /\ t.section = l.key /\ t.errs = s.errs
    BY <2>1 DEF Readings
  <2>3. ~Misread(f, n) /\ \A k : n \notin Items(f, k) /\ n \notin Sets(f, k)
    BY <1>2, <1>3, <1>4, <1>10 DEF Misread, l
  <2> HIDE DEF t
  <2> QED
    BY <1>5, <1>6, <1>7, <1>10, <2>2, <2>3 DEF t
<1>11. CASE l.kind = "junk"
  <2>1. t = Refuse(s)
    BY <1>11 DEF ReadLine
  <2>2. Misread(f, n)
    BY <1>11 DEF Misread, l
  <2> HIDE DEF t
  <2> QED
    BY <1>1, <1>5, <1>6, <1>7, <1>8, <1>9, <1>11, <2>1, <2>2
<1>12. CASE l.kind = "item"
  <2>1. t = ReadItem(s, l)
    BY <1>12 DEF ReadLine
  <2>2. \A k \in Lists : Belongs(f, n, k) <=> s.section = k
    BY <1>1, <1>2, <1>12
  <2>3. CASE s.section \notin Lists \/ (s.section = "disks" /\ NoPath(l))
    <3>1. t = Refuse(s)
      BY <2>1, <2>3 DEF ReadItem
    <3>2. Misread(f, n)
      <4>1. CASE s.section \notin Lists
        BY <1>12, <2>2, <4>1 DEF Misread, l
      <4>2. CASE s.section = "disks" /\ NoPath(l)
        <5>1. "disks" \in Lists
          BY DEF Lists
        <5> QED
          BY <1>12, <2>2, <4>2, <5>1 DEF Misread, l
      <4> QED
        BY <2>3, <4>1, <4>2
    <3> HIDE DEF t
    <3> QED
      BY <1>1, <1>5, <1>6, <1>7, <1>8, <1>9, <1>12, <3>1, <3>2
  <2>4. CASE ~(s.section \notin Lists \/ (s.section = "disks" /\ NoPath(l)))
    <3> DEFINE k0 == s.section
    <3>1. k0 \in Lists /\ s.cfg[k0] \in Seq(Vals(f)) /\ l.val \in Vals(f)
      BY <1>0, <2>4 DEF Configs, Vals, l, n
    <3>2. /\ t.section = s.section /\ t.errs = s.errs
          /\ t.cfg = [s.cfg EXCEPT ![k0] = Append(@, l.val)]
      BY <2>1, <2>4 DEF ReadItem, Readings
    <3>3. ~Misread(f, n)
      <4>1. "disks" \in Lists
        BY DEF Lists
      <4> QED
        BY <1>12, <2>2, <2>4, <3>1, <4>1 DEF Misread, l
    <3>4. \A k \in Lists : n \in Items(f, k) <=> k = k0
      BY <1>3, <2>2, <3>3
    <3> HIDE DEF t
    <3>5. ASSUME NEW k \in Lists PROVE ListRead(f, n, k, t.cfg[k])
      <4>1. CASE k # k0
        <5>1. t.cfg[k] = s.cfg[k]
          BY <1>0, <3>2, <4>1, <3>5 DEF Configs
        <5> QED
          BY <1>1, <3>4, <4>1, <5>1, <3>5, ListStays DEF n
      <4>2. CASE k = k0
        <5> DEFINE vals == [i \in DOMAIN f |-> f[i].val]
                   S == Items(f, k0) \cap (1 .. m)
        <5>1. t.cfg[k] = Append(s.cfg[k0], l.val)
          BY <1>0, <3>1, <3>2, <4>2 DEF Configs
        <5>2. InOrder(s.cfg[k0], vals, S)
          BY <1>1, <3>1 DEF ListRead
        <5>3. vals[m + 1] = l.val /\ S \in SUBSET (1 .. m)
          BY DEF l, n
        <5>4. Items(f, k0) \cap (1 .. n) = S \cup {m + 1}
          BY <3>1, <3>4, OneMore DEF n
        <5> HIDE DEF vals, S
        <5>5. InOrder(Append(s.cfg[k0], l.val), vals, S \cup {m + 1})
          BY <3>1, <5>2, <5>3, InOrderExtends
        <5> QED
          BY <4>2, <5>1, <5>4, <5>5 DEF ListRead, vals
      <4> QED
        BY <4>1, <4>2
    <3>6. ASSUME NEW k \in Settings PROVE SettingRead(f, n, k, t.cfg[k])
      <4>1. t.cfg[k] = s.cfg[k]
        BY <1>0, <3>1, <3>2, KeysApart, <3>6 DEF Configs
      <4>2. n \notin Sets(f, k)
        BY <1>4, <1>12
      <4> QED
        BY <1>1, <4>1, <4>2, <3>6, SettingStays DEF n
    <3>7. \A k \in Lists : t.section = k <=> Opened(f, n + 1, k)
      BY <1>1, <1>5, <1>12, <3>2
    <3>8. t.errs = IF Misread(f, n) THEN s.errs + 1 ELSE s.errs
      BY <3>2, <3>3
    <3> QED
      BY <1>6, <3>5, <3>6, <3>7, <3>8
  <2> QED
    BY <2>3, <2>4
<1>13. CASE l.kind = "set"
  <2> DEFINE u == [s EXCEPT !.section = ""]
  <2>1. t = ReadSetting(u, l)
    BY <1>13 DEF ReadLine
  <2>2. u.cfg = s.cfg /\ u.section = "" /\ u.errs = s.errs /\ u \in Readings(f)
    BY DEF Readings, Sections
  <2>3. \A k \in Lists : ~Opened(f, n + 1, k)
    BY <1>5, <1>13
  <2>4. Misread(f, n) <=> l.key \notin Settings \/ Unreadable(l)
    BY <1>13 DEF Misread, l
  <2>5. \A k : n \notin Items(f, k)
    BY <1>2, <1>3, <1>13
  <2> HIDE DEF u
  <2>6. CASE l.key \notin Settings \/ Unreadable(l)
    <3>1. t = Refuse(u)
      BY <2>1, <2>6 DEF ReadSetting
    <3>2. t.cfg = s.cfg /\ t.section = "" /\ t.errs = s.errs + 1
      BY <2>2, <3>1 DEF Refuse, Readings
    <3> HIDE DEF t
    <3> QED
      BY <1>6, <1>7, <1>8, <2>3, <2>4, <2>6, <3>2, KeysApart
  <2>7. CASE ~(l.key \notin Settings \/ Unreadable(l))
    <3> DEFINE k0 == l.key
    <3>1. t = [u EXCEPT !.cfg[l.key] = l.val]
      BY <2>1, <2>7 DEF ReadSetting
    <3>2. /\ t.cfg = [s.cfg EXCEPT ![k0] = l.val]
          /\ t.section = "" /\ t.errs = s.errs
      BY <2>2, <3>1 DEF Readings
    <3>3. k0 \in Settings /\ k0 \notin Lists
      BY <2>7, KeysApart
    <3> HIDE DEF t
    <3>4. ASSUME NEW k \in Lists PROVE ListRead(f, n, k, t.cfg[k])
      <4>1. t.cfg[k] = s.cfg[k]
        BY <1>0, <3>2, <3>3, <3>4 DEF Configs
      <4> QED
        BY <1>1, <2>5, <4>1, <3>4, ListStays DEF n
    <3>5. ASSUME NEW k \in Settings PROVE SettingRead(f, n, k, t.cfg[k])
      <4>1. CASE k # k0
        <5>1. t.cfg[k] = s.cfg[k]
          BY <1>0, <3>2, <4>1, <3>5 DEF Configs
        <5>2. n \notin Sets(f, k)
          BY <1>4, <4>1
        <5> QED
          BY <1>1, <5>1, <5>2, <3>5, SettingStays DEF n
      <4>2. CASE k = k0
        <5>1. t.cfg[k] = l.val
          BY <1>0, <3>2, <3>3, <4>2 DEF Configs
        <5>2. n \in Sets(f, k) \cap (1 .. n)
          BY <1>0, <1>4, <1>13, <2>4, <2>7, <4>2 DEF n
        <5>3. \A j \in Sets(f, k) \cap (1 .. n) : j <= n
          BY <1>0
        <5> QED
          BY <5>1, <5>2, <5>3 DEF SettingRead, l
      <4> QED
        BY <4>1, <4>2
    <3>6. \A k \in Lists : t.section = k <=> Opened(f, n + 1, k)
      BY <2>3, <3>2, KeysApart
    <3>7. t.errs = IF Misread(f, n) THEN s.errs + 1 ELSE s.errs
      BY <2>4, <2>7, <3>2
    <3> QED
      BY <1>6, <3>4, <3>5, <3>6, <3>7
  <2> QED
    BY <2>6, <2>7
<1> QED
  BY <1>0, <1>10, <1>11, <1>12, <1>13

\* What the commands read of a configuration file is what it means read as a whole, and they
\* refuse lines exactly when there are some that mean nothing (config.go:LoadConfig).
THEOREM LoadConfigMeans ==
  ASSUME NEW f, IsFile(f)
  PROVE  /\ LoadConfig(f) \in Readings(f)
         /\ \A k \in Lists \cup Settings : Means(f, k, LoadConfig(f).cfg[k])
         /\ LoadConfig(f).errs = 0 <=> \A i \in DOMAIN f : ~Misread(f, i)
<1> DEFINE N == Len(f)
<1>0. N \in Nat /\ DOMAIN f = 1 .. N
  BY FileIsSeq DEF IsFile
<1>1. PICK upto \in [0 .. N -> Readings(f)] :
        /\ upto[0] = Unread
        /\ \A k \in 1 .. N : upto[k] = ReadLine(upto[k - 1], f[k])
        /\ LoadConfig(f) = upto[N]
  BY LoadConfigSteps
<1> HIDE DEF N
<1> DEFINE Good == {m \in Nat : m <= N => ReadSoFar(f, m, upto[m])}
<1>2. ReadSoFar(f, 0, Unread)
  <2>1. \A k : ~Opened(f, 0 + 1, k)
    BY DEF Opened
  <2>2. Unread.section = "" /\ Unread.errs = 0 /\ Unread.cfg = DefaultConfig
    BY DEF Unread
  <2>3. 1 .. 0 = {}
    OBVIOUS
  <2>4. ASSUME NEW k \in Lists PROVE ListRead(f, 0, k, DefaultConfig[k])
    <3>1. DefaultConfig[k] = << >> /\ Items(f, k) \cap (1 .. 0) = {}
      BY <2>3, <2>4 DEF DefaultConfig, Lists, Switches
    <3> QED
      BY <3>1, InOrderEmpty DEF ListRead
  <2>5. \A k \in Settings : SettingRead(f, 0, k, DefaultConfig[k])
    BY <2>3 DEF SettingRead
  <2> QED
    BY <2>1, <2>2, <2>3, <2>4, <2>5, KeysApart DEF ReadSoFar
<1>3. 0 \in Good
  BY <1>1, <1>2
<1>4. ASSUME NEW m \in Nat, m \in Good PROVE m + 1 \in Good
  <2> SUFFICES ASSUME m + 1 <= N PROVE ReadSoFar(f, m + 1, upto[m + 1])
    OBVIOUS
  <2>1. /\ m + 1 \in 1 .. N /\ m + 1 - 1 = m /\ m \in 0 .. N /\ m + 1 \in DOMAIN f
        /\ ReadSoFar(f, m, upto[m])
    BY <1>0, <1>4
  <2>2. upto[m + 1] = ReadLine(upto[m], f[m + 1]) /\ upto[m] \in Readings(f)
    BY <1>1, <2>1
  <2> QED
    BY <2>1, <2>2, ReadNext
<1>5. Nat \subseteq Good
  <2> HIDE DEF Good
  <2> QED
    BY <1>3, <1>4, InductionOnNaturals
<1>6. ReadSoFar(f, N, LoadConfig(f)) /\ LoadConfig(f) \in Readings(f)
  BY <1>0, <1>1, <1>5
<1>7. \A k : Items(f, k) \cap (1 .. N) = Items(f, k) /\ Sets(f, k) \cap (1 .. N) = Sets(f, k)
  BY <1>0 DEF Items, Sets
<1>8. ASSUME NEW k \in Lists PROVE Means(f, k, LoadConfig(f).cfg[k])
  BY <1>6, <1>7, <1>8 DEF ReadSoFar, ListRead, Means
<1>9. ASSUME NEW k \in Settings PROVE Means(f, k, LoadConfig(f).cfg[k])
  <2>1. k \notin Lists
    BY <1>9, KeysApart
  <2>2. SettingRead(f, N, k, LoadConfig(f).cfg[k])
    BY <1>6, <1>9 DEF ReadSoFar
  <2> QED
    BY <1>7, <2>1, <2>2 DEF SettingRead, Means
<1>10. LoadConfig(f).errs = 0 <=> \A i \in DOMAIN f : ~Misread(f, i)
  BY <1>0, <1>6 DEF ReadSoFar
<1> QED
  BY <1>6, <1>8, <1>9, <1>10

-----------------------------------------------------------------------------
(* The WireGuard file.                                                     *)

Telling(w) == {i \in DOMAIN w : w[i].key \in Told /\ w[i].val = "ok"}
Writings(w) ==
  [text : Seq(Range(w) \cup {Garbage}), open : BOOLEAN, inPeer : BOOLEAN, failed : BOOLEAN]

LEMMA ConvertLineType ==
  ASSUME NEW w, NEW i \in DOMAIN w, NEW s \in Writings(w)
  PROVE  ConvertLine(s, w[i]) \in Writings(w)
<1> DEFINE l == w[i]
           V == Range(w) \cup {Garbage}
<1>1. l \in V /\ Garbage \in V
  BY DEF Range
<1>2. s.text \in Seq(V) /\ Append(s.text, Garbage) \in Seq(V) /\ Append(s.text, l) \in Seq(V)
  BY <1>1 DEF Writings
<1> HIDE DEF l
<1>3. ASSUME NEW x \in Seq(V), NEW o \in BOOLEAN, NEW pr \in BOOLEAN, NEW fl \in BOOLEAN
      PROVE  [text |-> x, open |-> o, inPeer |-> pr, failed |-> fl] \in Writings(w)
  BY DEF Writings
<1>4. s = [text |-> s.text, open |-> s.open, inPeer |-> s.inPeer, failed |-> s.failed]
  BY DEF Writings
<1>5. s.open \in BOOLEAN /\ s.inPeer \in BOOLEAN /\ s.failed \in BOOLEAN
  BY DEF Writings
<1> HIDE DEF V
<1>6. [s EXCEPT !.failed = TRUE] \in Writings(w)
  BY <1>2, <1>5 DEF Writings, V
<1>7. ASSUME NEW x \in Seq(V), NEW o \in BOOLEAN PROVE [s EXCEPT !.text = x, !.open = o] \in Writings(w)
  BY <1>5 DEF Writings, V
<1>8. ASSUME NEW x \in Seq(V), NEW o \in BOOLEAN
      PROVE  [s EXCEPT !.text = x, !.open = o, !.inPeer = TRUE] \in Writings(w)
  BY <1>5 DEF Writings, V
<1>9. Emit(s, l) \in Writings(w)
  <2>1. Emit(s, l) = [s EXCEPT !.text = Append(s.text, IF s.open THEN Garbage ELSE l), !.open = FALSE]
    BY DEF Emit, Writings
  <2>2. Append(s.text, IF s.open THEN Garbage ELSE l) \in Seq(V)
    BY <1>2
  <2> QED
    BY <1>7, <2>1, <2>2
<1>10. [s EXCEPT !.text = IF s.open THEN Append(@, Garbage) ELSE @,
                 !.open = ~s.open, !.inPeer = TRUE] \in Writings(w)
  <2>1. (IF s.open THEN Append(s.text, Garbage) ELSE s.text) \in Seq(V) /\ (~s.open) \in BOOLEAN
    BY <1>2
  <2> QED
    BY <1>8, <2>1
<1>11. [s EXCEPT !.text = Append(@, IF s.open THEN l ELSE Garbage), !.open = FALSE] \in Writings(w)
  <2>1. Append(s.text, IF s.open THEN l ELSE Garbage) \in Seq(V)
    BY <1>2
  <2> QED
    BY <1>7, <2>1
<1> QED
  BY <1>6, <1>9, <1>10, <1>11 DEF ConvertLine, l

\* uapiFromConfig's text is what has been written after the last line.
LEMMA UapiSteps ==
  ASSUME NEW w, w \in Seq(Range(w))
  PROVE  \E upto \in [0 .. Len(w) -> Writings(w)] :
           /\ upto[0] = Untold
           /\ \A k \in 1 .. Len(w) : upto[k] = ConvertLine(upto[k - 1], w[k])
           /\ Uapi(w) = upto[Len(w)]
<1> DEFINE T == Writings(w)
           N == Len(w)
           step == [k \in Nat |-> [s \in T |-> IF k \in 1 .. N THEN ConvertLine(s, w[k]) ELSE s]]
           Solves(g) == g = [n \in 0 .. N |-> IF n = 0 THEN Untold ELSE ConvertLine(g[n - 1], w[n])]
           upto == CHOOSE g : Solves(g)
<1>0. N \in Nat /\ DOMAIN w = 1 .. N
  BY FileIsSeq
<1>1. Untold \in T
  BY DEF Untold, Writings
<1>2. step \in [Nat -> [T -> T]]
  <2>1. ASSUME NEW k \in Nat, NEW s \in T
        PROVE  (IF k \in 1 .. N THEN ConvertLine(s, w[k]) ELSE s) \in T
    BY <1>0, ConvertLineType
  <2> HIDE DEF T, N
  <2> QED
    BY <2>1
<1> HIDE DEF T, N
<1>3. ASSUME NEW k \in 1 .. N, NEW s \in T PROVE step[k][s] = ConvertLine(s, w[k])
  BY <1>0
<1> HIDE DEF step
<1>4. PICK h \in [0 .. N -> T] : StepByStep(h, N, Untold, step)
  BY <1>0, <1>1, <1>2, StepsExist
<1>5. Solves(h)
  <2>1. ASSUME NEW k \in 0 .. N PROVE h[k] = IF k = 0 THEN Untold ELSE ConvertLine(h[k - 1], w[k])
    <3>1. k # 0 => k \in 1 .. N /\ h[k - 1] \in T
      BY <1>0
    <3>2. h[k] = IF k = 0 THEN Untold ELSE step[k][h[k - 1]]
      BY <1>4 DEF StepByStep
    <3> QED
      BY <1>3, <3>1, <3>2
  <2> QED
    BY <1>4, <2>1
<1>6. Solves(upto)
  <2> HIDE DEF Solves
  <2> QED
    BY <1>5
<1>7. Uapi(w) = upto[N]
  BY DEF Uapi, N
<1> HIDE DEF upto
<1>8. upto[0] = Untold /\ \A k \in 1 .. N : upto[k] = ConvertLine(upto[k - 1], w[k])
  BY <1>0, <1>6
<1>9. \A k \in 0 .. N : upto[k] \in T
  <2> DEFINE Good == {m \in Nat : m <= N => upto[m] \in T}
  <2>1. 0 \in Good
    BY <1>1, <1>8
  <2>2. ASSUME NEW m \in Nat, m \in Good PROVE m + 1 \in Good
    <3> SUFFICES ASSUME m + 1 <= N PROVE upto[m + 1] \in T
      OBVIOUS
    <3>1. m + 1 \in 1 .. N /\ m + 1 - 1 = m /\ upto[m] \in T
      BY <2>2, <1>0
    <3>2. upto[m + 1] = ConvertLine(upto[m], w[m + 1])
      BY <3>1, <1>8
    <3>3. m + 1 \in DOMAIN w
      BY <3>1, <1>0
    <3> QED
      BY <3>1, <3>2, <3>3, ConvertLineType DEF T
  <2>3. Nat \subseteq Good
    <3> HIDE DEF Good
    <3> QED
      BY <2>1, <2>2, InductionOnNaturals
  <2> QED
    BY <2>3, <1>0
<1>10. upto \in [0 .. N -> T]
  BY <1>6, <1>9
<1> QED
  BY <1>7, <1>8, <1>10 DEF T, N

\* What has been written of a well-formed file when m lines have been converted.
ToldSoFar(w, m, s) ==
  /\ ~s.failed
  /\ s.open <=> m # 0 /\ w[m].key = "[Peer]"
  /\ s.inPeer <=> \E i \in 1 .. m : w[i].key = "[Peer]"
  /\ s.text \in Seq({w[i] : i \in Telling(w)})
  /\ InOrder(s.text, w, Telling(w) \cap (1 .. m))
  /\ (\E i \in 1 .. m : w[i].key = "PublicKey") => \E j \in DOMAIN s.text : s.text[j].key = "PublicKey"
  /\ \A i \in DOMAIN s.text :
       s.text[i].key \in PeerKeys => \E j \in 1 .. i - 1 : s.text[j].key = "PublicKey"

LEMMA ToldAppends ==
  ASSUME NEW w, NEW m \in Nat, NEW V, NEW s \in Seq(V), m + 1 \in Telling(w), V = {w[i] : i \in Telling(w)},
         InOrder(s, w, Telling(w) \cap (1 .. m))
  PROVE  /\ Append(s, w[m + 1]) \in Seq(V)
         /\ InOrder(Append(s, w[m + 1]), w, Telling(w) \cap (1 .. m + 1))
<1> DEFINE S == Telling(w) \cap (1 .. m)
<1>1. w[m + 1] \in V /\ S \in SUBSET (1 .. m)
  OBVIOUS
<1>2. Telling(w) \cap (1 .. m + 1) = S \cup {m + 1}
  BY OneMore
<1> HIDE DEF S
<1>3. InOrder(Append(s, w[m + 1]), w, S \cup {m + 1})
  BY <1>1, InOrderExtends DEF S
<1>4. Append(s, w[m + 1]) \in Seq(V)
  BY <1>1
<1> QED
  BY <1>2, <1>3, <1>4

LEMMA ConvertNext ==
  ASSUME NEW w, w \in Seq(Range(w)), WellFormed(w), NEW m \in Nat, m + 1 \in DOMAIN w,
         NEW s \in Writings(w), ToldSoFar(w, m, s)
  PROVE  ToldSoFar(w, m + 1, ConvertLine(s, w[m + 1]))
<1> DEFINE n == m + 1
           l == w[n]
           t == ConvertLine(s, l)
           V == {w[i] : i \in Telling(w)}
<1> SUFFICES ToldSoFar(w, n, t)
  OBVIOUS
<1>0. /\ Len(w) \in Nat /\ DOMAIN w = 1 .. Len(w) /\ n \in Nat /\ n # 0
      /\ \A i \in 1 .. n : i \in 1 .. m \/ i = n
      /\ \A i \in 1 .. m : i \in 1 .. n
      /\ n \in 1 .. n
  BY FileIsSeq
<1>1. /\ ~s.failed
      /\ s.open <=> m # 0 /\ w[m].key = "[Peer]"
      /\ s.inPeer <=> \E i \in 1 .. m : w[i].key = "[Peer]"
      /\ s.text \in Seq(V)
      /\ InOrder(s.text, w, Telling(w) \cap (1 .. m))
      /\ (\E i \in 1 .. m : w[i].key = "PublicKey") => \E j \in DOMAIN s.text : s.text[j].key = "PublicKey"
      /\ \A i \in DOMAIN s.text :
           s.text[i].key \in PeerKeys => \E j \in 1 .. i - 1 : s.text[j].key = "PublicKey"
  BY DEF ToldSoFar
<1>2. l.key \in Essential => l.val = "ok"
  BY DEF WellFormed
<1>3. s.open => l.key = "PublicKey"
  <2>1. s.open => m \in DOMAIN w
    BY <1>0, <1>1
  <2> QED
    BY <1>1, <2>1 DEF WellFormed
<1>4. l.key = "PublicKey" => s.open /\ l.val = "ok"
  <2>1. l.key = "PublicKey" => n > 1 /\ w[n - 1].key = "[Peer]" /\ n - 1 = m
    BY DEF WellFormed
  <2>2. "PublicKey" \in Essential
    BY DEF Essential
  <2> QED
    BY <1>1, <1>2, <2>1, <2>2
<1>5. n \in Telling(w) <=> l.key \in Told /\ l.val = "ok"
  BY DEF Telling
<1>6. n \notin Telling(w) => Telling(w) \cap (1 .. n) = Telling(w) \cap (1 .. m)
  BY OneMore
<1>7. n \in Telling(w) => /\ Append(s.text, l) \in Seq(V)
                          /\ InOrder(Append(s.text, l), w, Telling(w) \cap (1 .. n))
  BY <1>1, ToldAppends
<1>8. /\ "[Peer]" \notin Told /\ "[Peer]" \notin Essential
      /\ Told = {"PublicKey"} \cup InterfaceKeys \cup PeerKeys
      /\ "[Peer]" \notin InterfaceKeys \cup PeerKeys
      /\ "PublicKey" \notin InterfaceKeys \cup PeerKeys
  BY DEF Told, Essential, InterfaceKeys, PeerKeys
<1>9. l.key \in PeerKeys => \E i \in 1 .. m : w[i].key = "PublicKey"
  <2> SUFFICES ASSUME l.key \in PeerKeys PROVE \E i \in 1 .. m : w[i].key = "PublicKey"
    OBVIOUS
  <2>1. PICK j \in 1 .. n - 1 : w[j].key = "[Peer]"
    BY DEF WellFormed
  <2>2. j \in DOMAIN w /\ j + 1 \in 1 .. n
    BY <1>0, <2>1
  <2>3. w[j + 1].key = "PublicKey"
    BY <2>1, <2>2 DEF WellFormed
  <2>4. j + 1 # n
    BY <2>3, <1>8
  <2> QED
    BY <2>2, <2>3, <2>4
<1>10. ASSUME t.failed = FALSE, t.open = FALSE, t.inPeer = s.inPeer, t.text = Append(s.text, l),
              n \in Telling(w)
       PROVE  ToldSoFar(w, n, t)
  <2> HIDE DEF t
  <2>1. l.key # "[Peer]"
    BY <1>5, <1>8, <1>10
  <2>2. t.inPeer <=> \E i \in 1 .. n : w[i].key = "[Peer]"
    BY <1>0, <1>1, <1>10, <2>1
  <2>3. /\ DOMAIN t.text = 1 .. Len(s.text) + 1 /\ Len(s.text) \in Nat
        /\ DOMAIN s.text = 1 .. Len(s.text)
        /\ \A i \in 1 .. Len(s.text) : t.text[i] = s.text[i]
        /\ t.text[Len(s.text) + 1] = l
    BY <1>1, <1>10
  <2>4. (\E i \in 1 .. n : w[i].key = "PublicKey") => \E j \in DOMAIN t.text : t.text[j].key = "PublicKey"
    <3>1. CASE \E i \in 1 .. m : w[i].key = "PublicKey"
      <4>1. PICK j \in DOMAIN s.text : s.text[j].key = "PublicKey"
        BY <1>1, <3>1
      <4>2. j \in DOMAIN t.text /\ t.text[j] = s.text[j]
        BY <2>3
      <4> QED
        BY <4>1, <4>2
    <3>2. CASE l.key = "PublicKey"
      BY <2>3, <3>2
    <3> QED
      BY <1>0, <3>1, <3>2
  <2>5. ASSUME NEW i \in DOMAIN t.text, t.text[i].key \in PeerKeys
        PROVE  \E j \in 1 .. i - 1 : t.text[j].key = "PublicKey"
    <3>1. CASE i = Len(s.text) + 1
      <4>1. PICK j \in DOMAIN s.text : s.text[j].key = "PublicKey"
        BY <1>1, <1>9, <2>3, <2>5, <3>1
      <4>2. j \in 1 .. i - 1
        BY <2>3, <3>1
      <4> QED
        BY <2>3, <4>1, <4>2
    <3>2. CASE i \in DOMAIN s.text
      <4>1. PICK j \in 1 .. i - 1 : s.text[j].key = "PublicKey"
        BY <1>1, <2>3, <2>5, <3>2
      <4>2. j \in 1 .. Len(s.text)
        BY <2>3, <3>2
      <4> QED
        BY <2>3, <4>1, <4>2
    <3> QED
      BY <2>3, <3>1, <3>2
  <2>6. t.text \in Seq(V) /\ InOrder(t.text, w, Telling(w) \cap (1 .. n))
    BY <1>7, <1>10
  <2> HIDE DEF V
  <2> QED
    BY <1>0, <1>10, <2>1, <2>2, <2>4, <2>5, <2>6 DEF ToldSoFar, l, V
<1>11. CASE l.key = "[Peer]"
  <2>1. ~s.open /\ n \notin Telling(w)
    BY <1>3, <1>5, <1>8, <1>11
  <2>2. /\ t.text = s.text /\ t.open = TRUE /\ t.inPeer = TRUE /\ t.failed = FALSE
    BY <1>1, <1>8, <1>11, <2>1 DEF ConvertLine, Writings
  <2> HIDE DEF t
  <2>3. Telling(w) \cap (1 .. n) = Telling(w) \cap (1 .. m)
    BY <1>6, <2>1
  <2>4. (\E i \in 1 .. n : w[i].key = "PublicKey") => \E j \in DOMAIN t.text : t.text[j].key = "PublicKey"
    BY <1>0, <1>1, <1>11, <2>2
  <2>5. t.inPeer <=> \E i \in 1 .. n : w[i].key = "[Peer]"
    BY <1>0, <1>11, <2>2
  <2> HIDE DEF V
  <2> QED
    BY <1>0, <1>1, <1>11, <2>2, <2>3, <2>4, <2>5 DEF ToldSoFar, l, V
<1>12. CASE l.key = "PublicKey"
  <2>1. s.open /\ n \in Telling(w) /\ l.val = "ok"
    BY <1>4, <1>5, <1>8, <1>12
  <2>2. t = [s EXCEPT !.text = Append(@, IF s.open THEN l ELSE Garbage), !.open = FALSE]
    <3> HIDE DEF l
    <3>1. /\ ~(s.failed \/ (l.key \in Essential /\ l.val # "ok"))
          /\ ~(~s.failed /\ l.key = "[Peer]")
          /\ ~s.failed /\ l.key = "PublicKey" /\ l.val = "ok"
          /\ ~(~s.failed /\ l.key \in InterfaceKeys \cup PeerKeys /\ l.val = "ok")
      BY <1>1, <1>2, <1>8, <1>12, <2>1
    <3> QED
      BY <3>1, ZenonT(30) DEF ConvertLine
  <2>3. t.text = Append(s.text, l) /\ t.open = FALSE /\ t.inPeer = s.inPeer /\ t.failed = FALSE
    BY <1>1, <2>1, <2>2 DEF Writings
  <2> QED
    BY <1>10, <2>1, <2>3
<1>13. CASE l.key \in InterfaceKeys \cup PeerKeys /\ l.val = "ok"
  <2>1. ~s.open /\ n \in Telling(w) /\ l.key # "[Peer]" /\ l.key # "PublicKey"
    BY <1>3, <1>5, <1>8, <1>13
  <2>2. t = Emit(s, l)
    BY <1>1, <1>2, <1>13, <2>1 DEF ConvertLine
  <2>3. t.text = Append(s.text, l) /\ t.open = FALSE /\ t.inPeer = s.inPeer /\ t.failed = FALSE
    BY <1>1, <2>1, <2>2 DEF Emit, Writings
  <2> QED
    BY <1>10, <2>1, <2>3
<1>14. CASE /\ l.key # "[Peer]" /\ l.key # "PublicKey"
            /\ ~(l.key \in InterfaceKeys \cup PeerKeys /\ l.val = "ok")
  <2>1. ~s.open /\ n \notin Telling(w)
    BY <1>3, <1>5, <1>8, <1>14
  <2>2. t = s
    BY <1>1, <1>2, <1>14 DEF ConvertLine
  <2> HIDE DEF t
  <2>3. Telling(w) \cap (1 .. n) = Telling(w) \cap (1 .. m)
    BY <1>6, <2>1
  <2>4. (\E i \in 1 .. n : w[i].key = "PublicKey") => \E j \in DOMAIN t.text : t.text[j].key = "PublicKey"
    BY <1>0, <1>1, <1>14, <2>2
  <2>5. t.inPeer <=> \E i \in 1 .. n : w[i].key = "[Peer]"
    BY <1>0, <1>1, <1>14, <2>2
  <2> HIDE DEF V
  <2> QED
    BY <1>0, <1>1, <1>14, <2>1, <2>2, <2>3, <2>4, <2>5 DEF ToldSoFar, l, V
<1> QED
  BY <1>11, <1>12, <1>13, <1>14

\* wireguard-go takes what uapiFromConfig makes of a well-formed file, and it is told the file
\* line by line (userspace.go:uapiFromConfig).
THEOREM UapiTells ==
  ASSUME NEW w, w \in Seq(Range(w)), WellFormed(w)
  PROVE  UapiTaken(Uapi(w)) /\ InOrder(Uapi(w).text, w, Telling(w))
<1> DEFINE N == Len(w)
<1>0. N \in Nat /\ DOMAIN w = 1 .. N
  BY FileIsSeq
<1>1. PICK upto \in [0 .. N -> Writings(w)] :
        /\ upto[0] = Untold
        /\ \A k \in 1 .. N : upto[k] = ConvertLine(upto[k - 1], w[k])
        /\ Uapi(w) = upto[N]
  BY UapiSteps
<1> HIDE DEF N
<1> DEFINE Good == {m \in Nat : m <= N => ToldSoFar(w, m, upto[m])}
<1>2. ToldSoFar(w, 0, Untold)
  <2>1. /\ Untold.text = << >> /\ Untold.open = FALSE /\ Untold.inPeer = FALSE
        /\ Untold.failed = FALSE
    BY DEF Untold
  <2>2. Telling(w) \cap (1 .. 0) = {} /\ 1 .. 0 = {} /\ DOMAIN << >> = {}
    OBVIOUS
  <2>3. << >> \in Seq({w[i] : i \in Telling(w)})
    OBVIOUS
  <2> QED
    BY <2>1, <2>2, <2>3, InOrderEmpty DEF ToldSoFar
<1>3. 0 \in Good
  BY <1>1, <1>2
<1>4. ASSUME NEW m \in Nat, m \in Good PROVE m + 1 \in Good
  <2> SUFFICES ASSUME m + 1 <= N PROVE ToldSoFar(w, m + 1, upto[m + 1])
    OBVIOUS
  <2>1. /\ m + 1 \in 1 .. N /\ m + 1 - 1 = m /\ m \in 0 .. N /\ m + 1 \in DOMAIN w
        /\ ToldSoFar(w, m, upto[m])
    BY <1>0, <1>4
  <2>2. upto[m + 1] = ConvertLine(upto[m], w[m + 1]) /\ upto[m] \in Writings(w)
    BY <1>1, <2>1
  <2> QED
    BY <2>1, <2>2, ConvertNext
<1>5. Nat \subseteq Good
  <2> HIDE DEF Good
  <2> QED
    BY <1>3, <1>4, InductionOnNaturals
<1> DEFINE u == Uapi(w)
<1>6. ToldSoFar(w, N, u)
  BY <1>0, <1>1, <1>5
<1> HIDE DEF u
<1>7. /\ ~u.failed
      /\ u.open <=> N # 0 /\ w[N].key = "[Peer]"
      /\ u.inPeer <=> \E i \in 1 .. N : w[i].key = "[Peer]"
      /\ u.text \in Seq({w[i] : i \in Telling(w)})
      /\ InOrder(u.text, w, Telling(w) \cap (1 .. N))
      /\ \A i \in DOMAIN u.text :
           u.text[i].key \in PeerKeys => \E j \in 1 .. i - 1 : u.text[j].key = "PublicKey"
  BY <1>6 DEF ToldSoFar
<1>8. ~u.open
  <2>1. N # 0 => N \in DOMAIN w /\ ~(N < Len(w))
    BY <1>0 DEF N
  <2>2. \A i \in DOMAIN w : w[i].key = "[Peer]" => i < Len(w)
    BY DEF WellFormed
  <2> QED
    BY <1>7, <2>1, <2>2
<1>9. u.inPeer
  BY <1>0, <1>7 DEF WellFormed
<1>10. ASSUME NEW i \in DOMAIN u.text PROVE u.text[i].key # "garbage"
  <2>1. u.text[i] \in {w[j] : j \in Telling(w)}
    BY <1>7
  <2>2. PICK j \in Telling(w) : u.text[i] = w[j]
    BY <2>1
  <2> QED
    BY <2>2 DEF Telling, Told, InterfaceKeys, PeerKeys
<1>11. Telling(w) \cap (1 .. N) = Telling(w)
  BY <1>0 DEF Telling
<1> QED
  BY <1>7, <1>8, <1>9, <1>10, <1>11 DEF UapiTaken, u

-----------------------------------------------------------------------------
(* Where each command can be.                                              *)

Probes == {"probe_del", "probe_add", "probe_undo"}
Places(k) ==
  CASE k = ""      -> {"off"}
    [] k = "run"   -> {"load", "resolve", "guard", "confs", "arm", "up", "token", "serving",
                       "refused", "dead"} \cup Probes \cup Creating
    [] k = "token" -> {"load", "resolve", "guard", "token", "printed", "refused", "dead"}
                        \cup Creating
    [] k = "stop"  -> {"load", "resolve", "guard", "disarm", "stopped", "refused", "dead"}
                        \cup Probes
    [] k = "check" -> {"load", "confs", "resolve", "guard", "verdict", "problems", "safe",
                       "dead"} \cup Probes
AllPlaces == UNION {Places(k) : k \in {""} \cup Commands}

InPlace(p) ==
  /\ pc[p] \in Places(kind[p])
  /\ kind[p] = "check" /\ pc[p] \in {"resolve", "guard"} => scene.root

TypeInv ==
  /\ TypeOK
  /\ pc \in [Procs -> AllPlaces]
  /\ \A p \in Procs : InPlace(p)
  /\ DOMAIN cfg = Procs /\ DOMAIN up = Procs
  /\ upset \subseteq scene.upsets

\* What follows a step of each command.
LEMMA AfterRun ==
  ASSUME NEW p, kind[p] = "run"
  PROVE  /\ After(p, "load") = "resolve" /\ After(p, "resolve") = "guard"
         /\ After(p, "guard") = "confs" /\ After(p, "confs") = "arm"
         /\ After(p, "arm") = "probe_del" /\ After(p, "probe_del") = "up"
         /\ After(p, "up") = "token" /\ After(p, "token") = "serving"
<1> DEFINE way == << "load", "resolve", "guard", "confs", "arm", "probe_del", "up", "token", "serving" >>
<1>1. Itinerary(p) = way
  BY DEF Itinerary
<1>2. /\ DOMAIN way = 1 .. 9 /\ way[1] = "load" /\ way[2] = "resolve"
      /\ way[3] = "guard" /\ way[4] = "confs" /\ way[5] = "arm"
      /\ way[6] = "probe_del" /\ way[7] = "up" /\ way[8] = "token"
      /\ way[9] = "serving"
  OBVIOUS
<1> HIDE DEF way
<1>3. /\ \A j \in 1 .. 9 : way[j] = "load" => j = 1
      /\ \A j \in 1 .. 9 : way[j] = "resolve" => j = 2
      /\ \A j \in 1 .. 9 : way[j] = "guard" => j = 3
      /\ \A j \in 1 .. 9 : way[j] = "confs" => j = 4
      /\ \A j \in 1 .. 9 : way[j] = "arm" => j = 5
      /\ \A j \in 1 .. 9 : way[j] = "probe_del" => j = 6
      /\ \A j \in 1 .. 9 : way[j] = "up" => j = 7
      /\ \A j \in 1 .. 9 : way[j] = "token" => j = 8
  BY <1>2
<1>4. \A step : After(p, step) = way[1 + CHOOSE j \in DOMAIN way : way[j] = step]
  BY <1>1 DEF After
<1> QED
  BY <1>2, <1>3, <1>4

LEMMA AfterToken ==
  ASSUME NEW p, kind[p] = "token"
  PROVE  /\ After(p, "load") = "resolve" /\ After(p, "resolve") = "guard"
         /\ After(p, "guard") = "token" /\ After(p, "token") = "printed"
<1> DEFINE way == << "load", "resolve", "guard", "token", "printed" >>
<1>1. Itinerary(p) = way
  BY DEF Itinerary
<1>2. /\ DOMAIN way = 1 .. 5 /\ way[1] = "load" /\ way[2] = "resolve"
      /\ way[3] = "guard" /\ way[4] = "token" /\ way[5] = "printed"
  OBVIOUS
<1> HIDE DEF way
<1>3. /\ \A j \in 1 .. 5 : way[j] = "load" => j = 1
      /\ \A j \in 1 .. 5 : way[j] = "resolve" => j = 2
      /\ \A j \in 1 .. 5 : way[j] = "guard" => j = 3
      /\ \A j \in 1 .. 5 : way[j] = "token" => j = 4
  BY <1>2
<1>4. \A step : After(p, step) = way[1 + CHOOSE j \in DOMAIN way : way[j] = step]
  BY <1>1 DEF After
<1> QED
  BY <1>2, <1>3, <1>4

LEMMA AfterStop ==
  ASSUME NEW p, kind[p] = "stop"
  PROVE  /\ After(p, "load") = "resolve" /\ After(p, "resolve") = "guard"
         /\ After(p, "guard") = "probe_del" /\ After(p, "probe_del") = "disarm"
         /\ After(p, "disarm") = "stopped"
<1> DEFINE way == << "load", "resolve", "guard", "probe_del", "disarm", "stopped" >>
<1>1. Itinerary(p) = way
  BY DEF Itinerary
<1>2. /\ DOMAIN way = 1 .. 6 /\ way[1] = "load" /\ way[2] = "resolve"
      /\ way[3] = "guard" /\ way[4] = "probe_del" /\ way[5] = "disarm"
      /\ way[6] = "stopped"
  OBVIOUS
<1> HIDE DEF way
<1>3. /\ \A j \in 1 .. 6 : way[j] = "load" => j = 1
      /\ \A j \in 1 .. 6 : way[j] = "resolve" => j = 2
      /\ \A j \in 1 .. 6 : way[j] = "guard" => j = 3
      /\ \A j \in 1 .. 6 : way[j] = "probe_del" => j = 4
      /\ \A j \in 1 .. 6 : way[j] = "disarm" => j = 5
  BY <1>2
<1>4. \A step : After(p, step) = way[1 + CHOOSE j \in DOMAIN way : way[j] = step]
  BY <1>1 DEF After
<1> QED
  BY <1>2, <1>3, <1>4

LEMMA AfterCheckRooted ==
  ASSUME NEW p, kind[p] = "check", scene.root
  PROVE  /\ After(p, "load") = "confs" /\ After(p, "confs") = "resolve"
         /\ After(p, "resolve") = "guard" /\ After(p, "guard") = "probe_del"
         /\ After(p, "probe_del") = "verdict"
<1> DEFINE way == << "load", "confs", "resolve", "guard", "probe_del", "verdict" >>
<1>1. Itinerary(p) = way
  BY DEF Itinerary
<1>2. /\ DOMAIN way = 1 .. 6 /\ way[1] = "load" /\ way[2] = "confs"
      /\ way[3] = "resolve" /\ way[4] = "guard" /\ way[5] = "probe_del"
      /\ way[6] = "verdict"
  OBVIOUS
<1> HIDE DEF way
<1>3. /\ \A j \in 1 .. 6 : way[j] = "load" => j = 1
      /\ \A j \in 1 .. 6 : way[j] = "confs" => j = 2
      /\ \A j \in 1 .. 6 : way[j] = "resolve" => j = 3
      /\ \A j \in 1 .. 6 : way[j] = "guard" => j = 4
      /\ \A j \in 1 .. 6 : way[j] = "probe_del" => j = 5
  BY <1>2
<1>4. \A step : After(p, step) = way[1 + CHOOSE j \in DOMAIN way : way[j] = step]
  BY <1>1 DEF After
<1> QED
  BY <1>2, <1>3, <1>4

LEMMA AfterCheck ==
  ASSUME NEW p, kind[p] = "check", ~scene.root
  PROVE  /\ After(p, "load") = "confs" /\ After(p, "confs") = "probe_del"
         /\ After(p, "probe_del") = "verdict"
<1> DEFINE way == << "load", "confs", "probe_del", "verdict" >>
<1>1. Itinerary(p) = way
  BY DEF Itinerary
<1>2. /\ DOMAIN way = 1 .. 4 /\ way[1] = "load" /\ way[2] = "confs"
      /\ way[3] = "probe_del" /\ way[4] = "verdict"
  OBVIOUS
<1> HIDE DEF way
<1>3. /\ \A j \in 1 .. 4 : way[j] = "load" => j = 1
      /\ \A j \in 1 .. 4 : way[j] = "confs" => j = 2
      /\ \A j \in 1 .. 4 : way[j] = "probe_del" => j = 3
  BY <1>2
<1>4. \A step : After(p, step) = way[1 + CHOOSE j \in DOMAIN way : way[j] = step]
  BY <1>1 DEF After
<1> QED
  BY <1>2, <1>3, <1>4

LEMMA InPlaceThen ==
  ASSUME TypeInv, NEW p \in Procs, NEW place \in Places(kind[p]),
         kind[p] = "check" /\ place \in {"resolve", "guard"} => scene.root,
         pc' = [pc EXCEPT ![p] = place], UNCHANGED << scene, kind >>
  PROVE  pc' \in [Procs -> AllPlaces] /\ \A q \in Procs : InPlace(q)'
<1>1. place \in AllPlaces
  BY DEF TypeInv, TypeOK, AllPlaces
<1>2. \A q \in Procs : pc'[q] = IF q = p THEN place ELSE pc[q]
  BY DEF TypeInv
<1>3. pc' \in [Procs -> AllPlaces]
  BY <1>1 DEF TypeInv
<1> QED
  BY <1>2, <1>3 DEF TypeInv, InPlace

\* Where the checks of prepare, checkTunnelConfigs and applyKillSwitch lead.
LEMMA JudgeInPlace ==
  ASSUME TypeInv, NEW p \in Procs, NEW step \in {"load", "resolve", "guard", "confs", "arm"},
         NEW bad, Judge(p, step, bad), UNCHANGED << scene, kind >>,
         \/ pc[p] = step
         \/ kind[p] = "check" /\ pc[p] = "resolve" /\ step = "guard"
  PROVE  /\ pc' \in [Procs -> AllPlaces] /\ \A q \in Procs : InPlace(q)'
         /\ fails' \in [Procs -> BOOLEAN]
<1> DEFINE place == IF bad /\ kind[p] # "check" THEN "refused" ELSE After(p, step)
<1>1. pc' = [pc EXCEPT ![p] = place]
  BY DEF Judge
<1>2. fails' \in [Procs -> BOOLEAN]
  BY DEF Judge, TypeInv, TypeOK
<1>3. pc[p] \in Places(kind[p]) /\ (kind[p] = "check" /\ pc[p] \in {"resolve", "guard"} => scene.root)
  BY DEF TypeInv, InPlace
<1>4. kind[p] \in {""} \cup Commands
  BY DEF TypeInv, TypeOK
<1>5. CASE kind[p] = "run"
  <2>1. place \in Places(kind[p])
    BY <1>3, <1>5, AfterRun DEF Places, Probes, Creating
  <2> HIDE DEF place
  <2> QED
    BY <1>1, <1>2, <1>5, <2>1, InPlaceThen
<1>6. CASE kind[p] = "token"
  <2>1. place \in Places(kind[p])
    BY <1>3, <1>6, AfterToken DEF Places, Probes, Creating
  <2> HIDE DEF place
  <2> QED
    BY <1>1, <1>2, <1>6, <2>1, InPlaceThen
<1>7. CASE kind[p] = "stop"
  <2>1. place \in Places(kind[p])
    BY <1>3, <1>7, AfterStop DEF Places, Probes, Creating
  <2> HIDE DEF place
  <2> QED
    BY <1>1, <1>2, <1>7, <2>1, InPlaceThen
<1>8. CASE kind[p] = "check" /\ scene.root
  <2>1. place \in Places(kind[p]) /\ (place \in {"resolve", "guard"} => scene.root)
    BY <1>3, <1>8, AfterCheckRooted DEF Places, Probes, Creating
  <2> HIDE DEF place
  <2> QED
    BY <1>1, <1>2, <1>8, <2>1, InPlaceThen
<1>9. CASE kind[p] = "check" /\ ~scene.root
  <2>1. place \in Places(kind[p]) /\ (place \in {"resolve", "guard"} => scene.root)
    BY <1>3, <1>9, AfterCheck DEF Places, Probes, Creating
  <2> HIDE DEF place
  <2> QED
    BY <1>1, <1>2, <1>9, <2>1, InPlaceThen
<1>10. kind[p] # ""
  BY <1>3 DEF Places
<1> QED
  BY <1>4, <1>5, <1>6, <1>7, <1>8, <1>9, <1>10 DEF Commands

LEMMA DetectedInPlace ==
  ASSUME TypeInv, NEW p \in Procs, NEW b \in {"kernel", "userspace", "none"}, Detected(p, b),
         pc[p] \in Probing, UNCHANGED << scene, kind >>
  PROVE  /\ pc' \in [Procs -> AllPlaces] /\ \A q \in Procs : InPlace(q)'
         /\ fails' \in [Procs -> BOOLEAN]
         /\ backend' \in [Procs -> {"", "kernel", "userspace", "none"}]
<1> DEFINE place == After(p, "probe_del")
<1>1. pc' = [pc EXCEPT ![p] = place]
  BY DEF Detected
<1>2. /\ fails' \in [Procs -> BOOLEAN]
      /\ backend' \in [Procs -> {"", "kernel", "userspace", "none"}]
  BY DEF Detected, TypeInv, TypeOK
<1>3. pc[p] \in Places(kind[p]) /\ kind[p] \in {""} \cup Commands
  BY DEF TypeInv, InPlace, TypeOK
<1>4. kind[p] \in {"run", "stop", "check"}
  BY <1>3 DEF Places, Probing, Creating, Commands
<1>5. place \in Places(kind[p]) /\ place \notin {"resolve", "guard"}
  <2>1. CASE kind[p] = "run"
    BY <2>1, AfterRun DEF Places
  <2>2. CASE kind[p] = "stop"
    BY <2>2, AfterStop DEF Places
  <2>3. CASE kind[p] = "check" /\ scene.root
    BY <2>3, AfterCheckRooted DEF Places
  <2>4. CASE kind[p] = "check" /\ ~scene.root
    BY <2>4, AfterCheck DEF Places
  <2> QED
    BY <1>4, <2>1, <2>2, <2>3, <2>4
<1> HIDE DEF place
<1> QED
  BY <1>1, <1>2, <1>5, InPlaceThen

LEMMA GotInPlace ==
  ASSUME TypeInv, NEW p \in Procs, NEW t \in {"", "env"} \cup Procs, Got(p, t),
         pc[p] \in {"token"} \cup Creating, UNCHANGED << scene, kind >>
  PROVE  /\ pc' \in [Procs -> AllPlaces] /\ \A q \in Procs : InPlace(q)'
         /\ tok' \in [Procs -> {"", "env"} \cup Procs]
<1> DEFINE place == IF t = "" /\ kind[p] = "token" THEN "refused" ELSE After(p, "token")
<1>1. pc' = [pc EXCEPT ![p] = place]
  BY DEF Got
<1>2. tok' \in [Procs -> {"", "env"} \cup Procs]
  BY DEF Got, TypeInv, TypeOK
<1>3. pc[p] \in Places(kind[p]) /\ kind[p] \in {""} \cup Commands
  BY DEF TypeInv, InPlace, TypeOK
<1>4. kind[p] \in {"run", "token"}
  BY <1>3 DEF Places, Probes, Creating, Commands
<1>5. place \in Places(kind[p]) /\ place \notin {"resolve", "guard"}
  BY <1>4, AfterRun, AfterToken DEF Places
<1> HIDE DEF place
<1> QED
  BY <1>1, <1>2, <1>5, InPlaceThen

LEMMA TypeInit == Init => TypeInv
<1> SUFFICES ASSUME Init PROVE TypeInv
  OBVIOUS
<1>1. TypeOK
  BY DEF Init, TypeOK
<1>2. /\ pc = [p \in Procs |-> "off"] /\ kind = [p \in Procs |-> ""]
      /\ DOMAIN cfg = Procs /\ DOMAIN up = Procs /\ upset \subseteq scene.upsets
  BY DEF Init
<1>3. "off" \in Places("") /\ "off" \in AllPlaces
  BY DEF Places, AllPlaces
<1>4. \A p \in Procs : InPlace(p)
  BY <1>2, <1>3 DEF InPlace
<1>5. pc \in [Procs -> AllPlaces]
  BY <1>2, <1>3
<1> QED
  BY <1>1, <1>2, <1>4, <1>5 DEF TypeInv

\* A step leaves every command at a place of its own.
Placed ==
  /\ pc' \in [Procs -> AllPlaces]
  /\ \A p \in Procs : InPlace(p)'

LEMMA TypeStep == ASSUME TypeInv, [Next]_vars PROVE TypeInv'
<1>1. /\ TypeOK
      /\ pc \in [Procs -> AllPlaces] /\ \A p \in Procs : InPlace(p)
      /\ DOMAIN cfg = Procs /\ DOMAIN up = Procs /\ upset \subseteq scene.upsets
  BY DEF TypeInv
<1>2. ASSUME UNCHANGED << scene, kind, pc >> PROVE Placed
  BY <1>1, <1>2 DEF Placed, InPlace
<1>3. ASSUME NEW p \in Procs, NEW k \in Commands, Start(p, k) PROVE TypeInv'
  <2>1. /\ pc' = [pc EXCEPT ![p] = "load"] /\ kind' = [kind EXCEPT ![p] = k]
        /\ UNCHANGED << machine, cfg, fails, backend, up, tok, history >>
    BY <1>3 DEF Start
  <2>2. "load" \in Places(k) /\ "load" \in AllPlaces
    <3>1. "load" \in Places(k)
      BY DEF Commands, Places
    <3> QED
      BY <3>1 DEF AllPlaces
  <2>3. Placed
    <3>1. \A q \in Procs : pc'[q] = (IF q = p THEN "load" ELSE pc[q])
                           /\ kind'[q] = (IF q = p THEN k ELSE kind[q])
      BY <1>1, <2>1 DEF TypeOK
    <3>2. scene' = scene
      BY <2>1 DEF machine
    <3> QED
      BY <1>1, <2>1, <2>2, <3>1, <3>2 DEF Placed, InPlace
  <2>4. TypeOK'
    BY <1>1, <2>1 DEF TypeOK, machine, history
  <2> QED
    BY <1>1, <2>1, <2>3, <2>4 DEF TypeInv, Placed, machine, history
<1>4. ASSUME NEW p \in Procs, Load(p) PROVE TypeInv'
  <2>1. /\ pc[p] = "load" /\ Judge(p, "load", ~Valid(LoadConfig(scene.lines)))
        /\ cfg' = [cfg EXCEPT ![p] = LoadConfig(scene.lines).cfg]
        /\ UNCHANGED << machine, kind, backend, up, tok, history >>
    BY <1>4 DEF Load
  <2>2. Placed /\ fails' \in [Procs -> BOOLEAN]
    BY <2>1, JudgeInPlace DEF Placed, machine
  <2> QED
    BY <1>1, <2>1, <2>2 DEF TypeInv, TypeOK, Placed, machine, history
<1>5. ASSUME NEW p \in Procs, Resolve(p) PROVE TypeInv'
  <2>1. pc[p] = "resolve" /\ UNCHANGED << machine, kind, backend, up, tok, history >>
    BY <1>5 DEF Resolve
  <2>2. Placed /\ fails' \in [Procs -> BOOLEAN] /\ DOMAIN cfg' = Procs
    <3>1. CASE Resolvable(cfg[p])
      <4>1. cfg' = [cfg EXCEPT ![p] = Resolved(cfg[p])] /\ Judge(p, "resolve", FALSE)
        BY <1>1, <1>5, <3>1 DEF Resolve
      <4> QED
        BY <1>1, <2>1, <4>1, JudgeInPlace DEF Placed, machine
    <3>2. CASE ~Resolvable(cfg[p])
      <4>1. cfg' = cfg /\ Judge(p, IF kind[p] = "check" THEN "guard" ELSE "resolve", TRUE)
        BY <1>5, <3>2 DEF Resolve
      <4> QED
        BY <1>1, <2>1, <4>1, JudgeInPlace DEF Placed, machine
    <3> QED
      BY <3>1, <3>2
  <2> QED
    BY <1>1, <2>1, <2>2 DEF TypeInv, TypeOK, Placed, machine, history
<1>6. ASSUME NEW p \in Procs, Guard(p) PROVE TypeInv'
  <2>1. PICK bad : pc[p] = "guard" /\ Judge(p, "guard", bad)
                   /\ UNCHANGED << machine, kind, cfg, backend, up, tok, history >>
    BY <1>6 DEF Guard
  <2>2. Placed /\ fails' \in [Procs -> BOOLEAN]
    BY <2>1, JudgeInPlace DEF Placed, machine
  <2> QED
    BY <1>1, <2>1, <2>2 DEF TypeInv, TypeOK, Placed, machine, history
<1>7. ASSUME NEW p \in Procs, Confs(p) PROVE TypeInv'
  <2>1. PICK bad : pc[p] = "confs" /\ Judge(p, "confs", bad)
                   /\ UNCHANGED << machine, kind, cfg, backend, up, tok, history >>
    BY <1>7 DEF Confs
  <2>2. Placed /\ fails' \in [Procs -> BOOLEAN]
    BY <2>1, JudgeInPlace DEF Placed, machine
  <2> QED
    BY <1>1, <2>1, <2>2 DEF TypeInv, TypeOK, Placed, machine, history
<1>8. ASSUME NEW p \in Procs, Arm(p) PROVE TypeInv'
  <2>1. /\ pc[p] = "arm" /\ Judge(p, "arm", ~scene.tools \/ scene.open6)
        /\ UNCHANGED << scene, host, probe, file, kind, cfg, backend, up, tok, history >>
    BY <1>8 DEF Arm
  <2>2. Placed /\ fails' \in [Procs -> BOOLEAN]
    BY <2>1, JudgeInPlace DEF Placed
  <2> QED
    BY <1>1, <2>1, <2>2 DEF TypeInv, TypeOK, Placed, history
<1>9. ASSUME NEW p \in Procs, Repair(p) PROVE TypeInv'
  <2>1. UNCHANGED << scene, host, probe, file, kind, pc, cfg, fails, backend, up, tok, history >>
    BY <1>9 DEF Repair
  <2> QED
    BY <1>1, <1>2, <2>1 DEF TypeInv, TypeOK, Placed, history
<1>10. ASSUME NEW p \in Procs, Disarm(p) PROVE TypeInv'
  <2>1. /\ pc[p] = "disarm" /\ pc' = [pc EXCEPT ![p] = After(p, "disarm")]
        /\ UNCHANGED << scene, host, probe, file, kind, cfg, fails, backend, up, tok, history >>
    BY <1>10 DEF Disarm
  <2>2. pc[p] \in Places(kind[p]) /\ kind[p] \in {""} \cup Commands
    BY <1>1 DEF InPlace, TypeOK
  <2>3. kind[p] = "stop"
    BY <2>1, <2>2 DEF Places, Probes, Creating, Commands
  <2>4. After(p, "disarm") \in Places(kind[p])
    BY <2>3, AfterStop DEF Places
  <2>5. Placed
    BY <2>1, <2>3, <2>4, InPlaceThen DEF Placed
  <2> QED
    BY <1>1, <2>1, <2>5 DEF TypeInv, TypeOK, Placed, history
<1>11. ASSUME NEW p \in Procs, ProbeDel(p) PROVE TypeInv'
  <2>1. /\ pc[p] = "probe_del" /\ pc' = [pc EXCEPT ![p] = "probe_add"]
        /\ probe' = (probe /\ ~Rooted(p))
        /\ UNCHANGED << scene, host, armed, file, kind, cfg, fails, backend, up, tok, history >>
    BY <1>11 DEF ProbeDel
  <2>2. pc[p] \in Places(kind[p]) /\ kind[p] \in {""} \cup Commands
    BY <1>1 DEF InPlace, TypeOK
  <2>3. "probe_add" \in Places(kind[p])
    BY <2>1, <2>2 DEF Places, Probes, Creating, Commands
  <2>4. Placed
    BY <2>1, <2>3, InPlaceThen DEF Placed
  <2>5. probe' \in BOOLEAN
    BY <2>1
  <2> QED
    BY <1>1, <2>1, <2>4, <2>5 DEF TypeInv, TypeOK, Placed, history
<1>12. ASSUME NEW p \in Procs, ProbeAdd(p) PROVE TypeInv'
  <2>1. /\ pc[p] = "probe_add"
        /\ UNCHANGED << scene, host, armed, file, kind, cfg, up, tok, outdated >>
    BY <1>12 DEF ProbeAdd
  <2>2. Fallback \in {"kernel", "userspace", "none"} /\ pc[p] \in Probing
    BY <2>1 DEF Fallback, Probing
  <2>3. ASSUME Detected(p, Fallback), probe' \in BOOLEAN, upset' \subseteq upset PROVE TypeInv'
    <3>1. Placed /\ fails' \in [Procs -> BOOLEAN]
          /\ backend' \in [Procs -> {"", "kernel", "userspace", "none"}]
      BY <2>1, <2>2, <2>3, DetectedInPlace DEF Placed
    <3> QED
      BY <1>1, <2>1, <2>3, <3>1 DEF TypeInv, TypeOK, Placed
  <2>4. ASSUME probe' = TRUE, pc' = [pc EXCEPT ![p] = "probe_undo"],
               UNCHANGED << fails, backend, upset >>
        PROVE  TypeInv'
    <3>1. pc[p] \in Places(kind[p]) /\ kind[p] \in {""} \cup Commands
      BY <1>1 DEF InPlace, TypeOK
    <3>2. "probe_undo" \in Places(kind[p])
      BY <2>1, <3>1 DEF Places, Probes, Creating, Commands
    <3>3. Placed
      BY <2>1, <2>4, <3>2, InPlaceThen DEF Placed
    <3> QED
      BY <1>1, <2>1, <2>4, <3>3 DEF TypeInv, TypeOK, Placed
  <2>5. probe \in BOOLEAN
    BY <1>1 DEF TypeOK
  <2> QED
    BY <1>12, <2>3, <2>4, <2>5 DEF ProbeAdd
<1>13. ASSUME NEW p \in Procs, ProbeUndo(p) PROVE TypeInv'
  <2>1. /\ pc[p] \in Probing /\ Detected(p, "kernel") /\ probe' = FALSE
        /\ UNCHANGED << scene, host, armed, file, kind, cfg, up, tok, history >>
    BY <1>13 DEF ProbeUndo, Probing
  <2>2. Placed /\ fails' \in [Procs -> BOOLEAN]
        /\ backend' \in [Procs -> {"", "kernel", "userspace", "none"}]
    BY <2>1, DetectedInPlace DEF Placed
  <2> QED
    BY <1>1, <2>1, <2>2 DEF TypeInv, TypeOK, Placed, history
<1>14. ASSUME NEW p \in Procs, BringUp(p) PROVE TypeInv'
  <2>1. /\ pc[p] = "up" /\ pc' = [pc EXCEPT ![p] = After(p, "up")] /\ DOMAIN up' = Procs
        /\ UNCHANGED << machine, kind, cfg, fails, backend, tok, history >>
    BY <1>1, <1>14 DEF BringUp
  <2>2. pc[p] \in Places(kind[p]) /\ kind[p] \in {""} \cup Commands
    BY <1>1 DEF InPlace, TypeOK
  <2>3. kind[p] = "run"
    BY <2>1, <2>2 DEF Places, Probes, Creating, Commands
  <2>4. After(p, "up") \in Places(kind[p])
    BY <2>3, AfterRun DEF Places
  <2>5. Placed
    BY <2>1, <2>3, <2>4, InPlaceThen DEF Placed, machine
  <2> QED
    BY <1>1, <2>1, <2>5 DEF TypeInv, TypeOK, Placed, machine, history
<1>15. ASSUME NEW p \in Procs, Verdict(p) PROVE TypeInv'
  <2> DEFINE place == IF fails[p] THEN "problems" ELSE "safe"
  <2>1. /\ pc[p] = "verdict" /\ pc' = [pc EXCEPT ![p] = place]
        /\ UNCHANGED << machine, kind, cfg, fails, backend, up, tok, history >>
    BY <1>15 DEF Verdict
  <2>2. pc[p] \in Places(kind[p]) /\ kind[p] \in {""} \cup Commands
    BY <1>1 DEF InPlace, TypeOK
  <2>3. place \in Places(kind[p]) /\ place \notin {"resolve", "guard"}
    BY <2>1, <2>2 DEF Places, Probes, Creating, Commands
  <2> HIDE DEF place
  <2>4. Placed
    BY <2>1, <2>3, InPlaceThen DEF Placed, machine
  <2> QED
    BY <1>1, <2>1, <2>4 DEF TypeInv, TypeOK, Placed, machine, history
<1>16. ASSUME NEW p \in Procs, TokenRead(p) PROVE TypeInv'
  <2>1. /\ pc[p] = "token"
        /\ UNCHANGED << machine, kind, cfg, fails, backend, up, upset, outdated >>
    BY <1>16 DEF TokenRead
  <2>2. ASSUME NEW t \in {"", "env"} \cup Procs, Got(p, t) PROVE TypeInv'
    <3>1. Placed /\ tok' \in [Procs -> {"", "env"} \cup Procs]
      BY <2>1, <2>2, GotInPlace DEF Placed, machine
    <3> QED
      BY <1>1, <2>1, <3>1 DEF TypeInv, TypeOK, Placed, machine
  <2>3. ASSUME pc' = [pc EXCEPT ![p] = "truncate"], tok' = tok PROVE TypeInv'
    <3>1. pc[p] \in Places(kind[p]) /\ kind[p] \in {""} \cup Commands
      BY <1>1 DEF InPlace, TypeOK
    <3>2. "truncate" \in Places(kind[p])
      BY <2>1, <3>1 DEF Places, Probes, Creating, Commands
    <3>3. Placed
      BY <2>1, <2>3, <3>2, InPlaceThen DEF Placed, machine
    <3> QED
      BY <1>1, <2>1, <2>3, <3>3 DEF TypeInv, TypeOK, Placed, machine
  <2>4. file \in {"", "env"} \cup Procs
    BY <1>1 DEF TypeOK
  <2> QED
    BY <1>16, <2>2, <2>3, <2>4 DEF TokenRead
<1>17. ASSUME NEW p \in Procs, TokenTruncate(p) PROVE TypeInv'
  <2>1. /\ pc[p] = "truncate"
        /\ UNCHANGED << scene, host, armed, probe, kind, cfg, fails, backend, up, raced, outdated >>
    BY <1>17 DEF TokenTruncate
  <2>2. ASSUME file' = "", pc' = [pc EXCEPT ![p] = "write"], UNCHANGED << tok, upset >>
        PROVE  TypeInv'
    <3>1. pc[p] \in Places(kind[p]) /\ kind[p] \in {""} \cup Commands
      BY <1>1 DEF InPlace, TypeOK
    <3>2. "write" \in Places(kind[p])
      BY <2>1, <3>1 DEF Places, Probes, Creating, Commands
    <3>3. Placed
      BY <2>1, <2>2, <3>2, InPlaceThen DEF Placed
    <3> QED
      BY <1>1, <2>1, <2>2, <3>3 DEF TypeInv, TypeOK, Placed
  <2>3. ASSUME upset' = upset \ {"fault"}, file' = file, Got(p, "") PROVE TypeInv'
    <3>1. Placed /\ tok' \in [Procs -> {"", "env"} \cup Procs]
      BY <2>1, <2>3, GotInPlace DEF Placed, Creating
    <3> QED
      BY <1>1, <2>1, <2>3, <3>1 DEF TypeInv, TypeOK, Placed
  <2> QED
    BY <1>17, <2>2, <2>3 DEF TokenTruncate
<1>18. ASSUME NEW p \in Procs, TokenWrite(p) PROVE TypeInv'
  <2>1. /\ pc[p] \in Creating /\ file' = p /\ Got(p, p)
        /\ UNCHANGED << scene, host, armed, probe, kind, cfg, fails, backend, up, history >>
    BY <1>18 DEF TokenWrite, Creating
  <2>2. Placed /\ tok' \in [Procs -> {"", "env"} \cup Procs]
    BY <2>1, GotInPlace DEF Placed
  <2> QED
    BY <1>1, <2>1, <2>2 DEF TypeInv, TypeOK, Placed, history
<1>19. ASSUME NEW p \in Procs, Kill(p) PROVE TypeInv'
  <2>1. /\ pc[p] # "off" /\ pc' = [pc EXCEPT ![p] = "dead"] /\ upset' \subseteq upset
        /\ UNCHANGED << machine, kind, cfg, fails, backend, up, tok, raced, outdated >>
    BY <1>19 DEF Kill
  <2>2. pc[p] \in Places(kind[p]) /\ kind[p] \in {""} \cup Commands
    BY <1>1 DEF InPlace, TypeOK
  <2>3. "dead" \in Places(kind[p])
    BY <2>1, <2>2 DEF Places, Commands
  <2>4. Placed
    BY <2>1, <2>3, InPlaceThen DEF Placed, machine
  <2> QED
    BY <1>1, <2>1, <2>4 DEF TypeInv, TypeOK, Placed, machine
<1>20. ASSUME Flush PROVE TypeInv'
  BY <1>1, <1>2, <1>20 DEF Flush, TypeInv, TypeOK, Placed
<1>21. ASSUME Move PROVE TypeInv'
  BY <1>1, <1>2, <1>21 DEF Move, TypeInv, TypeOK, Placed
<1>22. ASSUME Delete PROVE TypeInv'
  BY <1>1, <1>2, <1>22 DEF Delete, TypeInv, TypeOK, Placed
<1>23. ASSUME UNCHANGED vars PROVE TypeInv'
  BY <1>1, <1>2, <1>23 DEF vars, TypeInv, TypeOK, Placed
<1> QED
  BY <1>3, <1>4, <1>5, <1>6, <1>7, <1>8, <1>9, <1>10, <1>11, <1>12, <1>13, <1>14, <1>15, <1>16,
     <1>17, <1>18, <1>19, <1>20, <1>21, <1>22, <1>23 DEF Next, Step

\* The commands and the machine keep their types, and every command is at a place of its own
\* way through (main.go:realMain).
THEOREM TypesOK == Spec => []TypeOK
<1>1. TypeInv => TypeOK
  BY DEF TypeInv
<1> QED
  BY <1>1, TypeInit, TypeStep, PTL DEF Spec

-----------------------------------------------------------------------------
(* The invariants.                                                         *)

Read == LoadConfig(scene.lines)

\* Nothing has been found out or noted by a command that has not started.
FreshInv ==
  \A p \in Procs :
    /\ pc[p] = "off" => backend[p] = "" /\ ~fails[p]
    /\ pc[p] = "up" => backend[p] # ""

\* A command goes by what the file says, but for the network `auto` stands for.
ReadInv ==
  \A p \in Procs :
    /\ pc[p] \notin {"off", "load", "dead"} =>
         /\ DOMAIN cfg[p] = Lists \cup Settings
         /\ \A k \in (Lists \cup Settings) \ {"lan", "wan_interface"} : cfg[p][k] = Read.cfg[k]
    /\ pc[p] = "resolve" \/ (kind[p] = "check" /\ pc[p] = "confs") => cfg[p] = Read.cfg
    /\ pc[p] \notin {"off", "load", "dead", "refused"} /\ kind[p] # "check" => Valid(Read)

\* A tunnel is up by wg-quick, by wireguard-go with the text it took, or has an interface only
\* because it did not take it.
ToldInv ==
  \A p \in Procs :
    \/ up[p] \in {NoTunnel, [how |-> "wg-quick", text |-> << >>]}
    \/ UapiTaken(Uapi(scene.wg)) /\ up[p] = [how |-> "wireguard-go", text |-> Uapi(scene.wg).text]
    \/ ~UapiTaken(Uapi(scene.wg)) /\ up[p] = [how |-> "bare", text |-> << >>]

\* As long as no two commands were probing at once: the probe interface is away when it is to
\* be added, and is added only where the kernel can.
ProbeInv ==
  ("probe" \notin raced /\ "fault" \notin Happened) =>
    \A p \in Procs :
      /\ pc[p] = "probe_add" /\ Rooted(p) => ~probe
      /\ pc[p] = "probe_undo" => scene.kernel
      /\ Rooted(p) /\ backend[p] # "" => backend[p] = MachineBackend

\* As long as no two commands were making the token at once: while one makes it the file is
\* empty, and who goes by a token that was not deleted goes by the one in the file.
TokenInv ==
  ("token" \notin raced /\ "fault" \notin Happened) =>
    /\ \A p, q \in Procs : pc[p] \in Creating /\ pc[q] \in Creating => p = q
    /\ \A p \in Procs : pc[p] \in Creating => file = "" /\ scene.env = "none"
    /\ \A p \in Procs \ outdated : scene.env = "none" /\ tok[p] # "" => tok[p] = file
    /\ \A p \in Procs :
         pc[p] = "printed" \/ (pc[p] = "serving" /\ ~NoDashboard(p)) =>
           /\ scene.env = "set" => tok[p] = "env"
           /\ scene.env = "none" => tok[p] # ""
           /\ pc[p] = "printed" => scene.env \in {"none", "set"}

\* What ifaceAddrs and GuardAgainstSelf refuse.
Cut(c) ==
  \/ c["wan_interface"] \notin DOMAIN host.addr
  \/ /\ IsNet(c["clients"])
     /\ GuardAgainstSelf(c["clients"], c["lan"], {n[2] : n \in Range(Nets(c["wan_interface"]))})

\* Until the machine moves, every command has resolved the same network, and a daemon is past
\* the guard only with one that does not hold the machine.
AfterGuard == {"confs", "arm", "up", "token", "serving"} \cup Probes \cup Creating
NetInv ==
  host = scene.host =>
    \A p \in Procs :
      /\ pc[p] = "guard" \/ (kind[p] = "run" /\ pc[p] \in AfterGuard) =>
           Resolvable(Read.cfg) /\ cfg[p] = Resolved(Read.cfg)
      /\ kind[p] = "run" /\ pc[p] \in AfterGuard => ~Cut(cfg[p])

\* The kill switch was armed by a daemon past the guard.
Apart(c) ==
  /\ \A n \in Range(Nets(c["wan_interface"])) : ~InNet(c["clients"], n[2])
  /\ Block(c["clients"]) \cap Block(c["lan"]) = {}
ArmedInv ==
  (armed # Disarmed /\ host = scene.host) =>
    \E p \in Procs :
      /\ kind[p] = "run" /\ pc[p] \notin {"off", "load", "resolve", "guard"}
      /\ armed = ArmedFor(cfg[p]) /\ Apart(cfg[p])

\* What a daemon asks before it serves, and what `check` has asked of it so far.
ConfsBad(c) ==
  \/ << "missing" >> \in Paths(c)
  \/ << "file" >> \in Paths(c) /\ WGFatal(scene.wg)
Fit ==
  /\ Valid(Read) /\ ~ConfsBad(Read.cfg) /\ Resolvable(Read.cfg) /\ ~Cut(Resolved(Read.cfg))
  /\ scene.tools
Asked(p) ==
  /\ pc[p] \notin {"off", "load", "dead"} => Valid(Read)
  /\ pc[p] \in {"resolve", "guard", "verdict", "safe"} \cup Probes => ~ConfsBad(Read.cfg)
  /\ pc[p] \in {"guard", "verdict", "safe"} \cup Probes => Resolvable(Read.cfg)
  /\ pc[p] \in {"verdict", "safe"} \cup Probes => ~Cut(Resolved(Read.cfg))
  /\ pc[p] \in {"verdict", "safe"} => scene.tools
SafeInv ==
  /\ "move" \notin Happened => host = scene.host
  /\ host = scene.host =>
       \A p \in Procs :
         /\ kind[p] \in {"run", "stop"} /\ pc[p] = "refused" =>
              ~Fit \/ (kind[p] = "run" /\ scene.open6)
         /\ kind[p] = "check" /\ scene.root /\ ~fails[p] => Asked(p)
         /\ pc[p] = "safe" => ~fails[p]

-----------------------------------------------------------------------------
(* What the steps do to the command that takes them, and to the others.    *)

Same(p) ==
  /\ kind'[p] = kind[p] /\ pc'[p] = pc[p] /\ cfg'[p] = cfg[p] /\ fails'[p] = fails[p]
  /\ backend'[p] = backend[p] /\ up'[p] = up[p] /\ tok'[p] = tok[p]

LEMMA LoadDoes ==
  ASSUME TypeInv, NEW p \in Procs, Load(p)
  PROVE  /\ pc[p] = "load" /\ kind[p] \in Commands
         /\ cfg'[p] = Read.cfg /\ fails'[p] = (fails[p] \/ ~Valid(Read))
         /\ pc'[p] = IF kind[p] = "check" THEN "confs"
                     ELSE IF Valid(Read) THEN "resolve" ELSE "refused"
<1>1. /\ pc[p] = "load" /\ cfg'[p] = Read.cfg /\ Judge(p, "load", ~Valid(Read))
  BY DEF Load, TypeInv, Read
<1>2. /\ fails'[p] = (fails[p] \/ ~Valid(Read))
      /\ pc'[p] = IF ~Valid(Read) /\ kind[p] # "check" THEN "refused" ELSE After(p, "load")
  BY <1>1 DEF Judge, TypeInv, TypeOK
<1>3. kind[p] \in Commands
  BY <1>1 DEF TypeInv, TypeOK, InPlace, Places
<1> QED
  BY <1>1, <1>2, <1>3, AfterRun, AfterToken, AfterStop, AfterCheckRooted, AfterCheck DEF Commands

LEMMA ResolveDoes ==
  ASSUME TypeInv, NEW p \in Procs, Resolve(p)
  PROVE  /\ pc[p] = "resolve" /\ kind[p] \in Commands /\ (kind[p] = "check" => scene.root)
         /\ Resolvable(cfg[p]) => cfg'[p] = Resolved(cfg[p]) /\ pc'[p] = "guard"
                                  /\ fails'[p] = fails[p]
         /\ ~Resolvable(cfg[p]) =>
              /\ cfg'[p] = cfg[p] /\ fails'[p] = TRUE
              /\ pc'[p] = IF kind[p] = "check" THEN "probe_del" ELSE "refused"
<1>1. pc[p] = "resolve" /\ fails[p] \in BOOLEAN /\ kind[p] \in Commands
      /\ (kind[p] = "check" => scene.root)
  BY DEF Resolve, TypeInv, TypeOK, InPlace, Places
<1>2. CASE Resolvable(cfg[p])
  <2>1. cfg'[p] = Resolved(cfg[p]) /\ Judge(p, "resolve", FALSE)
    BY <1>2 DEF Resolve, TypeInv
  <2>2. fails'[p] = fails[p] /\ pc'[p] = After(p, "resolve")
    BY <1>1, <2>1 DEF Judge, TypeInv, TypeOK
  <2> QED
    BY <1>1, <1>2, <2>1, <2>2, AfterRun, AfterToken, AfterStop, AfterCheckRooted DEF Commands
<1>3. CASE ~Resolvable(cfg[p])
  <2> DEFINE step == IF kind[p] = "check" THEN "guard" ELSE "resolve"
  <2>1. cfg'[p] = cfg[p] /\ Judge(p, step, TRUE)
    BY <1>3 DEF Resolve
  <2>2. fails'[p] = TRUE
        /\ pc'[p] = IF kind[p] # "check" THEN "refused" ELSE After(p, step)
    BY <1>1, <2>1 DEF Judge, TypeInv, TypeOK
  <2> QED
    BY <1>1, <1>3, <2>1, <2>2, AfterCheckRooted
<1> QED
  BY <1>2, <1>3

LEMMA GuardDoes ==
  ASSUME TypeInv, NEW p \in Procs, Guard(p)
  PROVE  /\ pc[p] = "guard" /\ kind[p] \in Commands /\ (kind[p] = "check" => scene.root)
         /\ cfg'[p] = cfg[p] /\ fails'[p] = (fails[p] \/ Cut(cfg[p]))
         /\ pc'[p] = IF Cut(cfg[p]) /\ kind[p] # "check" THEN "refused"
                     ELSE IF kind[p] = "run" THEN "confs"
                     ELSE IF kind[p] = "token" THEN "token" ELSE "probe_del"
<1>1. pc[p] = "guard" /\ fails[p] \in BOOLEAN /\ kind[p] \in Commands
      /\ (kind[p] = "check" => scene.root)
  BY DEF Guard, TypeInv, TypeOK, InPlace, Places
<1>2. cfg'[p] = cfg[p] /\ Judge(p, "guard", Cut(cfg[p]))
  BY DEF Guard, Cut
<1> HIDE DEF Cut
<1>3. /\ fails'[p] = (fails[p] \/ Cut(cfg[p]))
      /\ pc'[p] = IF Cut(cfg[p]) /\ kind[p] # "check" THEN "refused" ELSE After(p, "guard")
  BY <1>1, <1>2 DEF Judge, TypeInv, TypeOK
<1> QED
  BY <1>1, <1>2, <1>3, AfterRun, AfterToken, AfterStop, AfterCheckRooted DEF Commands

LEMMA ConfsDoes ==
  ASSUME TypeInv, NEW p \in Procs, Confs(p)
  PROVE  /\ pc[p] = "confs" /\ kind[p] \in {"run", "check"}
         /\ cfg'[p] = cfg[p] /\ fails'[p] = (fails[p] \/ ConfsBad(cfg[p]))
         /\ pc'[p] = IF kind[p] = "run" THEN IF ConfsBad(cfg[p]) THEN "refused" ELSE "arm"
                     ELSE IF scene.root THEN "resolve" ELSE "probe_del"
<1>1. pc[p] = "confs" /\ fails[p] \in BOOLEAN /\ kind[p] \in {""} \cup Commands
      /\ pc[p] \in Places(kind[p])
  BY DEF Confs, TypeInv, TypeOK, InPlace
<1>2. cfg'[p] = cfg[p] /\ Judge(p, "confs", ConfsBad(cfg[p]))
  BY DEF Confs, ConfsBad
<1>3. kind[p] \in {"run", "check"}
  BY <1>1 DEF Places, Probes, Creating, Commands
<1>4. /\ fails'[p] = (fails[p] \/ ConfsBad(cfg[p]))
      /\ pc'[p] = IF ConfsBad(cfg[p]) /\ kind[p] # "check" THEN "refused" ELSE After(p, "confs")
  BY <1>1, <1>2 DEF Judge, TypeInv, TypeOK
<1> QED
  BY <1>1, <1>2, <1>3, <1>4, AfterRun, AfterCheckRooted, AfterCheck

LEMMA ArmDoes ==
  ASSUME TypeInv, NEW p \in Procs, Arm(p)
  PROVE  /\ pc[p] = "arm" /\ kind[p] = "run" /\ cfg'[p] = cfg[p]
         /\ armed' = IF scene.tools THEN ArmedFor(cfg[p]) ELSE armed
         /\ pc'[p] = IF scene.tools /\ ~scene.open6 THEN "probe_del" ELSE "refused"
<1>1. pc[p] = "arm" /\ kind[p] \in {""} \cup Commands /\ pc[p] \in Places(kind[p])
  BY DEF Arm, TypeInv, TypeOK, InPlace
<1>2. kind[p] = "run"
  BY <1>1 DEF Places, Probes, Creating, Commands
<1>3. /\ armed' = IF scene.tools THEN ArmedFor(cfg[p]) ELSE armed
      /\ cfg'[p] = cfg[p] /\ Judge(p, "arm", ~scene.tools \/ scene.open6)
  BY DEF Arm
<1> QED
  BY <1>1, <1>2, <1>3, AfterRun DEF Judge, TypeInv, TypeOK

LEMMA DetectedDoes ==
  ASSUME TypeInv, NEW p \in Procs, NEW b, Detected(p, b), pc[p] \in Probing
  PROVE  /\ kind[p] \in {"run", "stop", "check"} /\ backend'[p] = b
         /\ fails'[p] = (fails[p] \/ (kind[p] = "check" /\ (b = "none" \/ ~scene.tools)))
         /\ pc'[p] = IF kind[p] = "run" THEN "up"
                     ELSE IF kind[p] = "stop" THEN "disarm" ELSE "verdict"
<1>1. pc[p] \in Places(kind[p]) /\ kind[p] \in {""} \cup Commands
  BY DEF TypeInv, InPlace, TypeOK
<1>2. kind[p] \in {"run", "stop", "check"}
  BY <1>1 DEF Places, Probing, Creating, Commands
<1>3. /\ backend'[p] = b /\ pc'[p] = After(p, "probe_del")
      /\ fails'[p] = (fails[p] \/ (kind[p] = "check" /\ (b = "none" \/ ~scene.tools)))
  BY DEF Detected, TypeInv, TypeOK
<1> QED
  BY <1>2, <1>3, AfterRun, AfterStop, AfterCheckRooted, AfterCheck

LEMMA GotDoes ==
  ASSUME TypeInv, NEW p \in Procs, NEW t, Got(p, t), pc[p] \in {"token"} \cup Creating
  PROVE  /\ kind[p] \in {"run", "token"} /\ tok'[p] = t
         /\ pc'[p] = IF kind[p] = "run" THEN "serving"
                     ELSE IF t = "" THEN "refused" ELSE "printed"
<1>1. pc[p] \in Places(kind[p]) /\ kind[p] \in {""} \cup Commands
  BY DEF TypeInv, InPlace, TypeOK
<1>2. kind[p] \in {"run", "token"}
  BY <1>1 DEF Places, Probes, Creating, Commands
<1>3. tok'[p] = t
      /\ pc'[p] = IF t = "" /\ kind[p] = "token" THEN "refused" ELSE After(p, "token")
  BY DEF Got, TypeInv, TypeOK
<1> QED
  BY <1>2, <1>3, AfterRun, AfterToken

LEMMA BringUpDoes ==
  ASSUME TypeInv, NEW p \in Procs, BringUp(p)
  PROVE  pc[p] = "up" /\ kind[p] = "run" /\ pc'[p] = "token"
<1>1. pc[p] = "up" /\ pc'[p] = After(p, "up")
      /\ pc[p] \in Places(kind[p]) /\ kind[p] \in {""} \cup Commands
  BY DEF BringUp, TypeInv, InPlace, TypeOK
<1>2. kind[p] = "run"
  BY <1>1 DEF Places, Probes, Creating, Commands
<1> QED
  BY <1>1, <1>2, AfterRun

LEMMA DisarmDoes ==
  ASSUME TypeInv, NEW p \in Procs, Disarm(p)
  PROVE  pc[p] = "disarm" /\ kind[p] = "stop" /\ pc'[p] = "stopped"
<1>1. pc[p] = "disarm" /\ pc'[p] = After(p, "disarm")
      /\ pc[p] \in Places(kind[p]) /\ kind[p] \in {""} \cup Commands
  BY DEF Disarm, TypeInv, InPlace, TypeOK
<1>2. kind[p] = "stop"
  BY <1>1 DEF Places, Probes, Creating, Commands
<1> QED
  BY <1>1, <1>2, AfterStop

\* The steps of the commands leave the files and the machines, and each the other commands.
LEMMA SceneStays == ASSUME [Next]_vars PROVE scene' = scene
<1>1. ASSUME NEW p \in Procs, Step(p) PROVE scene' = scene
  BY <1>1 DEF Step, Start, Load, Resolve, Guard, Confs, Arm, Repair, Disarm, ProbeDel, ProbeAdd,
     ProbeUndo, BringUp, Verdict, TokenRead, TokenTruncate, TokenWrite, machine
<1> QED
  BY <1>1 DEF Next, Kill, Flush, Move, Delete, machine, vars

Own(p) == Step(p) \/ Kill(p)

LEMMA OthersStay ==
  ASSUME TypeInv, NEW p \in Procs, NEW q \in Procs, p # q, Own(p)
  PROVE  Same(q)
<1>1. q \in DOMAIN pc /\ q \in DOMAIN fails /\ q \in DOMAIN backend /\ q \in DOMAIN tok
      /\ q \in DOMAIN kind /\ q \in DOMAIN cfg /\ q \in DOMAIN up
  BY DEF TypeInv, TypeOK
<1>3. ASSUME NEW k \in Commands, Start(p, k) PROVE Same(q)
  BY <1>3 DEF Start, Same, machine, history
<1>4. ASSUME NEW step, NEW bad, Judge(p, step, bad)
      PROVE  pc'[q] = pc[q] /\ fails'[q] = fails[q]
  BY <1>4 DEF Judge
<1>5. CASE Load(p)
  BY <1>4, <1>5 DEF Load, Same
<1>6. CASE Resolve(p)
  <2>1. /\ cfg' = cfg \/ cfg' = [cfg EXCEPT ![p] = Resolved(@)]
        /\ \E step, bad : Judge(p, step, bad)
        /\ UNCHANGED << kind, backend, up, tok >>
    BY <1>6 DEF Resolve
  <2>2. cfg'[q] = cfg[q]
    BY <1>1, <2>1
  <2> QED
    BY <1>4, <2>1, <2>2 DEF Same
<1>7. CASE Guard(p)
  <2>1. PICK bad : Judge(p, "guard", bad)
    BY <1>7 DEF Guard
  <2> QED
    BY <1>4, <1>7, <2>1 DEF Guard, Same
<1>8. CASE Confs(p)
  <2>1. PICK bad : Judge(p, "confs", bad)
    BY <1>8 DEF Confs
  <2> QED
    BY <1>4, <1>8, <2>1 DEF Confs, Same
<1>9. CASE Arm(p)
  BY <1>4, <1>9 DEF Arm, Same
<1>10. CASE Repair(p)
  BY <1>10 DEF Repair, Same
<1>11. CASE Disarm(p)
  BY <1>11 DEF Disarm, Same
<1>12. CASE ProbeDel(p)
  BY <1>12 DEF ProbeDel, Same
<1>13. ASSUME NEW b, Detected(p, b)
       PROVE  pc'[q] = pc[q] /\ fails'[q] = fails[q] /\ backend'[q] = backend[q]
  BY <1>13 DEF Detected
<1>14. CASE ProbeAdd(p)
  <2>1. \/ pc' = [pc EXCEPT ![p] = "probe_undo"] /\ UNCHANGED << fails, backend >>
        \/ Detected(p, Fallback)
    BY <1>14 DEF ProbeAdd
  <2>2. UNCHANGED << kind, cfg, up, tok >>
    BY <1>14 DEF ProbeAdd
  <2>3. CASE pc' = [pc EXCEPT ![p] = "probe_undo"] /\ UNCHANGED << fails, backend >>
    BY <1>1, <2>2, <2>3 DEF Same
  <2>4. CASE Detected(p, Fallback)
    BY <1>13, <2>2, <2>4 DEF Same
  <2> QED
    BY <2>1, <2>3, <2>4
<1>15. CASE ProbeUndo(p)
  BY <1>13, <1>15 DEF ProbeUndo, Same, history
<1>16. CASE BringUp(p)
  BY <1>16 DEF BringUp, Same
<1>17. CASE Verdict(p)
  BY <1>17 DEF Verdict, Same
<1>18. ASSUME NEW t, Got(p, t) PROVE pc'[q] = pc[q] /\ tok'[q] = tok[q]
  <2> DEFINE place == IF t = "" /\ kind[p] = "token" THEN "refused" ELSE After(p, "token")
  <2>1. tok' = [tok EXCEPT ![p] = t] /\ pc' = [pc EXCEPT ![p] = place]
    BY <1>18 DEF Got
  <2> HIDE DEF place
  <2> QED
    BY <1>1, <2>1
<1>19. CASE TokenRead(p)
  <2>1. \/ pc' = [pc EXCEPT ![p] = "truncate"] /\ tok' = tok
        \/ Got(p, "") \/ Got(p, "env") \/ Got(p, file)
    BY <1>19 DEF TokenRead
  <2>2. UNCHANGED << kind, cfg, fails, backend, up >>
    BY <1>19 DEF TokenRead
  <2>3. ASSUME NEW t, Got(p, t) PROVE Same(q)
    BY <1>18, <2>2, <2>3 DEF Same
  <2> QED
    BY <1>1, <2>1, <2>2, <2>3 DEF Same
<1>20. CASE TokenTruncate(p)
  <2>1. \/ pc' = [pc EXCEPT ![p] = "write"] /\ tok' = tok
        \/ Got(p, "")
    BY <1>20 DEF TokenTruncate
  <2>2. UNCHANGED << kind, cfg, fails, backend, up >>
    BY <1>20 DEF TokenTruncate
  <2>3. ASSUME NEW t, Got(p, t) PROVE Same(q)
    BY <1>18, <2>2, <2>3 DEF Same
  <2> QED
    BY <1>1, <2>1, <2>2, <2>3 DEF Same
<1>21. CASE TokenWrite(p)
  BY <1>18, <1>21 DEF TokenWrite, Same
<1>22. CASE Kill(p)
  BY <1>22 DEF Kill, Same
<1> QED
  BY <1>3, <1>5, <1>6, <1>7, <1>8, <1>9, <1>10, <1>11, <1>12, <1>14, <1>15, <1>16, <1>17, <1>19,
     <1>20, <1>21, <1>22 DEF Own, Step

\* So of one command, a step is its own or leaves it as it is.
LEMMA OneMoves ==
  ASSUME TypeInv, [Next]_vars, NEW q \in Procs
  PROVE  Own(q) \/ Same(q)
<1>1. ASSUME Flush \/ Move \/ Delete \/ UNCHANGED vars PROVE Same(q)
  BY <1>1 DEF Flush, Move, Delete, vars, Same
<1>2. ASSUME NEW p \in Procs, Own(p) PROVE Own(q) \/ Same(q)
  BY <1>2, OthersStay
<1> QED
  BY <1>1, <1>2 DEF Next, Own

LEMMA StartDoes ==
  ASSUME TypeInv, NEW p \in Procs, NEW k \in Commands, Start(p, k)
  PROVE  /\ pc[p] = "off" /\ kind'[p] = k /\ pc'[p] = "load"
         /\ cfg'[p] = cfg[p] /\ fails'[p] = fails[p] /\ backend'[p] = backend[p]
         /\ up'[p] = up[p] /\ tok'[p] = tok[p]
  BY DEF Start, TypeInv, TypeOK, machine, history

LEMMA KillDoes ==
  ASSUME TypeInv, NEW p \in Procs, Kill(p)
  PROVE  /\ pc[p] \notin Ended \cup {"off"} /\ pc'[p] = "dead"
         /\ kind'[p] = kind[p] /\ cfg'[p] = cfg[p] /\ fails'[p] = fails[p]
         /\ backend'[p] = backend[p] /\ up'[p] = up[p] /\ tok'[p] = tok[p]
  BY DEF Kill, TypeInv, TypeOK, machine

LEMMA ProbeDelDoes ==
  ASSUME TypeInv, NEW p \in Procs, ProbeDel(p)
  PROVE  /\ pc[p] = "probe_del" /\ pc'[p] = "probe_add" /\ fails'[p] = fails[p]
         /\ backend'[p] = backend[p]
  BY DEF ProbeDel, TypeInv, TypeOK

LEMMA ProbeAddDoes ==
  ASSUME TypeInv, NEW p \in Procs, ProbeAdd(p)
  PROVE  /\ pc[p] = "probe_add"
         /\ \/ /\ scene.kernel /\ Rooted(p) /\ ~probe /\ probe' = TRUE /\ pc'[p] = "probe_undo"
               /\ fails'[p] = fails[p] /\ backend'[p] = backend[p] /\ upset' = upset
            \/ /\ Detected(p, Fallback)
               /\ \/ ~(scene.kernel /\ Rooted(p) /\ ~probe) /\ probe' = probe
                  \/ "fault" \in upset /\ "fault" \notin upset'
  BY DEF ProbeAdd, TypeInv, TypeOK

LEMMA VerdictDoes ==
  ASSUME TypeInv, NEW p \in Procs, Verdict(p)
  PROVE  /\ pc[p] = "verdict" /\ pc'[p] = IF fails[p] THEN "problems" ELSE "safe"
         /\ fails'[p] = fails[p]
  BY DEF Verdict, TypeInv, TypeOK

\* What comes after the questions of prepare and checkTunnelConfigs.
Further == {"arm", "disarm", "probe_del", "probe_add", "probe_undo", "up", "verdict", "token",
            "truncate", "write", "serving"}
Question(p) == (\E k \in Commands : Start(p, k)) \/ Load(p) \/ Resolve(p) \/ Guard(p) \/ Confs(p)

LEMMA FurtherOn ==
  ASSUME TypeInv, NEW p \in Procs, Own(p), ~Question(p)
  PROVE  /\ kind'[p] = kind[p] /\ cfg'[p] = cfg[p]
         /\ pc'[p] = "dead" \/ (pc[p] \in Further /\ pc'[p] \in Further \cup Ended)
         /\ pc[p] # "off"
         /\ pc'[p] = "up" => backend'[p] # ""
<1>1. CASE Arm(p)
  BY <1>1, ArmDoes DEF Further, Ended, Arm
<1>2. CASE Repair(p)
  BY <1>2 DEF Further, Ended, Repair
<1>3. CASE Disarm(p)
  BY <1>3, DisarmDoes DEF Further, Ended, Disarm
<1>4. CASE ProbeDel(p)
  BY <1>4, ProbeDelDoes DEF Further, Ended, ProbeDel
<1>5. CASE ProbeAdd(p)
  <2>1. pc[p] = "probe_add" /\ UNCHANGED << kind, cfg >>
    BY <1>5 DEF ProbeAdd
  <2>2. CASE pc'[p] = "probe_undo"
    BY <2>1, <2>2 DEF Further, Ended
  <2>3. CASE Detected(p, Fallback)
    <3>1. pc'[p] \in {"up", "disarm", "verdict"} /\ backend'[p] = Fallback
      BY <2>1, <2>3, DetectedDoes DEF Probing
    <3> QED
      BY <2>1, <3>1 DEF Further, Fallback
  <2> QED
    BY <1>5, <2>2, <2>3, ProbeAddDoes
<1>6. CASE ProbeUndo(p)
  <2>1. pc[p] = "probe_undo" /\ Detected(p, "kernel") /\ UNCHANGED << kind, cfg >>
    BY <1>6 DEF ProbeUndo
  <2>2. pc'[p] \in {"up", "disarm", "verdict"} /\ backend'[p] = "kernel"
    BY <2>1, DetectedDoes DEF Probing
  <2> QED
    BY <2>1, <2>2 DEF Further
<1>7. CASE BringUp(p)
  BY <1>7, BringUpDoes DEF Further, Ended, BringUp
<1>8. CASE Verdict(p)
  <2>1. pc[p] = "verdict" /\ pc'[p] \in {"problems", "safe"} /\ UNCHANGED << kind, cfg >>
    BY <1>8, VerdictDoes DEF Verdict
  <2> QED
    BY <2>1 DEF Further, Ended
<1>9. ASSUME NEW t, Got(p, t), pc[p] \in {"token"} \cup Creating, UNCHANGED << kind, cfg >>
      PROVE  /\ kind'[p] = kind[p] /\ cfg'[p] = cfg[p]
             /\ pc[p] \in Further /\ pc'[p] \in Further \cup Ended /\ pc'[p] # "up"
  BY <1>9, GotDoes DEF Further, Ended, Creating
<1>10. CASE TokenRead(p)
  <2>1. pc[p] = "token" /\ UNCHANGED << kind, cfg >>
    BY <1>10 DEF TokenRead
  <2>2. CASE pc' = [pc EXCEPT ![p] = "truncate"]
    BY <2>1, <2>2 DEF Further, Ended, TypeInv, TypeOK
  <2> QED
    BY <1>9, <1>10, <2>1, <2>2 DEF TokenRead
<1>11. CASE TokenTruncate(p)
  <2>1. pc[p] \in Creating /\ pc[p] = "truncate" /\ UNCHANGED << kind, cfg >>
    BY <1>11 DEF TokenTruncate, Creating
  <2>2. CASE pc' = [pc EXCEPT ![p] = "write"]
    BY <2>1, <2>2 DEF Further, Ended, TypeInv, TypeOK
  <2> QED
    BY <1>9, <1>11, <2>1, <2>2 DEF TokenTruncate
<1>12. CASE TokenWrite(p)
  BY <1>9, <1>12 DEF TokenWrite, Creating
<1>13. CASE Kill(p)
  BY <1>13, KillDoes DEF Ended
<1> QED
  BY <1>1, <1>2, <1>3, <1>4, <1>5, <1>6, <1>7, <1>8, <1>10, <1>11, <1>12, <1>13
     DEF Own, Step, Question

-----------------------------------------------------------------------------
(* What a command has read, and what a tunnel is told.                     *)

LEMMA FreshStep == TypeInv /\ FreshInv /\ [Next]_vars => FreshInv'
<1> SUFFICES ASSUME TypeInv, FreshInv, [Next]_vars, NEW p \in Procs
             PROVE  /\ pc'[p] = "off" => backend'[p] = "" /\ ~fails'[p]
                    /\ pc'[p] = "up" => backend'[p] # ""
  BY DEF FreshInv
<1>1. CASE Same(p)
  BY <1>1 DEF Same, FreshInv
<1>2. CASE Own(p) /\ Question(p)
  <2>1. CASE \E k \in Commands : Start(p, k)
    BY <2>1, StartDoes
  <2> QED
    BY <1>2, <2>1, LoadDoes, ResolveDoes, GuardDoes, ConfsDoes DEF Question
<1>3. CASE Own(p) /\ ~Question(p)
  BY <1>3, FurtherOn DEF Further, Ended
<1> QED
  BY <1>1, <1>2, <1>3, OneMoves

LEMMA ReadStep == TypeInv /\ ReadInv /\ [Next]_vars => ReadInv'
<1> SUFFICES ASSUME TypeInv, ReadInv, [Next]_vars, NEW p \in Procs
             PROVE  /\ pc'[p] \notin {"off", "load", "dead"} =>
                         /\ DOMAIN cfg'[p] = Lists \cup Settings
                         /\ \A k \in (Lists \cup Settings) \ {"lan", "wan_interface"} :
                              cfg'[p][k] = Read.cfg[k]
                    /\ pc'[p] = "resolve" \/ (kind'[p] = "check" /\ pc'[p] = "confs")
                         => cfg'[p] = Read.cfg
                    /\ pc'[p] \notin {"off", "load", "dead", "refused"} /\ kind'[p] # "check"
                         => Valid(Read)
  BY SceneStays DEF ReadInv, Read
<1>1. CASE Same(p)
  BY <1>1 DEF Same, ReadInv
<1>2. CASE \E k \in Commands : Start(p, k)
  BY <1>2, StartDoes
<1>3. CASE Load(p)
  <2>1. DOMAIN Read.cfg = Lists \cup Settings
    <3>1. IsFile(scene.lines)
      BY StartupAssumption DEF TypeInv, TypeOK, IsFile
    <3> QED
      BY <3>1, LoadConfigMeans DEF Read, Readings, Configs
  <2>2. kind'[p] = kind[p]
    BY <1>3 DEF Load
  <2> QED
    BY <1>3, <2>1, <2>2, LoadDoes
<1>4. CASE Resolve(p)
  <2>1. /\ DOMAIN cfg[p] = Lists \cup Settings
        /\ \A k \in (Lists \cup Settings) \ {"lan", "wan_interface"} : cfg[p][k] = Read.cfg[k]
        /\ cfg[p] = Read.cfg /\ kind'[p] = kind[p]
        /\ kind[p] # "check" => Valid(Read)
    BY <1>4, ResolveDoes DEF ReadInv, Resolve
  <2>2. /\ DOMAIN Resolved(cfg[p]) = DOMAIN cfg[p]
        /\ \A k \in DOMAIN cfg[p] \ {"lan", "wan_interface"} : Resolved(cfg[p])[k] = cfg[p][k]
    BY DEF Resolved
  <2> QED
    BY <1>4, <2>1, <2>2, ResolveDoes
<1>5. CASE Guard(p)
  <2>1. kind'[p] = kind[p]
    BY <1>5 DEF Guard
  <2> QED
    BY <1>5, <2>1, GuardDoes DEF ReadInv
<1>6. CASE Confs(p)
  <2>1. kind'[p] = kind[p]
    BY <1>6 DEF Confs
  <2> QED
    BY <1>6, <2>1, ConfsDoes DEF ReadInv
<1>7. CASE Own(p) /\ ~Question(p)
  <2>1. /\ kind'[p] = kind[p] /\ cfg'[p] = cfg[p]
        /\ pc'[p] = "dead" \/ (pc[p] \in Further /\ pc'[p] \in Further \cup Ended)
    BY <1>7, FurtherOn
  <2>2. CASE pc'[p] = "dead"
    BY <2>2
  <2>3. CASE pc[p] \in Further /\ pc'[p] \in Further \cup Ended
    <3>1. /\ pc'[p] \notin {"resolve", "confs"}
          /\ pc[p] \notin {"off", "load", "dead", "refused"}
      BY <2>3 DEF Further, Ended
    <3> QED
      BY <2>1, <3>1 DEF ReadInv
  <2> QED
    BY <2>1, <2>2, <2>3
<1> QED
  BY <1>1, <1>2, <1>3, <1>4, <1>5, <1>6, <1>7, OneMoves DEF Question

LEMMA UpStays == ASSUME [Next]_vars PROVE up' = up \/ \E p \in Procs : BringUp(p)
<1>1. ASSUME NEW p \in Procs, Step(p) PROVE up' = up \/ BringUp(p)
  BY <1>1 DEF Step, Start, Load, Resolve, Guard, Confs, Arm, Repair, Disarm, ProbeDel, ProbeAdd,
     ProbeUndo, Verdict, TokenRead, TokenTruncate, TokenWrite
<1> QED
  BY <1>1 DEF Next, Kill, Flush, Move, Delete, vars

LEMMA ToldStep == TypeInv /\ FreshInv /\ ToldInv /\ [Next]_vars => ToldInv'
<1> SUFFICES ASSUME TypeInv, FreshInv, ToldInv, [Next]_vars PROVE ToldInv'
  OBVIOUS
<1>1. scene' = scene
  BY SceneStays
<1>2. CASE up' = up
  BY <1>1, <1>2 DEF ToldInv
<1>3. ASSUME NEW p \in Procs, BringUp(p) PROVE ToldInv'
  <2> DEFINE u == Uapi(scene.wg)
             new == CASE backend[p] = "kernel" -> [how |-> "wg-quick", text |-> << >>]
                      [] backend[p] = "none" -> NoTunnel
                      [] backend[p] = "userspace" ->
                           IF UapiTaken(u) THEN [how |-> "wireguard-go", text |-> u.text]
                                           ELSE [how |-> "bare", text |-> << >>]
  <2>1. pc[p] = "up" /\ up' = [up EXCEPT ![p] = new]
    BY <1>3 DEF BringUp
  <2>2. backend[p] \in {"kernel", "userspace", "none"}
    BY <2>1 DEF FreshInv, TypeInv, TypeOK
  <2>3. \/ new \in {NoTunnel, [how |-> "wg-quick", text |-> << >>]}
        \/ UapiTaken(u) /\ new = [how |-> "wireguard-go", text |-> u.text]
        \/ ~UapiTaken(u) /\ new = [how |-> "bare", text |-> << >>]
    BY <2>2
  <2> HIDE DEF new
  <2>4. \A q \in Procs : up'[q] = IF q = p THEN new ELSE up[q]
    BY <2>1 DEF TypeInv
  <2> QED
    BY <1>1, <2>3, <2>4 DEF ToldInv
<1> QED
  BY <1>2, <1>3, UpStays

ReadingsInv == TypeInv /\ FreshInv /\ ReadInv /\ ToldInv

LEMMA ReadingsHold == Spec => []ReadingsInv
<1>1. Init => ReadingsInv
  BY TypeInit DEF Init, ReadingsInv, FreshInv, ReadInv, ToldInv
<1>2. ReadingsInv /\ [Next]_vars => ReadingsInv'
  BY TypeStep, FreshStep, ReadStep, ToldStep DEF ReadingsInv
<1> QED
  BY <1>1, <1>2, PTL DEF Spec

\* Whatever the configuration file holds, in every command past its load every setting and
\* list is what the lines say when the file is read as a whole, and a command other than
\* `check` has gone on only when every line could be read (config.go:LoadConfig).
THEOREM FileReadAsWritten == Spec => []ReadAsWritten
<1>1. TypeInv /\ ReadInv => ReadAsWritten
  <2> SUFFICES ASSUME TypeInv, ReadInv, NEW p \in Procs, pc[p] \notin {"off", "load", "dead"}
               PROVE  /\ \A k \in (Lists \cup Settings) \ {"lan", "wan_interface"} :
                           Means(scene.lines, k, cfg[p][k])
                      /\ kind[p] # "check" /\ pc[p] # "refused" =>
                           \A i \in DOMAIN scene.lines : ~Misread(scene.lines, i)
    BY DEF ReadAsWritten
  <2>1. IsFile(scene.lines)
    BY StartupAssumption DEF TypeInv, TypeOK, IsFile
  <2>2. /\ \A k \in Lists \cup Settings : Means(scene.lines, k, Read.cfg[k])
        /\ Read.errs = 0 => \A i \in DOMAIN scene.lines : ~Misread(scene.lines, i)
    BY <2>1, LoadConfigMeans DEF Read
  <2>3. kind[p] # "check" /\ pc[p] # "refused" => Read.errs = 0
    BY DEF ReadInv, Valid
  <2>4. \A k \in (Lists \cup Settings) \ {"lan", "wan_interface"} : cfg[p][k] = Read.cfg[k]
    BY DEF ReadInv
  <2> QED
    BY <2>2, <2>3, <2>4
<1> QED
  BY <1>1, ReadingsHold, PTL DEF ReadingsInv

\* Whatever a well-formed WireGuard file holds, wireguard-go is told its lines in their order
\* and takes them, so its interface is never left without a tunnel (userspace.go:
\* uapiFromConfig, userspaceUp).
THEOREM FileToldAsWritten == Spec => []ToldAsWritten
<1>1. TypeInv /\ ToldInv => ToldAsWritten
  <2> SUFFICES ASSUME TypeInv, ToldInv, NEW p \in Procs, WellFormed(scene.wg)
               PROVE  /\ up[p].how # "bare"
                      /\ up[p].how = "wireguard-go" =>
                           InOrder(up[p].text, scene.wg, Telling(scene.wg))
    BY DEF ToldAsWritten, Telling
  <2>1. scene.wg \in Seq(Range(scene.wg))
    BY StartupAssumption DEF TypeInv, TypeOK
  <2>2. /\ UapiTaken(Uapi(scene.wg))
        /\ InOrder(Uapi(scene.wg).text, scene.wg, Telling(scene.wg))
    BY <2>1, UapiTells
  <2>3. \/ up[p].how \in {"", "wg-quick"}
        \/ up[p].how = "wireguard-go" /\ up[p].text = Uapi(scene.wg).text
    <3>1. NoTunnel.how = "" /\ [how |-> "wg-quick", text |-> << >>].how = "wg-quick"
      BY DEF NoTunnel
    <3>2. CASE up[p] \in {NoTunnel, [how |-> "wg-quick", text |-> << >>]}
      <4>1. up[p].how = NoTunnel.how \/ up[p].how = [how |-> "wg-quick", text |-> << >>].how
        BY <3>2, Zenon
      <4> QED
        BY <3>1, <4>1
    <3>3. CASE up[p] = [how |-> "wireguard-go", text |-> Uapi(scene.wg).text]
      BY <3>3
    <3> QED
      BY <2>2, <3>2, <3>3 DEF ToldInv
  <2> QED
    BY <2>2, <2>3
<1> QED
  BY <1>1, ReadingsHold, PTL DEF ReadingsInv

-----------------------------------------------------------------------------
(* How a command finds out how tunnels are made.                           *)

LEMMA HistoryGrows ==
  ASSUME [Next]_vars
  PROVE  raced \subseteq raced' /\ upset' \subseteq upset
<1>1. ASSUME NEW p \in Procs, Step(p) PROVE raced \subseteq raced' /\ upset' \subseteq upset
  BY <1>1 DEF Step, Start, Load, Resolve, Guard, Confs, Arm, Repair, Disarm, ProbeDel, ProbeAdd,
     ProbeUndo, BringUp, Verdict, TokenRead, TokenTruncate, TokenWrite, history
<1>2. ASSUME NEW p \in Procs, Kill(p) PROVE raced \subseteq raced' /\ upset' \subseteq upset
  BY <1>2 DEF Kill
<1> QED
  BY <1>1, <1>2 DEF Next, Flush, Move, Delete, vars

\* So what has not happened after a step had not happened before it.
LEMMA HappenedGrows ==
  ASSUME [Next]_vars, NEW x, x \notin Happened'
  PROVE  x \notin Happened /\ (x \in upset \cap scene.upsets => x \in upset')
  BY HistoryGrows, SceneStays DEF Happened

LEMMA ProbeAppears ==
  ASSUME [Next]_vars PROVE (probe' => probe) \/ \E p \in Procs : ProbeAdd(p)
<1>1. ASSUME NEW p \in Procs, Step(p) PROVE (probe' => probe) \/ ProbeAdd(p)
  BY <1>1 DEF Step, Start, Load, Resolve, Guard, Confs, Arm, Repair, Disarm, ProbeDel,
     ProbeUndo, BringUp, Verdict, TokenRead, TokenTruncate, TokenWrite, machine
<1> QED
  BY <1>1 DEF Next, Kill, Flush, Move, Delete, vars, machine

LEMMA NotProbing ==
  ASSUME TypeInv, NEW p \in Procs, Own(p), pc[p] \notin {"off", "probe_del"} \cup Probing
  PROVE  pc'[p] \notin Probing /\ kind'[p] = kind[p] /\ backend'[p] = backend[p]
<1>1. CASE Load(p)
  BY <1>1, LoadDoes DEF Probing, Load
<1>2. CASE Resolve(p)
  BY <1>2, ResolveDoes DEF Probing, Resolve
<1>3. CASE Guard(p)
  BY <1>3, GuardDoes DEF Probing, Guard
<1>4. CASE Confs(p)
  BY <1>4, ConfsDoes DEF Probing, Confs
<1>5. CASE Arm(p)
  BY <1>5, ArmDoes DEF Probing, Arm
<1>6. CASE Repair(p)
  BY <1>6 DEF Probing, Repair
<1>7. CASE Disarm(p)
  BY <1>7, DisarmDoes DEF Probing, Disarm
<1>8. CASE BringUp(p)
  BY <1>8, BringUpDoes DEF Probing, BringUp
<1>9. CASE Verdict(p)
  BY <1>9, VerdictDoes DEF Probing, Verdict
<1>10. ASSUME NEW t, Got(p, t), pc[p] \in {"token"} \cup Creating, UNCHANGED << kind, backend >>
       PROVE  pc'[p] \notin Probing /\ kind'[p] = kind[p] /\ backend'[p] = backend[p]
  BY <1>10, GotDoes DEF Probing
<1>11. CASE TokenRead(p)
  <2>1. pc[p] = "token" /\ UNCHANGED << kind, backend >>
    BY <1>11 DEF TokenRead
  <2>2. CASE pc' = [pc EXCEPT ![p] = "truncate"]
    BY <2>1, <2>2 DEF Probing, TypeInv, TypeOK
  <2> QED
    BY <1>10, <1>11, <2>1, <2>2 DEF TokenRead
<1>12. CASE TokenTruncate(p)
  <2>1. pc[p] \in Creating /\ UNCHANGED << kind, backend >>
    BY <1>12 DEF TokenTruncate, Creating
  <2>2. CASE pc' = [pc EXCEPT ![p] = "write"]
    BY <2>1, <2>2 DEF Probing, TypeInv, TypeOK
  <2> QED
    BY <1>10, <1>12, <2>1, <2>2 DEF TokenTruncate
<1>13. CASE TokenWrite(p)
  BY <1>10, <1>13 DEF TokenWrite, Creating
<1>14. CASE Kill(p)
  BY <1>14, KillDoes DEF Probing
<1> QED
  BY <1>1, <1>2, <1>3, <1>4, <1>5, <1>6, <1>7, <1>8, <1>9, <1>11, <1>12, <1>13, <1>14
     DEF Own, Step, Start, ProbeDel, ProbeAdd, ProbeUndo, Probing

LEMMA ProbeStep == TypeInv /\ FreshInv /\ ProbeInv /\ [Next]_vars => ProbeInv'
<1> SUFFICES ASSUME TypeInv, FreshInv, ProbeInv, [Next]_vars,
                    "probe" \notin raced', "fault" \notin Happened', NEW q \in Procs
             PROVE  /\ pc'[q] = "probe_add" /\ Rooted(q)' => ~probe'
                    /\ pc'[q] = "probe_undo" => scene'.kernel
                    /\ Rooted(q)' /\ backend'[q] # "" => backend'[q] = MachineBackend'
  BY DEF ProbeInv
<1>1. scene' = scene /\ MachineBackend' = MachineBackend
  BY SceneStays DEF MachineBackend, Fallback
<1>2. /\ pc[q] = "probe_add" /\ Rooted(q) => ~probe
      /\ pc[q] = "probe_undo" => scene.kernel
      /\ Rooted(q) /\ backend[q] # "" => backend[q] = MachineBackend
      /\ "fault" \in upset => "fault" \in upset'
  BY HistoryGrows, HappenedGrows DEF ProbeInv, TypeInv
<1>3. kind'[q] = kind[q] => Rooted(q)' = Rooted(q)
  BY <1>1 DEF Rooted
<1>4. CASE Same(q)
  <2>1. ASSUME NEW p \in Procs, ProbeAdd(p), pc[q] = "probe_add", p # q PROVE FALSE
    BY <2>1 DEF ProbeAdd, Probing
  <2>2. pc[q] = "probe_add" /\ Rooted(q) => ~probe'
    <3>1. CASE ProbeAdd(q)
      <4>1. CASE Detected(q, Fallback)
        <5>1. pc[q] \in Probing
          BY <3>1 DEF ProbeAdd, Probing
        <5> QED
          BY <1>4, <4>1, <5>1, DetectedDoes DEF Same, Probing
      <4>2. CASE pc'[q] = "probe_undo"
        BY <1>4, <4>2 DEF Same
      <4> QED
        BY <3>1, <4>1, <4>2, ProbeAddDoes
    <3> QED
      BY <1>2, <2>1, <3>1, ProbeAppears
  <2> QED
    BY <1>1, <1>2, <1>3, <1>4, <2>2 DEF Same
<1>5. CASE \E k \in Commands : Start(q, k)
  BY <1>5, StartDoes DEF FreshInv
<1>6. CASE ProbeDel(q)
  <2>1. kind'[q] = kind[q] /\ probe' = (probe /\ ~Rooted(q))
    BY <1>6 DEF ProbeDel
  <2> QED
    BY <1>1, <1>2, <1>3, <1>6, <2>1, ProbeDelDoes
<1>7. CASE ProbeAdd(q)
  <2>1. kind'[q] = kind[q] /\ pc[q] \in Probing
    BY <1>7 DEF ProbeAdd, Probing
  <2>2. CASE scene.kernel /\ pc'[q] = "probe_undo" /\ backend'[q] = backend[q]
    BY <1>1, <1>2, <1>3, <2>1, <2>2
  <2>3. CASE Detected(q, Fallback) /\ ~(scene.kernel /\ Rooted(q) /\ ~probe)
    <3>1. Rooted(q) => MachineBackend = Fallback
      BY <1>2, <1>7, <2>3, ProbeAddDoes DEF MachineBackend
    <3> QED
      BY <1>1, <1>3, <2>1, <2>3, <3>1, DetectedDoes
  <2> QED
    BY <1>2, <1>7, <2>2, <2>3, ProbeAddDoes
<1>8. CASE ProbeUndo(q)
  <2>1. pc[q] = "probe_undo" /\ pc[q] \in Probing /\ kind'[q] = kind[q] /\ Detected(q, "kernel")
    BY <1>8 DEF ProbeUndo, Probing
  <2>2. MachineBackend = "kernel"
    BY <1>2, <2>1 DEF MachineBackend
  <2> QED
    BY <1>1, <2>1, <2>2, DetectedDoes
<1>9. CASE Own(q) /\ pc[q] \notin {"off", "probe_del"} \cup Probing
  BY <1>1, <1>2, <1>3, <1>9, NotProbing DEF Probing
<1>10. CASE Kill(q)
  BY <1>1, <1>2, <1>3, <1>10, KillDoes
<1>11. Own(q) /\ pc[q] \in {"off", "probe_del"} \cup Probing =>
         \/ \E k \in Commands : Start(q, k)
         \/ ProbeDel(q) \/ ProbeAdd(q) \/ ProbeUndo(q) \/ Kill(q)
  BY DEF Own, Step, Probing, Load, Resolve, Guard, Confs, Arm, Repair, Disarm, BringUp, Verdict,
         TokenRead, TokenTruncate, TokenWrite
<1> QED
  BY <1>4, <1>5, <1>6, <1>7, <1>8, <1>9, <1>10, <1>11, OneMoves

\* Whatever kernel and tools the machine has and whatever commands were killed on it, each
\* command takes the backend the machine really has, as long as no two were probing at once
\* and no probe failed (userspace.go:detectBackend).
THEOREM BackendIsTrue == Spec => []BackendTruth
<1>1. Init => ProbeInv
  BY DEF Init, ProbeInv
<1>2. ReadingsInv /\ ProbeInv /\ [Next]_vars => ProbeInv'
  BY ProbeStep DEF ReadingsInv
<1>3. ProbeInv => BackendTruth
  BY DEF ProbeInv, BackendTruth
<1> QED
  BY <1>1, <1>2, <1>3, ReadingsHold, PTL DEF Spec

-----------------------------------------------------------------------------
(* The token in its file.                                                  *)

LEMMA FileWritten ==
  ASSUME [Next]_vars
  PROVE  \/ file' = file /\ outdated' = outdated
         \/ \E p \in Procs : TokenTruncate(p) \/ TokenWrite(p)
         \/ Delete
<1>1. ASSUME NEW p \in Procs, Step(p)
      PROVE  (file' = file /\ outdated' = outdated) \/ TokenTruncate(p) \/ TokenWrite(p)
  BY <1>1 DEF Step, Start, Load, Resolve, Guard, Confs, Arm, Repair, Disarm, ProbeDel, ProbeAdd,
     ProbeUndo, BringUp, Verdict, TokenRead, machine, history
<1> QED
  BY <1>1 DEF Next, Kill, Flush, Move, vars, machine

LEMMA TokenElsewhere ==
  ASSUME TypeInv, NEW p \in Procs, Own(p), pc[p] \notin {"token"} \cup Creating
  PROVE  /\ tok'[p] = tok[p] /\ pc'[p] \notin Creating
         /\ pc'[p] \in {"printed", "serving"} =>
              pc'[p] = pc[p] /\ kind'[p] = kind[p] /\ cfg'[p] = cfg[p]
<1>0. \A t : [tok EXCEPT ![p] = t][p] = t
  BY DEF TypeInv, TypeOK
<1>1. CASE \E k \in Commands : Start(p, k)
  BY <1>1, StartDoes DEF Creating
<1>2. CASE Load(p)
  BY <1>2, LoadDoes DEF Creating, Load
<1>3. CASE Resolve(p)
  BY <1>3, ResolveDoes DEF Creating, Resolve
<1>4. CASE Guard(p)
  BY <1>4, GuardDoes DEF Creating, Guard
<1>5. CASE Confs(p)
  BY <1>5, ConfsDoes DEF Creating, Confs
<1>6. CASE Arm(p)
  BY <1>6, ArmDoes DEF Creating, Arm
<1>7. CASE Repair(p)
  BY <1>7 DEF Creating, Repair
<1>8. CASE Disarm(p)
  BY <1>8, DisarmDoes DEF Creating, Disarm
<1>9. CASE ProbeDel(p)
  BY <1>9, ProbeDelDoes DEF Creating, ProbeDel
<1>10. CASE ProbeAdd(p)
  <2>1. pc[p] \in Probing /\ tok' = tok
    BY <1>10 DEF ProbeAdd, Probing
  <2>2. CASE Detected(p, Fallback)
    BY <2>1, <2>2, DetectedDoes DEF Creating
  <2> QED
    BY <1>10, <2>1, <2>2, ProbeAddDoes DEF Creating
<1>11. CASE ProbeUndo(p)
  <2>1. pc[p] \in Probing /\ tok' = tok /\ Detected(p, "kernel")
    BY <1>11 DEF ProbeUndo, Probing
  <2> QED
    BY <2>1, DetectedDoes DEF Creating
<1>12. CASE BringUp(p)
  BY <1>12, BringUpDoes DEF Creating, BringUp
<1>13. CASE Verdict(p)
  BY <1>13, VerdictDoes DEF Creating, Verdict
<1>14. CASE Kill(p)
  BY <1>14, KillDoes DEF Creating
<1> QED
  BY <1>1, <1>2, <1>3, <1>4, <1>5, <1>6, <1>7, <1>8, <1>9, <1>10, <1>11, <1>12, <1>13, <1>14
     DEF Own, Step, TokenRead, TokenTruncate, TokenWrite, Creating

\* Who has printed a token or serves the settings page has one.
HasToken(p) ==
  pc[p] = "printed" \/ (pc[p] = "serving" /\ ~NoDashboard(p)) =>
    /\ scene.env = "set" => tok[p] = "env"
    /\ scene.env = "none" => tok[p] # ""
    /\ pc[p] = "printed" => scene.env \in {"none", "set"}

LEMMA GotToken ==
  ASSUME TypeInv, NEW p \in Procs, NEW t, Got(p, t), pc[p] \in {"token"} \cup Creating,
         UNCHANGED << scene, kind, cfg >>,
         \/ NoDashboard(p) /\ t = ""
         \/ scene.env = "set" /\ t = "env"
         \/ scene.env = "short" /\ t = ""
         \/ scene.env = "none" /\ t # ""
  PROVE  HasToken(p)' /\ pc'[p] \notin Creating /\ tok'[p] = t
<1>1. /\ kind[p] \in {"run", "token"} /\ tok'[p] = t
      /\ pc'[p] = IF kind[p] = "run" THEN "serving"
                  ELSE IF t = "" THEN "refused" ELSE "printed"
  BY GotDoes
<1>2. NoDashboard(p)' = NoDashboard(p)
  BY DEF NoDashboard
<1>3. NoDashboard(p) => pc'[p] = "serving"
  BY <1>1 DEF NoDashboard
<1> QED
  BY <1>1, <1>2, <1>3 DEF HasToken, Creating

\* What TokenInv says of every command as long as two were not making the token at once.
Quiet == "token" \notin raced /\ "fault" \notin Happened
Keeps ==
  /\ \A p, q \in Procs : pc[p] \in Creating /\ pc[q] \in Creating => p = q
  /\ \A p \in Procs : pc[p] \in Creating => file = "" /\ scene.env = "none"
  /\ \A p \in Procs \ outdated : scene.env = "none" /\ tok[p] # "" => tok[p] = file
  /\ \A p \in Procs : HasToken(p)

\* One step of a command that reads or makes the token.
TokenMade(q) ==
  /\ HasToken(q)'
  /\ pc'[q] \in Creating => scene.env = "none" /\ file' = ""
  /\ pc'[q] \in Creating => pc[q] \in Creating \/ \A p \in Procs : pc[p] \notin Creating
  /\ scene.env = "none" /\ tok'[q] # "" => tok'[q] = file' \/ tok'[q] = tok[q]

LEMMA TokenSteps ==
  ASSUME TypeInv, Keeps, Quiet', [Next]_vars, NEW q \in Procs,
         TokenRead(q) \/ TokenTruncate(q) \/ TokenWrite(q)
  PROVE  TokenMade(q)
<1>0. scene' = scene /\ ("fault" \in upset => "fault" \in upset')
  BY SceneStays, HappenedGrows, HistoryGrows DEF Quiet, TypeInv
<1>1. CASE TokenRead(q)
  <2>1. pc[q] = "token" /\ file' = file /\ UNCHANGED << scene, kind, cfg >>
    BY <1>1 DEF TokenRead, machine
  <2>2. CASE NoDashboard(q) /\ Got(q, "")
    BY <1>0, <2>1, <2>2, GotToken DEF TokenMade
  <2>3. CASE scene.env = "set" /\ Got(q, "env")
    BY <1>0, <2>1, <2>3, GotToken DEF TokenMade
  <2>4. CASE scene.env = "short" /\ Got(q, "")
    BY <1>0, <2>1, <2>4, GotToken DEF TokenMade
  <2>5. CASE scene.env = "none" /\ file # "" /\ Got(q, file)
    BY <1>0, <2>1, <2>5, GotToken DEF TokenMade
  <2>6. CASE /\ scene.env = "none" /\ file = "" /\ tok' = tok
             /\ pc' = [pc EXCEPT ![q] = "truncate"]
             /\ raced' = IF \E p \in Procs : pc[p] \in Creating THEN raced \cup {"token"}
                         ELSE raced
    <3>1. pc'[q] = "truncate"
      BY <2>6 DEF TypeInv
    <3>2. \A p \in Procs : pc[p] \notin Creating
      BY <2>6 DEF Quiet
    <3> QED
      BY <1>0, <2>1, <2>6, <3>1, <3>2 DEF TokenMade, HasToken
  <2> QED
    BY <1>1, <2>2, <2>3, <2>4, <2>5, <2>6 DEF TokenRead
<1>2. CASE TokenTruncate(q)
  <2>1. /\ pc[q] \in Creating /\ scene.env = "none"
        /\ file' = "" /\ pc' = [pc EXCEPT ![q] = "write"] /\ tok' = tok
    BY <1>0, <1>2 DEF TokenTruncate, Keeps, Creating
  <2>2. pc'[q] = "write"
    BY <2>1 DEF TypeInv
  <2> QED
    BY <1>0, <2>1, <2>2 DEF TokenMade, HasToken
<1>3. CASE TokenWrite(q)
  <2>1. /\ pc[q] \in Creating /\ scene.env = "none" /\ file' = q /\ Got(q, q)
        /\ UNCHANGED << kind, cfg >>
    BY <1>3 DEF TokenWrite, Keeps, Creating
  <2>2. q # ""
    BY StartupAssumption
  <2> QED
    BY <1>0, <2>1, <2>2, GotToken DEF TokenMade
<1> QED
  BY <1>1, <1>2, <1>3

LEMMA TokenStep == TypeInv /\ TokenInv /\ [Next]_vars => TokenInv'
<1> SUFFICES ASSUME TypeInv, Keeps, [Next]_vars, Quiet' PROVE Keeps'
  <2>1. ASSUME [Next]_vars, Quiet' PROVE Quiet
    BY <2>1, HistoryGrows, HappenedGrows DEF Quiet
  <2>2. TokenInv <=> (Quiet => Keeps)
    BY DEF TokenInv, Quiet, Keeps, HasToken
  <2>3. TokenInv' <=> (Quiet' => Keeps')
    BY DEF TokenInv, Quiet, Keeps, HasToken
  <2> QED
    BY <2>1, <2>2, <2>3
<1>0. scene' = scene
  BY SceneStays
<1>1. ASSUME NEW q \in Procs PROVE Same(q) \/ TokenMade(q)
                                   \/ (Own(q) /\ pc[q] \notin {"token"} \cup Creating)
                                   \/ (Own(q) /\ Kill(q))
  <2>1. Own(q) /\ pc[q] \in {"token"} \cup Creating =>
          Kill(q) \/ TokenRead(q) \/ TokenTruncate(q) \/ TokenWrite(q)
    BY DEF Own, Step, Start, Load, Resolve, Guard, Confs, Arm, Repair, Disarm, ProbeDel,
       ProbeAdd, ProbeUndo, BringUp, Verdict, Creating
  <2> QED
    BY <2>1, OneMoves, TokenSteps
<1>2. ASSUME NEW q \in Procs
      PROVE  HasToken(q)' /\ (pc'[q] \in Creating => scene.env = "none")
             /\ (pc'[q] \in Creating => pc[q] \in Creating \/ \A p \in Procs : pc[p] \notin Creating)
  <2>1. CASE Same(q)
    BY <1>0, <2>1 DEF Same, Keeps, HasToken, NoDashboard
  <2>2. CASE TokenMade(q)
    BY <2>2 DEF TokenMade
  <2>3. CASE Own(q) /\ pc[q] \notin {"token"} \cup Creating
    BY <1>0, <2>3, TokenElsewhere DEF Keeps, HasToken, NoDashboard
  <2>4. CASE Kill(q)
    BY <1>0, <2>4, KillDoes DEF HasToken, Creating
  <2> QED
    BY <1>1, <2>1, <2>2, <2>3, <2>4
<1>3. ASSUME NEW p \in Procs, NEW q \in Procs, pc'[p] \in Creating, pc'[q] \in Creating, p # q
      PROVE  FALSE
  <2>1. Same(p) \/ Same(q)
    <3>1. ASSUME NEW r \in Procs, Own(r) PROVE Same(p) \/ Same(q)
      BY <1>3, <3>1, OthersStay
    <3> QED
      BY <3>1, OneMoves
  <2> QED
    BY <1>2, <1>3, <2>1 DEF Same, Keeps
<1>4. ASSUME NEW p \in Procs, pc'[p] \in Creating PROVE file' = ""
  <2>1. CASE TokenMade(p)
    BY <1>4, <2>1 DEF TokenMade
  <2>2. CASE Same(p)
    <3>1. pc[p] \in Creating /\ file = ""
      BY <1>4, <2>2 DEF Same, Keeps
    <3>2. ASSUME NEW r \in Procs, TokenWrite(r) PROVE FALSE
      <4>1. r = p /\ Got(r, r)
        BY <3>1, <3>2 DEF TokenWrite, Keeps, Creating
      <4> QED
        BY <1>4, <3>1, <4>1, GotDoes DEF Creating
    <3>3. ASSUME NEW r \in Procs, TokenTruncate(r) PROVE file' = ""
      BY <3>1, <3>3 DEF TokenTruncate
    <3> QED
      BY <3>1, <3>2, <3>3, FileWritten DEF Delete
  <2> QED
    BY <1>1, <1>4, <2>1, <2>2, TokenElsewhere, KillDoes DEF Creating
<1>5. ASSUME NEW q \in Procs \ outdated', scene.env = "none", tok'[q] # "" PROVE tok'[q] = file'
  <2>1. tok'[q] = file' \/ tok'[q] = tok[q]
    BY <1>1, <1>5, TokenElsewhere, KillDoes DEF TokenMade, Same
  <2>2. CASE Delete
    BY <1>5, <2>2 DEF Delete
  <2>3. CASE ~Delete
    <3>1. outdated' = outdated
      BY <2>3, FileWritten DEF TokenTruncate, TokenWrite, history
    <3>2. tok[q] # "" => tok[q] = file
      BY <1>5, <3>1 DEF Keeps
    <3>3. CASE file' = file
      BY <1>5, <2>1, <3>2, <3>3
    <3>4. ASSUME NEW r \in Procs, TokenTruncate(r) PROVE file' = file
      BY <3>4 DEF TokenTruncate, Keeps, Creating
    <3>5. ASSUME NEW r \in Procs, TokenWrite(r) PROVE tok'[q] = file'
      <4>1. file = "" /\ file' = r /\ Got(r, r)
        BY <3>5 DEF TokenWrite, Keeps, Creating
      <4> QED
        BY <1>5, <2>1, <3>2, <4>1
    <3> QED
      BY <2>3, <3>3, <3>4, <3>5, FileWritten
  <2> QED
    BY <2>2, <2>3
<1> QED
  BY <1>0, <1>2, <1>3, <1>4, <1>5 DEF Keeps

\* However the commands interleave and are killed, a daemon that serves the settings page goes
\* by the token `bondvpn token` has printed, as long as no two commands were making the token
\* at once, the file was not deleted between them and its writing did not fail
\* (settings.go:adminToken).
THEOREM PrintedTokenWorks == Spec => []TokenWorks
<1>1. Init => TokenInv
  BY DEF Init, TokenInv, Creating
<1>2. ReadingsInv /\ TokenInv /\ [Next]_vars => TokenInv'
  BY TokenStep DEF ReadingsInv
<1>3. TypeInv /\ TokenInv => TokenWorks
  <2> SUFFICES ASSUME TypeInv, TokenInv, "token" \notin raced, "fault" \notin Happened,
                      NEW p \in Procs \ outdated, NEW r \in Procs \ outdated,
                      kind[p] = "token", pc[p] = "printed", kind[r] = "run", pc[r] = "serving",
                      ~NoDashboard(r)
               PROVE  tok[p] = tok[r]
    BY DEF TokenWorks
  <2>1. CASE scene.env = "set"
    BY <2>1 DEF TokenInv
  <2>2. CASE scene.env = "none"
    BY <2>2 DEF TokenInv
  <2> QED
    BY <2>1, <2>2 DEF TokenInv
<1> QED
  BY <1>1, <1>2, <1>3, ReadingsHold, PTL DEF Spec, ReadingsInv

-----------------------------------------------------------------------------
(* The machine and its own clients.                                        *)

LEMMA HostStays ==
  ASSUME TypeInv, [Next]_vars, host' = scene.host
  PROVE  host' = host
<1>1. ASSUME NEW p \in Procs, Step(p) PROVE host' = host
  BY <1>1 DEF Step, Start, Load, Resolve, Guard, Confs, Arm, Repair, Disarm, ProbeDel, ProbeAdd,
     ProbeUndo, BringUp, Verdict, TokenRead, TokenTruncate, TokenWrite, machine
<1>2. ASSUME Move PROVE FALSE
  BY <1>2 DEF Move, TypeInv, TypeOK
<1> QED
  BY <1>1, <1>2 DEF Next, Kill, Flush, Delete, machine, vars

LEMMA RunPlaces ==
  ASSUME TypeInv, NEW p \in Procs
  PROVE  /\ kind[p] = "run" /\ pc[p] \in Further => pc[p] \in AfterGuard
         /\ pc[p] \in {"arm", "serving"} => kind[p] = "run"
<1>1. pc[p] \in Places(kind[p]) /\ kind[p] \in {""} \cup Commands
  BY DEF TypeInv, InPlace, TypeOK
<1>2. kind[p] = "run" /\ pc[p] \in Further => pc[p] \in AfterGuard
  BY <1>1 DEF Places, Further, AfterGuard, Probes, Creating
<1>3. pc[p] \in {"arm", "serving"} => kind[p] = "run"
  BY <1>1 DEF Places, Probes, Creating, Commands
<1> QED
  BY <1>2, <1>3

LEMMA NetStep == TypeInv /\ ReadInv /\ NetInv /\ [Next]_vars => NetInv'
<1> SUFFICES ASSUME TypeInv, ReadInv, NetInv, [Next]_vars, host' = scene'.host, NEW p \in Procs
             PROVE  /\ pc'[p] = "guard" \/ (kind'[p] = "run" /\ pc'[p] \in AfterGuard) =>
                         Resolvable(Read.cfg)' /\ cfg'[p] = Resolved(Read.cfg)'
                    /\ kind'[p] = "run" /\ pc'[p] \in AfterGuard => ~Cut(cfg[p])'
  BY DEF NetInv
<1>1. scene' = scene /\ host' = host /\ host = scene.host
  BY SceneStays, HostStays
<1>2. /\ Resolvable(Read.cfg)' = Resolvable(Read.cfg) /\ Resolved(Read.cfg)' = Resolved(Read.cfg)
      /\ cfg'[p] = cfg[p] => Cut(cfg[p])' = Cut(cfg[p])
  <2>1. Read' = Read
    BY <1>1 DEF Read
  <2>2. Resolvable(Read.cfg)' = Resolvable(Read.cfg)
    BY <1>1, <2>1 DEF Resolvable, Wan, Nets
  <2>3. Resolved(Read.cfg)' = Resolved(Read.cfg)
    BY <1>1, <2>1 DEF Resolved, Wan, Nets
  <2>4. cfg'[p] = cfg[p] => Cut(cfg[p])' = Cut(cfg[p])
    BY <1>1 DEF Cut, Nets
  <2> QED
    BY <2>2, <2>3, <2>4
<1>3. /\ pc[p] = "guard" \/ (kind[p] = "run" /\ pc[p] \in AfterGuard) =>
           Resolvable(Read.cfg) /\ cfg[p] = Resolved(Read.cfg)
      /\ kind[p] = "run" /\ pc[p] \in AfterGuard => ~Cut(cfg[p])
  BY <1>1 DEF NetInv
<1>4. CASE Same(p)
  BY <1>2, <1>3, <1>4 DEF Same
<1>5. CASE \E k \in Commands : Start(p, k)
  BY <1>5, StartDoes DEF AfterGuard, Probes, Creating
<1>6. CASE Load(p)
  <2>1. kind'[p] = kind[p]
    BY <1>6 DEF Load
  <2> QED
    BY <1>6, <2>1, LoadDoes DEF AfterGuard, Probes, Creating
<1>7. CASE Resolve(p)
  <2>1. kind'[p] = kind[p] /\ cfg[p] = Read.cfg
    BY <1>7 DEF Resolve, ReadInv
  <2> QED
    BY <1>2, <1>7, <2>1, ResolveDoes DEF AfterGuard, Probes, Creating
<1>8. CASE Guard(p)
  <2>1. kind'[p] = kind[p] /\ pc[p] = "guard"
    BY <1>8 DEF Guard
  <2> QED
    BY <1>2, <1>3, <1>8, <2>1, GuardDoes DEF AfterGuard, Probes, Creating
<1>9. CASE Confs(p)
  <2>1. kind'[p] = kind[p]
    BY <1>9 DEF Confs
  <2>2. kind[p] = "run" => pc[p] \in AfterGuard
    BY <1>9, ConfsDoes DEF AfterGuard
  <2>3. cfg'[p] = cfg[p] /\ pc'[p] # "guard"
    BY <1>9, ConfsDoes
  <2> QED
    BY <1>2, <1>3, <2>1, <2>2, <2>3
<1>10. CASE Own(p) /\ ~Question(p)
  <2>1. /\ kind'[p] = kind[p] /\ cfg'[p] = cfg[p]
        /\ pc'[p] = "dead" \/ (pc[p] \in Further /\ pc'[p] \in Further \cup Ended)
    BY <1>10, FurtherOn
  <2>2. pc'[p] # "guard"
    BY <2>1 DEF Further, Ended
  <2>3. kind[p] = "run" /\ pc'[p] \in AfterGuard => pc[p] \in AfterGuard
    BY <2>1, RunPlaces DEF AfterGuard, Probes, Creating
  <2> QED
    BY <1>2, <1>3, <2>1, <2>2, <2>3
<1> QED
  BY <1>4, <1>5, <1>6, <1>7, <1>8, <1>9, <1>10, OneMoves DEF Question

LEMMA NetworkOfNetwork ==
  ASSUME NEW n \in Networks
  PROVE  << "net", NetworkOf(n), n[3] >> \in Networks
<1>1. n[3] \in 0 .. Bits /\ n[2] \in Addresses
  BY DEF Networks
<1>2. Bits \in Nat /\ Bits - n[3] \in 0 .. Bits
  BY <1>1, ConfigAssumption
<1>3. n[2] \in Nat /\ n[2] <= PowerOfTwo[Bits] - 1 /\ PowerOfTwo[Bits] \in Nat
  BY <1>1, <1>2, PowerOfTwoType DEF Addresses
<1>4. Span(n) \in Nat \ {0}
  BY <1>2, PowerOfTwoType DEF Span
<1>5. NetworkOf(n) \in Nat /\ NetworkOf(n) <= n[2]
  <2>1. /\ n[2] \div Span(n) \in Nat /\ (n[2] \div Span(n)) * Span(n) <= n[2]
        /\ NetworkOf(n) = (n[2] \div Span(n)) * Span(n)
    BY <1>3, <1>4, Quotient DEF NetworkOf
  <2>2. (n[2] \div Span(n)) * Span(n) \in Nat
    BY <1>4, <2>1
  <2> QED
    BY <2>1, <2>2
<1>6. NetworkOf(n) \in Addresses
  BY <1>3, <1>5 DEF Addresses
<1> QED
  BY <1>1, <1>6 DEF Networks

\* A daemon that the guard let past holds clients apart from its machine.
LEMMA GuardKeepsApart ==
  ASSUME TypeInv, Valid(Read), host = scene.host,
         Resolvable(Read.cfg), ~Cut(Resolved(Read.cfg))
  PROVE  Apart(Resolved(Read.cfg))
<1> DEFINE r == Read.cfg
           c == Resolved(r)
<1>1. IsFile(scene.lines)
  BY StartupAssumption DEF TypeInv, TypeOK, IsFile
<1>2. DOMAIN r = Lists \cup Settings
      /\ \A k \in Lists \cup Settings : Means(scene.lines, k, r[k])
  BY <1>1, LoadConfigMeans DEF Read, Readings, Configs
<1>3. ASSUME NEW k \in {"clients", "lan"}, IsNet(r[k]) PROVE r[k] \in Networks
  <2>1. k \in Settings /\ k \notin Lists
    BY DEF Settings, Lists
  <2>2. ~IsNet(DefaultConfig[k])
    BY <2>1 DEF DefaultConfig, IsNet, Lists, Switches
  <2>3. PICK i \in Sets(scene.lines, k) : r[k] = scene.lines[i].val
    BY <1>2, <1>3, <2>1, <2>2 DEF Means
  <2>4. i \in DOMAIN scene.lines
    BY <2>3 DEF Sets
  <2>5. scene \in Scenes
    BY DEF TypeInv, TypeOK
  <2> QED
    BY <1>3, <2>3, <2>4, <2>5, StartupAssumption
<1>4. "clients" \notin Problems(r) /\ "lan" \notin Problems(r)
  BY DEF Valid
<1>5. IsNet(r["clients"]) /\ (r["lan"] # << "auto" >> => IsNet(r["lan"]))
  BY <1>4 DEF Problems
<1>6. /\ c["clients"] = r["clients"] /\ c["wan_interface"] = Wan(r)
      /\ c["lan"] = IF r["lan"] # << "auto" >> THEN r["lan"]
                    ELSE << "net", NetworkOf(Nets(Wan(r))[1]), Nets(Wan(r))[1][3] >>
  BY <1>2 DEF Resolved, Settings
<1>7. c["lan"] \in Networks
  <2>1. CASE r["lan"] # << "auto" >>
    BY <1>3, <1>5, <1>6, <2>1
  <2>2. CASE r["lan"] = << "auto" >>
    <3>1. Nets(Wan(r)) # << >>
      BY <2>2 DEF Resolvable
    <3>2. Wan(r) \in DOMAIN host.addr /\ Nets(Wan(r)) = host.addr[Wan(r)]
      BY <3>1 DEF Nets
    <3>3. scene \in Scenes
      BY DEF TypeInv, TypeOK
    <3>4. Nets(Wan(r)) \in Seq(Networks)
      BY <3>2, <3>3, StartupAssumption
    <3>5. Nets(Wan(r))[1] \in Networks
      BY <3>1, <3>4
    <3> QED
      BY <1>6, <2>2, <3>5, NetworkOfNetwork
  <2> QED
    BY <2>1, <2>2
<1>8. IsNet(c["lan"]) /\ IsNet(c["clients"]) /\ c["clients"] \in Networks
  <2>1. \A n \in Networks : IsNet(n)
    BY DEF Networks, IsNet
  <2> QED
    BY <1>3, <1>5, <1>6, <1>7, <2>1
<1> HIDE DEF c
<1>9. ~GuardAgainstSelf(c["clients"], c["lan"], {n[2] : n \in Range(Nets(c["wan_interface"]))})
  BY <1>8 DEF Cut, c
<1>10. ~Overlap(c["clients"], c["lan"])
       /\ \A n \in Range(Nets(c["wan_interface"])) : ~InNet(c["clients"], n[2])
  BY <1>8, <1>9 DEF GuardAgainstSelf
<1>11. Block(c["clients"]) \cap Block(c["lan"]) = {}
  BY <1>7, <1>8, <1>10, ApartWhenNotOverlapping
<1> QED
  BY <1>10, <1>11 DEF Apart, c

LEMMA ArmedChanges ==
  ASSUME [Next]_vars
  PROVE  armed' \in {armed, Disarmed} \/ \E p \in Procs : Arm(p) \/ Repair(p)
<1>1. ASSUME NEW p \in Procs, Step(p) PROVE armed' \in {armed, Disarmed} \/ Arm(p) \/ Repair(p)
  BY <1>1 DEF Step, Start, Load, Resolve, Guard, Confs, Disarm, ProbeDel, ProbeAdd,
     ProbeUndo, BringUp, Verdict, TokenRead, TokenTruncate, TokenWrite, machine
<1> QED
  BY <1>1 DEF Next, Kill, Flush, Move, Delete, machine, vars

LEMMA ArmedStep == TypeInv /\ ReadInv /\ NetInv /\ ArmedInv /\ [Next]_vars => ArmedInv'
<1> SUFFICES ASSUME TypeInv, ReadInv, NetInv, ArmedInv, [Next]_vars,
                    armed' # Disarmed, host' = scene'.host
             PROVE  \E p \in Procs :
                      /\ kind'[p] = "run" /\ pc'[p] \notin {"off", "load", "resolve", "guard"}
                      /\ armed' = ArmedFor(cfg'[p]) /\ Apart(cfg[p])'
  BY DEF ArmedInv, ArmedFor
<1>1. scene' = scene /\ host' = host /\ host = scene.host
  BY SceneStays, HostStays
<1>2. ASSUME NEW p \in Procs, cfg'[p] = cfg[p], Apart(cfg[p]) PROVE Apart(cfg[p])'
  BY <1>1, <1>2 DEF Apart, Nets
<1>3. CASE armed' = armed
  <2>1. PICK p \in Procs :
          /\ kind[p] = "run" /\ pc[p] \notin {"off", "load", "resolve", "guard"}
          /\ armed = ArmedFor(cfg[p]) /\ Apart(cfg[p])
    BY <1>1, <1>3 DEF ArmedInv
  <2>2. /\ kind'[p] = "run" /\ pc'[p] \notin {"off", "load", "resolve", "guard"}
        /\ cfg'[p] = cfg[p]
    <3>1. CASE Same(p)
      BY <2>1, <3>1 DEF Same
    <3>2. CASE Own(p) /\ Question(p)
      <4>1. Confs(p)
        BY <2>1, <3>2 DEF Question, Start, Load, Resolve, Guard
      <4>2. kind'[p] = kind[p]
        BY <4>1 DEF Confs
      <4> QED
        BY <2>1, <4>1, <4>2, ConfsDoes
    <3>3. CASE Own(p) /\ ~Question(p)
      BY <2>1, <3>3, FurtherOn DEF Further, Ended
    <3> QED
      BY <3>1, <3>2, <3>3, OneMoves
  <2> QED
    BY <1>2, <1>3, <2>1, <2>2
<1>4. ASSUME NEW p \in Procs, Arm(p) \/ Repair(p), armed' # armed
      PROVE  /\ kind'[p] = "run" /\ pc'[p] \notin {"off", "load", "resolve", "guard"}
             /\ armed' = ArmedFor(cfg'[p]) /\ Apart(cfg[p])'
  <2>1. /\ pc[p] \in {"arm", "serving"} /\ armed' = ArmedFor(cfg[p])
        /\ UNCHANGED << kind, cfg >>
    BY <1>4 DEF Arm, Repair
  <2>2. kind[p] = "run" /\ pc[p] \in AfterGuard
    BY <2>1, RunPlaces DEF AfterGuard
  <2>3. pc'[p] \notin {"off", "load", "resolve", "guard"}
    <3>1. CASE Arm(p)
      BY <3>1, ArmDoes
    <3>2. CASE Repair(p)
      BY <3>2 DEF Repair
    <3> QED
      BY <1>4, <3>1, <3>2
  <2>4. Resolvable(Read.cfg) /\ cfg[p] = Resolved(Read.cfg) /\ ~Cut(cfg[p])
    BY <1>1, <2>2 DEF NetInv
  <2>5. Valid(Read)
    BY <2>1, <2>2 DEF ReadInv
  <2>6. Apart(cfg[p])
    BY <1>1, <2>4, <2>5, GuardKeepsApart
  <2> QED
    BY <1>2, <2>1, <2>2, <2>3, <2>6
<1> QED
  BY <1>3, <1>4, ArmedChanges

NetworkInv == ReadingsInv /\ NetInv /\ ArmedInv

LEMMA NetworkHolds == Spec => []NetworkInv
<1>1. Init => NetInv /\ ArmedInv
  BY DEF Init, NetInv, ArmedInv, AfterGuard, Probes, Creating
<1>2. ReadingsInv /\ NetInv /\ ArmedInv /\ [Next]_vars => NetInv' /\ ArmedInv'
  BY NetStep, ArmedStep DEF ReadingsInv
<1> QED
  BY <1>1, <1>2, ReadingsHold, PTL DEF Spec, NetworkInv

\* Whatever the width of an address, the networks of the machine and the file, the kill switch
\* that is armed never takes an address of the machine's LAN, or of its WAN interface, for a
\* client's, as long as the machine stays on its network (config.go:GuardAgainstSelf).
THEOREM MachineIsReachable == Spec => []SelfReachable
<1>1. ArmedInv => SelfReachable
  <2> SUFFICES ASSUME ArmedInv, armed # Disarmed, host = scene.host
               PROVE  \E p \in Procs :
                        /\ kind[p] = "run" /\ armed = ArmedFor(cfg[p])
                        /\ \A n \in Range(Nets(cfg[p]["wan_interface"])) :
                             ~InNet(armed.clients, n[2])
                        /\ Block(armed.clients) \cap Block(armed.lan) = {}
    BY DEF SelfReachable
  <2>1. PICK p \in Procs : kind[p] = "run" /\ armed = ArmedFor(cfg[p]) /\ Apart(cfg[p])
    BY DEF ArmedInv
  <2>2. armed.clients = cfg[p]["clients"] /\ armed.lan = cfg[p]["lan"]
    BY <2>1 DEF ArmedFor
  <2> QED
    BY <2>1, <2>2 DEF Apart
<1> QED
  BY <1>1, NetworkHolds, PTL DEF NetworkInv

-----------------------------------------------------------------------------
(* What `check` has promised.                                              *)

\* Past the questions only a daemon is refused, by the kill switch; `check` says "Safe to start"
\* only when it has met no problem, and none of the tools is missing.
LEMMA Outcomes ==
  ASSUME TypeInv, NEW p \in Procs, Own(p), ~Question(p)
  PROVE  /\ kind[p] \in {"run", "stop"} /\ pc'[p] = "refused" =>
              kind[p] = "run" /\ (~scene.tools \/ scene.open6)
         /\ pc'[p] = "safe" => ~fails'[p]
         /\ kind[p] = "check" =>
              \/ pc'[p] = "dead"
              \/ pc[p] \in Probes /\ pc'[p] \in Probes /\ fails'[p] = fails[p]
              \/ pc[p] \in Probes /\ pc'[p] = "verdict" /\ fails'[p] \in BOOLEAN
                 /\ (~fails'[p] => ~fails[p] /\ scene.tools)
              \/ pc[p] = "verdict" /\ pc'[p] \in {"problems", "safe"} /\ fails'[p] = fails[p]
<1>0. /\ kind[p] \in {""} \cup Commands /\ fails[p] \in BOOLEAN
      /\ kind[p] = "check" =>
           pc[p] \in {"load", "confs", "resolve", "guard", "verdict", "problems", "safe", "dead"}
                       \cup Probes
  BY DEF TypeInv, InPlace, TypeOK, Places
<1>1. CASE Arm(p)
  BY <1>1, ArmDoes
<1>2. CASE Repair(p)
  BY <1>0, <1>2 DEF Repair, Probes
<1>3. CASE Disarm(p)
  BY <1>3, DisarmDoes
<1>4. CASE ProbeDel(p)
  BY <1>4, ProbeDelDoes DEF Probes
<1>5. ASSUME NEW b, Detected(p, b), pc[p] \in Probing
      PROVE  /\ pc'[p] \notin {"refused", "safe"}
             /\ kind[p] = "check" =>
                  pc[p] \in Probes /\ pc'[p] = "verdict" /\ fails'[p] \in BOOLEAN
                  /\ (~fails'[p] => ~fails[p] /\ scene.tools)
  BY <1>0, <1>5, DetectedDoes DEF Probing, Probes
<1>6. CASE ProbeAdd(p)
  <2>1. pc[p] \in Probing
    BY <1>6 DEF ProbeAdd, Probing
  <2>2. CASE pc'[p] = "probe_undo" /\ fails'[p] = fails[p]
    BY <2>1, <2>2 DEF Probing, Probes
  <2>3. CASE Detected(p, Fallback)
    BY <1>5, <2>1, <2>3
  <2> QED
    BY <1>6, <2>2, <2>3, ProbeAddDoes
<1>7. CASE ProbeUndo(p)
  BY <1>5, <1>7 DEF ProbeUndo, Probing
<1>8. CASE BringUp(p)
  BY <1>8, BringUpDoes
<1>9. CASE Verdict(p)
  BY <1>9, VerdictDoes
<1>10. ASSUME NEW t, Got(p, t), pc[p] \in {"token"} \cup Creating
       PROVE  /\ kind[p] # "check" /\ pc'[p] # "safe"
              /\ kind[p] \in {"run", "stop"} => pc'[p] # "refused"
  BY <1>10, GotDoes
<1>11. CASE TokenRead(p)
  <2>1. pc[p] = "token" /\ kind[p] # "check"
    BY <1>0, <1>11 DEF TokenRead, Probes
  <2>2. CASE pc' = [pc EXCEPT ![p] = "truncate"]
    BY <2>1, <2>2 DEF TypeInv
  <2> QED
    BY <1>10, <1>11, <2>1, <2>2 DEF TokenRead
<1>12. CASE TokenTruncate(p)
  <2>1. pc[p] \in Creating /\ kind[p] # "check"
    BY <1>0, <1>12 DEF TokenTruncate, Probes, Creating
  <2>2. CASE pc' = [pc EXCEPT ![p] = "write"]
    BY <2>1, <2>2 DEF TypeInv
  <2> QED
    BY <1>10, <1>12, <2>1, <2>2 DEF TokenTruncate
<1>13. CASE TokenWrite(p)
  BY <1>10, <1>13 DEF TokenWrite, Creating
<1>14. CASE Kill(p)
  BY <1>14, KillDoes
<1> QED
  BY <1>1, <1>2, <1>3, <1>4, <1>6, <1>7, <1>8, <1>9, <1>11, <1>12, <1>13, <1>14
     DEF Own, Step, Question

LEMMA MovedIsKnown ==
  ASSUME TypeInv, [Next]_vars, "move" \notin Happened', "move" \notin Happened => host = scene.host
  PROVE  host' = scene'.host
<1>1. ASSUME NEW p \in Procs, Step(p) PROVE host' = host
  BY <1>1 DEF Step, Start, Load, Resolve, Guard, Confs, Arm, Repair, Disarm, ProbeDel, ProbeAdd,
     ProbeUndo, BringUp, Verdict, TokenRead, TokenTruncate, TokenWrite, machine
<1>2. ~Move
  BY HappenedGrows DEF Move, TypeInv
<1>3. host' = host
  BY <1>1, <1>2 DEF Next, Kill, Flush, Delete, machine, vars
<1> QED
  BY <1>3, SceneStays, HappenedGrows

LEMMA SafeStep == NetworkInv /\ SafeInv /\ [Next]_vars => SafeInv'
<1> SUFFICES ASSUME TypeInv, ReadInv, NetInv, SafeInv, [Next]_vars, host' = scene'.host,
                    NEW p \in Procs
             PROVE  /\ kind'[p] \in {"run", "stop"} /\ pc'[p] = "refused" =>
                         ~Fit' \/ (kind'[p] = "run" /\ scene'.open6)
                    /\ kind'[p] = "check" /\ scene'.root /\ ~fails'[p] => Asked(p)'
                    /\ pc'[p] = "safe" => ~fails'[p]
  <2>1. SafeInv /\ TypeInv /\ [Next]_vars => ("move" \notin Happened' => host' = scene'.host)
    BY MovedIsKnown DEF SafeInv
  <2> QED
    BY <2>1 DEF SafeInv, NetworkInv, ReadingsInv
<1>1. scene' = scene /\ host' = host /\ host = scene.host /\ Read' = Read
  BY SceneStays, HostStays DEF Read
<1>2. Fit' = Fit
  <2>1. ConfsBad(Read.cfg)' = ConfsBad(Read.cfg)
    BY <1>1 DEF ConfsBad, Paths
  <2>2. Resolvable(Read.cfg)' = Resolvable(Read.cfg)
    BY <1>1 DEF Resolvable, Wan, Nets
  <2>3. Cut(Resolved(Read.cfg))' = Cut(Resolved(Read.cfg))
    BY <1>1 DEF Cut, Resolved, Wan, Nets
  <2> QED
    BY <1>1, <2>1, <2>2, <2>3 DEF Fit
<1>3. Asked(p)' <=>
        /\ pc'[p] \notin {"off", "load", "dead"} => Valid(Read)
        /\ pc'[p] \in {"resolve", "guard", "verdict", "safe"} \cup Probes => ~ConfsBad(Read.cfg)
        /\ pc'[p] \in {"guard", "verdict", "safe"} \cup Probes => Resolvable(Read.cfg)
        /\ pc'[p] \in {"verdict", "safe"} \cup Probes => ~Cut(Resolved(Read.cfg))
        /\ pc'[p] \in {"verdict", "safe"} => scene.tools
  <2>1. ConfsBad(Read.cfg)' = ConfsBad(Read.cfg)
    BY <1>1 DEF ConfsBad, Paths
  <2>2. Resolvable(Read.cfg)' = Resolvable(Read.cfg)
    BY <1>1 DEF Resolvable, Wan, Nets
  <2>3. Cut(Resolved(Read.cfg))' = Cut(Resolved(Read.cfg))
    BY <1>1 DEF Cut, Resolved, Wan, Nets
  <2> QED
    BY <1>1, <2>1, <2>2, <2>3 DEF Asked
<1>4. /\ kind[p] \in {"run", "stop"} /\ pc[p] = "refused" =>
           ~Fit \/ (kind[p] = "run" /\ scene.open6)
      /\ kind[p] = "check" /\ scene.root /\ ~fails[p] => Asked(p)
      /\ pc[p] = "safe" => ~fails[p]
  BY <1>1 DEF SafeInv
<1>5. CASE Same(p)
  BY <1>1, <1>2, <1>3, <1>4, <1>5 DEF Same, Asked
<1>6. CASE \E k \in Commands : Start(p, k)
  BY <1>3, <1>6, StartDoes DEF Probes
<1>7. CASE Load(p)
  <2>1. kind'[p] = kind[p]
    BY <1>7 DEF Load
  <2>2. ~Valid(Read) => ~Fit
    BY DEF Fit
  <2>3. fails[p] \in BOOLEAN
    BY DEF TypeInv, TypeOK
  <2> QED
    BY <1>2, <1>3, <1>7, <2>1, <2>2, <2>3, LoadDoes DEF Probes
<1>8. CASE Resolve(p)
  <2>1. kind'[p] = kind[p] /\ pc[p] = "resolve" /\ cfg[p] = Read.cfg
    BY <1>8 DEF Resolve, ReadInv
  <2>2. ~Resolvable(Read.cfg) => ~Fit
    BY DEF Fit
  <2>3. CASE Resolvable(Read.cfg)
    <3>1. pc'[p] = "guard" /\ fails'[p] = fails[p]
      BY <1>8, <2>1, <2>3, ResolveDoes
    <3> QED
      BY <1>1, <1>3, <1>4, <2>1, <2>3, <3>1 DEF Asked, Probes
  <2>4. CASE ~Resolvable(Read.cfg)
    <3>1. /\ fails'[p] = TRUE
          /\ pc'[p] = IF kind[p] = "check" THEN "probe_del" ELSE "refused"
      BY <1>8, <2>1, <2>4, ResolveDoes
    <3> QED
      BY <1>2, <2>1, <2>2, <2>4, <3>1
  <2> QED
    BY <2>3, <2>4
<1>9. CASE Guard(p)
  <2>1. /\ kind'[p] = kind[p] /\ pc[p] = "guard"
        /\ Resolvable(Read.cfg) /\ cfg[p] = Resolved(Read.cfg)
    BY <1>1, <1>9 DEF Guard, NetInv
  <2>2. Cut(Resolved(Read.cfg)) => ~Fit
    BY DEF Fit
  <2>3. /\ kind[p] \in Commands /\ fails'[p] = (fails[p] \/ Cut(Resolved(Read.cfg)))
        /\ pc'[p] = IF Cut(Resolved(Read.cfg)) /\ kind[p] # "check" THEN "refused"
                    ELSE IF kind[p] = "run" THEN "confs"
                    ELSE IF kind[p] = "token" THEN "token" ELSE "probe_del"
    BY <1>9, <2>1, GuardDoes
  <2>4. kind[p] = "check" /\ scene.root /\ ~fails'[p] => Asked(p)'
    <3> SUFFICES ASSUME kind[p] = "check", scene.root, ~fails'[p] PROVE Asked(p)'
      OBVIOUS
    <3>1. ~fails[p] /\ ~Cut(Resolved(Read.cfg)) /\ pc'[p] = "probe_del"
      BY <2>3
    <3>2. Valid(Read) /\ ~ConfsBad(Read.cfg)
      BY <1>4, <2>1, <3>1 DEF Asked
    <3> QED
      BY <1>3, <2>1, <3>1, <3>2
  <2> QED
    BY <1>1, <1>2, <2>1, <2>2, <2>3, <2>4
<1>10. CASE Confs(p)
  <2>1. /\ kind'[p] = kind[p] /\ pc[p] = "confs"
        /\ cfg[p]["tunnels"] = Read.cfg["tunnels"] /\ cfg[p]["tunnel_dir"] = Read.cfg["tunnel_dir"]
    BY <1>10 DEF Confs, ReadInv, Lists, Settings
  <2>2. ConfsBad(cfg[p]) <=> ConfsBad(Read.cfg)
    BY <2>1 DEF ConfsBad, Paths
  <2>3. ConfsBad(Read.cfg) => ~Fit
    BY DEF Fit
  <2>4. /\ kind[p] \in {"run", "check"} /\ fails'[p] = (fails[p] \/ ConfsBad(cfg[p]))
        /\ pc'[p] = IF kind[p] = "run" THEN IF ConfsBad(cfg[p]) THEN "refused" ELSE "arm"
                    ELSE IF scene.root THEN "resolve" ELSE "probe_del"
    BY <1>10, ConfsDoes
  <2>5. kind[p] = "check" /\ scene.root /\ ~fails'[p] => Asked(p)'
    <3> SUFFICES ASSUME kind[p] = "check", scene.root, ~fails'[p] PROVE Asked(p)'
      OBVIOUS
    <3>1. ~fails[p] /\ ~ConfsBad(Read.cfg) /\ pc'[p] = "resolve"
      BY <2>2, <2>4
    <3>2. Valid(Read)
      BY <1>4, <2>1, <3>1 DEF Asked
    <3> QED
      BY <1>3, <3>1, <3>2 DEF Probes
  <2> QED
    BY <1>1, <1>2, <2>1, <2>2, <2>3, <2>4, <2>5
<1>11. CASE Own(p) /\ ~Question(p)
  <2>1. kind'[p] = kind[p]
    BY <1>11, FurtherOn
  <2>2. /\ kind[p] \in {"run", "stop"} /\ pc'[p] = "refused" =>
             ~scene.tools \/ (kind[p] = "run" /\ scene.open6)
        /\ pc'[p] = "safe" => ~fails'[p]
    BY <1>11, Outcomes
  <2>3. ~scene.tools => ~Fit
    BY DEF Fit
  <2>4. kind[p] = "check" /\ scene.root /\ ~fails'[p] => Asked(p)'
    <3> SUFFICES ASSUME kind[p] = "check", scene.root, ~fails'[p] PROVE Asked(p)'
      OBVIOUS
    <3>1. CASE pc'[p] = "dead"
      BY <1>3, <3>1 DEF Probes
    <3>2. CASE pc[p] \in Probes /\ pc'[p] \in Probes /\ fails'[p] = fails[p]
      BY <1>3, <1>4, <3>2 DEF Asked, Probes
    <3>3. CASE pc[p] \in Probes /\ pc'[p] = "verdict" /\ ~fails[p] /\ scene.tools
      BY <1>3, <1>4, <3>3 DEF Asked, Probes
    <3>4. CASE pc[p] = "verdict" /\ pc'[p] \in {"problems", "safe"} /\ fails'[p] = fails[p]
      BY <1>3, <1>4, <3>4 DEF Asked, Probes
    <3> QED
      BY <1>11, <3>1, <3>2, <3>3, <3>4, Outcomes
  <2> QED
    BY <1>1, <1>2, <2>1, <2>2, <2>3, <2>4
<1> QED
  BY <1>5, <1>6, <1>7, <1>8, <1>9, <1>10, <1>11, OneMoves DEF Question

\* Whatever the files, the machine and the order of the commands: once `check` run as root has
\* said "Safe to start", neither the daemon nor `stop` is refused on that machine, as long as
\* it stays on its network, but for a daemon whose machine forwards IPv6 that ip6tables cannot
\* block (check.go:cmdCheck against main.go:prepare and cmdRun).
THEOREM CheckIsRight == Spec => []SafeToStart
<1>1. Init => SafeInv
  BY DEF Init, SafeInv, Asked, Probes
<1>2. TypeInv /\ SafeInv => SafeToStart
  <2> SUFFICES ASSUME TypeInv, SafeInv, "move" \notin Happened, scene.root,
                      NEW c \in Procs, pc[c] = "safe", NEW p \in Procs,
                      kind[p] \in {"run", "stop"}, pc[p] = "refused"
               PROVE  kind[p] = "run" /\ scene.open6
    BY DEF SafeToStart, SafeSaid
  <2>1. kind[c] = "check"
    <3>1. pc[c] \in Places(kind[c]) /\ kind[c] \in {""} \cup Commands
      BY DEF TypeInv, InPlace, TypeOK
    <3> QED
      BY <3>1 DEF Places, Probes, Creating, Commands
  <2>2. Asked(c) /\ (~Fit \/ (kind[p] = "run" /\ scene.open6))
    BY <2>1 DEF SafeInv
  <2> QED
    BY <2>2 DEF Asked, Fit
<1> QED
  BY <1>1, <1>2, SafeStep, NetworkHolds, PTL DEF Spec, NetworkInv, ReadingsInv
=============================================================================
