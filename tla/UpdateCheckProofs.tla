-------------------------- MODULE UpdateCheckProofs --------------------------
(***************************************************************************)
(* What TLAPS proves of UpdateCheck, for all versions, all timeouts and any *)
(* number of failed requests.                                              *)
(***************************************************************************)
EXTENDS UpdateCheck, FiniteSetTheorems, WellFoundedInduction, TLAPS

-----------------------------------------------------------------------------
(* The naturals: these stand in for induction over a predicate.            *)

\* A set of naturals that is not empty has a least element: the intervals from 0 up to its
\* elements are finite, and finite sets are well founded under inclusion.
LEMMA LeastOfNaturals ==
  ASSUME NEW S \in SUBSET Nat, S # {}
  PROVE  \E i \in S : \A j \in S : i <= j
<1> DEFINE T == {0 .. i : i \in S}
<1>1. T \subseteq FiniteSubsetsOf(Nat) /\ T # {}
  <2>1. \A i \in Nat : IsFiniteSet(0 .. i) /\ 0 .. i \subseteq Nat
    BY FS_Interval
  <2> QED
    BY <2>1 DEF FiniteSubsetsOf
<1>2. \E x \in T : \A y \in T : << y, x >> \notin StrictSubsetOrdering(Nat)
  <2> HIDE DEF T
  <2> QED
    BY <1>1, FS_StrictSubsetOrderingWellFounded, WFMin
<1>3. PICK i \in S : \A j \in S : << 0 .. j, 0 .. i >> \notin StrictSubsetOrdering(Nat)
  BY <1>2
<1>4. ASSUME NEW j \in S, j < i PROVE FALSE
  <2>1. 0 .. j \subseteq 0 .. i /\ 0 .. j # 0 .. i /\ 0 .. i \subseteq Nat
    BY <1>4
  <2> QED
    BY <1>3, <2>1 DEF StrictSubsetOrdering
<1> QED
  BY <1>4

\* A set that holds 0, and with each number the next one, holds every natural.
LEMMA InductionOnNaturals ==
  ASSUME NEW S, 0 \in S, \A n \in Nat : n \in S => n + 1 \in S
  PROVE  Nat \subseteq S
<1> SUFFICES ASSUME Nat \ S # {} PROVE FALSE
  OBVIOUS
<1>1. PICK i \in Nat \ S : \A j \in Nat \ S : i <= j
  BY LeastOfNaturals
<1> QED
  BY <1>1, i - 1 \in Nat

-----------------------------------------------------------------------------
(* The order of versions.                                                  *)

Versions == Seq(Nat)

\* The first difference decides, when the comparison has come to field i.
LaterFrom(a, b, i) ==
  \E k \in i .. Longer(a, b) : Field(a, k) > Field(b, k) /\ \A j \in i .. k - 1 : Field(a, j) = Field(b, j)

\* One turn of the loop of newerVersion, when f is what the turns after it return.
Turn(a, b, f, i) ==
  IF i > Longer(a, b) THEN FALSE
  ELSE IF Field(a, i) # Field(b, i) THEN Field(a, i) > Field(b, i)
  ELSE f[i + 1]

LEMMA FieldType ==
  ASSUME NEW a \in Versions, NEW b \in Versions
  PROVE  /\ Longer(a, b) \in Nat /\ \A i \in Nat : Field(a, i) \in Nat
         /\ \A i \in Nat : Field(a, i) > 0 => i \in 1 .. Longer(a, b)
BY DEF Versions, Field, Longer

\* Going through the fields in order finds the first difference.
LEMMA OneTurn ==
  ASSUME NEW a \in Versions, NEW b \in Versions, NEW i \in 1 .. Longer(a, b) + 1
  PROVE  LaterFrom(a, b, i) <=> /\ i <= Longer(a, b)
                                /\ IF Field(a, i) # Field(b, i) THEN Field(a, i) > Field(b, i)
                                   ELSE LaterFrom(a, b, i + 1)
<1> DEFINE n == Longer(a, b)
<1>0. n \in Nat /\ i \in Nat /\ i >= 1
  BY FieldType
<1> HIDE DEF n
<1>1. CASE i > n
  BY <1>0, <1>1 DEF LaterFrom, n
<1>2. CASE i <= n /\ Field(a, i) # Field(b, i)
  <2>1. ASSUME LaterFrom(a, b, i) PROVE Field(a, i) > Field(b, i)
    <3>1. PICK k \in i .. n : Field(a, k) > Field(b, k) /\ \A j \in i .. k - 1 : Field(a, j) = Field(b, j)
      BY <2>1 DEF LaterFrom, n
    <3>2. k # i => i \in i .. k - 1
      BY <1>0
    <3> QED
      BY <1>2, <3>1, <3>2
  <2>2. ASSUME Field(a, i) > Field(b, i) PROVE LaterFrom(a, b, i)
    <3>1. i \in i .. n /\ i .. i - 1 = {}
      BY <1>0, <1>2
    <3> QED
      BY <2>2, <3>1 DEF LaterFrom, n
  <2> QED
    BY <1>2, <2>1, <2>2 DEF n
<1>3. CASE i <= n /\ Field(a, i) = Field(b, i)
  <2>1. ASSUME LaterFrom(a, b, i) PROVE LaterFrom(a, b, i + 1)
    <3>1. PICK k \in i .. n : Field(a, k) > Field(b, k) /\ \A j \in i .. k - 1 : Field(a, j) = Field(b, j)
      BY <2>1 DEF LaterFrom, n
    <3>2. k # i
      <4>1. Field(a, i) \in Nat
        BY <1>0, FieldType
      <4> QED
        BY <1>3, <3>1, <4>1
    <3>3. k \in i + 1 .. n /\ \A j \in i + 1 .. k - 1 : j \in i .. k - 1
      BY <1>0, <3>2
    <3> QED
      BY <3>1, <3>3 DEF LaterFrom, n
  <2>2. ASSUME LaterFrom(a, b, i + 1) PROVE LaterFrom(a, b, i)
    <3>1. PICK k \in i + 1 .. n : /\ Field(a, k) > Field(b, k)
                                  /\ \A j \in i + 1 .. k - 1 : Field(a, j) = Field(b, j)
      BY <2>2 DEF LaterFrom, n
    <3>2. k \in i .. n /\ \A j \in i .. k - 1 : j = i \/ j \in i + 1 .. k - 1
      BY <1>0
    <3> QED
      BY <1>3, <3>1, <3>2 DEF LaterFrom, n
  <2> QED
    BY <1>3, <2>1, <2>2 DEF n
<1> QED
  BY <1>0, <1>1, <1>2, <1>3

\* What the recursion computes (update.go:newerVersion).
LEMMA Compared ==
  ASSUME NEW a \in Versions, NEW b \in Versions
  PROVE  NewerVersion(a, b) = LaterFrom(a, b, 1)
<1> DEFINE n == Longer(a, b)
           g == [i \in 1 .. n + 1 |-> LaterFrom(a, b, i)]
           from == CHOOSE f : f = [i \in 1 .. n + 1 |-> Turn(a, b, f, i)]
<1>0. n \in Nat
  BY FieldType
<1>1. g = [i \in 1 .. n + 1 |-> Turn(a, b, g, i)]
  <2>1. ASSUME NEW i \in 1 .. n + 1 PROVE LaterFrom(a, b, i) = Turn(a, b, g, i)
    <3>1. LaterFrom(a, b, i) <=> Turn(a, b, g, i)
      <4>1. i <= n => i + 1 \in 1 .. n + 1
        BY <1>0
      <4>2. i <= n => g[i + 1] = LaterFrom(a, b, i + 1)
        BY <4>1
      <4> HIDE DEF g
      <4>3. i > n <=> ~(i <= n)
        BY <1>0
      <4> QED
        BY <4>2, <4>3, OneTurn DEF Turn
    <3>2. LaterFrom(a, b, i) \in BOOLEAN
      BY DEF LaterFrom
    <3>3. Turn(a, b, g, i) \in BOOLEAN
      <4>1. i > n \/ i + 1 \in 1 .. n + 1
        BY <1>0
      <4>2. \A j \in 1 .. n + 1 : LaterFrom(a, b, j) \in BOOLEAN
        BY DEF LaterFrom
      <4>3. \A j \in 1 .. n + 1 : g[j] \in BOOLEAN
        BY <4>2
      <4>4. (Field(a, i) > Field(b, i)) \in BOOLEAN
        OBVIOUS
      <4> HIDE DEF g
      <4> QED
        BY <4>1, <4>3, <4>4 DEF Turn
    <3> QED
      BY <3>1, <3>2, <3>3
  <2> QED
    BY <2>1
<1>2. from = [i \in 1 .. n + 1 |-> Turn(a, b, from, i)]
  <2> HIDE DEF n, g
  <2> QED
    BY <1>1
<1>3. NewerVersion(a, b) = from[1]
  BY DEF NewerVersion, Turn
<1> HIDE DEF from, g
<1>4. \A i \in 1 .. n + 1 : from[i] = Turn(a, b, from, i)
  BY <1>2
<1> DEFINE Agree(i) == from[i] \in BOOLEAN /\ (from[i] <=> LaterFrom(a, b, i))
           Good == {m \in Nat : m <= n => Agree(n + 1 - m)}
<1>5. Agree(n + 1)
  <2>1. n + 1 \in 1 .. n + 1 /\ n + 1 > n
    BY <1>0
  <2>2. from[n + 1] = FALSE
    BY <1>4, <2>1 DEF Turn
  <2>3. ~LaterFrom(a, b, n + 1)
    BY <1>0, <2>1, OneTurn
  <2> QED
    BY <2>2, <2>3
<1>6. ASSUME NEW i \in 1 .. n, Agree(i + 1) PROVE Agree(i)
  <2>1. i \in 1 .. n + 1 /\ i <= n /\ ~(i > n)
    BY <1>0
  <2>2. from[i] = IF Field(a, i) # Field(b, i) THEN Field(a, i) > Field(b, i) ELSE from[i + 1]
    BY <1>4, <2>1 DEF Turn
  <2>3. LaterFrom(a, b, i) <=> IF Field(a, i) # Field(b, i) THEN Field(a, i) > Field(b, i)
                               ELSE LaterFrom(a, b, i + 1)
    BY <2>1, OneTurn
  <2>4. CASE Field(a, i) # Field(b, i)
    <3>1. from[i] = (Field(a, i) > Field(b, i))
      BY <2>2, <2>4
    <3>2. (Field(a, i) > Field(b, i)) \in BOOLEAN
      OBVIOUS
    <3> QED
      BY <2>3, <2>4, <3>1, <3>2
  <2>5. CASE Field(a, i) = Field(b, i)
    <3>1. from[i] = from[i + 1]
      BY <2>2, <2>5
    <3> QED
      BY <1>6, <2>3, <2>5, <3>1
  <2> QED
    BY <2>4, <2>5
<1> HIDE DEF Agree
<1>7. 0 \in Good
  <2>1. n + 1 - 0 = n + 1
    BY <1>0
  <2> QED
    BY <1>5, <2>1
<1>8. ASSUME NEW m \in Nat, m \in Good PROVE m + 1 \in Good
  <2> SUFFICES ASSUME m + 1 <= n PROVE Agree(n + 1 - (m + 1))
    OBVIOUS
  <2>1. n + 1 - (m + 1) \in 1 .. n /\ (n + 1 - (m + 1)) + 1 = n + 1 - m /\ m <= n
    BY <1>0
  <2>2. Agree(n + 1 - m)
    BY <1>8, <2>1
  <2> QED
    BY <1>6, <2>1, <2>2
<1>9. Nat \subseteq Good
  <2> HIDE DEF Good
  <2> QED
    BY <1>7, <1>8, InductionOnNaturals
<1>10. Agree(1)
  <2>1. n \in Good /\ n <= n /\ n + 1 - n = 1
    BY <1>0, <1>9
  <2> QED
    BY <2>1
<1>11. LaterFrom(a, b, 1) \in BOOLEAN
  BY DEF LaterFrom
<1> QED
  BY <1>3, <1>10, <1>11 DEF Agree

LEMMA ComparedType ==
  ASSUME NEW a \in Versions, NEW b \in Versions PROVE NewerVersion(a, b) \in BOOLEAN
BY Compared DEF LaterFrom

\* The same without a bound: no field after the last counts.
Later(a, b) ==
  \E k \in Nat \ {0} : Field(a, k) > Field(b, k) /\ \A j \in 1 .. k - 1 : Field(a, j) = Field(b, j)

LEMMA ComparedLater ==
  ASSUME NEW a \in Versions, NEW b \in Versions PROVE NewerVersion(a, b) <=> Later(a, b)
<1>1. ASSUME Later(a, b) PROVE LaterFrom(a, b, 1)
  <2>1. PICK k \in Nat \ {0} : Field(a, k) > Field(b, k) /\ \A j \in 1 .. k - 1 : Field(a, j) = Field(b, j)
    BY <1>1 DEF Later
  <2>2. Field(a, k) \in Nat /\ Field(b, k) \in Nat
    BY FieldType
  <2>3. k \in 1 .. Longer(a, b)
    BY <2>1, <2>2, FieldType
  <2> QED
    BY <2>1, <2>3 DEF LaterFrom
<1>2. ASSUME LaterFrom(a, b, 1) PROVE Later(a, b)
  BY <1>2, FieldType DEF LaterFrom, Later
<1> QED
  BY <1>1, <1>2, Compared

\* The comparison is an order: no version is newer than one that is newer than it, what is
\* newer than a newer one is newer, and of two that differ in a field one is newer
\* (update.go:newerVersion).
THEOREM VersionOrder ==
  ASSUME NEW a \in Versions, NEW b \in Versions, NEW c \in Versions
  PROVE  /\ ~(NewerVersion(a, b) /\ NewerVersion(b, a))
         /\ NewerVersion(a, b) /\ NewerVersion(b, c) => NewerVersion(a, c)
         /\ (\E i \in Nat \ {0} : Field(a, i) # Field(b, i)) => NewerVersion(a, b) \/ NewerVersion(b, a)
<1>0. \A i \in Nat : Field(a, i) \in Nat /\ Field(b, i) \in Nat /\ Field(c, i) \in Nat
  BY FieldType
<1>1. ASSUME Later(a, b), Later(b, a) PROVE FALSE
  <2>1. PICK k \in Nat \ {0} : Field(a, k) > Field(b, k) /\ \A j \in 1 .. k - 1 : Field(a, j) = Field(b, j)
    BY <1>1 DEF Later
  <2>2. PICK m \in Nat \ {0} : Field(b, m) > Field(a, m) /\ \A j \in 1 .. m - 1 : Field(b, j) = Field(a, j)
    BY <1>1 DEF Later
  <2>3. k = m \/ k \in 1 .. m - 1 \/ m \in 1 .. k - 1
    OBVIOUS
  <2>4. Field(a, k) \in Nat /\ Field(b, k) \in Nat /\ Field(a, m) \in Nat /\ Field(b, m) \in Nat
    BY <1>0
  <2> QED
    BY <2>1, <2>2, <2>3, <2>4
<1>2. ASSUME Later(a, b), Later(b, c) PROVE Later(a, c)
  <2>1. PICK k \in Nat \ {0} : Field(a, k) > Field(b, k) /\ \A j \in 1 .. k - 1 : Field(a, j) = Field(b, j)
    BY <1>2 DEF Later
  <2>2. PICK m \in Nat \ {0} : Field(b, m) > Field(c, m) /\ \A j \in 1 .. m - 1 : Field(b, j) = Field(c, j)
    BY <1>2 DEF Later
  <2>3. PICK l \in Nat \ {0} : l <= k /\ l <= m /\ (l = k \/ l = m)
    <3>1. k <= m \/ m <= k
      OBVIOUS
    <3> QED
      BY <3>1
  <2>4. \A j \in 1 .. l - 1 : j \in 1 .. k - 1 /\ j \in 1 .. m - 1
    BY <2>3
  <2>5. \A j \in 1 .. l - 1 : Field(a, j) = Field(c, j)
    BY <2>1, <2>2, <2>4
  <2>6. Field(a, l) > Field(c, l)
    <3>1. Field(a, l) \in Nat /\ Field(b, l) \in Nat /\ Field(c, l) \in Nat
      BY <1>0
    <3>2. (l = k \/ l \in 1 .. k - 1) /\ (l = m \/ l \in 1 .. m - 1)
      BY <2>3
    <3> QED
      BY <2>1, <2>2, <2>3, <3>1, <3>2
  <2> QED
    BY <2>5, <2>6 DEF Later
<1>3. ASSUME NEW i \in Nat \ {0}, Field(a, i) # Field(b, i) PROVE Later(a, b) \/ Later(b, a)
  <2> DEFINE S == {j \in Nat \ {0} : Field(a, j) # Field(b, j)}
  <2>1. PICK k \in S : \A j \in S : k <= j
    <3>1. S \in SUBSET Nat /\ S # {}
      BY <1>3
    <3> HIDE DEF S
    <3> QED
      BY <3>1, LeastOfNaturals
  <2>2. k \in Nat \ {0} /\ Field(a, k) # Field(b, k)
    OBVIOUS
  <2>3. \A j \in 1 .. k - 1 : Field(a, j) = Field(b, j)
    BY <2>1, <2>2
  <2>4. Field(a, k) > Field(b, k) \/ Field(b, k) > Field(a, k)
    <3>1. Field(a, k) \in Nat /\ Field(b, k) \in Nat
      BY <1>0, <2>2
    <3> QED
      BY <2>2, <3>1
  <2> QED
    BY <2>2, <2>3, <2>4 DEF Later
<1> QED
  BY <1>1, <1>2, <1>3, ComparedLater
-----------------------------------------------------------------------------
(* Types.                                                                  *)

\* A copy that is behind holds a release, the one before the last.
Copied == behind => published > 0

LEMMA Constants ==
  /\ CheckEvery \in Nat \ {0} /\ Timeout \in Nat /\ Budget \in Nat /\ MaxGap \in Nat
  /\ MaxGap = 1 + 2 * Timeout /\ Len(Releases) \in Nat
  /\ \A k \in 1 .. Len(Releases) : Releases[k] \in Versions
  /\ Build \in Versions
BY TimesAssumption, VersionsAssumption DEF MaxGap, Versions

LEMMA NoUpdateIs ==
  NoUpdate.latest = << >> /\ NoUpdate.available = FALSE /\ NoUpdate.checked = FALSE
BY DEF NoUpdate

\* The answer of a source: none, or a release that is out.
Answered(new) ==
  \/ new = NoUpdate
  \/ \E k \in 1 .. published :
       new = [latest |-> Releases[k], available |-> NewerVersion(Releases[k], Build),
              checked |-> TRUE]

LEMMA FetchAnswers ==
  ASSUME TypeOK, Copied, NEW s \in Sources, Fetched(s)
  PROVE  \E new : Checked(new) /\ Answered(new)
                  /\ (s = 1 /\ published > 0 =>
                        new = [latest |-> Releases[published],
                               available |-> NewerVersion(Releases[published], Build),
                               checked |-> TRUE])
<1>1. published \in Nat /\ (behind => published > 0)
  BY Constants DEF TypeOK, Copied
<1>2. Answer(s) \in 0 .. published /\ (s = 1 => Answer(s) = published)
  BY <1>1 DEF Answer
<1> DEFINE new == IF Answer(s) = 0 THEN NoUpdate
                  ELSE LET v == Releases[Answer(s)] IN
                    [latest |-> v, available |-> NewerVersion(v, Build), checked |-> TRUE]
<1>3. Checked(new)
  BY DEF Fetched
<1>4. /\ Answer(s) = 0 => new = NoUpdate
      /\ Answer(s) # 0 =>
           new = [latest |-> Releases[Answer(s)],
                  available |-> NewerVersion(Releases[Answer(s)], Build), checked |-> TRUE]
  OBVIOUS
<1> HIDE DEF new
<1>5. Answered(new)
  <2>1. Answer(s) # 0 => Answer(s) \in 1 .. published
    BY <1>1, <1>2
  <2> QED
    BY <1>4, <2>1 DEF Answered
<1>6. s = 1 /\ published > 0 =>
        new = [latest |-> Releases[published],
               available |-> NewerVersion(Releases[published], Build), checked |-> TRUE]
  BY <1>1, <1>2, <1>4
<1> QED
  BY <1>3, <1>5, <1>6

\* What an answer leaves of the types.
LEMMA CheckedType ==
  ASSUME TypeOK, NEW new, Checked(new), Answered(new), UNCHANGED published
  PROVE  /\ upd'.latest \in {<< >>} \cup {Releases[k] : k \in 1 .. published'}
         /\ upd'.available \in BOOLEAN /\ upd'.checked \in BOOLEAN
         /\ (upd'.available => upd'.checked)
         /\ pc' = "refresh" /\ first' = FALSE /\ UNCHANGED << was, since >>
<1>1. upd' = new /\ pc' = "refresh" /\ first' = FALSE /\ UNCHANGED << was, since >>
  BY DEF Checked
<1>2. CASE new = NoUpdate
  BY <1>1, <1>2, NoUpdateIs
<1>3. ASSUME NEW k \in 1 .. published,
             new = [latest |-> Releases[k], available |-> NewerVersion(Releases[k], Build),
                    checked |-> TRUE]
      PROVE  /\ upd'.latest = Releases[k] /\ upd'.available = NewerVersion(Releases[k], Build)
             /\ upd'.checked = TRUE
  BY <1>1, <1>3
<1>4. \A k \in 1 .. published : NewerVersion(Releases[k], Build) \in BOOLEAN
  <2>1. \A k \in 1 .. published : Releases[k] \in Versions /\ Build \in Versions
    BY Constants DEF TypeOK
  <2> QED
    BY <2>1, ComparedType
<1> QED
  BY <1>1, <1>2, <1>3, <1>4 DEF Answered

LEMMA StepType == TypeOK /\ Copied /\ [Next]_vars => TypeOK' /\ Copied'
<1> SUFFICES ASSUME TypeOK, Copied, [Next]_vars PROVE TypeOK' /\ Copied'
  OBVIOUS
<1>0. /\ CheckEvery \in Nat \ {0} /\ Timeout \in Nat /\ Budget \in Nat /\ MaxGap \in Nat
      /\ Len(Releases) \in Nat
  BY Constants
<1>1. CASE Boot \/ Tick \/ Refresh
  BY <1>0, <1>1 DEF Boot, Tick, Refresh, checker, TypeOK, Copied
<1>2. ASSUME NEW s \in Sources, Fetched(s) PROVE TypeOK' /\ Copied'
  <2>1. UNCHANGED << published, dead, behind, due, took, gap, left >>
    BY <1>2 DEF Fetched
  <2>2. PICK new : Checked(new) /\ Answered(new)
    BY <1>2, FetchAnswers
  <2>3. /\ upd'.latest \in {<< >>} \cup {Releases[k] : k \in 1 .. published'}
        /\ upd'.available \in BOOLEAN /\ upd'.checked \in BOOLEAN
        /\ (upd'.available => upd'.checked)
        /\ pc' = "refresh" /\ first' = FALSE /\ UNCHANGED << was, since >>
    BY <2>1, <2>2, CheckedType
  <2> QED
    BY <2>1, <2>3 DEF TypeOK, Copied
<1>3. ASSUME NEW s \in Sources, NotFetched(s) PROVE TypeOK' /\ Copied'
  <2>1. UNCHANGED << published, dead, behind, due, gap >> /\ took' = 0 /\ left' \in 0 .. Budget
    BY <1>0, <1>3 DEF NotFetched, TypeOK
  <2>2. CASE Checked(NoUpdate)
    <3>1. /\ upd'.latest \in {<< >>} \cup {Releases[k] : k \in 1 .. published'}
          /\ upd'.available \in BOOLEAN /\ upd'.checked \in BOOLEAN
          /\ (upd'.available => upd'.checked)
          /\ pc' = "refresh" /\ first' = FALSE /\ UNCHANGED << was, since >>
      BY <2>1, <2>2, CheckedType DEF Answered
    <3>2. took' \in 0 .. Timeout
      BY <1>0, <2>1
    <3> QED
      BY <2>1, <3>1, <3>2 DEF TypeOK, Copied
  <2>3. CASE pc' = NextSource(s) /\ NextSource(s) # "none" /\ UNCHANGED checker
    BY <1>0, <2>1, <2>3 DEF NextSource, checker, TypeOK, Copied
  <2> QED
    BY <1>3, <2>2, <2>3 DEF NotFetched
<1>4. CASE Elapse
  <2>1. took' \in 0 .. Timeout /\ due' = 1 /\ since' \in 0 .. CheckEvery /\ gap' \in 0 .. MaxGap + 1
    BY <1>0, <1>4 DEF Elapse, TypeOK
  <2> QED
    BY <1>4, <2>1 DEF Elapse, TypeOK, Copied
<1>5. CASE Publish
  <2>1. published' \in 0 .. Len(Releases) /\ published' > 0 /\ behind' = TRUE
        /\ 1 .. published \subseteq 1 .. published'
    BY <1>0, <1>5 DEF Publish, TypeOK
  <2>2. UNCHANGED << dead, pc, checker, due, took, gap, left >>
    BY <1>5 DEF Publish
  <2> QED
    BY <2>1, <2>2 DEF checker, TypeOK, Copied
<1>6. CASE CatchUp
  BY <1>6 DEF CatchUp, checker, TypeOK, Copied
<1>7. CASE UNCHANGED vars
  BY <1>7 DEF vars, checker, TypeOK, Copied
<1> QED
  BY <1>1, <1>2, <1>3, <1>4, <1>5, <1>6, <1>7 DEF Next, Daemon

LEMMA InitType == Init => TypeOK /\ Copied
<1> SUFFICES ASSUME Init PROVE TypeOK /\ Copied
  OBVIOUS
<1>1. upd = NoUpdate
  BY DEF Init
<1>2. upd.latest = << >> /\ upd.available = FALSE /\ upd.checked = FALSE
  BY <1>1, NoUpdateIs
<1>3. /\ upd.latest \in {<< >>} \cup {Releases[k] : k \in 1 .. published}
      /\ upd.available \in BOOLEAN /\ upd.checked \in BOOLEAN /\ (upd.available => upd.checked)
  BY <1>2
<1>4. /\ since \in 0 .. CheckEvery /\ due \in 0 .. 1 /\ took \in 0 .. Timeout
      /\ gap \in 0 .. MaxGap + 1 /\ left \in 0 .. Budget
  BY Constants DEF Init
<1>5. /\ published \in 0 .. Len(Releases) /\ behind \in BOOLEAN /\ dead \subseteq MayDie
      /\ pc = "boot" /\ was \in BOOLEAN /\ first \in BOOLEAN /\ (behind => published > 0)
  BY DEF Init
<1> QED
  BY <1>3, <1>4, <1>5 DEF TypeOK, Copied

\* Of every variable, in every reachable state, the type the code gives it.
THEOREM TypeCorrect == Spec => []TypeOK
BY InitType, StepType, PTL DEF Spec

-----------------------------------------------------------------------------
(* The delay of a pass.                                                    *)

\* How far a check has got, and what that has cost.
Waiting ==
  /\ pc = "boot" => gap = 0
  /\ pc = "idle" => gap <= due
  /\ pc = "ask1" => gap <= 1 + took
  /\ pc = "ask2" => gap <= 1 + Timeout + took
  /\ pc = "refresh" => gap <= MaxGap

LEMMA StepWaiting == TypeOK /\ Waiting /\ [Next]_vars => Waiting'
<1> SUFFICES ASSUME TypeOK, Waiting, [Next]_vars PROVE Waiting'
  OBVIOUS
<1>0. /\ Timeout \in Nat /\ MaxGap \in Nat /\ MaxGap = 1 + 2 * Timeout
      /\ gap \in Nat /\ took \in 0 .. Timeout /\ due \in 0 .. 1
  BY Constants DEF TypeOK
<1>1. CASE Boot \/ Tick \/ Refresh
  BY <1>0, <1>1 DEF Boot, Tick, Refresh, Waiting
<1>2. ASSUME NEW s \in Sources, Fetched(s) \/ NotFetched(s) PROVE Waiting'
  <2>1. /\ pc = Ask(s) /\ gap' = gap
        /\ \/ pc' = "refresh"
           \/ s = 1 /\ pc' = "ask2" /\ took' = 0
    BY <1>2 DEF Fetched, NotFetched, Checked, NextSource, Sources
  <2>2. gap <= MaxGap /\ (s = 1 => gap <= 1 + Timeout)
    BY <1>0, <2>1 DEF Ask, Waiting
  <2> QED
    BY <1>0, <2>1, <2>2 DEF Waiting
<1>3. CASE Elapse
  <2>1. pc' = pc /\ due' = 1 /\ gap' \in {gap, gap + 1}
        /\ \/ pc = "idle" /\ due = 0
           \/ pc \in {"ask1", "ask2"} /\ took' = took + 1
    BY <1>3 DEF Elapse
  <2> QED
    BY <1>0, <2>1 DEF Waiting
<1>4. CASE Publish \/ CatchUp \/ UNCHANGED vars
  BY <1>4 DEF Publish, CatchUp, vars, checker, Waiting
<1> QED
  BY <1>1, <1>2, <1>3, <1>4 DEF Next, Daemon

\* A check that gets no answer holds the next pass back by at most the two timeouts
\* (update.go:checkUpdate, called from the run loop).
THEOREM Delayed == Spec => []BoundedDelay
<1>1. Init => Waiting
  BY Constants DEF Init, Waiting
<1>2. TypeOK /\ Waiting => BoundedDelay
  <2> SUFFICES ASSUME TypeOK, Waiting PROVE gap <= MaxGap
    BY DEF BoundedDelay
  <2>1. /\ Timeout \in Nat /\ MaxGap = 1 + 2 * Timeout
        /\ gap \in Nat /\ took \in 0 .. Timeout /\ due \in 0 .. 1
    BY Constants DEF TypeOK
  <2>2. pc \in {"boot", "ask1", "ask2", "refresh", "idle"}
    BY DEF TypeOK
  <2> QED
    BY <2>1, <2>2 DEF Waiting
<1> QED
  BY <1>1, <1>2, InitType, StepType, StepWaiting, PTL DEF Spec

-----------------------------------------------------------------------------
(* What is reported.                                                       *)

\* A check that was answered has compared a release that is out with this build.
Reported ==
  upd.checked => \E k \in 1 .. published :
                   /\ upd.latest = Releases[k]
                   /\ upd.available <=> NewerVersion(Releases[k], Build)

LEMMA CheckedReported ==
  ASSUME NEW new, Checked(new), Answered(new), UNCHANGED published
  PROVE  Reported'
<1>1. upd' = new
  BY DEF Checked
<1> QED
  BY <1>1, NoUpdateIs DEF Answered, Reported

LEMMA StepReported == TypeOK /\ Copied /\ Reported /\ [Next]_vars => Reported'
<1> SUFFICES ASSUME TypeOK, Copied, Reported, [Next]_vars PROVE Reported'
  OBVIOUS
<1>1. CASE UNCHANGED << upd, published >>
  BY <1>1 DEF Reported
<1>2. ASSUME NEW s \in Sources, Fetched(s) PROVE Reported'
  BY <1>2, FetchAnswers, CheckedReported DEF Fetched
<1>3. ASSUME NEW s \in Sources, NotFetched(s) PROVE Reported'
  <2>1. Checked(NoUpdate) \/ UNCHANGED checker
    BY <1>3 DEF NotFetched
  <2>2. UNCHANGED published
    BY <1>3 DEF NotFetched
  <2> QED
    BY <1>1, <2>1, <2>2, CheckedReported DEF Answered, checker
<1>4. CASE Publish
  <2>1. upd' = upd /\ 1 .. published \subseteq 1 .. published'
    BY <1>4, Constants DEF Publish, checker, TypeOK
  <2> QED
    BY <2>1 DEF Reported
<1>5. CASE Boot \/ Tick \/ Refresh \/ Elapse \/ CatchUp \/ UNCHANGED vars
  BY <1>1, <1>5 DEF Boot, Tick, Refresh, Elapse, CatchUp, vars, checker
<1> QED
  BY <1>2, <1>3, <1>4, <1>5 DEF Next, Daemon

\* The reference order is the one the code computes.
LEMMA LexicographicOrder ==
  ASSUME NEW a \in Versions, NEW b \in Versions
  PROVE  NewerVersion(a, b) <=>
           Lexicographic(Padded(a, Longer(a, b)), Padded(b, Longer(a, b)))
<1> DEFINE n == Longer(a, b)
<1>1. n \in Nat
  BY FieldType
<1> HIDE DEF n
<1>2. \A i \in 1 .. n : Padded(a, n)[i] = Field(a, i) /\ Padded(b, n)[i] = Field(b, i)
  BY DEF Padded
<1>3. DOMAIN Padded(a, n) = 1 .. n
  BY DEF Padded
<1>4. \A i \in 1 .. n : \A j \in 1 .. i - 1 : j \in 1 .. n
  BY <1>1
<1>5. LaterFrom(a, b, 1) <=> Lexicographic(Padded(a, n), Padded(b, n))
  BY <1>2, <1>3, <1>4 DEF LaterFrom, Lexicographic, n
<1> QED
  BY <1>5, Compared DEF n

\* What is announced and reported is a release later than this build, in the order of
\* versions as numbers (update.go:157-162).
THEOREM NewerOnly == Spec => []AvailableIsNewer
<1>1. Init => Reported
  BY NoUpdateIs DEF Init, Reported
<1>2. TypeOK /\ Reported => AvailableIsNewer
  <2> SUFFICES ASSUME TypeOK, Reported, upd.checked
               PROVE  upd.available <=>
                        Lexicographic(Padded(upd.latest, Longer(upd.latest, Build)),
                                      Padded(Build, Longer(upd.latest, Build)))
    BY DEF AvailableIsNewer
  <2>1. PICK k \in 1 .. published : upd.latest = Releases[k]
                                    /\ (upd.available <=> NewerVersion(Releases[k], Build))
    BY DEF Reported
  <2>2. Releases[k] \in Versions /\ Build \in Versions
    BY Constants DEF TypeOK
  <2> QED
    BY <2>1, <2>2, LexicographicOrder
<1> QED
  BY <1>1, <1>2, InitType, StepType, StepReported, PTL DEF Spec

-----------------------------------------------------------------------------
(* How often it is said.                                                   *)

\* Each release the project publishes is newer than the ones before it.
Ascending == \A j, k \in DOMAIN Releases : j < k => NewerVersion(Releases[k], Releases[j])

\* As long as no request fails: what has been said is still so, and known to be.
SaidNow ==
  /\ pc # "ask2" /\ said \in Seq({Releases[k] : k \in 1 .. Len(Releases)}) /\ Len(said) <= 1
  /\ said # << >> => upd.available
  /\ first \/ pc = "boot" => said = << >>
  /\ pc = "ask1" /\ ~was => said = << >>
SaidSoFar == left <= Budget /\ (NoFailure => SaidNow)

LEMMA StillNewer ==
  ASSUME Ascending, NEW j \in DOMAIN Releases, NEW k \in DOMAIN Releases, j <= k,
         NewerVersion(Releases[j], Build)
  PROVE  NewerVersion(Releases[k], Build)
<1>1. Releases[j] \in Versions /\ Releases[k] \in Versions /\ Build \in Versions
      /\ j \in Nat /\ k \in Nat
  BY VersionsAssumption DEF Versions
<1>2. CASE j = k
  BY <1>2
<1>3. CASE j < k
  <2>1. NewerVersion(Releases[k], Releases[j])
    BY <1>3 DEF Ascending
  <2> QED
    BY <1>1, <2>1, VersionOrder
<1> QED
  BY <1>1, <1>2, <1>3

LEMMA StepSaid ==
  ASSUME Ascending PROVE TypeOK /\ Copied /\ Reported /\ SaidSoFar /\ [Next]_vars => SaidSoFar'
<1> SUFFICES ASSUME TypeOK, Copied, Reported, SaidSoFar, [Next]_vars PROVE SaidSoFar'
  OBVIOUS
<1>0. left \in Nat /\ Budget \in Nat /\ left <= Budget
  BY Constants DEF TypeOK, SaidSoFar
<1>1. CASE Boot
  BY <1>1 DEF Boot, SaidSoFar, SaidNow, NoFailure
<1>2. CASE Tick
  BY <1>2 DEF Tick, SaidSoFar, SaidNow, NoFailure
<1>3. CASE Refresh
  BY <1>3 DEF Refresh, checker, SaidSoFar, SaidNow, NoFailure
<1>4. ASSUME NEW s \in Sources, NotFetched(s) PROVE SaidSoFar'
  <2>1. left' <= Budget /\ ~NoFailure'
    BY <1>0, <1>4 DEF NotFetched, NoFailure
  <2> QED
    BY <2>1 DEF SaidSoFar
<1>5. ASSUME NEW s \in Sources, Fetched(s) PROVE SaidSoFar'
  <2>1. pc = Ask(s) /\ UNCHANGED << published, dead, left >>
    BY <1>5 DEF Fetched
  <2> SUFFICES ASSUME NoFailure PROVE SaidNow'
    BY <1>0, <2>1 DEF SaidSoFar, NoFailure
  <2>2. SaidNow /\ s = 1 /\ pc = "ask1"
    BY <2>1 DEF SaidSoFar, SaidNow, Ask, Sources
  <2>3. PICK new : /\ Checked(new) /\ Answered(new)
                   /\ published > 0 =>
                        new = [latest |-> Releases[published],
                               available |-> NewerVersion(Releases[published], Build),
                               checked |-> TRUE]
    BY <1>5, <2>2, FetchAnswers
  <2>4. /\ pc' = "refresh" /\ upd' = new /\ first' = FALSE /\ was' = was
        /\ said' = IF Said(new) THEN Append(said, new.latest) ELSE said
    BY <2>3 DEF Checked
  <2>5. said # << >> => new.available
    <3> SUFFICES ASSUME said # << >> PROVE new.available
      OBVIOUS
    <3>1. upd.available /\ upd.checked
      BY <2>2 DEF SaidNow, TypeOK
    <3>2. PICK k \in 1 .. published : NewerVersion(Releases[k], Build)
      BY <3>1 DEF Reported
    <3>3. published > 0 /\ published \in DOMAIN Releases /\ k \in DOMAIN Releases /\ k <= published
      BY <3>2, Constants, VersionsAssumption DEF TypeOK
    <3>4. NewerVersion(Releases[published], Build)
      BY <3>2, <3>3, StillNewer
    <3> QED
      BY <2>3, <3>3, <3>4
  <2>6. Said(new) => said = << >> /\ new.available
    BY <2>2 DEF Said, SaidNow
  <2>7. Said(new) => new.latest \in {Releases[k] : k \in 1 .. Len(Releases)}
    <3> SUFFICES ASSUME Said(new) PROVE new.latest \in {Releases[k] : k \in 1 .. Len(Releases)}
      OBVIOUS
    <3>1. new # NoUpdate
      BY <2>6, NoUpdateIs
    <3>2. PICK k \in 1 .. published : new.latest = Releases[k]
      BY <2>3, <3>1 DEF Answered
    <3>3. k \in 1 .. Len(Releases)
      BY Constants DEF TypeOK
    <3> QED
      BY <3>2, <3>3
  <2>8. CASE Said(new)
    <3>1. said = << >> /\ said' = Append(said, new.latest) /\ new.available
      BY <2>4, <2>6, <2>8
    <3>2. said' = << new.latest >>
      BY <3>1
    <3>3. said' \in Seq({Releases[k] : k \in 1 .. Len(Releases)}) /\ Len(said') <= 1
      BY <2>7, <2>8, <3>2
    <3> QED
      BY <2>4, <3>1, <3>3 DEF SaidNow
  <2>9. CASE ~Said(new)
    BY <2>2, <2>4, <2>5, <2>9 DEF SaidNow
  <2> QED
    BY <2>8, <2>9
<1>6. CASE Elapse \/ Publish \/ CatchUp \/ UNCHANGED vars
  BY <1>6 DEF Elapse, Publish, CatchUp, vars, checker, SaidSoFar, SaidNow, NoFailure
<1> QED
  BY <1>1, <1>2, <1>3, <1>4, <1>5, <1>6 DEF Next, Daemon

\* As long as no request fails and releases ascend, the log says once that there is a newer
\* one, however many appear (main.go:267-268).
THEOREM Announced == Ascending => (Spec => []SaidOnce)
<1> SUFFICES ASSUME Ascending PROVE Spec => []SaidOnce
  OBVIOUS
<1>1. Init => SaidSoFar /\ Reported
  BY NoUpdateIs, Constants DEF Init, SaidSoFar, SaidNow, Reported
<1>2. SaidSoFar => SaidOnce
  BY DEF SaidSoFar, SaidNow, SaidOnce
<1>3. TypeOK /\ Copied /\ Reported /\ SaidSoFar /\ [Next]_vars => SaidSoFar'
  BY StepSaid
<1> QED
  BY <1>1, <1>2, <1>3, InitType, StepType, StepReported, PTL DEF Spec
=============================================================================
