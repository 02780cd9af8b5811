---------------------------- MODULE RecoveryProofs ---------------------------
(***************************************************************************)
(* What TLAPS proves of Recovery, for every list of tunnels, all delays and *)
(* every budget of upsets.                                                 *)
(***************************************************************************)
EXTENDS Recovery, TLAPS

-----------------------------------------------------------------------------
(* Time in a pass.                                                         *)

\* How long the loop of recoverTunnels has run at most: two commands for each tunnel.
Busy == IF pc = "each" THEN 2 * (i - 1) * MaxTook + took
        ELSE (2 * (i - 1) + 1) * MaxTook + took

Timed ==
  /\ pc \in {"each", "up"} => passed <= Busy
  /\ pc = "idle" => took = 0

\* The arithmetic of it: n tunnels of two commands each, of which k - 1 are done.
LEMMA Commands ==
  ASSUME NEW n \in Nat, NEW k \in 1 .. n, NEW m \in Nat
  PROVE  /\ 2 * (k - 1) * m \in Nat /\ (2 * (k - 1) + 1) * m \in Nat /\ 2 * n * m \in Nat
         /\ (2 * (k - 1) + 1) * m = 2 * (k - 1) * m + m
         /\ 2 * ((k + 1) - 1) * m = (2 * (k - 1) + 1) * m + m
         /\ (2 * (k - 1) + 1) * m + m <= 2 * n * m
<1>1. /\ k - 1 \in Nat /\ 2 * (k - 1) \in Nat /\ 2 * (k - 1) + 1 \in Nat
      /\ 2 * k <= 2 * n
  OBVIOUS
<1>2. 2 * k * m <= 2 * n * m
  BY <1>1
<1> QED
  BY <1>1, <1>2

LEMMA Numbers ==
  TypeOK => /\ Len(Tunnels) \in Nat \ {0} /\ i \in 1 .. Len(Tunnels) /\ MaxTook \in Nat
            /\ took \in 0 .. MaxTook /\ passed \in Nat /\ due \in Nat
            /\ MaxPass \in Nat /\ MaxDown \in Nat /\ MaxAge \in Nat
            /\ StartBackoff \in Nat \ {0} /\ CycleBackoff \in Nat \ {0} /\ Period \in Nat \ {0}
            /\ StaleAfter \in Int /\ Rekey \in Nat \ {0} /\ StartBackoff <= CycleBackoff
            /\ Tunnels[i] \in Names
<1>1. Len(Tunnels) \in Nat \ {0}
  BY TunnelsAssumption
<1>2. MaxPass \in Nat
  BY <1>1, TimesAssumption DEF MaxPass
<1>3. TypeOK => /\ i \in 1 .. Len(Tunnels) /\ took \in 0 .. MaxTook
                /\ passed \in 0 .. MaxPass /\ due \in 0 .. Period
  BY DEF TypeOK
<1>4. /\ MaxTook \in Nat /\ {StartBackoff, CycleBackoff, Rekey, Period} \subseteq Nat \ {0}
      /\ StaleAfter \in Int /\ StartBackoff <= CycleBackoff
  BY TimesAssumption
<1>5. MaxDown \in Nat /\ MaxAge \in Nat
  BY <1>2, <1>4 DEF MaxDown, MaxAge
<1>6. TypeOK => Tunnels[i] \in Names
  BY <1>1, <1>3 DEF Names
<1> QED
  BY <1>1, <1>2, <1>3, <1>4, <1>5, <1>6

\* A pass takes at most MaxPass: the loop of recoverTunnels counts the time of its commands.
LEMMA StepTimed == TypeOK /\ Timed /\ [Next]_vars => Timed' /\ passed' \in 0 .. MaxPass
<1> SUFFICES ASSUME TypeOK, Timed, [Next]_vars PROVE Timed' /\ passed' \in 0 .. MaxPass
  OBVIOUS
<1> DEFINE a == 2 * (i - 1) * MaxTook
           b == (2 * (i - 1) + 1) * MaxTook
<1>0. /\ a \in Nat /\ b \in Nat /\ b = a + MaxTook /\ b + MaxTook <= MaxPass
      /\ 2 * ((i + 1) - 1) * MaxTook = b + MaxTook
      /\ MaxTook \in Nat /\ took \in 0 .. MaxTook /\ passed \in 0 .. MaxPass /\ MaxPass \in Nat
      /\ 2 * (1 - 1) * MaxTook = 0 /\ i \in Nat
  <2>1. /\ Len(Tunnels) \in Nat /\ i \in 1 .. Len(Tunnels) /\ i \in Nat
        /\ MaxTook \in Nat /\ took \in 0 .. MaxTook /\ MaxPass \in Nat /\ passed \in 0 .. MaxPass
    BY Numbers DEF TypeOK
  <2>2. /\ a \in Nat /\ b \in Nat /\ b = a + MaxTook
        /\ b + MaxTook <= 2 * Len(Tunnels) * MaxTook
        /\ 2 * ((i + 1) - 1) * MaxTook = b + MaxTook
    BY <2>1, Commands
  <2> HIDE DEF a, b
  <2>3. 2 * (1 - 1) * MaxTook = 0
    BY <2>1
  <2> QED
    BY <2>1, <2>2, <2>3 DEF MaxPass
<1>1. /\ pc = "each" => passed <= a + took
      /\ pc = "up" => passed <= b + took
  BY DEF Timed, Busy
<1>2. /\ i' = i => 2 * (i' - 1) * MaxTook = a /\ (2 * (i' - 1) + 1) * MaxTook = b
      /\ i' = i + 1 => 2 * (i' - 1) * MaxTook = b + MaxTook
      /\ i' = 1 => 2 * (i' - 1) * MaxTook = 0
  BY <1>0
<1> HIDE DEF a, b
<1>3. CASE BootRead \/ Boot \/ Crash \/ Tick
  BY <1>0, <1>3 DEF BootRead, Boot, Crash, Tick, NextTunnel, Timed
<1>4. CASE PassRead
  <2>1. pc' = "each" /\ i' = 1 /\ passed' = 0 /\ took' = 0
    BY <1>4 DEF PassRead
  <2> QED
    BY <1>0, <1>2, <2>1 DEF Timed, Busy
<1>5. CASE Leave \/ Start \/ UpAgain
  <2>1. /\ pc = "each" \/ pc = "up"
        /\ passed' = passed /\ took' = 0
        /\ \/ pc' = "each" /\ i' = i + 1
           \/ pc' = "idle"
    BY <1>5 DEF Leave, Start, UpAgain, NextTunnel
  <2>2. pc' = "each" => passed' <= 2 * (i' - 1) * MaxTook + took'
    BY <1>0, <1>1, <1>2, <2>1
  <2> QED
    BY <1>0, <2>1, <2>2 DEF Timed, Busy
<1>6. CASE Cut
  <2>1. pc = "each" /\ pc' = "up" /\ i' = i /\ passed' = passed /\ took' = 0
    BY <1>6 DEF Cut
  <2>2. passed' <= (2 * (i' - 1) + 1) * MaxTook + took'
    BY <1>0, <1>1, <1>2, <2>1
  <2> QED
    BY <1>0, <2>1, <2>2 DEF Timed, Busy
<1>7. CASE Elapse
  <2>1. CASE pc \in {"each", "up"}
    <3>1. /\ took < MaxTook /\ took' = took + 1 /\ passed' = passed + 1 /\ i' = i /\ pc' = pc
      BY <1>7, <2>1 DEF Elapse
    <3>2. /\ pc = "each" => passed' <= a + took' /\ passed' <= MaxPass
          /\ pc = "up" => passed' <= b + took' /\ passed' <= MaxPass
      BY <1>0, <1>1, <3>1
    <3> QED
      BY <1>0, <1>2, <2>1, <3>1, <3>2 DEF Timed, Busy
  <2>2. CASE pc \notin {"each", "up"}
    BY <1>0, <1>7, <2>2 DEF Elapse, Timed
  <2> QED
    BY <2>1, <2>2
<1>8. CASE Change \/ UNCHANGED vars
  <2>1. UNCHANGED << pc, i, passed, took >>
    BY <1>8 DEF Change, vars, daemon
  <2> QED
    BY <1>0, <2>1 DEF Timed, Busy
<1> QED
  BY <1>3, <1>4, <1>5, <1>6, <1>7, <1>8 DEF Next, Daemon

-----------------------------------------------------------------------------
(* Types.                                                                  *)

Readings == [Names -> [up : BOOLEAN, age : NoAge .. MaxAge]]

LEMMA ReadType ==
  ASSUME TypeOK, Read
  PROVE  seen' \in Readings /\ left' \in [Upsets -> Nat]
<1>0. NoAge \in NoAge .. MaxAge
  BY Numbers DEF NoAge
<1>1. Truth \in Readings
  <2>1. \A t \in Names : up[t] \in BOOLEAN /\ (IF up[t] THEN age[t] ELSE NoAge) \in NoAge .. MaxAge
    BY <1>0 DEF TypeOK
  <2> QED
    BY <2>1 DEF Truth, Readings
<1>2. left' \in [Upsets -> Nat]
  <2>1. Spend("misread") \/ Fine
    BY DEF Read
  <2> QED
    BY <2>1 DEF Spend, Fine, TypeOK, Upsets
<1>3. \A t \in Names : [Truth[t] EXCEPT !.age = NoAge] \in [up : BOOLEAN, age : NoAge .. MaxAge]
  <2> SUFFICES ASSUME NEW t \in Names
               PROVE  [Truth[t] EXCEPT !.age = NoAge] \in [up : BOOLEAN, age : NoAge .. MaxAge]
    OBVIOUS
  <2>1. Truth[t] \in [up : BOOLEAN, age : NoAge .. MaxAge]
    BY <1>1 DEF Readings
  <2> QED
    BY <1>0, <2>1
<1>4. \A t \in Names : [Truth EXCEPT ![t].up = FALSE] \in Readings
  BY <1>1 DEF Readings
<1> QED
  BY <1>1, <1>2, <1>3, <1>4 DEF Read, Readings

Machine ==
  /\ up \in [Names -> BOOLEAN] /\ dud \in [Names -> BOOLEAN]
  /\ answers \in [Names -> BOOLEAN] /\ kept \subseteq Names /\ age \in [Names -> NoAge .. MaxAge]
  /\ made \in [Names -> 0 .. 1] /\ loyal \in [Names -> 0 .. MaxPass + 1]

LEMMA RemadeType ==
  ASSUME TypeOK, NEW t \in Names, NEW e \in BOOLEAN, NEW d \in BOOLEAN, Remade(t, e, d)
  PROVE  Machine'
<1>1. NoAge \in NoAge .. MaxAge /\ 0 \in 0 .. MaxPass + 1 /\ 0 \in 0 .. 1
  BY Numbers DEF NoAge
<1>2. /\ up' \in [Names -> BOOLEAN] /\ dud' \in [Names -> BOOLEAN] /\ answers' \in [Names -> BOOLEAN]
      /\ kept' \subseteq Names
  BY DEF Remade, TypeOK
<1>3. age' \in [Names -> NoAge .. MaxAge] /\ made' \in [Names -> 0 .. 1]
      /\ loyal' \in [Names -> 0 .. MaxPass + 1]
  BY <1>1 DEF Remade, TypeOK
<1> QED
  BY <1>2, <1>3 DEF Machine

LEMMA SameMachine == TypeOK /\ UNCHANGED tunnels => Machine'
BY DEF TypeOK, tunnels, Machine

LEMMA SpendType == \A u \in Upsets : TypeOK /\ Spend(u) => left' \in [Upsets -> Nat]
<1> SUFFICES ASSUME NEW u \in Upsets, TypeOK, Spend(u) PROVE left' \in [Upsets -> Nat]
  OBVIOUS
<1>1. left \in [Upsets -> Nat]
  BY DEF TypeOK
<1>2. left[u] - 1 \in Nat
  BY <1>1 DEF Spend
<1> QED
  BY <1>1, <1>2 DEF Spend

LEMMA CommandType ==
  ASSUME TypeOK, NEW t \in Names
  PROVE  /\ BringUp(t) \/ BringDown(t) => Machine' /\ left' \in [Upsets -> Nat]
         /\ Fine \/ Fault => left' \in [Upsets -> Nat]
<1>1. Fine \/ Fault => left' \in [Upsets -> Nat]
  BY SpendType DEF Fine, Fault, TypeOK, Upsets
<1>2. BringUp(t) => Fine \/ Fault
  BY DEF BringUp
<1>3. BringDown(t) => Fine \/ Fault
  BY DEF BringDown
<1>4. BringUp(t) \/ BringDown(t) => Machine'
  BY RemadeType, SameMachine DEF BringUp, BringDown
<1> QED
  BY <1>1, <1>2, <1>3, <1>4

LEMMA LeastType ==
  ASSUME NEW n \in Nat, NEW a \in 0 .. n, NEW c \in Nat
  PROVE  Least(a, c) \in 0 .. c /\ Least(a + 1, n) \in 0 .. n
BY DEF Least

LEMMA PlusType ==
  ASSUME NEW n \in Nat, NEW f \in [Names -> 0 .. n] PROVE Plus1(f, n) \in [Names -> 0 .. n]
BY LeastType DEF Plus1

LEMMA StepType == TypeOK /\ Timed /\ [Next]_vars => TypeOK' /\ Timed'
<1> SUFFICES ASSUME TypeOK, Timed, [Next]_vars PROVE TypeOK'
  BY StepTimed
<1>0. /\ passed' \in 0 .. MaxPass /\ MaxTook \in Nat /\ Period \in Nat /\ CycleBackoff \in Nat
      /\ MaxDown \in Nat /\ MaxPass \in Nat /\ Len(Tunnels) \in Nat \ {0}
      /\ i \in 1 .. Len(Tunnels) /\ Tunnels[i] \in Names
  BY StepTimed, Numbers
<1>n. ASSUME NEW loop, NEW after, NextTunnel(loop, after)
      PROVE  i' \in 1 .. Len(Tunnels) /\ took' \in 0 .. MaxTook /\ pc' \in {loop, after}
  BY <1>0, <1>n DEF NextTunnel
<1>d. \A t \in Names : Tried(t) => downFor' \in [Names -> 0 .. MaxDown + 1]
  BY <1>0 DEF Tried, TypeOK
<1>s. \A t \in Names : Noted(t) => since' \in [Names -> 0 .. CycleBackoff]
  <2>1. since \in [Names -> 0 .. CycleBackoff] /\ passed \in 0 .. MaxPass
    BY DEF TypeOK
  <2>2. Least(passed, CycleBackoff) \in 0 .. CycleBackoff
    BY <1>0, <2>1, LeastType
  <2> QED
    BY <2>1, <2>2 DEF Noted
<1>l. ASSUME NEW t \in Names, alone' = [alone EXCEPT ![t] = 0]
      PROVE  alone' \in [Names -> 0 .. CycleBackoff]
  BY <1>0, <1>l DEF TypeOK
<1>1. CASE BootRead \/ PassRead
  <2>1. Read
    BY <1>1 DEF BootRead, PassRead
  <2>2. seen' \in Readings /\ left' \in [Upsets -> Nat]
    BY <2>1, ReadType
  <2>3. Machine'
    BY <1>1, SameMachine DEF BootRead, PassRead
  <2>4. /\ pc' \in {"boot_up", "each"} /\ i' = 1 /\ took' = 0 /\ UNCHANGED << since, due, tried >>
        /\ waited' = waited \/ waited' = since
    BY <1>1 DEF BootRead, PassRead
  <2>5. /\ i' \in 1 .. Len(Tunnels) /\ took' \in 0 .. MaxTook
        /\ waited' \in [Names -> 0 .. CycleBackoff]
    <3>1. waited' \in [Names -> 0 .. CycleBackoff]
      BY <2>4 DEF TypeOK
    <3> QED
      BY <1>0, <2>4, <3>1
  <2> QED
    BY <1>0, <2>2, <2>3, <2>4, <2>5 DEF Machine, TypeOK, tried, Readings
<1>2. CASE Boot
  <2>1. i' \in 1 .. Len(Tunnels) /\ took' \in 0 .. MaxTook /\ pc' \in {"boot_up", "read"}
    BY <1>2, <1>n DEF Boot
  <2>2. Machine' /\ left' \in [Upsets -> Nat]
    BY <1>0, <1>2, CommandType, SameMachine DEF Boot
  <2>3. downFor' \in [Names -> 0 .. MaxDown + 1]
    BY <1>0, <1>2, <1>d DEF Boot, TypeOK
  <2> QED
    BY <1>0, <1>2, <2>1, <2>2, <2>3 DEF Boot, Machine, TypeOK
<1>3. CASE Leave
  <2>1. i' \in 1 .. Len(Tunnels) /\ took' \in 0 .. MaxTook /\ pc' \in {"each", "idle"}
    BY <1>3, <1>n DEF Leave
  <2> QED
    BY <1>0, <1>3, <2>1 DEF Leave, Fine, TypeOK, tunnels, tried
<1>4. CASE Start
  <2>1. i' \in 1 .. Len(Tunnels) /\ took' \in 0 .. MaxTook /\ pc' \in {"each", "idle"}
    BY <1>4, <1>n DEF Start
  <2>2. Machine' /\ left' \in [Upsets -> Nat]
    BY <1>0, <1>4, CommandType DEF Start
  <2>3. /\ downFor' \in [Names -> 0 .. MaxDown + 1] /\ since' \in [Names -> 0 .. CycleBackoff]
        /\ alone' \in [Names -> 0 .. CycleBackoff]
    BY <1>0, <1>4, <1>d, <1>s, <1>l DEF Start
  <2> QED
    BY <1>0, <1>4, <2>1, <2>2, <2>3 DEF Start, Machine, TypeOK
<1>5. CASE Cut
  <2>1. Machine' /\ left' \in [Upsets -> Nat] /\ since' \in [Names -> 0 .. CycleBackoff]
    BY <1>0, <1>5, <1>s, CommandType DEF Cut
  <2>2. took' \in 0 .. MaxTook /\ pc' = "up" /\ UNCHANGED << i, seen, waited, due, alone, downFor >>
    BY <1>0, <1>5 DEF Cut, tried
  <2> QED
    BY <1>0, <2>1, <2>2 DEF Machine, TypeOK
<1>6. CASE UpAgain
  <2>1. i' \in 1 .. Len(Tunnels) /\ took' \in 0 .. MaxTook /\ pc' \in {"each", "idle"}
    BY <1>6, <1>n DEF UpAgain
  <2>2. Machine' /\ left' \in [Upsets -> Nat]
    BY <1>0, <1>6, CommandType DEF UpAgain
  <2>3. /\ downFor' \in [Names -> 0 .. MaxDown + 1] /\ alone' \in [Names -> 0 .. CycleBackoff]
    BY <1>0, <1>6, <1>d, <1>l DEF UpAgain
  <2> QED
    BY <1>0, <1>6, <2>1, <2>2, <2>3 DEF UpAgain, Machine, TypeOK
<1>7. CASE Tick
  <2>1. pc' = "read" /\ due' = 0 /\ 0 \in 0 .. Period
    BY <1>0, <1>7 DEF Tick
  <2>2. UNCHANGED << tunnels, tried, i, seen, since, waited, took, left >>
    BY <1>7 DEF Tick, Fine
  <2> QED
    BY <1>0, <2>1, <2>2 DEF TypeOK, tunnels, tried
<1>8. CASE Crash
  <2>1. left' \in [Upsets -> Nat]
    BY <1>8, SpendType DEF Crash, Upsets
  <2>2. /\ since' \in [Names -> 0 .. CycleBackoff] /\ waited' \in [Names -> 0 .. CycleBackoff]
        /\ alone' \in [Names -> 0 .. CycleBackoff] /\ downFor' \in [Names -> 0 .. MaxDown + 1]
    BY <1>0, <1>8 DEF Crash
  <2>3. /\ pc' = "boot" /\ i' \in 1 .. Len(Tunnels) /\ took' \in 0 .. MaxTook
        /\ due' \in 0 .. Period /\ UNCHANGED << tunnels, seen >>
    BY <1>0, <1>8 DEF Crash
  <2> QED
    BY <1>0, <2>1, <2>2, <2>3 DEF TypeOK, tunnels
<1>9. CASE Elapse
  <2>1. /\ since' \in [Names -> 0 .. CycleBackoff] /\ alone' \in [Names -> 0 .. CycleBackoff]
        /\ made' \in [Names -> 0 .. 1]
    BY <1>0, <1>9, PlusType DEF Elapse, TypeOK
  <2>2. loyal' \in [Names -> 0 .. MaxPass + 1]
    <3>1. \A t \in Names : Least(loyal[t] + 1, MaxPass + 1) \in 0 .. MaxPass + 1
      <4>1. MaxPass + 1 \in Nat /\ \A t \in Names : loyal[t] \in 0 .. MaxPass + 1
        BY <1>0 DEF TypeOK
      <4> QED
        BY <4>1, LeastType
    <3> QED
      BY <1>0, <1>9, <3>1 DEF Elapse
  <2>3. downFor' \in [Names -> 0 .. MaxDown + 1]
    <3>1. \A t \in Names : Least(downFor[t] + 1, MaxDown + 1) \in 0 .. MaxDown + 1
      <4>1. MaxDown + 1 \in Nat /\ \A t \in Names : downFor[t] \in 0 .. MaxDown + 1
        BY <1>0 DEF TypeOK
      <4> QED
        BY <4>1, LeastType
    <3> QED
      BY <1>0, <1>9, <3>1 DEF Elapse
  <2>4. took' \in 0 .. MaxTook /\ due' \in 0 .. Period
    <3>1. took \in 0 .. MaxTook /\ due \in 0 .. Period
      BY DEF TypeOK
    <3>2. (took' = took \/ (took < MaxTook /\ took' = took + 1)) /\ due' = Least(due + 1, Period)
      BY <1>9 DEF Elapse
    <3>3. due' \in 0 .. Period
      BY <1>0, <3>1, <3>2, LeastType
    <3>4. took' \in 0 .. MaxTook
      BY <1>0, <3>1, <3>2
    <3> QED
      BY <3>3, <3>4
  <2> QED
    BY <1>0, <1>9, <2>1, <2>2, <2>3, <2>4 DEF Elapse, TypeOK
<1>10. CASE Change
  <2>1. left' \in [Upsets -> Nat] /\ UNCHANGED << daemon, tried >>
    BY <1>10, SpendType DEF Change, Upsets
  <2>2. Machine'
    <3>1. CASE \E t \in Names : Remade(t, FALSE, FALSE)
      BY <3>1, RemadeType
    <3>2. CASE \E t \in Names :
                /\ answers' = [answers EXCEPT ![t] = ~@] /\ loyal' = [loyal EXCEPT ![t] = 0]
                /\ UNCHANGED << up, dud, kept, age, made >>
      <4>1. answers' \in [Names -> BOOLEAN] /\ UNCHANGED << up, dud, kept, age, made >>
        BY <3>2 DEF TypeOK
      <4>2. loyal' \in [Names -> 0 .. MaxPass + 1]
        BY <1>0, <3>2 DEF TypeOK
      <4> QED
        BY <4>1, <4>2 DEF Machine, TypeOK
    <3> QED
      BY <1>10, <3>1, <3>2 DEF Change
  <2> QED
    BY <1>0, <2>1, <2>2 DEF Machine, TypeOK, daemon, tried
<1>11. CASE UNCHANGED vars
  BY <1>11 DEF vars, tunnels, daemon, tried, TypeOK
<1> QED
  BY <1>1, <1>2, <1>3, <1>4, <1>5, <1>6, <1>7, <1>8, <1>9, <1>10, <1>11 DEF Next, Daemon

LEMMA InitType == Init => TypeOK /\ Timed
<1> SUFFICES ASSUME Init PROVE TypeOK /\ Timed
  OBVIOUS
<1>0. /\ MaxTook \in Nat /\ Period \in Nat /\ CycleBackoff \in Nat /\ Len(Tunnels) \in Nat \ {0}
      /\ MaxDown \in Nat /\ MaxPass \in Nat /\ NoAge \in NoAge .. MaxAge
  <2>1. Len(Tunnels) \in Nat \ {0} /\ MaxTook \in Nat /\ StaleAfter \in Int /\ Rekey \in Nat
    BY TunnelsAssumption, TimesAssumption
  <2>2. MaxPass \in Nat
    BY <2>1 DEF MaxPass
  <2>3. NoAge \in NoAge .. MaxAge
    BY <2>1 DEF NoAge, MaxAge
  <2> QED
    BY <2>1, <2>2, <2>3, TimesAssumption DEF MaxDown
<1>1. i \in 1 .. Len(Tunnels) /\ passed \in 0 .. MaxPass /\ took \in 0 .. MaxTook /\ due \in 0 .. Period
  BY <1>0 DEF Init
<1>2. /\ since \in [Names -> 0 .. CycleBackoff] /\ waited \in [Names -> 0 .. CycleBackoff]
      /\ made \in [Names -> 0 .. 1] /\ loyal \in [Names -> 0 .. MaxPass + 1]
      /\ alone \in [Names -> 0 .. CycleBackoff] /\ downFor \in [Names -> 0 .. MaxDown + 1]
  BY <1>0 DEF Init
<1>3. age \in [Names -> NoAge .. MaxAge] /\ seen \in [Names -> [up : BOOLEAN, age : NoAge .. MaxAge]]
  BY <1>0 DEF Init
<1> QED
  BY <1>1, <1>2, <1>3, BudgetAssumption DEF Init, TypeOK, Timed

\* Of every variable, in every reachable state, the type the code gives it.
THEOREM TypeCorrect == Spec => []TypeOK
BY InitType, StepType, PTL DEF Spec

-----------------------------------------------------------------------------
(* The backoffs.                                                           *)

\* lastAttempt is noted as of the beginning of the pass, at most a pass before the end of
\* the attempt.
Apart ==
  /\ \A t \in Names : since[t] <= alone[t] + MaxPass
  /\ pc \in {"each", "up"} =>
       \A j \in i .. Len(Tunnels) : waited[Tunnels[j]] <= alone[Tunnels[j]] + MaxPass
  /\ pc = "up" => since[Tunnels[i]] <= passed

\* Names and positions.
LEMMA Positions ==
  ASSUME TypeOK
  PROVE  /\ \A j \in i .. Len(Tunnels) : Tunnels[j] \in Names
         /\ \A j \in 1 .. Len(Tunnels) : Tunnels[j] \in Names
         /\ \A j \in i .. Len(Tunnels) : j # i => Tunnels[j] # Tunnels[i]
         /\ \A t \in Names : \E j \in 1 .. Len(Tunnels) : t = Tunnels[j]
<1>1. /\ Len(Tunnels) \in Nat /\ DOMAIN Tunnels = 1 .. Len(Tunnels) /\ i \in 1 .. Len(Tunnels)
      /\ \A j, k \in DOMAIN Tunnels : Tunnels[j] = Tunnels[k] => j = k
  BY Numbers, TunnelsAssumption
<1>2. \A j \in i .. Len(Tunnels) : j \in 1 .. Len(Tunnels)
  BY <1>1
<1> QED
  BY <1>1, <1>2 DEF Names

\* Where the loop goes on.
LEMMA NextPosition ==
  ASSUME TypeOK, NEW loop, NEW after, NextTunnel(loop, after)
  PROVE  /\ took' = 0
         /\ \/ pc' = loop /\ i' = i + 1 /\ i < Len(Tunnels)
            \/ pc' = after /\ i = Len(Tunnels)
BY Numbers DEF NextTunnel

LEMMA StepApart == TypeOK /\ Apart /\ [Next]_vars => Apart'
<1> SUFFICES ASSUME TypeOK, Apart, [Next]_vars PROVE Apart'
  OBVIOUS
<1>0. /\ MaxPass \in Nat /\ CycleBackoff \in Nat /\ i \in 1 .. Len(Tunnels) /\ Len(Tunnels) \in Nat
      /\ passed \in 0 .. MaxPass /\ Tunnels[i] \in Names
      /\ \A t \in Names : since[t] \in 0 .. CycleBackoff /\ alone[t] \in 0 .. CycleBackoff
                           /\ waited[t] \in 0 .. CycleBackoff
  BY Numbers DEF TypeOK
<1>1. CASE BootRead \/ Boot \/ Tick
  BY <1>1 DEF BootRead, Boot, Tick, NextTunnel, Apart, tried
<1>2. CASE PassRead
  <2>1. pc' = "each" /\ i' = 1 /\ waited' = since /\ UNCHANGED << since, alone >>
    BY <1>2 DEF PassRead, tried
  <2>2. \A j \in 1 .. Len(Tunnels) : Tunnels[j] \in Names
    BY Positions
  <2> QED
    BY <2>1, <2>2 DEF Apart
<1>3. CASE Leave
  <2>1. UNCHANGED << since, waited, alone >>
    BY <1>3 DEF Leave, tried
  <2>2. pc = "each" /\ ((pc' = "each" /\ i' = i + 1) \/ pc' = "idle")
    BY <1>3, NextPosition DEF Leave
  <2> QED
    BY <1>0, <2>1, <2>2 DEF Apart
<1>4. CASE Start \/ UpAgain
  <2> DEFINE t == Tunnels[i]
  <2>1. /\ alone' = [alone EXCEPT ![t] = 0] /\ waited' = waited
        /\ \/ pc' = "each" /\ i' = i + 1
           \/ pc' = "idle"
    BY <1>4, NextPosition DEF Start, UpAgain
  <2>2. /\ \A u \in Names : u # t => since'[u] = since[u]
        /\ since'[t] <= MaxPass
    <3>1. CASE Start
      <4>1. since' = [since EXCEPT ![t] = Least(passed, CycleBackoff)]
        BY <3>1 DEF Start, Noted
      <4>2. Least(passed, CycleBackoff) <= MaxPass
        BY <1>0 DEF Least
      <4> QED
        BY <1>0, <4>1, <4>2 DEF TypeOK
    <3>2. CASE UpAgain
      BY <1>0, <3>2 DEF UpAgain, Apart
    <3> QED
      BY <1>4, <3>1, <3>2
  <2>3. \A u \in Names : alone'[u] = IF u = t THEN 0 ELSE alone[u]
    BY <2>1 DEF TypeOK
  <2>4. \A u \in Names : since'[u] <= alone'[u] + MaxPass
    BY <1>0, <2>2, <2>3 DEF Apart
  <2>5. pc' = "each" => \A j \in i' .. Len(Tunnels) : waited'[Tunnels[j]] <= alone'[Tunnels[j]] + MaxPass
    <3> SUFFICES ASSUME pc' = "each", NEW j \in i' .. Len(Tunnels)
                 PROVE  waited'[Tunnels[j]] <= alone'[Tunnels[j]] + MaxPass
      OBVIOUS
    <3>1. j \in i .. Len(Tunnels) /\ j # i /\ pc \in {"each", "up"}
      BY <1>0, <1>4, <2>1 DEF Start, UpAgain
    <3>2. Tunnels[j] \in Names /\ Tunnels[j] # t
      BY <3>1, Positions
    <3>3. waited[Tunnels[j]] <= alone[Tunnels[j]] + MaxPass
      BY <3>1 DEF Apart
    <3> QED
      BY <2>1, <2>3, <3>2, <3>3
  <2> QED
    BY <2>1, <2>4, <2>5 DEF Apart
<1>5. CASE Cut
  <2> DEFINE t == Tunnels[i]
  <2>1. /\ pc = "each" /\ pc' = "up" /\ UNCHANGED << i, waited, passed, alone >>
        /\ since' = [since EXCEPT ![t] = Least(passed, CycleBackoff)]
    BY <1>5 DEF Cut, Noted, tried
  <2>2. Least(passed, CycleBackoff) <= passed /\ Least(passed, CycleBackoff) \in Nat
    BY <1>0 DEF Least
  <2>3. \A u \in Names : since'[u] = IF u = t THEN Least(passed, CycleBackoff) ELSE since[u]
    BY <2>1 DEF TypeOK
  <2>4. \A u \in Names : since'[u] <= alone'[u] + MaxPass
    BY <1>0, <2>1, <2>2, <2>3 DEF Apart
  <2> QED
    BY <1>0, <2>1, <2>2, <2>3, <2>4 DEF Apart
<1>6. CASE Crash
  BY <1>0, <1>6 DEF Crash, Apart
<1>7. CASE Elapse
  <2>1. \A t \in Names : /\ since'[t] = Least(since[t] + 1, CycleBackoff)
                         /\ alone'[t] = Least(alone[t] + 1, CycleBackoff)
    BY <1>7 DEF Elapse, Plus1
  <2>2. \A t \in Names : /\ since'[t] <= since[t] + 1 /\ since'[t] <= CycleBackoff
                         /\ since'[t] \in Nat /\ alone'[t] \in Nat /\ alone'[t] >= alone[t]
                         /\ alone'[t] = CycleBackoff \/ alone'[t] = alone[t] + 1
    BY <1>0, <2>1 DEF Least
  <2>3. \A t \in Names : since'[t] <= alone'[t] + MaxPass
    <3> SUFFICES ASSUME NEW t \in Names PROVE since'[t] <= alone'[t] + MaxPass
      OBVIOUS
    <3>1. since[t] <= alone[t] + MaxPass
      BY DEF Apart
    <3>2. /\ since'[t] <= since[t] + 1 /\ since'[t] <= CycleBackoff /\ since'[t] \in Nat
          /\ alone'[t] \in Nat /\ since[t] \in Nat /\ alone[t] \in Nat
          /\ alone'[t] = CycleBackoff \/ alone'[t] = alone[t] + 1
      BY <1>0, <2>2
    <3>3. MaxPass \in Nat /\ CycleBackoff \in Nat
      BY <1>0
    <3>4. CASE alone'[t] = CycleBackoff
      BY <3>2, <3>3, <3>4
    <3>5. CASE alone'[t] = alone[t] + 1
      BY <3>1, <3>2, <3>3, <3>5
    <3> QED
      BY <3>2, <3>4, <3>5
  <2>4. UNCHANGED << pc, i, waited >> /\ (pc = "up" => passed' = passed + 1)
    BY <1>7 DEF Elapse
  <2>5. pc \in {"each", "up"} =>
          \A j \in i .. Len(Tunnels) : waited[Tunnels[j]] <= alone'[Tunnels[j]] + MaxPass
    <3> SUFFICES ASSUME pc \in {"each", "up"}, NEW j \in i .. Len(Tunnels)
                 PROVE  waited[Tunnels[j]] <= alone'[Tunnels[j]] + MaxPass
      OBVIOUS
    <3>1. Tunnels[j] \in Names /\ waited[Tunnels[j]] <= alone[Tunnels[j]] + MaxPass
      BY Positions DEF Apart
    <3>2. alone[Tunnels[j]] \in Nat /\ alone'[Tunnels[j]] \in Nat /\ waited[Tunnels[j]] \in Nat
          /\ alone'[Tunnels[j]] >= alone[Tunnels[j]]
      BY <1>0, <2>2, <3>1
    <3> QED
      BY <1>0, <3>1, <3>2
  <2>6. pc = "up" => since'[Tunnels[i]] <= passed'
    BY <1>0, <2>2, <2>4 DEF Apart
  <2> QED
    BY <2>3, <2>4, <2>5, <2>6 DEF Apart
<1>8. CASE Change \/ UNCHANGED vars
  BY <1>8 DEF Change, vars, daemon, tried, Apart
<1> QED
  BY <1>1, <1>2, <1>3, <1>4, <1>5, <1>6, <1>7, <1>8 DEF Next, Daemon

\* Two attempts of one process at one tunnel are their backoff apart, less a pass
\* (tunnel.go:recoverTunnels).
THEOREM Spaced == Spec => Spacing
<1>1. Init => Apart
  BY Numbers, InitType DEF Init, Apart
<1>2. TypeOK /\ Apart /\ [Next]_vars =>
        [/\ Start => alone[Tunnels[i]] >= StartBackoff - MaxPass
         /\ Cut => alone[Tunnels[i]] >= CycleBackoff - MaxPass]_vars
  <2> SUFFICES ASSUME TypeOK, Apart
               PROVE  /\ Start => alone[Tunnels[i]] >= StartBackoff - MaxPass
                      /\ Cut => alone[Tunnels[i]] >= CycleBackoff - MaxPass
    OBVIOUS
  <2>1. /\ Start => pc = "each" /\ Action = "start"
        /\ Cut => pc = "each" /\ Action = "restart"
    BY DEF Start, Cut
  <2>2. /\ waited[Tunnels[i]] \in Nat /\ alone[Tunnels[i]] \in Nat /\ MaxPass \in Nat
        /\ StartBackoff \in Nat /\ CycleBackoff \in Nat /\ i \in i .. Len(Tunnels)
    <3>1. /\ MaxPass \in Nat /\ StartBackoff \in Nat /\ CycleBackoff \in Nat
          /\ i \in 1 .. Len(Tunnels) /\ Len(Tunnels) \in Nat /\ Tunnels[i] \in Names
      BY Numbers
    <3>2. waited[Tunnels[i]] \in 0 .. CycleBackoff /\ alone[Tunnels[i]] \in 0 .. CycleBackoff
      BY <3>1 DEF TypeOK
    <3> QED
      BY <3>1, <3>2
  <2>3. /\ Action = "start" => waited[Tunnels[i]] >= StartBackoff
        /\ Action = "restart" => waited[Tunnels[i]] >= CycleBackoff
    BY <2>2 DEF Action, RecoveryAction
  <2>4. pc = "each" => waited[Tunnels[i]] <= alone[Tunnels[i]] + MaxPass
    BY <2>2 DEF Apart
  <2> QED
    BY <2>1, <2>2, <2>3, <2>4
<1> QED
  BY <1>1, <1>2, InitType, StepType, StepApart, PTL DEF Spec, Spacing

-----------------------------------------------------------------------------
(* Which tunnels are cut.                                                  *)

\* A tunnel that is kept alive and has worked for any time has shaken hands lately.
Loyal == \A t \in kept : loyal[t] > 0 => Works(t) /\ age[t] \in 0 .. Rekey

\* A reading that was right holds for the rest of the pass, so far: what was stale at its
\* beginning has not worked for longer than the pass has lasted.
Faithful ==
  /\ left["misread"] <= Budget["misread"]
  /\ ReadRight /\ pc \in {"each", "up"} =>
       \A j \in i .. Len(Tunnels) :
         /\ Tunnels[j] \in kept
         /\ seen[Tunnels[j]].up /\ Stale(seen[Tunnels[j]].age)
         => loyal[Tunnels[j]] <= passed

\* What a command makes of a tunnel: it is as it was, or it has been made anew.
LEMMA Commanded ==
  ASSUME TypeOK, NEW t \in Names,
         BringUp(t) \/ BringDown(t) \/ UNCHANGED tunnels \/ Remade(t, FALSE, FALSE)
  PROVE  /\ \A u \in Names : \/ /\ up'[u] = up[u] /\ dud'[u] = dud[u] /\ answers'[u] = answers[u]
                                /\ age'[u] = age[u] /\ loyal'[u] = loyal[u]
                             \/ loyal'[u] = 0 /\ u = t
         /\ \A u \in Names : u # t => up'[u] = up[u]
         /\ kept' = kept
<1>1. CASE UNCHANGED tunnels
  BY <1>1 DEF tunnels
<1>2. ASSUME NEW e \in BOOLEAN, NEW d \in BOOLEAN, Remade(t, e, d)
      PROVE  /\ \A u \in Names : u # t => /\ up'[u] = up[u] /\ dud'[u] = dud[u]
                                           /\ answers'[u] = answers[u]
                                           /\ age'[u] = age[u] /\ loyal'[u] = loyal[u]
             /\ loyal'[t] = 0 /\ kept' = kept
  BY <1>2 DEF Remade, TypeOK
<1> QED
  BY <1>1, <1>2 DEF BringUp, BringDown

LEMMA StepLoyal == TypeOK /\ Loyal /\ [Next]_vars => Loyal'
<1> SUFFICES ASSUME TypeOK, Loyal, [Next]_vars PROVE Loyal'
  OBVIOUS
<1>1. CASE \E t \in Names : BringUp(t) \/ BringDown(t) \/ UNCHANGED tunnels \/ Remade(t, FALSE, FALSE)
  <2>0. kept' = kept /\ kept \subseteq Names
    BY <1>1, Commanded DEF TypeOK
  <2> SUFFICES ASSUME NEW u \in kept, loyal'[u] > 0 PROVE Works(u)' /\ age'[u] \in 0 .. Rekey
    BY <2>0 DEF Loyal
  <2>1. \/ /\ up'[u] = up[u] /\ dud'[u] = dud[u] /\ answers'[u] = answers[u]
           /\ age'[u] = age[u] /\ loyal'[u] = loyal[u]
        \/ loyal'[u] = 0
    BY <1>1, <2>0, Commanded
  <2>2. /\ up'[u] = up[u] /\ dud'[u] = dud[u] /\ answers'[u] = answers[u]
        /\ age'[u] = age[u] /\ loyal'[u] = loyal[u]
    BY <2>1
  <2>3. Works(u)' <=> Works(u)
    BY <2>2 DEF Works
  <2> QED
    BY <2>2, <2>3 DEF Loyal
<1>2. CASE \E t \in Names : /\ loyal' = [loyal EXCEPT ![t] = 0] /\ answers' = [answers EXCEPT ![t] = ~@]
                             /\ UNCHANGED << up, dud, kept, age, made >>
  BY <1>2 DEF Loyal, Works, TypeOK
<1>3. CASE Elapse
  <2>0. kept' = kept /\ kept \subseteq Names
    BY <1>3 DEF Elapse, TypeOK
  <2> SUFFICES ASSUME NEW t \in kept, loyal'[t] > 0 PROVE Works(t)' /\ age'[t] \in 0 .. Rekey
    BY <2>0 DEF Loyal
  <2>1. t \in Names /\ UNCHANGED << up, dud, answers >> /\ age'[t] \in Ages(t)
    BY <1>3, <2>0 DEF Elapse
  <2>2. Works(t)
    BY <1>3, <2>1 DEF Elapse
  <2>3. age'[t] = 0 \/ (age[t] \in 0 .. Rekey - 1 /\ age'[t] = age[t] + 1)
    BY <2>1, <2>2 DEF Ages, Fresh
  <2> QED
    <3>1. Works(t)' <=> Works(t)
      BY <2>1 DEF Works
    <3>2. Rekey \in Nat \ {0}
      BY Numbers
    <3>3. age'[t] \in 0 .. Rekey
      BY <2>3, <3>2
    <3> QED
      BY <2>2, <3>1, <3>3
<1>4. Tunnels[i] \in Names
  BY Numbers
<1>5. CASE Daemon \/ Crash
  BY <1>1, <1>4, <1>5 DEF Daemon, BootRead, Boot, PassRead, Leave, Start, Cut, UpAgain, Tick, Crash
<1>6. CASE Change
  BY <1>1, <1>2, <1>6 DEF Change
<1>7. CASE UNCHANGED vars
  BY <1>1, <1>4, <1>7 DEF vars
<1> QED
  BY <1>3, <1>5, <1>6, <1>7 DEF Next

\* What readTunnels has returned as up is up; and when it is not wrong its age is the true one.
LEMMA ReadUp ==
  ASSUME Read PROVE \A t \in Names : seen'[t].up => up[t]
<1>1. \A t \in Names : Truth[t].up = up[t]
  BY DEF Truth
<1>2. CASE seen' = Truth
  BY <1>1, <1>2
<1>3. CASE seen' = [t \in Names |-> [Truth[t] EXCEPT !.age = NoAge]]
  BY <1>1, <1>3 DEF Truth
<1>4. CASE \E t \in Names : seen' = [Truth EXCEPT ![t].up = FALSE]
  BY <1>1, <1>4 DEF Truth
<1> QED
  BY <1>2, <1>3, <1>4 DEF Read

LEMMA ReadTells ==
  ASSUME TypeOK, Read, left["misread"] <= Budget["misread"]
  PROVE  /\ \A t \in Names : seen'[t].up => up[t]
         /\ left'["misread"] <= Budget["misread"]
         /\ ReadRight' => \A t \in Names : (seen'[t].up => seen'[t].age = age[t])
<1>1. \A t \in Names : Truth[t].up = up[t] /\ (up[t] => Truth[t].age = age[t])
  BY DEF Truth
<1>2. CASE seen' = Truth /\ Fine
  BY <1>1, <1>2 DEF Fine
<1>3. CASE Spend("misread")
  <2>1. left["misread"] \in Nat /\ Budget["misread"] \in Nat
    BY BudgetAssumption DEF TypeOK, Upsets
  <2>2. left'["misread"] = left["misread"] - 1
    BY <1>3 DEF Spend, TypeOK, Upsets
  <2>3. left'["misread"] <= Budget["misread"] /\ ~ReadRight'
    BY <2>1, <2>2 DEF ReadRight
  <2>4. \A t \in Names : seen'[t].up => up[t]
    <3>1. CASE seen' = [t \in Names |-> [Truth[t] EXCEPT !.age = NoAge]]
      BY <1>1, <3>1 DEF Truth
    <3>2. CASE \E t \in Names : seen' = [Truth EXCEPT ![t].up = FALSE]
      BY <1>1, <3>2 DEF Truth
    <3> QED
      BY <1>1, <3>1, <3>2 DEF Read
  <2> QED
    BY <2>3, <2>4
<1> QED
  BY <1>2, <1>3 DEF Read

LEMMA StepFaithful ==
  ASSUME Rekey <= 2 * StaleAfter
  PROVE  TypeOK /\ Loyal /\ Faithful /\ [Next]_vars => Faithful'
<1> SUFFICES ASSUME TypeOK, Loyal, Faithful, [Next]_vars PROVE Faithful'
  OBVIOUS
<1>0. /\ left["misread"] <= Budget["misread"] /\ Budget["misread"] \in Nat
      /\ left \in [Upsets -> Nat] /\ Tunnels[i] \in Names
  BY Numbers, BudgetAssumption DEF Faithful, TypeOK, Upsets
<1>a. ASSUME Fine \/ Fault \/ Spend("crash") \/ Spend("change")
      PROVE  left'["misread"] = left["misread"]
  BY <1>0, <1>a DEF Fine, Fault, Spend, Upsets
<1>b. ASSUME NEW t \in Names, BringUp(t) \/ BringDown(t)
      PROVE  left'["misread"] = left["misread"]
  BY <1>a, <1>b DEF BringUp, BringDown
\* The loop is where it was or further on, and no tunnel has worked for longer.
<1>c. ASSUME left'["misread"] = left["misread"], seen' = seen, passed' = passed,
             pc' \in {"each", "up"} => pc \in {"each", "up"} /\ i' \in {i, i + 1}, kept' = kept,
             \A t \in Names : loyal'[t] = loyal[t] \/ loyal'[t] = 0
      PROVE  Faithful'
  <2> SUFFICES ASSUME ReadRight', pc' \in {"each", "up"}, NEW j \in i' .. Len(Tunnels),
                      Tunnels[j] \in kept, seen[Tunnels[j]].up, Stale(seen[Tunnels[j]].age)
               PROVE  loyal'[Tunnels[j]] <= passed
    BY <1>0, <1>c DEF Faithful
  <2>1. ReadRight /\ j \in i .. Len(Tunnels) /\ Tunnels[j] \in Names /\ passed \in Nat
    <3>1. i \in Nat /\ Len(Tunnels) \in Nat /\ passed \in Nat
      BY Numbers
    <3>2. i' \in {i, i + 1} /\ ReadRight
      BY <1>c DEF ReadRight
    <3>3. j \in i .. Len(Tunnels)
      BY <3>1, <3>2
    <3>4. Tunnels[j] \in Names
      BY <3>3, Positions
    <3> QED
      BY <3>1, <3>2, <3>3, <3>4
  <2>2. loyal[Tunnels[j]] <= passed
    BY <1>c, <2>1 DEF Faithful
  <2> QED
    BY <1>c, <2>1, <2>2
<1>1. CASE BootRead
  BY <1>0, <1>1, ReadTells DEF BootRead, Faithful
<1>2. CASE PassRead
  <2>1. Read /\ pc' = "each" /\ i' = 1 /\ passed' = 0 /\ UNCHANGED << kept, age, loyal >>
    BY <1>2 DEF PassRead, tunnels
  <2>2. /\ left'["misread"] <= Budget["misread"]
        /\ ReadRight' => \A t \in Names : seen'[t].up => seen'[t].age = age[t]
    BY <1>0, <2>1, ReadTells
  <2>3. ASSUME NEW t \in Names, t \in kept, Stale(age[t]) PROVE loyal[t] <= 0
    <3>1. age[t] \notin 0 .. Rekey
      <4>1. Rekey \in Nat /\ StaleAfter \in Int /\ Rekey <= 2 * StaleAfter
        BY Numbers
      <4>2. age[t] = NoAge \/ age[t] > 2 * StaleAfter
        BY <2>3 DEF Stale
      <4> QED
        BY <4>1, <4>2 DEF NoAge
    <3>2. ~(loyal[t] > 0)
      BY <2>3, <3>1 DEF Loyal
    <3>3. loyal[t] \in Nat
      BY Numbers DEF TypeOK
    <3> QED
      BY <3>2, <3>3
  <2>4. \A j \in 1 .. Len(Tunnels) : Tunnels[j] \in Names
    BY Positions
  <2> QED
    BY <2>1, <2>2, <2>3, <2>4 DEF Faithful
<1>3. CASE Boot
  <2>1. left'["misread"] = left["misread"] /\ pc' \notin {"each", "up"}
    BY <1>0, <1>3, <1>a, <1>b DEF Boot, NextTunnel
  <2> QED
    BY <1>0, <2>1 DEF Faithful
<1>4. CASE Leave \/ Start \/ UpAgain
  <2>1. pc \in {"each", "up"} /\ (pc' \in {"each", "up"} => i' = i + 1)
    BY <1>4, NextPosition DEF Leave, Start, UpAgain
  <2>2. /\ BringUp(Tunnels[i]) \/ (UNCHANGED tunnels /\ Fine)
        /\ seen' = seen /\ passed' = passed
    BY <1>4 DEF Leave, Start, UpAgain
  <2>3. left'["misread"] = left["misread"]
    BY <1>0, <1>a, <1>b, <2>2
  <2>4. kept' = kept /\ \A t \in Names : loyal'[t] = loyal[t] \/ loyal'[t] = 0
    BY <1>0, <2>2, Commanded
  <2> QED
    BY <1>c, <2>1, <2>2, <2>3, <2>4
<1>5. CASE Cut
  <2>1. /\ pc = "each" /\ i' = i /\ BringDown(Tunnels[i]) /\ seen' = seen /\ passed' = passed
    BY <1>5 DEF Cut
  <2>2. left'["misread"] = left["misread"]
    BY <1>0, <1>b, <2>1
  <2>3. kept' = kept /\ \A t \in Names : loyal'[t] = loyal[t] \/ loyal'[t] = 0
    BY <1>0, <2>1, Commanded
  <2> QED
    BY <1>c, <2>1, <2>2, <2>3
<1>6. CASE Tick \/ Crash
  <2>1. left'["misread"] = left["misread"] /\ pc' \notin {"each", "up"}
    BY <1>0, <1>6, <1>a DEF Tick, Crash
  <2> QED
    BY <1>0, <2>1 DEF Faithful
<1>7. CASE Elapse
  <2>1. UNCHANGED << pc, i, seen, kept, left >> /\ (pc \in {"each", "up"} => passed' = passed + 1)
    BY <1>7 DEF Elapse
  <2>2. ASSUME NEW t \in Names PROVE loyal'[t] <= loyal[t] + 1 /\ loyal[t] \in Nat /\ loyal'[t] \in Nat
    <3>1. loyal'[t] = IF Works(t) THEN Least(loyal[t] + 1, MaxPass + 1) ELSE 0
      BY <1>7 DEF Elapse
    <3>2. MaxPass \in Nat
      BY Numbers
    <3>3. loyal[t] \in 0 .. MaxPass + 1
      BY DEF TypeOK
    <3> QED
      BY <3>1, <3>2, <3>3 DEF Least
  <2> SUFFICES ASSUME ReadRight, pc \in {"each", "up"}, NEW j \in i .. Len(Tunnels),
                      Tunnels[j] \in kept, seen[Tunnels[j]].up, Stale(seen[Tunnels[j]].age)
               PROVE  loyal'[Tunnels[j]] <= passed + 1
    BY <1>0, <2>1 DEF Faithful, ReadRight
  <2>3. Tunnels[j] \in Names /\ loyal[Tunnels[j]] <= passed /\ passed \in Nat
    BY Positions, Numbers DEF Faithful
  <2> QED
    BY <2>2, <2>3
<1>8. CASE Change
  <2>1. UNCHANGED daemon /\ Spend("change")
    BY <1>8 DEF Change
  <2>2. kept' = kept /\ \A t \in Names : loyal'[t] = loyal[t] \/ loyal'[t] = 0
    BY <1>8, Commanded DEF Change, TypeOK
  <2> QED
    BY <1>a, <1>c, <2>1, <2>2 DEF daemon
<1>9. CASE UNCHANGED vars
  BY <1>9, <1>c DEF vars, tunnels, daemon
<1> QED
  BY <1>1, <1>2, <1>3, <1>4, <1>5, <1>6, <1>7, <1>8, <1>9 DEF Next, Daemon

\* As long as every reading is right no tunnel with a keepalive is cut whose peer has
\* answered for longer than a pass lasts (tunnel.go:recoveryAction); provided WireGuard
\* rekeys within twice stale_handshake, as it does within the default of 180 s.
THEOREM NotCut ==
  ASSUME Rekey <= 2 * StaleAfter
  PROVE  Spec => LoyalNotCut
<1>1. Init => Loyal /\ Faithful
  BY BudgetAssumption DEF Init, Loyal, Faithful, Upsets
<1>2. TypeOK /\ Faithful /\ [Next]_vars =>
        [Cut /\ ReadRight /\ Tunnels[i] \in kept => loyal[Tunnels[i]] <= MaxPass]_vars
  <2> SUFFICES ASSUME TypeOK, Faithful, Cut, ReadRight, Tunnels[i] \in kept
               PROVE  loyal[Tunnels[i]] <= MaxPass
    OBVIOUS
  <2>1. pc = "each" /\ Action = "restart"
    BY DEF Cut
  <2>2. seen[Tunnels[i]].up /\ Stale(seen[Tunnels[i]].age)
    BY <2>1 DEF Action, RecoveryAction
  <2>3. i \in i .. Len(Tunnels) /\ Tunnels[i] \in Names /\ passed \in 0 .. MaxPass /\ MaxPass \in Nat
    <3>1. i \in 1 .. Len(Tunnels) /\ Len(Tunnels) \in Nat /\ Tunnels[i] \in Names /\ MaxPass \in Nat
      BY Numbers
    <3>2. passed \in 0 .. MaxPass
      BY DEF TypeOK
    <3> QED
      BY <3>1, <3>2
  <2>4. loyal[Tunnels[i]] <= passed /\ loyal[Tunnels[i]] \in Nat
    BY <2>1, <2>2, <2>3 DEF Faithful, TypeOK
  <2> QED
    BY <2>3, <2>4
<1> QED
  BY <1>1, <1>2, InitType, StepType, StepLoyal, StepFaithful, PTL DEF Spec, LoyalNotCut
-----------------------------------------------------------------------------
(* How soon a tunnel that is down is started.                              *)

\* One that is up is not counted as down; one that is down has been so no longer than since
\* the last attempt noted for it.
Noticed ==
  /\ \A t \in Names : up[t] => downFor[t] = 0
  /\ \A t \in Names : downFor[t] <= since[t] \/ since[t] = CycleBackoff

\* The loop has yet to come to the tunnel, and will start it.
Ahead(t)     == \E j \in i .. Len(Tunnels) : t = Tunnels[j]
Startable(t) == ~seen[t].up /\ waited[t] >= StartBackoff

\* When a reading is due, a tunnel has been down for one backoff, one pass and one period
\* at most; when it has been found not to need a start, for less than the backoff.
Early  == StartBackoff - 1
Latest == Early + MaxPass + Period

SoonIn(t) ==
  /\ pc = "boot" => downFor[t] <= took
  /\ pc = "boot_up" => downFor[t] <= i * MaxTook + took
  /\ pc = "read" => downFor[t] <= Latest + took
  /\ pc = "idle" => downFor[t] <= Early + passed + due
  /\ pc \in {"each", "up"} =>
       /\ downFor[t] <= Latest + MaxTook + passed
       /\ ~(Ahead(t) /\ Startable(t)) => downFor[t] <= Early + passed
       /\ Ahead(t) /\ seen[t].up => downFor[t] <= passed

Soon ==
  /\ \A t \in Names : SoonIn(t)
  /\ pc = "up" => seen[Tunnels[i]].up

LEMMA Bounds ==
  TypeOK => /\ i * MaxTook \in Nat /\ (i + 1) * MaxTook = i * MaxTook + MaxTook
            /\ i * MaxTook + MaxTook <= MaxPass /\ MaxTook <= MaxPass
            /\ 1 * MaxTook = MaxTook
            /\ Early \in Nat /\ Latest \in Nat /\ Early < StartBackoff
            /\ Latest = Early + MaxPass + Period /\ MaxDown = Early + 1 + Period + 2 * MaxPass
<1> SUFFICES ASSUME TypeOK
             PROVE  /\ i * MaxTook \in Nat /\ (i + 1) * MaxTook = i * MaxTook + MaxTook
                    /\ i * MaxTook + MaxTook <= MaxPass /\ MaxTook <= MaxPass
                    /\ 1 * MaxTook = MaxTook
                    /\ Early \in Nat /\ Latest \in Nat /\ Early < StartBackoff
                    /\ Latest = Early + MaxPass + Period
                    /\ MaxDown = Early + 1 + Period + 2 * MaxPass
  OBVIOUS
<1>1. /\ Len(Tunnels) \in Nat /\ i \in 1 .. Len(Tunnels) /\ MaxTook \in Nat /\ MaxPass \in Nat
      /\ StartBackoff \in Nat \ {0} /\ Period \in Nat
  BY Numbers
<1>2. i * MaxTook \in Nat /\ (i + 1) * MaxTook = i * MaxTook + MaxTook /\ 1 * MaxTook = MaxTook
  BY <1>1
<1>3. (2 * (i - 1) + 1) * MaxTook + MaxTook <= MaxPass
  BY <1>1, Commands DEF MaxPass
<1>4. i * MaxTook <= (2 * (i - 1) + 1) * MaxTook
  <2>1. (2 * (i - 1) + 1) * MaxTook = i * MaxTook + (i - 1) * MaxTook /\ (i - 1) * MaxTook \in Nat
    BY <1>1
  <2> QED
    BY <1>2, <2>1
<1>5. (2 * (i - 1) + 1) * MaxTook \in Nat
  BY <1>1, Commands
<1>6. i * MaxTook + MaxTook <= MaxPass
  BY <1>1, <1>2, <1>3, <1>4, <1>5
<1> QED
  BY <1>1, <1>2, <1>6 DEF Early, Latest, MaxDown

\* What the actions of the loop do to the time the others have been down.
LEMMA Retried ==
  ASSUME TypeOK, NEW t \in Names, Tried(t)
  PROVE  downFor'[t] = 0 /\ \A u \in Names : u # t => downFor'[u] = downFor[u]
BY DEF Tried, TypeOK

LEMMA OneNoted ==
  ASSUME TypeOK, NEW t \in Names, Noted(t)
  PROVE  /\ \A u \in Names : u # t => since'[u] = since[u]
         /\ since'[t] \in Nat
         /\ since'[t] = passed \/ (since'[t] = CycleBackoff /\ CycleBackoff <= passed)
<1>1. passed \in Nat /\ CycleBackoff \in Nat
  BY Numbers
<1>2. /\ Least(passed, CycleBackoff) \in Nat
      /\ \/ Least(passed, CycleBackoff) = passed
         \/ Least(passed, CycleBackoff) = CycleBackoff /\ CycleBackoff <= passed
  BY <1>1 DEF Least
<1> HIDE DEF Least
<1>3. since' = [since EXCEPT ![t] = Least(passed, CycleBackoff)]
  BY DEF Noted
<1>4. since'[t] = Least(passed, CycleBackoff) /\ \A u \in Names : u # t => since'[u] = since[u]
  BY <1>3 DEF TypeOK
<1> QED
  BY <1>2, <1>4

\* Nothing makes a tunnel be up but a command on it, which ends the time it was down.
LEMMA UpsOnly ==
  ASSUME TypeOK
  PROVE  /\ \A t \in Names : BringDown(t) => \A u \in Names : up'[u] => up[u]
         /\ Change => \A u \in Names : up'[u] => up[u]
         /\ \A t \in Names : BringUp(t) => \A u \in Names : u # t => up'[u] = up[u]
BY DEF BringDown, BringUp, Change, Remade, tunnels, TypeOK

LEMMA StepNoticed == TypeOK /\ Noticed /\ Soon /\ [Next]_vars => Noticed'
<1> SUFFICES ASSUME TypeOK, Noticed, Soon, [Next]_vars PROVE Noticed'
  OBVIOUS
<1>0. /\ \A u \in Names : since[u] \in 0 .. CycleBackoff /\ downFor[u] \in Nat
      /\ CycleBackoff \in Nat /\ Tunnels[i] \in Names /\ passed \in Nat
  BY Numbers DEF TypeOK
<1>1. CASE UNCHANGED << since, downFor >> /\ \A u \in Names : up'[u] => up[u]
  BY <1>1 DEF Noticed
<1>2. CASE BootRead \/ PassRead \/ Leave \/ Tick \/ UNCHANGED vars
  BY <1>1, <1>2 DEF BootRead, PassRead, Leave, Tick, vars, tunnels, tried, daemon
<1>3. CASE Change
  BY <1>1, <1>3, UpsOnly DEF Change, tried, daemon
<1>4. CASE Boot \/ Start \/ UpAgain
  <2> DEFINE t == Tunnels[i]
  <2>1. CASE UNCHANGED << tunnels, downFor, since >>
    BY <1>1, <2>1 DEF tunnels
  <2>2. CASE BringUp(t) /\ Tried(t) /\ (UNCHANGED since \/ Noted(t))
    <3>1. downFor'[t] = 0 /\ since'[t] \in Nat
      BY <1>0, <2>2, Retried, OneNoted
    <3>2. \A u \in Names : u # t => /\ downFor'[u] = downFor[u] /\ up'[u] = up[u]
                                     /\ since'[u] = since[u]
      BY <1>0, <2>2, Retried, OneNoted, UpsOnly
    <3> QED
      BY <1>0, <3>1, <3>2 DEF Noticed
  <2> QED
    BY <1>4, <2>1, <2>2 DEF Boot, Start, UpAgain
<1>5. CASE Cut
  <2> DEFINE t == Tunnels[i]
  <2>1. pc = "each" /\ Action = "restart" /\ downFor' = downFor /\ Noted(t) /\ BringDown(t)
    BY <1>5 DEF Cut, tried
  <2>2. Ahead(t) /\ seen[t].up
    <3>1. i \in i .. Len(Tunnels)
      BY Numbers
    <3>2. seen[t].up
      BY <2>1 DEF Action, RecoveryAction
    <3> QED
      BY <3>1, <3>2 DEF Ahead
  <2>3. downFor[t] <= passed
    BY <1>0, <2>1, <2>2 DEF Soon, SoonIn
  <2>4. /\ downFor[t] <= since'[t] \/ since'[t] = CycleBackoff
        /\ \A u \in Names : u # t => since'[u] = since[u]
    BY <1>0, <2>1, <2>3, OneNoted
  <2>5. \A u \in Names : up'[u] => up[u]
    BY <1>0, <2>1, UpsOnly
  <2> QED
    BY <2>1, <2>4, <2>5 DEF Noticed
<1>6. CASE Crash
  BY <1>0, <1>6 DEF Crash, Noticed, tunnels
<1>7. CASE Elapse
  <2> SUFFICES ASSUME NEW t \in Names
               PROVE  /\ up'[t] => downFor'[t] = 0
                      /\ downFor'[t] <= since'[t] \/ since'[t] = CycleBackoff
    BY DEF Noticed
  <2>1. /\ up' = up /\ since'[t] = Least(since[t] + 1, CycleBackoff)
        /\ downFor'[t] = IF up[t] THEN 0 ELSE Least(downFor[t] + 1, MaxDown + 1)
    BY <1>7 DEF Elapse, Plus1
  <2>2. since'[t] \in Nat /\ (since'[t] = since[t] + 1 \/ since'[t] = CycleBackoff)
    BY <1>0, <2>1 DEF Least
  <2>3. downFor'[t] <= downFor[t] + 1 /\ (up[t] => downFor'[t] = 0)
    <3>1. MaxDown + 1 \in Int /\ downFor[t] \in Nat
      BY <1>0, Numbers
    <3> DEFINE n == MaxDown + 1
    <3>2. downFor'[t] = IF up[t] THEN 0 ELSE IF downFor[t] + 1 < n THEN downFor[t] + 1 ELSE n
      BY <2>1 DEF Least
    <3> HIDE DEF n
    <3> QED
      BY <3>1, <3>2 DEF n
  <2>4. downFor[t] <= since[t] \/ since[t] = CycleBackoff
    BY DEF Noticed
  <2>5. since[t] = CycleBackoff => since'[t] = CycleBackoff
    BY <1>0, <2>1 DEF Least
  <2>6. downFor'[t] \in Nat /\ since[t] \in Nat /\ downFor[t] \in Nat
    <3>1. MaxDown \in Nat
      BY Numbers
    <3>2. downFor[t] \in Nat /\ since[t] \in 0 .. CycleBackoff
      BY <1>0
    <3> QED
      BY <2>1, <3>1, <3>2 DEF Least
  <2> QED
    BY <2>1, <2>2, <2>3, <2>4, <2>5, <2>6
<1> QED
  BY <1>2, <1>3, <1>4, <1>5, <1>6, <1>7 DEF Next, Daemon

LEMMA StepSoon == TypeOK /\ Timed /\ Noticed /\ Soon /\ [Next]_vars => Soon'
<1> SUFFICES ASSUME TypeOK, Timed, Noticed, Soon, [Next]_vars PROVE Soon'
  OBVIOUS
<1>0. /\ Early \in Nat /\ Latest \in Nat /\ MaxTook \in Nat /\ MaxPass \in Nat /\ Period \in Nat
      /\ Latest = Early + MaxPass + Period /\ Early < StartBackoff /\ StartBackoff \in Nat
      /\ StartBackoff <= CycleBackoff /\ CycleBackoff \in Nat
      /\ passed \in 0 .. MaxPass /\ took \in 0 .. MaxTook /\ due \in 0 .. Period
      /\ i * MaxTook \in Nat /\ (i + 1) * MaxTook = i * MaxTook + MaxTook
      /\ i * MaxTook + MaxTook <= MaxPass /\ 1 * MaxTook = MaxTook
      /\ i \in 1 .. Len(Tunnels) /\ Len(Tunnels) \in Nat /\ Tunnels[i] \in Names
  <2>1. passed \in 0 .. MaxPass /\ took \in 0 .. MaxTook /\ due \in 0 .. Period
    BY DEF TypeOK
  <2> QED
    BY <2>1, Numbers, Bounds
<1>d. \A t \in Names : downFor[t] \in Nat /\ downFor'[t] \in Nat
  <2>1. MaxDown + 1 \in Nat
    BY Numbers
  <2>2. downFor \in [Names -> 0 .. MaxDown + 1] /\ downFor' \in [Names -> 0 .. MaxDown + 1]
    BY StepType DEF TypeOK
  <2> QED
    BY <2>1, <2>2
\* The loop goes on to the next tunnel.
<1>a. \A t \in Names : i' = i + 1 => (Ahead(t)' <=> Ahead(t) /\ t # Tunnels[i])
  <2> SUFFICES ASSUME NEW t \in Names, i' = i + 1
               PROVE  Ahead(t)' <=> Ahead(t) /\ t # Tunnels[i]
    OBVIOUS
  <2>1. Ahead(t)' <=> \E j \in i + 1 .. Len(Tunnels) : t = Tunnels[j]
    BY DEF Ahead
  <2>2. Ahead(t)' => Ahead(t) /\ t # Tunnels[i]
    BY <1>0, <2>1, TunnelsAssumption DEF Ahead
  <2>3. Ahead(t) /\ t # Tunnels[i] => Ahead(t)'
    BY <1>0, <2>1 DEF Ahead
  <2> QED
    BY <2>2, <2>3
<1>1. CASE BootRead
  <2>1. pc = "boot" /\ pc' = "boot_up" /\ i' = 1 /\ took' = 0 /\ downFor' = downFor
    BY <1>1 DEF BootRead, tried
  <2>2. \A t \in Names : downFor[t] <= took
    BY <2>1 DEF Soon, SoonIn
  <2> QED
    BY <1>0, <1>d, <2>1, <2>2 DEF Soon, SoonIn
<1>2. CASE Boot
  <2>1. /\ pc = "boot_up" /\ took' = 0
        /\ \/ pc' = "boot_up" /\ i' = i + 1
           \/ pc' = "read"
    BY <1>2, NextPosition DEF Boot
  <2>2. \A t \in Names : downFor'[t] = downFor[t] \/ downFor'[t] = 0
    BY <1>0, <1>2, Retried DEF Boot
  <2>3. \A t \in Names : downFor[t] <= i * MaxTook + took
    BY <2>1 DEF Soon, SoonIn
  <2>4. ASSUME NEW t \in Names
        PROVE  /\ downFor'[t] <= i * MaxTook + MaxTook + took' /\ downFor'[t] <= Latest + took'
    <3>1. /\ downFor[t] \in Nat /\ downFor[t] <= i * MaxTook + took
          /\ downFor'[t] = downFor[t] \/ downFor'[t] = 0
      BY <1>d, <2>2, <2>3
    <3>2. PICK x \in Nat : x = i * MaxTook
      BY <1>0
    <3>3. /\ took \in 0 .. MaxTook /\ MaxTook \in Nat /\ x + MaxTook <= Latest
          /\ Latest \in Nat /\ took' = 0
      BY <1>0, <2>1, <3>2
    <3>4. downFor'[t] <= x + MaxTook
      BY <3>1, <3>2, <3>3
    <3> QED
      BY <3>2, <3>3, <3>4, <3>1
  <2>5. i' = i + 1 => i' * MaxTook = i * MaxTook + MaxTook
    BY <1>0
  <2>6. \A t \in Names : SoonIn(t)'
    BY <2>1, <2>4, <2>5 DEF SoonIn
  <2> QED
    BY <2>1, <2>6 DEF Soon
<1>3. CASE PassRead
  <2>1. /\ pc = "read" /\ pc' = "each" /\ i' = 1 /\ waited' = since /\ passed' = 0
        /\ downFor' = downFor /\ Read
    BY <1>3 DEF PassRead, tried
  <2>2. \A t \in Names : seen'[t].up => up[t]
    BY <2>1, ReadUp
  <2> SUFFICES ASSUME NEW t \in Names PROVE SoonIn(t)'
    BY <2>1 DEF Soon
  <2>3. downFor[t] <= Latest + took
    BY <2>1 DEF Soon, SoonIn
  <2>4. seen'[t].up => downFor[t] = 0
    BY <2>2 DEF Noticed
  <2>5. Ahead(t)'
    BY <2>1, Positions DEF Ahead
  <2>6. ~Startable(t)' => downFor[t] <= Early
    <3>1. ~Startable(t)' => seen'[t].up \/ since[t] < StartBackoff
      <4>1. since[t] \in 0 .. CycleBackoff
        BY DEF TypeOK
      <4> QED
        BY <1>0, <2>1, <4>1 DEF Startable
    <3>2. since[t] < StartBackoff => downFor[t] <= Early
      <4>1. since[t] \in 0 .. CycleBackoff
        BY DEF TypeOK
      <4>2. downFor[t] <= since[t] \/ since[t] = CycleBackoff
        BY DEF Noticed
      <4> QED
        BY <1>0, <1>d, <4>1, <4>2 DEF Early
    <3> QED
      BY <1>0, <2>4, <3>1, <3>2
  <2> QED
    BY <1>0, <1>d, <2>1, <2>3, <2>4, <2>5, <2>6 DEF SoonIn
<1>4. CASE Leave \/ Start \/ UpAgain
  <2> DEFINE at == Tunnels[i]
  <2>1. /\ pc \in {"each", "up"} /\ UNCHANGED << seen, waited, passed, due >>
        /\ \/ pc' = "each" /\ i' = i + 1
           \/ pc' = "idle" /\ i = Len(Tunnels)
    BY <1>4, NextPosition DEF Leave, Start, UpAgain
  <2>2. /\ \A t \in Names : downFor'[t] = downFor[t] \/ downFor'[t] = 0
        /\ downFor'[at] <= Early + passed
    <3>1. CASE Leave
      <4>1. Action = "none" /\ downFor' = downFor /\ pc = "each"
        BY <3>1 DEF Leave, tried
      <4>2. ~Startable(at)
        <5>1. waited[at] \in 0 .. CycleBackoff
          BY <1>0 DEF TypeOK
        <5>2. StartBackoff \in Nat
          BY <1>0
        <5>3. ~seen[at].up => waited[at] < StartBackoff
          BY <4>1 DEF Action, RecoveryAction
        <5> QED
          BY <5>1, <5>2, <5>3 DEF Startable
      <4> QED
        BY <1>0, <4>1, <4>2 DEF Soon, SoonIn
    <3>2. CASE Start \/ UpAgain
      <4>1. Tried(at)
        BY <3>2 DEF Start, UpAgain
      <4> QED
        BY <1>0, <4>1, Retried
    <3> QED
      BY <1>4, <3>1, <3>2
  <2>3. ASSUME NEW t \in Names, t = at PROVE SoonIn(t)'
    <3>1. ~Ahead(t)' \/ pc' = "idle"
      BY <1>a, <2>1, <2>3
    <3>2. downFor'[t] <= Early + passed /\ downFor'[t] \in Nat
      BY <1>d, <2>2, <2>3
    <3>3. /\ passed' = passed /\ due' = due /\ passed \in Nat /\ due \in Nat
          /\ Latest \in Nat /\ MaxTook \in Nat /\ Early \in Nat /\ Early <= Latest
      BY <1>0, <2>1
    <3>4. /\ downFor'[t] <= Early + passed' + due'
          /\ downFor'[t] <= Latest + MaxTook + passed'
          /\ downFor'[t] <= Early + passed'
      BY <3>2, <3>3
    <3> QED
      BY <2>1, <3>1, <3>4 DEF SoonIn
  <2>4. ASSUME NEW t \in Names, t # at PROVE SoonIn(t)'
    <3>1. /\ downFor[t] <= Latest + MaxTook + passed
          /\ ~(Ahead(t) /\ Startable(t)) => downFor[t] <= Early + passed
          /\ Ahead(t) /\ seen[t].up => downFor[t] <= passed
      BY <2>1 DEF Soon, SoonIn
    <3>2. downFor'[t] <= downFor[t] /\ downFor'[t] \in Nat /\ downFor[t] \in Nat
      BY <1>d, <2>2
    <3>3. CASE pc' = "each" /\ i' = i + 1
      <4>1. Ahead(t)' <=> Ahead(t)
        BY <1>a, <2>4, <3>3
      <4>2. Startable(t)' <=> Startable(t)
        BY <2>1 DEF Startable
      <4> QED
        BY <1>0, <2>1, <3>1, <3>2, <3>3, <4>1, <4>2 DEF SoonIn
    <3>4. CASE pc' = "idle" /\ i = Len(Tunnels)
      <4>1. ~Ahead(t)
        BY <1>0, <2>4, <3>4 DEF Ahead
      <4> QED
        BY <1>0, <2>1, <3>1, <3>2, <3>4, <4>1 DEF SoonIn
    <3> QED
      BY <2>1, <3>3, <3>4
  <2> QED
    BY <2>1, <2>3, <2>4 DEF Soon
<1>5. CASE Cut
  <2>1. /\ pc = "each" /\ pc' = "up" /\ Action = "restart"
        /\ UNCHANGED << i, seen, waited, passed, downFor >>
    BY <1>5 DEF Cut, tried
  <2>2. seen[Tunnels[i]].up
    BY <2>1 DEF Action, RecoveryAction
  <2>3. \A t \in Names : (Ahead(t)' <=> Ahead(t)) /\ (Startable(t)' <=> Startable(t))
    BY <2>1 DEF Ahead, Startable
  <2> QED
    BY <2>1, <2>2, <2>3 DEF Soon, SoonIn
<1>6. CASE Tick
  <2>1. /\ pc = "idle" /\ due = Period /\ pc' = "read" /\ UNCHANGED << passed, took, downFor >>
    BY <1>6 DEF Tick, tried
  <2>2. took = 0 /\ \A t \in Names : downFor[t] <= Early + passed + due
    BY <2>1 DEF Timed, Soon, SoonIn
  <2>3. \A t \in Names : downFor'[t] <= Latest + took'
    BY <1>0, <1>d, <2>1, <2>2
  <2> QED
    BY <2>1, <2>3 DEF Soon, SoonIn
<1>7. CASE Crash
  BY <1>7 DEF Crash, Soon, SoonIn
<1>8. CASE Elapse
  <2>1. UNCHANGED << pc, i, seen, waited >>
    BY <1>8 DEF Elapse
  <2>2. /\ pc = "idle" => due < Period /\ due' = Least(due + 1, Period) /\ passed' = passed
        /\ pc # "idle" => took' = took + 1
        /\ pc \in {"each", "up"} => passed' = passed + 1
    BY <1>8 DEF Elapse
  <2>3. due < Period => Least(due + 1, Period) = due + 1
    BY <1>0 DEF Least
  <2> SUFFICES ASSUME NEW t \in Names PROVE SoonIn(t)'
    BY <2>1 DEF Soon
  <2>4. downFor'[t] <= downFor[t] + 1 /\ downFor'[t] \in Nat /\ downFor[t] \in Nat
    <3>1. downFor'[t] = IF up[t] THEN 0 ELSE Least(downFor[t] + 1, MaxDown + 1)
      BY <1>8 DEF Elapse
    <3>2. MaxDown \in Nat
      BY Numbers
    <3>3. downFor[t] \in Nat /\ downFor'[t] \in Nat
      BY <1>d
    <3> QED
      BY <3>1, <3>2, <3>3 DEF Least
  <2>5. (Ahead(t)' <=> Ahead(t)) /\ (Startable(t)' <=> Startable(t))
    BY <2>1 DEF Ahead, Startable
  <2>6. CASE pc \in {"each", "up"}
    <3>1. /\ downFor[t] <= Latest + MaxTook + passed
          /\ ~(Ahead(t) /\ Startable(t)) => downFor[t] <= Early + passed
          /\ Ahead(t) /\ seen[t].up => downFor[t] <= passed
      BY <2>6 DEF Soon, SoonIn
    <3>2. /\ downFor'[t] <= Latest + MaxTook + passed'
          /\ ~(Ahead(t) /\ Startable(t)) => downFor'[t] <= Early + passed'
          /\ Ahead(t) /\ seen[t].up => downFor'[t] <= passed'
      BY <1>0, <2>2, <2>4, <2>6, <3>1
    <3> QED
      BY <2>1, <2>5, <2>6, <3>2 DEF SoonIn
  <2>7. CASE pc \in {"boot", "boot_up", "read"}
    <3>1. /\ pc = "boot" => downFor[t] <= took
          /\ pc = "boot_up" => downFor[t] <= i * MaxTook + took
          /\ pc = "read" => downFor[t] <= Latest + took
      BY DEF Soon, SoonIn
    <3>2. took' = took + 1 /\ took \in Nat
      BY <1>0, <2>2, <2>7
    <3>3. /\ pc = "boot" => downFor'[t] <= took'
          /\ pc = "boot_up" => downFor'[t] <= i * MaxTook + took'
          /\ pc = "read" => downFor'[t] <= Latest + took'
      BY <1>0, <2>4, <3>1, <3>2
    <3> QED
      BY <2>1, <2>7, <3>3 DEF SoonIn
  <2>8. CASE pc = "idle"
    <3>1. downFor[t] <= Early + passed + due
      BY <2>8 DEF Soon, SoonIn
    <3>2. downFor'[t] <= Early + passed' + due'
      BY <1>0, <2>2, <2>3, <2>4, <2>8, <3>1
    <3> QED
      BY <2>1, <2>8, <3>2 DEF SoonIn
  <2> QED
    BY <2>6, <2>7, <2>8 DEF TypeOK
<1>9. CASE Change \/ UNCHANGED vars
  <2>1. UNCHANGED << pc, i, seen, waited, passed, took, due, downFor >>
    BY <1>9 DEF Change, vars, daemon, tried
  <2>2. \A t \in Names : (Ahead(t)' <=> Ahead(t)) /\ (Startable(t)' <=> Startable(t))
    BY <2>1 DEF Ahead, Startable
  <2> QED
    BY <2>1, <2>2 DEF Soon, SoonIn
<1> QED
  BY <1>1, <1>2, <1>3, <1>4, <1>5, <1>6, <1>7, <1>8, <1>9 DEF Next, Daemon

LEMMA InTime == TypeOK /\ Timed /\ Soon => StartsSoon
<1> SUFFICES ASSUME TypeOK, Timed, Soon, NEW t \in Names PROVE downFor[t] <= MaxDown
  BY DEF StartsSoon
<1>0. /\ Early \in Nat /\ Latest \in Nat /\ MaxTook \in Nat /\ MaxPass \in Nat /\ Period \in Nat
      /\ Latest = Early + MaxPass + Period /\ MaxDown = Early + 1 + Period + 2 * MaxPass
      /\ MaxTook <= MaxPass /\ i * MaxTook \in Nat /\ i * MaxTook + MaxTook <= MaxPass
      /\ passed \in 0 .. MaxPass /\ took \in 0 .. MaxTook /\ due \in 0 .. Period
      /\ i \in 1 .. Len(Tunnels) /\ Len(Tunnels) \in Nat /\ downFor[t] \in Nat
  <2>1. downFor[t] \in Nat
    <3>1. MaxDown + 1 \in Nat
      BY Numbers
    <3>2. downFor[t] \in 0 .. MaxDown + 1
      BY DEF TypeOK
    <3> QED
      BY <3>1, <3>2
  <2>2. passed \in 0 .. MaxPass /\ took \in 0 .. MaxTook /\ due \in 0 .. Period
    BY DEF TypeOK
  <2> QED
    BY <2>1, <2>2, Numbers, Bounds
<1>1. CASE pc \in {"boot", "boot_up", "read", "idle"}
  <2>1. \/ downFor[t] <= took
        \/ downFor[t] <= i * MaxTook + took
        \/ downFor[t] <= Latest + took
        \/ downFor[t] <= Early + passed + due
    BY <1>1 DEF Soon, SoonIn
  <2> QED
    BY <1>0, <2>1
<1>2. CASE pc \in {"each", "up"} /\ ~(Ahead(t) /\ Startable(t))
  <2>1. downFor[t] <= Early + passed
    BY <1>2 DEF Soon, SoonIn
  <2> QED
    BY <1>0, <2>1
\* The start is the next command, or a command on another tunnel and those after it.
<1>3. CASE pc \in {"each", "up"} /\ Ahead(t) /\ Startable(t)
  <2>1. downFor[t] <= Latest + MaxTook + passed
    BY <1>3 DEF Soon, SoonIn
  <2>2. passed + MaxTook <= MaxPass
    <3> DEFINE a == 2 * (i - 1) * MaxTook
               b == (2 * (i - 1) + 1) * MaxTook
    <3>1. a \in Nat /\ b \in Nat /\ b = a + MaxTook /\ b + MaxTook <= MaxPass
      <4>1. MaxTook \in Nat /\ Len(Tunnels) \in Nat /\ i \in 1 .. Len(Tunnels)
        BY <1>0
      <4> QED
        BY <4>1, Commands DEF MaxPass
    <3>2. passed <= IF pc = "each" THEN a + took ELSE b + took
      BY <1>3 DEF Timed, Busy
    <3>3. CASE pc = "each"
      <4> HIDE DEF a, b
      <4> QED
        BY <1>0, <3>1, <3>2, <3>3
    <3>4. CASE pc = "up"
      <4>1. i + 1 \in 1 .. Len(Tunnels)
        <5>1. t # Tunnels[i]
          BY <1>3, <3>4 DEF Soon, Startable
        <5>2. PICK j \in i .. Len(Tunnels) : t = Tunnels[j]
          BY <1>3 DEF Ahead
        <5>3. j # i /\ j \in Nat /\ i \in Nat /\ Len(Tunnels) \in Nat /\ i >= 1
          BY <1>0, <5>1, <5>2
        <5> QED
          BY <5>2, <5>3
      <4> DEFINE c == (2 * ((i + 1) - 1) + 1) * MaxTook
      <4>2. /\ c + MaxTook <= MaxPass /\ c = 2 * ((i + 1) - 1) * MaxTook + MaxTook
            /\ 2 * ((i + 1) - 1) * MaxTook = b + MaxTook
        <5>1. MaxTook \in Nat /\ Len(Tunnels) \in Nat /\ i \in 1 .. Len(Tunnels)
          BY <1>0
        <5>2. /\ c = 2 * ((i + 1) - 1) * MaxTook + MaxTook
              /\ c + MaxTook <= 2 * Len(Tunnels) * MaxTook
          BY <5>1, <4>1, Commands
        <5>3. 2 * ((i + 1) - 1) * MaxTook = b + MaxTook
          BY <5>1, Commands
        <5> QED
          BY <5>2, <5>3 DEF MaxPass
      <4>3. c = b + MaxTook + MaxTook
        BY <4>2
      <4> HIDE DEF a, b, c
      <4> QED
        BY <1>0, <3>1, <3>2, <3>4, <4>2, <4>3
    <3> QED
      BY <1>3, <3>3, <3>4
  <2> QED
    BY <1>0, <2>1, <2>2
<1> QED
  BY <1>1, <1>2, <1>3 DEF TypeOK

\* A tunnel that is down is started again within the start backoff, a tick and two passes
\* (tunnel.go:recoverTunnels), whatever fails, is misread or is deleted meanwhile.
THEOREM Restarted == Spec => []StartsSoon
<1>1. Init => Noticed /\ Soon
  <2>1. Init => TypeOK
    BY InitType
  <2>2. Init => Noticed
    BY Numbers, <2>1 DEF Init, Noticed
  <2>3. Init => Soon
    BY DEF Init, Soon, SoonIn
  <2> QED
    BY <2>2, <2>3
<1> QED
  BY <1>1, InitType, StepType, StepNoticed, StepSoon, InTime, PTL DEF Spec
=============================================================================
