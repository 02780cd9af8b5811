--------------------------- MODULE FirewallProofs ---------------------------
(***************************************************************************)
(* What TLAPS proves of Firewall, for every set of LANs, every machine and *)
(* every budget of upsets.                                                 *)
(***************************************************************************)
EXTENDS Firewall, FiniteSetTheorems, WellFoundedInduction, TLAPS

-----------------------------------------------------------------------------
(* The naturals: this stands in for induction over a predicate.             *)

\* A set of naturals that is not empty has a least element: the intervals from 0 up to its
\* elements are finite, and finite sets are well founded under inclusion.
LEMMA LeastOfNaturals ==
  ASSUME NEW S \in SUBSET Nat, S # {}
  PROVE  \E i \in S : \A j \in S : i <= j
<1> DEFINE T == {0 .. i : i \in S}
<1>1. T \subseteq FiniteSubsetsOf(Nat) /\ T # {}
  <2>1. \A i \in Nat : IsFiniteSet(0 .. i) /\ 0 .. i \subseteq Nat
    BY FS_Interval
  <2> QED
    BY <2>1 DEF FiniteSubsetsOf
<1>2. \E x \in T : \A y \in T : << y, x >> \notin StrictSubsetOrdering(Nat)
  <2> HIDE DEF T
  <2> QED
    BY <1>1, FS_StrictSubsetOrderingWellFounded, WFMin
<1>3. PICK i \in S : \A j \in S : << 0 .. j, 0 .. i >> \notin StrictSubsetOrdering(Nat)
  BY <1>2
<1>4. ASSUME NEW j \in S, j < i PROVE FALSE
  <2>1. 0 .. j \subseteq 0 .. i /\ 0 .. j # 0 .. i /\ 0 .. i \subseteq Nat
    BY <1>4
  <2> QED
    BY <1>3, <2>1 DEF StrictSubsetOrdering
<1> QED
  BY <1>4

-----------------------------------------------------------------------------
(* The rules.                                                              *)

\* Every rule that applyKillSwitch inserts is a rule.
LEMMA InsertOrderType ==
  ASSUME NEW l \in LANs, NEW b \in Blocks, NEW n \in 1 .. NRules
  PROVE  InsertOrder(l, b)[n] \in Rule
BY DEF InsertOrder, NRules, Rule, Kinds, Blocks, MkRule, CatchAll

\* The next-state relation of Spec only takes steps that RacySpec may take.
LEMMA NextIsRacy == Next => RacyNext
BY DEF Next, RacyNext

-----------------------------------------------------------------------------
(* Types.  What is inserted is typed because rejectArgs has run by then.    *)

\* rejectArgs has answered before the first rule is inserted.
Answered == pc = "insert" => block \in Blocks

TInv == TypeOK /\ Answered

LEMMA InitTInv == Init => TInv
<1> SUFFICES ASSUME Init PROVE TInv
  OBVIOUS
<1>1. FlagsOK
  BY DEF Init, FlagsOK
<1>2. CountsOK
  BY BoundAssumption DEF Init, CountsOK
<1>3. ProcOK /\ pc # "insert"
  BY DEF Init, ProcOK, PCs, StopPCs, NRules
<1>4. chain \in Seq(Rule)
  BY DEF Init
<1> QED
  BY <1>1, <1>2, <1>3, <1>4 DEF TInv, TypeOK, Answered

\* The flags.
LEMMA StepFlags == FlagsOK /\ [RacyNext]_vars => FlagsOK'
<1> SUFFICES ASSUME FlagsOK, [RacyNext]_vars PROVE FlagsOK'
  OBVIOUS
<1>0. NoStop \in BOOLEAN
  BY DEF NoStop
<1> USE DEF FlagsOK, kernel, proc, hist, Fine, Fault, Spend
<1>1. CASE Start
  BY <1>1, <1>0 DEF Start
<1>2. CASE EnsureChain
  BY <1>2 DEF EnsureChain
<1>3. CASE EnsureJump
  BY <1>3 DEF EnsureJump
<1>4. CASE Purge
  BY <1>4 DEF Purge
<1>5. CASE RejectArgs
  BY <1>5 DEF RejectArgs
<1>6. CASE Insert
  BY <1>6 DEF Insert
<1>7. CASE Block6
  BY <1>7 DEF Block6, Try6, Checked, NotAdded
<1>8. CASE EnsureJump6
  BY <1>8 DEF EnsureJump6
<1>9. CASE ApplyNAT
  BY <1>9 DEF ApplyNAT, Checked, NotAdded
<1>10. CASE ApplyDNSRedirect("dns_udp", "udp") \/ ApplyDNSRedirect("dns_tcp", "tcp")
  BY <1>10 DEF ApplyDNSRedirect, Checked, NotAdded
<1>11. CASE Tick \/ Check \/ Exit
  BY <1>11, <1>0 DEF Tick, Check, Exit
<1>12. CASE StopBegin \/ StopStep
  BY <1>12 DEF StopBegin, StopStep, RemoveDNSRedirect, RemoveNAT, StopPurge, Remove6
<1>13. CASE Tamper \/ DeleteOne
  BY <1>13 DEF Tamper, DeleteOne
<1>14. CASE UNCHANGED vars
  BY <1>14 DEF vars
<1> QED
  BY <1>1, <1>2, <1>3, <1>4, <1>5, <1>6, <1>7, <1>8, <1>9, <1>10, <1>11, <1>12,
     <1>13, <1>14 DEF RacyNext, Daemon, Pass

\* The counters of rules and of upsets.
LEMMA StepCounts == CountsOK /\ [RacyNext]_vars => CountsOK'
<1> SUFFICES ASSUME CountsOK, [RacyNext]_vars PROVE CountsOK'
  OBVIOUS
<1> USE DEF CountsOK, kernel, proc, hist
<1>0. ASSUME NEW u \in Upsets \ {"any"}, Counted(u) PROVE left' \in [Upsets -> Nat]
  BY <1>0 DEF Counted, Upsets
<1>a. ASSUME NEW u \in Upsets \ {"any"}, Spend(u) PROVE left' \in [Upsets -> Nat]
  BY <1>a, <1>0 DEF Spend
<1>b. Fine \/ Fault => left' \in [Upsets -> Nat]
  BY <1>a DEF Fine, Fault, Upsets
<1>c. ASSUME NEW n \in Nat, NEW m \in BOOLEAN PROVE Ensured(n, m) \in Nat
  BY DEF Ensured
<1>d. ASSUME NEW n \in Nat PROVE Less(n) \in Nat
  BY DEF Less
<1>e. ASSUME NEW n, NEW m, Checked(n, m) \/ NotAdded PROVE left' \in [Upsets -> Nat]
  BY <1>b, <1>e DEF Checked, NotAdded
<1>1. CASE Start \/ Tick
  BY <1>1 DEF Start, Tick
<1>2. CASE EnsureChain
  BY <1>2, <1>b DEF EnsureChain
<1>3. CASE EnsureJump
  BY <1>3, <1>b DEF EnsureJump
<1>4. CASE Purge
  BY <1>4, <1>b DEF Purge
<1>5. CASE RejectArgs
  BY <1>5, <1>b DEF RejectArgs
<1>6. CASE Insert
  BY <1>6, <1>b DEF Insert
<1>7. ASSUME NEW at, NEW b \in Blocks, NEW o, Try6(at, b, o) PROVE CountsOK'
  BY <1>7, <1>b, <1>c, <1>e DEF Try6
<1>8. CASE EnsureJump6
  BY <1>8, <1>b DEF EnsureJump6
<1>9. CASE ApplyNAT
  BY <1>9, <1>b, <1>c, <1>e DEF ApplyNAT
<1>10. ASSUME NEW at, NEW p \in Protos, ApplyDNSRedirect(at, p) PROVE CountsOK'
  <2>1. left' \in [Upsets -> Nat]
    BY <1>10, <1>e DEF ApplyDNSRedirect
  <2>2. dns' \in [Protos -> Nat]
    BY <1>10, <1>c DEF ApplyDNSRedirect
  <2> QED
    BY <1>10, <2>1, <2>2 DEF ApplyDNSRedirect
<1>11. CASE Check \/ Exit
  BY <1>11, <1>a, <1>b DEF Check, Exit, Upsets
<1>12. CASE StopBegin
  BY <1>12, <1>0 DEF StopBegin, Upsets
<1>13. CASE StopStep
  BY <1>13, <1>b, <1>d
  DEF StopStep, RemoveDNSRedirect, RemoveNAT, StopPurge, Remove6
<1>14. CASE Tamper \/ DeleteOne
  BY <1>14, <1>a DEF Tamper, DeleteOne, Upsets
<1>15. CASE UNCHANGED vars
  BY <1>15 DEF vars
<1> QED
  BY <1>1, <1>2, <1>3, <1>4, <1>5, <1>6, <1>7, <1>8, <1>9, <1>10, <1>11, <1>12,
     <1>13, <1>14, <1>15 DEF RacyNext, Daemon, Pass, Block6, Blocks, Protos

\* The program counters and what the processes hold.
LEMMA StepProc == ProcOK /\ [RacyNext]_vars => ProcOK'
<1> SUFFICES ASSUME ProcOK, [RacyNext]_vars PROVE ProcOK'
  OBVIOUS
<1> USE DEF ProcOK, PCs, ArmPCs, StopPCs, NRules, proc
<1>1. CASE Start
  BY <1>1 DEF Start
<1>2. CASE EnsureChain \/ EnsureJump
  BY <1>2 DEF EnsureChain, EnsureJump, Abort
<1>3. CASE Purge
  BY <1>3 DEF Purge
<1>4. CASE RejectArgs
  BY <1>4 DEF RejectArgs, Blocks
<1>5. CASE Insert
  BY <1>5 DEF Insert, Abort
<1>6. CASE Block6
  BY <1>6 DEF Block6, Try6, NoTarget6, Abort
<1>7. CASE EnsureJump6 \/ ApplyNAT
  BY <1>7 DEF EnsureJump6, ApplyNAT
<1>8. CASE ApplyDNSRedirect("dns_udp", "udp") \/ ApplyDNSRedirect("dns_tcp", "tcp")
  BY <1>8 DEF ApplyDNSRedirect
<1>9. CASE Tick \/ Check \/ Exit
  BY <1>9 DEF Tick, Check, Exit, kernel
<1>10. CASE StopBegin \/ StopStep
  BY <1>10 DEF StopBegin, StopStep, RemoveDNSRedirect, RemoveNAT, StopPurge, Remove6
<1>11. CASE Tamper \/ DeleteOne
  BY <1>11 DEF Tamper, DeleteOne
<1>12. CASE UNCHANGED vars
  BY <1>12 DEF vars
<1> QED
  BY <1>1, <1>2, <1>3, <1>4, <1>5, <1>6, <1>7, <1>8, <1>9, <1>10, <1>11, <1>12
  DEF RacyNext, Daemon, Pass

\* ... and Answered.
LEMMA StepAnswered == ProcOK /\ Answered /\ [RacyNext]_vars => Answered'
<1> SUFFICES ASSUME ProcOK, Answered, [RacyNext]_vars PROVE Answered'
  OBVIOUS
<1> USE DEF Answered, proc
<1>1. CASE Start
  BY <1>1 DEF Start
<1>2. CASE EnsureChain \/ EnsureJump \/ Purge
  BY <1>2 DEF EnsureChain, EnsureJump, Purge, Abort
<1>3. CASE RejectArgs
  BY <1>3 DEF RejectArgs, ProcOK, Blocks
<1>4. CASE Insert
  BY <1>4 DEF Insert
<1>5. CASE Block6
  BY <1>5 DEF Block6, Try6, NoTarget6, Abort
<1>6. CASE EnsureJump6 \/ ApplyNAT
  BY <1>6 DEF EnsureJump6, ApplyNAT
<1>7. CASE ApplyDNSRedirect("dns_udp", "udp") \/ ApplyDNSRedirect("dns_tcp", "tcp")
  BY <1>7 DEF ApplyDNSRedirect
<1>8. CASE Tick \/ Check \/ Exit
  BY <1>8 DEF Tick, Check, Exit
<1>9. CASE StopBegin \/ StopStep
  BY <1>9 DEF StopBegin, StopStep, RemoveDNSRedirect, RemoveNAT, StopPurge, Remove6
<1>10. CASE Tamper \/ DeleteOne
  BY <1>10 DEF Tamper, DeleteOne
<1>11. CASE UNCHANGED vars
  BY <1>11 DEF vars
<1> QED
  BY <1>1, <1>2, <1>3, <1>4, <1>5, <1>6, <1>7, <1>8, <1>9, <1>10, <1>11
  DEF RacyNext, Daemon, Pass

\* The steps that leave the chain alone.
Elsewhere == \/ Start \/ EnsureChain \/ EnsureJump \/ RejectArgs \/ Block6 \/ EnsureJump6
             \/ ApplyNAT \/ ApplyDNSRedirect("dns_udp", "udp")
             \/ ApplyDNSRedirect("dns_tcp", "tcp") \/ Tick \/ Check \/ Exit
             \/ StopBegin \/ RemoveDNSRedirect \/ RemoveNAT \/ Remove6

LEMMA KeepsChain == Elsewhere => UNCHANGED chain
BY DEF Elsewhere, Start, EnsureChain, EnsureJump, RejectArgs, Block6, Try6, EnsureJump6,
       ApplyNAT, ApplyDNSRedirect, Tick, Check, Exit, StopBegin, RemoveDNSRedirect,
       RemoveNAT, Remove6, kernel

\* The chain is a sequence of rules.
LEMMA StepChain ==
  ProcOK /\ Answered /\ chain \in Seq(Rule) /\ [RacyNext]_vars => chain' \in Seq(Rule)
<1> SUFFICES ASSUME ProcOK, Answered, chain \in Seq(Rule), [RacyNext]_vars
             PROVE  chain' \in Seq(Rule)
  OBVIOUS
<1>1. ASSUME NEW n, PurgeMore(n), chain' = Tail(chain) PROVE chain' \in Seq(Rule)
  BY <1>1 DEF PurgeMore
<1>2. CASE Purge \/ StopPurge
  BY <1>1, <1>2 DEF Purge, StopPurge, Purged
<1>3. CASE Insert
  <2>1. InsertOrder(lan, block)[next] \in Rule
    BY <1>3, InsertOrderType DEF Insert, ProcOK, Answered
  <2> QED
    BY <1>3, <2>1 DEF Insert, Inserted
<1>4. CASE Tamper
  <2>1. chain' = << >> \/ chain' = chain
    BY <1>4 DEF Tamper
  <2>2. CASE chain' = << >>
    BY <2>2
  <2> QED
    BY <2>1, <2>2
<1>5. CASE DeleteOne
  <2>1. PICK i \in DOMAIN chain :
          chain' = SubSeq(chain, 1, i - 1) \o SubSeq(chain, i + 1, Len(chain))
    BY <1>5 DEF DeleteOne
  <2>2. /\ SubSeq(chain, 1, i - 1) \in Seq(Rule)
        /\ SubSeq(chain, i + 1, Len(chain)) \in Seq(Rule)
    BY SMTT(30)
  <2> QED
    BY <2>1, <2>2
<1>6. CASE UNCHANGED chain
  BY <1>6
<1> QED
  BY <1>2, <1>3, <1>4, <1>5, <1>6, KeepsChain 
  DEF Elsewhere, RacyNext, Daemon, Pass, StopStep, vars, kernel

LEMMA StepTInv == TInv /\ [RacyNext]_vars => TInv'
BY StepFlags, StepCounts, StepProc, StepAnswered, StepChain DEF TInv, TypeOK

\* Type correctness, with anybody writing the tables at any time.
THEOREM RacyTypeCorrect == RacySpec => []TypeOK
<1>1. RacySpec => []TInv
  BY InitTInv, StepTInv, PTL DEF RacySpec
<1>2. TInv => TypeOK
  BY DEF TInv
<1> QED
  BY <1>1, <1>2, PTL

\* ... and so with nobody writing them while we do.
THEOREM TypeCorrect == Spec => []TypeOK
<1>1. Spec => []TInv
  BY InitTInv, StepTInv, NextIsRacy, PTL DEF Spec
<1>2. TInv => TypeOK
  BY DEF TInv
<1> QED
  BY <1>1, <1>2, PTL

-----------------------------------------------------------------------------
(* Fail closed at every step of Spec.  The inductive invariant is stronger  *)
(* than AllowsNeedCatchAll: the last rule of a chain with rules is the      *)
(* catch-all.  The purge keeps it because it deletes the first rule, the    *)
(* insert because it adds a first rule, on an empty chain the catch-all;    *)
(* that the second and later inserts find a chain with rules is the part    *)
(* that a flush in mid-arming breaks, and that Spec therefore excludes.     *)

LastIsCatchAll == chain # << >> => chain[Len(chain)].kind = "catch_all"
Blocking == \A i \in DOMAIN chain : chain[i].kind = "catch_all" => chain[i].act \in Blocks
Underway == pc = "insert" /\ next > 1 => chain # << >>

Grounded == TInv /\ LastIsCatchAll /\ Blocking /\ Underway

LEMMA InitGrounded == Init => Grounded
<1> SUFFICES ASSUME Init PROVE Grounded
  OBVIOUS
<1>1. TInv
  BY InitTInv
<1>2. LastIsCatchAll /\ Blocking /\ Underway
  BY DEF Init, LastIsCatchAll, Blocking, Underway
<1> QED
  BY <1>1, <1>2 DEF Grounded

\* Deleting the first rule.
LEMMA TailGrounded ==
  ASSUME Grounded, chain # << >>, chain' = Tail(chain)
  PROVE  LastIsCatchAll' /\ Blocking'
<1>1. chain \in Seq(Rule) /\ Len(chain) \in Nat \ {0}
  BY DEF Grounded, TInv, TypeOK
<1>2. Len(chain') = Len(chain) - 1 /\ \A i \in DOMAIN chain' : chain'[i] = chain[i + 1]
  BY <1>1
<1>3. DOMAIN chain = 1 .. Len(chain) /\ DOMAIN chain' = 1 .. Len(chain')
  BY <1>1
<1>4. LastIsCatchAll'
  BY <1>1, <1>2, <1>3 DEF Grounded, LastIsCatchAll
<1>5. Blocking'
  BY <1>1, <1>2, <1>3 DEF Grounded, Blocking
<1> QED
  BY <1>4, <1>5

\* Inserting a first rule.
LEMMA InsertGrounded ==
  ASSUME Grounded, Insert
  PROVE  LastIsCatchAll' /\ Blocking' /\ Underway'
<1> DEFINE r == InsertOrder(lan, block)[next]
<1>1. chain \in Seq(Rule) /\ next \in 1 .. NRules /\ lan \in LANs /\ block \in Blocks
  BY DEF Grounded, TInv, TypeOK, ProcOK, Answered, Insert
<1>2. r \in Rule
  BY <1>1, InsertOrderType
<1>3. next = 1 => r.kind = "catch_all"
  BY DEF InsertOrder, MkRule, CatchAll
<1>4. r.kind = "catch_all" => r.act \in Blocks
  BY <1>1 DEF InsertOrder, NRules, MkRule, CatchAll
<1> HIDE DEF r
<1>5. CASE UNCHANGED chain /\ pc' # "insert"
  BY <1>5 DEF Grounded, LastIsCatchAll, Blocking, Underway
<1>6. CASE chain' = << r >> \o chain
  <2>1. /\ Len(chain') = Len(chain) + 1 /\ chain' # << >>
        /\ DOMAIN chain' = 1 .. Len(chain') /\ DOMAIN chain = 1 .. Len(chain)
        /\ chain'[1] = r
        /\ \A i \in DOMAIN chain' : i # 1 => chain'[i] = chain[i - 1]
    BY <1>1, <1>2, <1>6
  <2>2. Len(chain) \in Nat /\ (chain # << >> => Len(chain) # 0)
    BY <1>1
  <2>3. next # 1 => chain # << >>
    BY <1>1 DEF Grounded, Underway, Insert, NRules
  <2>4. LastIsCatchAll'
    BY <1>3, <2>1, <2>2, <2>3 DEF Grounded, LastIsCatchAll
  <2>5. Blocking'
    BY <1>4, <2>1, <2>2 DEF Grounded, Blocking
  <2> QED
    BY <2>1, <2>4, <2>5 DEF Underway
<1> QED
  BY <1>5, <1>6 DEF Insert, Inserted, Abort, r

LEMMA StepGrounded == Grounded /\ [Next]_vars => Grounded'
<1> SUFFICES ASSUME Grounded, [Next]_vars PROVE Grounded'
  OBVIOUS
<1>1. TInv'
  BY StepTInv, NextIsRacy DEF Grounded
<1> SUFFICES LastIsCatchAll' /\ Blocking' /\ Underway'
  BY <1>1 DEF Grounded
<1>2. ASSUME UNCHANGED chain, pc' = "insert" => UNCHANGED << pc, next >> \/ next' = 1
      PROVE  LastIsCatchAll' /\ Blocking' /\ Underway'
  BY <1>2 DEF Grounded, LastIsCatchAll, Blocking, Underway
<1>3. CASE Purge \/ (StopPurge /\ pc = "down")
  <2>1. CASE UNCHANGED chain
    BY <1>2, <1>3, <2>1 DEF Purge, StopPurge, proc
  <2>2. CASE chain # << >> /\ chain' = Tail(chain)
    BY <1>3, <2>2, TailGrounded DEF Purge, StopPurge, proc, Underway, Purged
  <2> QED
    BY <1>3, <2>1, <2>2 DEF Purge, StopPurge, PurgeMore, Purged
<1>4. CASE Insert
  BY <1>4, InsertGrounded
<1>5. CASE pc \in {"down", "idle"} /\ Tamper
  <2>1. UNCHANGED << pc, next >> /\ (chain' = << >> \/ chain' = chain)
    BY <1>5 DEF Tamper, proc
  <2>2. pc' # "insert"
    BY <1>5, <2>1
  <2>3. CASE chain' = << >>
    BY <2>2, <2>3 DEF LastIsCatchAll, Blocking, Underway
  <2> QED
    BY <1>2, <2>1, <2>2, <2>3
<1>6. CASE Elsewhere
  <2>1. pc' = "insert" => UNCHANGED << pc, next >> \/ next' = 1
    BY <1>6 DEF Elsewhere, Start, EnsureChain, EnsureJump, RejectArgs, Block6, Try6,
       NoTarget6, Abort, EnsureJump6, ApplyNAT, ApplyDNSRedirect, Tick, Check, Exit,
       StopBegin, RemoveDNSRedirect, RemoveNAT, Remove6, proc
  <2> QED
    BY <1>2, <1>6, <2>1, KeepsChain
<1>7. CASE UNCHANGED vars
  BY <1>2, <1>7 DEF vars, kernel, proc
<1>8. Daemon \/ Exit => Purge \/ Insert \/ Elsewhere
  BY DEF Daemon, Pass, Elsewhere
<1>9. StopBegin \/ StopStep => StopPurge \/ Elsewhere
  BY DEF StopStep, Elsewhere
<1> QED
  BY <1>3, <1>4, <1>5, <1>6, <1>7, <1>8, <1>9 DEF Next

\* A grounded chain has a catch-all below every allow: its last rule.
LEMMA GroundedCatches == Grounded => AllowsNeedCatchAll
<1> SUFFICES ASSUME Grounded, NEW i \in DOMAIN chain, chain[i].act = "ACCEPT"
             PROVE  \E j \in DOMAIN chain : j > i /\ chain[j].kind = "catch_all"
  BY DEF AllowsNeedCatchAll
<1>1. chain \in Seq(Rule) /\ Len(chain) \in Nat /\ DOMAIN chain = 1 .. Len(chain)
  BY DEF Grounded, TInv, TypeOK
<1>2. chain # << >> /\ Len(chain) \in DOMAIN chain
  BY <1>1
<1>3. chain[Len(chain)].kind = "catch_all"
  BY <1>2 DEF Grounded, LastIsCatchAll
<1>4. i # Len(chain)
  BY <1>2, <1>3 DEF Grounded, Blocking, Blocks
<1> QED
  BY <1>1, <1>2, <1>3, <1>4

\* Whatever command of ours fails, wherever the daemon is killed, however often it is
\* restarted with another LAN, stopped and started again, and whatever is flushed while
\* it does not write: no allow of ours stands without a catch-all below it.
THEOREM FailClosed == Spec => []AllowsNeedCatchAll
<1>1. Spec => []Grounded
  BY InitGrounded, StepGrounded, PTL DEF Spec
<1> QED
  BY <1>1, GroundedCatches, PTL

-----------------------------------------------------------------------------
(* The refinement.  Gateway's three kinds of step are: a command that adds  *)
(* to or takes from a grounded chain leaves only legitimate packets; the    *)
(* last rule to go is a catch-all, under which nothing passed; and all that *)
(* other programs do while nobody writes is to let everything pass.         *)

\* The verdict on a packet is that of the first rule that matches it.
LEMMA FirstMatch ==
  ASSUME chain \in Seq(Rule), NEW p, NEW k \in DOMAIN chain, Matches(chain[k], p)
  PROVE  \E i \in DOMAIN chain :
           /\ i <= k /\ Matches(chain[i], p) /\ Verdict(p) = chain[i].act
           /\ \A j \in DOMAIN chain : Matches(chain[j], p) => i <= j
<1> DEFINE hits == {i \in DOMAIN chain : Matches(chain[i], p)}
           i == CHOOSE i \in hits : \A j \in hits : i <= j
<1>1. hits \in SUBSET Nat /\ k \in hits
  OBVIOUS
<1>2. \E m \in hits : \A j \in hits : m <= j
  BY <1>1, LeastOfNaturals
<1>3. i \in hits /\ \A j \in hits : i <= j
  BY <1>2
<1>4. Verdict(p) = chain[i].act
  BY <1>1 DEF Verdict
<1> QED
  BY <1>1, <1>3, <1>4

\* ... and one that no rule matches passes.
LEMMA NoMatch ==
  ASSUME NEW p, \A i \in DOMAIN chain : ~Matches(chain[i], p)
  PROVE  Verdict(p) = "pass"
<1>1. {i \in DOMAIN chain : Matches(chain[i], p)} = {}
  OBVIOUS
<1> QED
  BY <1>1 DEF Verdict

\* What passes a chain with rules is legitimate: the catch-all stops the rest.  A rule that
\* allows is about tunnels, our own networks or replies, provided that no interface of
\* somebody else is called wg-something.
LEMMA SealedChain ==
  WgNamed \subseteq TunnelIfs =>
    (Grounded /\ jump /\ chain # << >> => Passing \subseteq Legitimate)
<1> SUFFICES ASSUME WgNamed \subseteq TunnelIfs, Grounded, jump, chain # << >>,
                    NEW p \in Packet, Verdict(p) \in {"pass", "ACCEPT"}
             PROVE  p \in Legitimate
  BY DEF Passing
<1>1. chain \in Seq(Rule) /\ Len(chain) \in DOMAIN chain
  BY DEF Grounded, TInv, TypeOK
<1>2. Matches(chain[Len(chain)], p)
  BY <1>1 DEF Grounded, LastIsCatchAll, Matches
<1>3. PICK i \in DOMAIN chain : Matches(chain[i], p) /\ Verdict(p) = chain[i].act
  BY <1>1, <1>2, FirstMatch
<1>4. chain[i] \in Rule
  BY <1>1
<1>5. chain[i].act = "ACCEPT" /\ chain[i].kind # "catch_all"
  BY <1>3, <1>4 DEF Rule, Blocks, Grounded, Blocking
<1>6. chain[i].lan # "net"
  BY <1>4, LANsAssumption DEF Rule
<1> QED
  BY <1>3, <1>5, <1>6 DEF Matches, Legitimate

\* An empty chain lets everything pass, as does one that nothing jumps to.
LEMMA OpenChain == ~jump \/ chain = << >> => Passing = Packet
<1>1. chain = << >> => \A p \in Packet : Verdict(p) = "pass"
  BY NoMatch
<1> QED
  BY <1>1 DEF Passing

\* A chain whose first rule is also its last stops everything.
LEMMA OneRule ==
  ASSUME Grounded, jump, chain # << >>, Tail(chain) = << >>
  PROVE  Passing = {}
<1>0. chain \in Seq(Rule)
  BY DEF Grounded, TInv, TypeOK
<1>1. Len(chain) = 1 /\ DOMAIN chain = {1}
  <2>1. Len(Tail(chain)) = Len(chain) - 1 /\ Len(chain) \in Nat \ {0}
    BY <1>0
  <2> QED
    BY <1>0, <2>1
<1>2. chain[1].kind = "catch_all" /\ chain[1].act \in Blocks
  BY <1>1 DEF Grounded, LastIsCatchAll, Blocking
<1>3. ASSUME NEW p \in Packet PROVE Verdict(p) = chain[1].act
  BY <1>0, <1>1, <1>2, FirstMatch DEF Matches
<1> QED
  BY <1>2, <1>3 DEF Passing, Blocks

\* Nothing else changes what passes.
LEMMA KeepsPassing == UNCHANGED << jump, chain >> => UNCHANGED Passing
BY DEF Passing, Verdict

\* The steps of the daemon and of `stop` spend no budget but that of their own upset, and
\* a failure, a kill or an interference ends what was clean.
LEMMA Spends ==
  Daemon \/ Exit \/ StopBegin \/ StopStep =>
    \/ UNCHANGED left
    \/ \E u \in {"fault", "crash", "stop"} : Counted(u)
<1> USE DEF Fine, Fault, Spend
<1>1. CASE Start \/ Tick \/ EnsureChain \/ EnsureJump \/ Purge \/ RejectArgs \/ Insert
  BY <1>1 DEF Start, Tick, EnsureChain, EnsureJump, Purge, RejectArgs, Insert
<1>2. CASE Block6 \/ EnsureJump6 \/ ApplyNAT \/ ApplyDNSRedirect("dns_udp", "udp")
           \/ ApplyDNSRedirect("dns_tcp", "tcp")
  BY <1>2 DEF Block6, Try6, EnsureJump6, ApplyNAT, ApplyDNSRedirect, Checked, NotAdded
<1>3. CASE Check \/ Exit \/ StopBegin \/ StopStep
  BY <1>3 DEF Check, Exit, StopBegin, StopStep, RemoveDNSRedirect, RemoveNAT, StopPurge,
              Remove6
<1> QED
  BY <1>1, <1>2, <1>3 DEF Daemon, Pass

Writing == pc \in ArmPCs \/ stop = "purge"
Flushes == Budget["tamper"] - left["tamper"]

LEMMA KeepsFlushes ==
  CountsOK /\ (Daemon \/ Exit \/ StopBegin \/ StopStep) => UNCHANGED Flushes
BY Spends DEF CountsOK, Counted, Upsets, Flushes

\* A step that leaves chain and jump alone begins the writing, ends it or is none.
LEMMA QuietStep ==
  UNCHANGED << jump, chain, Flushes >> => [G!Next]_(G!gateway)
<1> SUFFICES ASSUME UNCHANGED << jump, chain, Flushes >>
             PROVE  [G!Next]_(G!gateway)
  OBVIOUS
<1>1. UNCHANGED << Passing, Flushes >>
  BY KeepsPassing
<1>2. CASE ~Writing /\ Writing'
  BY <1>1, <1>2 DEF G!Next, G!Begin, Writing, Flushes
<1>3. CASE Writing /\ ~Writing'
  BY <1>1, <1>3 DEF G!Next, G!End, Writing, Flushes
<1>4. CASE Writing = Writing'
  BY <1>1, <1>4 DEF G!gateway, Writing, Flushes
<1> QED
  BY <1>2, <1>3, <1>4 DEF Writing

\* One command of an arming or of a removal.
LEMMA WritingStep ==
  ASSUME WgNamed \subseteq TunnelIfs, Grounded, Grounded', Writing, Writing',
         UNCHANGED Flushes, jump => jump',
         \/ chain' # << >>
         \/ UNCHANGED chain
         \/ chain # << >> /\ chain' = Tail(chain) /\ UNCHANGED jump
  PROVE  [G!Next]_(G!gateway)
<1> USE DEF Writing, Flushes
<1>a. Passing' = Passing => [G!Next]_(G!gateway)
  BY DEF G!gateway
<1>b. Passing' \subseteq Legitimate => [G!Next]_(G!gateway)
  BY DEF G!Next, G!Seal
<1>c. Passing = {} /\ Passing' = Packet => [G!Next]_(G!gateway)
  BY DEF G!Next, G!Reopen
<1>d. (~jump \/ chain = << >> => Passing = Packet)'
  BY OpenChain, PTL
<1>e. (Grounded /\ jump /\ chain # << >> => Passing \subseteq Legitimate)'
  <2>1. (WgNamed \subseteq TunnelIfs =>
           (Grounded /\ jump /\ chain # << >> => Passing \subseteq Legitimate))'
    BY SealedChain, PTL
  <2> QED
    BY <2>1
<1>1. CASE jump' /\ chain' # << >>
  BY <1>1, <1>b, <1>e DEF Legitimate
<1>2. CASE ~jump'
  BY <1>2, <1>a, <1>d, OpenChain
<1>3. CASE jump' /\ chain' = << >>
  <2>1. CASE ~jump \/ chain = << >>
    BY <1>3, <2>1, <1>a, <1>d, OpenChain
  <2>2. CASE jump /\ chain # << >>
    BY <1>3, <2>2, <1>c, <1>d, OneRule
  <2> QED
    BY <2>1, <2>2
<1> QED
  BY <1>1, <1>2, <1>3

LEMMA InitGateway == Init => G!Init
<1> SUFFICES ASSUME Init PROVE G!Init
  OBVIOUS
<1>1. Passing = Packet
  BY OpenChain DEF Init
<1>2. pc \notin ArmPCs /\ stop # "purge"
  BY DEF Init, ArmPCs
<1>3. Budget["tamper"] - left["tamper"] = 0
  BY BoundAssumption DEF Init, Upsets
<1> QED
  BY <1>1, <1>2, <1>3 DEF G!Init

\* A flush, while nobody writes.
LEMMA TamperStep ==
  ASSUME CountsOK, pc \in {"down", "idle"}, NoStop, Tamper
  PROVE  [G!Next]_(G!gateway)
<1> USE DEF Writing, Flushes
<1>1. ~Writing /\ ~Writing'
  BY DEF NoStop, ArmPCs, Tamper, proc
<1>2. Flushes' = Flushes + 1
  BY BoundAssumption DEF Tamper, Spend, Counted, CountsOK, Upsets
<1>3. \/ UNCHANGED << jump, chain >>
      \/ (~jump \/ chain = << >>)'
  BY DEF Tamper
<1>4. (~jump \/ chain = << >> => Passing = Packet)'
  BY OpenChain, PTL
<1>5. Passing' \in {Passing, Packet}
  BY <1>3, <1>4, KeepsPassing
<1> QED
  BY <1>1, <1>2, <1>5 DEF G!Next, G!Flush

LEMMA StepGateway ==
  WgNamed \subseteq TunnelIfs =>
    (Grounded /\ Grounded' /\ [Next]_vars => [G!Next]_(G!gateway))
<1> SUFFICES ASSUME WgNamed \subseteq TunnelIfs, Grounded, Grounded', [Next]_vars
             PROVE  [G!Next]_(G!gateway)
  OBVIOUS
<1>0. CountsOK
  BY DEF Grounded, TInv, TypeOK
<1>1. CASE NoStop /\ EnsureJump
  <2>1. Writing /\ UNCHANGED << chain, Flushes >>
    BY <1>0, <1>1, KeepsFlushes DEF Writing, ArmPCs, EnsureJump, Daemon, Pass
  <2>2. CASE UNCHANGED jump
    BY <2>1, <2>2, QuietStep
  <2>3. CASE jump' = TRUE /\ pc' = "purge"
    BY <2>1, <2>3, WritingStep DEF Writing, ArmPCs
  <2> QED
    BY <1>1, <2>2, <2>3 DEF EnsureJump
<1>2. CASE NoStop /\ Purge
  <2>1. Writing /\ Writing' /\ UNCHANGED << jump, Flushes >>
    BY <1>0, <1>2, KeepsFlushes DEF Writing, ArmPCs, Purge, Daemon, Pass
  <2>2. UNCHANGED chain \/ (chain # << >> /\ chain' = Tail(chain))
    BY <1>2 DEF Purge, PurgeMore, Purged
  <2> QED
    BY <2>1, <2>2, WritingStep
<1>3. CASE NoStop /\ Insert
  <2>1. UNCHANGED << jump, Flushes >> /\ Writing
    BY <1>0, <1>3, KeepsFlushes DEF Writing, ArmPCs, Insert, Daemon, Pass
  <2>2. CASE UNCHANGED chain
    BY <2>1, <2>2, QuietStep
  <2>3. CASE chain' # chain
    <3>1. Writing'
      BY <1>3, <2>3 DEF Insert, Writing, ArmPCs
    <3>2. PICK r : chain' = << r >> \o chain /\ r \in Rule
      BY <1>3, <2>3, InsertOrderType
      DEF Insert, Inserted, Grounded, TInv, TypeOK, ProcOK, Answered
    <3>3. chain' # << >>
      <4>1. chain \in Seq(Rule)
        BY DEF Grounded, TInv, TypeOK
      <4> QED
        BY <3>2, <4>1
    <3> QED
      BY <2>1, <3>1, <3>3, WritingStep
  <2> QED
    BY <2>2, <2>3
<1>4. CASE pc = "down" /\ StopPurge
  <2>1. Writing /\ UNCHANGED << jump, Flushes >>
    BY <1>0, <1>4, KeepsFlushes DEF Writing, StopPurge, StopStep
  <2>2. CASE UNCHANGED chain
    BY <2>1, <2>2, QuietStep
  <2>3. CASE chain # << >> /\ chain' = Tail(chain) /\ UNCHANGED stop
    <3>1. Writing'
      BY <1>4, <2>3 DEF StopPurge, Writing
    <3> QED
      BY <2>1, <2>3, <3>1, WritingStep
  <2> QED
    BY <1>4, <2>2, <2>3 DEF StopPurge, PurgeMore, Purged
<1>5. CASE pc \in {"down", "idle"} /\ NoStop /\ Tamper
  BY <1>0, <1>5, TamperStep
<1>6. CASE Elsewhere /\ UNCHANGED jump
  <2>1. UNCHANGED Flushes
    BY <1>0, <1>6, KeepsFlushes DEF Elsewhere, Daemon, Pass, StopStep
  <2> QED
    BY <1>6, <2>1, KeepsChain, QuietStep
<1>7. CASE UNCHANGED vars
  BY <1>7, QuietStep DEF vars, kernel, Flushes
<1>8. Daemon => EnsureJump \/ Purge \/ Insert \/ (Elsewhere /\ UNCHANGED jump)
  BY DEF Daemon, Pass, Elsewhere, Start, EnsureChain, RejectArgs, Block6, Try6, EnsureJump6,
         ApplyNAT, ApplyDNSRedirect, Tick, Check, kernel
<1>9. /\ Exit \/ StopBegin => Elsewhere /\ UNCHANGED jump
      /\ StopStep => StopPurge \/ (Elsewhere /\ UNCHANGED jump)
  BY DEF StopStep, Elsewhere, Exit, StopBegin, RemoveDNSRedirect, RemoveNAT, Remove6, kernel
<1> QED
  BY <1>1, <1>2, <1>3, <1>4, <1>5, <1>6, <1>7, <1>8, <1>9 DEF Next

\* Where only tunnels are called wg-something, arming, purging, stopping, failures, kills
\* and flushes are the steps of Gateway: no packet but a legitimate one is forwarded while
\* a rule of ours stands and FORWARD jumps to it.
THEOREM Refinement == WgNamed \subseteq TunnelIfs => (Spec => ImplementsGateway)
<1>1. Spec => []Grounded
  BY InitGrounded, StepGrounded, PTL DEF Spec
<1> SUFFICES ASSUME WgNamed \subseteq TunnelIfs PROVE Spec => ImplementsGateway
  OBVIOUS
<1>2. Grounded /\ Grounded' /\ [Next]_vars => [G!Next]_(G!gateway)
  BY StepGateway
<1> QED
  BY <1>1, <1>2, InitGateway, PTL DEF Spec, ImplementsGateway, G!Spec

-----------------------------------------------------------------------------
(* The documented order.  From the first insert of an arming that nobody    *)
(* disturbs, the top of the chain is what has been inserted so far, newest  *)
(* first; after the last insert it is the whole list, and stays so until    *)
(* something takes a rule away or the next arming has inserted its first.   *)

Height == IF pc = "insert" /\ next > 1 THEN next - 1 ELSE NRules
Stacked ==
  /\ Len(chain) >= Height
  /\ \A i \in 1 .. Height : chain[i] = InsertOrder(lan, block)[Height + 1 - i]
Armed == intact /\ pc # "down" => block \in Blocks /\ Stacked

\* Every step but an insert leaves the stack alone, or the chain is not intact any more.
LEMMA KeepsStack ==
  RacyNext /\ ~Insert /\ intact' /\ pc' # "down" =>
    /\ intact /\ pc # "down" /\ UNCHANGED << chain, lan, Height >>
    /\ block # "unknown" => UNCHANGED block
<1> SUFFICES ASSUME RacyNext, ~Insert, intact', pc' # "down"
             PROVE  /\ intact /\ pc # "down" /\ UNCHANGED << chain, lan, Height >>
                    /\ block # "unknown" => UNCHANGED block
  OBVIOUS
<1> USE DEF Height, kernel, proc
<1>1. CASE Start
  BY <1>1 DEF Start
<1>2. CASE EnsureChain \/ EnsureJump
  BY <1>2 DEF EnsureChain, EnsureJump, Abort, Fine, Fault, Spend, hist
<1>3. CASE Purge
  BY <1>3 DEF Purge
<1>10. CASE RejectArgs
  <2>1. Height = NRules /\ Height' = NRules
    BY <1>10 DEF RejectArgs
  <2>2. block # "unknown" => UNCHANGED block
    BY <1>10 DEF RejectArgs
  <2> QED
    BY <1>10, <2>1, <2>2 DEF RejectArgs
<1>4. CASE Block6
  BY <1>4 DEF Block6, Try6, NoTarget6, Abort
<1>5. CASE EnsureJump6 \/ ApplyNAT
  BY <1>5 DEF EnsureJump6, ApplyNAT
<1>6. CASE ApplyDNSRedirect("dns_udp", "udp") \/ ApplyDNSRedirect("dns_tcp", "tcp")
  BY <1>6 DEF ApplyDNSRedirect
<1>7. CASE Tick \/ Check \/ Exit
  BY <1>7 DEF Tick, Check, Exit
<1>8. CASE StopBegin \/ StopStep
  BY <1>8 DEF StopBegin, StopStep, RemoveDNSRedirect, RemoveNAT, StopPurge, Remove6
<1>9. CASE Tamper \/ DeleteOne
  BY <1>9 DEF Tamper, DeleteOne
<1> QED
  BY <1>1, <1>2, <1>3, <1>4, <1>5, <1>6, <1>7, <1>8, <1>9, <1>10 DEF RacyNext, Daemon, Pass

LEMMA InsertArmed == ASSUME TInv, Armed, Insert PROVE Armed'
<1> SUFFICES ASSUME intact' PROVE block' \in Blocks /\ Stacked'
  BY DEF Armed
<1>1. /\ next \in 1 .. NRules /\ lan \in LANs /\ block \in Blocks /\ pc = "insert"
      /\ chain \in Seq(Rule)
  BY DEF TInv, TypeOK, ProcOK, Answered, Insert
<1> DEFINE r == InsertOrder(lan, block)[next]
<1>2. r \in Rule
  BY <1>1, InsertOrderType
<1>3. /\ chain' = << r >> \o chain /\ UNCHANGED << lan, block >>
      /\ next = 1 \/ intact
      /\ Height' = next
  <2>1. intact' # FALSE
    OBVIOUS
  <2>2. chain' = << r >> \o chain /\ UNCHANGED << lan, block >> /\ (next = 1 \/ intact)
    BY <2>1 DEF Insert, Inserted
  <2>3. /\ pc' = IF next = NRules THEN "six_REJECT" ELSE "insert"
        /\ next' = IF next = NRules THEN 1 ELSE next + 1
    BY <2>1 DEF Insert
  <2>4. Height' = next
    BY <1>1, <2>3 DEF Height, NRules
  <2> QED
    BY <2>2, <2>4
<1> HIDE DEF r
<1>4. /\ Len(chain') = Len(chain) + 1 /\ chain'[1] = r
      /\ \A i \in 2 .. Len(chain') : chain'[i] = chain[i - 1]
  BY <1>1, <1>2, <1>3
<1>5. next > 1 => /\ Len(chain) >= next - 1
                  /\ \A i \in 1 .. next - 1 : chain[i] = InsertOrder(lan, block)[next - i]
  BY <1>1, <1>3 DEF Armed, Stacked, Height
<1>6. Len(chain') >= next
  BY <1>1, <1>4, <1>5
<1>7. ASSUME NEW i \in 1 .. next PROVE chain'[i] = InsertOrder(lan, block)[next + 1 - i]
  <2>1. CASE i = 1
    BY <1>1, <1>4, <2>1 DEF r
  <2>2. CASE i > 1
    <3>1. i \in 2 .. Len(chain') /\ i - 1 \in 1 .. next - 1 /\ next > 1
      BY <1>1, <1>6, <2>2
    <3>2. chain'[i] = chain[i - 1] /\ chain[i - 1] = InsertOrder(lan, block)[next - (i - 1)]
      BY <3>1, <1>4, <1>5
    <3>3. next - (i - 1) = next + 1 - i
      BY <1>1
    <3> QED
      BY <3>2, <3>3
  <2> QED
    BY <2>1, <2>2
<1> QED
  BY <1>1, <1>3, <1>6, <1>7 DEF Stacked

LEMMA StepArmed == TInv /\ Armed /\ [RacyNext]_vars => Armed'
<1> SUFFICES ASSUME TInv, Armed, [RacyNext]_vars PROVE Armed'
  OBVIOUS
<1>1. CASE Insert
  BY <1>1, InsertArmed
<1>2. CASE RacyNext /\ ~Insert
  <2> SUFFICES ASSUME intact', pc' # "down" PROVE block' \in Blocks /\ Stacked'
    BY DEF Armed
  <2>1. intact /\ pc # "down" /\ UNCHANGED << chain, lan, Height >>
    BY <1>2, KeepsStack
  <2>2. block \in Blocks /\ Stacked
    BY <2>1 DEF Armed
  <2>3. UNCHANGED block
    BY <1>2, <2>2, KeepsStack DEF Blocks
  <2> QED
    BY <2>1, <2>2, <2>3 DEF Stacked
<1>3. CASE UNCHANGED vars
  BY <1>3 DEF vars, kernel, proc, hist, Armed, Stacked, Height
<1> QED
  BY <1>1, <1>2, <1>3

\* The first NRules rules decide.
LEMMA StackDecides ==
  ASSUME WgNamed = TunnelIfs, TInv, Armed, intact, pc \in {"idle", "check"},
         NEW p \in Packet
  PROVE  Verdict(p) = IF Allowed(p) THEN "ACCEPT" ELSE block
<1>1. Len(chain) >= 7 /\ \A i \in 1 .. 7 : chain[i] = InsertOrder(lan, block)[8 - i]
  <2>1. Height = 7
    BY DEF Height, NRules
  <2>2. Stacked
    BY DEF Armed
  <2> QED
    BY <2>1, <2>2 DEF Stacked
<1>2. /\ chain[1] = MkRule("dns_tcp", lan, block) /\ chain[2] = MkRule("dns_udp", lan, block)
      /\ chain[3] = MkRule("established", "any", "ACCEPT")
      /\ chain[4] = MkRule("self", "any", "ACCEPT")
      /\ chain[5] = MkRule("lan", lan, "ACCEPT") /\ chain[6] = MkRule("wg", "any", "ACCEPT")
      /\ chain[7] = CatchAll(block)
  BY <1>1 DEF InsertOrder
<1>3. chain \in Seq(Rule) /\ 1 .. 7 \subseteq DOMAIN chain
  BY <1>1 DEF TInv, TypeOK
<1>4. Matches(chain[7], p)
  BY <1>2 DEF Matches, CatchAll, MkRule
<1>5. PICK i \in DOMAIN chain :
        /\ i <= 7 /\ Matches(chain[i], p) /\ Verdict(p) = chain[i].act
        /\ \A j \in DOMAIN chain : Matches(chain[j], p) => i <= j
  BY <1>3, <1>4, FirstMatch
<1>6. i \in 1 .. 7 /\ \A j \in 1 .. 7 : Matches(chain[j], p) => i <= j
  BY <1>3, <1>5
<1>7. /\ Matches(chain[1], p) <=> p.dst = lan /\ p.dns = "tcp"
      /\ Matches(chain[2], p) <=> p.dst = lan /\ p.dns = "udp"
      /\ Matches(chain[3], p) <=> p.established
      /\ Matches(chain[4], p) <=> p.dst = "clients"
      /\ Matches(chain[5], p) <=> p.dst = lan
      /\ Matches(chain[6], p) <=> p.out \in TunnelIfs
  BY <1>2 DEF Matches, MkRule
<1>8. /\ chain[1].act = block /\ chain[2].act = block /\ chain[7].act = block
      /\ \A j \in 3 .. 6 : chain[j].act = "ACCEPT"
  BY <1>2 DEF MkRule, CatchAll
<1>9. Allowed(p) <=> /\ ~Matches(chain[1], p) /\ ~Matches(chain[2], p)
                     /\ \E j \in 3 .. 6 : Matches(chain[j], p)
  BY <1>7 DEF Allowed, Protos
<1>10. CASE i \in {1, 2}
  BY <1>5, <1>8, <1>9, <1>10
<1>11. CASE i \in 3 .. 6
  BY <1>5, <1>6, <1>8, <1>9, <1>11
<1>12. CASE i = 7
  BY <1>5, <1>6, <1>8, <1>9, <1>12
<1> QED
  BY <1>6, <1>10, <1>11, <1>12

\* Where the tunnels are what is called wg-something, an arming that ran to its end lets
\* exactly the allowed packets pass, whatever lies below it and whoever wrote before: also
\* with other programs and `bondvpn stop` at the tables at any time.
THEOREM Policy == WgNamed = TunnelIfs => (RacySpec => []ArmedPolicy)
<1>1. Init => Armed
  BY DEF Init, Armed
<1>2. RacySpec => [](TInv /\ Armed)
  BY <1>1, InitTInv, StepTInv, StepArmed, PTL DEF RacySpec
<1> SUFFICES ASSUME WgNamed = TunnelIfs PROVE RacySpec => []ArmedPolicy
  OBVIOUS
<1>3. TInv /\ Armed => ArmedPolicy
  BY StackDecides DEF ArmedPolicy
<1> QED
  BY <1>2, <1>3, PTL

-----------------------------------------------------------------------------
(* A clean pass restores.  With no upset since it began, each command of it *)
(* leaves what it has put in place for the later ones (Progress).  What a   *)
(* repair may rely on is that the process has armed once, at its start: the *)
(* target it has settled on can be loaded (CanBlock, CanBlock6).            *)

Later  == {"nat", "dns_udp", "dns_tcp", "idle"}
PastV4 == {"six_REJECT", "six_DROP", "jump6"} \cup Later

CanBlock  == mode = "repair" \/ pc \in PastV4 \cup {"check"} => block \in Targets4
CanBlock6 == (mode = "repair" \/ pc \in Later \cup {"jump6", "check"}) /\ Forwards6 => Targets6 # {}

Bottomed == InChain(CatchAll(block))

\* What the commands before pc have put in place.
InPlace ==
  /\ pc \notin {"chain", "check"} => exists
  /\ pc \in PastV4 \/ (pc = "insert" /\ next > 1) => Bottomed
  /\ pc = "six_DROP" => "REJECT" \notin Targets6
  /\ pc \in Later \cup {"jump6"} => Ipv6Blocked
  /\ pc \in Later \ {"nat"} => nat > 0
  /\ pc = "dns_tcp" \/ (pc = "idle" /\ DNS) => dns["udp"] > 0
  /\ pc = "idle" /\ DNS => dns["tcp"] > 0

Progress == clean /\ pc # "down" => NoStop /\ InPlace

\* After a clean pass the next one finds everything in place, and arms nothing.
Settling ==
  settled => /\ clean /\ pc \in Later \cup {"check"}
             /\ pc = "check" => KillSwitchArmed /\ Ipv6Blocked

\* The rule inserted last blocks, and can be loaded.
LEMMA LastInsert ==
  ASSUME TInv, Insert, pc' = "six_REJECT" PROVE block \in Targets4
<1>1. next = NRules /\ Loadable(InsertOrder(lan, block)[next]) /\ block \in Blocks
  BY DEF Insert, Abort, TInv, TypeOK, ProcOK, Answered
<1>2. InsertOrder(lan, block)[NRules].act = block
  BY DEF InsertOrder, NRules, MkRule
<1> QED
  BY <1>1, <1>2 DEF Loadable, Blocks

LEMMA StepCanBlock == TInv /\ CanBlock /\ [RacyNext]_vars => CanBlock'
<1> SUFFICES ASSUME TInv, CanBlock, [RacyNext]_vars PROVE CanBlock'
  OBVIOUS
<1>0. mode \in {"start", "repair"} /\ block \in Blocks \cup {"unknown"}
  BY DEF TInv, TypeOK, ProcOK
<1> USE DEF CanBlock, PastV4, Later, proc
<1>1. CASE Start
  BY <1>1 DEF Start
<1>2. CASE EnsureChain \/ EnsureJump \/ Purge
  BY <1>2, <1>0 DEF EnsureChain, EnsureJump, Purge, Abort
<1>3. CASE RejectArgs
  BY <1>3, MachineAssumption DEF RejectArgs, Blocks
<1>4. CASE Insert
  <2>1. UNCHANGED << mode, block >>
    BY <1>4 DEF Insert
  <2>2. CASE pc' = "six_REJECT"
    BY <1>4, <2>1, <2>2, LastInsert
  <2>3. CASE pc' = "insert"
    BY <2>1, <2>3
  <2>4. CASE Abort
    BY <1>0, <2>1, <2>4 DEF Abort
  <2> QED
    BY <1>4, <2>2, <2>3, <2>4 DEF Insert
<1>5. CASE Block6
  BY <1>5 DEF Block6, Try6, NoTarget6, Abort
<1>6. CASE EnsureJump6 \/ ApplyNAT
  BY <1>6 DEF EnsureJump6, ApplyNAT
<1>7. CASE ApplyDNSRedirect("dns_udp", "udp") \/ ApplyDNSRedirect("dns_tcp", "tcp")
  BY <1>7 DEF ApplyDNSRedirect
<1>8. CASE Tick \/ Check \/ Exit
  BY <1>8 DEF Tick, Check, Exit
<1>9. CASE StopBegin \/ StopStep
  BY <1>9 DEF StopBegin, StopStep, RemoveDNSRedirect, RemoveNAT, StopPurge, Remove6
<1>10. CASE Tamper \/ DeleteOne
  BY <1>10 DEF Tamper, DeleteOne
<1>11. CASE UNCHANGED vars
  BY <1>11 DEF vars
<1> QED
  BY <1>1, <1>2, <1>3, <1>4, <1>5, <1>6, <1>7, <1>8, <1>9, <1>10, <1>11
  DEF RacyNext, Daemon, Pass

LEMMA StepCanBlock6 == TInv /\ CanBlock6 /\ [RacyNext]_vars => CanBlock6'
<1> SUFFICES ASSUME TInv, CanBlock6, [RacyNext]_vars PROVE CanBlock6'
  OBVIOUS
<1>0. mode \in {"start", "repair"}
  BY DEF TInv, TypeOK, ProcOK
<1> USE DEF CanBlock6, Later, proc
<1>1. CASE Start
  BY <1>1 DEF Start
<1>2. CASE EnsureChain \/ EnsureJump \/ Purge \/ RejectArgs
  BY <1>2, <1>0 DEF EnsureChain, EnsureJump, Purge, RejectArgs, Abort
<1>3. CASE Insert
  BY <1>3, <1>0 DEF Insert, Abort
<1>4. CASE Block6
  BY <1>4, <1>0 DEF Block6, Try6, NoTarget6, Abort
<1>5. CASE EnsureJump6 \/ ApplyNAT
  BY <1>5 DEF EnsureJump6, ApplyNAT
<1>6. CASE ApplyDNSRedirect("dns_udp", "udp") \/ ApplyDNSRedirect("dns_tcp", "tcp")
  BY <1>6 DEF ApplyDNSRedirect
<1>7. CASE Tick \/ Check \/ Exit
  BY <1>7 DEF Tick, Check, Exit
<1>8. CASE StopBegin \/ StopStep
  BY <1>8 DEF StopBegin, StopStep, RemoveDNSRedirect, RemoveNAT, StopPurge, Remove6
<1>9. CASE Tamper \/ DeleteOne
  BY <1>9 DEF Tamper, DeleteOne
<1>10. CASE UNCHANGED vars
  BY <1>10 DEF vars
<1> QED
  BY <1>1, <1>2, <1>3, <1>4, <1>5, <1>6, <1>7, <1>8, <1>9, <1>10
  DEF RacyNext, Daemon, Pass

\* Inserting on top keeps what is in the chain, and the first insert is the catch-all.
LEMMA InsertInChain ==
  ASSUME TInv, pc = "insert", chain' = Inserted(chain, InsertOrder(lan, block)[next]),
         next = 1 \/ Bottomed, UNCHANGED block
  PROVE  Bottomed'
<1> DEFINE r == InsertOrder(lan, block)[next]
<1>1. chain \in Seq(Rule) /\ r \in Rule
  BY InsertOrderType DEF TInv, TypeOK, ProcOK, Answered
<1>2. next = 1 => r = CatchAll(block)
  BY DEF InsertOrder
<1> HIDE DEF r
<1>3. /\ DOMAIN chain' = 1 .. Len(chain) + 1 /\ DOMAIN chain = 1 .. Len(chain)
      /\ Len(chain) \in Nat
      /\ chain'[1] = r /\ \A i \in DOMAIN chain : chain'[i + 1] = chain[i]
  BY <1>1 DEF Inserted, r
<1>4. CASE next = 1
  BY <1>2, <1>3, <1>4 DEF Bottomed, InChain, CatchAll, MkRule
<1>5. CASE Bottomed
  <2>1. PICK i \in DOMAIN chain : chain[i] = CatchAll(block)
    BY <1>5 DEF Bottomed, InChain
  <2>2. i + 1 \in DOMAIN chain' /\ chain'[i + 1] = CatchAll(block)
    BY <1>3, <2>1
  <2> QED
    BY <2>2 DEF Bottomed, InChain, CatchAll, MkRule
<1> QED
  BY <1>4, <1>5

LEMMA StepProgress ==
  TInv /\ CanBlock /\ CanBlock6 /\ Progress /\ [RacyNext]_vars => Progress'
<1> SUFFICES ASSUME TInv, CanBlock, CanBlock6, Progress, [RacyNext]_vars,
                    clean' # FALSE, pc' # "down"
             PROVE  NoStop' /\ InPlace'
  BY DEF Progress
<1>0. /\ mode \in {"start", "repair"} /\ block \in Blocks \cup {"unknown"}
      /\ pc \in PCs /\ nat \in Nat /\ dns \in [Protos -> Nat] /\ six \in [Blocks -> Nat]
      /\ clean \in BOOLEAN
  BY DEF TInv, TypeOK, ProcOK, CountsOK, FlagsOK
<1>a. ~Fault
  BY DEF Fault, Spend
<1>b. Fine /\ pc # "down" => NoStop /\ InPlace
  BY <1>0 DEF Fine, Progress
<1>c. UNCHANGED << chain, block >> => (Bottomed' <=> Bottomed)
  BY DEF Bottomed, InChain, CatchAll, MkRule
<1>d. UNCHANGED six => (Ipv6Blocked' <=> Ipv6Blocked)
  BY DEF Ipv6Blocked
<1>e. ASSUME NEW n, NEW m, Checked(n, m) \/ NotAdded PROVE Fine
  BY <1>a, <1>e DEF Checked, NotAdded
<1>f. ASSUME NEW n \in Nat, NEW m \in BOOLEAN PROVE Ensured(n, m) > 0
  BY DEF Ensured
<1>g. clean' = NoStop => NoStop
  <2>1. ~NoStop => NoStop = FALSE
    BY DEF NoStop
  <2> QED
    BY <2>1
<1> USE DEF InPlace, PastV4, Later, NoStop
<1>1. CASE Start
  <2>1. clean' = NoStop /\ pc' = "chain" /\ stop' = IF NoStop THEN "off" ELSE stop
    BY <1>1 DEF Start
  <2>2. NoStop
    BY <2>1, <1>g
  <2> QED
    BY <2>1, <2>2
<1>2. CASE EnsureChain
  BY <1>2, <1>a, <1>b DEF EnsureChain
<1>3. CASE EnsureJump
  BY <1>3, <1>a, <1>b DEF EnsureJump
<1>4. CASE Purge
  BY <1>4, <1>a, <1>b DEF Purge
<1>5. CASE RejectArgs
  BY <1>5, <1>a, <1>b DEF RejectArgs, kernel
<1>6. CASE Insert
  <2>1. Fine /\ pc = "insert" /\ NoStop /\ InPlace /\ UNCHANGED << exists, block, stop >>
    BY <1>6, <1>a, <1>b DEF Insert
  <2>2. CASE Loadable(InsertOrder(lan, block)[next])
    <3>1. next = 1 \/ Bottomed
      BY <2>1, <1>0 DEF TInv, TypeOK, ProcOK
    <3>2. /\ chain' = Inserted(chain, InsertOrder(lan, block)[next])
          /\ pc' \in {"insert", "six_REJECT"}
      BY <1>6, <1>a, <2>2 DEF Insert
    <3>3. Bottomed'
      BY <2>1, <3>1, <3>2, InsertInChain
    <3> QED
      BY <2>1, <3>2, <3>3
  <2>3. CASE ~Loadable(InsertOrder(lan, block)[next])
    <3>1. block \in Blocks /\ next \in 1 .. NRules
      BY <2>1 DEF TInv, TypeOK, ProcOK, Answered
    <3>2. InsertOrder(lan, block)[next].act \in {block, "ACCEPT"}
      BY <3>1 DEF InsertOrder, NRules, MkRule, CatchAll
    <3>3. mode = "start"
      BY <2>1, <2>3, <3>2, <1>0 DEF Loadable, CanBlock
    <3> QED
      BY <1>6, <1>a, <2>3, <3>3 DEF Insert, Abort
  <2> QED
    BY <2>2, <2>3
<1>7. CASE Block6
  <2>1. Fine /\ NoStop /\ InPlace /\ UNCHANGED << exists, stop, Bottomed >>
    BY <1>7, <1>a, <1>b, <1>c, <1>e DEF Block6, Try6
  <2>2. ASSUME NEW b \in Blocks, NEW m \in BOOLEAN, six' = [six EXCEPT ![b] = Ensured(@, m)]
        PROVE  Ipv6Blocked'
    BY <1>0, <1>f, <2>2 DEF Ipv6Blocked
  <2>3. CASE \E b \in Blocks, m \in BOOLEAN :
               six' = [six EXCEPT ![b] = Ensured(@, m)] /\ pc' = "jump6"
    BY <2>1, <2>2, <2>3, <1>7 DEF Block6, Try6
  <2>4. CASE pc = "six_REJECT" /\ "REJECT" \notin Targets6 /\ pc' = "six_DROP"
    BY <2>1, <2>4
  <2>5. CASE pc = "six_DROP" /\ "DROP" \notin Targets6 /\ NoTarget6 /\ UNCHANGED six
    <3>1. Targets6 = {}
      BY <2>1, <2>5, MachineAssumption DEF Blocks
    <3>2. pc' = "nat" /\ ~Forwards6
      BY <2>5, <3>1, <1>0 DEF NoTarget6, Abort, CanBlock6
    <3>3. Ipv6Blocked'
      BY <3>2 DEF Ipv6Blocked
    <3>4. pc' \notin {"chain", "check"} => exists'
      BY <2>1, <2>5
    <3> QED
      BY <2>1, <2>5, <3>2, <3>3, <3>4
  <2> QED
    BY <1>7, <1>a, <2>3, <2>4, <2>5 DEF Block6, Try6, NotAdded, Blocks
<1>8. CASE EnsureJump6
  BY <1>8, <1>a, <1>b, <1>c, <1>d DEF EnsureJump6
<1>9. CASE ApplyNAT
  BY <1>9, <1>0, <1>a, <1>b, <1>c, <1>d, <1>f DEF ApplyNAT, Checked, NotAdded
<1>10. CASE ApplyDNSRedirect("dns_udp", "udp") \/ ApplyDNSRedirect("dns_tcp", "tcp")
  BY <1>10, <1>0, <1>a, <1>b, <1>c, <1>d, <1>f
  DEF ApplyDNSRedirect, Checked, NotAdded, Protos
<1>11. CASE Tick
  <2>1. clean' = NoStop /\ pc' = "check" /\ UNCHANGED stop
    BY <1>11 DEF Tick
  <2>2. NoStop
    BY <2>1, <1>g
  <2> QED
    BY <2>1, <2>2
<1>15. CASE Check
  <2>1. KillSwitchArmed => exists /\ Bottomed
    BY DEF KillSwitchArmed, Bottomed
  <2> QED
    BY <1>15, <1>a, <1>b, <1>c, <1>d, <2>1 DEF Check, kernel
<1>16. CASE Exit
  BY <1>16 DEF Exit
<1>12. CASE StopBegin \/ StopStep
  BY <1>12, <1>a, <1>b
  DEF StopBegin, StopStep, RemoveDNSRedirect, RemoveNAT, StopPurge, Remove6, proc
<1>13. CASE Tamper \/ DeleteOne
  BY <1>13 DEF Tamper, DeleteOne, Spend
<1>14. CASE UNCHANGED vars
  BY <1>14, <1>0, <1>c, <1>d DEF vars, kernel, proc, hist, Progress
<1> QED
  BY <1>1, <1>2, <1>3, <1>4, <1>5, <1>6, <1>7, <1>8, <1>9, <1>10, <1>11, <1>12,
     <1>13, <1>14, <1>15, <1>16 DEF RacyNext, Daemon, Pass

LEMMA StepSettling ==
  TInv /\ Progress /\ Settling /\ [RacyNext]_vars => Settling'
<1> SUFFICES ASSUME TInv, Progress, Settling, [RacyNext]_vars, settled' # FALSE
             PROVE  /\ clean' /\ pc' \in Later \cup {"check"}
                    /\ pc' = "check" => KillSwitchArmed' /\ Ipv6Blocked'
  BY DEF Settling
<1>0. clean \in BOOLEAN /\ settled \in BOOLEAN
  BY DEF TInv, TypeOK, FlagsOK
<1>a. ~Fault
  BY DEF Fault, Spend
<1>b. Fine => settled /\ clean' /\ clean /\ pc \in Later \cup {"check"}
             /\ (pc = "check" => KillSwitchArmed /\ Ipv6Blocked)
  <2> SUFFICES ASSUME Fine
               PROVE  settled /\ clean' /\ clean /\ pc \in Later \cup {"check"}
                      /\ (pc = "check" => KillSwitchArmed /\ Ipv6Blocked)
    OBVIOUS
  <2>1. settled
    BY <1>0 DEF Fine
  <2>2. clean /\ clean' = clean
    BY <2>1 DEF Fine, Settling
  <2> QED
    BY <2>1, <2>2 DEF Settling
<1>c. UNCHANGED << exists, chain, block >> => (KillSwitchArmed' <=> KillSwitchArmed)
  BY DEF KillSwitchArmed, InChain, CatchAll, MkRule
<1>d. UNCHANGED six => (Ipv6Blocked' <=> Ipv6Blocked)
  BY DEF Ipv6Blocked
<1>e. Fine /\ pc # "down" => NoStop
  BY <1>b, <1>0 DEF Progress
<1> USE DEF Later
<1>1. CASE Start \/ Exit \/ StopBegin
  BY <1>1 DEF Start, Exit, Spend, StopBegin
<1>2. CASE EnsureChain \/ EnsureJump \/ Purge \/ RejectArgs
  BY <1>2, <1>a, <1>b DEF EnsureChain, EnsureJump, Purge, RejectArgs
<1>3. CASE Insert \/ Block6 \/ EnsureJump6
  BY <1>3, <1>a, <1>b DEF Insert, Block6, Try6, Checked, NotAdded, EnsureJump6
<1>4. CASE ApplyNAT
  BY <1>4, <1>a, <1>b DEF ApplyNAT, Checked, NotAdded
<1>5. CASE ApplyDNSRedirect("dns_udp", "udp") \/ ApplyDNSRedirect("dns_tcp", "tcp")
  BY <1>5, <1>a, <1>b DEF ApplyDNSRedirect, Checked, NotAdded
<1>6. CASE Tick
  <2>1. settled' = (clean /\ NoStop) /\ clean' = NoStop /\ pc = "idle" /\ pc' = "check"
    BY <1>6 DEF Tick
  <2>2. clean /\ clean' /\ NoStop
    BY <2>1
  <2>3. InPlace
    BY <2>1, <2>2 DEF Progress
  <2>4. KillSwitchArmed /\ Ipv6Blocked
    BY <2>1, <2>3 DEF InPlace, PastV4, KillSwitchArmed, Bottomed
  <2>5. UNCHANGED << exists, chain, block, six >>
    BY <1>6 DEF Tick, kernel
  <2> QED
    BY <2>1, <2>2, <2>4, <2>5, <1>c, <1>d
<1>7. CASE Check
  BY <1>7, <1>a, <1>b DEF Check
<1>8. CASE StopStep
  BY <1>8, <1>a, <1>b, <1>e
  DEF StopStep, RemoveDNSRedirect, RemoveNAT, StopPurge, Remove6, NoStop
<1>9. CASE Tamper \/ DeleteOne
  BY <1>9 DEF Tamper, DeleteOne, Spend
<1>10. CASE UNCHANGED vars
  <2>1. UNCHANGED << exists, chain, block, six, clean, settled, pc >>
    BY <1>10 DEF vars, kernel, proc, hist
  <2>2. settled /\ clean
    BY <2>1, <1>0 DEF Settling
  <2> QED
    BY <2>1, <2>2, <1>c, <1>d DEF Settling
<1> QED
  BY <1>1, <1>2, <1>3, <1>4, <1>5, <1>6, <1>7, <1>8, <1>9, <1>10
  DEF RacyNext, Daemon, Pass

\* What a pass relies on, what it has done so far, and what it leaves for the next.
PassInv == TInv /\ CanBlock /\ CanBlock6 /\ Progress /\ Settling

LEMMA RacyPassInv == RacySpec => []PassInv
<1>1. Init => PassInv
  <2> SUFFICES ASSUME Init PROVE PassInv
    OBVIOUS
  <2>1. TInv
    BY InitTInv
  <2>2. pc = "down" /\ mode = "start" /\ clean = FALSE /\ settled = FALSE
    BY DEF Init
  <2> QED
    BY <2>1, <2>2
    DEF PassInv, CanBlock, CanBlock6, Progress, Settling, PastV4, Later
<1>2. PassInv /\ [RacyNext]_vars => PassInv'
  BY StepTInv, StepCanBlock, StepCanBlock6, StepProgress, StepSettling DEF PassInv
<1> QED
  BY <1>1, <1>2, PTL DEF RacySpec

\* A pass in which nothing was upset ends with everything in place that repairFirewall
\* looks after, whatever had happened before it, and with other programs and `bondvpn
\* stop` at the tables at any time.
THEOREM Restores == RacySpec => []PassRestores
<1>1. PassInv => PassRestores
  <2> SUFFICES ASSUME PassInv, pc = "idle", clean PROVE Restored
    BY DEF PassRestores
  <2>1. InPlace
    BY DEF PassInv, Progress
  <2>2. Bottomed /\ Ipv6Blocked /\ nat > 0
    BY <2>1 DEF InPlace, PastV4, Later
  <2>3. DNS => \A p \in Protos : dns[p] > 0
    BY <2>1 DEF InPlace, Protos
  <2> QED
    BY <2>2, <2>3 DEF Restored, Bottomed, Ipv6Blocked
<1> QED
  BY <1>1, RacyPassInv, PTL

\* The pass after one that ended well arms nothing, whichever targets the machine has.
THEOREM NoRearm == RacySpec => []NoNeedlessRearm
<1>1. PassInv => NoNeedlessRearm
  BY DEF PassInv, Settling, NoNeedlessRearm, Later, ArmPCs
<1> QED
  BY <1>1, RacyPassInv, PTL

-----------------------------------------------------------------------------
(* What is left behind.  A purge deletes at most MaxPurge rules, and every  *)
(* arming that a failed command cut short may leave NRules of them, so that *)
(* a purge empties the chain only as long as few enough commands failed     *)
(* (Room): the bound on the chain (Sized) and the purge's own counter are   *)
(* what the two properties below rest on.                                   *)

Failures == Budget["fault"] - left["fault"]
Room == NRules * (Failures + 1) <= MaxPurge

Counting == left["fault"] <= Budget["fault"]

\* `bondvpn stop` runs with the daemon down, and a new start follows a stop that ended.
Alone == stop # "off" => pc = "down"

Limit ==
  NRules * Failures + (IF pc = "block" THEN 0 ELSE IF pc = "insert" THEN next - 1 ELSE NRules)

Sized ==
  /\ Len(chain) <= Limit
  /\ IF pc = "purge" THEN purged + Len(chain) <= NRules * (Failures + 1) ELSE purged = 0
  /\ IF stop = "purge" THEN stopped + Len(chain) <= NRules * (Failures + 1) ELSE stopped = 0

\* What a step spends.
LEMMA StepFailures ==
  CountsOK /\ Counting =>
    /\ Failures \in Nat
    /\ Fine => Failures' = Failures
    /\ Fault => Failures' = Failures + 1
    /\ Spend("crash") \/ Spend("tamper") \/ Counted("stop") => Failures' = Failures
BY BoundAssumption DEF CountsOK, Counting, Failures, Fine, Fault, Spend, Counted, Upsets

LEMMA StepCounting == CountsOK /\ Counting /\ [Next]_vars => Counting'
<1> SUFFICES ASSUME CountsOK, Counting, [Next]_vars PROVE Counting'
  OBVIOUS
<1> USE BoundAssumption DEF CountsOK, Counting
<1>1. ASSUME NEW u \in Upsets, Counted(u) PROVE Counting'
  BY <1>1 DEF Counted, Upsets
<1>2. CASE Daemon \/ Exit \/ StopBegin \/ StopStep
  BY <1>1, <1>2, Spends DEF Upsets
<1>3. CASE Tamper
  BY <1>1, <1>3 DEF Tamper, Spend, Upsets
<1>4. CASE UNCHANGED vars
  BY <1>4 DEF vars
<1> QED
  BY <1>2, <1>3, <1>4 DEF Next

LEMMA StepAlone == ProcOK /\ Alone /\ [Next]_vars => Alone'
<1> SUFFICES ASSUME ProcOK, Alone, [Next]_vars PROVE Alone'
  OBVIOUS
<1> USE DEF Alone, NoStop, ProcOK, StopPCs, proc
<1>1. CASE NoStop /\ Start
  BY <1>1 DEF Start
<1>2. CASE Pass
  <2>1. pc # "down" /\ UNCHANGED stop
    BY <1>2 DEF Pass, EnsureChain, EnsureJump, Purge, RejectArgs, Insert, Block6, Try6,
                EnsureJump6, ApplyNAT, ApplyDNSRedirect, Tick, Check
  <2> QED
    BY <2>1
<1>3. CASE Exit
  BY <1>3 DEF Exit
<1>4. CASE pc = "down" /\ (StopBegin \/ StopStep)
  BY <1>4 DEF StopBegin, StopStep, RemoveDNSRedirect, RemoveNAT, StopPurge, Remove6
<1>5. CASE Tamper \/ UNCHANGED vars
  BY <1>5 DEF Tamper, vars
<1> QED
  BY <1>1, <1>2, <1>3, <1>4, <1>5 DEF Next, Daemon

\* The lengths that a step may leave.
LEMMA Lengths ==
  ASSUME chain \in Seq(Rule)
  PROVE  /\ Len(chain) \in Nat /\ Len(<< >>) = 0
         /\ Len(chain) = 0 => chain = << >>
         /\ chain # << >> => Len(Tail(chain)) = Len(chain) - 1
OBVIOUS

LEMMA InsertedLength ==
  ASSUME TInv, pc = "insert"
  PROVE  Len(Inserted(chain, InsertOrder(lan, block)[next])) = Len(chain) + 1
<1> DEFINE r == InsertOrder(lan, block)[next]
<1>1. chain \in Seq(Rule) /\ r \in Rule
  BY InsertOrderType DEF TInv, TypeOK, ProcOK, Answered
<1> HIDE DEF r
<1>2. Len(<< r >> \o chain) = Len(chain) + 1
  BY <1>1
<1> QED
  BY <1>2 DEF Inserted, r

LEMMA StepSized ==
  TInv /\ Counting /\ Alone /\ Sized /\ Room /\ [Next]_vars => Sized'
<1> SUFFICES ASSUME TInv, Counting, Alone, Sized, Room, [Next]_vars PROVE Sized'
  OBVIOUS
<1>0. /\ CountsOK /\ ProcOK /\ chain \in Seq(Rule) /\ MaxPurge \in Nat
      /\ next \in 1 .. 7 /\ purged \in Nat /\ stopped \in Nat /\ Failures \in Nat
  BY StepFailures, BoundAssumption DEF TInv, TypeOK, ProcOK, NRules
<1>a. /\ Fine => Failures' = Failures
      /\ Fault => Failures' = Failures + 1
      /\ Spend("crash") \/ Spend("tamper") \/ Counted("stop") => Failures' = Failures
  BY <1>0, StepFailures
<1>b. ASSUME NEW n, NEW m, Checked(n, m) \/ NotAdded PROVE Fine \/ Fault
  BY <1>b DEF Checked, NotAdded
<1>c. Len(chain) \in Nat
  BY <1>0, Lengths
<1>d. /\ Len(chain) <= 7 * Failures + (IF pc = "block" THEN 0 ELSE
                         IF pc = "insert" THEN next - 1 ELSE 7)
      /\ IF pc = "purge" THEN purged + Len(chain) <= 7 * (Failures + 1) ELSE purged = 0
      /\ IF stop = "purge" THEN stopped + Len(chain) <= 7 * (Failures + 1) ELSE stopped = 0
  BY DEF Sized, Limit, NRules
<1>e. Sized' <=>
      /\ Len(chain') <= 7 * Failures' + (IF pc' = "block" THEN 0 ELSE
                          IF pc' = "insert" THEN next' - 1 ELSE 7)
      /\ IF pc' = "purge" THEN purged' + Len(chain') <= 7 * (Failures' + 1) ELSE purged' = 0
      /\ IF stop' = "purge" THEN stopped' + Len(chain') <= 7 * (Failures' + 1)
         ELSE stopped' = 0
  BY DEF Sized, Limit, NRules
<1>f. pc # "down" => stop = "off"
  BY DEF Alone
<1>g. Failures' \in Nat /\ Failures' >= Failures /\ UNCHANGED chain
      /\ UNCHANGED << purged, stop, stopped >>
      /\ pc \notin {"block", "insert", "purge"} /\ pc' \notin {"block", "insert", "purge"}
      => Sized'
  BY <1>0, <1>c, <1>d, <1>e
<1>1. CASE Start
  BY <1>1, <1>0, <1>a, <1>c, <1>d, <1>e DEF Start, kernel, Failures, NoStop
<1>2. CASE EnsureChain \/ EnsureJump6 \/ Check
  BY <1>2, <1>0, <1>a, <1>g DEF EnsureChain, EnsureJump6, Check, Abort, kernel
<1>3. CASE EnsureJump
  BY <1>3, <1>0, <1>a, <1>c, <1>d, <1>e DEF EnsureJump, Abort
<1>4. CASE Purge
  <2>1. CASE PurgeMore(purged) /\ Fine /\ chain' = Tail(chain) /\ UNCHANGED pc
             /\ purged' = purged + 1
    BY <1>4, <2>1, <1>0, <1>a, <1>c, <1>d, <1>e, Lengths DEF PurgeMore, Purge
  <2>2. CASE ~PurgeMore(purged) /\ Fine /\ UNCHANGED chain /\ pc' = "block" /\ purged' = 0
    <3>1. Len(chain) = 0
      BY <1>4, <2>2, <1>0, <1>c, <1>d, Lengths DEF PurgeMore, Purge, Room, NRules
    <3> QED
      BY <1>4, <2>2, <3>1, <1>0, <1>a, <1>d, <1>e DEF Purge
  <2>3. CASE Fault /\ UNCHANGED chain /\ pc' = "block" /\ purged' = 0
    BY <1>4, <2>3, <1>0, <1>a, <1>c, <1>d, <1>e DEF Purge
  <2> QED
    BY <1>4, <2>1, <2>2, <2>3 DEF Purge, Purged
<1>5. CASE RejectArgs
  <2>1. Fine \/ Fault
    BY <1>5 DEF RejectArgs
  <2> QED
    BY <1>5, <2>1, <1>0, <1>a, <1>c, <1>d, <1>e DEF RejectArgs, kernel
<1>6. CASE Insert
  <2>1. pc = "insert" /\ UNCHANGED << purged, stop, stopped >> /\ (Fine \/ Fault)
    BY <1>6 DEF Insert
  <2>2. CASE UNCHANGED chain /\ Abort
    BY <2>1, <2>2, <1>0, <1>a, <1>c, <1>d, <1>e DEF Abort
  <2>3. CASE /\ Len(chain') = Len(chain) + 1 /\ Fine
             /\ pc' = IF next = 7 THEN "six_REJECT" ELSE "insert"
             /\ next' = IF next = 7 THEN 1 ELSE next + 1
    BY <2>1, <2>3, <1>0, <1>a, <1>c, <1>d, <1>e, <1>f
  <2> QED
    BY <1>6, <2>1, <2>2, <2>3, InsertedLength DEF Insert, NRules
<1>7. CASE Block6
  BY <1>7, <1>0, <1>a, <1>b, <1>g DEF Block6, Try6, NoTarget6, Abort, NotAdded
<1>8. CASE ApplyNAT
  BY <1>8, <1>0, <1>a, <1>b, <1>g DEF ApplyNAT
<1>9. CASE ApplyDNSRedirect("dns_udp", "udp") \/ ApplyDNSRedirect("dns_tcp", "tcp")
  BY <1>9, <1>0, <1>a, <1>b, <1>g DEF ApplyDNSRedirect
<1>10. CASE Tick
  BY <1>10, <1>0, <1>g DEF Tick, kernel, Failures
<1>11. CASE Exit
  BY <1>11, <1>0, <1>a, <1>c, <1>d, <1>e DEF Exit, kernel
<1>12. CASE pc = "down" /\ StopBegin
  BY <1>12, <1>0, <1>a, <1>c, <1>d, <1>e DEF StopBegin, kernel, proc, NoStop
<1>13. CASE pc = "down" /\ (RemoveDNSRedirect \/ RemoveNAT \/ Remove6)
  BY <1>13, <1>0, <1>a, <1>c, <1>d, <1>e
  DEF RemoveDNSRedirect, RemoveNAT, Remove6, proc
<1>14. CASE pc = "down" /\ StopPurge
  <2>0. UNCHANGED << pc, next, purged >> /\ stop = "purge"
    BY <1>14 DEF StopPurge, proc
  <2>1. CASE PurgeMore(stopped) /\ Fine /\ chain' = Tail(chain) /\ UNCHANGED stop
             /\ stopped' = stopped + 1
    BY <1>14, <2>0, <2>1, <1>0, <1>a, <1>c, <1>d, <1>e, Lengths DEF PurgeMore
  <2>2. CASE (Fine \/ Fault) /\ UNCHANGED chain /\ stop' = "six" /\ stopped' = 0
    BY <1>14, <2>0, <2>2, <1>0, <1>a, <1>c, <1>d, <1>e
  <2> QED
    BY <1>14, <2>1, <2>2 DEF StopPurge, Purged
<1>15. CASE pc \in {"down", "idle"} /\ Tamper
  <2>1. Len(chain') = 0 \/ UNCHANGED chain
    BY <1>15, Lengths DEF Tamper
  <2> QED
    BY <1>15, <2>1, <1>0, <1>a, <1>c, <1>d, <1>e DEF Tamper, proc
<1>16. CASE UNCHANGED vars
  BY <1>16, <1>0, <1>d, <1>e DEF vars, kernel, proc, Failures
<1> QED
  BY <1>1, <1>2, <1>3, <1>4, <1>5, <1>6, <1>7, <1>8, <1>9, <1>10, <1>11, <1>12, <1>13,
     <1>14, <1>15, <1>16 DEF Next, Daemon, Pass, StopStep

\* No command that failed can be taken back.
LEMMA FailuresGrow ==
  CountsOK /\ Counting /\ [Next]_vars =>
    Failures \in Nat /\ Failures' \in Nat /\ Failures <= Failures'
<1> SUFFICES ASSUME CountsOK, Counting, [Next]_vars
             PROVE  Failures \in Nat /\ Failures' \in Nat /\ Failures <= Failures'
  OBVIOUS
<1>1. Failures \in Nat
  BY StepFailures
<1>2. ASSUME NEW u \in Upsets, Counted(u)
      PROVE  Failures' = Failures \/ Failures' = Failures + 1
  BY <1>2, BoundAssumption DEF CountsOK, Counted, Upsets, Failures
<1>3. CASE Daemon \/ Exit \/ StopBegin \/ StopStep
  BY <1>1, <1>2, <1>3, Spends DEF Upsets, Failures
<1>4. CASE Tamper
  BY <1>1, <1>2, <1>4 DEF Tamper, Spend, Upsets
<1>5. CASE UNCHANGED vars
  BY <1>1, <1>5 DEF vars, Failures
<1> QED
  BY <1>3, <1>4, <1>5 DEF Next

\* A first arming in which nothing failed leaves its own rules and no others.
Fresh ==
  clean /\ mode = "start" /\ pc \in PastV4 \cup {"block", "insert", "check"} =>
    /\ Len(chain) = (IF pc = "block" THEN 0 ELSE IF pc = "insert" THEN next - 1 ELSE NRules)
    /\ \A i \in DOMAIN chain : chain[i].lan \in {"any", lan}

LEMMA StepFresh == TInv /\ Alone /\ Sized /\ Room /\ Counting /\ Fresh /\ [Next]_vars => Fresh'
<1> SUFFICES ASSUME TInv, Alone, Sized, Room, Counting, Fresh, [Next]_vars, clean' # FALSE,
                    mode' = "start", pc' \in PastV4 \cup {"block", "insert", "check"}
             PROVE  /\ Len(chain') = (IF pc' = "block" THEN 0 ELSE
                                      IF pc' = "insert" THEN next' - 1 ELSE NRules)
                    /\ \A i \in DOMAIN chain' : chain'[i].lan \in {"any", lan'}
  BY DEF Fresh
<1>0. /\ clean \in BOOLEAN /\ chain \in Seq(Rule) /\ next \in 1 .. 7 /\ Len(chain) \in Nat
      /\ purged \in Nat /\ Failures \in Nat /\ MaxPurge \in Nat
  BY BoundAssumption, StepFailures DEF TInv, TypeOK, FlagsOK, ProcOK, NRules
<1>a. ~Fault
  BY DEF Fault, Spend
<1>b. ASSUME Fine, mode = "start", pc \in PastV4 \cup {"block", "insert", "check"}
      PROVE  /\ Len(chain) = (IF pc = "block" THEN 0 ELSE IF pc = "insert" THEN next - 1 ELSE 7)
             /\ \A i \in DOMAIN chain : chain[i].lan \in {"any", lan}
  BY <1>b, <1>0 DEF Fine, Fresh, NRules
<1>c. pc # "down" => stop = "off"
  BY DEF Alone
<1> USE DEF PastV4, Later, NRules
<1>1. CASE Start \/ EnsureChain \/ EnsureJump
  BY <1>1, <1>a DEF Start, EnsureChain, EnsureJump, Abort
<1>2. CASE Purge
  <2>1. pc = "purge" /\ ~PurgeMore(purged) /\ UNCHANGED chain /\ pc' = "block"
    BY <1>2, <1>a DEF Purge
  <2>2. Len(chain) = 0
    BY <2>1, <1>0, Lengths DEF PurgeMore, Room, Sized
  <2> QED
    BY <2>1, <2>2, <1>0
<1>3. CASE RejectArgs
  BY <1>3, <1>a, <1>b DEF RejectArgs, kernel
<1>4. CASE Insert
  <2> DEFINE r == InsertOrder(lan, block)[next]
  <2>1. /\ Fine /\ chain' = Inserted(chain, r) /\ UNCHANGED << lan, mode >>
        /\ pc = "insert" /\ pc' = (IF next = 7 THEN "six_REJECT" ELSE "insert")
        /\ next' = (IF next = 7 THEN 1 ELSE next + 1)
    BY <1>4, <1>a DEF Insert, Abort
  <2>2. Len(chain') = Len(chain) + 1
    BY <2>1, InsertedLength
  <2>3. r \in Rule /\ r.lan \in {"any", lan}
    <3>1. lan \in LANs /\ block \in Blocks
      BY <2>1 DEF TInv, TypeOK, ProcOK, Answered
    <3>2. r \in Rule
      BY <1>0, <3>1, InsertOrderType
    <3>3. r.lan \in {"any", lan}
      BY <1>0 DEF InsertOrder, MkRule, CatchAll
    <3> QED
      BY <3>2, <3>3
  <2> HIDE DEF r
  <2>4. chain' = << r >> \o chain
    BY <2>1 DEF Inserted
  <2>5. \A i \in DOMAIN chain' : chain'[i] = r \/ \E j \in DOMAIN chain : chain'[i] = chain[j]
    <3>1. \A i \in DOMAIN chain' : i # 1 => i - 1 \in DOMAIN chain /\ chain'[i] = chain[i - 1]
      BY <2>3, <2>4, <1>0
    <3>2. chain'[1] = r
      BY <2>3, <2>4, <1>0
    <3> QED
      BY <3>1, <3>2
  <2>6. \A i \in DOMAIN chain' : chain'[i].lan \in {"any", lan'}
    BY <2>1, <2>3, <2>5, <1>b
  <2>7. Len(chain) = next - 1
    BY <2>1, <1>b
  <2> QED
    BY <2>1, <2>2, <2>6, <2>7, <1>0
<1>5. CASE Block6 \/ EnsureJump6
  BY <1>5, <1>a, <1>b DEF Block6, Try6, Checked, NotAdded, NoTarget6, Abort, EnsureJump6
<1>6. CASE ApplyNAT
  BY <1>6, <1>a, <1>b DEF ApplyNAT, Checked, NotAdded
<1>7. CASE ApplyDNSRedirect("dns_udp", "udp") \/ ApplyDNSRedirect("dns_tcp", "tcp")
  BY <1>7, <1>a, <1>b DEF ApplyDNSRedirect, Checked, NotAdded
<1>8. CASE Tick \/ Exit \/ Tamper
  BY <1>8 DEF Tick, Exit, Tamper, Spend
<1>9. CASE Check
  BY <1>9, <1>a, <1>b DEF Check, kernel
<1>10. CASE pc = "down" /\ (StopBegin \/ StopStep)
  BY <1>10
  DEF StopBegin, StopStep, RemoveDNSRedirect, RemoveNAT, StopPurge, Remove6, proc
<1>11. CASE UNCHANGED vars
  BY <1>11, <1>0 DEF vars, kernel, proc, hist, Fresh
<1> QED
  BY <1>1, <1>2, <1>3, <1>4, <1>5, <1>6, <1>7, <1>8, <1>9, <1>10, <1>11
  DEF Next, Daemon, Pass, StopStep

\* As long as nothing has failed, each rule beside the chain is there at most once ...
Single ==
  nat <= 1 /\ (\A p \in Protos : dns[p] <= 1) /\ (\A b \in Blocks : six[b] <= 1)

\* ... and `bondvpn stop` has deleted what it has been at.
Removed ==
  clean =>
    /\ stop \in {"nat", "purge", "six", "done"} => \A p \in Protos : dns[p] = 0
    /\ stop \in {"purge", "six", "done"} => nat = 0
    /\ stop \in {"six", "done"} => chain = << >>
    /\ stop = "done" => \A b \in Blocks : six[b] = 0

LEMMA StepSingle ==
  CountsOK /\ Counting /\ Single /\ Failures' = 0 /\ [Next]_vars => Single'
<1> SUFFICES ASSUME CountsOK, Counting, Single, Failures' = 0, [Next]_vars PROVE Single'
  OBVIOUS
<1>0. nat \in Nat /\ dns \in [Protos -> Nat] /\ six \in [Blocks -> Nat]
  BY DEF CountsOK
<1>a. ~Fault
  BY StepFailures
<1>b. ASSUME NEW n \in Nat, n <= 1, NEW m \in BOOLEAN, Checked(n, m) PROVE Ensured(n, m) <= 1
  BY <1>a, <1>b DEF Checked, Ensured
<1>c. ASSUME NEW n \in Nat, n <= 1 PROVE Less(n) = 0 /\ Less(n) <= 1
  BY <1>c DEF Less
<1> USE DEF Single
<1>1. CASE UNCHANGED << nat, dns, six >>
  BY <1>1
<1>2. ASSUME NEW at, NEW b \in Blocks, NEW o, Try6(at, b, o) PROVE Single'
  BY <1>2, <1>0, <1>a, <1>b DEF Try6, NotAdded
<1>3. CASE ApplyNAT
  BY <1>3, <1>0, <1>a, <1>b DEF ApplyNAT, NotAdded
<1>4. ASSUME NEW at, NEW p \in Protos, ApplyDNSRedirect(at, p) PROVE Single'
  BY <1>4, <1>0, <1>a, <1>b DEF ApplyDNSRedirect, NotAdded
<1>5. CASE RemoveDNSRedirect
  BY <1>5, <1>0, <1>c DEF RemoveDNSRedirect
<1>6. CASE RemoveNAT
  BY <1>6, <1>0, <1>c DEF RemoveNAT
<1>7. CASE Remove6
  BY <1>7, <1>0, <1>c DEF Remove6
<1>8. CASE Tamper
  BY <1>8 DEF Tamper
<1>9. CASE Start \/ EnsureChain \/ EnsureJump \/ Purge \/ RejectArgs \/ Insert \/ EnsureJump6
           \/ Tick \/ Check \/ Exit \/ StopBegin \/ StopPurge \/ UNCHANGED vars
  BY <1>1, <1>9 DEF Start, EnsureChain, EnsureJump, Purge, RejectArgs, Insert, EnsureJump6,
     Tick, Check, Exit, StopBegin, StopPurge, vars, kernel
<1> QED
  BY <1>2, <1>3, <1>4, <1>5, <1>6, <1>7, <1>8, <1>9
  DEF Next, Daemon, Pass, StopStep, Block6, Blocks, Protos

LEMMA StepRemoved ==
  /\ TInv /\ Counting /\ Alone /\ Sized /\ Room /\ Single /\ Removed
  /\ Failures' = 0 /\ [Next]_vars
  => Removed'
<1> SUFFICES ASSUME TInv, Counting, Alone, Sized, Room, Single, Removed,
                    Failures' = 0, [Next]_vars, clean' # FALSE
             PROVE  /\ stop' \in {"nat", "purge", "six", "done"} => \A p \in Protos : dns'[p] = 0
                    /\ stop' \in {"purge", "six", "done"} => nat' = 0
                    /\ stop' \in {"six", "done"} => chain' = << >>
                    /\ stop' = "done" => \A b \in Blocks : six'[b] = 0
  BY DEF Removed
<1>0. /\ clean \in BOOLEAN /\ chain \in Seq(Rule) /\ Len(chain) \in Nat /\ stopped \in Nat
      /\ nat \in Nat /\ dns \in [Protos -> Nat] /\ six \in [Blocks -> Nat]
      /\ MaxPurge \in Nat /\ CountsOK /\ pc \in PCs
  BY BoundAssumption DEF TInv, TypeOK, FlagsOK, ProcOK, CountsOK
<1>a. ~Fault
  BY DEF Fault, Spend
<1>b. pc # "down" => stop = "off"
  BY DEF Alone
<1>c. Fine => /\ stop \in {"nat", "purge", "six", "done"} => \A p \in Protos : dns[p] = 0
              /\ stop \in {"purge", "six", "done"} => nat = 0
              /\ stop \in {"six", "done"} => chain = << >>
              /\ stop = "done" => \A b \in Blocks : six[b] = 0
  BY <1>0 DEF Fine, Removed
<1>d. ASSUME NEW n \in Nat, n <= 1 PROVE Less(n) = 0
  BY <1>d DEF Less
<1>1. CASE NoStop /\ Start
  BY <1>1 DEF Start
<1>2. CASE Pass
  <2>1. pc # "down" /\ UNCHANGED stop
    BY <1>2 DEF Pass, EnsureChain, EnsureJump, Purge, RejectArgs, Insert, Block6, Try6,
                EnsureJump6, ApplyNAT, ApplyDNSRedirect, Tick, Check
  <2> QED
    BY <2>1, <1>b
<1>3. CASE Exit \/ Tamper
  BY <1>3 DEF Exit, Tamper, Spend
<1>4. CASE StopBegin
  BY <1>4 DEF StopBegin
<1>5. CASE RemoveDNSRedirect
  BY <1>5, <1>0, <1>a, <1>d DEF RemoveDNSRedirect, Single
<1>6. CASE RemoveNAT
  BY <1>6, <1>0, <1>a, <1>c, <1>d DEF RemoveNAT, Single
<1>7. CASE StopPurge
  <2>1. Fine /\ stop = "purge" /\ UNCHANGED << dns, nat >>
    BY <1>7, <1>a DEF StopPurge
  <2>2. CASE UNCHANGED stop
    BY <2>1, <2>2, <1>c
  <2>3. CASE ~PurgeMore(stopped) /\ stop' = "six" /\ UNCHANGED chain
    <3>1. Len(chain) = 0
      BY <2>1, <2>3, <1>0, StepFailures, Lengths DEF PurgeMore, Room, Sized, NRules
    <3>2. chain = << >>
      BY <3>1, <1>0, Lengths
    <3> QED
      BY <2>1, <2>3, <3>2, <1>c
  <2> QED
    BY <1>7, <1>a, <2>2, <2>3 DEF StopPurge
<1>8. CASE Remove6
  BY <1>8, <1>0, <1>a, <1>c, <1>d DEF Remove6, Single
<1>9. CASE UNCHANGED vars
  BY <1>9, <1>0 DEF vars, kernel, hist, Removed
<1> QED
  BY <1>1, <1>2, <1>3, <1>4, <1>5, <1>6, <1>7, <1>8, <1>9 DEF Next, Daemon, StopStep

StopInv ==
  /\ TInv /\ Counting /\ Alone
  /\ Room => Sized /\ Fresh
  /\ Failures = 0 => Single
  /\ Failures = 0 /\ Room => Removed

LEMMA SpecStopInv == Spec => []StopInv
<1>1. Init => StopInv
  <2> SUFFICES ASSUME Init PROVE StopInv
    OBVIOUS
  <2>1. TInv
    BY InitTInv
  <2>2. Counting /\ Failures = 0
    BY BoundAssumption DEF Init, Counting, Failures, Upsets
  <2>3. Alone /\ Fresh /\ Removed
    BY DEF Init, Alone, Fresh, Removed
  <2>4. Sized
    <3>1. chain = << >> /\ pc = "down" /\ purged = 0 /\ stop = "off" /\ stopped = 0
      BY DEF Init
    <3>2. Len(chain) = 0
      BY <3>1
    <3> QED
      BY <2>2, <3>1, <3>2 DEF Sized, Limit, NRules
  <2>5. Single
    BY DEF Init, Single
  <2> QED
    BY <2>1, <2>2, <2>3, <2>4, <2>5 DEF StopInv
<1>2. StopInv /\ [Next]_vars => StopInv'
  <2> SUFFICES ASSUME StopInv, [Next]_vars PROVE StopInv'
    OBVIOUS
  <2>0. TInv /\ Counting /\ Alone /\ CountsOK /\ ProcOK
    BY DEF StopInv, TInv, TypeOK
  <2>1. TInv'
    BY <2>0, StepTInv, NextIsRacy
  <2>2. Counting' /\ Alone'
    BY <2>0, StepCounting, StepAlone
  <2>3. Failures \in Nat /\ Failures' \in Nat /\ Failures <= Failures'
    BY <2>0, FailuresGrow
  <2>4. Room' => Room
    <3>1. MaxPurge \in Nat
      BY BoundAssumption
    <3>2. PICK f \in Nat, g \in Nat : f = Failures /\ g = Failures'
      BY <2>3
    <3>3. f <= g
      BY <2>3, <3>2
    <3>4. 7 * (g + 1) <= MaxPurge => 7 * (f + 1) <= MaxPurge
      BY <3>1, <3>3
    <3> QED
      BY <3>2, <3>4 DEF Room, NRules
  <2>5. Failures' = 0 => Failures = 0
    BY <2>3
  <2>6. Room' => Sized' /\ Fresh'
    BY <2>0, <2>4, StepSized, StepFresh DEF StopInv
  <2>7. Failures' = 0 => Single'
    BY <2>0, <2>5, StepSingle DEF StopInv
  <2>8. Failures' = 0 /\ Room' => Removed'
    BY <2>0, <2>4, <2>5, StepRemoved DEF StopInv
  <2> QED
    BY <2>1, <2>2, <2>6, <2>7, <2>8 DEF StopInv
<1> QED
  BY <1>1, <1>2, PTL DEF Spec

\* As long as one purge can delete what all arming so far may have left, a start in which
\* nothing failed ends with its own rules in the chain, of its own LAN, and no others: of
\* any number of starts, LANs, kills, flushes and stops.  (Seven rules an arming and 64
\* deletions a purge: up to eight failed commands.)
THEOREM Orphans == Spec => [](Room => NoOrphans)
<1>1. StopInv => (Room => NoOrphans)
  BY DEF StopInv, Fresh, NoOrphans, PastV4, Later
<1> QED
  BY <1>1, SpecStopInv, PTL

\* If a purge can delete the rules of one arming, `bondvpn stop` leaves nothing of ours,
\* of any number of starts, LANs, kills, flushes and earlier stops, as long as no command
\* of ours has failed.
THEOREM Stops == NRules <= MaxPurge => (Spec => []StopClears)
<1> SUFFICES ASSUME NRules <= MaxPurge PROVE Spec => []StopClears
  OBVIOUS
<1>1. StopInv => StopClears
  <2> SUFFICES ASSUME StopInv, stop = "done", clean, left["fault"] = Budget["fault"]
               PROVE  Cleared
    BY DEF StopClears
  <2>1. Failures = 0
    BY BoundAssumption DEF Failures, Upsets
  <2>2. Room
    BY <2>1, BoundAssumption DEF Room, NRules
  <2> QED
    BY <2>1, <2>2 DEF StopInv, Removed, Cleared
<1> QED
  BY <1>1, SpecStopInv, PTL
=============================================================================
