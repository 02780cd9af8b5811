---------------------------- MODULE StatusProofs ----------------------------
(***************************************************************************)
(* What TLAPS proves of Status: a document tells what has been so while it  *)
(* was made, for every list of tunnels and pins, whatever changes meanwhile. *)
(***************************************************************************)
EXTENDS Status, TLAPS

-----------------------------------------------------------------------------
(* Types.                                                                  *)

States == {"absent", "down", "silent", "live"}

LEMMA LinkedType ==
  ASSUME NEW l \in [Named -> {"down", "silent", "live"}], NEW ps
  PROVE  /\ Linked(l, ps) \in [Named -> States]
         /\ \A t \in Named : Linked(l, ps)[t] = "absent" \/ Linked(l, ps)[t] = l[t]
BY DEF Linked, States

LEMMA StepType == TypeOK /\ [Next]_vars => TypeOK'
<1> SUFFICES ASSUME TypeOK, [Next]_vars PROVE TypeOK'
  OBVIOUS
<1>0. Len(Questions) = 4 /\ DOMAIN Questions = 1 .. 4 /\ MaxUpsets \in Nat /\ Has6 \in BOOLEAN
  BY StatusAssumption DEF Questions
<1>q. \A k \in 0 .. 5 : k \in 0 .. Len(Questions) + 1
  BY <1>0
<1>l. left \in 0 .. MaxUpsets /\ (left > 0 => left - 1 \in 0 .. MaxUpsets)
  <2>1. left \in 0 .. MaxUpsets
    BY DEF TypeOK
  <2> QED
    BY <1>0, <2>1
<1>u. Unseen \in [Named -> States] /\ Unasked \in [Rules -> BOOLEAN]
  BY DEF Unseen, Unasked, States
<1>1. CASE Begin \/ Reread
  <2>1. UNCHANGED << world, found, left >> /\ asked' \in {asked, 1} /\ seen' = Linked(link, paths)
    BY <1>1 DEF Begin, Reread
  <2>2. seen' \in [Named -> States]
    BY <2>1, LinkedType DEF TypeOK
  <2>3. asked' \in 0 .. Len(Questions) + 1
    <3>1. 1 \in 0 .. 5
      OBVIOUS
    <3>2. 1 \in 0 .. Len(Questions) + 1
      BY <1>q, <3>1
    <3>3. asked \in 0 .. Len(Questions) + 1
      BY DEF TypeOK
    <3> QED
      BY <2>1, <3>2, <3>3
  <2> QED
    BY <2>1, <2>2, <2>3 DEF TypeOK, world, States
<1>2. CASE RepairKillSwitch \/ RepairNAT \/ RepairDNS
  <2>1. rule \in [Rules -> BOOLEAN] /\ Has6 \in BOOLEAN
    BY <1>0 DEF TypeOK
  <2>2. rule' \in [Rules -> BOOLEAN]
    BY <1>2, <2>1 DEF RepairKillSwitch, RepairNAT, RepairDNS, Rules
  <2>3. UNCHANGED << paths, link, routed, forwards6, conf, asked, seen, found, left >>
    BY <1>2 DEF RepairKillSwitch, RepairNAT, RepairDNS
  <2> QED
    BY <2>2, <2>3 DEF TypeOK
<1>3. CASE Recover
  <2>1. link' \in [Named -> {"down", "silent", "live"}]
    BY <1>3 DEF Recover, TypeOK
  <2> QED
    BY <1>3, <2>1 DEF Recover, TypeOK
<1>4. CASE Apply
  <2>1. left' \in 0 .. MaxUpsets
    BY <1>l, <1>4 DEF Apply
  <2> QED
    BY <1>4, <2>1 DEF Apply, TypeOK
<1>5. CASE Ask
  <2>1. \E q \in Rules : \E v \in BOOLEAN : found' = [found EXCEPT ![q] = v]
    <3>1. Questions[asked] \in Rules
      BY <1>0, <1>5 DEF Ask, Questions, Rules
    <3>2. Blocked6(rule, forwards6) \in BOOLEAN
      BY DEF Blocked6
    <3>3. rule[Questions[asked]] \in BOOLEAN
      BY <3>1 DEF TypeOK
    <3> QED
      BY <1>5, <3>1, <3>2, <3>3 DEF Ask
  <2>2. found' \in [Rules -> BOOLEAN] /\ asked' \in 0 .. 5 /\ UNCHANGED << world, seen, left >>
    <3>1. found' \in [Rules -> BOOLEAN]
      BY <2>1 DEF TypeOK
    <3>2. asked \in 1 .. 4 /\ asked' = asked + 1 /\ UNCHANGED << world, seen, left >>
      BY <1>0, <1>5 DEF Ask
    <3> QED
      BY <3>1, <3>2
  <2>3. asked' \in 0 .. Len(Questions) + 1
    BY <1>q, <2>2
  <2> QED
    BY <2>2, <2>3 DEF TypeOK, world
<1>6. CASE Build
  BY <1>6 DEF Build, TypeOK, world
<1>7. CASE Publish
  <2>1. asked' = 0 /\ seen' = Unseen /\ found' = Unasked /\ UNCHANGED << world, left >>
    BY <1>7 DEF Publish, Forget
  <2>2. asked' \in 0 .. Len(Questions) + 1
    BY <1>q, <2>1
  <2> QED
    BY <1>u, <2>1, <2>2 DEF TypeOK, world, States
<1>8. CASE World
  <2>1. UNCHANGED reader /\ left' \in 0 .. MaxUpsets
    <3>1. Upset
      BY <1>8 DEF World, LinkChanges, RuleChanges, RoutesLost, Forwarding, FileEdited, FilesAdded
    <3> QED
      BY <1>l, <3>1 DEF Upset
  <2>2. /\ paths' \subseteq Named /\ link' \in [Named -> {"down", "silent", "live"}]
        /\ rule' \in [Rules -> BOOLEAN] /\ routed' \in BOOLEAN /\ forwards6' \in BOOLEAN
        /\ conf' \in {"", "warn", "fatal"}
    BY <1>8 DEF World, LinkChanges, RuleChanges, RoutesLost, Forwarding, FileEdited, FilesAdded,
                TypeOK
  <2> QED
    BY <2>1, <2>2 DEF TypeOK, reader
<1>9. CASE UNCHANGED vars
  BY <1>9 DEF vars, world, reader, TypeOK
<1> QED
  BY <1>1, <1>2, <1>3, <1>4, <1>5, <1>6, <1>7, <1>8, <1>9 DEF Next, Pass

LEMMA InitType == Init => TypeOK
<1>1. Len(Questions) = 4 /\ MaxUpsets \in Nat /\ Has6 \in BOOLEAN
  BY StatusAssumption DEF Questions
<1> SUFFICES ASSUME Init PROVE TypeOK
  OBVIOUS
<1>2. seen \in [Named -> States] /\ found \in [Rules -> BOOLEAN]
  BY DEF Init, Unseen, Unasked, States
<1>3. /\ paths \subseteq Named /\ link \in [Named -> {"down", "silent", "live"}]
      /\ routed \in BOOLEAN /\ forwards6 \in BOOLEAN /\ conf = ""
  BY DEF Init
<1>4. rule \in [Rules -> BOOLEAN]
  <2>1. \A q \in Rules : (q = "v6" => Has6) \in BOOLEAN
    OBVIOUS
  <2> QED
    BY <2>1 DEF Init
<1>5. asked \in 0 .. Len(Questions) + 1 /\ left \in 0 .. MaxUpsets
  <2>1. asked = 0 /\ left = MaxUpsets
    BY DEF Init
  <2>2. 0 \in 0 .. Len(Questions) + 1 /\ MaxUpsets \in 0 .. MaxUpsets
    BY <1>1
  <2> QED
    BY <2>1, <2>2
<1> QED
  BY <1>2, <1>3, <1>4, <1>5 DEF TypeOK, States

\* Of every variable, in every reachable state, the type the code gives it.
THEOREM TypeCorrect == Spec => []TypeOK
BY InitType, StepType, PTL DEF Spec

-----------------------------------------------------------------------------
(* What is held of a document.                                             *)

\* While the document is made everything that is so is noticed; so are the state of each
\* tunnel it was read in, and each answer when it was given.
Noticing == pc \in {"apply", "ask"} => Now \subseteq held /\ asked \in 1 .. 5
Answers ==
  pc \in {"apply", "ask"} =>
    /\ \A t \in Named : seen[t] # "absent" => << t, seen[t] >> \in held
    /\ \A k \in 1 .. asked - 1 : << Questions[k], found[Questions[k]] >> \in held

LEMMA NowIs ==
  /\ \A t \in Named : << t, link[t] >> \in Now
  /\ \A q \in Rules \ {"v6"} : << q, rule[q] >> \in Now
  /\ << "v6", Blocked6(rule, forwards6) >> \in Now /\ << "conf", conf >> \in Now
BY DEF Now

\* What changes the world while the document is made is noticed.
LEMMA Noticed ==
  ASSUME Noticing, Answers, Notice, UNCHANGED << asked, seen, found >>,
         pc' \in {"apply", "ask"} => pc \in {"apply", "ask"}
  PROVE  Noticing' /\ Answers'
BY DEF Noticing, Answers, Notice

LEMMA StepAnswers == TypeOK /\ Noticing /\ Answers /\ [Next]_vars => Noticing' /\ Answers'
<1> SUFFICES ASSUME TypeOK, Noticing, Answers, [Next]_vars PROVE Noticing' /\ Answers'
  OBVIOUS
<1>0. DOMAIN Questions = 1 .. 4 /\ \A k \in 1 .. 4 : Questions[k] \in Rules
  BY DEF Questions, Rules
<1>1. CASE RepairKillSwitch \/ RepairNAT \/ RepairDNS \/ Recover \/ Begin \/ Build \/ Publish
  <2>1. pc' \notin {"apply", "ask"}
    BY <1>1 DEF RepairKillSwitch, RepairNAT, RepairDNS, Recover, Begin, Build, Publish, At
  <2> QED
    BY <2>1 DEF Noticing, Answers
<1>2. CASE Reread
  <2>1. /\ seen' = Linked(link, paths) /\ asked' = 1 /\ held' = Now /\ UNCHANGED world
    BY <1>2 DEF Reread
  <2>2. Now' = Now
    BY <2>1 DEF Now, world
  <2>3. \A t \in Named : seen'[t] # "absent" => seen'[t] = link[t]
    BY <2>1, LinkedType DEF TypeOK
  <2> QED
    BY <2>1, <2>2, <2>3, NowIs DEF Noticing, Answers
<1>3. CASE Apply
  BY <1>3, Noticed DEF Apply, At
<1>4. CASE Ask
  <2> DEFINE q == Questions[asked]
             v == IF q = "v6" THEN Blocked6(rule, forwards6) ELSE rule[q]
  <2>1. /\ pc = "ask" /\ asked \in 1 .. 4 /\ found' = [found EXCEPT ![q] = v] /\ asked' = asked + 1
        /\ UNCHANGED << world, pc, seen, held >>
    BY <1>0, <1>4 DEF Ask
  <2>2. Now' = Now
    BY <2>1 DEF Now, world
  <2>3. << q, v >> \in held
    <3>1. q \in Rules
      BY <1>0, <2>1
    <3>2. << q, v >> \in Now
      BY <3>1, NowIs
    <3> QED
      BY <2>1, <3>2 DEF Noticing
  <2>4. found'[q] = v /\ \A r \in Rules : r # q => found'[r] = found[r]
    BY <1>0, <2>1 DEF TypeOK
  <2>5. ASSUME NEW k \in 1 .. asked' - 1 PROVE << Questions[k], found'[Questions[k]] >> \in held
    <3>1. CASE Questions[k] = q
      BY <2>3, <2>4, <3>1
    <3>2. CASE Questions[k] # q
      <4>1. k \in 1 .. asked - 1 /\ k \in 1 .. 4
        BY <2>1, <3>2
      <4>2. found'[Questions[k]] = found[Questions[k]]
        BY <1>0, <2>4, <3>2, <4>1
      <4> QED
        BY <2>1, <4>1, <4>2 DEF Answers
    <3> QED
      BY <3>1, <3>2
  <2> QED
    BY <2>1, <2>2, <2>5 DEF Noticing, Answers
<1>5. CASE World
  BY <1>5, Noticed DEF World, Upset, LinkChanges, RuleChanges, RoutesLost, Forwarding, FileEdited,
                       FilesAdded, reader
<1>6. CASE UNCHANGED vars
  <2>1. Now' = Now
    BY <1>6 DEF Now, vars, world
  <2> QED
    BY <1>6, <2>1 DEF vars, world, reader, Noticing, Answers
<1> QED
  BY <1>1, <1>2, <1>3, <1>4, <1>5, <1>6 DEF Next, Pass

-----------------------------------------------------------------------------
(* What a document says.                                                   *)

\* No two kinds of problem look alike.
LEMMA Apart ==
  /\ \A x, y, z : << x, y >> # << z >>
  /\ \A x, y : << x >> = << y >> => x = y
  /\ \A x, y, a, b : << x, y >> = << a, b >> => x = a /\ y = b
OBVIOUS

LEMMA Told ==
  ASSUME TypeOK
  PROVE  LET told == Document(seen, found).problems
         IN  /\ \A t \in Named : << "down", t >> \in told <=> seen[t] = "down"
             /\ \A t \in Named : << "silent", t >> \in told <=> seen[t] = "silent"
             /\ \A q \in Rules \ {"v6"} : << q >> \in told <=> ~found[q]
             /\ << "v6" >> \in told <=> ~found["v6"] /\ forwards6
             /\ << "conf" >> \in told <=> conf = "fatal"
<1> DEFINE told == Document(seen, found).problems
<1>1. told = TunnelProblems(seen) \cup RuleProblems(found)
              \cup (IF conf = "fatal" THEN {<< "conf" >>} ELSE {})
  BY DEF Document
<1> HIDE DEF told
<1>2. \A p : p \in TunnelProblems(seen) <=>
               \/ \E t \in Named : p = << "down", t >> /\ seen[t] = "down"
               \/ \E t \in Named : p = << "silent", t >> /\ seen[t] = "silent"
               \/ p = << "none" >> /\ Live(seen) = << >> /\ ~Unconfigured
               \/ p = << "pins" >> /\ Len(Pinned) > 1 /\ Len(Live(seen)) > 1 /\ DistinctPins(seen) = 1
  BY DEF TunnelProblems
<1>3. \A p : p \in RuleProblems(found) <=>
               \/ \E q \in Rules \ {"v6"} : p = << q >> /\ ~found[q]
               \/ p = << "v6" >> /\ ~found["v6"] /\ forwards6
  BY DEF RuleProblems
<1>4. ASSUME NEW x, NEW y
      PROVE  << x, y >> \in told <=> << x, y >> \in TunnelProblems(seen)
  BY <1>1, <1>3, Apart
<1>5. ASSUME NEW x, x \in Rules \cup {"conf"} PROVE << x >> \notin TunnelProblems(seen)
  BY <1>2, <1>5, Apart DEF Rules
<1>6. /\ \A t \in Named : << "down", t >> \in told <=> seen[t] = "down"
      /\ \A t \in Named : << "silent", t >> \in told <=> seen[t] = "silent"
  BY <1>2, <1>4, Apart
<1>7. /\ \A q \in Rules \ {"v6"} : << q >> \in told <=> ~found[q]
      /\ << "v6" >> \in told <=> ~found["v6"] /\ forwards6
  BY <1>1, <1>3, <1>5, Apart DEF Rules
<1>8. << "conf" >> \in told <=> conf = "fatal"
  BY <1>1, <1>3, <1>5, Apart DEF Rules
<1> QED
  BY <1>6, <1>7, <1>8 DEF told

LEMMA BuildHonest == TypeOK /\ Noticing /\ Answers /\ Build => Honest'
<1> SUFFICES ASSUME TypeOK, Noticing, Answers, Build PROVE Honest'
  OBVIOUS
<1> DEFINE told == Document(seen, found).problems
<1>1. /\ pc = "ask" /\ report' = Document(seen, found) /\ UNCHANGED << seen, held >>
      /\ asked \in 1 .. 5 /\ asked \notin DOMAIN Questions
  BY DEF Build, At, Noticing
<1>2. \A q \in Rules : << q, found[q] >> \in held
  <2>1. DOMAIN Questions = 1 .. 4 /\ Rules = {Questions[k] : k \in 1 .. 4}
    BY DEF Questions, Rules
  <2>2. asked = 5
    BY <1>1, <2>1
  <2>3. \A k \in 1 .. 4 : << Questions[k], found[Questions[k]] >> \in held
    BY <1>1, <2>2 DEF Answers
  <2> QED
    BY <2>1, <2>3
<1>3. \A t \in Named : seen[t] # "absent" => << t, seen[t] >> \in held
  BY <1>1 DEF Answers
<1>4. << "v6", Blocked6(rule, forwards6) >> \in held /\ << "conf", conf >> \in held
  BY <1>1, NowIs DEF Noticing
<1>5. /\ \A t \in Named : << "down", t >> \in told <=> seen[t] = "down"
      /\ \A t \in Named : << "silent", t >> \in told <=> seen[t] = "silent"
      /\ \A q \in Rules \ {"v6"} : << q >> \in told <=> ~found[q]
      /\ << "v6" >> \in told <=> ~found["v6"] /\ forwards6
      /\ << "conf" >> \in told <=> conf = "fatal"
  BY Told
<1> HIDE DEF told
<1>6. \A t \in Named : \A v \in {"down", "silent"} : << v, t >> \in told => << t, v >> \in held
  BY <1>3, <1>5
<1>7. \A t \in Named : seen[t] # "absent" /\ {<< "down", t >>, << "silent", t >>} \cap told = {}
                         => << t, "live" >> \in held
  <2> SUFFICES ASSUME NEW t \in Named, seen[t] # "absent",
                      << "down", t >> \notin told, << "silent", t >> \notin told
               PROVE  << t, "live" >> \in held
    OBVIOUS
  <2>1. seen[t] = "live"
    BY <1>5 DEF TypeOK
  <2> QED
    BY <1>3, <2>1
<1>8. \A q \in Rules : << q, << q >> \notin told >> \in held
  <2> SUFFICES ASSUME NEW q \in Rules PROVE << q, << q >> \notin told >> \in held
    OBVIOUS
  <2>1. found[q] \in BOOLEAN
    BY DEF TypeOK
  <2>2. CASE q # "v6" \/ forwards6
    <3>1. << q >> \notin told <=> found[q]
      BY <1>5, <2>2
    <3>2. (<< q >> \notin told) = found[q]
      BY <2>1, <3>1
    <3> QED
      BY <1>2, <3>2
  <2>3. CASE q = "v6" /\ ~forwards6
    <3>1. << q >> \notin told /\ Blocked6(rule, forwards6)
      BY <1>5, <2>3 DEF Blocked6
    <3>2. (<< q >> \notin told) = Blocked6(rule, forwards6)
      BY <3>1 DEF Blocked6
    <3> QED
      BY <1>4, <2>3, <3>2
  <2> QED
    BY <2>2, <2>3
<1>9. << "conf" >> \in told => << "conf", "fatal" >> \in held
  BY <1>4, <1>5
<1>10. << "conf" >> \notin told => << "conf", "" >> \in held \/ << "conf", "warn" >> \in held
  BY <1>4, <1>5 DEF TypeOK
<1> QED
  BY <1>1, <1>6, <1>7, <1>8, <1>9, <1>10 DEF Honest, told

LEMMA StepHonest == TypeOK /\ Noticing /\ Answers /\ Honest /\ [Next]_vars => Honest'
<1> SUFFICES ASSUME TypeOK, Noticing, Answers, Honest, [Next]_vars, pc' = "report" PROVE Honest'
  BY DEF Honest
<1>1. CASE Build
  BY <1>1, BuildHonest
<1>2. CASE World \/ UNCHANGED vars
  <2>1. UNCHANGED << pc, seen, report, held >>
    BY <1>2 DEF World, Upset, Notice, LinkChanges, RuleChanges, RoutesLost, Forwarding, FileEdited,
                FilesAdded, reader, vars
  <2> QED
    BY <2>1 DEF Honest
<1>3. CASE Pass /\ ~Build
  BY <1>3 DEF Pass, Begin, RepairKillSwitch, RepairNAT, RepairDNS, Recover, Reread, Apply, Ask,
              Publish, At
<1> QED
  BY <1>1, <1>2, <1>3 DEF Next

\* Nothing in a document is older than the recovery of its own pass, and nothing is left out
\* (main.go:refresh, status.go:buildStatus).
THEOREM HonestDocuments == Spec => []Honest
<1>1. Init => Noticing /\ Answers /\ Honest
  BY DEF Init, Noticing, Answers, Honest
<1> QED
  BY <1>1, InitType, StepType, StepAnswers, StepHonest, PTL DEF Spec
=============================================================================
