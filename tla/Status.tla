------------------------------- MODULE Status -------------------------------
(***************************************************************************)
(* What the gateway says of itself: one pass of the run loop                *)
(* (main.go:refresh), which repairs, recovers, plans and then builds the    *)
(* status document that /status and /healthz serve until the next pass      *)
(* (status.go:buildStatus, serveStatus), and `bondvpn status`, which builds *)
(* one of its own (main.go:cmdStatus).                                      *)
(*                                                                         *)
(* The document is not a snapshot.  Its facts are read one by one while     *)
(* tunnels come and go, files are added and other programs take rules away. *)
(* One step is one question or one repair; how a repair goes about it is    *)
(* the business of Firewall, Recovery and Routing.  A behaviour is that of  *)
(* the daemon or that of one `bondvpn status` after another: to the second  *)
(* the daemon is part of the world.                                        *)
(***************************************************************************)
EXTENDS Naturals, Sequences, FiniteSets

CONSTANTS
  Tunnels,     \* the tunnels that may be configured
  Pinned,      \* cfg.Pinned
  TunnelDir,   \* whether cfg.TunnelDir is set: the gateway may start with no tunnel
  Has6,        \* whether ip6tables can install a rule here
  MaxUpsets    \* how often the world changes: a bound only

Rules == {"nat", "dns", "v4", "v6"}
\* The order in which buildStatus asks.
Questions == << "nat", "dns", "v4", "v6" >>

ASSUME StatusAssumption ==
  /\ Tunnels \in Seq(STRING) /\ Pinned \in Seq(STRING)
  /\ TunnelDir \in BOOLEAN /\ Has6 \in BOOLEAN /\ MaxUpsets \in Nat
  /\ \A i, j \in DOMAIN Tunnels : Tunnels[i] = Tunnels[j] => i = j

Named == {Tunnels[i] : i \in DOMAIN Tunnels}

VARIABLES
  paths,     \* the tunnels that are configured
  link,      \* what each tunnel is: "down", "silent" (no recent handshake) or "live"
  rule,      \* which firewall rules are there
  routed,    \* whether the kernel routes the clients as the last plan says
  forwards6, \* whether the kernel forwards IPv6
  conf,      \* the worst that is wrong with a tunnel's file: "", "warn" or "fatal"
  who,       \* the process that builds documents: "daemon" or "cli"
  pc, asked, \* where it is, and in which question
  seen,      \* what readTunnels has found: the state of each tunnel, or "absent"
  found,     \* the answers so far
  report,    \* the document it has made
  current,   \* the document served
  held,      \* history: what has been so since the tunnels were read for the document
  left       \* upsets still allowed

world  == << paths, link, rule, routed, forwards6, conf >>
reader == << who, pc, asked, seen, found, report >>
vars   == << world, reader, current, held, left >>

\* ipv6Blocked: nothing to block where nothing is forwarded.
Blocked6(r, f6) == r["v6"] \/ ~f6

-----------------------------------------------------------------------------
(* The document (buildStatus).  A problem fails /healthz, a warning does not. *)

Live(s)   == SelectSeq(Tunnels, LAMBDA t : s[t] = "live")
\* Plan.Pins and DistinctPins.
PinOf(s, i) == Live(s)[((i - 1) % Len(Live(s))) + 1]
LastEntry(i) == \A j \in DOMAIN Pinned : Pinned[j] = Pinned[i] => j <= i
DistinctPins(s) == Cardinality({PinOf(s, i) : i \in {j \in DOMAIN Pinned : LastEntry(j)}})

Unconfigured == paths = {} /\ TunnelDir

TunnelProblems_DownOnly(s) ==
  {<< "down", t >> : t \in {u \in Named : s[u] = "down"}}
  \cup (IF Live(s) = << >> /\ ~Unconfigured THEN {<< "none" >>} ELSE {})

TunnelProblems(s) ==
  {<< "down", t >> : t \in {u \in Named : s[u] = "down"}}
  \cup {<< "silent", t >> : t \in {u \in Named : s[u] = "silent"}}
  \cup (IF Live(s) = << >> /\ ~Unconfigured THEN {<< "none" >>} ELSE {})
  \cup (IF Len(Pinned) > 1 /\ Len(Live(s)) > 1 /\ DistinctPins(s) = 1
        THEN {<< "pins" >>} ELSE {})

RuleProblems(f) ==
  {<< q >> : q \in {r \in Rules \ {"v6"} : ~f[r]}}
  \cup (IF ~f["v6"] /\ forwards6 THEN {<< "v6" >>} ELSE {})

Document_WarningsFail(s, f) ==
  [problems |-> TunnelProblems(s) \cup RuleProblems(f)
                \cup (IF conf # "" THEN {<< "conf" >>} ELSE {}),
   warnings |-> (IF Live(s) = << >> /\ Unconfigured THEN {<< "none" >>} ELSE {})]

Document(s, f) ==
  [problems |-> TunnelProblems(s) \cup RuleProblems(f)
                \cup (IF conf = "fatal" THEN {<< "conf" >>} ELSE {}),
   warnings |-> (IF Live(s) = << >> /\ Unconfigured THEN {<< "none" >>} ELSE {})
                \cup (IF ~f["v6"] /\ ~forwards6 THEN {<< "v6" >>} ELSE {})
                \cup (IF conf = "warn" THEN {<< "conf" >>} ELSE {})]

NoDocument == [problems |-> {<< "unpublished" >>}, warnings |-> {}]

\* /healthz
Healthy == current.problems = {}

-----------------------------------------------------------------------------
\* The tunnels in service, the rules and the files, all as they should be.
AllWell ==
  /\ paths # {} \/ TunnelDir
  /\ \A t \in paths : link[t] = "live"
  /\ \A q \in Rules \ {"v6"} : rule[q]
  /\ Blocked6(rule, forwards6)
  /\ conf # "fatal"

Now == {<< t, link[t] >> : t \in Named} \cup {<< q, rule[q] >> : q \in Rules \ {"v6"}}
       \cup {<< "v6", Blocked6(rule, forwards6) >>, << "conf", conf >>,
             << "routed", routed >>}
\* What has been so while the reader is reading.
Notice == held' = IF pc \in {"apply", "ask"} THEN held \cup Now' ELSE held

\* Where no file is configured nothing is there to be read.
Linked(l, ps) == [t \in Named |-> IF t \in ps THEN l[t] ELSE "absent"]

Unseen  == [t \in Named |-> "absent"]
Unasked == [q \in Rules |-> FALSE]

Init ==
  /\ paths \in (IF TunnelDir THEN {{}, Named} ELSE {Named})
  /\ link \in [Named -> {"down", "live"}]
  /\ rule = [q \in Rules |-> q = "v6" => Has6] /\ routed = FALSE
  /\ forwards6 \in (IF Has6 THEN BOOLEAN ELSE {FALSE})
  /\ conf = ""
  /\ who \in {"daemon", "cli"}
  /\ pc = "idle" /\ asked = 0 /\ seen = Unseen /\ found = Unasked
  /\ report = NoDocument /\ current = NoDocument /\ held = {}
  /\ left = MaxUpsets

At(here, next) == pc = here /\ pc' = next /\ who' = who

-----------------------------------------------------------------------------
(* One pass.                                                               *)

\* The tunnels are read a first time, for the recovery.
Begin ==
  /\ who = "daemon" /\ At("idle", "killswitch")
  /\ seen' = Linked(link, paths)
  /\ UNCHANGED << world, asked, found, report, current, held, left >>

\* repairFirewall.  A machine whose ip6tables can install nothing but that forwards IPv6
\* keeps failing here, pass after pass.
RepairKillSwitch ==
  /\ At("killswitch", "nat")
  /\ rule' = IF rule["v4"] /\ Blocked6(rule, forwards6) THEN rule
             ELSE [rule EXCEPT !["v4"] = TRUE, !["v6"] = Has6]
  /\ UNCHANGED << paths, link, routed, forwards6, conf, asked, seen, found, report, current,
                  left >>
  /\ Notice

RepairNAT ==
  /\ At("nat", "dns")
  /\ rule' = [rule EXCEPT !["nat"] = TRUE]
  /\ UNCHANGED << paths, link, routed, forwards6, conf, asked, seen, found, report, current,
                  left >>
  /\ Notice

RepairDNS ==
  /\ At("dns", "recover")
  /\ rule' = [rule EXCEPT !["dns"] = TRUE]
  /\ UNCHANGED << paths, link, routed, forwards6, conf, asked, seen, found, report, current,
                  left >>
  /\ Notice

\* recoverTunnels: those that were not live may be started or cycled, when their backoff is
\* over, and come up or not.  None has a handshake yet.
Recover ==
  /\ At("recover", "reread")
  /\ \E tried \in SUBSET {t \in Named : seen[t] \in {"down", "silent"}} :
     \E up \in SUBSET tried :
       link' = [t \in Named |-> IF t \notin tried THEN link[t]
                                ELSE IF t \in up THEN "silent" ELSE "down"]
  /\ UNCHANGED << paths, rule, routed, forwards6, conf, asked, seen, found, report, current,
                  left >>
  /\ Notice

\* Read again, "so the plan is built from what is true after the recovery".
Reread_Not ==
  /\ \/ who = "daemon" /\ At("reread", "apply")
     \/ who = "cli" /\ At("idle", "ask")
  /\ seen' = IF who = "cli" THEN Linked(link, paths) ELSE seen
  /\ asked' = 1
  /\ held' = Now
  /\ UNCHANGED << world, found, report, current, left >>
Reread ==
  /\ \/ who = "daemon" /\ At("reread", "apply")
     \/ who = "cli" /\ At("idle", "ask")
  /\ seen' = Linked(link, paths)
  /\ asked' = 1
  /\ held' = Now
  /\ UNCHANGED << world, found, report, current, left >>

\* The plan is applied where it is not yet, or that fails, with a warning in the log.
Apply ==
  /\ At("apply", "ask")
  /\ \/ routed' = TRUE /\ left' = left
     \/ routed' = FALSE /\ left > 0 /\ left' = left - 1
  /\ UNCHANGED << paths, link, rule, forwards6, conf, asked, seen, found, report, current >>
  /\ Notice

Ask ==
  /\ pc = "ask" /\ asked \in DOMAIN Questions
  /\ LET q == Questions[asked]
     IN found' = [found EXCEPT ![q] = IF q = "v6" THEN Blocked6(rule, forwards6) ELSE rule[q]]
  /\ asked' = asked + 1
  /\ UNCHANGED << world, who, pc, seen, report, current, held, left >>

\* The files of the tunnels are read last.
Build ==
  /\ At("ask", "report") /\ asked \notin DOMAIN Questions
  /\ report' = Document(seen, found)
  /\ UNCHANGED << world, asked, seen, found, current, held, left >>

Forget == asked' = 0 /\ seen' = Unseen /\ found' = Unasked /\ report' = NoDocument /\ held' = {}

\* The daemon serves the document until the next; `bondvpn status` prints it and ends.
Publish ==
  /\ At("report", "idle")
  /\ current' = IF who = "daemon" THEN report ELSE current
  /\ Forget
  /\ UNCHANGED << world, left >>

-----------------------------------------------------------------------------
(* The world.                                                              *)

Upset == left > 0 /\ left' = left - 1 /\ UNCHANGED << reader, current >>

LinkChanges ==
  /\ Upset
  /\ \E t \in paths, to \in {"down", "silent", "live"} :
       link[t] # to /\ link' = [link EXCEPT ![t] = to]
  /\ UNCHANGED << paths, rule, routed, forwards6, conf >>
  /\ Notice

\* Another program, or for the command the daemon, takes a rule away or puts it back.
RuleChanges ==
  /\ Upset
  /\ \E q \in Rules : (q = "v6" => Has6) /\ rule' = [rule EXCEPT ![q] = ~@]
  /\ UNCHANGED << paths, link, routed, forwards6, conf >>
  /\ Notice

RoutesLost ==
  /\ Upset /\ routed /\ routed' = FALSE
  /\ UNCHANGED << paths, link, rule, forwards6, conf >>
  /\ Notice

\* Another program switches the forwarding of IPv6.
Forwarding ==
  /\ Upset /\ forwards6' = ~forwards6
  /\ UNCHANGED << paths, link, rule, routed, conf >>
  /\ Notice

FileEdited ==
  /\ Upset /\ paths # {}
  /\ conf' \in {"", "warn", "fatal"} \ {conf}
  /\ UNCHANGED << paths, link, rule, routed, forwards6 >>
  /\ Notice

\* Tunnels are added to the directory.
FilesAdded ==
  /\ Upset /\ paths # Named
  /\ paths' = Named
  /\ UNCHANGED << link, rule, routed, forwards6, conf >>
  /\ Notice

Pass ==
  \/ Begin \/ RepairKillSwitch \/ RepairNAT \/ RepairDNS \/ Recover \/ Reread
  \/ Apply \/ Ask \/ Build \/ Publish

World == LinkChanges \/ RuleChanges \/ RoutesLost \/ Forwarding \/ FileEdited \/ FilesAdded

Next == Pass \/ World

Spec == Init /\ [][Next]_vars
\* The ticker of the run loop never stops, and every command it runs has a deadline.
FairSpec == Spec /\ WF_vars(Pass)

-----------------------------------------------------------------------------
TypeOK ==
  /\ paths \subseteq Named /\ link \in [Named -> {"down", "silent", "live"}]
  /\ rule \in [Rules -> BOOLEAN] /\ routed \in BOOLEAN /\ forwards6 \in BOOLEAN
  /\ conf \in {"", "warn", "fatal"}
  /\ seen \in [Named -> {"absent", "down", "silent", "live"}]
  /\ found \in [Rules -> BOOLEAN] /\ asked \in 0 .. Len(Questions) + 1
  /\ left \in 0 .. MaxUpsets

\* Nothing in a document is older than the recovery of its own pass, and nothing is left out:
\* what it calls broken has been broken, and what it passes over has been well, at some moment
\* since the tunnels were read for it (main.go:refresh, status.go:buildStatus).
Honest ==
  pc = "report" =>
    LET told == report.problems
        was(f, v) == << f, v >> \in held
    IN /\ \A t \in Named : \A v \in {"down", "silent"} : << v, t >> \in told => was(t, v)
       /\ \A t \in Named :
            seen[t] # "absent" /\ {<< "down", t >>, << "silent", t >>} \cap told = {}
              => was(t, "live")
       /\ \A q \in Rules : was(q, << q >> \notin told)
       /\ << "conf" >> \in told => was("conf", "fatal")
       /\ << "conf" >> \notin told => was("conf", "") \/ was("conf", "warn")

\* No permanent false alarm: once everything is well and stays so, on whatever kernel, with or
\* without tunnels to start from, /healthz answers OK from some pass on (status.go: "a permanent
\* problem there would train people to ignore the problem list").
SettlesOk == who = "daemon" /\ <>[]AllWell => <>[]Healthy

\* No silence either: a tunnel that stays away, IPv6 that stays open or a file that stays unfit
\* is in every document from some pass on.
AlarmStays ==
  who = "daemon" =>
    /\ \A t \in Named :
         <>[](t \in paths /\ link[t] # "live")
           => <>[]({<< "down", t >>, << "silent", t >>} \cap current.problems # {})
    /\ <>[]~Blocked6(rule, forwards6) => <>[](<< "v6" >> \in current.problems)
    /\ <>[](conf = "fatal") => <>[](<< "conf" >> \in current.problems)

-----------------------------------------------------------------------------
(* What does not hold: see the README.                                     *)

\* A document without problems says that the clients are routed as planned.
OkMeansRouted ==
  pc = "report" /\ who = "daemon" /\ report.problems = {} /\ Live(seen) # << >>
    => << "routed", TRUE >> \in held
=============================================================================
