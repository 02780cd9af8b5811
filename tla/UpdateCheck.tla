----------------------------- MODULE UpdateCheck ----------------------------
(***************************************************************************)
(* The hourly update check (update.go) and the run loop it is part of      *)
(* (main.go:cmdRun): the check is made before the first pass and again on   *)
(* the ticker, in the goroutine that repairs the firewall and the tunnels.  *)
(* Time is counted in ticks of the ticker; a version is the tuple of its    *)
(* numbers, << >> when it does not parse.                                   *)
(***************************************************************************)
EXTENDS Naturals, Sequences

CONSTANTS
  Releases,   \* the versions the project publishes, in order
  Build,      \* Version
  UpdateCheckOn, \* cfg.UpdateCheck
  MayDie,     \* the sources that may never answer
  CheckEvery, \* checkEvery, in ticks
  Timeout,    \* updateTimeout, in ticks
  Budget      \* how many requests may fail: bounds the behaviours only

Sources == 1 .. 2

ASSUME VersionsAssumption ==
  /\ Build \in Seq(Nat) /\ Build # << >>
  /\ Releases \in Seq(Seq(Nat)) /\ \A i \in DOMAIN Releases : Releases[i] # << >>
ASSUME TimesAssumption ==
  /\ CheckEvery \in Nat \ {0} /\ Timeout \in Nat /\ Budget \in Nat
  /\ UpdateCheckOn \in BOOLEAN /\ MayDie \subseteq Sources

-----------------------------------------------------------------------------
(* newerVersion: field by field, a missing field counts as 0.              *)

Field(v, i) == IF i \in DOMAIN v THEN v[i] ELSE 0
Longer(a, b) == IF Len(a) >= Len(b) THEN Len(a) ELSE Len(b)

NewerVersion_Prefix(a, b) ==
  \E i \in DOMAIN a : i \in DOMAIN b /\ a[i] > b[i] /\ \A j \in 1 .. i - 1 : a[j] = b[j]
NewerVersion(a, b) ==
  LET from[i \in 1 .. Longer(a, b) + 1] ==
        IF i > Longer(a, b) THEN FALSE
        ELSE IF Field(a, i) # Field(b, i) THEN Field(a, i) > Field(b, i)
        ELSE from[i + 1]
  IN  from[1]

-----------------------------------------------------------------------------
VARIABLES
  published, \* how many of Releases are out
  dead,      \* the sources that never answer
  behind,    \* the second source, a copy, may still hold the release before
  pc,        \* "boot", "ask1" or "ask2" (the source being asked), "refresh", "idle"
  upd,       \* UpdateState
  was,       \* upd.Available before this check
  first,     \* this is the check cmdRun makes before its loop
  since,     \* time since lastUpdateCheck, CheckEvery when that long ago
  due,       \* the ticker: 1 when a tick is waiting
  took,      \* how long the request has taken
  gap,       \* time since the last pass, or since the start
  said,      \* the releases announced, in order
  left       \* the failures still allowed

checker == << upd, was, first, since, said >>
vars == << published, dead, behind, pc, checker, due, took, gap, left >>

NoUpdate == [latest |-> << >>, available |-> FALSE, checked |-> FALSE]
MaxGap == 1 + 2 * Timeout  \* a tick, and both sources timing out

TypeOK ==
  /\ published \in 0 .. Len(Releases) /\ behind \in BOOLEAN /\ dead \subseteq MayDie
  /\ pc \in {"boot", "ask1", "ask2", "refresh", "idle"}
  /\ upd.latest \in {<< >>} \cup {Releases[i] : i \in 1 .. published}
  /\ upd.available \in BOOLEAN /\ upd.checked \in BOOLEAN
  /\ upd.available => upd.checked
  /\ was \in BOOLEAN /\ first \in BOOLEAN
  /\ since \in 0 .. CheckEvery /\ due \in 0 .. 1 /\ took \in 0 .. Timeout
  /\ gap \in 0 .. MaxGap + 1 /\ left \in 0 .. Budget

Init ==
  /\ published \in 0 .. Len(Releases) /\ behind \in BOOLEAN /\ (behind => published > 0)
  /\ dead \in SUBSET MayDie
  /\ pc = "boot" /\ upd = NoUpdate /\ was = FALSE /\ first = TRUE
  /\ since = 0 /\ due = 0 /\ took = 0 /\ gap = 0 /\ said = << >>
  /\ left = Budget

-----------------------------------------------------------------------------
Ask(s) == IF s = 1 THEN "ask1" ELSE "ask2"
Answer(s) == IF s = 2 /\ behind THEN published - 1 ELSE published

\* cmdRun: lastUpdateCheck is set whether or not the check is on.
Boot ==
  /\ pc = "boot" /\ since' = 0 /\ took' = 0
  /\ pc' = IF UpdateCheckOn THEN "ask1" ELSE "refresh"
  /\ UNCHANGED << published, dead, behind, upd, was, first, said, due, gap, left >>

\* The case of the ticker.
Tick ==
  /\ pc = "idle" /\ due = 1 /\ due' = 0
  /\ IF UpdateCheckOn /\ since >= CheckEvery
       THEN pc' = "ask1" /\ since' = 0 /\ was' = upd.available /\ took' = 0
       ELSE pc' = "refresh" /\ UNCHANGED << since, was, took >>
  /\ UNCHANGED << published, dead, behind, upd, first, said, gap, left >>

\* checkUpdate has returned; a newer release is announced.
Said_Always(new) == new.available
Said(new) == new.available /\ (first \/ ~was)
Checked(new) ==
  /\ pc' = "refresh" /\ upd' = new /\ first' = FALSE
  /\ said' = IF Said(new) THEN Append(said, new.latest) ELSE said
  /\ UNCHANGED << was, since >>

\* fetchUpdateFrom: a file that verifies.  One that names no version is no answer.
Fetched(s) ==
  /\ pc = Ask(s) /\ s \notin dead
  /\ Checked(IF Answer(s) = 0 THEN NoUpdate
             ELSE LET v == Releases[Answer(s)] IN
               [latest |-> v, available |-> NewerVersion(v, Build), checked |-> TRUE])
  /\ UNCHANGED << published, dead, behind, due, took, gap, left >>

\* Anything else (no route, a time-out, HTTP 500, a bad signature): the next source.
NextSource_None(s) == "none"
NextSource_Again(s) == "ask2"
NextSource(s) == IF s = 1 THEN "ask2" ELSE "none"
NotFetched(s) ==
  /\ pc = Ask(s)
  /\ \/ s \in dead /\ took = Timeout /\ UNCHANGED left
     \/ s \notin dead /\ left > 0 /\ left' = left - 1
  /\ took' = 0
  /\ IF NextSource(s) = "none" THEN Checked(NoUpdate)
     ELSE pc' = NextSource(s) /\ UNCHANGED checker
  /\ UNCHANGED << published, dead, behind, due, gap >>

\* repairFirewall, recoverTunnels and the routing: the modules Firewall, Recovery, Routing.
Refresh ==
  /\ pc = "refresh" /\ pc' = "idle" /\ gap' = 0
  /\ UNCHANGED << published, dead, behind, checker, due, took, left >>

Daemon == \/ Boot \/ Tick \/ Refresh
          \/ \E s \in Sources : Fetched(s) \/ NotFetched(s)

\* A request may last until its timeout; everything else takes no time.
Elapse ==
  /\ \/ pc = "idle" /\ due = 0 /\ UNCHANGED took
     \/ pc \in {"ask1", "ask2"} /\ took < Timeout /\ took' = took + 1
  /\ due' = 1
  /\ since' = IF since < CheckEvery THEN since + 1 ELSE since
  /\ gap' = IF gap > MaxGap THEN gap ELSE gap + 1
  /\ UNCHANGED << published, dead, behind, pc, upd, was, first, said, left >>

Publish ==
  /\ published < Len(Releases) /\ published' = published + 1 /\ behind' = TRUE
  /\ UNCHANGED << dead, pc, checker, due, took, gap, left >>
CatchUp ==
  /\ behind /\ behind' = FALSE
  /\ UNCHANGED << published, dead, pc, checker, due, took, gap, left >>

Next == Daemon \/ Elapse \/ Publish \/ CatchUp

Spec     == Init /\ [][Next]_vars
FairSpec == Spec /\ WF_vars(Daemon) /\ WF_vars(Elapse) /\ WF_vars(CatchUp)

-----------------------------------------------------------------------------
(* Properties.                                                              *)

\* The reference order: pad to one length with zeros, then the first difference decides.
Padded(v, n) == [i \in 1 .. n |-> Field(v, i)]
Lexicographic(a, b) ==
  \E i \in DOMAIN a : a[i] > b[i] /\ \A j \in 1 .. i - 1 : a[j] = b[j]
\* What is announced and reported is a release later than this build, in the order of
\* versions as numbers: 1.10 after 1.9, 1.9.1 after 1.9, 1.9 not after 1.9.0
\* (update.go:157-162).
AvailableIsNewer ==
  upd.checked =>
    (upd.available <=> LET n == Longer(upd.latest, Build)
                       IN  Lexicographic(Padded(upd.latest, n), Padded(Build, n)))

\* While no request fails and the copy is never behind, a release is not announced twice,
\* nor is any reminder given (main.go:267-268).
NoFailure == left = Budget /\ dead = {}
SaidOnce == NoFailure => Len(said) <= 1

\* "If a newer release exists it says so, once, in the log" (update.go:17-19), whatever
\* fails in between.
NeverRepeats == \A i, j \in DOMAIN said : said[i] = said[j] => i = j

\* The first source can never matter: with one of the two dead, and after any failures
\* of the other, the newest release ends up in `status` for good (update.go:49-52).
EventuallyKnown ==
  UpdateCheckOn /\ Releases # << >> =>
    <>[](published > 0 /\ pc = "idle" => upd.latest = Releases[published])

\* A check that gets no answer holds the next pass back by at most the two timeouts.
BoundedDelay == gap <= MaxGap
=============================================================================
