------------------------------ MODULE TunnelDir -----------------------------
(***************************************************************************)
(* The tunnel directory (tunneldir.go, wgnormalise.go, settings.go): the    *)
(* run loop, the handlers of the settings page and a person with a file     *)
(* share work on it at the same time and without a lock.                    *)
(*                                                                          *)
(* One step is one system call on a file.  A path names an inode, so what   *)
(* is written through an open file is found wherever that file was renamed. *)
(***************************************************************************)
EXTENDS Integers, FiniteSets

CONSTANTS
  Names,       \* names of configs, in the order the directory lists them
  Safe,        \* safeName of each: the name of its working copy and of its interface,
               \* 0 when the name is refused
  Versions,    \* contents of a usable config
  Installed,   \* files that have been there, and been running, for long
  FirstText,   \* what they hold
  Uploaders,   \* POST /api/tunnels requests
  Getters,     \* GET /api/tunnels requests
  Deleters,    \* DELETE /api/tunnels/<name> requests
  Droppers,    \* files copied into the directory over the share
  About,       \* the name each of these is about
  KeepsTime,   \* TRUE: the share's client restores the file's old time
  Casts,       \* the sets of those processes that may be at work in one behaviour
  Together,    \* the casts that act at the same time; the others act one at a time,
               \* a request or a drop between two passes
  MaxTunnels   \* 5 in the code

Loop  == "loop"
Procs == Uploaders \cup Getters \cup Deleters \cup Droppers \cup {Loop}
Kinds == {"src", "src.partial", "copy", "copy.partial"}
Partial(k) == IF k = "src" THEN "src.partial" ELSE "copy.partial"
Path  == Names \X Kinds
Inodes == 1 .. 4 * Cardinality(Names) + Cardinality(Procs)

ASSUME ActorsAssumption ==
  /\ IsFiniteSet(Names) /\ Names # {} /\ Names = 1 .. Cardinality(Names)
  /\ IsFiniteSet(Procs) /\ Loop \notin Uploaders \cup Getters \cup Deleters \cup Droppers
  /\ Uploaders \cap (Getters \cup Deleters \cup Droppers) = {}
  /\ Getters \cap (Deleters \cup Droppers) = {} /\ Deleters \cap Droppers = {}
  /\ Installed \subseteq Names /\ FirstText \in Versions
  /\ About \in [Procs \ {Loop} -> Names]
  /\ Casts \subseteq SUBSET (Procs \ {Loop}) /\ Together \subseteq Casts
  /\ Versions \cap {"torn", "bad", "none"} = {}
  /\ KeepsTime \in BOOLEAN /\ MaxTunnels \in Nat

ASSUME NamingAssumption ==
  /\ Safe \in [Names -> Names \cup {0}] /\ 0 \notin Names
  /\ \A n \in Names : Safe[n] # 0 => Safe[Safe[n]] = Safe[n]
  /\ \A n \in Installed : Safe[n] = n

\* A file holds a version, something that is no config, or the first part of a write.
\* `table` is whether it says "Table = off" and names no resolver.
Texts == Versions \cup {"bad", "torn"}
File  == [text : Texts, table : BOOLEAN, time : Nat]

VARIABLES
  fs,      \* the inode at each path, 0 when there is none
  data,    \* what each inode holds
  clock,   \* the time of the last write
  running, \* the text each interface was brought up with, "none" when it is down
  cast,    \* who is at work, besides the run loop
  pc,
  text,    \* what a request uploads or drops
  at,      \* the file the process is writing, and ...
  kind,    \* ... whether the source or the working copy
  buf,     \* what it is to write
  fd,      \* the inode it has open
  todo,    \* the files of the listing it has not come to
  out      \* those it has a working copy of

disk    == << fs, data, clock >>
work    == << at, kind, buf, fd >>
list    == << todo, out >>
vars    == << disk, running, cast, pc, text, work, list >>

PCs == {"idle", "list", "read", "open", "write", "rename", "up", "unlink_copy",
        "copying", "done", "failed"}

TypeOK ==
  /\ fs \in [Path -> {0} \cup Inodes] /\ data \in [Inodes -> File]
  /\ running \in [Names -> Texts \cup {"none"}]
  /\ cast \in Casts /\ pc \in [Procs -> PCs]
  /\ text \in [Procs -> Texts]
  /\ at \in [Procs -> Names] /\ kind \in [Procs -> {"src", "copy"}]
  /\ buf \in [Procs -> Texts] /\ fd \in [Procs -> {0} \cup Inodes]
  /\ todo \in [Procs -> SUBSET Names] /\ out \in [Procs -> SUBSET Names]
  /\ \A a, b \in Path : fs[a] = fs[b] /\ fs[a] # 0 => a = b

FirstFs(n, k) ==
  IF n \notin Installed THEN 0
  ELSE CASE k = "src" -> 2 * n - 1 [] k = "copy" -> 2 * n [] OTHER -> 0

Init ==
  /\ fs = [a \in Path |-> FirstFs(a[1], a[2])] /\ clock = 0
  /\ data = [m \in Inodes |-> [text |-> FirstText, table |-> m % 2 = 0, time |-> 0]]
  /\ running = [n \in Names |-> IF n \in Installed THEN FirstText ELSE "none"]
  /\ cast \in Casts
  /\ pc = [p \in Procs |-> "idle"] /\ text \in [Procs -> Versions \cup {"bad"}]
  /\ \A p \in Procs \ ((Uploaders \cup Droppers) \cap cast) : text[p] = FirstText
  /\ at = [p \in Procs |-> CHOOSE n \in Names : TRUE] /\ kind = [p \in Procs |-> "copy"]
  /\ buf = text /\ fd = [p \in Procs |-> 0]
  /\ todo = [p \in Procs |-> {}] /\ out = [p \in Procs |-> {}]

-----------------------------------------------------------------------------
(* The file system.                                                        *)

Exists(n, k) == fs[<< n, k >>] # 0
At(n, k)     == data[fs[<< n, k >>]]
Sources      == {n \in Names : Exists(n, "src")}
Unused  == Inodes \ ({fs[a] : a \in Path} \cup {fd[p] : p \in Procs})
AnInode == CHOOSE m \in Unused : TRUE

\* Every write is later than the one before.
Put(m, t, table) ==
  /\ clock' = clock + 1
  /\ data' = [data EXCEPT ![m] = [text |-> t, table |-> table, time |-> clock + 1]]

Goto(p, l) == pc' = [pc EXCEPT ![p] = l]

\* A request arrives, a pass begins.
Quiet    == \A p \in Procs : pc[p] \in {"idle", "done", "failed"}
Begin(p) ==
  pc[p] = "idle" /\ p \in cast \cup {Loop} /\ (cast \notin Together => Quiet)

-----------------------------------------------------------------------------
(* normaliseUpload: the texts that may come of one, none when it is         *)
(* rejected.  A file cut short lacks a key or a peer, or passes.            *)

Normalised(t) == IF t = "bad" THEN {} ELSE {t}
Rejected(t)   == t \in {"bad", "torn"}

-----------------------------------------------------------------------------
(* tunnelPaths, called by the run loop, by GET and by POST: the directory   *)
(* is read once, then each file of it is given a working copy.              *)

\* What a POST or a DELETE is about: its name goes through safeName again.
Target(p) == Safe[About[p]]

\* A POST lists only when its name is good and it replaces no file.
Lists(p) == \/ p \in Getters \cup {Loop}
            \/ p \in Uploaders /\ Target(p) # 0 /\ ~Exists(Target(p), "src")
List_Cached(p) ==
  /\ Begin(p) /\ Lists(p) /\ Goto(p, "list")
  /\ todo' = [todo EXCEPT ![p] = IF p = Loop THEN Installed ELSE Sources]
  /\ out' = [out EXCEPT ![p] = {}]
  /\ UNCHANGED << disk, running, cast, text, work >>
List(p) ==
  /\ Begin(p) /\ Lists(p) /\ Goto(p, "list")
  /\ todo' = [todo EXCEPT ![p] = Sources] /\ out' = [out EXCEPT ![p] = {}]
  /\ UNCHANGED << disk, running, cast, text, work >>

\* The copy is kept unless the file has been written since.
Fresh_Exists(n) == Exists(Safe[n], "copy")
Fresh(n) == Exists(Safe[n], "copy") /\ At(n, "src").time <= At(Safe[n], "copy").time

\* normalisedCopy up to its read.  A file that has gone, or whose name is refused, is
\* skipped.
Skipped(n) == Safe[n] = 0 \/ ~Exists(n, "src")
Stat(p, n) ==
  /\ pc[p] = "list" /\ n \in todo[p]
  /\ todo' = [todo EXCEPT ![p] = @ \ {n}]
  /\ IF ~Skipped(n) /\ ~Fresh(n)
       THEN Goto(p, "read") /\ at' = [at EXCEPT ![p] = n] /\ UNCHANGED out
       ELSE /\ out' = [out EXCEPT ![p] = IF Skipped(n) THEN @ ELSE @ \cup {Safe[n]}]
            /\ UNCHANGED << pc, at >>
  /\ UNCHANGED << disk, running, cast, text, kind, buf, fd >>

Read(p) ==
  /\ pc[p] = "read"
  /\ \/ /\ Exists(at[p], "src")
        /\ \E t \in Normalised(At(at[p], "src").text) :
             buf' = [buf EXCEPT ![p] = t] /\ Goto(p, "open")
     \/ /\ Exists(at[p], "src") => Rejected(At(at[p], "src").text)
        /\ Goto(p, "list") /\ UNCHANGED buf
  /\ kind' = [kind EXCEPT ![p] = "copy"]
  /\ UNCHANGED << disk, running, cast, text, at, fd, list >>

-----------------------------------------------------------------------------
(* os.WriteFile to "<dest>.partial", then os.Rename.                        *)

Dest(p) == IF kind[p] = "src" THEN at[p] ELSE Safe[at[p]]
Tmp(p)  == << Dest(p), Partial(kind[p]) >>

\* A file that is there is emptied, whoever has it open.
Open_NothingWritten(p) ==
  /\ pc[p] = "open" /\ Goto(p, "rename")
  /\ LET m == IF fs[Tmp(p)] = 0 THEN AnInode ELSE fs[Tmp(p)] IN
       /\ fs' = [fs EXCEPT ![Tmp(p)] = m] /\ UNCHANGED fd
       /\ Put(m, "torn", TRUE)
  /\ UNCHANGED << running, cast, text, at, kind, buf, list >>
Open(p) ==
  /\ pc[p] = "open" /\ Goto(p, "write")
  /\ LET m == IF fs[Tmp(p)] = 0 THEN AnInode ELSE fs[Tmp(p)] IN
       /\ fs' = [fs EXCEPT ![Tmp(p)] = m] /\ fd' = [fd EXCEPT ![p] = m]
       /\ Put(m, "torn", TRUE)
  /\ UNCHANGED << running, cast, text, at, kind, buf, list >>

Write(p) ==
  /\ pc[p] = "write" /\ Goto(p, "rename")
  /\ Put(fd[p], buf[p], TRUE) /\ fd' = [fd EXCEPT ![p] = 0]
  /\ UNCHANGED << fs, running, cast, text, at, kind, buf, list >>

Renamed(n, k) ==
  [fs EXCEPT ![<< n, k >>] = fs[<< n, Partial(k) >>], ![<< n, Partial(k) >>] = 0]

\* The partial file has gone if another process was writing it too.
Rename(p) ==
  /\ pc[p] = "rename"
  /\ IF fs[Tmp(p)] = 0
       THEN /\ Goto(p, IF kind[p] = "src" THEN "failed" ELSE "list")
            /\ UNCHANGED << fs, out >>
       ELSE /\ fs' = Renamed(Dest(p), kind[p])
            /\ IF kind[p] = "src" THEN Goto(p, "done") /\ UNCHANGED out
               ELSE Goto(p, "list") /\ out' = [out EXCEPT ![p] = @ \cup {Dest(p)}]
  /\ UNCHANGED << data, clock, running, cast, text, work, todo >>

-----------------------------------------------------------------------------
(* What the callers do with the listing.                                   *)

Listed(p) == pc[p] = "list" /\ todo[p] = {}

\* GET: the answer is written.
Get(p) ==
  /\ p \in Getters /\ Listed(p) /\ Goto(p, "done")
  /\ UNCHANGED << disk, running, cast, text, work, list >>

\* POST: the cap, then the upload is checked and written.
UnderCap_Sources(p) == Cardinality(out[p]) <= MaxTunnels
UnderCap(p) == Cardinality(out[p]) < MaxTunnels
Upload(p) ==
  /\ p \in Uploaders
  /\ \/ Begin(p) /\ ~Lists(p)
     \/ Listed(p)
  /\ IF Target(p) # 0 /\ (pc[p] = "idle" \/ UnderCap(p)) /\ ~Rejected(text[p])
       THEN Goto(p, "open") /\ at' = [at EXCEPT ![p] = Target(p)]
       ELSE Goto(p, "failed") /\ UNCHANGED at
  /\ kind' = [kind EXCEPT ![p] = "src"]
  /\ buf' = [buf EXCEPT ![p] = text[p]]
  /\ UNCHANGED << disk, running, cast, text, fd, list >>

\* The run loop: the first MaxTunnels are its tunnels ...
Capped(s) == {n \in s : Cardinality({m \in s : m < n}) < MaxTunnels}
Tunnels(p) ==
  /\ p = Loop /\ Listed(p) /\ Goto(p, "up")
  /\ out' = [out EXCEPT ![p] = Capped(@)]
  /\ UNCHANGED << disk, running, cast, text, work, todo >>

\* ... and those that are down are brought up, from whatever the copy then holds.
Up(n) ==
  /\ pc[Loop] = "up" /\ n \in out[Loop]
  /\ out' = [out EXCEPT ![Loop] = @ \ {n}]
  /\ running' = IF running[n] = "none" /\ Exists(n, "copy")
                THEN [running EXCEPT ![n] = At(n, "copy").text] ELSE running
  /\ UNCHANGED << disk, cast, pc, text, work, todo >>
EndOfPass ==
  /\ pc[Loop] = "up" /\ out[Loop] = {} /\ Goto(Loop, "idle")
  /\ UNCHANGED << disk, running, cast, text, work, list >>

\* DELETE: the source, then the copy.
Delete(p) ==
  /\ p \in Deleters /\ Begin(p)
  /\ IF Target(p) # 0 /\ Exists(Target(p), "src")
       THEN fs' = [fs EXCEPT ![<< Target(p), "src" >>] = 0] /\ Goto(p, "unlink_copy")
       ELSE Goto(p, "failed") /\ UNCHANGED fs
  /\ UNCHANGED << data, clock, running, cast, text, work, list >>
DeleteCopy(p) ==
  /\ pc[p] = "unlink_copy" /\ Goto(p, "done")
  /\ fs' = [fs EXCEPT ![<< Target(p), "copy" >>] = 0]
  /\ UNCHANGED << data, clock, running, cast, text, work, list >>

\* A file copied in over the share: created, filled, its time perhaps set back.
Drop(p) ==
  /\ p \in Droppers /\ Begin(p) /\ Goto(p, "copying")
  /\ LET m == IF Exists(About[p], "src") THEN fs[<< About[p], "src" >>] ELSE AnInode IN
       /\ fs' = [fs EXCEPT ![<< About[p], "src" >>] = m] /\ fd' = [fd EXCEPT ![p] = m]
       /\ Put(m, "torn", FALSE)
  /\ UNCHANGED << running, cast, text, at, kind, buf, list >>
Dropped(p) ==
  /\ pc[p] = "copying" /\ Goto(p, "done")
  /\ clock' = clock + 1
  /\ data' = [data EXCEPT ![fd[p]] =
       [text |-> text[p], table |-> FALSE, time |-> IF KeepsTime THEN 0 ELSE clock + 1]]
  /\ fd' = [fd EXCEPT ![p] = 0]
  /\ UNCHANGED << fs, running, cast, text, at, kind, buf, list >>

Step(p) ==
  \/ List(p) \/ (\E n \in Names : Stat(p, n)) \/ Read(p) \/ Open(p) \/ Write(p) \/ Rename(p)
  \/ Get(p) \/ Upload(p) \/ Tunnels(p)
  \/ p = Loop /\ ((\E n \in Names : Up(n)) \/ EndOfPass)
  \/ Delete(p) \/ DeleteCopy(p) \/ Drop(p) \/ Dropped(p)

Next == \E p \in Procs : Step(p)

\* The ticker keeps the run loop going, and a request that has begun is served.
Served == \A p \in Procs : WF_vars(pc[p] # "idle" /\ Step(p))
Spec     == Init /\ [][Next]_vars
FairSpec == Spec /\ Served /\ WF_vars(Step(Loop))

-----------------------------------------------------------------------------
(* Properties.                                                              *)

\* No interface is brought up from part of a file: it is written under another name and
\* renamed (settings.go:280-281, tunneldir.go:149-150).
NeverTorn == \A n \in Names : running[n] # "torn"

\* The working copy of a file catches up with it: it is refreshed when the original has
\* changed (tunneldir.go:120-122), and says "Table = off" whatever the original says.
Usable(n) == Exists(n, "src") /\ Safe[n] # 0 /\ At(n, "src").text \in Versions
CopyFollows ==
  <>[](\A n \in Names : Usable(n) =>
         /\ Exists(Safe[n], "copy") /\ At(Safe[n], "copy").table
         /\ At(Safe[n], "copy").text = At(n, "src").text)

\* What was added is what runs, "on the next pass, within about 15 seconds"
\* (settings.go:299).
Runs(n) == Usable(n) => running[Safe[n]] = At(n, "src").text
GoodDrops == \A p \in Droppers : ~Rejected(text[p])
UploadRuns == GoodDrops => <>[](\A n \in Names \ Installed : Runs(n))

\* The same of a file that takes the place of one that runs.
ReplacedRuns == <>[](\A n \in Names : Runs(n))

\* A file that a POST has accepted becomes a tunnel: going over the cap "would leave a
\* config on disk that never becomes a tunnel" (settings.go:245-247).  A file that was copied
\* in and is rejected is not counted, and may be replaced by one that is.
CapHolds ==
  GoodDrops => Cardinality({n \in Sources : Safe[n] # 0}) <= MaxTunnels

\* A tunnel that was removed stops: the working copy is removed with it "or the tunnel is
\* rebuilt from it on the next pass and the removal appears not to have worked"
\* (settings.go:333-334).
RemovedStops == \A n \in Names : <>[](~Exists(n, "src")) => <>[](running[n] = "none")
=============================================================================
