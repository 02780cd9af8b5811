-------------------------- MODULE TunnelDirProofs ---------------------------
(***************************************************************************)
(* What TLAPS proves of TunnelDir: no interface is brought up from part of  *)
(* a file, and no more files are accepted than become tunnels, for every    *)
(* directory and every set of requests.  Both hold of a daemon that serves  *)
(* one at a time, or at the same time but with a single writer of copies:   *)
(* TLC shows what two do.                                                   *)
(***************************************************************************)
EXTENDS TunnelDir, FiniteSetTheorems, TLAPS

-----------------------------------------------------------------------------
(* What is assumed of who is at work at the same time.                     *)

\* In a cast that acts at once nobody but the run loop lists while a new file is there: one
\* request adds a file, nobody reads the list, and what is copied in is refused by its name.
OneCopier ==
  \A c \in Together :
    /\ c \cap Getters = {}
    /\ \A p, q \in c \cap Uploaders : p = q
    /\ \A p \in c \cap Droppers : Safe[About[p]] = 0

\* No more than the cap to begin with, and a file copied in takes the place of one that is
\* there and stays, or is refused by its name.
DropsReplace ==
  /\ Cardinality(Installed) <= MaxTunnels
  /\ \A c \in Casts : \A p \in c \cap Droppers :
       \/ Safe[About[p]] = 0
       \/ About[p] \in Installed /\ \A d \in c \cap Deleters : Target(d) # About[p]

-----------------------------------------------------------------------------
(* The invariants.                                                         *)

Busy(p) == pc[p] \notin {"idle", "done", "failed"}
Writing == {"open", "write", "rename"}
Copying(p)   == pc[p] = "read" \/ (pc[p] \in Writing /\ kind[p] = "copy")
Uploading(p) == pc[p] \in Writing /\ kind[p] = "src"

TypeInv ==
  /\ TypeOK /\ clock \in Nat
  /\ text \in [Procs -> Versions \cup {"bad"}]

\* Who can be where, and with what in hand.
PlaceInv ==
  \A p \in Procs :
    /\ pc[p] # "idle" => p \in cast \cup {Loop}
    /\ pc[p] = "list" \/ Copying(p) => p \in Getters \cup Uploaders \cup {Loop}
    /\ Uploading(p) => p \in Uploaders /\ Safe[at[p]] = at[p]
    /\ Copying(p) => Safe[at[p]] # 0
    /\ pc[p] = "up" => p = Loop
    /\ pc[p] = "unlink_copy" => p \in Deleters /\ Target(p) # 0
    /\ pc[p] = "copying" => p \in Droppers

\* One at a time is at work, if the cast says so.
AloneInv ==
  cast \notin Together => \A p, q \in Procs : Busy(p) /\ Busy(q) => p = q

\* At the same time: until the upload is being written every copy is fresh, so nobody makes
\* one, and after that only the run loop does.
Before == \A p \in Uploaders : pc[p] \in {"idle", "list"}
TogetherInv ==
  cast \in Together =>
    /\ \A n \in Names : Safe[n] # 0 /\ Exists(n, "src") => Safe[n] = n
    /\ \A p \in Procs \ {Loop} : ~Copying(p)
    /\ Before =>
         /\ \A n \in Names : Safe[n] # 0 /\ Exists(n, "src") => Fresh(n)
         /\ \A p \in Procs : pc[p] = "unlink_copy" => ~Exists(Target(p), "src")
         /\ ~Copying(Loop)

\* Each writer has its own partial file and its own good text, ...
WrittenInv ==
  \A p \in Procs :
    /\ pc[p] \in {"write", "rename"} => fs[Tmp(p)] # 0
    /\ pc[p] = "write" => fd[p] = fs[Tmp(p)]
    /\ pc[p] = "rename" => data[fs[Tmp(p)]].text = buf[p]
    /\ pc[p] \in Writing => ~Rejected(buf[p])

\* ... a file that is being copied in stays where it is, ...
CopiedInv ==
  \A p \in Procs : pc[p] = "copying" => fd[p] # 0 /\ fd[p] = fs[<< About[p], "src" >>]

\* ... and is torn only so long, ...
SourceInv ==
  \A n \in Names : Exists(n, "src") =>
    \/ At(n, "src").text # "torn" /\ (GoodDrops => At(n, "src").text # "bad")
    \/ \E p \in Procs : pc[p] = "copying" /\ About[p] = n

\* ... a working copy never.
CopyInv == \A n \in Names : Exists(n, "copy") => At(n, "copy").text # "torn"

FilesInv == WrittenInv /\ CopiedInv /\ SourceInv /\ CopyInv

\* A file of a good name is its own working copy's, and is there before it is copied over, ...
SafeSources == {n \in Sources : Safe[n] # 0}
NamedInv ==
  /\ \A n \in SafeSources : Safe[n] = n
  /\ \A p \in Droppers \cap cast : Safe[About[p]] # 0 => Exists(About[p], "src")

\* ... a listing holds every such file, and an upload has room for one more.
ListInv ==
  GoodDrops =>
    \A p \in Uploaders :
      /\ pc[p] = "list" => SafeSources \subseteq out[p] \cup todo[p]
      /\ Copying(p) => SafeSources \subseteq out[p] \cup todo[p] \cup {at[p]}
      /\ Uploading(p) => Cardinality(SafeSources \cup {at[p]}) <= MaxTunnels

-----------------------------------------------------------------------------
(* The constants and the file system.                                      *)

LEMMA Constants ==
  /\ Cardinality(Names) \in Nat /\ Names \subseteq Nat \ {0} /\ 0 \notin Names
  /\ Cardinality(Procs) \in Nat /\ Inodes \subseteq Nat \ {0} /\ 0 \notin Inodes
  /\ Loop \in Procs /\ IsFiniteSet(Procs) /\ IsFiniteSet(Names)
<1>1. Cardinality(Names) \in Nat /\ Cardinality(Procs) \in Nat
  BY ActorsAssumption, FS_CardinalityType
<1>2. Names \subseteq Nat \ {0} /\ Inodes \subseteq Nat \ {0}
  BY <1>1, ActorsAssumption DEF Inodes
<1> QED
  BY <1>1, <1>2, ActorsAssumption DEF Procs

LEMMA Naming ==
  /\ \A n \in Names : Safe[n] \in Names \cup {0}
  /\ \A n \in Names : Safe[n] # 0 => Safe[n] \in Names /\ Safe[Safe[n]] = Safe[n]
  /\ \A n \in Installed : n \in Names /\ Safe[n] = n
  /\ \A p \in Procs \ {Loop} : About[p] \in Names /\ Target(p) \in Names \cup {0}
  /\ \A p \in Procs \ {Loop} : Target(p) # 0 => Target(p) \in Names /\ Safe[Target(p)] = Target(p)
<1>1. \A n \in Names : Safe[n] \in Names \cup {0}
  BY NamingAssumption
<1>2. \A p \in Procs \ {Loop} : About[p] \in Names
  BY ActorsAssumption
<1> QED
  BY <1>1, <1>2, NamingAssumption, ActorsAssumption, Constants DEF Target

LEMMA Paths ==
  /\ IsFiniteSet(Path) /\ Cardinality(Path) = 4 * Cardinality(Names)
  /\ \A n \in Names, k \in Kinds : << n, k >> \in Path
<1>1. IsFiniteSet(Kinds) /\ Cardinality(Kinds) = 4
  <2> DEFINE A == {"src"}
             B == A \cup {"src.partial"}
             C == B \cup {"copy"}
             D == C \cup {"copy.partial"}
  <2>1. IsFiniteSet(A) /\ Cardinality(A) = 1
    BY FS_Singleton
  <2>2. IsFiniteSet(B) /\ Cardinality(B) = 2
    <3>1. "src.partial" \notin A
      OBVIOUS
    <3> HIDE DEF A
    <3> QED
      BY <2>1, <3>1, FS_AddElement
  <2>3. IsFiniteSet(C) /\ Cardinality(C) = 3
    <3>1. "copy" \notin B
      OBVIOUS
    <3> HIDE DEF B
    <3> QED
      BY <2>2, <3>1, FS_AddElement
  <2>4. IsFiniteSet(D) /\ Cardinality(D) = 4
    <3>1. "copy.partial" \notin C
      OBVIOUS
    <3> HIDE DEF C
    <3> QED
      BY <2>3, <3>1, FS_AddElement
  <2>5. Kinds = D
    BY DEF Kinds
  <2> HIDE DEF D
  <2> QED
    BY <2>4, <2>5
<1>2. IsFiniteSet(Path) /\ Cardinality(Path) = Cardinality(Names) * Cardinality(Kinds)
  <2> HIDE DEF Kinds
  <2> QED
    BY <1>1, Constants, FS_Product DEF Path
<1>3. Cardinality(Names) * 4 = 4 * Cardinality(Names)
  BY Constants
<1> QED
  BY <1>1, <1>2, <1>3 DEF Path

\* While a path is free there is an inode that nobody names and nobody has open.
LEMMA RoomForAnother ==
  ASSUME TypeOK, NEW b \in Path, fs[b] = 0
  PROVE  /\ AnInode \in Inodes /\ AnInode # 0
         /\ \A a \in Path : AnInode # fs[a]
         /\ \A p \in Procs : AnInode # fd[p]
<1> DEFINE S == {fs[a] : a \in Path \ {b}}
           F == {fd[p] : p \in Procs}
<1>1. IsFiniteSet(Path \ {b}) /\ Cardinality(Path \ {b}) = 4 * Cardinality(Names) - 1
  BY Paths, FS_RemoveElement
<1>2. IsFiniteSet(S) /\ Cardinality(S) <= 4 * Cardinality(Names) - 1 /\ Cardinality(S) \in Nat
  <2> DEFINE g == [a \in Path \ {b} |-> fs[a]]
  <2>1. g \in Surjection(Path \ {b}, S)
    BY DEF Surjection
  <2> HIDE DEF g, S
  <2> QED
    BY <1>1, <2>1, FS_Surjection, FS_CardinalityType
<1>3. IsFiniteSet(F) /\ Cardinality(F) <= Cardinality(Procs) /\ Cardinality(F) \in Nat
  <2>1. fd \in Surjection(Procs, F)
    BY DEF Surjection, TypeOK
  <2> HIDE DEF F
  <2> QED
    BY <2>1, Constants, FS_Surjection, FS_CardinalityType
<1>4. IsFiniteSet(Inodes) /\ Cardinality(Inodes) = 4 * Cardinality(Names) + Cardinality(Procs)
  <2>1. 4 * Cardinality(Names) + Cardinality(Procs) \in Nat
    BY Constants
  <2> QED
    BY <2>1, FS_Interval DEF Inodes
<1>5. ~(Inodes \subseteq S \cup F)
  <2> HIDE DEF S, F
  <2>1. IsFiniteSet(S \cup F)
        /\ Cardinality(S \cup F) = Cardinality(S) + Cardinality(F) - Cardinality(S \cap F)
    BY <1>2, <1>3, FS_Union
  <2>2. Cardinality(S \cap F) \in Nat /\ Cardinality(S \cup F) \in Nat
    <3>1. IsFiniteSet(S \cap F)
      BY <1>2, FS_Subset
    <3> QED
      BY <3>1, <2>1, FS_CardinalityType
  <2>3. SUFFICES ASSUME Inodes \subseteq S \cup F PROVE FALSE
    OBVIOUS
  <2>4. Cardinality(Inodes) <= Cardinality(S \cup F)
    BY <2>1, <2>3, FS_Subset
  <2> QED
    BY <2>1, <2>2, <2>4, <1>2, <1>3, <1>4, Constants
<1>6. Unused # {}
  <2>1. PICK m \in Inodes : m \notin S \cup F
    BY <1>5
  <2>2. m \notin {fs[a] : a \in Path}
    BY <2>1, Constants
  <2> QED
    BY <2>1, <2>2 DEF Unused
<1>7. AnInode \in Unused
  BY <1>6 DEF AnInode
<1> QED
  BY <1>7, Constants DEF Unused

-----------------------------------------------------------------------------
(* Whose step it is.                                                       *)

\* A step is one process's: the others are where they were, with what they had in hand.
LEMMA OneMoves ==
  ASSUME TypeInv, NEW p \in Procs, Step(p)
  PROVE  /\ cast' = cast /\ text' = text
         /\ \A q \in Procs \ {p} :
              pc'[q] = pc[q] /\ at'[q] = at[q] /\ kind'[q] = kind[q] /\ buf'[q] = buf[q]
              /\ fd'[q] = fd[q] /\ todo'[q] = todo[q] /\ out'[q] = out[q]
         /\ Begin(p) \/ Busy(p)
<1> USE DEF TypeInv, TypeOK, PCs, disk, work, list
<1>1. CASE List(p)
  BY <1>1 DEF List, Goto
<1>2. CASE \E n \in Names : Stat(p, n)
  BY <1>2 DEF Stat, Goto, Busy
<1>3. CASE Read(p)
  BY <1>3 DEF Read, Goto, Busy
<1>4. CASE Open(p)
  BY <1>4 DEF Open, Goto, Busy, Put
<1>5. CASE Write(p)
  BY <1>5 DEF Write, Goto, Busy, Put
<1>6. CASE Rename(p)
  BY <1>6 DEF Rename, Goto, Busy
<1>7. CASE Get(p)
  BY <1>7 DEF Get, Goto, Busy, Listed
<1>8. CASE Upload(p)
  BY <1>8 DEF Upload, Goto, Busy, Listed
<1>9. CASE Tunnels(p)
  BY <1>9 DEF Tunnels, Goto, Busy, Listed
<1>10. CASE p = Loop /\ ((\E n \in Names : Up(n)) \/ EndOfPass)
  BY <1>10 DEF Up, EndOfPass, Goto, Busy
<1>11. CASE Delete(p)
  BY <1>11 DEF Delete, Goto
<1>12. CASE DeleteCopy(p)
  BY <1>12 DEF DeleteCopy, Goto, Busy
<1>13. CASE Drop(p)
  BY <1>13 DEF Drop, Goto, Put
<1>14. CASE Dropped(p)
  BY <1>14 DEF Dropped, Goto, Busy
<1> QED
  BY <1>1, <1>2, <1>3, <1>4, <1>5, <1>6, <1>7, <1>8, <1>9, <1>10, <1>11, <1>12, <1>13, <1>14
     DEF Step

\* Only these steps touch a file.
LEMMA FilesTouched ==
  ASSUME TypeInv, NEW p \in Procs, Step(p)
  PROVE  \/ UNCHANGED << fs, data, clock, fd >>
         \/ Open(p) \/ Write(p) \/ Rename(p) \/ Delete(p) \/ DeleteCopy(p) \/ Drop(p) \/ Dropped(p)
BY DEF Step, List, Stat, Read, Get, Upload, Tunnels, Up, EndOfPass, disk, work

-----------------------------------------------------------------------------
(* Types.                                                                  *)

\* A path that was free, or held the same inode, takes one that no other path names.
LEMMA NewName ==
  ASSUME TypeOK, NEW b \in Path, NEW m \in Inodes, \A a \in Path \ {b} : fs[a] # m,
         fs' = [fs EXCEPT ![b] = m]
  PROVE  /\ fs' \in [Path -> {0} \cup Inodes]
         /\ \A a, c \in Path : fs'[a] = fs'[c] /\ fs'[a] # 0 => a = c
         /\ fs'[b] = m /\ \A a \in Path \ {b} : fs'[a] = fs[a]
BY DEF TypeOK

\* A name is removed.
LEMMA NameGone ==
  ASSUME TypeOK, NEW b \in Path, fs' = [fs EXCEPT ![b] = 0]
  PROVE  /\ fs' \in [Path -> {0} \cup Inodes]
         /\ \A a, c \in Path : fs'[a] = fs'[c] /\ fs'[a] # 0 => a = c
         /\ fs'[b] = 0 /\ \A a \in Path \ {b} : fs'[a] = fs[a]
BY Constants DEF TypeOK

\* A partial file becomes the file.
LEMMA NameMoves ==
  ASSUME TypeOK, NEW n \in Names, NEW k \in {"src", "copy"}, fs' = Renamed(n, k)
  PROVE  /\ fs' \in [Path -> {0} \cup Inodes]
         /\ \A a, c \in Path : fs'[a] = fs'[c] /\ fs'[a] # 0 => a = c
         /\ << n, k >> \in Path /\ << n, Partial(k) >> \in Path /\ Partial(k) # k
         /\ fs'[<< n, k >>] = fs[<< n, Partial(k) >>] /\ fs'[<< n, Partial(k) >>] = 0
         /\ \A a \in Path \ {<< n, k >>, << n, Partial(k) >>} : fs'[a] = fs[a]
<1>1. Partial(k) \in Kinds /\ k \in Kinds /\ Partial(k) # k
  BY DEF Partial, Kinds
<1>2. << n, k >> \in Path /\ << n, Partial(k) >> \in Path
      /\ << n, k >> # << n, Partial(k) >>
  BY <1>1, Paths
<1> DEFINE a1 == << n, k >>
           a2 == << n, Partial(k) >>
<1>3. fs' = [fs EXCEPT ![a1] = fs[a2], ![a2] = 0]
  BY DEF Renamed
<1> HIDE DEF a1, a2
<1>4. /\ fs' \in [Path -> {0} \cup Inodes]
      /\ fs'[a1] = fs[a2] /\ fs'[a2] = 0 /\ \A a \in Path \ {a1, a2} : fs'[a] = fs[a]
  BY <1>2, <1>3 DEF TypeOK, a1, a2
<1>5. \A a, c \in Path : fs'[a] = fs'[c] /\ fs'[a] # 0 => a = c
  <2>1. a1 \in Path /\ a2 \in Path /\ a1 # a2
    BY <1>2 DEF a1, a2
  <2> QED
    BY <1>4, <2>1 DEF TypeOK
<1> QED
  BY <1>1, <1>2, <1>4, <1>5 DEF a1, a2

\* Where a process that writes does it.
LEMMA WhereWritten ==
  ASSUME TypeInv, PlaceInv, NEW p \in Procs, pc[p] \in Writing
  PROVE  /\ Dest(p) \in Names /\ Safe[Dest(p)] = Dest(p) /\ Dest(p) # 0
         /\ kind[p] \in {"src", "copy"} /\ Partial(kind[p]) \notin {"src", "copy"}
         /\ Tmp(p) \in Path /\ << Dest(p), kind[p] >> \in Path
         /\ Tmp(p) = << Dest(p), Partial(kind[p]) >>
<1>1. kind[p] \in {"src", "copy"} /\ at[p] \in Names
  BY DEF TypeInv, TypeOK
<1>2. Dest(p) \in Names /\ Safe[Dest(p)] = Dest(p)
  <2>1. CASE kind[p] = "src"
    BY <2>1, <1>1 DEF PlaceInv, Uploading, Dest
  <2>2. CASE kind[p] = "copy"
    BY <2>2, <1>1, Naming DEF PlaceInv, Copying, Dest
  <2> QED
    BY <1>1, <2>1, <2>2
<1>3. Partial(kind[p]) \in Kinds /\ Partial(kind[p]) \notin {"src", "copy"} /\ kind[p] \in Kinds
  BY <1>1 DEF Partial, Kinds
<1> QED
  BY <1>1, <1>2, <1>3, Paths, Constants DEF Tmp

\* The partial file is created, or emptied, and no other path names what it is.
LEMMA OpenDoes ==
  ASSUME TypeInv, PlaceInv, NEW p \in Procs, Open(p)
  PROVE  \E m \in Inodes :
           /\ fs' \in [Path -> {0} \cup Inodes]
           /\ \A a, c \in Path : fs'[a] = fs'[c] /\ fs'[a] # 0 => a = c
           /\ fs'[Tmp(p)] = m /\ \A a \in Path \ {Tmp(p)} : fs'[a] = fs[a] /\ fs[a] # m
           /\ fd' = [fd EXCEPT ![p] = m]
           /\ data' = [data EXCEPT ![m] = [text |-> "torn", table |-> TRUE, time |-> clock + 1]]
<1> DEFINE m == IF fs[Tmp(p)] = 0 THEN AnInode ELSE fs[Tmp(p)]
<1>1. pc[p] = "open" /\ fs' = [fs EXCEPT ![Tmp(p)] = m] /\ fd' = [fd EXCEPT ![p] = m]
      /\ data' = [data EXCEPT ![m] = [text |-> "torn", table |-> TRUE, time |-> clock + 1]]
  BY DEF Open, Put
<1>2. Tmp(p) \in Path
  BY <1>1, WhereWritten DEF Writing
<1>3. m \in Inodes /\ \A a \in Path \ {Tmp(p)} : fs[a] # m
  <2>1. CASE fs[Tmp(p)] = 0
    BY <1>2, <2>1, RoomForAnother DEF TypeInv
  <2>2. CASE fs[Tmp(p)] # 0
    BY <1>2, <2>2 DEF TypeInv, TypeOK
  <2> QED
    BY <2>1, <2>2
<1> HIDE DEF m
<1>4. /\ fs' \in [Path -> {0} \cup Inodes]
      /\ \A a, c \in Path : fs'[a] = fs'[c] /\ fs'[a] # 0 => a = c
      /\ fs'[Tmp(p)] = m /\ \A a \in Path \ {Tmp(p)} : fs'[a] = fs[a]
  BY <1>1, <1>2, <1>3, NewName DEF TypeInv
<1> QED
  BY <1>1, <1>3, <1>4

\* The same of a file that is copied in.
LEMMA DropDoes ==
  ASSUME TypeInv, NEW p \in Procs, Drop(p)
  PROVE  /\ p \in Droppers /\ p # Loop /\ About[p] \in Names /\ << About[p], "src" >> \in Path
         /\ \E m \in Inodes :
           /\ fs' \in [Path -> {0} \cup Inodes]
           /\ \A a, c \in Path : fs'[a] = fs'[c] /\ fs'[a] # 0 => a = c
           /\ fs'[<< About[p], "src" >>] = m
           /\ \A a \in Path \ {<< About[p], "src" >>} : fs'[a] = fs[a] /\ fs[a] # m
           /\ Exists(About[p], "src") => fs' = fs
           /\ fd' = [fd EXCEPT ![p] = m]
           /\ data' = [data EXCEPT ![m] = [text |-> "torn", table |-> FALSE, time |-> clock + 1]]
<1> DEFINE b == << About[p], "src" >>
           m == IF Exists(About[p], "src") THEN fs[b] ELSE AnInode
<1>1. p \in Droppers /\ fs' = [fs EXCEPT ![b] = m] /\ fd' = [fd EXCEPT ![p] = m]
      /\ data' = [data EXCEPT ![m] = [text |-> "torn", table |-> FALSE, time |-> clock + 1]]
  BY DEF Drop, Put
<1>2. p # Loop /\ About[p] \in Names /\ b \in Path
  BY <1>1, ActorsAssumption, Naming, Paths DEF Kinds
<1>3. Exists(About[p], "src") <=> fs[b] # 0
  BY DEF Exists
<1>4. m \in Inodes /\ \A a \in Path \ {b} : fs[a] # m
  <2>1. CASE fs[b] = 0
    BY <1>2, <1>3, <2>1, RoomForAnother DEF TypeInv
  <2>2. CASE fs[b] # 0
    <3>1. m = fs[b]
      BY <1>3, <2>2
    <3> HIDE DEF m, b
    <3> QED
      BY <1>2, <2>2, <3>1 DEF TypeInv, TypeOK
  <2> QED
    BY <2>1, <2>2
<1>5. Exists(About[p], "src") => fs' = fs
  <2>1. ASSUME Exists(About[p], "src") PROVE m = fs[b]
    BY <2>1
  <2> HIDE DEF m, b
  <2> QED
    BY <1>1, <1>2, <2>1 DEF TypeInv, TypeOK
<1> HIDE DEF m
<1>6. /\ fs' \in [Path -> {0} \cup Inodes]
      /\ \A a, c \in Path : fs'[a] = fs'[c] /\ fs'[a] # 0 => a = c
      /\ fs'[b] = m /\ \A a \in Path \ {b} : fs'[a] = fs[a]
  BY <1>1, <1>2, <1>4, NewName DEF TypeInv
<1> QED
  BY <1>1, <1>2, <1>4, <1>5, <1>6

LEMMA InitTypes == Init => TypeInv
<1> SUFFICES ASSUME Init PROVE TypeInv
  OBVIOUS
<1>1. \A n \in Names : 2 * n - 1 \in Inodes /\ 2 * n \in Inodes
  <2>1. PICK N \in Nat : N = Cardinality(Names) /\ Names = 1 .. N
    BY Constants, ActorsAssumption
  <2>2. PICK P \in Nat : P = Cardinality(Procs)
    BY Constants
  <2>3. Inodes = 1 .. 4 * N + P
    BY <2>1, <2>2 DEF Inodes
  <2>4. ASSUME NEW n \in 1 .. N PROVE 2 * n - 1 \in 1 .. 4 * N + P /\ 2 * n \in 1 .. 4 * N + P
    <3>1. n \in Nat /\ 1 <= n /\ n <= N
      BY <2>1
    <3> QED
      BY <3>1, <2>1, <2>2
  <2>5. \A n \in 1 .. N : 2 * n - 1 \in Inodes /\ 2 * n \in Inodes
    BY <2>3, <2>4
  <2>6. Names = 1 .. N
    BY <2>1
  <2> QED
    BY <2>5, <2>6
<1>2. \A n \in Names, k \in Kinds : FirstFs(n, k) \in {0} \cup Inodes
  BY <1>1 DEF FirstFs
<1>3. \A n, m \in Names, k, j \in Kinds :
        FirstFs(n, k) = FirstFs(m, j) /\ FirstFs(n, k) # 0 => n = m /\ k = j
  <2>1. \A n, m \in Names : (2 * n = 2 * m => n = m) /\ 2 * n # 2 * m - 1 /\ 2 * n # 0
                            /\ 2 * n - 1 # 0 /\ (2 * n - 1 = 2 * m - 1 => n = m)
    BY Constants
  <2> SUFFICES ASSUME NEW n \in Names, NEW m \in Names, NEW k \in Kinds, NEW j \in Kinds,
                      FirstFs(n, k) = FirstFs(m, j), FirstFs(n, k) # 0
               PROVE  n = m /\ k = j
    OBVIOUS
  <2>2. FirstFs(n, k) = (IF k = "src" THEN 2 * n - 1 ELSE 2 * n) /\ k \in {"src", "copy"}
    BY DEF FirstFs, Kinds
  <2>3. FirstFs(m, j) = (IF j = "src" THEN 2 * m - 1 ELSE 2 * m) /\ j \in {"src", "copy"}
    BY DEF FirstFs, Kinds
  <2> QED
    BY <2>1, <2>2, <2>3
<1>4. \A a \in Path : a[1] \in Names /\ a[2] \in Kinds /\ a = << a[1], a[2] >>
  BY DEF Path
<1>5. fs \in [Path -> {0} \cup Inodes] /\ \A a, b \in Path : fs[a] = fs[b] /\ fs[a] # 0 => a = b
  BY <1>2, <1>3, <1>4 DEF Init
<1>6. data \in [Inodes -> File]
  BY ActorsAssumption DEF Init, File, Texts, Inodes
<1>7. (CHOOSE n \in Names : TRUE) \in Names
  BY ActorsAssumption
<1>8. FirstText \in Texts /\ Versions \cup {"bad"} \subseteq Texts
  BY ActorsAssumption DEF Texts
<1> QED
  BY <1>5, <1>6, <1>7, <1>8 DEF Init, TypeInv, TypeOK, PCs

LEMMA FileWritten ==
  ASSUME data \in [Inodes -> File], NEW m, NEW r \in File, data' = [data EXCEPT ![m] = r]
  PROVE  /\ data' \in [Inodes -> File]
         /\ \A x \in Inodes : data'[x] = IF x = m THEN r ELSE data[x]
OBVIOUS

LEMMA StepTypes ==
  ASSUME TypeInv, PlaceInv, [Next]_vars
  PROVE  TypeInv'
<1>1. CASE UNCHANGED vars
  BY <1>1 DEF vars, disk, work, list, TypeInv, TypeOK
<1>2. ASSUME NEW p \in Procs, Step(p) PROVE TypeInv'
  <2>1. cast' = cast /\ text' = text
    BY <1>2, OneMoves
  <2>2. /\ pc' \in [Procs -> PCs] /\ at' \in [Procs -> Names] /\ kind' \in [Procs -> {"src", "copy"}]
    <3> USE <1>2 DEF TypeInv, TypeOK, PCs, Goto, disk, work, list
    <3>0. CASE List(p) \/ Read(p)
      BY <3>0 DEF List, Read
    <3>1. CASE \E n \in Names : Stat(p, n)
      BY <3>1 DEF Stat
    <3>5. CASE Open(p) \/ Write(p)
      BY <3>5 DEF Open, Write
    <3>2. CASE Rename(p) \/ Get(p) \/ Tunnels(p)
               \/ (p = Loop /\ ((\E n \in Names : Up(n)) \/ EndOfPass))
      BY <3>2 DEF Rename, Get, Tunnels, Up, EndOfPass
    <3>3. CASE Delete(p) \/ DeleteCopy(p) \/ Drop(p) \/ Dropped(p)
      BY <3>3 DEF Delete, DeleteCopy, Drop, Dropped
    <3>4. CASE Upload(p)
      <4>1. p \in Procs \ {Loop}
        BY <3>4, ActorsAssumption DEF Upload
      <4>2. Target(p) # 0 => Target(p) \in Names
        BY <4>1, Naming
      <4> HIDE DEF TypeInv, TypeOK
      <4>3. /\ pc' = [pc EXCEPT ![p] = "open"] \/ pc' = [pc EXCEPT ![p] = "failed"]
            /\ at' = at \/ (Target(p) # 0 /\ at' = [at EXCEPT ![p] = Target(p)])
            /\ kind' = [kind EXCEPT ![p] = "src"]
        BY <3>4 DEF Upload
      <4> QED
        BY <4>2, <4>3 DEF TypeInv, TypeOK
    <3> QED
      BY <3>0, <3>1, <3>2, <3>3, <3>4, <3>5 DEF Step
  <2>3. buf' \in [Procs -> Texts] /\ todo' \in [Procs -> SUBSET Names] /\ out' \in [Procs -> SUBSET Names]
    <3> USE <1>2 DEF TypeInv, TypeOK, Goto, disk, work, list
    <3>1. CASE List(p)
      BY <3>1 DEF List, Sources
    <3>2. ASSUME NEW n \in Names, Stat(p, n)
          PROVE  buf' \in [Procs -> Texts] /\ todo' \in [Procs -> SUBSET Names]
                 /\ out' \in [Procs -> SUBSET Names]
      BY <3>2, Naming DEF Stat, Skipped
    <3>3. CASE Read(p)
      <4>1. ASSUME Exists(at[p], "src") PROVE At(at[p], "src").text \in Texts
        <5>1. << at[p], "src" >> \in Path
          BY Paths DEF Kinds
        <5>2. fs[<< at[p], "src" >>] \in Inodes
          BY <4>1, <5>1 DEF Exists
        <5> QED
          BY <5>2 DEF At, File
      <4> QED
        BY <3>3, <4>1 DEF Read, Normalised
    <3>4. CASE Rename(p)
      <4>1. pc[p] = "rename"
        BY <3>4 DEF Rename
      <4>2. Dest(p) \in Names
        BY <4>1, WhereWritten DEF Writing
      <4>3. buf' = buf /\ todo' = todo
            /\ (out' = out \/ out' = [out EXCEPT ![p] = @ \cup {Dest(p)}])
        BY <3>4 DEF Rename
      <4> HIDE <1>2 DEF TypeInv, TypeOK, Goto, disk, work, list
      <4>4. buf \in [Procs -> Texts] /\ todo \in [Procs -> SUBSET Names]
            /\ out \in [Procs -> SUBSET Names]
        BY DEF TypeInv, TypeOK
      <4> QED
        BY <4>2, <4>3, <4>4
    <3>5. CASE Upload(p)
      BY <3>5 DEF Upload, Texts
    <3>6. CASE Open(p) \/ Write(p) \/ Get(p)
      BY <3>6 DEF Open, Write, Get
    <3>8. CASE Tunnels(p) \/ (p = Loop /\ ((\E n \in Names : Up(n)) \/ EndOfPass))
      <4>1. \A s : Capped(s) \subseteq s
        BY DEF Capped
      <4> QED
        BY <3>8, <4>1 DEF Tunnels, Up, EndOfPass
    <3>7. CASE Delete(p) \/ DeleteCopy(p) \/ Drop(p) \/ Dropped(p)
      BY <3>7 DEF Delete, DeleteCopy, Drop, Dropped
    <3> QED
      BY <3>1, <3>2, <3>3, <3>4, <3>5, <3>6, <3>7, <3>8 DEF Step
  <2>4. running' \in [Names -> Texts \cup {"none"}]
    <3>1. CASE \E n \in Names : p = Loop /\ Up(n)
      <4>1. PICK n \in Names : Up(n)
        BY <3>1
      <4>2. ASSUME Exists(n, "copy") PROVE At(n, "copy").text \in Texts
        <5>1. << n, "copy" >> \in Path
          BY Paths DEF Kinds
        <5> QED
          BY <4>2, <5>1 DEF Exists, At, File, TypeInv, TypeOK
      <4> QED
        BY <4>1, <4>2 DEF Up, TypeInv, TypeOK
    <3>2. CASE ~\E n \in Names : p = Loop /\ Up(n)
      <4>1. running' = running
        BY <1>2, <3>2 DEF Step, List, Stat, Read, Open, Write, Rename, Get, Upload, Tunnels,
           EndOfPass, Delete, DeleteCopy, Drop, Dropped
      <4> QED
        BY <4>1 DEF TypeInv, TypeOK
    <3> QED
      BY <3>1, <3>2
  <2>5. /\ fs' \in [Path -> {0} \cup Inodes] /\ data' \in [Inodes -> File] /\ clock' \in Nat
        /\ fd' \in [Procs -> {0} \cup Inodes]
        /\ \A a, b \in Path : fs'[a] = fs'[b] /\ fs'[a] # 0 => a = b
    <3>0. clock \in Nat /\ data \in [Inodes -> File] /\ fd \in [Procs -> {0} \cup Inodes]
          /\ fs \in [Path -> {0} \cup Inodes]
          /\ \A a, b \in Path : fs[a] = fs[b] /\ fs[a] # 0 => a = b
      BY DEF TypeInv, TypeOK
    <3>1. CASE UNCHANGED << fs, data, clock, fd >>
      BY <3>0, <3>1
    <3>2. CASE Open(p)
      <4>1. clock' = clock + 1
        BY <3>2 DEF Open, Put
      <4>2. PICK m \in Inodes :
              /\ fs' \in [Path -> {0} \cup Inodes]
              /\ \A a, c \in Path : fs'[a] = fs'[c] /\ fs'[a] # 0 => a = c
              /\ fd' = [fd EXCEPT ![p] = m]
              /\ data' = [data EXCEPT ![m] = [text |-> "torn", table |-> TRUE, time |-> clock + 1]]
        BY <3>2, OpenDoes
      <4>3. [text |-> "torn", table |-> TRUE, time |-> clock + 1] \in File
        BY <3>0 DEF File, Texts
      <4> QED
        BY <3>0, <4>1, <4>2, <4>3
    <3>3. CASE Write(p)
      <4>1. [text |-> buf[p], table |-> TRUE, time |-> clock + 1] \in File
        BY <3>0 DEF File, TypeInv, TypeOK
      <4>2. fs' = fs /\ clock' = clock + 1 /\ fd' = [fd EXCEPT ![p] = 0]
            /\ data' = [data EXCEPT ![fd[p]] = [text |-> buf[p], table |-> TRUE, time |-> clock + 1]]
        BY <3>3 DEF Write, Put
      <4>3. data' \in [Inodes -> File]
        BY <3>0, <4>1, <4>2, FileWritten
      <4> QED
        BY <3>0, <4>2, <4>3
    <3>4. CASE Rename(p)
      <4>1. pc[p] = "rename" /\ data' = data /\ clock' = clock /\ fd' = fd
            /\ (fs' = fs \/ fs' = Renamed(Dest(p), kind[p]))
        BY <3>4 DEF Rename, work
      <4>2. Dest(p) \in Names /\ kind[p] \in {"src", "copy"}
        BY <4>1, WhereWritten DEF Writing
      <4> QED
        BY <3>0, <4>1, <4>2, NameMoves DEF TypeInv
    <3>5. CASE Delete(p) \/ DeleteCopy(p)
      <4>1. PICK k \in {"src", "copy"} :
              \/ fs' = fs
              \/ Target(p) # 0 /\ p \in Deleters /\ fs' = [fs EXCEPT ![<< Target(p), k >>] = 0]
        BY <3>5 DEF Delete, DeleteCopy, PlaceInv
      <4>2. data' = data /\ clock' = clock /\ fd' = fd
        BY <3>5 DEF Delete, DeleteCopy, work
      <4>3. p \in Deleters /\ Target(p) # 0 => << Target(p), k >> \in Path
        BY Naming, Paths, ActorsAssumption DEF Kinds
      <4> QED
        BY <3>0, <4>1, <4>2, <4>3, NameGone DEF TypeInv
    <3>6. CASE Drop(p)
      <4>1. clock' = clock + 1
        BY <3>6 DEF Drop, Put
      <4>2. PICK m \in Inodes :
              /\ fs' \in [Path -> {0} \cup Inodes]
              /\ \A a, c \in Path : fs'[a] = fs'[c] /\ fs'[a] # 0 => a = c
              /\ fd' = [fd EXCEPT ![p] = m]
              /\ data' = [data EXCEPT ![m] = [text |-> "torn", table |-> FALSE, time |-> clock + 1]]
        BY <3>6, DropDoes
      <4>3. [text |-> "torn", table |-> FALSE, time |-> clock + 1] \in File
        BY <3>0 DEF File, Texts
      <4> QED
        BY <3>0, <4>1, <4>2, <4>3
    <3>7. CASE Dropped(p)
      <4>1. [text |-> text[p], table |-> FALSE, time |-> IF KeepsTime THEN 0 ELSE clock + 1] \in File
        BY <3>0 DEF File, TypeInv, TypeOK
      <4>2. fs' = fs /\ clock' = clock + 1 /\ fd' = [fd EXCEPT ![p] = 0]
            /\ data' = [data EXCEPT ![fd[p]] =
                 [text |-> text[p], table |-> FALSE, time |-> IF KeepsTime THEN 0 ELSE clock + 1]]
        BY <3>7 DEF Dropped
      <4>3. data' \in [Inodes -> File]
        BY <3>0, <4>1, <4>2, FileWritten
      <4> QED
        BY <3>0, <4>2, <4>3
    <3> QED
      BY <1>2, <3>1, <3>2, <3>3, <3>4, <3>5, <3>6, <3>7, FilesTouched
  <2> QED
    BY <2>1, <2>2, <2>3, <2>4, <2>5 DEF TypeInv, TypeOK
<1> QED
  BY <1>1, <1>2 DEF Next

-----------------------------------------------------------------------------
(* Who is where.                                                           *)

LEMMA StepPlaces ==
  ASSUME TypeInv, PlaceInv, [Next]_vars
  PROVE  PlaceInv'
<1>1. CASE UNCHANGED vars
  BY <1>1 DEF vars, disk, work, list, PlaceInv, Copying, Uploading
<1>2. ASSUME NEW p \in Procs, Step(p) PROVE PlaceInv'
  <2>1. /\ cast' = cast
        /\ \A q \in Procs \ {p} : pc'[q] = pc[q] /\ at'[q] = at[q] /\ kind'[q] = kind[q]
        /\ pc[p] = "idle" => p \in cast \cup {Loop}
    BY <1>2, OneMoves DEF Begin, Busy
  <2> DEFINE Placed(q) ==
        /\ pc[q] # "idle" => q \in cast \cup {Loop}
        /\ pc[q] = "list" \/ Copying(q) => q \in Getters \cup Uploaders \cup {Loop}
        /\ Uploading(q) => q \in Uploaders /\ Safe[at[q]] = at[q]
        /\ Copying(q) => Safe[at[q]] # 0
        /\ pc[q] = "up" => q = Loop
        /\ pc[q] = "unlink_copy" => q \in Deleters /\ Target(q) # 0
        /\ pc[q] = "copying" => q \in Droppers
  <2>2. \A q \in Procs : Placed(q)
    BY DEF PlaceInv
  <2>3. \A q \in Procs \ {p} : Placed(q)'
    BY <2>1, <2>2 DEF Copying, Uploading, Target
  <2>4. Placed(p)'
    <3>0. Placed(p) /\ p \in cast \cup {Loop}
      BY <2>1, <2>2
    <3>t. pc \in [Procs -> PCs] /\ at \in [Procs -> Names] /\ kind \in [Procs -> {"src", "copy"}]
      BY DEF TypeInv, TypeOK
    <3> USE DEF Copying, Uploading, Writing, Goto
    <3>1. CASE List(p)
      BY <2>1, <3>0, <3>t, <3>1 DEF List, Lists, work, list
    <3>2. ASSUME NEW n \in Names, Stat(p, n) PROVE Placed(p)'
      <4>1. kind' = kind /\ (\/ pc' = pc /\ at' = at
                             \/ pc' = [pc EXCEPT ![p] = "read"] /\ at' = [at EXCEPT ![p] = n]
                                /\ Safe[n] # 0)
            /\ pc[p] = "list"
        BY <3>2 DEF Stat, Skipped
      <4> QED
        BY <2>1, <3>0, <3>t, <4>1
    <3>3. CASE Read(p)
      <4>1. pc[p] = "read" /\ at' = at /\ kind' = [kind EXCEPT ![p] = "copy"]
            /\ (pc' = [pc EXCEPT ![p] = "open"] \/ pc' = [pc EXCEPT ![p] = "list"])
        BY <3>3 DEF Read
      <4> QED
        BY <2>1, <3>0, <3>t, <4>1
    <3>4. CASE Open(p) \/ Write(p)
      <4>1. pc[p] \in Writing /\ at' = at /\ kind' = kind
            /\ (pc' = [pc EXCEPT ![p] = "write"] \/ pc' = [pc EXCEPT ![p] = "rename"])
        BY <3>4 DEF Open, Write
      <4> QED
        BY <2>1, <3>0, <3>t, <4>1
    <3>5. CASE Rename(p)
      <4>1. pc[p] = "rename" /\ at' = at /\ kind' = kind
            /\ \/ kind[p] = "src" /\ (pc' = [pc EXCEPT ![p] = "failed"] \/ pc' = [pc EXCEPT ![p] = "done"])
               \/ kind[p] # "src" /\ pc' = [pc EXCEPT ![p] = "list"]
        BY <3>5 DEF Rename, work
      <4> QED
        BY <2>1, <3>0, <3>t, <4>1
    <3>6. CASE Get(p)
      BY <2>1, <3>0, <3>t, <3>6 DEF Get, Listed, work, list
    <3>7. CASE Upload(p)
      <4>1. p \in Uploaders /\ p \in Procs \ {Loop}
        BY <3>7, ActorsAssumption DEF Upload
      <4>2. Target(p) # 0 => Target(p) \in Names /\ Safe[Target(p)] = Target(p)
        BY <4>1, Naming
      <4>3. kind' = [kind EXCEPT ![p] = "src"]
            /\ \/ Target(p) # 0 /\ at' = [at EXCEPT ![p] = Target(p)] /\ pc' = [pc EXCEPT ![p] = "open"]
               \/ at' = at /\ pc' = [pc EXCEPT ![p] = "failed"]
        BY <3>7 DEF Upload
      <4> QED
        BY <2>1, <3>0, <3>t, <4>1, <4>2, <4>3
    <3>8. CASE Tunnels(p) \/ (p = Loop /\ ((\E n \in Names : Up(n)) \/ EndOfPass))
      <4>1. p = Loop /\ at' = at /\ kind' = kind
            /\ \/ pc' = [pc EXCEPT ![p] = "up"] \/ pc' = [pc EXCEPT ![p] = "idle"] \/ pc' = pc
        BY <3>8 DEF Tunnels, Up, EndOfPass, work, list
      <4> QED
        BY <2>1, <3>0, <3>t, <4>1
    <3>9. CASE Delete(p) \/ DeleteCopy(p)
      <4>1. at' = at /\ kind' = kind
            /\ \/ pc' = [pc EXCEPT ![p] = "unlink_copy"] /\ p \in Deleters /\ Target(p) # 0
               \/ pc' = [pc EXCEPT ![p] = "failed"] \/ pc' = [pc EXCEPT ![p] = "done"]
        BY <3>9 DEF Delete, DeleteCopy, work, list
      <4> QED
        BY <2>1, <3>0, <3>t, <4>1 DEF Target
    <3>10. CASE Drop(p) \/ Dropped(p)
      <4>1. at' = at /\ kind' = kind
            /\ \/ pc' = [pc EXCEPT ![p] = "copying"] /\ p \in Droppers
               \/ pc' = [pc EXCEPT ![p] = "done"]
        BY <3>10 DEF Drop, Dropped
      <4> QED
        BY <2>1, <3>0, <3>t, <4>1
    <3> QED
      BY <1>2, <3>1, <3>2, <3>3, <3>4, <3>5, <3>6, <3>7, <3>8, <3>9, <3>10 DEF Step
  <2> QED
    BY <2>3, <2>4 DEF PlaceInv
<1> QED
  BY <1>1, <1>2 DEF Next

LEMMA StepAlone ==
  ASSUME TypeInv, AloneInv, [Next]_vars
  PROVE  AloneInv'
<1>1. CASE UNCHANGED vars
  BY <1>1 DEF vars, AloneInv, Busy
<1>2. ASSUME NEW p \in Procs, Step(p) PROVE AloneInv'
  <2>1. cast' = cast /\ (\A q \in Procs \ {p} : pc'[q] = pc[q]) /\ (Begin(p) \/ Busy(p))
    BY <1>2, OneMoves
  <2>2. ASSUME cast \notin Together, NEW q \in Procs \ {p}, Busy(q)' PROVE FALSE
    <3>1. Busy(q)
      BY <2>1, <2>2 DEF Busy
    <3> QED
      BY <2>1, <2>2, <3>1 DEF AloneInv, Begin, Quiet, Busy
  <2> QED
    BY <2>1, <2>2 DEF AloneInv
<1> QED
  BY <1>1, <1>2 DEF Next

\* Two that write at the same time write different files.
LEMMA OwnPartial ==
  ASSUME OneCopier, TypeInv, PlaceInv, AloneInv, TogetherInv,
         NEW p \in Procs, NEW q \in Procs \ {p}, pc[p] \in Writing, pc[q] \in Writing
  PROVE  Tmp(p) # Tmp(q)
<1>1. cast \in Together
  BY DEF AloneInv, Busy, Writing
<1>2. kind[p] \in {"src", "copy"} /\ kind[q] \in {"src", "copy"}
  BY DEF TypeInv, TypeOK
<1>3. kind[p] # kind[q]
  <2>1. ~(kind[p] = "copy" /\ kind[q] = "copy")
    BY <1>1 DEF TogetherInv, Copying
  <2>2. ASSUME kind[p] = "src", kind[q] = "src" PROVE FALSE
    <3>1. p \in Uploaders /\ q \in Uploaders
      BY <2>2, ActorsAssumption DEF PlaceInv, Uploading
    <3>2. p \in cast /\ q \in cast
      BY <3>1, ActorsAssumption DEF PlaceInv, Writing
    <3> QED
      BY <1>1, <3>1, <3>2 DEF OneCopier
  <2> QED
    BY <1>2, <2>1, <2>2
<1> QED
  BY <1>2, <1>3 DEF Tmp, Partial

\* What is being copied in is no config that anybody reads, writes or removes meanwhile.
LEMMA CopiedInAlone ==
  ASSUME OneCopier, TypeInv, PlaceInv, AloneInv,
         NEW p \in Procs, pc[p] = "copying", NEW q \in Procs \ {p}, Busy(q) \/ Begin(q)
  PROVE  cast \in Together /\ Safe[About[p]] = 0
<1>1. cast \in Together
  BY DEF AloneInv, Busy, Begin, Quiet
<1>2. p \in Droppers /\ p \in cast
  BY ActorsAssumption DEF PlaceInv
<1> QED
  BY <1>1, <1>2 DEF OneCopier

-----------------------------------------------------------------------------
(* What the files hold.                                                    *)

\* The handlers that open, write and rename keep who they are and where they write.
LEMMA SameTmp ==
  ASSUME NEW q \in Procs, at'[q] = at[q], kind'[q] = kind[q]
  PROVE  Tmp(q)' = Tmp(q) /\ Dest(q)' = Dest(q)
BY DEF Tmp, Dest

\* Steps that touch no file.
LEMMA FilesIfNoneTouched ==
  ASSUME OneCopier, TypeInv, PlaceInv, AloneInv, TogetherInv, FilesInv, NEW p \in Procs, Step(p),
         UNCHANGED << fs, data, clock, fd >>,
         ~(Open(p) \/ Write(p) \/ Rename(p) \/ Delete(p) \/ DeleteCopy(p) \/ Drop(p) \/ Dropped(p))
  PROVE  FilesInv'
<1>1. /\ cast' = cast /\ text' = text
      /\ \A q \in Procs \ {p} :
           pc'[q] = pc[q] /\ at'[q] = at[q] /\ kind'[q] = kind[q] /\ buf'[q] = buf[q]
  BY OneMoves
<1>2. \A q \in Procs \ {p} : Tmp(q)' = Tmp(q)
  BY <1>1, SameTmp
<1>3. pc[p] # "copying" /\ pc'[p] \notin {"write", "rename", "copying"}
      /\ (pc'[p] = "open" => ~Rejected(buf'[p]))
  <2>t. pc \in [Procs -> PCs] /\ buf \in [Procs -> Texts]
    BY DEF TypeInv, TypeOK
  <2> USE <2>t DEF Goto
  <2>1. CASE List(p)
    BY <2>1 DEF List, Begin
  <2>2. CASE \E n \in Names : Stat(p, n)
    BY <2>2 DEF Stat
  <2>3. CASE Read(p)
    <3>1. CASE pc' = [pc EXCEPT ![p] = "list"]
      BY <3>1, <2>3 DEF Read
    <3>2. CASE pc' # [pc EXCEPT ![p] = "list"]
      <4>1. /\ pc[p] = "read" /\ pc' = [pc EXCEPT ![p] = "open"] /\ Exists(at[p], "src")
            /\ \E t \in Normalised(At(at[p], "src").text) : buf' = [buf EXCEPT ![p] = t]
        BY <3>2, <2>3 DEF Read
      <4>2. buf'[p] = At(at[p], "src").text /\ buf'[p] # "bad"
        BY <4>1 DEF Normalised
      <4>3. at[p] \in Names /\ Safe[at[p]] # 0
        BY <4>1 DEF PlaceInv, Copying, TypeInv, TypeOK
      <4>4. ASSUME NEW q \in Procs, pc[q] = "copying", About[q] = at[p] PROVE FALSE
        <5>1. q # p /\ Busy(p)
          BY <4>1, <4>4 DEF Busy
        <5> QED
          BY <4>3, <4>4, <5>1, CopiedInAlone
      <4>5. At(at[p], "src").text # "torn"
        BY <4>1, <4>3, <4>4 DEF FilesInv, SourceInv
      <4> QED
        BY <4>1, <4>2, <4>5 DEF Rejected
    <3> QED
      BY <3>1, <3>2
  <2>4. CASE Get(p)
    BY <2>4 DEF Get, Listed
  <2>5. CASE Upload(p)
    BY <2>5 DEF Upload, Listed, Begin
  <2>6. CASE Tunnels(p) \/ (p = Loop /\ ((\E n \in Names : Up(n)) \/ EndOfPass))
    BY <2>6 DEF Tunnels, Up, EndOfPass, Listed
  <2> QED
    BY <2>1, <2>2, <2>3, <2>4, <2>5, <2>6 DEF Step
<1>4. WrittenInv'
  <2>1. ASSUME NEW q \in Procs \ {p}
        PROVE  /\ pc'[q] \in {"write", "rename"} => fs'[Tmp(q)'] # 0
               /\ pc'[q] = "write" => fd'[q] = fs'[Tmp(q)']
               /\ pc'[q] = "rename" => data'[fs'[Tmp(q)']].text = buf'[q]
               /\ pc'[q] \in Writing => ~Rejected(buf'[q])
    BY <1>1, <1>2 DEF FilesInv, WrittenInv
  <2> QED
    BY <1>3, <2>1 DEF WrittenInv, Writing
<1>5. CopiedInv'
  BY <1>1, <1>3 DEF FilesInv, CopiedInv
<1>6. SourceInv'
  BY <1>1, <1>3 DEF FilesInv, SourceInv, Exists, At, GoodDrops
<1>7. CopyInv'
  BY DEF FilesInv, CopyInv, Exists, At
<1> QED
  BY <1>4, <1>5, <1>6, <1>7 DEF FilesInv

\* Steps that write to a partial file.
LEMMA FilesIfWritten ==
  ASSUME OneCopier, TypeInv, PlaceInv, AloneInv, TogetherInv, FilesInv, NEW p \in Procs, Step(p),
         Open(p) \/ Write(p)
  PROVE  FilesInv'
<1>1. /\ text' = text
      /\ \A q \in Procs \ {p} :
           pc'[q] = pc[q] /\ at'[q] = at[q] /\ kind'[q] = kind[q] /\ buf'[q] = buf[q] /\ fd'[q] = fd[q]
  BY OneMoves
<1>2. pc[p] \in {"open", "write"} /\ at' = at /\ kind' = kind /\ buf' = buf
  BY DEF Open, Write
<1>3. \A q \in Procs : Tmp(q)' = Tmp(q)
  BY <1>2 DEF Tmp, Dest
<1>4. Tmp(p) \in Path /\ \A n \in Names, k \in {"src", "copy"} : << n, k >> \in Path \ {Tmp(p)}
  <2>1. \A n \in Names, k \in {"src", "copy"} : << n, k >> \in Path
    BY Paths DEF Kinds
  <2>2. /\ Tmp(p) \in Path /\ Tmp(p) = << Dest(p), Partial(kind[p]) >>
        /\ Partial(kind[p]) \notin {"src", "copy"}
    BY <1>2, WhereWritten DEF Writing
  <2>3. \A n, k : << n, k >> = << Dest(p), Partial(kind[p]) >> => k = Partial(kind[p])
    OBVIOUS
  <2> QED
    BY <2>1, <2>2, <2>3
<1>t. /\ pc \in [Procs -> PCs] /\ data \in [Inodes -> File] /\ fs \in [Path -> {0} \cup Inodes]
      /\ \A a, b \in Path : fs[a] = fs[b] /\ fs[a] # 0 => a = b
  BY DEF TypeInv, TypeOK
<1>5. \E m \in Inodes, r \in File :
        /\ data' = [data EXCEPT ![m] = r] /\ fs'[Tmp(p)] = m
        /\ \A a \in Path \ {Tmp(p)} : fs'[a] = fs[a] /\ fs[a] # m
        /\ \/ Open(p) /\ pc'[p] = "write" /\ fd'[p] = m
           \/ Write(p) /\ pc'[p] = "rename" /\ r.text = buf[p]
  <2>1. CASE Open(p)
    <3>1. [text |-> "torn", table |-> TRUE, time |-> clock + 1] \in File
      BY DEF File, Texts, TypeInv
    <3>2. pc'[p] = "write"
      BY <2>1, <1>t DEF Open, Goto
    <3>3. PICK m \in Inodes :
            /\ fs'[Tmp(p)] = m /\ \A a \in Path \ {Tmp(p)} : fs'[a] = fs[a] /\ fs[a] # m
            /\ fd' = [fd EXCEPT ![p] = m]
            /\ data' = [data EXCEPT ![m] = [text |-> "torn", table |-> TRUE, time |-> clock + 1]]
      BY <2>1, OpenDoes
    <3>4. fd'[p] = m
      BY <3>3 DEF TypeInv, TypeOK
    <3> QED
      BY <2>1, <3>1, <3>2, <3>3, <3>4
  <2>2. CASE Write(p)
    <3>1. [text |-> buf[p], table |-> TRUE, time |-> clock + 1] \in File
      BY DEF File, TypeInv, TypeOK
    <3>2. pc[p] = "write" /\ pc'[p] = "rename" /\ fs' = fs
          /\ data' = [data EXCEPT ![fd[p]] = [text |-> buf[p], table |-> TRUE, time |-> clock + 1]]
      BY <2>2, <1>t DEF Write, Goto, Put
    <3>3. fd[p] = fs[Tmp(p)] /\ fs[Tmp(p)] # 0
      BY <3>2 DEF FilesInv, WrittenInv
    <3>4. fd[p] \in Inodes /\ \A a \in Path \ {Tmp(p)} : fs[a] # fd[p]
      BY <1>4, <1>t, <3>3
    <3> QED
      BY <2>2, <3>1, <3>2, <3>3, <3>4
  <2> QED
    BY <2>1, <2>2
<1>6. PICK m \in Inodes, r \in File :
        /\ data' = [data EXCEPT ![m] = r] /\ fs'[Tmp(p)] = m
        /\ \A a \in Path \ {Tmp(p)} : fs'[a] = fs[a] /\ fs[a] # m
        /\ \/ Open(p) /\ pc'[p] = "write" /\ fd'[p] = m
           \/ Write(p) /\ pc'[p] = "rename" /\ r.text = buf[p]
  BY <1>5
<1>7. \A a \in Path \ {Tmp(p)} : fs'[a] = fs[a] /\ (fs[a] # 0 => data'[fs[a]] = data[fs[a]])
  BY <1>6, <1>t
<1>8. WrittenInv'
  <2>1. ASSUME NEW q \in Procs \ {p}
        PROVE  /\ pc[q] \in {"write", "rename"} => fs'[Tmp(q)] # 0
               /\ pc[q] = "write" => fd[q] = fs'[Tmp(q)]
               /\ pc[q] = "rename" => data'[fs'[Tmp(q)]].text = buf[q]
               /\ pc[q] \in Writing => ~Rejected(buf[q])
    <3>1. CASE pc[q] \in Writing
      <4>1. Tmp(q) \in Path \ {Tmp(p)}
        BY <1>2, <3>1, OwnPartial, WhereWritten DEF Writing
      <4> QED
        BY <1>7, <4>1 DEF FilesInv, WrittenInv
    <3> QED
      BY <3>1 DEF Writing
  <2>2. /\ pc'[p] \in {"write", "rename"} => fs'[Tmp(p)] # 0
        /\ pc'[p] = "write" => fd'[p] = fs'[Tmp(p)]
        /\ pc'[p] = "rename" => data'[fs'[Tmp(p)]].text = buf[p]
        /\ ~Rejected(buf[p])
    <3>1. data'[m] = r /\ m # 0
      BY <1>6, <1>t, Constants
    <3>2. ~Rejected(buf[p])
      BY <1>2 DEF FilesInv, WrittenInv, Writing
    <3> QED
      BY <1>6, <3>1, <3>2
  <2> QED
    BY <1>1, <1>2, <1>3, <2>1, <2>2 DEF WrittenInv
<1>9. \A q \in Procs : pc'[q] = "copying" => pc[q] = "copying" /\ q # p
  BY <1>1, <1>6
<1>10. \A q \in Procs : pc[q] = "copying" => pc'[q] = "copying" /\ q # p
  BY <1>1, <1>2
<1>11. CopiedInv'
  <2>1. ASSUME NEW q \in Procs, pc'[q] = "copying"
        PROVE  fd'[q] # 0 /\ fd'[q] = fs'[<< About[q], "src" >>]
    <3>1. pc[q] = "copying" /\ q # p /\ fd'[q] = fd[q]
      BY <1>1, <1>9, <2>1
    <3>2. About[q] \in Names
      BY <3>1, Naming, ActorsAssumption DEF PlaceInv
    <3> QED
      BY <1>4, <1>7, <3>1, <3>2 DEF FilesInv, CopiedInv
  <2> QED
    BY <2>1 DEF CopiedInv
<1>12. \A n \in Names, k \in {"src", "copy"} :
         Exists(n, k)' = Exists(n, k) /\ (Exists(n, k) => At(n, k)' = At(n, k))
  BY <1>4, <1>7 DEF Exists, At
<1>13. SourceInv'
  BY <1>1, <1>10, <1>12 DEF FilesInv, SourceInv, GoodDrops
<1>14. CopyInv'
  BY <1>12 DEF FilesInv, CopyInv
<1> QED
  BY <1>8, <1>11, <1>13, <1>14 DEF FilesInv

\* A partial file takes the place of the file.
LEMMA FilesIfRenamed ==
  ASSUME OneCopier, TypeInv, PlaceInv, AloneInv, TogetherInv, FilesInv, NEW p \in Procs, Step(p),
         Rename(p)
  PROVE  FilesInv'
<1>1. /\ text' = text
      /\ \A q \in Procs \ {p} :
           pc'[q] = pc[q] /\ at'[q] = at[q] /\ kind'[q] = kind[q] /\ buf'[q] = buf[q] /\ fd'[q] = fd[q]
  BY OneMoves
<1>2. /\ pc[p] = "rename" /\ at' = at /\ kind' = kind /\ buf' = buf /\ data' = data
      /\ pc'[p] \in {"failed", "list", "done"}
      /\ fs[Tmp(p)] # 0 => fs' = Renamed(Dest(p), kind[p])
  BY DEF Rename, Goto, work, TypeInv, TypeOK
<1>3. fs[Tmp(p)] # 0 /\ data[fs[Tmp(p)]].text = buf[p] /\ ~Rejected(buf[p])
  BY <1>2 DEF FilesInv, WrittenInv, Writing
<1> DEFINE d == Dest(p)
           k == kind[p]
<1>4. /\ d \in Names /\ Safe[d] = d /\ d # 0 /\ k \in {"src", "copy"}
      /\ Partial(k) \notin {"src", "copy"} /\ Tmp(p) = << d, Partial(k) >>
  BY <1>2, WhereWritten DEF Writing
<1>m. TypeOK /\ fs' = Renamed(d, k)
  BY <1>2, <1>3 DEF TypeInv
<1> HIDE DEF d, k
<1>5. /\ << d, k >> \in Path /\ Tmp(p) \in Path
      /\ fs'[<< d, k >>] = fs[Tmp(p)] /\ fs'[Tmp(p)] = 0
      /\ \A a \in Path \ {<< d, k >>, Tmp(p)} : fs'[a] = fs[a]
  <2>1. /\ << d, k >> \in Path /\ << d, Partial(k) >> \in Path
        /\ fs'[<< d, k >>] = fs[<< d, Partial(k) >>] /\ fs'[<< d, Partial(k) >>] = 0
        /\ \A a \in Path \ {<< d, k >>, << d, Partial(k) >>} : fs'[a] = fs[a]
    BY <1>4, <1>m, NameMoves
  <2> QED
    BY <1>4, <2>1
<1>6. \A q \in Procs : Tmp(q)' = Tmp(q)
  BY <1>2 DEF Tmp, Dest
<1>7. \A n \in Names, j \in {"src", "copy"} : << n, j >> \in Path /\ << n, j >> # Tmp(p)
  <2>1. \A n \in Names, j \in {"src", "copy"} : << n, j >> \in Path
    BY Paths DEF Kinds
  <2>2. \A n, j : << n, j >> = << d, Partial(k) >> => j = Partial(k)
    OBVIOUS
  <2> QED
    BY <1>4, <2>1, <2>2
<1>8. ASSUME NEW n \in Names, NEW j \in {"src", "copy"}
      PROVE  IF n = d /\ j = k THEN At(n, j)'.text = buf[p] /\ Exists(n, j)'
             ELSE Exists(n, j)' = Exists(n, j) /\ At(n, j)' = At(n, j) /\ fs'[<< n, j >>] = fs[<< n, j >>]
  <2>1. CASE n = d /\ j = k
    BY <1>2, <1>3, <1>5, <2>1 DEF Exists, At
  <2>2. CASE ~(n = d /\ j = k)
    <3>1. << n, j >> # << d, k >>
      BY <2>2
    <3>2. fs'[<< n, j >>] = fs[<< n, j >>]
      BY <1>5, <1>7, <3>1
    <3> QED
      BY <1>2, <2>2, <3>2 DEF Exists, At
  <2> QED
    BY <2>1, <2>2
<1>9. WrittenInv'
  <2>1. ASSUME NEW q \in Procs \ {p}, pc[q] \in Writing PROVE fs'[Tmp(q)] = fs[Tmp(q)]
    <3>1. Tmp(q) \in Path /\ Tmp(q) # Tmp(p)
      BY <1>2, <2>1, OwnPartial, WhereWritten DEF Writing
    <3>2. Tmp(q) = << Dest(q), Partial(kind[q]) >> /\ Partial(kind[q]) \notin {"src", "copy"}
      BY <2>1, WhereWritten
    <3>3. << Dest(q), Partial(kind[q]) >> # << d, k >>
      BY <1>4, <3>2
    <3> QED
      BY <1>5, <3>1, <3>2, <3>3
  <2>2. ASSUME NEW q \in Procs \ {p}
        PROVE  /\ pc[q] \in {"write", "rename"} => fs'[Tmp(q)] # 0
               /\ pc[q] = "write" => fd[q] = fs'[Tmp(q)]
               /\ pc[q] = "rename" => data[fs'[Tmp(q)]].text = buf[q]
               /\ pc[q] \in Writing => ~Rejected(buf[q])
    BY <2>1, <2>2 DEF FilesInv, WrittenInv, Writing
  <2> QED
    BY <1>1, <1>2, <1>6, <2>2 DEF WrittenInv, Writing
<1>10. CopiedInv'
  <2>1. ASSUME NEW q \in Procs, pc'[q] = "copying"
        PROVE  fd'[q] # 0 /\ fd'[q] = fs'[<< About[q], "src" >>]
    <3>1. pc[q] = "copying" /\ q # p /\ fd'[q] = fd[q]
      BY <1>1, <1>2, <2>1
    <3>2. About[q] \in Names /\ Safe[About[q]] = 0
      BY <1>2, <3>1, CopiedInAlone, Naming, ActorsAssumption DEF PlaceInv, Busy
    <3> QED
      BY <1>4, <1>8, <3>1, <3>2 DEF FilesInv, CopiedInv
  <2> QED
    BY <2>1 DEF CopiedInv
<1>11. SourceInv'
  <2>1. ASSUME NEW n \in Names, Exists(n, "src")'
        PROVE  \/ At(n, "src")'.text # "torn" /\ (GoodDrops => At(n, "src")'.text # "bad")
               \/ \E q \in Procs : pc'[q] = "copying" /\ About[q] = n
    <3>1. CASE n = d /\ "src" = k
      BY <1>3, <1>8, <3>1 DEF Rejected
    <3>2. CASE ~(n = d /\ "src" = k)
      <4>1. Exists(n, "src") /\ At(n, "src")' = At(n, "src")
        BY <1>8, <2>1, <3>2
      <4>2. \A q \in Procs : pc[q] = "copying" => pc'[q] = "copying"
        BY <1>1, <1>2
      <4> QED
        BY <4>1, <4>2 DEF FilesInv, SourceInv
    <3> QED
      BY <3>1, <3>2
  <2> QED
    BY <1>1, <2>1 DEF SourceInv, GoodDrops
<1>12. CopyInv'
  <2>1. ASSUME NEW n \in Names, Exists(n, "copy")' PROVE At(n, "copy")'.text # "torn"
    <3>1. CASE n = d /\ "copy" = k
      BY <1>3, <1>8, <3>1 DEF Rejected
    <3>2. CASE ~(n = d /\ "copy" = k)
      BY <1>8, <2>1, <3>2 DEF FilesInv, CopyInv
    <3> QED
      BY <3>1, <3>2
  <2> QED
    BY <2>1 DEF CopyInv
<1> QED
  BY <1>9, <1>10, <1>11, <1>12 DEF FilesInv

\* A file is removed.
LEMMA FilesIfDeleted ==
  ASSUME OneCopier, TypeInv, PlaceInv, AloneInv, TogetherInv, FilesInv, NEW p \in Procs, Step(p),
         Delete(p) \/ DeleteCopy(p)
  PROVE  FilesInv'
<1>1. /\ text' = text
      /\ \A q \in Procs \ {p} : pc'[q] = pc[q]
  BY OneMoves
<1>2. /\ at' = at /\ kind' = kind /\ buf' = buf /\ data' = data /\ fd' = fd
      /\ pc[p] \in {"idle", "unlink_copy"} /\ pc'[p] \in {"failed", "unlink_copy", "done"}
      /\ Delete(p) => Begin(p)
  BY DEF Delete, DeleteCopy, Begin, Goto, work, TypeInv, TypeOK
<1>3. PICK k \in {"src", "copy"} :
        /\ \/ fs' = fs
           \/ p \in Deleters /\ Target(p) # 0 /\ fs' = [fs EXCEPT ![<< Target(p), k >>] = 0]
        /\ k = "src" => Delete(p)
  BY DEF Delete, DeleteCopy, PlaceInv
<1>4. p \in Deleters /\ Target(p) # 0
        => Target(p) \in Names /\ Safe[Target(p)] = Target(p) /\ << Target(p), k >> \in Path
  BY Naming, Paths, ActorsAssumption DEF Kinds
<1>5. \A a \in Path : fs'[a] = fs[a]
        \/ (a = << Target(p), k >> /\ fs'[a] = 0 /\ Target(p) # 0 /\ Safe[Target(p)] = Target(p))
  BY <1>3, <1>4 DEF TypeInv, TypeOK
<1>6. \A q \in Procs : Tmp(q)' = Tmp(q)
  BY <1>2 DEF Tmp, Dest
<1>7. WrittenInv'
  <2>1. ASSUME NEW q \in Procs, pc[q] \in Writing PROVE fs'[Tmp(q)] = fs[Tmp(q)]
    <3>1. /\ Tmp(q) \in Path /\ Tmp(q) = << Dest(q), Partial(kind[q]) >>
          /\ Partial(kind[q]) \notin {"src", "copy"}
      BY <2>1, WhereWritten
    <3>2. << Dest(q), Partial(kind[q]) >> # << Target(p), k >>
      BY <3>1
    <3> QED
      BY <1>5, <3>1, <3>2
  <2>2. \A q \in Procs : pc'[q] \in Writing => pc'[q] = pc[q]
    BY <1>1, <1>2 DEF Writing
  <2>3. ASSUME NEW q \in Procs, pc[q] \in Writing
        PROVE  /\ pc[q] \in {"write", "rename"} => fs'[Tmp(q)] # 0
               /\ pc[q] = "write" => fd[q] = fs'[Tmp(q)]
               /\ pc[q] = "rename" => data[fs'[Tmp(q)]].text = buf[q]
               /\ ~Rejected(buf[q])
    BY <2>1, <2>3 DEF FilesInv, WrittenInv
  <2> QED
    BY <1>2, <1>6, <2>2, <2>3 DEF WrittenInv, Writing
<1>8. CopiedInv'
  <2>1. ASSUME NEW q \in Procs, pc'[q] = "copying"
        PROVE  fd'[q] # 0 /\ fd'[q] = fs'[<< About[q], "src" >>]
    <3>1. pc[q] = "copying" /\ q # p /\ fd'[q] = fd[q]
      BY <1>1, <1>2, <2>1
    <3>2. About[q] \in Names /\ << About[q], "src" >> \in Path
      <4>1. q \in Procs \ {Loop}
        BY <3>1, ActorsAssumption DEF PlaceInv
      <4> QED
        BY <4>1, Naming, Paths DEF Kinds
    <3>3. CASE k = "src"
      <4>1. Safe[About[q]] = 0
        BY <1>2, <1>3, <3>1, <3>3, CopiedInAlone
      <4> QED
        BY <1>5, <3>1, <3>2, <4>1 DEF FilesInv, CopiedInv
    <3>4. CASE k = "copy"
      <4>1. << About[q], "src" >> # << Target(p), k >>
        BY <3>4
      <4> QED
        BY <1>5, <3>1, <3>2, <4>1 DEF FilesInv, CopiedInv
    <3> QED
      BY <3>3, <3>4
  <2> QED
    BY <2>1 DEF CopiedInv
<1>9. ASSUME NEW n \in Names, NEW j \in {"src", "copy"}, Exists(n, j)'
      PROVE  Exists(n, j) /\ At(n, j)' = At(n, j)
  <2>1. << n, j >> \in Path
    BY Paths DEF Kinds
  <2> QED
    BY <1>2, <1>5, <1>9, <2>1 DEF Exists, At
<1>10. \A q \in Procs : pc[q] = "copying" => pc'[q] = "copying"
  BY <1>1, <1>2
<1>11. SourceInv'
  BY <1>1, <1>9, <1>10 DEF FilesInv, SourceInv, GoodDrops
<1>12. CopyInv'
  BY <1>9 DEF FilesInv, CopyInv
<1> QED
  BY <1>7, <1>8, <1>11, <1>12 DEF FilesInv

\* A file that is copied in is the only one the copying touches.
LEMMA CopiedInTouches ==
  ASSUME TypeInv, PlaceInv, FilesInv, NEW p \in Procs, Drop(p) \/ Dropped(p)
  PROVE  /\ p \in Droppers /\ About[p] \in Names /\ << About[p], "src" >> \in Path
         /\ \A a \in Path \ {<< About[p], "src" >>} :
              fs'[a] = fs[a] /\ (fs[a] # 0 => data'[fs[a]] = data[fs[a]])
<1> DEFINE b == << About[p], "src" >>
<1>1. CASE Drop(p)
  <2>1. PICK m \in Inodes :
          /\ \A a \in Path \ {b} : fs'[a] = fs[a] /\ fs[a] # m
          /\ data' = [data EXCEPT ![m] = [text |-> "torn", table |-> FALSE, time |-> clock + 1]]
    BY <1>1, DropDoes
  <2>2. \A a \in Path \ {b} : fs'[a] = fs[a] /\ (fs[a] # 0 => data'[fs[a]] = data[fs[a]])
    <3> HIDE DEF b
    <3> QED
      BY <2>1 DEF TypeInv, TypeOK
  <2> QED
    BY <1>1, <2>2, DropDoes
<1>2. CASE Dropped(p)
  <2>1. pc[p] = "copying" /\ fs' = fs
    BY <1>2 DEF Dropped
  <2>2. p \in Droppers /\ p \in Procs \ {Loop}
    BY <2>1, ActorsAssumption DEF PlaceInv
  <2>3. About[p] \in Names /\ b \in Path
    BY <2>2, Naming, Paths DEF Kinds
  <2>4. fd[p] = fs[b] /\ fs[b] # 0
    BY <2>1 DEF FilesInv, CopiedInv
  <2>5. \E r : data' = [data EXCEPT ![fd[p]] = r]
    BY <1>2 DEF Dropped
  <2>6. \A a \in Path \ {b} : fs'[a] = fs[a] /\ (fs[a] # 0 => data'[fs[a]] = data[fs[a]])
    <3> HIDE DEF b
    <3> QED
      BY <2>1, <2>3, <2>4, <2>5 DEF TypeInv, TypeOK
  <2> QED
    BY <2>2, <2>3, <2>6
<1> QED
  BY <1>1, <1>2

\* A file is created over the share, or emptied.
LEMMA FilesIfDrop ==
  ASSUME TypeInv, PlaceInv, FilesInv, NEW p \in Procs, Step(p), Drop(p)
  PROVE  FilesInv'
<1>1. /\ text' = text
      /\ \A q \in Procs \ {p} : pc'[q] = pc[q] /\ fd'[q] = fd[q]
  BY OneMoves
<1>2. /\ at' = at /\ kind' = kind /\ buf' = buf /\ pc[p] = "idle" /\ pc'[p] = "copying"
  BY DEF Drop, Begin, Goto, TypeInv, TypeOK
<1> DEFINE b == << About[p], "src" >>
<1>3. b \in Path /\ About[p] \in Names
  BY CopiedInTouches
<1>4. PICK m \in Inodes :
        fs'[b] = m /\ fd' = [fd EXCEPT ![p] = m] /\ (Exists(About[p], "src") => fs' = fs)
  BY DropDoes
<1>5. \A a \in Path \ {b} : fs'[a] = fs[a] /\ (fs[a] # 0 => data'[fs[a]] = data[fs[a]])
  BY CopiedInTouches
<1>6. \A q \in Procs : Tmp(q)' = Tmp(q)
  BY <1>2 DEF Tmp, Dest
<1>7. WrittenInv'
  <2>1. ASSUME NEW q \in Procs, pc[q] \in Writing
        PROVE  /\ pc[q] \in {"write", "rename"} => fs'[Tmp(q)] # 0
               /\ pc[q] = "write" => fd[q] = fs'[Tmp(q)]
               /\ pc[q] = "rename" => data'[fs'[Tmp(q)]].text = buf[q]
               /\ ~Rejected(buf[q])
    <3>1. /\ Tmp(q) \in Path /\ Tmp(q) = << Dest(q), Partial(kind[q]) >>
          /\ Partial(kind[q]) \notin {"src", "copy"}
      BY <2>1, WhereWritten
    <3>2. << Dest(q), Partial(kind[q]) >> # b
      BY <3>1
    <3> QED
      BY <1>5, <2>1, <3>1, <3>2 DEF FilesInv, WrittenInv
  <2>2. \A q \in Procs : pc'[q] \in Writing => pc'[q] = pc[q] /\ fd'[q] = fd[q]
    BY <1>1, <1>2 DEF Writing
  <2> QED
    BY <1>2, <1>6, <2>1, <2>2 DEF WrittenInv, Writing
<1>8. CopiedInv'
  <2>1. fd'[p] = m /\ m # 0
    BY <1>4, Constants DEF TypeInv, TypeOK
  <2>2. ASSUME NEW q \in Procs \ {p}, pc'[q] = "copying"
        PROVE  fd'[q] # 0 /\ fd'[q] = fs'[<< About[q], "src" >>]
    <3>1. pc[q] = "copying" /\ fd'[q] = fd[q]
      BY <1>1, <2>2
    <3>2. q \in Procs \ {Loop}
      BY <3>1, ActorsAssumption DEF PlaceInv
    <3>3. About[q] \in Names /\ << About[q], "src" >> \in Path
      BY <3>2, Naming, Paths DEF Kinds
    <3>4. fd[q] # 0 /\ fd[q] = fs[<< About[q], "src" >>]
      BY <3>1 DEF FilesInv, CopiedInv
    <3>5. CASE About[q] = About[p]
      BY <1>4, <3>1, <3>4, <3>5 DEF Exists
    <3>6. CASE About[q] # About[p]
      <4>1. << About[q], "src" >> # b
        BY <3>6
      <4> QED
        BY <1>5, <3>1, <3>3, <3>4, <4>1
    <3> QED
      BY <3>5, <3>6
  <2> QED
    BY <1>4, <2>1, <2>2 DEF CopiedInv
<1>9. ASSUME NEW n \in Names, NEW k \in {"src", "copy"}, ~(n = About[p] /\ k = "src")
      PROVE  Exists(n, k)' = Exists(n, k) /\ (Exists(n, k) => At(n, k)' = At(n, k))
  <2>1. << n, k >> \in Path
    BY Paths DEF Kinds
  <2>2. << n, k >> # b
    BY <1>9
  <2> QED
    BY <1>5, <2>1, <2>2 DEF Exists, At
<1>10. \A q \in Procs : pc[q] = "copying" => pc'[q] = "copying"
  BY <1>1, <1>2
<1>11. SourceInv'
  BY <1>1, <1>2, <1>9, <1>10 DEF FilesInv, SourceInv, GoodDrops
<1>12. CopyInv'
  BY <1>9 DEF FilesInv, CopyInv
<1> QED
  BY <1>7, <1>8, <1>11, <1>12 DEF FilesInv

\* What is copied in is there.
LEMMA FilesIfDropped ==
  ASSUME TypeInv, PlaceInv, FilesInv, NEW p \in Procs, Step(p), Dropped(p)
  PROVE  FilesInv'
<1>1. /\ text' = text
      /\ \A q \in Procs \ {p} : pc'[q] = pc[q] /\ fd'[q] = fd[q]
  BY OneMoves
<1>2. /\ at' = at /\ kind' = kind /\ buf' = buf /\ fs' = fs /\ pc[p] = "copying" /\ pc'[p] = "done"
  BY DEF Dropped, Goto, TypeInv, TypeOK
<1> DEFINE b == << About[p], "src" >>
           r == [text |-> text[p], table |-> FALSE, time |-> IF KeepsTime THEN 0 ELSE clock + 1]
<1>3. p \in Droppers /\ About[p] \in Names /\ b \in Path
  BY CopiedInTouches
<1>4. fd[p] = fs[b] /\ fs[b] \in Inodes /\ data' = [data EXCEPT ![fd[p]] = r]
  BY <1>2, <1>3 DEF FilesInv, CopiedInv, TypeInv, TypeOK, Dropped
<1>5. data'[fs[b]].text = text[p]
  BY <1>4 DEF TypeInv, TypeOK
<1>6. text[p] # "torn" /\ (GoodDrops => text[p] # "bad")
  BY <1>3, ActorsAssumption DEF TypeInv, GoodDrops, Rejected
<1> HIDE DEF r
<1>7. \A a \in Path \ {b} : fs[a] # 0 => data'[fs[a]] = data[fs[a]]
  BY <1>2, CopiedInTouches
<1>8. \A q \in Procs : Tmp(q)' = Tmp(q)
  BY <1>2 DEF Tmp, Dest
<1>9. WrittenInv'
  <2>1. ASSUME NEW q \in Procs, pc[q] \in Writing
        PROVE  /\ pc[q] \in {"write", "rename"} => fs[Tmp(q)] # 0
               /\ pc[q] = "write" => fd[q] = fs[Tmp(q)]
               /\ pc[q] = "rename" => data'[fs[Tmp(q)]].text = buf[q]
               /\ ~Rejected(buf[q])
    <3>1. /\ Tmp(q) \in Path /\ Tmp(q) = << Dest(q), Partial(kind[q]) >>
          /\ Partial(kind[q]) \notin {"src", "copy"}
      BY <2>1, WhereWritten
    <3>2. << Dest(q), Partial(kind[q]) >> # b
      BY <3>1
    <3> QED
      BY <1>7, <2>1, <3>1, <3>2 DEF FilesInv, WrittenInv
  <2>2. \A q \in Procs : pc'[q] \in Writing => pc'[q] = pc[q] /\ fd'[q] = fd[q]
    BY <1>1, <1>2 DEF Writing
  <2> QED
    BY <1>2, <1>8, <2>1, <2>2 DEF WrittenInv, Writing
<1>10. CopiedInv'
  BY <1>1, <1>2 DEF FilesInv, CopiedInv
<1>11. ASSUME NEW n \in Names, NEW k \in {"src", "copy"}, ~(n = About[p] /\ k = "src")
      PROVE  Exists(n, k)' = Exists(n, k) /\ (Exists(n, k) => At(n, k)' = At(n, k))
  <2>1. << n, k >> \in Path
    BY Paths DEF Kinds
  <2>2. << n, k >> # b
    BY <1>11
  <2> QED
    BY <1>2, <1>7, <2>1, <2>2 DEF Exists, At
<1>12. SourceInv'
  <2>1. ASSUME NEW n \in Names, Exists(n, "src")'
        PROVE  \/ At(n, "src")'.text # "torn" /\ (GoodDrops => At(n, "src")'.text # "bad")
               \/ \E q \in Procs : pc'[q] = "copying" /\ About[q] = n
    <3>1. CASE n = About[p]
      BY <1>2, <1>5, <1>6, <3>1 DEF At
    <3>2. CASE n # About[p]
      <4>1. Exists(n, "src") /\ At(n, "src")' = At(n, "src")
        BY <1>11, <2>1, <3>2
      <4>2. \A q \in Procs : pc[q] = "copying" /\ About[q] = n => pc'[q] = "copying"
        BY <1>1, <3>2
      <4> QED
        BY <4>1, <4>2 DEF FilesInv, SourceInv
    <3> QED
      BY <3>1, <3>2
  <2> QED
    BY <1>1, <2>1 DEF SourceInv, GoodDrops
<1>13. CopyInv'
  BY <1>11 DEF FilesInv, CopyInv
<1> QED
  BY <1>9, <1>10, <1>12, <1>13 DEF FilesInv

LEMMA StepFiles ==
  ASSUME OneCopier, TypeInv, PlaceInv, AloneInv, TogetherInv, FilesInv, [Next]_vars
  PROVE  FilesInv'
<1>1. CASE UNCHANGED vars
  BY <1>1 DEF vars, disk, work, list, FilesInv, WrittenInv, CopiedInv, SourceInv, CopyInv, Tmp, Dest,
     Exists, At, GoodDrops
<1>2. ASSUME NEW p \in Procs, Step(p) PROVE FilesInv'
  <2>1. CASE Open(p) \/ Write(p)
    BY <1>2, <2>1, FilesIfWritten
  <2>2. CASE Rename(p)
    BY <1>2, <2>2, FilesIfRenamed
  <2>3. CASE Delete(p) \/ DeleteCopy(p)
    BY <1>2, <2>3, FilesIfDeleted
  <2>4. CASE Drop(p)
    BY <1>2, <2>4, FilesIfDrop
  <2>5. CASE Dropped(p)
    BY <1>2, <2>5, FilesIfDropped
  <2> QED
    BY <1>2, <2>1, <2>2, <2>3, <2>4, <2>5, FilesTouched, FilesIfNoneTouched
<1> QED
  BY <1>1, <1>2 DEF Next

LEMMA InitFiles == Init => FilesInv
<1> SUFFICES ASSUME Init PROVE FilesInv
  OBVIOUS
<1>1. TypeInv
  BY InitTypes
<1>2. \A m \in Inodes : data[m].text = FirstText
  BY DEF Init
<1>3. FirstText \notin {"torn", "bad"}
  BY ActorsAssumption
<1>4. \A n \in Names, k \in {"src", "copy"} : Exists(n, k) => At(n, k).text = FirstText
  <2>1. \A n \in Names, k \in {"src", "copy"} : << n, k >> \in Path
    BY Paths DEF Kinds
  <2> QED
    BY <1>1, <1>2, <2>1 DEF TypeInv, TypeOK, Exists, At
<1>5. \A p \in Procs : pc[p] = "idle"
  BY DEF Init
<1> QED
  BY <1>3, <1>4, <1>5 DEF FilesInv, WrittenInv, CopiedInv, SourceInv, CopyInv, Writing

-----------------------------------------------------------------------------
(* Who makes a working copy.                                               *)

\* A file comes into the directory by an upload's rename, or over the share.
LEMMA SourceAppears ==
  ASSUME TypeInv, PlaceInv, NEW p \in Procs, Step(p), NEW n \in Names, Exists(n, "src")'
  PROVE  \/ Exists(n, "src")
         \/ Rename(p) /\ Uploading(p) /\ n = at[p] /\ Safe[n] = n
         \/ Drop(p) /\ n = About[p]
<1>0. << n, "src" >> \in Path
  BY Paths DEF Kinds
<1>1. CASE UNCHANGED << fs, data, clock, fd >> \/ Write(p) \/ Dropped(p)
  BY <1>1 DEF Write, Dropped, Exists
<1>2. CASE Open(p)
  <2>1. /\ Tmp(p) = << Dest(p), Partial(kind[p]) >> /\ Partial(kind[p]) \notin {"src", "copy"}
    BY <1>2, WhereWritten DEF Open, Writing
  <2>2. << n, "src" >> # << Dest(p), Partial(kind[p]) >>
    BY <2>1
  <2>3. fs'[<< n, "src" >>] = fs[<< n, "src" >>]
    BY <1>0, <1>2, <2>1, <2>2, OpenDoes
  <2> QED
    BY <2>3 DEF Exists
<1>3. CASE Rename(p)
  <2>1. pc[p] = "rename" /\ (fs' = fs \/ fs' = Renamed(Dest(p), kind[p]))
    BY <1>3 DEF Rename
  <2> DEFINE d == Dest(p)
             k == kind[p]
  <2>2. d \in Names /\ k \in {"src", "copy"} /\ Partial(k) \notin {"src", "copy"} /\ Safe[d] = d
    BY <2>1, WhereWritten DEF Writing
  <2>3. CASE n = d /\ k = "src"
    BY <1>3, <2>1, <2>2, <2>3 DEF Uploading, Writing, Dest
  <2>4. CASE ~(n = d /\ k = "src")
    <3> HIDE DEF d, k
    <3>1. << n, "src" >> # << d, k >> /\ << n, "src" >> # << d, Partial(k) >>
      BY <2>2, <2>4
    <3>2. fs' = Renamed(d, k) => fs'[<< n, "src" >>] = fs[<< n, "src" >>]
      BY <1>0, <2>2, <3>1, NameMoves DEF TypeInv
    <3> QED
      BY <2>1, <3>2 DEF Exists, d, k
  <2> QED
    BY <2>3, <2>4
<1>4. CASE Delete(p) \/ DeleteCopy(p)
  <2>1. \E b : fs' = fs \/ fs' = [fs EXCEPT ![b] = 0]
    BY <1>4 DEF Delete, DeleteCopy
  <2> QED
    BY <1>0, <2>1 DEF Exists, TypeInv, TypeOK
<1>5. CASE Drop(p)
  <2>1. CASE n = About[p]
    BY <1>5, <2>1
  <2>2. CASE n # About[p]
    <3>1. << n, "src" >> # << About[p], "src" >>
      BY <2>2
    <3>2. fs'[<< n, "src" >>] = fs[<< n, "src" >>]
      BY <1>0, <1>5, <3>1, DropDoes
    <3> QED
      BY <3>2 DEF Exists
  <2> QED
    BY <2>1, <2>2
<1> QED
  BY <1>1, <1>2, <1>3, <1>4, <1>5, FilesTouched

\* A working copy is begun when a listing comes to a file without a fresh one.
LEMMA CopyingBegins ==
  ASSUME TypeInv, NEW p \in Procs, Step(p), Copying(p)'
  PROVE  \/ Copying(p)
         \/ pc[p] = "list" /\ \E n \in Names : Safe[n] # 0 /\ Exists(n, "src") /\ ~Fresh(n)
<1> USE DEF TypeInv, TypeOK, Goto, Copying, Writing
<1>1. CASE List(p)
  BY <1>1 DEF List
<1>2. ASSUME NEW n \in Names, Stat(p, n)
      PROVE  pc[p] = "list" /\ Safe[n] # 0 /\ Exists(n, "src") /\ ~Fresh(n)
  BY <1>2 DEF Stat, Skipped
<1>3. CASE Read(p)
  BY <1>3 DEF Read
<1>4. CASE Open(p) \/ Write(p)
  BY <1>4 DEF Open, Write
<1>5. CASE Rename(p)
  BY <1>5 DEF Rename
<1>6. CASE Get(p) \/ Tunnels(p) \/ (p = Loop /\ ((\E n \in Names : Up(n)) \/ EndOfPass))
  BY <1>6 DEF Get, Tunnels, Up, EndOfPass
<1>7. CASE Upload(p)
  BY <1>7 DEF Upload
<1>8. CASE Delete(p) \/ DeleteCopy(p) \/ Drop(p) \/ Dropped(p)
  BY <1>8 DEF Delete, DeleteCopy, Drop, Dropped
<1> QED
  BY <1>1, <1>2, <1>3, <1>4, <1>5, <1>6, <1>7, <1>8 DEF Step

\* Of those that act at the same time one at most uploads, and nobody lists but it and the loop.
LEMMA ListsTogether ==
  ASSUME OneCopier, TypeInv, PlaceInv, TogetherInv, cast \in Together,
         NEW p \in Procs \ {Loop}, pc[p] = "list"
  PROVE  Before /\ p \in Uploaders /\ p \in cast
<1>1. p \in cast /\ p \in Uploaders
  BY DEF PlaceInv, OneCopier
<1>2. ASSUME NEW q \in Uploaders, pc[q] # "idle" PROVE q = p
  <2>1. q \in Procs /\ q # Loop
    BY ActorsAssumption DEF Procs
  <2>2. q \in cast
    BY <1>2, <2>1 DEF PlaceInv
  <2> QED
    BY <1>1, <1>2, <2>2 DEF OneCopier
<1> QED
  BY <1>1, <1>2 DEF Before

LEMMA StepTogether ==
  ASSUME OneCopier, TypeInv, PlaceInv, AloneInv, TogetherInv, FilesInv, [Next]_vars
  PROVE  TogetherInv'
<1>1. CASE UNCHANGED vars
  BY <1>1 DEF vars, disk, work, list, TogetherInv, Exists, At, Copying, Before, Fresh
<1>2. ASSUME NEW p \in Procs, Step(p), cast \in Together
      PROVE  /\ \A n \in Names : Safe[n] # 0 /\ Exists(n, "src")' => Safe[n] = n
             /\ \A q \in Procs \ {Loop} : ~Copying(q)'
             /\ Before' =>
                  /\ \A n \in Names : Safe[n] # 0 /\ Exists(n, "src")' => Fresh(n)'
                  /\ \A q \in Procs : pc'[q] = "unlink_copy" => ~Exists(Target(q), "src")'
                  /\ ~Copying(Loop)'
  <2>1. \A q \in Procs \ {p} : pc'[q] = pc[q] /\ at'[q] = at[q] /\ kind'[q] = kind[q]
    BY <1>2, OneMoves
  <2>2. Drop(p) => Safe[About[p]] = 0
    <3>1. Drop(p) => p \in Droppers /\ p \in cast
      BY ActorsAssumption DEF Drop, Begin
    <3> QED
      BY <1>2, <3>1 DEF OneCopier
  <2>3. \A n \in Names : Safe[n] # 0 /\ Exists(n, "src")' => Safe[n] = n
    BY <1>2, <2>2, SourceAppears DEF TogetherInv
  <2>4. ASSUME NEW q \in Procs \ {Loop}, Copying(q)' PROVE FALSE
    <3>1. ~Copying(q)
      BY <1>2 DEF TogetherInv
    <3>2. q = p
      BY <2>1, <2>4, <3>1 DEF Copying
    <3>3. pc[p] = "list" /\ \E n \in Names : Safe[n] # 0 /\ Exists(n, "src") /\ ~Fresh(n)
      BY <1>2, <2>4, <3>1, <3>2, CopyingBegins
    <3>4. Before
      BY <1>2, <3>2, <3>3, ListsTogether
    <3> QED
      BY <1>2, <3>3, <3>4 DEF TogetherInv
  <2>5. ASSUME Before'
        PROVE  /\ \A n \in Names : Safe[n] # 0 /\ Exists(n, "src")' => Fresh(n)'
               /\ \A q \in Procs : pc'[q] = "unlink_copy" => ~Exists(Target(q), "src")'
               /\ ~Copying(Loop)'
    <3>1. Before
      <4>1. ASSUME p \in Uploaders, pc[p] \notin {"idle", "list"} PROVE FALSE
        <5>1. p # Loop /\ ~Copying(p) /\ pc'[p] \in {"idle", "list"}
          BY <1>2, <2>5, <4>1, ActorsAssumption DEF TogetherInv, Before
        <5>2. \/ pc[p] \in {"open", "write", "rename"} /\ kind[p] = "src"
              \/ pc[p] \in {"unlink_copy", "copying", "up"}
          <6>1. pc[p] \in PCs /\ kind[p] \in {"src", "copy"}
            BY DEF TypeInv, TypeOK
          <6>2. Busy(p)
            BY <1>2, <4>1, OneMoves DEF Begin
          <6> QED
            BY <4>1, <5>1, <6>1, <6>2 DEF PCs, Busy, Copying, Writing
        <5>3. pc[p] \in {"open", "write", "rename"} /\ kind[p] = "src"
          BY <4>1, <5>1, <5>2, ActorsAssumption DEF PlaceInv
        <5>4. Open(p) \/ Write(p) \/ Rename(p)
          BY <1>2, <5>1, <5>3 DEF Step, List, Begin, Stat, Read, Get, Listed, Upload, Tunnels, Delete,
             DeleteCopy, Drop, Dropped
        <5> QED
          BY <5>1, <5>3, <5>4 DEF Open, Write, Rename, Goto, TypeInv, TypeOK
      <4> QED
        BY <2>1, <2>5, <4>1, ActorsAssumption DEF Before, Procs
    <3>2. /\ \A n \in Names : Safe[n] # 0 /\ Exists(n, "src") => Fresh(n)
          /\ \A q \in Procs : pc[q] = "unlink_copy" => ~Exists(Target(q), "src")
          /\ \A q \in Procs : ~Copying(q)
      BY <1>2, <3>1 DEF TogetherInv
    <3>3. \A q \in Procs : pc[q] \notin Writing
      BY <3>1, <3>2 DEF Before, PlaceInv, Copying, Uploading, Writing, TypeInv, TypeOK
    <3>4. \/ UNCHANGED << fs, data, clock, fd >>
          \/ Delete(p) \/ DeleteCopy(p) \/ Drop(p) \/ Dropped(p)
      BY <1>2, <3>3, FilesTouched DEF Writing, Open, Write, Rename
    <3>5. ~Copying(Loop)'
      <4>1. Loop \in Procs
        BY Constants
      <4>2. ~Copying(p)'
        BY <1>2, <3>2, CopyingBegins
      <4> QED
        BY <2>1, <3>2, <4>1, <4>2 DEF Copying
    <3>6. ASSUME NEW n \in Names, Safe[n] # 0, Exists(n, "src")' PROVE Fresh(n)'
      <4>1. Exists(n, "src")
        BY <1>2, <2>2, <3>3, <3>6, SourceAppears DEF Uploading
      <4>2. Safe[n] = n /\ Exists(n, "copy") /\ At(n, "src").time <= At(n, "copy").time
        BY <1>2, <3>2, <3>6, <4>1 DEF TogetherInv, Fresh
      <4>3. << n, "src" >> \in Path /\ << n, "copy" >> \in Path
        BY Paths DEF Kinds
      <4>4. ASSUME NEW k \in {"src", "copy"} PROVE Exists(n, k)' /\ At(n, k)' = At(n, k)
        <5>0. << n, k >> \in Path /\ Exists(n, k)
          BY <4>1, <4>2, <4>3
        <5>1. CASE UNCHANGED << fs, data, clock, fd >>
          BY <5>0, <5>1 DEF Exists, At
        <5>2. CASE Delete(p)
          <6>1. k = "src" => fs'[<< n, k >>] # 0
            BY <3>6 DEF Exists
          <6>2. data' = data
            BY <5>2 DEF Delete
          <6>3. \E b : fs' = fs \/ (fs' = [fs EXCEPT ![<< b, "src" >>] = 0])
            BY <5>2 DEF Delete
          <6>4. fs'[<< n, k >>] = fs[<< n, k >>]
            BY <5>0, <6>1, <6>3 DEF TypeInv, TypeOK
          <6> QED
            BY <5>0, <6>2, <6>4 DEF Exists, At
        <5>3. CASE DeleteCopy(p)
          <6>1. pc[p] = "unlink_copy" /\ data' = data
                /\ fs' = [fs EXCEPT ![<< Target(p), "copy" >>] = 0]
            BY <5>3 DEF DeleteCopy
          <6>2. n # Target(p)
            BY <3>2, <4>1, <6>1
          <6>3. << n, k >> # << Target(p), "copy" >>
            BY <6>2
          <6>4. fs'[<< n, k >>] = fs[<< n, k >>]
            BY <5>0, <6>1, <6>3 DEF TypeInv, TypeOK
          <6> QED
            BY <5>0, <6>1, <6>4 DEF Exists, At
        <5>4. CASE Drop(p) \/ Dropped(p)
          <6>1. p \in Droppers /\ p \in cast
            <7>0. p \in Droppers
              BY <5>4, CopiedInTouches
            <7>1. p \in Droppers /\ p # Loop
              BY <7>0, ActorsAssumption
            <7> QED
              BY <5>4, <7>1 DEF Drop, Begin, Dropped, PlaceInv
          <6>2. Safe[About[p]] = 0
            BY <1>2, <6>1 DEF OneCopier
          <6>3. << n, k >> # << About[p], "src" >>
            BY <3>6, <6>2
          <6>4. fs'[<< n, k >>] = fs[<< n, k >>] /\ (fs[<< n, k >>] # 0
                  => data'[fs[<< n, k >>]] = data[fs[<< n, k >>]])
            BY <5>0, <5>4, <6>3, CopiedInTouches
          <6> QED
            BY <5>0, <6>4 DEF Exists, At
        <5> QED
          BY <3>4, <5>1, <5>2, <5>3, <5>4
      <4> QED
        BY <4>2, <4>4 DEF Fresh
    <3>7. ASSUME NEW q \in Procs, pc'[q] = "unlink_copy" PROVE ~Exists(Target(q), "src")'
      <4>1. q \in Deleters /\ Target(q) # 0 /\ q \in Procs \ {Loop}
        <5>1. PlaceInv'
          BY <1>2, StepPlaces DEF Next
        <5> QED
          BY <3>7, <5>1, ActorsAssumption DEF PlaceInv, Target
      <4>2. Target(q) \in Names /\ Safe[Target(q)] = Target(q)
        BY <4>1, Naming
      <4>3. CASE pc[q] = "unlink_copy" /\ q # p
        <5>1. ~Exists(Target(q), "src")
          BY <3>2, <4>3
        <5> QED
          BY <1>2, <2>2, <3>3, <4>1, <4>2, <5>1, SourceAppears DEF Uploading
      <4>4. CASE q = p
        <5>1. Delete(p)
          BY <1>2, <3>7, <4>1, <4>4, <3>3 DEF Step, List, Stat, Read, Open, Write, Rename, Get, Listed,
             Upload, Tunnels, Up, EndOfPass, DeleteCopy, Drop, Dropped, Goto, TypeInv, TypeOK, Writing,
             Copying
        <5>2. fs' = [fs EXCEPT ![<< Target(p), "src" >>] = 0]
          BY <3>7, <4>4, <5>1 DEF Delete, Goto, TypeInv, TypeOK
        <5>3. << Target(p), "src" >> \in Path
          BY <4>2, <4>4, Paths DEF Kinds
        <5> QED
          BY <4>4, <5>2, <5>3 DEF Exists, TypeInv, TypeOK
      <4> QED
        BY <2>1, <3>7, <4>3, <4>4
    <3> QED
      BY <3>5, <3>6, <3>7
  <2> QED
    BY <2>3, <2>4, <2>5
<1>3. ASSUME NEW p \in Procs, Step(p) PROVE TogetherInv'
  <2>1. cast' = cast
    BY <1>3, OneMoves
  <2> QED
    BY <1>2, <1>3, <2>1 DEF TogetherInv
<1> QED
  BY <1>1, <1>3 DEF Next

LEMMA InitTogether == Init => AloneInv /\ PlaceInv /\ TogetherInv
<1> SUFFICES ASSUME Init PROVE AloneInv /\ PlaceInv /\ TogetherInv
  OBVIOUS
<1>1. \A p \in Procs : pc[p] = "idle"
  BY DEF Init
<1>2. TypeInv
  BY InitTypes
<1>3. \A m \in Inodes : data[m].time = 0
  BY DEF Init
<1>4. ASSUME NEW n \in Names, Safe[n] # 0, Exists(n, "src") PROVE Safe[n] = n /\ Fresh(n)
  <2>1. << n, "src" >> \in Path /\ << n, "copy" >> \in Path
    BY Paths DEF Kinds
  <2>2. fs[<< n, "src" >>] = FirstFs(n, "src") /\ fs[<< n, "copy" >>] = FirstFs(n, "copy")
    <3>1. \A a \in Path : fs[a] = FirstFs(a[1], a[2])
      BY DEF Init
    <3> QED
      BY <2>1, <3>1
  <2>3. n \in Installed
    BY <1>4, <2>2 DEF Exists, FirstFs
  <2>4. Safe[n] = n
    BY <2>3, Naming
  <2>5. fs[<< n, "copy" >>] = 2 * n /\ 2 * n # 0
    BY <2>2, <2>3, Constants DEF FirstFs
  <2>6. At(n, "src").time = 0 /\ At(n, "copy").time = 0
    BY <1>2, <1>3, <1>4, <2>1, <2>5 DEF Exists, At, TypeInv, TypeOK
  <2> QED
    BY <2>4, <2>5, <2>6 DEF Fresh, Exists
<1>5. Loop \in Procs
  BY Constants
<1> QED
  BY <1>1, <1>4, <1>5 DEF AloneInv, PlaceInv, TogetherInv, Busy, Copying, Uploading, Writing

-----------------------------------------------------------------------------
(* No interface is brought up from part of a file.                         *)

IInv == TypeInv /\ PlaceInv /\ AloneInv /\ TogetherInv /\ FilesInv

LEMMA InitIInv == Init => IInv
BY InitTypes, InitTogether, InitFiles DEF IInv

LEMMA StepIInv ==
  ASSUME OneCopier, IInv, [Next]_vars
  PROVE  IInv'
BY StepTypes, StepPlaces, StepAlone, StepTogether, StepFiles DEF IInv

LEMMA StepNeverTorn ==
  ASSUME IInv, NeverTorn, [Next]_vars
  PROVE  NeverTorn'
<1>1. CASE running' = running
  BY <1>1 DEF NeverTorn
<1>2. ASSUME NEW n \in Names, Up(n) PROVE NeverTorn'
  <2>1. running \in [Names -> Texts \cup {"none"}]
    BY DEF IInv, TypeInv, TypeOK
  <2>2. Exists(n, "copy") => At(n, "copy").text # "torn"
    BY DEF IInv, FilesInv, CopyInv
  <2> QED
    BY <1>2, <2>1, <2>2 DEF Up, NeverTorn
<1>3. running' = running \/ \E n \in Names : Up(n)
  BY DEF Next, Step, List, Stat, Read, Open, Write, Rename, Get, Upload, Tunnels, EndOfPass,
     Delete, DeleteCopy, Drop, Dropped, vars
<1> QED
  BY <1>1, <1>2, <1>3

\* A file is written under another name and renamed (settings.go:280-281, tunneldir.go:149-150):
\* with one writer of copies, no interface is ever brought up from part of a config, whatever is
\* removed or replaced meanwhile.
THEOREM NoPartOfAFile ==
  ASSUME OneCopier
  PROVE  Spec => []NeverTorn
<1>1. Init => NeverTorn
  BY ActorsAssumption DEF Init, NeverTorn
<1>2. IInv /\ NeverTorn /\ [Next]_vars => IInv' /\ NeverTorn'
  BY StepIInv, StepNeverTorn
<1> QED
  BY <1>1, <1>2, InitIInv, PTL DEF Spec

\* Type correctness, with each process at a place of its own kind (tunneldir.go:tunnelPaths,
\* settings.go), whoever is at work at the same time.
THEOREM TypesOK == Spec => [](TypeOK /\ PlaceInv)
<1>1. Init => TypeInv /\ PlaceInv
  BY InitTypes, InitTogether
<1>2. TypeInv /\ PlaceInv /\ [Next]_vars => TypeInv' /\ PlaceInv'
  BY StepTypes, StepPlaces
<1>3. TypeInv => TypeOK
  BY DEF TypeInv
<1> QED
  BY <1>1, <1>2, <1>3, PTL DEF Spec

-----------------------------------------------------------------------------
(* No more files are accepted than become tunnels.                         *)

\* A file leaves the directory when it is deleted.
LEMMA SourceGoes ==
  ASSUME IInv, NEW p \in Procs, Step(p), NEW n \in Names, Exists(n, "src"), ~Exists(n, "src")'
  PROVE  p \in Deleters /\ Begin(p) /\ Target(p) = n
<1>0. << n, "src" >> \in Path /\ TypeInv /\ PlaceInv /\ FilesInv
      /\ fs[<< n, "src" >>] # 0 /\ fs'[<< n, "src" >>] = 0
  BY Paths DEF Kinds, IInv, Exists
<1>1. CASE UNCHANGED << fs, data, clock, fd >> \/ Write(p) \/ Dropped(p)
  BY <1>0, <1>1 DEF Write, Dropped
<1>2. CASE Open(p)
  <2>1. PICK m \in Inodes :
          fs'[Tmp(p)] = m /\ \A a \in Path \ {Tmp(p)} : fs'[a] = fs[a] /\ fs[a] # m
    BY <1>0, <1>2, OpenDoes
  <2> QED
    BY <1>0, <2>1, Constants
<1>3. CASE Rename(p)
  <2>1. pc[p] = "rename" /\ (fs' = fs \/ (fs[Tmp(p)] # 0 /\ fs' = Renamed(Dest(p), kind[p])))
    BY <1>3 DEF Rename
  <2>2. /\ Dest(p) \in Names /\ kind[p] \in {"src", "copy"} /\ Partial(kind[p]) \notin {"src", "copy"}
        /\ Tmp(p) = << Dest(p), Partial(kind[p]) >>
    BY <1>0, <2>1, WhereWritten DEF Writing
  <2>3. << n, "src" >> # Tmp(p)
    BY <2>2
  <2>4. ASSUME fs' = Renamed(Dest(p), kind[p])
        PROVE  /\ fs'[<< Dest(p), kind[p] >>] = fs[Tmp(p)]
               /\ \A a \in Path \ {<< Dest(p), kind[p] >>, Tmp(p)} : fs'[a] = fs[a]
    <3>1. TypeOK
      BY <1>0 DEF TypeInv
    <3>2. /\ fs'[<< Dest(p), kind[p] >>] = fs[<< Dest(p), Partial(kind[p]) >>]
          /\ \A a \in Path \ {<< Dest(p), kind[p] >>, << Dest(p), Partial(kind[p]) >>} : fs'[a] = fs[a]
      BY <2>2, <2>4, <3>1, NameMoves
    <3> QED
      BY <2>2, <3>2
  <2> QED
    BY <1>0, <2>1, <2>3, <2>4
<1>4. CASE Drop(p)
  <2>1. CASE n = About[p]
    BY <1>0, <1>4, <2>1, DropDoes
  <2>2. CASE n # About[p]
    <3>1. << n, "src" >> # << About[p], "src" >>
      BY <2>2
    <3> QED
      BY <1>0, <1>4, <3>1, CopiedInTouches
  <2> QED
    BY <2>1, <2>2
<1>5. CASE DeleteCopy(p)
  <2>1. << n, "src" >> # << Target(p), "copy" >>
    OBVIOUS
  <2>2. fs' = [fs EXCEPT ![<< Target(p), "copy" >>] = 0]
    BY <1>5 DEF DeleteCopy
  <2> QED
    BY <1>0, <2>1, <2>2 DEF TypeInv, TypeOK
<1>6. CASE Delete(p)
  <2>1. p \in Deleters /\ Begin(p)
        /\ (fs' = fs \/ fs' = [fs EXCEPT ![<< Target(p), "src" >>] = 0])
    BY <1>6 DEF Delete
  <2>2. << n, "src" >> = << Target(p), "src" >>
    BY <1>0, <2>1 DEF TypeInv, TypeOK
  <2> QED
    BY <2>1, <2>2
<1> QED
  BY <1>0, <1>1, <1>2, <1>3, <1>4, <1>5, <1>6, FilesTouched

\* The directory gains a file of a good name by an upload only.
LEMMA GoodSourceAppears ==
  ASSUME DropsReplace, IInv, NamedInv, NEW p \in Procs, Step(p), NEW n \in SafeSources'
  PROVE  n \in SafeSources \/ (Rename(p) /\ Uploading(p) /\ n = at[p] /\ Safe[n] = n)
<1>1. n \in Names /\ Exists(n, "src")' /\ Safe[n] # 0
  BY DEF SafeSources, Sources
<1>2. CASE Drop(p) /\ n = About[p]
  <2>1. p \in Droppers /\ p \in cast
    <3>1. p \in Droppers /\ p # Loop
      BY <1>2, ActorsAssumption DEF Drop
    <3> QED
      BY <1>2, <3>1 DEF Drop, Begin
  <2> QED
    BY <1>1, <1>2, <2>1 DEF NamedInv, SafeSources, Sources
<1> QED
  BY <1>1, <1>2, SourceAppears DEF IInv, SafeSources, Sources

LEMMA StepNamed ==
  ASSUME DropsReplace, IInv, NamedInv, [Next]_vars
  PROVE  NamedInv'
<1>1. CASE UNCHANGED vars
  BY <1>1 DEF vars, disk, NamedInv, SafeSources, Sources, Exists
<1>2. ASSUME NEW p \in Procs, Step(p) PROVE NamedInv'
  <2>1. cast' = cast
    BY <1>2, OneMoves DEF IInv
  <2>2. \A n \in SafeSources' : Safe[n] = n
    BY <1>2, GoodSourceAppears DEF NamedInv
  <2>3. ASSUME NEW q \in Droppers \cap cast, Safe[About[q]] # 0 PROVE Exists(About[q], "src")'
    <3>1. q \in Procs \ {Loop} /\ cast \in Casts
      BY ActorsAssumption DEF Procs, IInv, TypeInv, TypeOK
    <3>2. About[q] \in Names /\ Exists(About[q], "src")
      BY <2>3, <3>1, Naming DEF NamedInv
    <3>3. \A d \in cast \cap Deleters : Target(d) # About[q]
      BY <2>3, <3>1 DEF DropsReplace
    <3>4. p \in Deleters /\ Begin(p) => p \in cast
      BY ActorsAssumption DEF Begin
    <3> QED
      BY <1>2, <3>2, <3>3, <3>4, SourceGoes
  <2> QED
    BY <2>1, <2>2, <2>3 DEF NamedInv
<1> QED
  BY <1>1, <1>2 DEF Next

LEMMA SizesOfSources ==
  ASSUME NEW S \in SUBSET Names, NEW T \in SUBSET S
  PROVE  /\ IsFiniteSet(S) /\ IsFiniteSet(T) /\ Cardinality(S) \in Nat /\ Cardinality(T) \in Nat
         /\ Cardinality(T) <= Cardinality(S)
<1>1. IsFiniteSet(S)
  BY Constants, FS_Subset
<1>2. IsFiniteSet(T) /\ Cardinality(T) <= Cardinality(S)
  BY <1>1, FS_Subset
<1> QED
  BY <1>1, <1>2, FS_CardinalityType

LEMMA StepCap ==
  ASSUME DropsReplace, IInv, NamedInv, ListInv, CapHolds, [Next]_vars
  PROVE  CapHolds'
<1>1. CASE UNCHANGED vars
  BY <1>1 DEF vars, disk, CapHolds, GoodDrops, Sources, Exists
<1>2. ASSUME NEW p \in Procs, Step(p), GoodDrops PROVE Cardinality(SafeSources') <= MaxTunnels
  <2>1. SafeSources \subseteq Names /\ SafeSources' \subseteq Names
    BY DEF SafeSources, Sources
  <2>2. CASE Rename(p) /\ Uploading(p)
    <3>1. at[p] \in Names /\ p \in Uploaders
      BY <2>2 DEF IInv, TypeInv, TypeOK, PlaceInv
    <3>2. Cardinality(SafeSources \cup {at[p]}) <= MaxTunnels
      BY <1>2, <2>2, <3>1 DEF ListInv
    <3>3. SafeSources' \subseteq SafeSources \cup {at[p]}
      BY <1>2, GoodSourceAppears
    <3>4. /\ Cardinality(SafeSources') <= Cardinality(SafeSources \cup {at[p]})
          /\ Cardinality(SafeSources') \in Nat /\ Cardinality(SafeSources \cup {at[p]}) \in Nat
      BY <2>1, <3>1, <3>3, SizesOfSources
    <3> QED
      BY <3>2, <3>4, ActorsAssumption
  <2>3. CASE ~(Rename(p) /\ Uploading(p))
    <3>1. SafeSources' \subseteq SafeSources
      BY <1>2, <2>3, GoodSourceAppears
    <3>2. /\ Cardinality(SafeSources') <= Cardinality(SafeSources)
          /\ Cardinality(SafeSources') \in Nat /\ Cardinality(SafeSources) \in Nat
      BY <2>1, <3>1, SizesOfSources
    <3> QED
      BY <1>2, <3>2, ActorsAssumption DEF CapHolds, SafeSources
  <2> QED
    BY <2>2, <2>3
<1>3. ASSUME NEW p \in Procs, Step(p) PROVE CapHolds'
  <2>1. text' = text
    BY <1>3, OneMoves DEF IInv
  <2>2. GoodDrops' = GoodDrops
    BY <2>1 DEF GoodDrops
  <2> QED
    BY <1>2, <1>3, <2>2 DEF CapHolds, SafeSources
<1> QED
  BY <1>1, <1>3 DEF Next

\* What another has in hand, while a process takes a step.
LEMMA ListOfAnother ==
  ASSUME OneCopier, DropsReplace, IInv, NamedInv, NEW p \in Procs, Step(p),
         NEW q \in Uploaders \ {p}, Busy(q)
  PROVE  SafeSources' \subseteq SafeSources
<1>1. ASSUME Rename(p), Uploading(p) PROVE FALSE
  <2>1. q \in Procs /\ q # Loop /\ p \in Uploaders /\ p # Loop /\ Busy(p)
    BY <1>1, ActorsAssumption DEF Procs, IInv, PlaceInv, Rename, Busy
  <2>2. cast \in Together
    BY <2>1 DEF IInv, AloneInv
  <2>3. p \in cast /\ q \in cast
    BY <2>1 DEF IInv, PlaceInv, Busy
  <2> QED
    BY <2>1, <2>2, <2>3 DEF OneCopier
<1> QED
  BY <1>1, GoodSourceAppears

\* An upload that goes on to write has room for the file.
LEMMA UploadHasRoom ==
  ASSUME IInv, NamedInv, ListInv, CapHolds, GoodDrops, NEW p \in Uploaders, Upload(p),
         pc'[p] = "open"
  PROVE  Cardinality(SafeSources \cup {at'[p]}) <= MaxTunnels
<1>1. p \in Procs \ {Loop}
  BY ActorsAssumption DEF Procs
<1>t. /\ pc \in [Procs -> PCs] /\ at \in [Procs -> Names] /\ out \in [Procs -> SUBSET Names]
  BY DEF IInv, TypeInv, TypeOK
<1>2. /\ Target(p) # 0 /\ at'[p] = Target(p) /\ (pc[p] = "idle" \/ UnderCap(p))
      /\ \/ pc[p] = "idle" /\ ~Lists(p)
         \/ pc[p] = "list" /\ todo[p] = {}
  BY <1>1, <1>t DEF Upload, Goto, Begin, Listed
<1>3. Target(p) \in Names /\ Safe[Target(p)] = Target(p)
  BY <1>1, <1>2, Naming
<1>4. SafeSources \subseteq Names
  BY DEF SafeSources, Sources
<1>5. CASE pc[p] = "idle"
  <2>1. Exists(Target(p), "src")
    BY <1>2, <1>5 DEF Lists
  <2>2. SafeSources \cup {at'[p]} = SafeSources
    BY <1>2, <1>3, <2>1 DEF SafeSources, Sources
  <2> QED
    BY <2>2 DEF CapHolds, SafeSources
<1>6. CASE pc[p] = "list"
  <2>1. SafeSources \subseteq out[p] /\ out[p] \subseteq Names /\ Cardinality(out[p]) < MaxTunnels
    BY <1>1, <1>2, <1>6, <1>t DEF ListInv, UnderCap
  <2>2. IsFiniteSet(out[p]) /\ Cardinality(out[p]) \in Nat
    BY <2>1, SizesOfSources
  <2>3. IsFiniteSet(out[p] \cup {at'[p]}) /\ Cardinality(out[p] \cup {at'[p]}) <= Cardinality(out[p]) + 1
    BY <2>2, FS_AddElement
  <2>4. /\ Cardinality(SafeSources \cup {at'[p]}) <= Cardinality(out[p] \cup {at'[p]})
        /\ Cardinality(SafeSources \cup {at'[p]}) \in Nat /\ Cardinality(out[p] \cup {at'[p]}) \in Nat
    BY <1>2, <1>3, <1>4, <2>1, SizesOfSources
  <2> QED
    BY <2>1, <2>2, <2>3, <2>4, ActorsAssumption
<1> QED
  BY <1>2, <1>5, <1>6

LEMMA StepList ==
  ASSUME OneCopier, DropsReplace, IInv, NamedInv, ListInv, CapHolds, [Next]_vars
  PROVE  ListInv'
<1>1. CASE UNCHANGED vars
  BY <1>1 DEF vars, disk, work, list, ListInv, GoodDrops, SafeSources, Sources, Exists, Copying,
     Uploading
<1>2. ASSUME NEW p \in Procs, Step(p), GoodDrops, NEW q \in Uploaders
      PROVE  /\ pc'[q] = "list" => SafeSources' \subseteq out'[q] \cup todo'[q]
             /\ Copying(q)' => SafeSources' \subseteq out'[q] \cup todo'[q] \cup {at'[q]}
             /\ Uploading(q)' => Cardinality(SafeSources' \cup {at'[q]}) <= MaxTunnels
  <2>0. q \in Procs /\ q # Loop /\ q \notin Getters \cup Deleters \cup Droppers
    BY ActorsAssumption DEF Procs
  <2>t. /\ pc \in [Procs -> PCs] /\ kind \in [Procs -> {"src", "copy"}] /\ at \in [Procs -> Names]
        /\ out \in [Procs -> SUBSET Names] /\ todo \in [Procs -> SUBSET Names]
    BY DEF IInv, TypeInv, TypeOK
  <2>l. /\ pc[q] = "list" => SafeSources \subseteq out[q] \cup todo[q]
        /\ Copying(q) => SafeSources \subseteq out[q] \cup todo[q] \cup {at[q]}
        /\ Uploading(q) => Cardinality(SafeSources \cup {at[q]}) <= MaxTunnels
    BY <1>2 DEF ListInv
  <2>c. ASSUME SafeSources' \subseteq SafeSources, Cardinality(SafeSources \cup {at[q]}) <= MaxTunnels
        PROVE  Cardinality(SafeSources' \cup {at[q]}) <= MaxTunnels
    <3>1. SafeSources \subseteq Names /\ at[q] \in Names
      BY <2>0, <2>t DEF SafeSources, Sources
    <3>2. /\ Cardinality(SafeSources' \cup {at[q]}) <= Cardinality(SafeSources \cup {at[q]})
          /\ Cardinality(SafeSources' \cup {at[q]}) \in Nat /\ Cardinality(SafeSources \cup {at[q]}) \in Nat
      BY <2>c, <3>1, SizesOfSources
    <3> QED
      BY <2>c, <3>2, ActorsAssumption
  <2>1. CASE q # p
    <3>1. pc'[q] = pc[q] /\ kind'[q] = kind[q] /\ at'[q] = at[q] /\ todo'[q] = todo[q] /\ out'[q] = out[q]
      BY <1>2, <2>0, <2>1, OneMoves DEF IInv
    <3>2. Busy(q) => SafeSources' \subseteq SafeSources
      BY <1>2, <2>1, ListOfAnother
    <3> QED
      BY <2>l, <2>c, <3>1, <3>2 DEF Busy, Copying, Uploading, Writing
  <2>2. CASE q = p
    <3> USE DEF Goto, Copying, Uploading, Writing
    <3>0. ASSUME fs' = fs PROVE SafeSources' = SafeSources /\ Sources' = Sources
      BY <3>0 DEF SafeSources, Sources, Exists
    <3>1. CASE List(p)
      <4>1. fs' = fs /\ pc'[p] = "list" /\ todo'[p] = Sources
        BY <2>t, <3>1 DEF List, disk
      <4> QED
        BY <2>2, <3>0, <4>1 DEF SafeSources
    <3>2. ASSUME NEW n \in Names, Stat(p, n)
          PROVE  /\ pc'[p] = "list" => SafeSources' \subseteq out'[p] \cup todo'[p]
                 /\ Copying(p)' => SafeSources' \subseteq out'[p] \cup todo'[p] \cup {at'[p]}
                 /\ ~Uploading(p)'
      <4>1. fs' = fs /\ pc[p] = "list" /\ kind' = kind /\ todo'[p] = todo[p] \ {n}
        BY <2>t, <3>2 DEF Stat, disk
      <4>2. \/ pc'[p] = "read" /\ at'[p] = n /\ out'[p] = out[p]
            \/ pc'[p] = "list" /\ Skipped(n) /\ out'[p] = out[p]
            \/ pc'[p] = "list" /\ ~Skipped(n) /\ out'[p] = out[p] \cup {Safe[n]}
        BY <2>t, <3>2 DEF Stat
      <4>3. SafeSources' = SafeSources /\ SafeSources \subseteq out[p] \cup todo[p]
        BY <2>2, <2>l, <3>0, <4>1
      <4>4. Skipped(n) => n \notin SafeSources
        BY DEF Skipped, SafeSources, Sources
      <4>5. ~Skipped(n) => Safe[n] = n
        BY DEF Skipped, SafeSources, Sources, NamedInv
      <4> QED
        BY <4>1, <4>2, <4>3, <4>4, <4>5
    <3>3. CASE Read(p)
      <4>1. fs' = fs /\ pc[p] = "read" /\ at' = at /\ out' = out /\ todo' = todo /\ kind'[p] = "copy"
        BY <2>t, <3>3 DEF Read, disk, list
      <4>2. SafeSources' = SafeSources /\ SafeSources \subseteq out[p] \cup todo[p] \cup {at[p]}
        BY <2>2, <2>l, <3>0, <4>1
      <4>3. ASSUME pc'[p] = "list" PROVE at[p] \notin SafeSources
        <5>1. SUFFICES ASSUME Exists(at[p], "src") PROVE FALSE
          BY DEF SafeSources, Sources
        <5>2. Rejected(At(at[p], "src").text)
          BY <2>t, <3>3, <4>3, <5>1 DEF Read
        <5>3. at[p] \in Names /\ Safe[at[p]] # 0
          BY <2>t, <4>1 DEF IInv, PlaceInv
        <5>4. ASSUME NEW r \in Procs, pc[r] = "copying", About[r] = at[p] PROVE FALSE
          <6>1. r # p /\ Busy(p)
            BY <4>1, <5>4 DEF Busy
          <6> QED
            BY <5>3, <5>4, <6>1, CopiedInAlone DEF IInv
        <5> QED
          BY <1>2, <5>1, <5>2, <5>3, <5>4 DEF IInv, FilesInv, SourceInv, Rejected
      <4>4. pc'[p] \in {"list", "open"}
        BY <2>t, <3>3 DEF Read
      <4> QED
        BY <2>2, <4>1, <4>2, <4>3, <4>4
    <3>4. CASE Open(p) \/ Write(p)
      <4>1. pc[p] \in {"open", "write"} /\ pc'[p] \in {"write", "rename"} /\ at' = at /\ kind' = kind
            /\ out' = out /\ todo' = todo
        BY <2>t, <3>4 DEF Open, Write, list
      <4>2. SafeSources' \subseteq SafeSources
        BY <1>2, <3>4, <4>1, GoodSourceAppears DEF Rename
      <4> QED
        BY <2>2, <2>l, <2>c, <4>1, <4>2
    <3>5. CASE Rename(p)
      <4>1. pc[p] = "rename" /\ kind' = kind /\ todo' = todo
        BY <3>5 DEF Rename, work
      <4>2. fs[Tmp(p)] # 0
        BY <4>1 DEF IInv, FilesInv, WrittenInv
      <4>3. CASE kind[p] = "src"
        BY <2>t, <2>2, <3>5, <4>1, <4>3 DEF Rename
      <4>4. CASE kind[p] = "copy"
        <5>1. pc'[p] = "list" /\ out'[p] = out[p] \cup {Safe[at[p]]}
          BY <2>t, <3>5, <4>2, <4>4 DEF Rename, Dest
        <5>2. SafeSources' \subseteq SafeSources
          BY <1>2, <4>4, GoodSourceAppears
        <5>3. at[p] \in SafeSources => Safe[at[p]] = at[p]
          BY DEF NamedInv
        <5>4. SafeSources \subseteq out[p] \cup todo[p] \cup {at[p]}
          BY <2>2, <2>l, <4>1, <4>4
        <5> QED
          BY <2>2, <4>1, <5>1, <5>2, <5>3, <5>4
      <4> QED
        BY <2>t, <4>3, <4>4
    <3>6. CASE Upload(p)
      <4>1. fs' = fs /\ kind'[p] = "src" /\ pc'[p] \in {"open", "failed"}
        BY <2>t, <3>6 DEF Upload, disk
      <4>2. pc'[p] = "open" => Cardinality(SafeSources \cup {at'[p]}) <= MaxTunnels
        BY <1>2, <2>2, <3>6, UploadHasRoom
      <4> QED
        BY <2>2, <3>0, <4>1, <4>2
    <3> QED
      BY <1>2, <2>0, <2>2, <3>1, <3>2, <3>3, <3>4, <3>5, <3>6
         DEF Step, Get, Tunnels, Delete, DeleteCopy, Drop, Dropped, IInv, PlaceInv
  <2> QED
    BY <2>1, <2>2
<1>3. ASSUME NEW p \in Procs, Step(p) PROVE ListInv'
  <2>1. text' = text
    BY <1>3, OneMoves DEF IInv
  <2>2. GoodDrops' = GoodDrops
    BY <2>1 DEF GoodDrops
  <2> QED
    BY <1>2, <1>3, <2>2 DEF ListInv
<1> QED
  BY <1>1, <1>3 DEF Next

LEMMA InitLists ==
  ASSUME DropsReplace, Init
  PROVE  NamedInv /\ ListInv /\ CapHolds
<1>1. \A n \in Names : Exists(n, "src") <=> n \in Installed
  <2>1. \A n \in Names : << n, "src" >> \in Path
    BY Paths DEF Kinds
  <2>2. \A a \in Path : fs[a] = FirstFs(a[1], a[2])
    BY DEF Init
  <2>3. \A n \in Names : fs[<< n, "src" >>] = FirstFs(n, "src")
    BY <2>1, <2>2
  <2>4. \A n \in Names : 2 * n - 1 # 0
    BY Constants
  <2> QED
    BY <2>3, <2>4 DEF Exists, FirstFs
<1>2. SafeSources \subseteq Installed /\ Installed \subseteq Names
  BY <1>1, Naming DEF SafeSources, Sources
<1>3. NamedInv
  <2>1. \A n \in SafeSources : Safe[n] = n
    BY <1>2, Naming
  <2>2. ASSUME NEW p \in Droppers \cap cast, Safe[About[p]] # 0 PROVE Exists(About[p], "src")
    <3>1. cast \in Casts
      BY DEF Init
    <3>2. About[p] \in Installed
      BY <2>2, <3>1 DEF DropsReplace
    <3> QED
      BY <1>1, <1>2, <3>2
  <2> QED
    BY <2>1, <2>2 DEF NamedInv
<1>4. ListInv
  <2>1. \A p \in Uploaders : pc[p] = "idle"
    BY DEF Init, Procs
  <2> QED
    BY <2>1 DEF ListInv, Copying, Uploading, Writing
<1>5. Cardinality(SafeSources) <= MaxTunnels
  <2>1. Cardinality(SafeSources) <= Cardinality(Installed) /\ Cardinality(SafeSources) \in Nat
        /\ Cardinality(Installed) \in Nat
    BY <1>2, SizesOfSources
  <2> QED
    BY <2>1, ActorsAssumption DEF DropsReplace
<1> QED
  BY <1>3, <1>4, <1>5 DEF CapHolds, SafeSources

\* A file that a POST has accepted becomes a tunnel (settings.go:245-247): with one writer of
\* copies, and over the share only files that are replaced, there never are more files than the
\* cap, between any two steps.
THEOREM NoFileOverTheCap ==
  ASSUME OneCopier, DropsReplace
  PROVE  Spec => []CapHolds
<1>1. Init => NamedInv /\ ListInv /\ CapHolds
  BY InitLists
<1>2. IInv /\ NamedInv /\ ListInv /\ CapHolds /\ [Next]_vars
        => IInv' /\ NamedInv' /\ ListInv' /\ CapHolds'
  BY StepIInv, StepNamed, StepList, StepCap
<1> QED
  BY <1>1, <1>2, InitIInv, PTL DEF Spec
=============================================================================
