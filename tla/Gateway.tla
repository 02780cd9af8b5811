------------------------------ MODULE Gateway ------------------------------
(***************************************************************************)
(* What the kill switch promises, without a chain, a rule or a command: the *)
(* machine forwards everything its clients send, or only what may leave     *)
(* outside a tunnel, and nothing in between.  It is changed by whoever is   *)
(* rewriting it, one command at a time, and by other programs' flushes.     *)
(***************************************************************************)
EXTENDS Naturals

CONSTANTS
  Traffic,  \* the packets of the clients
  Legit     \* those that leave nothing in the clear: down a tunnel, to the LAN, replies

VARIABLES
  passes,   \* the packets that are forwarded now
  writing,  \* the switch is being armed or removed
  flushes   \* how often another program has removed rules

gateway == << passes, writing, flushes >>

Init == passes = Traffic /\ writing = FALSE /\ flushes = 0

\* Arming and removing begin and end without touching a packet.
Begin == ~writing /\ writing' = TRUE /\ UNCHANGED << passes, flushes >>
End   == writing /\ writing' = FALSE /\ UNCHANGED << passes, flushes >>

\* One command of the arming: whatever passed before, only legitimate packets do now.
Seal == writing /\ passes' \subseteq Legit /\ UNCHANGED << writing, flushes >>

\* The last rule of ours goes.  It blocked everything: no packet was forwarded by a rule
\* that outlived the one blocking the rest.
Reopen == writing /\ passes = {} /\ passes' = Traffic /\ UNCHANGED << writing, flushes >>

\* Another program removes rules, while nobody writes.
Flush ==
  /\ ~writing /\ flushes' = flushes + 1
  /\ passes' \in {passes, Traffic}
  /\ UNCHANGED writing

Next == Begin \/ End \/ Seal \/ Reopen \/ Flush
Spec == Init /\ [][Next]_gateway
=============================================================================
