----------------------------- MODULE MCRouting ------------------------------
(* Small instances of Routing for TLC.                                     *)
EXTENDS Routing

TwoTunnels   == << "wg0", "wg1" >>
ThreeTunnels == << "wg0", "wg1", "wg2" >>

TwoPins   == << "c1", "c2" >>
ThreePins == << "c1", "c2", "c3" >>
TwicePins == << "c1", "c2", "c1" >>

Upset(faults, unread, crashes, changes, tampers, stops, together) ==
  [fault |-> faults, unread |-> unread, crash |-> crashes, change |-> changes,
   tamper |-> tampers, stop |-> stops, any |-> together]

AllUpsets   == Upset(1, 1, 1, 2, 1, 1, 4)
FaultChange == Upset(1, 0, 0, 2, 0, 0, 3)
OneFault    == Upset(1, 0, 0, 0, 0, 0, 1)
OneDeletion == Upset(0, 0, 0, 1, 0, 0, 1)
NoUpset     == Upset(0, 0, 0, 0, 0, 0, 0)
=============================================================================
