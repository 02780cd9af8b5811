---------------------------- MODULE MCLeakTest ------------------------------
(* Small instances of LeakTest for TLC.                                    *)
EXTENDS LeakTest

TwoTunnels == << "wg0", "wg1" >>

ThreePins == << "c1", "c2", "c3" >>
TwicePins == << "c1", "c1" >>
NoPins    == << >>
=============================================================================
