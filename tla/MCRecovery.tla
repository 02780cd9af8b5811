----------------------------- MODULE MCRecovery -----------------------------
(* Small instances of Recovery for TLC.                                    *)
EXTENDS Recovery

OneTunnel  == << "wg0" >>
TwoTunnels == << "wg0", "wg1" >>

Upset(faults, misreads, crashes, changes) ==
  [fault |-> faults, misread |-> misreads, crash |-> crashes, change |-> changes]

SomeEach   == Upset(1, 1, 1, 2)
OneMisread == Upset(0, 1, 0, 0)
NoUpsets   == Upset(0, 0, 0, 0)
=============================================================================
