----------------------------- MODULE MCFirewall -----------------------------
(* Small instances of Firewall for TLC: how often each upset may happen.   *)
EXTENDS Firewall

Upset(faults, crashes, tampers, stops, together) ==
  [fault |-> faults, crash |-> crashes, tamper |-> tampers, stop |-> stops, any |-> together]

AllUpsets == Upset(1, 1, 1, 1, 4)
AnyTwo    == Upset(1, 1, 1, 1, 2)
OneFault  == Upset(1, 1, 0, 1, 3)
OneTamper == Upset(0, 0, 1, 0, 1)
OneCrash  == Upset(0, 1, 0, 0, 1)
=============================================================================
