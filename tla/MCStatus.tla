------------------------------ MODULE MCStatus ------------------------------
(* Small instances of Status for TLC.                                      *)
EXTENDS Status

Two   == << "wg0", "wg1" >>
Three == << "c1", "c2", "c3" >>
Twice == << "c1", "c1" >>
=============================================================================
