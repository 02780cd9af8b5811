---------------------------- MODULE MCUpdateCheck ---------------------------
(* Small instances of UpdateCheck for TLC.                                 *)
EXTENDS UpdateCheck

Build190 == << 1, 9 >>
Upwards  == << << 1, 8, 3 >>, << 1, 9, 0 >>, << 1, 9, 1 >>, << 1, 10 >>, << 2 >> >>
OneMore  == << << 1, 9, 1 >> >>
=============================================================================
