------------------------------- MODULE MCProc -------------------------------
(* Instances of Proc for TLC: four slots, and programs that are linked at     *)
(* disjoint, overlapping and equal addresses.                                 *)
EXTENDS Proc

MCPages == 1 .. 2
MCLinks == {{1}, {2}, {1, 2}}
=============================================================================
