------------------------------ MODULE MCFat16 ------------------------------
(* Instances of Fat16 for TLC. *)
EXTENDS Fat16, TLC

\* reply is never read back, so states that differ in it alone are one.
VolumeAndHandles == <<fat, table, data, file, stray>>

Symmetry == Permutations(Names) \cup Permutations(Handles)
=============================================================================
