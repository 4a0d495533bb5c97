------------------------------ MODULE MCShell ------------------------------
(* Instances of Shell for TLC. *)
EXTENDS Shell, TLC

\* event is never read back, nor is a slot that a program left open.
Unobserved ==
    <<[k EXCEPT !.open = [s \in Slots |-> IF s \in leaked THEN None ELSE k.open[s]]],
      shells, mine, leaked>>
=============================================================================
