------------------------------- MODULE MCVfs -------------------------------
(* Instances of Vfs for TLC. *)
EXTENDS Vfs, TLC

CONSTANTS A, B, M, a, r, u

MCUpper == [s \in {A, B, M, a} |-> IF s = a THEN A ELSE s]
Rel(p)  == [abs |-> FALSE, parts |-> p]
Abs(p)  == [abs |-> TRUE, parts |-> p]

MCCdPaths   == {Abs(<<a>>), Rel(<<"..">>), Abs(<<M>>)}
MCUserPaths == {Rel(<<a>>), Abs(<<B>>), Abs(<<A, B>>)}
MCDirs      == [v \in {r, u} |-> IF v = r THEN {1} ELSE {}]
MCDirPaths  == {Rel(<<a>>)}
MCPoints    == {<<M>>}

\* What the last call returned is never read back.
Unobserved == <<vol, mounts, cwd, stream, held>>
=============================================================================
