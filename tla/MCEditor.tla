------------------------------ MODULE MCEditor ------------------------------
(* Instances of Editor for TLC. *)
EXTENDS Editor

CONSTANT a

MCFind == {<<a>>}
MCClips == {<<a>>, <<CR, LF>>, <<a, a>>}
MCRepl == {<< >>, <<a, a>>}
=============================================================================
