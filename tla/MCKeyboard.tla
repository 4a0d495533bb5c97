----------------------------- MODULE MCKeyboard -----------------------------
(* Instances of Keyboard for TLC. *)
EXTENDS Keyboard

\* got is never read back, nor is a slot of the ring that is not in use.
Unobserved ==
    <<Contents, head, flags, pc, ev, held, locked, wire>>
=============================================================================
