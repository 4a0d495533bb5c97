------------------------------ MODULE KeyQueue ------------------------------
(***************************************************************************)
(* What the keyboard driver promises the kernel: a queue of key events     *)
(* that forgets the newest when it is full, and characters of the serial   *)
(* line besides.                                                           *)
(***************************************************************************)
EXTENDS Integers, Sequences

CONSTANTS Events, Chars, Capacity, None

VARIABLES queue, got

vars == <<queue, got>>

Init == queue = << >> /\ got = None

Arrive(ev) ==
    /\ queue' = IF Len(queue) < Capacity THEN Append(queue, ev) ELSE queue
    /\ UNCHANGED got

Take ==
    /\ queue # << >>
    /\ got' = Head(queue)
    /\ queue' = Tail(queue)

TakeSerial(c) == got' = c /\ UNCHANGED queue

Next == (\E ev \in Events : Arrive(ev)) \/ Take \/ (\E c \in Chars : TakeSerial(c))

Spec == Init /\ [][Next]_vars
=============================================================================
