------------------------------ MODULE Keyboard ------------------------------
(***************************************************************************)
(* The keyboard driver (src/src/drivers/keyboard.c): IRQ1 turns the scan   *)
(* codes of the keyboard into key events and puts them into a ring, from   *)
(* which keyboard_getkey takes them.                                       *)
(*                                                                         *)
(* The interrupt comes between any two accesses of keyboard_getkey to the  *)
(* ring, and runs to its end.  Keyboard and user are the environment: the  *)
(* user presses and releases keys, the keyboard sends their scan codes,    *)
(* and each scan code on the wire carries the event it should become.      *)
(***************************************************************************)
EXTENDS Integers, Sequences

CONSTANTS
    Size,       \* KBD_BUFFER_SIZE
    Keys,       \* keys of this instance, a subset of AllKeys
    Chars,      \* bytes received on the serial line
    None,
    WireMax     \* bound: scan codes under way

\* "shift" and "shift 2" are the two shift keys, "gray" is a key whose codes
\* have the prefix E0, "letter" any letter and "digit" a key that Shift changes
\* and Caps Lock and Ctrl do not.
Modifiers == {"shift", "shift 2", "ctrl", "alt", "caps"}
AllKeys   == Modifiers \cup {"letter", "digit", "gray", "function"}

ASSUME KeyboardAssumption ==
    /\ Size \in Nat /\ Size >= 2
    /\ Keys \subseteq AllKeys
    /\ WireMax \in Nat

Prefix   == <<"prefix", "E0">>
Make(k)  == <<k, "make">>
Break(k) == <<k, "break">>

Events ==
    {<<"special", k>> : k \in AllKeys}
      \cup {<<c, "char">> : c \in {"lower", "upper", "control", "digit", "sign"}}

Flags == [shift : BOOLEAN, caps : BOOLEAN, ctrl : BOOLEAN, alt : BOOLEAN,
          ext : BOOLEAN]

VARIABLES
    buffer, head, tail,  \* kbd_buffer, kbd_head, kbd_tail
    flags,               \* shift_pressed, caps_locked, ..., ext_prefix
    pc,                  \* where keyboard_getkey is, "user" when not called
    ev,                  \* its local variable
    got,                 \* what it returned last (observation only)
    held, locked,        \* environment: keys held down, Caps Lock
    wire                 \* scan codes sent and not yet handled

ring == <<buffer, head, tail>>
user == <<held, locked>>
vars == <<buffer, head, tail, flags, pc, ev, got, held, locked, wire>>

Positions == 0 .. Size - 1
Places    == {"user", "poll", "serial", "read", "advance"}
Codes     == {Prefix} \cup {Make(k) : k \in AllKeys} \cup {Break(k) : k \in AllKeys}

TypeOK ==
    /\ buffer \in [Positions -> Events \cup {None}]
    /\ head \in Positions /\ tail \in Positions
    /\ flags \in Flags
    /\ pc \in Places
    /\ ev \in Events \cup {None}
    /\ got \in Events \cup Chars \cup {None}
    /\ held \subseteq Keys /\ locked \in BOOLEAN
    /\ wire \in Seq([code : Codes, means : Events \cup {None}])

Init ==
    /\ buffer = [i \in Positions |-> None] /\ head = 0 /\ tail = 0
    /\ flags = [shift |-> FALSE, caps |-> FALSE, ctrl |-> FALSE, alt |-> FALSE,
                ext |-> FALSE]
    /\ pc = "user" /\ ev = None /\ got = None
    /\ held = {} /\ locked = FALSE /\ wire = << >>

----------------------------------------------------------------------------
(* What a key means *)

\* The event of key k with these modifiers held down and Caps Lock so.
Event(k, shift, ctrl, alt, caps) ==
    IF alt \/ k \notin {"letter", "digit"} THEN <<"special", k>>
    ELSE IF k = "digit" THEN <<IF shift THEN "sign" ELSE "digit", "char">>
    ELSE <<IF ctrl THEN "control" ELSE IF shift # caps THEN "upper" ELSE "lower", "char">>

ShiftHeld == held \cap {"shift", "shift 2"} # {}
Typed(k) ==
    IF k \in Modifiers THEN None
    ELSE Event(k, ShiftHeld, "ctrl" \in held, "alt" \in held, locked)

----------------------------------------------------------------------------
(* The keyboard and the user (environment) *)

\* A gray key's codes may come with the make or the break of a shift that was
\* not touched.
Fakes == {<< >>, <<Prefix, Make("shift")>>, <<Prefix, Break("shift")>>}
Sent(k, code) ==
    IF k = "gray" THEN {f \o <<Prefix, code>> : f \in Fakes} ELSE {<<code>>}

Send(codes, means) ==
    /\ Len(wire) + Len(codes) <= WireMax
    /\ wire' = wire \o [i \in 1 .. Len(codes) |->
                          [code  |-> codes[i],
                           means |-> IF i = Len(codes) THEN means ELSE None]]

\* A key held down repeats, and both shift keys are not held down together.
Press(k) ==
    /\ k = "caps" => k \notin held
    /\ {"shift", "shift 2"} \notin SUBSET (held \cup {k})
    /\ \E codes \in Sent(k, Make(k)) : Send(codes, Typed(k))
    /\ held' = held \cup {k}
    /\ locked' = IF k = "caps" THEN ~locked ELSE locked
    /\ UNCHANGED <<ring, flags, pc, ev, got>>

Release(k) ==
    /\ k \in held
    /\ \E codes \in Sent(k, Break(k)) : Send(codes, None)
    /\ held' = held \ {k}
    /\ UNCHANGED <<ring, flags, pc, ev, got, locked>>

----------------------------------------------------------------------------
(* IRQ1 *)

Succ(i) == (i + 1) % Size

\* MUTANT of RingFull: the test for the full ring is left out.
RingNeverFull == FALSE

RingFull == Succ(head) = tail

\* kbd_push: the event is dropped when the ring is full.
Push(e) ==
    IF RingFull THEN UNCHANGED ring
    ELSE /\ buffer' = [buffer EXCEPT ![head] = e]
         /\ head' = Succ(head)
         /\ UNCHANGED tail

ShiftCodes == {f[2] : f \in Fakes \ {<< >>}} \cup {Make("shift 2"), Break("shift 2")}

\* MUTANT of FakeShift: the prefix does not matter to the code of a shift.
FakeNever(f, code) == FALSE

FakeShift(f, code) == f.ext /\ code \in ShiftCodes

\* MUTANT of Flagged: a prefix stays until a fake shift ends it.
FlaggedPrefixed(f, code) ==
    LET g == [f EXCEPT !.ext = code = Prefix \/ (@ /\ ~FakeShift(f, code))]
    IN  IF FakeShift(f, code) THEN g
        ELSE CASE code \in {Make("shift"), Make("shift 2")}   -> [g EXCEPT !.shift = TRUE]
               [] code \in {Break("shift"), Break("shift 2")} -> [g EXCEPT !.shift = FALSE]
               [] code = Make("caps")  -> [g EXCEPT !.caps = ~@]
               [] OTHER -> g

\* process_scancode: what becomes of the flags f with a code ...
Flagged(f, code) ==
    LET g == [f EXCEPT !.ext = code = Prefix]
    IN  IF FakeShift(f, code) THEN g
        ELSE CASE code \in {Make("shift"), Make("shift 2")}   -> [g EXCEPT !.shift = TRUE]
               [] code \in {Break("shift"), Break("shift 2")} -> [g EXCEPT !.shift = FALSE]
               [] code = Make("ctrl")  -> [g EXCEPT !.ctrl = TRUE]
               [] code = Break("ctrl") -> [g EXCEPT !.ctrl = FALSE]
               [] code = Make("alt")   -> [g EXCEPT !.alt = TRUE]
               [] code = Break("alt")  -> [g EXCEPT !.alt = FALSE]
               [] code = Make("caps")  -> [g EXCEPT !.caps = ~@]
               [] OTHER -> g

\* ... and the event the code is with them.
Decoded(f, code) ==
    IF code \in {Make(k) : k \in AllKeys \ Modifiers}
    THEN IF f.ext THEN <<"special", code[1]>>
         ELSE Event(code[1], f.shift, f.ctrl, f.alt, f.caps)
    ELSE None

Irq ==
    /\ wire # << >>
    /\ LET code == Head(wire).code
           e    == Decoded(flags, code)
       IN  /\ flags' = Flagged(flags, code)
           /\ IF e = None THEN UNCHANGED ring ELSE Push(e)
    /\ wire' = Tail(wire)
    /\ UNCHANGED <<pc, ev, got, user>>

----------------------------------------------------------------------------
(* keyboard_getkey *)

Call ==
    /\ pc = "user" /\ pc' = "poll"
    /\ UNCHANGED <<ring, flags, ev, got, user, wire>>

Poll ==
    /\ pc = "poll"
    /\ pc' = IF head # tail THEN "read" ELSE "serial"
    /\ UNCHANGED <<ring, flags, ev, got, user, wire>>

ReadSlot ==
    /\ pc = "read" /\ pc' = "advance"
    /\ ev' = buffer[tail]
    /\ UNCHANGED <<ring, flags, got, user, wire>>

Advance ==
    /\ pc = "advance" /\ pc' = "user"
    /\ tail' = Succ(tail)
    /\ got' = ev /\ ev' = None
    /\ UNCHANGED <<buffer, head, flags, user, wire>>

\* The serial line may or may not have a byte.
PollSerial ==
    /\ pc = "serial"
    /\ \/ pc' = "user" /\ got' \in Chars
       \/ pc' = "poll" /\ UNCHANGED got
    /\ UNCHANGED <<ring, flags, ev, user, wire>>

Getkey == Poll \/ ReadSlot \/ Advance \/ PollSerial

Next ==
    \/ \E k \in Keys : Press(k) \/ Release(k)
    \/ Irq
    \/ Call
    \/ Getkey

Spec == Init /\ [][Next]_vars

----------------------------------------------------------------------------
(* Properties *)

\* The driver makes of the code that comes next what the user typed, although
\* it sees the codes later and has only its flags: modifiers, Caps Lock, the
\* prefix and the fake shifts around gray keys never go out of step.
KeysUnderstood ==
    wire # << >> => Decoded(flags, Head(wire).code) = Head(wire).means

\* keyboard_shift_state, what SYSCALL_GET_SHIFT returns.
ShiftState == {m \in {"shift", "ctrl", "alt"} : flags[m]}

\* With no code under way it tells the keys that are held down.
ShiftStateCurrent ==
    wire = << >> =>
        ShiftState = {m \in {"shift", "ctrl", "alt"} : IF m = "shift" THEN ShiftHeld ELSE m \in held}

\* The events in the ring, oldest first.
Contents == [i \in 1 .. (head - tail) % Size |-> buffer[(tail + i - 1) % Size]]

Queue == INSTANCE KeyQueue WITH
           Capacity <- Size - 1, queue <- Contents

\* Wherever interrupts come between the steps of getkey, events are returned
\* once and in order, and one is lost only when Size - 1 others wait.
ImplementsKeyQueue == Queue!Spec
=============================================================================
