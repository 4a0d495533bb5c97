------------------------------ MODULE Streams ------------------------------
(***************************************************************************)
(* What the shell promises of a command line: its stages run one after the *)
(* other, what a stage writes is the next one's input, and the last one    *)
(* writes where the line says.  Of a full volume it promises nothing: a    *)
(* byte that does not fit is lost, and nobody is told.                     *)
(***************************************************************************)
EXTENDS Integers, Sequences

CONSTANTS Bytes, MaxStages, MaxBytes

VARIABLES
    stage, of,  \* stage "stage" of "of" runs; 0 of 0 at the prompt
    sink,       \* "console", or "kept" in a pipe or a file
    source,     \* "keyboard", or "previous" stage
    made,       \* what the stage wrote, when it is kept
    input,      \* what the stage has not read yet of what the previous one wrote
    scarce,     \* programs have left files open
    full,       \* the volume has no cluster left, which any step may change
    event       \* the last exchange: with the console, the previous stage, or a
                \* byte to be kept

vars == <<stage, of, sink, source, made, input, scarce, event>>

Sinks == {"console", "kept"}

Idle ==
    /\ stage = 0 /\ of = 0 /\ sink = "console" /\ source = "keyboard"
    /\ made = << >> /\ input = << >>

Init == Idle /\ scarce = FALSE /\ event = << >>

\* Without a place to keep it a stage's output goes to the console.
Begin(n) ==
    /\ stage = 0 /\ stage' = 1 /\ of' = n
    /\ sink' \in Sinks /\ source' = "keyboard"
    /\ made' = << >> /\ input' = << >>
    /\ UNCHANGED <<scarce, event>>

\* The next stage reads all that this one wrote, from its beginning.
Advance ==
    /\ stage \in 1 .. of - 1 /\ stage' = stage + 1 /\ of' = of
    /\ \/ sink = "kept" /\ source' = "previous" /\ input' = made
       \/ (sink = "kept" => scarce') /\ source' = "keyboard" /\ input' = << >>
    /\ sink' \in Sinks /\ made' = << >>
    /\ UNCHANGED event

Finish == stage = of /\ stage > 0 /\ Idle' /\ UNCHANGED event

\* Programs may leave files open at any time.
Leave == UNCHANGED <<stage, of, sink, source, made, input, event>>

\* Two bytes in a row are two events.
PutEvent(b) == IF event = <<"put", b>> THEN <<"put again", b>> ELSE <<"put", b>>

Put(b) ==
    /\ IF sink = "kept"
       THEN /\ made' = Append(made, b) \/ (full /\ UNCHANGED made)
            /\ event' = PutEvent(b)
       ELSE event' = <<"console", b>> /\ UNCHANGED made
    /\ UNCHANGED <<stage, of, sink, source, input, scarce>>

Get(n) ==
    /\ source = "previous"
    /\ \E m \in 0 .. n :
         /\ m = IF n < Len(input) THEN n ELSE Len(input)
         /\ event' = <<"read", SubSeq(input, 1, m)>>
         /\ input' = SubSeq(input, m + 1, Len(input))
    /\ UNCHANGED <<stage, of, sink, source, made, scarce>>

GetKey == source = "keyboard" /\ event' = <<"keyboard">> /\
          UNCHANGED <<stage, of, sink, source, made, input, scarce>>

Next ==
    \/ \E n \in 1 .. MaxStages : Begin(n)
    \/ \E n \in 1 .. MaxBytes : Get(n)
    \/ Advance \/ Finish \/ Leave \/ GetKey
    \/ \E b \in Bytes : Put(b)

Spec == Init /\ [][Next]_vars
=============================================================================
