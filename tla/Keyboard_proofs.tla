-------------------------- MODULE Keyboard_proofs --------------------------
(***************************************************************************)
(* Proofs about Keyboard, for every size of the ring, every set of keys    *)
(* and any number of scan codes under way.                                 *)
(***************************************************************************)
EXTENDS Keyboard, SequenceTheorems, TLAPS

----------------------------------------------------------------------------
(* The positions of the ring *)

LEMMA SuccPlain ==
    ASSUME NEW i \in Positions
    PROVE  /\ Succ(i) \in Positions
           /\ Succ(i) = IF i = Size - 1 THEN 0 ELSE i + 1
BY KeyboardAssumption DEF Succ, Positions

Distance(h, t) == (h - t) % Size
Place(t, i)    == (t + i - 1) % Size

LEMMA DistancePlain ==
    ASSUME NEW h \in Positions, NEW t \in Positions
    PROVE  /\ Distance(h, t) \in Positions
           /\ Distance(h, t) = IF h >= t THEN h - t ELSE h - t + Size
BY KeyboardAssumption DEF Positions, Distance

LEMMA PlacePlain ==
    ASSUME NEW t \in Positions, NEW i \in 1 .. Size
    PROVE  /\ Place(t, i) \in Positions
           /\ Place(t, i) = IF t + i - 1 >= Size THEN t + i - 1 - Size ELSE t + i - 1
BY KeyboardAssumption DEF Positions, Place

----------------------------------------------------------------------------
(* The types *)

LEMMA EventType ==
    ASSUME NEW k \in AllKeys \ Modifiers, NEW shift, NEW ctrl, NEW alt, NEW caps
    PROVE  Event(k, shift, ctrl, alt, caps) \in Events
<1>1. \A c \in {"lower", "upper", "control", "digit", "sign"} : <<c, "char">> \in Events
  BY DEF Events
<1>2. <<"special", k>> \in Events
  BY DEF Events
<1> QED
  BY <1>1, <1>2 DEF Event

LEMMA DecodedType == \A f, code : Decoded(f, code) \in Events \cup {None}
<1> TAKE f, code
<1>1. CASE code \in {Make(k) : k \in AllKeys \ Modifiers}
  <2>1. PICK k \in AllKeys \ Modifiers : code = Make(k)
    BY <1>1
  <2>2. code[1] = k
    BY <2>1 DEF Make
  <2>3. <<"special", k>> \in Events
    BY DEF Events
  <2> QED
    BY <1>1, <2>2, <2>3, EventType DEF Decoded
<1> QED
  BY <1>1 DEF Decoded

LEMMA SentType ==
    ASSUME NEW k \in AllKeys, NEW code \in Codes, NEW codes \in Sent(k, code)
    PROVE  codes \in Seq(Codes)
<1>1. Prefix \in Codes /\ Make("shift") \in Codes /\ Break("shift") \in Codes
  BY DEF Codes, AllKeys, Modifiers
<1>2. /\ << >> \in Seq(Codes) /\ <<code>> \in Seq(Codes)
      /\ <<Prefix, Make("shift")>> \in Seq(Codes)
      /\ <<Prefix, Break("shift")>> \in Seq(Codes)
      /\ <<Prefix, code>> \in Seq(Codes)
  BY <1>1
<1>3. \A f \in Fakes : f \in Seq(Codes)
  BY <1>2, Zenon DEF Fakes
<1>4. \A f \in Fakes : f \o <<Prefix, code>> \in Seq(Codes)
  BY <1>2, <1>3
<1>5. codes = <<code>> \/ \E f \in Fakes : codes = f \o <<Prefix, code>>
  BY Zenon DEF Sent
<1> QED
  BY <1>2, <1>4, <1>5, Zenon

LEMMA SendType ==
    ASSUME TypeOK, NEW codes \in Seq(Codes), NEW means \in Events \cup {None},
           Send(codes, means)
    PROVE  wire' \in Seq([code : Codes, means : Events \cup {None}])
<1>1. \A i \in 1 .. Len(codes) :
         [code |-> codes[i], means |-> IF i = Len(codes) THEN means ELSE None]
           \in [code : Codes, means : Events \cup {None}]
  OBVIOUS
<1> QED
  BY <1>1 DEF Send, TypeOK

\* The provers do not take the truth values as the values of a record's fields.
Yes == TRUE
No  == FALSE

LEMMA YesNo == Yes /\ ~No /\ {Yes, No} \subseteq BOOLEAN
BY DEF Yes, No

\* Flagged in three parts: the prefix noted, and what a code that is not a fake
\* shift does then.
Noted(f, code) == [f EXCEPT !.ext = code = Prefix]
Pressed(g, code) ==
    CASE code \in {Make("shift"), Make("shift 2")}   -> [g EXCEPT !.shift = Yes]
      [] code \in {Break("shift"), Break("shift 2")} -> [g EXCEPT !.shift = No]
      [] code = Make("ctrl")  -> [g EXCEPT !.ctrl = Yes]
      [] code = Break("ctrl") -> [g EXCEPT !.ctrl = No]
      [] code = Make("alt")   -> [g EXCEPT !.alt = Yes]
      [] code = Break("alt")  -> [g EXCEPT !.alt = No]
      [] code = Make("caps")  -> [g EXCEPT !.caps = ~@]
      [] OTHER -> g

LEMMA FlaggedParts ==
    \A f, code : Flagged(f, code) = IF FakeShift(f, code) THEN Noted(f, code)
                                    ELSE Pressed(Noted(f, code), code)
BY DEF Flagged, Noted, Pressed, Yes, No

LEMMA FlaggedType == \A f \in Flags : \A code : Flagged(f, code) \in Flags
<1> TAKE f \in Flags
<1> TAKE code
<1>1. Noted(f, code) \in Flags
  <2> DEFINE b == code = Prefix
  <2>1. b \in BOOLEAN
    OBVIOUS
  <2> HIDE DEF b
  <2>2. [f EXCEPT !.ext = b] \in Flags
    BY <2>1 DEF Flags
  <2> QED
    BY <2>2 DEF Noted, b
<1> DEFINE g == Noted(f, code)
<1> HIDE DEF g
<1>2. g \in Flags
  BY <1>1 DEF g
<1>3. (~g.caps) \in {TRUE, FALSE}
  <2>1. g.caps \in {TRUE, FALSE}
    BY <1>2 DEF Flags
  <2>2. \A b \in {TRUE, FALSE} : (~b) \in {TRUE, FALSE}
    OBVIOUS
  <2> QED
    BY <2>1, <2>2, Zenon
<1>4. \A b \in BOOLEAN : /\ [g EXCEPT !.shift = b] \in Flags /\ [g EXCEPT !.ctrl = b] \in Flags
                         /\ [g EXCEPT !.alt = b] \in Flags /\ [g EXCEPT !.caps = b] \in Flags
  BY <1>2 DEF Flags
<1>5. Pressed(g, code) \in Flags
  BY <1>2, <1>3, <1>4, YesNo DEF Pressed
<1> QED
  BY <1>1, <1>5, FlaggedParts DEF g

\* Of every ring, set of keys and bound the driver's variables keep their types.
THEOREM TypeCorrectness == Spec => []TypeOK
<1>1. Init => TypeOK
  BY KeyboardAssumption DEF Init, TypeOK, Positions, Places, Flags
<1>2. TypeOK /\ [Next]_vars => TypeOK'
  <2> SUFFICES ASSUME TypeOK, [Next]_vars PROVE TypeOK'
    OBVIOUS
  <2>1. ASSUME NEW k \in Keys, Press(k) PROVE TypeOK'
    <3>1. k \in AllKeys /\ Make(k) \in Codes
      BY KeyboardAssumption DEF Codes
    <3>2. Typed(k) \in Events \cup {None}
      BY <3>1, EventType DEF Typed
    <3>3. wire' \in Seq([code : Codes, means : Events \cup {None}])
      BY <2>1, <3>1, <3>2, SentType, SendType DEF Press
    <3>4. locked' \in BOOLEAN /\ held' \subseteq Keys
      BY <2>1 DEF Press, TypeOK
    <3> QED
      BY <2>1, <3>3, <3>4 DEF Press, ring, TypeOK
  <2>2. ASSUME NEW k \in Keys, Release(k) PROVE TypeOK'
    <3>1. k \in AllKeys /\ Break(k) \in Codes
      BY KeyboardAssumption DEF Codes
    <3>2. wire' \in Seq([code : Codes, means : Events \cup {None}])
      BY <2>2, <3>1, SentType, SendType DEF Release
    <3>3. held' \subseteq Keys
      BY <2>2 DEF Release, TypeOK
    <3> QED
      BY <2>2, <3>2, <3>3 DEF Release, ring, TypeOK
  <2>3. CASE Irq
    <3>1. flags' \in Flags
      BY <2>3, FlaggedType DEF Irq, TypeOK
    <3>2. wire' \in Seq([code : Codes, means : Events \cup {None}])
      BY <2>3 DEF Irq, TypeOK
    <3>3. /\ buffer' \in [Positions -> Events \cup {None}]
          /\ head' \in Positions /\ tail' \in Positions
      BY <2>3, DecodedType, SuccPlain DEF Irq, Push, ring, TypeOK
    <3> QED
      BY <2>3, <3>1, <3>2, <3>3 DEF Irq, user, TypeOK
  <2>4. CASE Call
    BY <2>4 DEF Call, ring, user, TypeOK, Places
  <2>5. CASE Getkey
    BY <2>5, SuccPlain
       DEF Getkey, Poll, ReadSlot, Advance, PollSerial, ring, user, TypeOK, Places
  <2>6. CASE UNCHANGED vars
    BY <2>6 DEF vars, TypeOK
  <2> QED
    BY <2>1, <2>2, <2>3, <2>4, <2>5, <2>6 DEF Next
<1> QED
  BY <1>1, <1>2, PTL DEF Spec

----------------------------------------------------------------------------
(* The ring is a queue *)

\* getkey has seen an event when it reads one, and what it read stays the
\* oldest until it moves tail, wherever an interrupt comes.
RingHeld ==
    /\ pc \in {"read", "advance"} => head # tail
    /\ pc = "advance" => ev = buffer[tail]

RingInv == TypeOK /\ RingHeld

LEMMA RingInvariant == Spec => []RingInv
<1>1. Init => RingHeld
  BY DEF Init, RingHeld
<1>2. TypeOK /\ RingHeld /\ [Next]_vars => RingHeld'
  <2> SUFFICES ASSUME TypeOK, RingHeld, [Next]_vars PROVE RingHeld'
    OBVIOUS
  <2>1. ASSUME NEW k \in Keys, Press(k) \/ Release(k) PROVE RingHeld'
    BY <2>1 DEF Press, Release, ring, RingHeld
  <2>2. CASE Irq
    <3>1. CASE UNCHANGED ring
      BY <2>2, <3>1 DEF Irq, ring, RingHeld
    <3>2. CASE ~UNCHANGED ring
      <4>1. /\ ~RingFull /\ head' = Succ(head) /\ tail' = tail
            /\ buffer' = [buffer EXCEPT ![head] = Decoded(flags, Head(wire).code)]
        BY <2>2, <3>2 DEF Irq, Push
      <4>2. pc' = pc /\ ev' = ev
        BY <2>2 DEF Irq
      <4>3. head # tail => buffer'[tail] = buffer[tail]
        BY <4>1 DEF TypeOK
      <4> QED
        BY <4>1, <4>2, <4>3 DEF RingHeld, RingFull
    <3> QED
      BY <3>1, <3>2
  <2>3. CASE Call \/ Getkey
    BY <2>3 DEF Call, Getkey, Poll, ReadSlot, Advance, PollSerial, ring, RingHeld
  <2>4. CASE UNCHANGED vars
    BY <2>4 DEF vars, RingHeld
  <2> QED
    BY <2>1, <2>2, <2>3, <2>4 DEF Next
<1> QED
  BY <1>1, <1>2, TypeCorrectness, PTL DEF Spec, RingInv

\* The queue the ring stands for, of a ring in these positions.
Held(b, h, t) == [i \in 1 .. Distance(h, t) |-> b[Place(t, i)]]

LEMMA HeldFacts ==
    ASSUME NEW b \in [Positions -> Events \cup {None}],
           NEW h \in Positions, NEW t \in Positions
    PROVE  /\ Held(b, h, t) \in Seq(Events \cup {None})
           /\ Len(Held(b, h, t)) = Distance(h, t)
           /\ \A i \in 1 .. Distance(h, t) : Held(b, h, t)[i] = b[Place(t, i)]
<1> DEFINE n == Distance(h, t)
<1>1. n \in Nat /\ n < Size
  <2>1. n \in Positions
    BY DistancePlain
  <2> HIDE DEF n
  <2> QED
    BY <2>1, KeyboardAssumption DEF Positions
<1>2. \A i \in 1 .. n : Place(t, i) \in Positions
  BY <1>1, PlacePlain, KeyboardAssumption
<1> HIDE DEF n
<1>3. \A i \in 1 .. n : b[Place(t, i)] \in Events \cup {None}
  BY <1>2
<1>4. Held(b, h, t) = [i \in 1 .. n |-> b[Place(t, i)]]
  BY DEF Held, n
<1>5. /\ Held(b, h, t) \in Seq(Events \cup {None})
      /\ Len(Held(b, h, t)) = n
      /\ \A i \in 1 .. n : Held(b, h, t)[i] = b[Place(t, i)]
  BY <1>1, <1>3, <1>4
<1> QED
  BY <1>5 DEF n

LEMMA HeldPushed ==
    ASSUME TypeOK, NEW e \in Events \cup {None}, ~RingFull
    PROVE  /\ Len(Contents) < Size - 1
           /\ Held([buffer EXCEPT ![head] = e], Succ(head), tail) = Append(Contents, e)
<1> DEFINE b == [buffer EXCEPT ![head] = e]
           n == Distance(head, tail)
           m == Distance(Succ(head), tail)
           old == Held(buffer, head, tail)
           new == Held(b, Succ(head), tail)
<1>1. /\ buffer \in [Positions -> Events \cup {None}]
      /\ head \in Positions /\ tail \in Positions /\ Succ(head) \in Positions
      /\ b \in [Positions -> Events \cup {None}]
  BY SuccPlain DEF TypeOK
<1>2. n \in Nat /\ m = n + 1 /\ n < Size - 1
  <2>1. /\ n = IF head >= tail THEN head - tail ELSE head - tail + Size
        /\ m = IF Succ(head) >= tail THEN Succ(head) - tail ELSE Succ(head) - tail + Size
    BY <1>1, DistancePlain
  <2>2. Succ(head) = IF head = Size - 1 THEN 0 ELSE head + 1
    BY <1>1, SuccPlain
  <2> HIDE DEF n, m
  <2> QED
    BY <1>1, <2>1, <2>2, KeyboardAssumption DEF Positions, RingFull
<1>3. /\ old \in Seq(Events \cup {None}) /\ Len(old) = n
      /\ \A i \in 1 .. n : old[i] = buffer[Place(tail, i)]
  BY SMTT(30), <1>1, HeldFacts
<1>4. /\ new \in Seq(Events \cup {None}) /\ Len(new) = m
      /\ \A i \in 1 .. m : new[i] = b[Place(tail, i)]
  BY ZenonT(30), <1>1, HeldFacts
<1>2a. n = IF head >= tail THEN head - tail ELSE head - tail + Size
  BY <1>1, DistancePlain
<1>2b. \A i \in 1 .. Size :
        /\ Place(tail, i) \in Positions
        /\ Place(tail, i) = IF tail + i - 1 >= Size THEN tail + i - 1 - Size ELSE tail + i - 1
  BY <1>1, PlacePlain
<1> HIDE DEF n, m
<1>5. \A i \in 1 .. n : /\ Place(tail, i) \in Positions
                        /\ Place(tail, i) # head
  BY SMTT(30), <1>1, <1>2, <1>2a, <1>2b, KeyboardAssumption DEF Positions
<1>6. Place(tail, m) = head
  BY <1>1, <1>2, <1>2a, <1>2b, KeyboardAssumption DEF Positions
<1> HIDE DEF n, m, old, new
<1>7. \A i \in 1 .. n : new[i] = old[i]
  <2> TAKE i \in 1 .. n
  <2>1. new[i] = b[Place(tail, i)] /\ old[i] = buffer[Place(tail, i)]
    BY <1>2, <1>3, <1>4
  <2>2. b[Place(tail, i)] = buffer[Place(tail, i)]
    BY <1>1, <1>5
  <2> QED
    BY <2>1, <2>2
<1>8. new[m] = e
  BY <1>1, <1>2, <1>4, <1>6
<1>9. new = Append(old, e)
  <2>1. Append(old, e) \in Seq(Events \cup {None}) /\ Len(Append(old, e)) = m
    BY <1>2, <1>3
  <2>2. \A i \in 1 .. m : Append(old, e)[i] = new[i]
    BY <1>2, <1>3, <1>7, <1>8
  <2> QED
    BY <1>4, <2>1, <2>2, SeqEqual
<1> QED
  BY <1>2, <1>3, <1>9 DEF old, new, Held, Contents, Distance, Place

LEMMA HeldTaken ==
    ASSUME TypeOK, head # tail
    PROVE  /\ Contents # << >> /\ Head(Contents) = buffer[tail]
           /\ Held(buffer, head, Succ(tail)) = Tail(Contents)
<1> DEFINE n == Distance(head, tail)
           m == Distance(head, Succ(tail))
           old == Held(buffer, head, tail)
           new == Held(buffer, head, Succ(tail))
<1>1. /\ buffer \in [Positions -> Events \cup {None}]
      /\ head \in Positions /\ tail \in Positions /\ Succ(tail) \in Positions
  BY SuccPlain DEF TypeOK
<1>2. m \in Nat /\ n = m + 1 /\ n < Size
  <2>1. /\ n = IF head >= tail THEN head - tail ELSE head - tail + Size
        /\ m = IF head >= Succ(tail) THEN head - Succ(tail) ELSE head - Succ(tail) + Size
    BY <1>1, DistancePlain
  <2>2. Succ(tail) = IF tail = Size - 1 THEN 0 ELSE tail + 1
    BY <1>1, SuccPlain
  <2> HIDE DEF n, m
  <2> QED
    BY <1>1, <2>1, <2>2, KeyboardAssumption DEF Positions
<1>3. /\ old \in Seq(Events \cup {None}) /\ Len(old) = n
      /\ \A i \in 1 .. n : old[i] = buffer[Place(tail, i)]
  BY <1>1, HeldFacts
<1>4. /\ new \in Seq(Events \cup {None}) /\ Len(new) = m
      /\ \A i \in 1 .. m : new[i] = buffer[Place(Succ(tail), i)]
  BY <1>1, HeldFacts
<1>5. Place(tail, 1) = tail
  BY <1>1, PlacePlain, KeyboardAssumption DEF Positions
<1>6. \A i \in 1 .. m : Place(Succ(tail), i) = Place(tail, i + 1)
  <2>1. \A i \in 1 .. Size :
          Place(tail, i) = IF tail + i - 1 >= Size THEN tail + i - 1 - Size ELSE tail + i - 1
    BY <1>1, PlacePlain
  <2>2. \A i \in 1 .. Size :
          Place(Succ(tail), i) =
            IF Succ(tail) + i - 1 >= Size THEN Succ(tail) + i - 1 - Size ELSE Succ(tail) + i - 1
    BY <1>1, PlacePlain
  <2>3. Succ(tail) = IF tail = Size - 1 THEN 0 ELSE tail + 1
    BY <1>1, SuccPlain
  <2> HIDE DEF n, m
  <2> QED
    BY <1>1, <1>2, <2>1, <2>2, <2>3, KeyboardAssumption DEF Positions
<1> HIDE DEF n, m, old, new
<1>7. \A i \in 1 .. m : new[i] = old[i + 1]
  BY <1>2, <1>3, <1>4, <1>6
<1>8. new = Tail(old)
  <2>1. Tail(old) \in Seq(Events \cup {None}) /\ Len(Tail(old)) = m
    BY <1>2, <1>3
  <2>2. \A i \in 1 .. m : Tail(old)[i] = new[i]
    BY <1>2, <1>3, <1>7
  <2> QED
    BY <1>4, <2>1, <2>2, SeqEqual
<1>9. old # << >> /\ Head(old) = buffer[tail]
  BY <1>2, <1>3, <1>5
<1> QED
  BY <1>8, <1>9 DEF old, new, Held, Contents, Distance, Place

\* Of a ring of any size: an interrupt between any two steps of getkey loses
\* an event only when Size - 1 wait, and each is returned once and in order.
THEOREM RingIsAQueue == Spec => ImplementsKeyQueue
<1>1. Init => Queue!Init
  <2> SUFFICES ASSUME Init PROVE Queue!Init
    OBVIOUS
  <2>1. head = 0 /\ tail = 0 /\ got = None
    BY DEF Init
  <2>2. Distance(head, tail) = 0
    BY <2>1, DistancePlain, KeyboardAssumption DEF Positions
  <2>3. Contents = << >>
    BY <2>2 DEF Contents, Distance
  <2> QED
    BY <2>1, <2>3 DEF Queue!Init
<1>2. RingInv /\ [Next]_vars => [Queue!Next]_(Queue!vars)
  <2> SUFFICES ASSUME TypeOK, RingHeld, [Next]_vars PROVE [Queue!Next]_(Queue!vars)
    BY DEF RingInv
  <2>1. UNCHANGED <<ring, got>> => UNCHANGED Queue!vars
    BY DEF ring, Contents, Queue!vars
  <2>2. ASSUME NEW k \in Keys, Press(k) \/ Release(k) PROVE UNCHANGED <<ring, got>>
    BY <2>2 DEF Press, Release
  <2>3. CASE Irq
    <3> DEFINE e == Decoded(flags, Head(wire).code)
    <3>1. CASE e = None
      BY <2>1, <2>3, <3>1 DEF Irq
    <3>2. CASE e # None
      <4>1. e \in Events
        BY <3>2, DecodedType
      <4>2. Push(e) /\ got' = got
        BY <2>3, <3>2 DEF Irq
      <4> HIDE DEF e
      <4>3. CASE RingFull
        BY <2>1, <4>2, <4>3 DEF Push
      <4>4. CASE ~RingFull
        <5>1. Contents' = Held(buffer', head', tail')
          BY DEF Contents, Held, Distance, Place
        <5>2. Contents' = Append(Contents, e) /\ Len(Contents) < Size - 1
          BY <4>1, <4>2, <4>4, <5>1, HeldPushed DEF Push
        <5>3. Queue!Arrive(e)
          BY <4>2, <5>2 DEF Queue!Arrive
        <5> QED
          BY <4>1, <5>3 DEF Queue!Next
      <4> QED
        BY <4>3, <4>4
    <3> QED
      BY <3>1, <3>2
  <2>4. CASE Call \/ Poll \/ ReadSlot
    BY <2>1, <2>4 DEF Call, Poll, ReadSlot
  <2>5. CASE Advance
    <3>1. head # tail /\ ev = buffer[tail] /\ got' = ev
      BY <2>5 DEF Advance, RingHeld
    <3>2. Contents' = Held(buffer, head, Succ(tail))
      BY <2>5 DEF Advance, Contents, Held, Distance, Place
    <3>3. Queue!Take
      BY <3>1, <3>2, HeldTaken DEF Queue!Take
    <3> QED
      BY <3>3 DEF Queue!Next
  <2>6. CASE PollSerial
    <3>1. UNCHANGED ring /\ (UNCHANGED got \/ got' \in Chars)
      BY <2>6 DEF PollSerial
    <3>2. ASSUME got' \in Chars PROVE Queue!TakeSerial(got')
      BY <3>1 DEF Queue!TakeSerial, ring, Contents
    <3> QED
      BY <2>1, <3>1, <3>2 DEF Queue!Next
  <2>7. CASE UNCHANGED vars
    BY <2>1, <2>7 DEF vars, ring
  <2> QED
    BY <2>1, <2>2, <2>3, <2>4, <2>5, <2>6, <2>7 DEF Next, Getkey
<1> QED
  BY <1>1, <1>2, RingInvariant, PTL DEF Spec, ImplementsKeyQueue, Queue!Spec

----------------------------------------------------------------------------
(* What a code does to the flags *)

Rec(s, c, t, a, e) == [shift |-> s, caps |-> c, ctrl |-> t, alt |-> a, ext |-> e]

LEMMA RecFacts ==
    ASSUME NEW s, NEW c, NEW t, NEW a, NEW e, NEW v
    PROVE  /\ [Rec(s, c, t, a, e) EXCEPT !.ext = v]   = Rec(s, c, t, a, v)
           /\ [Rec(s, c, t, a, e) EXCEPT !.shift = v] = Rec(v, c, t, a, e)
           /\ [Rec(s, c, t, a, e) EXCEPT !.ctrl = v]  = Rec(s, c, v, a, e)
           /\ [Rec(s, c, t, a, e) EXCEPT !.alt = v]   = Rec(s, c, t, v, e)
           /\ [Rec(s, c, t, a, e) EXCEPT !.caps = v]  = Rec(s, v, t, a, e)
           /\ Rec(s, c, t, a, e).ext = e /\ Rec(s, c, t, a, e).caps = c
           /\ Rec(s, c, t, a, e).shift = s /\ Rec(s, c, t, a, e).ctrl = t
           /\ Rec(s, c, t, a, e).alt = a
BY DEF Rec

LEMMA NotedFacts ==
    ASSUME NEW s, NEW c, NEW t, NEW a, NEW e, NEW code
    PROVE  Noted(Rec(s, c, t, a, e), code) =
             IF code = Prefix THEN Rec(s, c, t, a, Yes) ELSE Rec(s, c, t, a, No)
<1> DEFINE b == code = Prefix
<1>1. b = IF code = Prefix THEN Yes ELSE No
  BY DEF Yes, No
<1> HIDE DEF b
<1>2. [Rec(s, c, t, a, e) EXCEPT !.ext = b] =
        IF code = Prefix THEN Rec(s, c, t, a, Yes) ELSE Rec(s, c, t, a, No)
  BY SMTT(30), <1>1, RecFacts
<1> QED
  BY <1>2 DEF b, Noted

Special == {Make("shift"), Make("shift 2"), Break("shift"), Break("shift 2"),
            Make("ctrl"), Break("ctrl"), Make("alt"), Break("alt"), Make("caps")}

LEMMA CodeFacts ==
    /\ ShiftCodes = {Make("shift"), Break("shift"), Make("shift 2"), Break("shift 2")}
    /\ Prefix \notin Special
    /\ \A k \in AllKeys : Make(k) # Prefix /\ Break(k) # Prefix
    /\ \A k \in {"letter", "digit", "function", "gray"} : Make(k) \notin Special
    /\ \A k \in {"letter", "digit", "function", "gray", "caps"} : Break(k) \notin Special
<1>1. Fakes \ {<< >>} = {<<Prefix, Make("shift")>>, <<Prefix, Break("shift")>>}
  <2>1. <<Prefix, Make("shift")>> # << >> /\ <<Prefix, Break("shift")>> # << >>
    OBVIOUS
  <2> QED
    BY <2>1, Zenon DEF Fakes
<1>2. \A x, y : <<x, y>>[2] = y
  OBVIOUS
<1>3. {f[2] : f \in Fakes \ {<< >>}} = {Make("shift"), Break("shift")}
  BY <1>1, <1>2
<1>4. /\ Prefix \notin Special
      /\ \A k \in AllKeys : Make(k) # Prefix /\ Break(k) # Prefix
  BY DEF Prefix, Make, Break, AllKeys, Modifiers, Special
<1>5. /\ \A k \in {"letter", "digit", "function", "gray"} : Make(k) \notin Special
      /\ \A k \in {"letter", "digit", "function", "gray", "caps"} : Break(k) \notin Special
  BY DEF Make, Break, Special
<1> QED
  BY <1>3, <1>4, <1>5 DEF ShiftCodes

LEMMA FlaggedFacts ==
    ASSUME NEW s, NEW c, NEW t, NEW a
    PROVE  /\ Flagged(Rec(s, c, t, a, No), Prefix) = Rec(s, c, t, a, Yes)
           /\ \A code \in {Make("shift"), Break("shift"), Make("gray"), Break("gray")} :
                Flagged(Rec(s, c, t, a, Yes), code) = Rec(s, c, t, a, No)
           /\ \A k \in AllKeys :
                /\ Flagged(Rec(s, c, t, a, No), Make(k))  = Pressed(Rec(s, c, t, a, No), Make(k))
                /\ Flagged(Rec(s, c, t, a, No), Break(k)) = Pressed(Rec(s, c, t, a, No), Break(k))
<1> DEFINE r == Rec(s, c, t, a, No)
           q == Rec(s, c, t, a, Yes)
<1>1. \A code : ~FakeShift(r, code)
  BY RecFacts, YesNo DEF FakeShift
<1>2. \A code \in ShiftCodes : FakeShift(q, code)
  <2>1. q.ext = Yes
    BY RecFacts
  <2> QED
    BY <2>1, YesNo, Zenon DEF FakeShift
<1>3. \A code : code \notin Special => Pressed(r, code) = r /\ Pressed(q, code) = q
  BY DEF Pressed, Special
<1>4. Flagged(r, Prefix) = q
  BY <1>1, <1>3, NotedFacts, CodeFacts, FlaggedParts
<1>5. \A code : code # Prefix => Flagged(r, code) = Pressed(r, code)
  BY <1>1, NotedFacts, FlaggedParts
<1>6. \A code \in {Make("shift"), Break("shift")} : Flagged(q, code) = r
  BY ZenonT(30), <1>2, NotedFacts, CodeFacts, FlaggedParts DEF Special
<1>7. \A code \in {Make("gray"), Break("gray")} : Flagged(q, code) = r
  <2>1. \A code \in {Make("gray"), Break("gray")} :
           code # Prefix /\ code \notin Special /\ code \notin ShiftCodes
    BY CodeFacts DEF AllKeys, Special
  <2>2. \A code \in {Make("gray"), Break("gray")} : ~FakeShift(q, code)
    BY <2>1 DEF FakeShift
  <2> QED
    BY <1>3, <2>1, <2>2, NotedFacts, FlaggedParts
<1> QED
  BY <1>4, <1>5, <1>6, <1>7, CodeFacts

\* The flags that tell the keys h held down and Caps Lock l.
Truth(p) == IF p THEN Yes ELSE No
FlagsOf(h, l) ==
    Rec(Truth(h \cap {"shift", "shift 2"} # {}), l, Truth("ctrl" \in h), Truth("alt" \in h), No)

LEMMA PressFlags ==
    ASSUME NEW h \in SUBSET AllKeys, NEW l, NEW k \in AllKeys
    PROVE  Pressed(FlagsOf(h, l), Make(k)) = FlagsOf(h \cup {k}, IF k = "caps" THEN ~l ELSE l)
<1> DEFINE s == Truth(h \cap {"shift", "shift 2"} # {})
           t == Truth("ctrl" \in h)
           a == Truth("alt" \in h)
           r == Rec(s, l, t, a, No)
           n == h \cup {k}
<1>1. /\ k \in {"shift", "shift 2"} => Truth(n \cap {"shift", "shift 2"} # {}) = Yes
      /\ k \notin {"shift", "shift 2"} => Truth(n \cap {"shift", "shift 2"} # {}) = s
  BY DEF Truth
<1>2. /\ Truth("ctrl" \in n) = IF k = "ctrl" THEN Yes ELSE t
      /\ Truth("alt" \in n) = IF k = "alt" THEN Yes ELSE a
  BY DEF Truth
<1> HIDE DEF s, t, a, n
<1>3. /\ [r EXCEPT !.shift = Yes] = Rec(Yes, l, t, a, No)
      /\ [r EXCEPT !.ctrl = Yes] = Rec(s, l, Yes, a, No)
      /\ [r EXCEPT !.alt = Yes] = Rec(s, l, t, Yes, No)
  BY RecFacts
<1>4. [r EXCEPT !.caps = ~@] = Rec(s, ~l, t, a, No)
  BY RecFacts
<1>5. r = FlagsOf(h, l)
  BY DEF FlagsOf, s, t, a
<1> HIDE DEF r
<1>6. Pressed(r, Make(k)) =
        IF k \in {"shift", "shift 2"} THEN [r EXCEPT !.shift = Yes]
        ELSE IF k = "ctrl" THEN [r EXCEPT !.ctrl = Yes]
        ELSE IF k = "alt" THEN [r EXCEPT !.alt = Yes]
        ELSE IF k = "caps" THEN [r EXCEPT !.caps = ~@]
        ELSE r
  BY DEF Pressed, Make, Break
<1>7. /\ k \in {"shift", "shift 2"} => Pressed(r, Make(k)) = Rec(Yes, l, t, a, No)
      /\ k = "ctrl" => Pressed(r, Make(k)) = Rec(s, l, Yes, a, No)
      /\ k = "alt" => Pressed(r, Make(k)) = Rec(s, l, t, Yes, No)
      /\ k = "caps" => Pressed(r, Make(k)) = Rec(s, ~l, t, a, No)
      /\ k \notin {"shift", "shift 2", "ctrl", "alt", "caps"} =>
           Pressed(r, Make(k)) = Rec(s, l, t, a, No)
  BY <1>3, <1>4, <1>6 DEF r
<1>8. FlagsOf(n, IF k = "caps" THEN ~l ELSE l) =
        Rec(Truth(n \cap {"shift", "shift 2"} # {}), IF k = "caps" THEN ~l ELSE l,
            Truth("ctrl" \in n), Truth("alt" \in n), No)
  BY DEF FlagsOf
<1>9. Pressed(r, Make(k)) = FlagsOf(n, IF k = "caps" THEN ~l ELSE l)
  BY <1>1, <1>2, <1>7, <1>8
<1> QED
  BY <1>5, <1>9 DEF n

OneShift(h) == ~({"shift", "shift 2"} \subseteq h)

LEMMA ReleaseFlags ==
    ASSUME NEW h \in SUBSET AllKeys, OneShift(h), NEW l, NEW k \in h
    PROVE  Pressed(FlagsOf(h, l), Break(k)) = FlagsOf(h \ {k}, l)
<1> DEFINE s == Truth(h \cap {"shift", "shift 2"} # {})
           t == Truth("ctrl" \in h)
           a == Truth("alt" \in h)
           r == Rec(s, l, t, a, No)
           n == h \ {k}
<1>1. /\ k \in {"shift", "shift 2"} => Truth(n \cap {"shift", "shift 2"} # {}) = No
      /\ k \notin {"shift", "shift 2"} => Truth(n \cap {"shift", "shift 2"} # {}) = s
  BY DEF Truth, OneShift
<1>2. /\ Truth("ctrl" \in n) = IF k = "ctrl" THEN No ELSE t
      /\ Truth("alt" \in n) = IF k = "alt" THEN No ELSE a
  BY DEF Truth
<1> HIDE DEF s, t, a, n
<1>3. /\ [r EXCEPT !.shift = No] = Rec(No, l, t, a, No)
      /\ [r EXCEPT !.ctrl = No] = Rec(s, l, No, a, No)
      /\ [r EXCEPT !.alt = No] = Rec(s, l, t, No, No)
  BY RecFacts
<1>4. r = FlagsOf(h, l)
  BY DEF FlagsOf, s, t, a
<1> HIDE DEF r
<1>5. Pressed(r, Break(k)) =
        IF k \in {"shift", "shift 2"} THEN [r EXCEPT !.shift = No]
        ELSE IF k = "ctrl" THEN [r EXCEPT !.ctrl = No]
        ELSE IF k = "alt" THEN [r EXCEPT !.alt = No]
        ELSE r
  BY DEF Pressed, Make, Break
<1>6. /\ k \in {"shift", "shift 2"} => Pressed(r, Break(k)) = Rec(No, l, t, a, No)
      /\ k = "ctrl" => Pressed(r, Break(k)) = Rec(s, l, No, a, No)
      /\ k = "alt" => Pressed(r, Break(k)) = Rec(s, l, t, No, No)
      /\ k \notin {"shift", "shift 2", "ctrl", "alt"} => Pressed(r, Break(k)) = Rec(s, l, t, a, No)
  BY <1>3, <1>5 DEF r
<1>7. FlagsOf(n, l) = Rec(Truth(n \cap {"shift", "shift 2"} # {}), l,
                          Truth("ctrl" \in n), Truth("alt" \in n), No)
  BY DEF FlagsOf
<1>8. Pressed(r, Break(k)) = FlagsOf(n, l)
  BY <1>1, <1>2, <1>6, <1>7
<1> QED
  BY <1>4, <1>8 DEF n

----------------------------------------------------------------------------
(* The codes under way *)

\* The codes w lead from the flags f to g, and each is decoded on the way as
\* it is meant.
Leads(f, w, g) ==
    \E fs : /\ fs[1] = f /\ fs[Len(w) + 1] = g
            /\ \A i \in 1 .. Len(w) : /\ fs[i + 1] = Flagged(fs[i], w[i].code)
                                      /\ Decoded(fs[i], w[i].code) = w[i].means

Wires == Seq([code : Codes, means : Events \cup {None}])

LEMMA LeadsEmpty == \A f, g : Leads(f, << >>, g) <=> f = g
<1> TAKE f, g
<1>1. f = g => Leads(f, << >>, g)
  <2> DEFINE fs == [i \in {1} |-> f]
  <2>1. fs[1] = f /\ fs[Len(<< >>) + 1] = f
    OBVIOUS
  <2> HIDE DEF fs
  <2> QED
    BY <2>1 DEF Leads
<1>2. Leads(f, << >>, g) => f = g
  BY DEF Leads
<1> QED
  BY <1>1, <1>2

LEMMA LeadsOn ==
    ASSUME NEW w \in Wires, NEW f, NEW g, Leads(f, w, g), NEW c \in [code : Codes, means : Events \cup {None}],
           Decoded(g, c.code) = c.means
    PROVE  Leads(f, Append(w, c), Flagged(g, c.code)) /\ Append(w, c) \in Wires
<1> DEFINE n == Len(w)
           v == Append(w, c)
<1>1. PICK fs : /\ fs[1] = f /\ fs[n + 1] = g
                /\ \A i \in 1 .. n : /\ fs[i + 1] = Flagged(fs[i], w[i].code)
                                     /\ Decoded(fs[i], w[i].code) = w[i].means
  BY DEF Leads
<1>2. /\ n \in Nat /\ v \in Wires /\ Len(v) = n + 1
      /\ v[n + 1] = c /\ \A i \in 1 .. n : v[i] = w[i]
  BY DEF Wires
<1> DEFINE gs == [i \in 1 .. n + 2 |-> IF i = n + 2 THEN Flagged(g, c.code) ELSE fs[i]]
<1>3. gs[n + 2] = Flagged(g, c.code) /\ \A i \in 1 .. n + 1 : gs[i] = fs[i]
  BY <1>2
<1> HIDE DEF n, v, gs
<1>4. /\ gs[1] = f /\ gs[(n + 1) + 1] = Flagged(g, c.code)
      /\ \A i \in 1 .. n + 1 : /\ gs[i + 1] = Flagged(gs[i], v[i].code)
                               /\ Decoded(gs[i], v[i].code) = v[i].means
  <2>1. gs[1] = f /\ gs[(n + 1) + 1] = Flagged(g, c.code)
    BY <1>1, <1>2, <1>3
  <2>2. ASSUME NEW i \in 1 .. n
        PROVE  gs[i + 1] = Flagged(gs[i], v[i].code) /\ Decoded(gs[i], v[i].code) = v[i].means
    <3>1. i \in 1 .. n + 1 /\ i + 1 \in 1 .. n + 1
      BY <1>2
    <3> QED
      BY <1>1, <1>2, <1>3, <3>1
  <2>3. gs[(n + 1) + 1] = Flagged(gs[n + 1], v[n + 1].code) /\ Decoded(gs[n + 1], v[n + 1].code) = v[n + 1].means
    BY <1>1, <1>2, <1>3
  <2> QED
    BY <1>2, <2>1, <2>2, <2>3
<1>5. Leads(f, v, Flagged(g, c.code))
  BY <1>2, <1>4 DEF Leads
<1> QED
  BY <1>2, <1>5 DEF v

LEMMA LeadsFirst ==
    ASSUME NEW w \in Wires, w # << >>, NEW f, NEW g, Leads(f, w, g)
    PROVE  /\ Decoded(f, Head(w).code) = Head(w).means
           /\ Leads(Flagged(f, Head(w).code), Tail(w), g)
<1> DEFINE n == Len(w)
           v == Tail(w)
<1>1. PICK fs : /\ fs[1] = f /\ fs[n + 1] = g
                /\ \A i \in 1 .. n : /\ fs[i + 1] = Flagged(fs[i], w[i].code)
                                     /\ Decoded(fs[i], w[i].code) = w[i].means
  BY DEF Leads
<1>2. /\ n \in Nat /\ n >= 1 /\ Len(v) = n - 1 /\ Head(w) = w[1]
      /\ \A i \in 1 .. n - 1 : v[i] = w[i + 1]
  BY DEF Wires
<1> DEFINE gs == [i \in 1 .. n |-> fs[i + 1]]
<1>3. \A i \in 1 .. n : gs[i] = fs[i + 1]
  OBVIOUS
<1> HIDE DEF n, v, gs
<1>4. Decoded(f, Head(w).code) = Head(w).means /\ fs[2] = Flagged(f, Head(w).code)
  BY <1>1, <1>2
<1>5. /\ gs[1] = Flagged(f, Head(w).code) /\ gs[(n - 1) + 1] = g
      /\ \A i \in 1 .. n - 1 : /\ gs[i + 1] = Flagged(gs[i], v[i].code)
                               /\ Decoded(gs[i], v[i].code) = v[i].means
  <2>1. gs[1] = Flagged(f, Head(w).code) /\ gs[(n - 1) + 1] = g
    BY <1>1, <1>2, <1>3, <1>4
  <2>2. ASSUME NEW i \in 1 .. n - 1
        PROVE  gs[i + 1] = Flagged(gs[i], v[i].code) /\ Decoded(gs[i], v[i].code) = v[i].means
    <3>1. i \in 1 .. n /\ i + 1 \in 1 .. n
      BY <1>2
    <3> QED
      BY <1>1, <1>2, <1>3, <3>1
  <2> QED
    BY <2>1, <2>2
<1> QED
  BY <1>2, <1>4, <1>5 DEF Leads, v

Sending(x, m) == [code |-> x, means |-> m]

LEMMA Appended ==
    ASSUME TypeOK, NEW m \in Events \cup {None}
    PROVE  /\ \A y \in Codes : Send(<<y>>, m) => wire' = Append(wire, Sending(y, m))
           /\ \A x, y \in Codes : Send(<<x, y>>, m) =>
                wire' = Append(Append(wire, Sending(x, None)), Sending(y, m))
           /\ \A u, v, x, y \in Codes : Send(<<u, v, x, y>>, m) =>
                wire' = Append(Append(Append(Append(wire, Sending(u, None)), Sending(v, None)),
                                      Sending(x, None)), Sending(y, m))
<1>1. \A w \in Wires, c, d \in [code : Codes, means : Events \cup {None}] :
         w \o <<c>> = Append(w, c) /\ w \o <<c, d>> = Append(Append(w, c), d)
  BY DEF Wires
<1>2. \A w \in Wires, a, b, c, d \in [code : Codes, means : Events \cup {None}] :
         w \o <<a, b, c, d>> = Append(Append(Append(Append(w, a), b), c), d)
  BY DEF Wires
<1>3. wire \in Wires
  BY DEF TypeOK, Wires
<1>4. \A c \in Codes, n \in Events \cup {None} :
         Sending(c, n) \in [code : Codes, means : Events \cup {None}]
  BY DEF Sending
<1>5. \A y \in Codes : Send(<<y>>, m) => wire' = wire \o <<Sending(y, m)>>
  BY DEF Send, Sending
<1>6. \A x, y \in Codes : Send(<<x, y>>, m) =>
        wire' = wire \o <<Sending(x, None), Sending(y, m)>>
  BY DEF Send, Sending
<1>7. \A u, v, x, y \in Codes : Send(<<u, v, x, y>>, m) =>
        wire' = wire \o <<Sending(u, None), Sending(v, None), Sending(x, None), Sending(y, m)>>
  BY SMTT(30) DEF Send, Sending
<1>8. None \in Events \cup {None}
  OBVIOUS
<1>9. \A y \in Codes : Send(<<y>>, m) => wire' = Append(wire, Sending(y, m))
  BY <1>1, <1>3, <1>4, <1>5
<1>10. \A x, y \in Codes : Send(<<x, y>>, m) =>
         wire' = Append(Append(wire, Sending(x, None)), Sending(y, m))
  <2> TAKE x, y \in Codes
  <2>1. /\ Sending(x, None) \in [code : Codes, means : Events \cup {None}]
        /\ Sending(y, m) \in [code : Codes, means : Events \cup {None}]
    BY <1>4, <1>8
  <2>2. wire \o <<Sending(x, None), Sending(y, m)>> =
          Append(Append(wire, Sending(x, None)), Sending(y, m))
    BY <1>1, <1>3, <2>1
  <2> QED
    BY <1>6, <2>2, Zenon
<1>11. \A u, v, x, y \in Codes : Send(<<u, v, x, y>>, m) =>
         wire' = Append(Append(Append(Append(wire, Sending(u, None)), Sending(v, None)),
                               Sending(x, None)), Sending(y, m))
  <2> TAKE u, v, x, y \in Codes
  <2>1. /\ Sending(u, None) \in [code : Codes, means : Events \cup {None}]
        /\ Sending(v, None) \in [code : Codes, means : Events \cup {None}]
        /\ Sending(x, None) \in [code : Codes, means : Events \cup {None}]
        /\ Sending(y, m) \in [code : Codes, means : Events \cup {None}]
    BY <1>4, <1>8
  <2>2. wire \o <<Sending(u, None), Sending(v, None), Sending(x, None), Sending(y, m)>> =
          Append(Append(Append(Append(wire, Sending(u, None)), Sending(v, None)),
                        Sending(x, None)), Sending(y, m))
    BY <1>2, <1>3, <2>1
  <2> QED
    BY <1>7, <2>2, Zenon
<1> QED
  BY <1>9, <1>10, <1>11

LEMMA SendLeads ==
    ASSUME TypeOK, NEW k \in AllKeys, NEW code \in {Make(k), Break(k)},
           NEW s, NEW c, NEW t, NEW a, Leads(flags, wire, Rec(s, c, t, a, No)),
           NEW codes \in Sent(k, code), NEW means \in Events \cup {None}, Send(codes, means),
           Decoded(Rec(s, c, t, a, IF k = "gray" THEN Yes ELSE No), code) = means
    PROVE  Leads(flags, wire', Pressed(Rec(s, c, t, a, No), code))
<1> DEFINE r == Rec(s, c, t, a, No)
           q == Rec(s, c, t, a, Yes)
<1>1. /\ code \in Codes /\ Prefix \in Codes
      /\ Make("shift") \in Codes /\ Break("shift") \in Codes
      /\ wire \in Wires /\ None \in Events \cup {None}
  BY DEF Codes, AllKeys, Modifiers, TypeOK, Wires
<1>2. /\ Flagged(r, Prefix) = q
      /\ \A x \in {Make("shift"), Break("shift"), Make("gray"), Break("gray")} : Flagged(q, x) = r
      /\ Flagged(r, code) = Pressed(r, code)
  BY FlaggedFacts
<1>3. \A f : Decoded(f, Prefix) = None /\ Decoded(f, Make("shift")) = None
                /\ Decoded(f, Break("shift")) = None
  BY DEF Decoded, Prefix, Make, Break, AllKeys, Modifiers
<1>4. \A x \in Codes, n \in Events \cup {None} :
         /\ Sending(x, n) \in [code : Codes, means : Events \cup {None}]
         /\ Sending(x, n).code = x /\ Sending(x, n).means = n
  BY DEF Sending
<1>5. \A f : \A w \in Wires, x \in Codes, n \in Events \cup {None} :
         Leads(flags, w, f) /\ Decoded(f, x) = n =>
           /\ Leads(flags, Append(w, Sending(x, n)), Flagged(f, x))
           /\ Append(w, Sending(x, n)) \in Wires
  BY <1>4, LeadsOn
<1>6. /\ Leads(flags, wire, r)
      /\ k # "gray" => Decoded(r, code) = means
      /\ k = "gray" => Decoded(q, code) = means
  OBVIOUS
<1> SUFFICES Leads(flags, wire', Pressed(r, code))
  OBVIOUS
<1> HIDE DEF r, q
<1>7. CASE k # "gray"
  <2>1. codes = <<code>>
    BY <1>7 DEF Sent
  <2>2. wire' = Append(wire, Sending(code, means))
    BY <1>1, <2>1, Appended
  <2>3. Leads(flags, Append(wire, Sending(code, means)), Flagged(r, code))
    BY <1>1, <1>5, <1>6, <1>7, Zenon
  <2> QED
    BY <1>2, <2>2, <2>3
<1>8. CASE k = "gray"
  <2>1. PICK f \in Fakes : codes = f \o <<Prefix, code>>
    BY <1>8 DEF Sent
  <2>2. Decoded(q, code) = means /\ Flagged(q, code) = r /\ Pressed(r, code) = r
    <3>1. code \notin Special
      BY <1>8, CodeFacts
    <3>2. Pressed(r, code) = r
      BY <3>1 DEF Pressed, Special
    <3> QED
      BY <1>2, <1>6, <1>8, <3>2
  <2>3. \A w \in Wires : Leads(flags, w, r) =>
           Leads(flags, Append(Append(w, Sending(Prefix, None)), Sending(code, means)), r)
    <3> TAKE w \in Wires
    <3> HAVE Leads(flags, w, r)
    <3>1. /\ Leads(flags, Append(w, Sending(Prefix, None)), Flagged(r, Prefix))
          /\ Append(w, Sending(Prefix, None)) \in Wires
      BY <1>1, <1>3, <1>5, Zenon
    <3>2. Leads(flags, Append(Append(w, Sending(Prefix, None)), Sending(code, means)), Flagged(q, code))
      BY <1>1, <1>2, <1>5, <2>2, <3>1, Zenon
    <3> QED
      BY <2>2, <3>2
  <2>4. CASE f = << >>
    <3>1. codes = <<Prefix, code>>
      BY <2>1, <2>4, <1>1
    <3>2. Send(<<Prefix, code>>, means)
      BY <3>1
    <3>3. wire' = Append(Append(wire, Sending(Prefix, None)), Sending(code, means))
      BY <1>1, <3>2, Appended
    <3> QED
      BY <1>1, <1>6, <2>2, <2>3, <3>3
  <2>5. ASSUME NEW x \in {Make("shift"), Break("shift")}, f = <<Prefix, x>>
        PROVE  Leads(flags, wire', r)
    <3>1. x \in Codes
      BY <1>1, <2>5
    <3>2. codes = <<Prefix, x, Prefix, code>>
      <4>1. codes = <<Prefix, x>> \o <<Prefix, code>>
        BY <2>1, <2>5
      <4>2. /\ codes \in Seq(Codes) /\ Len(codes) = 4
            /\ codes[1] = Prefix /\ codes[2] = x /\ codes[3] = Prefix /\ codes[4] = code
        BY <1>1, <3>1, <4>1
      <4>3. /\ <<Prefix, x, Prefix, code>> \in Seq(Codes)
            /\ Len(<<Prefix, x, Prefix, code>>) = 4
        BY <1>1, <3>1
      <4>4. \A i \in 1 .. 4 : codes[i] = <<Prefix, x, Prefix, code>>[i]
        BY <4>2
      <4> QED
        BY <4>2, <4>3, <4>4, SeqEqual
    <3>3. Send(<<Prefix, x, Prefix, code>>, means)
      BY <3>2
    <3>4. wire' = Append(Append(Append(Append(wire, Sending(Prefix, None)), Sending(x, None)),
                                Sending(Prefix, None)), Sending(code, means))
      BY SMTT(30), <1>1, <3>1, <3>3, Appended
    <3>5. /\ Leads(flags, Append(wire, Sending(Prefix, None)), Flagged(r, Prefix))
          /\ Append(wire, Sending(Prefix, None)) \in Wires
      BY <1>1, <1>3, <1>5, <1>6, Zenon
    <3>6. Decoded(q, x) = None /\ Flagged(q, x) = r
      BY <1>2, <1>3, <2>5
    <3>7. /\ Leads(flags, Append(Append(wire, Sending(Prefix, None)), Sending(x, None)), Flagged(q, x))
          /\ Append(Append(wire, Sending(Prefix, None)), Sending(x, None)) \in Wires
      BY <1>1, <1>2, <1>5, <3>1, <3>5, <3>6, Zenon
    <3> QED
      BY <2>3, <3>4, <3>6, <3>7
  <2>6. f = << >> \/ \E x \in {Make("shift"), Break("shift")} : f = <<Prefix, x>>
    BY Zenon DEF Fakes
  <2> QED
    BY <2>2, <2>4, <2>5, <2>6
<1> QED
  BY <1>7, <1>8

----------------------------------------------------------------------------
(* What the driver knows *)

\* The codes under way lead from the driver's flags to those that tell what is
\* held down, and the driver will make of each what the user typed.
Understood ==
    /\ Leads(flags, wire, FlagsOf(held, locked))
    /\ OneShift(held)

LEMMA TypedDecoded ==
    ASSUME TypeOK, NEW k \in AllKeys
    PROVE  /\ k # "gray" => Decoded(FlagsOf(held, locked), Make(k)) = Typed(k)
           /\ \A s, c, t, a : Decoded(Rec(s, c, t, a, Yes), Make("gray")) = <<"special", "gray">>
           /\ Typed("gray") = <<"special", "gray">>
           /\ \A f : Decoded(f, Break(k)) = None
<1>1. \A f : Decoded(f, Break(k)) = None
  BY DEF Decoded, Break, Make
<1>2. Make(k) \in {Make(j) : j \in AllKeys \ Modifiers} <=> k \notin Modifiers
  BY DEF Make
<1>3. /\ Typed("gray") = <<"special", "gray">>
      /\ \A s, c, t, a : Decoded(Rec(s, c, t, a, Yes), Make("gray")) = <<"special", "gray">>
  <2>1. \A s, c, t, a : Rec(s, c, t, a, Yes).ext = Yes
    BY RecFacts
  <2>2. "gray" \in AllKeys \ Modifiers /\ Make("gray")[1] = "gray"
    BY DEF AllKeys, Modifiers, Make
  <2>3. Typed("gray") = <<"special", "gray">>
    BY <2>2 DEF Typed, Event
  <2> QED
    BY <2>1, <2>2, <2>3, YesNo DEF Decoded
<1>4. k # "gray" => Decoded(FlagsOf(held, locked), Make(k)) = Typed(k)
  <2> DEFINE s == Truth(held \cap {"shift", "shift 2"} # {})
             t == Truth("ctrl" \in held)
             a == Truth("alt" \in held)
  <2>1. (t <=> "ctrl" \in held) /\ (a <=> "alt" \in held)
    BY DEF Truth, Yes, No
  <2>2. s = ShiftHeld
    BY DEF Truth, Yes, No, ShiftHeld
  <2> HIDE DEF s, t, a
  <2>3. Event(k, s, t, a, locked) = Event(k, ShiftHeld, "ctrl" \in held, "alt" \in held, locked)
    <3>1. (s <=> ShiftHeld) /\ (s # locked <=> ShiftHeld # locked)
      BY <2>2
    <3> QED
      BY <2>1, <3>1 DEF Event
  <2>4. Decoded(Rec(s, locked, t, a, No), Make(k)) =
          IF k \in Modifiers THEN None ELSE Event(k, s, t, a, locked)
    <3>1. Make(k)[1] = k
      BY DEF Make
    <3> QED
      BY <1>2, <3>1, RecFacts, YesNo DEF Decoded
  <2> QED
    BY <2>3, <2>4 DEF Typed, FlagsOf, s, t, a
<1> QED
  BY <1>1, <1>3, <1>4

LEMMA UnderstoodInvariant == Spec => [](TypeOK /\ Understood)
<1>1. Init => Understood
  <2> SUFFICES ASSUME Init PROVE Understood
    OBVIOUS
  <2>1. flags = Rec(No, No, No, No, No)
    BY DEF Init, Rec, No
  <2>2. FlagsOf(held, locked) = Rec(No, No, No, No, No)
    BY DEF Init, FlagsOf, Truth, No
  <2> QED
    BY <2>1, <2>2, LeadsEmpty DEF Init, Understood, OneShift
<1>2. TypeOK /\ Understood /\ [Next]_vars => Understood'
  <2> SUFFICES ASSUME TypeOK, Understood, [Next]_vars PROVE Understood'
    OBVIOUS
  <2>0. held \in SUBSET AllKeys
    BY KeyboardAssumption DEF TypeOK
  <2> DEFINE s == Truth(held \cap {"shift", "shift 2"} # {})
             t == Truth("ctrl" \in held)
             a == Truth("alt" \in held)
  <2>1. FlagsOf(held, locked) = Rec(s, locked, t, a, No)
    BY DEF FlagsOf
  <2> HIDE DEF s, t, a
  <2>2. ASSUME NEW k \in Keys, Press(k) PROVE Understood'
    <3>1. k \in AllKeys /\ OneShift(held')
      BY <2>2, KeyboardAssumption DEF Press, OneShift
    <3>2. PICK codes \in Sent(k, Make(k)) : Send(codes, Typed(k))
      BY <2>2 DEF Press
    <3>3. Typed(k) \in Events \cup {None}
      BY <3>1, EventType DEF Typed
    <3>4. Decoded(Rec(s, locked, t, a, IF k = "gray" THEN Yes ELSE No), Make(k)) = Typed(k)
      BY <2>1, <3>1, TypedDecoded
    <3>5. Leads(flags, wire', Pressed(FlagsOf(held, locked), Make(k)))
      BY <2>1, <3>1, <3>2, <3>3, <3>4, SendLeads DEF Understood
    <3>6. Pressed(FlagsOf(held, locked), Make(k)) = FlagsOf(held', locked')
      BY ZenonT(30), <2>0, <2>2, <3>1, PressFlags DEF Press
    <3> QED
      BY <2>2, <3>1, <3>5, <3>6 DEF Press, Understood
  <2>3. ASSUME NEW k \in Keys, Release(k) PROVE Understood'
    <3>1. k \in AllKeys /\ k \in held /\ OneShift(held')
      BY <2>3, KeyboardAssumption DEF Release, OneShift, Understood
    <3>2. PICK codes \in Sent(k, Break(k)) : Send(codes, None)
      BY <2>3 DEF Release
    <3>3. Decoded(Rec(s, locked, t, a, IF k = "gray" THEN Yes ELSE No), Break(k)) = None
      BY <3>1, TypedDecoded
    <3>4. Leads(flags, wire', Pressed(FlagsOf(held, locked), Break(k)))
      BY <2>1, <3>1, <3>2, <3>3, SendLeads DEF Understood
    <3>5. Pressed(FlagsOf(held, locked), Break(k)) = FlagsOf(held', locked')
      BY <2>0, <2>3, <3>1, ReleaseFlags DEF Release, Understood
    <3> QED
      BY <2>3, <3>1, <3>4, <3>5 DEF Release, Understood
  <2>4. CASE Irq
    <3>1. wire \in Wires /\ wire # << >>
      BY <2>4 DEF Irq, TypeOK, Wires
    <3>2. flags' = Flagged(flags, Head(wire).code) /\ wire' = Tail(wire) /\ UNCHANGED user
      BY <2>4 DEF Irq
    <3> QED
      BY <3>1, <3>2, LeadsFirst DEF Understood, user
  <2>5. CASE Call \/ Getkey
    BY <2>5 DEF Call, Getkey, Poll, ReadSlot, Advance, PollSerial, user, Understood
  <2>6. CASE UNCHANGED vars
    BY <2>6 DEF vars, Understood
  <2> QED
    BY <2>2, <2>3, <2>4, <2>5, <2>6 DEF Next
<1> QED
  BY <1>1, <1>2, TypeCorrectness, PTL DEF Spec

\* Whatever keys are pressed, and however late the driver sees their codes, it
\* makes of each the event the user typed.
THEOREM CodesUnderstood == Spec => []KeysUnderstood
<1>1. TypeOK /\ Understood => KeysUnderstood
  BY LeadsFirst DEF TypeOK, Wires, Understood, KeysUnderstood
<1> QED
  BY <1>1, UnderstoodInvariant, PTL

\* SYSCALL_GET_SHIFT tells the keys that are held down when no code is under way.
THEOREM ShiftStateTold == Spec => []ShiftStateCurrent
<1>1. TypeOK /\ Understood => ShiftStateCurrent
  <2> SUFFICES ASSUME Understood, wire = << >>
               PROVE  \A m \in {"shift", "ctrl", "alt"} :
                        flags[m] <=> IF m = "shift" THEN ShiftHeld ELSE m \in held
    BY DEF ShiftStateCurrent, ShiftState
  <2>1. flags = FlagsOf(held, locked)
    BY LeadsEmpty DEF Understood
  <2>2. /\ flags.shift = Truth(ShiftHeld) /\ flags.ctrl = Truth("ctrl" \in held)
        /\ flags.alt = Truth("alt" \in held)
    BY <2>1 DEF FlagsOf, Rec, ShiftHeld
  <2> QED
    BY <2>2, YesNo DEF Truth
<1> QED
  BY <1>1, UnderstoodInvariant, PTL
=============================================================================
