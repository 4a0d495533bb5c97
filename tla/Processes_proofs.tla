-------------------------- MODULE Processes_proofs --------------------------
(***************************************************************************)
(* Proofs about Processes, for every size of memory, slot and block: on a  *)
(* machine that runs out of memory before it runs out of contexts, ends    *)
(* and starts of programs nest.                                            *)
(***************************************************************************)
EXTENDS Processes, TLAPS

\* The stack holds a context for each suspended program.
ContextsMatch ==
    /\ Len(pctx) = IF live = << >> THEN 0 ELSE Len(live) - 1
    /\ \A i \in 1 .. Len(pctx) : pctx[i].child = live[i + 1] /\ pctx[i].ss = live[i]

\* Memory is handed out upwards, a slot at least to each program.
SlotsStacked ==
    /\ \A i \in 1 .. Len(live) : ComSegment + (i - 1) * ProcParas <= live[i]
    /\ live # << >> => ComSegment + Len(live) * ProcParas <= next_seg

RegionsStacked ==
    \A r \in regions :
        /\ r.owner \in 1 .. Len(live)
        /\ r.base + r.size <= next_seg
        /\ \A i \in 1 .. Len(live) : r.owner < i => r.base + r.size <= live[i]

RegionsApart == \A r, s \in regions : r # s => Apart(r, s)

Inv ==
    /\ TypeOK
    /\ LastStartedRuns
    /\ ContextsMatch
    /\ SlotsStacked
    /\ RegionsStacked
    /\ RegionsApart

\* One more slot: the step the stacking argument takes.
LEMMA NextSlot == \A n \in Nat : (n + 1) * ProcParas = n * ProcParas + ProcParas
  BY MemoryAssumption

\* With memory for one more slot there is a context for the caller.
LEMMA ContextFree ==
  ASSUME ContextsSuffice, Inv, live # << >>, next_seg <= RamParas - ProcParas
  PROVE  Len(pctx) < PctxMax
<1> DEFINE n == Len(live)
<1>1. n \in Nat /\ n >= 1
  BY DEF Inv, TypeOK
<1>2. n * ProcParas + ProcParas < (PctxMax + 2) * ProcParas
  <2> DEFINE used == n * ProcParas
             all  == (PctxMax + 2) * ProcParas
  <2>1. used \in Int /\ all \in Int
    BY <1>1, MemoryAssumption
  <2>2. ComSegment + used <= next_seg /\ RamParas < ComSegment + all
    BY DEF Inv, SlotsStacked, ContextsSuffice
  <2>3. next_seg \in Nat
    BY MemoryAssumption DEF Inv, TypeOK, Segment
  <2> HIDE DEF used, all
  <2>4. used + ProcParas < all
    BY <2>1, <2>2, <2>3, MemoryAssumption
  <2> QED
    BY <2>4 DEF used, all
<1>3. (n + 1) * ProcParas < (PctxMax + 2) * ProcParas
  BY <1>1, <1>2, NextSlot
<1>4. n + 1 < PctxMax + 2
  BY <1>1, <1>3, MemoryAssumption
<1> QED
  BY <1>1, <1>4, MemoryAssumption DEF Inv, ContextsMatch

\* The kernel has started nothing.
LEMMA InitInv == Init => Inv
  BY MemoryAssumption
     DEF Init, Inv, TypeOK, LastStartedRuns, ContextsMatch, SlotsStacked,
         RegionsStacked, RegionsApart, Segment

\* exec_com.
LEMMA ExecComInv == ASSUME Inv, ExecCom PROVE Inv'
<1> USE DEF ExecCom, AtComSegment, Slot
<1>0. live = << >> /\ pctx = << >>
  <2>1. live = << >>
    BY MemoryAssumption DEF Inv, TypeOK, LastStartedRuns, Top, Segment
  <2> QED
    BY <2>1 DEF Inv, TypeOK, ContextsMatch
<1>1. TypeOK'
  BY <1>0, MemoryAssumption DEF Inv, TypeOK, Segment, Region
<1>2. LastStartedRuns' /\ ContextsMatch'
  BY <1>0, MemoryAssumption DEF LastStartedRuns, Top, ContextsMatch
<1>3. SlotsStacked' /\ RegionsStacked' /\ RegionsApart'
  BY MemoryAssumption DEF SlotsStacked, RegionsStacked, RegionsApart
<1> QED
  BY <1>1, <1>2, <1>3 DEF Inv

\* SYSCALL_EXEC; here a free context is needed.
LEMMA ExecInv == ASSUME ContextsSuffice, Inv, Exec PROVE Inv'
<1> USE DEF Exec, Reserved, Slot
<1> DEFINE n == Len(live)
<1>0. /\ n \in Nat /\ n >= 1 /\ live # << >>
      /\ next_seg \in Nat /\ next_seg <= RamParas - ProcParas
      /\ live' = Append(live, next_seg) /\ Len(live') = n + 1
      /\ \A i \in 1 .. n : live'[i] = live[i]
      /\ live'[n + 1] = next_seg
  <2>1. live # << >>
    BY DEF Inv, LastStartedRuns
  <2> QED
    BY <2>1, MemoryAssumption DEF Inv, TypeOK, Segment
<1>1. pctx' = Append(pctx, [child |-> next_seg, ss |-> live[n]])
  BY <1>0, ContextFree DEF Saved, Inv, LastStartedRuns, Top
<1>2. TypeOK'
  <2>1. live[n] \in Segment
    BY <1>0 DEF Inv, TypeOK
  <2>2. pctx' \in Seq(Context)
    BY <1>1, <2>1 DEF Inv, TypeOK, Context
  <2>3. [base |-> next_seg, size |-> ProcParas, owner |-> n + 1] \in Region
    BY <1>0, MemoryAssumption DEF Inv, TypeOK, Region
  <2> QED
    BY <1>0, <2>2, <2>3, MemoryAssumption DEF Inv, TypeOK, Segment
<1>3. LastStartedRuns'
  BY <1>0 DEF LastStartedRuns, Top
<1>4. ContextsMatch'
  <2>1. Len(pctx) = n - 1 /\ Len(pctx') = n /\ live' # << >>
    BY <1>0, <1>1 DEF Inv, TypeOK, ContextsMatch
  <2>2. ASSUME NEW i \in 1 .. n
        PROVE  pctx'[i].child = live'[i + 1] /\ pctx'[i].ss = live'[i]
    <3>1. CASE i = n
      BY <1>0, <1>1, <2>1, <3>1 DEF Inv, TypeOK
    <3>2. CASE i # n
      <4>1. i \in 1 .. Len(pctx) /\ pctx'[i] = pctx[i] /\ i + 1 \in 1 .. n
        BY <1>0, <1>1, <2>1, <3>2 DEF Inv, TypeOK
      <4> QED
        BY <1>0, <4>1 DEF Inv, ContextsMatch
    <3> QED
      BY <3>1, <3>2
  <2> QED
    BY <1>0, <2>1, <2>2 DEF ContextsMatch
<1>5. SlotsStacked'
  <2>1. ComSegment + n * ProcParas <= next_seg
    BY <1>0 DEF Inv, SlotsStacked
  <2>2. ComSegment + (n + 1) * ProcParas <= next_seg'
    <3> DEFINE used == n * ProcParas
    <3>1. used \in Int /\ ComSegment + used <= next_seg
      BY <1>0, <2>1, MemoryAssumption
    <3>2. (n + 1) * ProcParas = used + ProcParas
      BY <1>0, NextSlot
    <3> HIDE DEF used
    <3> QED
      BY <1>0, <3>1, <3>2, MemoryAssumption
  <2>3. ASSUME NEW i \in 1 .. n + 1
        PROVE  ComSegment + (i - 1) * ProcParas <= live'[i]
    <3>1. CASE i = n + 1
      BY <1>0, <2>1, <3>1
    <3>2. CASE i # n + 1
      BY <1>0, <3>2 DEF Inv, SlotsStacked
    <3> QED
      BY <3>1, <3>2
  <2> QED
    BY <1>0, <2>2, <2>3 DEF SlotsStacked
<1>6. RegionsStacked'
  BY SMTT(30), <1>0, MemoryAssumption DEF Inv, TypeOK, RegionsStacked, Region, Segment
<1>7. RegionsApart'
  BY <1>0, MemoryAssumption DEF Inv, TypeOK, RegionsStacked, RegionsApart, Apart, Region, Segment
<1> QED
  BY <1>2, <1>3, <1>4, <1>5, <1>6, <1>7 DEF Inv

\* SYSCALL_ALLOC.
LEMMA AllocInv == ASSUME Inv, NEW n \in Blocks, Alloc(n) PROVE Inv'
<1> USE DEF Alloc, Reserved, RamFor
<1>0. /\ n \in Nat /\ next_seg \in Nat /\ next_seg + n <= RamParas
      /\ live # << >> /\ Len(live) \in Nat /\ Len(live) >= 1
  BY MemoryAssumption DEF Inv, TypeOK, LastStartedRuns, Segment
<1>1. TypeOK'
  BY <1>0, MemoryAssumption DEF Inv, TypeOK, Segment, Region
<1>2. LastStartedRuns' /\ ContextsMatch'
  BY DEF Inv, LastStartedRuns, ContextsMatch, Top
<1>3. SlotsStacked'
  BY <1>0, MemoryAssumption DEF Inv, TypeOK, SlotsStacked
<1>4. RegionsStacked'
  BY SMTT(30), <1>0, MemoryAssumption DEF Inv, TypeOK, RegionsStacked, Region, Segment
<1>5. RegionsApart'
  BY <1>0, MemoryAssumption DEF Inv, TypeOK, RegionsStacked, RegionsApart, Apart, Region, Segment
<1> QED
  BY <1>1, <1>2, <1>3, <1>4, <1>5 DEF Inv

\* A return to the parent.
LEMMA ExitInv == ASSUME Inv, Exit PROVE Inv'
<1> USE DEF Exit, Resumed, Pop, Top
<1> DEFINE n == Len(live)
<1>0. /\ n \in Nat /\ n >= 2 /\ Len(pctx) = n - 1 /\ live # << >>
      /\ Len(live') = n - 1 /\ \A i \in 1 .. n - 1 : live'[i] = live[i]
      /\ Len(pctx') = n - 2 /\ \A i \in 1 .. n - 2 : pctx'[i] = pctx[i]
      /\ live' \in Seq(Segment) /\ pctx' \in Seq(Context)
      /\ \A i \in 1 .. n : live[i] \in Segment
  <2>1. /\ live \in Seq(Segment) /\ pctx \in Seq(Context)
        /\ Len(pctx) \in Nat /\ Len(pctx) # 0 /\ n \in Nat
    BY DEF Inv, TypeOK
  <2>2. live # << >> /\ Len(pctx) = n - 1 /\ n >= 2
    BY <2>1 DEF Inv, ContextsMatch
  <2> QED
    BY <2>1, <2>2
<1>1. next_seg' = live[n] /\ cpu' = live[n - 1]
  BY <1>0 DEF Inv, ContextsMatch
<1>2. TypeOK'
  BY <1>0, <1>1 DEF Inv, TypeOK
<1>3. LastStartedRuns'
  <2>1. live'[n - 1] = live[n - 1]
    BY <1>0
  <2>2. live' # << >>
    <3>1. Len(live') # 0
      BY <1>0
    <3> QED
      BY <3>1
  <2> QED
    BY <1>0, <1>1, <2>1, <2>2 DEF LastStartedRuns
<1>4. ContextsMatch'
  BY <1>0 DEF Inv, ContextsMatch
<1>5. SlotsStacked'
  BY <1>0, <1>1 DEF Inv, SlotsStacked
<1>6. RegionsStacked' /\ RegionsApart'
  BY <1>0, <1>1 DEF Inv, RegionsStacked, RegionsApart, Apart
<1> QED
  BY <1>2, <1>3, <1>4, <1>5, <1>6 DEF Inv

\* A return to the kernel.
LEMMA ExitToKernelInv == ASSUME Inv, ExitToKernel PROVE Inv'
  BY DEF ExitToKernel, Inv, TypeOK, LastStartedRuns, ContextsMatch, SlotsStacked,
         RegionsStacked, RegionsApart

\* Every step.
LEMMA NextInv == ASSUME ContextsSuffice, Inv, [Next]_vars PROVE Inv'
<1>1. CASE ExecCom       BY <1>1, ExecComInv
<1>2. CASE Exec          BY <1>2, ExecInv
<1>3. CASE \E n \in Blocks : Alloc(n)
  BY <1>3, AllocInv
<1>4. CASE Exit          BY <1>4, ExitInv
<1>5. CASE ExitToKernel  BY <1>5, ExitToKernelInv
<1>6. CASE UNCHANGED vars
  BY <1>6 DEF vars, Inv, TypeOK, LastStartedRuns, ContextsMatch, SlotsStacked,
              RegionsStacked, RegionsApart
<1> QED
  BY <1>1, <1>2, <1>3, <1>4, <1>5, <1>6 DEF Next

\* Inv is an invariant of every machine whose memory is used up first.
THEOREM Invariance == ContextsSuffice => (Spec => []Inv)
<1> SUFFICES ASSUME ContextsSuffice PROVE Spec => []Inv
  OBVIOUS
<1>1. Inv /\ [Next]_vars => Inv'
  BY NextInv
<1> QED
  BY <1>1, InitInv, PTL DEF Spec

\* A segment, a context and a region stay well formed, and inside the RAM, also
\* on a machine whose contexts run out first: there is always a place to go on.
THEOREM TypeCorrectness == Spec => []TypeOK
<1>1. Init => TypeOK
  BY MemoryAssumption DEF Init, TypeOK, Segment
<1>2. TypeOK /\ [Next]_vars => TypeOK'
  <2> SUFFICES ASSUME TypeOK, [Next]_vars PROVE TypeOK'
    OBVIOUS
  <2>1. CASE ExecCom
    BY <2>1, MemoryAssumption DEF ExecCom, AtComSegment, Slot, TypeOK, Segment, Region
  <2>2. CASE Exec
    <3>1. next_seg \in Nat /\ next_seg + ProcParas <= RamParas /\ cpu \in Segment
      BY <2>2, MemoryAssumption DEF Exec, TypeOK, Segment
    <3>2. [child |-> next_seg, ss |-> cpu] \in Context
      BY <3>1 DEF TypeOK, Context
    <3>3. pctx' \in Seq(Context)
      BY <2>2, <3>2 DEF Exec, Saved, TypeOK
    <3>4. Slot(next_seg, Len(live) + 1) \in Region
      BY <3>1, MemoryAssumption DEF Slot, TypeOK, Region
    <3> QED
      BY <2>2, <3>1, <3>3, <3>4, MemoryAssumption DEF Exec, Reserved, TypeOK, Segment
  <2>3. CASE \E n \in Blocks : Alloc(n)
    <3>1. PICK n \in Blocks : Alloc(n)
      BY <2>3
    <3>2. n \in Nat /\ next_seg \in Nat /\ next_seg + n <= RamParas
      BY <3>1, MemoryAssumption DEF Alloc, RamFor, TypeOK, Segment
    <3>3. [base |-> next_seg, size |-> n, owner |-> Len(live)] \in Region
      BY <3>2 DEF TypeOK, Region
    <3> QED
      BY <3>1, <3>2, <3>3, MemoryAssumption DEF Alloc, Reserved, TypeOK, Segment
  <2>4. CASE Exit
    <3>1. Top(pctx) \in Context /\ Pop(pctx) \in Seq(Context) /\ Pop(live) \in Seq(Segment)
      BY <2>4 DEF Exit, Top, Pop, TypeOK
    <3> QED
      BY <2>4, <3>1 DEF Exit, Resumed, Context, TypeOK
  <2>5. CASE ExitToKernel
    BY <2>5 DEF ExitToKernel, TypeOK
  <2>6. CASE UNCHANGED vars
    BY <2>6 DEF vars, TypeOK
  <2> QED
    BY <2>1, <2>2, <2>3, <2>4, <2>5, <2>6 DEF Next
<1> QED
  BY <1>1, <1>2, PTL DEF Spec

\* A program that ends always resumes the program that started it.
THEOREM ReturnsToCaller == ContextsSuffice => (Spec => []LastStartedRuns)
<1>1. Inv => LastStartedRuns
  BY DEF Inv
<1> QED
  BY <1>1, Invariance, PTL

\* No two programs share memory.
THEOREM Separation == ContextsSuffice => (Spec => []MemorySeparate)
<1>1. Inv => MemorySeparate
  BY MemoryAssumption
     DEF Inv, TypeOK, RegionsApart, RegionsStacked, MemorySeparate, Segment, Region
<1> QED
  BY <1>1, Invariance, PTL

\* Ending a program takes back its memory and no one else's.
THEOREM Reclaim == ContextsSuffice => (Spec => ExitReclaims)
<1>1. ASSUME Inv, Exit
      PROVE  next_seg' = Top(live) /\ \A r \in regions' : r.base + r.size <= next_seg'
  <2>1. Len(live) \in Nat /\ Len(pctx) = Len(live) - 1 /\ Len(pctx) >= 1
    BY <1>1 DEF Inv, TypeOK, ContextsMatch, Exit
  <2>2. next_seg' = live[Len(live)]
    BY <1>1, <2>1 DEF Exit, Resumed, Top, Inv, ContextsMatch
  <2> QED
    BY <1>1, <2>1, <2>2 DEF Exit, Top, Inv, RegionsStacked
<1>2. Inv /\ [Next]_vars =>
        [Exit => /\ next_seg' = Top(live)
                 /\ \A r \in regions' : r.base + r.size <= next_seg']_vars
  BY <1>1
<1> QED
  BY <1>2, Invariance, PTL DEF Spec, ExitReclaims
=============================================================================
