----------------------------- MODULE Processes -----------------------------
(***************************************************************************)
(* Programs in memory: SYSCALL_EXEC, SYSCALL_EXIT, SYSCALL_ALLOC and the   *)
(* start of SHELL.COM (src/src/kernel/syscalls.c, syscall.asm,             *)
(* src/src/shell/exec.c).                                                  *)
(*                                                                         *)
(* One program runs at a time.  EXEC suspends it, keeps its registers on   *)
(* the parent context stack and starts the child in the memory behind      *)
(* everything handed out so far; the child's end pops the stack.  A        *)
(* program's context is its stack segment, the segment it was loaded at.   *)
(* EXEC of a name that is not there, EXEC and ALLOC without memory, FREE   *)
(* (which does nothing), GET_PID and MEM_INFO change nothing here.         *)
(***************************************************************************)
EXTENDS Integers, Sequences

CONSTANTS
    ComSegment,   \* where SHELL.COM is loaded (COM_SEGMENT)
    ProcParas,    \* paragraphs of a program's slot (PROC_PARAS)
    PctxMax,      \* entries of the parent context stack (PCTX_MAX)
    RamParas,     \* base memory the BIOS reports, in paragraphs
    Blocks,       \* sizes programs ask SYSCALL_ALLOC for
    Kernel        \* the kernel's own shell, which runs without SHELL.COM

ASSUME MemoryAssumption ==
    /\ ComSegment \in Nat /\ PctxMax \in Nat /\ RamParas \in Nat
    /\ ProcParas \in Nat \ {0}
    /\ ComSegment + ProcParas <= RamParas
    /\ Blocks \subseteq Nat \ {0}
    /\ Kernel \notin Nat

\* A machine on which EXEC runs out of memory before it runs out of contexts.
ContextsSuffice == RamParas < ComSegment + (PctxMax + 2) * ProcParas

VARIABLES
    cpu,       \* segment of the program that runs, or Kernel
    next_seg,  \* g_next_seg: first paragraph not handed out
    pctx,      \* the parent context stack
    live,      \* segments of the programs that were started and have not
               \* ended, in the order of their starts (observation only)
    regions    \* the memory they hold (observation only)

vars == <<cpu, next_seg, pctx, live, regions>>

Top(s) == s[Len(s)]
Pop(s) == SubSeq(s, 1, Len(s) - 1)

Segment == 0 .. RamParas
Context == [child : Segment, ss : Segment]
Region  == [base : Segment, size : Nat, owner : Nat]

TypeOK ==
    /\ cpu \in Segment \cup {Kernel}
    /\ next_seg \in Segment
    /\ pctx \in Seq(Context)
    /\ live \in Seq(Segment)
    /\ regions \subseteq Region

Slot(seg, i) == [base |-> seg, size |-> ProcParas, owner |-> i]

\* exec_com: the program is loaded at COM_SEGMENT.
AtComSegment ==
    /\ cpu' = ComSegment
    /\ next_seg' = ComSegment + ProcParas
    /\ live' = <<ComSegment>>
    /\ regions' = {Slot(ComSegment, 1)}

Init ==
    /\ cpu = Kernel
    /\ next_seg = 0
    /\ pctx = << >>
    /\ live = << >>
    /\ regions = {}

\* boot_shell starts SHELL.COM; without one the kernel's shell stays and starts
\* programs in its place.
ExecCom ==
    /\ cpu = Kernel
    /\ AtComSegment
    /\ UNCHANGED pctx

Reserved(n) == next_seg' = next_seg + n

\* MUTANT of Saved: the last entry of the stack is not used.
SavedBelowLast(child) ==
    pctx' = IF Len(pctx) + 1 < PctxMax THEN Append(pctx, [child |-> child, ss |-> cpu])
                                       ELSE pctx

\* The caller's context is not kept when the stack is full.
Saved(child) ==
    pctx' = IF Len(pctx) < PctxMax THEN Append(pctx, [child |-> child, ss |-> cpu])
                                   ELSE pctx

\* MUTANT of RamFor: the block's end is not compared with the top of the RAM.
RamForBase(n) == n <= RamParas /\ next_seg <= RamParas

RamFor(n) == n <= RamParas /\ next_seg <= RamParas - n

Exec ==
    /\ cpu # Kernel
    /\ RamParas >= ProcParas => next_seg <= RamParas - ProcParas
    /\ Reserved(ProcParas)
    /\ Saved(next_seg)
    /\ cpu' = next_seg
    /\ live' = Append(live, next_seg)
    /\ regions' = regions \cup {Slot(next_seg, Len(live) + 1)}

Alloc(n) ==
    /\ cpu # Kernel
    /\ RamParas # 0 => RamFor(n)
    /\ Reserved(n)
    /\ regions' = regions \cup {[base |-> next_seg, size |-> n, owner |-> Len(live)]}
    /\ UNCHANGED <<cpu, pctx, live>>

\* MUTANT of Resumed: the child's memory is not taken back.
ResumedOnly(context) ==
    /\ next_seg' = next_seg
    /\ cpu' = context.ss
    /\ pctx' = Pop(pctx)

\* MUTANT of Resumed: memory is taken back down to the parent's own segment.
ResumedLow(context) ==
    /\ next_seg' = context.ss
    /\ cpu' = context.ss
    /\ pctx' = Pop(pctx)

\* return_to_parent_
Resumed(context) ==
    /\ next_seg' = context.child
    /\ cpu' = context.ss
    /\ pctx' = Pop(pctx)

Exit ==
    /\ cpu # Kernel /\ pctx # << >>
    /\ Resumed(Top(pctx))
    /\ live' = Pop(live)
    /\ regions' = {r \in regions : r.owner < Len(live)}

\* Without a context the kernel starts over; g_next_seg keeps its value.
ExitToKernel ==
    /\ cpu # Kernel /\ pctx = << >>
    /\ cpu' = Kernel
    /\ live' = << >>
    /\ regions' = {}
    /\ UNCHANGED <<next_seg, pctx>>

Next ==
    \/ ExecCom
    \/ Exec
    \/ \E n \in Blocks : Alloc(n)
    \/ Exit
    \/ ExitToKernel

Spec == Init /\ [][Next]_vars

----------------------------------------------------------------------------
(* Properties *)

\* The program on the CPU is the one started last of those that have not
\* ended: whatever the nesting, a program that ends resumes the one whose EXEC
\* started it, and the outermost one resumes the kernel.
LastStartedRuns == cpu = IF live = << >> THEN Kernel ELSE Top(live)

Apart(r, s) == r.base + r.size <= s.base \/ s.base + s.size <= r.base

\* No two programs share memory: a new slot or block overlaps no slot or block
\* of the caller or of a program suspended below it, and lies in the RAM there
\* is, also after any sequence of returns that took memory back.
MemorySeparate ==
    /\ \A r, s \in regions : r # s => Apart(r, s)
    /\ \A r \in regions : r.base + r.size <= RamParas

\* The end of a program takes back all memory handed out since it was started,
\* and none of its parent's.
ExitReclaims ==
    [][Exit => /\ next_seg' = Top(live)
               /\ \A r \in regions' : r.base + r.size <= next_seg']_vars
=============================================================================
