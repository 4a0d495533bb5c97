------------------------------- MODULE Shell -------------------------------
(***************************************************************************)
(* SHELL.COM (src/apps/shell.c) on the kernel of OpenFiles: lines          *)
(* "cmd > file" and "cmd | cmd > file", batch files, and the programs the  *)
(* stages run, which may be SHELL.COM again.                               *)
(*                                                                         *)
(* One program runs at a time.  What the shell does between two programs   *)
(* is one action: no program runs in between.  A built-in command, or a    *)
(* name that cannot be executed, counts as a program that ends at once.    *)
(*                                                                         *)
(* Programs write to handles they opened, close them or not, delete no     *)
(* file they have open and keep to their own files.                        *)
(***************************************************************************)
EXTENDS OpenFiles

CONSTANTS
    Targets,    \* files lines name behind ">"
    Work,       \* files of the programs
    MaxStages,  \* bound: stages of a line (the shell takes 4)
    MaxDepth,   \* bound: shells one above the other
    MaxBytes,   \* bound: bytes read at a time
    Risky       \* what this instance's users do, see RiskyUses

\* "redirect twice": a shell whose own output is redirected runs a line with ">".
\* "exit redirected": a shell that another shell started gets a line "exit > file".
RiskyUses == {"redirect twice", "exit redirected"}

Pipes  == <<"PIPE0", "PIPE1", "PIPE2">>
Script == "DEMO.BAT"

ASSUME ShellAssumption ==
    /\ Paths = Targets \cup Work \cup {Script} \cup {Pipes[i] : i \in 1 .. 3}
    /\ MaxStages \in 1 .. 4
    /\ MaxDepth \in Nat \ {0} /\ MaxBytes \in Nat
    /\ Risky \subseteq RiskyUses

\* Programs and users have their own files, and none of the shell's pipes.
ASSUME FilesAssumption ==
    /\ Work \cap Targets = {}
    /\ \A i \in 1 .. 3 : Pipes[i] \notin Work \cup Targets

VARIABLES
    k,        \* the kernel's state
    shells,   \* the shells that have not ended, outermost first
    mine,     \* slots the running program opened
    leaked,   \* slots programs left open (observation only)
    event     \* last exchange of the outermost shell's line (observation only)

vars == <<k, shells, mine, leaked, event>>

\* A shell: the stage of the line it has running (0 of 0 when it takes the next
\* line), the file named behind ">", the handles wh or rdh, and srh, of the
\* stage, and the handle of its batch file.
ShellState == [stage : 0 .. MaxStages, of : 0 .. MaxStages, target : Targets \cup {None},
               out : Handles, in : Handles, bat : Handles]

Ready(bat) == [stage |-> 0, of |-> 0, target |-> None, out |-> None, in |-> None,
               bat |-> bat]

Init ==
    /\ k = Started({Script})
    /\ shells = <<Ready(None)>>
    /\ mine = {} /\ leaked = {}
    /\ event = << >>

Main     == shells[1]
Depth    == Len(shells)
Shell    == shells[Depth]
AtPrompt == Shell.stage = 0
Running  == ~AtPrompt
Outer    == SubSeq(shells, 1, Depth - 1)

\* Where the redirect of the innermost of the shells s that has one leads.
Innermost(h) ==
    LET set == {i \in DOMAIN h : h[i] # None}
    IN  IF set = {} THEN None ELSE h[CHOOSE i \in set : \A j \in set : j <= i]
OuterOut(s) == Innermost([i \in 1 .. Len(s) |-> s[i].out])
OuterIn(s)  == Innermost([i \in 1 .. Len(s) |-> s[i].in])

----------------------------------------------------------------------------
(* The shell *)

\* Users name no file that is open, and a shell whose stage runs in a pipe
\* starts none of its own.
MayName(t)  == t = None \/ /\ \A s \in InUse(k) : k.open[s].path # t
                           /\ OuterOut(Outer) = None \/ "redirect twice" \in Risky
MayPipe(n)  == n = 1 \/ /\ OuterOut(Outer) = None /\ OuterIn(Outer) = None
                        /\ \A i \in 1 .. Len(Outer) : Outer[i].of = 1

\* DELETE, CREATE and SET_STDOUT of the file a stage writes to.
OutHandle(q, p, room)  == IF p = None THEN None ELSE CreateResult(Deleted(q, p), p, room)
OutDirected(q, p, room) ==
    IF p = None THEN q
    ELSE LET made == Created(Deleted(q, p), p, room)
             h    == OutHandle(q, p, room)
         IN  IF h = None THEN made ELSE WithStdout(made, h)

\* OPEN and SET_STDIN of the file the previous stage wrote.
InHandle(q, i)   == IF i = 1 THEN None ELSE OpenResult(q, Pipes[i - 1])
InDirected(q, i) == IF InHandle(q, i) = None THEN q
                    ELSE WithStdin(Opened(q, Pipes[i - 1]), InHandle(q, i))

\* MUTANT of SinkOf: all pipes of a line use the same file.
SinkOfOne(i, n, t) == IF i < n THEN Pipes[1] ELSE t

\* What stage i of a line of n stages writes to ...
SinkOf(i, n, t) == IF i < n THEN Pipes[i] ELSE t

\* ... and its start in kernel state q.
Staged(q, i, n, t, room) == InDirected(OutDirected(q, SinkOf(i, n, t), room), i)
ShellAt(q, i, n, t, room, bat) ==
    [stage |-> i, of |-> n, target |-> t, bat |-> bat,
     out |-> OutHandle(q, SinkOf(i, n, t), room),
     in  |-> InHandle(OutDirected(q, SinkOf(i, n, t), room), i)]

\* MUTANT of Undirected: only the file is closed.
UndirectedNot(q, s) ==
    IF s.out = None THEN q ELSE Closed(q, s.out)

\* SET_STDOUT and CLOSE after a stage.
Undirected(q, s) ==
    IF s.out = None THEN q ELSE Closed(WithStdout(q, None), s.out)

\* MUTANT of Unfed: the handle on the pipe is not closed.
UnfedOpen(q, s) ==
    IF s.in = None THEN q ELSE Deleted(WithStdin(q, None), Pipes[s.stage - 1])

\* SET_STDIN, CLOSE and DELETE after a stage.
Unfed(q, s) ==
    IF s.in = None THEN q
    ELSE Deleted(Closed(WithStdin(q, None), s.in), Pipes[s.stage - 1])

\* The program that shell s in stack below was waiting for has ended.
ChildEnded(q, below, s, room) ==
    LET q1 == Unfed(Undirected(q, s), s)
        i  == s.stage + 1
    IN  IF s.stage < s.of
        THEN /\ k' = Staged(q1, i, s.of, s.target, room)
             /\ shells' = Append(below, ShellAt(q1, i, s.of, s.target, room, s.bat))
        ELSE k' = q1 /\ shells' = Append(below, Ready(s.bat))

\* A line of n stages, from the keyboard or the batch file.
Line(n, t) ==
    /\ AtPrompt /\ MayName(t) /\ MayPipe(n)
    /\ \E room \in BOOLEAN :
         /\ n = 1 /\ t # None => OutHandle(k, t, room) # None
         /\ k' = Staged(k, 1, n, t, room)
         /\ shells' = Append(Outer, ShellAt(k, 1, n, t, room, Shell.bat))
    /\ UNCHANGED <<mine, leaked, event>>

\* "Cannot create redirect file": an old file of that name is gone.
LineRefused(t) ==
    /\ AtPrompt /\ t # None /\ MayName(t)
    /\ \E room \in BOOLEAN : OutHandle(k, t, room) = None
    /\ k' = Deleted(k, t)
    /\ UNCHANGED <<shells, mine, leaked, event>>

\* A line that starts a batch file: the old one is closed after the new one is
\* opened, and a redirect lasts only as long as that.
Batch(t) ==
    /\ AtPrompt /\ MayName(t)
    /\ \E room \in BOOLEAN :
         LET q == OutDirected(k, t, room)
             w == OutHandle(k, t, room)
             h == OpenResult(q, Script)
         IN  /\ t # None => w # None
             /\ LET opened == Opened(q, Script)
                    closed == IF h # None /\ Shell.bat # None
                              THEN Closed(opened, Shell.bat) ELSE opened
                IN  k' = Undirected(closed, [Shell EXCEPT !.out = w])
             /\ shells' = [shells EXCEPT ![Depth].bat = IF h = None THEN @ ELSE h]
    /\ UNCHANGED <<mine, leaked, event>>

BatchEnd ==
    /\ AtPrompt /\ Shell.bat # None
    /\ k' = Closed(k, Shell.bat)
    /\ shells' = [shells EXCEPT ![Depth].bat = None]
    /\ UNCHANGED <<mine, leaked, event>>

\* "exit", or the end of the line a shell was started with.  The outermost
\* shell is started again by the kernel.
ExitShell(t) ==
    /\ AtPrompt /\ MayName(t)
    /\ t # None => Depth = 1 \/ "exit redirected" \in Risky
    /\ \E room \in BOOLEAN :
         LET q0 == OutDirected(k, t, room)
             q  == IF Shell.bat = None THEN q0 ELSE Closed(q0, Shell.bat)
         IN  /\ t # None => OutHandle(k, t, room) # None
             /\ IF Depth = 1
                THEN k' = Finalized(q) /\ shells' = <<Ready(None)>>
                ELSE \E room2 \in BOOLEAN :
                       ChildEnded(q, SubSeq(shells, 1, Depth - 2), shells[Depth - 1], room2)
    /\ UNCHANGED <<mine, leaked, event>>

----------------------------------------------------------------------------
(* The running program *)

\* What the program reads is the input of the outermost shell's stage.
AtOutermost == \A i \in 2 .. Depth : shells[i].in = None

\* A byte to the console, to the file of the outermost shell's stage, or to that
\* of a shell in between.
PutEvent(b) == IF event = <<"put", b>> THEN <<"put again", b>> ELSE <<"put", b>>

Put(b) ==
    /\ Running
    /\ k' = OutByte(k, b)
    /\ event' = IF ~Redirected(k, k.redirect) THEN <<"console", b>>
                ELSE IF k.redirect = Main.out THEN PutEvent(b) ELSE event
    /\ UNCHANGED <<shells, mine, leaked>>

Get(n) ==
    /\ Running
    /\ IF Redirected(k, k.stdin)
       THEN /\ k' = AfterRead(k, k.stdin, n)
            /\ event' = IF AtOutermost THEN <<"read", Taken(k, k.stdin, n)>> ELSE event
       ELSE /\ event' = <<"keyboard">>
            /\ UNCHANGED k
    /\ UNCHANGED <<shells, mine, leaked>>

Took(q) == mine \cup (InUse(q) \ InUse(k))

OpenWork(p) ==
    /\ Running
    /\ k' = Opened(k, p) /\ mine' = Took(k')
    /\ UNCHANGED <<shells, leaked, event>>

OpenDevice ==
    /\ Running
    /\ k' = DeviceOpened(k) /\ mine' = Took(k')
    /\ UNCHANGED <<shells, leaked, event>>

CreateWork(p) ==
    /\ Running
    /\ k' = Created(k, p, TRUE) /\ mine' = Took(k')
    /\ UNCHANGED <<shells, leaked, event>>

DeleteWork(p) ==
    /\ Running /\ \A s \in mine : k.open[s].path # p
    /\ k' = Deleted(k, p)
    /\ UNCHANGED <<shells, mine, leaked, event>>

WriteWork(s, b) ==
    /\ Running /\ s \in mine
    /\ k' = Written(k, s, b)
    /\ UNCHANGED <<shells, mine, leaked, event>>

CloseWork(s) ==
    /\ Running /\ s \in mine
    /\ k' = Closed(k, s) /\ mine' = mine \ {s}
    /\ UNCHANGED <<shells, leaked, event>>

\* EXEC of SHELL.COM, whose line or batch file is then what runs.
StartShell ==
    /\ Running /\ mine = {} /\ Depth < MaxDepth
    /\ shells' = Append(shells, Ready(None))
    /\ UNCHANGED <<k, mine, leaked, event>>

\* EXIT closes nothing.
Exit ==
    /\ Running
    /\ \E room \in BOOLEAN : ChildEnded(k, Outer, Shell, room)
    /\ leaked' = leaked \cup mine /\ mine' = {}
    /\ UNCHANGED event

Program ==
    \/ \E b \in Bytes : Put(b) \/ \E s \in mine : WriteWork(s, b)
    \/ \E n \in 1 .. MaxBytes : Get(n)
    \/ \E p \in Work : OpenWork(p) \/ CreateWork(p) \/ DeleteWork(p)
    \/ \E s \in mine : CloseWork(s)
    \/ OpenDevice \/ StartShell \/ Exit

Next ==
    \/ \E t \in Targets \cup {None} :
         \/ \E n \in 1 .. MaxStages : Line(n, t)
         \/ LineRefused(t) \/ Batch(t) \/ ExitShell(t)
    \/ BatchEnd
    \/ Program

Spec == Init /\ [][Next]_vars

----------------------------------------------------------------------------
(* Properties *)

\* Stdout leads where the innermost shell with a redirect has led it, and stdin
\* likewise, and the kernel still follows that: the slot is in use.
Directed ==
    /\ k.redirect = OuterOut(shells) /\ k.stdin = OuterIn(shells)
    /\ k.redirect # None => Redirected(k, k.redirect)
    /\ k.stdin # None => Redirected(k, k.stdin)

\* No line leaves a handle behind, however many stages it has and whatever
\* failed: the files open are those of lines and batch files under way, of the
\* running program, and those earlier programs have left open.
HandlesAccounted ==
    LET held == UNION {{shells[i].out, shells[i].in, shells[i].bat} : i \in 1 .. Depth}
    IN  InUse(k) = mine \cup leaked \cup (held \ {None})

\* A handle is a device's when it was opened as one.
KindsSound == \A s \in InUse(k) : (k.open[s].kind = "serial") = (k.open[s].path = None)

Kept    == Main.out # None
Fed     == Main.in # None

Lines == INSTANCE Streams WITH
           stage <- Main.stage, of <- Main.of,
           sink <- IF Kept THEN "kept" ELSE "console",
           source <- IF Fed THEN "previous" ELSE "keyboard",
           made <- IF Kept THEN k.content[SinkOf(Main.stage, Main.of, Main.target)] ELSE << >>,
           input <- IF Fed THEN Rest(k, Main.in) ELSE << >>,
           scarce <- leaked # {},
           full <- ~HasRoom(k)

\* A stage reads what the stage before it wrote, all of it and nothing else, and
\* a redirected stage's output is in its file and nothing else is, whatever
\* files programs open, leave open or delete meanwhile; a pipe can fail between
\* two stages only when programs have left files open, and a byte is lost only
\* when it comes while the volume is full, of which out_byte tells nobody.
ImplementsStreams == Lines!Spec
=============================================================================
