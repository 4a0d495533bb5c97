-------------------------------- MODULE Xfer --------------------------------
(***************************************************************************)
(* XFER.COM (src/apps/xfer.asm), the agent at HarvaC's end of a serial     *)
(* line.  It obeys one frame at a time: commands in its main loop, and     *)
(* while it streams a file or a directory to the host, whatever frame      *)
(* comes next as the acknowledgement of the one it sent (wait_ack).        *)
(*                                                                         *)
(* Everything between two calls of read_frame is one action.  A frame has  *)
(* a type, a sequence number, a body and the verdict of its CRC-16, which  *)
(* tells every damaged frame.  The whole-file CRC-32 is the sequence of    *)
(* the chunks that went into it, so that two contents never have the same  *)
(* one.  A file is a sequence of chunks; the kernel's calls answer as      *)
(* module Fat16 and src/src/kernel/syscalls.c do.  Paths are a directory   *)
(* part and a name; directories are one level deep.                        *)
(***************************************************************************)
EXTENDS Integers, FiniteSets, Sequences, SequencesExt

CONSTANTS
    Names,      \* names of files
    Root,       \* the root directory
    SubDirs,    \* names of directories that may exist in the root
    Chunks,     \* contents of a block of CHUNK bytes
    None,       \* -1, an absent file, an empty payload
    Gone,       \* v_fd after the file behind it was deleted
    SeqLimit,     \* sequence numbers are modulo 256
    MaxOpen,    \* MAX_OPEN_FILES, kernel handles
    Space,      \* clusters of the volume; a chunk fills one
    Stored,     \* disk, when the agent is first started
    Risky       \* what this instance's users do, see RiskyUses

\* "quit in stream": the agent is told to quit (Q, or QUIT) while it streams.
\* "beyond end":     PREAD or PWRITE with an offset behind the end of the file.
\* "numbers meet":   the host gives a command the number of an older frame that
\*                   is still under way.
RiskyUses == {"quit in stream", "beyond end", "numbers meet"}

ASSUME XferAssumption == /\ SeqLimit \in Nat \ {0} /\ MaxOpen \in Nat /\ Space \in Nat
                         /\ Risky \subseteq RiskyUses /\ Root \notin SubDirs
                         /\ IsFiniteSet(Names) /\ IsFiniteSet(SubDirs)

T_OPEN    == 1
T_DATA    == 2
T_CLOSE   == 3
T_QUIT    == 4
T_GET     == 5
T_MKDIR   == 6
T_LIST    == 7
T_ENTRY   == 8
T_MSG     == 9
T_DEL     == 10
T_RMD     == 11
T_REN     == 12
T_PREAD   == 13
T_PWRITE  == 14
T_RAW     == 15
T_VERSION == 16
T_ACK     == 16
T_NAK     == 17

VARIABLES
    pc,       \* where the agent waits for a frame: "main", in a "get" or "list"
              \* stream, for the answer to its "last" CLOSE; or it is "off"
    fd,       \* v_fd: None, Gone, or the directory and name of the file open
              \* for writing and the chunks written to it
    wcrc,     \* v_wcrc
    rfd,      \* v_rfd in serve_get, None when it is not open
    rcrc,     \* v_rcrc; its length is also the position of v_rfd and v_dseq
    todo,     \* serve_list: entries READDIR has not returned yet
    saved,    \* v_cwdsave while v_didcd is 1, else None
    disk,     \* disk[d][n]: content of file n in directory d, or None
    dirs,     \* the subdirectories that exist
    cwd,      \* the kernel's current directory
    held,     \* kernel handles in use
    dropped,  \* observed: has T_OPEN when a DATA since the last OPEN did not
              \* reach the file, T_PWRITE when the chunk of the last PWRITE
              \* answered by 0 is not at its offset
    down,     \* frames from the host
    up        \* frames to the host

agentVars == <<pc, fd, wcrc, rfd, rcrc, todo, saved>>
kernelVars == <<disk, dirs, cwd, held>>
xferVars == <<agentVars, kernelVars, dropped, down, up>>

Directories == {Root} \cup SubDirs
Frame(t, s, b) == [type |-> t, seq |-> s, body |-> b, ok |-> TRUE]
Count(b) == IF b THEN 1 ELSE 0

\* The marks None and Gone are no contents, directories or open files.
ASSUME MarksAssumption ==
    /\ None # Gone /\ None \notin Seq(Chunks) \cup Directories
    /\ {None, Gone} \cap (Directories \X Names \X Nat) = {}
    /\ None \notin Directories \X Names
    /\ Stored \in [Directories -> [Names -> {None} \cup Seq(Chunks)]]

\* The directory a directory part leads to from the current one, or None.
Resolve(part) == IF part = None THEN cwd
                 ELSE IF part = Root \/ (part \in dirs /\ cwd = Root) THEN part
                 ELSE None

Content(part, name) == IF Resolve(part) = None THEN None ELSE disk[Resolve(part)][name]

WritesTo(p) == fd \notin {None, Gone} /\ <<fd[1], fd[2]>> = p

\* Clusters in use: a directory and an empty file have one.
Clusters(c) == IF c = None THEN 0 ELSE IF c = <<>> THEN 1 ELSE Len(c)
StoredIn(d) == FoldFunction(LAMBDA c, n : n + Clusters(c), 0, disk[d])
Used == FoldFunction(+, Cardinality(dirs), [d \in Directories |-> StoredIn(d)])
Room == Used < Space

\* content with the chunk at position pos (from 0) written.
WriteAt(content, pos, chunk) ==
    IF pos < Len(content) THEN [content EXCEPT ![pos + 1] = chunk] ELSE Append(content, chunk)

\* A chunk that would make a file longer needs another cluster; the first one
\* came with the file.
Fits(content, pos) == pos < Len(content) \/ content = <<>> \/ Room

XferInit ==
    /\ pc = "main" /\ fd = None /\ wcrc = <<>>
    /\ rfd = None /\ rcrc = <<>> /\ todo = <<>> /\ saved = None
    /\ disk = Stored
    /\ dirs = {d \in SubDirs : \E n \in Names : Stored[d][n] # None}
    /\ cwd = Root /\ held = 0 /\ dropped = {}
    /\ down = <<>> /\ up = <<>>

---------------------------------------------------------------------------
(* read_frame and the dispatch of the main loop.                           *)

\* A frame whose CRC-16 is right arrives in the main loop.
Arrives(types) == /\ pc = "main" /\ down # <<>>
                  /\ Head(down).ok /\ Head(down).type \in types
                  /\ down' = Tail(down)

Answer(frames) == up' = up \o frames
Ack(body) == Frame(T_ACK, Head(down).seq, body)

Nak == /\ pc = "main" /\ down # <<>> /\ ~Head(down).ok
       /\ down' = Tail(down)
       /\ Answer(<<Frame(T_NAK, Head(down).seq, None)>>)
       /\ UNCHANGED <<agentVars, kernelVars, dropped>>

\* Kernel handles in use once do_close has given v_fd's back, if there is one.
ReleasedNever == held
Released == held - Count(fd # None)

Marked(job, missed) == IF missed THEN dropped \cup {job} ELSE dropped \ {job}

\* .h_open: SYSCALL_CREATE, which refuses a name that exists and needs a cluster.
Open ==
    LET part == Head(down).body[1]  name == Head(down).body[2]
        made == /\ Resolve(part) # None /\ Content(part, name) = None
                /\ Released < MaxOpen /\ Room
    IN /\ Arrives({T_OPEN})
       /\ disk' = IF made THEN [disk EXCEPT ![Resolve(part)][name] = <<>>] ELSE disk
       /\ fd' = IF made THEN <<Resolve(part), name, 0>> ELSE None
       /\ held' = Released + Count(made)
       /\ wcrc' = <<>> /\ dropped' = Marked(T_OPEN, ~made)
       /\ Answer(<<Ack(None)>>)
       /\ UNCHANGED <<pc, rfd, rcrc, todo, saved, dirs, cwd>>

\* .h_data: the result of the write and the sequence number are not looked at.
Data ==
    LET chunk == Head(down).body
        lands == fd \notin {None, Gone} /\ Fits(disk[fd[1]][fd[2]], fd[3])
    IN /\ Arrives({T_DATA})
       /\ disk' = IF lands
                  THEN [disk EXCEPT ![fd[1]][fd[2]] = WriteAt(@, fd[3], chunk)] ELSE disk
       /\ fd' = IF lands THEN <<fd[1], fd[2], fd[3] + 1>> ELSE fd
       /\ dropped' = IF lands THEN dropped ELSE Marked(T_OPEN, TRUE)
       /\ wcrc' = Append(wcrc, chunk)
       /\ Answer(<<Ack(None)>>)
       /\ UNCHANGED <<pc, rfd, rcrc, todo, saved, dirs, cwd, held>>

\* .h_close: the status is 0 when the host's CRC-32 is the accumulated one.
VerdictUnread(crc) == 0
Verdict(crc) == Count(crc # wcrc)

Close ==
    /\ Arrives({T_CLOSE})
    /\ held' = Released
    /\ fd' = None
    /\ Answer(<<Ack(Verdict(Head(down).body))>>)
    /\ UNCHANGED <<pc, wcrc, rfd, rcrc, todo, saved, disk, dirs, cwd, dropped>>

\* .h_msg, .h_raw, an unknown type, and a T_NAK that comes too late.
Other == /\ Arrives({T_MSG, T_RAW, T_ENTRY, T_NAK})
         /\ Answer(<<Ack(None)>>)
         /\ UNCHANGED <<agentVars, kernelVars, dropped>>

\* .h_version; T_VERSION is also the number of T_ACK, so that an
\* acknowledgement that arrives outside of a stream is answered as one.
Version == /\ Arrives({T_VERSION})
           /\ Answer(<<Ack(1)>>)
           /\ UNCHANGED <<agentVars, kernelVars, dropped>>

---------------------------------------------------------------------------
(* Commands on names.                                                      *)

\* .v2_ack_ax: 0 when the kernel did it.
StatusGood(done) == 0
Status(done) == Count(~done)

\* .h_mkdir: acknowledged whatever the kernel says.
Mkdir == LET d == Head(down).body
         IN /\ Arrives({T_MKDIR})
            /\ dirs' = IF cwd = Root /\ Room THEN dirs \cup {d} ELSE dirs
            /\ Answer(<<Ack(None)>>)
            /\ UNCHANGED <<agentVars, disk, cwd, held, dropped>>

\* .h_rmd: only an empty directory goes.
Rmd == LET d == Head(down).body
           done == cwd = Root /\ d \in dirs /\ \A n \in Names : disk[d][n] = None
       IN /\ Arrives({T_RMD})
          /\ dirs' = IF done THEN dirs \ {d} ELSE dirs
          /\ Answer(<<Ack(Status(done))>>)
          /\ UNCHANGED <<agentVars, disk, cwd, held, dropped>>

\* .h_del: the kernel does not know that v_fd may be open on the file.
Del == LET part == Head(down).body[1]  name == Head(down).body[2]
           done == Content(part, name) # None
       IN /\ Arrives({T_DEL})
          /\ disk' = IF done THEN [disk EXCEPT ![Resolve(part)][name] = None] ELSE disk
          /\ fd' = IF done /\ WritesTo(<<Resolve(part), name>>) THEN Gone ELSE fd
          /\ Answer(<<Ack(Status(done))>>)
          /\ UNCHANGED <<pc, wcrc, rfd, rcrc, todo, saved, dirs, cwd, held, dropped>>

\* .h_ren: old and new name in the current directory.  v_fd keeps its slot.
Ren == LET old == Head(down).body[1]  new == Head(down).body[2]
           done == disk[cwd][old] # None /\ disk[cwd][new] = None
       IN /\ Arrives({T_REN})
          /\ disk' = IF done THEN [disk EXCEPT ![cwd] =
                            [@ EXCEPT ![new] = disk[cwd][old], ![old] = None]] ELSE disk
          /\ fd' = IF done /\ WritesTo(<<cwd, old>>) THEN <<cwd, new, fd[3]>> ELSE fd
          /\ Answer(<<Ack(Status(done))>>)
          /\ UNCHANGED <<pc, wcrc, rfd, rcrc, todo, saved, dirs, cwd, held, dropped>>

\* do_lseek: SYSCALL_SEEK refuses an offset behind the end, nobody looks at
\* the result, and the position stays 0.
SeekTo(content, off) == IF off > Len(content) THEN 0 ELSE off

\* .h_pread: path_enter, open, path_leave, seek, read at most CHUNK, close.
Pread ==
    LET part == Head(down).body[1]  name == Head(down).body[2]  off == Head(down).body[3]
        content == Content(part, name)
        reads == content # None /\ held < MaxOpen
    IN /\ Arrives({T_PREAD})
       /\ Answer(<<Ack(IF reads /\ SeekTo(content, off) < Len(content)
                       THEN content[SeekTo(content, off) + 1] ELSE None)>>)
       /\ UNCHANGED <<agentVars, kernelVars, dropped>>

\* .h_pwrite: a missing file is made only when the directory entered is the
\* root and there is a cluster for it.  The results of the seek and of the write
\* are not looked at: once the file is open the answer is 0.
Pwrite ==
    LET part == Head(down).body[1]  name == Head(down).body[2]
        off == Head(down).body[3]   chunk == Head(down).body[4]
        where == Resolve(part)
        found == Content(part, name)
        opens == /\ where # None /\ held < MaxOpen
                 /\ found # None \/ (where = Root /\ Room)
        content == IF found = None THEN <<>> ELSE found
        pos == SeekTo(content, off)
        writes == Fits(content, pos)
    IN /\ Arrives({T_PWRITE})
       /\ disk' = IF ~opens THEN disk
                  ELSE [disk EXCEPT ![where][name] =
                          IF writes THEN WriteAt(content, pos, chunk) ELSE content]
       /\ dropped' = IF opens THEN Marked(T_PWRITE, ~(writes /\ pos = off)) ELSE dropped
       /\ Answer(<<Ack(Status(opens))>>)
       /\ UNCHANGED <<agentVars, dirs, cwd, held>>

---------------------------------------------------------------------------
(* serve_get.                                                              *)

GetTurnShort(p, crc) ==
    LET content == disk[p[1]][p[2]]
        seq == Len(crc) % SeqLimit
        more == Len(crc) + 1 < Len(content)
    IN [frame |-> IF more THEN Frame(T_DATA, seq, content[Len(crc) + 1])
                          ELSE Frame(T_CLOSE, seq, crc),
        pc    |-> IF more THEN "get" ELSE "last",
        rfd   |-> IF more THEN p ELSE None,
        rcrc  |-> IF more THEN Append(crc, content[Len(crc) + 1]) ELSE <<>>]

\* One turn of serve_get's loop on the file p after the chunks of crc: the
\* next DATA, or CLOSE with the CRC-32 of all of them.
GetTurn(p, crc) ==
    LET content == disk[p[1]][p[2]]
        seq == Len(crc) % SeqLimit
        more == Len(crc) < Len(content)
    IN [frame |-> IF more THEN Frame(T_DATA, seq, content[Len(crc) + 1])
                          ELSE Frame(T_CLOSE, seq, crc),
        pc    |-> IF more THEN "get" ELSE "last",
        rfd   |-> IF more THEN p ELSE None,
        rcrc  |-> IF more THEN Append(crc, content[Len(crc) + 1]) ELSE <<>>]

\* .h_get: a file that is not there is answered as an empty one.
Get ==
    LET part == Head(down).body[1]  name == Head(down).body[2]
        opens == Content(part, name) # None /\ held < MaxOpen
        turn == IF opens THEN GetTurn(<<Resolve(part), name>>, <<>>)
                ELSE [frame |-> Frame(T_CLOSE, 0, <<>>), pc |-> "last",
                      rfd |-> None, rcrc |-> <<>>]
    IN /\ Arrives({T_GET})
       /\ pc' = turn.pc /\ rfd' = turn.rfd /\ rcrc' = turn.rcrc
       /\ held' = held + Count(turn.rfd # None)
       /\ Answer(<<Ack(None), turn.frame>>)
       /\ UNCHANGED <<fd, wcrc, todo, saved, disk, dirs, cwd, dropped>>

\* wait_ack takes any frame for the acknowledgement, its CRC unseen.  The type
\* of a damaged one may read as QUIT: that is "quit in stream".
AckedByAckOnly(where) == /\ pc = where /\ down # <<>>
                         /\ Head(down).ok /\ Head(down).type = T_ACK
                         /\ down' = Tail(down)
Acked(where) == /\ pc = where /\ down # <<>>
                /\ (Head(down).ok => Head(down).type # T_QUIT)
                /\ down' = Tail(down)

GetNext ==
    LET turn == GetTurn(rfd, rcrc)
    IN /\ Acked("get")
       /\ pc' = turn.pc /\ rfd' = turn.rfd /\ rcrc' = turn.rcrc
       /\ held' = held - Count(turn.rfd = None)
       /\ Answer(<<turn.frame>>)
       /\ UNCHANGED <<fd, wcrc, todo, saved, disk, dirs, cwd, dropped>>

---------------------------------------------------------------------------
(* serve_list.                                                             *)

EntriesOf(d) == {n \in Names : disk[d][n] # None} \cup (IF d = Root THEN dirs ELSE {})

\* One turn of .sl_loop with the entries in s still to come.  After the last
\* the directory is closed and the current directory put back.
ListTurn(s) ==
    IF s # <<>> THEN [frame |-> Frame(T_ENTRY, 0, Head(s)), pc |-> "list", todo |-> Tail(s)]
    ELSE [frame |-> Frame(T_CLOSE, 0, None), pc |-> "last", todo |-> <<>>]

\* .h_list: the agent changes to the directory for as long as it lists it.
List ==
    LET part == Head(down).body
        d == Resolve(part)
        turn == ListTurn(IF d = None THEN <<>> ELSE SetToSeq(EntriesOf(d)))
        away == part # None /\ d # None /\ turn.pc = "list"
    IN /\ Arrives({T_LIST})
       /\ pc' = turn.pc /\ todo' = turn.todo
       /\ cwd' = IF away THEN d ELSE cwd
       /\ saved' = IF away THEN cwd ELSE None
       /\ Answer(<<Ack(None), turn.frame>>)
       /\ UNCHANGED <<fd, wcrc, rfd, rcrc, disk, dirs, held, dropped>>

\* .sl_done: the current directory once the listing is over.
CwdRestored(over) == IF over /\ saved # None THEN saved ELSE cwd

ListNext ==
    LET turn == ListTurn(todo)
        over == turn.pc = "last"
    IN /\ Acked("list")
       /\ pc' = turn.pc /\ todo' = turn.todo
       /\ cwd' = CwdRestored(over)
       /\ saved' = IF over THEN None ELSE saved
       /\ Answer(<<turn.frame>>)
       /\ UNCHANGED <<fd, wcrc, rfd, rcrc, disk, dirs, held, dropped>>

\* The frame after a stream's CLOSE ends the command, whatever it is.
LastAcked == /\ Acked("last")
             /\ pc' = "main"
             /\ UNCHANGED <<fd, wcrc, rfd, rcrc, todo, saved, kernelVars, dropped, up>>

---------------------------------------------------------------------------
(* The end of the program.                                                 *)

\* do_quit closes v_fd; the program's memory is gone, the kernel's state stays.
DoQuit == /\ pc' = "off" /\ fd' = None
          /\ held' = Released
          /\ wcrc' = <<>> /\ rfd' = None /\ rcrc' = <<>> /\ todo' = <<>> /\ saved' = None
          /\ UNCHANGED <<disk, dirs, cwd, dropped>>

MayQuit == pc = "main" \/ (pc # "off" /\ "quit in stream" \in Risky)

\* QUIT is acknowledged in the main loop and not in wait_ack.
Quit == /\ MayQuit /\ down # <<>>
        /\ IF Head(down).ok THEN Head(down).type = T_QUIT ELSE pc # "main"
        /\ down' = Tail(down)
        /\ IF pc = "main" THEN Answer(<<Ack(None)>>) ELSE UNCHANGED up
        /\ DoQuit

\* The user presses Q while uart_getc waits.
KeyQ == MayQuit /\ DoQuit /\ UNCHANGED <<down, up>>

\* The user starts XFER again; uart_init clears the FIFOs.
Start == /\ pc = "off" /\ pc' = "main"
         /\ down' = <<>>
         /\ UNCHANGED <<fd, wcrc, rfd, rcrc, todo, saved, kernelVars, dropped, up>>

\* The steps the agent takes by itself once a frame is there.
AgentStep == \/ Nak \/ Open \/ Data \/ Close \/ Other \/ Version
             \/ Mkdir \/ Rmd \/ Del \/ Ren \/ Pread \/ Pwrite
             \/ Get \/ GetNext \/ List \/ ListNext \/ LastAcked \/ Quit

UserStep == KeyQ \/ Start
=============================================================================
