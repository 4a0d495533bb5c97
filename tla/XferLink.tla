------------------------------ MODULE XferLink ------------------------------
(***************************************************************************)
(* The agent of module Xfer, a line that loses and damages frames, and the *)
(* host.  The host's program (tools/serial-xfer/host.py) is not in the     *)
(* repository; it is modelled from what the repository says of it: stop    *)
(* and wait, a frame repeated when it is answered by NAK or not at all, a  *)
(* file sent again until its CLOSE is answered by 0, a listing or file     *)
(* asked for again until its stream ends well (src/docs/wiki/xfer.md,      *)
(* src/os-docs/XFER.md).  It ignores answers with another sequence number. *)
(***************************************************************************)
EXTENDS Xfer

CONSTANTS
    Jobs,       \* what the host's user asks for, see Request
    MaxFaults   \* bound: frames lost or damaged, waits given up too early,
                \* jobs abandoned

\* What the host may put into a frame: a directory part is None (a bare name)
\* or a directory, a name is one of a file.
Parts == Directories \cup {None}

JobBody(op) ==
    CASE op \in {T_OPEN, T_GET, T_DEL} -> Parts \X Names
      [] op = T_LIST -> Parts
      [] op \in {T_MKDIR, T_RMD} -> SubDirs
      [] op = T_REN -> Names \X Names
      [] op = T_PREAD -> Parts \X Names \X Nat
      [] op = T_PWRITE -> Parts \X Names \X Nat \X Chunks
      [] OTHER -> {None}

Commands == {T_OPEN, T_GET, T_LIST, T_DEL, T_MKDIR, T_RMD, T_REN, T_PREAD, T_PWRITE, T_QUIT}

ASSUME JobsAssumption ==
    \A job \in Jobs : /\ job.op \in Commands /\ job.body \in JobBody(job.op)
                      /\ job.op = T_OPEN => job.content \in Seq(Chunks)

VARIABLES
    host,       \* [phase, job, step, seq, got, hit]
    result,     \* [job, value, hit] of the last job, when it ended well
    faults

linkVars == <<host, result, faults>>
vars == <<xferVars, linkVars>>

\* The k-th frame of a job; only an upload has more than one.
Request(job, k, seq) ==
    IF job.op = T_OPEN
    THEN IF k = 0 THEN Frame(T_OPEN, seq, job.body)
         ELSE IF k <= Len(job.content) THEN Frame(T_DATA, seq, job.content[k])
         ELSE Frame(T_CLOSE, seq, job.content)
    ELSE Frame(job.op, seq, job.body)

Resting == [phase |-> "idle", job |-> None, step |-> 0, seq |-> 0,
            got |-> <<>>, hit |-> FALSE]

LinkInit == /\ XferInit
            /\ host = Resting
            /\ result = None
            /\ faults = 0

\* The least number that no frame under way carries: with 256 of them and stop
\* and wait the model's few stand for it.  "numbers meet" takes any.
UnderWay == {down[i].seq : i \in DOMAIN down} \cup {up[i].seq : i \in DOMAIN up}
NextSeqs == IF "numbers meet" \in Risky THEN 0 .. SeqLimit - 1
            ELSE {s \in 0 .. SeqLimit - 1 : s \notin UnderWay /\ 0 .. s - 1 \subseteq UnderWay}

\* The host sends the k-th frame of a job for the first time, after the frames
\* already on the line.
Begin(job, k, line) ==
    \E seq \in NextSeqs :
        /\ host' = [host EXCEPT !.phase = "reply", !.job = job, !.step = k, !.seq = seq,
                                !.got = <<>>, !.hit = IF k = 0 THEN FALSE ELSE @]
        /\ down' = Append(line, Request(job, k, seq))

\* The directory a directory part names for the host, or None: the agent
\* changes its own directory only while it lists.
Directory(part) == IF part \in dirs THEN part
                   ELSE IF part \in {None, Root} THEN Root ELSE None

\* The content of the file a job is about, or None.
FileOf(job) == LET d == Directory(job.body[1])
               IN IF d = None THEN None ELSE disk[d][job.body[2]]

HostStart(job) ==
    /\ host.phase = "idle"
    /\ job.op = T_QUIT => ("quit in stream" \in Risky \/ (pc = "main" /\ down = <<>>))
    /\ job.op = T_PWRITE => fd = None      \* one handle on a file, see Fat16
    /\ job.op \in {T_PREAD, T_PWRITE} /\ "beyond end" \notin Risky =>
          job.body[3] <= IF FileOf(job) = None THEN 0 ELSE Len(FileOf(job))
    /\ Begin(job, 0, down)
    /\ result' = None
    /\ UNCHANGED <<agentVars, kernelVars, dropped, up, faults>>

\* Only answers that promise something are remembered.
Ends(value) == /\ host' = Resting
               /\ result' = IF host.job.op \in {T_OPEN, T_GET, T_LIST} \/ value = 0
                            THEN [job |-> host.job, value |-> value, hit |-> host.hit]
                            ELSE None

\* The answer to the frame the host waits on.
Replied(b) ==
    LET job == host.job
        last == Len(job.content) + 1
    IN IF job.op = T_OPEN /\ host.step < last
       THEN Begin(job, host.step + 1, down) /\ UNCHANGED result
       ELSE IF job.op = T_OPEN /\ b # 0
       THEN Begin(job, 0, down) /\ UNCHANGED result
       ELSE IF job.op \in {T_GET, T_LIST}
       THEN host' = [host EXCEPT !.phase = "stream"] /\ UNCHANGED <<down, result>>
       ELSE Ends(b) /\ UNCHANGED down

Resend == down' = Append(down, Request(host.job, host.step, host.seq))

\* Remembered for listings, which have no CRC-32.
Hit == host' = [host EXCEPT !.hit = host.phase # "idle" /\ host.job.op = T_LIST]

\* A frame of a stream; the host answers it with the frame's number.
Streamed(f) ==
    IF ~f.ok
    THEN /\ down' = Append(down, Frame(T_NAK, f.seq, None))
         /\ Hit /\ UNCHANGED result
    ELSE IF f.type \in {T_DATA, T_ENTRY}
    THEN /\ down' = Append(down, Frame(T_ACK, f.seq, None))
         /\ host' = [host EXCEPT !.got = Append(@, f.body)] /\ UNCHANGED result
    ELSE IF f.type = T_CLOSE
    THEN LET ack == Append(down, Frame(T_ACK, f.seq, None))
         IN IF host.job.op = T_LIST \/ f.body = host.got
            THEN Ends(host.got) /\ down' = ack
            ELSE Begin(host.job, 0, ack) /\ UNCHANGED result
    ELSE UNCHANGED <<down, host, result>>

HostReceive ==
    LET f == Head(up)
        mine == f.ok /\ f.seq = host.seq
    IN /\ up # <<>> /\ up' = Tail(up)
       /\ IF host.phase = "reply" /\ mine /\ f.type = T_ACK THEN Replied(f.body)
          ELSE IF host.phase = "reply" /\ mine /\ f.type = T_NAK
          THEN Resend /\ UNCHANGED <<host, result>>
          ELSE IF host.phase = "stream" THEN Streamed(f)
          ELSE UNCHANGED <<down, host, result>>
       /\ UNCHANGED <<agentVars, kernelVars, dropped, faults>>

\* The host waits no longer: for an answer, it repeats the frame; for the rest
\* of a stream, it asks for all of it again.
GiveUpWait ==
    /\ host.phase \in {"reply", "stream"}
    /\ IF host.phase = "reply" THEN Resend /\ UNCHANGED host ELSE Begin(host.job, 0, down)
    /\ UNCHANGED <<agentVars, kernelVars, dropped, up, result>>

\* Nothing is under way any more, so nothing will come.
Timeout == down = <<>> /\ up = <<>> /\ GiveUpWait /\ UNCHANGED faults

Fault == faults < MaxFaults /\ faults' = faults + 1

\* The wait ends although an answer is still under way.
EarlyTimeout == Fault /\ (down # <<>> \/ up # <<>>) /\ GiveUpWait

Lose == /\ Fault
        /\ \/ \E i \in DOMAIN down : down' = RemoveAt(down, i) /\ UNCHANGED up
           \/ \E i \in DOMAIN up : up' = RemoveAt(up, i) /\ UNCHANGED down
        /\ Hit
        /\ UNCHANGED <<agentVars, kernelVars, dropped, result>>

Damage == /\ Fault
          /\ \/ \E i \in DOMAIN down : down' = [down EXCEPT ![i].ok = FALSE] /\ UNCHANGED up
             \/ \E i \in DOMAIN up : up' = [up EXCEPT ![i].ok = FALSE] /\ UNCHANGED down
          /\ Hit
          /\ UNCHANGED <<agentVars, kernelVars, dropped, result>>

\* Ctrl-C at the host.
Abandon == /\ Fault /\ host.phase # "idle"
           /\ host' = Resting
           /\ UNCHANGED <<xferVars, result>>

Agent == AgentStep /\ UNCHANGED linkVars
User  == UserStep /\ UNCHANGED linkVars

LinkNext == \/ Agent \/ User \/ HostReceive \/ Timeout
            \/ EarlyTimeout \/ Lose \/ Damage \/ Abandon
            \/ \E job \in Jobs : HostStart(job)

Spec == LinkInit /\ [][LinkNext]_vars

\* The agent never stops by itself, and the host's program reads its line and
\* keeps its timer; users and faults are not bound to anything.
FairSpec == Spec /\ WF_vars(Agent \/ HostReceive \/ Timeout)

---------------------------------------------------------------------------
(* Properties.                                                             *)

\* The agent holds the kernel handles of the file it receives and the file it
\* sends and no other: OPEN over an open file, PREAD, PWRITE, a CLOSE without
\* OPEN and the end of the program leave none behind.  Outside of a listing its
\* current directory is the one it was started in (path_enter and path_leave,
\* serve_list's .sl_done): a relative name means what the host thinks.
AgentSound ==
    /\ held = Count(fd # None) + Count(rfd # None)
    /\ pc # "list" => cwd = Root

\* The result of a job of one kind.
Done(op) == result # None /\ result.job.op = op

\* An upload whose CLOSE was answered by 0 left the file exactly as sent, when
\* the OPEN made the file and the volume had room: chunks written twice after
\* a lost acknowledgement, written for another file, or missing never pass.
UploadsExact ==
    (Done(T_OPEN) /\ T_OPEN \notin dropped) =>
        FileOf(result.job) = result.job.content

\* What the repository says: an upload that succeeded is the file sent.
UploadVerified ==
    Done(T_OPEN) => FileOf(result.job) = result.job.content

\* A download that ended well is the file, or empty for a file that is not
\* there, whatever was lost, repeated or left of an earlier stream.  A listing
\* during which no frame was lost or damaged names every entry once, even when
\* frames of an abandoned stream were still under way.
StreamsExact ==
    /\ Done(T_GET) =>
         result.value = IF FileOf(result.job) = None THEN <<>> ELSE FileOf(result.job)
    /\ (Done(T_LIST) /\ ~result.hit) =>
         result.value = LET d == Directory(result.job.body)
                        IN IF d = None THEN <<>> ELSE SetToSeq(EntriesOf(d))

\* A command answered by 0 has been carried out and is not undone by a copy
\* of an earlier frame that arrives late: the file is gone, the file has its
\* new name, the chunk is at its offset.  A PWRITE that left its chunk out or put
\* it elsewhere is excepted, for .h_pwrite answers 0 also when the volume has no
\* room or the kernel refused the seek: PwriteVerified, which the code breaks.
CommandsDone ==
    /\ (Done(T_DEL) /\ result.value = 0) => FileOf(result.job) = None
    /\ (Done(T_REN) /\ result.value = 0) => /\ disk[Root][result.job.body[1]] = None
                                           /\ disk[Root][result.job.body[2]] # None
    /\ (Done(T_PWRITE) /\ result.value = 0 /\ T_PWRITE \notin dropped) =>
          LET c == FileOf(result.job)  off == result.job.body[3]
          IN c # None /\ off < Len(c) /\ c[off + 1] = result.job.body[4]

\* What .v2_ack_ax says of the status: 0 is ok.
PwriteVerified ==
    (Done(T_PWRITE) /\ result.value = 0) => T_PWRITE \notin dropped

\* Every job ends, however the line behaved until the faults stopped, unless
\* the user of the agent ends it.
JobsEnd == []<>(host.phase = "idle" \/ pc = "off")
=============================================================================
