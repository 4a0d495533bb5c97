--------------------------- MODULE XferLink_proofs ---------------------------
(***************************************************************************)
(* Proofs about the agent and the line of module XferLink, for any files,  *)
(* jobs and number of faults.  The users are careful: nobody stops the     *)
(* agent while it streams, and a command's sequence number is not one that *)
(* is still under way (with "quit in stream" a handle is lost; with        *)
(* "numbers meet" an old answer may be taken for a new one).               *)
(*                                                                         *)
(* AgentOK speaks of the agent alone.  LineOK says which frames can be     *)
(* under way: those with the number the host waits on are copies of its    *)
(* request and the last ones on the line, and once one of them has been    *)
(* answered there are no others.  So what the answer promised is only      *)
(* ever met by copies of the same request, which do not undo it: that is   *)
(* UploadOK, CommandOK, GetOK and ListOK, one for each kind of job.        *)
(***************************************************************************)
EXTENDS XferLink, FiniteSetTheorems, SequenceTheorems, TLAPS

Careful == Risky \subseteq {"beyond end"}

\* Frames from the host, with the bodies their types have, and from the agent.
FrameBody(t) == CASE t = T_DATA -> Chunks
                  [] t = T_CLOSE -> Seq(Chunks)
                  [] OTHER -> JobBody(t)

HostTypes == Commands \cup {T_DATA, T_CLOSE, T_ACK, T_NAK}

AnyBody == {None} \cup Parts \cup SubDirs \cup Chunks \cup Seq(Chunks)
           \cup (Parts \X Names) \cup (Names \X Names) \cup (Parts \X Names \X Nat)
           \cup (Parts \X Names \X Nat \X Chunks)

DownFrames == {f \in [type : HostTypes, seq : 0 .. SeqLimit - 1, body : AnyBody, ok : BOOLEAN] :
                  f.body \in FrameBody(f.type)}

Items == Chunks \cup Names \cup SubDirs

Bodies == Items \cup Seq(Chunks) \cup {None, 0, 1}

UpFrames == [type : {T_DATA, T_CLOSE, T_ENTRY, T_ACK, T_NAK}, seq : 0 .. SeqLimit - 1,
             body : Bodies, ok : BOOLEAN]

Hosts == [phase : {"idle", "reply", "stream"}, job : Jobs \cup {None}, step : Nat,
          seq : 0 .. SeqLimit - 1, got : Seq(Bodies), hit : BOOLEAN]

\* The content begins with the sequence.
Begins(crc, content) == /\ Len(crc) <= Len(content)
                        /\ \A i \in 1 .. Len(crc) : crc[i] = content[i]

KernelOK ==
    /\ disk \in [Directories -> [Names -> {None} \cup Seq(Chunks)]]
    /\ dirs \in SUBSET SubDirs
    /\ cwd \in Directories
    /\ fd \in {None, Gone} \cup (Directories \X Names \X Nat)
    /\ fd \in Directories \X Names \X Nat => disk[fd[1]][fd[2]] # None
    /\ wcrc \in Seq(Chunks)
    /\ dropped \in SUBSET {T_OPEN, T_PWRITE}

StreamOK ==
    /\ pc \in {"main", "get", "list", "last", "off"}
    /\ rfd \in {None} \cup (Directories \X Names)
    /\ rcrc \in Seq(Chunks)
    /\ todo \in Seq(Names \cup SubDirs)
    /\ saved \in Directories \cup {None}
    /\ pc = "get" <=> rfd # None
    /\ pc = "get" => /\ disk[rfd[1]][rfd[2]] \in Seq(Chunks)
                     /\ Begins(rcrc, disk[rfd[1]][rfd[2]])

HandlesOK ==
    /\ held = Count(fd # None) + Count(rfd # None)
    /\ pc # "list" => cwd = Root
    /\ pc = "list" => saved = Root \/ (saved = None /\ cwd = Root)

AgentOK == KernelOK /\ StreamOK /\ HandlesOK

HostOK ==
    /\ down \in Seq(DownFrames)
    /\ up \in Seq(UpFrames)
    /\ host \in Hosts
    /\ host.phase # "idle" => /\ host.job \in Jobs
                              /\ host.step = 0 \/ (host.job.op = T_OPEN /\
                                                   host.step <= Len(host.job.content) + 1)
    /\ host.phase = "stream" => host.job.op \in {T_GET, T_LIST}
    /\ host.phase # "idle" => result = None
    /\ result # None => /\ result.job \in Jobs
                        /\ result.job.op = T_OPEN => result.value = 0

\* The frame is the k-th of the job, whatever happened to it on the line.
Copy(f, job, k) == f.type = Request(job, k, 0).type /\ f.body = Request(job, k, 0).body

\* The frame answers the request the host waits on.
Answers(f) == f.type = T_ACK /\ f.seq = host.seq
Answered == host.phase = "reply" /\ \E i \in DOMAIN up : Answers(up[i])

Streams(job) == job.op \in {T_GET, T_LIST}
LastStep(job) == IF job.op = T_OPEN THEN Len(job.content) + 1 ELSE 0

\* A frame that may arrive after a job's last request was answered.
Late(f, job) == Copy(f, job, LastStep(job)) \/ (Streams(job) /\ f.type \in {T_ACK, T_NAK})

\* The host waits for the answer to a job's request, or for the rest of its
\* stream; or the job was the last one and ended well.
Asked(job) == host.phase = "reply" /\ host.job = job
Fetched(job) == host.phase = "stream" /\ host.job = job
Ended(job) == result # None /\ result.job = job

LineOK ==
    \A job \in Jobs :
        /\ Asked(job) =>
              /\ \A i \in DOMAIN down : down[i].seq = host.seq => Copy(down[i], job, host.step)
              /\ \A i, j \in DOMAIN down :
                    i < j /\ down[i].seq = host.seq => down[j].seq = host.seq
              /\ Answered => \A i \in DOMAIN down : down[i].seq = host.seq
        /\ Fetched(job) \/ Ended(job) => \A i \in DOMAIN down : Late(down[i], job)

\* An upload under way: what was acknowledged is in the file, or was dropped.
Growing(job) ==
    T_OPEN \notin dropped =>
        /\ FileOf(job) # None
        /\ fd = None \/ (fd = <<Directory(job.body[1]), job.body[2], Len(wcrc)>> /\ FileOf(job) = wcrc)
        /\ wcrc # <<>> => FileOf(job) = wcrc
        /\ job.content = <<>> => FileOf(job) = <<>> /\ wcrc = <<>>

Verified(job) == T_OPEN \notin dropped => FileOf(job) = job.content

Idling == pc \in {"main", "off"}

UploadOK ==
    \A job \in Jobs : job.op = T_OPEN =>
        /\ (Asked(job) /\ (host.step > 0 \/ Answered)) =>
              /\ Idling /\ Growing(job)
              /\ \A i \in DOMAIN down : \E k \in 0 .. host.step : Copy(down[i], job, k)
              /\ \A i \in DOMAIN up :
                    Answers(up[i]) /\ up[i].body = 0 /\ host.step = LastStep(job) => Verified(job)
        /\ Ended(job) => Idling /\ Verified(job)

\* What the answer 0 to a command says.
Promise(job) ==
    /\ job.op = T_DEL => FileOf(job) = None
    /\ job.op = T_REN => /\ disk[Root][job.body[1]] = None
                         /\ disk[Root][job.body[2]] # None
    /\ (job.op = T_PWRITE /\ T_PWRITE \notin dropped) =>
          LET c == FileOf(job)  off == job.body[3]
          IN c # None /\ off < Len(c) /\ c[off + 1] = job.body[4]

CommandOK ==
    \A job \in Jobs : job.op \in {T_DEL, T_REN, T_PWRITE} =>
        /\ (Asked(job) /\ Answered) =>
              /\ Idling
              /\ \A i \in DOMAIN up : Answers(up[i]) /\ up[i].body = 0 => Promise(job)
        /\ Ended(job) => Idling /\ Promise(job)

\* The whole file a job asks for, and the agent's place in sending it.  GetOK is
\* about a kernel with a handle left for GET while an upload holds one.
Whole(job) == IF FileOf(job) = None THEN <<>> ELSE FileOf(job)

Sending(job) == /\ pc # "list"
                /\ pc = "get" => rfd = <<Directory(job.body[1]), job.body[2]>>

GetOK ==
    \A job \in Jobs : (job.op = T_GET /\ MaxOpen >= 2) =>
        /\ (Asked(job) /\ Answered) =>
              /\ Sending(job)
              /\ \A i, j \in DOMAIN up :
                    i < j /\ Answers(up[i]) /\ up[j].type = T_CLOSE => up[j].body = Whole(job)
        /\ Fetched(job) =>
              /\ Sending(job)
              /\ \A j \in DOMAIN up : up[j].type = T_CLOSE => up[j].body = Whole(job)
        /\ Ended(job) => Sending(job) /\ result.value = Whole(job)

\* The entries a listing names.
Entries(job) == LET d == Directory(job.body)
                IN IF d = None THEN <<>> ELSE SetToSeq(EntriesOf(d))

\* Behind the a-th frame to the host come the entries after the first n; either
\* the agent still has the rest of them or the CLOSE comes behind them.
Listing(e, n, a) ==
    \E m \in 0 .. Len(up) :
        /\ a + m <= Len(up) /\ n + m <= Len(e)
        /\ \A i \in 1 .. m : /\ up[a + i].ok /\ up[a + i].type = T_ENTRY
                             /\ up[a + i].body = e[n + i]
        /\ \/ a + m = Len(up) /\ pc = "list" /\ todo = SubSeq(e, n + m + 1, Len(e))
           \/ /\ a + m < Len(up) /\ n + m = Len(e)
              /\ up[a + m + 1].ok /\ up[a + m + 1].type = T_CLOSE

ListOK ==
    \A job \in Jobs : job.op = T_LIST =>
        /\ (Asked(job) /\ Answered) =>
              /\ pc # "get"
              /\ ~host.hit =>
                    \A a \in DOMAIN up :
                        Answers(up[a]) /\ (\A b \in 1 .. a - 1 : ~Answers(up[b])) =>
                            up[a].ok /\ Listing(Entries(job), 0, a)
        /\ Asked(job) => host.got = <<>>
        /\ Fetched(job) =>
              /\ pc # "get"
              /\ ~host.hit => /\ Begins(host.got, Entries(job))
                              /\ Listing(Entries(job), Len(host.got), 0)
        /\ Ended(job) => pc # "get" /\ (~result.hit => result.value = Entries(job))

LinkOK == AgentOK /\ HostOK /\ LineOK /\ UploadOK /\ CommandOK /\ GetOK /\ ListOK
---------------------------------------------------------------------------
(* Sequences, requests and frames.                                         *)

\* What Head and Tail of a line are.
LEMMA LineTail ==
    ASSUME NEW S, NEW s \in Seq(S), s # <<>>
    PROVE  /\ Head(s) = s[1] /\ Head(s) \in S
           /\ Tail(s) \in Seq(S) /\ Len(Tail(s)) = Len(s) - 1
           /\ \A i \in DOMAIN Tail(s) : i + 1 \in DOMAIN s /\ Tail(s)[i] = s[i + 1]
           /\ DOMAIN s = 1 .. Len(s) /\ Len(s) \in Nat /\ 1 \in DOMAIN s
OBVIOUS

\* A frame put behind a line.
LEMMA LineAppend ==
    ASSUME NEW S, NEW s \in Seq(S), NEW x \in S
    PROVE  /\ Append(s, x) \in Seq(S) /\ Len(Append(s, x)) = Len(s) + 1
           /\ DOMAIN Append(s, x) = 1 .. Len(s) + 1 /\ DOMAIN s = 1 .. Len(s) /\ Len(s) \in Nat
           /\ \A i \in DOMAIN s : Append(s, x)[i] = s[i]
           /\ Append(s, x)[Len(s) + 1] = x
OBVIOUS

\* Frames put behind a line.
LEMMA LineConcat ==
    ASSUME NEW S, NEW s \in Seq(S), NEW t \in Seq(S)
    PROVE  /\ s \o t \in Seq(S) /\ Len(s \o t) = Len(s) + Len(t)
           /\ DOMAIN (s \o t) = 1 .. Len(s) + Len(t)
           /\ DOMAIN s = 1 .. Len(s) /\ Len(s) \in Nat /\ Len(t) \in Nat
           /\ \A i \in DOMAIN s : (s \o t)[i] = s[i]
           /\ \A i \in 1 .. Len(t) : (s \o t)[Len(s) + i] = t[i]
OBVIOUS

\* A frame lost from a line: the others keep their order.
LEMMA LineRemove ==
    ASSUME NEW S, NEW s \in Seq(S), NEW n \in DOMAIN s
    PROVE  /\ RemoveAt(s, n) \in Seq(S) /\ Len(RemoveAt(s, n)) = Len(s) - 1
           /\ DOMAIN RemoveAt(s, n) = 1 .. Len(s) - 1 /\ DOMAIN s = 1 .. Len(s)
           /\ \A i \in 1 .. Len(s) - 1 : RemoveAt(s, n)[i] = IF i < n THEN s[i] ELSE s[i + 1]
<1> DEFINE a == SubSeq(s, 1, n - 1)
           b == SubSeq(s, n + 1, Len(s))
<1>1. n \in 1 .. Len(s) /\ Len(s) \in Nat /\ DOMAIN s = 1 .. Len(s)
  OBVIOUS
<1>2. a \in Seq(S) /\ Len(a) = n - 1 /\ \A i \in 1 .. n - 1 : a[i] = s[i]
  BY <1>1
<1>3. b \in Seq(S) /\ Len(b) = Len(s) - n /\ \A i \in 1 .. Len(s) - n : b[i] = s[n + i]
  BY <1>1
<1>4. RemoveAt(s, n) = a \o b
  BY DEF RemoveAt
<1> HIDE DEF a, b
<1>5. /\ a \o b \in Seq(S) /\ Len(a \o b) = Len(a) + Len(b)
      /\ DOMAIN (a \o b) = 1 .. Len(a) + Len(b)
      /\ DOMAIN a = 1 .. Len(a)
      /\ \A i \in DOMAIN a : (a \o b)[i] = a[i]
      /\ \A i \in 1 .. Len(b) : (a \o b)[Len(a) + i] = b[i]
  <2>1. a \in Seq(S) /\ b \in Seq(S)
    BY <1>2, <1>3
  <2> QED
    BY <2>1, LineConcat
<1>6. \A i \in 1 .. Len(s) - 1 : (a \o b)[i] = IF i < n THEN s[i] ELSE s[i + 1]
  <2> SUFFICES ASSUME NEW i \in 1 .. Len(s) - 1
               PROVE  (a \o b)[i] = IF i < n THEN s[i] ELSE s[i + 1]
    OBVIOUS
  <2>1. CASE i < n
    <3>1. i \in DOMAIN a /\ i \in 1 .. n - 1
      BY <1>1, <1>2, <1>5, <2>1
    <3> QED
      BY <1>2, <1>5, <2>1, <3>1
  <2>2. CASE ~(i < n)
    <3>1. i - (n - 1) \in 1 .. Len(s) - n /\ i = Len(a) + (i - (n - 1))
          /\ n + (i - (n - 1)) = i + 1
      BY <1>1, <1>2, <2>2
    <3>2. (a \o b)[Len(a) + (i - (n - 1))] = b[i - (n - 1)]
      BY <1>3, <1>5, <3>1, Zenon
    <3> QED
      BY <1>3, <2>2, <3>1, <3>2
  <2> QED
    BY <2>1, <2>2
<1>7. Len(a) + Len(b) = Len(s) - 1
  BY <1>1, <1>2, <1>3
<1> QED
  BY <1>1, <1>4, <1>5, <1>6, <1>7

\* A frame damaged on a line.
LEMMA LineDamage ==
    ASSUME NEW S, NEW s \in Seq(S), NEW n \in DOMAIN s,
           [s[n] EXCEPT !.ok = FALSE] \in S
    PROVE  /\ [s EXCEPT ![n].ok = FALSE] \in Seq(S)
           /\ Len([s EXCEPT ![n].ok = FALSE]) = Len(s)
           /\ DOMAIN [s EXCEPT ![n].ok = FALSE] = DOMAIN s
           /\ \A i \in DOMAIN s : i # n => [s EXCEPT ![n].ok = FALSE][i] = s[i]
           /\ [s EXCEPT ![n].ok = FALSE][n] = [s[n] EXCEPT !.ok = FALSE]
OBVIOUS

\* The steps of a job.
StepOf(job, k) == k \in Nat /\ (k = 0 \/ (job.op = T_OPEN /\ k <= LastStep(job)))

\* The types of frames and jobs.
USE DEF T_OPEN, T_DATA, T_CLOSE, T_QUIT, T_GET, T_MKDIR, T_LIST, T_ENTRY, T_MSG, T_DEL, T_RMD,
        T_REN, T_PREAD, T_PWRITE, T_RAW, T_VERSION, T_ACK, T_NAK

LEMMA JobBodies ==
    \A t \in HostTypes : FrameBody(t) \subseteq AnyBody
BY SMTT(30) DEF HostTypes, Commands, FrameBody, JobBody, AnyBody

\* A request of a job is a frame the host may send.
LEMMA Requests ==
    ASSUME NEW job \in Jobs, NEW k, StepOf(job, k), NEW s \in 0 .. SeqLimit - 1
    PROVE  /\ Request(job, k, s) \in DownFrames
           /\ Request(job, k, s).seq = s /\ Request(job, k, s).ok
           /\ Copy(Request(job, k, s), job, k)
<1>1. job.op \in Commands /\ job.body \in JobBody(job.op)
      /\ (job.op = T_OPEN => job.content \in Seq(Chunks))
  BY JobsAssumption
<1> DEFINE f == Request(job, k, s)
<1>2. /\ f = Frame(f.type, s, f.body) /\ f.seq = s /\ f.ok = TRUE
  BY DEF Request, Frame
<1>3. f.type \in HostTypes /\ f.body \in FrameBody(f.type)
  BY <1>1, SMTT(30) DEF Request, Frame, HostTypes, Commands, FrameBody, StepOf, LastStep, JobBody
<1>4. f \in DownFrames
  BY <1>2, <1>3, JobBodies DEF DownFrames, Frame
<1> QED
  BY <1>2, <1>4 DEF Copy, Request, Frame

LEMMA Acknowledgements ==
    ASSUME NEW t \in {T_ACK, T_NAK}, NEW s \in 0 .. SeqLimit - 1
    PROVE  Frame(t, s, None) \in DownFrames
<1>1. t \in HostTypes /\ None \in FrameBody(t)
  BY DEF HostTypes, FrameBody, JobBody, Commands
<1> QED
  BY <1>1, JobBodies DEF DownFrames, Frame

\* What the host's frames carry.
LEMMA DownBodies ==
    ASSUME NEW f \in DownFrames
    PROVE  /\ f.seq \in 0 .. SeqLimit - 1 /\ f.ok \in BOOLEAN /\ f.type \in HostTypes
           /\ f.type \in {T_OPEN, T_GET, T_DEL} => f.body \in Parts \X Names
           /\ f.type = T_DATA => f.body \in Chunks
           /\ f.type = T_CLOSE => f.body \in Seq(Chunks)
           /\ f.type = T_LIST => f.body \in Parts
           /\ f.type \in {T_MKDIR, T_RMD} => f.body \in SubDirs
           /\ f.type = T_REN => f.body \in Names \X Names
           /\ f.type = T_PREAD => f.body \in Parts \X Names \X Nat
           /\ f.type = T_PWRITE => f.body \in Parts \X Names \X Nat \X Chunks
           /\ [f EXCEPT !.ok = FALSE] \in DownFrames
<1>1. f.body \in FrameBody(f.type) /\ f.seq \in 0 .. SeqLimit - 1 /\ f.ok \in BOOLEAN
      /\ f.type \in HostTypes
  BY DEF DownFrames
<1>2. [f EXCEPT !.ok = FALSE] \in DownFrames
  BY DEF DownFrames
<1> QED
  BY <1>1, <1>2, SMTT(30) DEF FrameBody, JobBody
---------------------------------------------------------------------------
(* The agent alone.                                                        *)

\* With the values bound that the parts of an invariant speak of.
LEMMA Dispatch ==
    ASSUME Careful, AgentStep, StreamOK
    PROVE  /\ down # <<>> /\ down' = Tail(down)
           /\ \/ /\ pc = "main" /\ ~Head(down).ok /\ Nak
              \/ /\ pc = "main" /\ Head(down).ok
                 /\ \/ Head(down).type = T_OPEN /\ Open
                    \/ Head(down).type = T_DATA /\ Data
                    \/ Head(down).type = T_CLOSE /\ Close
                    \/ Head(down).type \in {T_MSG, T_RAW, T_ENTRY, T_NAK} /\ Other
                    \/ Head(down).type = T_VERSION /\ Version
                    \/ Head(down).type = T_MKDIR /\ Mkdir
                    \/ Head(down).type = T_RMD /\ Rmd
                    \/ Head(down).type = T_DEL /\ Del
                    \/ Head(down).type = T_REN /\ Ren
                    \/ Head(down).type = T_PREAD /\ Pread
                    \/ Head(down).type = T_PWRITE /\ Pwrite
                    \/ Head(down).type = T_GET /\ Get
                    \/ Head(down).type = T_LIST /\ List
                    \/ Head(down).type = T_QUIT /\ Quit
              \/ pc = "get" /\ GetNext
              \/ pc = "list" /\ ListNext
              \/ pc = "last" /\ LastAcked
<1>1. CASE Nak
  BY <1>1 DEF Nak
<1>2. CASE Open
  BY <1>2 DEF Open, Arrives
<1>3. CASE Data
  BY <1>3 DEF Data, Arrives
<1>4. CASE Close
  BY <1>4 DEF Close, Arrives
<1>5. CASE Other
  BY <1>5 DEF Other, Arrives
<1>6. CASE Version
  BY <1>6 DEF Version, Arrives
<1>7. CASE Mkdir
  BY <1>7 DEF Mkdir, Arrives
<1>8. CASE Rmd
  BY <1>8 DEF Rmd, Arrives
<1>9. CASE Del
  BY <1>9 DEF Del, Arrives
<1>10. CASE Ren
  BY <1>10 DEF Ren, Arrives
<1>11. CASE Pread
  BY <1>11 DEF Pread, Arrives
<1>12. CASE Pwrite
  BY <1>12 DEF Pwrite, Arrives
<1>13. CASE Get
  BY <1>13 DEF Get, Arrives
<1>14. CASE GetNext
  BY <1>14 DEF GetNext, Acked
<1>15. CASE List
  BY <1>15 DEF List, Arrives
<1>16. CASE ListNext
  BY <1>16 DEF ListNext, Acked
<1>17. CASE LastAcked
  BY <1>17 DEF LastAcked, Acked
<1>18. CASE Quit
  BY <1>18 DEF Quit, MayQuit, Careful
<1> QED
  BY <1>1, <1>2, <1>3, <1>4, <1>5, <1>6, <1>7, <1>8, <1>9, <1>10, <1>11, <1>12, <1>13, <1>14,
     <1>15, <1>16, <1>17, <1>18 DEF AgentStep

\* In the main loop the agent is in the root, so that a directory part means
\* to it what it means to the host.
LEMMA Resolved ==
    ASSUME KernelOK, cwd = Root, NEW part \in Parts
    PROVE  /\ Resolve(part) = Directory(part) /\ Directory(part) \in Directories \cup {None}
           /\ \A name \in Names : /\ Content(part, name) \in {None} \cup Seq(Chunks)
                                  /\ Directory(part) = None => Content(part, name) = None
                                  /\ Directory(part) # None =>
                                        Content(part, name) = disk[Directory(part)][name]
<1>1. /\ Resolve(part) = Directory(part) /\ Directory(part) \in Directories \cup {None}
  BY MarksAssumption, XferAssumption DEF Resolve, Directory, Parts, Directories, KernelOK
<1>2. ASSUME NEW name \in Names
      PROVE  Content(part, name) = IF Directory(part) = None THEN None
                                   ELSE disk[Directory(part)][name]
  BY <1>1 DEF Content
<1> QED
  BY <1>1, <1>2 DEF KernelOK

\* Writing at a place of a file leaves a sequence of chunks.
LEMMA Written ==
    ASSUME NEW c \in Seq(Chunks), NEW pos \in Nat, NEW x \in Chunks
    PROVE  WriteAt(c, pos, x) \in Seq(Chunks)
BY DEF WriteAt

\* What each step does to the kernel, v_fd and the accumulated CRC-32.
LEMMA KernelStep ==
    ASSUME Careful, AgentOK, down \in Seq(DownFrames), AgentStep \/ UserStep
    PROVE  KernelOK'
<1> DEFINE f == Head(down)
<1> USE MarksAssumption
<1>a. \A op \in {T_OPEN, T_PWRITE}, m \in BOOLEAN : Marked(op, m) \in SUBSET {T_OPEN, T_PWRITE}
  BY DEF AgentOK, KernelOK, Marked
<1>0. KernelOK /\ StreamOK /\ (pc # "list" => cwd = Root) /\ Root \in Directories
      /\ (down # <<>> => f \in DownFrames)
  BY LineTail DEF AgentOK, HandlesOK, Directories
<1>1. CASE Open /\ f \in DownFrames /\ cwd = Root
  <2>1. f.type = T_OPEN /\ f.body \in Parts \X Names
    BY <1>1, DownBodies DEF Open, Arrives
  <2>2. /\ Resolve(f.body[1]) \in Directories \cup {None}
        /\ Content(f.body[1], f.body[2]) \in {None} \cup Seq(Chunks)
    BY <1>0, <1>1, <2>1, Resolved
  <2>3. <<>> \in Seq(Chunks)
    OBVIOUS
  <2> DEFINE d == Resolve(f.body[1])
             n == f.body[2]
             made == d # None /\ Content(f.body[1], n) = None /\ Released < MaxOpen /\ Room
  <2>4. /\ disk' = IF made THEN [disk EXCEPT ![d][n] = <<>>] ELSE disk
        /\ fd' = IF made THEN <<d, n, 0>> ELSE None
        /\ wcrc' = <<>> /\ dropped' = Marked(T_OPEN, ~made) /\ UNCHANGED <<dirs, cwd>>
    BY <1>1 DEF Open
  <2> HIDE DEF f
  <2>5. d \in Directories \cup {None} /\ n \in Names
    BY <2>1, <2>2
  <2> HIDE DEF d, n
  <2>6. CASE made
    <3>1. disk' = [disk EXCEPT ![d][n] = <<>>] /\ fd' = <<d, n, 0>> /\ d \in Directories
      BY <2>4, <2>5, <2>6
    <3>2. None \notin Seq(Chunks) /\ d # None /\ <<>> # None
      BY <2>3, <2>5, <2>6
    <3>3. /\ disk' \in [Directories -> [Names -> {None} \cup Seq(Chunks)]]
          /\ disk'[d][n] = <<>>
      BY <1>0, <2>3, <2>5, <3>1 DEF KernelOK
    <3>4. fd' \in Directories \X Names \X Nat /\ fd'[1] = d /\ fd'[2] = n
      BY <2>5, <3>1
    <3> HIDE DEF made
    <3> QED
      BY <1>a, <1>0, <2>3, <2>4, <3>2, <3>3, <3>4 DEF KernelOK
  <2>7. CASE ~made
    <3>1. disk' = disk /\ fd' = None
      BY <2>4, <2>7
    <3> HIDE DEF made
    <3> QED
      BY <1>a, <1>0, <2>3, <2>4, <3>1 DEF KernelOK
  <2> QED
    BY <2>6, <2>7
<1>2. CASE Data /\ f \in DownFrames
  <2>1. f.body \in Chunks
    BY <1>2, DownBodies DEF Data, Arrives
  <2>2. CASE fd \notin {None, Gone} /\ Fits(disk[fd[1]][fd[2]], fd[3])
    <3>1. /\ fd \in Directories \X Names \X Nat
          /\ fd[1] \in Directories /\ fd[2] \in Names /\ fd[3] \in Nat
          /\ disk[fd[1]][fd[2]] \in Seq(Chunks)
      BY <1>0, <2>2 DEF KernelOK
    <3>2. WriteAt(disk[fd[1]][fd[2]], fd[3], f.body) \in Seq(Chunks)
      BY <2>1, <3>1, Written
    <3>3. /\ disk' = [disk EXCEPT ![fd[1]][fd[2]] = WriteAt(@, fd[3], f.body)]
          /\ fd' = <<fd[1], fd[2], fd[3] + 1>> /\ dropped' = dropped
          /\ wcrc' = Append(wcrc, f.body) /\ UNCHANGED <<dirs, cwd>>
      BY <1>0, <1>2, <2>2 DEF Data, KernelOK
    <3>4. /\ disk' \in [Directories -> [Names -> {None} \cup Seq(Chunks)]]
          /\ disk'[fd[1]][fd[2]] # None
      BY <1>0, <3>1, <3>2, <3>3 DEF KernelOK
    <3>5. fd' \in Directories \X Names \X Nat /\ fd'[1] = fd[1] /\ fd'[2] = fd[2]
      BY <3>1, <3>3
    <3> QED
      BY <1>0, <2>1, <3>3, <3>4, <3>5 DEF KernelOK
  <2>3. CASE ~(fd \notin {None, Gone} /\ Fits(disk[fd[1]][fd[2]], fd[3]))
    <3>1. /\ UNCHANGED <<disk, fd, dirs, cwd>> /\ dropped' = Marked(T_OPEN, TRUE)
          /\ wcrc' = Append(wcrc, f.body)
      BY <1>2, <2>3 DEF Data
    <3>2. dropped' \in SUBSET {T_OPEN, T_PWRITE}
      BY <1>a, <3>1
    <3>3. Append(wcrc, f.body) \in Seq(Chunks)
      BY <1>0, <2>1 DEF KernelOK
    <3> QED
      BY <1>0, <3>1, <3>2, <3>3 DEF KernelOK
  <2> QED
    BY <2>2, <2>3
<1>3. CASE Close
  BY <1>0, <1>3 DEF Close, KernelOK
<1>4. CASE Mkdir /\ f \in DownFrames
  <2>1. f.body \in SubDirs
    BY <1>4, DownBodies DEF Mkdir, Arrives
  <2> QED
    BY <1>0, <1>4, <2>1 DEF Mkdir, KernelOK, agentVars
<1>5. CASE Rmd
  BY <1>0, <1>5 DEF Rmd, KernelOK, agentVars
<1>6. CASE Del /\ f \in DownFrames /\ cwd = Root
  <2>1. f.body \in Parts \X Names
    BY <1>6, DownBodies DEF Del, Arrives
  <2> DEFINE d == Resolve(f.body[1])
             n == f.body[2]
  <2>2. d \in Directories \cup {None} /\ n \in Names
        /\ (Content(f.body[1], n) # None => d \in Directories)
    BY <1>0, <1>6, <2>1, Resolved
  <2>3. CASE Content(f.body[1], n) # None
    <3>1. /\ disk' = [disk EXCEPT ![d][n] = None]
          /\ fd' = IF WritesTo(<<d, n>>) THEN Gone ELSE fd
          /\ UNCHANGED <<dirs, cwd, wcrc, dropped>>
      BY <1>6, <2>3 DEF Del
    <3> HIDE DEF d, n
    <3>2. disk' \in [Directories -> [Names -> {None} \cup Seq(Chunks)]]
      BY <1>0, <2>2, <2>3, <3>1 DEF KernelOK
    <3>3. ASSUME fd' \in Directories \X Names \X Nat
          PROVE  disk'[fd'[1]][fd'[2]] # None
      <4>1. fd' = fd /\ ~WritesTo(<<d, n>>) /\ fd \in Directories \X Names \X Nat
        BY <3>1, <3>3
      <4>2. fd[1] \in Directories /\ fd[2] \in Names /\ ~(fd[1] = d /\ fd[2] = n)
        BY <4>1 DEF WritesTo
      <4> QED
        BY <1>0, <2>2, <2>3, <3>1, <4>1, <4>2 DEF KernelOK
    <3> QED
      BY <1>0, <3>1, <3>2, <3>3 DEF KernelOK
  <2>4. CASE Content(f.body[1], n) = None
    <3>1. UNCHANGED <<disk, fd, dirs, cwd, wcrc, dropped>>
      BY <1>6, <2>4 DEF Del
    <3> QED
      BY <1>0, <3>1 DEF KernelOK
  <2> QED
    BY <2>3, <2>4
<1>7. CASE Ren /\ f \in DownFrames
  <2> DEFINE o == f.body[1]
             n == f.body[2]
  <2>1. o \in Names /\ n \in Names
    BY <1>7, DownBodies DEF Ren, Arrives
  <2>2. CASE disk[cwd][o] # None /\ disk[cwd][n] = None
    <3>1. /\ disk' = [disk EXCEPT ![cwd] = [@ EXCEPT ![n] = disk[cwd][o], ![o] = None]]
          /\ fd' = IF WritesTo(<<cwd, o>>) THEN <<cwd, n, fd[3]>> ELSE fd
          /\ UNCHANGED <<dirs, cwd, wcrc, dropped>>
      BY <1>7, <2>2 DEF Ren
    <3> HIDE DEF o, n
    <3> DEFINE g == [disk[cwd] EXCEPT ![n] = disk[cwd][o], ![o] = None]
    <3>2. n # o /\ disk[cwd] \in [Names -> {None} \cup Seq(Chunks)]
          /\ disk[cwd][o] \in {None} \cup Seq(Chunks)
      BY <1>0, <2>1, <2>2 DEF KernelOK, o, n
    <3>3. /\ g \in [Names -> {None} \cup Seq(Chunks)] /\ g[n] = disk[cwd][o]
          /\ \A m \in Names : m \notin {n, o} => g[m] = disk[cwd][m]
      BY <2>1, <3>2
    <3>4. disk' = [disk EXCEPT ![cwd] = g] /\ cwd \in Directories
      BY <1>0, <3>1 DEF KernelOK
    <3> HIDE DEF g
    <3>5. /\ disk' \in [Directories -> [Names -> {None} \cup Seq(Chunks)]]
          /\ disk'[cwd][n] # None
          /\ \A d \in Directories, m \in Names : d # cwd => disk'[d][m] = disk[d][m]
          /\ \A m \in Names : m \notin {n, o} => disk'[cwd][m] = disk[cwd][m]
      BY <1>0, <2>1, <2>2, <3>2, <3>3, <3>4 DEF KernelOK
    <3>6. CASE WritesTo(<<cwd, o>>)
      <4>1. fd \in Directories \X Names \X Nat /\ fd[1] = cwd
        BY <1>0, <3>6 DEF WritesTo, KernelOK
      <4>2. fd' = <<cwd, n, fd[3]>> /\ fd[3] \in Nat
        BY <3>1, <3>6, <4>1
      <4>3. fd' \in Directories \X Names \X Nat /\ fd'[1] = cwd /\ fd'[2] = n
        BY <1>0, <2>1, <4>1, <4>2 DEF KernelOK
      <4> QED
        BY <1>0, <3>1, <3>5, <4>3 DEF KernelOK
    <3>7. CASE ~WritesTo(<<cwd, o>>)
      <4>1. ASSUME fd \in Directories \X Names \X Nat
            PROVE  disk'[fd[1]][fd[2]] # None
        <5>1. fd[1] \in Directories /\ fd[2] \in Names /\ ~(fd[1] = cwd /\ fd[2] = o)
          BY <3>7, <4>1 DEF WritesTo
        <5> QED
          BY <1>0, <2>1, <2>2, <3>5, <4>1, <5>1 DEF KernelOK
      <4> QED
        BY <1>0, <3>1, <3>5, <3>7, <4>1 DEF KernelOK
    <3> QED
      BY <3>6, <3>7
  <2>3. CASE ~(disk[cwd][o] # None /\ disk[cwd][n] = None)
    <3>1. UNCHANGED <<disk, fd, dirs, cwd, wcrc, dropped>>
      BY <1>7, <2>3 DEF Ren
    <3> QED
      BY <1>0, <3>1 DEF KernelOK
  <2> QED
    BY <2>2, <2>3
<1>8. CASE Pwrite /\ f \in DownFrames /\ cwd = Root
  <2>1. f.body \in Parts \X Names \X Nat \X Chunks
    BY <1>8, DownBodies DEF Pwrite, Arrives
  <2> DEFINE d == Resolve(f.body[1])
             n == f.body[2]
             c == IF Content(f.body[1], n) = None THEN <<>> ELSE Content(f.body[1], n)
             pos == SeekTo(c, f.body[3])
             x == IF Fits(c, pos) THEN WriteAt(c, pos, f.body[4]) ELSE c
  <2>2. d \in Directories \cup {None} /\ n \in Names /\ c \in Seq(Chunks)
    BY <1>0, <1>8, <2>1, Resolved
  <2>3. f.body[3] \in Nat /\ f.body[4] \in Chunks
    BY <2>1
  <2>4. pos \in Nat
    BY <2>3 DEF SeekTo
  <2>5. x \in Seq(Chunks)
    BY <2>2, <2>3, <2>4, Written
  <2>6. /\ disk' = disk \/ (d # None /\ disk' = [disk EXCEPT ![d][n] = x])
        /\ UNCHANGED <<fd, dirs, cwd, wcrc>> /\ dropped' \in SUBSET {T_OPEN, T_PWRITE}
    <3>1. dropped' \in {dropped} \cup {Marked(T_PWRITE, b) : b \in BOOLEAN}
      BY <1>8 DEF Pwrite
    <3>2. dropped' \in SUBSET {T_OPEN, T_PWRITE}
      BY <1>a, <1>0, <3>1 DEF KernelOK
    <3> QED
      BY <1>8, <3>2 DEF Pwrite, agentVars
  <2> HIDE DEF d, n, c, pos, x
  <2>7. x # None
    BY <2>5
  <2>8. CASE d # None /\ disk' = [disk EXCEPT ![d][n] = x]
    <3>1. /\ disk' \in [Directories -> [Names -> {None} \cup Seq(Chunks)]]
          /\ \A e \in Directories, m \in Names : disk[e][m] # None => disk'[e][m] # None
      BY <1>0, <2>2, <2>5, <2>7, <2>8 DEF KernelOK
    <3> QED
      BY <1>0, <2>6, <3>1 DEF KernelOK
  <2>9. CASE disk' = disk
    BY <1>0, <2>6, <2>9 DEF KernelOK
  <2> QED
    BY <2>6, <2>8, <2>9
<1>9. CASE List /\ f \in DownFrames /\ cwd = Root
  <2>1. f.body \in Parts
    BY <1>9, DownBodies DEF List, Arrives
  <2>2. cwd' = Root \/ (Resolve(f.body) # None /\ cwd' = Resolve(f.body))
    BY <1>9 DEF List
  <2>3. cwd' \in Directories
    BY <1>0, <2>1, <2>2, <1>9, Resolved
  <2> QED
    BY <1>0, <1>9, <2>3 DEF List, KernelOK
<1>10. CASE ListNext /\ pc = "list"
  <2>1. cwd' \in Directories
    BY <1>0, <1>10 DEF ListNext, CwdRestored, KernelOK, StreamOK
  <2> QED
    BY <1>0, <1>10, <2>1 DEF ListNext, KernelOK
<1>11. CASE Quit \/ KeyQ
  <2>1. DoQuit
    BY <1>11 DEF Quit, KeyQ
  <2> QED
    BY <1>0, <2>1 DEF DoQuit, KernelOK
<1>12. CASE Nak \/ Other \/ Version \/ Pread \/ Get \/ GetNext \/ LastAcked \/ Start
  <2>1. UNCHANGED <<disk, fd, dirs, cwd, wcrc, dropped>>
    BY <1>12 DEF Nak, Other, Version, Pread, Get, GetNext, LastAcked, Start, agentVars, kernelVars
  <2> QED
    BY <1>0, <2>1 DEF KernelOK
<1>13. CASE UserStep
  BY <1>11, <1>12, <1>13 DEF UserStep
<1>14. CASE AgentStep
  <2>1. down # <<>> /\ f \in DownFrames
    BY <1>0, <1>14, Dispatch
  <2> QED
    BY <1>0, <1>1, <1>2, <1>3, <1>4, <1>5, <1>6, <1>7, <1>8, <1>9, <1>10, <1>11, <1>12, <1>14,
       <2>1, Dispatch
<1> QED
  BY <1>13, <1>14
\* A listing of a finite set is a sequence of its elements.
LEMMA Listed ==
    ASSUME NEW S, IsFiniteSet(S)
    PROVE  SetToSeq(S) \in Seq(S)
<1>1. /\ Cardinality(S) \in Nat
      /\ \E f \in [1 .. Cardinality(S) -> S] : IsInjective(f)
  BY FS_CardinalityType DEF ExistsBijection, Bijection, Injection
<1>2. SetToSeq(S) \in [1 .. Cardinality(S) -> S]
  BY <1>1 DEF SetToSeq
<1> QED
  BY <1>1, <1>2

LEMMA EntriesListed ==
    ASSUME KernelOK, NEW d
    PROVE  SetToSeq(EntriesOf(d)) \in Seq(Names \cup SubDirs)
<1> DEFINE E == EntriesOf(d)
<1>1. E \subseteq Names \cup SubDirs
  BY DEF EntriesOf, KernelOK
<1>2. IsFiniteSet(Names \cup SubDirs)
  BY XferAssumption, FS_Union
<1>3. IsFiniteSet(E)
  BY <1>1, <1>2, FS_Subset
<1>4. SetToSeq(E) \in Seq(E)
  BY <1>3, Listed
<1> HIDE DEF E
<1>5. SetToSeq(E) \in Seq(Names \cup SubDirs)
  BY <1>1, <1>4
<1> QED
  BY <1>5 DEF E

\* What a turn of serve_get sends and leaves.
LEMMA GetTurns ==
    ASSUME NEW p \in Directories \X Names, NEW crc \in Seq(Chunks),
           disk[p[1]][p[2]] \in Seq(Chunks), Begins(crc, disk[p[1]][p[2]])
    PROVE  LET t == GetTurn(p, crc)
           IN /\ t.frame \in UpFrames /\ t.frame.ok
              /\ \/ /\ t.pc = "get" /\ t.rfd = p /\ t.rcrc \in Seq(Chunks)
                    /\ Begins(t.rcrc, disk[p[1]][p[2]])
                    /\ t.frame.type = T_DATA
                 \/ /\ t.pc = "last" /\ t.rfd = None /\ t.rcrc = <<>>
                    /\ t.frame.type = T_CLOSE /\ t.frame.body = disk[p[1]][p[2]]
<1> DEFINE c == disk[p[1]][p[2]]
           t == GetTurn(p, crc)
<1>1. Len(crc) \in Nat /\ Len(c) \in Nat
  OBVIOUS
<1>2. Len(crc) % SeqLimit \in 0 .. SeqLimit - 1
  BY <1>1, XferAssumption
<1>3. CASE Len(crc) < Len(c)
  <2>1. c[Len(crc) + 1] \in Chunks
    BY <1>1, <1>3
  <2>2. t = [frame |-> Frame(T_DATA, Len(crc) % SeqLimit, c[Len(crc) + 1]), pc |-> "get",
             rfd |-> p, rcrc |-> Append(crc, c[Len(crc) + 1])]
    BY <1>3 DEF GetTurn
  <2>3. t.frame \in UpFrames /\ t.frame.ok
    BY <1>2, <2>1, <2>2 DEF Frame, UpFrames, Bodies, Items
  <2>4. Append(crc, c[Len(crc) + 1]) \in Seq(Chunks) /\ Begins(Append(crc, c[Len(crc) + 1]), c)
    BY <1>3, <2>1 DEF Begins
  <2> QED
    BY <2>2, <2>3, <2>4 DEF Frame
<1>4. CASE ~(Len(crc) < Len(c))
  <2>1. t = [frame |-> Frame(T_CLOSE, Len(crc) % SeqLimit, crc), pc |-> "last",
             rfd |-> None, rcrc |-> <<>>]
    BY <1>4 DEF GetTurn
  <2>2. t.frame \in UpFrames /\ t.frame.ok
    BY <1>2, <2>1 DEF Frame, UpFrames, Bodies
  <2>3. Len(crc) = Len(c) /\ \A i \in 1 .. Len(crc) : crc[i] = c[i]
    BY <1>1, <1>4 DEF Begins
  <2>4. crc = c
    BY <2>3
  <2> QED
    BY <2>1, <2>2, <2>4 DEF Frame
<1> QED
  BY <1>3, <1>4

\* What .h_get starts: with fewer handles in use than there are, the file.
LEMMA GetStarts ==
    ASSUME Get, KernelOK, cwd = Root, down # <<>>, Head(down) \in DownFrames
    PROVE  LET f == Head(down)
               d == Directory(f.body[1])
               c == IF d = None THEN None ELSE disk[d][f.body[2]]
           IN \E close \in UpFrames :
                /\ up' = up \o <<Frame(T_ACK, f.seq, None), close>> /\ close.ok
                /\ close.type \in {T_DATA, T_CLOSE}
                /\ held' = held + Count(rfd' # None)
                /\ \/ /\ pc' = "get" /\ rfd' = <<d, f.body[2]>> /\ rcrc' \in Seq(Chunks)
                      /\ rfd' \in Directories \X Names
                      /\ c \in Seq(Chunks) /\ Begins(rcrc', c)
                      /\ close.type = T_DATA
                   \/ /\ pc' = "last" /\ rfd' = None /\ rcrc' = <<>>
                      /\ close.type = T_CLOSE
                      /\ held < MaxOpen => close.body = IF c = None THEN <<>> ELSE c
<1> DEFINE f == Head(down)
           d == Directory(f.body[1])
           n == f.body[2]
           c == IF d = None THEN None ELSE disk[d][n]
           opens == Content(f.body[1], n) # None /\ held < MaxOpen
           turn == IF opens THEN GetTurn(<<Resolve(f.body[1]), n>>, <<>>)
                   ELSE [frame |-> Frame(T_CLOSE, 0, <<>>), pc |-> "last",
                         rfd |-> None, rcrc |-> <<>>]
<1>1. f.body[1] \in Parts /\ n \in Names /\ f.seq \in 0 .. SeqLimit - 1
  BY DownBodies DEF Get, Arrives
<1>2. /\ Resolve(f.body[1]) = d /\ d \in Directories \cup {None}
      /\ Content(f.body[1], n) = c /\ c \in {None} \cup Seq(Chunks)
      /\ c # None => d \in Directories
  BY <1>1, Resolved DEF KernelOK
<1>3. /\ pc' = turn.pc /\ rfd' = turn.rfd /\ rcrc' = turn.rcrc
      /\ held' = held + Count(turn.rfd # None)
      /\ up' = up \o <<Frame(T_ACK, f.seq, None), turn.frame>>
  BY DEF Get, Answer, Ack
<1>4. CASE opens
  <2> DEFINE p == <<d, n>>
  <2>1. turn = GetTurn(p, <<>>)
    BY <1>2, <1>4
  <2>2. /\ p \in Directories \X Names /\ c \in Seq(Chunks)
        /\ c = disk[p[1]][p[2]]
        /\ <<>> \in Seq(Chunks)
    BY <1>1, <1>2, <1>4, SMTT(30)
  <2>3. Begins(<<>>, c)
    BY <2>2, SMTT(30) DEF Begins
  <2> HIDE DEF c, p
  <2>4. LET t == GetTurn(p, <<>>)
        IN /\ t.frame \in UpFrames /\ t.frame.ok
           /\ \/ /\ t.pc = "get" /\ t.rfd = p /\ t.rcrc \in Seq(Chunks)
                 /\ Begins(t.rcrc, c) /\ t.frame.type = T_DATA
              \/ /\ t.pc = "last" /\ t.rfd = None /\ t.rcrc = <<>>
                 /\ t.frame.type = T_CLOSE /\ t.frame.body = c
    BY <2>2, <2>3, GetTurns, ZenonT(30)
  <2>5. c # None
    BY <2>2, MarksAssumption
  <2> HIDE DEF d, n, f, turn
  <2> QED
    BY <1>3, <2>1, <2>2, <2>4, <2>5 DEF c, d, f, n, p
<1>5. CASE ~opens
  <2>1. turn = [frame |-> Frame(T_CLOSE, 0, <<>>), pc |-> "last", rfd |-> None, rcrc |-> <<>>]
    BY <1>5
  <2>2. turn.frame \in UpFrames /\ turn.frame.ok /\ turn.frame.type = T_CLOSE
        /\ turn.frame.body = <<>>
    <3> HIDE DEF turn
    <3>1. 0 \in 0 .. SeqLimit - 1 /\ <<>> \in Seq(Chunks)
      BY XferAssumption
    <3> QED
      BY <2>1, <3>1 DEF Frame, UpFrames, Bodies
  <2>3. held < MaxOpen => c = None
    BY <1>2, <1>5
  <2> HIDE DEF c, d, f, n, turn, opens
  <2> QED
    BY <1>3, <2>1, <2>2, <2>3 DEF c, d, f, n
<1> QED
  BY <1>4, <1>5

\* What a turn of serve_list sends and leaves.
LEMMA ListTurns ==
    ASSUME NEW s \in Seq(Names \cup SubDirs)
    PROVE  LET t == ListTurn(s)
           IN /\ t.frame \in UpFrames /\ t.frame.ok
              /\ t.todo \in Seq(Names \cup SubDirs)
              /\ \/ /\ s # <<>> /\ t.pc = "list" /\ t.todo = Tail(s)
                    /\ t.frame.type = T_ENTRY /\ t.frame.body = s[1]
                 \/ /\ s = <<>> /\ t.pc = "last" /\ t.frame.type = T_CLOSE
<1>1. 0 \in 0 .. SeqLimit - 1
  BY XferAssumption
<1>2. CASE s # <<>>
  <2>1. Head(s) = s[1] /\ Head(s) \in Items /\ Tail(s) \in Seq(Names \cup SubDirs)
    BY <1>2, LineTail DEF Items
  <2> QED
    BY <1>1, <1>2, <2>1 DEF ListTurn, Frame, UpFrames, Bodies, Items
<1>3. CASE s = <<>>
  BY <1>1, <1>3 DEF ListTurn, Frame, UpFrames, Bodies, Items
<1> QED
  BY <1>2, <1>3
\* What each step does to the agent's place in a stream.
LEMMA StreamStep ==
    ASSUME Careful, AgentOK, down \in Seq(DownFrames), AgentStep \/ UserStep
    PROVE  StreamOK'
<1> DEFINE f == Head(down)
<1> USE MarksAssumption
<1>0. KernelOK /\ StreamOK /\ HandlesOK /\ Root \in Directories
      /\ (down # <<>> => f \in DownFrames)
  BY LineTail DEF AgentOK, Directories
<1>1. CASE Get /\ pc = "main" /\ down # <<>>
  <2>1. cwd = Root
    BY <1>0, <1>1 DEF HandlesOK
  <2>2. UNCHANGED <<disk, todo, saved>>
    BY <1>1 DEF Get
  <2> DEFINE d == Directory(f.body[1])
             c == IF d = None THEN None ELSE disk[d][f.body[2]]
  <2>3. \/ /\ pc' = "get" /\ rfd' = <<d, f.body[2]>> /\ rcrc' \in Seq(Chunks)
           /\ rfd' \in Directories \X Names
           /\ c \in Seq(Chunks) /\ Begins(rcrc', c)
        \/ pc' = "last" /\ rfd' = None /\ rcrc' = <<>>
    BY <1>0, <1>1, <2>1, GetStarts
  <2> HIDE DEF f
  <2>4. CASE pc' = "get" /\ rfd' = <<d, f.body[2]>> /\ rcrc' \in Seq(Chunks)
             /\ rfd' \in Directories \X Names /\ c \in Seq(Chunks) /\ Begins(rcrc', c)
    <3> HIDE DEF d
    <3>1. d \in Directories /\ rfd'[1] = d /\ rfd'[2] = f.body[2] /\ rfd' # None
      BY <2>4
    <3>2. d # None
      BY <3>1
    <3>3. c = disk'[rfd'[1]][rfd'[2]]
      BY <2>2, <3>1, <3>2
    <3> HIDE DEF c
    <3>4. disk'[rfd'[1]][rfd'[2]] \in Seq(Chunks) /\ Begins(rcrc', disk'[rfd'[1]][rfd'[2]])
      BY <2>4, <3>3
    <3> QED
      BY <1>0, <2>2, <2>4, <3>1, <3>4 DEF StreamOK, Begins
  <2>5. CASE pc' = "last" /\ rfd' = None /\ rcrc' = <<>>
    BY <1>0, <2>2, <2>5 DEF StreamOK, Begins
  <2> QED
    BY <2>3, <2>4, <2>5
<1>2. CASE GetNext /\ pc = "get"
  <2>1. /\ rfd \in Directories \X Names /\ rcrc \in Seq(Chunks)
        /\ disk[rfd[1]][rfd[2]] \in Seq(Chunks) /\ Begins(rcrc, disk[rfd[1]][rfd[2]])
    BY <1>0, <1>2 DEF StreamOK
  <2>2. \/ /\ pc' = "get" /\ rfd' = rfd /\ rcrc' \in Seq(Chunks)
           /\ Begins(rcrc', disk[rfd[1]][rfd[2]])
        \/ pc' = "last" /\ rfd' = None /\ rcrc' = <<>>
    BY <1>2, <2>1, GetTurns, SMTT(30) DEF GetNext
  <2>3. UNCHANGED <<disk, todo, saved>>
    BY <1>2 DEF GetNext
  <2>4. CASE pc' = "get" /\ rfd' = rfd /\ rcrc' \in Seq(Chunks)
             /\ Begins(rcrc', disk[rfd[1]][rfd[2]])
    <3>1. rfd # None /\ disk'[rfd'[1]][rfd'[2]] = disk[rfd[1]][rfd[2]]
      BY <2>1, <2>3, <2>4
    <3>2. Begins(rcrc', disk'[rfd'[1]][rfd'[2]]) /\ disk'[rfd'[1]][rfd'[2]] \in Seq(Chunks)
      BY <2>1, <2>4, <3>1
    <3> QED
      BY <1>0, <2>3, <2>4, <3>1, <3>2 DEF StreamOK, Begins
  <2>5. CASE pc' = "last" /\ rfd' = None /\ rcrc' = <<>>
    BY <1>0, <2>3, <2>5 DEF StreamOK
  <2> QED
    BY <2>2, <2>4, <2>5
<1>3. CASE List /\ pc = "main" /\ down # <<>>
  <2>1. f.body \in Parts /\ cwd = Root
    BY <1>0, <1>3, DownBodies DEF List, Arrives, HandlesOK
  <2> DEFINE d == Resolve(f.body)
             s == IF d = None THEN <<>> ELSE SetToSeq(EntriesOf(d))
             turn == ListTurn(s)
  <2>2. s \in Seq(Names \cup SubDirs)
    BY <1>0, EntriesListed
  <2>3. /\ pc' = turn.pc /\ todo' = turn.todo /\ UNCHANGED <<rfd, rcrc, disk>>
        /\ saved' = cwd \/ saved' = None
    BY <1>3 DEF List
  <2> HIDE DEF s
  <2>4. turn.todo \in Seq(Names \cup SubDirs) /\ turn.pc \in {"list", "last"}
    BY <2>2, ListTurns
  <2> HIDE DEF turn
  <2> QED
    BY <1>0, <1>3, <2>1, <2>3, <2>4 DEF StreamOK, Begins
<1>4. CASE ListNext /\ pc = "list"
  <2>1. pc' = ListTurn(todo).pc /\ todo' = ListTurn(todo).todo /\ UNCHANGED <<rfd, rcrc, disk>>
        /\ (saved' = saved \/ saved' = None)
    BY <1>4 DEF ListNext
  <2>2. todo' \in Seq(Names \cup SubDirs) /\ pc' \in {"list", "last"}
    BY <1>0, <2>1, ListTurns DEF StreamOK
  <2> QED
    BY <1>0, <1>4, <2>1, <2>2 DEF StreamOK, Begins
<1>5. CASE LastAcked /\ pc = "last"
  BY <1>0, <1>5 DEF LastAcked, StreamOK, kernelVars
<1>6. CASE Quit \/ KeyQ
  <2>1. pc' = "off" /\ rfd' = None /\ rcrc' = <<>> /\ todo' = <<>> /\ saved' = None
    BY <1>6 DEF Quit, KeyQ, DoQuit
  <2> QED
    BY <1>0, <2>1 DEF StreamOK
<1>7. CASE Start
  BY <1>0, <1>7 DEF Start, StreamOK
<1>8. CASE pc = "main" /\ UNCHANGED <<pc, rfd, rcrc, todo, saved>>
  BY <1>0, <1>8 DEF StreamOK
<1>9. CASE UserStep
  BY <1>6, <1>7, <1>9 DEF UserStep
<1>10. CASE pc = "main" /\ (Nak \/ Open \/ Data \/ Close \/ Other \/ Version \/ Mkdir \/ Rmd
                            \/ Del \/ Ren \/ Pread \/ Pwrite)
  <2>1. UNCHANGED <<pc, rfd, rcrc, todo, saved>>
    BY <1>10 DEF Nak, Open, Data, Close, Other, Version, Mkdir, Rmd, Del, Ren, Pread, Pwrite,
                 agentVars
  <2> QED
    BY <1>8, <1>10, <2>1
<1>11. CASE AgentStep
  BY <1>0, <1>1, <1>2, <1>3, <1>4, <1>5, <1>6, <1>10, <1>11, Dispatch
<1> QED
  BY <1>9, <1>11

\* The number of handles v_fd accounts for after it is given back.
LEMMA ReleasedOne ==
    ASSUME HandlesOK
    PROVE  Released = Count(rfd # None)
BY DEF HandlesOK, Released, Count

\* What each step does to the kernel handles and the current directory.
LEMMA HandlesStep ==
    ASSUME Careful, AgentOK, down \in Seq(DownFrames), AgentStep \/ UserStep
    PROVE  HandlesOK'
<1> DEFINE f == Head(down)
<1> USE MarksAssumption
<1>0. KernelOK /\ StreamOK /\ HandlesOK /\ Root \in Directories
      /\ (down # <<>> => f \in DownFrames)
  BY LineTail DEF AgentOK, Directories
<1>1. CASE Open /\ pc = "main" /\ down # <<>>
  <2>1. /\ Resolve(f.body[1]) \in Directories \cup {None} /\ f.body[2] \in Names
    <3>1. f.body \in Parts \X Names /\ cwd = Root
      BY <1>0, <1>1, DownBodies DEF Open, Arrives, HandlesOK
    <3> QED
      BY <1>0, <3>1, Resolved
  <2> DEFINE d == Resolve(f.body[1])
             made == d # None /\ Content(f.body[1], f.body[2]) = None /\ Released < MaxOpen
                     /\ Room
  <2>2. /\ fd' = IF made THEN <<d, f.body[2], 0>> ELSE None
        /\ held' = Released + Count(made)
        /\ UNCHANGED <<pc, rfd, saved, cwd>>
    BY <1>1 DEF Open
  <2> HIDE DEF f
  <2>3. CASE made
    <3>1. d \in Directories
      BY <2>1, <2>3
    <3> HIDE DEF d
    <3>2. <<d, f.body[2], 0>> \in Directories \X Names \X Nat
      BY <2>1, <3>1
    <3>3. fd' # None /\ held' = Released + 1
      BY <2>2, <2>3, <3>2 DEF Count
    <3> QED
      BY <1>0, <1>1, <2>2, <3>3, ReleasedOne DEF HandlesOK, Count
  <2>4. CASE ~made
    <3>1. fd' = None /\ held' = Released + 0
      BY <2>2, <2>4 DEF Count
    <3> QED
      BY <1>0, <1>1, <2>2, <3>1, ReleasedOne DEF HandlesOK, Count
  <2> QED
    BY <2>3, <2>4
<1>2. CASE Data \/ Del \/ Ren
  <2>1. UNCHANGED <<pc, rfd, saved, cwd, held>>
    BY <1>2 DEF Data, Del, Ren
  <2>2. (fd = None) <=> (fd' = None)
    <3>1. CASE fd' = fd
      BY <3>1
    <3>2. CASE fd' = Gone /\ fd \notin {None, Gone}
      BY <3>2
    <3>3. CASE fd \notin {None, Gone} /\ fd' # fd /\ fd' # Gone
      <4>1. fd \in Directories \X Names \X Nat /\ fd' # fd /\ fd' # Gone
        BY <1>0, <3>3 DEF KernelOK
      <4>2. fd[3] \in Nat /\ cwd \in Directories
        BY <1>0, <4>1 DEF KernelOK
      <4>3. CASE Data
        BY <4>1, <4>3 DEF Data
      <4>4. CASE Del
        BY <4>1, <4>4 DEF Del
      <4>5. CASE Ren
        <5>1. down # <<>> /\ f.body[2] \in Names
          BY <1>0, <4>5, DownBodies DEF Ren, Arrives
        <5>2. fd' = <<cwd, f.body[2], fd[3]>>
          BY <4>1, <4>5 DEF Ren
        <5> HIDE DEF f
        <5>3. fd' \in Directories \X Names \X Nat
          BY <4>2, <5>1, <5>2
        <5> QED
          BY <4>1, <5>3
      <4> QED
        BY <1>2, <4>3, <4>4, <4>5
    <3>4. fd \in {None, Gone} => fd' = fd
      BY <1>2 DEF Data, Del, Ren, WritesTo
    <3> QED
      BY <3>1, <3>2, <3>3, <3>4
  <2> QED
    BY <1>0, <2>1, <2>2 DEF HandlesOK, Count
<1>3. CASE Close
  BY <1>0, <1>3, ReleasedOne DEF Close, HandlesOK, Count
<1>4. CASE Nak \/ Other \/ Version \/ Mkdir \/ Rmd \/ Pread \/ Pwrite
  <2>1. UNCHANGED <<pc, fd, rfd, saved, cwd, held>>
    BY <1>4 DEF Nak, Other, Version, Mkdir, Rmd, Pread, Pwrite, agentVars, kernelVars
  <2> QED
    BY <1>0, <2>1 DEF HandlesOK
<1>5. CASE Get /\ pc = "main" /\ down # <<>>
  <2>1. cwd = Root /\ rfd = None
    BY <1>0, <1>5 DEF HandlesOK, StreamOK
  <2>2. UNCHANGED <<fd, cwd>>
    BY <1>5 DEF Get
  <2>3. held' = held + Count(rfd' # None) /\ pc' \in {"get", "last"}
    BY <1>0, <1>5, <2>1, GetStarts
  <2> QED
    BY <1>0, <2>1, <2>2, <2>3 DEF HandlesOK, Count
<1>6. CASE GetNext /\ pc = "get"
  <2>1. /\ rfd \in Directories \X Names /\ rcrc \in Seq(Chunks)
        /\ disk[rfd[1]][rfd[2]] \in Seq(Chunks) /\ Begins(rcrc, disk[rfd[1]][rfd[2]])
    BY <1>0, <1>6 DEF StreamOK
  <2>2. (pc' = "get" /\ rfd' = rfd) \/ (pc' = "last" /\ rfd' = None)
    BY <1>6, <2>1, GetTurns DEF GetNext
  <2>3. UNCHANGED <<fd, cwd>> /\ held' = held - Count(rfd' = None)
    BY <1>6 DEF GetNext
  <2> QED
    BY <1>0, <1>6, <2>1, <2>2, <2>3 DEF HandlesOK, Count
<1>7. CASE List /\ pc = "main" /\ down # <<>>
  <2>1. f.body \in Parts /\ cwd = Root
    BY <1>0, <1>7, DownBodies DEF List, Arrives, HandlesOK
  <2> DEFINE d == Resolve(f.body)
             s == IF d = None THEN <<>> ELSE SetToSeq(EntriesOf(d))
             turn == ListTurn(s)
             away == f.body # None /\ d # None /\ turn.pc = "list"
  <2>2. s \in Seq(Names \cup SubDirs)
    BY <1>0, EntriesListed
  <2>3. /\ pc' = turn.pc /\ UNCHANGED <<fd, rfd, held>>
        /\ cwd' = IF away THEN d ELSE cwd
        /\ saved' = IF away THEN cwd ELSE None
    BY <1>7 DEF List
  <2> HIDE DEF s
  <2>4. turn.pc \in {"list", "last"}
    BY <2>2, ListTurns
  <2>5. away => pc' = "list"
    BY <2>3
  <2> HIDE DEF turn, away
  <2> QED
    BY <1>0, <1>7, <2>1, <2>3, <2>4, <2>5 DEF HandlesOK
<1>8. CASE ListNext /\ pc = "list"
  <2>1. /\ pc' = ListTurn(todo).pc /\ UNCHANGED <<fd, rfd, held>>
        /\ cwd' = CwdRestored(pc' = "last")
        /\ saved' = IF pc' = "last" THEN None ELSE saved
    BY <1>8 DEF ListNext
  <2>2. pc' \in {"list", "last"}
    BY <1>0, <2>1, ListTurns DEF StreamOK
  <2> QED
    BY <1>0, <1>8, <2>1, <2>2 DEF HandlesOK, CwdRestored
<1>9. CASE LastAcked /\ pc = "last"
  BY <1>0, <1>9 DEF LastAcked, HandlesOK, kernelVars
<1>10. CASE (Quit \/ KeyQ) /\ pc = "main"
  <2>1. pc' = "off" /\ fd' = None /\ rfd' = None /\ held' = Released /\ cwd' = cwd /\ rfd = None
    BY <1>0, <1>10 DEF Quit, KeyQ, DoQuit, StreamOK
  <2> QED
    BY <1>0, <1>10, <2>1, ReleasedOne DEF HandlesOK, Count
<1>11. CASE Start
  BY <1>0, <1>11 DEF Start, HandlesOK, kernelVars
<1>12. CASE UserStep
  <2>1. KeyQ => pc = "main"
    BY DEF KeyQ, MayQuit, Careful
  <2> QED
    BY <1>10, <1>11, <1>12, <2>1 DEF UserStep
<1>13. CASE AgentStep
  BY <1>0, <1>1, <1>2, <1>3, <1>4, <1>5, <1>6, <1>7, <1>8, <1>9, <1>10, <1>13, Dispatch
<1> QED
  BY <1>12, <1>13

LEMMA AgentKept ==
    ASSUME Careful, AgentOK, down \in Seq(DownFrames), AgentStep \/ UserStep
    PROVE  AgentOK'
BY KernelStep, StreamStep, HandlesStep DEF AgentOK
---------------------------------------------------------------------------
(* Frames under way, whatever the agent and its user do.                   *)

\* The only acknowledgement among the frames of a step is the first of them,
\* and it has the number of the command obeyed.
Replies(frames, f) ==
    \A i \in DOMAIN frames : frames[i].type = T_ACK =>
        i = 1 /\ frames[i].seq = f.seq /\ f.ok /\ pc = "main"

LEMMA OneReply ==
    ASSUME NEW f \in DownFrames, NEW t \in {T_ACK, T_NAK}, NEW b \in Bodies,
           t = T_ACK => f.ok /\ pc = "main"
    PROVE  <<Frame(t, f.seq, b)>> \in Seq(UpFrames) /\ Replies(<<Frame(t, f.seq, b)>>, f)
<1>1. f.seq \in 0 .. SeqLimit - 1
  BY DownBodies
<1>2. Frame(t, f.seq, b) \in UpFrames
  BY <1>1 DEF Frame, UpFrames, Bodies
<1>3. <<Frame(t, f.seq, b)>> \in Seq(UpFrames)
  BY <1>2
<1>4. \A i \in DOMAIN <<Frame(t, f.seq, b)>> : i = 1 /\ <<Frame(t, f.seq, b)>>[i] = Frame(t, f.seq, b)
  OBVIOUS
<1> QED
  BY <1>3, <1>4 DEF Replies, Frame

LEMMA OneMore ==
    ASSUME NEW f, NEW g \in UpFrames, g.type # T_ACK
    PROVE  <<g>> \in Seq(UpFrames) /\ Replies(<<g>>, f)
BY DEF Replies

LEMMA ReplyAndMore ==
    ASSUME NEW f, NEW a \in UpFrames, NEW g \in UpFrames, g.type # T_ACK,
           a.seq = f.seq, f.ok, pc = "main"
    PROVE  <<a, g>> \in Seq(UpFrames) /\ Replies(<<a, g>>, f)
BY DEF Replies

LEMMA FramesStep ==
    ASSUME Careful, AgentOK, down \in Seq(DownFrames), up \in Seq(UpFrames), AgentStep
    PROVE  \E frames \in Seq(UpFrames) : up' = up \o frames /\ Replies(frames, Head(down))
<1> DEFINE f == Head(down)
<1>0. /\ KernelOK /\ StreamOK /\ HandlesOK
      /\ f \in DownFrames /\ down # <<>>
      /\ None \in Bodies /\ {0, 1} \subseteq Bodies /\ Chunks \subseteq Bodies
  BY Dispatch, LineTail DEF AgentOK, Bodies, Items
<1>1. CASE Nak
  <2>1. up' = up \o <<Frame(T_NAK, f.seq, None)>>
    BY <1>1 DEF Nak, Answer
  <2>2. <<Frame(T_NAK, f.seq, None)>> \in Seq(UpFrames) /\ Replies(<<Frame(T_NAK, f.seq, None)>>, f)
    <3>1. T_NAK \in {T_ACK, T_NAK} /\ T_NAK # T_ACK
      OBVIOUS
    <3> HIDE DEF f
    <3> QED
      BY <1>0, <3>1, OneReply
  <2> QED
    BY <2>1, <2>2
<1>2. CASE pc = "main" /\ f.ok /\ (Open \/ Data \/ Other \/ Mkdir)
  BY <1>0, <1>2, OneReply DEF Open, Data, Other, Mkdir, Answer, Ack
<1>3. CASE pc = "main" /\ f.ok /\ (Close \/ Version \/ Rmd \/ Del \/ Ren \/ Pwrite)
  <2>1. \E b \in {0, 1} : up' = up \o <<Frame(T_ACK, f.seq, b)>>
    BY <1>3 DEF Close, Version, Rmd, Del, Ren, Pwrite, Answer, Ack, Verdict, Status, Count
  <2> QED
    BY <1>0, <1>3, <2>1, OneReply
<1>4. CASE pc = "main" /\ f.ok /\ Pread
  <2> DEFINE c == Content(f.body[1], f.body[2])
             off == SeekTo(c, f.body[3])
             b == IF c # None /\ held < MaxOpen /\ off < Len(c) THEN c[off + 1] ELSE None
  <2>1. f.body \in Parts \X Names \X Nat /\ cwd = Root
    BY <1>0, <1>4, DownBodies DEF Pread, Arrives, HandlesOK
  <2>2. c \in {None} \cup Seq(Chunks) /\ f.body[3] \in Nat
    BY <1>0, <2>1, Resolved
  <2>3. up' = up \o <<Frame(T_ACK, f.seq, b)>>
    BY <1>4 DEF Pread, Answer, Ack
  <2> HIDE DEF c, f
  <2>4. b \in Chunks \cup {None}
    BY <2>2 DEF SeekTo
  <2> HIDE DEF b
  <2> QED
    BY <1>0, <1>4, <2>3, <2>4, OneReply DEF f
<1>5. CASE pc = "main" /\ f.ok /\ Get
  <2>1. cwd = Root
    BY <1>0, <1>5 DEF HandlesOK
  <2>2. PICK close \in UpFrames : /\ up' = up \o <<Frame(T_ACK, f.seq, None), close>>
                                  /\ close.type \in {T_DATA, T_CLOSE}
    BY <1>0, <1>5, <2>1, GetStarts
  <2>3. Frame(T_ACK, f.seq, None) \in UpFrames
    BY <1>0, DownBodies DEF Frame, UpFrames, Bodies
  <2> DEFINE a == Frame(T_ACK, f.seq, None)
  <2>4. a.type = T_ACK /\ a.seq = f.seq
    BY DEF Frame
  <2> HIDE DEF a, f
  <2> QED
    <3>1. close.type # T_ACK /\ a \in UpFrames
      BY <2>2, <2>3 DEF a, f
    <3>2. <<a, close>> \in Seq(UpFrames) /\ Replies(<<a, close>>, f)
      BY <1>5, <2>4, <3>1, ReplyAndMore DEF f
    <3> QED
      BY <2>2, <3>2 DEF a, f
<1>6. CASE pc = "main" /\ f.ok /\ List
  <2> DEFINE d == Resolve(f.body)
             s == IF d = None THEN <<>> ELSE SetToSeq(EntriesOf(d))
             turn == ListTurn(s)
             a == Frame(T_ACK, f.seq, None)
  <2>1. s \in Seq(Names \cup SubDirs)
    BY <1>0, EntriesListed
  <2>2. up' = up \o <<a, turn.frame>>
    BY <1>6 DEF List, Answer, Ack
  <2>3. turn.frame \in UpFrames /\ turn.frame.type \in {T_ENTRY, T_CLOSE}
    <3> HIDE DEF s
    <3> QED
      BY <2>1, ListTurns
  <2>4. a \in UpFrames /\ a.type = T_ACK /\ a.seq = f.seq
    BY <1>0, DownBodies DEF Frame, UpFrames, Bodies
  <2> HIDE DEF a, f, turn
  <2>5. turn.frame.type # T_ACK
    BY <2>3
  <2>6. <<a, turn.frame>> \in Seq(UpFrames) /\ Replies(<<a, turn.frame>>, f)
    BY <1>6, <2>3, <2>4, <2>5, ReplyAndMore
  <2> QED
    BY <2>2, <2>6 DEF f
<1>7. CASE GetNext /\ pc = "get"
  <2> DEFINE t == GetTurn(rfd, rcrc)
  <2>1. t.frame \in UpFrames /\ t.frame.type \in {T_DATA, T_CLOSE}
    <3>1. /\ rfd \in Directories \X Names /\ rcrc \in Seq(Chunks)
          /\ disk[rfd[1]][rfd[2]] \in Seq(Chunks) /\ Begins(rcrc, disk[rfd[1]][rfd[2]])
      BY <1>0, <1>7 DEF StreamOK
    <3> QED
      BY <3>1, GetTurns
  <2>2. up' = up \o <<t.frame>>
    BY <1>7 DEF GetNext, Answer
  <2> HIDE DEF t
  <2>3. t.frame.type # T_ACK
    BY <2>1
  <2> QED
    BY <2>1, <2>2, <2>3, OneMore
<1>8. CASE ListNext /\ pc = "list"
  <2> DEFINE t == ListTurn(todo)
  <2>1. t.frame \in UpFrames /\ t.frame.type \in {T_ENTRY, T_CLOSE}
    BY <1>0, ListTurns DEF StreamOK
  <2>2. up' = up \o <<t.frame>>
    BY <1>8 DEF ListNext, Answer
  <2> HIDE DEF t
  <2>3. t.frame.type # T_ACK
    BY <2>1
  <2> QED
    BY <2>1, <2>2, <2>3, OneMore
<1>9. CASE pc = "main" /\ f.ok /\ Quit
  BY <1>0, <1>9, OneReply DEF Quit, Answer, Ack
<1> QED
  <2>1. CASE LastAcked
    <3>1. up' = up \o <<>> /\ <<>> \in Seq(UpFrames)
      BY <2>1 DEF LastAcked
    <3>2. Replies(<<>>, f)
      BY DEF Replies
    <3> QED
      BY <3>1, <3>2
  <2> QED
    BY <1>0, <1>1, <1>2, <1>3, <1>4, <1>5, <1>6, <1>7, <1>8, <1>9, <2>1, Dispatch
---------------------------------------------------------------------------
(* The host's steps.                                                       *)

\* A frame the host sends for the first time has a number of its own.
LEMMA Begun ==
    ASSUME Careful, host \in Hosts, down \in Seq(DownFrames), up \in Seq(UpFrames),
           NEW job \in Jobs, NEW k, StepOf(job, k), NEW line, Begin(job, k, line)
    PROVE  /\ host' \in Hosts /\ host'.phase = "reply" /\ host'.job = job /\ host'.step = k
           /\ host'.got = <<>> /\ (k = 0 => ~host'.hit)
           /\ \A i \in DOMAIN down : down[i].seq # host'.seq
           /\ \A i \in DOMAIN up : up[i].seq # host'.seq
           /\ down' = Append(line, Request(job, k, host'.seq))
           /\ Request(job, k, host'.seq) \in DownFrames
           /\ Request(job, k, host'.seq).seq = host'.seq
           /\ Copy(Request(job, k, host'.seq), job, k)
<1>1. PICK seq \in NextSeqs :
        /\ host' = [host EXCEPT !.phase = "reply", !.job = job, !.step = k, !.seq = seq,
                                !.got = <<>>, !.hit = IF k = 0 THEN FALSE ELSE @]
        /\ down' = Append(line, Request(job, k, seq))
  BY DEF Begin
<1>2. seq \in 0 .. SeqLimit - 1 /\ seq \notin UnderWay
  BY DEF NextSeqs, Careful
<1>3. k \in Nat /\ <<>> \in Seq(Bodies)
  BY DEF StepOf
<1>4. host' \in Hosts /\ host'.phase = "reply" /\ host'.job = job /\ host'.step = k
      /\ host'.got = <<>> /\ (k = 0 => ~host'.hit) /\ host'.seq = seq
  BY <1>1, <1>2, <1>3 DEF Hosts
<1>5. /\ \A i \in DOMAIN down : down[i].seq # seq
      /\ \A i \in DOMAIN up : up[i].seq # seq
  BY <1>2 DEF UnderWay
<1> QED
  BY <1>1, <1>2, <1>4, <1>5, Requests

\* The host says nothing new of itself: it waits for the same.
SameHost == /\ host'.phase = host.phase /\ host'.job = host.job /\ host'.step = host.step
            /\ host'.seq = host.seq

LEMMA HitIs ==
    ASSUME host \in Hosts, Hit
    PROVE  /\ host' \in Hosts /\ SameHost /\ host'.got = host.got
           /\ (host.phase # "idle" /\ host.job.op = T_LIST) => host'.hit
BY DEF Hit, Hosts, SameHost

\* The ways a job ends well.
LEMMA EndsIs ==
    ASSUME NEW value, Ends(value)
    PROVE  /\ host' = Resting /\ host'.phase = "idle"
           /\ result' # None =>
                 /\ result'.job = host.job /\ result'.value = value /\ result'.hit = host.hit
                 /\ host.job.op \in {T_OPEN, T_GET, T_LIST} \/ value = 0
BY DEF Ends, Resting

LEMMA RestingHost == Resting \in Hosts
<1>1. 0 \in 0 .. SeqLimit - 1 /\ <<>> \in Seq(Bodies)
  BY XferAssumption
<1> QED
  BY <1>1 DEF Resting, Hosts

\* What HostReceive does with a frame, by the host's phase and the frame.
Ignored == UNCHANGED <<down, host, result>>
AnotherStep == /\ host.phase = "reply" /\ host.job.op = T_OPEN
               /\ host.step + 1 \in 1 .. LastStep(host.job)
               /\ Begin(host.job, host.step + 1, down) /\ UNCHANGED result
AllAgain(line) == Begin(host.job, 0, line) /\ UNCHANGED result

LEMMA Received ==
    ASSUME HostOK, HostReceive
    PROVE  LET f == Head(up)
               mine == host.phase = "reply" /\ f.ok /\ Answers(f)
           IN /\ up # <<>> /\ up' = Tail(up) /\ UNCHANGED <<agentVars, kernelVars, dropped, faults>>
              /\ \/ mine /\ AnotherStep
                 \/ mine /\ host.job.op = T_OPEN /\ AllAgain(down)
                 \/ /\ mine /\ Streams(host.job) /\ UNCHANGED <<down, result>>
                    /\ host' = [host EXCEPT !.phase = "stream"]
                 \/ /\ mine /\ ~Streams(host.job) /\ Ends(f.body) /\ UNCHANGED down
                    /\ host.step = LastStep(host.job)
                    /\ host.job.op = T_OPEN => f.body = 0
                 \/ /\ ~mine /\ host.phase = "reply" /\ Resend /\ UNCHANGED <<host, result>>
                 \/ /\ ~mine /\ host.phase # "stream" /\ Ignored
                 \/ /\ host.phase = "stream" /\ ~f.ok /\ Hit /\ UNCHANGED result
                    /\ down' = Append(down, Frame(T_NAK, f.seq, None))
                 \/ /\ host.phase = "stream" /\ f.ok /\ f.type \in {T_DATA, T_ENTRY}
                    /\ down' = Append(down, Frame(T_ACK, f.seq, None))
                    /\ host' = [host EXCEPT !.got = Append(@, f.body)] /\ UNCHANGED result
                 \/ /\ host.phase = "stream" /\ f.ok /\ f.type = T_CLOSE
                    /\ down' = Append(down, Frame(T_ACK, f.seq, None))
                    /\ host.job.op = T_LIST \/ f.body = host.got
                    /\ Ends(host.got)
                 \/ /\ host.phase = "stream" /\ f.ok /\ f.type = T_CLOSE /\ host.job.op # T_LIST
                    /\ AllAgain(Append(down, Frame(T_ACK, f.seq, None)))
                 \/ /\ host.phase = "stream" /\ f.ok /\ f.type \notin {T_DATA, T_ENTRY, T_CLOSE}
                    /\ Ignored
<1> DEFINE f == Head(up)
<1>0. /\ up # <<>> /\ up' = Tail(up) /\ UNCHANGED <<agentVars, kernelVars, dropped, faults>>
  BY DEF HostReceive
<1>1. CASE host.phase = "reply" /\ f.ok /\ f.seq = host.seq /\ f.type = T_ACK
  <2>1. Replied(f.body)
    BY <1>1 DEF HostReceive
  <2>2. Answers(f) /\ host.phase = "reply" /\ f.ok
    BY <1>1 DEF Answers
  <2>3. /\ host.job \in Jobs /\ host.step \in Nat
        /\ host.step = 0 \/ (host.job.op = T_OPEN /\ host.step <= Len(host.job.content) + 1)
        /\ host.job.op = T_OPEN => Len(host.job.content) \in Nat
    BY <1>1, JobsAssumption DEF HostOK, Hosts
  <2>4. CASE host.job.op = T_OPEN /\ host.step < Len(host.job.content) + 1
    <3>1. AnotherStep
      BY <1>1, <2>1, <2>3, <2>4 DEF Replied, AnotherStep, LastStep
    <3> QED
      BY <1>0, <2>2, <3>1
  <2>5. CASE host.job.op = T_OPEN /\ ~(host.step < Len(host.job.content) + 1) /\ f.body # 0
    <3>1. AllAgain(down)
      BY <1>1, <2>1, <2>5 DEF Replied, AllAgain
    <3> QED
      BY <1>0, <2>2, <2>5, <3>1
  <2>6. CASE Streams(host.job)
    <3>1. host' = [host EXCEPT !.phase = "stream"] /\ UNCHANGED <<down, result>>
      BY <1>1, <2>1, <2>6 DEF Replied, Streams
    <3> QED
      BY <1>0, <2>2, <2>6, <3>1
  <2>7. CASE ~Streams(host.job) /\ ~(host.job.op = T_OPEN /\ host.step < Len(host.job.content) + 1)
             /\ ~(host.job.op = T_OPEN /\ f.body # 0)
    <3>1. Ends(f.body) /\ UNCHANGED down
      BY <1>1, <2>1, <2>7 DEF Replied, Streams
    <3>2. host.step = LastStep(host.job)
      BY <2>3, <2>7 DEF LastStep
    <3> QED
      BY <1>0, <2>2, <2>7, <3>1, <3>2
  <2> QED
    BY <2>4, <2>5, <2>6, <2>7 DEF Streams
<1>2. CASE ~(host.phase = "reply" /\ f.ok /\ f.seq = host.seq /\ f.type = T_ACK)
           /\ host.phase # "stream"
  <2>1. ~(host.phase = "reply" /\ f.ok /\ Answers(f))
    BY <1>2 DEF Answers
  <2>2. (host.phase = "reply" /\ Resend /\ UNCHANGED <<host, result>>) \/ Ignored
    BY <1>2 DEF HostReceive, Ignored
  <2> QED
    BY <1>0, <1>2, <2>1, <2>2
<1>3. CASE host.phase = "stream"
  <2>1. Streamed(f)
    BY <1>3 DEF HostReceive
  <2> QED
    BY <1>0, <1>3, <2>1 DEF Streamed, Ignored, AllAgain
<1> QED
  BY <1>1, <1>2, <1>3
\* A request sent again.
LEMMA Resent ==
    ASSUME HostOK, host.phase = "reply", Resend
    PROVE  /\ Request(host.job, host.step, host.seq) \in DownFrames
           /\ Request(host.job, host.step, host.seq).seq = host.seq
           /\ Copy(Request(host.job, host.step, host.seq), host.job, host.step)
           /\ down' = Append(down, Request(host.job, host.step, host.seq))
<1>1. host.job \in Jobs /\ host.seq \in 0 .. SeqLimit - 1 /\ StepOf(host.job, host.step)
  BY JobsAssumption DEF HostOK, Hosts, StepOf, LastStep
<1> QED
  BY <1>1, Requests DEF Resend

LEMMA SameHostOK ==
    ASSUME HostOK, host' \in Hosts, SameHost, result' = result,
           down' \in Seq(DownFrames), up' \in Seq(UpFrames)
    PROVE  HostOK'
BY DEF HostOK, SameHost

LEMMA BegunHostOK ==
    ASSUME Careful, HostOK, NEW job \in Jobs, NEW k, StepOf(job, k),
           NEW line \in Seq(DownFrames), Begin(job, k, line),
           up' \in Seq(UpFrames), result' = None \/ (result' = result /\ host.phase # "idle")
    PROVE  HostOK' /\ result' = None
<1>1. /\ host' \in Hosts /\ host'.phase = "reply" /\ host'.job = job /\ host'.step = k
      /\ down' = Append(line, Request(job, k, host'.seq))
      /\ Request(job, k, host'.seq) \in DownFrames
  BY Begun DEF HostOK
<1>2. down' \in Seq(DownFrames)
  BY <1>1, LineAppend
<1>3. result' = None
  BY DEF HostOK
<1> QED
  BY <1>1, <1>2, <1>3 DEF HostOK, StepOf, LastStep

LEMMA RestingHostOK ==
    ASSUME HostOK, host' = Resting, down' \in Seq(DownFrames), up' \in Seq(UpFrames),
           result' # None => /\ result'.job \in Jobs
                             /\ result'.job.op = T_OPEN => result'.value = 0
    PROVE  HostOK'
BY RestingHost DEF HostOK, Resting

\* Every step keeps the frames, the host and the result well formed.
LEMMA HostStep ==
    ASSUME Careful, AgentOK, HostOK, [LinkNext]_vars
    PROVE  HostOK'
<1>0. /\ down \in Seq(DownFrames) /\ up \in Seq(UpFrames) /\ host \in Hosts
      /\ host.phase # "idle" => host.job \in Jobs /\ StepOf(host.job, 0) /\ result = None
  BY DEF HostOK, StepOf
<1>1. CASE UNCHANGED vars
  BY <1>0, <1>1, SameHostOK DEF vars, xferVars, linkVars, SameHost
<1>2. CASE Agent
  <2>1. AgentStep /\ UNCHANGED <<host, result>>
    BY <1>2 DEF Agent, linkVars
  <2>2. down' \in Seq(DownFrames)
    BY <1>0, <2>1, Dispatch, LineTail DEF AgentOK
  <2>3. up' \in Seq(UpFrames)
    <3>1. PICK frames \in Seq(UpFrames) : up' = up \o frames
      BY <1>0, <2>1, FramesStep
    <3> QED
      BY <1>0, <3>1, LineConcat
  <2> QED
    BY <1>0, <2>1, <2>2, <2>3, SameHostOK DEF SameHost
<1>3. CASE User
  <2>1. UNCHANGED <<host, result, up>> /\ (down' = down \/ down' = <<>>)
    BY <1>3 DEF User, UserStep, KeyQ, Start, linkVars
  <2>2. <<>> \in Seq(DownFrames)
    OBVIOUS
  <2>3. down' \in Seq(DownFrames) /\ up' \in Seq(UpFrames)
    BY <1>0, <2>1, <2>2
  <2> QED
    BY <1>0, <2>1, <2>3, SameHostOK DEF SameHost
<1>4. CASE HostReceive
  <2> DEFINE f == Head(up)
  <2>1. up # <<>> /\ up' = Tail(up)
    BY <1>4, Received
  <2>2. f \in UpFrames /\ up' \in Seq(UpFrames)
    BY <1>0, <2>1, LineTail
  <2>3. f.seq \in 0 .. SeqLimit - 1 /\ f.body \in Bodies
    BY <2>2 DEF UpFrames
  <2>4. /\ Append(down, Frame(T_NAK, f.seq, None)) \in Seq(DownFrames)
        /\ Append(down, Frame(T_ACK, f.seq, None)) \in Seq(DownFrames)
    BY <1>0, <2>3, Acknowledgements, LineAppend
  <2> DEFINE nak == Append(down, Frame(T_NAK, f.seq, None))
             ack == Append(down, Frame(T_ACK, f.seq, None))
  <2>5. CASE AnotherStep
    <3>1. host.job \in Jobs /\ StepOf(host.job, host.step + 1) /\ host.phase # "idle"
      BY <1>0, <2>5 DEF AnotherStep, StepOf, Hosts
    <3> QED
      BY <1>0, <2>2, <2>5, <3>1, BegunHostOK DEF AnotherStep
  <2>6. ASSUME NEW line \in Seq(DownFrames), AllAgain(line), host.phase # "idle"
        PROVE  HostOK'
    BY <1>0, <2>2, <2>6, BegunHostOK DEF AllAgain
  <2>7. CASE Streams(host.job) /\ host' = [host EXCEPT !.phase = "stream"]
             /\ UNCHANGED <<down, result>> /\ host.phase = "reply"
    <3>1. host' \in Hosts /\ host'.phase = "stream" /\ host'.job = host.job /\ host'.step = host.step
      BY <1>0, <2>7 DEF Hosts
    <3> QED
      BY <1>0, <2>2, <2>7, <3>1 DEF HostOK, Streams
  <2>8. CASE Ends(f.body) /\ UNCHANGED down /\ host.phase = "reply"
             /\ (host.job.op = T_OPEN => f.body = 0)
    BY <1>0, <2>2, <2>8, EndsIs, RestingHostOK
  <2>9. CASE host.phase = "reply" /\ Resend /\ UNCHANGED <<host, result>>
    <3>1. down' \in Seq(DownFrames)
      BY <1>0, <2>9, Resent, LineAppend
    <3> QED
      BY <1>0, <2>2, <2>9, <3>1, SameHostOK DEF SameHost
  <2>10. CASE Ignored
    BY <1>0, <2>2, <2>10, SameHostOK DEF SameHost, Ignored
  <2>11. CASE Hit /\ UNCHANGED result /\ down' = nak
    BY <1>0, <2>2, <2>4, <2>11, SameHostOK, HitIs
  <2>12. CASE host.phase = "stream" /\ f.type \in {T_DATA, T_ENTRY} /\ down' = ack
              /\ host' = [host EXCEPT !.got = Append(@, f.body)] /\ UNCHANGED result
    <3> HIDE DEF f
    <3>1. Append(host.got, f.body) \in Seq(Bodies)
      BY <1>0, <2>3 DEF Hosts
    <3>2. host' \in Hosts /\ SameHost
      BY <1>0, <2>12, <3>1 DEF Hosts, SameHost
    <3> QED
      BY <1>0, <2>2, <2>4, <2>12, <3>2, SameHostOK
  <2>13. CASE down' = ack /\ Ends(host.got) /\ host.phase = "stream"
    <3>1. host.job.op \in {T_GET, T_LIST}
      BY <2>13 DEF HostOK
    <3> QED
      BY <1>0, <2>2, <2>4, <2>13, <3>1, EndsIs, RestingHostOK
  <2> HIDE DEF f
  <2> QED
    BY <1>0, <1>4, <2>4, <2>5, <2>6, <2>7, <2>8, <2>9, <2>10, <2>11, <2>12, <2>13, Received DEF f
<1>5. CASE Timeout \/ EarlyTimeout
  <2>1. GiveUpWait
    BY <1>5 DEF Timeout, EarlyTimeout
  <2>2. CASE host.phase = "reply" /\ Resend /\ UNCHANGED <<host, up, result>>
    <3>1. down' \in Seq(DownFrames)
      BY <1>0, <2>2, Resent, LineAppend
    <3> QED
      BY <1>0, <2>2, <3>1, SameHostOK DEF SameHost
  <2>3. CASE host.phase = "stream" /\ Begin(host.job, 0, down) /\ UNCHANGED <<up, result>>
    BY <1>0, <2>3, BegunHostOK
  <2> QED
    BY <2>1, <2>2, <2>3 DEF GiveUpWait
<1>6. CASE Lose
  <2>1. Hit /\ UNCHANGED result
    BY <1>6 DEF Lose
  <2>2. down' \in Seq(DownFrames) /\ up' \in Seq(UpFrames)
    BY <1>0, <1>6, LineRemove DEF Lose
  <2> QED
    BY <1>0, <2>1, <2>2, SameHostOK, HitIs
<1>7. CASE Damage
  <2>1. Hit /\ UNCHANGED result
    BY <1>7 DEF Damage
  <2>2. \A g \in UpFrames : [g EXCEPT !.ok = FALSE] \in UpFrames
    BY DEF UpFrames
  <2>3. \A i \in DOMAIN down : down[i] \in DownFrames /\ [down[i] EXCEPT !.ok = FALSE] \in DownFrames
    BY <1>0, DownBodies
  <2>4. \A i \in DOMAIN up : [up[i] EXCEPT !.ok = FALSE] \in UpFrames
    BY <1>0, <2>2
  <2>5. down' \in Seq(DownFrames) /\ up' \in Seq(UpFrames)
    BY <1>0, <1>7, <2>3, <2>4, LineDamage DEF Damage
  <2> QED
    BY <1>0, <2>1, <2>5, SameHostOK, HitIs
<1>8. CASE Abandon
  <2>1. host' = Resting /\ UNCHANGED <<down, up, result>> /\ host.phase # "idle"
    BY <1>8 DEF Abandon, xferVars
  <2> QED
    BY <1>0, <2>1, RestingHostOK
<1>9. ASSUME NEW job \in Jobs, HostStart(job)
      PROVE  HostOK'
  <2>1. Begin(job, 0, down) /\ result' = None /\ up' = up /\ StepOf(job, 0)
    BY <1>9 DEF HostStart, StepOf
  <2> QED
    BY <1>0, <2>1, BegunHostOK
<1> QED
  BY <1>1, <1>2, <1>3, <1>4, <1>5, <1>6, <1>7, <1>8, <1>9 DEF LinkNext
---------------------------------------------------------------------------
(* Lines that only lose and damage frames.                                 *)

Alike(f, g) == f.type = g.type /\ f.seq = g.seq /\ f.body = g.body

\* Frames of a line, some of them damaged, in their order.
Thinned(new, old) ==
    \E place \in [DOMAIN new -> DOMAIN old] :
        /\ \A i, j \in DOMAIN new : i < j => place[i] < place[j]
        /\ \A i \in DOMAIN new : Alike(new[i], old[place[i]])

LEMMA ThinnedSame ==
    ASSUME NEW S, NEW s \in Seq(S)
    PROVE  Thinned(s, s)
<1> DEFINE place == [i \in DOMAIN s |-> i]
<1>1. place \in [DOMAIN s -> DOMAIN s] /\ \A i \in DOMAIN s : place[i] = i
  OBVIOUS
<1> HIDE DEF place
<1> QED
  BY <1>1 DEF Thinned, Alike

LEMMA ThinnedTail ==
    ASSUME NEW S, NEW s \in Seq(S), s # <<>>
    PROVE  Thinned(Tail(s), s)
<1> DEFINE t == Tail(s)
           place == [i \in DOMAIN t |-> i + 1]
<1>1. /\ \A i \in DOMAIN t : i + 1 \in DOMAIN s /\ t[i] = s[i + 1]
      /\ DOMAIN t \subseteq Int
  BY LineTail
<1>2. place \in [DOMAIN t -> DOMAIN s] /\ \A i \in DOMAIN t : place[i] = i + 1
  BY <1>1
<1> HIDE DEF place, t
<1>3. Thinned(t, s)
  BY <1>1, <1>2 DEF Thinned, Alike
<1> QED
  BY <1>3 DEF t

LEMMA ThinnedRemove ==
    ASSUME NEW S, NEW s \in Seq(S), NEW n \in DOMAIN s
    PROVE  Thinned(RemoveAt(s, n), s)
<1> DEFINE t == RemoveAt(s, n)
           place == [i \in DOMAIN t |-> IF i < n THEN i ELSE i + 1]
<1>1. /\ DOMAIN t = 1 .. Len(s) - 1 /\ DOMAIN s = 1 .. Len(s) /\ Len(s) \in Nat
      /\ \A i \in DOMAIN t : t[i] = IF i < n THEN s[i] ELSE s[i + 1]
  <2>1. DOMAIN t = 1 .. Len(s) - 1 /\ DOMAIN s = 1 .. Len(s) /\ Len(s) \in Nat
    BY LineRemove
  <2>2. \A i \in 1 .. Len(s) - 1 : t[i] = IF i < n THEN s[i] ELSE s[i + 1]
    BY LineRemove
  <2> QED
    BY <2>1, <2>2
<1> HIDE DEF t
<1>2. place \in [DOMAIN t -> DOMAIN s]
      /\ \A i \in DOMAIN t : place[i] = IF i < n THEN i ELSE i + 1
  BY <1>1
<1> HIDE DEF place
<1>3. \A i, j \in DOMAIN t : i < j => place[i] < place[j]
  BY <1>1, <1>2
<1>4. \A i \in DOMAIN t : t[i] = s[place[i]]
  BY <1>1, <1>2
<1>5. Thinned(t, s)
  BY <1>2, <1>3, <1>4 DEF Thinned, Alike
<1> QED
  BY <1>5 DEF t

LEMMA ThinnedDamage ==
    ASSUME NEW S, NEW s \in Seq(S), NEW n \in DOMAIN s,
           [s[n] EXCEPT !.ok = FALSE] \in S,
           Alike([s[n] EXCEPT !.ok = FALSE], s[n])
    PROVE  Thinned([s EXCEPT ![n].ok = FALSE], s)
<1> DEFINE t == [s EXCEPT ![n].ok = FALSE]
           place == [i \in DOMAIN s |-> i]
<1>1. /\ DOMAIN t = DOMAIN s
      /\ \A i \in DOMAIN s : i # n => t[i] = s[i]
      /\ t[n] = [s[n] EXCEPT !.ok = FALSE]
  BY LineDamage
<1> HIDE DEF t
<1>2. place \in [DOMAIN t -> DOMAIN s] /\ \A i \in DOMAIN s : place[i] = i
  BY <1>1
<1> HIDE DEF place
<1>3. \A i \in DOMAIN t : Alike(t[i], s[place[i]])
  BY <1>1, <1>2 DEF Alike
<1>4. Thinned(t, s)
  BY <1>1, <1>2, <1>3 DEF Thinned
<1> QED
  BY <1>4 DEF t

LEMMA AlikeCopy ==
    ASSUME NEW f, NEW g, Alike(f, g)
    PROVE  /\ f.seq = g.seq
           /\ \A job, k : Copy(f, job, k) <=> Copy(g, job, k)
           /\ \A job : Late(f, job) <=> Late(g, job)
           /\ Answers(f) <=> Answers(g)
BY DEF Alike, Copy, Late, Answers

\* What is on the line to the agent was there before, is one more copy of the
\* request the host waits on, or acknowledges a frame of a stream; and the
\* copies of the request are still the last.
DownKept ==
    /\ \A i \in DOMAIN down' :
          \/ \E j \in DOMAIN down : Alike(down'[i], down[j])
          \/ /\ host.phase = "reply" /\ down'[i].seq = host.seq
             /\ Copy(down'[i], host.job, host.step)
          \/ host.phase = "stream" /\ down'[i].type \in {T_ACK, T_NAK}
    /\ (host.phase = "reply" /\ LineOK) =>
          \A i, j \in DOMAIN down' : i < j /\ down'[i].seq = host.seq => down'[j].seq = host.seq

LEMMA DownThinned ==
    ASSUME HostOK, down' \in Seq(DownFrames), Thinned(down', down)
    PROVE  DownKept
<1>1. PICK place \in [DOMAIN down' -> DOMAIN down] :
        /\ \A i, j \in DOMAIN down' : i < j => place[i] < place[j]
        /\ \A i \in DOMAIN down' : Alike(down'[i], down[place[i]])
  BY DEF Thinned
<1>2. ASSUME host.phase = "reply", LineOK, NEW i \in DOMAIN down', NEW j \in DOMAIN down',
             i < j, down'[i].seq = host.seq
      PROVE  down'[j].seq = host.seq
  <2>1. \A m, n \in DOMAIN down : m < n /\ down[m].seq = host.seq => down[n].seq = host.seq
    BY <1>2 DEF HostOK, LineOK, Asked
  <2> QED
    BY <1>1, <1>2, <2>1 DEF Alike
<1> QED
  BY <1>1, <1>2 DEF DownKept

LEMMA DownAppended ==
    ASSUME HostOK, NEW f \in DownFrames, down' = Append(down, f),
           \/ host.phase = "reply" /\ f.seq = host.seq /\ Copy(f, host.job, host.step)
           \/ host.phase = "stream" /\ f.type \in {T_ACK, T_NAK}
    PROVE  DownKept
<1>1. /\ DOMAIN down' = 1 .. Len(down) + 1 /\ DOMAIN down = 1 .. Len(down) /\ Len(down) \in Nat
      /\ \A i \in DOMAIN down : down'[i] = down[i]
      /\ down'[Len(down) + 1] = f
  BY LineAppend DEF HostOK
<1>2. \A i \in DOMAIN down' : i \in DOMAIN down \/ i = Len(down) + 1
  BY <1>1
<1>3. ASSUME NEW i \in DOMAIN down'
      PROVE  \/ \E j \in DOMAIN down : Alike(down'[i], down[j])
             \/ /\ host.phase = "reply" /\ down'[i].seq = host.seq
                /\ Copy(down'[i], host.job, host.step)
             \/ host.phase = "stream" /\ down'[i].type \in {T_ACK, T_NAK}
  <2>1. CASE i \in DOMAIN down
    BY <1>1, <2>1 DEF Alike
  <2>2. CASE i = Len(down) + 1
    BY <1>1, <2>2
  <2> QED
    BY <1>2, <2>1, <2>2
<1>4. ASSUME host.phase = "reply", LineOK, NEW i \in DOMAIN down', NEW j \in DOMAIN down',
             i < j, down'[i].seq = host.seq
      PROVE  down'[j].seq = host.seq
  <2>1. \A m, n \in DOMAIN down : m < n /\ down[m].seq = host.seq => down[n].seq = host.seq
    BY <1>4 DEF HostOK, LineOK, Asked
  <2>2. i \in DOMAIN down
    BY <1>1, <1>4
  <2>3. CASE j \in DOMAIN down
    BY <1>1, <1>4, <2>1, <2>2, <2>3
  <2>4. CASE j = Len(down) + 1
    BY <1>1, <1>4, <2>4
  <2> QED
    BY <1>2, <2>3, <2>4
<1> QED
  BY <1>3, <1>4 DEF DownKept

\* The host waits for the same and the line brought nothing unexpected.
LEMMA LineSame ==
    ASSUME HostOK, LineOK, SameHost, result' = result, DownKept, Thinned(up', up)
    PROVE  LineOK'
<1>1. \A i \in DOMAIN up' : \E j \in DOMAIN up : Alike(up'[i], up[j])
  BY DEF Thinned
<1>2. Answered' => Answered
  <2> SUFFICES ASSUME Answered'
               PROVE  Answered
    OBVIOUS
  <2>1. PICK i \in DOMAIN up' : up'[i].type = T_ACK /\ up'[i].seq = host.seq /\ host.phase = "reply"
    BY DEF Answered, Answers, SameHost
  <2> QED
    BY <1>1, <2>1 DEF Answered, Answers, Alike
<1> SUFFICES ASSUME NEW job \in Jobs
             PROVE  /\ Asked(job)' =>
                       /\ \A i \in DOMAIN down' : down'[i].seq = host'.seq => Copy(down'[i], job, host'.step)
                       /\ \A i, j \in DOMAIN down' :
                             i < j /\ down'[i].seq = host'.seq => down'[j].seq = host'.seq
                       /\ Answered' => \A i \in DOMAIN down' : down'[i].seq = host'.seq
                    /\ Fetched(job)' \/ Ended(job)' => \A i \in DOMAIN down' : Late(down'[i], job)
  BY DEF LineOK, Copy, Late
<1>3. /\ Asked(job)' <=> Asked(job)
      /\ Fetched(job)' <=> Fetched(job)
      /\ Ended(job)' <=> Ended(job)
      /\ host'.seq = host.seq /\ host'.step = host.step
  BY DEF Asked, Fetched, Ended, SameHost
<1>4. ASSUME Asked(job)
      PROVE  /\ \A i \in DOMAIN down' : down'[i].seq = host.seq => Copy(down'[i], job, host.step)
             /\ \A i, j \in DOMAIN down' : i < j /\ down'[i].seq = host.seq => down'[j].seq = host.seq
             /\ Answered => \A i \in DOMAIN down' : down'[i].seq = host.seq
  <2>1. host.phase = "reply" /\ host.job = job
    BY <1>4 DEF Asked
  <2>2. /\ \A i \in DOMAIN down : down[i].seq = host.seq => Copy(down[i], job, host.step)
        /\ Answered => \A i \in DOMAIN down : down[i].seq = host.seq
    BY <1>4 DEF LineOK
  <2>3. \A i \in DOMAIN down' :
          \/ \E j \in DOMAIN down : Alike(down'[i], down[j])
          \/ down'[i].seq = host.seq /\ Copy(down'[i], job, host.step)
    BY <2>1 DEF DownKept
  <2>4. \A i \in DOMAIN down' : down'[i].seq = host.seq => Copy(down'[i], job, host.step)
    BY <2>2, <2>3, AlikeCopy
  <2>5. Answered => \A i \in DOMAIN down' : down'[i].seq = host.seq
    BY <2>2, <2>3, AlikeCopy
  <2>6. \A i, j \in DOMAIN down' : i < j /\ down'[i].seq = host.seq => down'[j].seq = host.seq
    BY <2>1 DEF DownKept
  <2> QED
    BY <2>4, <2>5, <2>6
<1>5. ASSUME Fetched(job) \/ Ended(job), NEW i \in DOMAIN down'
      PROVE  Late(down'[i], job)
  <2>1. \A j \in DOMAIN down : Late(down[j], job)
    BY <1>5 DEF LineOK
  <2>2. host.phase = "reply" => FALSE
    BY <1>5 DEF Fetched, Ended, HostOK
  <2>3. CASE \E j \in DOMAIN down : Alike(down'[i], down[j])
    BY <2>1, <2>3, AlikeCopy
  <2>4. CASE host.phase = "stream" /\ down'[i].type \in {T_ACK, T_NAK}
    <3>1. host.job = job /\ Streams(job)
      BY <1>5, <2>4 DEF Fetched, Ended, HostOK, Streams
    <3> QED
      BY <2>4, <3>1 DEF Late
  <2> QED
    BY <2>2, <2>3, <2>4 DEF DownKept
<1> QED
  BY <1>2, <1>3, <1>4, <1>5
\* Nothing changes but the line and the host's wishes.
AgentSame == UNCHANGED <<agentVars, kernelVars, dropped>>

\* The values that what was promised speaks of.
LEMMA FilesSame ==
    ASSUME UNCHANGED <<disk, dirs>>
    PROVE  /\ \A part : Directory(part)' = Directory(part)
           /\ \A job : FileOf(job)' = FileOf(job)
           /\ UNCHANGED dropped => \A job : Promise(job)' = Promise(job)
           /\ \A job : Whole(job)' = Whole(job)
           /\ \A job : Entries(job)' = Entries(job)
BY DEF Directory, FileOf, Promise, Whole, Entries, EntriesOf

LEMMA GrowingSame ==
    ASSUME UNCHANGED <<disk, dirs, fd, wcrc, dropped>>, NEW job
    PROVE  Growing(job)' = Growing(job) /\ Verified(job)' = Verified(job)
BY FilesSame DEF Growing, Verified

LEMMA UpAlike ==
    ASSUME Thinned(up', up), SameHost
    PROVE  /\ \A i \in DOMAIN up' : \E j \in DOMAIN up : Alike(up'[i], up[j])
           /\ \A f, g : Alike(f, g) => (Answers(f)' <=> Answers(g))
           /\ Answered' => Answered
<1>1. \A i \in DOMAIN up' : \E j \in DOMAIN up : Alike(up'[i], up[j])
  BY DEF Thinned
<1>2. \A f, g : Alike(f, g) => (Answers(f)' <=> Answers(g))
  BY DEF Answers, Alike, SameHost
<1>3. Answered' => Answered
  BY <1>1 DEF Answered, Answers, Alike, SameHost
<1> QED
  BY <1>1, <1>2, <1>3

LEMMA UploadSame ==
    ASSUME HostOK, LineOK, UploadOK, SameHost, result' = result, DownKept, Thinned(up', up), AgentSame
    PROVE  UploadOK'
<1>1. UNCHANGED <<disk, dirs, fd, wcrc, dropped, pc>>
  BY DEF AgentSame, agentVars, kernelVars
<1> SUFFICES ASSUME NEW job \in Jobs, job.op = T_OPEN
             PROVE  /\ (Asked(job)' /\ (host'.step > 0 \/ Answered')) =>
                          /\ Idling' /\ Growing(job)'
                          /\ \A i \in DOMAIN down' : \E k \in 0 .. host'.step : Copy(down'[i], job, k)
                          /\ \A i \in DOMAIN up' :
                                Answers(up[i])' /\ up'[i].body = 0 /\ host'.step = LastStep(job)
                                    => Verified(job)'
                    /\ Ended(job)' => Idling' /\ Verified(job)'
  BY DEF UploadOK, Copy, LastStep
<1>2. /\ Asked(job)' <=> Asked(job)
      /\ Ended(job)' <=> Ended(job)
      /\ host'.step = host.step
      /\ Idling' <=> Idling
      /\ Growing(job)' <=> Growing(job)
      /\ Verified(job)' <=> Verified(job)
      /\ Answered' => Answered
  BY <1>1, GrowingSame, UpAlike DEF Asked, Ended, SameHost, Idling
<1>3. ASSUME Asked(job), host.step > 0 \/ Answered
      PROVE  /\ \A i \in DOMAIN down' : \E k \in 0 .. host.step : Copy(down'[i], job, k)
             /\ \A i \in DOMAIN up' :
                    Answers(up[i])' /\ up'[i].body = 0 /\ host.step = LastStep(job) => Verified(job)
  <2>1. /\ \A i \in DOMAIN down : \E k \in 0 .. host.step : Copy(down[i], job, k)
        /\ \A i \in DOMAIN up :
              Answers(up[i]) /\ up[i].body = 0 /\ host.step = LastStep(job) => Verified(job)
        /\ host.phase = "reply" /\ host.job = job /\ host.step \in 0 .. host.step
    BY <1>3 DEF UploadOK, HostOK, Hosts, Asked
  <2>2. ASSUME NEW i \in DOMAIN down'
        PROVE  \E k \in 0 .. host.step : Copy(down'[i], job, k)
    <3>1. CASE \E j \in DOMAIN down : Alike(down'[i], down[j])
      BY <2>1, <3>1, AlikeCopy
    <3>2. CASE Copy(down'[i], host.job, host.step)
      BY <2>1, <3>2
    <3> QED
      BY <2>1, <3>1, <3>2 DEF DownKept
  <2>3. ASSUME NEW i \in DOMAIN up', Answers(up[i])', up'[i].body = 0, host.step = LastStep(job)
        PROVE  Verified(job)
    <3>1. PICK j \in DOMAIN up : Alike(up'[i], up[j])
      BY UpAlike
    <3>2. Answers(up[j]) /\ up[j].body = 0
      BY <2>3, <3>1, UpAlike DEF Alike, Answers, SameHost
    <3> QED
      BY <2>1, <2>3, <3>2
  <2> QED
    BY <2>2, <2>3
<1> QED
  BY <1>2, <1>3 DEF UploadOK

LEMMA CommandSame ==
    ASSUME HostOK, CommandOK, SameHost, result' = result, Thinned(up', up), AgentSame
    PROVE  CommandOK'
<1>1. UNCHANGED <<disk, dirs, pc, dropped>>
  BY DEF AgentSame, agentVars, kernelVars
<1> SUFFICES ASSUME NEW job \in Jobs, job.op \in {T_DEL, T_REN, T_PWRITE}
             PROVE  /\ (Asked(job)' /\ Answered') =>
                          /\ Idling'
                          /\ \A i \in DOMAIN up' : Answers(up[i])' /\ up'[i].body = 0 => Promise(job)'
                    /\ Ended(job)' => Idling' /\ Promise(job)'
  BY DEF CommandOK
<1>2. /\ Asked(job)' <=> Asked(job)
      /\ Ended(job)' <=> Ended(job)
      /\ Idling' <=> Idling
      /\ Promise(job)' <=> Promise(job)
      /\ Answered' => Answered
  BY <1>1, FilesSame, UpAlike DEF Asked, Ended, SameHost, Idling
<1>3. ASSUME Asked(job), Answered, NEW i \in DOMAIN up', Answers(up[i])', up'[i].body = 0
      PROVE  Promise(job)
  <2>1. PICK j \in DOMAIN up : Alike(up'[i], up[j])
    BY UpAlike
  <2>2. Answers(up[j]) /\ up[j].body = 0
    BY <1>3, <2>1, UpAlike DEF Alike, Answers, SameHost
  <2> QED
    BY <1>3, <2>2 DEF CommandOK
<1> QED
  BY <1>2, <1>3 DEF CommandOK

LEMMA GetSame ==
    ASSUME HostOK, GetOK, SameHost, result' = result, Thinned(up', up), AgentSame
    PROVE  GetOK'
<1>1. UNCHANGED <<disk, dirs, pc, rfd>>
  BY DEF AgentSame, agentVars, kernelVars
<1> SUFFICES ASSUME NEW job \in Jobs, job.op = T_GET, MaxOpen >= 2
             PROVE  /\ (Asked(job)' /\ Answered') =>
                          /\ Sending(job)'
                          /\ \A i, j \in DOMAIN up' :
                                i < j /\ Answers(up[i])' /\ up'[j].type = T_CLOSE
                                    => up'[j].body = Whole(job)'
                    /\ Fetched(job)' =>
                          /\ Sending(job)'
                          /\ \A j \in DOMAIN up' : up'[j].type = T_CLOSE => up'[j].body = Whole(job)'
                    /\ Ended(job)' => Sending(job)' /\ result'.value = Whole(job)'
  BY DEF GetOK
<1>2. /\ Asked(job)' <=> Asked(job)
      /\ Fetched(job)' <=> Fetched(job)
      /\ Ended(job)' <=> Ended(job)
      /\ Sending(job)' <=> Sending(job)
      /\ Whole(job)' = Whole(job)
      /\ Answered' => Answered
  BY <1>1, FilesSame, UpAlike DEF Asked, Fetched, Ended, SameHost, Sending
<1>3. PICK place \in [DOMAIN up' -> DOMAIN up] :
        /\ \A i, j \in DOMAIN up' : i < j => place[i] < place[j]
        /\ \A i \in DOMAIN up' : Alike(up'[i], up[place[i]])
  BY DEF Thinned
<1>4. ASSUME Asked(job), Answered, NEW i \in DOMAIN up', NEW j \in DOMAIN up', i < j,
             Answers(up[i])', up'[j].type = T_CLOSE
      PROVE  up'[j].body = Whole(job)
  <2>1. /\ place[i] < place[j] /\ place[i] \in DOMAIN up /\ place[j] \in DOMAIN up
        /\ Answers(up[place[i]]) /\ up[place[j]].type = T_CLOSE
        /\ up[place[j]].body = up'[j].body
    BY <1>3, <1>4 DEF Alike, Answers, SameHost
  <2> QED
    BY <1>4, <2>1 DEF GetOK
<1>5. ASSUME Fetched(job), NEW j \in DOMAIN up', up'[j].type = T_CLOSE
      PROVE  up'[j].body = Whole(job)
  BY <1>3, <1>5 DEF Alike, GetOK
<1> QED
  BY <1>2, <1>4, <1>5 DEF GetOK
\* A request with a number of its own has not been answered, and nothing is
\* promised any more.
LEMMA BegunOK ==
    ASSUME Careful, HostOK, NEW job \in Jobs, NEW k, StepOf(job, k),
           NEW line \in Seq(DownFrames), Begin(job, k, line), result' = None,
           \A i \in DOMAIN line : \/ \E j \in DOMAIN down : line[i].seq = down[j].seq
                                  \/ \E j \in DOMAIN up : line[i].seq = up[j].seq,
           \A i \in DOMAIN up' : \E j \in DOMAIN up : up'[i] = up[j]
    PROVE  /\ LineOK' /\ CommandOK' /\ GetOK' /\ ListOK'
           /\ k = 0 => UploadOK'
           /\ ~Answered'
<1>1. /\ host' \in Hosts /\ host'.phase = "reply" /\ host'.job = job /\ host'.step = k
      /\ host'.got = <<>>
      /\ \A i \in DOMAIN down : down[i].seq # host'.seq
      /\ \A i \in DOMAIN up : up[i].seq # host'.seq
      /\ down' = Append(line, Request(job, k, host'.seq))
      /\ Request(job, k, host'.seq) \in DownFrames
      /\ Request(job, k, host'.seq).seq = host'.seq
      /\ Copy(Request(job, k, host'.seq), job, k)
  BY Begun DEF HostOK
<1> DEFINE r == Request(job, k, host'.seq)
<1> HIDE DEF r
<1>2. /\ DOMAIN down' = 1 .. Len(line) + 1 /\ DOMAIN line = 1 .. Len(line) /\ Len(line) \in Nat
      /\ \A i \in DOMAIN line : down'[i] = line[i]
      /\ down'[Len(line) + 1] = r
      /\ r.seq = host'.seq /\ Copy(r, job, k)
  BY <1>1, LineAppend DEF r
<1>3. \A i \in DOMAIN line : line[i].seq # host'.seq
  BY <1>1
<1>4. \A i \in DOMAIN up' : up'[i].seq # host'.seq
  BY <1>1
<1>5. ~Answered'
  BY <1>4 DEF Answered, Answers
<1>6. \A i \in DOMAIN down' : down'[i].seq = host'.seq => i = Len(line) + 1
  BY <1>2, <1>3
<1>7. ASSUME NEW other
      PROVE  /\ Asked(other)' => other = job
             /\ ~Fetched(other)' /\ ~Ended(other)'
  BY <1>1 DEF Asked, Fetched, Ended
<1>8. LineOK'
  <2>1. \A i \in DOMAIN down' : down'[i].seq = host'.seq => Copy(down'[i], job, k)
    BY <1>2, <1>6
  <2>2. \A i, j \in DOMAIN down' : i < j /\ down'[i].seq = host'.seq => down'[j].seq = host'.seq
    BY <1>2, <1>6
  <2> SUFFICES ASSUME NEW other \in Jobs
               PROVE  /\ Asked(other)' =>
                         /\ \A i \in DOMAIN down' : down'[i].seq = host'.seq => Copy(down'[i], other, host'.step)
                         /\ \A i, j \in DOMAIN down' :
                               i < j /\ down'[i].seq = host'.seq => down'[j].seq = host'.seq
                         /\ Answered' => \A i \in DOMAIN down' : down'[i].seq = host'.seq
                      /\ Fetched(other)' \/ Ended(other)' => \A i \in DOMAIN down' : Late(down'[i], other)
    BY DEF LineOK, Copy, Late
  <2> QED
    BY <1>1, <1>5, <1>7, <2>1, <2>2
<1>9. CommandOK' /\ GetOK'
  BY <1>5, <1>7 DEF CommandOK, GetOK
<1>10. ListOK'
  BY <1>1, <1>5, <1>7 DEF ListOK
<1>11. k = 0 => UploadOK'
  BY <1>1, <1>5, <1>7 DEF UploadOK
<1> QED
  BY <1>5, <1>8, <1>9, <1>10, <1>11

\* Nobody waits and no job has just ended.
LEMMA NothingOK ==
    ASSUME host' = Resting, result' = None
    PROVE  LineOK' /\ UploadOK' /\ CommandOK' /\ GetOK' /\ ListOK'
<1>1. ASSUME NEW job
      PROVE  ~Asked(job)' /\ ~Fetched(job)' /\ ~Ended(job)'
  BY DEF Asked, Fetched, Ended, Resting
<1> QED
  BY <1>1 DEF LineOK, UploadOK, CommandOK, GetOK, ListOK

\* The next frame of an upload goes out when the last one was acknowledged.
LEMMA NextStepOK ==
    ASSUME Careful, HostOK, LineOK, UploadOK, Answered, AnotherStep, AgentSame,
           \A i \in DOMAIN up' : \E j \in DOMAIN up : up'[i] = up[j]
    PROVE  UploadOK'
<1>0. PICK job \in Jobs, k \in Nat : job = host.job /\ k = host.step + 1
  BY DEF HostOK, Hosts, Answered
<1>1. /\ StepOf(job, k) /\ job.op = T_OPEN /\ Begin(job, k, down)
      /\ result' = None /\ host.step \in Nat /\ Asked(job)
  BY <1>0 DEF HostOK, Hosts, AnotherStep, StepOf, Asked, Answered
<1>2. down \in Seq(DownFrames) /\ \A i \in DOMAIN down : \E j \in DOMAIN down : down[i].seq = down[j].seq
  BY DEF HostOK
<1>3. ~Answered'
  BY <1>1, <1>2, BegunOK
<1>4. /\ host'.phase = "reply" /\ host'.job = job /\ host'.step = k
      /\ down' = Append(down, Request(job, k, host'.seq))
      /\ Request(job, k, host'.seq) \in DownFrames
      /\ Copy(Request(job, k, host'.seq), job, k)
      /\ \A i \in DOMAIN up : up[i].seq # host'.seq
  BY <1>1, <1>2, Begun DEF HostOK
<1>5. /\ Idling /\ Growing(job)
      /\ \A i \in DOMAIN down : \E m \in 0 .. host.step : Copy(down[i], job, m)
  BY <1>1 DEF UploadOK
<1>6. Idling' /\ Growing(job)'
  BY <1>5, GrowingSame DEF AgentSame, agentVars, kernelVars, Idling
<1>7. /\ DOMAIN down' = 1 .. Len(down) + 1 /\ DOMAIN down = 1 .. Len(down) /\ Len(down) \in Nat
      /\ \A i \in DOMAIN down : down'[i] = down[i]
      /\ down'[Len(down) + 1] = Request(job, k, host'.seq)
  <2> DEFINE r == Request(job, k, host'.seq)
  <2> HIDE DEF r
  <2>1. r \in DownFrames /\ down' = Append(down, r)
    BY <1>4 DEF r
  <2> QED
    BY <1>2, <2>1, LineAppend DEF r
<1>8. \A m \in 0 .. host.step : m \in 0 .. k
  BY <1>0, <1>1
<1>9. ASSUME NEW i \in DOMAIN down'
      PROVE  \E m \in 0 .. k : Copy(down'[i], job, m)
  <2>1. CASE i \in DOMAIN down
    BY <1>5, <1>7, <1>8, <2>1
  <2>2. CASE i = Len(down) + 1
    <3>1. k \in 0 .. k
      BY <1>8
    <3> QED
      BY <1>4, <1>7, <2>2, <3>1
  <2> QED
    BY <1>7, <2>1, <2>2
<1>10. \A i \in DOMAIN up' : ~Answers(up[i])'
  BY <1>4 DEF Answers
<1> SUFFICES ASSUME NEW other \in Jobs, other.op = T_OPEN
             PROVE  /\ (Asked(other)' /\ (host'.step > 0 \/ Answered')) =>
                          /\ Idling' /\ Growing(other)'
                          /\ \A i \in DOMAIN down' : \E m \in 0 .. host'.step : Copy(down'[i], other, m)
                          /\ \A i \in DOMAIN up' :
                                Answers(up[i])' /\ up'[i].body = 0 /\ host'.step = LastStep(other)
                                    => Verified(other)'
                    /\ Ended(other)' => Idling' /\ Verified(other)'
  BY DEF UploadOK, Copy, LastStep
<1>11. ~Ended(other)' /\ (Asked(other)' => other = job)
  BY <1>1, <1>4 DEF Ended, Asked
<1> QED
  BY <1>4, <1>6, <1>9, <1>10, <1>11
\* Once the first frame to the host is read, the rest of a listing has moved.
LEMMA ListingTail ==
    ASSUME NEW e \in Seq(Names \cup SubDirs), NEW n \in Nat, NEW a \in Nat \ {0},
           up \in Seq(UpFrames), up # <<>>,
           up' = Tail(up), UNCHANGED <<pc, todo>>, Listing(e, n, a)
    PROVE  Listing(e, n, a - 1)'
<1>0. PICK m \in 0 .. Len(up) :
        /\ a + m <= Len(up) /\ n + m <= Len(e)
        /\ \A i \in 1 .. m : up[a + i].ok /\ up[a + i].type = T_ENTRY /\ up[a + i].body = e[n + i]
        /\ \/ a + m = Len(up) /\ pc = "list" /\ todo = SubSeq(e, n + m + 1, Len(e))
           \/ /\ a + m < Len(up) /\ n + m = Len(e)
              /\ up[a + m + 1].ok /\ up[a + m + 1].type = T_CLOSE
  BY DEF Listing
<1>1. a + m <= Len(up) /\ n + m <= Len(e)
  BY <1>0, Zenon
<1>2. \A i \in 1 .. m : up[a + i].ok /\ up[a + i].type = T_ENTRY /\ up[a + i].body = e[n + i]
  BY <1>0, Zenon
<1>3. \/ a + m = Len(up) /\ pc = "list" /\ todo = SubSeq(e, n + m + 1, Len(e))
      \/ /\ a + m < Len(up) /\ n + m = Len(e)
         /\ up[a + m + 1].ok /\ up[a + m + 1].type = T_CLOSE
  BY <1>0, Zenon
<1>4. m \in Nat /\ Len(up) \in Nat /\ Len(e) \in Nat
  OBVIOUS
<1>5. Len(up') = Len(up) - 1 /\ \A i \in 1 .. Len(up) - 1 : up'[i] = up[i + 1]
  BY LineTail
<1>6. m \in 0 .. Len(up') /\ a - 1 + m <= Len(up')
  BY <1>1, <1>4, <1>5
<1>7. ASSUME NEW i \in 1 .. m
      PROVE  up'[a - 1 + i].ok /\ up'[a - 1 + i].type = T_ENTRY /\ up'[a - 1 + i].body = e[n + i]
  <2>1. a - 1 + i \in 1 .. Len(up) - 1 /\ (a - 1 + i) + 1 = a + i
    BY <1>1, <1>4
  <2>2. up'[a - 1 + i] = up[a + i]
    BY <1>5, <2>1
  <2> QED
    BY <1>2, <2>2
<1>8. CASE a + m = Len(up) /\ pc = "list" /\ todo = SubSeq(e, n + m + 1, Len(e))
  <2>1. a + m = Len(up) /\ pc = "list" /\ todo = SubSeq(e, n + m + 1, Len(e))
    BY <1>8, Zenon
  <2>2. Len(up') = Len(up) - 1
    BY <1>5, Zenon
  <2>3. a - 1 + m = Len(up')
    <3>1. a + m = Len(up)
      BY <2>1, Zenon
    <3>2. \A k \in Nat, l \in Int : a + m = k /\ l = k - 1 => a - 1 + m = l
      OBVIOUS
    <3>3. Len(up') \in Int
      BY <1>4, <2>2
    <3> QED
      BY <1>4, <2>2, <3>1, <3>2, <3>3, Zenon
  <2>4. pc' = "list" /\ todo' = SubSeq(e, n + m + 1, Len(e))
    BY <2>1, Zenon
  <2> QED
    BY <1>1, <1>6, <1>7, <2>3, <2>4 DEF Listing
<1>9. CASE a + m < Len(up) /\ n + m = Len(e) /\ up[a + m + 1].ok /\ up[a + m + 1].type = T_CLOSE
  <2>1. a - 1 + m + 1 \in 1 .. Len(up) - 1 /\ (a - 1 + m + 1) + 1 = a + m + 1
        /\ a - 1 + m < Len(up')
    BY <1>4, <1>5, <1>9
  <2>2. up'[a - 1 + m + 1] = up[a + m + 1]
    BY <1>5, <2>1
  <2> QED
    BY <1>1, <1>6, <1>7, <1>9, <2>1, <2>2 DEF Listing
<1> QED
  BY <1>3, <1>8, <1>9

\* What the next frame of a listing is, and that it may be read.
LEMMA ListingHead ==
    ASSUME NEW e \in Seq(Names \cup SubDirs), NEW n \in Nat, up \in Seq(UpFrames), up # <<>>,
           up' = Tail(up), UNCHANGED <<pc, todo>>, Listing(e, n, 0)
    PROVE  LET f == Head(up)
           IN /\ f.ok
              /\ \/ /\ f.type = T_ENTRY /\ f.body = e[n + 1] /\ n + 1 <= Len(e)
                    /\ Listing(e, n + 1, 0)'
                 \/ f.type = T_CLOSE /\ n = Len(e)
<1>0. PICK m \in 0 .. Len(up) :
        /\ 0 + m <= Len(up) /\ n + m <= Len(e)
        /\ \A i \in 1 .. m : up[0 + i].ok /\ up[0 + i].type = T_ENTRY /\ up[0 + i].body = e[n + i]
        /\ \/ 0 + m = Len(up) /\ pc = "list" /\ todo = SubSeq(e, n + m + 1, Len(e))
           \/ /\ 0 + m < Len(up) /\ n + m = Len(e)
              /\ up[0 + m + 1].ok /\ up[0 + m + 1].type = T_CLOSE
  BY DEF Listing
<1>1. n + m <= Len(e)
  BY <1>0, Zenon
<1>2. \A i \in 1 .. m : up[0 + i].ok /\ up[0 + i].type = T_ENTRY /\ up[0 + i].body = e[n + i]
  BY <1>0, Zenon
<1>3. \/ 0 + m = Len(up) /\ pc = "list" /\ todo = SubSeq(e, n + m + 1, Len(e))
      \/ /\ 0 + m < Len(up) /\ n + m = Len(e)
         /\ up[0 + m + 1].ok /\ up[0 + m + 1].type = T_CLOSE
  BY <1>0, Zenon
<1>4. m \in Nat /\ m <= Len(up) /\ Len(up) \in Nat \ {0} /\ Len(e) \in Nat
  OBVIOUS
<1>5. /\ Len(up') = Len(up) - 1 /\ Head(up) = up[1]
      /\ \A i \in 1 .. Len(up) - 1 : up'[i] = up[i + 1]
  BY LineTail
<1>6. CASE m = 0
  <2>1. 0 + m + 1 = 1 /\ n + m = n /\ 0 + m < Len(up) /\ 0 + m # Len(up)
    BY <1>4, <1>6
  <2>2. up[1].ok /\ up[1].type = T_CLOSE /\ n = Len(e)
    BY <1>3, <2>1
  <2> QED
    BY <1>5, <2>2
<1>7. CASE m > 0
  <2>1. up[1].ok /\ up[1].type = T_ENTRY /\ up[1].body = e[n + 1] /\ n + 1 <= Len(e)
    <3>1. 1 \in 1 .. m /\ 0 + 1 = 1 /\ n + 1 <= Len(e)
      BY <1>1, <1>4, <1>7
    <3>2. up[0 + 1].ok /\ up[0 + 1].type = T_ENTRY /\ up[0 + 1].body = e[n + 1]
      BY <1>2, <3>1
    <3> QED
      BY <3>1, <3>2
  <2>2. m - 1 \in 0 .. Len(up') /\ 0 + (m - 1) <= Len(up') /\ n + 1 + (m - 1) = n + m
    BY <1>4, <1>5, <1>7
  <2>3. ASSUME NEW i \in 1 .. m - 1
        PROVE  /\ up'[0 + i].ok /\ up'[0 + i].type = T_ENTRY /\ up'[0 + i].body = e[n + 1 + i]
    <3>1. i + 1 \in 1 .. m /\ i \in 1 .. Len(up) - 1 /\ 0 + i = i /\ 0 + (i + 1) = i + 1
          /\ n + (i + 1) = n + 1 + i
      BY <1>4
    <3>2. up'[i] = up[i + 1]
      BY <1>5, <3>1
    <3>3. up[0 + (i + 1)].ok /\ up[0 + (i + 1)].type = T_ENTRY /\ up[0 + (i + 1)].body = e[n + (i + 1)]
      BY <1>2, <3>1
    <3> QED
      BY <3>1, <3>2, <3>3
  <2>4. n + 1 + (m - 1) <= Len(e) /\ n + 1 + (m - 1) + 1 = n + m + 1
    BY <1>1, <1>4
  <2>5. CASE 0 + m = Len(up) /\ pc = "list" /\ todo = SubSeq(e, n + m + 1, Len(e))
    <3>1. 0 + m = Len(up)
      BY <2>5, Zenon
    <3>2. Len(up') = Len(up) - 1
      BY <1>5, Zenon
    <3>3. 0 + (m - 1) = Len(up')
      BY <1>4, <3>1, <3>2
    <3>4. todo' = SubSeq(e, n + 1 + (m - 1) + 1, Len(e)) /\ pc' = "list"
      BY <2>4, <2>5
    <3>5. Listing(e, n + 1, 0)'
      BY <2>2, <2>3, <2>4, <3>3, <3>4 DEF Listing
    <3> QED
      BY <1>5, <2>1, <3>5
  <2>6. CASE 0 + m < Len(up) /\ n + m = Len(e) /\ up[0 + m + 1].ok /\ up[0 + m + 1].type = T_CLOSE
    <3>1. m \in 1 .. Len(up) - 1 /\ 0 + (m - 1) + 1 = m /\ 0 + (m - 1) < Len(up') /\ 0 + m + 1 = m + 1
      BY <1>4, <1>5, <1>7, <2>6
    <3>2. up'[0 + (m - 1) + 1].ok /\ up'[0 + (m - 1) + 1].type = T_CLOSE
      BY <1>5, <2>6, <3>1
    <3>3. n + 1 + (m - 1) = Len(e)
      BY <2>2, <2>6
    <3>4. Listing(e, n + 1, 0)'
      BY <2>2, <2>3, <2>4, <3>1, <3>2, <3>3 DEF Listing
    <3> QED
      BY <1>5, <2>1, <3>4
  <2> QED
    BY <1>3, <2>5, <2>6
<1> QED
  BY <1>4, <1>6, <1>7
\* A frame was lost or damaged: a listing under way promises nothing.
LEMMA ListHit ==
    ASSUME HostOK, ListOK, Hit, result' = result, AgentSame, Thinned(up', up)
    PROVE  ListOK'
<1>1. SameHost /\ host'.got = host.got
      /\ ((host.phase # "idle" /\ host.job.op = T_LIST) => host'.hit)
  BY HitIs DEF HostOK
<1>2. UNCHANGED <<disk, dirs, pc>>
  BY DEF AgentSame, agentVars, kernelVars
<1> SUFFICES ASSUME NEW job \in Jobs, job.op = T_LIST
             PROVE  /\ (Asked(job)' /\ Answered') => pc' # "get" /\ host'.hit
                    /\ Asked(job)' => host'.got = <<>>
                    /\ Fetched(job)' => pc' # "get" /\ host'.hit
                    /\ Ended(job)' => pc' # "get" /\ (~result'.hit => result'.value = Entries(job)')
  BY DEF ListOK
<1>3. /\ Asked(job)' <=> Asked(job)
      /\ Fetched(job)' <=> Fetched(job)
      /\ Ended(job)' <=> Ended(job)
      /\ Entries(job)' = Entries(job)
      /\ Answered' => Answered
      /\ Asked(job) \/ Fetched(job) => host'.hit
  BY <1>1, <1>2, FilesSame, UpAlike DEF Asked, Fetched, Ended, SameHost
<1> QED
  BY <1>1, <1>2, <1>3 DEF ListOK

\* The host and the frames to it stay as they are.
LEMMA ListKept ==
    ASSUME ListOK, UNCHANGED <<host, result, up>>, AgentSame
    PROVE  ListOK'
<1>1. UNCHANGED <<disk, dirs, pc, todo>>
  BY DEF AgentSame, agentVars, kernelVars
<1>2. \A job : Entries(job)' = Entries(job)
  BY <1>1, FilesSame
<1>3. \A e, n, a : Listing(e, n, a)' <=> Listing(e, n, a)
  BY <1>1 DEF Listing
<1>4. /\ Answered' <=> Answered
      /\ \A f : Answers(f)' <=> Answers(f)
      /\ \A job : /\ Asked(job)' <=> Asked(job)
                  /\ Fetched(job)' <=> Fetched(job)
                  /\ Ended(job)' <=> Ended(job)
  BY DEF Answered, Answers, Asked, Fetched, Ended
<1> QED
  BY <1>1, <1>2, <1>3, <1>4 DEF ListOK

\* The entries of a listing are names, and stay so.
LEMMA EntriesAre ==
    ASSUME AgentOK, NEW job
    PROVE  Entries(job) \in Seq(Names \cup SubDirs)
<1>1. <<>> \in Seq(Names \cup SubDirs)
  OBVIOUS
<1> QED
  BY <1>1, EntriesListed DEF Entries, AgentOK

\* A frame that is not the answer is read while the host waits for one.
LEMMA ListIgnored ==
    ASSUME AgentOK, HostOK, ListOK, UNCHANGED <<host, result>>, AgentSame,
           host.phase # "stream", up # <<>>, up' = Tail(up),
           ~(host.phase = "reply" /\ Head(up).ok /\ Answers(Head(up)))
    PROVE  ListOK'
<1>1. UNCHANGED <<disk, dirs, pc, todo>>
  BY DEF AgentSame, agentVars, kernelVars
<1>2. up \in Seq(UpFrames)
  BY DEF HostOK
<1>3. /\ Head(up) = up[1] /\ 1 \in DOMAIN up
      /\ DOMAIN up = 1 .. Len(up) /\ Len(up) \in Nat
      /\ \A i \in DOMAIN up' : i + 1 \in DOMAIN up /\ up'[i] = up[i + 1]
      /\ Len(up') = Len(up) - 1 /\ DOMAIN up' = 1 .. Len(up) - 1
  BY <1>2, LineTail
<1> SUFFICES ASSUME NEW job \in Jobs, job.op = T_LIST
             PROVE  /\ (Asked(job)' /\ Answered') =>
                          /\ pc' # "get"
                          /\ ~host'.hit =>
                                \A a \in DOMAIN up' :
                                    Answers(up[a])' /\ (\A b \in 1 .. a - 1 : ~Answers(up[b])') =>
                                        up'[a].ok /\ Listing(Entries(job), 0, a)'
                    /\ Asked(job)' => host'.got = <<>>
                    /\ ~Fetched(job)'
                    /\ Ended(job)' => pc' # "get" /\ (~result'.hit => result'.value = Entries(job)')
  BY DEF ListOK
<1>4. /\ Asked(job)' <=> Asked(job)
      /\ ~Fetched(job)'
      /\ Ended(job)' <=> Ended(job)
      /\ Entries(job)' = Entries(job)
  BY <1>1, FilesSame DEF Asked, Fetched, Ended
<1>5. Answered' => Answered
  BY <1>3 DEF Answered, Answers
<1>6. ASSUME Asked(job), Answered, ~host.hit, NEW a \in DOMAIN up', Answers(up[a])',
             \A b \in 1 .. a - 1 : ~Answers(up[b])'
      PROVE  up'[a].ok /\ Listing(Entries(job), 0, a)'
  <2> DEFINE e == Entries(job)
  <2>1. e \in Seq(Names \cup SubDirs) /\ e' = e
    BY <1>4, EntriesAre
  <2>2. \A c \in DOMAIN up : Answers(up[c]) /\ (\A b \in 1 .. c - 1 : ~Answers(up[b])) =>
                                up[c].ok /\ Listing(e, 0, c)
    BY <1>6 DEF ListOK
  <2>3. ~Answers(up[1])
    <3>1. \A b \in 1 .. 1 - 1 : ~Answers(up[b])
      OBVIOUS
    <3>2. host.phase = "reply"
      BY <1>6 DEF Asked
    <3>3. Answers(up[1]) => up[1].ok
      BY <1>3, <2>2, <3>1
    <3> QED
      BY <1>3, <3>2, <3>3
  <2> HIDE DEF e
  <2>4. a + 1 \in DOMAIN up /\ up'[a] = up[a + 1] /\ a \in Nat \ {0}
    BY <1>3
  <2>5. \A f : Answers(f)' <=> Answers(f)
    BY DEF Answers
  <2>6. Answers(up[a + 1])
    BY <1>6, <2>4 DEF Answers
  <2>7. ASSUME NEW b \in 1 .. (a + 1) - 1
        PROVE  ~Answers(up[b])
    <3>1. CASE b = 1
      BY <2>3, <3>1
    <3>2. CASE b # 1
      <4>1. b - 1 \in 1 .. a - 1 /\ b - 1 \in DOMAIN up' /\ (b - 1) + 1 = b
        BY <1>3, <2>4, <3>2
      <4>2. up'[b - 1] = up[b]
        BY <1>3, <4>1
      <4> QED
        BY <1>6, <4>1, <4>2 DEF Answers
    <3> QED
      BY <3>1, <3>2
  <2>8. up[a + 1].ok /\ Listing(e, 0, a + 1)
    BY <2>2, <2>4, <2>6, <2>7
  <2>9. Listing(e, 0, a)'
    <3>1. (a + 1) - 1 = a /\ a + 1 \in Nat \ {0} /\ 0 \in Nat
      BY <2>4
    <3>2. Listing(e, 0, (a + 1) - 1)'
      BY <1>1, <1>2, <2>1, <2>8, <3>1, ListingTail
    <3> QED
      BY <3>1, <3>2
  <2> QED
    BY <2>1, <2>4, <2>8, <2>9 DEF e
<1>7. \A a : Answers(up[a])' <=> Answers(up'[a])
  BY DEF Answers
<1> QED
  BY <1>1, <1>4, <1>5, <1>6 DEF ListOK
\* The host reads a frame of a stream that does not end it.
LEMMA ListRead ==
    ASSUME AgentOK, HostOK, ListOK, SameHost, host'.hit = host.hit, result' = result, AgentSame,
           host.phase = "stream", up # <<>>, up' = Tail(up), Head(up).ok,
           Head(up).type # T_CLOSE,
           Head(up).type \in {T_DATA, T_ENTRY} => host'.got = Append(host.got, Head(up).body)
    PROVE  ListOK'
<1>1. UNCHANGED <<disk, dirs, pc, todo>>
  BY DEF AgentSame, agentVars, kernelVars
<1>2. up \in Seq(UpFrames) /\ host.got \in Seq(Bodies) /\ result = None /\ result' = None
  BY DEF HostOK, Hosts
<1> SUFFICES ASSUME NEW job \in Jobs, job.op = T_LIST, Fetched(job)
             PROVE  /\ pc' # "get"
                    /\ ~host'.hit => /\ Begins(host'.got, Entries(job)')
                                     /\ Listing(Entries(job), Len(host.got), 0)'
  BY <1>2 DEF ListOK, SameHost, Asked, Fetched, Ended
<1>3. PICK e \in Seq(Names \cup SubDirs), n \in Nat :
        e = Entries(job) /\ e = Entries(job)' /\ n = Len(host.got)
  BY <1>1, <1>2, EntriesAre, FilesSame
<1>4. pc # "get" /\ (~host.hit => Begins(host.got, e) /\ Listing(e, n, 0))
  BY <1>3 DEF ListOK
<1>5. ASSUME ~host.hit
      PROVE  Begins(host'.got, e) /\ Listing(e, Len(host.got), 0)'
  <2>1. /\ Head(up).type = T_ENTRY /\ Head(up).body = e[n + 1] /\ n + 1 <= Len(e)
        /\ Listing(e, n + 1, 0)'
    BY <1>1, <1>2, <1>4, <1>5, ListingHead
  <2>2. host'.got = Append(host.got, e[n + 1])
    BY <2>1
  <2>3. /\ Len(host'.got) = n + 1 /\ host'.got[n + 1] = e[n + 1]
        /\ \A i \in 1 .. n : host'.got[i] = host.got[i]
    BY <1>2, <1>3, <2>2
  <2>4. Begins(host'.got, e)
    <3>1. n <= Len(e) /\ \A i \in 1 .. n : host.got[i] = e[i]
      BY <1>3, <1>4, <1>5 DEF Begins
    <3>2. ASSUME NEW i \in 1 .. n + 1
          PROVE  host'.got[i] = e[i]
      <4>1. i = n + 1 \/ i \in 1 .. n
        BY <1>3
      <4> QED
        BY <2>1, <2>3, <3>1, <4>1, Zenon
    <3> QED
      BY <2>1, <2>3, <3>2 DEF Begins
  <2>5. Listing(e, Len(host.got), 0)'
    BY <2>1, <2>3, Zenon
  <2> QED
    BY <2>4, <2>5
<1>6. host'.hit = host.hit /\ pc' = pc
  BY <1>1
<1> QED
  BY <1>3, <1>4, <1>5, <1>6

\* The answer to a GET or LIST is read: the stream comes behind it.
LEMMA ToStreamOK ==
    ASSUME AgentOK, HostOK, LineOK, GetOK, ListOK, AgentSame, UNCHANGED <<down, result>>,
           host.phase = "reply", Streams(host.job), host' = [host EXCEPT !.phase = "stream"],
           up # <<>>, up' = Tail(up), Head(up).ok, Answers(Head(up))
    PROVE  LineOK' /\ UploadOK' /\ CommandOK' /\ GetOK' /\ ListOK'
<1>1. UNCHANGED <<disk, dirs, pc, todo, rfd>>
  BY DEF AgentSame, agentVars, kernelVars
<1>2. /\ up \in Seq(UpFrames) /\ result = None /\ result' = None
      /\ host'.phase = "stream" /\ host'.job = host.job /\ host'.got = host.got
      /\ host'.hit = host.hit /\ host.job \in Jobs /\ host.step = 0
      /\ host.job.op \in {T_GET, T_LIST}
  BY DEF HostOK, Hosts, Streams
<1>3. /\ Head(up) = up[1] /\ 1 \in DOMAIN up
      /\ DOMAIN up = 1 .. Len(up) /\ Len(up) \in Nat
      /\ \A i \in DOMAIN up' : i + 1 \in DOMAIN up /\ up'[i] = up[i + 1]
      /\ DOMAIN up' \subseteq Int /\ DOMAIN up' = 1 .. Len(up) - 1
  BY <1>2, LineTail
<1>4. Answered /\ Answers(up[1])
  BY <1>3 DEF Answered
<1>5. ASSUME NEW job
      PROVE  /\ ~Asked(job)' /\ ~Ended(job)'
             /\ Fetched(job)' => job = host.job /\ Asked(job)
             /\ Entries(job)' = Entries(job) /\ Whole(job)' = Whole(job)
             /\ Sending(job)' <=> Sending(job)
  BY <1>1, <1>2, FilesSame DEF Asked, Fetched, Ended, Sending
<1>6. LineOK'
  <2> SUFFICES ASSUME NEW job \in Jobs, Fetched(job)', NEW i \in DOMAIN down
               PROVE  Late(down[i], job)
    BY <1>5 DEF LineOK, Late, Copy
  <2>1. job = host.job /\ Asked(job)
    BY <1>5
  <2>2. Copy(down[i], job, host.step)
    BY <1>4, <2>1 DEF LineOK
  <2> QED
    BY <1>2, <2>1, <2>2 DEF Late, LastStep
<1>7. UploadOK' /\ CommandOK'
  BY <1>5 DEF UploadOK, CommandOK
<1>8. GetOK'
  <2> SUFFICES ASSUME NEW job \in Jobs, job.op = T_GET, MaxOpen >= 2, Fetched(job)'
               PROVE  /\ Sending(job)
                      /\ \A j \in DOMAIN up' : up'[j].type = T_CLOSE => up'[j].body = Whole(job)
    BY <1>5 DEF GetOK
  <2>1. Asked(job)
    BY <1>5
  <2>2. /\ Sending(job)
        /\ \A i, j \in DOMAIN up :
              i < j /\ Answers(up[i]) /\ up[j].type = T_CLOSE => up[j].body = Whole(job)
    BY <1>4, <2>1 DEF GetOK
  <2>3. \A j \in DOMAIN up' : 1 < j + 1
    BY <1>3
  <2> QED
    BY <1>3, <1>4, <2>2, <2>3
<1>9. ListOK'
  <2> SUFFICES ASSUME NEW job \in Jobs, job.op = T_LIST, Fetched(job)'
               PROVE  /\ pc # "get"
                      /\ ~host.hit => /\ Begins(host.got, Entries(job))
                                      /\ Listing(Entries(job), Len(host.got), 0)'
    BY <1>1, <1>2, <1>5 DEF ListOK
  <2>1. Asked(job)
    BY <1>5
  <2>2. PICK e \in Seq(Names \cup SubDirs) : e = Entries(job) /\ e = Entries(job)'
    BY <1>5, EntriesAre
  <2>3. /\ pc # "get" /\ host.got = <<>>
        /\ ~host.hit => \A a \in DOMAIN up :
              Answers(up[a]) /\ (\A b \in 1 .. a - 1 : ~Answers(up[b])) => Listing(e, 0, a)
    BY <1>4, <2>1, <2>2 DEF ListOK
  <2>4. ~host.hit => Listing(e, 0, 1)
    <3>1. \A b \in 1 .. 1 - 1 : ~Answers(up[b])
      OBVIOUS
    <3> QED
      BY <1>3, <1>4, <2>3, <3>1
  <2>5. ~host.hit => Listing(e, 0, 0)'
    <3>1. 1 - 1 = 0 /\ 1 \in Nat \ {0} /\ 0 \in Nat
      OBVIOUS
    <3> QED
      BY <1>1, <1>2, <2>3, <2>4, <3>1, ListingTail
  <2>6. Len(host'.got) = 0 /\ Begins(host.got, e)
    BY <1>2, <2>2, <2>3 DEF Begins
  <2>7. ~host.hit => Listing(e, Len(host.got), 0)'
    BY <2>5, <2>6, Zenon
  <2> QED
    BY <2>2, <2>3, <2>6, <2>7
<1> QED
  BY <1>6, <1>7, <1>8, <1>9
\* An upload or a command is over.
LEMMA EndsCommandOK ==
    ASSUME HostOK, LineOK, UploadOK, CommandOK, AgentSame, UNCHANGED down,
           host.phase = "reply", ~Streams(host.job), Ends(Head(up).body),
           host.step = LastStep(host.job), host.job.op = T_OPEN => Head(up).body = 0,
           up # <<>>, up' = Tail(up), Answers(Head(up))
    PROVE  LineOK' /\ UploadOK' /\ CommandOK' /\ GetOK' /\ ListOK'
<1>1. UNCHANGED <<disk, dirs, pc, fd, wcrc, dropped>>
  BY DEF AgentSame, agentVars, kernelVars
<1>2. Head(up) = up[1] /\ 1 \in DOMAIN up
  BY LineTail DEF HostOK
<1>3. Answered /\ Answers(up[1])
  BY <1>2 DEF Answered
<1>4. /\ host' = Resting /\ host'.phase = "idle"
      /\ result' # None => /\ result'.job = host.job /\ result'.value = up[1].body
                           /\ host.job.op \in {T_OPEN, T_GET, T_LIST} \/ up[1].body = 0
  BY <1>2, EndsIs
<1>5. ASSUME NEW job
      PROVE  /\ ~Asked(job)' /\ ~Fetched(job)'
             /\ Ended(job)' => /\ job = host.job /\ Asked(job) /\ result'.value = up[1].body
                               /\ host.job.op \in {T_OPEN, T_GET, T_LIST} \/ up[1].body = 0
             /\ Promise(job)' = Promise(job) /\ Verified(job)' = Verified(job)
  BY <1>1, <1>4, FilesSame, GrowingSame DEF Asked, Fetched, Ended
<1>6. LineOK'
  <2> SUFFICES ASSUME NEW job \in Jobs, Ended(job)', NEW i \in DOMAIN down
               PROVE  Late(down[i], job)
    BY <1>5 DEF LineOK, Late, Copy
  <2>1. job = host.job /\ Asked(job)
    BY <1>5
  <2>2. Copy(down[i], job, host.step)
    BY <1>3, <2>1 DEF LineOK
  <2> QED
    BY <2>1, <2>2 DEF Late
<1>7. UploadOK'
  <2> SUFFICES ASSUME NEW job \in Jobs, job.op = T_OPEN, Ended(job)'
               PROVE  Idling' /\ Verified(job)
    BY <1>5 DEF UploadOK
  <2>1. job = host.job /\ Asked(job)
    BY <1>5
  <2>2. Idling /\ Verified(job)
    BY <1>2, <1>3, <2>1 DEF UploadOK
  <2> QED
    BY <1>1, <2>2 DEF Idling
<1>8. CommandOK'
  <2> SUFFICES ASSUME NEW job \in Jobs, job.op \in {T_DEL, T_REN, T_PWRITE}, Ended(job)'
               PROVE  Idling' /\ Promise(job)
    BY <1>5 DEF CommandOK
  <2>1. job = host.job /\ Asked(job) /\ up[1].body = 0
    BY <1>5
  <2>2. Idling /\ Promise(job)
    BY <1>2, <1>3, <2>1 DEF CommandOK
  <2> QED
    BY <1>1, <2>2 DEF Idling
<1>9. GetOK' /\ ListOK'
  BY <1>5 DEF GetOK, ListOK, Streams
<1> QED
  BY <1>6, <1>7, <1>8, <1>9

\* A stream is over.
LEMMA EndsStreamOK ==
    ASSUME AgentOK, HostOK, LineOK, GetOK, ListOK, AgentSame,
           host.phase = "stream", Ends(host.got),
           down' = Append(down, Frame(T_ACK, Head(up).seq, None)),
           host.job.op = T_LIST \/ Head(up).body = host.got,
           up # <<>>, up' = Tail(up), Head(up).ok, Head(up).type = T_CLOSE
    PROVE  LineOK' /\ UploadOK' /\ CommandOK' /\ GetOK' /\ ListOK'
<1>1. UNCHANGED <<disk, dirs, pc, todo, rfd>>
  BY DEF AgentSame, agentVars, kernelVars
<1>2. /\ Head(up) = up[1] /\ 1 \in DOMAIN up /\ Head(up) \in UpFrames
      /\ up \in Seq(UpFrames) /\ host.got \in Seq(Bodies)
      /\ host.job.op \in {T_GET, T_LIST} /\ host.job \in Jobs
  BY LineTail DEF HostOK, Hosts
<1>3. /\ host' = Resting /\ host'.phase = "idle"
      /\ result' # None => /\ result'.job = host.job /\ result'.value = host.got
                           /\ result'.hit = host.hit
  BY EndsIs
<1>4. ASSUME NEW job
      PROVE  /\ ~Asked(job)' /\ ~Fetched(job)'
             /\ Ended(job)' => /\ job = host.job /\ Fetched(job) /\ result'.value = host.got
                               /\ result'.hit = host.hit
             /\ Entries(job)' = Entries(job) /\ Whole(job)' = Whole(job)
             /\ Sending(job)' <=> Sending(job)
  BY <1>1, <1>3, FilesSame DEF Asked, Fetched, Ended, Sending
<1>5. LineOK'
  <2> DEFINE f == Frame(T_ACK, Head(up).seq, None)
  <2>1. f \in DownFrames /\ f.type = T_ACK
    BY <1>2, Acknowledgements DEF UpFrames, Frame
  <2> HIDE DEF f
  <2>2. /\ DOMAIN down' = 1 .. Len(down) + 1 /\ DOMAIN down = 1 .. Len(down) /\ Len(down) \in Nat
        /\ \A i \in DOMAIN down : down'[i] = down[i]
        /\ down'[Len(down) + 1] = f
    BY <2>1, LineAppend DEF HostOK, f
  <2> SUFFICES ASSUME NEW job \in Jobs, Ended(job)', NEW i \in DOMAIN down'
               PROVE  Late(down'[i], job)
    BY <1>4 DEF LineOK, Late, Copy
  <2>3. job = host.job /\ Fetched(job) /\ Streams(job)
    BY <1>2, <1>4 DEF Streams
  <2>4. CASE i \in DOMAIN down
    BY <2>2, <2>3, <2>4 DEF LineOK
  <2>5. CASE i = Len(down) + 1
    BY <2>1, <2>2, <2>3, <2>5 DEF Late
  <2> QED
    BY <2>2, <2>4, <2>5
<1>6. UploadOK' /\ CommandOK'
  BY <1>2, <1>4 DEF UploadOK, CommandOK
<1>7. GetOK'
  <2> SUFFICES ASSUME NEW job \in Jobs, job.op = T_GET, MaxOpen >= 2, Ended(job)'
               PROVE  Sending(job) /\ host.got = Whole(job)
    BY <1>4 DEF GetOK
  <2>1. job = host.job /\ Fetched(job)
    BY <1>4
  <2>2. Sending(job) /\ up[1].body = Whole(job)
    BY <1>2, <2>1 DEF GetOK
  <2> QED
    BY <1>2, <2>1, <2>2
<1>8. ListOK'
  <2> SUFFICES ASSUME NEW job \in Jobs, job.op = T_LIST, Ended(job)'
               PROVE  pc' # "get" /\ (~host.hit => host.got = Entries(job))
    BY <1>4 DEF ListOK
  <2>1. job = host.job /\ Fetched(job)
    BY <1>4
  <2>2. PICK e \in Seq(Names \cup SubDirs), n \in Nat : e = Entries(job) /\ n = Len(host.got)
    <3>1. Entries(job) \in Seq(Names \cup SubDirs) /\ Len(host.got) \in Nat
      BY <1>2, EntriesAre
    <3> QED
      BY <3>1, Zenon
  <2>3. pc # "get" /\ (~host.hit => Begins(host.got, e) /\ Listing(e, n, 0))
    BY <2>1, <2>2 DEF ListOK
  <2>4. ~host.hit => n = Len(e)
    BY <1>1, <1>2, <2>3, ListingHead, SMTT(30)
  <2>5. ~host.hit => host.got = e
    <3>1. e \in Seq(Bodies)
      <4>1. Names \cup SubDirs \subseteq Bodies
        BY DEF Bodies, Items
      <4> QED
        BY <4>1
    <3>2. ~host.hit => Len(host.got) = Len(e) /\ \A i \in 1 .. Len(host.got) : host.got[i] = e[i]
      BY <2>2, <2>3, <2>4 DEF Begins
    <3> QED
      BY <1>2, <3>1, <3>2, SeqEqual, Zenon
  <2> QED
    BY <1>1, <2>2, <2>3, <2>5
<1> QED
  BY <1>5, <1>6, <1>7, <1>8
---------------------------------------------------------------------------
(* The steps of the host and of the line together.                         *)

\* What the host and the line leave of the agent.
LEMMA AgentUntouched ==
    ASSUME AgentOK, AgentSame
    PROVE  AgentOK'
BY DEF AgentOK, AgentSame, agentVars, kernelVars, KernelOK, StreamOK, HandlesOK

JobsOK == LineOK /\ UploadOK /\ CommandOK /\ GetOK /\ ListOK

\* The host waits for the same; only listings look at more.
LEMMA JobsSame ==
    ASSUME HostOK, JobsOK, SameHost, result' = result, AgentSame, Thinned(up', up),
           down' \in Seq(DownFrames), DownKept, ListOK'
    PROVE  JobsOK'
BY LineSame, UploadSame, CommandSame, GetSame DEF JobsOK

\* A job, or a frame of it, is sent with a number of its own.
LEMMA JobsBegun ==
    ASSUME Careful, HostOK, NEW job \in Jobs, NEW line \in Seq(DownFrames), Begin(job, 0, line),
           result' = None,
           \A i \in DOMAIN line : \/ \E j \in DOMAIN down : line[i].seq = down[j].seq
                                  \/ \E j \in DOMAIN up : line[i].seq = up[j].seq,
           \A i \in DOMAIN up' : \E j \in DOMAIN up : up'[i] = up[j]
    PROVE  JobsOK'
<1>1. StepOf(job, 0)
  BY DEF StepOf
<1> QED
  BY <1>1, BegunOK DEF JobsOK

\* HostReceive, by the phase of the host and the frame read.
LEMMA ReceiveKeeps ==
    ASSUME Careful, AgentOK, HostOK, JobsOK, HostReceive, HostOK'
    PROVE  JobsOK'
<1> DEFINE f == Head(up)
           mine == host.phase = "reply" /\ f.ok /\ Answers(f)
           ack == Append(down, Frame(T_ACK, f.seq, None))
           nak == Append(down, Frame(T_NAK, f.seq, None))
<1>0. /\ up # <<>> /\ up' = Tail(up) /\ AgentSame
      /\ down \in Seq(DownFrames) /\ up \in Seq(UpFrames) /\ host \in Hosts
      /\ down' \in Seq(DownFrames)
  BY Received DEF AgentSame, HostOK
<1>1. /\ f = up[1] /\ 1 \in DOMAIN up /\ f \in UpFrames
      /\ \A i \in DOMAIN up' : \E j \in DOMAIN up : up'[i] = up[j]
      /\ Thinned(up', up)
  <2>1. /\ f = up[1] /\ 1 \in DOMAIN up /\ f \in UpFrames
        /\ \A i \in DOMAIN Tail(up) : i + 1 \in DOMAIN up /\ Tail(up)[i] = up[i + 1]
    BY <1>0, LineTail
  <2>2. \A i \in DOMAIN Tail(up) : \E j \in DOMAIN up : Tail(up)[i] = up[j]
    BY <2>1
  <2> QED
    BY <1>0, <2>1, <2>2, ThinnedTail
<1>2. mine => Answered
  BY <1>1 DEF Answered
<1>3. LineOK /\ UploadOK /\ CommandOK /\ GetOK /\ ListOK
  BY DEF JobsOK
<1>4. f.seq \in 0 .. SeqLimit - 1
  BY <1>1 DEF UpFrames
<1>5. host.phase # "idle" => host.job \in Jobs /\ result = None
  BY DEF HostOK
<1> HIDE DEF f
<1>6. CASE mine /\ AnotherStep
  <2>1. UploadOK'
    BY <1>0, <1>1, <1>2, <1>3, <1>6, NextStepOK
  <2>2. LineOK' /\ CommandOK' /\ GetOK' /\ ListOK'
    <3>1. /\ host.job \in Jobs /\ StepOf(host.job, host.step + 1)
          /\ Begin(host.job, host.step + 1, down) /\ result' = None
      BY <1>0, <1>5, <1>6 DEF AnotherStep, StepOf, Hosts
    <3>2. \A i \in DOMAIN down : \E j \in DOMAIN down : down[i].seq = down[j].seq
      OBVIOUS
    <3> QED
      BY <1>0, <1>1, <3>1, <3>2, BegunOK
  <2> QED
    BY <2>1, <2>2 DEF JobsOK
<1>7. CASE mine /\ AllAgain(down)
  BY <1>0, <1>1, <1>5, <1>7, JobsBegun DEF AllAgain
<1>8. CASE mine /\ Streams(host.job) /\ UNCHANGED <<down, result>>
           /\ host' = [host EXCEPT !.phase = "stream"]
  BY <1>0, <1>3, <1>8, ToStreamOK DEF JobsOK, f
<1>9. CASE mine /\ ~Streams(host.job) /\ Ends(f.body) /\ UNCHANGED down
           /\ host.step = LastStep(host.job) /\ (host.job.op = T_OPEN => f.body = 0)
  BY <1>0, <1>3, <1>9, EndsCommandOK DEF JobsOK, f
<1>10. CASE ~mine /\ host.phase = "reply" /\ Resend /\ UNCHANGED <<host, result>>
  <2>1. DownKept
    <3>1. /\ Request(host.job, host.step, host.seq) \in DownFrames
          /\ Request(host.job, host.step, host.seq).seq = host.seq
          /\ Copy(Request(host.job, host.step, host.seq), host.job, host.step)
          /\ down' = Append(down, Request(host.job, host.step, host.seq))
      BY <1>10, Resent
    <3> QED
      BY <1>10, <3>1, DownAppended
  <2>2. ListOK'
    BY <1>0, <1>3, <1>10, ListIgnored DEF f
  <2> QED
    BY <1>0, <1>1, <1>10, <2>1, <2>2, JobsSame DEF SameHost
<1>11. CASE ~mine /\ host.phase # "stream" /\ Ignored
  <2>1. DownKept
    BY <1>0, <1>11, ThinnedSame, DownThinned DEF Ignored
  <2>2. ListOK'
    BY <1>0, <1>3, <1>11, ListIgnored DEF f, Ignored
  <2> QED
    BY <1>0, <1>1, <1>11, <2>1, <2>2, JobsSame DEF SameHost, Ignored
<1>12. CASE host.phase = "stream" /\ Hit /\ UNCHANGED result /\ down' = nak
  <2>1. DownKept
    <3>1. Frame(T_NAK, f.seq, None) \in DownFrames /\ Frame(T_NAK, f.seq, None).type = T_NAK
      BY <1>4, Acknowledgements DEF Frame
    <3> QED
      BY <1>12, <3>1, DownAppended
  <2>2. ListOK'
    BY <1>0, <1>1, <1>3, <1>12, ListHit
  <2>3. SameHost
    BY <1>0, <1>12, HitIs
  <2> QED
    BY <1>0, <1>1, <1>12, <2>1, <2>2, <2>3, JobsSame
<1>13. CASE host.phase = "stream" /\ f.ok /\ f.type \in {T_DATA, T_ENTRY} /\ down' = ack
            /\ host' = [host EXCEPT !.got = Append(@, f.body)] /\ UNCHANGED result
  <2>1. DownKept
    <3>1. Frame(T_ACK, f.seq, None) \in DownFrames /\ Frame(T_ACK, f.seq, None).type = T_ACK
      BY <1>4, Acknowledgements DEF Frame
    <3> QED
      BY <1>13, <3>1, DownAppended
  <2>2. SameHost /\ host'.hit = host.hit /\ host'.got = Append(host.got, f.body)
    BY <1>0, <1>13 DEF SameHost, Hosts
  <2>3. ListOK'
    BY <1>0, <1>3, <1>13, <2>2, ListRead DEF f
  <2> QED
    BY <1>0, <1>1, <1>13, <2>1, <2>2, <2>3, JobsSame
<1>14. CASE host.phase = "stream" /\ f.ok /\ f.type = T_CLOSE /\ down' = ack
            /\ (host.job.op = T_LIST \/ f.body = host.got) /\ Ends(host.got)
  BY <1>0, <1>3, <1>14, EndsStreamOK DEF JobsOK, f
<1>15. CASE host.phase = "stream" /\ AllAgain(ack)
  <2>1. /\ ack \in Seq(DownFrames)
        /\ DOMAIN ack = 1 .. Len(down) + 1 /\ DOMAIN down = 1 .. Len(down) /\ Len(down) \in Nat
        /\ \A i \in DOMAIN down : ack[i] = down[i]
        /\ ack[Len(down) + 1] = Frame(T_ACK, f.seq, None)
    BY <1>0, <1>4, Acknowledgements, LineAppend
  <2>2. Frame(T_ACK, f.seq, None).seq = up[1].seq
    BY <1>1 DEF Frame
  <2> HIDE DEF ack
  <2>3. ASSUME NEW i \in DOMAIN ack
        PROVE  \/ \E j \in DOMAIN down : ack[i].seq = down[j].seq
               \/ \E j \in DOMAIN up : ack[i].seq = up[j].seq
    <3>1. CASE i \in DOMAIN down
      BY <2>1, <3>1
    <3>2. CASE i = Len(down) + 1
      BY <1>1, <2>1, <2>2, <3>2
    <3> QED
      BY <2>1, <3>1, <3>2
  <2> QED
    BY <1>0, <1>1, <1>5, <1>15, <2>1, <2>3, JobsBegun DEF AllAgain
<1>16. CASE host.phase = "stream" /\ f.ok /\ f.type \notin {T_DATA, T_ENTRY, T_CLOSE} /\ Ignored
  <2>1. DownKept
    BY <1>0, <1>16, ThinnedSame, DownThinned DEF Ignored
  <2>2. SameHost /\ host'.hit = host.hit /\ result' = result
    BY <1>16 DEF Ignored, SameHost
  <2>3. ListOK'
    BY <1>0, <1>3, <1>16, <2>2, ListRead DEF f
  <2> QED
    BY <1>0, <1>1, <1>16, <2>1, <2>2, <2>3, JobsSame
<1> HIDE DEF mine, ack, nak
<1> QED
  BY <1>6, <1>7, <1>8, <1>9, <1>10, <1>11, <1>12, <1>13, <1>14, <1>15, <1>16, Received
     DEF mine, ack, nak, f
\* The steps of the host's timer, of the line and of the host's user.
LEMMA HostKeeps ==
    ASSUME Careful, AgentOK, HostOK, JobsOK, HostOK',
           \/ HostReceive \/ Timeout \/ EarlyTimeout \/ Lose \/ Damage \/ Abandon
           \/ UNCHANGED vars \/ \E job \in Jobs : HostStart(job)
    PROVE  AgentOK' /\ JobsOK'
<1>0. /\ down \in Seq(DownFrames) /\ up \in Seq(UpFrames) /\ host \in Hosts
      /\ down' \in Seq(DownFrames)
      /\ host.phase # "idle" => host.job \in Jobs /\ result = None
      /\ Thinned(up, up) /\ Thinned(down, down)
  BY ThinnedSame DEF HostOK
<1>1. LineOK /\ UploadOK /\ CommandOK /\ GetOK /\ ListOK
  BY DEF JobsOK
<1>2. \A i \in DOMAIN down : \/ \E j \in DOMAIN down : down[i].seq = down[j].seq
                             \/ \E j \in DOMAIN up : down[i].seq = up[j].seq
  OBVIOUS
<1>3. \A i \in DOMAIN up : \E j \in DOMAIN up : up[i] = up[j]
  OBVIOUS
<1>4. AgentSame
  BY Received DEF AgentSame, Timeout, EarlyTimeout, GiveUpWait, Lose, Damage, Abandon, HostStart,
                  vars, xferVars, agentVars, kernelVars
<1> SUFFICES JobsOK'
  BY <1>4, AgentUntouched
<1>5. CASE HostReceive
  BY <1>5, ReceiveKeeps
<1>6. CASE Timeout \/ EarlyTimeout
  <2>1. /\ host.phase \in {"reply", "stream"} /\ UNCHANGED <<up, result>>
        /\ IF host.phase = "reply" THEN Resend /\ UNCHANGED host ELSE Begin(host.job, 0, down)
    BY <1>6 DEF Timeout, EarlyTimeout, GiveUpWait
  <2>2. CASE host.phase = "reply"
    <3>1. Resend /\ UNCHANGED host
      BY <2>1, <2>2
    <3>2. DownKept
      <4>1. /\ Request(host.job, host.step, host.seq) \in DownFrames
            /\ Request(host.job, host.step, host.seq).seq = host.seq
            /\ Copy(Request(host.job, host.step, host.seq), host.job, host.step)
            /\ down' = Append(down, Request(host.job, host.step, host.seq))
        BY <2>2, <3>1, Resent
      <4> QED
        BY <2>2, <4>1, DownAppended
    <3>3. ListOK'
      BY <1>1, <1>4, <2>1, <3>1, ListKept
    <3>4. SameHost /\ result' = result /\ Thinned(up', up)
      BY <1>0, <2>1, <3>1 DEF SameHost
    <3> QED
      BY <1>0, <1>4, <3>2, <3>3, <3>4, JobsSame
  <2>3. CASE host.phase = "stream"
    <3>1. Begin(host.job, 0, down) /\ host.job \in Jobs /\ result' = None /\ up' = up
      BY <1>0, <2>1, <2>3
    <3> QED
      BY <1>0, <1>2, <1>3, <3>1, JobsBegun
  <2> QED
    BY <2>1, <2>2, <2>3
<1>7. CASE Lose \/ Damage
  <2>1. Hit /\ result' = result
    BY <1>7 DEF Lose, Damage
  <2>2. Thinned(up', up) /\ Thinned(down', down)
    <3>1. CASE Lose
      BY <1>0, <3>1, ThinnedRemove DEF Lose
    <3>2. CASE Damage
      <4>1. ASSUME NEW i \in DOMAIN down
            PROVE  Thinned([down EXCEPT ![i].ok = FALSE], down)
        <5>1. down[i] \in DownFrames
          BY <1>0
        <5>2. [down[i] EXCEPT !.ok = FALSE] \in DownFrames /\ Alike([down[i] EXCEPT !.ok = FALSE], down[i])
          BY <5>1, DownBodies DEF Alike, DownFrames
        <5> QED
          BY <1>0, <5>2, ThinnedDamage
      <4>2. ASSUME NEW i \in DOMAIN up
            PROVE  Thinned([up EXCEPT ![i].ok = FALSE], up)
        <5>1. up[i] \in UpFrames
          BY <1>0
        <5>2. [up[i] EXCEPT !.ok = FALSE] \in UpFrames /\ Alike([up[i] EXCEPT !.ok = FALSE], up[i])
          BY <5>1 DEF Alike, UpFrames
        <5> QED
          BY <1>0, <5>2, ThinnedDamage
      <4> QED
        BY <1>0, <3>2, <4>1, <4>2 DEF Damage
    <3> QED
      BY <1>7, <3>1, <3>2
  <2>3. DownKept
    BY <1>0, <2>2, DownThinned
  <2>4. ListOK'
    BY <1>1, <1>4, <2>1, <2>2, ListHit
  <2>5. SameHost
    BY <1>0, <2>1, HitIs
  <2> QED
    BY <1>0, <1>4, <2>1, <2>2, <2>3, <2>4, <2>5, JobsSame
<1>8. CASE Abandon
  <2>1. host' = Resting /\ result' = None
    BY <1>0, <1>8 DEF Abandon
  <2> QED
    BY <2>1, NothingOK DEF JobsOK
<1>9. CASE UNCHANGED vars
  <2>1. UNCHANGED <<host, result, up, down>>
    BY <1>9 DEF vars, xferVars, linkVars
  <2>2. DownKept
    BY <1>0, <2>1, DownThinned
  <2>3. ListOK'
    BY <1>1, <1>4, <2>1, ListKept
  <2> QED
    BY <1>0, <1>4, <2>1, <2>2, <2>3, JobsSame DEF SameHost
<1>10. ASSUME NEW job \in Jobs, HostStart(job)
       PROVE  JobsOK'
  <2>1. Begin(job, 0, down) /\ result' = None /\ up' = up
    BY <1>10 DEF HostStart
  <2> QED
    BY <1>0, <1>2, <1>3, <2>1, JobsBegun
<1> QED
  BY <1>5, <1>6, <1>7, <1>8, <1>9, <1>10
---------------------------------------------------------------------------
(* The steps of the agent.                                                 *)

\* What a step of the agent does to the line: it reads the first frame, and
\* only the first frame it sends may be the answer the host waits on.
LEMMA Obeyed ==
    ASSUME Careful, AgentOK, HostOK, AgentStep, UNCHANGED <<host, result>>
    PROVE  LET f == Head(down)
           IN /\ f \in DownFrames /\ f = down[1] /\ 1 \in DOMAIN down
              /\ \A i \in DOMAIN down' : i + 1 \in DOMAIN down /\ down'[i] = down[i + 1] /\ i >= 1
              /\ DOMAIN up = 1 .. Len(up) /\ Len(up) \in Nat
              /\ \E frames \in Seq(UpFrames) : up' = up \o frames
              /\ \A i \in DOMAIN up : i \in DOMAIN up' /\ up'[i] = up[i]
              /\ \A i \in DOMAIN up' : Answers(up[i])' =>
                    \/ i \in DOMAIN up /\ Answers(up[i])
                    \/ i = Len(up) + 1 /\ f.seq = host.seq /\ f.ok /\ pc = "main"
              /\ Answered' => \/ Answered
                              \/ host.phase = "reply" /\ f.seq = host.seq /\ f.ok /\ pc = "main"
<1> DEFINE f == Head(down)
<1>0. down \in Seq(DownFrames) /\ up \in Seq(UpFrames) /\ StreamOK
  BY DEF HostOK, AgentOK
<1>1. down # <<>> /\ down' = Tail(down)
  BY <1>0, Dispatch
<1>2. /\ f \in DownFrames /\ f = down[1] /\ 1 \in DOMAIN down
      /\ \A i \in DOMAIN down' : i + 1 \in DOMAIN down /\ down'[i] = down[i + 1]
      /\ \A i \in DOMAIN down' : i >= 1
  <2>1. /\ f \in DownFrames /\ f = down[1] /\ 1 \in DOMAIN down
        /\ \A i \in DOMAIN Tail(down) : i + 1 \in DOMAIN down /\ Tail(down)[i] = down[i + 1]
        /\ Tail(down) \in Seq(DownFrames)
    BY <1>0, <1>1, LineTail
  <2>2. \A i \in DOMAIN Tail(down) : i >= 1
    BY <2>1
  <2> QED
    BY <1>1, <2>1, <2>2, Zenon
<1> HIDE DEF f
<1>3. PICK frames \in Seq(UpFrames) : up' = up \o frames /\ Replies(frames, f)
  BY <1>0, FramesStep DEF f
<1>4. /\ DOMAIN up' = 1 .. Len(up) + Len(frames) /\ DOMAIN up = 1 .. Len(up)
      /\ Len(up) \in Nat /\ Len(frames) \in Nat
      /\ \A i \in DOMAIN up : up'[i] = up[i]
      /\ \A i \in 1 .. Len(frames) : up'[Len(up) + i] = frames[i]
  <2>1. /\ DOMAIN (up \o frames) = 1 .. Len(up) + Len(frames) /\ DOMAIN up = 1 .. Len(up)
        /\ Len(up) \in Nat /\ Len(frames) \in Nat
        /\ \A i \in DOMAIN up : (up \o frames)[i] = up[i]
        /\ \A i \in 1 .. Len(frames) : (up \o frames)[Len(up) + i] = frames[i]
    BY <1>0, LineConcat
  <2> QED
    BY <1>3, <2>1, Zenon
<1>5. \A i \in DOMAIN up : i \in DOMAIN up'
  BY <1>4
<1>6. ASSUME NEW i \in DOMAIN up', Answers(up[i])'
      PROVE  \/ i \in DOMAIN up /\ Answers(up[i])
             \/ i = Len(up) + 1 /\ f.seq = host.seq /\ f.ok /\ pc = "main"
  <2>1. up'[i].type = T_ACK /\ up'[i].seq = host.seq
    BY <1>6 DEF Answers
  <2>2. CASE i \in DOMAIN up
    BY <1>4, <2>1, <2>2 DEF Answers
  <2>3. CASE i \notin DOMAIN up
    <3>1. i - Len(up) \in 1 .. Len(frames) /\ Len(up) + (i - Len(up)) = i
      BY <1>4, <2>3
    <3>2. frames[i - Len(up)] = up'[i] /\ i - Len(up) \in DOMAIN frames
      BY <1>4, <3>1
    <3>3. i - Len(up) = 1 /\ f.seq = host.seq /\ f.ok /\ pc = "main"
      BY <1>3, <2>1, <3>2 DEF Replies
    <3> QED
      BY <1>4, <3>1, <3>3
  <2> QED
    BY <2>2, <2>3
<1>7. ASSUME Answered'
      PROVE  \/ Answered
             \/ host.phase = "reply" /\ f.seq = host.seq /\ f.ok /\ pc = "main"
  <2>1. host.phase = "reply" /\ \E i \in DOMAIN up' : Answers(up[i])'
    BY <1>7 DEF Answered
  <2> QED
    BY <1>6, <2>1 DEF Answered
<1> QED
  BY <1>2, <1>3, <1>4, <1>5, <1>6, <1>7 DEF f

\* Once the answer is under way, the agent reads nothing but copies of the
\* request.
LEMMA HeardCopy ==
    ASSUME Careful, AgentOK, HostOK, LineOK, AgentStep, UNCHANGED <<host, result>>,
           NEW job \in Jobs, Asked(job), Answered'
    PROVE  /\ Copy(Head(down), job, host.step)
           /\ \A i \in DOMAIN down : down[i].seq = host.seq /\ Copy(down[i], job, host.step)
           /\ \A i \in DOMAIN down' : Copy(down'[i], job, host.step)
           /\ Answered \/ (Head(down).ok /\ pc = "main")
<1> DEFINE f == Head(down)
<1>1. /\ f = down[1] /\ 1 \in DOMAIN down
      /\ \A i \in DOMAIN down' : i + 1 \in DOMAIN down /\ down'[i] = down[i + 1]
      /\ \/ Answered
         \/ host.phase = "reply" /\ f.seq = host.seq /\ f.ok /\ pc = "main"
  BY Obeyed
<1> HIDE DEF f
<1>2. /\ \A i \in DOMAIN down : down[i].seq = host.seq => Copy(down[i], job, host.step)
      /\ \A i, j \in DOMAIN down : i < j /\ down[i].seq = host.seq => down[j].seq = host.seq
      /\ Answered => \A i \in DOMAIN down : down[i].seq = host.seq
  BY DEF LineOK
<1>3. \A i \in DOMAIN down : i = 1 \/ 1 < i
  <2>1. down \in Seq(DownFrames)
    BY DEF HostOK
  <2> QED
    BY <2>1
<1>4. \A i \in DOMAIN down : down[i].seq = host.seq
  <2>1. CASE Answered
    BY <1>2, <2>1
  <2>2. CASE f.seq = host.seq
    BY <1>1, <1>2, <1>3, <2>2
  <2> QED
    BY <1>1, <2>1, <2>2
<1> QED
  BY <1>1, <1>2, <1>4 DEF f

\* The frames on the line to the agent, and those it answers, stay as they are
\* said to be.
LEMMA LineObeyed ==
    ASSUME Careful, AgentOK, HostOK, LineOK, AgentStep, UNCHANGED <<host, result>>
    PROVE  LineOK'
<1>1. \A i \in DOMAIN down' : i + 1 \in DOMAIN down /\ down'[i] = down[i + 1] /\ i >= 1
  BY Obeyed
<1> SUFFICES ASSUME NEW job \in Jobs
             PROVE  /\ Asked(job)' =>
                       /\ \A i \in DOMAIN down' : down'[i].seq = host'.seq => Copy(down'[i], job, host'.step)
                       /\ \A i, j \in DOMAIN down' :
                             i < j /\ down'[i].seq = host'.seq => down'[j].seq = host'.seq
                       /\ Answered' => \A i \in DOMAIN down' : down'[i].seq = host'.seq
                    /\ Fetched(job)' \/ Ended(job)' => \A i \in DOMAIN down' : Late(down'[i], job)
  BY DEF LineOK, Copy, Late
<1>2. /\ Asked(job)' <=> Asked(job)
      /\ Fetched(job)' <=> Fetched(job)
      /\ Ended(job)' <=> Ended(job)
      /\ host'.seq = host.seq /\ host'.step = host.step
  BY DEF Asked, Fetched, Ended
<1>3. ASSUME Asked(job)
      PROVE  /\ \A i \in DOMAIN down' : down'[i].seq = host.seq => Copy(down'[i], job, host.step)
             /\ \A i, j \in DOMAIN down' : i < j /\ down'[i].seq = host.seq => down'[j].seq = host.seq
             /\ Answered' => \A i \in DOMAIN down' : down'[i].seq = host.seq
  <2>1. /\ \A i \in DOMAIN down : down[i].seq = host.seq => Copy(down[i], job, host.step)
        /\ \A i, j \in DOMAIN down : i < j /\ down[i].seq = host.seq => down[j].seq = host.seq
    BY <1>3 DEF LineOK
  <2>2. \A i, j \in DOMAIN down' : i < j => i + 1 < j + 1
    <3>1. down' \in Seq(DownFrames)
      BY LineTail, Dispatch DEF HostOK, AgentOK
    <3> QED
      BY <3>1
  <2>3. Answered' => \A i \in DOMAIN down' : down'[i].seq = host.seq
    BY <1>1, <1>3, HeardCopy
  <2> QED
    BY <1>1, <2>1, <2>2, <2>3
<1>4. ASSUME Fetched(job) \/ Ended(job), NEW i \in DOMAIN down'
      PROVE  Late(down'[i], job)
  BY <1>1, <1>4 DEF LineOK
<1> QED
  BY <1>2, <1>3, <1>4
\* What a job that is one frame asks of the agent.
LEMMA OneFrame ==
    ASSUME NEW f, NEW job \in Jobs, job.op # T_OPEN, NEW k, Copy(f, job, k)
    PROVE  f.type = job.op /\ f.body = job.body /\ job.body \in JobBody(job.op)
BY JobsAssumption DEF Copy, Request, Frame

\* .h_del leaves no such file.
LEMMA DelKeeps ==
    ASSUME KernelOK, cwd = Root, NEW job \in Jobs, job.op = T_DEL, Del,
           Head(down).body = job.body
    PROVE  FileOf(job)' = None
<1>1. job.body \in Parts \X Names
  BY JobsAssumption DEF JobBody
<1> DEFINE p == job.body[1]
           n == job.body[2]
           d == Directory(p)
<1>2. p \in Parts /\ n \in Names
  BY <1>1
<1> HIDE DEF p, n
<1>3. /\ Resolve(p) = d /\ d \in Directories \cup {None}
      /\ Content(p, n) = IF d = None THEN None ELSE disk[d][n]
  BY <1>2, Resolved
<1>4. UNCHANGED dirs
  BY DEF Del
<1>5. d' = d
  BY <1>4 DEF Directory
<1>6. disk' = IF Content(p, n) # None THEN [disk EXCEPT ![Resolve(p)][n] = None] ELSE disk
  BY DEF Del, p, n
<1>7. FileOf(job)' = IF d' = None THEN None ELSE disk'[d'][n]
  BY DEF FileOf, p, n
<1> HIDE DEF d
<1>8. CASE d = None
  BY <1>5, <1>7, <1>8
<1>9. CASE d # None /\ Content(p, n) # None
  <2>1. d \in Directories /\ disk' = [disk EXCEPT ![d][n] = None]
    BY <1>3, <1>6, <1>9
  <2>2. disk'[d][n] = None
    BY <1>2, <2>1 DEF KernelOK
  <2> QED
    BY <1>5, <1>7, <2>2
<1>10. CASE d # None /\ Content(p, n) = None
  BY <1>3, <1>5, <1>6, <1>7, <1>10
<1> QED
  BY <1>8, <1>9, <1>10

\* .h_ren leaves the file under the new name and none under the old one when it
\* says so, and again when it is told so again.
RenPromise(b) == disk[Root][b[1]] = None /\ disk[Root][b[2]] # None

LEMMA RenKeeps ==
    ASSUME KernelOK, cwd = Root, NEW job \in Jobs, job.op = T_REN, Ren,
           Head(down).body = job.body
    PROVE  /\ RenPromise(job.body) => RenPromise(job.body)'
           /\ \/ up' = up \o <<Frame(T_ACK, Head(down).seq, 1)>>
              \/ RenPromise(job.body)'
<1> DEFINE old == job.body[1]
           new == job.body[2]
           done == disk[Root][old] # None /\ disk[Root][new] = None
<1>1. old \in Names /\ new \in Names
  BY JobsAssumption DEF JobBody
<1>2. /\ disk' = IF done THEN [disk EXCEPT ![Root] =
                            [@ EXCEPT ![new] = disk[Root][old], ![old] = None]] ELSE disk
      /\ up' = up \o <<Frame(T_ACK, Head(down).seq, Status(done))>>
  BY DEF Ren, Answer, Ack
<1> HIDE DEF old, new
<1>3. CASE done
  <2>1. disk' = [disk EXCEPT ![Root] = [@ EXCEPT ![new] = disk[Root][old], ![old] = None]]
    BY <1>2, <1>3
  <2>2. disk'[Root][old] = None /\ disk'[Root][new] = disk[Root][old]
    BY <1>1, <1>3, <2>1 DEF KernelOK, Directories
  <2> QED
    BY <1>3, <2>2 DEF RenPromise, old, new
<1>4. CASE ~done
  <2>1. disk' = disk
    BY <1>2, <1>4
  <2>2. Status(done) = 1
    BY <1>4 DEF Status, Count
  <2> HIDE DEF done
  <2> QED
    BY <1>2, <2>1, <2>2 DEF RenPromise
<1> QED
  BY <1>3, <1>4

\* .h_pwrite: once the kernel opened the file, the chunk is at its offset or was
\* dropped.
LEMMA PwriteKeeps ==
    ASSUME KernelOK, cwd = Root, NEW job \in Jobs, job.op = T_PWRITE, Pwrite,
           Head(down).body = job.body
    PROVE  /\ Promise(job) => Promise(job)'
           /\ \/ up' = up \o <<Frame(T_ACK, Head(down).seq, 1)>>
              \/ Promise(job)'
<1>1. job.body \in Parts \X Names \X Nat \X Chunks
  BY JobsAssumption DEF JobBody
<1> DEFINE p == job.body[1]
           n == job.body[2]
           off == job.body[3]
           x == job.body[4]
           d == Directory(p)
           found == Content(p, n)
           c == IF found = None THEN <<>> ELSE found
           pos == SeekTo(c, off)
           opens == d # None /\ held < MaxOpen /\ (found # None \/ (d = Root /\ Room))
           writes == Fits(c, pos)
           new == IF writes THEN WriteAt(c, pos, x) ELSE c
<1>2. p \in Parts /\ n \in Names /\ off \in Nat /\ x \in Chunks
  BY <1>1
<1> HIDE DEF p, n, off, x
<1>3. /\ Resolve(p) = d /\ d \in Directories \cup {None}
      /\ found \in {None} \cup Seq(Chunks)
  BY <1>2, Resolved
<1>4. UNCHANGED dirs
  BY DEF Pwrite
<1>5. /\ disk' = IF ~opens THEN disk ELSE [disk EXCEPT ![d][n] = new]
      /\ dropped' = IF opens THEN Marked(T_PWRITE, ~(writes /\ pos = off)) ELSE dropped
      /\ up' = up \o <<Frame(T_ACK, Head(down).seq, Status(opens))>>
  BY <1>3 DEF Pwrite, Answer, Ack, p, n, off, x
<1>6. FileOf(job)' = (IF d = None THEN None ELSE disk'[d][n])
  BY <1>4 DEF FileOf, Directory, p, n
<1>7. c \in Seq(Chunks)
  <2>1. <<>> \in Seq(Chunks)
    OBVIOUS
  <2> HIDE DEF found
  <2> QED
    BY <1>3, <2>1
<1>8. CASE opens
  <2>1. d \in Directories
    BY <1>3, <1>8
  <2> HIDE DEF d, found, c
  <2>2. dropped' = Marked(T_PWRITE, ~(writes /\ pos = off))
    BY <1>5, <1>8
  <2> HIDE DEF pos, writes
  <2>3. CASE ~(writes /\ pos = off)
    <3>1. T_PWRITE \in dropped'
      BY <2>2, <2>3 DEF Marked
    <3> QED
      BY <3>1 DEF Promise
  <2>4. CASE writes /\ pos = off
    <3>1. new = WriteAt(c, off, x) /\ off <= Len(c)
      BY <1>2, <1>7, <2>4 DEF SeekTo, pos
    <3>2. new \in Seq(Chunks) /\ off < Len(new) /\ new[off + 1] = x
      <4>1. CASE off < Len(c)
        <5>1. new = [c EXCEPT ![off + 1] = x]
          BY <3>1, <4>1 DEF WriteAt
        <5>2. new \in Seq(Chunks) /\ Len(new) = Len(c) /\ new[off + 1] = x
          BY <1>2, <1>7, <4>1, <5>1
        <5> QED
          BY <4>1, <5>2
      <4>2. CASE off = Len(c)
        <5>1. new = Append(c, x)
          <6>1. ~(off < Len(c))
            BY <1>2, <1>7, <4>2
          <6> HIDE DEF new
          <6> QED
            BY <3>1, <6>1 DEF WriteAt
        <5> QED
          BY <1>2, <1>7, <4>2, <5>1
      <4> QED
        BY <1>2, <1>7, <3>1, <4>1, <4>2
    <3> HIDE DEF new
    <3>3. disk'[d][n] = new
      <4>1. disk' = [disk EXCEPT ![d][n] = new]
        BY <1>5, <1>8
      <4> QED
        BY <1>2, <2>1, <4>1 DEF KernelOK
    <3>4. FileOf(job)' = new /\ new # None
      BY <1>6, <1>8, <3>2, <3>3, MarksAssumption
    <3> HIDE DEF opens
    <3> QED
      BY <3>2, <3>4 DEF Promise, off, x
  <2> QED
    BY <2>3, <2>4
<1>9. CASE ~opens
  <2>1. disk' = disk /\ dropped' = dropped /\ Status(opens) = 1
    BY <1>5, <1>9 DEF Status, Count
  <2>2. Promise(job)' = Promise(job)
    BY <1>4, <2>1, FilesSame
  <2> HIDE DEF opens
  <2> QED
    BY <1>5, <2>1, <2>2
<1> QED
  BY <1>8, <1>9
\* A copy of the request of a command: it is obeyed, or answered by NAK.
LEMMA CommandFrame ==
    ASSUME Careful, AgentOK, HostOK, AgentStep, Idling,
           NEW job \in Jobs, job.op \in {T_DEL, T_REN, T_PWRITE},
           NEW k, Copy(Head(down), job, k)
    PROVE  /\ Idling' /\ (Promise(job) => Promise(job)')
           /\ \/ Promise(job)'
              \/ \E g \in UpFrames : up' = up \o <<g>> /\ ~(g.type = T_ACK /\ g.body = 0)
<1> DEFINE f == Head(down)
<1>0. KernelOK /\ StreamOK /\ (pc = "main" => cwd = Root) /\ f \in DownFrames
  BY Dispatch, LineTail DEF AgentOK, HandlesOK, HostOK
<1>1. f.type = job.op /\ f.body = job.body
  BY OneFrame
<1>2. f.seq \in 0 .. SeqLimit - 1
  BY <1>0, DownBodies
<1> HIDE DEF f
<1>3. /\ Frame(T_ACK, f.seq, 1) \in UpFrames
      /\ ~(Frame(T_ACK, f.seq, 1).type = T_ACK /\ Frame(T_ACK, f.seq, 1).body = 0)
  BY <1>2 DEF Frame, UpFrames, Bodies
<1>4. pc = "main" /\ (Nak \/ (job.op = T_DEL /\ Del) \/ (job.op = T_REN /\ Ren)
                       \/ (job.op = T_PWRITE /\ Pwrite))
  BY <1>0, <1>1, Dispatch, SMTT(30) DEF Idling, f
<1>5. CASE Nak
  <2>1. /\ UNCHANGED <<disk, dirs, pc, dropped>> /\ up' = up \o <<Frame(T_NAK, f.seq, None)>>
    BY <1>5 DEF Nak, agentVars, kernelVars, Answer, f
  <2>2. /\ Frame(T_NAK, f.seq, None) \in UpFrames
        /\ ~(Frame(T_NAK, f.seq, None).type = T_ACK /\ Frame(T_NAK, f.seq, None).body = 0)
    BY <1>2 DEF Frame, UpFrames, Bodies
  <2>3. Promise(job)' = Promise(job) /\ Idling'
    BY <1>4, <2>1, FilesSame DEF Idling
  <2> QED
    BY <2>1, <2>2, <2>3
<1>6. CASE job.op = T_DEL /\ Del
  <2>1. FileOf(job)' = None /\ pc' = pc
    BY <1>0, <1>1, <1>4, <1>6, DelKeeps DEF Del, f
  <2>2. Promise(job)'
    BY <1>6, <2>1 DEF Promise
  <2> QED
    BY <1>4, <2>1, <2>2 DEF Idling
<1>7. CASE job.op = T_REN /\ Ren
  <2>1. /\ RenPromise(job.body) => RenPromise(job.body)'
        /\ \/ up' = up \o <<Frame(T_ACK, f.seq, 1)>>
           \/ RenPromise(job.body)'
        /\ pc' = pc
    BY <1>0, <1>1, <1>4, <1>7, RenKeeps DEF Ren, f
  <2>2. /\ Promise(job)' <=> RenPromise(job.body)'
        /\ Promise(job) <=> RenPromise(job.body)
    BY <1>7 DEF Promise, RenPromise
  <2> QED
    BY <1>3, <1>4, <2>1, <2>2 DEF Idling
<1>8. CASE job.op = T_PWRITE /\ Pwrite
  <2>1. /\ Promise(job) => Promise(job)'
        /\ \/ up' = up \o <<Frame(T_ACK, f.seq, 1)>>
           \/ Promise(job)'
        /\ pc' = pc
    BY <1>0, <1>1, <1>4, <1>8, PwriteKeeps DEF Pwrite, agentVars, f
  <2> QED
    BY <1>3, <1>4, <2>1 DEF Idling
<1> QED
  BY <1>4, <1>5, <1>6, <1>7, <1>8

LEMMA CommandObeyed ==
    ASSUME Careful, AgentOK, HostOK, LineOK, CommandOK, AgentStep, UNCHANGED <<host, result>>
    PROVE  CommandOK'
<1> SUFFICES ASSUME NEW job \in Jobs, job.op \in {T_DEL, T_REN, T_PWRITE}
             PROVE  /\ (Asked(job)' /\ Answered') =>
                          /\ Idling'
                          /\ \A i \in DOMAIN up' : Answers(up[i])' /\ up'[i].body = 0 => Promise(job)'
                    /\ Ended(job)' => Idling' /\ Promise(job)'
  BY DEF CommandOK
<1>1. (Asked(job)' <=> Asked(job)) /\ (Ended(job)' <=> Ended(job))
  BY DEF Asked, Ended
<1>2. ASSUME Asked(job), Answered'
      PROVE  /\ Idling'
             /\ \A i \in DOMAIN up' : Answers(up[i])' /\ up'[i].body = 0 => Promise(job)'
  <2>1. /\ Copy(Head(down), job, host.step)
        /\ Answered \/ pc = "main"
    BY <1>2, HeardCopy
  <2>2. Idling
    BY <1>2, <2>1 DEF CommandOK, Idling
  <2>3. /\ Idling' /\ (Promise(job) => Promise(job)')
        /\ \/ Promise(job)'
           \/ \E g \in UpFrames : up' = up \o <<g>> /\ ~(g.type = T_ACK /\ g.body = 0)
    BY <2>1, <2>2, CommandFrame
  <2>4. ASSUME NEW i \in DOMAIN up', Answers(up[i])', up'[i].body = 0
        PROVE  Promise(job)'
    <3>1. CASE i \in DOMAIN up /\ Answers(up[i])
      <4>1. Answered /\ up[i].body = 0
        BY <1>2, <2>4, <3>1, Obeyed DEF Answered, Asked
      <4> QED
        BY <1>2, <2>3, <3>1, <4>1 DEF CommandOK
    <3>2. CASE i = Len(up) + 1
      <4>1. ASSUME NEW g \in UpFrames, up' = up \o <<g>>, ~(g.type = T_ACK /\ g.body = 0)
            PROVE  FALSE
        <5>1. up'[Len(up) + 1] = g
          BY <4>1 DEF HostOK
        <5> QED
          BY <2>4, <3>2, <4>1, <5>1 DEF Answers
      <4> QED
        BY <2>3, <4>1
    <3> QED
      BY <2>4, <3>1, <3>2, Obeyed
  <2> QED
    BY <2>3, <2>4
<1>3. ASSUME Ended(job)
      PROVE  Idling' /\ Promise(job)'
  <2>1. Idling /\ Promise(job)
    BY <1>3 DEF CommandOK
  <2>2. Copy(Head(down), job, LastStep(job))
    BY <1>3, Obeyed DEF LineOK, Late, Streams
  <2> QED
    BY <2>1, <2>2, CommandFrame
<1> QED
  BY <1>1, <1>2, <1>3
\* Frames put behind the line to the host: what is new is one of them.
LEMMA NewFrames ==
    ASSUME up \in Seq(UpFrames), NEW frames \in Seq(UpFrames), up' = up \o frames
    PROVE  /\ \A j \in DOMAIN up' : j \notin DOMAIN up =>
                 j - Len(up) \in DOMAIN frames /\ up'[j] = frames[j - Len(up)]
           /\ \A i \in DOMAIN up : i \in DOMAIN up' /\ up'[i] = up[i]
<1>1. /\ DOMAIN (up \o frames) = 1 .. Len(up) + Len(frames) /\ DOMAIN up = 1 .. Len(up)
      /\ Len(up) \in Nat /\ Len(frames) \in Nat
      /\ \A i \in DOMAIN up : (up \o frames)[i] = up[i]
      /\ \A i \in 1 .. Len(frames) : (up \o frames)[Len(up) + i] = frames[i]
  BY LineConcat
<1>2. /\ DOMAIN up' = 1 .. Len(up) + Len(frames)
      /\ \A i \in DOMAIN up : up'[i] = up[i]
      /\ \A i \in 1 .. Len(frames) : up'[Len(up) + i] = frames[i]
  BY <1>1, Zenon
<1>3. DOMAIN frames = 1 .. Len(frames)
  OBVIOUS
<1>4. ASSUME NEW j \in DOMAIN up', j \notin DOMAIN up
      PROVE  j - Len(up) \in DOMAIN frames /\ up'[j] = frames[j - Len(up)]
  <2>1. j - Len(up) \in 1 .. Len(frames) /\ Len(up) + (j - Len(up)) = j
    BY <1>1, <1>2, <1>4
  <2> QED
    BY <1>2, <1>3, <2>1
<1>5. \A i \in DOMAIN up : i \in DOMAIN up'
  BY <1>1, <1>2
<1> QED
  BY <1>2, <1>4, <1>5

\* While the file of a job is sent, or nothing is, the agent stays with it: a
\* CLOSE that it sends carries the whole file.
LEMMA GetFrame ==
    ASSUME Careful, MaxOpen >= 2, AgentOK, HostOK, AgentStep,
           NEW job \in Jobs, job.op = T_GET, Late(Head(down), job), Sending(job)
    PROVE  /\ Sending(job)' /\ Whole(job)' = Whole(job)
           /\ \A j \in DOMAIN up' : (j \notin DOMAIN up /\ up'[j].type = T_CLOSE) =>
                                       up'[j].body = Whole(job)
<1> DEFINE f == Head(down)
           d == Directory(job.body[1])
           n == job.body[2]
<1>0. /\ KernelOK /\ StreamOK /\ HandlesOK /\ f \in DownFrames /\ down # <<>>
      /\ up \in Seq(UpFrames)
  BY Dispatch, LineTail DEF AgentOK, HostOK
<1>1. job.body \in Parts \X Names
  BY JobsAssumption DEF JobBody
<1>2. \/ f.type = T_GET /\ f.body = job.body
      \/ f.type \in {T_ACK, T_NAK}
  BY OneFrame DEF Late
<1>3. \/ pc = "main" /\ (Nak \/ Version \/ Other)
      \/ pc = "main" /\ f.body = job.body /\ Get
      \/ pc = "get" /\ GetNext
      \/ pc = "last" /\ LastAcked
  BY <1>0, <1>2, Dispatch, SMTT(30) DEF Sending
<1>4. UNCHANGED <<disk, dirs>>
  BY <1>3 DEF Nak, Version, Other, Get, GetNext, LastAcked, kernelVars
<1>5. Whole(job)' = Whole(job) /\ d' = d
  BY <1>4, FilesSame
<1>6. Whole(job) = (IF d = None \/ disk[d][n] = None THEN <<>> ELSE disk[d][n])
  BY DEF Whole, FileOf
<1> HIDE DEF f
<1>7. CASE pc = "main" /\ (Nak \/ Version \/ Other)
  <2>1. pc' = "main" /\ \E g \in {Frame(T_NAK, f.seq, None), Frame(T_ACK, f.seq, 1), Frame(T_ACK, f.seq, None)} :
                             up' = up \o <<g>>
    BY <1>7 DEF Nak, Version, Other, agentVars, Answer, Ack, f
  <2>2. f.seq \in 0 .. SeqLimit - 1
    BY <1>0, DownBodies
  <2>3. PICK g \in UpFrames : up' = up \o <<g>> /\ g.type # T_CLOSE
    <3>1. \A t \in {T_ACK, T_NAK}, b \in {1, None} :
              Frame(t, f.seq, b) \in UpFrames /\ Frame(t, f.seq, b).type # T_CLOSE
      BY <2>2 DEF Frame, UpFrames, Bodies
    <3> QED
      BY <2>1, <3>1
  <2>4. <<g>> \in Seq(UpFrames) /\ \A i \in DOMAIN <<g>> : <<g>>[i].type # T_CLOSE
    BY <2>3
  <2>5. \A j \in DOMAIN up' : j \notin DOMAIN up => up'[j].type # T_CLOSE
    BY <1>0, <2>3, <2>4, NewFrames
  <2> QED
    BY <1>5, <2>1, <2>5 DEF Sending
<1>8. CASE pc = "main" /\ f.body = job.body /\ Get
  <2>1. cwd = Root /\ held < MaxOpen
    <3>1. rfd = None /\ cwd = Root
      BY <1>0, <1>8 DEF StreamOK, HandlesOK
    <3>2. held \in {0, 1}
      BY <1>0, <3>1 DEF HandlesOK, Count
    <3> QED
      BY <3>1, <3>2, XferAssumption
  <2>2. \E close \in UpFrames :
          /\ up' = up \o <<Frame(T_ACK, f.seq, None), close>>
          /\ close.type \in {T_DATA, T_CLOSE}
          /\ \/ pc' = "get" /\ rfd' = <<d, n>> /\ close.type = T_DATA
             \/ pc' = "last" /\ (close.type = T_CLOSE => close.body = Whole(job))
    BY <1>0, <1>6, <1>8, <2>1, GetStarts DEF f
  <2>3. PICK close \in UpFrames :
          /\ up' = up \o <<Frame(T_ACK, f.seq, None), close>>
          /\ \/ pc' = "get" /\ rfd' = <<d, n>> /\ close.type = T_DATA
             \/ pc' = "last" /\ (close.type = T_CLOSE => close.body = Whole(job))
    BY <2>2
  <2>4. Frame(T_ACK, f.seq, None) \in UpFrames /\ Frame(T_ACK, f.seq, None).type = T_ACK
    BY <1>0, DownBodies DEF Frame, UpFrames, Bodies
  <2> DEFINE a == Frame(T_ACK, f.seq, None)
  <2> HIDE DEF a
  <2>5. /\ <<a, close>> \in Seq(UpFrames)
        /\ \A i \in DOMAIN <<a, close>> : <<a, close>>[i] = a \/ <<a, close>>[i] = close
    BY <2>4 DEF a
  <2>6. up' = up \o <<a, close>> /\ a.type # T_CLOSE
    BY <2>3, <2>4 DEF a
  <2>7. \A j \in DOMAIN up' : j \notin DOMAIN up => up'[j] = a \/ up'[j] = close
    BY <1>0, <2>5, <2>6, NewFrames
  <2>8. close.type = T_CLOSE => close.body = Whole(job)
    BY <2>3
  <2>9. Sending(job)'
    BY <1>5, <2>3 DEF Sending
  <2> QED
    BY <1>5, <2>6, <2>7, <2>8, <2>9
<1>9. CASE pc = "get" /\ GetNext
  <2> DEFINE t == GetTurn(rfd, rcrc)
  <2>1. /\ rfd \in Directories \X Names /\ rcrc \in Seq(Chunks) /\ rfd = <<d, n>>
        /\ disk[rfd[1]][rfd[2]] \in Seq(Chunks) /\ Begins(rcrc, disk[rfd[1]][rfd[2]])
    BY <1>0, <1>9 DEF StreamOK, Sending
  <2>2. /\ t.frame \in UpFrames
        /\ \/ t.pc = "get" /\ t.rfd = rfd /\ t.frame.type = T_DATA
           \/ t.pc = "last" /\ t.frame.type = T_CLOSE /\ t.frame.body = disk[rfd[1]][rfd[2]]
    BY <2>1, GetTurns
  <2>3. up' = up \o <<t.frame>> /\ pc' = t.pc /\ rfd' = t.rfd
    BY <1>9 DEF GetNext, Answer
  <2> HIDE DEF t
  <2>4. Whole(job) = disk[rfd[1]][rfd[2]]
    <3>1. d \in Directories /\ rfd[1] = d /\ rfd[2] = n
      BY <2>1
    <3>2. d # None /\ disk[d][n] # None
      BY <2>1, <3>1, MarksAssumption
    <3> QED
      BY <1>6, <3>1, <3>2
  <2>5. <<t.frame>> \in Seq(UpFrames) /\ \A i \in DOMAIN <<t.frame>> : <<t.frame>>[i] = t.frame
    BY <2>2
  <2>6. \A j \in DOMAIN up' : j \notin DOMAIN up => up'[j] = t.frame
    BY <1>0, <2>3, <2>5, NewFrames
  <2>7. t.frame.type = T_CLOSE => t.frame.body = Whole(job)
    BY <2>2, <2>4
  <2>8. Sending(job)'
    BY <1>5, <2>1, <2>2, <2>3 DEF Sending
  <2> QED
    BY <1>5, <2>6, <2>7, <2>8
<1>10. CASE pc = "last" /\ LastAcked
  <2>1. pc' = "main" /\ up' = up
    BY <1>10 DEF LastAcked
  <2> QED
    BY <1>5, <2>1 DEF Sending
<1> QED
  BY <1>3, <1>7, <1>8, <1>9, <1>10

LEMMA GetObeyed ==
    ASSUME Careful, AgentOK, HostOK, LineOK, GetOK, AgentStep,
           UNCHANGED <<host, result>>
    PROVE  GetOK'
<1> SUFFICES ASSUME NEW job \in Jobs, job.op = T_GET, MaxOpen >= 2
             PROVE  /\ (Asked(job)' /\ Answered') =>
                          /\ Sending(job)'
                          /\ \A i, j \in DOMAIN up' :
                                i < j /\ Answers(up[i])' /\ up'[j].type = T_CLOSE
                                    => up'[j].body = Whole(job)'
                    /\ Fetched(job)' =>
                          /\ Sending(job)'
                          /\ \A j \in DOMAIN up' : up'[j].type = T_CLOSE => up'[j].body = Whole(job)'
                    /\ Ended(job)' => Sending(job)' /\ result'.value = Whole(job)'
  BY DEF GetOK
<1>1. /\ Asked(job)' <=> Asked(job)
      /\ Fetched(job)' <=> Fetched(job)
      /\ Ended(job)' <=> Ended(job)
  BY DEF Asked, Fetched, Ended
<1>2. /\ DOMAIN up = 1 .. Len(up) /\ Len(up) \in Nat
      /\ \A i \in DOMAIN up : i \in DOMAIN up' /\ up'[i] = up[i]
      /\ \A i \in DOMAIN up' : Answers(up[i])' => (i \in DOMAIN up /\ Answers(up[i])) \/ i = Len(up) + 1
      /\ 1 \in DOMAIN down /\ Head(down) = down[1]
  BY Obeyed
<1>3. ASSUME Asked(job), Answered'
      PROVE  /\ Sending(job)'
             /\ \A i, j \in DOMAIN up' :
                   i < j /\ Answers(up[i])' /\ up'[j].type = T_CLOSE => up'[j].body = Whole(job)'
  <2>1. Copy(Head(down), job, host.step) /\ (Answered \/ pc = "main")
    BY <1>3, HeardCopy
  <2>2. Late(Head(down), job)
    BY <1>3, <2>1 DEF Late, LastStep, HostOK, Asked
  <2>3. Sending(job)
    BY <1>3, <2>1 DEF GetOK, Sending
  <2>4. /\ Sending(job)' /\ Whole(job)' = Whole(job)
        /\ \A j \in DOMAIN up' : (j \notin DOMAIN up /\ up'[j].type = T_CLOSE) =>
                                    up'[j].body = Whole(job)
    BY <2>2, <2>3, GetFrame
  <2>5. ASSUME NEW i \in DOMAIN up', NEW j \in DOMAIN up', i < j, Answers(up[i])',
               up'[j].type = T_CLOSE, j \in DOMAIN up
        PROVE  up'[j].body = Whole(job)
    <3>1. i # Len(up) + 1
      BY <1>2, <2>5
    <3>2. i \in DOMAIN up /\ Answers(up[i])
      BY <1>2, <2>5, <3>1
    <3>3. Answered /\ up[j].type = T_CLOSE /\ up'[j].body = up[j].body
      BY <1>2, <1>3, <2>5, <3>2 DEF Answered, Asked
    <3> QED
      BY <1>3, <2>5, <3>2, <3>3 DEF GetOK
  <2> QED
    BY <2>4, <2>5
<1>4. ASSUME Fetched(job)
      PROVE  /\ Sending(job)'
             /\ \A j \in DOMAIN up' : up'[j].type = T_CLOSE => up'[j].body = Whole(job)'
  <2>1. /\ Sending(job) /\ Late(Head(down), job)
        /\ \A j \in DOMAIN up : up[j].type = T_CLOSE => up[j].body = Whole(job)
    BY <1>2, <1>4 DEF GetOK, LineOK
  <2>2. /\ Sending(job)' /\ Whole(job)' = Whole(job)
        /\ \A j \in DOMAIN up' : (j \notin DOMAIN up /\ up'[j].type = T_CLOSE) =>
                                    up'[j].body = Whole(job)
    BY <2>1, GetFrame
  <2> QED
    BY <1>2, <2>1, <2>2
<1>5. ASSUME Ended(job)
      PROVE  Sending(job)' /\ result.value = Whole(job)'
  <2>1. Sending(job) /\ Late(Head(down), job) /\ result.value = Whole(job)
    BY <1>2, <1>5 DEF GetOK, LineOK
  <2> QED
    BY <2>1, GetFrame
<1> QED
  BY <1>1, <1>3, <1>4, <1>5
\* What is still to come of a listing when the agent or its user made a step.
LEMMA ListingGrows ==
    ASSUME NEW e \in Seq(Names \cup SubDirs), NEW n \in Nat, NEW a \in Nat,
           up \in Seq(UpFrames), NEW frames \in Seq(UpFrames), up' = up \o frames,
           pc = "list" => ListNext,
           StreamOK, Listing(e, n, a)
    PROVE  Listing(e, n, a)'
<1>0. PICK m \in 0 .. Len(up) :
        /\ a + m <= Len(up) /\ n + m <= Len(e)
        /\ \A i \in 1 .. m : up[a + i].ok /\ up[a + i].type = T_ENTRY /\ up[a + i].body = e[n + i]
        /\ \/ a + m = Len(up) /\ pc = "list" /\ todo = SubSeq(e, n + m + 1, Len(e))
           \/ /\ a + m < Len(up) /\ n + m = Len(e)
              /\ up[a + m + 1].ok /\ up[a + m + 1].type = T_CLOSE
  BY DEF Listing
<1>1. a + m <= Len(up) /\ n + m <= Len(e)
  BY <1>0, Zenon
<1>2. \A i \in 1 .. m : up[a + i].ok /\ up[a + i].type = T_ENTRY /\ up[a + i].body = e[n + i]
  BY <1>0, Zenon
<1>3. \/ a + m = Len(up) /\ pc = "list" /\ todo = SubSeq(e, n + m + 1, Len(e))
      \/ /\ a + m < Len(up) /\ n + m = Len(e)
         /\ up[a + m + 1].ok /\ up[a + m + 1].type = T_CLOSE
  BY <1>0, Zenon
<1>4. m \in Nat /\ Len(up) \in Nat /\ Len(e) \in Nat /\ Len(frames) \in Nat
  OBVIOUS
<1>5. /\ Len(up') = Len(up) + Len(frames)
      /\ \A i \in 1 .. Len(up) : up'[i] = up[i]
      /\ \A i \in 1 .. Len(frames) : up'[Len(up) + i] = frames[i]
  <2>1. /\ Len(up \o frames) = Len(up) + Len(frames) /\ DOMAIN up = 1 .. Len(up)
        /\ \A i \in DOMAIN up : (up \o frames)[i] = up[i]
        /\ \A i \in 1 .. Len(frames) : (up \o frames)[Len(up) + i] = frames[i]
    BY LineConcat
  <2> QED
    BY <2>1, Zenon
<1>6. m \in 0 .. Len(up') /\ a + m <= Len(up')
  BY <1>1, <1>4, <1>5
<1>7. ASSUME NEW i \in 1 .. m
      PROVE  up'[a + i].ok /\ up'[a + i].type = T_ENTRY /\ up'[a + i].body = e[n + i]
  <2>1. a + i \in 1 .. Len(up)
    BY <1>1, <1>4
  <2> QED
    BY <1>2, <1>5, <2>1
<1>8. CASE a + m < Len(up) /\ n + m = Len(e) /\ up[a + m + 1].ok /\ up[a + m + 1].type = T_CLOSE
  <2>1. a + m + 1 \in 1 .. Len(up) /\ a + m < Len(up')
    BY <1>4, <1>5, <1>8
  <2>2. up'[a + m + 1].ok /\ up'[a + m + 1].type = T_CLOSE
    BY <1>5, <1>8, <2>1
  <2> QED
    BY <1>1, <1>6, <1>7, <1>8, <2>1, <2>2 DEF Listing
<1>9. CASE a + m = Len(up) /\ pc = "list" /\ todo = SubSeq(e, n + m + 1, Len(e))
  <2>1. a + m = Len(up)
    BY <1>9, Zenon
  <2>2. todo = SubSeq(e, n + m + 1, Len(e)) /\ pc = "list"
    BY <1>9, Zenon
  <2> DEFINE t == ListTurn(todo)
  <2>3. pc' = t.pc /\ todo' = t.todo /\ up' = up \o <<t.frame>>
    BY <2>2 DEF ListNext, Answer
  <2>4. /\ t.frame \in UpFrames /\ t.frame.ok
        /\ \/ /\ todo # <<>> /\ t.pc = "list" /\ t.todo = Tail(todo)
              /\ t.frame.type = T_ENTRY /\ t.frame.body = todo[1]
           \/ todo = <<>> /\ t.frame.type = T_CLOSE
    BY ListTurns DEF StreamOK
  <2>5. Len(todo) = Len(e) - (n + m) /\ \A i \in 1 .. Len(e) - (n + m) : todo[i] = e[n + m + i]
    <3>1. \A k \in 1 .. Len(e) + 1 : /\ Len(SubSeq(e, k, Len(e))) = Len(e) - k + 1
                                     /\ \A i \in 1 .. Len(e) - k + 1 : SubSeq(e, k, Len(e))[i] = e[k + i - 1]
      OBVIOUS
    <3>2. n + m + 1 \in 1 .. Len(e) + 1 /\ Len(e) - (n + m + 1) + 1 = Len(e) - (n + m)
          /\ \A i \in Int : n + m + 1 + i - 1 = n + m + i
      BY <1>1, <1>4
    <3> DEFINE q == SubSeq(e, n + m + 1, Len(e))
    <3>3. /\ Len(q) = Len(e) - (n + m + 1) + 1
          /\ \A i \in 1 .. Len(e) - (n + m + 1) + 1 : q[i] = e[n + m + 1 + i - 1]
      BY <3>1, <3>2, Zenon
    <3>4. todo = q
      BY <2>2, Zenon
    <3> HIDE DEF q
    <3>5. Len(q) = Len(e) - (n + m)
      BY <3>2, <3>3, Zenon
    <3>6. \A i \in 1 .. Len(e) - (n + m) : q[i] = e[n + m + i]
      <4>1. \A i \in 1 .. Len(e) - (n + m) : i \in Int
        OBVIOUS
      <4> QED
        BY <3>2, <3>3, <4>1, Zenon
    <3> QED
      BY <3>4, <3>5, <3>6, Zenon
  <2> HIDE DEF t
  <2>6. Len(up') = Len(up) + 1 /\ up'[Len(up) + 1] = t.frame
    BY <2>3, <2>4
  <2>7. CASE todo = <<>> /\ t.frame.type = T_CLOSE
    <3>1. n + m = Len(e)
      <4>1. Len(todo) = 0
        BY <2>7
      <4> QED
        BY <1>4, <2>5, <4>1
    <3>2. a + m < Len(up') /\ up'[a + m + 1].ok /\ up'[a + m + 1].type = T_CLOSE
      BY <1>4, <2>1, <2>4, <2>6, <2>7
    <3> QED
      BY <1>1, <1>6, <1>7, <3>1, <3>2 DEF Listing
  <2>8. CASE /\ todo # <<>> /\ t.pc = "list" /\ t.todo = Tail(todo)
             /\ t.frame.type = T_ENTRY /\ t.frame.body = todo[1]
    <3> DEFINE k == m + 1
    <3>1. Len(todo) # 0
      BY <2>8 DEF StreamOK
    <3>2. n + m + 1 <= Len(e) /\ todo[1] = e[n + m + 1]
      BY <1>1, <1>4, <2>5, <3>1
    <3>3. k \in 0 .. Len(up') /\ a + k <= Len(up') /\ n + k <= Len(e) /\ a + k = Len(up')
      BY <1>4, <2>1, <2>6, <3>2
    <3>4. ASSUME NEW i \in 1 .. k
          PROVE  up'[a + i].ok /\ up'[a + i].type = T_ENTRY /\ up'[a + i].body = e[n + i]
      <4>1. CASE i \in 1 .. m
        BY <1>7, <4>1
      <4>2. CASE i = m + 1
        <5>1. a + i = Len(up) + 1 /\ n + i = n + m + 1
          BY <1>4, <2>1, <4>2
        <5>2. up'[a + i] = t.frame /\ e[n + i] = todo[1]
          BY <2>6, <3>2, <5>1, Zenon
        <5> QED
          BY <2>4, <2>8, <5>2, Zenon
      <4>3. i \in 1 .. m \/ i = m + 1
        <5>1. \A j \in 1 .. m + 1 : j \in 1 .. m \/ j = m + 1
          BY <1>4
        <5> QED
          BY <5>1
      <4> QED
        BY <4>1, <4>2, <4>3, Zenon
    <3>5. pc' = "list" /\ todo' = SubSeq(e, n + k + 1, Len(e))
      <4>1. Tail(SubSeq(e, n + m + 1, Len(e))) = SubSeq(e, n + k + 1, Len(e))
        <5>1. \A i \in 1 .. Len(e) : Tail(SubSeq(e, i, Len(e))) = SubSeq(e, i + 1, Len(e))
          OBVIOUS
        <5>2. n + m + 1 \in 1 .. Len(e) /\ n + m + 1 + 1 = n + k + 1
          BY <1>4, <3>2
        <5> QED
          BY <5>1, <5>2
      <4> QED
        BY <2>2, <2>3, <2>8, <4>1
    <3> HIDE DEF k
    <3> QED
      BY <3>3, <3>4, <3>5 DEF Listing
  <2> QED
    BY <2>4, <2>7, <2>8
<1> QED
  BY <1>3, <1>8, <1>9
\* A copy of the request of a listing, or an old answer of the host, does not
\* make the agent send anything but the listing.
LEMMA ListFrame ==
    ASSUME Careful, AgentOK, HostOK, AgentStep,
           NEW job \in Jobs, job.op = T_LIST, Late(Head(down), job), pc # "get"
    PROVE  /\ pc' # "get" /\ Entries(job)' = Entries(job)
           /\ pc = "list" => ListNext
           /\ (pc = "main" /\ Head(down).ok /\ Copy(Head(down), job, 0)) =>
                 List /\ Head(down).body = job.body
<1> DEFINE f == Head(down)
<1>0. KernelOK /\ StreamOK
  BY DEF AgentOK
<1>1. \/ f.type = T_LIST /\ f.body = job.body
      \/ f.type \in {T_ACK, T_NAK} /\ ~Copy(f, job, 0)
  BY OneFrame DEF Late, LastStep
<1> HIDE DEF f
<1>2. \/ pc = "main" /\ (Nak \/ Version \/ Other)
      \/ pc = "main" /\ f.body = job.body /\ List
      \/ pc = "list" /\ ListNext
      \/ pc = "last" /\ LastAcked
  BY <1>0, <1>1, Dispatch DEF f
<1>3. UNCHANGED <<disk, dirs>>
  BY <1>2 DEF Nak, Version, Other, List, ListNext, LastAcked, kernelVars
<1>4. pc' # "get"
  <2>1. CASE pc = "main" /\ (Nak \/ Version \/ Other)
    BY <2>1 DEF Nak, Version, Other, agentVars
  <2>2. CASE List
    <3>1. pc' \in {"list", "last"}
      BY <2>2 DEF List, ListTurn
    <3> QED
      BY <3>1
  <2>3. CASE ListNext
    <3>1. pc' \in {"list", "last"}
      BY <2>3 DEF ListNext, ListTurn
    <3> QED
      BY <3>1
  <2>4. CASE LastAcked
    BY <2>4 DEF LastAcked
  <2> QED
    BY <1>2, <2>1, <2>2, <2>3, <2>4
<1>5. (pc = "main" /\ f.ok /\ Copy(f, job, 0)) => List /\ f.body = job.body
  BY <1>0, <1>1, Dispatch, SMTT(30) DEF f
<1> QED
  BY <1>2, <1>3, <1>4, <1>5, FilesSame DEF f

\* .h_list: the listing comes right behind its answer.
LEMMA ListStarts ==
    ASSUME AgentOK, HostOK, List, pc = "main", Head(down).ok, Head(down) \in DownFrames,
           NEW job \in Jobs, job.op = T_LIST, Head(down).body = job.body,
           NEW e \in Seq(Names \cup SubDirs), e = Entries(job),
           NEW a \in Nat, a = Len(up) + 1
    PROVE  up'[a].ok /\ Listing(e, 0, a)'
<1> DEFINE f == Head(down)
           ack == Frame(T_ACK, f.seq, None)
           t == ListTurn(e)
<1>1. job.body \in Parts /\ cwd = Root /\ KernelOK
  BY JobsAssumption DEF JobBody, AgentOK, HandlesOK
<1>2. Resolve(job.body) = Directory(job.body)
  BY <1>1, Resolved
<1>3. e = IF Resolve(f.body) = None THEN <<>> ELSE SetToSeq(EntriesOf(Resolve(f.body)))
  BY <1>2 DEF Entries
<1>4. pc' = t.pc /\ todo' = t.todo /\ up' = up \o <<ack, t.frame>>
  BY <1>3 DEF List, Answer, Ack
<1>5. /\ t.frame \in UpFrames /\ t.frame.ok
      /\ \/ /\ e # <<>> /\ t.pc = "list" /\ t.todo = Tail(e)
            /\ t.frame.type = T_ENTRY /\ t.frame.body = e[1]
         \/ e = <<>> /\ t.frame.type = T_CLOSE
  BY ListTurns
<1>6. ack \in UpFrames /\ ack.ok
  BY DownBodies DEF Frame, UpFrames, Bodies
<1> HIDE DEF t, ack, f
<1>7. Len(up') = a + 1 /\ up'[a] = ack /\ up'[a + 1] = t.frame
  <2>1. up \in Seq(UpFrames) /\ <<ack, t.frame>> \in Seq(UpFrames) /\ Len(<<ack, t.frame>>) = 2
        /\ <<ack, t.frame>>[1] = ack /\ <<ack, t.frame>>[2] = t.frame
    BY <1>5, <1>6 DEF HostOK
  <2> DEFINE frames == <<ack, t.frame>>
  <2> HIDE DEF frames
  <2>2. /\ Len(up \o frames) = Len(up) + Len(frames) /\ Len(up) \in Nat
        /\ \A i \in 1 .. Len(frames) : (up \o frames)[Len(up) + i] = frames[i]
    BY <2>1, LineConcat DEF frames
  <2>3. up' = up \o frames /\ Len(frames) = 2 /\ frames[1] = ack /\ frames[2] = t.frame
    BY <1>4, <2>1 DEF frames
  <2>4. 1 \in 1 .. 2 /\ 2 \in 1 .. 2 /\ Len(up) + 2 = a + 1 /\ Len(up) + 1 = a
    BY <2>2
  <2>5. /\ Len(up') = Len(up) + 2
        /\ up'[Len(up) + 1] = frames[1] /\ up'[Len(up) + 2] = frames[2]
    BY <2>2, <2>3, <2>4, Zenon
  <2> QED
    BY <2>3, <2>4, <2>5, Zenon
<1>8. CASE /\ e # <<>> /\ t.pc = "list" /\ t.todo = Tail(e)
           /\ t.frame.type = T_ENTRY /\ t.frame.body = e[1]
  <2> DEFINE m == 1
  <2>1. Len(e) \in Nat /\ 1 <= Len(e) /\ Tail(e) = SubSeq(e, 2, Len(e))
    BY <1>8
  <2>2. m \in 0 .. Len(up') /\ a + m <= Len(up') /\ 0 + m <= Len(e) /\ a + m = Len(up')
        /\ 0 + m + 1 = 2
    BY <1>7, <2>1
  <2>3. ASSUME NEW i \in 1 .. m
        PROVE  up'[a + i].ok /\ up'[a + i].type = T_ENTRY /\ up'[a + i].body = e[0 + i]
    <3>1. i = 1 /\ 0 + i = 1
      OBVIOUS
    <3> QED
      BY <1>5, <1>7, <1>8, <3>1
  <2>4. pc' = "list" /\ todo' = SubSeq(e, 0 + m + 1, Len(e))
    BY <1>4, <1>8, <2>1, <2>2
  <2> HIDE DEF m
  <2>5. Listing(e, 0, a)'
    BY <2>2, <2>3, <2>4 DEF Listing
  <2> QED
    BY <1>6, <1>7, <2>5
<1>9. CASE e = <<>> /\ t.frame.type = T_CLOSE
  <2>1. Len(e) = 0 /\ 0 \in 0 .. Len(up') /\ a + 0 <= Len(up') /\ 0 + 0 <= Len(e)
        /\ a + 0 < Len(up') /\ a + 0 + 1 = a + 1 /\ 0 + 0 = Len(e)
    BY <1>7, <1>9
  <2>2. \A i \in 1 .. 0 : FALSE
    OBVIOUS
  <2>3. Listing(e, 0, a)'
    BY <1>5, <1>7, <1>9, <2>1, <2>2 DEF Listing
  <2> QED
    BY <1>6, <1>7, <2>3
<1> QED
  BY <1>5, <1>8, <1>9

LEMMA ListObeyed ==
    ASSUME Careful, AgentOK, HostOK, LineOK, ListOK, AgentStep, UNCHANGED <<host, result>>
    PROVE  ListOK'
<1> SUFFICES ASSUME NEW job \in Jobs, job.op = T_LIST
             PROVE  /\ (Asked(job)' /\ Answered') =>
                          /\ pc' # "get"
                          /\ ~host'.hit =>
                                \A a \in DOMAIN up' :
                                    Answers(up[a])' /\ (\A b \in 1 .. a - 1 : ~Answers(up[b])') =>
                                        up'[a].ok /\ Listing(Entries(job), 0, a)'
                    /\ Asked(job)' => host'.got = <<>>
                    /\ Fetched(job)' =>
                          /\ pc' # "get"
                          /\ ~host'.hit => /\ Begins(host'.got, Entries(job)')
                                           /\ Listing(Entries(job), Len(host.got), 0)'
                    /\ Ended(job)' => pc' # "get" /\ (~result'.hit => result'.value = Entries(job)')
  BY DEF ListOK
<1>1. /\ Asked(job)' <=> Asked(job)
      /\ Fetched(job)' <=> Fetched(job)
      /\ Ended(job)' <=> Ended(job)
  BY DEF Asked, Fetched, Ended
<1>2. /\ DOMAIN up = 1 .. Len(up) /\ Len(up) \in Nat /\ up \in Seq(UpFrames) /\ StreamOK
      /\ \A i \in DOMAIN up : i \in DOMAIN up' /\ up'[i] = up[i]
      /\ \A i \in DOMAIN up' : Answers(up[i])' =>
            \/ i \in DOMAIN up /\ Answers(up[i])
            \/ i = Len(up) + 1 /\ Head(down).ok /\ pc = "main"
      /\ 1 \in DOMAIN down /\ Head(down) = down[1] /\ Head(down) \in DownFrames
  BY Obeyed DEF HostOK, AgentOK
<1>3. PICK frames \in Seq(UpFrames) : up' = up \o frames
  BY Obeyed
<1>4. PICK e \in Seq(Names \cup SubDirs) : e = Entries(job)
  BY EntriesAre
<1>5. ASSUME Asked(job), Answered'
      PROVE  /\ pc' # "get"
             /\ ~host.hit =>
                   \A a \in DOMAIN up' :
                       Answers(up[a])' /\ (\A b \in 1 .. a - 1 : ~Answers(up[b])') =>
                           up'[a].ok /\ Listing(Entries(job), 0, a)'
  <2>1. Copy(Head(down), job, 0) /\ (Answered \/ pc = "main") /\ host.phase = "reply"
    BY <1>5, HeardCopy DEF HostOK, Asked
  <2>2. pc # "get" /\ Late(Head(down), job)
    BY <1>5, <2>1 DEF ListOK, Late, LastStep
  <2>3. /\ pc' # "get" /\ e = Entries(job)'
        /\ pc = "list" => ListNext
        /\ (pc = "main" /\ Head(down).ok) => List /\ Head(down).body = job.body
    BY <1>4, <2>1, <2>2, ListFrame
  <2>4. ASSUME ~host.hit, NEW a \in DOMAIN up', Answers(up[a])',
               \A b \in 1 .. a - 1 : ~Answers(up[b])'
        PROVE  up'[a].ok /\ Listing(e, 0, a)'
    <3>1. \A b \in DOMAIN up : Answers(up[b])' <=> Answers(up[b])
      BY <1>2 DEF Answers
    <3>2. CASE a \in DOMAIN up /\ Answers(up[a])
      <4>1. \A b \in 1 .. a - 1 : ~Answers(up[b])
        <5>1. \A b \in 1 .. a - 1 : b \in DOMAIN up
          BY <1>2, <3>2
        <5> QED
          BY <2>4, <3>1, <5>1
      <4>2. Answered
        BY <2>1, <3>2 DEF Answered
      <4>3. up[a].ok /\ Listing(e, 0, a)
        BY <1>4, <1>5, <2>4, <3>2, <4>1, <4>2 DEF ListOK
      <4>4. a \in Nat /\ 0 \in Nat
        BY <1>2, <3>2
      <4> QED
        BY <1>2, <1>3, <2>3, <3>2, <4>3, <4>4, ListingGrows
    <3>3. CASE a = Len(up) + 1 /\ Head(down).ok /\ pc = "main"
      <4>1. a \in Nat
        BY <1>2, <3>3
      <4> QED
        BY <1>2, <1>4, <2>3, <3>3, <4>1, ListStarts
    <3> QED
      BY <1>2, <2>4, <3>2, <3>3
  <2> QED
    BY <2>3, <2>4
<1>6. ASSUME Fetched(job)
      PROVE  /\ pc' # "get"
             /\ ~host.hit => /\ Begins(host.got, Entries(job)')
                             /\ Listing(Entries(job), Len(host.got), 0)'
  <2>1. /\ pc # "get" /\ Late(Head(down), job)
        /\ ~host.hit => Begins(host.got, e) /\ Listing(e, Len(host.got), 0)
    BY <1>2, <1>4, <1>6 DEF ListOK, LineOK
  <2>2. pc' # "get" /\ e = Entries(job)' /\ (pc = "list" => ListNext)
    BY <1>4, <2>1, ListFrame
  <2>3. PICK n \in Nat : n = Len(host.got) /\ n = Len(host'.got)
    <3>1. Len(host.got) \in Nat /\ host'.got = host.got
      BY DEF HostOK, Hosts
    <3> QED
      BY <3>1, Zenon
  <2>4. ~host.hit => Listing(e, n, 0)'
    <3>1. 0 \in Nat
      OBVIOUS
    <3>2. ~host.hit => Listing(e, n, 0)
      BY <2>1, <2>3
    <3> QED
      BY <1>2, <1>3, <2>2, <3>1, <3>2, ListingGrows
  <2>5. ~host.hit => Listing(Entries(job), Len(host.got), 0)'
    BY <2>2, <2>3, <2>4, Zenon
  <2> QED
    BY <2>1, <2>2, <2>5
<1>7. ASSUME Ended(job)
      PROVE  pc' # "get" /\ (~result.hit => result.value = Entries(job)')
  <2>1. /\ pc # "get" /\ Late(Head(down), job)
        /\ ~result.hit => result.value = e
    BY <1>2, <1>4, <1>7 DEF ListOK, LineOK
  <2> QED
    BY <1>4, <2>1, ListFrame
<1>8. Asked(job) => host.got = <<>>
  BY DEF ListOK
<1> QED
  BY <1>1, <1>5, <1>6, <1>7, <1>8
\* The frames of an upload.
LEMMA UploadFrames ==
    ASSUME NEW f, NEW job \in Jobs, job.op = T_OPEN, NEW k \in 0 .. LastStep(job), Copy(f, job, k)
    PROVE  /\ LastStep(job) \in Nat \ {0} /\ job.content \in Seq(Chunks) /\ job.body \in Parts \X Names
           /\ \/ k = 0 /\ f.type = T_OPEN /\ f.body = job.body
              \/ k \notin {0, LastStep(job)} /\ f.type = T_DATA /\ job.content # <<>>
              \/ k = LastStep(job) /\ f.type = T_CLOSE /\ f.body = job.content
<1>1. job.content \in Seq(Chunks) /\ job.body \in Parts \X Names /\ Len(job.content) \in Nat
  BY JobsAssumption DEF JobBody
<1>2. LastStep(job) = Len(job.content) + 1
  BY DEF LastStep
<1>3. CASE k = 0
  BY <1>1, <1>2, <1>3 DEF Copy, Request, Frame
<1>4. CASE k # 0 /\ k <= Len(job.content)
  <2>1. f.type = T_DATA
    BY <1>4 DEF Copy, Request, Frame
  <2>2. job.content # <<>>
    BY <1>1, <1>2, <1>4
  <2> QED
    BY <1>1, <1>2, <1>4, <2>1, <2>2
<1>5. CASE k # 0 /\ ~(k <= Len(job.content))
  <2>1. f.type = T_CLOSE /\ f.body = job.content
    BY <1>5 DEF Copy, Request, Frame
  <2> QED
    BY <1>1, <1>2, <1>5, <2>1
<1> QED
  BY <1>3, <1>4, <1>5

\* .h_open: the file is empty, or what comes is dropped.
LEMMA OpenGrows ==
    ASSUME KernelOK, cwd = Root, NEW job \in Jobs, job.op = T_OPEN, Open,
           Head(down).body = job.body
    PROVE  Growing(job)'
<1>1. job.body \in Parts \X Names
  BY JobsAssumption DEF JobBody
<1> DEFINE p == job.body[1]
           n == job.body[2]
           d == Directory(p)
           made == d # None /\ Content(p, n) = None /\ Released < MaxOpen /\ Room
<1>2. p \in Parts /\ n \in Names
  BY <1>1
<1> HIDE DEF p, n
<1>3. /\ Resolve(p) = d /\ d \in Directories \cup {None}
  BY <1>2, Resolved
<1>4. /\ disk' = IF made THEN [disk EXCEPT ![d][n] = <<>>] ELSE disk
      /\ fd' = IF made THEN <<d, n, 0>> ELSE None
      /\ wcrc' = <<>> /\ dropped' = Marked(T_OPEN, ~made) /\ UNCHANGED dirs
  BY <1>3 DEF Open, p, n
<1>5. FileOf(job)' = (IF d = None THEN None ELSE disk'[d][n]) /\ Directory(p)' = d
  BY <1>4 DEF FileOf, Directory, p, n
<1>6. CASE made
  <2>1. d \in Directories
    BY <1>3, <1>6
  <2>2. disk'[d][n] = <<>> /\ fd' = <<d, n, 0>>
    BY <1>2, <1>4, <1>6, <2>1 DEF KernelOK
  <2>3. FileOf(job)' = <<>> /\ d # None /\ Len(wcrc') = 0
    BY <1>4, <1>5, <1>6, <2>2
  <2>4. <<>> # None
    <3>1. <<>> \in Seq(Chunks)
      OBVIOUS
    <3> QED
      BY <3>1, MarksAssumption
  <2> HIDE DEF d, made
  <2> QED
    BY <1>4, <1>5, <2>2, <2>3, <2>4 DEF Growing, p, n
<1>7. CASE ~made
  <2>1. T_OPEN \in dropped'
    BY <1>4, <1>7 DEF Marked
  <2> QED
    BY <2>1 DEF Growing
<1> QED
  BY <1>6, <1>7

\* .h_data: a chunk that goes to the end of what was acknowledged, or is
\* dropped.
LEMMA DataGrows ==
    ASSUME KernelOK, NEW job \in Jobs, job.op = T_OPEN, job.content # <<>>, Data,
           Head(down).body \in Chunks, Growing(job)
    PROVE  Growing(job)'
<1> DEFINE p == job.body[1]
           n == job.body[2]
           d == Directory(p)
           x == Head(down).body
           lands == fd \notin {None, Gone} /\ Fits(disk[fd[1]][fd[2]], fd[3])
<1>1. n \in Names
  BY JobsAssumption DEF JobBody
<1> HIDE DEF p, n, x
<1>2. /\ disk' = IF lands
                 THEN [disk EXCEPT ![fd[1]][fd[2]] = WriteAt(@, fd[3], x)] ELSE disk
      /\ fd' = IF lands THEN <<fd[1], fd[2], fd[3] + 1>> ELSE fd
      /\ dropped' = (IF lands THEN dropped ELSE Marked(T_OPEN, TRUE)) /\ wcrc' = Append(wcrc, x) /\ UNCHANGED dirs
  BY DEF Data, x
<1>3. Directory(p)' = d /\ FileOf(job)' = (IF d = None THEN None ELSE disk'[d][n])
  BY <1>2 DEF FileOf, Directory, p, n
<1>4. CASE T_OPEN \in dropped'
  BY <1>4 DEF Growing
<1>5. CASE T_OPEN \notin dropped'
  <2>1. T_OPEN \notin dropped /\ lands
    BY <1>2, <1>5 DEF Marked
  <2>2. /\ fd = <<d, n, Len(wcrc)>> /\ FileOf(job) = wcrc
        /\ fd \in Directories \X Names \X Nat
    BY <2>1 DEF Growing, KernelOK, p, n
  <2>3. d \in Directories /\ fd[1] = d /\ fd[2] = n /\ fd[3] = Len(wcrc)
    BY <2>2
  <2>4. disk[d][n] = wcrc /\ d # None
    <3>1. d # None
      BY <2>3, MarksAssumption
    <3>2. FileOf(job) = (IF d = None THEN None ELSE disk[d][n])
      BY DEF FileOf, p, n
    <3> QED
      BY <2>2, <3>1, <3>2
  <2>5. WriteAt(wcrc, Len(wcrc), x) = Append(wcrc, x)
    BY DEF WriteAt, KernelOK
  <2>6. Append(wcrc, x) \in Seq(Chunks) /\ Len(Append(wcrc, x)) = Len(wcrc) + 1
    BY DEF KernelOK, x
  <2> HIDE DEF d
  <2>7. disk' = [disk EXCEPT ![d][n] = WriteAt(@, Len(wcrc), x)] /\ fd' = <<d, n, Len(wcrc) + 1>>
    <3> HIDE DEF lands
    <3> QED
      BY <1>2, <2>1, <2>3
  <2>8. disk'[d][n] = Append(wcrc, x)
    BY <1>1, <2>3, <2>4, <2>5, <2>7 DEF KernelOK
  <2>9. FileOf(job)' = wcrc' /\ wcrc' # None /\ fd' = <<d, n, Len(wcrc')>>
    <3>1. FileOf(job)' = Append(wcrc, x) /\ wcrc' = Append(wcrc, x)
      BY <1>2, <1>3, <2>4, <2>8
    <3> QED
      BY <2>6, <2>7, <3>1, MarksAssumption
  <2>10. FileOf(job)' # None
    BY <2>9
  <2> QED
    BY <1>3, <2>9, <2>10 DEF Growing, p, n
<1> QED
  BY <1>2, <1>4, <1>5
\* A copy of a frame of an upload, or NAK for a damaged one.
LEMMA UploadFrame ==
    ASSUME Careful, AgentOK, HostOK, AgentStep, Idling,
           NEW job \in Jobs, job.op = T_OPEN, NEW k \in 0 .. LastStep(job), Copy(Head(down), job, k)
    PROVE  /\ Idling'
           /\ Growing(job) \/ (k = 0 /\ Head(down).ok) => Growing(job)'
           /\ k = LastStep(job) =>
                 /\ Verified(job) => Verified(job)'
                 /\ Growing(job) =>
                       \/ Verified(job)'
                       \/ \E g \in UpFrames : up' = up \o <<g>> /\ ~(g.type = T_ACK /\ g.body = 0)
<1> DEFINE f == Head(down)
<1>0. KernelOK /\ StreamOK /\ (pc = "main" => cwd = Root) /\ f \in DownFrames
  BY Dispatch, LineTail DEF AgentOK, HandlesOK, HostOK
<1>1. /\ LastStep(job) \in Nat \ {0} /\ job.content \in Seq(Chunks)
      /\ \/ k = 0 /\ f.type = T_OPEN /\ f.body = job.body
         \/ k \notin {0, LastStep(job)} /\ f.type = T_DATA /\ job.content # <<>>
         \/ k = LastStep(job) /\ f.type = T_CLOSE /\ f.body = job.content
  BY UploadFrames
<1>2. f.seq \in 0 .. SeqLimit - 1 /\ (f.type = T_DATA => f.body \in Chunks)
  BY <1>0, DownBodies
<1> HIDE DEF f
<1>3. /\ pc = "main"
      /\ \/ ~f.ok /\ Nak
         \/ k = 0 /\ f.body = job.body /\ Open
         \/ k \notin {0, LastStep(job)} /\ job.content # <<>> /\ f.body \in Chunks /\ Data
         \/ k = LastStep(job) /\ f.body = job.content /\ Close
  <2>1. /\ pc = "main"
        /\ \/ ~f.ok /\ Nak
           \/ f.type = T_OPEN /\ Open
           \/ f.type = T_DATA /\ Data
           \/ f.type = T_CLOSE /\ Close
           \/ f.type \notin {T_OPEN, T_DATA, T_CLOSE}
    BY <1>0, Dispatch, SMTT(30) DEF Idling, f
  <2> QED
    BY <1>1, <1>2, <2>1
<1>4. CASE ~f.ok /\ Nak
  <2>1. UNCHANGED <<disk, dirs, fd, wcrc, dropped, pc>> /\ up' = up \o <<Frame(T_NAK, f.seq, None)>>
    BY <1>4 DEF Nak, agentVars, kernelVars, Answer, f
  <2>2. /\ Frame(T_NAK, f.seq, None) \in UpFrames
        /\ ~(Frame(T_NAK, f.seq, None).type = T_ACK /\ Frame(T_NAK, f.seq, None).body = 0)
    BY <1>2 DEF Frame, UpFrames, Bodies
  <2>3. Growing(job)' = Growing(job) /\ Verified(job)' = Verified(job)
    BY <2>1, GrowingSame
  <2> QED
    BY <1>3, <1>4, <2>1, <2>2, <2>3 DEF Idling, f
<1>5. CASE k = 0 /\ f.body = job.body /\ Open
  <2>1. Growing(job)' /\ pc' = pc
    BY <1>0, <1>3, <1>5, OpenGrows DEF Open, f
  <2>2. k # LastStep(job)
    BY <1>1, <1>5
  <2> QED
    BY <1>3, <2>1, <2>2 DEF Idling
<1>6. CASE k \notin {0, LastStep(job)} /\ job.content # <<>> /\ f.body \in Chunks /\ Data
  <2>1. (Growing(job) => Growing(job)') /\ pc' = pc
    BY <1>0, <1>6, DataGrows DEF Data, f
  <2> QED
    BY <1>3, <1>6, <2>1 DEF Idling
<1>7. CASE k = LastStep(job) /\ f.body = job.content /\ Close
  <2>1. UNCHANGED <<disk, dirs, wcrc, dropped, pc>> /\ fd' = None
        /\ up' = up \o <<Frame(T_ACK, f.seq, Verdict(f.body))>>
    BY <1>7 DEF Close, Answer, Ack, f
  <2>2. FileOf(job)' = FileOf(job)
    BY <2>1, FilesSame
  <2>3. Verified(job)' = Verified(job)
    BY <2>1, <2>2 DEF Verified
  <2>4. Growing(job) => Growing(job)'
    BY <2>1, <2>2 DEF Growing
  <2>5. CASE job.content = wcrc
    <3>1. Growing(job) => Verified(job)
      BY <2>5 DEF Growing, Verified
    <3> QED
      BY <1>1, <1>3, <1>7, <2>1, <2>3, <2>4, <3>1 DEF Idling
  <2>6. CASE job.content # wcrc
    <3>1. Verdict(f.body) = 1
      BY <1>7, <2>6 DEF Verdict, Count
    <3>2. /\ Frame(T_ACK, f.seq, 1) \in UpFrames
          /\ ~(Frame(T_ACK, f.seq, 1).type = T_ACK /\ Frame(T_ACK, f.seq, 1).body = 0)
      BY <1>2 DEF Frame, UpFrames, Bodies
    <3> QED
      BY <1>1, <1>3, <1>7, <2>1, <2>3, <2>4, <3>1, <3>2 DEF Idling
  <2> QED
    BY <2>5, <2>6
<1> QED
  BY <1>3, <1>4, <1>5, <1>6, <1>7

LEMMA UploadObeyed ==
    ASSUME Careful, AgentOK, HostOK, LineOK, UploadOK, AgentStep, UNCHANGED <<host, result>>
    PROVE  UploadOK'
<1> SUFFICES ASSUME NEW job \in Jobs, job.op = T_OPEN
             PROVE  /\ (Asked(job)' /\ (host'.step > 0 \/ Answered')) =>
                          /\ Idling' /\ Growing(job)'
                          /\ \A i \in DOMAIN down' : \E k \in 0 .. host'.step : Copy(down'[i], job, k)
                          /\ \A i \in DOMAIN up' :
                                Answers(up[i])' /\ up'[i].body = 0 /\ host'.step = LastStep(job)
                                    => Verified(job)'
                    /\ Ended(job)' => Idling' /\ Verified(job)'
  BY DEF UploadOK, Copy, LastStep
<1>1. (Asked(job)' <=> Asked(job)) /\ (Ended(job)' <=> Ended(job)) /\ host'.step = host.step
  BY DEF Asked, Ended
<1>2. /\ 1 \in DOMAIN down /\ Head(down) = down[1]
      /\ \A i \in DOMAIN down' : i + 1 \in DOMAIN down /\ down'[i] = down[i + 1]
      /\ \A i \in DOMAIN up : i \in DOMAIN up' /\ up'[i] = up[i]
      /\ \A i \in DOMAIN up' : Answers(up[i])' => (i \in DOMAIN up /\ Answers(up[i])) \/ i = Len(up) + 1
  BY Obeyed
<1>3. ASSUME Asked(job), host.step > 0 \/ Answered'
      PROVE  /\ Idling' /\ Growing(job)'
             /\ \A i \in DOMAIN down' : \E k \in 0 .. host.step : Copy(down'[i], job, k)
             /\ \A i \in DOMAIN up' :
                   Answers(up[i])' /\ up'[i].body = 0 /\ host.step = LastStep(job) => Verified(job)'
  <2>1. /\ host.phase = "reply" /\ host.step \in Nat /\ host.step \in 0 .. host.step
        /\ host.step \in 0 .. LastStep(job) /\ LastStep(job) \in Nat \ {0}
    BY <1>3, JobsAssumption DEF Asked, HostOK, Hosts, LastStep
  <2>2. Answered' => /\ Copy(Head(down), job, host.step)
                     /\ \A i \in DOMAIN down' : Copy(down'[i], job, host.step)
                     /\ Answered \/ (Head(down).ok /\ pc = "main")
    BY <1>3, HeardCopy
  <2>3. (host.step > 0 \/ Answered) =>
           /\ Idling /\ Growing(job)
           /\ \A i \in DOMAIN down : \E k \in 0 .. host.step : Copy(down[i], job, k)
    BY <1>3 DEF UploadOK
  <2>4. Idling
    BY <1>3, <2>2, <2>3 DEF Idling
  <2>5. \E k \in 0 .. host.step : /\ Copy(Head(down), job, k)
                                  /\ Growing(job) \/ (k = 0 /\ Head(down).ok)
    <3>1. CASE host.step > 0 \/ Answered
      BY <1>2, <2>3, <3>1
    <3>2. CASE ~(host.step > 0 \/ Answered)
      BY <1>3, <2>1, <2>2, <3>2
    <3> QED
      BY <3>1, <3>2
  <2>6. Idling' /\ Growing(job)'
    <3>1. PICK k \in 0 .. host.step : /\ Copy(Head(down), job, k)
                                      /\ Growing(job) \/ (k = 0 /\ Head(down).ok)
      BY <2>5
    <3>2. k \in 0 .. LastStep(job)
      BY <2>1
    <3> QED
      BY <2>4, <3>1, <3>2, UploadFrame
  <2>7. \A i \in DOMAIN down' : \E k \in 0 .. host.step : Copy(down'[i], job, k)
    <3>1. CASE host.step > 0 \/ Answered
      BY <1>2, <2>3, <3>1
    <3>2. CASE Answered'
      BY <2>1, <2>2, <3>2
    <3> QED
      BY <1>3, <3>1, <3>2
  <2>8. ASSUME NEW i \in DOMAIN up', Answers(up[i])', up'[i].body = 0, host.step = LastStep(job)
        PROVE  Verified(job)'
    <3>1. Answered'
      BY <2>1, <2>8 DEF Answered
    <3>2. Growing(job) /\ Copy(Head(down), job, LastStep(job)) /\ LastStep(job) \in 0 .. LastStep(job)
      BY <2>1, <2>2, <2>3, <2>8, <3>1
    <3>3. /\ Verified(job) => Verified(job)'
          /\ \/ Verified(job)'
             \/ \E g \in UpFrames : up' = up \o <<g>> /\ ~(g.type = T_ACK /\ g.body = 0)
      BY <2>4, <3>2, UploadFrame
    <3>4. CASE i \in DOMAIN up /\ Answers(up[i])
      <4>1. Answered /\ up[i].body = 0
        BY <1>2, <2>1, <2>8, <3>4 DEF Answered
      <4>2. Verified(job)
        BY <1>3, <2>8, <3>4, <4>1 DEF UploadOK
      <4> QED
        BY <3>3, <4>2
    <3>5. CASE i = Len(up) + 1
      <4>1. ASSUME NEW g \in UpFrames, up' = up \o <<g>>, ~(g.type = T_ACK /\ g.body = 0)
            PROVE  FALSE
        <5>1. up'[Len(up) + 1] = g
          BY <4>1 DEF HostOK
        <5> QED
          BY <2>8, <3>5, <4>1, <5>1 DEF Answers
      <4> QED
        BY <3>3, <4>1
    <3> QED
      BY <1>2, <2>8, <3>4, <3>5
  <2> QED
    BY <2>6, <2>7, <2>8
<1>4. ASSUME Ended(job)
      PROVE  Idling' /\ Verified(job)'
  <2>1. Idling /\ Verified(job)
    BY <1>4 DEF UploadOK
  <2>2. Copy(Head(down), job, LastStep(job)) /\ LastStep(job) \in 0 .. LastStep(job)
    <3>1. Late(Head(down), job) /\ ~Streams(job)
      BY <1>2, <1>4 DEF LineOK, Streams
    <3>2. LastStep(job) \in Nat
      BY JobsAssumption DEF LastStep
    <3> QED
      BY <3>1, <3>2 DEF Late
  <2> QED
    BY <2>1, <2>2, UploadFrame
<1> QED
  BY <1>1, <1>3, <1>4
---------------------------------------------------------------------------
(* All steps together.                                                     *)

\* The user of the agent stops it in its main loop, or starts it with an empty
\* line.
LEMMA UserKeeps ==
    ASSUME Careful, AgentOK, HostOK, JobsOK, UserStep, UNCHANGED <<host, result>>
    PROVE  JobsOK'
<1>0. LineOK /\ UploadOK /\ CommandOK /\ GetOK /\ ListOK /\ up \in Seq(UpFrames) /\ StreamOK
  BY DEF JobsOK, HostOK, AgentOK
<1>1. /\ UNCHANGED <<disk, dirs, dropped, up>> /\ down' \in {down, <<>>}
      /\ pc \in {"main", "off"} /\ pc' \in {"main", "off"}
      /\ \/ UNCHANGED <<fd, wcrc>>
         \/ fd' = None /\ wcrc' = <<>>
  BY DEF UserStep, KeyQ, Start, MayQuit, DoQuit, Careful, kernelVars
<1>2. \A i \in DOMAIN down' : i \in DOMAIN down /\ down'[i] = down[i]
  BY <1>1
<1>3. /\ Answered' <=> Answered
      /\ \A f : Answers(f)' <=> Answers(f)
  BY <1>1 DEF Answered, Answers
<1>4. ASSUME NEW job
      PROVE  /\ Asked(job)' <=> Asked(job)
             /\ Fetched(job)' <=> Fetched(job)
             /\ Ended(job)' <=> Ended(job)
             /\ Promise(job)' = Promise(job) /\ Whole(job)' = Whole(job)
             /\ Entries(job)' = Entries(job) /\ FileOf(job)' = FileOf(job)
  BY <1>1, FilesSame DEF Asked, Fetched, Ended
<1>5. LineOK'
  BY <1>0, <1>2, <1>3, <1>4 DEF LineOK, Copy, Late
<1>6. UploadOK'
  <2>1. ASSUME NEW job, Growing(job)
        PROVE  Growing(job)'
    <3>1. CASE UNCHANGED <<fd, wcrc>>
      BY <1>1, <2>1, <3>1, GrowingSame
    <3>2. CASE fd' = None /\ wcrc' = <<>>
      BY <1>1, <1>4, <2>1, <3>2 DEF Growing
    <3> QED
      BY <1>1, <3>1, <3>2
  <2>2. \A job : Verified(job)' = Verified(job)
    BY <1>1, <1>4 DEF Verified
  <2>3. Idling'
    BY <1>1 DEF Idling
  <2> QED
    BY <1>0, <1>1, <1>2, <1>3, <1>4, <2>1, <2>2, <2>3 DEF UploadOK, Copy, LastStep
<1>7. CommandOK'
  BY <1>0, <1>1, <1>3, <1>4 DEF CommandOK, Idling
<1>8. GetOK'
  BY <1>0, <1>1, <1>3, <1>4 DEF GetOK, Sending
<1>9. ListOK'
  <2>1. ASSUME NEW e \in Seq(Names \cup SubDirs), NEW n \in Nat, NEW a \in Nat, Listing(e, n, a)
        PROVE  Listing(e, n, a)'
    <3>1. <<>> \in Seq(UpFrames) /\ up' = up \o <<>>
      BY <1>0, <1>1
    <3> QED
      BY <1>0, <1>1, <2>1, <3>1, ListingGrows
  <2> SUFFICES ASSUME NEW job \in Jobs, job.op = T_LIST
               PROVE  /\ (Asked(job) /\ Answered) =>
                            /\ pc' # "get"
                            /\ ~host.hit =>
                                  \A a \in DOMAIN up :
                                      Answers(up[a]) /\ (\A b \in 1 .. a - 1 : ~Answers(up[b])) =>
                                          up[a].ok /\ Listing(Entries(job), 0, a)'
                      /\ Asked(job) => host.got = <<>>
                      /\ Fetched(job) =>
                            /\ pc' # "get"
                            /\ ~host.hit => /\ Begins(host.got, Entries(job))
                                            /\ Listing(Entries(job), Len(host.got), 0)'
                      /\ Ended(job) => pc' # "get" /\ (~result.hit => result.value = Entries(job))
    BY <1>1, <1>3, <1>4 DEF ListOK, Answers
  <2>2. PICK e \in Seq(Names \cup SubDirs) : e = Entries(job) /\ e = Entries(job)'
    BY <1>4, EntriesAre
  <2>3. PICK n \in Nat : n = Len(host.got) /\ n = Len(host'.got)
    <3>1. Len(host.got) \in Nat /\ host'.got = host.got
      BY DEF HostOK, Hosts
    <3> QED
      BY <3>1, Zenon
  <2>4. \A a \in DOMAIN up : a \in Nat
    BY <1>0
  <2>5. \A a \in DOMAIN up : Listing(Entries(job), 0, a) => Listing(Entries(job), 0, a)'
    <3>1. 0 \in Nat
      OBVIOUS
    <3>2. \A a \in Nat : Listing(e, 0, a) => Listing(e, 0, a)'
      BY <2>1, <3>1
    <3> QED
      BY <2>2, <2>4, <3>2, Zenon
  <2>6. Listing(Entries(job), Len(host.got), 0) => Listing(Entries(job), Len(host.got), 0)'
    <3>1. 0 \in Nat
      OBVIOUS
    <3>2. Listing(e, n, 0) => Listing(e, n, 0)'
      BY <2>1, <3>1
    <3> QED
      BY <2>2, <2>3, <3>2, Zenon
  <2> QED
    BY <1>0, <1>1, <2>5, <2>6 DEF ListOK
<1> QED
  BY <1>5, <1>6, <1>7, <1>8, <1>9 DEF JobsOK

\* The invariant is inductive for careful users.
LEMMA LinkOKInvariant ==
    ASSUME Careful, LinkOK, [LinkNext]_vars
    PROVE  LinkOK'
<1>0. AgentOK /\ HostOK /\ JobsOK
  BY DEF LinkOK, JobsOK
<1>1. HostOK'
  BY <1>0, HostStep
<1>2. CASE Agent
  <2>1. AgentStep /\ UNCHANGED <<host, result>> /\ down \in Seq(DownFrames)
    BY <1>0, <1>2 DEF Agent, linkVars, HostOK
  <2>2. AgentOK'
    BY <1>0, <2>1, AgentKept
  <2>3. LineOK' /\ UploadOK' /\ CommandOK' /\ GetOK' /\ ListOK'
    BY <1>0, <2>1, LineObeyed, UploadObeyed, CommandObeyed, GetObeyed, ListObeyed DEF JobsOK
  <2> QED
    BY <1>1, <2>2, <2>3 DEF LinkOK
<1>3. CASE User
  <2>1. UserStep /\ UNCHANGED <<host, result>> /\ down \in Seq(DownFrames)
    BY <1>0, <1>3 DEF User, linkVars, HostOK
  <2>2. AgentOK' /\ JobsOK'
    BY <1>0, <2>1, AgentKept, UserKeeps
  <2> QED
    BY <1>1, <2>2 DEF LinkOK, JobsOK
<1>4. CASE \/ HostReceive \/ Timeout \/ EarlyTimeout \/ Lose \/ Damage \/ Abandon
           \/ UNCHANGED vars \/ \E job \in Jobs : HostStart(job)
  BY <1>0, <1>1, <1>4, HostKeeps DEF LinkOK, JobsOK
<1> QED
  BY <1>2, <1>3, <1>4 DEF LinkNext
LEMMA LinkOKInit ==
    ASSUME LinkInit
    PROVE  LinkOK
<1> USE MarksAssumption
<1>1. /\ pc = "main" /\ fd = None /\ wcrc = <<>> /\ rfd = None /\ rcrc = <<>> /\ todo = <<>>
      /\ saved = None /\ disk = Stored /\ cwd = Root /\ held = 0 /\ dropped = {}
      /\ down = <<>> /\ up = <<>> /\ host = Resting /\ result = None /\ dirs \in SUBSET SubDirs
  BY DEF LinkInit, XferInit
<1>2. Root \in Directories /\ <<>> \in Seq(Chunks) /\ <<>> \in Seq(Names \cup SubDirs)
      /\ <<>> \in Seq(DownFrames) /\ <<>> \in Seq(UpFrames)
  BY DEF Directories
<1>3. KernelOK
  BY <1>1, <1>2 DEF KernelOK
<1>4. StreamOK
  BY <1>1, <1>2 DEF StreamOK
<1>5. HandlesOK
  BY <1>1 DEF HandlesOK, Count
<1>6. HostOK
  BY <1>1, <1>2, RestingHost DEF HostOK, Resting
<1>7. \A job : ~Asked(job) /\ ~Fetched(job) /\ ~Ended(job)
  BY <1>1 DEF Asked, Fetched, Ended, Resting
<1>8. LineOK /\ UploadOK /\ CommandOK /\ GetOK /\ ListOK
  BY <1>7 DEF LineOK, UploadOK, CommandOK, GetOK, ListOK
<1> QED
  BY <1>3, <1>4, <1>5, <1>6, <1>8 DEF LinkOK, AgentOK

LEMMA LinkOKAlways ==
    ASSUME Careful
    PROVE  Spec => []LinkOK
<1>1. LinkInit => LinkOK
  BY LinkOKInit
<1>2. LinkOK /\ [LinkNext]_vars => LinkOK'
  BY LinkOKInvariant
<1> QED
  BY <1>1, <1>2, PTL DEF Spec

\* With careful users the agent never loses a handle of the kernel, and
\* outside of a listing it is in the directory it was started in, whatever the
\* line does and whoever abandons a job: .h_open and do_quit give v_fd's
\* handle back, serve_get and serve_list end on every path.
THEOREM AgentIsSound ==
    ASSUME Careful
    PROVE  Spec => []AgentSound
<1>1. LinkOK => AgentSound
  BY DEF LinkOK, AgentOK, HandlesOK, AgentSound
<1> QED
  BY <1>1, LinkOKAlways, PTL

\* An upload whose CLOSE was answered by 0 is the file sent, when its OPEN made
\* the file and the volume had room for it, for any file, any number of lost,
\* damaged and repeated frames, and for as long as the host starts nothing
\* else: .h_data writes a repeated chunk twice, but the accumulated CRC-32 of
\* .h_close then differs.
THEOREM UploadsAreExact ==
    ASSUME Careful
    PROVE  Spec => []UploadsExact
<1>1. LinkOK => UploadsExact
  <2> SUFFICES ASSUME LinkOK, Done(T_OPEN), T_OPEN \notin dropped
               PROVE  FileOf(result.job) = result.job.content
    BY DEF UploadsExact
  <2>1. PICK job \in Jobs : job = result.job /\ job.op = T_OPEN
    BY DEF LinkOK, HostOK, Done
  <2>2. Ended(job)
    BY <2>1 DEF Ended, Done
  <2> QED
    BY <2>1, <2>2 DEF LinkOK, UploadOK, Verified
<1> QED
  BY <1>1, LinkOKAlways, PTL

\* A download that ended well is the whole file, and a listing during which no
\* frame was lost or damaged names the entries of the directory, even when
\* frames of an earlier, abandoned stream were still under way: serve_get and
\* serve_list take any frame for an acknowledgement, and the host believes only
\* what comes behind the answer to its own request.
THEOREM StreamsAreExact ==
    ASSUME Careful, MaxOpen >= 2
    PROVE  Spec => []StreamsExact
<1>1. LinkOK => StreamsExact
  <2> SUFFICES ASSUME LinkOK
               PROVE  StreamsExact
    OBVIOUS
  <2>1. ASSUME Done(T_GET)
        PROVE  result.value = IF FileOf(result.job) = None THEN <<>> ELSE FileOf(result.job)
    <3>1. PICK job \in Jobs : job = result.job /\ job.op = T_GET
      BY <2>1 DEF LinkOK, HostOK, Done
    <3>2. Ended(job)
      BY <2>1, <3>1 DEF Ended, Done
    <3> QED
      BY <3>1, <3>2 DEF LinkOK, GetOK, Whole
  <2>2. ASSUME Done(T_LIST), ~result.hit
        PROVE  result.value = LET d == Directory(result.job.body)
                              IN IF d = None THEN <<>> ELSE SetToSeq(EntriesOf(d))
    <3>1. PICK job \in Jobs : job = result.job /\ job.op = T_LIST
      BY <2>2 DEF LinkOK, HostOK, Done
    <3>2. Ended(job)
      BY <2>2, <3>1 DEF Ended, Done
    <3> QED
      BY <2>2, <3>1, <3>2 DEF LinkOK, ListOK, Entries
  <2> QED
    BY <2>1, <2>2 DEF StreamsExact
<1> QED
  BY <1>1, LinkOKAlways, PTL

\* What a DEL, REN or PWRITE answered by 0 was asked for is there, and no copy of
\* an earlier frame undoes it: copies of the command itself are all that may
\* still arrive, and obeyed again by .h_del, .h_ren or .h_pwrite they leave what
\* it left.  Of a PWRITE it holds when the chunk had room and the offset was not
\* behind the end; .h_pwrite answers 0 without looking.
THEOREM CommandsAreDone ==
    ASSUME Careful
    PROVE  Spec => []CommandsDone
<1>1. LinkOK => CommandsDone
  <2> SUFFICES ASSUME LinkOK, NEW op \in {T_DEL, T_REN, T_PWRITE}, Done(op)
               PROVE  Promise(result.job)
    BY DEF CommandsDone, Promise, Done
  <2>1. PICK job \in Jobs : job = result.job /\ job.op = op
    BY DEF LinkOK, HostOK, Done
  <2>2. Ended(job)
    BY <2>1 DEF Ended, Done
  <2> QED
    BY <2>1, <2>2 DEF LinkOK, CommandOK
<1> QED
  BY <1>1, LinkOKAlways, PTL
=============================================================================
