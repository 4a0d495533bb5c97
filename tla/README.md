# A verification project for HarvaC

HarvaC is a small real-mode operating system for the 8086 and its successors: a
boot chain, a kernel with a FAT16 file system and system calls at `INT 0x40`, a
shell (`SHELL.COM`), a C library and a set of programs. This directory holds
TLA+ models of the parts whose state can go wrong in ways a test would hardly
reach, the TLC configurations that check them on small instances, and theorems
that TLAPS proves for every size. Paths below are relative to the repository.

Three facts about the system shape every model.

* **One program runs at a time.** `EXEC` suspends the caller until the child
  ends; there is no scheduler. What a program does between two system calls,
  or the shell between two programs, is not interleaved with another program.
* **The kernel is not re-entrant.** A system call runs to its end before the
  next one begins. The two interrupt handlers (timer and keyboard) touch only
  their own counters and buffers, never the file system, so only the keyboard
  ring and the tick counter have real interleavings.
* **Everything that spans several calls is a cached number**: a cluster in a
  file handle, a slot number in `g_redirect`, a segment in `g_next_seg`. The
  hazards are mostly long legal sequences of calls that make such a number
  stale.

## 1. Inventory

| Component | Code | State it keeps | Operations | What makes it correct | Model |
|---|---|---|---|---|---|
| FAT16 driver | `src/drivers/fat16.c` | FAT, directory slots, file data on disk; position, cluster and size cached in each `fat16_file_t` | create, mkdir, open, read, write, seek, delete, rmdir, rename, readdir, count_free, mount | clusters never shared or lost; a directory entry is found while it exists; handles agree with the disk; a file reads back what was written | `Fat16`, `FileStore`, `Fat16Store` |
| Programs in memory | `src/kernel/syscalls.c`, `syscall.asm`, `src/shell/exec*.{c,asm}` | `g_next_seg`, parent context stack | EXEC, EXIT, ALLOC, start of SHELL.COM | the end of a program resumes its caller; memory is kept apart and taken back | `Processes` |
| Keyboard driver | `src/drivers/keyboard.c` | ring buffer, modifier flags, E0 flag | IRQ1, getkey, push by the serial line | keys arrive once, in order, and mean what the modifiers said when they were struck | `Keyboard`, `KeyQueue` |
| Open files and redirection | `src/kernel/syscalls.c` | `open_files[]`, `g_redirect`, `g_stdin` | OPEN, CREATE, READ, WRITE, SEEK, CLOSE, DELETE, SET_STDOUT, SET_STDIN, READ_STDIN | bytes go to the file the caller named | `OpenFiles` |
| SHELL.COM | `apps/shell.c` | the stage of a line, handles of its pipes, its batch file | redirect, pipe, batch, exit, built-ins | a stage's output is the next one's input; no handle is left behind | `Shell`, `Streams` |
| System call entry | `src/kernel/syscall.asm` | saved registers | INT 0x40, return to parent | registers survive | through `Processes` |
| VFS, paths, current directory | `src/fs/vfs.c`, path calls of `syscalls.c` | current directory's path | normalise, resolve, chdir, mkdir, rmdir, rename, stat, opendir, readdir | a path names the same thing to every call; the current directory exists; a listing is complete | `Paths`, `Vfs`, `TreeStore` |
| Mount table | `src/fs/mount.c` | mounted volumes | mount, unmount, resolve | the longest mount point wins; no handle outlives its volume | `Paths`, `Vfs` |
| Disk driver | `src/drivers/disk.c` | none | read, write with three tries | an error reaches the caller | not modelled |
| XFER agent | `apps/xfer.asm` | the upload's and the stream's handles, CRCs, current directory | OPEN, DATA, CLOSE, GET, LIST, MKDIR, DEL, RMD, REN, PREAD, PWRITE, QUIT | a transfer that ended well is exact over a line that loses, damages and repeats frames; every job ends | `Xfer`, `XferLink` |
| Editor `medit` | `apps/medit/*.c` | gap buffer, cursor, top line, selection, clipboard, name, modified | keys, cut, paste, search, replace, load, save | the buffer stands for the text; line ends stay whole; no change is lost unasked | `Gap`, `GapBuffer`, `TextBuffer`, `Document`, `Lines`, `Editor` |
| File manager `NCD` | `apps/ncd/main.c`, `panel.c` | two panels: directory, list, marks, cursor | walk, mark, copy, move, rename, make, delete, run | an operation acts on its panel's files; a panel shows its directory | `Ncd` |
| File tools; `cp`, `mv`, `rm` | `lib/posix/fileops.c`, `dirent.c`, `unistd.c`, `apps/{cp,mv,rm}.c` | directory streams, the recursion | copy, move, remove trees | a success means it was done; a move never loses | `FileTools` |
| Rest of the C library | `lib/posix/*.c` | descriptor table, line buffer of `getline_fd` | getline, fnmatch, argument splitting | descriptors and buffers agree | not modelled |
| HDK, video, serial, timer, small filters | `lib/hdk`, `src/drivers`, `apps` | device state | output, delays | | not modelled: pure I/O |
| Kernel heap, kernel shell, boot chain, image builder, DOS port | `src/kernel/memory.c`, `src/shell`, `src/boot`, `build.py`, `other/dos` | | | | not modelled: no caller, a fallback, or run once before there is state |

How they interact: programs call the kernel through `INT 0x40`; the kernel's
file calls go through the VFS to the FAT16 driver; console output and input of
a program pass through `g_redirect` and `g_stdin`, which the shell sets around
each stage; the serial line pushes bytes into the keyboard ring; IRQ1 pushes
key events into the same ring.

What is hard, by kind (every item with its line is in `PROJECT.json`,
`hazards`):

* *protocol sequences and stale state*: handle positions against chains that
  grow, shrink or are deleted; redirect slots against files that are closed and
  slots that are used again; contexts against nested programs;
* *limits*: a full volume in the middle of a write, a full root directory, a
  full parent context stack, a full table of open files, a full key ring;
* *numeric edges*: positions at a multiple of the cluster size, 16-bit
  distances to the end of a file, 16-bit sums of segments;
* *interleaving and ordering*: IRQ1 inside `keyboard_getkey`; prefix, fake shift
  and key code as separate interrupts;
* *partial failure and crashes*: a cluster allocated for an entry that finds no
  slot; several FAT writes in one call, any of which may be the last; a save or a
  copy that stops early;
* *unreliable delivery and liveness*: frames lost, damaged, repeated or left of an
  abandoned job; two sides that wait for each other; recursions over directories
  that change under them.

## 2. Modules

`PROJECT.json`, `map`, gives the lines of the source behind each definition. Some
definitions have a second form above them that nothing uses (`DeletesAnyway` above
`Deletes`): a plausible mistake, put in its place to see that a property notices.
`Risky` is, in every module that has one, the set of things users or callers may
do that the code neither refuses nor gets right; an instance names those it lets
happen. `MC*` modules only give TLC values for the constants; `*_proofs` modules hold the
theorems about the module they are named after, and their lemmas.

### Fat16: `src/drivers/fat16.c`

State: `fat` (marks and links), `table` (the slots of each directory, by first
cluster, 0 for the root), `data` (the bytes of each cluster), `file` (the
`fat16_file_t` structures), `reply` (what the last call returned) and the observer
`stray` (a sector outside the volume was addressed). A name, a byte and a handle
are model values; a slot's name is `End` (`0x00`), `Deleted` (`0xE5`) or a name.

Each call of the driver is one action that makes all of the call's changes, in
the order the code makes them where it matters: `create` and `mkdir` take a
cluster first and look for a slot, which may take another cluster, second; what
they give back when that fails leaves the volume as it was (`MakeRefused`).
`fat16_read` and `fat16_write` keep all their state in the handle, so a call is
the consecutive iterations of its loop, one action per chunk.

The environment is the driver's callers. They use `open` and `delete` for files
only, stop using a handle after its file was deleted (the handle is then
`Orphan`; the driver does not notice), and do neither of the two things named in
`Risky` unless the instance admits it: *shared file* (a second handle on an open
file), *seek boundary* (a seek to the end of a file of whole clusters). A seek goes
to `SeekTarget`, which `SYSCALL_SEEK` computes from an offset and where it counts
from; a negative result stands for the large unsigned number it wraps to.

Properties:

* `ChainsSound` - the chains of files and directories never meet, loop or leave
  the volume, and no link points to a free cluster. `NothingLeaked` - and every
  cluster that is not free belongs to one of them, so that the count STATFS gives
  (`FreeCount`, `Statfs`) is what files and directories do not occupy.
* `EntriesFound` - a live entry is never hidden behind an end mark by the
  re-use of deleted slots and the growth of directories.
* `DirectoriesSound`, `HandlesSound`, `ChainsLongEnough`, `ChainsExact` -
  entries, sizes and cached positions agree with the chains: a handle stands on
  the cluster its position says, and a file has clusters for all of its bytes
  (exactly as many when no file has two handles).
* `ImplementsFileStore` - see below.
* `ReadsAdvance` - an iteration of the read loop before the end of the file moves
  at least a byte (it does not, see the findings).

### FileStore and Fat16Store

`FileStore` is what the driver promises: directories of names, files that are
sequences of bytes, handles that are a path and a position, and one answer per
call. It has no chains, slots or cached values. Where space is taken from is left open, but
not when it may be said to be missing: `space` and `crowded` allow "no space" only when no
cluster is left, the root directory is full, or a full directory would need a second
cluster. `Fat16Store` maps `Fat16` to it (a file's content is the data along its chain,
cut to its size). `HandleMarksAssumption` says that the
marks of a handle that is not in use are neither handles nor positions in a file.

### Processes: EXEC, EXIT, ALLOC

State: the running segment `cpu`, `next_seg`, the parent context stack `pctx`;
observed beside it, the programs that are alive in the order of their starts
and the memory each holds. `Exec` checks the memory as `syscall_exec` does,
saves a context when there is room for one (the code drops it silently
otherwise), and starts the child. `Exit` resumes what the stack says. Without a
context the kernel starts SHELL.COM again (`boot_shell`).

Properties: `LastStartedRuns` (the program that runs is the one started
last among those that have not ended), `MemorySeparate`, and the action
property `ExitReclaims` (an end gives back all that was handed out since the
start, and nothing else).

### Keyboard and KeyQueue: `src/drivers/keyboard.c`

State: the ring with `head` and `tail`, the flags, the scan codes on the wire,
the keys that are held, and the steps of `keyboard_getkey`. IRQ1 may come
between any two accesses to the ring. User and keyboard controller are the
environment: keys are pressed, repeated and released, gray keys send their
prefix and fake shifts, and each code on the wire carries the event it should
become, so that the decoding can be judged. The user holds at most one of the
two shift keys and does not hold Caps Lock until it repeats.

Properties: `KeysUnderstood` (the event a scan code becomes is the one that was
meant when the key was struck), `ShiftStateCurrent` (`ShiftState`, what `SYSCALL_GET_SHIFT` tells, is the
state of the keys once no scan code is under way), `ImplementsKeyQueue` (the ring is a queue of
`Size - 1` events that drops the newest when full).

### OpenFiles, Shell and Streams: `src/kernel/syscalls.c`, `apps/shell.c`

`OpenFiles` gives the kernel's calls as functions of the kernel's state, so that
several calls in a row are one applied to the result of another. `Shell` is the
shell on that kernel: what it does between two programs is one action, and a
stage runs as the actions of a program (`Put` and `Get` for stdout and stdin,
`OpenWork`, `WriteWork`, ... for its own files, `Exit`), or as another shell.

The volume has `Space` clusters, of which a file takes one when it is made and one for
each byte after the first (`HasRoom`, `Fits`). What comes while it is full fails: `CREATE`
and `OPEN` with `O_CREAT` return an error, `WRITE` says that it wrote less, and `out_byte`
(`syscalls.c:37-42`), which looks at no result, loses the byte of a redirected or piped
program without a word (`Through`).

`Streams` is what a command line promises: stages one after the
other, what a stage writes is the next one's input, the last writes where the
line says. Of a full volume (`full`) it promises nothing: the byte that comes then may be lost,
and only that one. What was kept before it and what comes after it stays in order.

Programs write only to handles they opened, delete no file they have open and
keep to their own files, none of which is a line's target or a pipe of the shell
(`FilesAssumption`); they may leave files open. Users give no file that is
open as a target, and no pipe inside a stage of a pipe. *redirect twice* and
*exit redirected* are in `Risky`, because the shell gets them wrong. A name that
cannot be executed is a program that ends at once. Prompts of a nested
interactive shell are not modelled.

Properties: `Directed` (redirects refer to the slots of the innermost line that
asked for them), `HandlesAccounted` (a slot in use belongs to a line in progress,
or a program left it open: lines leak nothing), `ImplementsStreams` (with
`scarce` only after programs have left files open, and `full` only while no cluster is
free) and `KindsSound`, which fails.

### Paths, Vfs and TreeStore: `src/fs/vfs.c`, `mount.c`, path calls, `readdir`

`Paths` has the pure part: normalisation with `.` and `..`, upper-casing to 8.3
names, the mount point nearest above a path. `Vfs` keeps directories as sequences
of slots (a live entry, a deleted one, or the end), the mount table, the current
directory and one directory stream, and has one action per system call. Which
clusters are taken is `Fat16`'s business: here a volume may be full at any time.
`TreeStore` is the promise: volumes are trees, a path means one place.

Properties: `ImplementsTreeStore`; `ListingsExact` (a listing gives no name twice
and every entry that was there from its start to its end, whatever other calls do
in between; `UTIME` sets a time and nothing else); `CwdThere` (the current directory can be walked to again); `TypeOK`
(the directories of a volume form a tree in their slots).

`Risky` admits what the kernel neither refuses nor supports: the current or a
listed directory removed or renamed (*busy directory*), a volume unmounted under
the current directory or mounted over it (*busy mount*), a change to a directory that
in upper case is below another mount point than as it was spelled (*mount spelling*), `OPENDIR` in a mounted volume, which lists
the root volume (*mounted listing*), a `READDIR` of the root after another call
overwrote `sec_buf` (*root listing*), and a block whose last slot is deleted, behind
which nothing is listed (*block end*).

### Xfer and XferLink: `apps/xfer.asm`

`Xfer` is the agent between two calls of `read_frame`: the main loop's handlers and
the waits inside a GET or LIST stream. `XferLink` puts it on a line with the host.
The host's program is not in the repository; it is modelled from what `os-docs/XFER.md`
and `docs/wiki/xfer.md` say of it (stop and wait, repeat on NAK or silence, retry a
file until it is verified). Up to `MaxFaults` frames are lost or damaged, waits given
up too early, or jobs abandoned, which leaves old frames under way. `JobsAssumption` says
which frames the host's program may send; `FileOf` and `Directory` say what a job's path
means to the host, which does not see the agent's current directory.

Properties: `AgentSound` (no handle is leaked, the current directory is restored),
`UploadsExact`, `StreamsExact`, `CommandsDone` (what is reported as done is so, and a
late copy of an old frame does not undo it), and `JobsEnd`, liveness. `dropped` remembers
what the agent does not look at: an upload whose OPEN was refused or whose volume was
full, and a PWRITE that was answered by 0 although the volume had no room for its chunk
or the kernel refused the seek (the chunk then lands at 0). `UploadsExact` and
`CommandsDone` except these; `UploadVerified` and `PwriteVerified` do not, and fail
(section 5). A create the volume refuses is different: OPEN does not look at it, PWRITE
answers it by 1 (`xfer.asm:493-498`).

### Texts, Gap, GapBuffer, TextBuffer and Document: the editor's text and files

`Gap` gives `gap.c` as functions on a block with a gap; `GapBuffer` makes any
sequence of its calls and states that they implement `TextBuffer`, in which there is
no gap. `Document` is `doc.c` with the file commands of `main.c` and the dialog: a
command with its questions is one step, and every answer, a full volume and a write
that stops early are alternatives of it.

Properties: `UnmodifiedIsSaved` (while the text is not shown as modified it is the
content of its file), `KeepsEdits` (no command throws changes away unless the user
said so), `SavesUnlessFull`, which fails.

### Lines and Editor: `edit.c`, `clip.c`, `search.c`

`Lines` finds line ends and wrapped rows; `Editor` is every key command with the
redraw (`ensure_visible`) that follows, the clipboard, search and replacement.

The painting is there as far as it decides what is seen: which bytes a row shows
(`RenderLine`, `RowsPainted`) and where the terminal cursor goes (`EditPlaceCursor`).

Properties: `LineEndsWhole` (no command leaves half of a CR LF, and cursor, top and
selection stand in the text, never inside one); `CursorShown` (the cursor is on
the screen, in the painted row and column that show its character); `TopLineExact` (the number
of the first line, which is only ever counted along, is right); `ReplaceAllEnds`.
`Risky` has three cases:

* *short join*, where the count goes wrong;
* *tall line*, a wrapped line of more rows than the screen, for which `ensure_visible`
  makes its first row the top one and so leaves the cursor below the screen. Texts as
  short as the run's have no such line;
* *lone CR*, a text with a carriage return that no line feed follows. `doc_load` takes any
  bytes, and `doc.h:5` counts such a CR as a line end, but only half of the code does:
  it ends a line where the code looks forwards (`doc_line_end`, `doc.c:26`, and with it
  the painting and `e_topline++`, `edit.c:216-217`), and begins none where it looks
  backwards or counts (`doc_line_home`, `doc.c:15`; `count_line`, `edit.c:65`). Without it
  `Init` starts from texts whose line ends are CR LF and LF; with it from any text
  (section 5).

### FileTools and Ncd: `fileops.c`, `dirent.c`, `cp`, `mv`, `rm`, NCD

`FileTools` runs commands step by step: a stack of calls (`copy_file`, `copy_tree`,
`remove_tree`, the programs), the pool of two directory streams, the system's
current directory, and a kernel that answers as `TreeStore` promises, with blocks
and clusters. `Ncd` adds the two panels, and its keys start such commands.

Properties: `DoneAsAsked` (success means done), `OnlyTargets` (nothing else is
touched), `MoveKeeps` (what is moved is whole in one of two places at every step),
`LeavesNothing` (no stream, no cluster, no changed directory is left behind),
`PanelsTrue` (panels show what is on the disk), `OperationsEnd`, liveness.
`Risky` has six cases the tools do not guard against, each met while modelling:
`copy_file` ignores short writes on a full volume; a copy onto itself unlinks its
source first; `cp`, `mv` or `rm` of a file onto or as a directory unlinks the
directory with its content; `copy_tree` of a directory for which no stream is left
copies it empty with status 0; a relative target is resolved inside the source; the
current directory can be removed. F5 and F8 discard the results of `copy_tree` and
`remove_tree` and report a count (`main.c:404`, `414`, `518`, `424-430`), so for them
`Told` keeps no failure and `DoneAsAsked` asks every such command to be done; only the
cases of `Risky` would make one fail.

## 3. Runs

| Run | Question | Instance | Result |
|---|---|---|---|
| `fat16_structure` | is the volume consistent under any sequence of calls? | 6 clusters of 2 bytes, 2 names, root and directory clusters of 2 slots, 2 handles, shared files | 239,672 states |
| `fat16_store` | is the driver a store of files? | 5 clusters, 2 byte values, 1 handle | 66,609 states |
| `fat16_append` | can a file be appended to at a cluster boundary? | *seek boundary* | violated |
| `processes_fit` | do programs return to their callers? | 416 KB, 8 contexts, blocks of 16 and 64 KB | 3,452 states |
| `keyboard` | is the ring a queue under interrupts, and are modifiers kept in step? | ring of 3; shift, Caps Lock, a letter, a gray key | 2,461,536 states |
| `shell_lines` | do lines go where they say? | 3 slots, 4 clusters, lines of 3 stages, a shell in a shell | 824,383 states |
| `vfs` | does a path mean one place, and is a listing complete? | root of 2 slots, a directory of 3-slot clusters, a second volume, paths in two spellings | 33,086 states |
| `xfer_line` | are transfers exact, and do they end? | 11 jobs, 2 names, 6 clusters, 2 faults | 1,342,471 states |
| `documents` | is a change ever lost, or called saved when it is not? | buffer of 3, 2 directories | 459,272 states |
| `document_overwrite` | can an existing file be saved? | the same | violated |
| `editor` | do line ends, cursor and top line survive any keys? | text of 4 with CR, LF, blank, a letter; 2 rows of 4 columns | 173,736 states |
| `ncd` | do commands do what they say and nothing else? | a tree three levels deep, five operation keys and eleven command lines, one operation from every view | 117,232 states |

Seven more configurations lie beside them for starting by hand
(`tlc -config X.cfg M`); they are not part of the regular runs:

| Configuration | Module | What it shows |
|---|---|---|
| `Fat16LongRead.cfg` | `MCFat16` | `ReadsAdvance` violated |
| `ProcessesDeep.cfg` | `Processes` | `LastStartedRuns` violated on 640 KB |
| `ShellNested.cfg` | `MCShell` | `Directed` violated with *redirect twice* |
| `ShellKinds.cfg` | `MCShell` | `KindsSound` violated by programs that open devices |
| `XferUpload.cfg` | `MCXfer` | `UploadVerified` and `PwriteVerified` violated (`-continue` shows both) |
| `EditorLoneCR.cfg` | `MCEditor` | `CursorShown` and `TopLineExact` violated with *lone CR* |
| `NcdLaunch.cfg` | `MCNcd` | `RunsShown` violated |

Why the bounds are enough to be worth the run:

* *Fat16*. `TotalClusters` 5 or 6: the search for a free cluster ends before
  the last two (as in the code), so 4 or fewer can be allocated, and a directory
  that grows plus a file over two clusters fills the volume; the full volume,
  the full root and directory growth all occur. `MaxSize` 3 with clusters of
  two bytes gives files of 0, a part of, exactly, and more than one cluster.
  Two handles are the fewest that can share a file. The `VIEW` hides the last
  answer; symmetry is over names, handles and bytes, which nothing orders, and
  the runs that use it check invariants, or action-level properties whose
  formulas treat those values alike.
* *Processes*. `PctxMax`, `COM_SEGMENT` and `PROC_PARAS` are the code's own
  values; 416 KB is the size at which memory and contexts run out together.
* *Keyboard*. A ring of 3 has all relations of head and tail (empty, part, full,
  wrapped); `WireMax` 4 lets a whole gray-key sequence with its fake shift be under
  way while the previous event is being read.
* *Shell*. Three slots are a pipe's reader and writer and one more: with files
  left open the table fills up, which is when a stage's pipe cannot be opened.
  Three stages have a first, a middle and a last one. `MaxBytes` 2 shows order
  and loss. `Space` 4 is full with a pipe, a target and one more file of a byte or
  two, so that creating a file and writing to one both meet a full volume.
* *Vfs*. A root of two slots fills up; a directory of three-slot clusters grows
  into a second one and has deleted slots in front of live ones. The paths are one
  in the other spelling, one absolute, and one through a directory; the mount
  point hides a name. `Together = FALSE` keeps mounts and listings apart, which do
  not touch each other's state.
* *Xfer*. Two faults are a loss and the repetition that crosses it, or an abandoned
  job with one frame of it still under way; two chunks have a first and a last. The six
  clusters are all in use at first, so that uploads and PWRITE find no room, for a new
  file or for one more chunk; once the large file is deleted there is room for an upload
  and for a chunk of it written twice.
  With `SeqLimit` 6 there is always a number that no frame under way has, which the
  host's next frame takes. The value *numbers meet* of `Risky`, which drops that, is left
  out: 256 numbers separate an old frame from a new one on the real line.
* *Document*. A buffer one longer than the longest text that is loaded separates
  "too big" from "full"; two directories let the name mean another file after a
  move.
* *Editor*. Four characters hold two CR LF, or a wrapped row with a CR LF; two rows
  are the fewest that scroll by less than the screen. The replacements include the
  empty one and one that holds what is searched for twice.
* *Ncd*. One tree-changing operation per session, begun from every combination of
  panels, cursors, marks and current directory that walking can reach; copies and
  removals of a directory in a directory use both streams of the pool. A window of
  one row scrolls at every move; `WordSize` 6 is the 16-bit wrap of the cursor.

All other bounds (`MaxSize`, `MaxDepth`, `WireMax`, `MaxFaults`, `MaxTurns`)
are guards of the environment's actions and are named in the modules' `CONSTANTS`.

**Fairness.** Two specifications assume some. In `XferLink` one weak fairness
condition is on the agent, the host's reading of its line and the host's timer
together: the agent loops without ever stopping by itself and the host's program
runs; losses, damage, early timeouts and users are not bound to anything, and
`MaxFaults` says that faults stop some time. In `Ncd` weak fairness is on the steps
of a program under way: one program runs at a time and nothing takes the machine
from it; keys are the user's. The others are of the form `Init /\ [][Next]_vars`:
the code gives no ground for more, since a user need not press a key and a program
need not end. `ReadsAdvance` and `ReplaceAllEnds` say of each step of a loop that it
comes closer to the loop's end. Where nothing more can happen a further step is
possible, so deadlock is checked in all runs.

## 4. Proofs

TLAPS checks these for every value of the constants that satisfies the named
assumptions.

| Theorem | Statement | Assumptions |
|---|---|---|
| `Fat16_proofs!TypeCorrectness` | `Spec => []TypeOK` | `SizesAssumption`, `MarksAssumption` |
| `Fat16_proofs!NoCrossLinks` | `Spec => []ChainsSound` | the same |
| `Fat16_proofs!DirectoriesReached` | `Spec => []DirectoriesSound` | the same |
| `Fat16_proofs!SpaceAccounted` | `Spec => []NothingLeaked` | the same |
| `Fat16_proofs!SearchFinds` | `Spec => []EntriesFound` | the same |
| `Fat16_proofs!HandlesKeepPlace` | `Spec => []HandlesSound` | and *seek boundary* not in `Risky` |
| `Fat16_proofs!ChainsHoldTheirBytes` | `Spec => []ChainsLongEnough` | the same |
| `Fat16_proofs!SectorsOfTheVolume` | `Spec => [](stray = FALSE)` | the same |
| `Fat16_proofs!ChainsAsLongAsBytes` | `Spec => []ChainsExact` | and `Risky = {}` |
| `Fat16_proofs!DriverIsAFileStore` | `Spec => ImplementsFileStore` | and `MaxSize < WordSize`, `HandleMarksAssumption` |
| `Processes_proofs!TypeCorrectness` | `Spec => []TypeOK` | `MemoryAssumption` |
| `Processes_proofs!ReturnsToCaller` | `ContextsSuffice => (Spec => []LastStartedRuns)` | the same |
| `Processes_proofs!Separation` | `... => []MemorySeparate` | the same |
| `Processes_proofs!Reclaim` | `... => ExitReclaims` | the same |
| `Keyboard_proofs!TypeCorrectness` | `Spec => []TypeOK` | `KeyboardAssumption` |
| `Keyboard_proofs!RingIsAQueue` | `Spec => ImplementsKeyQueue` | the same |
| `Keyboard_proofs!CodesUnderstood` | `Spec => []KeysUnderstood` | the same |
| `Keyboard_proofs!ShiftStateTold` | `Spec => []ShiftStateCurrent` | the same |
| `Shell_proofs!RedirectsDirected` | `Spec => []Directed` | `TableAssumption`, `ShellAssumption`, `FilesAssumption`, and `Risky = {}` |
| `Shell_proofs!NoHandleLost` | `Spec => []HandlesAccounted` | the same |
| `Shell_proofs!LineIsStreams` | `Spec => ImplementsStreams` | and `MaxOpenFiles >= 3` |
| `XferLink_proofs!AgentIsSound` | `Spec => []AgentSound` | `XferAssumption`, `MarksAssumption`, `JobsAssumption`, and `Careful` |
| `XferLink_proofs!UploadsAreExact` | `Spec => []UploadsExact` | the same |
| `XferLink_proofs!StreamsAreExact` | `Spec => []StreamsExact` | and `MaxOpen >= 2` |
| `XferLink_proofs!CommandsAreDone` | `Spec => []CommandsDone` | as the first |
| `Document_proofs!GapInBlock` | `GbSpec => []TypeOK` | `CapAssumption` |
| `Document_proofs!GapInvisible` | `GbSpec => ImplementsText` | the same |
| `Document_proofs!UnmodifiedSaved` | `NoReadErrors => (Spec => []UnmodifiedIsSaved)` | `CapAssumption`, `MaxTextAssumption`, `MarksAssumption` |
| `Document_proofs!EditsAreKept` | `Spec => KeepsEdits` | the same |
| `Editor_proofs!PlacesStayInText` | `Spec => []InText` | `EditorAssumption`, `DialogAssumption`: any text, any `Risky` |
| `Editor_proofs!ReplacingAllEnds` | `Spec => ReplaceAllEnds` | the same |
| `Editor_proofs!TextStaysWhole` | `Spec => []NothingSplit` | and *lone CR* not in `Risky` |
| `Editor_proofs!LineEndsAreWhole` | `Spec => []LineEndsWhole` | and `Risky = {}` |
| `Editor_proofs!TopLineIsExact` | `Spec => []TopLineExact` | the same |
| `Editor_proofs!CursorIsShown` | `Spec => []CursorShown` | the same |
| `Vfs_proofs!TypeCorrectness` | `Spec => []TypeOK` | `SpellingsAssumption`, `SizesAssumption`, `GivenAssumption`, and *busy directory* not in `Risky` |
| `Vfs_proofs!ListingIsExact` | `Spec => []ListingsExact` | and neither *root listing* nor *block end* |
| `Vfs_proofs!CwdIsThere` | `Spec => []CwdThere` | as the first, and neither *busy mount* nor *mount spelling* |

*Fat16, the volume.* A first invariant is `TypeOK /\ ChainsSound`. `ChainsSound` is
stated without following chains, as "no two owners (a link, an entry) refer to the
same cluster, and what is referred to is not free": an allocation takes a cluster
that is free, which nothing refers to, and gives it exactly one owner; a deletion
frees a whole chain together with its only owner. What follows chains needs no
induction over data either, because `Chain(f, c)` is the least set that holds `c` and
is closed under links: a set of clusters is shown to hold a chain by showing that it
is closed. `ChainsDisjoint` (chains of different heads do not meet), `LinkedChains`
(linking a free cluster adds it to one chain) and `ChainPredecessor` are the lemmas
everything else rests on. The effect of a call on the volume is one of three
(`Made` an entry, one `Gone`, entries `Kept`, lemma `VolumeEffects`), so that each
further conjunct is shown three times and not twelve. `VolumeInv` adds `Rooted` (the
directories in use are the entries marked as such) and `Leakless` (an allocated
cluster lies in some chain); `AllOrdered` (nothing live behind an end mark, no two
live slots of one name) gives `EntriesFound`. These hold for all values of `Risky`:
shared handles and boundary seeks cannot cross-link or lose clusters.

*Fat16, the handles.* `Reaches(f, c, k, x)` says that a walk of `k` links from `c`
comes to `x`. Where an induction on `k` is wanted the proofs take the least `k` for
which the claim fails (`Least`). `StepsCount` and `StepsEnd` say that a chain has as
many clusters as a walk to its end has steps, which ties positions to chains.
`PlaceInv` adds to `VolumeInv` that each chain is long enough and each handle in
use is on the entry of a file and at its place: the cluster it caches is the one its
position lies in or ends. A write then goes to the cluster its position says
(`WriteTarget`) and changes one size (`PutEffect`). With *seek boundary* the claim is
false, and run `fat16_append` shows how, so the theorems exclude it. `ChainsExact`
also needs that a handle knows the size in the entry and is the only one there
(`SoleHandles`), hence `Risky = {}`.

*Fat16 implements FileStore.* `Maps(m, E, p, v)` says that `m` is the function from
the paths `p` of the entries `E` to their values `v`; the lemmas `MapsMore`,
`MapsLess`, `MapsMoved` and `MapsChanged` turn one entry more, less, renamed or
rewritten into the operators of `FileStore`. `ByteIs` says which byte of which
cluster the `x`-th byte of a file is, `TextKept` that a text survives when the links
and data of its chain do, and `ByteWritten` which bytes a chunk of a write changes,
where the new cluster of a growing file is the one the walk along the new chain comes
to. One lemma per call (`CreateStore` ... `SeekStore`) then has the call of `FileStore`
with the same answer. `StoreInv` is `ExactInv`, `AllOrdered` (a path is one entry) and
the bound on sizes. `MaxSize < WordSize` is needed: with 65536 bytes to go `fat16_read`
returns nothing (finding 3), which `FileStore` does not allow.

*Processes.* The theorems hold on a machine whose memory runs out before its
contexts (`ContextsSuffice`); `ProcessesDeep.cfg` shows that this hypothesis is
needed. The inductive invariant relates the stack to the programs that are
alive: context `i` names the `i`-th program, the segments increase by at least
a slot, and the memory of program `i` lies between its segment and the next
one's. Depth is then bounded by memory, so no context is ever dropped.
`TypeCorrectness` needs no such hypothesis.

*Keyboard.* For the ring the invariant is `RingHeld`: between the test and the read
`head # tail`, and between the read and the advance the event in hand is the one at
`tail`, which IRQ1 never overwrites because a full ring refuses. `HeldPushed` and
`HeldTaken` say what an advance of `head` or `tail` does to the sequence between them,
with and without wrapping. For the decoding the invariant (`Understood`) is about
everything that is under way: `Leads(f, w, g)` says that the codes `w`, decoded one
after the other from the flags `f`, each become the event they carry and end in the
flags `g`, which are those of the keys now held. A struck key appends codes that lead
on (`SendLeads`: prefix, fake shift, code, each kind of key), an interrupt takes the
first (`LeadsFirst`). `KeysUnderstood` and `ShiftStateCurrent` are read off it, for
every set of keys and any number of codes on the wire.

*Shell.* The invariant (`Inv`) has two halves. `HandlesInv` is about slots: every
slot in use is the `out`, `in` or `bat` of exactly one shell, or the running
program's, or was left open, and a shell's three are different. `FlowInv` is about
files: the kernel's redirects are those of the innermost shell that has one, and the
file of each stage (`Files`) ends where the slot that writes it stands. `HandlesInv`
alone would not do: a stage that ends closes its slots and sets both redirects to
none, which is right only because no shell below has one, and that is `Nest`: no
pipe runs in a pipe, no redirect in a redirect. The first is the user's duty
(`MayPipe`), the second is *redirect twice* of `Risky`, which `ShellNested.cfg` shows
to be needed. `Nest` also gives `NeedsApart`: the pipes and targets that a shell
still needs are not those that another one deletes and makes anew. Since several
calls in a row are one action, the proofs are about a kernel `q` with a shell `s` on
top of the shells `st`: `Led(q, st, s, m, l)` is the invariant of such a place, one
lemma per kernel call or step of the shell leads from one such place to the next, and
`Same` says which slots and files it leaves alone. For the refinement `Keeps`,
`Begun`, `Advanced`, `Finished`, `Putting` and `Getting` say what the outermost line
sees of a step, whatever goes on in the shells above it. `LeftOpen` is where the
number of slots comes in: with three or more, a pipe can fail to open only when
programs have left files open, which is what `scarce` allows. The code has 16
(`syscalls.c:17`). `Wrote` says of a byte that it is in its file behind the others, or that
the volume is full and the file is as it was, which is what `full` allows.

*XferLink.* For every set of names and directories, files of any length, any jobs and any
number of faults. What an answer promised is about files, and frames sent long ago may
still arrive: that is what the invariant (`LinkOK`) is about. `LineOK` says which frames
can be under way: those with the number the host waits on are copies of its request and
the last ones on the line; once the agent has answered one, no other frame is left; so
after the host has read the answer only copies of the same request can still reach the
agent. `UploadOK`, `CommandOK`, `GetOK` and `ListOK`, one for each kind of job, say what
that means for it: after the answer (and while it is under way) the file is as promised,
and a copy of the request that arrives again leaves it so. For an upload the CRC-32 of
the chunks written since the OPEN (`wcrc`) is the file's content as long as nothing was
dropped, and the CLOSE is answered by 0 only when it is the CRC of what was sent
(`Verdict`); a PWRITE's chunk is there unless `dropped` says that it found no room or the seek
was refused; for a listing the frames behind the host's request, from the first
that answers it, are the rest of the entries (`Listing`). `AgentOK` is the agent alone:
its handles, its place in a stream, its current directory. Host and agent then each have
one lemma per handler (`ListRead`, `GetObeyed`, `CommandObeyed`, ...), with a frame
condition for those that cannot matter (`UploadFrame`, `ListFrame`, ...).
`Careful` excludes *quit in stream*, with which the agent leaves the stream's handle
open, and *numbers meet*, with which an old answer may be taken for the new one's;
*beyond end* is allowed. `MaxOpen >= 2` is needed for a download while an upload's file is
open: with one slot the agent cannot open the file and answers as for a file that is not
there. The kernel has 16 (`syscalls.c:17`).

*GapBuffer.* `TypeOK` is inductive and strong enough for the refinement. The work is
in the lemmas about the functions of `Gap`: `MovedKeepsText` shows that moving the gap
to any position copies every byte outside it to where `GbAt` looks for it
afterwards, by cases on which side of the gap a position was and is; `PutText` and
`CutText` add what the insertion or the cut does at the gap; `FilledText` and
`EmptiedText` cover load and reset. `StepSimulates` then has one step per action, and
the temporal theorem is that every step maps to a step of `TextBuffer` or a stutter.
It holds for blocks of any size, the 16-bit sizes of the code among them.

*Document.* On the same lemmas, in the same module, for every buffer, every set of
directories and names and every answer of the user. `UnmodifiedIsSaved` is not inductive: a later load or
save could change the file the text came from. The invariant `Inv` adds that this
file exists, and the lemma `DocSaveKeeps` that a save changes no file that does,
because `creat()` refuses a name that is taken; the theorem would fail if saves
overwrote. `Kept` says what a command that may save hands on (the text, the files,
and that what it says it wrote it wrote whole), and both theorems follow from it
with one step per command. `UnmodifiedSaved` needs `NoReadErrors`: with
`"read error"` in `Risky` a load that stops early is taken for the whole file.
`EditsAreKept` holds either way.

*Editor.* For texts, buffers, screens and margins of every size. The invariant comes in
three parts. `TextInv` is about the text: it fits, the cursor, the anchor and the ends of
what is cut, matched or pasted stand in it, and, unless *lone CR* is in `Risky`, they stand
between line ends (`Between`), which makes every deletion and insertion leave whole ones
(`DeletedWhole`, `InsertedWhole`). It needs nothing of the screen. With lone CRs the first
half remains (`PlacesStayInText`, `ReplacingAllEnds`) and the second is false: in `CR a LF`
the deletion of the `a` leaves the cursor inside a CR LF. The lemma `Strict` says that
without them the invariant is the full one. `TopInv` says that the top is
the first position of a line, not behind the cursor, with the right number: the lemma
`CountNext` carries the number along one line, `Agree` says that a change below a position
leaves the lines above it alone, and `BackspaceTop` and `DelTop` are the cases where the
top line itself is joined. *short join* is what they cannot cover. `RowInv` says that the
cursor's row is the number of rows in between: `UpIs` and `DownIs` say where
`ensure_visible` stops.

What `Lines` and `Editor` compute they compute by recursive functions. The proofs use of
each only that it exists and satisfies its own equation, and the lemma `Recursion` gives
that for every function whose argument comes closer to an end (`Descends`): distance to
the end of the text for `down`, `sum` and `paint`, the position itself for `up`. What then
needs an induction takes the least distance for which the claim fails (`Smallest`).
`CursorIsShown` joins the two halves of the code that never see each other:
`ensure_visible`, which counts rows, and `edit_render`, which paints them. `RankIs` finds
the cursor's row among those of its own line (the last that begins at or before it),
`RowPlaced` finds that row in what `edit_render` paints from any line on, and `RowInv`
says that this is the row `edit_place_cursor` uses. Two hypotheses of the model's
constants are from the code: a row has at least a column (`WrapCol`), and what is typed
in a dialog has no line end, because its field takes printable characters only.

*Vfs.* For any volumes, directories, names and mounts. `VolumeOK` says of each volume
that the entries of one directory have different names, that an entry marked as a directory
leads to one, and that each directory but the root has exactly one such entry. It is kept by three kinds of change (`MakeKeeps`, `RenameKeeps`,
`UnlinkKeeps`), and the lemma `StepIsKind` says that every call makes one of these, or
looks, or changes the current directory, the mounts or the listing, so that each property
is shown once for each kind. `TreesOK` holds with every value of `Risky`; `TypeOK` adds
the listing, whose directory can be removed under it.

For the listing `StreamOK` says where the names are: those it gave are in slots behind its
place, those it still owes in slots ahead. A new entry goes to a deleted slot or behind
all others, on either side, and is not owed; a renamed or removed name leaves both sets; no
entry ever moves to another slot. *block end* and *root listing* are where the place goes
past names that are owed.

For the current directory, `Walk` is a recursive function; `StepsExist` gives every
recursion along `0 .. n`, and `Trace` states a walk as the sequence of directories it goes
through, one entry after the other (`WalkHasTrace`, `TraceIsWalk`). A trace lasts as long
as its entries do. That a directory outside of what is removed or renamed keeps its
entries needs that `Subtree`, which is computed by rounds, is closed: `SubtreeIs` shows it
by counting, since a round that adds nothing is the last and there are no more
directories than rounds. What leads to the current directory then lies outside
(`Keeps`), and a mount elsewhere leaves it below the same mount point (`TableHere`).

*Only model-checked*: the refinement `ImplementsTreeStore` of `Vfs`; everything about
the file manager. `ReadsAdvance` is false. The liveness properties `JobsEnd` and
`OperationsEnd` are out of the prover's reach and stay with TLC, and so does what
`TreeOf`, a recursion along the tree itself, computes for every volume, on which that
refinement rests.

## 5. Findings

Two runs end with a counterexample; `PROJECT.json` quotes the statements of the
repository they contradict.

1. `fat16_append` - after a seek to the end of a file of whole clusters a write
   extends the size but not the chain (`fat16.c:553`).
2. `document_overwrite` - EDIT cannot save a file that exists, not even the one it
   opened: `doc_save` calls `creat`, which `fcntl.h:22` describes as "Create or truncate
   a file", and the kernel refuses a name that exists (`syscalls.c:607`,
   `fat16.c:830`), after the user confirmed "Filen finnes - overskrive?".

Other disagreements are reproduced by the configurations started by hand:

3. `Fat16LongRead.cfg` - `fat16_read` keeps the distance to the end of the file in
   16 bits (`fat16.c:495`); 65536 bytes before the end the loop does not end.
4. `ProcessesDeep.cfg` - the ninth nested program is started without a context
   (`syscall.asm:198`), and its end resumes the wrong program.
5. `ShellNested.cfg` - a redirected shell that redirects a line loses its own
   redirect (`apps/shell.c:410`).
6. `ShellKinds.cfg` - a file created in a slot that a device had before keeps the
   device's kind (`syscalls.c:611`).
7. `XferUpload.cfg` - an upload onto an existing name or a full volume is answered
   as verified: the agent ignores the results of OPEN and WRITE and its CRC-32 is over
   what it received (`xfer.asm:225`), while `os-docs/XFER.md:24` promises "Binary-safe &
   verified" and the comment at `xfer.asm:195` says "create/truncate". A PWRITE onto a full
   volume is answered by 0, "ok", too (`xfer.asm:503-511`).
8. `NcdLaunch.cfg` - Enter on a program runs the file of that name in the system's
   current directory or `/BIN`, not the panel's (`apps/ncd/main.c:112`), against
   `panel.c:91-93` "every operation that resolves names must sync it".
9. `EditorLoneCR.cfg` - `doc.h:5` says that lines end with CRLF, lone LF or lone CR; with
   lone CRs the cursor is not where its character is painted (`a CR b`: the `b` is
   painted in the second row, the cursor on it is put in the first, `doc.c:15` against
   `doc.c:26`), and the number of the top line drifts (`edit.c:65` against `216-217`).

Met while modelling, without a configuration of their own: the cases named under
`Risky` above; `panel_clamp_scroll` never scrolls down, so the cursor bar leaves the
window (`panel.c:181`, against `os-docs/NCD.md:11`); NCD starts in the current
directory, not in the root as `os-docs/NCD.md:10` says; `clip_set` drops the old
clipboard before the allocation of the new one may fail (`clip.c:24`); a full
buffer makes "replace" delete the match without inserting (`search.c:114`);
`vfs_chdir` keeps the current directory in upper case (`vfs.c:186`) while `mount_resolve`
compares mount points as they were given (`mount.c:110`): with a volume at "/mnt" a
`cd /mnt` succeeds and leaves the system in "/MNT", which no later call finds. No program
of the repository mounts anything yet; `CwdIsThere` needs *mount spelling* excluded.

## 6. Not modelled, and the plan

Left out of the modelled components:

* disk errors and crashes inside a call of the FAT16 driver. The driver ignores most
  results of its sector writes, nothing repairs or inspects the volume at start-up,
  and no document says what survives a restart, so a crash model would have no
  promise to check; the second FAT copy is never written;
* the loading of programs and the size of their files; the line editor of
  `READ_STDIN`; glob expansion and the built-ins of the shell;
* COBS, CRC-16 and the speeds of raw mode of the agent;
* tabs, horizontal scrolling, colours and menus of the editor; the viewer and the
  drawing of NCD.

Left out for good: pure I/O (video, serial, screen library), the timer (a delay
with no state behind it), the kernel heap (no caller), the boot chain and the image
builder (run once), the DOS port of NCD (the same panels on another system), the
small filters (read once, write once), `stdio.c` and the pure functions of the C library.

Theorems worth proving next: `MoveKeeps` of `FileTools` for every tree, and `ImplementsTreeStore` of `Vfs`.
