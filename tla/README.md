# Tuxlet OS in TLA+

A verification project for the kernel in `src/`: a single-processor, cooperative
x86-64 kernel in C with loadable modules. Nothing in it preempts: a thread runs
until it calls `thread_yield` (in a wait in the kernel, or at the tail of every
32nd system call) or ends, and disk I/O is polled without yielding. What goes
wrong in such a kernel is therefore rarely a data race in the usual sense; it is
a path that is left half way, a count that drifts over a long sequence of legal
calls, state looked at before a yield and used after it, and a thread that waits
for something nobody will do. The models keep those things and leave the rest.

## 1. The system

| Part | Source (under `src/`) | State | Operations | Works with |
|---|---|---|---|---|
| threads and processes | `src/kernel/thread.c`, `src/kernel/syscall.c` | `all[]`, `current`, `procs[]`, pending signals and handlers, foreground group | yield, new thread, end, end the others, fork, vfork, clone, execve, exit, exit_group, wait4, kill, sigaction, sigprocmask, `program_start` | address spaces, the shell, terminals (signals from keys) |
| pseudo-terminals | `src/modules/ipc/pty.c` | `ptys[]`: ends counted, two rings, the line being edited, settings, session and group | open, dup, close, read, write, ioctl, module load and unload | descriptor tables, signals, `thread_yield` |
| pipes, FIFOs, eventfds, socketpairs, UNIX sockets | `src/kernel/syscall.c`, `src/modules/ipc/unix.c` | `pipes[]`, `socks[]`, descriptors in tables and in flight | pipe2, dup, fork, close, read, write, sendmsg, recvmsg, bind, listen, connect, accept, exec, exit | descriptor tables, signals |
| address spaces and shared pages | `src/kernel/vm.c`, `src/kernel/share.c`, `src/kernel/syscall.c` | page tables, share entries, mappings, memory files | mmap, munmap, madvise, page faults, fork, exec, exit | page allocator, filesystem, processes |
| page allocator | `src/kernel/mem.c` | `runs[]`, loose chain, pages lent | take, free, take below, take one address, lend, shrink | disk cache, everything else |
| disk cache | `src/modules/storage/cache.c` | lines, hash chains, LRU clock, limit | read, write through, shrink, command, init, exit | page allocator, disk reads and writes |
| disk reads and writes | `src/kernel/efi.c`, `src/kernel/bios.c` | none of its own | `ata_read_many`, `ata_write_many` | cache, drivers |
| filesystem | `src/kernel/fs.c` | recent sectors; header, file table, free entries, index of names | load, change and write a sector; write, write into, remove, make a folder, rename, link, resize; the table and the index grown | disk reads and writes |
| open files | `src/kernel/syscall.c` | `proc->files`, `ofds[]`, memory objects | open, close, dup, pass, fork, exec, read, write, seek, truncate, unlink, rename, select | filesystem, processes, channels |
| futexes, timers, poll | `src/kernel/syscall.c` | wait queues | futex wait, wake, requeue; timers; poll | threads |
| network stack | `src/modules/network/stack/` | `socks[]`: states, sequence numbers, buffers, timers | socket, bind, listen, connect, accept, send, receive, shutdown, close; segments in, timers | network drivers, signals, `thread_yield` |
| screen | `src/kernel/vga.c` | the grid of cells, cursor, region, colours, the escape sequence under way, mode, font, what is lent | put a character, clear, set mode, font, scale, colour, capture, lend, follow the firmware | framebuffer, console |
| console | `src/kernel/console.c` | settings, keys typed ahead, the line, history | read cooked and raw, edit, recall, complete, set, reset | screen, keyboard, signals |
| keyboard and mouse | `src/modules/input/`, `src/kernel/input.c`, `src/kernel/efi.c` | modifiers, characters and events queued, the last report | poll, read events | console, programs that read events |
| package manager | `src/tuxpac/tuxpac.c` | installed list, file lists, scripts, dpkg's status, the plan | sync, install, upgrade, remove, purge, install or remove the essentials | files, network |
| module loader | `src/kernel/module.c` | modules, symbols, users | load, unload | all modules |
| USB | `src/modules/usb/xhci.c` and users | command, event and transfer rings | submit, poll | storage, keyboard |

The rest (shell command parsing, `/proc` text, Linux structure translation, disk and
network drivers, fonts, boot, image builder, tracing, PCI and string helpers) has
little state that two actors share; `PROJECT.json` says of each why it is left out.

**What is hard.** (a) *Ends*: a process ends by unwinding its leader's kernel stack
to the frame that calls `process_end`; threads, signals, execve, vfork and a shell
running inside a process all bend that path. (b) *Counts*: descriptors on
terminals, pipes and sockets, page table entries on a page in common, and files
that hold a memory file are counted by hand in dozens of places, with failures half
way. (c) *Limits*: every table is fixed; what happens when the run list, a ring, a
process table or a backlog is full is a path of its own. (d) *Waits*: everything
that waits polls its condition between yields, with signals and hang-ups as ways
out. (e) *Copies*: cache lines, recent sectors and shared file pages say what the
disk says only while every writer keeps them so. (f) *Failures half
way*: a disk error, a full disk, a lost segment, a kill or the end of power in the
middle of an operation that writes several things one by one. (g) *Time*: a timer
that fires while the answer is on its way, keys and codes read long after they were
typed.

**What makes each part right.**

* threads and processes: no thread in a process that has ended; memory there while
  it is run in, and not after; a vfork's parent waits; every live process can be
  ended, and a kill, a wait and a vfork do end;
* terminals: counts are the descriptors there are; the screen shows the line being
  edited; nothing written is lost; a hang-up ends every wait;
* channels: counts again, with descriptors in flight; packets whole; descriptors
  come out with the bytes they were sent with; waits on a channel whose other end
  has gone are over;
* address spaces: each process has its own memory, whatever is shared underneath;
* allocator: every page has one owner; pages are not lost while they could be kept;
* disk cache and recent sectors: what is read is what the disk has;
* filesystem: no sector is in two files, the index finds every name once, free
  entries are free, and each file is what callers were told, but for the one a
  failed call was about;
* open files: counts are the descriptors there are; copies share one position; what
  is open keeps its bytes, with a name or without;
* TCP: each stream arrives whole, in order and to its end, over any network; readers
  are told, and sockets nobody has are freed;
* packages: an installed package has its files, a removed one leaves none, and what
  packages need stays;
* screen and console: the framebuffer shows the grid; the line being edited is on
  it, and is what a program reads;
* keyboard: what was typed with which modifiers held is what is read, as characters
  and as events.

## 2. The modules

Every module names the code it follows, and `PROJECT.json` maps each definition to
lines. As nothing preempts, *a call is one action up to its `thread_yield`*, and one
that waits carries on in a second action (`Turn`, or a program-counter label).

**Setups.** Each module has a variable that `Init` picks from a constant set and no
step changes: `Does \in Cases` (Processes), `setup \in Setups`, `machine \in
Machines`. A member says how large the tables are and which calls are made, so one
run goes through several small instances one by one: TLC's state space is the sum
of theirs and not the product. The sets are in the `…MC` modules (for Processes, in
the `.cfg`). They limit *inputs* only; no action's effect depends on them. The
exceptions are abilities named for a failure (`nofiles`, `nospace`, `noload`,
`forkfails`, `readfails`, `writefails`, `lastslot`, `passfull`, `killsender`, `fail`,
`crash`, `pastend`, `growfull`): they say whether that failure may happen in the
setup.

### Processes

`thr` is `all[]`, `cur` is `current`, `proc` is `procs[]` indexed by pid (pids are
never reused), `spaces` the address spaces that exist, `fg` the foreground group,
`calls` the dispatcher's count up to its yield. A thread has the label of where it
is in the kernel (`pc`), where its stack began (`entry`: the kernel's own thread,
`process_entry` or `thread_start`) and the processes further down that stack
(`was`), because `program_start` and `/ctl/tsh` run a program on the caller's own
thread. Calls are `Fork` (with `share` for vfork), `ForkFails`, `ForkNoFiles`,
`Clone`, `Exec` and its two failures, `ExecTsh`, `ThreadExit`, `ExitGroup`, `Wait4`,
`Sleep`, `Kill`, `Sigaction`, `Sigprocmask`; waits are `…Turn`; `DispatchTail` and
`ToUser` are the end of `syscall_dispatch` with its signals and its yield;
`ProcessExit`, `LeaderTold` and the `Unwind…` actions are the way to
`process_end`. Three signals stand for the rest: one that kills and may be handled,
one that always kills, one ignored unless handled.

### Pty

`ptys` with its rings and line, the processes' descriptors, the call each thread is
in. Characters are classes (a letter, a space, a newline, each editing key, another
control character). `row` is what an emulator that draws what it reads has on the
current row (external: the program at the master), `sent` and `got` what was
written and read. Window sizes only pass through.

### Channels

Pipes with bytes that are the number of the write they came from, messages with
their descriptors and the place in the stream they belong to, sockets with their
backlog, each process's table, the call each thread is in. Each call of
`syscall.c` and `unix.c` on these is an action; `End` is a process that dies in the
middle of one. Callers are processes of one thread.

### SharedPages and OwnMemory

Page tables, promised file mappings (`maps`), share.c's counts and keys by frame,
free frames, what frames and the file hold, one memory file. `OwnMemory` is the
abstract specification: every process has pages that hold what it last put there,
a fork's child starts with its parent's, and only an object mapped `MAP_SHARED` is
everyone's. `MemoryIsOwn` says that SharedPages implements it, with the contents of
the frame an entry points to as the refinement mapping.

### Memory

The run list with its overflow to the loose chain, the chain, pages lent, pages
handed out. The operators `RunAdd`, `RunTake`, `Take`, `TakeBelow`, `Shrunk` are the
functions of `mem.c`, on a record of the allocator's state, so that an action is
one of the calls other code makes. The loops - draining the chain, asking for lines
back, cutting a stretch page by page - are functions from the number of turns, so that
they can be proved about.

### DiskCache

The cache's table of lines with its chains, growth and clock, the reads and writes
of `efi.c` that go through it, and the recent sectors of `fs.c` above them. Whether
memory is had and how far a disk transfer gets are choices.

### Fs

`disk` is what each sector says, `head` the header in memory, `files` what callers
were told. A call does not wait and so is one action, but it makes its writes one
`Put` at a time on a record that says at which of them the disk fails or the power
goes; a restart reads the disk again. After a call that failed the names it was about
are `harmed` and the behaviour ends: what is checked then is that nothing *else* was.
A name is a path, a hash a number, so that names share one.

### OpenFiles

Each process's table, `ofds[]`, the memory objects, the files as bytes at a place.
`handle_of` loads a shared position (`Picked`) and the end of the call writes it back
(`Synced`), so a call that waits in between (`Select`, `ReadWait`) holds an old one.
Each step inside a call is an operator from one world of these tables to the next;
loops over descriptors and slots (`ClosedAll`, `PickedAll`, `CopiedAll`, `KeptAll`)
are recursive functions over their numbers. `SetupOK` is what a setup must be.
`truth` is what programs count on. Where the code is known not to keep to it the call
notes an exception in `odd`, and the behaviour ends there (section 4).

### Tcp

`m` holds each host's `socks[]` and the segments on their way; functions of `stack.c`
are operators from one `m` to the next, as `tcp_input` on a segment that loops back
runs inside the send that made it. Sequence numbers wrap at `MOD`, a small power of
two for 2^32. The network loses, repeats and overtakes, and timers are early, within
`budget`. `calls` is the programs': the call each waits in, what it wrote and got.
Cards and timers are looked at in `net_poll` only: `Looks(h)` says when something calls
it on host `h`, one of the programs waiting there or some other (`looks` of the setup).

### Packages

The disk as a function from paths, the installed list, each package's list, dpkg's
status, and the command under way (`run`), whose steps are the code's writes: each
may fail, and the command be killed between any two. `hurt` are the packages a fault
or kill met half way; properties speak of the others.

### Screen, Console and Keyboard

`Screen` is `vga.c` on one record, with `picture` and `marks` for what the
framebuffer shows: the code keeps neither, and draws only what differs from `screen`.
`Keyboard` is the PS/2 and USB drivers and `input.c`: hardware holds codes and reports
until something looks for a key. `Console` extends both: a read is a step for each
key, and other threads write, lend, set and signal while it waits; the line editor
draws through Screen with the sequences it really writes.

## 3. The runs

Every run passes (each setup is a few hundred to a few hundred thousand states):

| Run | Bounds | Shows |
|---|---|---|
| `Processes_safe` | 3 threads, 3 process slots, 3 pids, a yield every 2 calls; 6 cases | `RunsInLive`; `MemoryTrue` (`MemoryThere`, `NoMemoryLeft`); `ParentsTrue` (`VforkParentWaits`, `ParentLives`); `NoIgnoredDeath` |
| `Processes_live` | 3 threads, 2 pids; 3 cases | `CarriedOn`; `KillEnds`, `WaitEnds`, `VforkEnds` under `FairSpec` |
| `Pty` | 1–2 terminals, 2 processes of 2 descriptors, lines of 3–4, rings of 1–16, up to 5 keys; 6 setups | `HandlesCounted`; `NothingLost` (`LineShown`, `WrittenIsDrawn`, `RawHoldsNothingBack`); `PromptKept`; `HangupEnds` |
| `Channels` | 1–4 pipes of 1–3 bytes, 0–2 sockets, backlog 1, 2 processes, up to 3 writes; 6 setups | `Counted`; `MessagesTrue` (`PacketsWhole`, `FdsWithBytes`); `WaitsEnd` |
| `SharedPages` | 3 frames, 3 spaces, 2 pages, a file of 1–2 pages; 4 setups; symmetry in frames and spaces (no liveness is checked) | `OnePlace`, `KeyTrue`, and the refinement `MemoryIsOwn` |
| `Memory` | 7–8 pages, lists of 2–3 runs; 3 machines | `PagesTrue` (`PagesOnce`, `FailsOnlyWhenFull`); `WorstLast` (`LostLast`, `KeepsOut`) |
| `DiskCache` | 3–7 sectors, lines of 1–2, table of 1 doubling to 2, 1–2 recent sectors, clocks wrapping at 2–3; 4 setups | `CountTrue` (with `FoundOnce`); `DataTrue` (`LineTrue`, `CopiesTrue`, `ReadTrue`) |
| `Fs` | 6–12 sectors of 1–2 bytes, 1–3 names, tables of 2 entries and indexes of 4 records that grow, a fault at each of the first 8 writes; 8 setups | `DiskSound` (`SectorsOnce`, `EndTrue`, `FreeTrue`, `IndexTrue`, `ListTrue`); `FilesTrue` |
| `OpenFiles` | 2 processes of 3 descriptors, 2–3 open files, 2 memory objects, files of up to 4 bytes, 5–6 calls; 8 setups | `OpenCounted`, `PositionsShared`, `BytesKept` |
| `Tcp` | 1–2 hosts of 2–3 sockets, streams of up to 4 bytes, buffers of 2–4, 2 losses or 1 repeat and 1 overtaking or 2 early timers, 1–3 tries, numbers that wrap at 32; 10 setups, in 4 of which only the programs themselves look at a card | `BytesTrue` (`StreamTrue`, `EndTrue`), `SocketsTrue`; `ReaderIsTold`, `OrphansGo` under `FairSpec` |
| `Packages` | 5 packages in 2 versions of the index, plans of 2–4, 3–5 commands, 2 faults; 5 setups | `FilesThere`, `NothingLeft`, `NeedsKept` |
| `Console` | screens of 3×2 to 6×6, lines of 7, 3 events waiting, 4–7 steps; 17 setups | `ScreenTrue`, `LineDrawn`, `LineRead`, `TypedTrue`, `EventsTrue` |

**Why the bounds are enough to be of interest.** Three threads are the fewest with
a leader, a thread of its own and one of another process at once; three pids a
shell's program, its child and a grandchild; a yield every two calls lets a thread
be switched away from before and after each of them. Process slots run out, so
`proc_new` forgets zombies. Rings are shorter than what is written, so writers wait
and are woken half way; the line is shorter than what is typed. Channels need two
pipes for a pair, a third to send over it and a fourth for the second side of a
connection. Three frames with three spaces let a page be in common, copied, and
wanted by a third when memory is out. The list of runs overflows, with its smallest
run above and below the floor; lines are bought, reused, given back and the table
grows; a disk's last line is partial; clocks wrap. On the small disk both the table
and the index have to move, and every gap is used; the descriptors, open files and
memory objects each run out; a stream is two to four segments, so that one can be
lost, repeated or overtaken with one before and one after it; the line wraps and
scrolls the screen, with the prompt at its top, middle and end. Bounds with no counterpart in the
code (`MaxPid`, `MaxTag`, `MaxTyped`, `MaxSent`, `MaxRoom`, `NFds`, `used`, `memory`,
`MaxPuts`, `MaxCalls`, `MaxSize`, `budget`, `commands`, `MaxSteps`, `MaxParam`, `WIRE`)
only cut behaviours short; each is named in its module.

**Deadlock** is checked for Pty, Memory and DiskCache. In the others a behaviour may
really stop: pids, writes, calls or steps run out by the bound, every process has
ended or waits for another's next call, or (Fs, OpenFiles) the last call met a
failure with which the behaviour ends.

**Fairness.** Processes has `WF_vars(Next)` alone: the processor goes on, and who
runs next is `next_one`'s round, which the model has. Pty and Channels have no
scheduler in them, so they assume of a thread that waits what that round gives it,
weak fairness of its `Turn` and of acting on a pending signal: every wait in those
files yields in its loop, and `thread_yield` goes round all live threads. Tcp assumes
it of waiting programs and, host by host, of the card and the timers while something
looks at them (`Looks`), as every turn of `sock_wait` calls `net_poll` and nothing else
takes in a segment or finds a timer due. Both may happen at any time, as a call may
look once and a close does for 200 ms, but nothing says they do on a host that nothing
looks at: in the setups with `looks = {}` only a program waiting in a call is sure to
keep its host going. What stands there is what weak fairness means, written out, so
that TLC need not work out `ENABLED`. Nothing is
assumed of programs: nobody has to make a call, wait in one, read, or close.

**Conditions in properties.** `LineShown` and `PromptKept` speak of an emulator that
keeps up (an echo that finds the ring full is dropped by the code on purpose);
`Counted` of Channels leaves aside the setup in which the pipe table has one slot
left (section 4); `KillEnds` stops short of a thread waiting for its vfork's child,
which nothing interrupts; `ReaderIsTold` asks that something looks at the far end's card, as otherwise nothing
there sends again what was lost; `OrphansGo` that something looks at the socket's own
host, and speaks of setups in which no window is ever
shut (`roomy`), as the stack has no timer for that; `FilesTrue` leaves out the names a
failed call was about; `FilesThere` and `NothingLeft` the packages a fault met half
way, and `NeedsKept` the behaviours with a fault; `PositionsShared` and `BytesKept`
end with an exception in `odd`; `LineDrawn` holds while nobody else writes and the
line fits the screen (`clean`); `TypedTrue` and `EventsTrue` name what a driver cannot
know (`same`, `over`, `cut`, `astray`), and `EventsTrue` leaves out a key whose last event
was pushed out of the queue, until its next one (`lost`).

## 4. Where the code and its comments part

What was met while modelling. The models have the code's behaviour; the passing runs
keep it out by a setup's `Does`, by a condition in the property, or by ending the
behaviour there (`odd`, `harmed`, `hurt`).

Where a comment says otherwise:

* `syscall.c:6224`: execve from a thread that is not the leader ends the leader
  without becoming one, and nobody is left to run `process_end` (against 5441). With
  `mtexec` in a case of `Processes_live`, TLC finds `CarriedOn` violated.
* `unix.c:436`: descriptors sent on a full non-blocking stream are queued, and closed
  by the failing `sendmsg` all the same (`passfull`).
* `vm.c:656`: after a fork, `MADV_DONTNEED` leaves private pages with what they held.
* `mem.c:289`: pages taken below a limit while the list of runs is full are put on
  the loose chain as well (`cutfull`).
* `efi.c:531`: a write that fails stays in the cache's line (`writefails` with
  `cache`).
* `fs.c:713`: a gap `allocate_gap` finds may reach past `data_end`, which stays where
  it is ("nothing has been put at or past this", 46): the next file gets the same
  sectors (`pastend`).
* `tuxpac.c:2389`: `-re` leaves a package that nothing needs any more, but removes
  what it depends on ("but for what other packages need", 6).
* `syscall.c:838`: `ofd_sync` frees the table that `files_grow` replaced, while another
  thread waits in a read with a pointer into it ("nobody is holding on to it now";
  `freed`).
* `syscall.c:605`, `616`: a fork before the first use of a descriptor to read gives two
  positions (`fresh`); the end of a `select` writes back a position that others have
  moved since (`waited`).
* `console.c:85`: a reader that ends in the middle of a line leaves the length of the
  line before it, so that the next reader is given bytes of the edit (`lost`).
* `vga.h:28`: a mode set to a size that `layout` refuses keeps the old grid on the new
  screen (`laid`).

In words, by module:

* *Processes.* `thread_end_others` starts at slot 1, so an execve from a second
  thread of a program the shell runs leaves slot 0's leader alive in the new
  program. `fork_on` returns at 5604 and 5625 without `proc_free`: a live entry with
  no thread (`nofiles`). `exit_group` by a second thread of a vfork's parent frees
  the memory its child runs in (5462, 5652). A SIGCHLD pending with a handler kills
  after execve resets the handler (6247, against 1470).
* *Pty.* A control character is echoed as two and rubbed out as one (`pty.c:119`,
  `106`; the runs' keys have none that stays in a line). A newline with one place
  left in the ring loses its line feed (272). A second Ctrl-D clears an end of file
  nobody has seen (171). A sibling thread can close the descriptor another waits on
  (189).
* *Channels.* `pair_new` with one slot left keeps it (`syscall.c:5126`; `lastslot`).
  A descriptor sent on a full stream is given out with the next writer's bytes
  (5253; `passfull`). A process killed inside `sendmsg` leaks its copies (5235;
  `killsender`). A pair's end sent over that pair is never freed (991). A writer on a
  full socketpair whose peer has closed waits for ever (1206), as does the reader of
  an empty packet (1054). `connect` forgets close-on-exec (`unix.c:239`).
* *SharedPages.* A disk error while a mapping is filled leaves zeroes (3078, against
  3033). `MAP_FIXED` of a file over pages already touched keeps the old bytes (3223,
  against 2841).
* *Fs.* An index that cannot grow (ENOSPC) leaves the entry it was made for, without
  a record (`growfull`). A rename on a full disk loses the file; it is not one step,
  and does not save the header. `place` goes on after a `put` that failed. `find`
  answers a disk error as if there were no such file, and a second entry is made.
  `fs_remove` drops a folder that is not empty when listing it fails. A `save_header`
  that fails leaves `free_head` and `data_end` ahead of the disk's.
* *OpenFiles.* With `ofds[]` full, copies do not share (`full`). `select` picks up a
  descriptor that another thread has closed. `O_APPEND` moves to the end at the open
  only. `sys_truncate` makes a file that is not there. Sizes, copies, memory and
  places that change under an open file are the other exceptions (`size`, `copies`,
  `nomem`, `place`, `shrink`, `named`, `renamed`).
* *Tcp.* A shut window has no timer: if the segment that opens it is lost, nobody
  asks again. `accept` and `send` go on after an interrupted wait, never EINTR;
  `connect` returns 0. An acknowledgment overtaken by a later one takes back the
  window. A reset is taken whatever its number. A socket that failed to connect keeps
  its tries for the next; the model connects once. A socket its program has closed is
  resent and freed only while something looks at the card: the 200 ms that `op_drop`
  waits (`stack.c:1415`) are shorter than the first resend's 1000 ms, so after one loss
  the far end waits until a program on this host calls into the network again.
* *Packages.* An upgrade leaves files and folders the new version has dropped, and
  a reinstall drops the links of alternatives from the list. `db_save` empties the
  file before it writes. A plan is not always in the order that what is depended on
  comes first (2143). What `want_missing` installed goes with the next removal. There
  is no lock. What `-re` takes with it goes without `prerm`, `postrm` or the scripts it
  keeps being dropped (`tuxpac.c:2389`).
* *Screen.* ESC c leaves a wrap held; ESC 8 before any ESC 7 gives black on black;
  "ESC[;5H" takes 5 for the row; sequences in captured output act on the real screen,
  and one begun before the capture and ended in it moves the cursor and leaves its bar
  (`vga.c:1180`, against the comment of 1195: "the cursor drawn where it was has to go
  with it"; with `Setups <- {CaptureMoves}` TLC finds `ScreenTrue` violated in four
  steps);
  a mode the firmware changes and changes back is not noticed.
* *Console.* Another thread's `interrupt_check` takes a typed signal and the line
  stays. Ctrl-\ after three Ctrl-C takes the place of the forced end. A key's
  sequence is cut where the queue is full.
* *Keyboard.* Both shifts, and both Ctrls, are one flag on PS/2: letting go of one
  lets go of both (`same`). A USB report of too many keys is kept as if it were
  keys, so those let go meanwhile stay down, and held ones are typed again (`over`).
  When a program is slow to read, the oldest events go, whatever they are and with no
  word of it (`input.c:43`): one that has read a key's press and misses its release
  takes it to be down until its next event.

## 5. What is proved

TLAPS checks the modules named `…Proofs` and `Lemmas`, what these need of numbers, sequences and functions defined
from one number to the next. What they state holds for every value of the
constants, from the named
assumptions in the modules only (`ConstantsAssumption`, `PageConstants`,
`PtyConstants`, `MemoryConstants`, `DiskCacheConstants`, `SetupsAssumption` of
OpenFiles and of Screen, `NamesAssumption`), which say
that tables have a size, that pages are asked for by the number, that sets that are tables are finite, that a frame is
not a value, that the file table is on the disk, that files begin within the
bound on their size, that screens and fonts are at least a pixel each way and
the first mode holds the least grid, that names are text and that as much is read as a number says. Every invariant below was first checked by TLC as an invariant of its
run's instances.

**Threads and processes** (`ProcessesProofs`), for every number of threads, processes and pids, every yield interval and every set
of cases:

* `TypeCorrect`: `Spec => []TypeOK`. `TypeOK` is not inductive: a step made for
  `procs[Me]` needs the current thread to have a process. `TInv` adds that every
  thread that is neither free nor the shell's is seated in one (`Seated`). One lemma
  per operation on the tables, one per action.
* `NoThreadOutlives`: `Spec => []RunsInLive`, if no case has `tsh`.
* `LiveIsCarriedOn`: `Spec => []CarriedOn`, if moreover no case has `mtexec` or
  `nofiles`: section 4 says what happens with the first; the second is the fork that
  returns half way.
* `ParentsAreThere`: `Spec => []ParentsTrue`, and `MemoryIsThere`: `Spec =>
  []MemoryTrue`, if no case has `tsh`, nor `thread` together with `vfork`
  (`LendsAlone`): section 4's `exit_group` by a second thread of a vfork's parent is
  what the last leaves out.
* `IgnoredEndsNobody`: `Spec => []NoIgnoredDeath`, if no case has `exec` together
  with `sigaction` (`HandlersStay`; again section 4).

`NoThreadOutlives` and `LiveIsCarriedOn` follow from `SInv`, and each part of it is
there because another step needs it: `Shape` (slot 0 is the shell or the leader of
its program; other slots are a process's first thread, which is its leader, or one
it made), without which one cannot say which frame an unwinding thread reaches;
`OneLeader`, so that only one thread ends a process; `InLive`, the goal itself;
`Fresh` (pids not yet given out are nobody's), so that a new process has no old
threads; `Led` (under `KeepsLeaders`, every live process has a leader);
`UnwindsAlone` (who unwinds is running, and a leader that does is alone in its
process), which makes `process_end` safe and holds because a leader waits in `join`
for the others; and `Al(thr, cur)`, that the thread with the processor has not
ended, from `next_one` always finding slot 0. The excluded case, a shell inside a
process's thread, nests processes on one stack to any depth: there the argument is
an induction over that stack, and TLC checks it (`Processes_safe`, third case).

The memory theorems add `Family` to `SInv`. `Kin`: a child's parent lives, and has a
smaller pid. `Lent`: a process in lent memory has the space its parent has, and a
thread of its parent is in `vfork` for it; `Waiters` is the converse, that who is in
`vfork` has such a child. `Homes`: who runs is in lent memory or in a space of its
own that exists; `Owners`: a space is its live owner's. `Alone` (where memory is
lent threads are alone in their processes, and none has been told to exit) is what
keeps a waiting parent from being ended by another of its threads, and `ShellsOwn`
(what the shell runs is nobody's child) what lets `program_start` free its process.
That memory is there is then one step of a descent: of the processes in one lent
space take the one with the smallest pid; its parent has a smaller pid, runs - it
waits - and is in the same space, so it has not borrowed it, and `Homes` says that
the space exists. `IgnoredEndsNobody` needs none of this: no SIGCHLD is pending
where it has the default action (`Heeded`), and no thread has it for a code.

**Address spaces** (`SharedPagesProofs`), for every finite set of
spaces, every number of pages, frames and file pages, and every mix of what programs
do:

* `MemorySound`: the inductive invariant; `PageTypes`, `KeysAreTrue` (`Spec =>
  []KeyTrue`) and `PagesHaveOnePlace` (`Spec => []OnePlace`) follow from it.
  `OnePlace` counts with `Cardinality`, so the argument is about how one step
  changes a set: `CountStep` says that when only some pages of one space change, a
  frame's count changes by what those pages had of it and what they have now, and
  each of fault, unmap, fork, exit, adopt and their failures is one use of it. What
  the count alone does not give are separate parts: a page that is a process's own
  is nobody else's and is not counted (`OwnAlone`), a free one is in no table
  (`FreeUnheld`), none is lost (`NoneLost`), a memory file's page is in no cache of
  file pages and never copied on a write (`KindsApart`), two pages of an object are
  two frames (`ObjectApart`), and a space that is gone has no pages (`GoneEmpty`). A
  frame with a key must hold what the file does (`KeyTrue`): that a page is written
  in place only when its last holder has taken its key off is the case split of the
  write fault.
* `MemoryIsTheirOwn`: `Spec => MemoryIsOwn`, the refinement. `See` is what an entry
  shows - nothing, the screen, the object's name, or what its frame holds. One lemma
  per abstract action (`AsTouch`, `AsWrite`, `AsForget`, `AsShare`, `AsWriteShared`,
  `AsFork`, `AsExit`, `AsNothing`) says which changes of what is seen amount to it,
  and one per action of SharedPages says which changes it makes: a write fault that
  copies shows nobody anything, one that writes in place is safe as `OwnAlone` and
  the count say that nobody else has the frame, and a fork shows the child what its
  parent sees since both point to the same frames.

**Pseudo-terminals** (`PtyProofs`), for every number of processes, descriptors and
terminals, every length of line and queue, and whatever is typed, written and set:

* `EndsAreCounted`: `Spec => []HandlesCounted`. It is inductive with two parts more,
  in `PtyInv`. A call that waits is on a descriptor its process still has
  (`CallsTrue`): what it does on its next turn is then to a terminal that is in use,
  and a fork's child, which has no descriptors yet, cannot be in a call. And a
  terminal whose counts are zero is as it was at first in every field
  (`EmptyIsNone`), so that being free is a matter of the counts. Steps are of two
  kinds. Those that leave the tables alone keep both counts of a terminal in use
  (`Tended`); there the line discipline is what has to be shown safe, one lemma per
  function of it (`EchoKeeps`, `EraseKeeps`, `LineDoneKeeps`, `InputKeeps`, ...). The
  others change one process's table, by one descriptor or as a whole: `TableMove`
  says what that does to the number of descriptors on an end, `HeldFollows` and
  `DropsFollow` that `pty_hold` and `pty_drop` do the same to the counts, so that no
  count is ever less than what is taken from it. That what a write becomes on its
  way out (`FlattenSeq`, a recursive function) is a sequence of characters for every
  length is `FlattenType`, by the least place at which it is not.

* `LinesKept`: `Spec => []NothingLost`, and `PromptsKept`: `Spec => PromptKept`, in the
  terminals that `Plain` tells, which all of the run's are. `Plain` keeps out what
  section 4 says is so: a control character that stays in a line (`bell` is the only
  one that does), where keys are followed on the screen, and a newline written, where
  writes are; it also asks that a cooked terminal echoes and rubs out what is typed
  (what it does not show cannot be shown), and that only one of the two writes. TLC finds
  `NothingLost` violated if either of the first two is left out. The invariant is
  `LineInv`: `PtyInv`, no line in a raw terminal (`RawEmpty`), the line at the end of what
  the row will be once all that is on its way has been drawn (`Edits`), what masters have
  read and what is in the queue together what was sent (`Wrote`), and a waiting writer's
  rest made of what it may write. A step takes each terminal to one that `Goes` on from
  it: a part of the row before the line is kept, or the row is new (`Follows`).
  Most steps leave lines and rows alone (`Alike`); a read moves characters from the queue
  to the row, which is the same row in the end (`ShowsMore`: drawing one text and then
  another is drawing both); a key is one lemma per function again (`ClearsMoves`,
  `EraseMoves`, `GatherMoves`), where rubbing out k characters is shown to take k from
  the row and no more (`ShowsRub`); a write puts out no more than fits (`PutsFit`), so
  that the order of what is sent is that of what is read. `Drawing` has drawing, a fold, as
  the rows there are on the way, for which the induction is by a least number.

**The page allocator** (`MemoryProofs`), for every number of pages, room in the list of
runs (two at least), filling of the chain, length of a line, and whatever sizes are asked
for, lent, asked back, read again and given back in any order:

* `PagesAreOnce`: `Spec => []PagesTrue`, if no machine has `cutfull` (section 4). `MemInv`
  says it with sets: the list is in order (`Split`), and what is in the runs, on the
  chain, lost and lent (`Kept`) is disjoint, disjoint from what is held, and together
  with that all there is. Nothing has to be counted: a page that two calls could give
  away would be in two of these. Each function of `mem.c` then has one lemma that says
  which pages it moves, whatever state it is called in, since they are called in the
  middle of one another: `Grown(g, m, S)` (the allocator has the pages of S more;
  `RunAddGood`, `LoosenGood`, `PagesFreeGood`), `Fewer` (`TakeTopGood`, `HeadOff`),
  `Conserved` (`FilledGood`, `DrainedGood`), `Returned` (`ShrunkGood`, `AgainGood`) and
  `Hands`, what a call that hands pages out amounts to (`MemPagesGood`, `LentGood`,
  `TakeBelowGood`). Below them is the list: a run made longer, cut, put in or taken out
  leaves it in order, since `Around` says where the neighbours of a stretch that is in
  no run can be. The hard case of `run_add` is the full list, where another run is let
  go of, to the chain and the lost pages, before the new one goes in (`SwapGood`).

  A stretch cut below a limit (`CutOutGood`) is cut a page at a time, and each cut may
  put the rest of its run back. The pages still to come must not go anywhere else
  meanwhile: they do not if the list has room at the first cut, for after it the page
  before is no longer in a run and the rest begins where the cut ended. This is where
  the condition comes from, and with the list full the code has the error of section 4.

  That `mem_pages` fails only when it must (`FailsOnlyWhenFull`) is `NoneFits`, what
  `take` has found when it gives up, and `StretchInOne`: a stretch of free pages is in
  one run, as no two runs touch.
* `KernelGoesLowLast`: `Spec => [][KeepsOut]_vars`, one half of `WorstLast`, under the same
  condition: `mem_pages` ends its loop on pages above the gigabyte or with nothing lent.

The other half, `LostLast`, that a page is lost only when nothing could go to the chain,
is only model-checked. It is about the state before the call, and on a machine whose memory
ends below the gigabyte, where lines of the disk cache are low pages too, one call may
fill the list with one line and lose the next: no machine of the run is like that.

**The disk cache** (`DiskCacheProofs`), for every disk, length of a line, number of
lines the table begins with and grows to, size set, clock, and whatever fails:

* `LinesAreCounted`: `Spec => []CountTrue`. `Sound` says of a cache, between calls
  and inside them, that its lines with sectors are on the chains they should be on
  and no others are (`Chained`), and that memory is counted. The lines are taken as
  a set: `Chained(x, J)` is about any set J of lines, so that hooking one in and
  taking one off (`HookIs`, `UnhookIs`) can be said of a cache that is half way, as
  the doubled table is while its lines are hooked again one by one (`DoubledIs`).
  The sizes need the order of things in `slot`: `may_grow` before a line is bought
  (`Within`), and everything given back before the cache is off (`Empty`).
* `CopiesAreTrue`: `Spec => [](WritesLand => DataTrue)`, where no setup has both
  `cache` and `writefails` (section 4). A read is a loop over lines, each turn of
  which may buy a line, use the oldest again or double the table: `Good` is its loop
  invariant, kept by each turn whatever fails (`ReadTurnGood`), and `ReadsAre` that it
  ends with at least one sector, the disk's. What a write does to the lines
  (`WrittenIs`) rests on each sector being in the one line that begins at `LineOf` it,
  which is where `cache_written` looks. Of the filesystem's sectors, a write keeps
  true what it forgets (`PutIs`), and the one in hand is of its sector or of none
  (`ChangedIs`, `ScratchIs`, `PastIs`).

  The loops are recursive functions: `Recursion` of Lemmas says that a function
  defined from one number to the next exists, if each step has a set its value stays
  in, and `Climbing` that what holds of the first and passes on holds of them all.

**Open files** (`OpenFilesProofs`), for every number of processes, descriptors,
slots, memory objects and names:

* `OpenFilesAreCounted`: `Spec => []OpenCounted`. `OpenInv` adds to it what the steps
  need: that nobody without a table has descriptors and nobody has looked at one it
  does not have (`Quiet`), that a descriptor that is none is of no slot, what a
  descriptor on its way is (`PassingOK`), and that files are within the bound on
  their size (`DiskOK`). A call takes several steps, and between them the counts are
  out: a slot is given before a table names it, and given back after. So the counts
  are stated of any world and of what holds things besides the tables:
  `Good(w, P, x, y)` says that slot i has x[i] holders more than the tables show,
  and memory object m has y[m] more than the slots show, where the processes of P are
  in the middle of a call. Between calls x is what is being passed (`Outside`) and y
  is `Zero`. One lemma per operation says how it moves x and y
  (`HasGood`, `SlotGood`, `MemGood`, then `DroppedGood`, `ClosedGood`, `GivenGood`, ...
  from them); the calls chain these, the loops by the same `Recursion` and `Climbing` as the disk cache's. The hardest are
  `unlinked_open`, where a deleted file's memory is given to slots of several
  processes at once (`Viewed`), counted as the set of those slots, and a fork, which
  holds every slot of the table once for each descriptor of it.
* `PositionsAreShared`: `Spec => []PositionsShared`. The invariant added to `OpenInv`
  is `PosInv`: until one of the property's four exceptions is met, the places a descriptor may be in - every
  table, and on its way - are `Whole`: a descriptor of an opening has a slot, or is open for
  reading and was never looked at (`Proper`); two of an opening have the same slot, and
  two of a slot the same opening (`Tied`); and the slot, or the descriptor that has none,
  is where the opening is (`RightAt`). None of it holds in the middle of a call, where what
  the caller loaded with `file_load` has moved and its slot has not, until `ofd_sync`. So there are two
  statements of a world in a call of p: `Fair`, that every place is `Whole` and what p has
  loaded since the call began agrees with it, which looks, copies, closes and gives keep (`PickedFair`,
  `ClosedFair`, `GivenFair`, ...); and `Lands`, that what is loaded is right, and a slot
  is or is about to be written back from it, from which `SyncedHeld` has `Whole` again.
  A call that moves an opening goes from one to the other by `MovedPos`; one that moves
  nothing by `QuietStill`. A look that gives a descriptor its first slot is where
  `fresh` and `full` come in: `Ready` says when it may be copied. A new opening's
  number is nobody's, and its slot free, so it is tied to nothing (`GivenNew`).

**The screen and the console** (`ConsoleProofs`), for every screen, font, scale and mode,
every text, and lines, histories and names of any length:

* `ScreenTheorem`: `Spec => []ScreenTrue`, if every setup is `Calm`: what section 4 says
  of captured output is what it leaves out, and one that captures output neither reads
  lines nor writes a letter that ends a sequence that moves. The invariant is `Stands`.
  Of the screen it says `Steady`: where the console has one, it is `Whole` - the grid of
  the size the mode and the font make, the cursor, the region and a pending wrap in it
  (`Good`), the colour the pen's, turned round where it is reversed, and `Marked`: the framebuffer
  shows each cell as it is held, and the bar at the cursor only. That is not so in the
  middle of a character: the bar is taken away, cells change, the bar is drawn again, and
  so there is one lemma per function of `vga.c` which says what it does to a screen with
  the bar anywhere (`Prints`, `Goads`, `Frame`), and `PutcWhole` puts them together. The loops over cells and rows
  are recursive functions, with `Recursion` and `Climbing` again.

  Of the console it says `Line` and `Asking`: the line is text and the cursor in it, the
  line recalled one of the history. This is what lets a key draw: each edit appends text
  or a move to what is to be drawn (`Told`, `Said`), each lemma `…Edits` is one edit of
  `console.c`, and `AllDrawnPlainer` that drawing it leaves the screen whole, whatever
  sequences the move becomes - `Steps` may name any row and column, and `escaped` takes
  only what is on the screen.
* `ReadTheorem`: `Spec => []LineRead`, of any setup. The invariant is `Owed`: while a line is
  edited nothing of it has been handed out, and otherwise what was is the beginning of
  the line entered, which is still in `line` (`HandedOut`), where no thread was ended
  in the middle of one (`lost`). Each edit leaves `ready`, `handed` and the reader alone
  (`Edited`), and none of it depends on the screen.

**Only model-checked**: all liveness, `BytesKept` of OpenFiles
(what a file's bytes are, by name, slot or memory), `LostLast` of Memory, and
`LineDrawn` of Console (which characters the screen shows, not only that it shows what is
held), and everything about Channels, Fs, Tcp, Packages and Keyboard. Out of the
prover's reach altogether are liveness under fairness and `ENABLED`; what folds over
chains, runs and rings compute is where induction is wanted, which is had only by way
of a least number (`Least`), for functions of one.

## 6. Not modelled, and what is next

Left out of modelled parts: symbolic and relative paths, directories, devices and
`/proc` files in OpenFiles, and the bytes a reader gets after its file has moved;
UDP, ARP, DHCP, DNS and reassembly in the network stack; decompression, fetching and
the parsing of indexes, what scripts do and certificates in the package manager;
glyphs, readers at the same time, bytes beyond ASCII typed at a line, and lines
longer than the screen in the console; the PS/2 controller's start and overrun,
mouse movement, a key held on two keyboards and keyboards that come and go.

Not modelled, in order of what would be worth it:

1. **Futex** (`syscall.c:3440-3680`, `thread_sleep_on` and wake): no wake is lost
   between the check and the sleep, a timeout racing a wake, requeue, a thread's
   end waking its joiner. Composes with the thread table of Processes. To prove: a
   thread on a queue is on one.
2. **Modules** (`module.c`): load and unload with users and symbols; no code is run
   once unloaded.
3. **Memory with DiskCache**: the shrink callback as one composition, in place of
   the list of lent lines in Memory; **Fs over DiskCache** in the same way.
4. **Xhci** rings with their cycle bits.

Disk and network drivers talk to hardware whose behaviour is not in the repository;
boot, fonts, tracing, `/proc` and the Linux structures are straight-line code.

Proofs worth having next: `Counted` of Channels, a count again; `BytesKept` of
OpenFiles, which needs `PosInv`, that a slot's name or memory is its opening's file, and
folds over what was written.

## 7. Checking

In this directory, `tlc -config <run>.cfg <module>` for each run of `PROJECT.json`
(the module is the `…MC` one where there is one, `Processes` otherwise;
`Console` runs Screen and Keyboard too), and
`tlapm` for each of `ProcessesProofs`, `SharedPagesProofs`, `MemoryProofs`, `PtyProofs`,
`DiskCacheProofs`, `OpenFilesProofs`, `ConsoleProofs` and `Lemmas`
(each checks its own file only; the longest takes about a quarter of an hour). Every property of a passing run has a mutant there: a
definition of the model with a plausible slip (`\* Mutant:` in the modules), under
which TLC finds the property violated.
