------------------------------ MODULE OpenFiles ------------------------------
(***************************************************************************)
(* Open files (kernel/syscall.c): each process's table of descriptors, the *)
(* positions and sizes that the copies of a descriptor share (struct ofd), *)
(* and the memory a file is kept in once it has no name (struct mobj).     *)
(*                                                                         *)
(* A call loads the shared position into each descriptor it picks up       *)
(* (handle_of) and the end of the call writes it back (ofd_sync); a call   *)
(* that does not wait is one action.  What a name's bytes are on the disk  *)
(* is Fs's; here a file is its bytes and the place they are in.            *)
(*                                                                         *)
(* `truth' is what programs count on, and no part of the machine: which    *)
(* opening each descriptor is of, where it is, and the bytes of its file.  *)
(***************************************************************************)
EXTENDS Integers, Sequences, FiniteSets, SequencesExt, FiniteSetsExt

CONSTANT Setups   \* the machines, and what programs do on each: see SetupOK

(***************************************************************************)
(* Of a setup: Procs, the processes, of which `first' runs to begin with;  *)
(* PROGRAM_FILES and FIRST_FILES, the most descriptors of one and those    *)
(* its first table has; OFDS; Mems, memory objects there is memory for;    *)
(* PAGE, bytes of a page; Names; Sizes, of what is written, read and       *)
(* truncated to; Vals, the bytes written; Hows, how files are opened for   *)
(* writing; Ats and Seeks, where is read and written, and moved to;        *)
(* MaxSize, the bound on a file; Does, the calls made; MaxCalls, the bound *)
(* on how many.                                                            *)
(***************************************************************************)
VARIABLES
  setup,
  tables,    \* proc->files
  room,      \* proc->files_room
  touched,   \* proc->ofd_touched
  ofds,      \* ofds[]
  mems,      \* the memory objects
  disk,      \* the file of each name
  passing,   \* descriptors sent and not received, oldest first
  waiting,   \* a thread of each process in a call that waits
  truth,     \* see above
  odd,       \* which of the known exceptions the last call met, with which a behaviour ends
  left       \* calls that are still to be made

vars == <<setup, tables, room, touched, ofds, mems, disk, passing, waiting, truth, odd, left>>

Procs == setup.Procs
PROGRAM_FILES == setup.PROGRAM_FILES
Fds == 0 .. PROGRAM_FILES - 1
OFDS == setup.OFDS
Mems == setup.Mems
PAGE == setup.PAGE
MaxSize == setup.MaxSize
Does == setup.Does

NoName == ""
BeginsFit(s) == \A n \in DOMAIN s.begin : Len(s.begin[n]) \in 0 .. s.MaxSize
SetupOK(s) ==
  /\ IsFiniteSet(s.Procs) /\ s.PROGRAM_FILES \in Nat \ {0} /\ s.FIRST_FILES \in Nat \ {0} /\ s.OFDS \in Nat
  /\ s.Mems \subseteq Nat \ {0} /\ NoName \notin s.Names /\ s.Sizes \union s.Ats \subseteq Nat
  /\ s.MaxSize \in Nat /\ BeginsFit(s)
ASSUME SetupsAssumption == \A s \in Setups : SetupOK(s)

Handle(kind, ofd, offset, size, start, cloexec, id) ==
  [kind |-> kind, ofd |-> ofd, offset |-> offset, size |-> size, start |-> start, cloexec |-> cloexec, id |-> id]
NoHandle == Handle("none", 0, 0, 0, 0, FALSE, 0)
Pipe == Handle("pipe", 0, 0, 0, 0, FALSE, 0)
NoOfd == [refs |-> 0, offset |-> 0, size |-> 0, mem |-> 0, name |-> NoName]
NoMem == [refs |-> 0, pages |-> {}, data |-> [i \in 0 .. MaxSize - 1 |-> 0]]
NoFile == [there |-> FALSE, start |-> 0, bytes |-> <<>>]
EmptyFile == [there |-> TRUE, start |-> 0, bytes |-> <<>>]
NotWaiting == [call |-> "none", room |-> 0]

----------------------------------------------------------------------------
(* The world a call works on: the four tables, as one record.              *)

World == [tables |-> tables, touched |-> touched, ofds |-> ofds, mems |-> mems]

Becomes(w) ==
  /\ tables' = w.tables /\ touched' = w.touched /\ ofds' = w.ofds /\ mems' = w.mems

Used(w, p) == {fd \in Fds : w.tables[p][fd].kind # "none"}
H(w, p, fd) == w.tables[p][fd]
OfdKind(h) == h.kind \in {"read", "write"}
FreeOfds(w) == {i \in 1 .. OFDS : w.ofds[i].refs = 0}
FreeMems(w) == {m \in Mems : w.mems[m].refs = 0}

\* The world with one of these made another.
Has(w, p, fd, h) == [w EXCEPT !.tables[p][fd] = h]
Looked(w, p, S) == [w EXCEPT !.touched[p] = S]
SlotIs(w, i, o) == [w EXCEPT !.ofds[i] = o]
MemIs(w, m, o) == [w EXCEPT !.mems[m] = o]

\* A free slot given; what a caller finds there is what it is given.
Opened(w, i, offset, size, mem, name) ==
  SlotIs(w, i, [refs |-> 1, offset |-> offset, size |-> size, mem |-> mem, name |-> name])

\* handle_of: an open file's slot given it at the first look, if there is one, and its
\* position loaded at the first look of a call.
Fresh(w, h) == h.ofd = 0 /\ OfdKind(h) /\ FreeOfds(w) # {}
Slotted(w, p, fd) ==
  LET h == H(w, p, fd)
      slot == Min(FreeOfds(w))
  IN IF Fresh(w, h) THEN Has(Opened(w, slot, h.offset, h.size, 0, NoName), p, fd, [h EXCEPT !.ofd = slot]) ELSE w
Picked(w, p, fd) ==
  LET g == Slotted(w, p, fd)
      h == H(g, p, fd)
      o == g.ofds[h.ofd]
  IN IF h.ofd = 0 \/ fd \in g.touched[p] THEN g
     ELSE Looked(Has(g, p, fd, [h EXCEPT !.offset = o.offset, !.size = o.size]), p, g.touched[p] \union {fd})

\* Mutant: what the call moved is not written back.
NotSynced(w, p) == Looked(w, p, {})

\* ofd_sync, at the end of a call: the descriptors in turn, so the highest has the say.
Back(w, p, i) == {fd \in w.touched[p] : H(w, p, fd).kind # "none" /\ H(w, p, fd).ofd = i}
SyncedOfd(w, p, i) ==
  LET h == H(w, p, Max(Back(w, p, i)))
  IN IF Back(w, p, i) = {} THEN w.ofds[i] ELSE [w.ofds[i] EXCEPT !.offset = h.offset, !.size = h.size]
Synced(w, p) == Looked([w EXCEPT !.ofds = [i \in 1 .. OFDS |-> SyncedOfd(w, p, i)]], p, {})

\* mobj_free: one open file fewer has the memory.
MemDropped(w, m) ==
  IF m = 0 THEN w
  ELSE MemIs(w, m, IF w.mems[m].refs = 1 THEN NoMem ELSE [w.mems[m] EXCEPT !.refs = @ - 1])

OfdHeld(w, h) == IF h.ofd = 0 THEN w ELSE SlotIs(w, h.ofd, [w.ofds[h.ofd] EXCEPT !.refs = @ + 1])

OfdDropped(w, h) ==
  LET o == w.ofds[h.ofd]
  IN IF h.ofd = 0 \/ o.refs = 0 THEN w
     ELSE IF o.refs > 1 THEN SlotIs(w, h.ofd, [o EXCEPT !.refs = @ - 1])
     ELSE MemDropped(SlotIs(w, h.ofd, NoOfd), o.mem)

\* A copy of h made where p has nothing.
Copied(w, p, fd, h) == OfdHeld(Has(w, p, fd, h), h)

\* sys_close.
Closed(w, p, fd) ==
  LET g == Picked(w, p, fd) IN OfdDropped(Has(g, p, fd, NoHandle), H(g, p, fd))

\* The descriptors of S closed, or looked at, in turn.
ClosedAll(w, p, S) ==
  LET after[n \in 0 .. PROGRAM_FILES] ==
        IF n = 0 THEN w ELSE IF n - 1 \in S THEN Closed(after[n - 1], p, n - 1) ELSE after[n - 1]
  IN after[PROGRAM_FILES]
PickedAll(w, p, S) ==
  LET after[n \in 0 .. PROGRAM_FILES] ==
        IF n = 0 THEN w ELSE IF n - 1 \in S THEN Picked(after[n - 1], p, n - 1) ELSE after[n - 1]
  IN after[PROGRAM_FILES]

\* give_handle: the lowest free descriptor, -1 (EMFILE) for none.
Lowest(w, p) == IF Used(w, p) = Fds THEN -1 ELSE Min(Fds \ Used(w, p))
Given(w, p, h) ==
  IF Lowest(w, p) = -1 THEN OfdDropped(w, h)
  ELSE Has(w, p, Lowest(w, p), h)

\* The room a table that holds descriptor fd has (files_grow doubles it).
RoomWith(r, fd) ==
  IF fd < r THEN r ELSE Min({PROGRAM_FILES} \union {n \in {2 * r, 4 * r, 8 * r} : fd < n})

----------------------------------------------------------------------------
(* What a descriptor's bytes are.                                          *)

Ofd(w, h) == IF h.ofd = 0 THEN NoOfd ELSE w.ofds[h.ofd]
MemBacked(w, h) ==
  h.kind = "mem" \/ (h.kind = "write" /\ h.ofd # 0 /\ Ofd(w, h).name = NoName /\ Ofd(w, h).mem # 0)
WriteName(w, h) == Ofd(w, h).name

\* The position and size a look at h would find.
Now(w, p, fd) ==
  LET h == H(w, p, fd)
  IN IF h.ofd = 0 \/ fd \in w.touched[p] THEN [offset |-> h.offset, size |-> h.size]
     ELSE [offset |-> w.ofds[h.ofd].offset, size |-> w.ofds[h.ofd].size]

MemBytes(w, m, size) == [i \in 1 .. size |-> w.mems[m].data[i - 1]]

\* The bytes with `said' put at offset, zeroes before it where there were none.
Overlaid(bytes, offset, said) ==
  [i \in 1 .. Max({Len(bytes), offset + Len(said)}) |->
     IF i \in offset + 1 .. offset + Len(said) THEN said[i - offset]
     ELSE IF i <= Len(bytes) THEN bytes[i] ELSE 0]
Cut(bytes, size) == [i \in 1 .. size |-> IF i <= Len(bytes) THEN bytes[i] ELSE 0]

\* mem_io, in: the pages made as they are reached.
MemPut(w, m, offset, said) ==
  LET o == w.mems[m]
      to == offset .. offset + Len(said) - 1
  IN MemIs(w, m, [refs |-> o.refs, pages |-> o.pages \union {i \div PAGE : i \in to},
                  data |-> [i \in DOMAIN o.data |-> IF i \in to THEN said[i - offset + 1] ELSE o.data[i]]])

\* fs_write_at, fs_write: the bytes, where they were or somewhere no file is.
Places == 1 .. Cardinality(setup.Names) + 1
Taken == {disk[n].start : n \in setup.Names}
MayBeAt(name, bytes) ==
  IF bytes = <<>> THEN {0}
  ELSE IF Len(bytes) <= Len(disk[name].bytes) THEN {disk[name].start}
  ELSE {disk[name].start, Min(Places \ Taken)} \ {0}

OnDisk(name, bytes) ==
  \E s \in MayBeAt(name, bytes) : disk' = [disk EXCEPT ![name] = [there |-> TRUE, start |-> s, bytes |-> bytes]]

----------------------------------------------------------------------------
(* The truth.                                                              *)

Ids == 1 .. Cardinality(Procs) * PROGRAM_FILES + 2
IdsUsed(w, q) == {w.tables[p][fd].id : p \in Procs, fd \in Fds} \union {q[i].id : i \in 1 .. Len(q)}
NewId == Min(Ids \ IdsUsed(World, passing))
NodesUsed == {truth.names[n] : n \in setup.Names} \union {truth.node[i] : i \in IdsUsed(World, passing) \ {0}}
NewNode == Min((1 .. Cardinality(Ids) + Cardinality(setup.Names)) \ NodesUsed)

\* Forgotten ones are put back as they were: nothing reads them.
Tidy(t, w, q) ==
  LET ids == IdsUsed(w, q) \ {0}
      nodes == ({t.names[n] : n \in setup.Names} \union {t.node[i] : i \in ids}) \ {0}
  IN [t EXCEPT !.pos = [i \in Ids |-> IF i \in ids THEN @[i] ELSE 0],
               !.node = [i \in Ids |-> IF i \in ids THEN @[i] ELSE 0],
               !.bytes = [n \in DOMAIN @ |-> IF n \in nodes THEN @[n] ELSE <<>>]]

BytesOf(id) == truth.bytes[truth.node[id]]

\* A call of p ends: w written back, unless a call that waits had loaded what has since moved.
Ends(p, w, t, met) ==
  LET s == Synced(w, p)
  IN /\ Becomes(s)
     /\ truth' = Tidy(t, s, passing')
     /\ odd' = met
                 \union (IF \E fd \in touched[p] : H(w, p, fd).kind # "none" /\ H(w, p, fd).id # 0
                                                    /\ H(w, p, fd).offset # t.pos[H(w, p, fd).id]
                         THEN {"waited"} ELSE {})

\* files_grow keeps the old table for whoever is still in it; the end of the call frees it.
Done(p, w, t, met) ==
  /\ Ends(p, w, t, met)
  /\ room' = [room EXCEPT ![p] = RoomWith(@, Max(Used(w, p) \union {0}))]

Same == UNCHANGED <<setup, waiting>>
If(cond, what) == IF cond THEN {what} ELSE {}

----------------------------------------------------------------------------
(* Opening.  Each ends with p's call done; q is what is being passed.      *)

Calls(p, what) == what \in Does /\ room[p] > 0 /\ (waiting[p].call = "none" \/ "threads" \in Does)

\* A device, the terminal, a pipe or a folder: a descriptor with no position to share.
OpenOther(p) ==
  /\ Calls(p, "openother")
  /\ UNCHANGED <<disk, passing>> /\ Same
  /\ Done(p, Given(World, p, Pipe), truth, {})

\* What open_name makes for reading: no slot of its own until it is looked at.
OpenRead(p, name, cloexec) ==
  LET h == Handle("read", 0, 0, Len(disk[name].bytes), disk[name].start, cloexec, NewId)
      g == Given(World, p, h)
      \* with_cloexec looks at what it was given.
      w == IF cloexec /\ Lowest(World, p) # -1 THEN Picked(g, p, Lowest(World, p)) ELSE g
  IN /\ Calls(p, "openread") /\ disk[name].there
     /\ UNCHANGED <<disk, passing>> /\ Same
     /\ Done(p, w, [truth EXCEPT !.pos[NewId] = 0, !.node[NewId] = truth.names[name]], {})

\* For writing: made if it is to be, emptied if it is to be, and the name kept.
OpenWrite(p, name, how) ==
  LET new == ~disk[name].there
      empty == new \/ how = "trunc"
      bytes == IF empty THEN <<>> ELSE disk[name].bytes
      node == IF new THEN NewNode ELSE truth.names[name]
      offset == IF how = "append" THEN Len(bytes) ELSE 0
      slot == Min(FreeOfds(World))
      h == Handle("write", slot, offset, Len(bytes), 0, FALSE, NewId)
      t == [truth EXCEPT !.names[name] = node, !.bytes[node] = bytes]
  IN /\ Calls(p, "openwrite") /\ FreeOfds(World) # {}         \* ENFILE
     /\ how = "excl" => new                                      \* EEXIST
     /\ how = "there" => ~new                                    \* ENOENT, without O_CREAT
     /\ IF empty THEN disk' = [disk EXCEPT ![name] = EmptyFile] ELSE UNCHANGED disk
     /\ UNCHANGED passing /\ Same
     /\ Done(p, Given(Opened(World, slot, offset, Len(bytes), 0, name), p, h),
             [t EXCEPT !.pos[NewId] = offset, !.node[NewId] = node], {})

MemfdCreate(p) ==
  LET slot == Min(FreeOfds(World))
      m == Min(FreeMems(World))
      h == Handle("mem", slot, 0, 0, 0, FALSE, NewId)
      w == Opened(MemIs(World, m, [mems[m] EXCEPT !.refs = 1]), slot, 0, 0, m, NoName)
  IN /\ Calls(p, "memfd") /\ FreeOfds(World) # {} /\ FreeMems(World) # {}
     /\ UNCHANGED <<disk, passing>> /\ Same
     /\ Done(p, Given(w, p, h), [truth EXCEPT !.pos[NewId] = 0, !.node[NewId] = NewNode, !.bytes[NewNode] = <<>>], {})

\* /proc/self/fd/N opened, N open for writing or memory: the same memory, made if it has none.
Reopen(p, fd) ==
  LET w == Picked(World, p, fd)
      of == H(w, p, fd)
      was == Ofd(w, of)
      m == IF was.mem # 0 THEN was.mem ELSE Min(FreeMems(w))
      slot == Min(FreeOfds(w))
      g == MemIs(SlotIs(w, of.ofd, [was EXCEPT !.mem = m]), m, [w.mems[m] EXCEPT !.refs = IF was.mem # 0 THEN @ + 1 ELSE 2])
      h == Handle("mem", slot, 0, was.size, 0, FALSE, NewId)
  IN /\ Calls(p, "reopen") /\ of.kind \in {"mem", "write"} /\ of.ofd # 0
     /\ FreeOfds(w) # {} /\ (was.mem # 0 \/ FreeMems(w) # {})
     /\ UNCHANGED <<disk, passing>> /\ Same
     /\ Done(p, Given(Opened(g, slot, 0, was.size, m, NoName), p, h),
             [truth EXCEPT !.pos[NewId] = 0, !.node[NewId] = truth.node[of.id]],
             If(WriteName(w, of) # NoName, "named"))

----------------------------------------------------------------------------
(* Copies of a descriptor.                                                 *)

Close(p, fd) ==
  /\ Calls(p, "close") /\ fd \in Used(World, p)
  /\ UNCHANGED <<disk, passing>> /\ Same
  /\ Done(p, Closed(World, p, fd), truth, {})

WithCloexec(w, p, S) ==
  LET Marked(h, too) == [h EXCEPT !.cloexec = @ \/ too]
  IN [w EXCEPT !.tables[p] = [fd \in Fds |-> Marked(H(w, p, fd), fd \in S)]]
CloseRange(p, first, mark) ==
  LET S == {fd \in Used(World, p) : fd >= first}
  IN /\ Calls(p, "closerange") /\ S # {}
     /\ UNCHANGED <<disk, passing>> /\ Same
     /\ Done(p, IF mark THEN WithCloexec(PickedAll(World, p, S), p, S) ELSE ClosedAll(World, p, S), truth, {})

\* Mutant: the slot is not counted once more.
DupUncounted(w, p, fd, to) ==
  LET g == Picked(w, p, fd)
      c == IF to \in Used(g, p) THEN Closed(g, p, to) ELSE g
  IN Has(c, p, to, [H(g, p, fd) EXCEPT !.cloexec = FALSE])

\* dup_to; a dup is one to the lowest free descriptor.
DuppedTo(w, p, fd, to) ==
  LET g == Picked(w, p, fd)
      c == IF to \in Used(g, p) THEN Closed(g, p, to) ELSE g
  IN IF to = fd THEN g ELSE Copied(c, p, to, [H(g, p, fd) EXCEPT !.cloexec = FALSE])

Dup(p, fd, cloexec) ==
  LET g == Picked(World, p, fd)
      to == Lowest(g, p)
      w == IF to = -1 THEN g ELSE DuppedTo(g, p, fd, to)
      k == Picked(w, p, to)
  IN /\ Calls(p, "dup") /\ fd \in Used(World, p)
     /\ UNCHANGED <<disk, passing>> /\ Same
     /\ Done(p, IF to # -1 /\ cloexec THEN Has(k, p, to, [H(k, p, to) EXCEPT !.cloexec = TRUE]) ELSE w,
             truth, If(OfdKind(H(g, p, fd)) /\ H(g, p, fd).ofd = 0, "full"))

DupTo(p, fd, to) ==
  LET g == Picked(World, p, fd)
  IN /\ Calls(p, "dupto") /\ fd \in Used(World, p)
     /\ UNCHANGED <<disk, passing>> /\ Same
     /\ Done(p, DuppedTo(World, p, fd, to), truth, If(OfdKind(H(g, p, fd)) /\ H(g, p, fd).ofd = 0, "full"))

\* F_SETFD.
SetCloexec(p, fd, on) ==
  LET w == Picked(World, p, fd)
  IN /\ Calls(p, "cloexec") /\ fd \in Used(World, p) /\ H(World, p, fd).cloexec # on
     /\ UNCHANGED <<disk, passing>> /\ Same
     /\ Done(p, Has(w, p, fd, [H(w, p, fd) EXCEPT !.cloexec = on]), truth, {})

\* fork_on and hold_all: the table as it is, nothing loaded and no slot given.
CopiedAll(w, p, child) ==
  LET after[n \in 0 .. PROGRAM_FILES] ==
        IF n = 0 THEN Looked(w, child, {}) ELSE Copied(after[n - 1], child, n - 1, w.tables[p][n - 1])
  IN after[PROGRAM_FILES]
Fork(p, child) ==
  /\ Calls(p, "fork") /\ room[child] = 0
  /\ UNCHANGED <<disk, passing>> /\ Same
  /\ Ends(p, CopiedAll(World, p, child), truth, If(\E fd \in Used(World, p) : OfdKind(tables[p][fd]) /\ tables[p][fd].ofd = 0, "fresh"))
  /\ room' = [room EXCEPT ![child] = Max({setup.FIRST_FILES, room[p]})]

\* execve: what is marked goes.
Exec(p) ==
  LET S == {fd \in Used(World, p) : tables[p][fd].cloexec}
  IN /\ Calls(p, "exec") /\ S # {}
     /\ waiting' = [waiting EXCEPT ![p] = NotWaiting]         \* thread_end_others
     /\ UNCHANGED <<setup, disk, passing>>
     /\ Done(p, ClosedAll(World, p, S), truth, {})

\* process_end, which no sync follows: there is nothing left to write back.
End(p) ==
  LET w == ClosedAll(World, p, Used(World, p))
  IN /\ Calls(p, "end")
     /\ waiting' = [waiting EXCEPT ![p] = NotWaiting]
     /\ Becomes(Looked(w, p, {}))
     /\ room' = [room EXCEPT ![p] = 0]
     /\ truth' = Tidy(truth, w, passing)
     /\ UNCHANGED <<setup, disk, passing, odd>>

\* A descriptor sent (handle_share), and received by whoever reads next.
Send(p, fd) ==
  LET w == Picked(World, p, fd)
      h == [H(w, p, fd) EXCEPT !.cloexec = FALSE]
  IN /\ Calls(p, "send") /\ fd \in Used(World, p) /\ passing = <<>>
     /\ passing' = <<h>>
     /\ Done(p, OfdHeld(w, h), truth, If(h.ofd = 0 /\ OfdKind(h), "full"))
     /\ UNCHANGED disk /\ Same

Receive(p) ==
  /\ Calls(p, "send") /\ passing # <<>>
  /\ passing' = Tail(passing)
  /\ Done(p, Given(World, p, Head(passing)), truth, {})
  /\ UNCHANGED disk /\ Same

----------------------------------------------------------------------------
(* The bytes.  h is the descriptor as handle_of gives it.                  *)

\* Where p's descriptor is moved to, and what the truth then is of it.
Moved(w, p, fd, offset) == Has(w, p, fd, [H(w, p, fd) EXCEPT !.offset = offset])
Sized(w, p, fd, size) == Has(w, p, fd, [H(w, p, fd) EXCEPT !.size = size])
TrueMoved(t, id, offset) == [t EXCEPT !.pos[id] = Max({0, Min({offset, MaxSize})})]

\* What there is to read of h, and the size it is taken to be of: a file open for writing
\* is asked how long it is.
Length(w, h) ==
  IF h.kind = "write" /\ ~MemBacked(w, h) THEN Len(disk[WriteName(w, h)].bytes) ELSE h.size
Readable(w, h) ==
  MemBacked(w, h) \/ h.kind = "read" \/ (h.kind = "write" /\ WriteName(w, h) # NoName /\ disk[WriteName(w, h)].there)
Files(p) == {fd \in Fds : tables[p][fd].kind \in {"read", "write", "mem"}}

\* sys_read: what it gets, and the world after.
Got(w, p, fd, count) ==
  LET h == H(w, p, fd) IN Min({count, Max({Length(w, h) - h.offset, 0})})
ReadIn(w, p, fd, count) ==
  Sized(Moved(w, p, fd, H(w, p, fd).offset + Got(w, p, fd, count)), p, fd, Length(w, H(w, p, fd)))

Read(p, fd, count) ==
  LET w == Picked(World, p, fd)
      h == H(w, p, fd)
  IN /\ Calls(p, "read") /\ fd \in Files(p) /\ Readable(w, h)
     /\ UNCHANGED <<disk, passing>> /\ Same
     /\ Done(p, ReadIn(w, p, fd, count), TrueMoved(truth, h.id, truth.pos[h.id] + Got(w, p, fd, count)), {})

\* sys_readv, into two buffers: a short read ends it.
Readv(p, fd, count) ==
  LET w == Picked(World, p, fd)
      h == H(w, p, fd)
      first == Picked(ReadIn(w, p, fd, count), p, fd)
      all == Got(w, p, fd, count) = count
      got == Got(w, p, fd, count) + IF all THEN Got(first, p, fd, count) ELSE 0
  IN /\ Calls(p, "vectors") /\ fd \in Files(p) /\ Readable(w, h)
     /\ UNCHANGED <<disk, passing>> /\ Same
     /\ Done(p, IF all THEN ReadIn(first, p, fd, count) ELSE first, TrueMoved(truth, h.id, truth.pos[h.id] + got), {})

\* sys_pread64: there and back, through sys_read.
Pread(p, fd, offset, count) ==
  LET w == Picked(World, p, fd)
      h == H(w, p, fd)
      there == Picked(Moved(w, p, fd, offset), p, fd)
  IN /\ Calls(p, "pread") /\ fd \in Files(p) /\ Readable(w, h)
     /\ UNCHANGED <<disk, passing>> /\ Same
     /\ Done(p, IF offset > h.size THEN w ELSE Moved(ReadIn(there, p, fd, count), p, fd, h.offset), truth, {})

\* Others with the same memory do not hear how long it is now.
SharesMem(w, h) == Ofd(w, h).mem # 0 /\ w.mems[Ofd(w, h).mem].refs > 1

TruePut(t, id, offset, said) == [t EXCEPT !.bytes[t.node[id]] = Overlaid(@, offset, said)]

\* Bytes put at offset through h and the descriptor left at `to', as write_to and pwrite64 do.
PutAt(p, w, fd, offset, said, to, t) ==
  LET h == H(w, p, fd)
      name == WriteName(w, h)
      size == Max({h.size, offset + Len(said)})
      after == Sized(Moved(w, p, fd, to), p, fd, size)
  IN IF MemBacked(w, h)
     THEN /\ Done(p, MemPut(after, Ofd(w, h).mem, offset, said), t, If(size # h.size /\ SharesMem(w, h), "size"))
          /\ UNCHANGED disk
     ELSE /\ h.kind = "write" /\ name # NoName /\ disk[name].there        \* EBADF, EIO
          /\ OnDisk(name, Overlaid(disk[name].bytes, offset, said))
          /\ Done(p, after, t, {})

Write(p, fd, n, v) ==
  LET w == Picked(World, p, fd)
      h == H(w, p, fd)
      at == truth.pos[h.id]
      said == [i \in 1 .. n |-> v]
  IN /\ Calls(p, "write") /\ fd \in Files(p) /\ h.offset + n <= MaxSize /\ at + n <= MaxSize
     /\ UNCHANGED passing /\ Same
     /\ PutAt(p, w, fd, h.offset, said, h.offset + n, TrueMoved(TruePut(truth, h.id, at, said), h.id, at + n))

\* sys_writev, from two buffers of one byte: each is a write where the last one ended.
Writev(p, fd, v) ==
  LET w == Picked(World, p, fd)
      h == H(w, p, fd)
      next == H(Picked(Moved(w, p, fd, h.offset + 1), p, fd), p, fd).offset
      at == truth.pos[h.id]
  IN /\ Calls(p, "vectors") /\ fd \in Files(p) /\ h.offset + 2 <= MaxSize /\ at + 2 <= MaxSize
     /\ UNCHANGED passing /\ Same
     /\ PutAt(p, w, fd, h.offset, Overlaid(<<v>>, next - h.offset, <<v>>), next + 1,
              TrueMoved(TruePut(truth, h.id, at, <<v, v>>), h.id, at + 2))

\* sys_pwrite64: on the disk it does not move the descriptor, in memory it moves it back.
Pwrite(p, fd, offset, n, v) ==
  LET w == Picked(World, p, fd)
      h == H(w, p, fd)
      said == [i \in 1 .. n |-> v]
  IN /\ Calls(p, "pwrite") /\ fd \in Files(p) /\ offset + n <= MaxSize
     /\ UNCHANGED passing /\ Same
     /\ PutAt(p, w, fd, offset, said, h.offset, TruePut(truth, h.id, offset, said))

\* From the start, from where it is, and from its end.
Lseek(p, fd, whence, by) ==
  LET w == Picked(World, p, fd)
      h == H(w, p, fd)
      To(at, size) == by + (IF whence = "set" THEN 0 ELSE IF whence = "cur" THEN at ELSE size)
      to == To(h.offset, h.size)
      trueSize == IF h.kind = "read" THEN h.size ELSE Len(BytesOf(h.id))
  IN /\ Calls(p, "lseek") /\ fd \in Files(p) /\ to \in 0 .. MaxSize
     /\ UNCHANGED <<disk, passing>> /\ Same
     /\ Done(p, Moved(w, p, fd, to), TrueMoved(truth, h.id, To(truth.pos[h.id], trueSize)),
             If(whence = "end" /\ h.size # trueSize, "size"))

\* sys_ftruncate, by what the descriptor takes the size to be; fallocate only lengthens.
Ftruncate(p, fd, length) ==
  LET w == Picked(World, p, fd)
      h == H(w, p, fd)
      name == WriteName(w, h)
      bytes == disk[name].bytes
      t == [truth EXCEPT !.bytes[truth.node[h.id]] = Cut(@, length)]
  IN /\ Calls(p, "ftruncate") /\ fd \in Files(p) /\ length <= MaxSize
     /\ UNCHANGED passing /\ Same
     /\ \/ /\ MemBacked(w, h)
           /\ UNCHANGED disk
           /\ Done(p, Sized(w, p, fd, length), t, If(length < h.size, "shrink") \union If(SharesMem(w, h), "size"))
        \/ /\ ~MemBacked(w, h) /\ h.kind = "write" /\ name # NoName /\ disk[name].there
           /\ length < h.size => length <= Len(bytes)                                    \* EIO
           /\ IF length = h.size THEN UNCHANGED disk
              ELSE OnDisk(name, IF length > h.size THEN Overlaid(bytes, length - 1, <<0>>) ELSE Cut(bytes, length))
           /\ Done(p, Sized(w, p, fd, length), t, If(h.size # Len(bytes), "size"))

----------------------------------------------------------------------------
(* Names that go.                                                          *)

\* Mutant: the bytes are not copied in.
KeptEmpty(w, i, name) ==
  LET o == w.ofds[i]
      m == IF o.mem # 0 THEN o.mem ELSE Min(FreeMems(w))
  IN IF o.mem = 0 /\ FreeMems(w) = {} THEN w
     ELSE MemIs(SlotIs(w, i, [o EXCEPT !.mem = m, !.name = NoName]), m, [w.mems[m] EXCEPT !.refs = IF o.mem = 0 THEN 1 ELSE @])

\* unlinked_open, for slot i: its bytes copied into memory, the pages it has already as they are.
Kept(w, i, name) ==
  LET o == w.ofds[i]
      m == IF o.mem # 0 THEN o.mem ELSE Min(FreeMems(w))
      was == w.mems[m]
      bytes == disk[name].bytes
      fresh == {k \div PAGE : k \in 0 .. Min({Len(bytes), o.size}) - 1} \ was.pages
  IN IF o.mem = 0 /\ FreeMems(w) = {} THEN w
     ELSE MemIs(SlotIs(w, i, [o EXCEPT !.mem = m, !.name = NoName]), m,
                [refs |-> IF o.mem = 0 THEN 1 ELSE was.refs, pages |-> was.pages \union fresh,
                 data |-> [k \in DOMAIN was.data |->
                             IF k \div PAGE \in fresh /\ k < Len(bytes) THEN bytes[k + 1] ELSE was.data[k]]])

KeptAll(w, name, S) ==
  LET after[i \in 0 .. OFDS] == IF i = 0 THEN w ELSE IF i \in S THEN Kept(after[i - 1], i, name) ELSE after[i - 1]
  IN after[OFDS]

\* Then those open for reading, where a slot was kept: views of the same memory.
IsView(w, name, p, fd) ==
  LET h == H(w, p, fd) IN h.kind = "read" /\ h.start = disk[name].start /\ h.ofd # 0 /\ room[p] > 0
Seen(w, name) ==
  {i \in 1 .. OFDS : w.ofds[i].mem = 0 /\ \E p \in Procs, fd \in Fds : IsView(w, name, p, fd) /\ H(w, p, fd).ofd = i}
Viewed(w, name, m) ==
  LET size == Len(disk[name].bytes)
      slots == Seen(w, name)
  IN IF m = 0 \/ disk[name].start = 0 THEN w
     ELSE [tables |-> [p \in Procs |-> [fd \in Fds |->
                         IF IsView(w, name, p, fd) THEN [H(w, p, fd) EXCEPT !.kind = "mem", !.size = size] ELSE H(w, p, fd)]],
           touched |-> w.touched,
           ofds |-> [i \in 1 .. OFDS |-> IF i \in slots THEN [w.ofds[i] EXCEPT !.mem = m, !.size = size] ELSE w.ofds[i]],
           mems |-> [w.mems EXCEPT ![m].refs = @ + Cardinality(slots)]]

Unlink(p, name) ==
  LET S == {i \in 1 .. OFDS : ofds[i].refs > 0 /\ ofds[i].name = name}
      w == KeptAll(World, name, S)
      kept == {i \in S : w.ofds[i].name = NoName}
      views == {r \in Procs \X Fds : LET h == tables[r[1]][r[2]] IN
                 h.kind = "read" /\ h.start = disk[name].start /\ truth.node[h.id] # truth.names[name]}
  IN /\ Calls(p, "unlink") /\ disk[name].there
     /\ disk' = [disk EXCEPT ![name] = NoFile]
     /\ UNCHANGED passing /\ Same
     /\ Done(p, Viewed(w, name, IF kept = {} THEN 0 ELSE w.ofds[Min(kept)].mem), [truth EXCEPT !.names[name] = 0],
             If(Cardinality(S) > 1, "copies") \union If(kept # S, "nomem") \union If(views # {}, "place")
               \union If(\E i \in S : ofds[i].size # Len(disk[name].bytes), "size"))

\* What is open goes on by the name it had.
Rename(p, from, to) ==
  /\ Calls(p, "rename") /\ disk[from].there /\ from # to
  /\ disk' = [disk EXCEPT ![to] = disk[from], ![from] = NoFile]
  /\ UNCHANGED passing /\ Same
  /\ Done(p, World, [truth EXCEPT !.names[to] = truth.names[from], !.names[from] = 0],
          If(\E i \in 1 .. OFDS : ofds[i].refs > 0 /\ ofds[i].name \in {from, to}, "renamed"))

\* sys_truncate, which makes the file if it is not there.
Truncate(p, name) ==
  LET node == IF disk[name].there THEN truth.names[name] ELSE NewNode
  IN /\ Calls(p, "truncate")
     /\ disk' = [disk EXCEPT ![name] = EmptyFile]
     /\ UNCHANGED passing /\ Same
     /\ Done(p, World, [truth EXCEPT !.names[name] = node, !.bytes[node] = <<>>], {})

----------------------------------------------------------------------------
(* Calls that wait, while other processes and threads run.                 *)

\* select looks at every descriptor below nfds before it waits.
Select(p) ==
  /\ Calls(p, "select") /\ waiting[p].call = "none"
  /\ Becomes(PickedAll(World, p, Used(World, p)))
  /\ waiting' = [waiting EXCEPT ![p] = [call |-> "select", room |-> room[p]]]
  /\ UNCHANGED <<setup, room, disk, passing, truth, odd>>

\* A read of an empty pipe goes on with the descriptor it found, in the table it found it in.
ReadWait(p, fd) ==
  /\ Calls(p, "wait") /\ waiting[p].call = "none" /\ H(World, p, fd).kind = "pipe"
  /\ waiting' = [waiting EXCEPT ![p] = [call |-> "read", room |-> room[p]]]
  /\ UNCHANGED <<setup, tables, room, touched, ofds, mems, disk, passing, truth, odd>>

\* A read that goes on in a table another thread's call has replaced, and so freed, is an exception.
WaitDone(p) ==
  /\ waiting[p].call # "none"
  /\ waiting' = [waiting EXCEPT ![p] = NotWaiting]
  /\ UNCHANGED <<setup, disk, passing>>
  /\ Done(p, World, truth, If(waiting[p].call = "read" /\ waiting[p].room # room[p], "freed"))

----------------------------------------------------------------------------

InitFor(s) ==
  /\ setup = s
  /\ tables = [p \in s.Procs |-> [fd \in 0 .. s.PROGRAM_FILES - 1 |-> IF p = s.first /\ fd = 0 THEN Pipe ELSE NoHandle]]
  /\ room = [p \in s.Procs |-> IF p = s.first THEN s.FIRST_FILES ELSE 0]
  /\ touched = [p \in s.Procs |-> {}]
  /\ ofds = [i \in 1 .. s.OFDS |-> NoOfd]
  /\ mems = [m \in s.Mems |-> NoMem]
  /\ passing = <<>> /\ odd = {} /\ left = s.MaxCalls
  /\ waiting = [p \in s.Procs |-> NotWaiting]
  /\ LET nodes == 1 .. Cardinality(Ids) + Cardinality(s.Names)
         node == CHOOSE f \in [s.Names -> nodes] : IsInjective(f)
     IN /\ disk = [n \in s.Names |-> IF n \in DOMAIN s.begin
                                     THEN [there |-> TRUE, start |-> node[n], bytes |-> s.begin[n]] ELSE NoFile]
        /\ truth = [names |-> [n \in s.Names |-> IF n \in DOMAIN s.begin THEN node[n] ELSE 0],
                    pos |-> [i \in Ids |-> 0], node |-> [i \in Ids |-> 0],
                    bytes |-> [k \in nodes |-> IF \E n \in DOMAIN s.begin : node[n] = k
                                               THEN s.begin[CHOOSE n \in DOMAIN s.begin : node[n] = k] ELSE <<>>]]

Init == \E s \in Setups : InitFor(s)

Opens(p) ==
  \/ \E n \in setup.Names, c \in BOOLEAN : OpenRead(p, n, c)
  \/ \E n \in setup.Names, how \in setup.Hows : OpenWrite(p, n, how)
  \/ OpenOther(p)
  \/ MemfdCreate(p)
  \/ \E fd \in Fds : Reopen(p, fd)

Copies(p) ==
  \/ \E fd \in Fds : Close(p, fd) \/ Send(p, fd)
  \/ \E fd \in Fds, mark \in BOOLEAN : CloseRange(p, fd, mark) \/ Dup(p, fd, mark) \/ SetCloexec(p, fd, mark)
  \/ \E fd, to \in Fds : DupTo(p, fd, to)
  \/ \E child \in Procs : Fork(p, child)
  \/ Exec(p)
  \/ End(p)
  \/ Receive(p)

Bytes(p) ==
  \/ \E fd \in Fds, n \in setup.Sizes : Read(p, fd, n) \/ Readv(p, fd, n) \/ Ftruncate(p, fd, n)
  \/ \E fd \in Fds, n \in setup.Sizes, at \in setup.Ats : Pread(p, fd, at, n)
  \/ \E fd \in Fds, n \in setup.Sizes \ {0}, v \in setup.Vals : Write(p, fd, n, v)
  \/ \E fd \in Fds, v \in setup.Vals : Writev(p, fd, v)
  \/ \E fd \in Fds, n \in setup.Sizes \ {0}, v \in setup.Vals, at \in setup.Ats : Pwrite(p, fd, at, n, v)
  \/ \E fd \in Fds, whence \in {"set", "cur", "end"}, by \in setup.Seeks : Lseek(p, fd, whence, by)

Names(p) ==
  \/ \E n \in setup.Names : Unlink(p, n) \/ Truncate(p, n)
  \/ \E from, to \in setup.Names : Rename(p, from, to)

Waits(p) ==
  \/ Select(p)
  \/ \E fd \in Fds : ReadWait(p, fd)
  \/ WaitDone(p)

Next ==
  /\ odd = {} /\ left > 0 /\ left' = left - 1
  /\ \E p \in Procs : Opens(p) \/ Copies(p) \/ Bytes(p) \/ Names(p) \/ Waits(p)

Spec == Init /\ [][Next]_vars

----------------------------------------------------------------------------
(* Properties.                                                             *)

Holders(i) ==
  Cardinality({r \in Procs \X Fds : tables[r[1]][r[2]].ofd = i}) + Cardinality({k \in DOMAIN passing : passing[k].ofd = i})

\* Every descriptor is of a kind and a slot there are, within its file's bound; and
\* what is counted is what there is: a slot's descriptors, in every table and on their way, and a
\* memory object's slots; and a free slot has no name and no memory, so nothing is lost when the last goes.
OpenCounted ==
  /\ \A p \in Procs, fd \in Fds : LET h == tables[p][fd] IN
       /\ h.kind \in {"none", "pipe", "read", "write", "mem"} /\ h.ofd \in 0 .. OFDS
       /\ h.offset \in 0 .. MaxSize /\ h.size \in 0 .. MaxSize
       /\ fd \in touched[p] => h.kind # "none"
  /\ \A i \in 1 .. OFDS : /\ ofds[i].refs = Holders(i)
                          /\ ofds[i].refs = 0 => ofds[i].mem = 0 /\ ofds[i].name = NoName
  /\ \A m \in Mems : mems[m].refs = Cardinality({i \in 1 .. OFDS : ofds[i].mem = m})
  /\ \A p \in Procs : room[p] = 0 => Used(World, p) = {}

PositionsTrue ==
  \A p \in Procs : \A fd \in Fds \ touched[p] :
    tables[p][fd].id # 0 => Now(World, p, fd).offset = truth.pos[tables[p][fd].id]

\* Every descriptor of an opening - a dup's, a fork's, one that was passed - is where the last call on any
\* of them left it.
PositionsShared == odd \intersect {"fresh", "full", "waited", "size"} = {} => PositionsTrue

SeenBytes(p, fd) ==
  LET h == tables[p][fd]
  IN IF MemBacked(World, h) THEN MemBytes(World, Ofd(World, h).mem, Now(World, p, fd).size)
     ELSE disk[WriteName(World, h)].bytes

\* A file open for writing, or in memory, is the bytes written to it for as long as anything has it open,
\* its name deleted or not.
BytesKept ==
  odd = {} => \A p \in Procs, fd \in Fds :
    tables[p][fd].kind \in {"write", "mem"} => SeenBytes(p, fd) = BytesOf(tables[p][fd].id)
=============================================================================
