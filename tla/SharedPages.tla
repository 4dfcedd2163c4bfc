---------------------------- MODULE SharedPages -----------------------------
(***************************************************************************)
(* The memory of processes: page tables (kernel/vm.c), the pages several   *)
(* of them have in common (kernel/share.c), and the file mappings a page   *)
(* fault fills in (kernel/syscall.c).                                      *)
(*                                                                         *)
(* A page is a process's own; or in common and read-only - a file's, or    *)
(* what a fork left - until a write gives the process a copy; or shared on *)
(* purpose, writable by all (a memory file's); or the screen's.  Memory is *)
(* the kernel's (mem_ours), so pages come and go one at a time.  share.c's *)
(* two hash chains are functions of the frame here, and any allocation may *)
(* fail, whatever is free: the rest of the machine allocates too.          *)
(***************************************************************************)
EXTENDS Integers, FiniteSets, FiniteSetsExt

CONSTANTS
  Spaces,      \* struct space
  NPages,      \* bound: pages of address space
  Frames,      \* pages of memory
  FILL_PAGES,  \* pages read around the one that faulted
  MaxOpen,     \* bound: open files of the memory file
  Vals,        \* what a page holds; 0 is zeroes
  None, Untouched, Screen,  \* no frame; what a page nobody touched holds, and the screen
  Setups       \* the programs a run goes through

(***************************************************************************)
(* Of a setup: FilePages, pages of the one file mapped; Indexes, pages a   *)
(* memory file may have; Does, what the programs do; and as bounds used,   *)
(* the pages of address space they use, processes, how many of them, and   *)
(* memory, the frames they have at most.                                   *)
(***************************************************************************)
ASSUME PageConstants ==
  /\ {NPages, FILL_PAGES, MaxOpen} \subseteq Nat \ {0}
  /\ IsFiniteSet(Spaces) /\ {0, 1} \subseteq Vals
  /\ Frames # {} /\ Frames \intersect (Vals \union {None, Untouched, Screen}) = {}
  /\ \A u \in Setups :
       /\ {u.processes, u.memory, u.FilePages} \subseteq Nat \ {0} /\ u.used \in 1 .. NPages
       /\ IsFiniteSet(u.Indexes) /\ None \notin 1 .. u.FilePages
       /\ u.Does \subseteq {"anon", "file", "filewrite", "readfails", "shm", "unmap", "madvise",
                           "dev", "fork", "forkfails", "exec"}

Pages == 1 .. NPages

VARIABLES
  setup,
  live,   \* spaces[]
  pte,    \* each space's entries: what kind of page, and which
  maps,   \* struct mapping: the pages promised, and from which page of the file on
  refs,   \* share.c's entries, by frame: who has it (0: no entry)
  key,    \* and the page of the file it is, None once that is not so
  free,   \* the frames nobody has
  data,   \* what frames hold
  disk,   \* what the file holds
  opens,  \* struct mobj: open files that have it
  frame,  \* and its pages
  did     \* what the program just did to its own memory, and to which pages

vars == <<setup, live, pte, maps, refs, key, free, data, disk, opens, frame, did>>

FilePages == setup.FilePages
Indexes == setup.Indexes
Does == setup.Does
Used == 1 .. setup.used

Nothing == [op |-> "none", s |-> None, P |-> {}]
NoPage == [k |-> "none", f |-> None]
Own(f) == [k |-> "own", f |-> f]   \* PRESENT | WRITE
Cow(f) == [k |-> "cow", f |-> f]   \* PRESENT | SHARED
Shm(f) == [k |-> "shm", f |-> f]   \* PRESENT | SHARED | WRITE
Dev    == [k |-> "dev", f |-> None]

Common(e) == e.k \in {"cow", "shm"}
Injections(S, T) == {g \in [S -> T] : \A a, b \in S : a # b => g[a] # g[b]}

\* How many of pages P of space s are frame f, in common.
Times(s, P, f) == Cardinality({p \in P : Common(pte[s][p]) /\ pte[s][p].f = f})

----------------------------------------------------------------------------
(* shared_drop, page_back: what the pages P of s leave behind.             *)

\* Mutant: the entry goes with its last holder, the page does not.
LeftOfLeak(f, n) == [refs |-> refs[f] - n, gone |-> FALSE]
LeftOf(f, n) == [refs |-> refs[f] - n, gone |-> n > 0 /\ refs[f] = n]

\* low_page_back over P: own pages to the machine, common ones counted down.
PagesBack(s, P) ==
  LET gone == {f \in Frames : \/ LeftOf(f, Times(s, P, f)).gone
                              \/ \E p \in P : pte[s][p] = Own(f)}
  IN /\ refs' = [f \in Frames |-> LeftOf(f, Times(s, P, f)).refs]
     /\ key' = [f \in Frames |-> IF f \in gone THEN None ELSE key[f]]
     /\ free' = free \union gone

\* map_trim: promises under a .. b are forgotten.  A hole in the middle of one
\* leaves the part before it.
Trimmed(M, a, b) ==
  {m \in M : b < m.at \/ a > m.end}
  \union {[m EXCEPT !.end = a - 1] : m \in {n \in M : n.at < a /\ a <= n.end}}
  \union {[m EXCEPT !.at = b + 1, !.from = @ + b + 1 - m.at] :
            m \in {n \in M : a <= n.at /\ n.at <= b /\ b < n.end}}

----------------------------------------------------------------------------
(* vm_fault                                                                *)

MayTake(f) == refs[f] = 1

TakenKey(f) == [key EXCEPT ![f] = None]

\* shared_take: the last holder's, to write in as its own.
Take(s, p, v) ==
  LET f == pte[s][p].f
  IN /\ Common(pte[s][p]) /\ MayTake(f)
     /\ pte' = [pte EXCEPT ![s][p] = Own(f)]
     /\ refs' = [refs EXCEPT ![f] = 0] /\ key' = TakenKey(f)
     /\ data' = [data EXCEPT ![f] = v] /\ UNCHANGED free

\* A copy, and the common page let go of.
Copy(s, p, v) ==
  LET f == pte[s][p].f
  IN /\ Common(pte[s][p]) /\ ~MayTake(f)
     /\ \E new \in free :
          /\ pte' = [pte EXCEPT ![s][p] = Own(new)]
          /\ data' = [data EXCEPT ![new] = v]
          /\ free' = free \ {new}
     /\ refs' = [refs EXCEPT ![f] = LeftOf(f, 1).refs] /\ UNCHANGED key

Fresh(s, p, v) ==
  /\ pte[s][p] = NoPage
  /\ \E new \in free :
       /\ pte' = [pte EXCEPT ![s][p] = Own(new)]
       /\ data' = [data EXCEPT ![new] = v]
       /\ free' = free \ {new}
  /\ UNCHANGED <<refs, key>>

\* The program writes v in a page it may write: vm_fault leaves the page
\* writable, holding what it held.
Write(s, p, v) ==
  /\ s \in live /\ pte[s][p].k \in {"own", "shm"}
  /\ data' = [data EXCEPT ![pte[s][p].f] = v]
  /\ UNCHANGED <<live, pte, maps, refs, key, free, disk, opens, frame>>

\* Mutant: the page given is new, and not a copy.
WriteFaultZeroes(s, p) ==
  /\ s \in live /\ pte[s][p].k = "cow"
  /\ Take(s, p, data[pte[s][p].f]) \/ Copy(s, p, 0)
  /\ UNCHANGED <<live, maps, disk, opens, frame>>
\* A write to a page in common.
WriteFault(s, p) ==
  /\ s \in live /\ pte[s][p].k = "cow"
  /\ \/ Take(s, p, data[pte[s][p].f])
     \/ Copy(s, p, data[pte[s][p].f])
  /\ UNCHANGED <<live, maps, disk, opens, frame>>

Promised(s, p) == {m \in maps[s] : m.at <= p /\ p <= m.end}
FilePage(s, p) == LET m == CHOOSE n \in Promised(s, p) : TRUE IN m.from + (p - m.at)

\* What a page owed nothing, or something past the end of the file, holds.
Owed(s, p) ==
  IF Promised(s, p) # {} /\ FilePage(s, p) <= FilePages THEN disk[FilePage(s, p)] ELSE 0

TouchFault(s, p) ==
  /\ s \in live /\ Promised(s, p) = {} /\ Fresh(s, p, 0)
  /\ UNCHANGED <<live, maps, disk, opens, frame>>

----------------------------------------------------------------------------
(* map_fill: a chunk of the pages promised, around the one that faulted.   *)

Chunk(s, p) ==
  LET m  == CHOOSE n \in Promised(s, p) : TRUE
      lo == m.at + ((p - m.at) \div FILL_PAGES) * FILL_PAGES
  IN {q \in lo .. lo + FILL_PAGES - 1 : q <= m.end}

Unmapped(s, p) == {q \in Chunk(s, p) : pte[s][q] = NoPage}
Known(i) == {f \in Frames : key[f] = i}
MayShare(s, p) == FilePage(s, p) <= FilePages

\* map_share, for p and for what it can of the rest as the read-ahead: the
\* page every process has, read first by the one that wants it first.
FillShared(s, p) ==
  \E R \in SUBSET {q \in Unmapped(s, p) : MayShare(s, q)} :
    LET new == {q \in R : Known(FilePage(s, q)) = {}}
    IN /\ p \in R
       /\ \E g \in Injections(new, free) :
            LET at(q) == IF q \in new THEN g[q] ELSE CHOOSE f \in Known(FilePage(s, q)) : TRUE
                page(f) == {q \in R : at(q) = f}
            IN /\ pte' = [pte EXCEPT ![s] =
                            [q \in Pages |-> IF q \in R THEN Cow(at(q)) ELSE @[q]]]
               /\ refs' = [f \in Frames |-> refs[f] + Cardinality(page(f))]
               /\ key' = [f \in Frames |-> IF page(f) = {} THEN key[f]
                                           ELSE FilePage(s, CHOOSE q \in page(f) : TRUE)]
               /\ data' = [f \in Frames |-> IF f \in {g[q] : q \in new}
                             THEN disk[FilePage(s, CHOOSE q \in page(f) : TRUE)] ELSE data[f]]
               /\ free' = free \ {g[q] : q \in new}

\* Pages of its own instead, the whole chunk's if all of it is new, and the
\* file read into them - but for lost, where the disk fails: map_fill says no,
\* vm_fault finds a writable page there, and the program carries on.
FillOwn(s, p, lost) ==
  LET U == Unmapped(s, p)
      whole == Max(U) - Min(U) + 1 = Cardinality(U)
  IN /\ MayShare(s, p) => Known(FilePage(s, p)) = {}
     /\ \E P \in {U, {p}} :
          /\ P = U => whole
          /\ lost \subseteq {q \in P : MayShare(s, q)}
          /\ \E g \in Injections(P, free) :
               /\ pte' = [pte EXCEPT ![s] = [q \in Pages |-> IF q \in P THEN Own(g[q]) ELSE @[q]]]
               /\ data' = [f \in Frames |->
                             IF \E q \in P : g[q] = f
                             THEN LET q == CHOOSE r \in P : g[r] = f
                                  IN IF q \in lost THEN 0 ELSE Owed(s, q)
                             ELSE data[f]]
               /\ free' = free \ {g[q] : q \in P}
     /\ UNCHANGED <<refs, key>>

FileFault(s, p) ==
  /\ s \in live /\ pte[s][p] = NoPage /\ Promised(s, p) # {}
  /\ \/ FillShared(s, p)
     \/ \E lost \in SUBSET Pages :
          /\ lost # {} => "readfails" \in Does
          /\ FillOwn(s, p, lost)
  /\ UNCHANGED <<live, maps, disk, opens, frame>>

----------------------------------------------------------------------------
(* mmap, munmap and madvise                                                *)

\* claim: the page is made the program's own, and v put in it.
Claim(s, p, v) ==
  \/ Take(s, p, v)
  \/ Copy(s, p, v)
  \/ Fresh(s, p, v)
  \/ /\ pte[s][p].k = "own"
     /\ data' = [data EXCEPT ![pte[s][p].f] = v]
     /\ UNCHANGED <<pte, refs, key, free>>
  \/ /\ pte[s][p].k = "dev" /\ UNCHANGED <<pte, data, refs, key, free>>

\* Without memory for the page nothing changes but the promise.
NotClaimed(s, p) ==
  /\ pte[s][p] = NoPage \/ Common(pte[s][p])
  /\ UNCHANGED <<pte, data, refs, key, free>>

Promise(s, a, b, more) == maps' = [maps EXCEPT ![s] = Trimmed(@, a, b) \union more]

\* MAP_FIXED | MAP_ANONYMOUS
MapAnon(s, p) ==
  /\ "anon" \in Does /\ s \in live
  /\ Promise(s, p, p, {})
  /\ Claim(s, p, 0) \/ NotClaimed(s, p)
  /\ UNCHANGED <<live, disk, opens, frame>>

\* A file: promised, and read when, and if, it is touched.
MapFile(s, a, b, from) ==
  /\ "file" \in Does /\ s \in live
  /\ Promise(s, a, b, {[at |-> a, end |-> b, from |-> from]})
  /\ UNCHANGED <<live, pte, refs, key, free, data, disk, opens, frame>>

\* No room to promise: read now instead.
MapFileNow(s, p, from) ==
  /\ "file" \in Does /\ s \in live
  /\ Promise(s, p, p, {})
  /\ Claim(s, p, IF from <= FilePages THEN disk[from] ELSE 0) \/ NotClaimed(s, p)
  /\ UNCHANGED <<live, disk, opens, frame>>

FreshIn(i) == frame[i] = None
\* shared_adopt for the object, when its page is made, and shared_hold.
Holds(i) == IF frame[i] = None THEN 2 ELSE 1

\* map_shared_file, mobj_page: what was there goes, and the object's page,
\* made if it is not there yet, is counted once more.  (No memory for it: Unmap.)
MapShared(s, p, i) ==
  LET gone == {f \in Frames : LeftOf(f, Times(s, {p}, f)).gone \/ pte[s][p] = Own(f)}
  IN /\ "shm" \in Does /\ s \in live /\ opens > 0
     /\ Promise(s, p, p, {})
     /\ \E f \in free \union gone \union {frame[i]} :
          /\ f # None /\ (frame[i] # None => f = frame[i])
          /\ pte' = [pte EXCEPT ![s][p] = Shm(f)]
          /\ refs' = [h \in Frames |-> LeftOf(h, Times(s, {p}, h)).refs
                        + (IF h # f THEN 0 ELSE Holds(i))]
          /\ key' = [h \in Frames |-> IF h \in gone THEN None ELSE key[h]]
          /\ free' = (free \union gone) \ {f}
          /\ data' = IF FreshIn(i) THEN [data EXCEPT ![f] = 0] ELSE data
          /\ frame' = [frame EXCEPT ![i] = f]
     /\ UNCHANGED <<live, disk, opens>>

\* vm_map_device: the screen.
MapDevice(s, p) ==
  /\ "dev" \in Does /\ s \in live
  /\ Promise(s, p, p, {}) /\ PagesBack(s, {p})
  /\ pte' = [pte EXCEPT ![s][p] = Dev]
  /\ UNCHANGED <<live, data, disk, opens, frame>>

Emptied(s, P) == [pte EXCEPT ![s] = [p \in Pages |-> IF p \in P THEN NoPage ELSE @[p]]]

Unmap(s, a, b) ==
  /\ "unmap" \in Does /\ s \in live
  /\ Promise(s, a, b, {}) /\ PagesBack(s, a .. b)
  /\ pte' = Emptied(s, a .. b)
  /\ UNCHANGED <<live, data, disk, opens, frame>>

\* MADV_DONTNEED, vm_discard: what no entry says is in common.
Madvise(s, a, b) ==
  LET P == {p \in a .. b : pte[s][p].k = "own"}
  IN /\ "madvise" \in Does /\ s \in live
     /\ PagesBack(s, P) /\ pte' = Emptied(s, P)
     /\ did' = [op |-> "discard", s |-> s, P |-> a .. b]
     /\ UNCHANGED <<live, maps, data, disk, opens, frame>>

----------------------------------------------------------------------------
(* The memory file, and the disk's                                         *)

OpenMemory ==
  /\ "shm" \in Does /\ opens < MaxOpen
  /\ opens' = opens + 1
  /\ UNCHANGED <<live, pte, maps, refs, key, free, data, disk, frame>>

\* mem_io: a write of a page through a descriptor.
WriteMemory(i, v) ==
  /\ "shm" \in Does /\ opens > 0
  /\ \/ /\ frame[i] # None
        /\ data' = [data EXCEPT ![frame[i]] = v] /\ UNCHANGED <<refs, free, frame>>
     \/ /\ frame[i] = None
        /\ \E f \in free :
             /\ frame' = [frame EXCEPT ![i] = f] /\ free' = free \ {f}
             /\ refs' = [refs EXCEPT ![f] = 1] /\ data' = [data EXCEPT ![f] = v]
  /\ UNCHANGED <<live, pte, maps, key, disk, opens>>

\* mobj_free
CloseMemory ==
  LET Mine(f) == IF \E i \in Indexes : frame[i] = f THEN 1 ELSE 0
      last == opens = 1
  IN /\ opens > 0 /\ opens' = opens - 1
     /\ IF last
        THEN /\ refs' = [f \in Frames |-> LeftOf(f, Mine(f)).refs]
             /\ free' = free \union {f \in Frames : LeftOf(f, Mine(f)).gone}
             /\ frame' = [i \in Indexes |-> None]
        ELSE UNCHANGED <<refs, free, frame>>
     /\ UNCHANGED <<live, pte, maps, key, data, disk>>

\* Mutant: pages already read from there are still given to whoever maps them.
WrittenForgotten(i) == key
Written(i) == [f \in Frames |-> IF key[f] = i THEN None ELSE key[f]]

\* ata_write_many, shared_written: those who have the page keep it; nobody new.
FileWrite(i, v) ==
  /\ "filewrite" \in Does
  /\ disk' = [disk EXCEPT ![i] = v] /\ key' = Written(i)
  /\ UNCHANGED <<live, pte, maps, refs, free, data, opens, frame>>

----------------------------------------------------------------------------
(* fork, exec and exit                                                     *)

OwnPages(s) == {p \in Pages : pte[s][p].k = "own"}

\* Own pages adopted: in common from now on, read-only to both.
Adopted(s, A) == [p \in Pages |-> IF p \in A THEN Cow(pte[s][p].f) ELSE pte[s][p]]

\* vm_fork: own pages are adopted, or without room to keep track of one copied.
Fork(s, t) ==
  /\ "fork" \in Does /\ s \in live /\ t \in Spaces \ live
  /\ Cardinality(live) < setup.processes
  /\ \E A \in SUBSET OwnPages(s) :
     \E g \in Injections(OwnPages(s) \ A, free) :
       LET copies == {g[p] : p \in OwnPages(s) \ A}
       IN /\ pte' = [pte EXCEPT ![s] = Adopted(s, A),
                       ![t] = [p \in Pages |->
                                 IF p \in OwnPages(s) \ A THEN Own(g[p])
                                 ELSE IF p \in A THEN Cow(pte[s][p].f) ELSE pte[s][p]]]
          /\ refs' = [f \in Frames |-> IF \E p \in A : pte[s][p].f = f THEN 2
                                       ELSE refs[f] + Times(s, Pages, f)]
          /\ data' = [f \in Frames |->
                        IF f \in copies
                        THEN data[pte[s][CHOOSE p \in DOMAIN g : g[p] = f].f] ELSE data[f]]
          /\ free' = free \ copies
  /\ live' = live \union {t} /\ maps' = [maps EXCEPT ![t] = maps[s]]
  /\ UNCHANGED <<key, disk, opens, frame>>

\* Out of memory half way: the child is undone; pages adopted so far have one
\* holder, and stay in common.
ForkFails(s) ==
  /\ "forkfails" \in Does /\ s \in live /\ Cardinality(live) < setup.processes
  /\ \E n \in Pages : \E A \in SUBSET {p \in OwnPages(s) : p < n} :
       /\ pte' = [pte EXCEPT ![s] = Adopted(s, A)]
       /\ refs' = [f \in Frames |-> IF \E p \in A : pte[s][p].f = f THEN 1 ELSE refs[f]]
  /\ UNCHANGED <<live, maps, key, free, data, disk, opens, frame>>

\* vm_reset for a program starting in the place of another; vm_space_free.
Exec(s) ==
  /\ "exec" \in Does /\ s \in live
  /\ PagesBack(s, Pages) /\ pte' = Emptied(s, Pages)
  /\ maps' = [maps EXCEPT ![s] = {}]
  /\ UNCHANGED <<live, data, disk, opens, frame>>

Exit(s) ==
  /\ s \in live
  /\ PagesBack(s, Pages) /\ pte' = Emptied(s, Pages)
  /\ maps' = [maps EXCEPT ![s] = {}] /\ live' = live \ {s}
  /\ UNCHANGED <<data, disk, opens, frame>>

Init ==
  /\ setup \in Setups
  /\ live \in {{s} : s \in Spaces}
  /\ pte = [s \in Spaces |-> [p \in Pages |-> NoPage]]
  /\ maps = [s \in Spaces |-> {}]
  /\ refs = [f \in Frames |-> 0] /\ key = [f \in Frames |-> None]
  /\ free = Frames /\ data = [f \in Frames |-> 0]
  /\ disk = [i \in 1 .. FilePages |-> 1]
  /\ opens = 0 /\ frame = [i \in Indexes |-> None] /\ did = Nothing

Others ==
  \/ \E s \in Spaces : Exec(s) \/ Exit(s) \/ ForkFails(s)
  \/ \E s, t \in Spaces : Fork(s, t)
  \/ \E s \in Spaces, p \in Used :
       \/ WriteFault(s, p) \/ TouchFault(s, p) \/ FileFault(s, p)
       \/ MapDevice(s, p)
       \/ \E i \in Indexes : MapShared(s, p, i)
       \/ \E b \in p .. setup.used :
            \/ Unmap(s, p, b)
            \/ \E i \in 1 .. FilePages : MapFile(s, p, b, i)
  \/ OpenMemory \/ CloseMemory
  \/ \E i \in Indexes, v \in Vals : WriteMemory(i, v)
  \/ \E i \in 1 .. FilePages, v \in Vals : FileWrite(i, v)

Steps ==
  \/ Others /\ did' = Nothing
  \/ \E s \in Spaces, p \in Used :
       /\ \/ MapAnon(s, p)
          \/ \E v \in Vals : Write(s, p, v)
          \/ \E i \in 1 .. FilePages + 1 : MapFileNow(s, p, i)
       /\ did' = [op |-> "write", s |-> s, P |-> {p}]
  \/ \E s \in Spaces, a, b \in Used : Madvise(s, a, b)

Next == Steps /\ Cardinality(Frames \ free') <= setup.memory /\ UNCHANGED setup

Spec == Init /\ [][Next]_vars

----------------------------------------------------------------------------
Entries == {NoPage, Dev} \union {Own(f) : f \in Frames} \union {Cow(f) : f \in Frames}
             \union {Shm(f) : f \in Frames}

\* The type of every variable.
TypeOK ==
  /\ live \subseteq Spaces /\ pte \in [Spaces -> [Pages -> Entries]]
  /\ refs \in [Frames -> Nat] /\ key \in [Frames -> 1 .. FilePages \union {None}]
  /\ free \subseteq Frames /\ data \in [Frames -> Vals] /\ disk \in [1 .. FilePages -> Vals]
  /\ did.P \subseteq Pages /\ opens \in 0 .. MaxOpen
  /\ frame \in [Indexes -> Frames \union {None}]
  /\ \A s \in Spaces : \A m \in maps[s] : m.at \in Pages /\ m.end \in m.at .. NPages

Holders(f) == {sp \in Spaces \X Pages : pte[sp[1]][sp[2]].f = f}
ObjectsOf(f) == {i \in Indexes : frame[i] = f}

\* share.c's count of a page is the number of page table entries that say it is
\* in common, and of memory files that hold it: counted too low, a fork's page is
\* freed or written under the other; too high, it is never given back (share.c:181).
CountedRight ==
  \A f \in Frames :
    refs[f] = Cardinality({h \in Holders(f) : Common(pte[h[1]][h[2]])}) + Cardinality(ObjectsOf(f))

\* A page of memory is free, or one process's own and in nobody else's tables, or
\* in share.c's with its holders counted right: never two of these, and never none of
\* them, which is a page lost.
OnePlace ==
  TypeOK /\ CountedRight /\ \A f \in Frames :
    LET own == {h \in Holders(f) : pte[h[1]][h[2]].k = "own"}
    IN \/ f \in free /\ Holders(f) = {} /\ refs[f] = 0
       \/ f \notin free /\ Cardinality(own) = 1 /\ Holders(f) = own /\ refs[f] = 0
       \/ f \notin free /\ own = {} /\ refs[f] > 0

\* A page found by its place in the file (shared_find) holds what the file holds
\* there now: nobody has written in it, and the file has not been written since.
KeyTrue ==
  \A f \in Frames : key[f] # None => refs[f] > 0 /\ data[f] = disk[key[f]]

Promises == INSTANCE OwnMemory WITH
  Objects <- Frames, obj <- data,
  mem <- [s \in Spaces |-> [p \in Pages |->
            CASE pte[s][p].k = "none" -> Untouched
              [] pte[s][p].k = "dev"  -> Screen
              [] pte[s][p].k = "shm"  -> pte[s][p].f
              [] OTHER -> data[pte[s][p].f]]]

\* The pages in common, copied on the first write, are to every process as if they
\* were its own: vm.c and share.c implement OwnMemory.
MemoryIsOwn == Promises!Spec
=============================================================================
