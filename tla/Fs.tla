--------------------------------- MODULE Fs ---------------------------------
(***************************************************************************)
(* The filesystem (kernel/fs.c): a header, a table of entries that grows   *)
(* by being moved, an index of the names that is made again twice as large *)
(* once half full, and files that are each one run of sectors.             *)
(*                                                                         *)
(* A call does not wait, so each is one action; but it writes its sectors  *)
(* one put at a time, and the disk may fail, or the power go, at any of    *)
(* them.  The operators below take and give a record of the disk and the   *)
(* header in memory, with what is to go wrong: see Start.  What is read is *)
(* what the disk has (DiskCache's CopiesTrue).  A name is a whole path.    *)
(***************************************************************************)
EXTENDS Integers, Sequences, FiniteSets, SequencesExt, FiniteSetsExt

CONSTANT Setups  \* the disks, and what is done with each, a run goes through

(***************************************************************************)
(* Of a setup: Sectors, the disk's; SECTOR, bytes in one of them;          *)
(* PER_SECTOR and RECORDS, entries and records in one; TABLE_FIRST,        *)
(* TABLE_STEP, INDEX_FIRST, CHUNK, MOVE_RUN and FS_LINKS; Names, the names *)
(* used, "d/" being a folder, and hash, what hash_of makes of them and of  *)
(* "", the root; Sizes and Offsets, of what is written; Vals, the bytes;   *)
(* links, the name each target stands for; Frees, sectors Resize leaves;   *)
(* Does, the calls and failures there are; MaxPuts, the bound on the       *)
(* writes before one that fails.                                           *)
(***************************************************************************)
ASSUME FsConstants == \A s \in Setups :
  /\ {s.Sectors, s.SECTOR, s.PER_SECTOR, s.RECORDS, s.TABLE_FIRST, s.TABLE_STEP, s.INDEX_FIRST,
      s.CHUNK, s.MOVE_RUN} \subseteq Nat \ {0}
  /\ s.hash \in [s.Names \union {""} -> Nat] /\ 0 \notin s.Vals
  /\ s.links \in [DOMAIN s.links -> s.Names]
  /\ s.Does \subseteq {"write", "writeat", "remove", "mkdir", "rename", "symlink", "mode", "resize",
                       "fail", "crash", "pastend", "growfull"}

VARIABLES
  setup,
  disk,    \* what each sector says
  head,    \* the header in memory: what the disk has of it, where that is not held
  files,   \* what callers were told the files are
  harmed   \* the names the call that failed was about, with which a behaviour ends

vars == <<setup, disk, head, files, harmed>>

SECTOR == setup.SECTOR
PER_SECTOR == setup.PER_SECTOR
RECORDS == setup.RECORDS
CHUNK == setup.CHUNK
MOVE_RUN == setup.MOVE_RUN
FS_LINKS == setup.FS_LINKS
Names == setup.Names
Hash(n) == setup.hash[n]
Does == setup.Does

FS_LBA == 1
DATA_LBA == FS_LBA + 1
GONE == -1
FS_MODE == 1000    \* a bit no sector's number has

FolderOf(n) == IF n \in {"d/a", "d/b"} THEN "d/" ELSE ""
IsFolder(n) == n = "d/"
FileNames == {n \in Names : ~IsFolder(n)}

NoEntry == [name |-> "", start |-> 0, size |-> 0, link |-> FALSE]
NoRecord == [hash |-> 0, parent |-> 0, entry |-> 0]
Gone == [NoRecord EXCEPT !.entry = GONE]

Run(start, n) == start .. start + n - 1
SectorsFor(bytes) == (bytes + SECTOR - 1) \div SECTOR
TableSectors(entries) == (entries + PER_SECTOR - 1) \div PER_SECTOR

\* A call under way: disk and header, its result so far, the place and the entry
\* (plus one) it last found; which of the two things of Does that break the properties it
\* met (odd): a gap past the end, an index that cannot grow once its entry is made; and
\* what goes wrong: the put `left` puts from now gets
\* `part` of its sectors on the disk, and with `crash` it is the last one.
Start(fault) == [disk |-> disk, head |-> head, err |-> "ok", at |-> 0, e |-> 0, hit |-> FALSE, odd |-> {},
                 left |-> fault.left, part |-> fault.part, crash |-> fault.crash]

Fail(m, err) == [m EXCEPT !.err = err]
Then(m, F(_)) == IF m.err = "ok" THEN F(m) ELSE m

Put(m, lba, said) ==
  LET fails == m.left = 0
      n == IF fails THEN Min({m.part, Len(said)}) ELSE Len(said)
  IN [m EXCEPT !.disk = [s \in Run(lba, n) |-> said[s - lba + 1]] @@ m.disk,
               !.err  = IF fails THEN "EIO" ELSE m.err,
               !.hit  = m.hit \/ fails,
               !.left = IF fails /\ m.crash THEN 0 ELSE m.left - 1,
               !.part = IF fails THEN 0 ELSE m.part]

\* A header that could not be saved is read again.
SaveHeader(m) ==
  LET p == Put(m, FS_LBA, <<m.head>>)
  IN IF p.err = "ok" THEN p ELSE [p EXCEPT !.head = p.disk[FS_LBA]]

\* Entry e, counting from one as free_head and the index do.
EntryAt(e) == <<(e - 1) \div PER_SECTOR, ((e - 1) % PER_SECTOR) + 1>>
Entry(m, e) == m.disk[m.head.table + EntryAt(e)[1]][EntryAt(e)[2]]

WriteEntry(m, e, entry) ==
  LET lba == m.head.table + EntryAt(e)[1]
  IN Put(m, lba, <<[m.disk[lba] EXCEPT ![EntryAt(e)[2]] = entry]>>)

InUse(m) == {e \in 1 .. m.head.next : Entry(m, e).name # ""}

----------------------------------------------------------------------------
(* The index.                                                              *)

\* The k-th record a search for hash h goes through, and where it is.
Searched(m) == 1 .. m.head.isectors * RECORDS
Lba(m, h, k) == m.head.index + ((h + (k - 1) \div RECORDS) % m.head.isectors)
InSector(k) == ((k - 1) % RECORDS) + 1
RecordAt(m, h, k) == m.disk[Lba(m, h, k)][InSector(k)]

\* The first record in a search for which Test holds, 0 if an end comes before it.
First(m, h, Test(_)) ==
  LET S == {k \in Searched(m) : Test(RecordAt(m, h, k))} IN IF S = {} THEN 0 ELSE Min(S)
Probe(m, h, Test(_)) ==
  LET k == First(m, h, LAMBDA r : r.entry = 0 \/ Test(r))
  IN IF k # 0 /\ Test(RecordAt(m, h, k)) THEN k ELSE 0

\* find: the entry of that name, 0 for none.
Find(m, n) ==
  LET k == Probe(m, Hash(n), LAMBDA r : r.entry \in 1 .. m.head.next /\ r.hash = Hash(n)
                                           /\ Entry(m, r.entry).name = n)
  IN IF k = 0 THEN 0 ELSE RecordAt(m, Hash(n), k).entry

ParentExists(m, n) == FolderOf(n) = "" \/ Find(m, FolderOf(n)) # 0

\* fs_list, to its end: the names in a folder.
Listed(m, folder) ==
  {Entry(m, e).name : e \in {e \in InUse(m) :
     /\ FolderOf(Entry(m, e).name) = folder
     /\ \E lba \in m.head.index .. m.head.index + m.head.isectors - 1, i \in 1 .. RECORDS :
          m.disk[lba][i].entry = e /\ m.disk[lba][i].parent = Hash(folder)}}

\* Mutant: the index is not among what is hopped over.
AllocateGapIndex(m, count, e) ==
  LET taken == Run(m.head.table, TableSectors(m.head.size))
                 \union UNION {Run(Entry(m, f).start, SectorsFor(Entry(m, f).size)) : f \in InUse(m) \ {e}}
      S == {s \in DATA_LBA .. m.head.sectors - count : Run(s, count) \intersect taken = {}}
  IN IF S = {} THEN Fail(m, "ENOSPC")
     ELSE [m EXCEPT !.at = Min(S), !.odd = IF Min(S) + count > m.head.end THEN @ \union {"pastend"} ELSE @]

\* A run of count sectors nothing is in, the lowest: the table, the index and every
\* file but e's are hopped over.  It may reach past head.end, which stays (pastend).
AllocateGap(m, count, e) ==
  LET taken == Run(m.head.table, TableSectors(m.head.size)) \union Run(m.head.index, m.head.isectors)
                 \union UNION {Run(Entry(m, f).start, SectorsFor(Entry(m, f).size)) : f \in InUse(m) \ {e}}
      S == {s \in DATA_LBA .. m.head.sectors - count : Run(s, count) \intersect taken = {}}
  IN IF S = {} THEN Fail(m, "ENOSPC")
     ELSE [m EXCEPT !.at = Min(S), !.odd = IF Min(S) + count > m.head.end THEN @ \union {"pastend"} ELSE @]

\* allocate: where entry e's file is, grown where it is, past everything, or a gap.
Allocate(m, count, e) ==
  LET start == Entry(m, e).start
      have == SectorsFor(Entry(m, e).size)
  IN CASE e # 0 /\ count <= have -> [m EXCEPT !.at = start]
       [] e # 0 /\ count > have /\ start + have = m.head.end /\ start + count <= m.head.sectors ->
            [m EXCEPT !.at = start, !.head.end = start + count]
       [] OTHER ->
            IF m.head.end + count <= m.head.sectors
            THEN [m EXCEPT !.at = m.head.end, !.head.end = @ + count]
            ELSE AllocateGap(m, count, e)

\* A new index of so many sectors, made from the table.
Remade(m, sectors) ==
  LET size == sectors * RECORDS
      Insert(t, e) ==
        LET n == Entry(m, e).name
            first == (Hash(n) % sectors) * RECORDS
            d == Min({k \in 0 .. size - 1 : t[(first + k) % size].entry = 0})
        IN [t EXCEPT ![(first + d) % size] = [hash |-> Hash(n), parent |-> Hash(FolderOf(n)), entry |-> e]]
      t == FoldLeft(Insert, [k \in 0 .. size - 1 |-> NoRecord], SetToSortSeq(InUse(m), <))
  IN [s \in 1 .. sectors |-> [i \in 1 .. RECORDS |-> t[(s - 1) * RECORDS + i - 1]]]

IndexGrow(m) ==
  LET sectors == m.head.isectors * 2
      a == Allocate(m, sectors, 0)
      p == IF a.err = "ok" THEN Put(a, a.at, Remade(m, sectors)) ELSE [a EXCEPT !.odd = @ \union {"growfull"}]
  IN Then(p, LAMBDA x : SaveHeader([x EXCEPT !.head.index = x.at, !.head.isectors = sectors,
                                              !.head.taken = Cardinality(InUse(x))]))

\* place: the k-th record of the search is made r.  Whether the disk took it is not
\* looked at.
Place(m, h, k, r) ==
  LET lba == Lba(m, h, k)
      p == Put(m, lba, <<[m.disk[lba] EXCEPT ![InSector(k)] = r]>>)
  IN [p EXCEPT !.err = m.err]

IndexAdd(m, n, e) ==
  LET k == First(m, Hash(n), LAMBDA r : r.entry \in {0, GONE})
      new == k # 0 /\ RecordAt(m, Hash(n), k).entry = 0
      c == IF new THEN [m EXCEPT !.head.taken = @ + 1] ELSE m
  IN IF (m.head.taken + 1) * 2 > m.head.isectors * RECORDS THEN IndexGrow(m)
     ELSE IF k = 0 THEN m
     ELSE Place(c, Hash(n), k, [hash |-> Hash(n), parent |-> Hash(FolderOf(n)), entry |-> e])

IndexRemove(m, n, e) ==
  LET k == Probe(m, Hash(n), LAMBDA r : r.entry = e)
  IN IF k = 0 THEN m ELSE Place(m, Hash(n), k, Gone)

----------------------------------------------------------------------------
(* Entries.                                                                *)

\* The table copied to where there is room for TABLE_STEP entries more, a chunk at a
\* time.
TableGrown(m) ==
  LET size == m.head.size + setup.TABLE_STEP
      have == TableSectors(m.head.size)
      count == TableSectors(size)
      a == Allocate(m, count, 0)
      Old(i) == IF i < have THEN m.disk[m.head.table + i] ELSE [k \in 1 .. PER_SECTOR |-> NoEntry]
      Copy(x, c) ==
        Then(x, LAMBDA y : Put(y, y.at + (c - 1) * CHUNK,
                               [k \in 1 .. Min({CHUNK, count - (c - 1) * CHUNK}) |-> Old((c - 1) * CHUNK + k - 1)]))
      p == FoldLeft(Copy, a, [c \in 1 .. (count + CHUNK - 1) \div CHUNK |-> c])
  IN Then(p, LAMBDA x : [x EXCEPT !.head.table = x.at, !.head.size = size])

NewEntry(m) == [m EXCEPT !.e = m.head.next + 1, !.head.next = @ + 1]

FreeEntry(m) ==
  IF m.head.free # 0
  THEN IF m.head.free > m.head.next THEN Fail(m, "ENOSPC")
       ELSE [m EXCEPT !.e = m.head.free, !.head.free = Entry(m, m.head.free).start]
  ELSE IF m.head.next < m.head.size THEN NewEntry(m)
  ELSE Then(TableGrown(m), NewEntry)

DropEntry(m, e, n) ==
  LET i == IndexRemove(m, n, e)
      w == Then(i, LAMBDA x : WriteEntry(x, e, [NoEntry EXCEPT !.start = x.head.free]))
  IN Then(w, LAMBDA x : SaveHeader([x EXCEPT !.head.free = e]))

LinkAt(m, e) == IF e # 0 /\ Entry(m, e).link THEN Entry(m, e).start ELSE 0

\* What a link holds, followed from one to the next; "" where they go round.
Followed(m, n, at) == IF at = 0 THEN n ELSE setup.links[m.disk[at][1]]
Settled(m, n) == IF LinkAt(m, Find(m, n)) # 0 THEN "" ELSE n
Resolve(m, n) ==
  LET hop[k \in 0 .. FS_LINKS] == IF k = 0 THEN n ELSE Followed(m, hop[k - 1], LinkAt(m, Find(m, hop[k - 1])))
  IN Settled(m, hop[FS_LINKS])

----------------------------------------------------------------------------
(* The calls.                                                              *)

\* Sector i, counting from 0, of bytes that end in it or go on past it.
Padded(bytes, i) == [b \in 1 .. SECTOR |-> IF i * SECTOR + b <= Len(bytes) THEN bytes[i * SECTOR + b] ELSE 0]

\* store: the sectors, then the entry, then the index, then the header.
Store(m, n, bytes, link) ==
  LET old == Find(m, n)
      count == SectorsFor(Len(bytes))
      whole == Len(bytes) \div SECTOR
      f == IF old # 0 THEN [m EXCEPT !.e = old] ELSE FreeEntry(m)
      a == Then(f, LAMBDA x : Allocate(x, count, old))
      d == Then(a, LAMBDA x : IF whole = 0 THEN x ELSE Put(x, x.at, [i \in 1 .. whole |-> Padded(bytes, i - 1)]))
      p == Then(d, LAMBDA x : IF whole = count THEN x ELSE Put(x, x.at + whole, <<Padded(bytes, whole)>>))
      w == Then(p, LAMBDA x : WriteEntry(x, x.e, [name |-> n, start |-> x.at, size |-> Len(bytes), link |-> link]))
      i == Then(w, LAMBDA x : IF old # 0 THEN x ELSE IndexAdd(x, n, x.e))
  IN IF ~ParentExists(m, n) THEN Fail(m, "ENOENT") ELSE Then(i, SaveHeader)

\* What a sector in no run says: it is written before it is read, so it is not kept
\* apart what it says.  The header on the disk may point elsewhere than that in memory.
Junk == [b \in 1 .. SECTOR |-> -1]
Swept(m) ==
  LET Held(x) == {FS_LBA} \union Run(x.head.table, TableSectors(x.head.size)) \union Run(x.head.index, x.head.isectors)
                   \union UNION {Run(Entry(x, f).start, SectorsFor(Entry(x, f).size)) : f \in InUse(x)}
      held == Held(m) \union Held([m EXCEPT !.head = m.disk[FS_LBA]])
  IN [s \in DOMAIN m.disk |-> IF s \in held THEN m.disk[s] ELSE Junk]

Faults ==
  LET At(crash) == {[left |-> l, part |-> p, crash |-> crash] : l \in 0 .. setup.MaxPuts, p \in 0 .. 1}
  IN {[left |-> -1, part |-> 0, crash |-> FALSE]}
       \union (IF "fail" \in Does THEN At(FALSE) ELSE {}) \union (IF "crash" \in Does THEN At(TRUE) ELSE {})

\* What is left of a call about the names ns that ended in m, what it was for being told.
Became(m, ns, told) ==
  /\ m.odd \subseteq Does
  /\ disk' = Swept(m)
  /\ head' = IF m.hit /\ m.crash THEN m.disk[FS_LBA] ELSE m.head
  /\ harmed' = IF m.hit THEN ns ELSE {}
  /\ files' = IF m.err = "ok" /\ ~m.hit THEN told ELSE files

\* A call: what it does is F.
Call(F(_), ns, told) == harmed = {} /\ \E fault \in Faults : Became(F(Start(fault)), ns, told)

Absent == [there |-> FALSE, link |-> FALSE, mode |-> 0, bytes |-> <<>>]
Present == [Absent EXCEPT !.there = TRUE]
Now == Start([left |-> -1, part |-> 0, crash |-> FALSE])

\* An empty file made empty again keeps its mode; one with sectors has none.
WithBytes(f, bytes, link) ==
  [Present EXCEPT !.bytes = bytes, !.link = link, !.mode = IF bytes = <<>> /\ f.bytes = <<>> THEN f.mode ELSE 0]

Write(n, size, v) ==
  LET bytes == [i \in 1 .. size |-> v]
  IN /\ "write" \in Does
     /\ \E name \in {Resolve(Now, n)} \ {""} :
          Call(LAMBDA m : Store(m, name, bytes, FALSE), {name},
               [files EXCEPT ![name] = WithBytes(@, bytes, FALSE)])

\* fs_symlink: only where nothing is.
Symlink(n, target) ==
  /\ "symlink" \in Does /\ Find(Now, n) = 0
  /\ Call(LAMBDA m : Store(m, n, <<target>>, TRUE), {n},
          [files EXCEPT ![n] = WithBytes(@, <<target>>, TRUE)])

\* fs_remove: a link goes itself; a folder only once there is nothing in it.
FsRemove(n) ==
  /\ "remove" \in Does /\ Find(Now, n) # 0
  /\ IsFolder(n) => Listed(Now, n) = {}
  /\ Call(LAMBDA m : DropEntry(m, Find(m, n), n), {n}, [files EXCEPT ![n] = Absent])

Mkdir(n) ==
  LET Made(m) ==
        LET f == FreeEntry(m)
            w == Then(f, LAMBDA x : WriteEntry(x, x.e, [NoEntry EXCEPT !.name = n]))
            i == Then(w, LAMBDA x : IndexAdd(x, n, x.e))
        IN Then(i, SaveHeader)
  IN /\ "mkdir" \in Does /\ Find(Now, n) = 0
     /\ Call(Made, {n}, [files EXCEPT ![n] = Present])

SetMode(n, mode) ==
  /\ "mode" \in Does
  /\ \E name \in {IF IsFolder(n) THEN n ELSE Resolve(Now, n)} \ {""} : \E e \in {Find(Now, name)} \ {0} :
       /\ Entry(Now, e).size = 0
       /\ Call(LAMBDA m : WriteEntry(m, e, [Entry(m, e) EXCEPT !.start = FS_MODE + mode]), {name},
               [files EXCEPT ![name].mode = mode])

\* The name changed; what was there before has gone.
Renamed(m, from, to) ==
  LET e == Find(m, from)
      i == IndexRemove(m, from, e)
      w == Then(i, LAMBDA x : WriteEntry(x, e, [Entry(x, e) EXCEPT !.name = to]))
  IN Then(w, LAMBDA x : IndexAdd(x, to, e))

Rename(from, to) ==
  LET Moved(m) ==
        LET d == IF Find(m, to) # 0 THEN DropEntry(m, Find(m, to), to) ELSE m
        IN Then(d, LAMBDA x : IF ParentExists(x, to) THEN Renamed(x, from, to) ELSE Fail(x, "ENOENT"))
  IN /\ "rename" \in Does /\ Find(Now, from) # 0 /\ from # to
     /\ Call(Moved, {from, to}, [files EXCEPT ![to] = files[from], ![from] = Absent])

----------------------------------------------------------------------------
(* fs_write_at                                                             *)

\* The first sectors of a file that outgrew its place, and zeroes up to what is
\* written, carried to x.at a run at a time.
Carried(m, start, have, upto) ==
  LET first == IF m.at # start THEN 0 ELSE have
      Zeroes == [b \in 1 .. SECTOR |-> 0]
      Move(x, c) ==
        Then(x, LAMBDA y :
          LET i == first + (c - 1) * MOVE_RUN
          IN Put(y, y.at + i, [k \in 1 .. Min({MOVE_RUN, upto - i}) |->
                                 IF i + k - 1 < have THEN y.disk[start + i + k - 1] ELSE Zeroes]))
  IN FoldLeft(Move, m, [c \in 1 .. (upto - first + MOVE_RUN - 1) \div MOVE_RUN |-> c])

\* Mutant: what was in a sector only partly written is not read first.
KeptNot(m, start, have, i) == [b \in 1 .. SECTOR |-> 0]

\* What a sector only partly written keeps.
Kept(m, start, have, i) == IF i < have THEN m.disk[start + i] ELSE [b \in 1 .. SECTOR |-> 0]

\* The bytes from offset on, v: a first part of a sector, whole ones, a last part.
Covered(m, have, offset, size, v) ==
  LET Whole == {i \in 0 .. offset + size : i * SECTOR >= offset /\ (i + 1) * SECTOR <= offset + size}
      Touched == offset \div SECTOR .. (offset + size - 1) \div SECTOR
      Part(x, i) ==
        Then(x, LAMBDA y : Put(y, y.at + i, <<[b \in 1 .. SECTOR |->
               IF i * SECTOR + b - 1 \in offset .. offset + size - 1 THEN v
               ELSE Kept(y, y.at, have, i)[b]]>>))
      before == {i \in Touched \ Whole : i = offset \div SECTOR}
      p == FoldLeft(Part, m, SetToSeq(before))
      w == Then(p, LAMBDA x : IF Whole = {} THEN x
                              ELSE Put(x, x.at + Min(Whole), [i \in 1 .. Cardinality(Whole) |-> [b \in 1 .. SECTOR |-> v]]))
  IN FoldLeft(Part, w, SetToSeq(Touched \ (Whole \union before)))

PutIn(m, e, f, offset, size, v) ==
  LET end == Max({offset + size, f.size})
      have == SectorsFor(f.size)
      upto == Max({offset \div SECTOR, have})
      a == IF SectorsFor(end) > have THEN Allocate(m, SectorsFor(end), e) ELSE [m EXCEPT !.at = f.start]
      c == Then(a, LAMBDA x : IF SectorsFor(end) > have /\ ((x.at # f.start /\ have > 0) \/ upto > have)
                              THEN Carried(x, f.start, have, upto) ELSE x)
      d == Then(c, LAMBDA x : Covered(x, have, offset, size, v))
      w == Then(d, LAMBDA x : WriteEntry(x, e, [f EXCEPT !.start = x.at, !.size = end]))
  IN Then(w, SaveHeader)
PutAt(m, n, offset, size, v) == PutIn(m, Find(m, n), Entry(m, Find(m, n)), offset, size, v)

\* What lies between the end and what is written past it reads as zeroes.
WrittenAt(f, offset, size, v) ==
  [Present EXCEPT !.bytes = [i \in 1 .. Max({offset + size, Len(f.bytes)}) |->
     IF i - 1 \in offset .. offset + size - 1 THEN v ELSE IF i <= Len(f.bytes) THEN f.bytes[i] ELSE 0]]

WriteAt(n, offset, size, v) ==
  /\ "writeat" \in Does /\ size > 0
  /\ \E name \in {Resolve(Now, n)} \ {""} :
       /\ Find(Now, name) # 0
       /\ Call(LAMBDA m : PutAt(m, name, offset, size, v), {name},
               [files EXCEPT ![name] = WrittenAt(@, offset, size, v)])

\* fs_resize: the disk ends so many sectors past everything.
Resize(free) ==
  /\ "resize" \in Does /\ head.end + free <= setup.Sectors
  /\ Call(LAMBDA m : SaveHeader([m EXCEPT !.head.sectors = m.head.end + free]), {}, files)

----------------------------------------------------------------------------
\* fs_format
Init ==
  /\ setup \in Setups
  /\ LET table == TableSectors(setup.TABLE_FIRST)
     IN /\ head = [sectors |-> setup.Sectors, table |-> DATA_LBA, size |-> setup.TABLE_FIRST, next |-> 0,
                   free |-> 0, index |-> DATA_LBA + table, isectors |-> setup.INDEX_FIRST, taken |-> 0,
                   end |-> DATA_LBA + table + setup.INDEX_FIRST]
        /\ disk = [s \in FS_LBA .. setup.Sectors - 1 |->
                     IF s = FS_LBA THEN head
                     ELSE IF s < head.index THEN [k \in 1 .. PER_SECTOR |-> NoEntry]
                     ELSE IF s < head.end THEN [k \in 1 .. RECORDS |-> NoRecord]
                     ELSE Junk]
  /\ files = [n \in Names |-> Absent] /\ harmed = {}

Steps ==
  \/ \E n \in FileNames, v \in setup.Vals, size \in setup.Sizes :
       \/ Write(n, size, v)
       \/ \E offset \in setup.Offsets : WriteAt(n, offset, size, v)
  \/ \E n \in FileNames, t \in DOMAIN setup.links : Symlink(n, t)
  \/ \E n \in Names : SetMode(n, 1) \/ FsRemove(n)
  \/ \E n \in Names \ FileNames : Mkdir(n)
  \/ \E from, to \in FileNames : Rename(from, to)
  \/ \E free \in setup.Frees : Resize(free)

Next == Steps /\ UNCHANGED setup

Spec == Init /\ [][Next]_vars

----------------------------------------------------------------------------
\* What a file is, read the way fs_stat and fs_read_many do.
Contents(n) ==
  LET e == Find(Now, n)
      f == Entry(Now, e)
  IN IF e = 0 THEN Absent
     ELSE [there |-> TRUE, link |-> f.link, mode |-> IF f.size = 0 /\ f.start >= FS_MODE THEN f.start - FS_MODE ELSE 0,
           bytes |-> [i \in 1 .. f.size |-> disk[f.start + (i - 1) \div SECTOR][((i - 1) % SECTOR) + 1]]]

\* Every file is what callers were told it is, through tables and indexes that move,
\* runs that are moved over themselves, links and names that share a hash; and a call
\* that fails or is cut short at any sector harms no file but those it was about.
FilesTrue == \A n \in Names \ harmed : Contents(n) = files[n]

\* The runs there are: the table, the index and each file with any bytes.
Runs == <<Run(head.table, TableSectors(head.size)), Run(head.index, head.isectors)>>
          \o [k \in 1 .. head.next |->
                IF Entry(Now, k).name = "" THEN {} ELSE Run(Entry(Now, k).start, SectorsFor(Entry(Now, k).size))]

\* A sector is in one run only ("each file one contiguous run of sectors").
SectorsOnce ==
  harmed = {} => \A i, j \in DOMAIN Runs : i # j => Runs[i] \intersect Runs[j] = {}

\* The header's data_end: "nothing has been put at or past this" (fs.c:46).
EndTrue == harmed = {} => \A i \in DOMAIN Runs : \A s \in Runs[i] : s < head.end

\* The freed entries are a chain of entries no file has, and it ends.
FreeTrue ==
  LET chain[k \in 0 .. head.next] ==
        IF k = 0 THEN head.free ELSE IF chain[k - 1] = 0 THEN 0 ELSE Entry(Now, chain[k - 1]).start
  IN harmed = {} => /\ \A k \in 0 .. head.next - 1 : chain[k] # 0 => chain[k] \in (1 .. head.next) \ InUse(Now)
                    /\ chain[head.next] = 0

\* The index has a record for every entry in use and no other, and as many as it
\* says; never more than half of them, so every search ends (fs.c:421).
IndexTrue ==
  LET used == {k \in Searched(Now) : RecordAt(Now, 0, k).entry # 0}
      live == {k \in used : RecordAt(Now, 0, k).entry # GONE}
  IN harmed = {} =>
       /\ {RecordAt(Now, 0, k).entry : k \in live} = InUse(Now) /\ Cardinality(live) = Cardinality(InUse(Now))
       /\ head.taken = Cardinality(used) /\ Cardinality(used) * 2 <= Cardinality(Searched(Now))

\* Listing a folder shows what is in it, and nothing is in a folder that is not there.
ListTrue ==
  harmed = {} => \A d \in (Names \ FileNames) \union {""} :
    LET inside == {n \in Names : FolderOf(n) = d /\ files[n].there}
    IN /\ Listed(Now, d) = inside
       /\ d # "" /\ inside # {} => files[d].there

\* What is on the disk hangs together: one run a sector, an end that is the end, entries
\* that are free or found, folders that list what is in them, as no later call can tell.
DiskSound == SectorsOnce /\ EndTrue /\ FreeTrue /\ IndexTrue /\ ListTrue
=============================================================================
