----------------------------- MODULE DiskCache -----------------------------
(***************************************************************************)
(* What is between a file and the disk: the disk cache module              *)
(* (modules/storage/cache.c), lines of sectors kept in memory nobody else  *)
(* wants; the reads and writes that go through it (kernel/efi.c); and the  *)
(* few sectors the filesystem keeps of its own (kernel/fs.c).              *)
(*                                                                         *)
(* A sector's contents are a value.  Nothing here waits, so each call is   *)
(* one action; what memory there is and whether the disk answers are       *)
(* choices.  The clocks wrap at CLOCK where the code's do at 2^32.         *)
(***************************************************************************)
EXTENDS Integers, Sequences, FiniteSets, SequencesExt, FiniteSetsExt

CONSTANT Setups  \* the disks, and what is done with each, a run goes through

(***************************************************************************)
(* Of a setup: DiskSectors, the partition, which need not end with a line; *)
(* LINE_SECTORS; FIRST_ROOM, lines the module itself has room for;         *)
(* MaxRoom, the bound on how far the table of lines grows; RECENT, sectors *)
(* the filesystem keeps; CLOCK; Limits, the sizes the command sets, in     *)
(* lines, 0 being auto; MaxRead, sectors of the longest read or write;     *)
(* TABLE_LBA and TABLE_SECTORS, what is read in when the cache starts;     *)
(* Vals, what a sector can say; Does, the calls and failures there are.    *)
(***************************************************************************)
ASSUME DiskCacheConstants == \A s \in Setups :
  /\ {s.DiskSectors, s.LINE_SECTORS, s.FIRST_ROOM, s.MaxRoom, s.RECENT, s.CLOCK, s.MaxRead,
      s.TABLE_SECTORS} \subseteq Nat \ {0}
  /\ s.Limits \subseteq Nat /\ 0 \notin s.Vals /\ s.Vals # {}
  /\ s.TABLE_LBA \in Nat /\ s.TABLE_LBA + s.TABLE_SECTORS <= s.DiskSectors
  /\ s.Does \subseteq {"fs", "readfails", "writefails", "cache", "cmd", "module"}

VARIABLES
  setup,
  disk,    \* what the disk has
  c,       \* the cache's lines: see Fresh
  loaded,  \* whether the cache module is
  recent,  \* the filesystem's sectors: recent_lba, recent_used and what they say
  rclock,  \* recent_clock
  sector,  \* the one of them in use
  got      \* what the last read handed out

vars == <<setup, disk, c, loaded, recent, rclock, sector, got>>

DiskSectors == setup.DiskSectors
LINE_SECTORS == setup.LINE_SECTORS
FIRST_ROOM == setup.FIRST_ROOM
MaxRoom == setup.MaxRoom
RECENT == setup.RECENT
CLOCK == setup.CLOCK
Vals == setup.Vals
Does == setup.Does

Junk == 0  \* what memory nothing has filled says

Sectors == 0 .. DiskSectors - 1
NONE == -1
NoMem == <<>>
Nothing == [lba |-> 0, data |-> <<>>]

\* A line as zeroed memory has it, and one just bought.
Zeroed == [first |-> 0, used |-> 0, data |-> NoMem]
Bought == [first |-> NONE, used |-> 0, data |-> [s \in 0 .. LINE_SECTORS - 1 |-> Junk]]

\* module_init.  chains has for each bucket its lines, the head first.
Fresh ==
  [room |-> FIRST_ROOM, lines |-> [i \in 1 .. FIRST_ROOM |-> Zeroed],
   chains |-> [b \in 0 .. FIRST_ROOM - 1 |-> <<>>], count |-> 0, clock |-> 0,
   limit |-> 0, off |-> FALSE, at |-> 0]

Tick(n) == (n + 1) % CLOCK

----------------------------------------------------------------------------
(* The lines                                                               *)

Bucket(x, first) == (first \div LINE_SECTORS) % x.room

Unhook(x, i) ==
  LET b == Bucket(x, x.lines[i].first)
      at == {k \in DOMAIN x.chains[b] : x.chains[b][k] = i}
  IN [x EXCEPT !.chains[b] = IF at = {} THEN @ ELSE RemoveAt(@, Min(at)), !.lines[i].first = NONE]

Unhooked(x, i) == IF x.lines[i].first = NONE THEN x ELSE Unhook(x, i)

Hook(x, i, first) ==
  [x EXCEPT !.chains[Bucket(x, first)] = <<i>> \o @, !.lines[i].first = first]

\* The line that has first, 0 for none.
Find(x, first) ==
  LET chain == x.chains[Bucket(x, first)]
      hits == {k \in DOMAIN chain : x.lines[chain[k]].first = first}
  IN IF hits = {} THEN 0 ELSE chain[Min(hits)]

\* The one used longest ago that has memory, the first of those; 0 for none.
Oldest(x) ==
  LET S == {i \in 1 .. x.room : x.lines[i].data # NoMem}
  IN IF S = {} THEN 0 ELSE CHOOSE i \in S : \A j \in S \ {i} :
       x.lines[i].used < x.lines[j].used \/ (x.lines[i].used = x.lines[j].used /\ i < j)

\* One line's memory given back.
Given(x, i) == [Unhooked(x, i) EXCEPT !.lines[i].data = NoMem, !.count = @ - 1]

\* cap: lines given back, oldest first, until no more than most are left.
Cap(x, most) ==
  LET left[n \in 0 .. x.count] == IF n = 0 THEN x ELSE Given(left[n - 1], Oldest(left[n - 1]))
  IN IF x.count <= most THEN x ELSE left[x.count - most]

\* Mutant: the lines move to a bigger table, the chains stay as they were.
DoubledChains(x) ==
  [x EXCEPT !.room = 2 * @, !.lines = [i \in 1 .. 2 * x.room |-> IF i <= x.room THEN @[i] ELSE Zeroed],
            !.chains = [b \in 0 .. 2 * x.room - 1 |-> IF b < x.room THEN @[b] ELSE <<>>]]
\* A table twice as big, the lines hooked into its chains again.
Doubled(x) ==
  LET big == [x EXCEPT !.room = 2 * @,
                       !.lines = [i \in 1 .. 2 * x.room |-> IF i <= x.room THEN @[i] ELSE Zeroed],
                       !.chains = [b \in 0 .. 2 * x.room - 1 |-> <<>>]]
      again[i \in 0 .. x.room] ==
        IF i = 0 THEN big
        ELSE IF x.lines[i].first = NONE THEN again[i - 1] ELSE Hook(again[i - 1], i, x.lines[i].first)
  IN again[x.room]

MayGrow(x) == x.limit # 0 => x.count < x.limit

\* A line of memory bought, if it may be and there is a place for one, or the oldest used again.
Line(x, bought, old) ==
  LET free == {i \in 1 .. x.room : x.lines[i].data = NoMem}
  IN IF bought /\ free # {} THEN [x EXCEPT !.lines[Min(free)] = Bought, !.count = @ + 1, !.at = Min(free)]
     ELSE [(IF old = 0 THEN x ELSE Unhooked(x, old)) EXCEPT !.at = old]

\* slot: a line with memory to fill, its number in at; memory is what could be bought.
Slot(x, memory) ==
  LET big == IF MayGrow(x) /\ x.count = x.room /\ "table" \in memory /\ x.room < MaxRoom
             THEN Doubled(x) ELSE x
  IN Line(big, MayGrow(x) /\ "line" \in memory, Oldest(big))

----------------------------------------------------------------------------
(* Reading and writing                                                     *)

Contents(lba, n) == [i \in 1 .. n |-> disk[lba + i - 1]]
LineOf(lba) == lba - (lba % LINE_SECTORS)

\* What the read wants of line i, which is used now.
FromLine(r, x, i) ==
  LET within == r.lba % LINE_SECTORS
      take == Min({LINE_SECTORS - within, r.n})
  IN [r EXCEPT !.x = [x EXCEPT !.clock = Tick(@), !.lines[i].used = Tick(r.x.clock)], !.lba = @ + take, !.n = @ - take,
               !.data = @ \o [k \in 1 .. take |-> x.lines[i].data[within + k - 1]]]

\* The line read into the one s has at hand, or the rest of the read made around the cache.
ReadLine(r, e, s) ==
  LET first == LineOf(r.lba)
  IN IF s.at = 0 \/ e.fails \/ first + LINE_SECTORS > DiskSectors
     THEN [r EXCEPT !.x = IF s.at = 0 THEN s ELSE [s EXCEPT !.lines[s.at].data = Bought.data],
                    !.n = 0, !.err = e.around, !.data = @ \o Contents(r.lba, r.n)]
     ELSE FromLine(r, [Hook(s, s.at, first) EXCEPT !.lines[s.at].data = [k \in 0 .. LINE_SECTORS - 1 |-> disk[first + k]]], s.at)

\* One turn of cache_read's loop: r says how far it is, e what memory can be bought,
\* whether the disk fails to read the line, and whether it fails to read around it.
ReadTurn(r, e) ==
  LET l == Find(r.x, LineOf(r.lba))
  IN IF r.n = 0 THEN r
     ELSE IF l # 0 THEN FromLine(r, r.x, l)
     ELSE ReadLine(r, e, Slot(r.x, e.memory))

Memory == IF "cache" \in Does THEN SUBSET {"table", "line"} ELSE {{}}
Fails == IF "readfails" \in Does THEN BOOLEAN ELSE {FALSE}
Answers == {e \in [memory : Memory, fails : Fails, around : Fails] : e.around => e.fails}
Turns(lba, n) == (lba + n - 1) \div LINE_SECTORS - lba \div LINE_SECTORS + 1

\* ata_read_many: through the cache if there is one and it is on, else off the disk.
\* What a read can come to, the cache's lines being x.
Reads(x, lba, n) ==
  LET turn[k \in 0 .. Turns(lba, n)] ==
        IF k = 0 THEN {[x |-> x, lba |-> lba, n |-> n, data |-> <<>>, err |-> FALSE]}
        ELSE {ReadTurn(r, e) : r \in turn[k - 1], e \in Answers}
  IN IF loaded /\ ~x.off THEN {[r EXCEPT !.x.at = 0] : r \in turn[Turns(lba, n)]}
     ELSE {[x |-> x, lba |-> lba, n |-> 0, data |-> Contents(lba, n), err |-> fails] : fails \in Fails}

\* Mutant: only the line the write begins in is kept true.
WrittenFirst(x, lba, data) ==
  LET i == Find(x, LineOf(lba))
      At(k) == x.lines[i].first + k - lba + 1
  IN IF i = 0 THEN x
     ELSE [x EXCEPT !.lines[i].data = [k \in DOMAIN @ |-> IF At(k) \in DOMAIN data THEN data[At(k)] ELSE @[k]]]
\* cache_written: into whatever lines hold those sectors.
Written(x, lba, data) ==
  LET L == {Find(x, LineOf(s)) : s \in lba .. lba + Len(data) - 1}
      At(i, k) == x.lines[i].first + k - lba + 1
      Over(i, old) == [k \in DOMAIN old |-> IF At(i, k) \in DOMAIN data THEN data[At(i, k)] ELSE old[k]]
  IN [x EXCEPT !.lines = [i \in DOMAIN x.lines |->
        IF i \notin L THEN x.lines[i] ELSE [x.lines[i] EXCEPT !.data = Over(i, x.lines[i].data)]]]

\* ata_write_many: the cache first, then the disk, which may fail having put any of it.
Write(x, lba, data, o) ==
  /\ c' = IF loaded THEN Written(x, lba, data) ELSE x
  /\ disk' = [s \in Sectors |-> IF s \in o.put THEN data[s - lba + 1] ELSE disk[s]]

Outcomes(lba, n) ==
  {[ok |-> TRUE, put |-> lba .. lba + n - 1]}
  \union IF "writefails" \in Does THEN [ok : {FALSE}, put : SUBSET (lba .. lba + n - 1)] ELSE {}

----------------------------------------------------------------------------
(* The filesystem's own                                                    *)

Slots == 1 .. RECENT
State == [recent |-> recent, clock |-> rclock, sector |-> sector]

\* take_slot: the slot used longest ago, emptied.
TakeSlot(f) ==
  LET old == CHOOSE i \in Slots : \A j \in Slots \ {i} :
               f.recent[i].used < f.recent[j].used \/ (f.recent[i].used = f.recent[j].used /\ i < j)
  IN [recent |-> [f.recent EXCEPT ![old] = [lba |-> 0, used |-> Tick(f.clock), data |-> @.data]],
      clock |-> Tick(f.clock), sector |-> old]

Kept(lba) == {i \in Slots : recent[i].lba = lba /\ lba # 0}

\* load_sector found it.
Hit(lba) ==
  LET i == Min(Kept(lba))
  IN [recent |-> [recent EXCEPT ![i].used = Tick(rclock)], clock |-> Tick(rclock), sector |-> i]

\* load_sector read it, or could not: the slot then holds nothing.
Miss(lba, r) ==
  LET t == TakeSlot(State)
  IN [t EXCEPT !.recent[t.sector] = [lba |-> IF r.err THEN 0 ELSE lba, used |-> @.used,
                                     data |-> IF r.err THEN Junk ELSE r.data[1]]]

\* put: what is kept of those sectors is forgotten, but for the one being written.
Put(f, lba, n, from) ==
  [f EXCEPT !.recent = [i \in Slots |->
     IF @[i].lba \in lba .. lba + n - 1 /\ i # from THEN [@[i] EXCEPT !.lba = 0] ELSE @[i]]]

Forget(f) == [f EXCEPT !.recent[f.sector].lba = 0]

Fs(f) == recent' = f.recent /\ rclock' = f.clock /\ sector' = f.sector

----------------------------------------------------------------------------
Handed(lba, r) == got' = IF r.err THEN Nothing ELSE [lba |-> lba, data |-> r.data]

\* fs_read_many and the rest that reads past the filesystem's own sectors.
ReadMany(lba, n) ==
  \E r \in Reads(c, lba, n) :
    /\ c' = r.x /\ Handed(lba, r)
    /\ UNCHANGED <<disk, loaded, recent, rclock, sector>>

\* load_sector, as find, read_entry, probe and fs_sector call it.
LoadSector(lba) ==
  /\ "fs" \in Does
  /\ \/ Kept(lba) # {} /\ Fs(Hit(lba)) /\ got' = Nothing /\ UNCHANGED c
     \/ /\ Kept(lba) = {}
        /\ \E r \in Reads(c, lba, 1) : Fs(Miss(lba, r)) /\ Handed(lba, r) /\ c' = r.x
  /\ UNCHANGED <<disk, loaded>>

\* The sector in hand changed and written back, from a state f of the slots.
Change(f, x, lba, v, o) ==
  LET p == Put([f EXCEPT !.recent[f.sector].data = v], lba, 1, f.sector)
  IN Write(x, lba, <<v>>, o) /\ Fs(IF o.ok THEN p ELSE Forget(p))

\* save_header, write_entry, place: a sector loaded, changed and written back.
ChangeSector(lba, v, o) ==
  /\ "fs" \in Does
  /\ \/ Kept(lba) # {} /\ Change(Hit(lba), c, lba, v, o)
     \/ /\ Kept(lba) = {}
        /\ \E r \in Reads(c, lba, 1) :
             IF r.err THEN Fs(Miss(lba, r)) /\ c' = r.x /\ UNCHANGED disk
             ELSE Change(Miss(lba, r), r.x, lba, v, o)
  /\ got' = Nothing /\ UNCHANGED loaded

\* The last, partial sector of a file, put together in a slot (store, which
\* does not read it first, and fs_write_at, which does).
PutScratch(lba, v, o) ==
  LET t == TakeSlot(State)
  IN /\ "fs" \in Does
     /\ \E r \in Reads(c, lba, 1) \union {[x |-> c, err |-> FALSE]} :
          IF r.err THEN Fs(t) /\ c' = r.x /\ UNCHANGED disk
          ELSE /\ Write(r.x, lba, <<v>>, o)
               /\ Fs(Put([t EXCEPT !.recent[t.sector].data = v], lba, 1, t.sector))
     /\ got' = Nothing /\ UNCHANGED loaded

\* Whole sectors, straight from the caller's memory.
PutMany(lba, n, v, o) ==
  /\ Write(c, lba, [i \in 1 .. n |-> v], o)
  /\ Fs(Put(State, lba, n, 0))
  /\ got' = Nothing /\ UNCHANGED loaded

\* fs_cache: when a driver takes the disk the slots are others, holding nothing.
FsCache ==
  /\ "fs" \in Does
  /\ recent' = [i \in Slots |-> [recent[i] EXCEPT !.lba = 0]] /\ sector' = 1
  /\ got' = Nothing /\ UNCHANGED <<disk, c, loaded, rclock>>

Cached(x) ==
  c' = x /\ got' = Nothing /\ UNCHANGED <<disk, recent, rclock, sector>>

\* cache_shrink: an allocation asks for the memory of so many lines back.
Shrink(lines) ==
  /\ loaded /\ c.count > 0
  /\ Cached(Cap(c, IF c.count > lines THEN c.count - lines ELSE 0)) /\ UNCHANGED loaded

CmdOff ==
  /\ "cmd" \in Does /\ loaded
  /\ Cached([Cap(c, 0) EXCEPT !.off = TRUE]) /\ UNCHANGED loaded

CapTo(x, lines) == [Cap(x, IF lines # 0 THEN lines ELSE x.count) EXCEPT !.limit = lines, !.off = FALSE]

\* cache auto, on or a size; the file table is read in if it was off.
CmdLimit(lines) ==
  /\ "cmd" \in Does /\ loaded
  /\ \/ ~c.off /\ Cached(CapTo(c, lines))
     \/ c.off /\ \E r \in Reads(CapTo(c, lines), setup.TABLE_LBA, setup.TABLE_SECTORS) : Cached(r.x)
  /\ UNCHANGED loaded

ModuleInit == "module" \in Does /\ ~loaded /\ loaded' = TRUE /\ Cached(Fresh)
\* Everything given back; nothing of the module is left.
ModuleExit == "module" \in Does /\ loaded /\ loaded' = FALSE /\ Cached(Fresh)

Init ==
  /\ setup \in Setups
  /\ disk = [s \in Sectors |-> CHOOSE v \in Vals : TRUE]
  /\ c = Fresh /\ loaded = ("cache" \in Does)
  /\ recent = [i \in Slots |-> [lba |-> 0, used |-> 0, data |-> Junk]]
  /\ rclock = 0 /\ sector = 1 /\ got = Nothing

Runs == {r \in Sectors \X (1 .. setup.MaxRead) : r[1] + r[2] <= DiskSectors}

Steps ==
  \/ \E r \in Runs :
       \/ ReadMany(r[1], r[2])
       \/ \E v \in Vals, o \in Outcomes(r[1], r[2]) : PutMany(r[1], r[2], v, o)
  \/ \E lba \in Sectors :
       \/ LoadSector(lba)
       \/ \E v \in Vals, o \in Outcomes(lba, 1) : ChangeSector(lba, v, o) \/ PutScratch(lba, v, o)
  \/ FsCache
  \/ \E n \in 1 .. MaxRoom : Shrink(n)
  \/ CmdOff \/ \E n \in setup.Limits : CmdLimit(n)
  \/ ModuleInit \/ ModuleExit

Next == Steps /\ UNCHANGED setup

Spec == Init /\ [][Next]_vars

----------------------------------------------------------------------------
WithMemory(x) == {i \in 1 .. x.room : x.lines[i].data # NoMem}

\* A line that says it has sectors is found by them, once, and nothing else is on any
\* chain: growing the table, giving lines back and using one again leave neither a
\* line behind that is never found nor one that answers for sectors it no longer has.
FoundOnce(x) ==
  /\ \A i \in WithMemory(x) : x.lines[i].first # NONE => Find(x, x.lines[i].first) = i
  /\ \A b \in DOMAIN x.chains :
       /\ ToSet(x.chains[b]) = {i \in WithMemory(x) : x.lines[i].first # NONE /\ Bucket(x, x.lines[i].first) = b}
       /\ IsInjective(x.chains[b])

\* Memory held is memory counted, which is what shrink and may_grow go by: no more
\* than the size set, and none while the cache is off or gone (cache.c:22).
CountTrue ==
  /\ FoundOnce(c)
  /\ c.count = Cardinality(WithMemory(c))
  /\ c.limit # 0 => c.count <= c.limit
  /\ (c.off \/ ~loaded) => c.count = 0

\* A line that can be found holds what the disk holds (cache.c:212).
LineTrue(x) ==
  \A i \in WithMemory(x) : x.lines[i].first # NONE =>
    \A k \in 0 .. LINE_SECTORS - 1 : x.lines[i].data[k] = disk[x.lines[i].first + k]

\* A sector the filesystem keeps is what the disk says, whatever was written past it,
\* changed in place or failed to be written (fs.c:155, fs.c:167).
CopiesTrue == LineTrue(c) /\ \A i \in Slots : recent[i].lba # 0 => recent[i].data = disk[recent[i].lba]

\* What a read hands out is what the disk has, from whichever lines, and past them
\* when a line could not be read.
ReadTrue == got # Nothing => got.data = Contents(got.lba, Len(got.data))

\* Cache lines, recent sectors and what ata_read_many returned all say what the disk does.
DataTrue == CopiesTrue /\ ReadTrue
=============================================================================
