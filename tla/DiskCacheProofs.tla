--------------------------- MODULE DiskCacheProofs ----------------------------
(***************************************************************************)
(* Proofs about the disk cache, for any disk, any length of a line and any *)
(* number of lines: a line with sectors is found by them, what is held is  *)
(* what is counted, and every copy of a sector is what the disk says.      *)
(***************************************************************************)
EXTENDS DiskCache, FiniteSetTheorems, Lemmas

----------------------------------------------------------------------------
(* The numbers of a setup, and sectors in lines.                           *)

LEMMA SetupNumbers ==
  ASSUME setup \in Setups
  PROVE  /\ DiskSectors \in Nat \ {0} /\ LINE_SECTORS \in Nat \ {0} /\ FIRST_ROOM \in Nat \ {0}
         /\ MaxRoom \in Nat \ {0} /\ RECENT \in Nat \ {0} /\ CLOCK \in Nat \ {0}
         /\ setup.MaxRead \in Nat \ {0} /\ setup.TABLE_SECTORS \in Nat \ {0}
         /\ setup.Limits \subseteq Nat /\ Junk \notin Vals
         /\ setup.TABLE_LBA \in Nat /\ setup.TABLE_LBA + setup.TABLE_SECTORS <= DiskSectors /\ Vals # {}
BY DiskCacheConstants DEF DiskSectors, LINE_SECTORS, FIRST_ROOM, MaxRoom, RECENT, CLOCK, Junk, Vals

\* A sector is in the line that begins at its first sector, and every sector of that line in the same.
LEMMA LineStart ==
  ASSUME setup \in Setups, NEW lba \in Nat
  PROVE  /\ LineOf(lba) \in Nat /\ LineOf(lba) <= lba /\ lba % LINE_SECTORS \in 0 .. LINE_SECTORS - 1
         /\ lba = LineOf(lba) + (lba % LINE_SECTORS)
         /\ \A k \in 0 .. LINE_SECTORS - 1 : LineOf(LineOf(lba) + k) = LineOf(lba)
<1> DEFINE l == LINE_SECTORS
           q == lba \div l
           r == lba % l
<1>1. l \in Nat \ {0}
  BY SetupNumbers
<1>2. q \in Nat /\ r \in 0 .. l - 1 /\ lba = l * q + r
  BY <1>1, DivMod
<1>3. LineOf(lba) = l * q /\ l * q \in Nat /\ l * q <= lba
  BY <1>1, <1>2 DEF LineOf
<1>4. ASSUME NEW k \in 0 .. l - 1 PROVE LineOf(l * q + k) = l * q
  <2>1. (l * q + k) % l = k
    BY <1>1, <1>2, ModOf
  <2> QED BY <1>3, <2>1 DEF LineOf
<1> QED BY <1>2, <1>3, <1>4

LEMMA BucketIn ==
  ASSUME setup \in Setups, NEW x, x.room \in Nat \ {0}, NEW first \in Nat
  PROVE  Bucket(x, first) \in 0 .. x.room - 1
<1>1. first \div LINE_SECTORS \in Nat
  BY SetupNumbers, DivMod
<1> QED BY <1>1, DivMod DEF Bucket

----------------------------------------------------------------------------
(* The cache's lines.                                                      *)

Said == Vals \union {Junk}
Data == [0 .. LINE_SECTORS - 1 -> Said]
Lines == [first : Nat \union {NONE}, used : Nat, data : Data \union {NoMem}]

\* A cache with room for so many lines.
CacheOf(room) ==
  [room : {room}, lines : [1 .. room -> Lines], chains : [0 .. room - 1 -> Seq(1 .. room)],
   count : Nat, clock : Nat, limit : Nat, off : BOOLEAN, at : 0 .. room]

Shape(x) == x.room \in Nat \ {0} /\ x \in CacheOf(x.room)

LEMMA NoMemIsNoData == ASSUME setup \in Setups PROVE NoMem \notin Data
<1>1. 0 \in 0 .. LINE_SECTORS - 1
  BY SetupNumbers
<1>2. DOMAIN NoMem = {}
  BY DEF NoMem
<1> QED BY <1>1, <1>2 DEF Data

\* Of the lines J each is on the chain of its bucket, once, and nothing else is on any.
Chained(x, J) ==
  /\ J \subseteq 1 .. x.room
  /\ \A i \in J : x.lines[i].first \in Nat
  /\ \A i, j \in J : x.lines[i].first = x.lines[j].first => i = j
  /\ \A b \in 0 .. x.room - 1 :
       /\ IsInjective(x.chains[b])
       /\ ToSet(x.chains[b]) = {i \in J : Bucket(x, x.lines[i].first) = b}

\* All but line i, and what is said of all lines, is as it was.
LinesBut(x, y, S) ==
  /\ y.room = x.room /\ y.clock = x.clock /\ y.limit = x.limit /\ y.off = x.off
  /\ \A j \in 1 .. x.room : j \notin S => y.lines[j] = x.lines[j]

LEMMA FindIs ==
  ASSUME setup \in Setups, NEW x, Shape(x), NEW J, Chained(x, J), NEW first \in Nat
  PROVE  /\ Find(x, first) # 0 => Find(x, first) \in J /\ x.lines[Find(x, first)].first = first
         /\ \A j \in J : x.lines[j].first = first => Find(x, first) = j
<1> DEFINE b == Bucket(x, first)
           chain == x.chains[b]
           hits == {k \in DOMAIN chain : x.lines[chain[k]].first = first}
<1>1. b \in 0 .. x.room - 1
  BY BucketIn DEF Shape
<1>2. chain \in Seq(1 .. x.room) /\ IsInjective(chain) /\ ToSet(chain) = {i \in J : Bucket(x, x.lines[i].first) = b}
  BY <1>1 DEF Shape, CacheOf, Chained
<1>3. hits \subseteq Nat /\ \A k \in DOMAIN chain : chain[k] \in ToSet(chain)
  <2>1. DOMAIN chain \subseteq Nat
    BY <1>2
  <2> QED BY <2>1 DEF ToSet
<1>4. Find(x, first) = IF hits = {} THEN 0 ELSE chain[Min(hits)]
  BY DEF Find
<1>5. hits # {} => Min(hits) \in hits
  <2> HIDE DEF hits
  <2> QED BY <1>3, MinIn
<1>6. hits # {} => Find(x, first) \in J /\ x.lines[Find(x, first)].first = first
  BY <1>2, <1>3, <1>4, <1>5
<1>7. ASSUME NEW j \in J, x.lines[j].first = first PROVE Find(x, first) = j
  <2>1. j \in ToSet(chain)
    BY <1>2, <1>7
  <2>2. hits # {}
    BY <1>7, <2>1 DEF ToSet
  <2> QED BY <1>6, <1>7, <2>2 DEF Chained
<1> QED BY <1>4, <1>6, <1>7

\* None of the lines J has the sectors from first.
NoneHas(x, J, first) == \A j \in J : x.lines[j].first # first

\* y is x with line i hooked in as that of the sectors from first.
HookDone(x, J, i, first, y) ==
  /\ Shape(y) /\ LinesBut(x, y, {i}) /\ y.count = x.count /\ y.at = x.at
  /\ y.lines[i] = [x.lines[i] EXCEPT !.first = first] /\ Chained(y, J \union {i})

LEMMA HookIs ==
  ASSUME setup \in Setups, NEW x, Shape(x), NEW J, Chained(x, J), NEW i \in (1 .. x.room) \ J,
         NEW first \in Nat, NoneHas(x, J, first)
  PROVE  HookDone(x, J, i, first, Hook(x, i, first))
<1> DEFINE y == Hook(x, i, first)
           h == Bucket(x, first)
           chain == x.chains[h]
<1>1. h \in 0 .. x.room - 1
  BY BucketIn DEF Shape
<1>2. chain \in Seq(1 .. x.room) /\ IsInjective(chain) /\ ToSet(chain) = {j \in J : Bucket(x, x.lines[j].first) = h}
  BY <1>1 DEF Shape, CacheOf, Chained
<1>3. /\ <<i>> \o chain \in Seq(1 .. x.room) /\ IsInjective(<<i>> \o chain)
      /\ ToSet(<<i>> \o chain) = {i} \union ToSet(chain)
  BY <1>2, Prepended
<1>4. y = [x EXCEPT !.chains[h] = <<i>> \o chain, !.lines[i].first = first]
  BY DEF Hook
<1>5. x.lines[i] \in Lines /\ [x.lines[i] EXCEPT !.first = first] \in Lines
  BY DEF Shape, CacheOf, Lines
<1> DEFINE ic == <<i>> \o chain
           line == [x.lines[i] EXCEPT !.first = first]
<1>6. y = [x EXCEPT !.chains[h] = ic, !.lines[i] = line]
  BY <1>4
<1> HIDE DEF y, ic, line, chain, h
<1>7. /\ Shape(y) /\ y.room = x.room /\ y.clock = x.clock /\ y.limit = x.limit /\ y.off = x.off
      /\ y.count = x.count /\ y.at = x.at
      /\ y.chains = [x.chains EXCEPT ![h] = ic] /\ y.lines = [x.lines EXCEPT ![i] = line]
  BY <1>1, <1>3, <1>5, <1>6 DEF Shape, CacheOf, ic, line
<1>8. y.lines[i] = line /\ line.first = first /\ \A j \in 1 .. x.room : j # i => y.lines[j] = x.lines[j]
  BY <1>5, <1>7 DEF Shape, CacheOf, line, Lines
<1>9. Chained(y, J \union {i})
  <2>1. J \union {i} \subseteq 1 .. y.room /\ \A j \in J : y.lines[j] = x.lines[j]
    BY <1>7, <1>8 DEF Chained
  <2>2. \A j \in J \union {i} : y.lines[j].first \in Nat
    BY <1>8, <2>1 DEF Chained
  <2>3. \A j, k \in J \union {i} : y.lines[j].first = y.lines[k].first => j = k
    BY <1>8, <2>1 DEF Chained, NoneHas
  <2>4. \A n : Bucket(y, n) = Bucket(x, n)
    BY <1>7 DEF Bucket
  <2>5. ASSUME NEW b \in 0 .. y.room - 1
        PROVE  /\ IsInjective(y.chains[b])
               /\ ToSet(y.chains[b]) = {j \in J \union {i} : Bucket(y, y.lines[j].first) = b}
    <3>1. CASE b = h
      <4>1. y.chains[b] = ic
        BY <1>1, <1>7, <3>1 DEF Shape, CacheOf
      <4>2. {j \in J \union {i} : Bucket(y, y.lines[j].first) = b} = {i} \union {j \in J : Bucket(x, x.lines[j].first) = h}
        BY <1>8, <2>1, <2>4, <3>1 DEF h
      <4> QED BY <1>2, <1>3, <4>1, <4>2 DEF ic
    <3>2. CASE b # h
      <4>1. y.chains[b] = x.chains[b] /\ b \in 0 .. x.room - 1
        BY <1>7, <3>2 DEF Shape, CacheOf
      <4>2. {j \in J \union {i} : Bucket(y, y.lines[j].first) = b} = {j \in J : Bucket(x, x.lines[j].first) = b}
        BY <1>8, <2>1, <2>4, <3>2 DEF h
      <4> QED BY <4>1, <4>2 DEF Chained
    <3> QED BY <3>1, <3>2
  <2> QED BY <2>1, <2>2, <2>3, <2>5 DEF Chained
<1> QED BY <1>7, <1>8, <1>9 DEF y, line, LinesBut, HookDone

LEMMA UnhookIs ==
  ASSUME setup \in Setups, NEW x, Shape(x), NEW J, Chained(x, J), NEW i \in J
  PROVE  /\ Shape(Unhook(x, i)) /\ LinesBut(x, Unhook(x, i), {i})
         /\ Unhook(x, i).count = x.count /\ Unhook(x, i).at = x.at
         /\ Unhook(x, i).lines[i] = [x.lines[i] EXCEPT !.first = NONE]
         /\ Chained(Unhook(x, i), J \ {i})
<1> DEFINE y == Unhook(x, i)
           first == x.lines[i].first
           h == Bucket(x, first)
           chain == x.chains[h]
           at == {k \in DOMAIN chain : chain[k] = i}
           ic == RemoveAt(chain, Min(at))
           line == [x.lines[i] EXCEPT !.first = NONE]
<1>1. h \in 0 .. x.room - 1 /\ first \in Nat /\ i \in 1 .. x.room
  <2>1. first \in Nat /\ i \in 1 .. x.room
    BY DEF Chained
  <2> QED BY <2>1, BucketIn DEF Shape
<1>2. chain \in Seq(1 .. x.room) /\ IsInjective(chain) /\ ToSet(chain) = {j \in J : Bucket(x, x.lines[j].first) = h}
  BY <1>1 DEF Shape, CacheOf, Chained
<1>3. at # {} /\ at \subseteq Nat
  <2>1. i \in ToSet(chain)
    BY <1>2
  <2>2. DOMAIN chain \subseteq Nat
    BY <1>2
  <2> QED BY <2>1, <2>2 DEF ToSet
<1>4. Min(at) \in DOMAIN chain /\ chain[Min(at)] = i
  <2>1. Min(at) \in at
    <3> HIDE DEF at
    <3> QED BY <1>3, MinIn
  <2> QED BY <2>1
<1>5. ic \in Seq(1 .. x.room) /\ IsInjective(ic) /\ ToSet(ic) = ToSet(chain) \ {i}
  <2> HIDE DEF chain, at
  <2> QED BY <1>2, <1>4, Removed
<1>6. y = [x EXCEPT !.chains[h] = IF at = {} THEN x.chains[h] ELSE RemoveAt(x.chains[h], Min(at)), !.lines[i].first = NONE]
  BY DEF Unhook
<1>7. y = [x EXCEPT !.chains[h] = ic, !.lines[i] = line]
  BY <1>3, <1>6
<1>8. x.lines[i] \in Lines /\ line \in Lines /\ line.first = NONE
  BY <1>1 DEF Shape, CacheOf, Lines
<1> HIDE DEF y, ic, line, chain, h, at, first
<1>9. /\ Shape(y) /\ y.room = x.room /\ y.clock = x.clock /\ y.limit = x.limit /\ y.off = x.off
      /\ y.count = x.count /\ y.at = x.at
      /\ y.chains = [x.chains EXCEPT ![h] = ic] /\ y.lines = [x.lines EXCEPT ![i] = line]
  BY <1>1, <1>5, <1>7, <1>8 DEF Shape, CacheOf
<1>10. y.lines[i] = line /\ \A j \in 1 .. x.room : j # i => y.lines[j] = x.lines[j]
  BY <1>1, <1>9 DEF Shape, CacheOf
<1>11. Chained(y, J \ {i})
  <2>1. J \ {i} \subseteq 1 .. y.room /\ \A j \in J \ {i} : y.lines[j] = x.lines[j]
    BY <1>9, <1>10 DEF Chained
  <2>2. \A j \in J \ {i} : y.lines[j].first \in Nat
    BY <2>1 DEF Chained
  <2>3. \A j, k \in J \ {i} : y.lines[j].first = y.lines[k].first => j = k
    BY <2>1 DEF Chained
  <2>4. \A n : Bucket(y, n) = Bucket(x, n)
    BY <1>9 DEF Bucket
  <2>5. ASSUME NEW b \in 0 .. y.room - 1
        PROVE  /\ IsInjective(y.chains[b])
               /\ ToSet(y.chains[b]) = {j \in J \ {i} : Bucket(y, y.lines[j].first) = b}
    <3>1. CASE b = h
      <4>1. y.chains[b] = ic
        BY <1>1, <1>9, <3>1 DEF Shape, CacheOf
      <4>2. {j \in J \ {i} : Bucket(y, y.lines[j].first) = b} = {j \in J : Bucket(x, x.lines[j].first) = h} \ {i}
        BY <2>1, <2>4, <3>1
      <4> QED BY <1>2, <1>5, <4>1, <4>2
    <3>2. CASE b # h
      <4>1. y.chains[b] = x.chains[b] /\ b \in 0 .. x.room - 1
        BY <1>9, <3>2 DEF Shape, CacheOf
      <4>2. {j \in J \ {i} : Bucket(y, y.lines[j].first) = b} = {j \in J : Bucket(x, x.lines[j].first) = b}
        BY <2>1, <2>4, <3>2 DEF h, first
      <4> QED BY <4>1, <4>2 DEF Chained
    <3> QED BY <3>1, <3>2
  <2> QED BY <2>1, <2>2, <2>3, <2>5 DEF Chained
<1> QED BY <1>9, <1>10, <1>11 DEF y, line, LinesBut

----------------------------------------------------------------------------
(* What every cache is like, between calls and in them.                    *)

Hooked(x) == {i \in WithMemory(x) : x.lines[i].first # NONE}

Sound(x) == Shape(x) /\ Chained(x, Hooked(x)) /\ x.count = Cardinality(WithMemory(x))

\* A line is of sectors there are, from the first of a line.
Whole(x) ==
  \A i \in Hooked(x) : LET first == x.lines[i].first
                       IN first \in Nat /\ LineOf(first) = first /\ first + LINE_SECTORS <= DiskSectors

\* No write fails under a cache.  One that does leaves the lines saying what the disk
\* does not (efi.c:531): then a line is only known to be the line it says it is.
WritesLand == ~({"cache", "writefails"} \subseteq Does)

Truth(x) == Whole(x) /\ (WritesLand => LineTrue(x))

\* No more is cached in y than in x.
Fewer(x, y) ==
  \A i \in Hooked(y) : /\ i \in Hooked(x) /\ y.lines[i].first = x.lines[i].first
                       /\ y.lines[i].data = x.lines[i].data

Within(x) == x.limit # 0 => x.count <= x.limit

LEMMA FewerTrue == ASSUME NEW x, NEW y, Truth(x), Fewer(x, y) PROVE Truth(y)
<1>1. Whole(y)
  BY DEF Truth, Whole, Fewer
<1>2. WritesLand => LineTrue(y)
  BY DEF Truth, LineTrue, Fewer, Hooked
<1> QED BY <1>1, <1>2 DEF Truth

LEMMA FewerStill == ASSUME NEW x, NEW y, NEW z, Fewer(x, y), Fewer(y, z) PROVE Fewer(x, z)
BY DEF Fewer

LEMMA Held == ASSUME NEW x, Shape(x) PROVE /\ IsFiniteSet(WithMemory(x)) /\ Cardinality(WithMemory(x)) \in Nat
                                           /\ Cardinality(WithMemory(x)) = 0 <=> WithMemory(x) = {}
<1>1. IsFiniteSet(1 .. x.room)
  BY FS_Interval DEF Shape
<1>2. WithMemory(x) \in SUBSET (1 .. x.room)
  BY DEF WithMemory
<1> QED BY <1>1, <1>2, FS_Subset, FS_CardinalityType, FS_EmptySet

SameFirsts(x, y, J) == y.room = x.room /\ y.chains = x.chains /\ \A j \in J : y.lines[j].first = x.lines[j].first

LEMMA SameChains == ASSUME NEW x, NEW y, NEW J, Chained(x, J), SameFirsts(x, y, J) PROVE Chained(y, J)
<1>1. \A n : Bucket(y, n) = Bucket(x, n)
  BY DEF Bucket, SameFirsts
<1>2. \A b : {i \in J : Bucket(y, y.lines[i].first) = b} = {i \in J : Bucket(x, x.lines[i].first) = b}
  BY <1>1 DEF SameFirsts
<1> QED BY <1>2 DEF Chained, SameFirsts

LEMMA OldestIs ==
  ASSUME NEW x, Shape(x)
  PROVE  /\ WithMemory(x) = {} => Oldest(x) = 0
         /\ WithMemory(x) # {} => Oldest(x) \in WithMemory(x)
<1> DEFINE S == {i \in 1 .. x.room : x.lines[i].data # NoMem}
           f == [i \in 1 .. x.room |-> x.lines[i].used]
           First(i) == \A j \in S \ {i} : x.lines[i].used < x.lines[j].used
                                            \/ (x.lines[i].used = x.lines[j].used /\ i < j)
<1>1. S \subseteq Nat /\ (\A i \in S : f[i] \in Nat) /\ \A i \in S : f[i] = x.lines[i].used
  BY DEF Shape, CacheOf, Lines
<1>2. Oldest(x) = IF S = {} THEN 0 ELSE CHOOSE i \in S : First(i)
  BY DEF Oldest
<1>3. S # {} => \E i \in S : First(i)
  <2> HIDE DEF S, f
  <2>1. S # {} => \E i \in S : \A j \in S \ {i} : f[i] < f[j] \/ (f[i] = f[j] /\ i < j)
    BY <1>1, FirstLeast
  <2> QED BY <1>1, <2>1
<1>4. S # {} => Oldest(x) \in S
  <2> HIDE DEF S, First
  <2> QED BY <1>2, <1>3
<1>5. S = WithMemory(x)
  BY DEF WithMemory
<1> QED BY <1>2, <1>4, <1>5

LEMMA UnhookedIs ==
  ASSUME setup \in Setups, NEW x, Sound(x), NEW i \in WithMemory(x)
  PROVE  /\ Shape(Unhooked(x, i)) /\ LinesBut(x, Unhooked(x, i), {i})
         /\ Unhooked(x, i).count = x.count /\ Unhooked(x, i).at = x.at
         /\ Unhooked(x, i).lines[i] = [x.lines[i] EXCEPT !.first = NONE]
         /\ Chained(Unhooked(x, i), Hooked(x) \ {i})
<1>1. i \in 1 .. x.room /\ x.lines[i] \in Lines
  BY DEF WithMemory, Sound, Shape, CacheOf
<1>2. CASE x.lines[i].first = NONE
  <2>1. Unhooked(x, i) = x /\ Hooked(x) \ {i} = Hooked(x)
    BY <1>2 DEF Unhooked, Hooked
  <2>2. x.lines[i] = [x.lines[i] EXCEPT !.first = NONE]
    BY <1>1, <1>2 DEF Lines
  <2> QED BY <2>1, <2>2 DEF Sound, LinesBut
<1>3. CASE x.lines[i].first # NONE
  <2>1. Unhooked(x, i) = Unhook(x, i) /\ i \in Hooked(x)
    BY <1>3 DEF Unhooked, Hooked
  <2> QED BY <2>1, UnhookIs DEF Sound
<1> QED BY <1>2, <1>3

LEMMA UnhookedSound ==
  ASSUME setup \in Setups, NEW x, Sound(x), NEW i \in WithMemory(x)
  PROVE  /\ Sound(Unhooked(x, i)) /\ Fewer(x, Unhooked(x, i)) /\ LinesBut(x, Unhooked(x, i), {i})
         /\ WithMemory(Unhooked(x, i)) = WithMemory(x) /\ Hooked(Unhooked(x, i)) = Hooked(x) \ {i}
         /\ Unhooked(x, i).count = x.count /\ Unhooked(x, i).lines[i].first = NONE
<1> DEFINE y == Unhooked(x, i)
<1>1. /\ Shape(y) /\ LinesBut(x, y, {i}) /\ y.count = x.count
      /\ y.lines[i] = [x.lines[i] EXCEPT !.first = NONE] /\ Chained(y, Hooked(x) \ {i})
  BY UnhookedIs
<1>2. i \in 1 .. x.room /\ x.lines[i] \in Lines
  BY DEF WithMemory, Sound, Shape, CacheOf
<1> HIDE DEF y
<1>3. y.lines[i].first = NONE /\ y.lines[i].data = x.lines[i].data
  BY <1>1, <1>2 DEF Lines
<1>4. \A j \in 1 .. x.room : y.lines[j].data = x.lines[j].data
  BY <1>1, <1>3 DEF LinesBut
<1>5. WithMemory(y) = WithMemory(x)
  BY <1>1, <1>4 DEF WithMemory, LinesBut
<1>6. Hooked(y) = Hooked(x) \ {i}
  BY <1>1, <1>2, <1>3, <1>5 DEF Hooked, LinesBut, WithMemory
<1>7. Fewer(x, y)
  BY <1>1, <1>4, <1>6 DEF Fewer, LinesBut, Hooked, WithMemory
<1> QED BY <1>1, <1>3, <1>5, <1>6, <1>7 DEF y, Sound

\* Memory given back.
LEMMA GivenSound ==
  ASSUME setup \in Setups, NEW x, Sound(x), NEW i \in WithMemory(x)
  PROVE  /\ Sound(Given(x, i)) /\ Fewer(x, Given(x, i)) /\ Given(x, i).count = x.count - 1
         /\ Given(x, i).limit = x.limit /\ Given(x, i).off = x.off /\ Given(x, i).room = x.room
<1> DEFINE u == Unhooked(x, i)
           line == [u.lines[i] EXCEPT !.data = NoMem]
           y == Given(x, i)
<1>1. /\ Sound(u) /\ Fewer(x, u) /\ LinesBut(x, u, {i}) /\ WithMemory(u) = WithMemory(x)
      /\ Hooked(u) = Hooked(x) \ {i} /\ u.count = x.count
  BY UnhookedSound
<1>2. x.count \in Nat /\ x.count # 0 /\ i \in 1 .. x.room
  BY Held DEF Sound, WithMemory
<1>3. y = [u EXCEPT !.lines[i] = line, !.count = x.count - 1]
  BY <1>1 DEF Given
<1> HIDE DEF u, y
<1>4. u.lines[i] \in Lines /\ line \in Lines /\ line.data = NoMem
  <2>1. u.lines[i] \in Lines
    BY <1>1, <1>2 DEF Sound, Shape, CacheOf, LinesBut
  <2> QED BY <2>1 DEF Lines
<1> HIDE DEF line
<1>5. /\ Shape(y) /\ y.room = u.room /\ y.limit = u.limit /\ y.off = u.off /\ y.chains = u.chains
      /\ y.count = x.count - 1 /\ y.lines = [u.lines EXCEPT ![i] = line]
  <2> DEFINE n == x.count - 1
  <2>1. n \in Nat /\ u.room \in Nat \ {0} /\ u \in CacheOf(u.room) /\ i \in 1 .. u.room
    BY <1>1, <1>2 DEF Sound, Shape, LinesBut
  <2>2. y = [u EXCEPT !.lines[i] = line, !.count = n]
    BY <1>3
  <2> HIDE DEF n
  <2>3. y \in CacheOf(u.room) /\ y.room = u.room /\ y.limit = u.limit /\ y.off = u.off /\ y.chains = u.chains
        /\ y.count = n /\ y.lines = [u.lines EXCEPT ![i] = line]
    BY <1>4, <2>1, <2>2 DEF CacheOf
  <2> QED BY <2>1, <2>3 DEF n, Shape
<1>6. y.lines[i] = line /\ \A j \in 1 .. u.room : j # i => y.lines[j] = u.lines[j]
  BY <1>1, <1>2, <1>5 DEF Sound, Shape, CacheOf, LinesBut
<1>7. WithMemory(y) = WithMemory(u) \ {i}
  BY <1>4, <1>5, <1>6 DEF WithMemory
<1>8. Hooked(y) = Hooked(u)
  BY <1>1, <1>5, <1>6, <1>7 DEF Hooked, WithMemory
<1>9. Chained(y, Hooked(u))
  <2>1. SameFirsts(u, y, Hooked(u))
    BY <1>1, <1>5, <1>6 DEF SameFirsts, Hooked, WithMemory
  <2> QED BY <1>1, <2>1, SameChains DEF Sound
<1>10. Fewer(u, y)
  BY <1>1, <1>6, <1>8 DEF Fewer, Hooked, WithMemory
<1>11. Cardinality(WithMemory(y)) = x.count - 1
  <2>1. IsFiniteSet(WithMemory(u)) /\ i \in WithMemory(u)
    BY <1>1, Held DEF Sound
  <2>2. Cardinality(WithMemory(u) \ {i}) = Cardinality(WithMemory(u)) - 1
    BY <2>1, FS_RemoveElement
  <2>3. u.count = Cardinality(WithMemory(u))
    BY <1>1 DEF Sound
  <2> QED BY <1>1, <1>7, <2>2, <2>3
<1>12. Fewer(x, y)
  BY <1>1, <1>10, FewerStill
<1> QED BY <1>1, <1>5, <1>8, <1>9, <1>11, <1>12 DEF y, u, Sound, LinesBut

----------------------------------------------------------------------------
(* Giving lines back, and a bigger table.                                  *)

\* Settings are as they were.
SameLimits(x, y) == y.limit = x.limit /\ y.off = x.off

LEMMA CapIs ==
  ASSUME setup \in Setups, NEW x, Sound(x), NEW most \in Nat
  PROVE  /\ Sound(Cap(x, most)) /\ Fewer(x, Cap(x, most)) /\ SameLimits(x, Cap(x, most))
         /\ Cap(x, most).count = IF x.count <= most THEN x.count ELSE most
<1>1. CASE x.count <= most
  <2>1. Cap(x, most) = x
    BY <1>1 DEF Cap
  <2> QED BY <1>1, <2>1 DEF Fewer, SameLimits
<1>2. CASE ~(x.count <= most)
  <2> DEFINE N == x.count
             Next1(y) == Given(y, Oldest(y))
             Ok(y, n) == Sound(y) /\ Fewer(x, y) /\ SameLimits(x, y) /\ y.count = N - n
             X == [n \in 0 .. N |-> {y \in CacheOf(x.room) : Ok(y, n)}]
             G == [n \in 1 .. N |-> [y \in CacheOf(x.room) |-> Next1(y)]]
             Is(left) == left = [n \in 0 .. N |-> IF n = 0 THEN x ELSE Next1(left[n - 1])]
             left == CHOOSE left : Is(left)
  <2>1. N \in Nat /\ N - most \in 0 .. N /\ Cap(x, most) = left[N - most]
    <3>1. N \in Nat
      BY DEF Sound, Shape, CacheOf
    <3> QED BY <1>2, <3>1 DEF Cap
  <2>2. \A n \in 0 .. N : \A y : y \in X[n] <=> y \in CacheOf(x.room) /\ Ok(y, n)
    <3> HIDE DEF Ok
    <3> QED OBVIOUS
  <2>3. x \in X[0]
    <3>1. Ok(x, 0)
      BY <2>1 DEF Fewer, SameLimits
    <3>2. x \in CacheOf(x.room) /\ 0 \in 0 .. N
      BY <2>1 DEF Sound, Shape
    <3> HIDE DEF Ok, X, N
    <3> QED BY <2>2, <3>1, <3>2
  <2>4. ASSUME NEW n \in 1 .. N, NEW y \in X[n - 1] PROVE Next1(y) \in X[n] /\ G[n][y] = Next1(y)
    <3>1. n - 1 \in 0 .. N /\ n \in 0 .. N /\ n \in Nat /\ N - (n - 1) # 0 /\ (N - (n - 1)) - 1 = N - n
      BY <2>1
    <3>2. Ok(y, n - 1) /\ y \in CacheOf(x.room)
      <4> HIDE DEF Ok, X, N
      <4> QED BY <2>2, <3>1
    <3>3. y.room = x.room
      BY <3>2 DEF CacheOf
    <3> DEFINE i == Oldest(y)
               z == Given(y, i)
    <3>4. i \in WithMemory(y)
      BY <3>1, <3>2, Held, OldestIs DEF Sound
    <3> HIDE DEF i
    <3>5. Sound(z) /\ Fewer(y, z) /\ z.count = y.count - 1 /\ z.limit = y.limit /\ z.off = y.off /\ z.room = y.room
      BY <3>2, <3>4, GivenSound
    <3> HIDE DEF z
    <3>6. Fewer(x, z)
      BY <3>2, <3>5, FewerStill
    <3>7. Ok(z, n) /\ z \in CacheOf(x.room)
      BY <3>1, <3>2, <3>3, <3>5, <3>6 DEF SameLimits, Sound, Shape
    <3>8. z \in X[n]
      <4> HIDE DEF Ok, X, N
      <4> QED BY <2>2, <3>1, <3>7
    <3> QED BY <3>2, <3>8 DEF z, i
  <2> HIDE DEF X, Next1, N
  <2>5. PICK f : Takes(f, G, N, X, x)
    <3>1. Leads(G, N, X)
      BY <2>4 DEF Leads
    <3> HIDE DEF G
    <3> QED BY <2>1, <2>3, <3>1, Recursion
  <2>6. Is(f)
    <3>1. \A n \in 1 .. N : f[n] = Next1(f[n - 1])
      <4> HIDE DEF G
      <4> QED BY <2>4, <2>5 DEF Takes
    <3>2. f = [n \in 0 .. N |-> f[n]] /\ f[0] = x
      BY <2>5 DEF Takes
    <3>3. \A n \in 0 .. N : f[n] = IF n = 0 THEN x ELSE Next1(f[n - 1])
      <4> SUFFICES ASSUME NEW n \in 0 .. N PROVE f[n] = IF n = 0 THEN x ELSE Next1(f[n - 1])
        OBVIOUS
      <4>1. n # 0 => n \in 1 .. N
        BY <2>1
      <4> QED BY <3>1, <3>2, <4>1
    <3> QED BY <3>2, <3>3
  <2>7. Is(left)
    <3> HIDE DEF Is
    <3> QED BY <2>6
  <2> HIDE DEF left
  <2> DEFINE S == {n \in 0 .. N : left[n] \in X[n]}
  <2>8. Climbs(S, N)
    <3>1. 0 \in S
      BY <2>1, <2>3, <2>7
    <3>2. ASSUME NEW n \in 1 .. N, n - 1 \in S PROVE n \in S
      <4>1. left[n] = Next1(left[n - 1]) /\ left[n - 1] \in X[n - 1]
        BY <2>1, <2>7, <3>2
      <4>2. Next1(left[n - 1]) \in X[n]
        BY <2>4, <4>1
      <4>3. n \in 0 .. N
        BY <2>1
      <4> QED BY <4>1, <4>2, <4>3
    <3> HIDE DEF S
    <3> QED BY <3>1, <3>2 DEF Climbs
  <2>9. left[N - most] \in X[N - most]
    <3>1. N - most \in S
      <4> HIDE DEF S
      <4> QED BY <2>1, <2>8, Climbing
    <3> QED BY <3>1
  <2>10. Ok(Cap(x, most), N - most)
    <3> HIDE DEF Ok
    <3> QED BY <2>1, <2>2, <2>9
  <2> QED BY <1>2, <2>1, <2>10 DEF N
<1> QED BY <1>1, <1>2

LEMMA AllHeld == ASSUME NEW x, Sound(x), x.count = x.room PROVE WithMemory(x) = 1 .. x.room
<1>1. x.room \in Nat /\ x.count = Cardinality(WithMemory(x)) /\ IsFiniteSet(WithMemory(x))
  BY Held DEF Sound, Shape
<1>2. IsFiniteSet(1 .. x.room) /\ Cardinality(1 .. x.room) = x.room
  BY <1>1, FS_Interval
<1>3. WithMemory(x) \subseteq 1 .. x.room
  BY DEF WithMemory
<1> QED BY <1>1, <1>2, <1>3, FS_Subset

LEMMA DoubledIs ==
  ASSUME setup \in Setups, NEW x, Sound(x), x.count = x.room
  PROVE  /\ Sound(Doubled(x)) /\ Fewer(x, Doubled(x)) /\ SameLimits(x, Doubled(x))
         /\ Doubled(x).count = x.count
<1> DEFINE N == x.room
           lines == [i \in 1 .. 2 * N |-> IF i <= N THEN x.lines[i] ELSE Zeroed]
           big == [x EXCEPT !.room = 2 * N, !.lines = lines, !.chains = [b \in 0 .. 2 * N - 1 |-> <<>>]]
           Next1(y, i) == IF x.lines[i].first = NONE THEN y ELSE Hook(y, i, x.lines[i].first)
           Hung(i) == Hooked(x) \intersect (1 .. i)
           Ok(y, i) == Shape(y) /\ y.lines = lines /\ y.count = x.count /\ SameLimits(x, y) /\ Chained(y, Hung(i))
           X == [i \in 0 .. N |-> {y \in CacheOf(2 * N) : Ok(y, i)}]
           G == [i \in 1 .. N |-> [y \in CacheOf(2 * N) |-> Next1(y, i)]]
           Is(again) == again = [i \in 0 .. N |-> IF i = 0 THEN big ELSE Next1(again[i - 1], i)]
           again == CHOOSE again : Is(again)
<1>1. N \in Nat \ {0} /\ 2 * N \in Nat \ {0} /\ x \in CacheOf(N) /\ WithMemory(x) = 1 .. N
  <2>1. WithMemory(x) = 1 .. N
    BY AllHeld
  <2> QED BY <2>1 DEF Sound, Shape
<1>2. Doubled(x) = again[N]
  BY DEF Doubled
<1>3. lines \in [1 .. 2 * N -> Lines]
  <2>1. Zeroed \in Lines
    BY DEF Zeroed, Lines
  <2>2. x.lines \in [1 .. N -> Lines]
    BY <1>1 DEF CacheOf
  <2> QED BY <1>1, <2>1, <2>2
<1>4. big \in CacheOf(2 * N) /\ big.lines = lines /\ big.count = x.count /\ big.limit = x.limit /\ big.off = x.off
      /\ big.room = 2 * N /\ big.chains = [b \in 0 .. 2 * N - 1 |-> <<>>]
  <2> DEFINE R == 2 * N
             chains == [b \in 0 .. R - 1 |-> <<>>]
  <2>1. chains \in [0 .. R - 1 -> Seq(1 .. R)] /\ x.at \in 0 .. R /\ R \in Nat
    BY <1>1 DEF CacheOf
  <2> HIDE DEF lines, chains
  <2>2. big = [room |-> R, lines |-> lines, chains |-> chains, count |-> x.count, clock |-> x.clock,
               limit |-> x.limit, off |-> x.off, at |-> x.at]
    <3>1. big = [x EXCEPT !.room = R, !.lines = lines, !.chains = chains]
      BY DEF chains
    <3> HIDE DEF big, R
    <3> QED BY <1>1, <3>1 DEF CacheOf
  <2> HIDE DEF R, big
  <2>3. big \in CacheOf(R) /\ big.lines = lines /\ big.count = x.count /\ big.limit = x.limit /\ big.off = x.off
        /\ big.room = R /\ big.chains = chains
    BY <1>1, <1>3, <2>1, <2>2 DEF CacheOf, R
  <2> QED BY <2>3 DEF R, chains
<1>5. \A i \in 0 .. N : \A y : y \in X[i] <=> y \in CacheOf(2 * N) /\ Ok(y, i)
  <2> HIDE DEF Ok
  <2> QED OBVIOUS
<1> HIDE DEF big, lines
<1>6. big \in X[0]
  <2>1. Hung(0) = {}
    OBVIOUS
  <2>2. Chained(big, {})
    <3>1. \A b \in 0 .. 2 * N - 1 : big.chains[b] = <<>>
      BY <1>4
    <3>2. IsInjective(<<>>) /\ ToSet(<<>>) = {}
      BY DEF IsInjective, ToSet
    <3> QED BY <1>4, <3>1, <3>2 DEF Chained
  <2>3. Ok(big, 0)
    BY <1>1, <1>4, <2>1, <2>2 DEF Shape, SameLimits
  <2>4. 0 \in 0 .. N
    BY <1>1
  <2> HIDE DEF Ok, X
  <2> QED BY <1>4, <1>5, <2>3, <2>4
<1>7. ASSUME NEW i \in 1 .. N, NEW y \in X[i - 1] PROVE Next1(y, i) \in X[i] /\ G[i][y] = Next1(y, i)
  <2>1. i - 1 \in 0 .. N /\ i \in 0 .. N /\ i \in Nat /\ i <= N /\ i \in 1 .. 2 * N
    BY <1>1
  <2>2. Ok(y, i - 1) /\ y \in CacheOf(2 * N) /\ y.room = 2 * N
    <3>1. Ok(y, i - 1) /\ y \in CacheOf(2 * N)
      <4> HIDE DEF Ok, X
      <4> QED BY <1>5, <2>1
    <3> QED BY <3>1 DEF CacheOf
  <2>3. y.lines = lines /\ \A j \in 1 .. N : y.lines[j] = x.lines[j]
    BY <1>1, <2>2 DEF lines
  <2>4. CASE x.lines[i].first = NONE
    <3>1. Hung(i) = Hung(i - 1)
      BY <2>1, <2>4 DEF Hooked
    <3>2. Ok(y, i)
      BY <2>2, <3>1
    <3>3. y \in X[i]
      <4> HIDE DEF Ok, X
      <4> QED BY <1>5, <2>1, <2>2, <3>2
    <3> QED BY <2>2, <2>4, <3>3
  <2>5. CASE x.lines[i].first # NONE
    <3> DEFINE from == x.lines[i].first
               z == Hook(y, i, from)
    <3>1. i \in Hooked(x) /\ Hung(i) = Hung(i - 1) \union {i} /\ i \in (1 .. y.room) \ Hung(i - 1)
      BY <1>1, <2>1, <2>2, <2>5 DEF Hooked
    <3>2. from \in Nat /\ NoneHas(y, Hung(i - 1), from)
      <4>1. \A j \in Hung(i - 1) : j \in Hooked(x) /\ j \in 1 .. N /\ j # i
        BY <1>1, <2>1
      <4>2. from \in Nat /\ \A j \in Hooked(x) : j # i => x.lines[j].first # from
        BY <3>1 DEF Sound, Chained
      <4> QED BY <2>3, <4>1, <4>2 DEF NoneHas
    <3> DEFINE K == Hung(i - 1)
    <3>8. Shape(y) /\ Chained(y, K) /\ i \in (1 .. y.room) \ K /\ NoneHas(y, K, from)
      BY <2>2, <3>1, <3>2
    <3> HIDE DEF from, Hung, K, X, Ok, G, Is, Next1, again
    <3>10. setup \in Setups /\ from \in Nat
      BY <3>2
    <3>9. HookDone(y, K, i, from, z)
      BY <3>10, <3>8, HookIs
    <3>3. /\ Shape(z) /\ LinesBut(y, z, {i}) /\ z.count = y.count
          /\ z.lines[i] = [y.lines[i] EXCEPT !.first = from] /\ Chained(z, Hung(i - 1) \union {i})
      BY <3>9 DEF K, HookDone
    <3> HIDE DEF z
    <3> USE DEF Ok
    <3>4. z.room = 2 * N /\ z \in CacheOf(2 * N)
      BY <2>2, <3>3 DEF LinesBut, Shape
    <3>5. z.lines = lines
      <4>1. y.lines[i] \in Lines /\ y.lines[i].first = from
        BY <1>3, <2>1, <2>3 DEF from
      <4>2. z.lines[i] = lines[i]
        BY <2>3, <3>3, <4>1 DEF Lines
      <4>3. \A j \in 1 .. 2 * N : z.lines[j] = lines[j]
        BY <2>2, <2>3, <3>3, <4>2 DEF LinesBut
      <4>4. z.lines \in [1 .. 2 * N -> Lines]
        BY <3>4 DEF CacheOf
      <4> DEFINE D == 1 .. 2 * N
      <4>5. z.lines \in [D -> Lines] /\ lines \in [D -> Lines] /\ \A j \in D : z.lines[j] = lines[j]
        BY <1>3, <4>3, <4>4
      <4> HIDE DEF D
      <4> QED BY <4>5
    <3>6. Ok(z, i)
      BY <2>2, <3>1, <3>3, <3>5 DEF LinesBut, SameLimits
    <3>7. z \in X[i]
      <4> HIDE DEF Ok, X
      <4> QED BY <1>5, <2>1, <3>4, <3>6
    <3> QED BY <2>2, <2>5, <3>7 DEF z, from, Next1, G
  <2> QED BY <2>4, <2>5
<1> HIDE DEF X, Next1
<1>8. PICK f : Takes(f, G, N, X, big)
  <2>1. Leads(G, N, X)
    BY <1>7 DEF Leads
  <2> HIDE DEF G
  <2> QED BY <1>1, <1>6, <2>1, Recursion
<1>9. Is(f)
  <2>1. \A i \in 1 .. N : f[i] = Next1(f[i - 1], i)
    <3> HIDE DEF G
    <3> QED BY <1>7, <1>8 DEF Takes
  <2>2. f = [i \in 0 .. N |-> f[i]] /\ f[0] = big
    BY <1>8 DEF Takes
  <2>3. \A i \in 0 .. N : f[i] = IF i = 0 THEN big ELSE Next1(f[i - 1], i)
    <3> SUFFICES ASSUME NEW i \in 0 .. N PROVE f[i] = IF i = 0 THEN big ELSE Next1(f[i - 1], i)
      OBVIOUS
    <3>1. i # 0 => i \in 1 .. N
      BY <1>1
    <3> QED BY <2>1, <2>2, <3>1
  <2> QED BY <2>2, <2>3
<1>10. Is(again)
  <2> HIDE DEF Is
  <2> QED BY <1>9
<1> HIDE DEF again
<1> DEFINE S == {i \in 0 .. N : again[i] \in X[i]}
<1>11. Climbs(S, N)
  <2>1. 0 \in S
    BY <1>1, <1>6, <1>10
  <2>2. ASSUME NEW i \in 1 .. N, i - 1 \in S PROVE i \in S
    <3>1. again[i] = Next1(again[i - 1], i) /\ again[i - 1] \in X[i - 1]
      BY <1>1, <1>10, <2>2
    <3>2. Next1(again[i - 1], i) \in X[i]
      BY <1>7, <3>1
    <3>3. i \in 0 .. N
      BY <1>1
    <3> QED BY <3>1, <3>2, <3>3
  <2> HIDE DEF S
  <2> QED BY <2>1, <2>2 DEF Climbs
<1>12. again[N] \in X[N]
  <2>1. N \in S
    <3> HIDE DEF S
    <3> QED BY <1>1, <1>11, Climbing
  <2> QED BY <2>1
<1> DEFINE y == Doubled(x)
<1>13. Ok(y, N) /\ y \in CacheOf(2 * N)
  <2>1. N \in 0 .. N
    BY <1>1
  <2> HIDE DEF Ok, Hung
  <2> QED BY <1>2, <1>5, <1>12, <2>1
<1> HIDE DEF y
<1>14. y.room = 2 * N /\ y.lines = lines /\ \A j \in 1 .. N : y.lines[j] = x.lines[j]
  BY <1>1, <1>13 DEF CacheOf, lines
<1>15. WithMemory(y) = WithMemory(x)
  <2>1. ASSUME NEW j \in 1 .. 2 * N, ~(j <= N) PROVE y.lines[j].data = NoMem
    BY <1>14, <2>1 DEF lines, Zeroed
  <2> QED BY <1>1, <1>14, <2>1 DEF WithMemory
<1>16. Hooked(y) = Hooked(x) /\ Hung(N) = Hooked(x)
  BY <1>1, <1>14, <1>15 DEF Hooked
<1>17. Fewer(x, y)
  BY <1>1, <1>14, <1>16 DEF Fewer, Hooked
<1> QED BY <1>13, <1>15, <1>16, <1>17 DEF y, Sound

----------------------------------------------------------------------------
(* A line with memory to fill.                                             *)

\* The line at hand, if there is one, has memory and no sectors.
Ready(x) == x.at # 0 => x.at \in WithMemory(x) /\ x.lines[x.at].first = NONE

\* Only the line at hand is another.
LEMMA AtSound ==
  ASSUME NEW x, Sound(x), NEW a \in 0 .. x.room, NEW y, y = [x EXCEPT !.at = a]
  PROVE  /\ Sound(y) /\ Fewer(x, y) /\ SameLimits(x, y) /\ y.count = x.count /\ y.at = a /\ y.lines = x.lines
         /\ y.room = x.room /\ WithMemory(y) = WithMemory(x) /\ Hooked(y) = Hooked(x)
<1>1. /\ Shape(y) /\ y.room = x.room /\ y.lines = x.lines /\ y.chains = x.chains /\ y.count = x.count /\ y.at = a
      /\ y.limit = x.limit /\ y.off = x.off
  BY DEF Sound, Shape, CacheOf
<1>2. WithMemory(y) = WithMemory(x) /\ Hooked(y) = Hooked(x)
  BY <1>1 DEF WithMemory, Hooked
<1>3. Chained(y, Hooked(y))
  <2>1. SameFirsts(x, y, Hooked(x))
    BY <1>1 DEF SameFirsts
  <2> QED BY <1>2, <2>1, SameChains DEF Sound
<1> QED BY <1>1, <1>2, <1>3 DEF Sound, Fewer, SameLimits

LEMMA BoughtIs == ASSUME setup \in Setups PROVE Bought \in Lines /\ Bought.first = NONE /\ Bought.data \in Data
BY DEF Bought, Lines, Data, Said

\* y is x with memory bought for line i.
Buys(x, i, y) == y = [x EXCEPT !.lines[i] = Bought, !.count = @ + 1, !.at = i]

\* Memory is bought for a line that has none.
LEMMA BoughtSound ==
  ASSUME setup \in Setups, NEW x, Sound(x), NEW i \in (1 .. x.room) \ WithMemory(x),
         NEW y, Buys(x, i, y)
  PROVE  Sound(y) /\ Fewer(x, y) /\ SameLimits(x, y) /\ y.count = x.count + 1 /\ y.at = i /\ Ready(y)
<1> DEFINE n == x.count + 1
<1>1. /\ n \in Nat /\ x \in CacheOf(x.room) /\ x.room \in Nat \ {0} /\ Bought \in Lines
      /\ i \in 1 .. x.room /\ i \in 0 .. x.room
  BY BoughtIs DEF Sound, Shape, CacheOf
<1>2. y = [x EXCEPT !.lines[i] = Bought, !.count = n, !.at = i]
  BY DEF Buys
<1> HIDE DEF n
<1>3. /\ y \in CacheOf(x.room) /\ y.room = x.room /\ y.lines = [x.lines EXCEPT ![i] = Bought] /\ y.chains = x.chains
      /\ y.count = n /\ y.at = i /\ y.limit = x.limit /\ y.off = x.off
  <2> DEFINE lines == [x.lines EXCEPT ![i] = Bought]
             room == x.room
  <2>1. lines \in [1 .. room -> Lines] /\ x.chains \in [0 .. room - 1 -> Seq(1 .. room)] /\ room \in {room}
        /\ x.clock \in Nat /\ x.limit \in Nat /\ x.off \in BOOLEAN /\ i \in 0 .. room
    BY <1>1 DEF CacheOf
  <2>2. y = [room |-> room, lines |-> lines, chains |-> x.chains, count |-> n, clock |-> x.clock,
             limit |-> x.limit, off |-> x.off, at |-> i]
    BY <1>1, <1>2 DEF CacheOf
  <2> HIDE DEF lines, room
  <2>3. y \in CacheOf(room)
    BY <1>1, <2>1, <2>2 DEF CacheOf
  <2>4. /\ y.room = room /\ y.lines = lines /\ y.chains = x.chains /\ y.count = n /\ y.at = i
        /\ y.limit = x.limit /\ y.off = x.off
    BY <2>2
  <2> QED BY <2>3, <2>4 DEF lines, room
<1>4. y.lines[i] = Bought /\ \A j \in 1 .. x.room : j # i => y.lines[j] = x.lines[j]
  BY <1>1, <1>3 DEF CacheOf
<1>5. Bought.data # NoMem /\ Bought.first = NONE
  BY BoughtIs, NoMemIsNoData
<1>6. WithMemory(y) = WithMemory(x) \union {i}
  BY <1>3, <1>4, <1>5 DEF WithMemory
<1>7. Hooked(y) = Hooked(x)
  BY <1>3, <1>4, <1>5, <1>6 DEF Hooked, WithMemory
<1>8. Chained(y, Hooked(y))
  <2>1. SameFirsts(x, y, Hooked(x))
    BY <1>3, <1>4 DEF SameFirsts, Hooked, WithMemory
  <2> QED BY <1>7, <2>1, SameChains DEF Sound
<1>9. Fewer(x, y)
  BY <1>4, <1>7 DEF Fewer, Hooked, WithMemory
<1>10. Cardinality(WithMemory(y)) = n
  <2>1. IsFiniteSet(WithMemory(x)) /\ x.count = Cardinality(WithMemory(x))
    BY Held DEF Sound
  <2>2. Cardinality(WithMemory(x) \union {i}) = Cardinality(WithMemory(x)) + 1
    BY <2>1, FS_AddElement
  <2> QED BY <1>6, <2>1, <2>2 DEF n
<1>11. Ready(y)
  BY <1>3, <1>4, <1>5, <1>6 DEF Ready
<1> QED BY <1>1, <1>3, <1>8, <1>9, <1>10, <1>11 DEF n, Sound, Shape, SameLimits

LEMMA LineIs ==
  ASSUME setup \in Setups, NEW x, Sound(x), NEW bought \in BOOLEAN
  PROVE  LET y == Line(x, bought, Oldest(x))
         IN /\ Sound(y) /\ Fewer(x, y) /\ SameLimits(x, y) /\ Ready(y)
            /\ y.count = x.count \/ (bought /\ y.count = x.count + 1)
<1> DEFINE free == {i \in 1 .. x.room : x.lines[i].data = NoMem}
           old == Oldest(x)
           y == Line(x, bought, old)
<1>1. CASE bought /\ free # {}
  <2>1. Min(free) \in (1 .. x.room) \ WithMemory(x)
    <3>1. free \subseteq Nat
      OBVIOUS
    <3>2. Min(free) \in free
      <4> HIDE DEF free
      <4> QED BY <1>1, <3>1, MinIn
    <3> QED BY <3>2 DEF WithMemory
  <2>2. y = [x EXCEPT !.lines[Min(free)] = Bought, !.count = x.count + 1, !.at = Min(free)]
    BY <1>1 DEF Line
  <2> DEFINE place == Min(free)
  <2>3. place \in (1 .. x.room) \ WithMemory(x) /\ Buys(x, place, y)
    BY <2>1, <2>2 DEF Buys
  <2> HIDE DEF place, y, free
  <2>4. Sound(y) /\ Fewer(x, y) /\ SameLimits(x, y) /\ y.count = x.count + 1 /\ Ready(y)
    BY <2>3, BoughtSound
  <2> QED BY <1>1, <2>4 DEF y, free
<1>2. CASE ~(bought /\ free # {})
  <2>1. y = [(IF old = 0 THEN x ELSE Unhooked(x, old)) EXCEPT !.at = old]
    BY <1>2 DEF Line
  <2>2. CASE WithMemory(x) = {}
    <3>1. old = 0 /\ 0 \in 0 .. x.room
      BY <2>2, OldestIs DEF Sound, Shape
    <3>2. y = [x EXCEPT !.at = 0]
      BY <2>1, <3>1
    <3> HIDE DEF y
    <3>3. Sound(y) /\ Fewer(x, y) /\ SameLimits(x, y) /\ y.count = x.count /\ y.at = 0
      BY <3>1, <3>2, AtSound
    <3> QED BY <3>3 DEF Ready, y
  <2>3. CASE WithMemory(x) # {}
    <3>1. old \in WithMemory(x) /\ old \in 1 .. x.room /\ old # 0
      BY <2>3, OldestIs DEF Sound, WithMemory
    <3> DEFINE u == Unhooked(x, old)
    <3>2. y = [u EXCEPT !.at = old]
      BY <2>1, <3>1
    <3> HIDE DEF old
    <3>3. /\ Sound(u) /\ Fewer(x, u) /\ LinesBut(x, u, {old}) /\ WithMemory(u) = WithMemory(x)
          /\ u.count = x.count /\ u.lines[old].first = NONE
      BY <3>1, UnhookedSound
    <3> HIDE DEF u, y
    <3>4. old \in 0 .. u.room
      BY <3>1, <3>3 DEF LinesBut
    <3>5. /\ Sound(y) /\ Fewer(u, y) /\ SameLimits(u, y) /\ y.count = u.count /\ y.at = old /\ y.lines = u.lines
          /\ WithMemory(y) = WithMemory(u)
      BY <3>2, <3>3, <3>4, AtSound
    <3>6. Fewer(x, y)
      BY <3>3, <3>5, FewerStill
    <3>7. Ready(y) /\ SameLimits(x, y)
      BY <3>1, <3>3, <3>5 DEF Ready, SameLimits, LinesBut
    <3> QED BY <3>3, <3>5, <3>6, <3>7 DEF y, old
  <2> QED BY <2>2, <2>3
<1> QED BY <1>1, <1>2

LEMMA SlotIs ==
  ASSUME setup \in Setups, NEW x, Sound(x), Within(x), NEW memory
  PROVE  /\ Sound(Slot(x, memory)) /\ Fewer(x, Slot(x, memory)) /\ SameLimits(x, Slot(x, memory))
         /\ Ready(Slot(x, memory)) /\ Within(Slot(x, memory))
         /\ "line" \notin memory => Slot(x, memory).count = x.count
<1> DEFINE grows == MayGrow(x) /\ x.count = x.room /\ "table" \in memory /\ x.room < MaxRoom
           big == IF grows THEN Doubled(x) ELSE x
           bought == MayGrow(x) /\ "line" \in memory
           y == Slot(x, memory)
<1>1. Sound(big) /\ Fewer(x, big) /\ SameLimits(x, big) /\ big.count = x.count
  <2>1. CASE grows
    BY <2>1, DoubledIs
  <2>2. CASE ~grows
    BY <2>2 DEF Fewer, SameLimits
  <2> QED BY <2>1, <2>2
<1>2. y = Line(big, bought, Oldest(big)) /\ bought \in BOOLEAN
  BY DEF Slot
<1>3. bought => MayGrow(x) /\ "line" \in memory
  OBVIOUS
<1> HIDE DEF big, bought, y
<1>4. /\ Sound(y) /\ Fewer(big, y) /\ SameLimits(big, y) /\ Ready(y)
      /\ y.count = big.count \/ (bought /\ y.count = big.count + 1)
  BY <1>1, <1>2, LineIs
<1>5. Fewer(x, y)
  BY <1>1, <1>4, FewerStill
<1>6. SameLimits(x, y)
  BY <1>1, <1>4 DEF SameLimits
<1>7. Within(y)
  <2>1. x.count \in Nat /\ x.limit \in Nat /\ y.limit = x.limit
    BY <1>6 DEF Sound, Shape, CacheOf, SameLimits
  <2> QED BY <1>1, <1>3, <1>4, <2>1 DEF Within, MayGrow
<1> QED BY <1>1, <1>3, <1>4, <1>5, <1>6, <1>7 DEF y

----------------------------------------------------------------------------
(* What is in a line.                                                      *)

\* y is x with data in line i.
Fills(x, i, data, y) == y = [x EXCEPT !.lines[i].data = data]

LEMMA FillsSound ==
  ASSUME setup \in Setups, NEW x, Sound(x), NEW i \in WithMemory(x), NEW data \in Data, NEW y, Fills(x, i, data, y)
  PROVE  /\ Sound(y) /\ SameLimits(x, y) /\ y.count = x.count /\ y.room = x.room /\ y.at = x.at
         /\ WithMemory(y) = WithMemory(x) /\ Hooked(y) = Hooked(x)
         /\ y.lines[i].first = x.lines[i].first /\ y.lines[i].data = data
         /\ \A j \in 1 .. x.room : j # i => y.lines[j] = x.lines[j]
<1> DEFINE line == [x.lines[i] EXCEPT !.data = data]
<1>1. /\ x \in CacheOf(x.room) /\ x.room \in Nat \ {0} /\ i \in 1 .. x.room /\ x.lines \in [1 .. x.room -> Lines]
      /\ x.lines[i] \in Lines /\ data # NoMem
  BY NoMemIsNoData DEF Sound, Shape, CacheOf, WithMemory
<1>2. line \in Lines /\ line.first = x.lines[i].first /\ line.data = data
  BY <1>1 DEF Lines
<1>3. y = [x EXCEPT !.lines[i] = line]
  BY DEF Fills
<1> HIDE DEF line
<1>4. /\ y \in CacheOf(x.room) /\ y.room = x.room /\ y.lines = [x.lines EXCEPT ![i] = line] /\ y.chains = x.chains
      /\ y.count = x.count /\ y.at = x.at /\ y.limit = x.limit /\ y.off = x.off
  BY <1>1, <1>2, <1>3 DEF CacheOf
<1>5. y.lines[i] = line /\ \A j \in 1 .. x.room : j # i => y.lines[j] = x.lines[j]
  BY <1>1, <1>4
<1>6. WithMemory(y) = WithMemory(x)
  BY <1>1, <1>2, <1>4, <1>5 DEF WithMemory
<1>7. \A j \in 1 .. x.room : y.lines[j].first = x.lines[j].first
  BY <1>2, <1>5
<1>8. Hooked(y) = Hooked(x)
  BY <1>6, <1>7 DEF Hooked, WithMemory
<1>9. Chained(y, Hooked(y))
  <2>1. SameFirsts(x, y, Hooked(x))
    BY <1>4, <1>7 DEF SameFirsts, Hooked, WithMemory
  <2> QED BY <1>8, <2>1, SameChains DEF Sound
<1> QED BY <1>1, <1>2, <1>4, <1>5, <1>6, <1>8, <1>9 DEF Sound, Shape, SameLimits

\* y is x with line i used then.
Uses(x, i, clock, then, y) == y = [x EXCEPT !.clock = clock, !.lines[i].used = then]

LEMMA UsesSound ==
  ASSUME NEW x, Sound(x), NEW i \in WithMemory(x), NEW clock \in Nat, NEW then \in Nat, NEW y,
         Uses(x, i, clock, then, y)
  PROVE  Sound(y) /\ Fewer(x, y) /\ SameLimits(x, y) /\ y.count = x.count
<1> DEFINE line == [x.lines[i] EXCEPT !.used = then]
<1>1. /\ x \in CacheOf(x.room) /\ x.room \in Nat \ {0} /\ i \in 1 .. x.room /\ x.lines \in [1 .. x.room -> Lines]
      /\ x.lines[i] \in Lines
  BY DEF Sound, Shape, CacheOf, WithMemory
<1>2. line \in Lines /\ line.first = x.lines[i].first /\ line.data = x.lines[i].data
  BY <1>1 DEF Lines
<1>3. y = [x EXCEPT !.clock = clock, !.lines[i] = line]
  BY DEF Uses
<1> HIDE DEF line
<1>4. /\ y \in CacheOf(x.room) /\ y.room = x.room /\ y.lines = [x.lines EXCEPT ![i] = line] /\ y.chains = x.chains
      /\ y.count = x.count /\ y.limit = x.limit /\ y.off = x.off
  BY <1>1, <1>2, <1>3 DEF CacheOf
<1>5. \A j \in 1 .. x.room : y.lines[j].first = x.lines[j].first /\ y.lines[j].data = x.lines[j].data
  BY <1>1, <1>2, <1>4
<1>6. WithMemory(y) = WithMemory(x) /\ Hooked(y) = Hooked(x)
  BY <1>4, <1>5 DEF Hooked, WithMemory
<1>7. Chained(y, Hooked(y))
  <2>1. SameFirsts(x, y, Hooked(x))
    BY <1>4, <1>5 DEF SameFirsts, Hooked, WithMemory
  <2> QED BY <1>6, <2>1, SameChains DEF Sound
<1>8. Fewer(x, y)
  BY <1>5, <1>6 DEF Fewer, Hooked, WithMemory
<1> QED BY <1>1, <1>4, <1>6, <1>7, <1>8 DEF Sound, Shape, SameLimits

\* A line filled with what the disk says, and hooked in.
LEMMA FilledSound ==
  ASSUME setup \in Setups, disk \in [Sectors -> Vals], NEW x, Sound(x), Truth(x), Ready(x), x.at # 0,
         NEW lba \in Nat, NoneHas(x, Hooked(x), LineOf(lba)), LineOf(lba) + LINE_SECTORS <= DiskSectors,
         NEW y, Fills(Hook(x, x.at, LineOf(lba)), x.at, [k \in 0 .. LINE_SECTORS - 1 |-> disk[LineOf(lba) + k]], y)
  PROVE  /\ Sound(y) /\ Truth(y) /\ SameLimits(x, y) /\ y.count = x.count
         /\ x.at \in Hooked(y) /\ y.lines[x.at].first = LineOf(lba)
<1> DEFINE here == x.at
           l == LineOf(lba)
           h == Hook(x, here, l)
           data == [k \in 0 .. LINE_SECTORS - 1 |-> disk[l + k]]
<1>1. /\ here \in WithMemory(x) /\ x.lines[here].first = NONE /\ here \in 1 .. x.room /\ x.lines[here] \in Lines
      /\ here \in (1 .. x.room) \ Hooked(x)
  BY DEF Ready, Hooked, WithMemory, Sound, Shape, CacheOf
<1>2. l \in Nat /\ LineOf(l) = l /\ LINE_SECTORS \in Nat \ {0} /\ DiskSectors \in Nat
  <2>1. l \in Nat /\ LINE_SECTORS \in Nat \ {0} /\ DiskSectors \in Nat
    BY SetupNumbers, LineStart
  <2>2. \A k \in 0 .. LINE_SECTORS - 1 : LineOf(LineOf(lba) + k) = LineOf(lba)
    BY LineStart
  <2>3. 0 \in 0 .. LINE_SECTORS - 1 /\ l + 0 = l
    BY <2>1
  <2> QED BY <2>1, <2>2, <2>3
<1>3. data \in Data
  <2>1. \A k \in 0 .. LINE_SECTORS - 1 : l + k \in Sectors
    BY <1>2 DEF Sectors
  <2> QED BY <2>1 DEF Data, Said
<1> HIDE DEF here, l
<1>4. /\ Shape(h) /\ LinesBut(x, h, {here}) /\ h.count = x.count /\ h.at = x.at
      /\ h.lines[here] = [x.lines[here] EXCEPT !.first = l] /\ Chained(h, Hooked(x) \union {here})
  <2> DEFINE K == Hooked(x)
  <2>1. Shape(x) /\ Chained(x, K) /\ NoneHas(x, K, l)
    BY DEF Sound, l
  <2>2. setup \in Setups /\ l \in Nat /\ here \in (1 .. x.room) \ K
    BY <1>1, <1>2
  <2> HIDE DEF data, K
  <2>3. HookDone(x, K, here, l, h)
    BY <2>1, <2>2, HookIs
  <2> QED BY <2>3 DEF K, HookDone
<1> HIDE DEF h
<1>5. h.lines[here].first = l /\ h.lines[here].data = x.lines[here].data /\ l # NONE
  BY <1>1, <1>2, <1>4 DEF Lines, NONE
<1>6. WithMemory(h) = WithMemory(x)
  BY <1>1, <1>4, <1>5 DEF WithMemory, LinesBut
<1>7. Hooked(h) = Hooked(x) \union {here}
  BY <1>1, <1>4, <1>5, <1>6 DEF Hooked, LinesBut, WithMemory
<1>8. Sound(h)
  BY <1>4, <1>6, <1>7 DEF Sound
<1>9. Fills(h, here, data, y)
  BY DEF h, here, l
<1> HIDE DEF data
<1>10. /\ Sound(y) /\ SameLimits(h, y) /\ y.count = h.count /\ WithMemory(y) = WithMemory(h) /\ Hooked(y) = Hooked(h)
       /\ y.lines[here].first = l /\ y.lines[here].data = data
       /\ \A j \in 1 .. h.room : j # here => y.lines[j] = h.lines[j]
  BY <1>1, <1>3, <1>5, <1>6, <1>8, <1>9, FillsSound
<1>11. \A j \in Hooked(x) : j # here /\ y.lines[j] = x.lines[j]
  BY <1>1, <1>4, <1>10 DEF LinesBut, Hooked, WithMemory
<1>12. Whole(y)
  BY <1>2, <1>7, <1>10, <1>11 DEF Whole, Truth, l
<1>13. WritesLand => LineTrue(y)
  <2> SUFFICES ASSUME WritesLand PROVE LineTrue(y)
    OBVIOUS
  <2>1. SUFFICES ASSUME NEW j \in Hooked(y), NEW k \in 0 .. LINE_SECTORS - 1
                 PROVE  y.lines[j].data[k] = disk[y.lines[j].first + k]
    BY DEF LineTrue, Hooked
  <2>2. CASE j = here
    BY <1>10, <2>2 DEF data
  <2>3. CASE j # here
    <3>1. j \in Hooked(x) /\ y.lines[j] = x.lines[j]
      BY <1>7, <1>10, <1>11, <2>3
    <3> QED BY <3>1 DEF Truth, LineTrue, Hooked
  <2> QED BY <2>2, <2>3
<1> QED BY <1>4, <1>7, <1>10, <1>12, <1>13 DEF Truth, here, l, LinesBut, SameLimits

\* A line that could not be filled is still found by nothing.
LEMMA JunkedSound ==
  ASSUME setup \in Setups, NEW x, Sound(x), Ready(x), x.at # 0, NEW y, Fills(x, x.at, Bought.data, y)
  PROVE  Sound(y) /\ Fewer(x, y) /\ SameLimits(x, y) /\ y.count = x.count
<1> DEFINE i == x.at
<1>1. i \in WithMemory(x) /\ x.lines[i].first = NONE /\ Bought.data \in Data
  BY BoughtIs DEF Ready
<1> HIDE DEF i
<1>2. /\ Sound(y) /\ SameLimits(x, y) /\ y.count = x.count /\ Hooked(y) = Hooked(x)
      /\ \A j \in 1 .. x.room : j # i => y.lines[j] = x.lines[j]
  <2>1. Fills(x, i, Bought.data, y)
    BY DEF i
  <2> QED BY <1>1, <2>1, FillsSound
<1>3. Fewer(x, y)
  BY <1>1, <1>2 DEF Fewer, Hooked, WithMemory
<1> QED BY <1>2, <1>3

----------------------------------------------------------------------------
(* Reading.                                                                *)

LEMMA ContentsIs ==
  ASSUME setup \in Setups, disk \in [Sectors -> Vals], NEW lba \in Nat, NEW n \in Nat, lba + n <= DiskSectors
  PROVE  Contents(lba, n) \in Seq(Said) /\ Len(Contents(lba, n)) = n
<1>1. \A i \in 1 .. n : lba + i - 1 \in Sectors
  BY SetupNumbers DEF Sectors
<1> QED BY <1>1 DEF Contents, Said

LEMMA ContentsOn ==
  ASSUME setup \in Setups, disk \in [Sectors -> Vals], NEW lba \in Nat, NEW a \in Nat, NEW b \in Nat,
         lba + a + b <= DiskSectors
  PROVE  Contents(lba, a) \o Contents(lba + a, b) = Contents(lba, a + b)
<1> DEFINE p == Contents(lba, a)
           q == Contents(lba + a, b)
           s == Contents(lba, a + b)
<1>1. DiskSectors \in Nat
  BY SetupNumbers
<1>2. /\ p \in Seq(Said) /\ Len(p) = a /\ q \in Seq(Said) /\ Len(q) = b
      /\ s \in Seq(Said) /\ Len(s) = a + b
  <2>1. lba + a \in Nat /\ a + b \in Nat /\ lba + a <= DiskSectors /\ (lba + a) + b <= DiskSectors
        /\ lba + (a + b) <= DiskSectors
    BY <1>1
  <2> HIDE DEF p, q, s
  <2>2. p \in Seq(Said) /\ Len(p) = a
    BY <2>1, ContentsIs DEF p
  <2>3. q \in Seq(Said) /\ Len(q) = b
    BY <2>1, ContentsIs DEF q
  <2>4. s \in Seq(Said) /\ Len(s) = a + b
    BY <2>1, ContentsIs DEF s
  <2> QED BY <2>2, <2>3, <2>4
<1>3. ASSUME NEW k \in 1 .. a + b PROVE (p \o q)[k] = s[k]
  <2>1. s[k] = disk[lba + k - 1]
    BY DEF Contents
  <2>2. k <= a => p[k] = disk[lba + k - 1]
    BY DEF Contents
  <2>3. ~(k <= a) => k - a \in 1 .. b /\ (lba + a) + (k - a) - 1 = lba + k - 1
    OBVIOUS
  <2>4. ~(k <= a) => q[k - a] = disk[lba + k - 1]
    BY <2>3 DEF Contents
  <2> HIDE DEF p, q, s
  <2>5. (p \o q)[k] = IF k <= a THEN p[k] ELSE q[k - a]
    <3>1. k \in 1 .. Len(p) + Len(q)
      BY <1>2
    <3> QED BY <1>2, <3>1, ConcatAt
  <2> QED BY <2>1, <2>2, <2>4, <2>5
<1> HIDE DEF p, q, s
<1>4. p \o q \in Seq(Said) /\ Len(p \o q) = a + b
  BY <1>2, ConcatIs
<1>5. p \o q = s
  <2> DEFINE pq == p \o q
  <2>1. pq \in Seq(Said) /\ Len(pq) = a + b /\ \A k \in 1 .. a + b : pq[k] = s[k]
    BY <1>3, <1>4
  <2> HIDE DEF pq
  <2>2. Agree(pq, s)
    BY <1>2, <2>1 DEF Agree
  <2>3. pq = s
    BY <1>2, <2>1, <2>2, AgreeSame
  <2> QED BY <2>3 DEF pq
<1> QED BY <1>5 DEF p, q, s

\* A read of n sectors from lba through the cache x, so far.
Caches == UNION {CacheOf(room) : room \in Nat \ {0}}
Reading == [x : Caches, lba : Nat, n : Nat, data : Seq(Said), err : BOOLEAN]

\* What is read through has become y, which has nothing that is not so.
Through(x, y) ==
  /\ Sound(y) /\ Truth(y) /\ Within(y) /\ SameLimits(x, y)
  /\ "cache" \notin Does => y.count = x.count

Good(x, lba, n, r) ==
  /\ r \in Reading /\ Through(x, r.x)
  /\ Len(r.data) <= n /\ (WritesLand => r.data = Contents(lba, Len(r.data)))
  /\ r.n # 0 => r.lba = lba + Len(r.data) /\ r.n = n - Len(r.data)

LEMMA InCaches == ASSUME NEW x, Sound(x) PROVE x \in Caches
BY DEF Sound, Shape, Caches

LEMMA FromLineGood ==
  ASSUME setup \in Setups, disk \in [Sectors -> Vals], NEW lba \in Nat, NEW n \in Nat, lba + n <= DiskSectors,
         NEW x, NEW r, Good(x, lba, n, r), r.n # 0,
         NEW y, Through(x, y), NEW i \in Hooked(y), y.lines[i].first = LineOf(r.lba)
  PROVE  Good(x, lba, n, FromLine(r, y, i)) /\ Len(FromLine(r, y, i).data) > Len(r.data)
<1> DEFINE within == r.lba % LINE_SECTORS
           take == Min({LINE_SECTORS - within, r.n})
           u == [y EXCEPT !.clock = Tick(y.clock), !.lines[i].used = Tick(r.x.clock)]
           more == [k \in 1 .. take |-> y.lines[i].data[within + k - 1]]
           got1 == Len(r.data)
<1>1. /\ r \in Reading /\ r.lba \in Nat /\ r.n \in Nat \ {0} /\ r.data \in Seq(Said) /\ got1 \in Nat
      /\ r.lba = lba + got1 /\ r.n = n - got1 /\ r.err \in BOOLEAN
      /\ WritesLand => r.data = Contents(lba, got1)
  BY DEF Good, Reading
<1>2. /\ LINE_SECTORS \in Nat \ {0} /\ DiskSectors \in Nat /\ within \in 0 .. LINE_SECTORS - 1
      /\ r.lba = LineOf(r.lba) + within /\ LineOf(r.lba) \in Nat
  BY <1>1, SetupNumbers, LineStart
<1>3. take \in Nat \ {0} /\ take <= LINE_SECTORS - within /\ take <= r.n
  <2> DEFINE S == {LINE_SECTORS - within, r.n}
  <2>1. S \subseteq Nat \ {0} /\ S # {} /\ S \subseteq Nat
    <3>1. LINE_SECTORS - within \in Nat \ {0}
      <4> HIDE DEF within
      <4> QED BY <1>2
    <3> HIDE DEF within
    <3> QED BY <1>1, <3>1
  <2>2. Min(S) \in S /\ \A v \in S : Min(S) <= v
    <3> HIDE DEF S
    <3> QED BY <2>1, MinIn
  <2> QED BY <2>1, <2>2
<1> HIDE DEF within, take, got1
<1>4. WritesLand => more = Contents(r.lba, take)
  <2> SUFFICES ASSUME WritesLand PROVE more = Contents(r.lba, take)
    OBVIOUS
  <2>1. ASSUME NEW k \in 1 .. take PROVE y.lines[i].data[within + k - 1] = disk[r.lba + k - 1]
    <3>1. within + k - 1 \in 0 .. LINE_SECTORS - 1 /\ r.lba + k - 1 = LineOf(r.lba) + (within + k - 1)
      <4> DEFINE l == LineOf(r.lba)
                 s == r.lba
      <4>1. within \in Nat /\ take \in Nat /\ LINE_SECTORS \in Nat /\ l \in Nat /\ s = l + within /\ take <= LINE_SECTORS - within
        BY <1>2, <1>3
      <4> HIDE DEF l, s
      <4>2. within + k - 1 \in 0 .. LINE_SECTORS - 1 /\ s + k - 1 = l + (within + k - 1)
        BY <4>1
      <4> QED BY <4>2 DEF l, s
    <3>2. i \in WithMemory(y) /\ y.lines[i].first # NONE
      BY DEF Hooked
    <3> QED BY <3>1, <3>2 DEF Through, Truth, LineTrue
  <2> QED BY <2>1 DEF Contents
<1>13. more \in Seq(Said) /\ Len(more) = take
  <2>1. ASSUME NEW k \in 1 .. take PROVE y.lines[i].data[within + k - 1] \in Said
    <3>1. within + k - 1 \in 0 .. LINE_SECTORS - 1
      BY <1>2, <1>3
    <3>2. y.lines[i].data \in Data
      BY DEF Hooked, WithMemory, Through, Sound, Shape, CacheOf, Lines
    <3> QED BY <3>1, <3>2 DEF Data
  <2> QED BY <1>3, <2>1
<1> HIDE DEF more
<1>5. /\ r.data \o more \in Seq(Said) /\ Len(r.data \o more) = got1 + take
      /\ WritesLand => r.data \o more = Contents(lba, got1 + take)
  <2>1. lba + got1 + take <= DiskSectors /\ r.lba + take <= DiskSectors
    BY <1>1, <1>2, <1>3
  <2>2. Contents(lba, got1) \o Contents(lba + got1, take) = Contents(lba, got1 + take)
    BY ZenonT(60), <1>1, <1>3, <2>1, ContentsOn
  <2>3. Len(r.data) = got1 /\ r.data \in Seq(Said)
    BY <1>1 DEF got1
  <2>4. WritesLand => r.data \o more = Contents(lba, got1 + take)
    BY <1>1, <1>4, <2>2
  <2>5. r.data \o more \in Seq(Said) /\ Len(r.data \o more) = got1 + take
    BY <1>13, <2>3, ConcatIs
  <2> QED BY <2>4, <2>5
<1>6. Through(x, u)
  <2>1. Tick(y.clock) \in Nat /\ Tick(r.x.clock) \in Nat
    <3>1. y.clock \in Nat /\ r.x.clock \in Nat
      BY DEF Good, Through, Sound, Shape, CacheOf
    <3>2. CLOCK \in Nat \ {0}
      BY SetupNumbers
    <3>3. \A v \in Nat : Tick(v) \in Nat
      <4> SUFFICES ASSUME NEW v \in Nat PROVE Tick(v) \in Nat
        OBVIOUS
      <4>1. v + 1 \in Nat
        OBVIOUS
      <4> QED BY <3>2, <4>1, DivMod DEF Tick
    <3> QED BY <3>1, <3>3
  <2>2. Uses(y, i, Tick(y.clock), Tick(r.x.clock), u)
    BY DEF Uses
  <2> HIDE DEF u
  <2>3. Sound(u) /\ Fewer(y, u) /\ SameLimits(y, u) /\ u.count = y.count
    <3>1. Sound(y) /\ i \in WithMemory(y)
      BY DEF Through, Hooked
    <3> QED BY <2>1, <2>2, <3>1, UsesSound
  <2>4. Truth(u)
    BY <2>3, FewerTrue DEF Through
  <2> QED BY <2>3, <2>4 DEF Through, SameLimits, Within
<1>7. FromLine(r, y, i) = [x |-> u, lba |-> r.lba + take, n |-> r.n - take, data |-> r.data \o more, err |-> r.err]
  <2>1. FromLine(r, y, i) = [r EXCEPT !.x = u, !.lba = r.lba + take, !.n = r.n - take, !.data = r.data \o more]
    BY DEF FromLine, take, within, more
  <2> HIDE DEF u
  <2> QED BY <1>1, <2>1 DEF Reading
<1> HIDE DEF u
<1> DEFINE z == FromLine(r, y, i)
           all == r.data \o more
<1>8. z.x = u /\ z.lba = r.lba + take /\ z.n = r.n - take /\ z.data = all
  BY <1>7
<1>9. z \in Reading
  <2>1. u \in Caches
    BY <1>6, InCaches DEF Through
  <2>2. r.lba + take \in Nat /\ r.n - take \in Nat /\ all \in Seq(Said)
    BY <1>1, <1>3, <1>5
  <2> HIDE DEF all
  <2> QED BY <1>1, <1>7, <2>1, <2>2 DEF Reading, all
<1> HIDE DEF z, all
<1>10. Len(z.data) = got1 + take /\ (WritesLand => z.data = Contents(lba, got1 + take))
  BY <1>5, <1>8 DEF all
<1>11. Good(x, lba, n, z)
  BY <1>1, <1>3, <1>6, <1>8, <1>9, <1>10 DEF Good
<1>12. Len(z.data) > Len(r.data)
  BY <1>1, <1>3, <1>10 DEF got1
<1> QED BY <1>11, <1>12 DEF z

LEMMA AnswersAre ==
  ASSUME NEW e \in Answers
  PROVE  e.fails \in BOOLEAN /\ e.around \in BOOLEAN /\ ("cache" \notin Does => "line" \notin e.memory)
BY DEF Answers, Fails, Memory

LEMMA SlotThrough ==
  ASSUME setup \in Setups, NEW x, NEW y, Through(x, y), NEW e \in Answers
  PROVE  LET s == Slot(y, e.memory)
         IN Through(x, s) /\ Ready(s) /\ Fewer(y, s)
<1> DEFINE s == Slot(y, e.memory)
           memory == e.memory
<1>1. "cache" \notin Does => "line" \notin memory
  BY AnswersAre
<1> HIDE DEF memory
<1>2. /\ Sound(s) /\ Fewer(y, s) /\ SameLimits(y, s) /\ Ready(s) /\ Within(s)
      /\ "line" \notin memory => s.count = y.count
  <2> DEFINE z == Slot(y, memory)
  <2>1. Sound(y) /\ Within(y)
    BY DEF Through
  <2>2. /\ Sound(z) /\ Fewer(y, z) /\ SameLimits(y, z) /\ Ready(z) /\ Within(z)
        /\ "line" \notin memory => z.count = y.count
    BY <2>1, SlotIs
  <2>3. z = s
    BY DEF memory
  <2> HIDE DEF z, s
  <2> QED BY <2>2, <2>3
<1> HIDE DEF s
<1>3. Truth(s)
  BY <1>2, FewerTrue DEF Through
<1>4. Through(x, s)
  BY <1>1, <1>2, <1>3 DEF Through, SameLimits
<1> QED BY <1>2, <1>4 DEF s

LEMMA ReadLineGood ==
  ASSUME setup \in Setups, disk \in [Sectors -> Vals], NEW lba \in Nat, NEW n \in Nat, lba + n <= DiskSectors,
         NEW x, NEW r, Good(x, lba, n, r), r.n # 0, NEW e \in Answers,
         NEW s, Through(x, s), Ready(s), NoneHas(s, Hooked(s), LineOf(r.lba))
  PROVE  Good(x, lba, n, ReadLine(r, e, s)) /\ Len(ReadLine(r, e, s).data) > Len(r.data)
<1> DEFINE first == LineOf(r.lba)
           around == s.at = 0 \/ e.fails \/ first + LINE_SECTORS > DiskSectors
           z == ReadLine(r, e, s)
<1>1. /\ r \in Reading /\ r.lba \in Nat /\ r.n \in Nat \ {0} /\ r.data \in Seq(Said) /\ Len(r.data) \in Nat
      /\ r.lba = lba + Len(r.data) /\ r.n = n - Len(r.data) /\ r.err \in BOOLEAN
      /\ WritesLand => r.data = Contents(lba, Len(r.data))
  BY DEF Good, Reading
<1>2. CASE around
  <2> DEFINE u == IF s.at = 0 THEN s ELSE [s EXCEPT !.lines[s.at].data = Bought.data]
             all == r.data \o Contents(r.lba, r.n)
  <2>1. z = [r EXCEPT !.x = u, !.n = 0, !.err = e.around, !.data = all]
    BY <1>2 DEF ReadLine
  <2>2. (WritesLand => all = Contents(lba, n)) /\ all \in Seq(Said) /\ Len(all) = n
    <3> DEFINE a == Len(r.data)
               b == r.n
    <3>1. /\ a \in Nat /\ b \in Nat /\ a + b = n /\ lba + a + b <= DiskSectors /\ lba + a \in Nat
          /\ r.lba = lba + a /\ Len(r.data) = a /\ r.data \in Seq(Said)
          /\ WritesLand => r.data = Contents(lba, a)
      BY <1>1, SetupNumbers
    <3> HIDE DEF a, b
    <3>2. Contents(lba, a) \o Contents(lba + a, b) = Contents(lba, a + b)
      <4>1. a \in Nat /\ b \in Nat /\ lba + a + b <= DiskSectors
        BY <3>1
      <4> QED BY <4>1, ContentsOn
    <3>3. WritesLand => all = Contents(lba, n)
      BY <3>1, <3>2 DEF b
    <3>4. Contents(r.lba, b) \in Seq(Said) /\ Len(Contents(r.lba, b)) = b
      <4>1. r.lba \in Nat /\ b \in Nat /\ r.lba + b <= DiskSectors
        BY <3>1
      <4> QED BY <4>1, ContentsIs
    <3>5. r.data \o Contents(r.lba, b) \in Seq(Said) /\ Len(r.data \o Contents(r.lba, b)) = a + b
      <4> DEFINE p == Contents(r.lba, b)
                 d == r.data
      <4>1. d \in Seq(Said) /\ Len(d) = a /\ p \in Seq(Said) /\ Len(p) = b
        BY <3>1, <3>4
      <4> HIDE DEF p, d
      <4>2. d \o p \in Seq(Said) /\ Len(d \o p) = a + b
        BY <4>1, ConcatIs
      <4> QED BY <4>2 DEF p, d
    <3> QED BY <3>1, <3>3, <3>5 DEF b
  <2> HIDE DEF all
  <2>3. Through(x, u)
    <3>1. CASE s.at = 0
      BY <3>1
    <3>2. CASE s.at # 0
      <4>1. Fills(s, s.at, Bought.data, u)
        BY <3>2 DEF Fills
      <4> HIDE DEF u
      <4>2. Sound(u) /\ Fewer(s, u) /\ SameLimits(s, u) /\ u.count = s.count
        BY <3>2, <4>1, JunkedSound DEF Through
      <4>3. Truth(u)
        BY <4>2, FewerTrue DEF Through
      <4> QED BY <4>2, <4>3 DEF Through, SameLimits, Within
    <3> QED BY <3>1, <3>2
  <2> HIDE DEF u
  <2>4. u \in Caches /\ e.around \in BOOLEAN
    BY <2>3, InCaches, AnswersAre DEF Through
  <2>5. z \in Reading /\ z.x = u /\ z.n = 0 /\ z.data = all
    <3> HIDE DEF z
    <3> QED BY <1>1, <2>1, <2>2, <2>4 DEF Reading
  <2> HIDE DEF z
  <2>6. Good(x, lba, n, z)
    BY <2>2, <2>3, <2>5 DEF Good
  <2>7. Len(z.data) > Len(r.data)
    BY <1>1, <2>2, <2>5
  <2> QED BY <2>6, <2>7 DEF z
<1>3. CASE ~around
  <2> DEFINE data == [k \in 0 .. LINE_SECTORS - 1 |-> disk[first + k]]
             here == s.at
             y == [Hook(s, here, first) EXCEPT !.lines[here].data = data]
  <2>1. z = FromLine(r, y, here)
    BY <1>3 DEF ReadLine
  <2>2. here # 0 /\ first + LINE_SECTORS <= DiskSectors
    <3>1. first \in Nat /\ LINE_SECTORS \in Nat /\ DiskSectors \in Nat
      BY <1>1, LineStart, SetupNumbers
    <3> HIDE DEF first
    <3> QED BY <1>3, <3>1
  <2>3. Fills(Hook(s, s.at, LineOf(r.lba)), s.at, [k \in 0 .. LINE_SECTORS - 1 |-> disk[LineOf(r.lba) + k]], y)
    BY DEF Fills
  <2> HIDE DEF y, z
  <2>4. /\ Sound(y) /\ Truth(y) /\ SameLimits(s, y) /\ y.count = s.count
        /\ here \in Hooked(y) /\ y.lines[here].first = LineOf(r.lba)
    BY <1>1, <2>2, <2>3, FilledSound DEF Through
  <2>5. Through(x, y)
    BY <2>4 DEF Through, SameLimits, Within
  <2> HIDE DEF here
  <2>6. Good(x, lba, n, FromLine(r, y, here)) /\ Len(FromLine(r, y, here).data) > Len(r.data)
    BY <2>4, <2>5, FromLineGood
  <2> QED BY <2>1, <2>6 DEF z
<1> QED BY <1>2, <1>3

LEMMA ReadTurnGood ==
  ASSUME setup \in Setups, disk \in [Sectors -> Vals], NEW lba \in Nat, NEW n \in Nat, lba + n <= DiskSectors,
         NEW x, NEW r, Good(x, lba, n, r), NEW e \in Answers
  PROVE  /\ Good(x, lba, n, ReadTurn(r, e)) /\ Len(ReadTurn(r, e).data) >= Len(r.data)
         /\ r.n # 0 => Len(ReadTurn(r, e).data) > Len(r.data)
<1> DEFINE y == r.x
           first == LineOf(r.lba)
           l == Find(y, first)
           z == ReadTurn(r, e)
<1>1. r.lba \in Nat /\ Len(r.data) \in Nat /\ Through(x, y)
  BY DEF Good, Reading
<1>2. first \in Nat
  BY <1>1, LineStart
<1>3. /\ l # 0 => l \in Hooked(y) /\ y.lines[l].first = first
      /\ \A j \in Hooked(y) : y.lines[j].first = first => l = j
  <2> DEFINE K == Hooked(y)
  <2>1. Shape(y) /\ Chained(y, K)
    BY <1>1 DEF Through, Sound
  <2> HIDE DEF y, first, K
  <2> QED BY <1>2, <2>1, FindIs DEF K
<1>4. z = IF r.n = 0 THEN r ELSE IF l # 0 THEN FromLine(r, y, l) ELSE ReadLine(r, e, Slot(y, e.memory))
  BY DEF ReadTurn
<1>5. CASE r.n = 0
  BY <1>1, <1>4, <1>5
<1>6. CASE r.n # 0 /\ l # 0
  <2> HIDE DEF l
  <2>1. l \in Hooked(y) /\ y.lines[l].first = LineOf(r.lba)
    BY <1>3, <1>6
  <2>2. Good(x, lba, n, FromLine(r, y, l)) /\ Len(FromLine(r, y, l).data) > Len(r.data)
    <3> HIDE DEF y
    <3> QED BY <1>1, <1>6, <2>1, FromLineGood
  <2>3. Len(z.data) \in Nat
    <3>1. z = FromLine(r, y, l)
      BY <1>4, <1>6
    <3> HIDE DEF z
    <3> QED BY <2>2, <3>1 DEF Good, Reading
  <2> QED BY <1>1, <1>4, <1>6, <2>2, <2>3
<1>7. CASE r.n # 0 /\ l = 0
  <2> DEFINE s == Slot(y, e.memory)
  <2>1. Through(x, s) /\ Ready(s) /\ Fewer(y, s)
    BY <1>1, SlotThrough
  <2> HIDE DEF l, s
  <2>2. NoneHas(s, Hooked(s), LineOf(r.lba))
    <3>1. \A j \in Hooked(y) : j # 0
      BY <1>1 DEF Hooked, WithMemory, Through, Sound, Shape
    <3> QED BY <1>3, <1>7, <2>1, <3>1 DEF NoneHas, Fewer
  <2>3. Good(x, lba, n, ReadLine(r, e, s)) /\ Len(ReadLine(r, e, s).data) > Len(r.data)
    BY <1>7, <2>1, <2>2, ReadLineGood
  <2>4. z = ReadLine(r, e, s)
    BY <1>4, <1>7 DEF s
  <2> HIDE DEF z
  <2>5. Len(z.data) \in Nat
    BY <2>3, <2>4 DEF Good, Reading
  <2> QED BY <1>1, <2>3, <2>4, <2>5 DEF z
<1> QED BY <1>5, <1>6, <1>7

LEMMA TurnsIs ==
  ASSUME setup \in Setups, NEW lba \in Nat, NEW n \in Nat \ {0} PROVE Turns(lba, n) \in Nat \ {0}
<1> DEFINE a == lba \div LINE_SECTORS
           b == (lba + n - 1) \div LINE_SECTORS
<1>1. LINE_SECTORS \in Nat \ {0} /\ lba + n - 1 \in Nat /\ lba <= lba + n - 1
  BY SetupNumbers
<1>2. a \in Nat /\ b \in Nat /\ a <= b
  BY <1>1, DivMod, DivOrder
<1>3. Turns(lba, n) = b - a + 1
  BY DEF Turns
<1> HIDE DEF a, b
<1> QED BY <1>2, <1>3

\* What a read can come to.
IsRead(x, lba, n, r) ==
  /\ Through(x, r.x) /\ (~loaded \/ x.off => r.x = x)
  /\ r.data \in Seq(Said) /\ Len(r.data) \in 1 .. n /\ (WritesLand => r.data = Contents(lba, Len(r.data)))
  /\ r.err \in BOOLEAN

LEMMA ReadsAre ==
  ASSUME setup \in Setups, disk \in [Sectors -> Vals], NEW lba \in Nat, NEW n \in Nat \ {0}, lba + n <= DiskSectors,
         NEW x, Through(x, x), NEW r \in Reads(x, lba, n)
  PROVE  IsRead(x, lba, n, r)
<1> DEFINE T == Turns(lba, n)
           begin == [x |-> x, lba |-> lba, n |-> n, data |-> <<>>, err |-> FALSE]
           Turn(R) == {ReadTurn(q, e) : q \in R, e \in Answers}
           Ok(k, q) == Good(x, lba, n, q) /\ IF k = 0 THEN q.n # 0 ELSE Len(q.data) >= 1
           X == [k \in 0 .. T |-> SUBSET {q \in Reading : Ok(k, q)}]
           G == [k \in 1 .. T |-> [R \in SUBSET Reading |-> Turn(R)]]
           Is(turn) == turn = [k \in 0 .. T |-> IF k = 0 THEN {begin} ELSE Turn(turn[k - 1])]
           turn == CHOOSE turn : Is(turn)
<1>1. T \in Nat \ {0}
  BY TurnsIs
<1>2. CASE ~(loaded /\ ~x.off)
  <2>1. r \in {[x |-> x, lba |-> lba, n |-> 0, data |-> Contents(lba, n), err |-> fails] : fails \in Fails}
    BY <1>2 DEF Reads
  <2>2. PICK fails \in Fails : r = [x |-> x, lba |-> lba, n |-> 0, data |-> Contents(lba, n), err |-> fails]
    BY <2>1
  <2>3. fails \in BOOLEAN
    BY DEF Fails
  <2>4. r.x = x /\ r.data = Contents(lba, n) /\ r.err \in BOOLEAN
    BY <2>2, <2>3
  <2>5. Contents(lba, n) \in Seq(Said) /\ Len(Contents(lba, n)) = n
    BY ContentsIs
  <2> QED BY <2>4, <2>5 DEF IsRead
<1>3. CASE loaded /\ ~x.off
  <2>1. r \in {[q EXCEPT !.x.at = 0] : q \in turn[T]}
    <3>1. Reads(x, lba, n) =
            IF loaded /\ ~x.off THEN {[q EXCEPT !.x.at = 0] : q \in turn[T]}
            ELSE {[x |-> x, lba |-> lba, n |-> 0, data |-> Contents(lba, n), err |-> fails] : fails \in Fails}
      BY DEF Reads
    <3> HIDE DEF turn, T
    <3> QED BY <1>3, <3>1
  <2> HIDE DEF T
  <2>2. {begin} \in X[0]
    <3>1. begin \in Reading
      <4> DEFINE nothing == <<>>
      <4>1. x \in Caches /\ nothing \in Seq(Said) /\ FALSE \in BOOLEAN
        BY InCaches DEF Through
      <4> HIDE DEF nothing
      <4>2. [x |-> x, lba |-> lba, n |-> n, data |-> nothing, err |-> FALSE] \in Reading
        BY <4>1 DEF Reading
      <4> QED BY <4>2 DEF nothing
    <3>2. begin.data = Contents(lba, Len(begin.data)) /\ Len(begin.data) = 0 /\ begin.n = n /\ begin.lba = lba /\ begin.x = x
      <4>1. Contents(lba, 0) = <<>>
        BY DEF Contents
      <4> QED BY <4>1
    <3> HIDE DEF begin
    <3>3. Ok(0, begin)
      BY <3>1, <3>2 DEF Good
    <3>4. 0 \in 0 .. T
      BY <1>1
    <3> HIDE DEF Ok
    <3> QED BY <3>1, <3>3, <3>4
  <2>3. ASSUME NEW k \in 1 .. T, NEW R \in X[k - 1] PROVE Turn(R) \in X[k] /\ G[k][R] = Turn(R)
    <3>1. k - 1 \in 0 .. T /\ k \in 0 .. T
      BY <1>1
    <3>2. \A q \in R : q \in Reading /\ Ok(k - 1, q)
      <4> HIDE DEF Ok
      <4> QED BY <3>1
    <3>3. ASSUME NEW q \in R, NEW e \in Answers PROVE ReadTurn(q, e) \in Reading /\ Ok(k, ReadTurn(q, e))
      <4> DEFINE z == ReadTurn(q, e)
      <4>1. Good(x, lba, n, q) /\ Len(q.data) \in Nat /\ (q.n # 0 \/ Len(q.data) >= 1)
        BY <3>2 DEF Good, Reading
      <4>2. Good(x, lba, n, z) /\ Len(z.data) >= Len(q.data) /\ (q.n # 0 => Len(z.data) > Len(q.data))
        BY <4>1, ReadTurnGood
      <4> HIDE DEF z
      <4>3. z \in Reading /\ Len(z.data) \in Nat /\ k # 0
        BY <1>1, <4>2 DEF Good, Reading
      <4>4. z \in Reading /\ Ok(k, z)
        BY <4>1, <4>2, <4>3
      <4> QED BY <4>4 DEF z
    <3>4. Turn(R) \in X[k]
      <4> HIDE DEF Ok
      <4> QED BY <3>1, <3>3
    <3>5. R \in SUBSET Reading
      BY <3>2
    <3> QED BY <3>4, <3>5
  <2> HIDE DEF X, Turn, begin
  <2>4. PICK f : Takes(f, G, T, X, {begin})
    <3>1. Leads(G, T, X)
      BY <2>3 DEF Leads
    <3> HIDE DEF G
    <3> QED BY <1>1, <2>2, <3>1, Recursion
  <2>5. Is(f)
    <3>1. \A k \in 1 .. T : f[k] = Turn(f[k - 1])
      <4> HIDE DEF G
      <4> QED BY <2>3, <2>4 DEF Takes
    <3>2. f = [k \in 0 .. T |-> f[k]] /\ f[0] = {begin}
      BY <2>4 DEF Takes
    <3>3. \A k \in 0 .. T : f[k] = IF k = 0 THEN {begin} ELSE Turn(f[k - 1])
      <4> SUFFICES ASSUME NEW k \in 0 .. T PROVE f[k] = IF k = 0 THEN {begin} ELSE Turn(f[k - 1])
        OBVIOUS
      <4>1. k # 0 => k \in 1 .. T
        BY <1>1
      <4> QED BY <3>1, <3>2, <4>1
    <3> QED BY <3>2, <3>3
  <2>6. Is(turn)
    <3> HIDE DEF Is
    <3> QED BY <2>5
  <2> HIDE DEF turn
  <2> DEFINE S == {k \in 0 .. T : turn[k] \in X[k]}
  <2>7. Climbs(S, T)
    <3>1. 0 \in S
      BY <1>1, <2>2, <2>6
    <3>2. ASSUME NEW k \in 1 .. T, k - 1 \in S PROVE k \in S
      <4>1. turn[k] = Turn(turn[k - 1]) /\ turn[k - 1] \in X[k - 1]
        <5>1. k \in 0 .. T /\ k # 0 /\ turn[k - 1] \in X[k - 1]
          BY <1>1, <3>2
        <5>2. turn[k] = IF k = 0 THEN {begin} ELSE Turn(turn[k - 1])
          <6> DEFINE g == [j \in 0 .. T |-> IF j = 0 THEN {begin} ELSE Turn(turn[j - 1])]
          <6>1. turn = g
            BY <2>6
          <6>2. g[k] = IF k = 0 THEN {begin} ELSE Turn(turn[k - 1])
            BY <5>1
          <6> HIDE DEF g
          <6> QED BY <6>1, <6>2
        <5> QED BY <5>1, <5>2
      <4>2. Turn(turn[k - 1]) \in X[k]
        BY <2>3, <4>1
      <4>3. k \in 0 .. T
        BY <1>1
      <4> QED BY <4>1, <4>2, <4>3
    <3> HIDE DEF S
    <3> QED BY <3>1, <3>2 DEF Climbs
  <2>8. turn[T] \in X[T]
    <3>1. T \in S
      <4> HIDE DEF S
      <4> QED BY <1>1, <2>7, Climbing
    <3> QED BY <3>1
  <2>9. PICK q \in turn[T] : r = [q EXCEPT !.x.at = 0]
    BY <2>1
  <2>10. q \in Reading /\ Good(x, lba, n, q) /\ Len(q.data) >= 1
    <3>1. T \in 0 .. T /\ T # 0
      BY <1>1
    <3>2. q \in Reading /\ Ok(T, q)
      <4> HIDE DEF Ok
      <4> QED BY <2>8, <2>9, <3>1 DEF X
    <3> QED BY <3>1, <3>2
  <2> DEFINE y == q.x
             z == [y EXCEPT !.at = 0]
  <2>11. r = [x |-> z, lba |-> q.lba, n |-> q.n, data |-> q.data, err |-> q.err]
    BY <2>9, <2>10 DEF Reading
  <2>12. /\ Through(x, y) /\ q.data \in Seq(Said) /\ Len(q.data) \in 1 .. n /\ (WritesLand => q.data = Contents(lba, Len(q.data)))
         /\ q.err \in BOOLEAN
    BY <2>10 DEF Good, Reading
  <2> HIDE DEF y
  <2>13. Through(x, z)
    <3>1. Sound(y) /\ 0 \in 0 .. y.room
      BY <2>12 DEF Through, Sound, Shape
    <3>2. Sound(z) /\ Fewer(y, z) /\ SameLimits(y, z) /\ z.count = y.count
      BY <3>1, AtSound
    <3>3. Truth(z)
      BY <2>12, <3>2, FewerTrue DEF Through
    <3> QED BY <2>12, <3>2, <3>3 DEF Through, SameLimits, Within
  <2> HIDE DEF z
  <2>14. r.x = z /\ r.data = q.data /\ r.err = q.err
    BY <2>11
  <2> QED BY <1>3, <2>12, <2>13, <2>14 DEF IsRead
<1> QED BY <1>2, <1>3

----------------------------------------------------------------------------
(* Writing.                                                                *)

\* Every line with sectors says what d does.
LinesSay(x, d) ==
  \A i \in Hooked(x) : \A k \in 0 .. LINE_SECTORS - 1 : x.lines[i].data[k] = d[x.lines[i].first + k]

\* d is the disk with data in it from lba.
Wrote(d, lba, data) ==
  \A s \in Sectors : d[s] = IF s \in lba .. lba + Len(data) - 1 THEN data[s - lba + 1] ELSE disk[s]

LEMMA WrittenIs ==
  ASSUME setup \in Setups, NEW x, Sound(x), Whole(x), NEW lba \in Nat, NEW data \in Seq(Vals)
  PROVE  LET y == Written(x, lba, data)
         IN /\ Sound(y) /\ Whole(y) /\ SameLimits(x, y) /\ y.count = x.count
            /\ \A d : LinesSay(x, disk) /\ Wrote(d, lba, data) => LinesSay(y, d)
<1> DEFINE y == Written(x, lba, data)
           n == Len(data)
           L == {Find(x, LineOf(s)) : s \in lba .. lba + n - 1}
           At(i, k) == x.lines[i].first + k - lba + 1
           new(i) == [k \in DOMAIN x.lines[i].data |->
                        IF At(i, k) \in DOMAIN data THEN data[At(i, k)] ELSE x.lines[i].data[k]]
           line(i) == IF i \notin L THEN x.lines[i] ELSE [x.lines[i] EXCEPT !.data = new(i)]
           K == Hooked(x)
<1>1. /\ x \in CacheOf(x.room) /\ x.room \in Nat \ {0} /\ x.lines \in [1 .. x.room -> Lines] /\ n \in Nat
      /\ Shape(x) /\ Chained(x, K) /\ LINE_SECTORS \in Nat \ {0} /\ DOMAIN data = 1 .. n
      /\ \A m \in DOMAIN data : data[m] \in Vals
  <2> HIDE DEF y, L, new, line
  <2>1. x \in CacheOf(x.room) /\ x.room \in Nat \ {0} /\ Shape(x) /\ Chained(x, K)
    BY DEF Sound, Shape
  <2>2. x.lines \in [1 .. x.room -> Lines]
    BY <2>1 DEF CacheOf
  <2> QED BY SetupNumbers, <2>1, <2>2
<1>2. /\ \A first \in Nat : Find(x, first) # 0 => Find(x, first) \in K /\ x.lines[Find(x, first)].first = first
      /\ \A first \in Nat : \A j \in K : x.lines[j].first = first => Find(x, first) = j
  <2> HIDE DEF K
  <2> QED BY <1>1, FindIs
<1>3. \A i \in L : i = 0 \/ i \in K
  <2>1. \A s \in lba .. lba + n - 1 : LineOf(s) \in Nat
    <3> SUFFICES ASSUME NEW s \in lba .. lba + n - 1 PROVE LineOf(s) \in Nat
      OBVIOUS
    <3>1. s \in Nat
      BY <1>1
    <3> QED BY <3>1, LineStart
  <2> HIDE DEF n, K, new, line, y
  <2> QED BY <1>2, <2>1
<1>4. ASSUME NEW i \in 1 .. x.room
      PROVE  /\ line(i) \in Lines /\ line(i).first = x.lines[i].first
             /\ (line(i).data = NoMem <=> x.lines[i].data = NoMem)
  <2>1. CASE i \notin L
    BY <1>1, <2>1
  <2>2. CASE i \in L
    <3>1. i \in K
      BY <1>1, <1>3, <2>2
    <3>2. x.lines[i] \in Lines /\ x.lines[i].data \in Data
      BY <1>1, <3>1 DEF Hooked, WithMemory, Lines
    <3>3. new(i) \in Data
      <4>1. DOMAIN x.lines[i].data = 0 .. LINE_SECTORS - 1
        BY <3>2 DEF Data
      <4>2. \A k \in 0 .. LINE_SECTORS - 1 :
              (IF At(i, k) \in DOMAIN data THEN data[At(i, k)] ELSE x.lines[i].data[k]) \in Said
        <5> HIDE DEF At
        <5> QED BY <1>1, <3>2 DEF Data, Said
      <4> HIDE DEF At
      <4> QED BY <4>1, <4>2 DEF Data
    <3>4. new(i) # NoMem /\ x.lines[i].data # NoMem
      BY <3>2, <3>3, NoMemIsNoData
    <3> DEFINE w == new(i)
    <3>5. w \in Data /\ w # NoMem /\ line(i) = [x.lines[i] EXCEPT !.data = w]
      BY <2>2, <3>3, <3>4
    <3> HIDE DEF w, line
    <3> QED BY <3>2, <3>4, <3>5 DEF Lines
  <2> QED BY <2>1, <2>2
<1>5. y = [x EXCEPT !.lines = [i \in DOMAIN x.lines |-> line(i)]]
  BY DEF Written
<1>6. /\ y \in CacheOf(x.room) /\ y.room = x.room /\ y.chains = x.chains /\ y.count = x.count
      /\ y.limit = x.limit /\ y.off = x.off /\ \A i \in 1 .. x.room : y.lines[i] = line(i)
  <2> HIDE DEF y, line
  <2> DEFINE l == [i \in DOMAIN x.lines |-> line(i)]
  <2>1. l \in [1 .. x.room -> Lines] /\ \A i \in 1 .. x.room : l[i] = line(i)
    BY <1>1, <1>4
  <2>2. y = [x EXCEPT !.lines = l]
    BY <1>5
  <2> HIDE DEF l
  <2> QED BY <1>1, <2>1, <2>2 DEF CacheOf
<1> HIDE DEF y
<1>7. \A i \in 1 .. x.room : y.lines[i].first = x.lines[i].first /\ (y.lines[i].data = NoMem <=> x.lines[i].data = NoMem)
  <2> HIDE DEF line
  <2> QED BY <1>4, <1>6
<1>8. WithMemory(y) = WithMemory(x)
  BY <1>6, <1>7 DEF WithMemory
<1>9. Hooked(y) = K
  BY <1>7, <1>8 DEF Hooked, WithMemory
<1>10. Sound(y)
  <2>1. SameFirsts(x, y, K)
    BY <1>6, <1>7 DEF SameFirsts, Hooked, WithMemory
  <2>2. Chained(y, Hooked(y))
    BY <1>1, <1>9, <2>1, SameChains
  <2> QED BY <1>1, <1>6, <1>8, <2>2 DEF Sound, Shape
<1>11. Whole(y)
  BY <1>7, <1>9 DEF Whole, Hooked, WithMemory
<1>12. ASSUME NEW d, LinesSay(x, disk), Wrote(d, lba, data), NEW i \in K, NEW k \in 0 .. LINE_SECTORS - 1
       PROVE  y.lines[i].data[k] = d[y.lines[i].first + k]
  <2> DEFINE first == x.lines[i].first
             s == first + k
  <2>1. first \in Nat /\ LineOf(first) = first /\ s \in Sectors /\ LineOf(s) = first /\ i \in 1 .. x.room
    <3>1. first \in Nat /\ LineOf(first) = first /\ first + LINE_SECTORS <= DiskSectors /\ i \in 1 .. x.room
      BY DEF Whole, Hooked, WithMemory
    <3>2. DiskSectors \in Nat
      BY SetupNumbers
    <3>3. LineOf(s) = first
      <4> HIDE DEF first
      <4>1. \A j \in 0 .. LINE_SECTORS - 1 : LineOf(LineOf(first) + j) = LineOf(first)
        BY <3>1, LineStart
      <4> QED BY <3>1, <4>1
    <3>4. s \in Sectors
      <4> HIDE DEF first
      <4> QED BY <1>1, <3>1, <3>2 DEF Sectors
    <3> QED BY <3>1, <3>3, <3>4
  <2>2. x.lines[i].data[k] = disk[s] /\ y.lines[i].first = first
    BY <1>7, <1>12, <2>1 DEF LinesSay
  <2>3. At(i, k) = s - lba + 1
    <3> HIDE DEF first
    <3> QED BY <1>1, <2>1 DEF first
  <2>4. d[s] = IF s \in lba .. lba + n - 1 THEN data[s - lba + 1] ELSE disk[s]
    BY <1>12, <2>1 DEF Wrote
  <2>5. CASE s \in lba .. lba + n - 1
    <3>1. i \in L
      <4>1. Find(x, LineOf(s)) = i
        BY <1>2, <2>1
      <4> HIDE DEF s
      <4> QED BY <2>5, <4>1
    <3>2. y.lines[i].data = new(i)
      <4>1. y.lines[i] = [x.lines[i] EXCEPT !.data = new(i)]
        BY <1>6, <2>1, <3>1
      <4>2. x.lines[i] \in Lines
        BY <1>1, <2>1
      <4> HIDE DEF new
      <4> QED BY <4>1, <4>2 DEF Lines
    <3>3. k \in DOMAIN x.lines[i].data
      BY <1>1, <2>1 DEF Hooked, WithMemory, Lines, Data
    <3>4. s - lba + 1 \in DOMAIN data
      <4> HIDE DEF s
      <4> QED BY <1>1, <2>5
    <3>5. new(i)[k] = data[s - lba + 1]
      <4> HIDE DEF s
      <4> QED BY <2>3, <3>3, <3>4
    <3> HIDE DEF s, new
    <3> QED BY <2>2, <2>4, <2>5, <3>2, <3>5 DEF s
  <2>6. CASE ~(s \in lba .. lba + n - 1)
    <3>1. y.lines[i].data[k] = x.lines[i].data[k]
      <4>1. CASE i \notin L
        BY <1>6, <2>1, <4>1
      <4>2. CASE i \in L
        <5>2. y.lines[i].data = new(i)
          <6>1. y.lines[i] = [x.lines[i] EXCEPT !.data = new(i)]
            BY <1>6, <2>1, <4>2
          <6>2. x.lines[i] \in Lines
            BY <1>1, <2>1
          <6> HIDE DEF new
          <6> QED BY <6>1, <6>2 DEF Lines
        <5>3. k \in DOMAIN x.lines[i].data
          BY <1>1, <2>1 DEF Hooked, WithMemory, Lines, Data
        <5>4. s - lba + 1 \notin DOMAIN data
          <6>1. s \in Nat
            BY <2>1 DEF Sectors
          <6> HIDE DEF s
          <6> QED BY <1>1, <2>6, <6>1
        <5> HIDE DEF s
        <5> QED BY <2>3, <5>2, <5>3, <5>4
      <4> QED BY <4>1, <4>2
    <3> HIDE DEF s
    <3> QED BY <2>2, <2>4, <2>6, <3>1 DEF s
  <2> QED BY <2>5, <2>6
<1>13. \A d : LinesSay(x, disk) /\ Wrote(d, lba, data) => LinesSay(y, d)
  BY <1>9, <1>12 DEF LinesSay
<1> QED BY <1>6, <1>10, <1>11, <1>13 DEF SameLimits, y

----------------------------------------------------------------------------
(* The filesystem's sectors.                                               *)

\* The filesystem's sectors, as State has them, and what they say where d is the disk.
Copies == [lba : Sectors, used : Nat, data : Said]
States == [recent : [Slots -> Copies], clock : Nat, sector : Slots]
SlotsSay(f, d) == \A i \in Slots : f.recent[i].lba # 0 => f.recent[i].data = d[f.recent[i].lba]

LEMMA TickIs == ASSUME setup \in Setups, NEW v \in Nat PROVE Tick(v) \in Nat
<1>1. CLOCK \in Nat \ {0} /\ v + 1 \in Nat
  BY SetupNumbers
<1> QED BY <1>1, DivMod DEF Tick

LEMMA SlotNumbers == ASSUME setup \in Setups PROVE 0 \in Sectors /\ 1 \in Slots /\ Slots \subseteq Nat \ {0} /\ Slots # {}
BY SetupNumbers DEF Sectors, Slots

\* g is f with slot i another.
Sets(f, i, w, g) == g = [f EXCEPT !.recent[i] = w]

LEMMA SetsIs ==
  ASSUME NEW f \in States, NEW i \in Slots, NEW w \in Copies, NEW g, Sets(f, i, w, g)
  PROVE  /\ g \in States /\ g.clock = f.clock /\ g.sector = f.sector /\ g.recent[i] = w
         /\ \A j \in Slots : j # i => g.recent[j] = f.recent[j]
BY DEF States, Sets

LEMMA TakeSlotIs ==
  ASSUME setup \in Setups, NEW f \in States
  PROVE  LET t == TakeSlot(f)
         IN t \in States /\ t.recent[t.sector].lba = 0 /\ \A d : SlotsSay(f, d) => SlotsSay(t, d)
<1> DEFINE Is(i) == \A j \in Slots \ {i} :
                      f.recent[i].used < f.recent[j].used \/ (f.recent[i].used = f.recent[j].used /\ i < j)
           old == CHOOSE i \in Slots : Is(i)
           w == [lba |-> 0, used |-> Tick(f.clock), data |-> f.recent[old].data]
           t == TakeSlot(f)
<1>1. \E i \in Slots : Is(i)
  <2> DEFINE used == [i \in Slots |-> f.recent[i].used]
             S == Slots
  <2>1. S \subseteq Nat /\ S # {} /\ \A i \in S : used[i] \in Nat
    BY SlotNumbers DEF States, Copies
  <2>2. \A i \in Slots : used[i] = f.recent[i].used
    OBVIOUS
  <2> HIDE DEF used, S
  <2>3. \E i \in S : \A j \in S \ {i} : used[i] < used[j] \/ (used[i] = used[j] /\ i < j)
    BY <2>1, FirstLeast
  <2> QED BY <2>2, <2>3 DEF S
<1>2. old \in Slots
  <2> HIDE DEF Is
  <2> QED BY <1>1
<1>3. t = [recent |-> [f.recent EXCEPT ![old] = w], clock |-> Tick(f.clock), sector |-> old]
  BY DEF TakeSlot
<1> HIDE DEF old
<1>4. w \in Copies /\ w.lba = 0
  <2>1. f.recent[old].data \in Said
    BY <1>2 DEF States, Copies
  <2>2. f.clock \in Nat
    BY DEF States
  <2> QED BY <2>1, <2>2, SlotNumbers, TickIs DEF Copies
<1> HIDE DEF w, t
<1>5. t \in States /\ t.sector = old /\ t.recent[old] = w /\ \A j \in Slots : j # old => t.recent[j] = f.recent[j]
  <2>1. Tick(f.clock) \in Nat
    BY TickIs DEF States
  <2> QED BY <1>2, <1>3, <1>4, <2>1 DEF States
<1>6. \A d : SlotsSay(f, d) => SlotsSay(t, d)
  BY <1>4, <1>5 DEF SlotsSay
<1> QED BY <1>4, <1>5, <1>6 DEF t

LEMMA HitIs ==
  ASSUME setup \in Setups, State \in States, NEW lba \in Sectors, Kept(lba) # {}
  PROVE  LET f == Hit(lba)
         IN f \in States /\ f.recent[f.sector].lba = lba /\ \A d : SlotsSay(State, d) => SlotsSay(f, d)
<1> DEFINE i == Min(Kept(lba))
           w == [recent[i] EXCEPT !.used = Tick(rclock)]
           f == Hit(lba)
<1>1. recent \in [Slots -> Copies] /\ rclock \in Nat
  BY DEF State, States
<1>2. i \in Kept(lba)
  <2>1. Kept(lba) \subseteq Nat
    BY SlotNumbers DEF Kept
  <2> QED BY <2>1, MinIn
<1>3. i \in Slots /\ recent[i].lba = lba
  BY <1>2 DEF Kept
<1> HIDE DEF i
<1>4. w \in Copies /\ w.lba = lba /\ w.data = recent[i].data
  <2>1. recent[i] \in Copies /\ Tick(rclock) \in Nat
    BY <1>1, <1>3, TickIs
  <2> QED BY <1>3, <2>1 DEF Copies
<1>5. f = [recent |-> [recent EXCEPT ![i] = w], clock |-> Tick(rclock), sector |-> i]
  BY DEF Hit, i
<1> HIDE DEF w, f
<1>6. f \in States /\ f.sector = i /\ f.recent[i] = w /\ \A j \in Slots : j # i => f.recent[j] = recent[j]
  <2>1. Tick(rclock) \in Nat
    BY <1>1, TickIs
  <2> QED BY <1>1, <1>3, <1>4, <1>5, <2>1 DEF States
<1>7. \A d : SlotsSay(State, d) => SlotsSay(f, d)
  BY <1>3, <1>4, <1>6 DEF SlotsSay, State
<1> QED BY <1>4, <1>6, <1>7 DEF f

LEMMA MissIs ==
  ASSUME setup \in Setups, State \in States, NEW lba \in Sectors, NEW x, NEW r, IsRead(x, lba, 1, r)
  PROVE  LET f == Miss(lba, r)
         IN /\ f \in States /\ f.recent[f.sector].lba = IF r.err THEN 0 ELSE lba
            /\ WritesLand /\ SlotsSay(State, disk) => SlotsSay(f, disk)
<1> DEFINE t == TakeSlot(State)
           i == t.sector
           w == [lba |-> IF r.err THEN 0 ELSE lba, used |-> t.recent[i].used, data |-> IF r.err THEN Junk ELSE r.data[1]]
           f == Miss(lba, r)
<1>1. t \in States /\ t.recent[i].lba = 0 /\ \A d : SlotsSay(State, d) => SlotsSay(t, d)
  BY TakeSlotIs
<1>2. Sets(t, i, w, f)
  BY DEF Miss, Sets
<1> HIDE DEF t, f
<1>3. i \in Slots /\ t.recent[i] \in Copies
  BY <1>1 DEF States
<1>4. r.data \in Seq(Said) /\ Len(r.data) = 1 /\ (WritesLand => r.data = Contents(lba, 1)) /\ r.err \in BOOLEAN
  <2>1. r.data \in Seq(Said) /\ Len(r.data) \in 1 .. 1 /\ r.err \in BOOLEAN
    BY DEF IsRead
  <2>2. Len(r.data) = 1
    BY <2>1
  <2>3. WritesLand => r.data = Contents(lba, Len(r.data))
    BY DEF IsRead
  <2> QED BY <2>1, <2>2, <2>3
<1>5. r.data[1] \in Said
  <2>1. 1 \in 1 .. Len(r.data)
    BY <1>4
  <2> QED BY <1>4, <2>1
<1>6. w \in Copies
  BY <1>3, <1>4, <1>5, SlotNumbers DEF Copies, Said
<1>7. WritesLand /\ ~r.err => w.lba = lba /\ w.data = disk[lba]
  <2>1. Contents(lba, 1)[1] = disk[lba]
    BY DEF Contents, Sectors
  <2> QED BY <1>4, <2>1
<1>8. w.lba = IF r.err THEN 0 ELSE lba
  OBVIOUS
<1> HIDE DEF w, i
<1>9. f \in States /\ f.sector = t.sector /\ f.recent[i] = w /\ \A j \in Slots : j # i => f.recent[j] = t.recent[j]
  BY <1>1, <1>2, <1>3, <1>6, SetsIs
<1>10. WritesLand /\ SlotsSay(State, disk) => SlotsSay(f, disk)
  BY <1>1, <1>4, <1>7, <1>8, <1>9 DEF SlotsSay
<1> QED BY <1>8, <1>9, <1>10 DEF f, i
\* What is left of f's sectors, and that none is of those written.
Puts(f, lba, n, from, p) ==
  /\ p \in States /\ p.clock = f.clock /\ p.sector = f.sector
  /\ \A i \in Slots : i = from => p.recent[i] = f.recent[i]
  /\ \A i \in Slots : i # from /\ p.recent[i].lba # 0 =>
       p.recent[i] = f.recent[i] /\ p.recent[i].lba \notin lba .. lba + n - 1

LEMMA PutIs ==
  ASSUME setup \in Setups, NEW f \in States, NEW lba, NEW n, NEW from
  PROVE  Puts(f, lba, n, from, Put(f, lba, n, from))
<1> DEFINE line(i) == IF f.recent[i].lba \in lba .. lba + n - 1 /\ i # from THEN [f.recent[i] EXCEPT !.lba = 0] ELSE f.recent[i]
           p == Put(f, lba, n, from)
           l == [i \in Slots |-> line(i)]
<1>1. \A i \in Slots : f.recent[i] \in Copies
  BY DEF States
<1>2. ASSUME NEW i \in Slots
      PROVE  /\ line(i) \in Copies /\ (i = from => line(i) = f.recent[i])
             /\ i # from /\ line(i).lba # 0 => line(i) = f.recent[i] /\ line(i).lba \notin lba .. lba + n - 1
  BY <1>1, SlotNumbers DEF Copies
<1>3. p = [f EXCEPT !.recent = l]
  BY DEF Put
<1> HIDE DEF line, p
<1>4. l \in [Slots -> Copies] /\ \A i \in Slots : l[i] = line(i)
  BY <1>2
<1> HIDE DEF l
<1>5. p \in States /\ p.clock = f.clock /\ p.sector = f.sector /\ p.recent = l
  BY <1>3, <1>4 DEF States
<1> QED BY <1>2, <1>4, <1>5 DEF Puts, p

LEMMA ForgetIs ==
  ASSUME setup \in Setups, NEW f \in States
  PROVE  LET g == Forget(f)
         IN /\ g \in States /\ g.recent[f.sector].lba = 0
            /\ \A j \in Slots : j # f.sector => g.recent[j] = f.recent[j]
<1> DEFINE w == [f.recent[f.sector] EXCEPT !.lba = 0]
           g == Forget(f)
<1>1. f.sector \in Slots /\ f.recent[f.sector] \in Copies
  BY DEF States
<1>2. w \in Copies /\ w.lba = 0
  BY <1>1, SlotNumbers DEF Copies
<1>3. Sets(f, f.sector, w, g)
  BY DEF Forget, Sets
<1> HIDE DEF w, g
<1> QED BY <1>1, <1>2, <1>3, SetsIs DEF g

\* d is the disk, but for what a write of n sectors from lba put.
Off(d, lba, n) == \A s \in Sectors : s \notin lba .. lba + n - 1 => d[s] = disk[s]

\* The sector in hand changed: written, or with no more said of it when it could not be.
LEMMA ChangedIs ==
  ASSUME setup \in Setups, NEW f \in States, NEW lba \in Sectors, f.recent[f.sector].lba = lba,
         NEW v \in Vals, NEW ok \in BOOLEAN
  PROVE  LET p == Put([f EXCEPT !.recent[f.sector].data = v], lba, 1, f.sector)
             g == IF ok THEN p ELSE Forget(p)
         IN /\ g \in States
            /\ \A d : SlotsSay(f, disk) /\ Off(d, lba, 1) /\ (ok => d[lba] = v) => SlotsSay(g, d)
<1> DEFINE h == [f EXCEPT !.recent[f.sector].data = v]
           i == f.sector
           w == [f.recent[i] EXCEPT !.data = v]
           p == Put(h, lba, 1, i)
           g == IF ok THEN p ELSE Forget(p)
<1>1. i \in Slots /\ f.recent[i] \in Copies
  BY DEF States
<1>2. w \in Copies /\ w.lba = lba /\ w.data = v
  BY <1>1 DEF Copies, Said
<1>3. Sets(f, i, w, h)
  BY DEF Sets
<1> HIDE DEF w, h
<1>4. h \in States /\ h.sector = i /\ h.recent[i] = w /\ \A j \in Slots : j # i => h.recent[j] = f.recent[j]
  BY <1>1, <1>2, <1>3, SetsIs
<1> HIDE DEF i
<1>5. Puts(h, lba, 1, i, p)
  BY <1>4, PutIs
<1> HIDE DEF p
<1>6. g \in States
  BY <1>5, ForgetIs DEF Puts
<1>7. /\ g.recent[i].lba # 0 => ok /\ g.recent[i] = w
      /\ \A j \in Slots : j # i /\ g.recent[j].lba # 0 => g.recent[j] = f.recent[j] /\ g.recent[j].lba # lba
  <2>1. \A j \in Slots : j # i /\ p.recent[j].lba # 0 => p.recent[j] = f.recent[j] /\ p.recent[j].lba # lba
    <3>1. lba \in lba .. lba + 1 - 1
      BY DEF Sectors
    <3> QED BY <1>4, <1>5, <3>1 DEF Puts
  <2>2. p.recent[i] = w /\ p.sector = i /\ p \in States
    BY <1>1, <1>4, <1>5 DEF Puts, i
  <2>3. CASE ok
    BY <2>1, <2>2, <2>3
  <2>4. CASE ~ok
    BY <2>1, <2>2, <2>4, ForgetIs
  <2> QED BY <2>3, <2>4
<1>8. ASSUME NEW d, SlotsSay(f, disk), Off(d, lba, 1), ok => d[lba] = v, NEW j \in Slots, g.recent[j].lba # 0
      PROVE  g.recent[j].data = d[g.recent[j].lba]
  <2>1. CASE j = i
    BY <1>2, <1>7, <1>8, <2>1
  <2>2. CASE j # i
    <3> DEFINE s == f.recent[j].lba
    <3>1. g.recent[j] = f.recent[j] /\ s # lba /\ s # 0 /\ s \in Sectors /\ f.recent[j].data = disk[s]
      BY <1>7, <1>8, <2>2 DEF SlotsSay, States, Copies
    <3>2. s \notin lba .. lba + 1 - 1
      <4> HIDE DEF s
      <4> QED BY <3>1 DEF Sectors
    <3> QED BY <1>8, <3>1, <3>2 DEF Off
  <2> QED BY <2>1, <2>2
<1> HIDE DEF g
<1>9. \A d : SlotsSay(f, disk) /\ Off(d, lba, 1) /\ (ok => d[lba] = v) => SlotsSay(g, d)
  BY <1>8 DEF SlotsSay
<1> QED BY <1>6, <1>9 DEF g, p, h, i

\* What was put together in a slot is of no sector.
LEMMA ScratchIs ==
  ASSUME setup \in Setups, NEW t \in States, t.recent[t.sector].lba = 0, NEW lba \in Sectors, NEW v \in Vals
  PROVE  LET g == Put([t EXCEPT !.recent[t.sector].data = v], lba, 1, t.sector)
         IN g \in States /\ \A d : SlotsSay(t, disk) /\ Off(d, lba, 1) => SlotsSay(g, d)
<1> DEFINE h == [t EXCEPT !.recent[t.sector].data = v]
           i == t.sector
           w == [t.recent[i] EXCEPT !.data = v]
           g == Put(h, lba, 1, i)
<1>1. i \in Slots /\ t.recent[i] \in Copies
  BY DEF States
<1>2. w \in Copies /\ w.lba = 0
  BY <1>1 DEF Copies, Said
<1>3. Sets(t, i, w, h)
  BY DEF Sets
<1> HIDE DEF w, h
<1>4. h \in States /\ h.sector = i /\ h.recent[i] = w /\ \A j \in Slots : j # i => h.recent[j] = t.recent[j]
  BY <1>1, <1>2, <1>3, SetsIs
<1> HIDE DEF i
<1>5. Puts(h, lba, 1, i, g)
  BY <1>4, PutIs
<1> HIDE DEF g
<1>6. ASSUME NEW d, SlotsSay(t, disk), Off(d, lba, 1), NEW j \in Slots, g.recent[j].lba # 0
      PROVE  g.recent[j].data = d[g.recent[j].lba]
  <2> DEFINE s == t.recent[j].lba
  <2>1. j # i
    BY <1>2, <1>4, <1>5, <1>6 DEF Puts
  <2>2. g.recent[j] = t.recent[j] /\ s \notin lba .. lba + 1 - 1 /\ s # 0 /\ s \in Sectors
    BY <1>4, <1>5, <1>6, <2>1 DEF Puts, States, Copies
  <2> QED BY <1>6, <2>2 DEF Off, SlotsSay
<1>7. \A d : SlotsSay(t, disk) /\ Off(d, lba, 1) => SlotsSay(g, d)
  BY <1>6 DEF SlotsSay
<1> QED BY <1>5, <1>7 DEF Puts, g, h, i

\* Written past them, nothing that is kept is of those sectors.
LEMMA PastIs ==
  ASSUME setup \in Setups, State \in States, NEW lba \in Nat, NEW n \in Nat
  PROVE  LET g == Put(State, lba, n, 0)
         IN g \in States /\ \A d : SlotsSay(State, disk) /\ Off(d, lba, n) => SlotsSay(g, d)
<1> DEFINE g == Put(State, lba, n, 0)
<1>1. Puts(State, lba, n, 0, g)
  BY PutIs
<1> HIDE DEF g
<1>2. ASSUME NEW d, SlotsSay(State, disk), Off(d, lba, n), NEW j \in Slots, g.recent[j].lba # 0
      PROVE  g.recent[j].data = d[g.recent[j].lba]
  <2> DEFINE s == State.recent[j].lba
  <2>1. j # 0
    BY SlotNumbers
  <2>2. g.recent[j] = State.recent[j] /\ s \notin lba .. lba + n - 1 /\ s # 0 /\ s \in Sectors
    BY <1>1, <1>2, <2>1 DEF Puts, States, Copies
  <2> QED BY <1>2, <2>2 DEF Off, SlotsSay
<1>3. \A d : SlotsSay(State, disk) /\ Off(d, lba, n) => SlotsSay(g, d)
  BY <1>2 DEF SlotsSay
<1> QED BY <1>1, <1>3 DEF Puts, g

----------------------------------------------------------------------------
(* The whole.                                                              *)

\* Nothing is held while the cache is off or gone, or where there is no memory to hold it in.
Empty(x) == x.off \/ ~loaded \/ "cache" \notin Does => x.count = 0

GoodCache(x) == Sound(x) /\ Truth(x) /\ Within(x) /\ Empty(x)

\* That no write fails under a cache is needed for what the copies say, and for nothing else.
DiskInv ==
  /\ setup \in Setups /\ disk \in [Sectors -> Vals] /\ loaded \in BOOLEAN
  /\ GoodCache(c)
  /\ State \in States
  /\ WritesLand => SlotsSay(State, disk) /\ ReadTrue

LEMMA ThroughItself == ASSUME NEW x, GoodCache(x) PROVE Through(x, x)
BY DEF GoodCache, Through, SameLimits

\* A line that says it has sectors is found by them, and nothing else is on any chain.
LEMMA FoundOnceIs == ASSUME setup \in Setups, NEW x, Sound(x) PROVE FoundOnce(x)
<1> DEFINE K == Hooked(x)
<1>1. Shape(x) /\ Chained(x, K) /\ DOMAIN x.chains = 0 .. x.room - 1
  BY DEF Sound, Shape, CacheOf
<1>2. ASSUME NEW i \in WithMemory(x), x.lines[i].first # NONE PROVE Find(x, x.lines[i].first) = i
  <2>1. i \in K
    BY <1>2 DEF Hooked
  <2>2. x.lines[i].first \in Nat
    BY <1>1, <2>1 DEF Chained
  <2> HIDE DEF K
  <2> QED BY <1>1, <2>1, <2>2, FindIs
<1>3. ASSUME NEW b \in DOMAIN x.chains
      PROVE  /\ ToSet(x.chains[b]) = {i \in WithMemory(x) : x.lines[i].first # NONE /\ Bucket(x, x.lines[i].first) = b}
             /\ IsInjective(x.chains[b])
  <2>1. ToSet(x.chains[b]) = {i \in K : Bucket(x, x.lines[i].first) = b} /\ IsInjective(x.chains[b])
    <3> HIDE DEF K
    <3> QED BY <1>1, <1>3 DEF Chained
  <2> QED BY <2>1 DEF Hooked
<1> QED BY <1>2, <1>3 DEF FoundOnce

LEMMA FreshIs == ASSUME setup \in Setups PROVE Sound(Fresh) /\ Hooked(Fresh) = {} /\ Fresh.count = 0 /\ Fresh.limit = 0
<1> DEFINE x == Fresh
           none == <<>>
<1>1. /\ x.room = FIRST_ROOM /\ x.lines = [i \in 1 .. FIRST_ROOM |-> Zeroed]
      /\ x.chains = [b \in 0 .. FIRST_ROOM - 1 |-> none] /\ x.count = 0 /\ x.limit = 0
  BY DEF Fresh
<1>2. FIRST_ROOM \in Nat \ {0} /\ Zeroed \in Lines /\ Zeroed.data = NoMem
  BY SetupNumbers DEF Zeroed, Lines
<1>3. none \in Seq(1 .. FIRST_ROOM) /\ IsInjective(none) /\ ToSet(none) = {}
  BY DEF IsInjective, ToSet
<1>4. x \in CacheOf(FIRST_ROOM)
  <2> DEFINE chains == [b \in 0 .. FIRST_ROOM - 1 |-> none]
             lines == [i \in 1 .. FIRST_ROOM |-> Zeroed]
  <2>1. lines \in [1 .. FIRST_ROOM -> Lines] /\ chains \in [0 .. FIRST_ROOM - 1 -> Seq(1 .. FIRST_ROOM)]
    <3> HIDE DEF none
    <3> QED BY <1>2, <1>3
  <2>2. 0 \in 0 .. FIRST_ROOM /\ FALSE \in BOOLEAN /\ 0 \in Nat
    BY <1>2
  <2>3. x = [room |-> FIRST_ROOM, lines |-> lines, chains |-> chains, count |-> 0, clock |-> 0, limit |-> 0,
             off |-> FALSE, at |-> 0]
    BY DEF Fresh
  <2> HIDE DEF lines, chains, x
  <2> QED BY <2>1, <2>2, <2>3 DEF CacheOf
<1> HIDE DEF x, none
<1>5. WithMemory(x) = {}
  BY <1>1, <1>2 DEF WithMemory
<1>6. Hooked(x) = {}
  BY <1>5 DEF Hooked
<1>7. Chained(x, {})
  BY <1>1, <1>3 DEF Chained
<1> QED BY <1>1, <1>2, <1>4, <1>5, <1>6, <1>7, FS_EmptySet DEF Sound, Shape, x

\* y is x with other settings.
Settings(x, limit, off, y) == y = [x EXCEPT !.limit = limit, !.off = off]

LEMMA SettingsSound ==
  ASSUME NEW x, Sound(x), NEW limit \in Nat, NEW off \in BOOLEAN, NEW y, Settings(x, limit, off, y)
  PROVE  Sound(y) /\ Fewer(x, y) /\ y.count = x.count /\ y.limit = limit /\ y.off = off
<1>1. /\ Shape(y) /\ y.room = x.room /\ y.lines = x.lines /\ y.chains = x.chains /\ y.count = x.count
      /\ y.limit = limit /\ y.off = off
  BY DEF Sound, Shape, CacheOf, Settings
<1>2. WithMemory(y) = WithMemory(x) /\ Hooked(y) = Hooked(x)
  BY <1>1 DEF WithMemory, Hooked
<1>3. Chained(y, Hooked(y))
  <2>1. SameFirsts(x, y, Hooked(x))
    BY <1>1 DEF SameFirsts
  <2> QED BY <1>2, <2>1, SameChains DEF Sound
<1> QED BY <1>1, <1>2, <1>3 DEF Sound, Fewer

LEMMA CapGood ==
  ASSUME setup \in Setups, NEW x, GoodCache(x), NEW most \in Nat
  PROVE  GoodCache(Cap(x, most)) /\ Cap(x, most).count <= most
<1> DEFINE y == Cap(x, most)
<1>1. Sound(y) /\ Fewer(x, y) /\ SameLimits(x, y) /\ y.count = IF x.count <= most THEN x.count ELSE most
  BY CapIs DEF GoodCache
<1> HIDE DEF y
<1>2. x.count \in Nat /\ x.limit \in Nat
  BY DEF GoodCache, Sound, Shape, CacheOf
<1>3. Truth(y)
  BY <1>1, FewerTrue DEF GoodCache
<1>4. Within(y) /\ Empty(y) /\ y.count <= most
  BY <1>1, <1>2 DEF GoodCache, Within, Empty, SameLimits
<1> QED BY <1>1, <1>3, <1>4 DEF GoodCache, y

LEMMA OffGood ==
  ASSUME setup \in Setups, NEW x, GoodCache(x) PROVE GoodCache([Cap(x, 0) EXCEPT !.off = TRUE])
<1> DEFINE y == Cap(x, 0)
           z == [y EXCEPT !.off = TRUE]
           w == [y EXCEPT !.limit = y.limit, !.off = TRUE]
<1>1. GoodCache(y) /\ y.count <= 0
  BY CapGood
<1> HIDE DEF y
<1>2. y.count = 0 /\ y.limit \in Nat
  <2>1. y.count \in Nat /\ y.limit \in Nat
    BY <1>1 DEF GoodCache, Sound, Shape, CacheOf
  <2> QED BY <1>1, <2>1
<1>3. Settings(y, y.limit, TRUE, z)
  <2>1. z = w
    BY <1>1 DEF GoodCache, Sound, Shape, CacheOf
  <2> QED BY <2>1 DEF Settings
<1>4. TRUE \in BOOLEAN
  OBVIOUS
<1> HIDE DEF z
<1>5. Sound(z) /\ Fewer(y, z) /\ z.count = y.count /\ z.limit = y.limit /\ z.off = TRUE
  BY <1>1, <1>2, <1>3, <1>4, SettingsSound DEF GoodCache
<1>6. Truth(z)
  BY <1>1, <1>5, FewerTrue DEF GoodCache
<1>7. Within(z) /\ Empty(z)
  BY <1>1, <1>2, <1>5 DEF GoodCache, Within, Empty
<1> QED BY <1>5, <1>6, <1>7 DEF GoodCache, z, y

LEMMA CapToGood ==
  ASSUME setup \in Setups, loaded, NEW x, GoodCache(x), NEW lines \in Nat PROVE GoodCache(CapTo(x, lines))
<1> DEFINE most == IF lines # 0 THEN lines ELSE x.count
           y == Cap(x, most)
           z == CapTo(x, lines)
<1>1. most \in Nat
  BY DEF GoodCache, Sound, Shape, CacheOf
<1> HIDE DEF most
<1>2. GoodCache(y) /\ y.count <= most
  BY <1>1, CapGood
<1>3. Settings(y, lines, FALSE, z)
  BY DEF CapTo, most, Settings
<1> HIDE DEF y, z
<1>4. FALSE \in BOOLEAN
  OBVIOUS
<1>5. Sound(z) /\ Fewer(y, z) /\ z.count = y.count /\ z.limit = lines /\ z.off = FALSE
  BY <1>2, <1>3, <1>4, SettingsSound DEF GoodCache
<1>6. Truth(z)
  BY <1>2, <1>5, FewerTrue DEF GoodCache
<1>7. Within(z) /\ Empty(z)
  BY <1>2, <1>5 DEF GoodCache, Within, Empty, most
<1> QED BY <1>5, <1>6, <1>7 DEF GoodCache, z

LEMMA ReadKeeps ==
  ASSUME setup \in Setups, disk \in [Sectors -> Vals], loaded \in BOOLEAN, NEW x, GoodCache(x),
         NEW lba \in Nat, NEW n \in Nat \ {0}, lba + n <= DiskSectors, NEW r \in Reads(x, lba, n)
  PROVE  IsRead(x, lba, n, r) /\ GoodCache(r.x)
<1>1. IsRead(x, lba, n, r)
  BY ThroughItself, ReadsAre
<1>2. Through(x, r.x) /\ (~loaded \/ x.off => r.x = x)
  BY <1>1 DEF IsRead
<1> DEFINE y == r.x
<1> HIDE DEF y
<1>3. Through(x, y) /\ (~loaded \/ x.off => y = x)
  BY <1>2 DEF y
<1>4. Empty(y)
  BY <1>3 DEF Empty, Through, SameLimits, GoodCache
<1>5. GoodCache(y)
  BY <1>3, <1>4 DEF GoodCache, Through
<1> QED BY <1>1, <1>5 DEF y

LEMMA SaysTrue == ASSUME NEW x PROVE LineTrue(x) <=> LinesSay(x, disk)
BY DEF LineTrue, LinesSay, Hooked

----------------------------------------------------------------------------
(* The steps.                                                              *)

\* What the cache is after a step, from what it becomes.
LEMMA GoodNext ==
  ASSUME setup' = setup, NEW y, c' = y, Sound(y), Whole(y), Within(y),
         y.off \/ ~loaded' \/ "cache" \notin Does => y.count = 0, WritesLand => LinesSay(y, disk')
  PROVE  GoodCache(c)'
<1>1. Sound(c)'
  <2>1. Shape(c)' <=> Shape(y)
    BY DEF Shape, CacheOf, Lines, Data, Said, Vals, LINE_SECTORS
  <2>2. WithMemory(c)' = WithMemory(y) /\ Hooked(c)' = Hooked(y)
    BY DEF WithMemory, Hooked
  <2>3. Chained(c, Hooked(c))' <=> Chained(y, Hooked(y))
    BY <2>2 DEF Chained, Bucket, LINE_SECTORS
  <2> QED BY <2>1, <2>2, <2>3 DEF Sound
<1>2. Hooked(c)' = Hooked(y) /\ LINE_SECTORS' = LINE_SECTORS /\ DiskSectors' = DiskSectors
  BY DEF WithMemory, Hooked, LINE_SECTORS, DiskSectors
<1>3. Whole(c)'
  BY <1>2 DEF Whole, LineOf
<1>4. WritesLand' <=> WritesLand
  BY DEF WritesLand, Does
<1>5. WritesLand => LineTrue(c)'
  <2>1. LinesSay(y, disk') => LineTrue(c)'
    BY <1>2 DEF LinesSay, LineTrue, Hooked
  <2> QED BY <2>1
<1>6. Within(c)'
  BY DEF Within
<1>7. Empty(c)'
  BY DEF Empty, Does
<1> QED BY <1>1, <1>3, <1>4, <1>5, <1>6, <1>7 DEF GoodCache, Truth

\* The cache becomes one that is good as it is, the disk and the module staying.
LEMMA GoodStill ==
  ASSUME setup' = setup, disk' = disk, loaded' = loaded, NEW y, c' = y, GoodCache(y)
  PROVE  GoodCache(c)'
<1>1. WritesLand => LinesSay(y, disk')
  BY SaysTrue DEF GoodCache, Truth
<1>2. y.off \/ ~loaded' \/ "cache" \notin Does => y.count = 0
  BY DEF GoodCache, Empty
<1> QED BY <1>1, <1>2, GoodNext DEF GoodCache, Truth

LEMMA SlotsNext ==
  ASSUME setup' = setup, NEW f, Fs(f), f \in States
  PROVE  (State \in States)' /\ (SlotsSay(f, disk') => SlotsSay(State, disk)')
<1>1. State' = [recent |-> f.recent, clock |-> f.clock, sector |-> f.sector]
  BY DEF State, Fs
<1>2. f = [recent |-> f.recent, clock |-> f.clock, sector |-> f.sector]
  BY DEF States
<1>3. States' = States /\ Slots' = Slots
  BY DEF States, Copies, Slots, RECENT, Sectors, DiskSectors, Said, Vals
<1>4. State' = f
  BY <1>1, <1>2
<1> QED BY <1>3, <1>4 DEF SlotsSay

LEMMA SlotsStill ==
  ASSUME setup' = setup, UNCHANGED <<recent, rclock, sector>>, State \in States
  PROVE  (State \in States)' /\ (SlotsSay(State, disk') => SlotsSay(State, disk)')
<1>1. Fs(State)
  BY DEF Fs, State
<1> QED BY <1>1, SlotsNext

LEMMA InvNext ==
  ASSUME DiskInv, setup' = setup, (disk \in [Sectors -> Vals])', loaded' \in BOOLEAN, GoodCache(c)',
         (State \in States)', WritesLand => SlotsSay(State, disk)' /\ ReadTrue'
  PROVE  DiskInv'
BY DEF DiskInv, WritesLand, Does

LEMMA NothingTrue == ASSUME got' = Nothing PROVE ReadTrue'
BY DEF ReadTrue, Nothing

LEMMA HandedTrue ==
  ASSUME disk' = disk, NEW lba \in Nat, NEW n \in Nat \ {0}, NEW x, NEW r, IsRead(x, lba, n, r), Handed(lba, r), WritesLand
  PROVE  ReadTrue'
<1>1. CASE r.err
  BY <1>1, NothingTrue DEF Handed
<1>2. CASE ~r.err
  <2>1. got' = [lba |-> lba, data |-> r.data] /\ r.data = Contents(lba, Len(r.data))
    BY <1>2 DEF Handed, IsRead
  <2>2. got'.lba = lba /\ got'.data = r.data
    BY <2>1
  <2>3. Contents(got.lba, Len(got.data))' = Contents(lba, Len(r.data))
    BY <2>2 DEF Contents
  <2> QED BY <2>1, <2>2, <2>3 DEF ReadTrue
<1> QED BY <1>1, <1>2

\* A write keeps what is cached true, and leaves the other sectors alone.
Writes(lba, n, data, o) ==
  /\ (disk \in [Sectors -> Vals])' /\ GoodCache(c)' /\ Off(disk', lba, n)
  /\ o.ok \in BOOLEAN /\ (o.ok => \A s \in lba .. lba + n - 1 : disk'[s] = data[s - lba + 1])

LEMMA WriteKeeps ==
  ASSUME setup \in Setups, setup' = setup, disk \in [Sectors -> Vals], loaded \in BOOLEAN, loaded' = loaded,
         NEW x, GoodCache(x), NEW lba \in Nat, NEW n \in Nat, NEW data \in Seq(Vals), Len(data) = n,
         lba + n <= DiskSectors, NEW o \in Outcomes(lba, n), Write(x, lba, data, o)
  PROVE  Writes(lba, n, data, o)
<1> DEFINE y == Written(x, lba, data)
           z == IF loaded THEN y ELSE x
           R == lba .. lba + n - 1
<1>1. o.ok \in BOOLEAN /\ o.put \subseteq R /\ (o.ok => o.put = R) /\ ("writefails" \notin Does => o.ok)
  <2> HIDE DEF z, y
  <2>1. o = [ok |-> TRUE, put |-> R] \/ ("writefails" \in Does /\ o \in [ok : {FALSE}, put : SUBSET R])
    BY DEF Outcomes
  <2> HIDE DEF R
  <2>2. CASE o = [ok |-> TRUE, put |-> R]
    BY <2>2
  <2>3. CASE "writefails" \in Does /\ o \in [ok : {FALSE}, put : SUBSET R]
    BY <2>3
  <2> QED BY <2>1, <2>2, <2>3
<1>2. R \subseteq Sectors /\ \A s \in R : s - lba + 1 \in 1 .. n
  BY SetupNumbers DEF Sectors
<1>3. /\ Sound(y) /\ Whole(y) /\ SameLimits(x, y) /\ y.count = x.count
      /\ \A d : LinesSay(x, disk) /\ Wrote(d, lba, data) => LinesSay(y, d)
  BY WrittenIs DEF GoodCache, Truth
<1> HIDE DEF y
<1>4. Sound(z) /\ Whole(z) /\ SameLimits(x, z) /\ z.count = x.count
  BY <1>3 DEF GoodCache, Truth, SameLimits
<1>5. c' = z /\ disk' = [s \in Sectors |-> IF s \in o.put THEN data[s - lba + 1] ELSE disk[s]]
  BY DEF Write, y
<1>6. (disk \in [Sectors -> Vals])'
  <2>1. \A m \in 1 .. n : data[m] \in Vals
    OBVIOUS
  <2>2. \A s \in Sectors : (IF s \in o.put THEN data[s - lba + 1] ELSE disk[s]) \in Vals
    <3> HIDE DEF R
    <3> QED BY <1>1, <1>2, <2>1
  <2>3. Sectors' = Sectors /\ Vals' = Vals
    BY DEF Sectors, DiskSectors, Vals
  <2> QED BY <1>5, <2>2, <2>3
<1>7. \A s \in Sectors : disk'[s] = IF s \in o.put THEN data[s - lba + 1] ELSE disk[s]
  BY <1>5
<1>8. Off(disk', lba, n)
  BY <1>1, <1>7 DEF Off
<1>9. o.ok => \A s \in R : disk'[s] = data[s - lba + 1]
  <2> HIDE DEF R
  <2> QED BY <1>1, <1>2, <1>7
<1>10. WritesLand => LinesSay(z, disk')
  <2>1. CASE x.count = 0
    <3>1. WithMemory(z) = {}
      <4>1. Cardinality(WithMemory(z)) = 0
        BY <1>4, <2>1 DEF Sound
      <4> HIDE DEF z
      <4> QED BY <1>4, <4>1, Held DEF Sound
    <3> HIDE DEF z
    <3> QED BY <3>1 DEF LinesSay, Hooked
  <2>2. CASE x.count # 0
    <3>1. loaded /\ "cache" \in Does /\ z = y
      BY <2>2 DEF GoodCache, Empty
    <3>2. WritesLand => o.put = R
      BY <1>1, <3>1 DEF WritesLand
    <3>3. WritesLand => Wrote(disk', lba, data)
      <4> HIDE DEF z
      <4> QED BY <1>7, <3>2 DEF Wrote
    <3>4. WritesLand => LinesSay(x, disk)
      BY SaysTrue DEF GoodCache, Truth
    <3> HIDE DEF z
    <3> QED BY <1>3, <3>1, <3>3, <3>4
  <2> QED BY <2>1, <2>2
<1> HIDE DEF z
<1>11. Within(z)
  BY <1>4 DEF GoodCache, Within, SameLimits
<1>12. z.off \/ ~loaded' \/ "cache" \notin Does => z.count = 0
  BY <1>4 DEF GoodCache, Empty, SameLimits
<1>13. GoodCache(c)'
  BY <1>4, <1>5, <1>10, <1>11, <1>12, GoodNext
<1> QED BY <1>1, <1>6, <1>8, <1>9, <1>13 DEF Writes, R

LEMMA SectorNumbers == ASSUME setup \in Setups, NEW lba \in Sectors PROVE lba \in Nat /\ lba + 1 <= DiskSectors
BY SetupNumbers DEF Sectors

\* A step that reads, from lba, through what is x.
LEMMA ReadStep ==
  ASSUME DiskInv, setup' = setup, UNCHANGED <<disk, loaded>>,
         NEW lba \in Nat, NEW n \in Nat \ {0}, lba + n <= DiskSectors,
         NEW r \in Reads(c, lba, n), c' = r.x, Handed(lba, r) \/ got' = Nothing
  PROVE  /\ IsRead(c, lba, n, r) /\ (disk \in [Sectors -> Vals])' /\ loaded' \in BOOLEAN /\ GoodCache(c)'
         /\ WritesLand => ReadTrue'
<1>1. IsRead(c, lba, n, r) /\ GoodCache(r.x)
  BY ReadKeeps DEF DiskInv
<1>2. GoodCache(c)'
  <2> DEFINE y == r.x
  <2>1. c' = y /\ GoodCache(y) /\ disk' = disk /\ loaded' = loaded
    BY <1>1
  <2> HIDE DEF y
  <2> QED BY <2>1, GoodStill
<1>3. (disk \in [Sectors -> Vals])' /\ loaded' \in BOOLEAN
  BY DEF DiskInv, Sectors, DiskSectors, Vals
<1>4. WritesLand => ReadTrue'
  BY <1>1, HandedTrue, NothingTrue
<1> QED BY <1>1, <1>2, <1>3, <1>4

LEMMA ReadManyStep ==
  ASSUME DiskInv, setup' = setup, NEW lba \in Nat, NEW n \in Nat \ {0}, lba + n <= DiskSectors, ReadMany(lba, n)
  PROVE  DiskInv'
<1>1. PICK r \in Reads(c, lba, n) : c' = r.x /\ Handed(lba, r)
  BY DEF ReadMany
<1>2. UNCHANGED <<disk, loaded, recent, rclock, sector>>
  BY DEF ReadMany
<1>3. /\ (disk \in [Sectors -> Vals])' /\ loaded' \in BOOLEAN /\ GoodCache(c)'
      /\ WritesLand => ReadTrue'
  BY <1>1, <1>2, ReadStep
<1>4. (State \in States)' /\ (SlotsSay(State, disk') => SlotsSay(State, disk)')
  BY <1>2, SlotsStill DEF DiskInv
<1>5. WritesLand => SlotsSay(State, disk)'
  BY <1>2, <1>4 DEF DiskInv
<1> QED BY <1>3, <1>4, <1>5, InvNext

LEMMA LoadSectorStep ==
  ASSUME DiskInv, setup' = setup, NEW lba \in Sectors, LoadSector(lba) PROVE DiskInv'
<1>1. UNCHANGED <<disk, loaded>> /\ setup \in Setups /\ State \in States /\ (WritesLand => SlotsSay(State, disk))
  BY DEF LoadSector, DiskInv
<1>2. CASE Kept(lba) # {} /\ Fs(Hit(lba)) /\ got' = Nothing /\ UNCHANGED c
  <2> DEFINE f == Hit(lba)
  <2>1. f \in States /\ \A d : SlotsSay(State, d) => SlotsSay(f, d)
    BY <1>1, <1>2, HitIs
  <2>2. Fs(f)
    BY <1>2
  <2> HIDE DEF f
  <2>3. (State \in States)' /\ (SlotsSay(f, disk') => SlotsSay(State, disk)')
    BY <2>1, <2>2, SlotsNext
  <2>4. WritesLand => SlotsSay(State, disk)'
    BY <1>1, <2>1, <2>3
  <2>5. GoodCache(c)'
    BY <1>1, <1>2, GoodStill DEF DiskInv
  <2>6. (disk \in [Sectors -> Vals])' /\ loaded' \in BOOLEAN
    BY <1>1 DEF DiskInv, Sectors, DiskSectors, Vals
  <2>7. ReadTrue'
    BY <1>2, NothingTrue
  <2> QED BY <2>3, <2>4, <2>5, <2>6, <2>7, InvNext
<1>3. CASE Kept(lba) = {} /\ \E r \in Reads(c, lba, 1) : Fs(Miss(lba, r)) /\ Handed(lba, r) /\ c' = r.x
  <2>1. PICK r \in Reads(c, lba, 1) : Fs(Miss(lba, r)) /\ Handed(lba, r) /\ c' = r.x
    BY <1>3
  <2>2. lba \in Nat /\ lba + 1 <= DiskSectors /\ 1 \in Nat \ {0}
    BY <1>1, SectorNumbers
  <2>3. /\ IsRead(c, lba, 1, r) /\ (disk \in [Sectors -> Vals])' /\ loaded' \in BOOLEAN /\ GoodCache(c)'
        /\ WritesLand => ReadTrue'
    BY <1>1, <2>1, <2>2, ReadStep
  <2> DEFINE f == Miss(lba, r)
  <2>4. f \in States /\ (WritesLand /\ SlotsSay(State, disk) => SlotsSay(f, disk))
    BY <1>1, <2>3, MissIs
  <2>5. Fs(f)
    BY <2>1
  <2> HIDE DEF f
  <2>6. (State \in States)' /\ (SlotsSay(f, disk') => SlotsSay(State, disk)')
    BY <2>4, <2>5, SlotsNext
  <2>7. WritesLand => SlotsSay(State, disk)'
    BY <1>1, <2>4, <2>6
  <2> QED BY <2>3, <2>6, <2>7, InvNext
<1> QED BY <1>2, <1>3 DEF LoadSector

\* A sector loaded into a slot, changed and written back.
LEMMA ChangeStep ==
  ASSUME DiskInv, setup' = setup, loaded' = loaded, got' = Nothing, NEW lba \in Sectors, NEW v \in Vals,
         NEW o \in Outcomes(lba, 1), NEW f \in States, f.recent[f.sector].lba = lba,
         WritesLand => SlotsSay(f, disk), NEW x, GoodCache(x), Change(f, x, lba, v, o)
  PROVE  DiskInv'
<1> DEFINE p == Put([f EXCEPT !.recent[f.sector].data = v], lba, 1, f.sector)
           g == IF o.ok THEN p ELSE Forget(p)
           data == <<v>>
<1>1. Write(x, lba, data, o) /\ Fs(g)
  BY DEF Change
<1>2. setup \in Setups /\ disk \in [Sectors -> Vals] /\ loaded \in BOOLEAN
  BY DEF DiskInv
<1>3. lba \in Nat /\ lba + 1 <= DiskSectors /\ data \in Seq(Vals) /\ Len(data) = 1 /\ 1 \in Nat /\ data[1] = v
  BY <1>2, SectorNumbers
<1> HIDE DEF data
<1>4. Writes(lba, 1, data, o)
  BY <1>1, <1>2, <1>3, WriteKeeps
<1>5. Off(disk', lba, 1) /\ o.ok \in BOOLEAN /\ (o.ok => disk'[lba] = v)
  <2>1. lba \in lba .. lba + 1 - 1 /\ lba - lba + 1 = 1
    BY <1>3
  <2> QED BY <1>3, <1>4, <2>1 DEF Writes
<1>6. g \in States /\ \A d : SlotsSay(f, disk) /\ Off(d, lba, 1) /\ (o.ok => d[lba] = v) => SlotsSay(g, d)
  <2> DEFINE ok == o.ok
  <2>1. ok \in BOOLEAN
    BY <1>5
  <2> HIDE DEF ok
  <2>2. LET q == Put([f EXCEPT !.recent[f.sector].data = v], lba, 1, f.sector)
            h == IF ok THEN q ELSE Forget(q)
        IN /\ h \in States
           /\ \A d : SlotsSay(f, disk) /\ Off(d, lba, 1) /\ (ok => d[lba] = v) => SlotsSay(h, d)
    BY <1>2, <2>1, ChangedIs
  <2> QED BY <2>2 DEF ok
<1> HIDE DEF g
<1>7. (State \in States)' /\ (SlotsSay(g, disk') => SlotsSay(State, disk)')
  BY <1>1, <1>6, SlotsNext
<1>8. WritesLand => SlotsSay(State, disk)'
  BY <1>5, <1>6, <1>7
<1> QED BY <1>2, <1>4, <1>7, <1>8, NothingTrue, InvNext DEF Writes

LEMMA ChangeSectorStep ==
  ASSUME DiskInv, setup' = setup, NEW lba \in Sectors, NEW v \in Vals, NEW o \in Outcomes(lba, 1), ChangeSector(lba, v, o)
  PROVE  DiskInv'
<1>1. /\ setup \in Setups /\ State \in States /\ (WritesLand => SlotsSay(State, disk)) /\ GoodCache(c)
      /\ got' = Nothing /\ loaded' = loaded
  BY DEF ChangeSector, DiskInv
<1>2. CASE Kept(lba) # {} /\ Change(Hit(lba), c, lba, v, o)
  <2> DEFINE f == Hit(lba)
  <2>1. f \in States /\ f.recent[f.sector].lba = lba /\ \A d : SlotsSay(State, d) => SlotsSay(f, d)
    BY <1>1, <1>2, HitIs
  <2>2. Change(f, c, lba, v, o)
    BY <1>2
  <2> HIDE DEF f
  <2>3. WritesLand => SlotsSay(f, disk)
    BY <1>1, <2>1
  <2> QED BY <1>1, <2>1, <2>2, <2>3, ChangeStep
<1>3. ASSUME NEW r \in Reads(c, lba, 1),
             IF r.err THEN Fs(Miss(lba, r)) /\ c' = r.x /\ UNCHANGED disk ELSE Change(Miss(lba, r), r.x, lba, v, o)
      PROVE  DiskInv'
  <2> DEFINE f == Miss(lba, r)
             x == r.x
  <2>1. lba \in Nat /\ lba + 1 <= DiskSectors /\ 1 \in Nat \ {0}
    BY <1>1, SectorNumbers
  <2>2. IsRead(c, lba, 1, r) /\ GoodCache(r.x)
    BY <1>1, <2>1, ReadKeeps DEF DiskInv
  <2>3. /\ f \in States /\ f.recent[f.sector].lba = IF r.err THEN 0 ELSE lba
        /\ WritesLand /\ SlotsSay(State, disk) => SlotsSay(f, disk)
    BY <1>1, <2>2, MissIs
  <2>4. CASE r.err
    <3>1. Fs(f) /\ c' = r.x /\ UNCHANGED <<disk, loaded>>
      BY <1>1, <1>3, <2>4
    <3>2. (disk \in [Sectors -> Vals])' /\ loaded' \in BOOLEAN /\ GoodCache(c)' /\ (WritesLand => ReadTrue')
      BY <1>1, <2>1, <3>1, ReadStep
    <3> HIDE DEF f
    <3>3. (State \in States)' /\ (SlotsSay(f, disk') => SlotsSay(State, disk)')
      BY <2>3, <3>1, SlotsNext
    <3>4. WritesLand => SlotsSay(State, disk)'
      BY <1>1, <2>3, <3>1, <3>3
    <3> QED BY <3>2, <3>3, <3>4, InvNext
  <2>5. CASE ~r.err
    <3>1. Change(f, x, lba, v, o) /\ f.recent[f.sector].lba = lba /\ GoodCache(x) /\ (WritesLand => SlotsSay(f, disk))
      BY <1>1, <1>3, <2>2, <2>3, <2>5
    <3> HIDE DEF f, x
    <3> QED BY <1>1, <2>3, <3>1, ChangeStep
  <2> QED BY <2>4, <2>5
<1> QED BY <1>2, <1>3 DEF ChangeSector

LEMMA PutScratchStep ==
  ASSUME DiskInv, setup' = setup, NEW lba \in Sectors, NEW v \in Vals, NEW o \in Outcomes(lba, 1), PutScratch(lba, v, o)
  PROVE  DiskInv'
<1> DEFINE t == TakeSlot(State)
           g == Put([t EXCEPT !.recent[t.sector].data = v], lba, 1, t.sector)
           data == <<v>>
<1>1. /\ setup \in Setups /\ State \in States /\ (WritesLand => SlotsSay(State, disk)) /\ GoodCache(c)
      /\ disk \in [Sectors -> Vals] /\ loaded \in BOOLEAN /\ got' = Nothing /\ loaded' = loaded
  BY DEF PutScratch, DiskInv
<1>2. t \in States /\ t.recent[t.sector].lba = 0 /\ \A d : SlotsSay(State, d) => SlotsSay(t, d)
  BY <1>1, TakeSlotIs
<1>3. PICK r \in Reads(c, lba, 1) \union {[x |-> c, err |-> FALSE]} :
        IF r.err THEN Fs(t) /\ c' = r.x /\ UNCHANGED disk ELSE Write(r.x, lba, data, o) /\ Fs(g)
  BY DEF PutScratch
<1>4. lba \in Nat /\ lba + 1 <= DiskSectors /\ data \in Seq(Vals) /\ Len(data) = 1 /\ 1 \in Nat \ {0}
  BY <1>1, SectorNumbers
<1>5. GoodCache(r.x)
  BY <1>1, <1>3, <1>4, ReadKeeps
<1> HIDE DEF t, data
<1>6. CASE r.err
  <2>1. r \in Reads(c, lba, 1) /\ Fs(t) /\ c' = r.x /\ UNCHANGED <<disk, loaded>>
    BY <1>1, <1>3, <1>6
  <2>2. (disk \in [Sectors -> Vals])' /\ loaded' \in BOOLEAN /\ GoodCache(c)' /\ (WritesLand => ReadTrue')
    BY <1>1, <1>4, <2>1, ReadStep
  <2>3. (State \in States)' /\ (SlotsSay(t, disk') => SlotsSay(State, disk)')
    BY <1>2, <2>1, SlotsNext
  <2>4. WritesLand => SlotsSay(State, disk)'
    BY <1>1, <1>2, <2>1, <2>3
  <2> QED BY <2>2, <2>3, <2>4, InvNext
<1>7. CASE ~r.err
  <2> DEFINE x == r.x
  <2>1. Write(x, lba, data, o) /\ Fs(g) /\ GoodCache(x)
    BY <1>3, <1>5, <1>7
  <2> HIDE DEF x
  <2>2. Writes(lba, 1, data, o)
    BY <1>1, <1>4, <2>1, WriteKeeps
  <2>3. g \in States /\ \A d : SlotsSay(t, disk) /\ Off(d, lba, 1) => SlotsSay(g, d)
    BY <1>1, <1>2, ScratchIs
  <2> HIDE DEF g
  <2>4. (State \in States)' /\ (SlotsSay(g, disk') => SlotsSay(State, disk)')
    BY <2>1, <2>3, SlotsNext
  <2>5. WritesLand => SlotsSay(State, disk)'
    BY <1>1, <1>2, <2>2, <2>3, <2>4 DEF Writes
  <2> QED BY <1>1, <2>2, <2>4, <2>5, NothingTrue, InvNext DEF Writes
<1> QED BY <1>6, <1>7

LEMMA PutManyStep ==
  ASSUME DiskInv, setup' = setup, NEW lba \in Nat, NEW n \in Nat \ {0}, lba + n <= DiskSectors,
         NEW v \in Vals, NEW o \in Outcomes(lba, n), PutMany(lba, n, v, o)
  PROVE  DiskInv'
<1> DEFINE g == Put(State, lba, n, 0)
           data == [i \in 1 .. n |-> v]
<1>1. /\ setup \in Setups /\ State \in States /\ (WritesLand => SlotsSay(State, disk)) /\ GoodCache(c)
      /\ disk \in [Sectors -> Vals] /\ loaded \in BOOLEAN /\ got' = Nothing /\ loaded' = loaded
      /\ Write(c, lba, data, o) /\ Fs(g)
  BY DEF PutMany, DiskInv
<1>2. data \in Seq(Vals) /\ Len(data) = n
  OBVIOUS
<1>3. g \in States /\ \A d : SlotsSay(State, disk) /\ Off(d, lba, n) => SlotsSay(g, d)
  BY <1>1, PastIs
<1> HIDE DEF data, g
<1>4. Writes(lba, n, data, o)
  BY <1>1, <1>2, WriteKeeps
<1>5. (State \in States)' /\ (SlotsSay(g, disk') => SlotsSay(State, disk)')
  BY <1>1, <1>3, SlotsNext
<1>6. WritesLand => SlotsSay(State, disk)'
  BY <1>1, <1>3, <1>4, <1>5 DEF Writes
<1> QED BY <1>1, <1>4, <1>5, <1>6, NothingTrue, InvNext DEF Writes

LEMMA FsCacheStep == ASSUME DiskInv, setup' = setup, FsCache PROVE DiskInv'
<1> DEFINE empty == [i \in Slots |-> [recent[i] EXCEPT !.lba = 0]]
           f == [recent |-> empty, clock |-> rclock, sector |-> 1]
<1>1. /\ setup \in Setups /\ State \in States /\ (WritesLand => SlotsSay(State, disk)) /\ GoodCache(c)
      /\ disk \in [Sectors -> Vals] /\ loaded \in BOOLEAN /\ got' = Nothing /\ UNCHANGED <<disk, c, loaded>>
      /\ Fs(f)
  BY DEF FsCache, DiskInv, Fs
<1>2. f \in States /\ SlotsSay(f, disk')
  <2>1. recent \in [Slots -> Copies] /\ rclock \in Nat
    BY <1>1 DEF State, States
  <2>2. empty \in [Slots -> Copies] /\ \A i \in Slots : empty[i].lba = 0
    BY <1>1, <2>1, SlotNumbers DEF Copies
  <2> HIDE DEF empty
  <2> QED BY <1>1, <2>1, <2>2, SlotNumbers DEF States, SlotsSay
<1> HIDE DEF f
<1>3. (State \in States)' /\ SlotsSay(State, disk)'
  BY <1>1, <1>2, SlotsNext
<1>4. GoodCache(c)'
  BY <1>1, GoodStill
<1>5. (disk \in [Sectors -> Vals])' /\ loaded' \in BOOLEAN
  BY <1>1 DEF Sectors, DiskSectors, Vals
<1> QED BY <1>1, <1>3, <1>4, <1>5, NothingTrue, InvNext

\* A step of the cache module alone.
LEMMA CachedStep ==
  ASSUME DiskInv, setup' = setup, NEW x, Cached(x), loaded' \in BOOLEAN, GoodCache(c)' PROVE DiskInv'
<1>1. UNCHANGED <<disk, recent, rclock, sector>> /\ got' = Nothing
  BY DEF Cached
<1>2. (State \in States)' /\ (SlotsSay(State, disk') => SlotsSay(State, disk)')
  BY <1>1, SlotsStill DEF DiskInv
<1>3. WritesLand => SlotsSay(State, disk)'
  BY <1>1, <1>2 DEF DiskInv
<1>4. (disk \in [Sectors -> Vals])'
  BY <1>1 DEF DiskInv, Sectors, DiskSectors, Vals
<1> QED BY <1>1, <1>2, <1>3, <1>4, NothingTrue, InvNext

LEMMA CachedGoodStep ==
  ASSUME DiskInv, setup' = setup, NEW x, Cached(x), loaded' = loaded, GoodCache(x) PROVE DiskInv'
<1>1. c' = x /\ disk' = disk
  BY DEF Cached
<1>2. GoodCache(c)'
  BY <1>1, GoodStill
<1>3. loaded' \in BOOLEAN
  BY DEF DiskInv
<1> QED BY <1>2, <1>3, CachedStep

LEMMA ShrinkStep == ASSUME DiskInv, setup' = setup, NEW lines \in Nat, Shrink(lines) PROVE DiskInv'
<1> DEFINE most == IF c.count > lines THEN c.count - lines ELSE 0
           x == Cap(c, most)
<1>1. Cached(x) /\ loaded' = loaded
  BY DEF Shrink
<1>2. most \in Nat
  BY DEF DiskInv, GoodCache, Sound, Shape, CacheOf
<1> HIDE DEF most
<1>3. GoodCache(x)
  BY <1>2, CapGood DEF DiskInv
<1> HIDE DEF x
<1> QED BY <1>1, <1>3, CachedGoodStep

LEMMA CmdOffStep == ASSUME DiskInv, setup' = setup, CmdOff PROVE DiskInv'
<1> DEFINE x == [Cap(c, 0) EXCEPT !.off = TRUE]
<1>1. Cached(x) /\ loaded' = loaded
  BY DEF CmdOff
<1>2. GoodCache(x)
  BY OffGood DEF DiskInv
<1> HIDE DEF x
<1> QED BY <1>1, <1>2, CachedGoodStep

LEMMA CmdLimitStep == ASSUME DiskInv, setup' = setup, NEW lines \in setup.Limits, CmdLimit(lines) PROVE DiskInv'
<1> DEFINE x == CapTo(c, lines)
           lba == setup.TABLE_LBA
           n == setup.TABLE_SECTORS
<1>1. setup \in Setups /\ loaded /\ loaded' = loaded /\ disk \in [Sectors -> Vals] /\ GoodCache(c)
  BY DEF CmdLimit, DiskInv
<1>2. lines \in Nat /\ lba \in Nat /\ n \in Nat \ {0} /\ lba + n <= DiskSectors
  BY <1>1, SetupNumbers
<1>3. GoodCache(x)
  BY <1>1, <1>2, CapToGood
<1>4. CASE ~c.off /\ Cached(x)
  <2> HIDE DEF x
  <2> QED BY <1>1, <1>3, <1>4, CachedGoodStep
<1>5. CASE c.off /\ \E r \in Reads(x, lba, n) : Cached(r.x)
  <2> HIDE DEF x, lba, n
  <2>1. PICK r \in Reads(x, lba, n) : Cached(r.x)
    BY <1>5
  <2>2. GoodCache(r.x)
    BY <1>1, <1>2, <1>3, ReadKeeps
  <2> DEFINE y == r.x
  <2>3. Cached(y) /\ GoodCache(y)
    BY <2>1, <2>2
  <2> HIDE DEF y
  <2> QED BY <1>1, <2>3, CachedGoodStep
<1> QED BY <1>4, <1>5 DEF CmdLimit

LEMMA FreshStep == ASSUME DiskInv, setup' = setup, Cached(Fresh), loaded' \in BOOLEAN PROVE DiskInv'
<1> DEFINE x == Fresh
<1>1. c' = x
  BY DEF Cached
<1>2. Sound(x) /\ Hooked(x) = {} /\ x.count = 0 /\ x.limit = 0
  BY FreshIs DEF DiskInv
<1>3. Cached(x)
  OBVIOUS
<1> HIDE DEF x
<1>4. GoodCache(c)'
  <2>1. Whole(x) /\ LinesSay(x, disk') /\ Within(x)
    BY <1>2 DEF Whole, LinesSay, Within
  <2> QED BY <1>1, <1>2, <2>1, GoodNext
<1> QED BY <1>3, <1>4, CachedStep

LEMMA DiskInit == Init => DiskInv
<1> SUFFICES ASSUME Init PROVE DiskInv
  OBVIOUS
<1>1. setup \in Setups /\ c = Fresh /\ loaded \in BOOLEAN
  BY DEF Init
<1>2. disk \in [Sectors -> Vals]
  <2> DEFINE v0 == CHOOSE v \in Vals : TRUE
  <2>1. v0 \in Vals
    BY <1>1, SetupNumbers
  <2>2. disk = [s \in Sectors |-> v0]
    BY DEF Init
  <2> HIDE DEF v0
  <2> QED BY <2>1, <2>2
<1>3. GoodCache(c)
  <2>1. Sound(c) /\ Hooked(c) = {} /\ c.count = 0 /\ c.limit = 0
    BY <1>1, FreshIs
  <2>2. Whole(c) /\ LinesSay(c, disk) /\ Within(c) /\ Empty(c)
    BY <2>1 DEF Whole, LinesSay, Within, Empty
  <2> QED BY <2>1, <2>2, SaysTrue DEF GoodCache, Truth
<1>4. State \in States /\ SlotsSay(State, disk)
  <2>1. recent = [i \in Slots |-> [lba |-> 0, used |-> 0, data |-> Junk]] /\ rclock = 0 /\ sector = 1
    BY DEF Init
  <2> QED BY <1>1, <2>1, SlotNumbers DEF State, States, Copies, SlotsSay, Said
<1>5. ReadTrue
  BY DEF Init, ReadTrue, Nothing
<1> QED BY <1>1, <1>2, <1>3, <1>4, <1>5 DEF DiskInv

LEMMA DiskStep == DiskInv /\ [Next]_vars => DiskInv'
<1> SUFFICES ASSUME DiskInv, [Next]_vars PROVE DiskInv'
  OBVIOUS
<1>1. CASE UNCHANGED vars
  <2>1. /\ setup' = setup /\ disk' = disk /\ c' = c /\ loaded' = loaded /\ recent' = recent /\ rclock' = rclock
        /\ sector' = sector /\ got' = got
    BY <1>1 DEF vars
  <2>2. GoodCache(c)'
    BY <2>1, GoodStill DEF DiskInv
  <2>3. (State \in States)' /\ (SlotsSay(State, disk') => SlotsSay(State, disk)')
    BY <2>1, SlotsStill DEF DiskInv
  <2>4. ReadTrue => ReadTrue'
    BY <2>1 DEF ReadTrue, Contents, Nothing
  <2>5. WritesLand => SlotsSay(State, disk)' /\ ReadTrue'
    BY <2>1, <2>3, <2>4 DEF DiskInv
  <2>6. (disk \in [Sectors -> Vals])' /\ loaded' \in BOOLEAN
    BY <2>1 DEF DiskInv, Sectors, DiskSectors, Vals
  <2> QED BY <2>1, <2>2, <2>3, <2>5, <2>6, InvNext
<1>2. CASE Next
  <2>1. setup' = setup /\ setup \in Setups
    BY <1>2 DEF Next, DiskInv
  <2>2. ASSUME NEW r \in Runs PROVE r[1] \in Nat /\ r[2] \in Nat \ {0} /\ r[1] + r[2] <= DiskSectors
    BY <2>1, SetupNumbers DEF Runs, Sectors
  <2>3. ASSUME NEW r \in Runs, ReadMany(r[1], r[2]) PROVE DiskInv'
    BY <2>1, <2>2, <2>3, ReadManyStep
  <2>4. ASSUME NEW r \in Runs, NEW v \in Vals, NEW o \in Outcomes(r[1], r[2]), PutMany(r[1], r[2], v, o) PROVE DiskInv'
    <3> DEFINE lba == r[1]
               n == r[2]
    <3>1. lba \in Nat /\ n \in Nat \ {0} /\ lba + n <= DiskSectors /\ o \in Outcomes(lba, n) /\ PutMany(lba, n, v, o)
      BY <2>2, <2>4
    <3> HIDE DEF lba, n
    <3> QED BY <2>1, <3>1, PutManyStep
  <2>5. ASSUME NEW lba \in Sectors, LoadSector(lba) PROVE DiskInv'
    BY <2>1, <2>5, LoadSectorStep
  <2>6. ASSUME NEW lba \in Sectors, NEW v \in Vals, NEW o \in Outcomes(lba, 1), ChangeSector(lba, v, o) PROVE DiskInv'
    BY <2>1, <2>6, ChangeSectorStep
  <2>7. ASSUME NEW lba \in Sectors, NEW v \in Vals, NEW o \in Outcomes(lba, 1), PutScratch(lba, v, o) PROVE DiskInv'
    BY <2>1, <2>7, PutScratchStep
  <2>8. CASE FsCache
    BY <2>1, <2>8, FsCacheStep
  <2>9. ASSUME NEW n \in 1 .. MaxRoom, Shrink(n) PROVE DiskInv'
    <3>1. n \in Nat
      BY <2>1, SetupNumbers
    <3> QED BY <2>1, <2>9, <3>1, ShrinkStep
  <2>10. CASE CmdOff
    BY <2>1, <2>10, CmdOffStep
  <2>11. ASSUME NEW n \in setup.Limits, CmdLimit(n) PROVE DiskInv'
    BY <2>1, <2>11, CmdLimitStep
  <2>12. CASE ModuleInit
    BY <2>1, <2>12, FreshStep DEF ModuleInit
  <2>13. CASE ModuleExit
    BY <2>1, <2>13, FreshStep DEF ModuleExit
  <2> DEFINE Long == \E r \in Runs : \/ ReadMany(r[1], r[2])
                                    \/ \E v \in Vals, o \in Outcomes(r[1], r[2]) : PutMany(r[1], r[2], v, o)
             Short == \E lba \in Sectors :
                        \/ LoadSector(lba)
                        \/ \E v \in Vals, o \in Outcomes(lba, 1) : ChangeSector(lba, v, o) \/ PutScratch(lba, v, o)
             Given1 == \E n \in 1 .. MaxRoom : Shrink(n)
             Sized == \E n \in setup.Limits : CmdLimit(n)
  <2>14. Long => DiskInv'
    BY <2>3, <2>4
  <2>15. Short => DiskInv'
    BY <2>5, <2>6, <2>7
  <2>16. Given1 => DiskInv'
    BY <2>9
  <2>17. Sized => DiskInv'
    BY <2>11
  <2>18. Long \/ Short \/ FsCache \/ Given1 \/ CmdOff \/ Sized \/ ModuleInit \/ ModuleExit
    <3>1. Steps
      BY <1>2 DEF Next
    <3> QED BY <3>1 DEF Steps
  <2> HIDE DEF Long, Short, Given1, Sized
  <2> QED BY <2>8, <2>10, <2>12, <2>13, <2>14, <2>15, <2>16, <2>17, <2>18
<1> QED BY <1>1, <1>2

\* What the steps keep, always.
THEOREM DiskKept == Spec => []DiskInv
<1>1. Init => DiskInv
  BY DiskInit
<1>2. DiskInv /\ [Next]_vars => DiskInv'
  BY DiskStep
<1> QED BY <1>1, <1>2, PTL DEF Spec

\* However the table of lines grows, and lines are given back and used again, every line
\* with sectors is found by them and every line with memory is counted: no more than the
\* size set, and none while the cache is off or gone (cache.c's hook, unhook, grow, cap).
THEOREM LinesAreCounted == Spec => []CountTrue
<1>1. DiskInv => CountTrue
  <2> SUFFICES ASSUME DiskInv PROVE CountTrue
    OBVIOUS
  <2>1. setup \in Setups /\ Sound(c) /\ Within(c) /\ Empty(c)
    BY DEF DiskInv, GoodCache
  <2> QED BY <2>1, FoundOnceIs DEF CountTrue, Within, Empty, Sound
<1> QED BY <1>1, DiskKept, PTL

\* Where no write fails under a cache, what the lines, the filesystem's sectors and a read
\* say is what the disk says.  The cache is written before the disk (efi.c:531), so with a
\* failed write under it this is not so, and the theorem says nothing of that.
THEOREM CopiesAreTrue == Spec => [](WritesLand => DataTrue)
<1>1. DiskInv => (WritesLand => DataTrue)
  <2> SUFFICES ASSUME DiskInv, WritesLand PROVE DataTrue
    OBVIOUS
  <2>1. LineTrue(c) /\ SlotsSay(State, disk) /\ ReadTrue
    BY DEF DiskInv, GoodCache, Truth
  <2> QED BY <2>1 DEF DataTrue, CopiesTrue, SlotsSay, State
<1> QED BY <1>1, DiskKept, PTL
=============================================================================
