--------------------------- MODULE OpenFilesProofs ---------------------------
(***************************************************************************)
(* Proofs about open files, for any number of processes, descriptors,      *)
(* slots and memory objects: what is counted is what there is, and every   *)
(* descriptor of an opening is where the last call on any of them left it. *)
(***************************************************************************)
EXTENDS OpenFiles, FiniteSetTheorems, FunctionTheorems, WellFoundedInduction, Lemmas

----------------------------------------------------------------------------
(* Numbers and sets.                                                       *)

LEMMA MaxOfTwo == ASSUME NEW a \in Int, NEW b \in Int PROVE Max({a, b}) = IF a >= b THEN a ELSE b
<1>1. CASE a >= b
  <2>1. \A x \in {a, b} : (\A z \in {a, b} : x >= z) => x = a
    BY <1>1
  <2>2. a \in {a, b} /\ \A z \in {a, b} : a >= z
    BY <1>1
  <2> QED BY <1>1, <2>1, <2>2 DEF Max
<1>2. CASE ~(a >= b)
  <2>1. \A x \in {a, b} : (\A z \in {a, b} : x >= z) => x = b
    BY <1>2
  <2>2. b \in {a, b} /\ \A z \in {a, b} : b >= z
    BY <1>2
  <2> QED BY <1>2, <2>1, <2>2 DEF Max
<1> QED BY <1>1, <1>2

LEMMA MinOfTwo == ASSUME NEW a \in Int, NEW b \in Int PROVE Min({a, b}) = IF a <= b THEN a ELSE b
<1>1. CASE a <= b
  <2>1. \A x \in {a, b} : (\A z \in {a, b} : x <= z) => x = a
    BY <1>1
  <2>2. a \in {a, b} /\ \A z \in {a, b} : a <= z
    BY <1>1
  <2> QED BY <1>1, <2>1, <2>2 DEF Min
<1>2. CASE ~(a <= b)
  <2>1. \A x \in {a, b} : (\A z \in {a, b} : x <= z) => x = b
    BY <1>2
  <2>2. b \in {a, b} /\ \A z \in {a, b} : b <= z
    BY <1>2
  <2> QED BY <1>2, <2>1, <2>2 DEF Min
<1> QED BY <1>1, <1>2

\* Two sets that are the same but for r.
LEMMA CardOne ==
  ASSUME NEW A, IsFiniteSet(A), NEW B, NEW r, A \ {r} = B \ {r}
  PROVE  /\ IsFiniteSet(B) /\ Cardinality(A) \in Nat /\ Cardinality(B) \in Nat
         /\ Cardinality(B) = Cardinality(A) - (IF r \in A THEN 1 ELSE 0) + (IF r \in B THEN 1 ELSE 0)
<1> DEFINE C == A \ {r}
<1>1. IsFiniteSet(C) /\ Cardinality(C) \in Nat
  BY FS_Subset, FS_CardinalityType
<1>2. IsFiniteSet(C \union {r}) /\ Cardinality(C \union {r}) = Cardinality(C) + 1
  BY <1>1, FS_AddElement
<1>3. (IF r \in A THEN A = C \union {r} ELSE A = C) /\ (IF r \in B THEN B = C \union {r} ELSE B = C)
  OBVIOUS
<1> HIDE DEF C
<1>4. ASSUME NEW D, IF r \in D THEN D = C \union {r} ELSE D = C
      PROVE  IsFiniteSet(D) /\ Cardinality(D) = Cardinality(C) + (IF r \in D THEN 1 ELSE 0)
  <2>1. CASE r \in D
    BY <1>2, <1>4, <2>1
  <2>2. CASE r \notin D
    BY <1>1, <1>4, <2>2
  <2> QED BY <2>1, <2>2
<1>5. /\ Cardinality(A) = Cardinality(C) + (IF r \in A THEN 1 ELSE 0)
      /\ IsFiniteSet(B) /\ Cardinality(B) = Cardinality(C) + (IF r \in B THEN 1 ELSE 0)
  BY <1>3, <1>4
<1> QED BY <1>1, <1>5

----------------------------------------------------------------------------
(* What is counted.                                                        *)

InTables(t, i) == {r \in Procs \X Fds : t[r[1]][r[2]].ofd = i}
WithMem(o, m) == {i \in 1 .. OFDS : o[i].mem = m}

HandleOK(h) ==
  /\ h = [kind |-> h.kind, ofd |-> h.ofd, offset |-> h.offset, size |-> h.size, start |-> h.start,
          cloexec |-> h.cloexec, id |-> h.id]
  /\ h.kind \in {"none", "pipe", "read", "write", "mem"} /\ h.ofd \in 0 .. OFDS
  /\ h.offset \in 0 .. MaxSize /\ h.size \in 0 .. MaxSize
  /\ h.kind = "none" => h.ofd = 0
OfdOK(o) ==
  /\ o = [refs |-> o.refs, offset |-> o.offset, size |-> o.size, mem |-> o.mem, name |-> o.name]
  /\ o.refs \in Nat /\ o.offset \in 0 .. MaxSize /\ o.size \in 0 .. MaxSize
  /\ o.mem \in Mems \union {0} /\ o.name \in setup.Names \union {NoName}
  /\ o.refs = 0 => o.mem = 0 /\ o.name = NoName
MemOK(o) == o = [refs |-> o.refs, pages |-> o.pages, data |-> o.data] /\ o.refs \in Nat

Typed(w) ==
  /\ w = [tables |-> w.tables, touched |-> w.touched, ofds |-> w.ofds, mems |-> w.mems]
  /\ w.tables = [p \in Procs |-> [fd \in Fds |-> w.tables[p][fd]]]
  /\ w.touched = [p \in Procs |-> w.touched[p]]
  /\ w.ofds = [i \in 1 .. OFDS |-> w.ofds[i]]
  /\ w.mems = [m \in Mems |-> w.mems[m]]
  /\ \A p \in Procs, fd \in Fds : HandleOK(w.tables[p][fd])
  /\ \A p \in Procs : w.touched[p] \subseteq Fds
  /\ \A i \in 1 .. OFDS : OfdOK(w.ofds[i])
  /\ \A m \in Mems : MemOK(w.mems[m])

\* Slot i has x[i] holders besides the tables, and object m y[m] besides the slots.
Counts(w, x) == \A i \in 1 .. OFDS : w.ofds[i].refs = Cardinality(InTables(w.tables, i)) + x[i]
MemCounts(w, y) == \A m \in Mems : w.mems[m].refs = Cardinality(WithMem(w.ofds, m)) + y[m]

\* Processes other than those of P, which are in a call, have looked only at what they have.
Quiet(w, P) ==
  \A p \in Procs \ P : /\ \A fd \in w.touched[p] : w.tables[p][fd].kind # "none"
                       /\ room[p] = 0 => \A fd \in Fds : w.tables[p][fd].kind = "none"

Good(w, P, x, y) ==
  /\ Typed(w) /\ x \in [1 .. OFDS -> Int] /\ y \in [Mems -> Int]
  /\ Counts(w, x) /\ MemCounts(w, y) /\ Quiet(w, P)

Outside(q) == [i \in 1 .. OFDS |-> IF q # <<>> /\ q[1].ofd = i THEN 1 ELSE 0]
Zero == [m \in Mems |-> 0]

PassingOK == passing = <<>> \/ (passing = <<passing[1]>> /\ HandleOK(passing[1]))
DiskOK ==
  /\ disk = [n \in setup.Names |-> disk[n]]
  /\ \A n \in setup.Names : Len(disk[n].bytes) \in 0 .. MaxSize

OpenInv ==
  /\ setup \in Setups /\ Good(World, {}, Outside(passing), Zero)
  /\ room \in [Procs -> Nat] /\ PassingOK /\ DiskOK

----------------------------------------------------------------------------
(* The world with one thing made another.                                  *)

LEMMA Settings ==
  ASSUME setup \in Setups
  PROVE  /\ IsFiniteSet(Procs) /\ PROGRAM_FILES \in Nat \ {0} /\ setup.FIRST_FILES \in Nat \ {0} /\ OFDS \in Nat
         /\ Mems \subseteq Nat \ {0} /\ NoName \notin setup.Names /\ setup.Sizes \subseteq Nat /\ setup.Ats \subseteq Nat
         /\ MaxSize \in Nat /\ BeginsFit(setup)
         /\ IsFiniteSet(Fds) /\ Fds # {} /\ Fds \subseteq Nat
<1>1. SetupOK(setup)
  BY SetupsAssumption
<1> DEFINE n == setup.PROGRAM_FILES
<1>2. n \in Nat \ {0} /\ 0 \in Int /\ n - 1 \in Int
  BY <1>1 DEF SetupOK
<1>3. 0 .. n - 1 # {} /\ 0 .. n - 1 \subseteq Nat
  BY <1>2
<1> HIDE DEF n
<1>4. IsFiniteSet(0 .. n - 1)
  BY <1>2, FS_Interval
<1> QED BY <1>1, <1>2, <1>3, <1>4 DEF n, SetupOK, Procs, PROGRAM_FILES, OFDS, Mems, MaxSize, Fds

LEMMA InTablesFinite ==
  ASSUME setup \in Setups, NEW t, NEW i PROVE IsFiniteSet(InTables(t, i)) /\ Cardinality(InTables(t, i)) \in Nat
<1>1. IsFiniteSet(Procs \X Fds)
  BY Settings, FS_Product
<1>2. InTables(t, i) \subseteq Procs \X Fds
  BY DEF InTables
<1> QED BY <1>1, <1>2, FS_Subset, FS_CardinalityType

LEMMA WithMemFinite ==
  ASSUME setup \in Setups, NEW o, NEW m PROVE IsFiniteSet(WithMem(o, m)) /\ Cardinality(WithMem(o, m)) \in Nat
<1>1. IsFiniteSet(1 .. OFDS)
  <2>1. 1 \in Int /\ OFDS \in Int
    BY Settings
  <2> QED BY <2>1, FS_Interval
<1>2. WithMem(o, m) \subseteq 1 .. OFDS
  BY DEF WithMem
<1> QED BY <1>1, <1>2, FS_Subset, FS_CardinalityType

Bit(h, i) == IF h.ofd = i THEN 1 ELSE 0
MBit(o, m) == IF o.mem = m THEN 1 ELSE 0

\* x, when what is `was' in the tables is `is' and the slots are as they were; the same of the objects.
Adj(x, was, is) == [i \in 1 .. OFDS |-> x[i] + Bit(was, i) - Bit(is, i)]
MAdj(y, was, is) == [m \in Mems |-> y[m] + MBit(was, m) - MBit(is, m)]
More(x, i, n) == [x EXCEPT ![i] = @ + n]

\* v is w with h for descriptor fd of p.
IsHas(w, v, p, fd, h) ==
  /\ v = [tables |-> v.tables, touched |-> v.touched, ofds |-> v.ofds, mems |-> v.mems]
  /\ v.touched = w.touched /\ v.ofds = w.ofds /\ v.mems = w.mems
  /\ v.tables = [q \in Procs |-> [f \in Fds |-> v.tables[q][f]]]
  /\ \A q \in Procs, f \in Fds : v.tables[q][f] = IF q = p /\ f = fd THEN h ELSE w.tables[q][f]

LEMMA HasParts ==
  ASSUME NEW w, Typed(w), NEW p \in Procs, NEW fd \in Fds, NEW h
  PROVE  IsHas(w, Has(w, p, fd, h), p, fd, h)
<1> DEFINE t == [w.tables EXCEPT ![p][fd] = h]
           v == Has(w, p, fd, h)
<1>1. v = [w EXCEPT !.tables = t]
  BY DEF Has
<1>2. /\ v = [tables |-> v.tables, touched |-> v.touched, ofds |-> v.ofds, mems |-> v.mems]
      /\ v.touched = w.touched /\ v.ofds = w.ofds /\ v.mems = w.mems /\ v.tables = t
  <2> HIDE DEF t
  <2> QED BY <1>1 DEF Typed
<1>3. /\ t = [q \in Procs |-> [f \in Fds |-> t[q][f]]]
      /\ \A q \in Procs, f \in Fds : t[q][f] = IF q = p /\ f = fd THEN h ELSE w.tables[q][f]
  <2> DEFINE tabs == w.tables
  <2>1. tabs = [q \in Procs |-> [f \in Fds |-> tabs[q][f]]]
    BY DEF Typed
  <2> HIDE DEF tabs
  <2> QED BY <2>1 DEF tabs
<1> HIDE DEF t, v
<1> QED BY <1>2, <1>3 DEF v, IsHas

\* Slots, objects and counts are for those of the slots and objects that are there.
LEMMA HasGood ==
  ASSUME setup \in Setups, NEW w, NEW P, NEW x, NEW y, Good(w, P, x, y), NEW p \in P, p \in Procs, NEW fd \in Fds,
         NEW h, HandleOK(h)
  PROVE  Good(Has(w, p, fd, h), P, Adj(x, w.tables[p][fd], h), y)
<1> DEFINE v == Has(w, p, fd, h)
           z == Adj(x, w.tables[p][fd], h)
<1>1. /\ v = [tables |-> v.tables, touched |-> v.touched, ofds |-> v.ofds, mems |-> v.mems]
      /\ v.touched = w.touched /\ v.ofds = w.ofds /\ v.mems = w.mems
      /\ v.tables = [q \in Procs |-> [f \in Fds |-> v.tables[q][f]]]
      /\ \A q \in Procs, f \in Fds : v.tables[q][f] = IF q = p /\ f = fd THEN h ELSE w.tables[q][f]
  <2>1. IsHas(w, v, p, fd, h)
    BY HasParts DEF Good
  <2> HIDE DEF v
  <2> QED BY <2>1 DEF IsHas
<1> HIDE DEF v
<1>2. Typed(v)
  BY <1>1 DEF Good, Typed
<1>3. Counts(v, z)
  <2> SUFFICES ASSUME NEW i \in 1 .. OFDS PROVE v.ofds[i].refs = Cardinality(InTables(v.tables, i)) + z[i]
    BY DEF Counts
  <2> DEFINE A == InTables(w.tables, i)
             B == InTables(v.tables, i)
             r == <<p, fd>>
  <2>1. IsFiniteSet(A)
    BY InTablesFinite
  <2>2. A \ {r} = B \ {r}
    BY <1>1 DEF InTables
  <2>3. (r \in A <=> w.tables[p][fd].ofd = i) /\ (r \in B <=> h.ofd = i)
    <3>1. r \in Procs \X Fds /\ r[1] = p /\ r[2] = fd
      OBVIOUS
    <3>2. v.tables[p][fd] = h
      BY <1>1
    <3> QED BY <3>1, <3>2 DEF InTables
  <2>4. w.ofds[i].refs = Cardinality(A) + x[i] /\ x[i] \in Int
    BY DEF Good, Counts
  <2>5. z[i] = x[i] + Bit(w.tables[p][fd], i) - Bit(h, i)
    BY DEF Adj
  <2> HIDE DEF A, B, r, z
  <2>6. /\ Cardinality(A) \in Nat /\ Cardinality(B) \in Nat
        /\ Cardinality(B) = Cardinality(A) - (IF r \in A THEN 1 ELSE 0) + (IF r \in B THEN 1 ELSE 0)
    BY <2>1, <2>2, CardOne
  <2>7. Bit(w.tables[p][fd], i) = (IF r \in A THEN 1 ELSE 0) /\ Bit(h, i) = (IF r \in B THEN 1 ELSE 0)
    BY <2>3 DEF Bit
  <2>8. v.ofds[i].refs = Cardinality(A) + x[i]
    BY <1>1, <2>4
  <2>9. v.ofds[i].refs = Cardinality(B) + z[i]
    BY <2>4, <2>5, <2>6, <2>7, <2>8
  <2> QED BY <2>9 DEF B
<1>4. Quiet(v, P)
  <2> SUFFICES ASSUME NEW q \in Procs \ P
               PROVE  /\ \A f \in w.touched[q] : v.tables[q][f].kind # "none"
                      /\ room[q] = 0 => \A f \in Fds : v.tables[q][f].kind = "none"
    BY <1>1 DEF Quiet
  <2>1. q # p /\ w.touched[q] \subseteq Fds
    BY DEF Good, Typed
  <2>2. \A f \in Fds : v.tables[q][f] = w.tables[q][f]
    BY <1>1, <2>1
  <2> QED BY <2>1, <2>2 DEF Good, Quiet
<1>5. MemCounts(v, y)
  BY <1>1 DEF Good, MemCounts
<1>6. z \in [1 .. OFDS -> Int]
  <2> SUFFICES ASSUME NEW i \in 1 .. OFDS PROVE x[i] + Bit(w.tables[p][fd], i) - Bit(h, i) \in Int
    BY DEF Adj
  <2> QED BY DEF Good, Bit
<1> QED BY <1>2, <1>3, <1>4, <1>5, <1>6 DEF Good, v

LEMMA SlotGood ==
  ASSUME setup \in Setups, NEW w, NEW P, NEW x, NEW y, Good(w, P, x, y), NEW i \in 1 .. OFDS, NEW o, OfdOK(o)
  PROVE  Good(SlotIs(w, i, o), P, More(x, i, o.refs - w.ofds[i].refs), MAdj(y, w.ofds[i], o))
<1> DEFINE v == SlotIs(w, i, o)
           n == o.refs - w.ofds[i].refs
           z == More(x, i, n)
           u == MAdj(y, w.ofds[i], o)
<1>1. /\ v = [tables |-> v.tables, touched |-> v.touched, ofds |-> v.ofds, mems |-> v.mems]
      /\ v.tables = w.tables /\ v.touched = w.touched /\ v.mems = w.mems
      /\ v.ofds = [j \in 1 .. OFDS |-> v.ofds[j]]
      /\ \A j \in 1 .. OFDS : v.ofds[j] = IF j = i THEN o ELSE w.ofds[j]
  <2> DEFINE t == [w.ofds EXCEPT ![i] = o]
  <2>1. v = [w EXCEPT !.ofds = t]
    BY DEF SlotIs
  <2>2. w = [tables |-> w.tables, touched |-> w.touched, ofds |-> w.ofds, mems |-> w.mems]
    BY DEF Good, Typed
  <2>3. t = [j \in 1 .. OFDS |-> t[j]] /\ \A j \in 1 .. OFDS : t[j] = IF j = i THEN o ELSE w.ofds[j]
    <3> DEFINE f == w.ofds
    <3>1. f = [j \in 1 .. OFDS |-> f[j]]
      BY DEF Good, Typed
    <3> HIDE DEF f
    <3> QED BY <3>1 DEF f
  <2> HIDE DEF t, v
  <2> QED BY <2>1, <2>2, <2>3
<1> HIDE DEF v
<1>2. Typed(v)
  BY <1>1 DEF Good, Typed
<1>3. n \in Int
  <2>1. OfdOK(w.ofds[i])
    BY DEF Good, Typed
  <2> QED BY <2>1 DEF OfdOK
<1> HIDE DEF n
<1>4. z \in [1 .. OFDS -> Int] /\ \A j \in 1 .. OFDS : z[j] = IF j = i THEN x[j] + n ELSE x[j]
  BY <1>3 DEF Good, More
<1>5. Counts(v, z)
  <2> SUFFICES ASSUME NEW j \in 1 .. OFDS PROVE v.ofds[j].refs = Cardinality(InTables(w.tables, j)) + z[j]
    BY <1>1 DEF Counts
  <2> DEFINE c == Cardinality(InTables(w.tables, j))
  <2>1. c \in Nat /\ w.ofds[j].refs = c + x[j] /\ x[j] \in Int
    BY InTablesFinite DEF Good, Counts
  <2> HIDE DEF c, z
  <2>2. CASE j = i
    <3>1. v.ofds[j].refs = o.refs /\ z[j] = x[j] + n
      BY <1>1, <1>4, <2>2
    <3>2. n = o.refs - (c + x[j]) /\ o.refs \in Int
      BY <2>1, <2>2 DEF n, OfdOK
    <3> QED BY <2>1, <3>1, <3>2 DEF c
  <2>3. CASE j # i
    BY <1>1, <1>4, <2>1, <2>3 DEF c
  <2> QED BY <2>2, <2>3
<1>6. u \in [Mems -> Int] /\ \A m \in Mems : u[m] = y[m] + MBit(w.ofds[i], m) - MBit(o, m)
  BY DEF Good, MAdj, MBit
<1>7. MemCounts(v, u)
  <2> SUFFICES ASSUME NEW m \in Mems PROVE w.mems[m].refs = Cardinality(WithMem(v.ofds, m)) + u[m]
    BY <1>1 DEF MemCounts
  <2> DEFINE A == WithMem(w.ofds, m)
             B == WithMem(v.ofds, m)
  <2>1. IsFiniteSet(A)
    BY WithMemFinite
  <2>2. A \ {i} = B \ {i}
    BY <1>1 DEF WithMem
  <2>3. (i \in A <=> w.ofds[i].mem = m) /\ (i \in B <=> o.mem = m)
    BY <1>1 DEF WithMem
  <2>4. w.mems[m].refs = Cardinality(A) + y[m] /\ y[m] \in Int
    BY DEF Good, MemCounts
  <2> HIDE DEF A, B, u
  <2>5. /\ Cardinality(A) \in Nat /\ Cardinality(B) \in Nat
        /\ Cardinality(B) = Cardinality(A) - (IF i \in A THEN 1 ELSE 0) + (IF i \in B THEN 1 ELSE 0)
    BY <2>1, <2>2, CardOne
  <2>6. MBit(w.ofds[i], m) = (IF i \in A THEN 1 ELSE 0) /\ MBit(o, m) = (IF i \in B THEN 1 ELSE 0)
    BY <2>3 DEF MBit
  <2>7. w.mems[m].refs = Cardinality(B) + u[m]
    BY <1>6, <2>4, <2>5, <2>6
  <2> QED BY <2>7 DEF B
<1>8. Quiet(v, P)
  BY <1>1 DEF Good, Quiet
<1> HIDE DEF z, u
<1>9. Good(v, P, z, u)
  BY <1>2, <1>4, <1>5, <1>6, <1>7, <1>8 DEF Good
<1> QED BY <1>9 DEF v, z, u, n

LEMMA MemGood ==
  ASSUME setup \in Setups, NEW w, NEW P, NEW x, NEW y, Good(w, P, x, y), NEW m \in Mems, NEW o, MemOK(o)
  PROVE  Good(MemIs(w, m, o), P, x, More(y, m, o.refs - w.mems[m].refs))
<1> DEFINE v == MemIs(w, m, o)
           n == o.refs - w.mems[m].refs
           u == More(y, m, n)
<1>1. /\ v = [tables |-> v.tables, touched |-> v.touched, ofds |-> v.ofds, mems |-> v.mems]
      /\ v.tables = w.tables /\ v.touched = w.touched /\ v.ofds = w.ofds
      /\ v.mems = [k \in Mems |-> v.mems[k]]
      /\ \A k \in Mems : v.mems[k] = IF k = m THEN o ELSE w.mems[k]
  <2> DEFINE t == [w.mems EXCEPT ![m] = o]
  <2>1. v = [w EXCEPT !.mems = t]
    BY DEF MemIs
  <2>2. w = [tables |-> w.tables, touched |-> w.touched, ofds |-> w.ofds, mems |-> w.mems]
    BY DEF Good, Typed
  <2>3. t = [k \in Mems |-> t[k]] /\ \A k \in Mems : t[k] = IF k = m THEN o ELSE w.mems[k]
    <3> DEFINE f == w.mems
    <3>1. f = [k \in Mems |-> f[k]]
      BY DEF Good, Typed
    <3> HIDE DEF f
    <3> QED BY <3>1 DEF f
  <2> HIDE DEF t, v
  <2> QED BY <2>1, <2>2, <2>3
<1> HIDE DEF v
<1>2. Typed(v)
  BY <1>1 DEF Good, Typed
<1>3. n \in Int
  <2>1. MemOK(w.mems[m])
    BY DEF Good, Typed
  <2> QED BY <2>1 DEF MemOK
<1> HIDE DEF n
<1>4. u \in [Mems -> Int] /\ \A k \in Mems : u[k] = IF k = m THEN y[k] + n ELSE y[k]
  BY <1>3 DEF Good, More
<1>5. MemCounts(v, u)
  <2> SUFFICES ASSUME NEW k \in Mems PROVE v.mems[k].refs = Cardinality(WithMem(w.ofds, k)) + u[k]
    BY <1>1 DEF MemCounts
  <2> DEFINE c == Cardinality(WithMem(w.ofds, k))
  <2>1. c \in Nat /\ w.mems[k].refs = c + y[k] /\ y[k] \in Int
    BY WithMemFinite DEF Good, MemCounts
  <2> HIDE DEF c, u
  <2>2. CASE k = m
    <3>1. v.mems[k].refs = o.refs /\ u[k] = y[k] + n
      BY <1>1, <1>4, <2>2
    <3>2. n = o.refs - (c + y[k]) /\ o.refs \in Int
      BY <2>1, <2>2 DEF n, MemOK
    <3> QED BY <2>1, <3>1, <3>2 DEF c
  <2>3. CASE k # m
    BY <1>1, <1>4, <2>1, <2>3 DEF c
  <2> QED BY <2>2, <2>3
<1>6. Quiet(v, P) /\ Counts(v, x)
  BY <1>1 DEF Good, Quiet, Counts
<1> HIDE DEF u
<1>7. Good(v, P, x, u)
  BY <1>2, <1>4, <1>5, <1>6 DEF Good
<1> QED BY <1>7 DEF v, u, n

LEMMA LookedGood ==
  ASSUME NEW w, NEW P, NEW x, NEW y, Good(w, P, x, y), NEW p \in P, p \in Procs, NEW S, S \subseteq Fds
  PROVE  /\ Good(Looked(w, p, S), P, x, y) /\ Looked(w, p, S).tables = w.tables /\ Looked(w, p, S).touched[p] = S
         /\ Looked(w, p, S).ofds = w.ofds /\ Looked(w, p, S).mems = w.mems
         /\ \A q \in Procs \ {p} : Looked(w, p, S).touched[q] = w.touched[q]
<1> DEFINE v == Looked(w, p, S)
<1>1. /\ v = [tables |-> v.tables, touched |-> v.touched, ofds |-> v.ofds, mems |-> v.mems]
      /\ v.tables = w.tables /\ v.ofds = w.ofds /\ v.mems = w.mems
      /\ v.touched = [q \in Procs |-> v.touched[q]]
      /\ \A q \in Procs : v.touched[q] = IF q = p THEN S ELSE w.touched[q]
  <2> DEFINE t == [w.touched EXCEPT ![p] = S]
  <2>1. v = [w EXCEPT !.touched = t]
    BY DEF Looked
  <2>2. w = [tables |-> w.tables, touched |-> w.touched, ofds |-> w.ofds, mems |-> w.mems]
    BY DEF Good, Typed
  <2>3. t = [q \in Procs |-> t[q]] /\ \A q \in Procs : t[q] = IF q = p THEN S ELSE w.touched[q]
    <3> DEFINE f == w.touched
    <3>1. f = [q \in Procs |-> f[q]]
      BY DEF Good, Typed
    <3> HIDE DEF f
    <3> QED BY <3>1 DEF f
  <2> HIDE DEF t, v
  <2> QED BY <2>1, <2>2, <2>3
<1> HIDE DEF v
<1>2. Typed(v)
  BY <1>1 DEF Good, Typed
<1>3. Counts(v, x) /\ MemCounts(v, y) /\ Quiet(v, P)
  BY <1>1 DEF Good, Counts, MemCounts, Quiet
<1>4. Good(v, P, x, y) /\ v.touched[p] = S /\ \A q \in Procs \ {p} : v.touched[q] = w.touched[q]
  BY <1>1, <1>2, <1>3 DEF Good
<1> QED BY <1>1, <1>4 DEF v

\* Counts that come to the same are the same.
Even(x, z) == \A i \in 1 .. OFDS : z[i] = x[i]
MEven(y, z) == \A m \in Mems : z[m] = y[m]

LEMMA EvenGood ==
  ASSUME NEW w, NEW P, NEW x, NEW y, Good(w, P, x, y),
         NEW z, z \in [1 .. OFDS -> Int], Even(x, z), NEW u, u \in [Mems -> Int], MEven(y, u)
  PROVE  Good(w, P, z, u)
BY DEF Good, Even, MEven, Counts, MemCounts

----------------------------------------------------------------------------
(* A descriptor looked at.                                                 *)

LEMMA RefHeld ==
  ASSUME setup \in Setups, NEW w, NEW P, NEW x, NEW y, Good(w, P, x, y), NEW q \in Procs, NEW f \in Fds,
         NEW i \in 1 .. OFDS, w.tables[q][f].ofd = i, x[i] >= 0
  PROVE  w.ofds[i].refs > 0
<1> DEFINE A == InTables(w.tables, i)
<1>1. IsFiniteSet(A) /\ Cardinality(A) \in Nat
  BY InTablesFinite
<1>2. <<q, f>> \in A
  BY DEF InTables
<1> HIDE DEF A
<1>3. Cardinality(A) # 0
  BY <1>1, <1>2, FS_EmptySet
<1>4. w.ofds[i].refs = Cardinality(A) + x[i] /\ x[i] \in Int
  BY DEF Good, Counts, A
<1> QED BY <1>1, <1>3, <1>4

LEMMA FreeSlot ==
  ASSUME setup \in Setups, NEW w, Typed(w), FreeOfds(w) # {}
  PROVE  /\ Min(FreeOfds(w)) \in 1 .. OFDS /\ w.ofds[Min(FreeOfds(w))].refs = 0
         /\ w.ofds[Min(FreeOfds(w))].mem = 0
<1> DEFINE F == FreeOfds(w)
<1>1. F \subseteq Nat /\ F # {}
  BY Settings DEF FreeOfds
<1>2. Min(F) \in F
  <2> HIDE DEF F
  <2> QED BY <1>1, MinIn
<1>3. Min(F) \in 1 .. OFDS /\ w.ofds[Min(F)].refs = 0
  BY <1>2 DEF FreeOfds
<1>4. OfdOK(w.ofds[Min(F)])
  BY <1>3 DEF Typed
<1> QED BY <1>3, <1>4 DEF OfdOK

LEMMA FreeMem ==
  ASSUME setup \in Setups, NEW w, FreeMems(w) # {}
  PROVE  Min(FreeMems(w)) \in Mems /\ w.mems[Min(FreeMems(w))].refs = 0
<1> DEFINE F == FreeMems(w)
<1>1. F \subseteq Nat /\ F # {}
  BY Settings DEF FreeMems
<1>2. Min(F) \in F
  <2> HIDE DEF F
  <2> QED BY <1>1, MinIn
<1> QED BY <1>2 DEF FreeMems

\* Of w, only descriptor fd of p is another in v.
Same1(w, v, p, fd) ==
  \A q \in Procs, f \in Fds : q # p \/ f # fd => v.tables[q][f] = w.tables[q][f]

LEMMA HasSame ==
  ASSUME NEW w, Typed(w), NEW p \in Procs, NEW fd \in Fds, NEW h
  PROVE  /\ Same1(w, Has(w, p, fd, h), p, fd) /\ Has(w, p, fd, h).tables[p][fd] = h
         /\ Has(w, p, fd, h).touched = w.touched /\ Has(w, p, fd, h).ofds = w.ofds /\ Has(w, p, fd, h).mems = w.mems
<1> DEFINE v == Has(w, p, fd, h)
<1>0. IsHas(w, v, p, fd, h)
  BY HasParts
<1> HIDE DEF v
<1>1. /\ v.touched = w.touched /\ v.ofds = w.ofds /\ v.mems = w.mems
      /\ \A q \in Procs, f \in Fds : v.tables[q][f] = IF q = p /\ f = fd THEN h ELSE w.tables[q][f]
  BY <1>0 DEF IsHas
<1>2. Same1(w, v, p, fd) /\ v.tables[p][fd] = h
  BY <1>1 DEF Same1
<1> QED BY <1>1, <1>2 DEF v

LEMMA SlotSame ==
  ASSUME NEW w, NEW i, NEW o
  PROVE  SlotIs(w, i, o).tables = w.tables /\ SlotIs(w, i, o).touched = w.touched /\ SlotIs(w, i, o).mems = w.mems
BY DEF SlotIs

LEMMA MemSame ==
  ASSUME NEW w, NEW m, NEW o
  PROVE  MemIs(w, m, o).tables = w.tables /\ MemIs(w, m, o).touched = w.touched /\ MemIs(w, m, o).ofds = w.ofds
BY DEF MemIs

\* A descriptor with another slot, position or size.
LEMMA HandleSlot ==
  ASSUME NEW h, HandleOK(h), h.kind # "none", NEW i \in 0 .. OFDS
  PROVE  /\ HandleOK([h EXCEPT !.ofd = i]) /\ [h EXCEPT !.ofd = i].ofd = i /\ [h EXCEPT !.ofd = i].kind = h.kind
<1> DEFINE k == [h EXCEPT !.ofd = i]
<1>1. h = [kind |-> h.kind, ofd |-> h.ofd, offset |-> h.offset, size |-> h.size, start |-> h.start,
           cloexec |-> h.cloexec, id |-> h.id]
  BY DEF HandleOK
<1>2. k = [kind |-> h.kind, ofd |-> i, offset |-> h.offset, size |-> h.size, start |-> h.start,
           cloexec |-> h.cloexec, id |-> h.id]
  BY <1>1
<1> HIDE DEF k
<1>3. HandleOK(k) /\ k.ofd = i /\ k.kind = h.kind
  BY <1>2 DEF HandleOK
<1> QED BY <1>3 DEF k

\* The handle h, where it is and as long as it says.
Placed(h, k, a, b) ==
  k = [kind |-> h.kind, ofd |-> h.ofd, offset |-> a, size |-> b, start |-> h.start, cloexec |-> h.cloexec, id |-> h.id]

LEMMA HandlePlaced ==
  ASSUME NEW h, HandleOK(h), NEW a \in 0 .. MaxSize, NEW b \in 0 .. MaxSize, NEW k, Placed(h, k, a, b)
  PROVE  HandleOK(k) /\ k.ofd = h.ofd /\ k.kind = h.kind
BY DEF HandleOK, Placed

LEMMA HandleAt ==
  ASSUME NEW h, HandleOK(h), NEW a, NEW b
  PROVE  Placed(h, [h EXCEPT !.offset = a, !.size = b], a, b)
<1> DEFINE g == [h EXCEPT !.offset = a]
<1>1. h = [kind |-> h.kind, ofd |-> h.ofd, offset |-> h.offset, size |-> h.size, start |-> h.start,
           cloexec |-> h.cloexec, id |-> h.id]
  BY DEF HandleOK
<1>2. g = [kind |-> h.kind, ofd |-> h.ofd, offset |-> a, size |-> h.size, start |-> h.start,
           cloexec |-> h.cloexec, id |-> h.id]
  BY <1>1
<1> HIDE DEF g
<1>3. [g EXCEPT !.size = b] = [kind |-> h.kind, ofd |-> h.ofd, offset |-> a, size |-> b, start |-> h.start,
                               cloexec |-> h.cloexec, id |-> h.id]
  BY <1>2
<1>4. [h EXCEPT !.offset = a, !.size = b] = [g EXCEPT !.size = b]
  BY DEF g
<1> QED BY <1>3, <1>4 DEF Placed

LEMMA SlottedGood ==
  ASSUME setup \in Setups, NEW w, NEW P, NEW x, NEW y, Good(w, P, x, y), NEW p \in P, p \in Procs, NEW fd \in Fds
  PROVE  LET g == Slotted(w, p, fd)
         IN /\ Good(g, P, x, y) /\ Same1(w, g, p, fd) /\ g.touched = w.touched /\ g.mems = w.mems
            /\ g.tables[p][fd].kind = w.tables[p][fd].kind
            /\ g.tables[p][fd].ofd = 0 => g = w /\ ~Fresh(w, w.tables[p][fd])
<1> DEFINE h == w.tables[p][fd]
           slot == Min(FreeOfds(w))
           o == [refs |-> 1, offset |-> h.offset, size |-> h.size, mem |-> 0, name |-> NoName]
           k == [h EXCEPT !.ofd = slot]
           v == SlotIs(w, slot, o)
           g == Slotted(w, p, fd)
<1>1. Typed(w) /\ HandleOK(h)
  BY DEF Good, Typed
<1>2. CASE Fresh(w, h)
  <2>1. h.ofd = 0 /\ h.kind # "none" /\ FreeOfds(w) # {}
    BY <1>2 DEF Fresh, OfdKind
  <2>2. slot \in 1 .. OFDS /\ w.ofds[slot].refs = 0 /\ w.ofds[slot].mem = 0
    BY <1>1, <2>1, FreeSlot
  <2>3. OfdOK(o) /\ o.refs = 1 /\ o.mem = 0
    BY <1>1 DEF OfdOK, HandleOK
  <2>4. g = Has(v, p, fd, k)
    BY <1>2 DEF Slotted, H, Opened
  <2>5. v.tables = w.tables /\ v.touched = w.touched /\ v.mems = w.mems
    BY SlotSame
  <2>6. slot \in 0 .. OFDS /\ h.offset \in 0 .. MaxSize /\ h.size \in 0 .. MaxSize
    BY <1>1, <2>2 DEF HandleOK
  <2>7. HandleOK(k) /\ k.ofd = slot /\ k.kind = h.kind
    <3> HIDE DEF slot, h
    <3> QED BY <1>1, <2>1, <2>6, HandleSlot
  <2> DEFINE n == o.refs - w.ofds[slot].refs
             x1 == More(x, slot, n)
             y1 == MAdj(y, w.ofds[slot], o)
             x2 == Adj(x1, h, k)
  <2>8. n = 1
    BY <2>2
  <2> HIDE DEF slot, o
  <2>9. Good(v, P, x1, y1)
    BY <2>2, <2>3, SlotGood
  <2> HIDE DEF v, x1, y1, k
  <2>10. Good(g, P, x2, y1)
    BY <2>4, <2>5, <2>7, <2>9, HasGood
  <2>11. Even(x2, x)
    <3> SUFFICES ASSUME NEW i \in 1 .. OFDS PROVE x[i] = x1[i] + Bit(h, i) - Bit(k, i)
      BY DEF Even, Adj
    <3>1. x[i] \in Int /\ x1[i] = IF i = slot THEN x[i] + 1 ELSE x[i]
      BY <2>8 DEF Good, x1, More
    <3> QED BY <2>1, <2>7, <3>1 DEF Bit
  <2>12. MEven(y1, y)
    <3> SUFFICES ASSUME NEW m \in Mems PROVE y[m] = y[m] + MBit(w.ofds[slot], m) - MBit(o, m)
      BY DEF MEven, y1, MAdj
    <3>1. y[m] \in Int
      BY DEF Good
    <3> QED BY <2>2, <2>3, <3>1 DEF MBit
  <2>13. Good(g, P, x, y)
    <3>1. x \in [1 .. OFDS -> Int] /\ y \in [Mems -> Int]
      BY DEF Good
    <3> HIDE DEF x2, g
    <3> QED BY <2>10, <2>11, <2>12, <3>1, EvenGood
  <2>14. Typed(v)
    BY <2>9 DEF Good
  <2>15. Same1(v, g, p, fd) /\ g.tables[p][fd] = k /\ g.touched = v.touched /\ g.mems = v.mems
    BY <2>4, <2>14, HasSame
  <2>16. Same1(w, g, p, fd)
    BY <2>5, <2>15 DEF Same1
  <2> HIDE DEF g
  <2> QED BY <2>2, <2>5, <2>7, <2>13, <2>15, <2>16 DEF g
<1>3. CASE ~Fresh(w, h)
  <2>1. g = w
    BY <1>3 DEF Slotted, H
  <2>2. Same1(w, w, p, fd)
    BY DEF Same1
  <2> HIDE DEF g
  <2> QED BY <1>3, <2>1, <2>2 DEF g
<1> QED BY <1>2, <1>3

\* A look that has been had is not had again.
Settled(w, p, fd) ==
  LET h == w.tables[p][fd]
  IN IF h.ofd = 0 THEN ~Fresh(w, h) ELSE fd \in w.touched[p]

LEMMA PickedAgain == ASSUME NEW w, NEW p, NEW fd, Settled(w, p, fd) PROVE Picked(w, p, fd) = w
<1>1. Slotted(w, p, fd) = w
  BY DEF Settled, Slotted, H, Fresh
<1> QED BY <1>1 DEF Settled, Picked, H

\* What a look at fd leaves of w.
Looks(w, v, p, fd) ==
  /\ Same1(w, v, p, fd) /\ v.mems = w.mems /\ v.tables[p][fd].kind = w.tables[p][fd].kind
  /\ v.touched[p] \subseteq w.touched[p] \union {fd}
  /\ \A q \in Procs \ {p} : v.touched[q] = w.touched[q]
  /\ Settled(v, p, fd)

LEMMA PickedGood ==
  ASSUME setup \in Setups, NEW w, NEW P, NEW x, NEW y, Good(w, P, x, y), NEW p \in P, p \in Procs, NEW fd \in Fds
  PROVE  Good(Picked(w, p, fd), P, x, y) /\ Looks(w, Picked(w, p, fd), p, fd)
<1> DEFINE g == Slotted(w, p, fd)
           h == g.tables[p][fd]
           o == g.ofds[h.ofd]
           k == [h EXCEPT !.offset = o.offset, !.size = o.size]
           v == Has(g, p, fd, k)
           z == Picked(w, p, fd)
<1>1. /\ Good(g, P, x, y) /\ Same1(w, g, p, fd) /\ g.touched = w.touched /\ g.mems = w.mems
      /\ h.kind = w.tables[p][fd].kind
      /\ h.ofd = 0 => g = w /\ ~Fresh(w, w.tables[p][fd])
  BY SlottedGood
<1>2. z = IF h.ofd = 0 \/ fd \in g.touched[p] THEN g ELSE Looked(v, p, g.touched[p] \union {fd})
  BY DEF Picked, H
<1> HIDE DEF g
<1>3. CASE h.ofd = 0 \/ fd \in g.touched[p]
  <2>1. z = g
    BY <1>2, <1>3
  <2>2. Settled(g, p, fd)
    BY <1>1, <1>3 DEF Settled
  <2> HIDE DEF z
  <2> QED BY <1>1, <2>1, <2>2 DEF Looks, z
<1>4. CASE ~(h.ofd = 0 \/ fd \in g.touched[p])
  <2>1. Typed(g) /\ HandleOK(h) /\ g.touched[p] \subseteq Fds
    BY <1>1 DEF Good, Typed
  <2>2. h.ofd \in 1 .. OFDS
    BY <1>4, <2>1, Settings DEF HandleOK
  <2>3. OfdOK(o)
    BY <2>1, <2>2 DEF Typed
  <2>4. o.offset \in 0 .. MaxSize /\ o.size \in 0 .. MaxSize /\ h.kind # "none" /\ h.ofd \in 0 .. OFDS
    BY ZenonT(30), <1>4, <2>1, <2>3 DEF OfdOK, HandleOK
  <2> HIDE DEF h, o
  <2>5. HandleOK(k) /\ k.ofd = h.ofd /\ k.kind = h.kind
    <3>1. Placed(h, k, o.offset, o.size)
      BY <2>1, HandleAt
    <3> HIDE DEF k
    <3> QED BY <2>1, <2>4, <3>1, HandlePlaced
  <2> HIDE DEF k
  <2>6. Good(v, P, Adj(x, h, k), y)
    BY <1>1, <2>5, HasGood DEF h
  <2>7. Even(Adj(x, h, k), x)
    <3> SUFFICES ASSUME NEW i \in 1 .. OFDS PROVE x[i] = x[i] + Bit(h, i) - Bit(k, i)
      BY DEF Even, Adj
    <3>1. x[i] \in Int
      BY DEF Good
    <3> QED BY <2>5, <3>1 DEF Bit
  <2>8. Good(v, P, x, y)
    <3>1. x \in [1 .. OFDS -> Int] /\ y \in [Mems -> Int] /\ MEven(y, y)
      BY DEF Good, MEven
    <3> HIDE DEF v
    <3> QED BY <2>6, <2>7, <3>1, EvenGood
  <2>9. /\ Same1(g, v, p, fd) /\ v.tables[p][fd] = k
        /\ v.touched = g.touched /\ v.ofds = g.ofds /\ v.mems = g.mems
    BY <2>1, HasSame
  <2> HIDE DEF v
  <2> DEFINE S == g.touched[p] \union {fd}
  <2>10. z = Looked(v, p, S) /\ S \subseteq Fds
    BY <1>2, <1>4, <2>1
  <2> HIDE DEF S, z
  <2>11. /\ Good(z, P, x, y) /\ z.tables = v.tables /\ z.touched[p] = S
         /\ z.ofds = v.ofds /\ z.mems = v.mems
         /\ \A q \in Procs \ {p} : z.touched[q] = v.touched[q]
    BY <2>8, <2>10, LookedGood
  <2>12. Same1(w, z, p, fd)
    BY <1>1, <2>9, <2>11 DEF Same1
  <2>13. Settled(z, p, fd)
    BY <1>4, <2>5, <2>9, <2>11 DEF Settled, S
  <2>14. z.tables[p][fd].kind = w.tables[p][fd].kind /\ z.mems = w.mems
    BY <1>1, <2>5, <2>9, <2>11 DEF h
  <2>15. z.touched[p] \subseteq w.touched[p] \union {fd} /\ \A q \in Procs \ {p} : z.touched[q] = w.touched[q]
    BY <1>1, <2>9, <2>11 DEF S
  <2> QED BY <2>11, <2>12, <2>13, <2>14, <2>15 DEF Looks, z
<1> QED BY <1>3, <1>4

----------------------------------------------------------------------------
(* Descriptors made, copied and closed.                                    *)

\* Another descriptor of the same slot.
LEMMA HasLike ==
  ASSUME setup \in Setups, NEW w, NEW P, NEW x, NEW y, Good(w, P, x, y), NEW p \in P, p \in Procs, NEW fd \in Fds,
         NEW k, HandleOK(k), k.ofd = w.tables[p][fd].ofd
  PROVE  Good(Has(w, p, fd, k), P, x, y)
<1> DEFINE h == w.tables[p][fd]
           z == Adj(x, h, k)
           v == Has(w, p, fd, k)
<1>1. Good(v, P, z, y)
  BY HasGood
<1>2. Even(z, x)
  <2> SUFFICES ASSUME NEW i \in 1 .. OFDS PROVE x[i] = x[i] + Bit(h, i) - Bit(k, i)
    BY DEF Even, Adj
  <2>1. x[i] \in Int
    BY DEF Good
  <2> QED BY <2>1 DEF Bit
<1>3. x \in [1 .. OFDS -> Int] /\ y \in [Mems -> Int] /\ MEven(y, y)
  BY DEF Good, MEven
<1> HIDE DEF v, z
<1>4. Good(v, P, x, y)
  BY <1>1, <1>2, <1>3, EvenGood
<1> QED BY <1>4 DEF v

\* x with one holder more, h, that is in no table.
Plus(x, h) == [i \in 1 .. OFDS |-> x[i] + Bit(h, i)]
NonNeg(x) == \A i \in 1 .. OFDS : x[i] >= 0
MNonNeg(y) == \A m \in Mems : y[m] >= 0
Still(w, v) == v.tables = w.tables /\ v.touched = w.touched

LEMMA StillGood == ASSUME NEW u, NEW v, NEW w, Still(u, v), Still(v, w) PROVE Still(u, w)
BY DEF Still

LEMMA PlusIs ==
  ASSUME NEW x \in [1 .. OFDS -> Int], NEW h
  PROVE  Plus(x, h) \in [1 .. OFDS -> Int] /\ (NonNeg(x) => NonNeg(Plus(x, h)))
BY DEF Plus, NonNeg, Bit

LEMMA HeldGood ==
  ASSUME setup \in Setups, NEW w, NEW P, NEW x, NEW y, Good(w, P, x, y), NEW h, HandleOK(h)
  PROVE  Good(OfdHeld(w, h), P, Plus(x, h), y) /\ Still(w, OfdHeld(w, h))
<1> DEFINE i == h.ofd
           o == w.ofds[i]
           z == Plus(x, h)
           v == OfdHeld(w, h)
<1>1. x \in [1 .. OFDS -> Int] /\ y \in [Mems -> Int] /\ i \in 0 .. OFDS /\ z \in [1 .. OFDS -> Int]
  BY PlusIs DEF Good, HandleOK
<1>2. CASE i = 0
  <2>1. v = w
    BY <1>2 DEF OfdHeld
  <2>2. Even(x, z) /\ MEven(y, y)
    <3> SUFFICES ASSUME NEW j \in 1 .. OFDS PROVE x[j] + Bit(h, j) = x[j]
      BY DEF Even, MEven, Plus
    <3>1. x[j] \in Int /\ Bit(h, j) = 0
      BY <1>1, <1>2 DEF Bit
    <3> QED BY <3>1
  <2> HIDE DEF z, v
  <2>3. Good(v, P, z, y)
    BY <1>1, <2>1, <2>2, EvenGood
  <2> QED BY <2>1, <2>3 DEF v, z, Still
<1>3. CASE i # 0
  <2> DEFINE o2 == [o EXCEPT !.refs = @ + 1]
  <2>1. i \in 1 .. OFDS
    BY <1>1, <1>3, Settings
  <2>2. OfdOK(o)
    BY <2>1 DEF Good, Typed
  <2> HIDE DEF o
  <2>3. o2 = [refs |-> o.refs + 1, offset |-> o.offset, size |-> o.size, mem |-> o.mem, name |-> o.name]
    BY <2>2 DEF OfdOK
  <2>4. v = SlotIs(w, i, o2)
    BY <1>3 DEF OfdHeld, o
  <2> HIDE DEF o2
  <2>5. OfdOK(o2) /\ o2.refs = o.refs + 1 /\ o2.mem = o.mem
    BY <2>2, <2>3 DEF OfdOK
  <2> DEFINE n == o2.refs - o.refs
             x1 == More(x, i, n)
             y1 == MAdj(y, o, o2)
  <2>6. n = 1
    BY <2>2, <2>5 DEF OfdOK
  <2> HIDE DEF i, v, z
  <2>7. Good(v, P, x1, y1)
    BY <2>1, <2>4, <2>5, SlotGood DEF o
  <2>8. Even(x1, z)
    <3> HIDE DEF n
    <3> SUFFICES ASSUME NEW j \in 1 .. OFDS PROVE x[j] + Bit(h, j) = x1[j]
      BY DEF Even, z, Plus
    <3>1. x[j] \in Int /\ x1[j] = IF j = i THEN x[j] + 1 ELSE x[j]
      BY <1>1, <2>6 DEF More
    <3> QED BY <3>1 DEF Bit, i
  <2>9. MEven(y1, y)
    <3> SUFFICES ASSUME NEW m \in Mems PROVE y[m] = y[m] + MBit(o, m) - MBit(o2, m)
      BY DEF MEven, MAdj
    <3>1. y[m] \in Int
      BY <1>1
    <3> QED BY <2>5, <3>1 DEF MBit
  <2> HIDE DEF x1, y1
  <2>10. Good(v, P, z, y)
    BY <1>1, <2>7, <2>8, <2>9, EvenGood
  <2>11. Still(w, v)
    BY <2>4, SlotSame DEF Still
  <2> QED BY <2>10, <2>11 DEF v, z
<1> QED BY <1>2, <1>3

\* An open file fewer has object m, or none if m is 0.
LEMMA MemDroppedGood ==
  ASSUME setup \in Setups, NEW w, NEW P, NEW x, NEW y, NEW m \in Mems \union {0}, NEW u,
         Good(w, P, x, u), MNonNeg(y), y \in [Mems -> Int],
         \A k \in Mems : u[k] = y[k] + (IF k = m THEN 1 ELSE 0)
  PROVE  Good(MemDropped(w, m), P, x, y) /\ Still(w, MemDropped(w, m))
<1> DEFINE v == MemDropped(w, m)
<1>0. x \in [1 .. OFDS -> Int] /\ Even(x, x) /\ 0 \notin Mems
  BY Settings DEF Good, Even
<1>1. CASE m = 0
  <2>1. v = w
    BY <1>1 DEF MemDropped
  <2>2. MEven(u, y)
    <3> SUFFICES ASSUME NEW k \in Mems PROVE y[k] = u[k]
      BY DEF MEven
    <3>1. k # m /\ y[k] \in Int
      BY <1>0, <1>1
    <3> QED BY <3>1
  <2> HIDE DEF v
  <2>3. Good(v, P, x, y)
    BY <1>0, <2>1, <2>2, EvenGood
  <2> QED BY <2>1, <2>3 DEF v, Still
<1>2. CASE m # 0
  <2> DEFINE o == w.mems[m]
             o2 == IF o.refs = 1 THEN NoMem ELSE [o EXCEPT !.refs = @ - 1]
  <2>1. m \in Mems
    BY <1>2
  <2>2. MemOK(o) /\ o.refs >= 1
    <3>1. MemOK(o)
      BY <2>1 DEF Good, Typed
    <3> DEFINE c == Cardinality(WithMem(w.ofds, m))
    <3>2. c \in Nat /\ o.refs = c + u[m] /\ u[m] = y[m] + 1 /\ y[m] >= 0 /\ y[m] \in Int
      BY <2>1, WithMemFinite DEF Good, MemCounts, MNonNeg
    <3> HIDE DEF c, o
    <3> QED BY <3>1, <3>2
  <2>3. v = MemIs(w, m, o2)
    BY <1>2 DEF MemDropped
  <2> HIDE DEF o
  <2>4. MemOK(o2) /\ o2.refs = o.refs - 1
    <3>1. CASE o.refs = 1
      <4>1. o2 = NoMem
        BY <3>1
      <4> HIDE DEF o2
      <4>2. o2.refs = 0 /\ o2 = [refs |-> o2.refs, pages |-> o2.pages, data |-> o2.data]
        BY <4>1 DEF NoMem
      <4> QED BY <3>1, <4>2 DEF MemOK
    <3>2. CASE o.refs # 1
      <4>1. o2 = [refs |-> o.refs - 1, pages |-> o.pages, data |-> o.data]
        BY <2>2, <3>2 DEF MemOK
      <4> HIDE DEF o2
      <4> QED BY <2>2, <3>2, <4>1 DEF MemOK
    <3> QED BY <3>1, <3>2
  <2> DEFINE n == o2.refs - o.refs
             y1 == More(u, m, n)
  <2>5. n = 0 - 1
    BY <2>2, <2>4 DEF MemOK
  <2> HIDE DEF o2, v
  <2>6. Good(v, P, x, y1)
    BY <2>1, <2>3, <2>4, MemGood DEF o
  <2>7. MEven(y1, y)
    <3> SUFFICES ASSUME NEW k \in Mems PROVE y[k] = y1[k]
      BY DEF MEven
    <3>1. u \in [Mems -> Int] /\ y[k] \in Int /\ u[k] = y[k] + (IF k = m THEN 1 ELSE 0)
      BY DEF Good
    <3> HIDE DEF n
    <3>2. y1[k] = IF k = m THEN u[k] - 1 ELSE u[k]
      BY <2>5, <3>1 DEF More
    <3> HIDE DEF y1
    <3> QED BY <3>1, <3>2
  <2> HIDE DEF y1
  <2>8. Good(v, P, x, y)
    BY <1>0, <2>6, <2>7, EvenGood
  <2>9. Still(w, v)
    BY <2>3, MemSame DEF Still
  <2> QED BY <2>8, <2>9 DEF v
<1> QED BY <1>1, <1>2

LEMMA DroppedGood ==
  ASSUME setup \in Setups, NEW w, NEW P, NEW x, NEW y, NEW h, HandleOK(h), Good(w, P, Plus(x, h), y),
         x \in [1 .. OFDS -> Int], NonNeg(x), MNonNeg(y)
  PROVE  Good(OfdDropped(w, h), P, x, y) /\ Still(w, OfdDropped(w, h))
<1> DEFINE i == h.ofd
           o == w.ofds[i]
           z == Plus(x, h)
           v == OfdDropped(w, h)
<1>1. y \in [Mems -> Int] /\ i \in 0 .. OFDS /\ z \in [1 .. OFDS -> Int]
  BY PlusIs DEF Good, HandleOK
<1>2. CASE i = 0
  <2>1. v = w
    BY <1>2 DEF OfdDropped
  <2>2. Even(z, x) /\ MEven(y, y)
    <3> SUFFICES ASSUME NEW j \in 1 .. OFDS PROVE x[j] = x[j] + Bit(h, j)
      BY DEF Even, MEven, Plus
    <3>1. x[j] \in Int /\ Bit(h, j) = 0
      BY <1>1, <1>2 DEF Bit
    <3> QED BY <3>1
  <2> HIDE DEF z, v
  <2>3. Good(v, P, x, y)
    BY <1>1, <2>1, <2>2, EvenGood DEF z
  <2> QED BY <2>1, <2>3 DEF v, Still
<1>3. CASE i # 0
  <2>1. i \in 1 .. OFDS
    BY <1>1, <1>3, Settings
  <2>2. OfdOK(o)
    BY <2>1 DEF Good, Typed
  <2>3. o.refs \in Nat /\ o.refs >= 1
    <3> DEFINE c == Cardinality(InTables(w.tables, i))
    <3>1. c \in Nat /\ o.refs = c + z[i]
      BY <2>1, InTablesFinite DEF Good, Counts
    <3>2. z[i] = x[i] + 1 /\ x[i] >= 0 /\ x[i] \in Int
      BY <2>1 DEF Plus, Bit, NonNeg
    <3> HIDE DEF c, z, o, i
    <3> QED BY <2>2, <3>1, <3>2 DEF OfdOK
  <2>4. Even(More(z, i, 0 - 1), x)
    <3> SUFFICES ASSUME NEW j \in 1 .. OFDS PROVE x[j] = More(z, i, 0 - 1)[j]
      BY DEF Even
    <3>1. x[j] \in Int /\ z[j] = IF j = i THEN x[j] + 1 ELSE x[j]
      BY DEF Plus, Bit
    <3> HIDE DEF z, i
    <3>2. More(z, i, 0 - 1)[j] = IF j = i THEN z[j] - 1 ELSE z[j]
      BY <1>1, <3>1 DEF More
    <3> QED BY <3>1, <3>2
  <2>5. CASE o.refs > 1
    <3> DEFINE o2 == [o EXCEPT !.refs = @ - 1]
    <3>1. v = SlotIs(w, i, o2)
      BY <1>3, <2>5 DEF OfdDropped
    <3> HIDE DEF o
    <3>2. o2 = [refs |-> o.refs - 1, offset |-> o.offset, size |-> o.size, mem |-> o.mem, name |-> o.name]
      BY <2>2 DEF OfdOK
    <3> HIDE DEF o2
    <3>3. OfdOK(o2) /\ o2.refs = o.refs - 1 /\ o2.mem = o.mem
      BY <2>2, <2>3, <2>5, <3>2 DEF OfdOK
    <3> DEFINE n == o2.refs - o.refs
               x1 == More(z, i, n)
               y1 == MAdj(y, o, o2)
    <3>4. n = 0 - 1
      BY <2>3, <3>3
    <3> HIDE DEF i, v, z
    <3>5. Good(v, P, x1, y1)
      BY <2>1, <3>1, <3>3, SlotGood DEF o, z
    <3>6. MEven(y1, y)
      <4> SUFFICES ASSUME NEW m \in Mems PROVE y[m] = y[m] + MBit(o, m) - MBit(o2, m)
        BY DEF MEven, MAdj
      <4>1. y[m] \in Int
        BY <1>1
      <4> QED BY <3>3, <4>1 DEF MBit
    <3>7. Even(x1, x)
      BY <2>4, <3>4
    <3> HIDE DEF x1, y1
    <3>8. Good(v, P, x, y)
      BY <1>1, <3>5, <3>6, <3>7, EvenGood
    <3>9. Still(w, v)
      BY <3>1, SlotSame DEF Still
    <3> QED BY <3>8, <3>9 DEF v
  <2>6. CASE ~(o.refs > 1)
    <3> DEFINE g == SlotIs(w, i, NoOfd)
               m == o.mem
    <3>1. v = MemDropped(g, m)
      BY <1>3, <2>3, <2>6 DEF OfdDropped
    <3>2. OfdOK(NoOfd) /\ NoOfd.refs = 0 /\ NoOfd.mem = 0 /\ 0 \notin Mems
      BY Settings DEF OfdOK, NoOfd
    <3> DEFINE n == NoOfd.refs - o.refs
               x1 == More(z, i, n)
               y1 == MAdj(y, o, NoOfd)
    <3>3. n = 0 - 1 /\ m \in Mems \union {0}
      BY <2>2, <2>3, <2>6, <3>2 DEF OfdOK
    <3> HIDE DEF i, v, z, g
    <3>4. Good(g, P, x1, y1)
      BY <2>1, <3>2, SlotGood DEF o, z, g
    <3>5. Even(x1, x)
      BY <2>4, <3>3
    <3>6. \A k \in Mems : y1[k] = y[k] + (IF k = m THEN 1 ELSE 0)
      <4> SUFFICES ASSUME NEW k \in Mems PROVE y[k] + MBit(o, k) - MBit(NoOfd, k) = y[k] + (IF k = m THEN 1 ELSE 0)
        BY DEF MAdj
      <4>1. y[k] \in Int
        BY <1>1
      <4> QED BY <3>2, <4>1 DEF MBit
    <3>7. Good(g, P, x, y1)
      <4>1. y1 \in [Mems -> Int] /\ MEven(y1, y1)
        BY <3>4 DEF Good, MEven
      <4> HIDE DEF x1, y1
      <4> QED BY <3>4, <3>5, <4>1, EvenGood
    <3> HIDE DEF y1, m
    <3>8. Good(v, P, x, y) /\ Still(g, v)
      BY <1>1, <3>1, <3>3, <3>6, <3>7, MemDroppedGood
    <3>9. Still(w, g)
      BY SlotSame DEF Still, g
    <3>10. Still(w, v)
      BY <3>8, <3>9, StillGood
    <3> QED BY <3>8, <3>10 DEF v
  <2> QED BY <2>5, <2>6
<1> QED BY <1>2, <1>3
LEMMA HandleIs ==
  ASSUME NEW kind \in {"none", "pipe", "read", "write", "mem"}, NEW ofd \in 0 .. OFDS, NEW offset \in 0 .. MaxSize,
         NEW size \in 0 .. MaxSize, NEW start, NEW cloexec, NEW id, kind = "none" => ofd = 0
  PROVE  /\ HandleOK(Handle(kind, ofd, offset, size, start, cloexec, id))
         /\ Handle(kind, ofd, offset, size, start, cloexec, id).ofd = ofd
         /\ Handle(kind, ofd, offset, size, start, cloexec, id).kind = kind
<1> DEFINE h == Handle(kind, ofd, offset, size, start, cloexec, id)
<1>1. h = [kind |-> kind, ofd |-> ofd, offset |-> offset, size |-> size, start |-> start, cloexec |-> cloexec, id |-> id]
  BY DEF Handle
<1> HIDE DEF h
<1>2. HandleOK(h) /\ h.ofd = ofd /\ h.kind = kind
  BY <1>1 DEF HandleOK
<1> QED BY <1>2 DEF h

LEMMA NoHandleOK ==
  ASSUME setup \in Setups
  PROVE  /\ HandleOK(NoHandle) /\ NoHandle.ofd = 0 /\ NoHandle.kind = "none"
         /\ HandleOK(Pipe) /\ Pipe.ofd = 0 /\ Pipe.kind = "pipe"
<1> DEFINE no == FALSE
<1>1. 0 \in 0 .. OFDS /\ 0 \in 0 .. MaxSize
  BY Settings
<1>2. NoHandle = Handle("none", 0, 0, 0, 0, no, 0) /\ Pipe = Handle("pipe", 0, 0, 0, 0, no, 0)
  BY DEF NoHandle, Pipe
<1> HIDE DEF no
<1>3. /\ HandleOK(Handle("none", 0, 0, 0, 0, no, 0)) /\ Handle("none", 0, 0, 0, 0, no, 0).ofd = 0
      /\ Handle("none", 0, 0, 0, 0, no, 0).kind = "none"
  BY <1>1, HandleIs
<1>4. /\ HandleOK(Handle("pipe", 0, 0, 0, 0, no, 0)) /\ Handle("pipe", 0, 0, 0, 0, no, 0).ofd = 0
      /\ Handle("pipe", 0, 0, 0, 0, no, 0).kind = "pipe"
  BY <1>1, HandleIs
<1> QED BY <1>2, <1>3, <1>4

LEMMA CopiedGood ==
  ASSUME setup \in Setups, NEW w, NEW P, NEW x, NEW y, Good(w, P, x, y), NEW p \in P, p \in Procs, NEW fd \in Fds,
         NEW h, HandleOK(h), w.tables[p][fd].ofd = 0
  PROVE  /\ Good(Copied(w, p, fd, h), P, x, y) /\ Same1(w, Copied(w, p, fd, h), p, fd)
         /\ Copied(w, p, fd, h).tables[p][fd] = h /\ Copied(w, p, fd, h).touched = w.touched
<1> DEFINE was == w.tables[p][fd]
           g == Has(w, p, fd, h)
           v == OfdHeld(g, h)
           z == Adj(x, was, h)
           u == Plus(z, h)
<1>1. Good(g, P, z, y)
  BY HasGood
<1>2. Same1(w, g, p, fd) /\ g.tables[p][fd] = h /\ g.touched = w.touched
  BY HasSame DEF Good
<1>3. x \in [1 .. OFDS -> Int] /\ y \in [Mems -> Int] /\ MEven(y, y)
  BY DEF Good, MEven
<1>4. Even(u, x)
  <2> SUFFICES ASSUME NEW i \in 1 .. OFDS PROVE x[i] = (x[i] + Bit(was, i) - Bit(h, i)) + Bit(h, i)
    BY DEF Even, Plus, Adj
  <2>1. x[i] \in Int /\ Bit(was, i) = 0 /\ Bit(h, i) \in Int
    BY <1>3 DEF Bit
  <2> HIDE DEF was
  <2> QED BY <2>1
<1> HIDE DEF g, z
<1>5. Good(v, P, u, y) /\ Still(g, v)
  BY <1>1, HeldGood
<1> HIDE DEF v, u
<1>6. Good(v, P, x, y)
  BY <1>3, <1>4, <1>5, EvenGood
<1>7. Same1(w, v, p, fd) /\ v.tables[p][fd] = h /\ v.touched = w.touched
  BY <1>2, <1>5 DEF Same1, Still
<1>8. v = Copied(w, p, fd, h)
  BY DEF Copied, v, g
<1> QED BY <1>6, <1>7, <1>8

LEMMA ClosedGood ==
  ASSUME setup \in Setups, NEW w, NEW P, NEW x, NEW y, Good(w, P, x, y), NonNeg(x), MNonNeg(y),
         NEW p \in P, p \in Procs, NEW fd \in Fds
  PROVE  /\ Good(Closed(w, p, fd), P, x, y) /\ Same1(w, Closed(w, p, fd), p, fd)
         /\ Closed(w, p, fd).tables[p][fd] = NoHandle
<1> DEFINE g == Picked(w, p, fd)
           h == g.tables[p][fd]
           k == Has(g, p, fd, NoHandle)
           v == OfdDropped(k, h)
           z == Adj(x, h, NoHandle)
           u == Plus(x, h)
<1>1. Good(g, P, x, y) /\ Same1(w, g, p, fd)
  BY PickedGood DEF Looks
<1>2. v = Closed(w, p, fd)
  BY DEF Closed, H
<1> HIDE DEF g
<1>3. Typed(g) /\ HandleOK(h)
  BY <1>1 DEF Good, Typed
<1> HIDE DEF h
<1>4. Good(k, P, z, y)
  BY <1>1, NoHandleOK, HasGood DEF h
<1>5. Same1(g, k, p, fd) /\ k.tables[p][fd] = NoHandle
  BY <1>3, HasSame
<1>6. x \in [1 .. OFDS -> Int] /\ y \in [Mems -> Int] /\ MEven(y, y) /\ u \in [1 .. OFDS -> Int]
  BY PlusIs DEF Good, MEven
<1>7. Even(z, u)
  <2> SUFFICES ASSUME NEW i \in 1 .. OFDS PROVE x[i] + Bit(h, i) = x[i] + Bit(h, i) - Bit(NoHandle, i)
    BY DEF Even, Plus, Adj
  <2>1. x[i] \in Int /\ Bit(NoHandle, i) = 0 /\ Bit(h, i) \in Int
    BY <1>6, NoHandleOK DEF Bit
  <2> QED BY <2>1
<1> HIDE DEF k, z
<1>8. Good(k, P, u, y)
  <2> HIDE DEF u
  <2> QED BY <1>4, <1>6, <1>7, EvenGood
<1>9. Good(v, P, x, y) /\ Still(k, v)
  BY <1>3, <1>6, <1>8, DroppedGood
<1> HIDE DEF v
<1>10. Same1(w, v, p, fd) /\ v.tables[p][fd] = NoHandle
  BY <1>1, <1>5, <1>9 DEF Same1, Still
<1> QED BY <1>2, <1>9, <1>10

LEMMA LowestIs ==
  ASSUME setup \in Setups, NEW w, NEW p \in Procs, Typed(w), Lowest(w, p) # -1
  PROVE  /\ Lowest(w, p) \in Fds /\ w.tables[p][Lowest(w, p)].ofd = 0 /\ w.tables[p][Lowest(w, p)].kind = "none"
         /\ Lowest(w, p) \notin Used(w, p)
<1> DEFINE S == Fds \ Used(w, p)
<1>1. S # {} /\ S \subseteq Nat
  BY Settings DEF Lowest, Used
<1>2. Lowest(w, p) = Min(S)
  BY DEF Lowest
<1>3. Min(S) \in S
  <2> HIDE DEF S
  <2> QED BY <1>1, MinIn
<1>4. Lowest(w, p) \in Fds /\ Lowest(w, p) \notin Used(w, p)
  BY <1>2, <1>3
<1> HIDE DEF S
<1>5. w.tables[p][Lowest(w, p)].kind = "none"
  BY <1>4 DEF Used
<1>6. HandleOK(w.tables[p][Lowest(w, p)])
  BY <1>4 DEF Typed
<1> QED BY <1>4, <1>5, <1>6 DEF HandleOK

LEMMA GivenGood ==
  ASSUME setup \in Setups, NEW w, NEW P, NEW x, NEW y, NEW h, HandleOK(h), Good(w, P, Plus(x, h), y),
         x \in [1 .. OFDS -> Int], NonNeg(x), MNonNeg(y), NEW p \in P, p \in Procs
  PROVE  /\ Good(Given(w, p, h), P, x, y)
         /\ Lowest(w, p) # -1 => Given(w, p, h).tables[p][Lowest(w, p)] = h
<1> DEFINE v == Given(w, p, h)
           fd == Lowest(w, p)
<1>1. CASE fd = -1
  <2>1. v = OfdDropped(w, h)
    BY <1>1 DEF Given
  <2>2. Good(OfdDropped(w, h), P, x, y)
    BY DroppedGood
  <2> QED BY <1>1, <2>1, <2>2
<1>2. CASE fd # -1
  <2> DEFINE was == w.tables[p][fd]
             u == Plus(x, h)
             z == Adj(u, was, h)
  <2>1. v = Has(w, p, fd, h)
    BY <1>2 DEF Given
  <2>2. Typed(w) /\ y \in [Mems -> Int] /\ MEven(y, y)
    BY DEF Good, MEven
  <2>3. fd \in Fds /\ was.ofd = 0
    BY <1>2, <2>2, LowestIs
  <2> HIDE DEF fd, u, v
  <2>4. Good(v, P, z, y)
    BY <2>1, <2>3, HasGood DEF u
  <2>5. Even(z, x)
    <3> SUFFICES ASSUME NEW i \in 1 .. OFDS PROVE x[i] = (x[i] + Bit(h, i)) + Bit(was, i) - Bit(h, i)
      BY DEF Even, Plus, Adj, u
    <3>1. x[i] \in Int /\ Bit(was, i) = 0 /\ Bit(h, i) \in Int
      BY <2>3 DEF Bit
    <3> HIDE DEF was
    <3> QED BY <3>1
  <2> HIDE DEF z
  <2>6. Good(v, P, x, y)
    BY <2>2, <2>4, <2>5, EvenGood
  <2>7. v.tables[p][fd] = h
    BY <2>1, <2>2, <2>3, HasSame
  <2> QED BY <2>6, <2>7 DEF v, fd
<1> QED BY <1>1, <1>2

\* A descriptor with its mark another.
LEMMA HandleMarked ==
  ASSUME NEW h, HandleOK(h), NEW on
  PROVE  HandleOK([h EXCEPT !.cloexec = on]) /\ [h EXCEPT !.cloexec = on].ofd = h.ofd /\ [h EXCEPT !.cloexec = on].kind = h.kind
<1> DEFINE k == [h EXCEPT !.cloexec = on]
<1>1. h = [kind |-> h.kind, ofd |-> h.ofd, offset |-> h.offset, size |-> h.size, start |-> h.start,
           cloexec |-> h.cloexec, id |-> h.id]
  BY DEF HandleOK
<1>2. k = [kind |-> h.kind, ofd |-> h.ofd, offset |-> h.offset, size |-> h.size, start |-> h.start,
           cloexec |-> on, id |-> h.id]
  BY <1>1
<1> HIDE DEF k
<1>3. HandleOK(k) /\ k.ofd = h.ofd /\ k.kind = h.kind
  BY <1>2 DEF HandleOK
<1> QED BY <1>3 DEF k

LEMMA DuppedGood ==
  ASSUME setup \in Setups, NEW w, NEW P, NEW x, NEW y, Good(w, P, x, y), NonNeg(x), MNonNeg(y),
         NEW p \in P, p \in Procs, NEW fd \in Fds, NEW to \in Fds
  PROVE  Good(DuppedTo(w, p, fd, to), P, x, y)
<1> DEFINE g == Picked(w, p, fd)
           c == IF to \in Used(g, p) THEN Closed(g, p, to) ELSE g
           h == [g.tables[p][fd] EXCEPT !.cloexec = FALSE]
<1>1. DuppedTo(w, p, fd, to) = IF to = fd THEN g ELSE Copied(c, p, to, h)
  BY DEF DuppedTo, H
<1>2. Good(g, P, x, y)
  BY PickedGood
<1> HIDE DEF g
<1>3. Typed(g) /\ HandleOK(g.tables[p][fd]) /\ HandleOK(g.tables[p][to])
  BY <1>2 DEF Good, Typed
<1>4. HandleOK(h)
  <2> DEFINE k == g.tables[p][fd]
  <2> HIDE DEF k
  <2>1. HandleOK([k EXCEPT !.cloexec = FALSE])
    BY <1>3, HandleMarked DEF k
  <2> QED BY <2>1 DEF k
<1> HIDE DEF h
<1>5. Good(c, P, x, y) /\ c.tables[p][to].ofd = 0
  <2>1. CASE to \in Used(g, p)
    <3>1. c = Closed(g, p, to)
      BY <2>1
    <3> HIDE DEF c
    <3>2. Good(c, P, x, y) /\ c.tables[p][to] = NoHandle
      BY <1>2, <3>1, ClosedGood
    <3> QED BY <3>2, NoHandleOK
  <2>2. CASE to \notin Used(g, p)
    <3>1. c = g
      BY <2>2
    <3> HIDE DEF c
    <3>2. g.tables[p][to].ofd = 0
      BY <1>3, <2>2 DEF Used, HandleOK
    <3> QED BY <1>2, <3>1, <3>2
  <2> QED BY <2>1, <2>2
<1> HIDE DEF c
<1>6. Good(Copied(c, p, to, h), P, x, y)
  BY <1>4, <1>5, CopiedGood
<1> QED BY <1>1, <1>2, <1>6
----------------------------------------------------------------------------
(* Descriptors in turn.                                                    *)

\* Of p, the descriptors of S below n are nothing, and the others what they were.
Shut(w, v, p, S, n) ==
  \A f \in Fds : v.tables[p][f].kind = IF f \in S /\ f < n THEN "none" ELSE w.tables[p][f].kind

LEMMA ClosedAllGood ==
  ASSUME setup \in Setups, NEW w, NEW P, NEW x, NEW y, Good(w, P, x, y), NonNeg(x), MNonNeg(y),
         NEW p \in P, p \in Procs, NEW S, S \subseteq Fds
  PROVE  /\ Good(ClosedAll(w, p, S), P, x, y) /\ \A f \in S : ClosedAll(w, p, S).tables[p][f].kind = "none"
         /\ \A g \in Fds \ S : ClosedAll(w, p, S).tables[p][g].kind = w.tables[p][g].kind
<1> DEFINE N == PROGRAM_FILES
           Step(v, n) == IF n - 1 \in S THEN Closed(v, p, n - 1) ELSE v
           Part(f, m) == f = [n \in 0 .. m |-> IF n = 0 THEN w ELSE Step(f[n - 1], n)]
           after == CHOOSE f : Part(f, N)
           R == {m \in 0 .. N : \E f : Part(f, m)}
<1>1. ClosedAll(w, p, S) = after[N] /\ N \in Nat
  BY Settings DEF ClosedAll
<1> HIDE DEF Step, N
<1>2. 0 \in R
  <2>1. Part([n \in 0 .. 0 |-> w], 0) /\ 0 \in 0 .. N
    BY <1>1
  <2> HIDE DEF Part
  <2> QED BY <2>1
<1>3. ASSUME NEW m \in 1 .. N, m - 1 \in R PROVE m \in R
  <2>1. PICK f : Part(f, m - 1)
    <3> HIDE DEF Part
    <3> QED BY <1>3
  <2> DEFINE h == [n \in 0 .. m |-> IF n = m THEN Step(f[m - 1], m) ELSE f[n]]
  <2>2. ASSUME NEW n \in 0 .. m PROVE h[n] = IF n = 0 THEN w ELSE Step(h[n - 1], n)
    <3>1. n # 0 => h[n - 1] = f[n - 1]
      OBVIOUS
    <3>2. CASE n = m
      BY <1>3, <3>1, <3>2
    <3>3. CASE n # m
      <4>1. n \in 0 .. m - 1 /\ h[n] = f[n]
        BY <3>3
      <4> HIDE DEF h
      <4> QED BY <2>1, <3>1, <4>1
    <3> QED BY <3>2, <3>3
  <2>3. h = [n \in 0 .. m |-> h[n]] /\ m \in 0 .. N
    BY <1>1
  <2> HIDE DEF h
  <2>4. Part(h, m)
    BY <2>2, <2>3
  <2> HIDE DEF Part
  <2> QED BY <2>3, <2>4
<1>4. Part(after, N)
  <2>1. Climbs(R, N)
    <3> HIDE DEF R
    <3> QED BY <1>2, <1>3 DEF Climbs
  <2>2. N \in R
    <3> HIDE DEF R
    <3> QED BY <1>1, <2>1, Climbing
  <2> HIDE DEF Part
  <2> QED BY <2>2
<1> HIDE DEF after, R
<1>5. after[0] = w /\ \A n \in 1 .. N : after[n] = Step(after[n - 1], n)
  BY <1>1, <1>4
<1> HIDE DEF Part
<1> DEFINE Ok(v, n) == Good(v, P, x, y) /\ Shut(w, v, p, S, n)
<1>6. Ok(w, 0)
  BY Settings DEF Shut
<1>7. ASSUME NEW n \in 1 .. N, NEW v, Ok(v, n - 1) PROVE Ok(Step(v, n), n)
  <2>1. n - 1 \in Fds /\ Fds \subseteq Nat
    BY <1>1, Settings DEF Fds, N
  <2> DEFINE z == Closed(v, p, n - 1)
  <2>2. CASE n - 1 \in S
    <3>1. Good(z, P, x, y) /\ Same1(v, z, p, n - 1) /\ z.tables[p][n - 1] = NoHandle
      BY <1>7, <2>1, ClosedGood
    <3> HIDE DEF z
    <3>2. Shut(w, z, p, S, n)
      <4> SUFFICES ASSUME NEW f \in Fds PROVE z.tables[p][f].kind = IF f \in S /\ f < n THEN "none" ELSE w.tables[p][f].kind
        BY DEF Shut
      <4>1. f \in Nat /\ n \in Nat
        BY <2>1, <1>1
      <4>2. CASE f = n - 1
        BY <2>2, <3>1, <4>1, <4>2, NoHandleOK
      <4>3. CASE f # n - 1
        <5>1. z.tables[p][f] = v.tables[p][f]
          BY <3>1, <4>3 DEF Same1
        <5>2. f < n <=> f < n - 1
          BY <4>1, <4>3
        <5> QED BY <1>7, <5>1, <5>2 DEF Shut
      <4> QED BY <4>2, <4>3
    <3> QED BY <2>2, <3>1, <3>2 DEF Step, z
  <2>3. CASE n - 1 \notin S
    <3>1. Shut(w, v, p, S, n)
      <4> SUFFICES ASSUME NEW f \in Fds PROVE v.tables[p][f].kind = IF f \in S /\ f < n THEN "none" ELSE w.tables[p][f].kind
        BY DEF Shut
      <4>1. f \in S => (f < n <=> f < n - 1)
        BY <1>1, <2>1, <2>3
      <4> QED BY <1>7, <4>1 DEF Shut
    <3> QED BY <1>7, <2>3, <3>1 DEF Step
  <2> QED BY <2>2, <2>3
<1> HIDE DEF Ok
<1> DEFINE T == {n \in 0 .. N : Ok(after[n], n)}
<1>8. Ok(after[N], N)
  <2>1. 0 \in T
    BY <1>1, <1>5, <1>6
  <2>2. ASSUME NEW n \in 1 .. N, n - 1 \in T PROVE n \in T
    BY <1>1, <1>5, <1>7, <2>2
  <2>3. N \in T
    <3> HIDE DEF T
    <3>1. Climbs(T, N)
      BY <2>1, <2>2 DEF Climbs
    <3> QED BY <1>1, <3>1, Climbing
  <2> QED BY <2>3
<1>9. ASSUME NEW f \in Fds PROVE f < N
  BY <1>1 DEF Fds, N
<1> QED BY <1>1, <1>8, <1>9 DEF Ok, Shut

\* The kinds are what they were, and what has been looked at was, or is of S.
Seen1(w, v, p, S) ==
  /\ \A f \in Fds : v.tables[p][f].kind = w.tables[p][f].kind
  /\ v.touched[p] \subseteq w.touched[p] \union S

LEMMA PickedAllGood ==
  ASSUME setup \in Setups, NEW w, NEW P, NEW x, NEW y, Good(w, P, x, y),
         NEW p \in P, p \in Procs, NEW S, S \subseteq Fds
  PROVE  Good(PickedAll(w, p, S), P, x, y) /\ Seen1(w, PickedAll(w, p, S), p, S)
<1> DEFINE N == PROGRAM_FILES
           Step(v, n) == IF n - 1 \in S THEN Picked(v, p, n - 1) ELSE v
           Part(f, m) == f = [n \in 0 .. m |-> IF n = 0 THEN w ELSE Step(f[n - 1], n)]
           after == CHOOSE f : Part(f, N)
           R == {m \in 0 .. N : \E f : Part(f, m)}
<1>1. PickedAll(w, p, S) = after[N] /\ N \in Nat
  BY Settings DEF PickedAll
<1> HIDE DEF Step, N
<1>2. 0 \in R
  <2>1. Part([n \in 0 .. 0 |-> w], 0) /\ 0 \in 0 .. N
    BY <1>1
  <2> HIDE DEF Part
  <2> QED BY <2>1
<1>3. ASSUME NEW m \in 1 .. N, m - 1 \in R PROVE m \in R
  <2>1. PICK f : Part(f, m - 1)
    <3> HIDE DEF Part
    <3> QED BY <1>3
  <2> DEFINE h == [n \in 0 .. m |-> IF n = m THEN Step(f[m - 1], m) ELSE f[n]]
  <2>2. ASSUME NEW n \in 0 .. m PROVE h[n] = IF n = 0 THEN w ELSE Step(h[n - 1], n)
    <3>1. n # 0 => h[n - 1] = f[n - 1]
      OBVIOUS
    <3>2. CASE n = m
      BY <1>3, <3>1, <3>2
    <3>3. CASE n # m
      <4>1. n \in 0 .. m - 1 /\ h[n] = f[n]
        BY <3>3
      <4> HIDE DEF h
      <4> QED BY <2>1, <3>1, <4>1
    <3> QED BY <3>2, <3>3
  <2>3. h = [n \in 0 .. m |-> h[n]] /\ m \in 0 .. N
    BY <1>1
  <2> HIDE DEF h
  <2>4. Part(h, m)
    BY <2>2, <2>3
  <2> HIDE DEF Part
  <2> QED BY <2>3, <2>4
<1>4. Part(after, N)
  <2>1. Climbs(R, N)
    <3> HIDE DEF R
    <3> QED BY <1>2, <1>3 DEF Climbs
  <2>2. N \in R
    <3> HIDE DEF R
    <3> QED BY <1>1, <2>1, Climbing
  <2> HIDE DEF Part
  <2> QED BY <2>2
<1> HIDE DEF after, R
<1>5. after[0] = w /\ \A n \in 1 .. N : after[n] = Step(after[n - 1], n)
  BY <1>1, <1>4
<1> HIDE DEF Part
<1> DEFINE Ok(v, n) == Good(v, P, x, y) /\ Seen1(w, v, p, S)
<1>6. Ok(w, 0)
  BY DEF Seen1
<1>7. ASSUME NEW n \in 1 .. N, NEW v, Ok(v, n - 1) PROVE Ok(Step(v, n), n)
  <2>1. n - 1 \in Fds
    BY <1>1 DEF Fds, N
  <2> DEFINE z == Picked(v, p, n - 1)
  <2>2. CASE n - 1 \in S
    <3>1. Good(z, P, x, y) /\ Looks(v, z, p, n - 1)
      BY <1>7, <2>1, PickedGood
    <3> HIDE DEF z
    <3>2. \A f \in Fds : z.tables[p][f].kind = v.tables[p][f].kind
      BY <3>1 DEF Looks, Same1
    <3>3. z.touched[p] \subseteq v.touched[p] \union S
      BY <2>2, <3>1 DEF Looks
    <3>4. Seen1(w, z, p, S)
      BY <1>7, <3>2, <3>3 DEF Seen1
    <3> QED BY <2>2, <3>1, <3>4 DEF Step, z
  <2>3. CASE n - 1 \notin S
    BY <1>7, <2>3 DEF Step
  <2> QED BY <2>2, <2>3
<1> HIDE DEF Ok
<1> DEFINE T == {n \in 0 .. N : Ok(after[n], n)}
<1>8. Ok(after[N], N)
  <2>1. 0 \in T
    BY <1>1, <1>5, <1>6
  <2>2. ASSUME NEW n \in 1 .. N, n - 1 \in T PROVE n \in T
    BY <1>1, <1>5, <1>7, <2>2
  <2>3. N \in T
    <3> HIDE DEF T
    <3>1. Climbs(T, N)
      BY <2>1, <2>2 DEF Climbs
    <3> QED BY <1>1, <3>1, Climbing
  <2> QED BY <2>3
<1> QED BY <1>1, <1>8 DEF Ok

\* Below n, the child has what p has; it has nothing from there on.
Lent(w, v, p, child, n) ==
  /\ \A f \in Fds : v.tables[p][f] = w.tables[p][f]
  /\ \A f \in Fds : f >= n => v.tables[child][f].ofd = 0
  /\ v.touched[child] = {}

LEMMA CopiedAllGood ==
  ASSUME setup \in Setups, NEW w, NEW P, NEW x, NEW y, Good(w, P, x, y),
         NEW p \in Procs, NEW child \in P, child \in Procs, p # child, \A f \in Fds : w.tables[child][f].ofd = 0
  PROVE  Good(CopiedAll(w, p, child), P, x, y) /\ CopiedAll(w, p, child).touched[child] = {}
<1> DEFINE w0 == Looked(w, child, {})
<1> DEFINE N == PROGRAM_FILES
           Step(v, n) == Copied(v, child, n - 1, w.tables[p][n - 1])
           Part(f, m) == f = [n \in 0 .. m |-> IF n = 0 THEN w0 ELSE Step(f[n - 1], n)]
           after == CHOOSE f : Part(f, N)
           R == {m \in 0 .. N : \E f : Part(f, m)}
<1>1. CopiedAll(w, p, child) = after[N] /\ N \in Nat
  BY Settings DEF CopiedAll
<1> HIDE DEF Step, N
<1>2. 0 \in R
  <2>1. Part([n \in 0 .. 0 |-> w0], 0) /\ 0 \in 0 .. N
    BY <1>1
  <2> HIDE DEF Part
  <2> QED BY <2>1
<1>3. ASSUME NEW m \in 1 .. N, m - 1 \in R PROVE m \in R
  <2>1. PICK f : Part(f, m - 1)
    <3> HIDE DEF Part
    <3> QED BY <1>3
  <2> DEFINE h == [n \in 0 .. m |-> IF n = m THEN Step(f[m - 1], m) ELSE f[n]]
  <2>2. ASSUME NEW n \in 0 .. m PROVE h[n] = IF n = 0 THEN w0 ELSE Step(h[n - 1], n)
    <3>1. n # 0 => h[n - 1] = f[n - 1]
      OBVIOUS
    <3>2. CASE n = m
      BY <1>3, <3>1, <3>2
    <3>3. CASE n # m
      <4>1. n \in 0 .. m - 1 /\ h[n] = f[n]
        BY <3>3
      <4> HIDE DEF h
      <4> QED BY <2>1, <3>1, <4>1
    <3> QED BY <3>2, <3>3
  <2>3. h = [n \in 0 .. m |-> h[n]] /\ m \in 0 .. N
    BY <1>1
  <2> HIDE DEF h
  <2>4. Part(h, m)
    BY <2>2, <2>3
  <2> HIDE DEF Part
  <2> QED BY <2>3, <2>4
<1>4. Part(after, N)
  <2>1. Climbs(R, N)
    <3> HIDE DEF R
    <3> QED BY <1>2, <1>3 DEF Climbs
  <2>2. N \in R
    <3> HIDE DEF R
    <3> QED BY <1>1, <2>1, Climbing
  <2> HIDE DEF Part
  <2> QED BY <2>2
<1> HIDE DEF after, R
<1>5. after[0] = w0 /\ \A n \in 1 .. N : after[n] = Step(after[n - 1], n)
  BY <1>1, <1>4
<1> HIDE DEF Part
<1> DEFINE Ok(v, n) == Good(v, P, x, y) /\ Lent(w, v, p, child, n)
<1>6. Ok(w0, 0)
  <2>1. Good(w0, P, x, y) /\ w0.tables = w.tables /\ w0.touched[child] = {}
    BY LookedGood
  <2> HIDE DEF w0
  <2> QED BY <2>1 DEF Lent
<1>7. ASSUME NEW n \in 1 .. N, NEW v, Ok(v, n - 1) PROVE Ok(Step(v, n), n)
  <2>1. n - 1 \in Fds /\ Fds \subseteq Nat
    BY <1>1, Settings DEF Fds, N
  <2> DEFINE h == w.tables[p][n - 1]
             z == Copied(v, child, n - 1, h)
  <2>2. HandleOK(h) /\ v.tables[child][n - 1].ofd = 0
    <3>1. n - 1 >= n - 1
      BY <1>1
    <3> QED BY <1>7, <2>1, <3>1 DEF Good, Typed, Lent
  <2> HIDE DEF h
  <2>3. Good(z, P, x, y) /\ Same1(v, z, child, n - 1) /\ z.touched = v.touched
    BY <1>7, <2>1, <2>2, CopiedGood
  <2>4. z = Step(v, n)
    BY DEF h, Step
  <2> HIDE DEF z
  <2>5. ASSUME NEW f \in Fds PROVE z.tables[p][f] = w.tables[p][f]
    BY <1>7, <2>3 DEF Same1, Lent
  <2>6. ASSUME NEW f \in Fds, f >= n PROVE z.tables[child][f].ofd = 0
    <3>1. f # n - 1 /\ f >= n - 1
      BY <1>1, <2>1, <2>6
    <3> QED BY <1>7, <2>3, <3>1 DEF Same1, Lent
  <2>7. Lent(w, z, p, child, n)
    BY <1>7, <2>3, <2>5, <2>6 DEF Lent
  <2> QED BY <2>3, <2>4, <2>7
<1> HIDE DEF Ok
<1> DEFINE T == {n \in 0 .. N : Ok(after[n], n)}
<1>8. Ok(after[N], N)
  <2>1. 0 \in T
    BY <1>1, <1>5, <1>6
  <2>2. ASSUME NEW n \in 1 .. N, n - 1 \in T PROVE n \in T
    BY <1>1, <1>5, <1>7, <2>2
  <2>3. N \in T
    <3> HIDE DEF T
    <3>1. Climbs(T, N)
      BY <2>1, <2>2 DEF Climbs
    <3> QED BY <1>1, <3>1, Climbing
  <2> QED BY <2>3
<1> QED BY <1>1, <1>8 DEF Ok, Lent
----------------------------------------------------------------------------
(* What the bytes and the positions change.                                *)

LEMMA SyncedOfdIs ==
  ASSUME setup \in Setups, NEW w, Typed(w), NEW p \in Procs, NEW i \in 1 .. OFDS
  PROVE  OfdOK(SyncedOfd(w, p, i)) /\ SyncedOfd(w, p, i).refs = w.ofds[i].refs /\ SyncedOfd(w, p, i).mem = w.ofds[i].mem
<1> DEFINE o == w.ofds[i]
           B == Back(w, p, i)
           h == w.tables[p][Max(B)]
           o2 == SyncedOfd(w, p, i)
<1>1. OfdOK(o)
  BY DEF Typed
<1>2. o2 = IF B = {} THEN o ELSE [o EXCEPT !.offset = h.offset, !.size = h.size]
  BY DEF SyncedOfd, H
<1> HIDE DEF o2, o
<1>3. CASE B = {}
  BY <1>1, <1>2, <1>3 DEF o, o2
<1>4. CASE B # {}
  <2> DEFINE n == PROGRAM_FILES - 1
  <2>1. B \subseteq 0 .. n /\ n \in Nat
    <3>1. w.touched[p] \subseteq Fds
      BY DEF Typed
    <3> QED BY <3>1, Settings DEF Back, Fds
  <2>2. Max(B) \in B
    <3> HIDE DEF B, n
    <3> QED BY <1>4, <2>1, MaxIn
  <2>3. Max(B) \in Fds
    <3> HIDE DEF B
    <3> QED BY <2>1, <2>2 DEF Fds
  <2>4. HandleOK(h)
    BY <2>3 DEF Typed
  <2> HIDE DEF h, B
  <2> DEFINE g == [o EXCEPT !.offset = h.offset]
  <2>5. g = [refs |-> o.refs, offset |-> h.offset, size |-> o.size, mem |-> o.mem, name |-> o.name]
    BY <1>1 DEF OfdOK
  <2>6. o2 = [g EXCEPT !.size = h.size]
    BY <1>2, <1>4
  <2> HIDE DEF g
  <2>7. o2 = [refs |-> o.refs, offset |-> h.offset, size |-> h.size, mem |-> o.mem, name |-> o.name]
    BY <2>5, <2>6
  <2>8. OfdOK(o2) /\ o2.refs = o.refs /\ o2.mem = o.mem
    BY <1>1, <2>4, <2>7 DEF OfdOK, HandleOK
  <2> QED BY <2>8 DEF o2, o
<1> QED BY <1>3, <1>4

LEMMA SyncedGood ==
  ASSUME setup \in Setups, NEW w, NEW P, NEW x, NEW y, Good(w, P, x, y), NEW p \in P, p \in Procs
  PROVE  Good(Synced(w, p), P, x, y) /\ Synced(w, p).touched[p] = {} /\ Synced(w, p).tables = w.tables
         /\ \A q \in Procs \ {p} : Synced(w, p).touched[q] = w.touched[q]
<1> DEFINE t == [i \in 1 .. OFDS |-> SyncedOfd(w, p, i)]
           v == [w EXCEPT !.ofds = t]
<1>1. Typed(w)
  BY DEF Good
<1>2. \A i \in 1 .. OFDS : OfdOK(t[i]) /\ t[i].refs = w.ofds[i].refs /\ t[i].mem = w.ofds[i].mem
  BY <1>1, SyncedOfdIs
<1>3. t = [i \in 1 .. OFDS |-> t[i]]
  OBVIOUS
<1>4. Synced(w, p) = Looked(v, p, {})
  BY DEF Synced
<1> HIDE DEF t
<1>5. v = [tables |-> w.tables, touched |-> w.touched, ofds |-> t, mems |-> w.mems]
  BY SMTT(60), <1>1 DEF Typed
<1> HIDE DEF v
<1>6. Typed(v)
  BY <1>1, <1>2, <1>3, <1>5 DEF Typed
<1>7. Counts(v, x) /\ Quiet(v, P)
  BY <1>2, <1>5 DEF Good, Counts, Quiet
<1>8. \A m \in Mems : WithMem(v.ofds, m) = WithMem(w.ofds, m)
  BY <1>2, <1>5 DEF WithMem
<1>9. MemCounts(v, y)
  BY <1>5, <1>8 DEF Good, MemCounts
<1>10. Good(v, P, x, y)
  BY <1>6, <1>7, <1>9 DEF Good
<1> DEFINE z == Looked(v, p, {})
<1>11. Good(z, P, x, y) /\ z.touched[p] = {} /\ z.tables = v.tables /\ \A q \in Procs \ {p} : z.touched[q] = v.touched[q]
  BY <1>10, LookedGood
<1> HIDE DEF z
<1>12. z = Synced(w, p)
  BY <1>4 DEF z
<1> QED BY <1>5, <1>11, <1>12

\* A descriptor moved, or with another size.
LEMMA HandleMoved ==
  ASSUME NEW h, HandleOK(h), NEW a \in 0 .. MaxSize
  PROVE  /\ HandleOK([h EXCEPT !.offset = a]) /\ Placed(h, [h EXCEPT !.offset = a], a, h.size)
         /\ HandleOK([h EXCEPT !.size = a]) /\ Placed(h, [h EXCEPT !.size = a], h.offset, a)
<1> DEFINE k == [h EXCEPT !.offset = a]
           l == [h EXCEPT !.size = a]
<1>1. h = [kind |-> h.kind, ofd |-> h.ofd, offset |-> h.offset, size |-> h.size, start |-> h.start,
           cloexec |-> h.cloexec, id |-> h.id]
  BY DEF HandleOK
<1>2. k = [kind |-> h.kind, ofd |-> h.ofd, offset |-> a, size |-> h.size, start |-> h.start,
           cloexec |-> h.cloexec, id |-> h.id]
  BY <1>1
<1>3. l = [kind |-> h.kind, ofd |-> h.ofd, offset |-> h.offset, size |-> a, start |-> h.start,
           cloexec |-> h.cloexec, id |-> h.id]
  BY <1>1
<1> HIDE DEF k, l
<1>4. HandleOK(k) /\ HandleOK(l) /\ Placed(h, k, a, h.size) /\ Placed(h, l, h.offset, a)
  BY <1>2, <1>3 DEF HandleOK, Placed
<1> QED BY <1>4 DEF k, l

\* Of w, the position and the size of descriptor fd of p are others in v.
Moves(w, v, p, fd, a, b) ==
  /\ Same1(w, v, p, fd) /\ Placed(w.tables[p][fd], v.tables[p][fd], a, b)
  /\ v.touched = w.touched /\ v.ofds = w.ofds /\ v.mems = w.mems

LEMMA MovedGood ==
  ASSUME setup \in Setups, NEW w, NEW P, NEW x, NEW y, Good(w, P, x, y), NEW p \in P, p \in Procs, NEW fd \in Fds,
         NEW a \in 0 .. MaxSize
  PROVE  /\ Good(Moved(w, p, fd, a), P, x, y) /\ Moves(w, Moved(w, p, fd, a), p, fd, a, w.tables[p][fd].size)
         /\ Good(Sized(w, p, fd, a), P, x, y) /\ Moves(w, Sized(w, p, fd, a), p, fd, w.tables[p][fd].offset, a)
<1> DEFINE h == w.tables[p][fd]
           k == [h EXCEPT !.offset = a]
           l == [h EXCEPT !.size = a]
           v == Has(w, p, fd, k)
           z == Has(w, p, fd, l)
<1>1. Typed(w) /\ HandleOK(h)
  BY DEF Good, Typed
<1>2. v = Moved(w, p, fd, a) /\ z = Sized(w, p, fd, a)
  BY DEF Moved, Sized, H
<1>3. /\ HandleOK(k) /\ Placed(h, k, a, h.size)
      /\ HandleOK(l) /\ Placed(h, l, h.offset, a)
  <2> HIDE DEF h
  <2> QED BY <1>1, HandleMoved
<1> HIDE DEF k, l
<1>4. k.ofd = h.ofd /\ l.ofd = h.ofd
  BY <1>3 DEF Placed
<1>5. Good(v, P, x, y) /\ Good(z, P, x, y)
  BY <1>3, <1>4, HasLike
<1>6. /\ Same1(w, v, p, fd) /\ v.tables[p][fd] = k /\ v.touched = w.touched /\ v.ofds = w.ofds /\ v.mems = w.mems
      /\ Same1(w, z, p, fd) /\ z.tables[p][fd] = l /\ z.touched = w.touched /\ z.ofds = w.ofds /\ z.mems = w.mems
  BY <1>1, HasSame
<1> HIDE DEF v, z
<1>7. Moves(w, v, p, fd, a, h.size) /\ Moves(w, z, p, fd, h.offset, a)
  BY <1>3, <1>6 DEF Moves
<1> QED BY <1>2, <1>5, <1>7

\* Object m the same but for its bytes.
LEMMA MemPutGood ==
  ASSUME setup \in Setups, NEW w, NEW P, NEW x, NEW y, Good(w, P, x, y), NEW m \in Mems, NEW offset, NEW said
  PROVE  Good(MemPut(w, m, offset, said), P, x, y)
<1> DEFINE o == w.mems[m]
           to == offset .. offset + Len(said) - 1
           pages == o.pages \union {i \div PAGE : i \in to}
           data == [i \in DOMAIN o.data |-> IF i \in to THEN said[i - offset + 1] ELSE o.data[i]]
           o2 == [refs |-> o.refs, pages |-> pages, data |-> data]
           v == MemIs(w, m, o2)
<1>1. v = MemPut(w, m, offset, said)
  BY DEF MemPut
<1>2. MemOK(o)
  BY DEF Good, Typed
<1> HIDE DEF o, pages, data
<1>3. MemOK(o2) /\ o2.refs = o.refs /\ o.refs \in Nat
  BY <1>2 DEF MemOK
<1> HIDE DEF o2
<1> DEFINE n == o2.refs - o.refs
           u == More(y, m, n)
<1>4. n = 0
  BY <1>3
<1>5. Good(v, P, x, u)
  BY <1>3, MemGood DEF o
<1>6. x \in [1 .. OFDS -> Int] /\ y \in [Mems -> Int] /\ Even(x, x)
  BY DEF Good, Even
<1> HIDE DEF n
<1>7. MEven(u, y)
  BY <1>4, <1>6 DEF MEven, More
<1> HIDE DEF u, v
<1>8. Good(v, P, x, y)
  BY <1>5, <1>6, <1>7, EvenGood
<1> QED BY <1>1, <1>8

----------------------------------------------------------------------------
(* The end of a call.                                                      *)

\* What the processes of P, which are in a call, leave behind.
LeftBy(s, P, r) ==
  \A p \in P : s.touched[p] = {} /\ (r[p] = 0 => \A fd \in Fds : s.tables[p][fd].kind = "none")

LEMMA GoodNext ==
  ASSUME setup' = setup, setup \in Setups, NEW s, Becomes(s), NEW P, P \subseteq Procs, Good(s, P, Outside(passing'), Zero),
         LeftBy(s, P, room'), \A q \in Procs \ P : room'[q] = room[q], room' \in [Procs -> Nat],
         PassingOK', DiskOK'
  PROVE  OpenInv'
<1>1. World' = s
  <2>1. s = [tables |-> s.tables, touched |-> s.touched, ofds |-> s.ofds, mems |-> s.mems]
    BY DEF Good, Typed
  <2>2. World' = [tables |-> s.tables, touched |-> s.touched, ofds |-> s.ofds, mems |-> s.mems]
    BY DEF World, Becomes
  <2> QED BY <2>1, <2>2
<1>2. Procs' = Procs /\ Fds' = Fds /\ OFDS' = OFDS /\ Mems' = Mems /\ MaxSize' = MaxSize /\ Zero' = Zero
  BY DEF Procs, Fds, PROGRAM_FILES, OFDS, Mems, MaxSize, Zero
<1>3. Typed(World)'
  <2>1. \A h : HandleOK(h)' <=> HandleOK(h)
    BY <1>2 DEF HandleOK
  <2>2. \A o : (OfdOK(o)' <=> OfdOK(o)) /\ (MemOK(o)' <=> MemOK(o))
    BY <1>2 DEF OfdOK, MemOK
  <2>3. Typed(s)
    BY DEF Good
  <2> QED BY <1>1, <1>2, <2>1, <2>2, <2>3 DEF Typed
<1>4. Counts(World, Outside(passing))'
  BY <1>1, <1>2 DEF Good, Counts, InTables, Outside
<1>5. MemCounts(World, Zero)'
  BY <1>1, <1>2 DEF Good, MemCounts, WithMem
<1>6. Quiet(World, {})'
  <2> SUFFICES ASSUME NEW q \in Procs
               PROVE  /\ \A fd \in s.touched[q] : s.tables[q][fd].kind # "none"
                      /\ room'[q] = 0 => \A fd \in Fds : s.tables[q][fd].kind = "none"
    BY <1>1, <1>2 DEF Quiet
  <2>1. CASE q \in P
    BY <2>1 DEF LeftBy
  <2>2. CASE q \notin P
    BY <2>2 DEF Good, Quiet
  <2> QED BY <2>1, <2>2
<1>7. Outside(passing)' \in [1 .. OFDS -> Int]' /\ Zero' \in [Mems -> Int]'
  BY <1>2 DEF Good, Outside
<1>8. Good(World, {}, Outside(passing), Zero)'
  BY <1>3, <1>4, <1>5, <1>6, <1>7 DEF Good
<1> QED BY <1>2, <1>8 DEF OpenInv
LEMMA RoomGood == ASSUME setup \in Setups, NEW r \in Nat, NEW fd \in Nat PROVE RoomWith(r, fd) \in Nat \ {0}
<1> DEFINE S == {PROGRAM_FILES} \union {n \in {2 * r, 4 * r, 8 * r} : fd < n}
<1>1. S \subseteq Nat \ {0} /\ S # {}
  BY Settings
<1>2. RoomWith(r, fd) = IF fd < r THEN r ELSE Min(S)
  BY DEF RoomWith
<1>3. Min(S) \in S
  <2> HIDE DEF S
  <2> QED BY <1>1, MinIn
<1> HIDE DEF S
<1>4. Min(S) \in Nat \ {0}
  BY <1>1, <1>3
<1> DEFINE low == Min(S)
<1> HIDE DEF low
<1>5. CASE fd < r
  <2>1. r \in Nat \ {0}
    BY <1>5
  <2> QED BY <1>2, <1>5, <2>1
<1>6. CASE ~(fd < r)
  BY <1>2, <1>4, <1>6
<1> QED BY <1>5, <1>6

LEMMA HighestUsed == ASSUME setup \in Setups, NEW w, NEW p PROVE Max(Used(w, p) \union {0}) \in Nat
<1> DEFINE S == Used(w, p) \union {0}
           n == PROGRAM_FILES
<1>1. n \in Nat /\ S \subseteq 0 .. n /\ S # {}
  BY Settings DEF Used, Fds
<1> HIDE DEF S, n
<1>2. Max(S) \in S
  BY <1>1, MaxIn
<1> QED BY <1>1, <1>2 DEF S

\* What a call of p begins with.
LEMMA Begins ==
  ASSUME OpenInv
  PROVE  /\ setup \in Setups /\ (\A p \in Procs : Good(World, {p}, Outside(passing), Zero)) /\ Typed(World)
         /\ Outside(passing) \in [1 .. OFDS -> Int] /\ NonNeg(Outside(passing)) /\ MNonNeg(Zero) /\ Zero \in [Mems -> Int]
         /\ room \in [Procs -> Nat] /\ PassingOK /\ DiskOK
<1>1. /\ setup \in Setups /\ Good(World, {}, Outside(passing), Zero) /\ room \in [Procs -> Nat] /\ PassingOK /\ DiskOK
  BY DEF OpenInv
<1>2. ASSUME NEW p \in Procs PROVE Good(World, {p}, Outside(passing), Zero)
  BY <1>1 DEF Good, Quiet
<1>3. Typed(World) /\ Outside(passing) \in [1 .. OFDS -> Int] /\ Zero \in [Mems -> Int]
  BY <1>1 DEF Good
<1>4. NonNeg(Outside(passing)) /\ MNonNeg(Zero)
  BY DEF Outside, NonNeg, MNonNeg, Zero
<1> QED BY <1>1, <1>2, <1>3, <1>4

LEMMA EndsGood ==
  ASSUME OpenInv, setup' = setup, NEW p \in Procs, NEW P, P \subseteq Procs, p \in P, NEW w, NEW t, NEW met, Ends(p, w, t, met),
         Good(w, P, Outside(passing'), Zero), room' \in [Procs -> Nat],
         \A q \in P : room'[q] # 0, \A q \in P \ {p} : w.touched[q] = {}, \A q \in Procs \ P : room'[q] = room[q],
         PassingOK', DiskOK'
  PROVE  OpenInv'
<1> DEFINE s == Synced(w, p)
<1>1. setup \in Setups
  BY Begins
<1>2. /\ Good(s, P, Outside(passing'), Zero) /\ s.touched[p] = {}
      /\ \A q \in Procs \ {p} : s.touched[q] = w.touched[q]
  BY <1>1, SyncedGood
<1>3. Becomes(s)
  BY DEF Ends
<1> HIDE DEF s
<1>4. LeftBy(s, P, room')
  BY <1>2 DEF LeftBy
<1> QED BY <1>1, <1>2, <1>3, <1>4, GoodNext

LEMMA DoneGood ==
  ASSUME OpenInv, setup' = setup, NEW p \in Procs, NEW w, NEW t, NEW met, Done(p, w, t, met),
         Good(w, {p}, Outside(passing'), Zero), PassingOK', DiskOK'
  PROVE  OpenInv'
<1>1. setup \in Setups /\ room \in [Procs -> Nat]
  BY Begins
<1> DEFINE r == RoomWith(room[p], Max(Used(w, p) \union {0}))
<1>2. r \in Nat \ {0}
  <2> DEFINE fd == Max(Used(w, p) \union {0})
  <2>1. room[p] \in Nat /\ fd \in Nat
    BY <1>1, HighestUsed
  <2> HIDE DEF fd
  <2>2. RoomWith(room[p], fd) \in Nat \ {0}
    BY <1>1, <2>1, RoomGood
  <2> QED BY <2>2 DEF fd
<1>3. room' = [room EXCEPT ![p] = r] /\ Ends(p, w, t, met)
  BY DEF Done
<1> HIDE DEF r
<1>4. /\ room' \in [Procs -> Nat] /\ room'[p] # 0 /\ \A q \in Procs \ {p} : room'[q] = room[q]
  BY <1>1, <1>2, <1>3
<1> DEFINE P == {p}
<1>5. P \subseteq Procs /\ p \in P /\ Good(w, P, Outside(passing'), Zero) /\ (\A q \in P : q = p) /\ P = {p}
  OBVIOUS
<1> HIDE DEF P
<1> QED BY <1>3, <1>4, <1>5, EndsGood

LEMMA PassingStill == ASSUME setup' = setup, passing' = passing, PassingOK PROVE PassingOK' /\ Outside(passing') = Outside(passing)
BY DEF PassingOK, HandleOK, OFDS, MaxSize

LEMMA DiskStill == ASSUME setup' = setup, disk' = disk, DiskOK PROVE DiskOK'
BY DEF DiskOK, MaxSize

LEMMA DiskPut ==
  ASSUME setup' = setup, DiskOK, NEW name \in setup.Names, NEW f, Len(f.bytes) \in 0 .. MaxSize, disk' = [disk EXCEPT ![name] = f]
  PROVE  DiskOK'
<1> DEFINE d == disk
           e == disk'
<1>1. d = [n \in setup.Names |-> d[n]] /\ \A n \in setup.Names : Len(d[n].bytes) \in 0 .. MaxSize
  BY DEF DiskOK
<1>2. e = [d EXCEPT ![name] = f]
  OBVIOUS
<1> HIDE DEF d, e
<1>3. e = [n \in setup.Names |-> e[n]] /\ \A n \in setup.Names : e[n] = IF n = name THEN f ELSE d[n]
  BY <1>1, <1>2
<1>4. \A n \in setup.Names : Len(e[n].bytes) \in 0 .. MaxSize
  BY <1>1, <1>3
<1>5. disk' = [n \in setup.Names |-> disk'[n]] /\ \A n \in setup.Names : Len(disk'[n].bytes) \in 0 .. MaxSize
  BY <1>3, <1>4 DEF e
<1> QED BY <1>5 DEF DiskOK, MaxSize

\* A call that leaves the disk, and what is being passed, as they are.
LEMMA DoneStill ==
  ASSUME OpenInv, setup' = setup, disk' = disk, passing' = passing, NEW p \in Procs,
         NEW w, NEW t, NEW met, Done(p, w, t, met), Good(w, {p}, Outside(passing), Zero)
  PROVE  OpenInv'
<1>1. PassingOK' /\ DiskOK' /\ Outside(passing') = Outside(passing)
  BY Begins, PassingStill, DiskStill
<1> QED BY <1>1, DoneGood

----------------------------------------------------------------------------
(* Opening.                                                                *)

LEMMA PlusNone ==
  ASSUME NEW w, NEW P, NEW x, NEW y, Good(w, P, x, y), NEW h, h.ofd = 0
  PROVE  Good(w, P, Plus(x, h), y)
<1> DEFINE z == Plus(x, h)
<1>1. x \in [1 .. OFDS -> Int] /\ y \in [Mems -> Int] /\ MEven(y, y) /\ z \in [1 .. OFDS -> Int]
  BY PlusIs DEF Good, MEven
<1>2. Even(x, z)
  <2> SUFFICES ASSUME NEW i \in 1 .. OFDS PROVE x[i] + Bit(h, i) = x[i]
    BY DEF Even, Plus
  <2>1. x[i] \in Int /\ Bit(h, i) = 0
    BY <1>1 DEF Bit
  <2> QED BY <2>1
<1> HIDE DEF z
<1>3. Good(w, P, z, y)
  BY <1>1, <1>2, EvenGood
<1> QED BY <1>3 DEF z

\* A free slot opened for h, with object mem, if it is one, that is counted for it already.
LEMMA OpenedGood ==
  ASSUME setup \in Setups, NEW w, NEW P, NEW x, NEW u, Good(w, P, x, u), NEW y, y \in [Mems -> Int],
         NEW slot \in 1 .. OFDS, w.ofds[slot].refs = 0, NEW offset \in 0 .. MaxSize, NEW size \in 0 .. MaxSize,
         NEW mem \in Mems \union {0}, NEW name \in setup.Names \union {NoName},
         \A k \in Mems : u[k] = y[k] + (IF k = mem THEN 1 ELSE 0), NEW h, h.ofd = slot
  PROVE  Good(Opened(w, slot, offset, size, mem, name), P, Plus(x, h), y)
<1> DEFINE o == [refs |-> 1, offset |-> offset, size |-> size, mem |-> mem, name |-> name]
           was == w.ofds[slot]
           v == SlotIs(w, slot, o)
           n == o.refs - was.refs
           x1 == More(x, slot, n)
           y1 == MAdj(u, was, o)
           z == Plus(x, h)
<1>1. v = Opened(w, slot, offset, size, mem, name)
  BY DEF Opened
<1>2. OfdOK(o) /\ o.refs = 1 /\ o.mem = mem /\ OfdOK(was) /\ was.refs = 0 /\ 0 \notin Mems
  BY Settings DEF OfdOK, Good, Typed
<1>3. n = 1 /\ was.mem = 0
  BY <1>2 DEF OfdOK
<1> HIDE DEF o, was
<1>4. Good(v, P, x1, y1)
  BY <1>2, SlotGood DEF was
<1>5. x \in [1 .. OFDS -> Int] /\ z \in [1 .. OFDS -> Int]
  BY PlusIs DEF Good
<1>6. Even(x1, z)
  <2> HIDE DEF n
  <2> SUFFICES ASSUME NEW i \in 1 .. OFDS PROVE x[i] + Bit(h, i) = x1[i]
    BY DEF Even, Plus
  <2>1. x[i] \in Int /\ x1[i] = IF i = slot THEN x[i] + 1 ELSE x[i]
    BY <1>3, <1>5 DEF More
  <2> QED BY <2>1 DEF Bit
<1>7. MEven(y1, y)
  <2> SUFFICES ASSUME NEW k \in Mems PROVE y[k] = u[k] + MBit(was, k) - MBit(o, k)
    BY DEF MEven, MAdj
  <2>1. y[k] \in Int /\ u[k] = y[k] + (IF k = mem THEN 1 ELSE 0)
    OBVIOUS
  <2> QED BY <1>2, <1>3, <2>1 DEF MBit
<1> HIDE DEF x1, y1, v, z
<1>8. Good(v, P, z, y)
  BY <1>4, <1>5, <1>6, <1>7, EvenGood
<1> QED BY <1>1, <1>8 DEF z

LEMMA OpenOtherStep == ASSUME OpenInv, setup' = setup, NEW p \in Procs, OpenOther(p) PROVE OpenInv'
<1>1. /\ setup \in Setups /\ Good(World, {p}, Outside(passing), Zero) /\ Outside(passing) \in [1 .. OFDS -> Int]
      /\ NonNeg(Outside(passing)) /\ MNonNeg(Zero)
  BY Begins
<1>2. HandleOK(Pipe) /\ Pipe.ofd = 0
  BY <1>1, NoHandleOK
<1> DEFINE w == Given(World, p, Pipe)
           x == Outside(passing)
<1>3. Good(w, {p}, x, Zero)
  <2> HIDE DEF x
  <2>1. Good(World, {p}, Plus(x, Pipe), Zero)
    BY <1>1, <1>2, PlusNone DEF x
  <2> QED BY <1>1, <1>2, <2>1, GivenGood DEF x
<1>4. Done(p, w, truth, {}) /\ room[p] > 0 /\ disk' = disk /\ passing' = passing
  BY DEF OpenOther, Calls
<1> HIDE DEF w
<1> QED BY <1>3, <1>4, DoneStill

LEMMA OpenReadStep ==
  ASSUME OpenInv, setup' = setup, NEW p \in Procs, NEW name \in setup.Names, NEW c \in BOOLEAN, OpenRead(p, name, c) PROVE OpenInv'
<1> DEFINE x == Outside(passing)
           h == Handle("read", 0, 0, Len(disk[name].bytes), disk[name].start, c, NewId)
           fd == Lowest(World, p)
           g == Given(World, p, h)
           w == IF c /\ fd # -1 THEN Picked(g, p, fd) ELSE g
           t == [truth EXCEPT !.pos[NewId] = 0, !.node[NewId] = truth.names[name]]
<1>1. /\ setup \in Setups /\ Good(World, {p}, x, Zero) /\ x \in [1 .. OFDS -> Int] /\ NonNeg(x) /\ MNonNeg(Zero)
      /\ Typed(World) /\ Len(disk[name].bytes) \in 0 .. MaxSize
  BY Begins DEF DiskOK
<1>2. Done(p, w, t, {}) /\ room[p] > 0 /\ disk' = disk /\ passing' = passing
  BY DEF OpenRead, Calls
<1>3. HandleOK(h) /\ h.ofd = 0
  <2> DEFINE size == Len(disk[name].bytes)
             start == disk[name].start
             new == NewId
  <2>1. 0 \in 0 .. OFDS /\ 0 \in 0 .. MaxSize /\ size \in 0 .. MaxSize
    BY <1>1, Settings
  <2> HIDE DEF size, start, new
  <2>2. HandleOK(Handle("read", 0, 0, size, start, c, new)) /\ Handle("read", 0, 0, size, start, c, new).ofd = 0
    BY <2>1, HandleIs
  <2> QED BY <2>2 DEF size, start, new
<1> HIDE DEF h, x, t
<1>4. Good(g, {p}, x, Zero)
  <2>1. Good(World, {p}, Plus(x, h), Zero)
    BY <1>1, <1>3, PlusNone
  <2> QED BY <1>1, <1>3, <2>1, GivenGood
<1> HIDE DEF g
<1>5. Good(w, {p}, x, Zero)
  <2>1. CASE c /\ fd # -1
    <3>1. fd \in Fds
      BY <1>1, <2>1, LowestIs
    <3> HIDE DEF fd
    <3>2. Good(Picked(g, p, fd), {p}, x, Zero)
      BY <1>1, <1>4, <3>1, PickedGood
    <3> QED BY <2>1, <3>2
  <2>2. CASE ~(c /\ fd # -1)
    BY <1>4, <2>2
  <2> QED BY <2>1, <2>2
<1> HIDE DEF w
<1> QED BY <1>2, <1>5, DoneStill DEF x

LEMMA OpenWriteStep ==
  ASSUME OpenInv, setup' = setup, NEW p \in Procs, NEW name \in setup.Names, NEW how, OpenWrite(p, name, how) PROVE OpenInv'
<1> DEFINE x == Outside(passing)
           new == ~disk[name].there
           empty == new \/ how = "trunc"
           bytes == IF empty THEN <<>> ELSE disk[name].bytes
           node == IF new THEN NewNode ELSE truth.names[name]
           offset == IF how = "append" THEN Len(bytes) ELSE 0
           slot == Min(FreeOfds(World))
           h == Handle("write", slot, offset, Len(bytes), 0, FALSE, NewId)
           t == [[truth EXCEPT !.names[name] = node, !.bytes[node] = bytes] EXCEPT !.pos[NewId] = offset, !.node[NewId] = node]
           g == Opened(World, slot, offset, Len(bytes), 0, name)
           w == Given(g, p, h)
<1>1. /\ setup \in Setups /\ Good(World, {p}, x, Zero) /\ x \in [1 .. OFDS -> Int] /\ NonNeg(x) /\ MNonNeg(Zero)
      /\ Typed(World) /\ Zero \in [Mems -> Int] /\ DiskOK
  BY Begins
<1>2. /\ Done(p, w, t, {}) /\ room[p] > 0 /\ passing' = passing /\ FreeOfds(World) # {}
      /\ IF empty THEN disk' = [disk EXCEPT ![name] = EmptyFile] ELSE disk' = disk
  BY DEF OpenWrite, Calls
<1>3. slot \in 1 .. OFDS /\ World.ofds[slot].refs = 0
  BY <1>1, <1>2, FreeSlot
<1>4. 0 \in 0 .. OFDS /\ 0 \in 0 .. MaxSize /\ 0 \notin Mems /\ slot \in 0 .. OFDS
  BY <1>1, <1>3, Settings
<1>5. Len(bytes) \in 0 .. MaxSize /\ offset \in 0 .. MaxSize
  <2>1. Len(disk[name].bytes) \in 0 .. MaxSize
    BY <1>1 DEF DiskOK
  <2> QED BY <1>4, <2>1
<1> HIDE DEF bytes, offset, slot, t
<1>6. HandleOK(h) /\ h.ofd = slot
  <2> DEFINE size == Len(bytes)
             no == FALSE
             id == NewId
  <2>1. size \in 0 .. MaxSize
    BY <1>5
  <2> HIDE DEF size, no, id
  <2>2. HandleOK(Handle("write", slot, offset, size, 0, no, id)) /\ Handle("write", slot, offset, size, 0, no, id).ofd = slot
    BY <1>4, <1>5, <2>1, HandleIs
  <2> QED BY <2>2 DEF size, no, id
<1> HIDE DEF h, x
<1>7. Good(g, {p}, Plus(x, h), Zero)
  <2> DEFINE len == Len(bytes)
             y == Zero
  <2>1. \A k \in Mems : y[k] = y[k] + (IF k = 0 THEN 1 ELSE 0)
    BY <1>4 DEF Zero
  <2> HIDE DEF len, y
  <2>2. len \in 0 .. MaxSize /\ 0 \in Mems \union {0} /\ name \in setup.Names \union {NoName} /\ Good(World, {p}, x, y) /\ y \in [Mems -> Int]
    BY <1>1, <1>5 DEF len, y
  <2> DEFINE P == {p}
             W == World
             m == 0
  <2>3. /\ len \in 0 .. MaxSize /\ m \in Mems \union {0} /\ name \in setup.Names \union {NoName} /\ Good(W, P, x, y)
        /\ y \in [Mems -> Int] /\ setup \in Setups /\ slot \in 1 .. OFDS /\ W.ofds[slot].refs = 0 /\ offset \in 0 .. MaxSize
        /\ h.ofd = slot /\ \A k \in Mems : y[k] = y[k] + (IF k = m THEN 1 ELSE 0)
    BY <1>1, <1>3, <1>5, <1>6, <2>1, <2>2
  <2> HIDE DEF P, W, m
  <2>4. Good(Opened(W, slot, offset, len, m, name), P, Plus(x, h), y)
    BY <2>3, OpenedGood
  <2> QED BY <2>4 DEF len, y, P, W, m
<1> HIDE DEF g
<1>8. Good(w, {p}, x, Zero)
  BY <1>1, <1>6, <1>7, GivenGood
<1>9. DiskOK'
  <2>1. CASE empty
    <3> DEFINE f == EmptyFile
    <3>1. f.bytes = <<>>
      BY DEF EmptyFile
    <3>2. Len(f.bytes) \in 0 .. MaxSize
      <4>1. Len(<<>>) = 0
        OBVIOUS
      <4> HIDE DEF f
      <4> QED BY <1>4, <3>1, <4>1
    <3>3. disk' = [disk EXCEPT ![name] = f]
      BY <1>2, <2>1
    <3> HIDE DEF f
    <3> QED BY <1>1, <3>2, <3>3, DiskPut
  <2>2. CASE ~empty
    BY <1>1, <1>2, <2>2, DiskStill
  <2> QED BY <2>1, <2>2
<1>10. PassingOK' /\ Outside(passing') = x
  BY <1>2, Begins, PassingStill DEF x
<1> HIDE DEF w
<1> QED BY <1>2, <1>8, <1>9, <1>10, DoneGood
LEMMA MemRefs == ASSUME NEW o, MemOK(o), NEW n \in Nat PROVE MemOK([o EXCEPT !.refs = n]) /\ [o EXCEPT !.refs = n].refs = n
<1> DEFINE k == [o EXCEPT !.refs = n]
<1>1. o = [refs |-> o.refs, pages |-> o.pages, data |-> o.data]
  BY DEF MemOK
<1>2. k = [refs |-> n, pages |-> o.pages, data |-> o.data]
  BY <1>1
<1> HIDE DEF k
<1>3. MemOK(k) /\ k.refs = n
  BY <1>2 DEF MemOK
<1> QED BY <1>3 DEF k

LEMMA MemfdCreateStep == ASSUME OpenInv, setup' = setup, NEW p \in Procs, MemfdCreate(p) PROVE OpenInv'
<1> DEFINE x == Outside(passing)
           slot == Min(FreeOfds(World))
           m == Min(FreeMems(World))
           h == Handle("mem", slot, 0, 0, 0, FALSE, NewId)
           o == World.mems[m]
           o2 == [o EXCEPT !.refs = 1]
           g == MemIs(World, m, o2)
           v == Opened(g, slot, 0, 0, m, NoName)
           w == Given(v, p, h)
           t == [truth EXCEPT !.pos[NewId] = 0, !.node[NewId] = NewNode, !.bytes[NewNode] = <<>>]
           P == {p}
           y == Zero
<1>1. /\ setup \in Setups /\ Good(World, P, x, y) /\ x \in [1 .. OFDS -> Int] /\ NonNeg(x) /\ MNonNeg(y)
      /\ Typed(World) /\ y \in [Mems -> Int] /\ p \in P
  BY Begins
<1>2. /\ Done(p, w, t, {}) /\ room[p] > 0 /\ disk' = disk /\ passing' = passing
      /\ FreeOfds(World) # {} /\ FreeMems(World) # {}
  BY DEF MemfdCreate, Calls, World
<1> HIDE DEF t, x, y, P
<1>3. slot \in 1 .. OFDS /\ World.ofds[slot].refs = 0 /\ m \in Mems /\ o.refs = 0
  BY <1>1, <1>2, FreeSlot, FreeMem
<1>4. 0 \in 0 .. MaxSize /\ slot \in 0 .. OFDS
  BY <1>1, <1>3, Settings
<1>5. MemOK(o)
  BY <1>1, <1>3 DEF Typed
<1> HIDE DEF slot, m, o
<1>6. MemOK(o2) /\ o2.refs = 1
  BY <1>5, MemRefs
<1> HIDE DEF o2
<1>7. HandleOK(h) /\ h.ofd = slot
  <2> DEFINE no == FALSE
             id == NewId
  <2> HIDE DEF no, id
  <2>1. HandleOK(Handle("mem", slot, 0, 0, 0, no, id)) /\ Handle("mem", slot, 0, 0, 0, no, id).ofd = slot
    BY <1>4, HandleIs
  <2> QED BY <2>1 DEF no, id
<1> HIDE DEF h
<1> DEFINE n == o2.refs - o.refs
           u == More(y, m, n)
<1>8. n = 1
  BY <1>3, <1>6
<1>9. Good(g, P, x, u)
  BY <1>1, <1>3, <1>6, MemGood DEF o
<1> HIDE DEF n
<1>10. \A k \in Mems : u[k] = y[k] + (IF k = m THEN 1 ELSE 0)
  <2> SUFFICES ASSUME NEW k \in Mems PROVE u[k] = y[k] + (IF k = m THEN 1 ELSE 0)
    OBVIOUS
  <2>1. y[k] \in Int
    BY <1>1
  <2> QED BY <1>1, <1>8, <2>1 DEF More
<1>11. g.ofds[slot].refs = 0
  BY <1>3, MemSame
<1> HIDE DEF g, u
<1>12. Good(v, P, Plus(x, h), y)
  <2> DEFINE name == NoName
  <2>1. m \in Mems \union {0} /\ name \in setup.Names \union {NoName}
    BY <1>3
  <2> HIDE DEF name
  <2>2. Good(Opened(g, slot, 0, 0, m, name), P, Plus(x, h), y)
    BY <1>1, <1>3, <1>4, <1>7, <1>9, <1>10, <1>11, <2>1, OpenedGood
  <2> QED BY <2>2 DEF name
<1> HIDE DEF v
<1>13. Good(w, P, x, y)
  BY <1>1, <1>7, <1>12, GivenGood
<1> HIDE DEF w
<1> QED BY <1>2, <1>13, DoneStill DEF x, y, P

\* The object m, o, of a slot, counted for it and for one more: n.
Counted(was, o, m, n) == IF was.mem # 0 THEN m = was.mem /\ n = o.refs + 1 ELSE o.refs = 0 /\ n = 2

\* The slot of a descriptor given object m, and m counted for it and for one more.
Shared(w, v, i, was, m, o, n) == v = MemIs(SlotIs(w, i, [was EXCEPT !.mem = m]), m, [o EXCEPT !.refs = n])

LEMMA ReopenedGood ==
  ASSUME setup \in Setups, NEW w, NEW P, NEW x, NEW y, Good(w, P, x, y), NEW i \in 1 .. OFDS, w.ofds[i].refs > 0,
         NEW m \in Mems, NEW n, NEW was, was = w.ofds[i], NEW o, o = w.mems[m],
         Counted(was, o, m, n), NEW v, Shared(w, v, i, was, m, o, n)
  PROVE  \E u : /\ Good(v, P, x, u) /\ \A k \in Mems : u[k] = y[k] + (IF k = m THEN 1 ELSE 0)
                /\ \A j \in 1 .. OFDS : v.ofds[j].refs = w.ofds[j].refs
<1> DEFINE was2 == [was EXCEPT !.mem = m]
           o2 == [o EXCEPT !.refs = n]
           g == SlotIs(w, i, was2)
<1>1. OfdOK(was) /\ MemOK(o) /\ x \in [1 .. OFDS -> Int] /\ y \in [Mems -> Int] /\ was.refs > 0 /\ Typed(w)
  BY DEF Good, Typed
<1>2. o.refs \in Nat /\ n \in Nat
  <2>1. o.refs \in Nat
    BY <1>1 DEF MemOK
  <2> QED BY <2>1 DEF Counted
<1>3. OfdOK(was2) /\ was2.refs = was.refs /\ was2.mem = m
  <2>1. was2 = [refs |-> was.refs, offset |-> was.offset, size |-> was.size, mem |-> m, name |-> was.name]
    BY <1>1 DEF OfdOK
  <2> HIDE DEF was2
  <2> QED BY <1>1, <2>1 DEF OfdOK
<1>4. MemOK(o2) /\ o2.refs = n
  BY <1>1, <1>2, MemRefs
<1> HIDE DEF was2, o2
<1> DEFINE d == was2.refs - was.refs
           x1 == More(x, i, d)
           y1 == MAdj(y, was, was2)
           e == o2.refs - o.refs
           u == More(y1, m, e)
<1>5. d = 0 /\ e = n - o.refs
  BY <1>1, <1>3, <1>4 DEF OfdOK
<1>6. Good(g, P, x1, y1)
  BY <1>3, SlotGood
<1>7. g.mems = w.mems /\ \A j \in 1 .. OFDS : g.ofds[j].refs = w.ofds[j].refs
  <2>1. w.ofds = [j \in 1 .. OFDS |-> w.ofds[j]] /\ w = [tables |-> w.tables, touched |-> w.touched, ofds |-> w.ofds, mems |-> w.mems]
    BY <1>1 DEF Typed
  <2> DEFINE f == w.ofds
             f2 == [f EXCEPT ![i] = was2]
  <2>2. g = [w EXCEPT !.ofds = f2]
    BY DEF SlotIs
  <2>3. f = [j \in 1 .. OFDS |-> f[j]]
    BY <2>1
  <2> HIDE DEF f
  <2>4. \A j \in 1 .. OFDS : f2[j] = IF j = i THEN was2 ELSE f[j]
    BY <2>3
  <2> HIDE DEF f2, g
  <2>5. g.ofds = f2
    BY <2>1, <2>2
  <2> QED BY <1>3, <2>4, <2>5, SlotSame DEF f, g
<1> HIDE DEF d, e
<1>8. Even(x1, x)
  BY <1>1, <1>5 DEF Even, More
<1>9. y1 \in [Mems -> Int] /\ MEven(y1, y1)
  BY <1>6 DEF Good, MEven
<1> HIDE DEF g, x1
<1>10. Good(g, P, x, y1)
  <2> HIDE DEF y1
  <2> QED BY <1>1, <1>6, <1>8, <1>9, EvenGood
<1> HIDE DEF y1
<1>11. Good(v, P, x, u)
  <2>1. v = MemIs(g, m, o2) /\ g.mems[m] = o
    BY <1>7 DEF g, was2, o2, Shared
  <2>2. Good(MemIs(g, m, o2), P, x, u)
    BY <1>4, <1>10, <2>1, MemGood DEF e
  <2> QED BY <2>1, <2>2
<1>12. \A k \in Mems : u[k] = y[k] + (IF k = m THEN 1 ELSE 0)
  <2> SUFFICES ASSUME NEW k \in Mems PROVE u[k] = y[k] + (IF k = m THEN 1 ELSE 0)
    OBVIOUS
  <2>1. y[k] \in Int /\ y1[k] = y[k] + MBit(was, k) - MBit(was2, k) /\ y1[k] \in Int
    BY <1>1, <1>9 DEF y1, MAdj
  <2>2. u[k] = IF k = m THEN y1[k] + (n - o.refs) ELSE y1[k]
    BY <1>2, <1>5, <1>9 DEF More
  <2>3. 0 \notin Mems
    BY Settings
  <2> HIDE DEF u
  <2>4. CASE was.mem # 0
    BY <1>2, <1>3, <2>1, <2>2, <2>4 DEF MBit, Counted
  <2>5. CASE was.mem = 0
    BY <1>2, <1>3, <2>1, <2>2, <2>3, <2>5 DEF MBit, Counted
  <2> QED BY <2>4, <2>5
<1>13. \A j \in 1 .. OFDS : v.ofds[j].refs = w.ofds[j].refs
  <2>1. v.ofds = g.ofds
    BY MemSame DEF g, was2, o2, Shared
  <2> QED BY <1>7, <2>1
<1> HIDE DEF u
<1> QED BY <1>11, <1>12, <1>13

LEMMA ReopenStep == ASSUME OpenInv, setup' = setup, NEW p \in Procs, NEW fd \in Fds, Reopen(p, fd) PROVE OpenInv'
<1> DEFINE x == Outside(passing)
           y == Zero
           P == {p}
           w == Picked(World, p, fd)
           of == w.tables[p][fd]
           was == Ofd(w, of)
           i == of.ofd
           m == IF was.mem # 0 THEN was.mem ELSE Min(FreeMems(w))
           slot == Min(FreeOfds(w))
           o == w.mems[m]
           n == IF was.mem # 0 THEN o.refs + 1 ELSE 2
           g == MemIs(SlotIs(w, i, [was EXCEPT !.mem = m]), m, [o EXCEPT !.refs = n])
           h == Handle("mem", slot, 0, was.size, 0, FALSE, NewId)
           v == Opened(g, slot, 0, was.size, m, NoName)
           z == Given(v, p, h)
           t == [truth EXCEPT !.pos[NewId] = 0, !.node[NewId] = truth.node[of.id]]
           met == If(WriteName(w, of) # NoName, "named")
<1>1. /\ setup \in Setups /\ Good(World, P, x, y) /\ x \in [1 .. OFDS -> Int] /\ NonNeg(x) /\ MNonNeg(y)
      /\ y \in [Mems -> Int] /\ p \in P
  BY Begins
<1>2. /\ Done(p, z, t, met) /\ room[p] > 0 /\ disk' = disk /\ passing' = passing
      /\ i # 0 /\ FreeOfds(w) # {} /\ (was.mem # 0 \/ FreeMems(w) # {})
  BY ZenonT(30) DEF Reopen, Calls, H
<1> HIDE DEF t, met, x, y, P
<1>3. Good(w, P, x, y) /\ Typed(w)
  BY <1>1, PickedGood DEF Good
<1> HIDE DEF w
<1>4. HandleOK(of) /\ i \in 1 .. OFDS
  <2>1. HandleOK(of)
    BY <1>3 DEF Typed
  <2>2. i # 0
    BY ZenonT(30), <1>2
  <2> HIDE DEF of
  <2> QED BY <1>1, <2>1, <2>2, Settings DEF HandleOK
<1>5. was = w.ofds[i] /\ OfdOK(was)
  BY ZenonT(30), <1>2, <1>3, <1>4 DEF Ofd, Typed
<1>6. w.ofds[i].refs > 0
  BY <1>1, <1>3, <1>4, RefHeld DEF NonNeg
<1> HIDE DEF was, of
<1>7. slot \in 1 .. OFDS /\ w.ofds[slot].refs = 0
  BY <1>1, <1>2, <1>3, FreeSlot
<1>8. m \in Mems /\ (was.mem = 0 => o.refs = 0)
  <2>1. CASE was.mem # 0
    BY <1>5, <2>1 DEF OfdOK
  <2>2. CASE was.mem = 0
    BY <1>1, <1>2, <2>2, FreeMem
  <2> QED BY <2>1, <2>2
<1>9. Counted(was, o, m, n)
  BY <1>8 DEF Counted
<1> DEFINE size == was.size
<1>10. 0 \in 0 .. MaxSize /\ slot \in 0 .. OFDS /\ size \in 0 .. MaxSize
  BY <1>1, <1>5, <1>7, Settings DEF OfdOK
<1> HIDE DEF m, n, o, slot, size
<1>11. PICK u : /\ Good(g, P, x, u) /\ \A k \in Mems : u[k] = y[k] + (IF k = m THEN 1 ELSE 0)
                /\ \A j \in 1 .. OFDS : g.ofds[j].refs = w.ofds[j].refs
  <2>1. Shared(w, g, i, was, m, o, n)
    BY DEF Shared
  <2>2. /\ setup \in Setups /\ Good(w, P, x, y) /\ i \in 1 .. OFDS /\ w.ofds[i].refs > 0 /\ m \in Mems
        /\ was = w.ofds[i] /\ o = w.mems[m] /\ Counted(was, o, m, n)
    BY <1>1, <1>3, <1>4, <1>5, <1>6, <1>8, <1>9 DEF o
  <2> HIDE DEF g, i
  <2> QED BY <2>1, <2>2, ReopenedGood
<1> HIDE DEF g
<1>12. HandleOK(h) /\ h.ofd = slot
  <2> DEFINE no == FALSE
             id == NewId
  <2> HIDE DEF no, id
  <2>1. HandleOK(Handle("mem", slot, 0, size, 0, no, id)) /\ Handle("mem", slot, 0, size, 0, no, id).ofd = slot
    BY <1>10, HandleIs
  <2> QED BY <2>1 DEF no, id, size
<1> HIDE DEF h
<1>13. Good(v, P, Plus(x, h), y)
  <2> DEFINE name == NoName
  <2>1. m \in Mems \union {0} /\ name \in setup.Names \union {NoName} /\ g.ofds[slot].refs = 0
    BY <1>7, <1>8, <1>11
  <2> HIDE DEF name
  <2>2. Good(Opened(g, slot, 0, size, m, name), P, Plus(x, h), y)
    BY <1>1, <1>7, <1>10, <1>11, <1>12, <2>1, OpenedGood
  <2> QED BY <2>2 DEF name, size
<1> HIDE DEF v
<1>14. Good(z, P, x, y)
  BY <1>1, <1>12, <1>13, GivenGood
<1> HIDE DEF z
<1> QED BY <1>2, <1>14, DoneStill DEF x, y, P
----------------------------------------------------------------------------
(* Copies of a descriptor.                                                 *)

LEMMA MarkedGood ==
  ASSUME setup \in Setups, NEW w, NEW P, NEW x, NEW y, Good(w, P, x, y), NEW p \in P, p \in Procs, NEW fd \in Fds, NEW on
  PROVE  Good(Has(w, p, fd, [H(w, p, fd) EXCEPT !.cloexec = on]), P, x, y)
<1> DEFINE h == w.tables[p][fd]
           k == [h EXCEPT !.cloexec = on]
<1>1. HandleOK(h)
  BY DEF Good, Typed
<1>2. HandleOK(k) /\ k.ofd = h.ofd
  <2> HIDE DEF h
  <2> QED BY <1>1, HandleMarked
<1>3. k = [H(w, p, fd) EXCEPT !.cloexec = on]
  BY DEF H
<1> HIDE DEF k
<1>4. Good(Has(w, p, fd, k), P, x, y)
  BY <1>2, HasLike
<1> QED BY <1>3, <1>4

\* Every descriptor of the same slot and kind as it was.
LEMMA TablesGood ==
  ASSUME NEW w, NEW P, NEW x, NEW y, Good(w, P, x, y), NEW t, t = [q \in Procs |-> [f \in Fds |-> t[q][f]]],
         \A q \in Procs, f \in Fds : HandleOK(t[q][f]) /\ t[q][f].ofd = w.tables[q][f].ofd /\ t[q][f].kind = w.tables[q][f].kind,
         NEW v, v = [tables |-> t, touched |-> w.touched, ofds |-> w.ofds, mems |-> w.mems]
  PROVE  Good(v, P, x, y)
<1>1. Typed(v) /\ MemCounts(v, y)
  BY DEF Good, Typed, MemCounts
<1>2. Counts(v, x)
  <2>1. \A i : InTables(t, i) = InTables(w.tables, i)
    BY DEF InTables
  <2> QED BY <2>1 DEF Good, Counts
<1>3. Quiet(v, P)
  <2> SUFFICES ASSUME NEW q \in Procs \ P
               PROVE  /\ \A f \in w.touched[q] : t[q][f].kind # "none"
                      /\ room[q] = 0 => \A f \in Fds : t[q][f].kind = "none"
    BY DEF Quiet
  <2>1. w.touched[q] \subseteq Fds
    BY DEF Good, Typed
  <2> QED BY ZenonT(60), <2>1 DEF Good, Quiet
<1> QED BY <1>1, <1>2, <1>3 DEF Good

LEMMA WithCloexecGood ==
  ASSUME setup \in Setups, NEW w, NEW P, NEW x, NEW y, Good(w, P, x, y), NEW p \in P, p \in Procs, NEW S
  PROVE  Good(WithCloexec(w, p, S), P, x, y)
<1> DEFINE tab == w.tables
           row == [f \in Fds |-> [w.tables[p][f] EXCEPT !.cloexec = @ \/ f \in S]]
           t == [tab EXCEPT ![p] = row]
           v == WithCloexec(w, p, S)
<1>1. Typed(w)
  BY DEF Good
<1>2. \A f \in Fds : HandleOK(row[f]) /\ row[f].ofd = w.tables[p][f].ofd /\ row[f].kind = w.tables[p][f].kind
  <2> SUFFICES ASSUME NEW f \in Fds
               PROVE  HandleOK(row[f]) /\ row[f].ofd = w.tables[p][f].ofd /\ row[f].kind = w.tables[p][f].kind
    OBVIOUS
  <2> DEFINE h == w.tables[p][f]
             on == h.cloexec \/ f \in S
             k == [h EXCEPT !.cloexec = on]
  <2>1. HandleOK(h)
    BY <1>1 DEF Typed
  <2>2. row[f] = k
    OBVIOUS
  <2> HIDE DEF h, on, row
  <2>3. HandleOK(k) /\ k.ofd = h.ofd /\ k.kind = h.kind
    BY <2>1, HandleMarked
  <2> HIDE DEF k
  <2> QED BY <2>2, <2>3 DEF h
<1>3. row = [f \in Fds |-> row[f]]
  OBVIOUS
<1>4. v = [w EXCEPT !.tables[p] = row]
  BY DEF WithCloexec, H
<1> HIDE DEF row
<1>5. v = [w EXCEPT !.tables = t]
  BY <1>4
<1>6. tab = [q \in Procs |-> [f \in Fds |-> tab[q][f]]]
  BY <1>1 DEF Typed
<1> HIDE DEF tab
<1>7. t = [q \in Procs |-> [f \in Fds |-> t[q][f]]] /\ \A q \in Procs, f \in Fds : t[q][f] = IF q = p THEN row[f] ELSE tab[q][f]
  BY <1>3, <1>6
<1> HIDE DEF t, v
<1>8. v = [tables |-> t, touched |-> w.touched, ofds |-> w.ofds, mems |-> w.mems]
  BY <1>1, <1>5 DEF Typed
<1>9. \A q \in Procs, f \in Fds : HandleOK(t[q][f]) /\ t[q][f].ofd = w.tables[q][f].ofd /\ t[q][f].kind = w.tables[q][f].kind
  BY <1>1, <1>2, <1>7 DEF Typed, tab
<1>10. Good(v, P, x, y)
  BY <1>7, <1>8, <1>9, TablesGood
<1> QED BY <1>10 DEF v

LEMMA CloseStep == ASSUME OpenInv, setup' = setup, NEW p \in Procs, NEW fd \in Fds, Close(p, fd) PROVE OpenInv'
<1> DEFINE w == Closed(World, p, fd)
<1>1. Good(w, {p}, Outside(passing), Zero)
  BY Begins, ClosedGood
<1>2. Done(p, w, truth, {}) /\ room[p] > 0 /\ disk' = disk /\ passing' = passing
  BY DEF Close, Calls
<1> HIDE DEF w
<1> QED BY <1>1, <1>2, DoneStill

LEMMA CloseRangeStep ==
  ASSUME OpenInv, setup' = setup, NEW p \in Procs, NEW fd \in Fds, NEW mark \in BOOLEAN, CloseRange(p, fd, mark) PROVE OpenInv'
<1> DEFINE S == {f \in Used(World, p) : f >= fd}
           g == PickedAll(World, p, S)
           w == IF mark THEN WithCloexec(g, p, S) ELSE ClosedAll(World, p, S)
           x == Outside(passing)
           P == {p}
           y == Zero
<1>1. Done(p, w, truth, {}) /\ room[p] > 0 /\ disk' = disk /\ passing' = passing
  BY DEF CloseRange, Calls
<1>2. /\ setup \in Setups /\ Good(World, P, x, y) /\ p \in P /\ NonNeg(x) /\ MNonNeg(y)
  BY Begins
<1>3. S \subseteq Fds
  BY DEF Used
<1> HIDE DEF S, x, y, P
<1>4. Good(ClosedAll(World, p, S), P, x, y)
  BY <1>2, <1>3, ClosedAllGood
<1>5. Good(g, P, x, y)
  BY <1>2, <1>3, PickedAllGood
<1> HIDE DEF g
<1>6. Good(WithCloexec(g, p, S), P, x, y)
  BY <1>2, <1>5, WithCloexecGood
<1>7. Good(w, P, x, y)
  BY <1>4, <1>6
<1> HIDE DEF w
<1> QED BY <1>1, <1>7, DoneStill DEF x, y, P

LEMMA DupStep ==
  ASSUME OpenInv, setup' = setup, NEW p \in Procs, NEW fd \in Fds, NEW cloexec \in BOOLEAN, Dup(p, fd, cloexec) PROVE OpenInv'
<1> DEFINE g == Picked(World, p, fd)
           to == Lowest(g, p)
           w == IF to = -1 THEN g ELSE DuppedTo(g, p, fd, to)
           k == Picked(w, p, to)
           on == TRUE
           v == Has(k, p, to, [H(k, p, to) EXCEPT !.cloexec = on])
           z == IF to # -1 /\ cloexec THEN v ELSE w
           met == If(OfdKind(H(g, p, fd)) /\ H(g, p, fd).ofd = 0, "full")
           x == Outside(passing)
           P == {p}
           y == Zero
<1>1. Done(p, z, truth, met) /\ room[p] > 0 /\ disk' = disk /\ passing' = passing
  BY DEF Dup, Calls
<1>2. /\ setup \in Setups /\ Good(World, P, x, y) /\ p \in P /\ NonNeg(x) /\ MNonNeg(y)
  BY Begins
<1> HIDE DEF x, y, P, met, on
<1>3. Good(g, P, x, y)
  BY <1>2, PickedGood
<1> HIDE DEF g
<1>4. to # -1 => to \in Fds
  BY <1>2, <1>3, LowestIs DEF Good
<1> HIDE DEF to
<1>5. Good(w, P, x, y)
  <2>1. CASE to # -1
    <3>1. Good(DuppedTo(g, p, fd, to), P, x, y)
      BY <1>2, <1>3, <1>4, <2>1, DuppedGood
    <3> QED BY <2>1, <3>1
  <2> QED BY <1>3, <2>1
<1> HIDE DEF w
<1>6. Good(z, P, x, y)
  <2>1. CASE to # -1 /\ cloexec
    <3>1. Good(k, P, x, y)
      BY <1>2, <1>4, <1>5, <2>1, PickedGood
    <3> HIDE DEF k
    <3>2. Good(v, P, x, y)
      BY <1>2, <1>4, <2>1, <3>1, MarkedGood
    <3> QED BY <2>1, <3>2
  <2>2. CASE ~(to # -1 /\ cloexec)
    BY <1>5, <2>2
  <2> QED BY <2>1, <2>2
<1> HIDE DEF z
<1> QED BY <1>1, <1>6, DoneStill DEF x, y, P

LEMMA DupToStep ==
  ASSUME OpenInv, setup' = setup, NEW p \in Procs, NEW fd \in Fds, NEW to \in Fds, DupTo(p, fd, to) PROVE OpenInv'
<1> DEFINE g == Picked(World, p, fd)
           w == DuppedTo(World, p, fd, to)
           met == If(OfdKind(H(g, p, fd)) /\ H(g, p, fd).ofd = 0, "full")
<1>1. Done(p, w, truth, met) /\ room[p] > 0 /\ disk' = disk /\ passing' = passing
  BY DEF DupTo, Calls
<1>2. Good(w, {p}, Outside(passing), Zero)
  BY Begins, DuppedGood
<1> HIDE DEF w, met
<1> QED BY <1>1, <1>2, DoneStill

LEMMA SetCloexecStep ==
  ASSUME OpenInv, setup' = setup, NEW p \in Procs, NEW fd \in Fds, NEW on \in BOOLEAN, SetCloexec(p, fd, on) PROVE OpenInv'
<1> DEFINE g == Picked(World, p, fd)
           w == Has(g, p, fd, [H(g, p, fd) EXCEPT !.cloexec = on])
           x == Outside(passing)
           P == {p}
           y == Zero
<1>1. Done(p, w, truth, {}) /\ room[p] > 0 /\ disk' = disk /\ passing' = passing
  BY DEF SetCloexec, Calls
<1>2. setup \in Setups /\ Good(World, P, x, y) /\ p \in P
  BY Begins
<1> HIDE DEF x, y, P
<1>3. Good(g, P, x, y)
  BY <1>2, PickedGood
<1> HIDE DEF g
<1>4. Good(w, P, x, y)
  BY <1>2, <1>3, MarkedGood
<1> HIDE DEF w
<1> QED BY <1>1, <1>4, DoneStill DEF x, y, P

LEMMA ForkStep ==
  ASSUME OpenInv, setup' = setup, NEW p \in Procs, NEW child \in Procs, Fork(p, child) PROVE OpenInv'
<1> DEFINE w == CopiedAll(World, p, child)
           met == If(\E fd \in Used(World, p) : OfdKind(tables[p][fd]) /\ tables[p][fd].ofd = 0, "fresh")
           x == Outside(passing)
           P == {p, child}
           y == Zero
           r == Max({setup.FIRST_FILES, room[p]})
<1>1. /\ Ends(p, w, truth, met) /\ room[p] > 0 /\ room[child] = 0 /\ disk' = disk /\ passing' = passing
      /\ room' = [room EXCEPT ![child] = r]
  BY DEF Fork, Calls
<1>2. /\ setup \in Setups /\ x \in [1 .. OFDS -> Int] /\ NonNeg(x) /\ MNonNeg(y)
      /\ room \in [Procs -> Nat] /\ Good(World, {}, x, y) /\ P \subseteq Procs /\ p \in P /\ child \in P /\ p # child
  BY <1>1, Begins DEF OpenInv
<1>3. Good(World, P, x, y)
  BY <1>2 DEF Good, Quiet
<1>4. \A f \in Fds : World.tables[child][f].ofd = 0
  <2> SUFFICES ASSUME NEW f \in Fds PROVE World.tables[child][f].ofd = 0
    OBVIOUS
  <2>1. World.tables[child][f].kind = "none"
    BY <1>1, <1>2 DEF Good, Quiet
  <2>2. HandleOK(World.tables[child][f])
    BY <1>2 DEF Good, Typed
  <2> QED BY <2>1, <2>2 DEF HandleOK
<1>5. r \in Nat \ {0}
  <2>1. setup.FIRST_FILES \in Nat \ {0} /\ room[p] \in Nat
    BY <1>2, Settings
  <2> DEFINE a == setup.FIRST_FILES
             b == room[p]
  <2>2. a \in Int /\ b \in Int /\ a \in Nat \ {0} /\ b \in Nat
    BY <2>1
  <2> HIDE DEF a, b
  <2>3. Max({a, b}) = IF a >= b THEN a ELSE b
    BY <2>2, MaxOfTwo
  <2>4. Max({a, b}) \in Nat \ {0}
    BY <2>2, <2>3
  <2> QED BY <2>4 DEF a, b
<1> HIDE DEF met, x, y, r, P
<1>6. Good(w, P, x, y) /\ w.touched[child] = {}
  BY <1>2, <1>3, <1>4, CopiedAllGood
<1> HIDE DEF w
<1>7. room' \in [Procs -> Nat] /\ (\A q \in P : room'[q] # 0) /\ \A q \in Procs \ P : room'[q] = room[q]
  BY <1>1, <1>2, <1>5 DEF P
<1>8. \A q \in P \ {p} : w.touched[q] = {}
  BY <1>6 DEF P
<1>9. PassingOK' /\ DiskOK' /\ Outside(passing') = x
  BY <1>1, Begins, PassingStill, DiskStill DEF x
<1> QED BY <1>1, <1>2, <1>6, <1>7, <1>8, <1>9, EndsGood DEF y

LEMMA ExecStep == ASSUME OpenInv, setup' = setup, NEW p \in Procs, Exec(p) PROVE OpenInv'
<1> DEFINE S == {fd \in Used(World, p) : tables[p][fd].cloexec}
           w == ClosedAll(World, p, S)
<1>1. Done(p, w, truth, {}) /\ room[p] > 0 /\ disk' = disk /\ passing' = passing
  BY DEF Exec, Calls
<1>2. S \subseteq Fds
  BY DEF Used
<1> HIDE DEF S
<1>3. Good(w, {p}, Outside(passing), Zero)
  BY <1>2, Begins, ClosedAllGood
<1> HIDE DEF w
<1> QED BY <1>1, <1>3, DoneStill

LEMMA EndStep == ASSUME OpenInv, setup' = setup, NEW p \in Procs, End(p) PROVE OpenInv'
<1> DEFINE S == Used(World, p)
           w == ClosedAll(World, p, S)
           v == Looked(w, p, {})
           x == Outside(passing)
           P == {p}
           y == Zero
<1>1. Becomes(v) /\ room' = [room EXCEPT ![p] = 0] /\ disk' = disk /\ passing' = passing
  BY DEF End
<1>2. /\ setup \in Setups /\ Good(World, P, x, y) /\ p \in P /\ NonNeg(x) /\ MNonNeg(y) /\ room \in [Procs -> Nat] /\ P \subseteq Procs
  BY Begins
<1>3. S \subseteq Fds /\ \A f \in Fds \ S : World.tables[p][f].kind = "none"
  BY DEF Used
<1> HIDE DEF S, x, y, P
<1> DEFINE W == World
<1>a. W = World
  OBVIOUS
<1> HIDE DEF W
<1>b. /\ Good(ClosedAll(W, p, S), P, x, y) /\ \A f \in S : ClosedAll(W, p, S).tables[p][f].kind = "none"
      /\ \A g \in Fds \ S : ClosedAll(W, p, S).tables[p][g].kind = W.tables[p][g].kind
  <2>1. Good(W, P, x, y)
    BY <1>2, <1>a
  <2> QED BY <1>2, <1>3, <2>1, ClosedAllGood
<1>c. /\ Good(w, P, x, y) /\ \A f \in S : w.tables[p][f].kind = "none"
      /\ \A g \in Fds \ S : w.tables[p][g].kind = W.tables[p][g].kind
  BY <1>b DEF W
<1> HIDE DEF w
<1>4. Good(w, P, x, y) /\ \A f \in Fds : w.tables[p][f].kind = "none"
  BY <1>3, <1>a, <1>c
<1>5. Good(v, P, x, y) /\ v.touched[p] = {} /\ v.tables = w.tables
  BY <1>2, <1>4, LookedGood
<1> HIDE DEF v
<1>6. LeftBy(v, P, room')
  BY <1>4, <1>5 DEF LeftBy, P
<1>7. room' \in [Procs -> Nat] /\ \A q \in Procs \ P : room'[q] = room[q]
  BY <1>1, <1>2 DEF P
<1>8. PassingOK' /\ DiskOK' /\ Outside(passing') = x
  BY <1>1, Begins, PassingStill, DiskStill DEF x
<1> QED BY <1>1, <1>2, <1>5, <1>6, <1>7, <1>8, GoodNext DEF y

LEMMA PassingPut == ASSUME setup' = setup, NEW h, HandleOK(h), passing' = <<h>> PROVE PassingOK'
<1>1. passing' = <<passing'[1]>> /\ passing'[1] = h
  OBVIOUS
<1> QED BY <1>1 DEF PassingOK, HandleOK, OFDS, MaxSize

LEMMA SendStep == ASSUME OpenInv, setup' = setup, NEW p \in Procs, NEW fd \in Fds, Send(p, fd) PROVE OpenInv'
<1> DEFINE w == Picked(World, p, fd)
           k == w.tables[p][fd]
           no == FALSE
           h == [k EXCEPT !.cloexec = no]
           g == OfdHeld(w, h)
           met == If(h.ofd = 0 /\ OfdKind(h), "full")
           x == Outside(passing)
           z == Plus(x, h)
           P == {p}
           y == Zero
<1>1. Done(p, g, truth, met) /\ room[p] > 0 /\ disk' = disk /\ passing = <<>> /\ passing' = <<h>>
  BY DEF Send, Calls, H
<1>2. /\ setup \in Setups /\ Good(World, P, x, y) /\ p \in P /\ x \in [1 .. OFDS -> Int] /\ y \in [Mems -> Int] /\ DiskOK
  BY Begins
<1> HIDE DEF y, P, met, no
<1>3. Good(w, P, x, y)
  <2> HIDE DEF x
  <2> QED BY <1>2, PickedGood
<1> HIDE DEF w
<1>4. HandleOK(k)
  BY <1>3 DEF Good, Typed
<1> HIDE DEF k
<1>5. HandleOK(h)
  BY <1>4, HandleMarked
<1> HIDE DEF h
<1>6. Good(g, P, z, y)
  <2> HIDE DEF x
  <2> QED BY <1>2, <1>3, <1>5, HeldGood
<1> DEFINE x2 == Outside(passing')
<1>7. x2 \in [1 .. OFDS -> Int] /\ MEven(y, y) /\ Even(z, x2)
  <2>1. passing' # <<>> /\ passing'[1] = h /\ passing = <<>>
    BY <1>1
  <2>2. \A i \in 1 .. OFDS : x2[i] = z[i]
    BY <2>1 DEF Outside, Plus, Bit
  <2>3. x2 \in [1 .. OFDS -> Int]
    BY DEF Outside
  <2> QED BY <2>2, <2>3 DEF Even, MEven
<1> HIDE DEF x, z, x2, g
<1>8. Good(g, P, x2, y)
  BY <1>2, <1>6, <1>7, EvenGood
<1>9. PassingOK'
  BY <1>1, <1>5, PassingPut
<1>10. DiskOK'
  BY <1>1, <1>2, DiskStill
<1> QED BY <1>1, <1>8, <1>9, <1>10, DoneGood DEF x2, y, P

LEMMA ReceiveStep == ASSUME OpenInv, setup' = setup, NEW p \in Procs, Receive(p) PROVE OpenInv'
<1> DEFINE h == passing[1]
           w == Given(World, p, h)
           x == Outside(passing)
           x2 == Outside(passing')
           z == Plus(x2, h)
           P == {p}
           y == Zero
<1>1. /\ setup \in Setups /\ Good(World, P, x, y) /\ p \in P /\ x \in [1 .. OFDS -> Int] /\ y \in [Mems -> Int]
      /\ MNonNeg(y) /\ DiskOK /\ PassingOK
  BY Begins
<1>2. passing # <<>> /\ passing' = Tail(passing) /\ room[p] > 0 /\ disk' = disk
  BY DEF Receive, Calls
<1>3. passing = <<h>> /\ HandleOK(h)
  BY <1>1, <1>2 DEF PassingOK
<1>4. passing' = <<>>
  <2> HIDE DEF h
  <2> QED BY <1>2, <1>3
<1>5. Head(passing) = h
  OBVIOUS
<1>6. Done(p, w, truth, {})
  BY <1>5 DEF Receive
<1>7. \A i \in 1 .. OFDS : x[i] = (IF h.ofd = i THEN 1 ELSE 0) /\ x2[i] = 0
  BY <1>2, <1>4 DEF Outside
<1>8. x2 \in [1 .. OFDS -> Int] /\ NonNeg(x2) /\ z \in [1 .. OFDS -> Int] /\ MEven(y, y)
  <2>1. x2 = [i \in 1 .. OFDS |-> x2[i]]
    BY DEF Outside
  <2> HIDE DEF x2
  <2> QED BY <1>7, <2>1, PlusIs DEF NonNeg, MEven
<1> HIDE DEF h, x, x2, y, P
<1>9. Even(x, z)
  BY <1>7 DEF Even, Plus, Bit
<1> HIDE DEF z
<1>10. Good(World, P, z, y)
  BY <1>1, <1>8, <1>9, EvenGood
<1>11. Good(w, P, x2, y)
  BY <1>1, <1>3, <1>8, <1>10, GivenGood DEF z
<1>12. PassingOK'
  BY <1>4 DEF PassingOK
<1>13. DiskOK'
  BY <1>1, <1>2, DiskStill
<1> HIDE DEF w
<1> QED BY <1>2, <1>6, <1>11, <1>12, <1>13, DoneGood DEF x2, y, P

----------------------------------------------------------------------------
(* The bytes.                                                              *)

LEMMA LengthOf == ASSUME NEW n \in Nat, NEW f, f = [i \in 1 .. n |-> f[i]] PROVE Len(f) = n
OBVIOUS

LEMMA OverlaidLength ==
  ASSUME NEW b, Len(b) \in Nat, NEW offset \in Nat, NEW said, Len(said) \in Nat
  PROVE  /\ Len(Overlaid(b, offset, said)) = IF Len(b) >= offset + Len(said) THEN Len(b) ELSE offset + Len(said)
<1> DEFINE n == Max({Len(b), offset + Len(said)})
           f == Overlaid(b, offset, said)
           of == Len(b)
           to == offset + Len(said)
<1>1. of \in Int /\ to \in Int
  OBVIOUS
<1> HIDE DEF of, to
<1>2. Max({of, to}) = IF of >= to THEN of ELSE to
  BY <1>1, MaxOfTwo
<1>3. n = IF Len(b) >= offset + Len(said) THEN Len(b) ELSE offset + Len(said)
  BY <1>2 DEF of, to
<1>4. n \in Nat
  BY <1>3
<1>5. f = [i \in 1 .. n |-> f[i]]
  BY DEF Overlaid
<1> HIDE DEF f, n
<1>6. Len(f) = n
  BY <1>4, <1>5, LengthOf
<1> QED BY <1>3, <1>6 DEF f

LEMMA CutLength == ASSUME NEW b, NEW n \in Nat PROVE Len(Cut(b, n)) = n
<1> DEFINE f == Cut(b, n)
<1>1. f = [i \in 1 .. n |-> f[i]]
  BY DEF Cut
<1> HIDE DEF f
<1>2. Len(f) = n
  BY <1>1, LengthOf
<1> QED BY <1>2 DEF f

\* Descriptor fd of p has the slot, and the kind, and has been looked at, in v as in w.
Alike(w, v, p, fd) ==
  /\ v.ofds = w.ofds /\ v.touched = w.touched
  /\ v.tables[p][fd].kind = w.tables[p][fd].kind /\ v.tables[p][fd].ofd = w.tables[p][fd].ofd

LEMMA MovesAlike == ASSUME NEW w, NEW v, NEW p, NEW fd, NEW a, NEW b, Moves(w, v, p, fd, a, b) PROVE Alike(w, v, p, fd)
BY DEF Moves, Alike, Placed

LEMMA AlikeTwice ==
  ASSUME NEW u, NEW v, NEW w, NEW p, NEW fd, Alike(u, v, p, fd), Alike(v, w, p, fd) PROVE Alike(u, w, p, fd)
BY DEF Alike

LEMMA AlikeSettled == ASSUME NEW w, NEW v, NEW p, NEW fd, Alike(w, v, p, fd), Settled(w, p, fd) PROVE Settled(v, p, fd)
BY DEF Alike, Settled, Fresh, OfdKind, FreeOfds

LEMMA AlikeReadable ==
  ASSUME NEW w, NEW v, NEW p, NEW fd, Alike(w, v, p, fd), Readable(w, w.tables[p][fd]) PROVE Readable(v, v.tables[p][fd])
BY ZenonT(30) DEF Alike, Readable, MemBacked, WriteName, Ofd

LEMMA LengthOK ==
  ASSUME setup \in Setups, NEW w, Typed(w), DiskOK, NEW p \in Procs, NEW fd \in Fds, Readable(w, w.tables[p][fd])
  PROVE  Length(w, w.tables[p][fd]) \in 0 .. MaxSize
<1> DEFINE h == w.tables[p][fd]
<1>1. HandleOK(h) /\ \A i \in 1 .. OFDS : OfdOK(w.ofds[i])
  BY DEF Typed
<1> HIDE DEF h
<1>2. h.size \in 0 .. MaxSize /\ h.ofd \in 0 .. OFDS
  BY <1>1 DEF HandleOK
<1>3. CASE h.kind = "write" /\ ~MemBacked(w, h)
  <2>1. WriteName(w, h) # NoName
    BY <1>3 DEF Readable, h
  <2>2. h.ofd # 0 /\ WriteName(w, h) = w.ofds[h.ofd].name
    BY <2>1 DEF WriteName, Ofd, NoOfd
  <2>3. h.ofd \in 1 .. OFDS
    BY <1>2, <2>2, Settings
  <2>4. WriteName(w, h) \in setup.Names
    BY <1>1, <2>1, <2>2, <2>3 DEF OfdOK
  <2>5. Length(w, h) = Len(disk[WriteName(w, h)].bytes)
    BY <1>3 DEF Length
  <2> QED BY <2>4, <2>5 DEF DiskOK, h
<1>4. CASE ~(h.kind = "write" /\ ~MemBacked(w, h))
  BY <1>2, <1>4 DEF Length, h
<1> QED BY <1>3, <1>4

LEMMA GotOK ==
  ASSUME setup \in Setups, NEW w, Typed(w), DiskOK, NEW p \in Procs, NEW fd \in Fds, Readable(w, w.tables[p][fd]), NEW count \in Nat
  PROVE  w.tables[p][fd].offset + Got(w, p, fd, count) \in 0 .. MaxSize /\ Got(w, p, fd, count) \in Nat
<1> DEFINE a == w.tables[p][fd].offset
           b == Length(w, w.tables[p][fd])
           c == Max({b - a, 0})
<1>1. a \in 0 .. MaxSize /\ b \in 0 .. MaxSize /\ MaxSize \in Nat
  BY Settings, LengthOK DEF Typed, HandleOK
<1>2. Got(w, p, fd, count) = Min({count, c})
  BY DEF Got, H
<1> HIDE DEF a, b
<1>3. c = IF b - a >= 0 THEN b - a ELSE 0
  BY <1>1, MaxOfTwo
<1> HIDE DEF c
<1>4. c \in Nat
  BY <1>1, <1>3
<1>5. Min({count, c}) = IF count <= c THEN count ELSE c
  BY <1>4, MinOfTwo
<1>6. a + Min({count, c}) \in 0 .. MaxSize /\ Min({count, c}) \in Nat
  BY <1>1, <1>3, <1>4, <1>5
<1> QED BY <1>2, <1>6 DEF a

LEMMA ReadInGood ==
  ASSUME setup \in Setups, NEW w, NEW P, NEW x, NEW y, Good(w, P, x, y), DiskOK, NEW p \in P, p \in Procs, NEW fd \in Fds,
         Readable(w, w.tables[p][fd]), NEW count \in Nat
  PROVE  Good(ReadIn(w, p, fd, count), P, x, y) /\ Alike(w, ReadIn(w, p, fd, count), p, fd)
<1> DEFINE a == w.tables[p][fd].offset + Got(w, p, fd, count)
           b == Length(w, w.tables[p][fd])
           v == Moved(w, p, fd, a)
           z == Sized(v, p, fd, b)
<1>1. a \in 0 .. MaxSize /\ b \in 0 .. MaxSize
  BY GotOK, LengthOK DEF Good
<1>2. z = ReadIn(w, p, fd, count)
  BY DEF ReadIn, H
<1> HIDE DEF a, b
<1>3. Good(v, P, x, y) /\ Alike(w, v, p, fd)
  BY <1>1, MovedGood, MovesAlike
<1> HIDE DEF v
<1>4. Good(z, P, x, y) /\ Alike(v, z, p, fd)
  BY <1>1, <1>3, MovedGood, MovesAlike
<1> HIDE DEF z
<1>5. Alike(w, z, p, fd)
  BY <1>3, <1>4, AlikeTwice
<1> QED BY <1>2, <1>4, <1>5

LEMMA ReadStep ==
  ASSUME OpenInv, setup' = setup, NEW p \in Procs, NEW fd \in Fds, NEW n \in setup.Sizes, Read(p, fd, n) PROVE OpenInv'
<1> DEFINE g == Picked(World, p, fd)
           h == g.tables[p][fd]
           w == ReadIn(g, p, fd, n)
           t == TrueMoved(truth, h.id, truth.pos[h.id] + Got(g, p, fd, n))
           x == Outside(passing)
           P == {p}
           y == Zero
<1>1. Done(p, w, t, {}) /\ disk' = disk /\ passing' = passing /\ Readable(g, h)
  BY DEF Read, H
<1>2. setup \in Setups /\ Good(World, P, x, y) /\ p \in P /\ DiskOK /\ n \in Nat
  BY Begins, Settings
<1> HIDE DEF x, y, P, t
<1>3. Good(g, P, x, y)
  BY <1>2, PickedGood
<1> HIDE DEF g
<1>4. Good(w, P, x, y)
  BY <1>1, <1>2, <1>3, ReadInGood
<1> HIDE DEF w
<1> QED BY <1>1, <1>4, DoneStill DEF x, y, P

LEMMA ReadvStep ==
  ASSUME OpenInv, setup' = setup, NEW p \in Procs, NEW fd \in Fds, NEW n \in setup.Sizes, Readv(p, fd, n) PROVE OpenInv'
<1> DEFINE g == Picked(World, p, fd)
           h == g.tables[p][fd]
           v == ReadIn(g, p, fd, n)
           first == Picked(v, p, fd)
           all == Got(g, p, fd, n) = n
           got == Got(g, p, fd, n) + IF all THEN Got(first, p, fd, n) ELSE 0
           w == IF all THEN ReadIn(first, p, fd, n) ELSE first
           t == TrueMoved(truth, h.id, truth.pos[h.id] + got)
           x == Outside(passing)
           P == {p}
           y == Zero
<1>1. Done(p, w, t, {}) /\ disk' = disk /\ passing' = passing /\ Readable(g, h)
  BY DEF Readv, H
<1>2. setup \in Setups /\ Good(World, P, x, y) /\ p \in P /\ DiskOK /\ n \in Nat
  BY Begins, Settings
<1> HIDE DEF x, y, P, t, all
<1>3. Good(g, P, x, y) /\ Settled(g, p, fd)
  BY <1>2, PickedGood DEF Looks
<1> HIDE DEF g
<1>4. Good(v, P, x, y) /\ Alike(g, v, p, fd)
  BY <1>1, <1>2, <1>3, ReadInGood
<1>5. Readable(v, v.tables[p][fd]) /\ Settled(v, p, fd)
  BY <1>1, <1>3, <1>4, AlikeReadable, AlikeSettled
<1>6. first = v
  BY <1>5, PickedAgain
<1> HIDE DEF v, first
<1>7. Good(ReadIn(v, p, fd, n), P, x, y)
  BY <1>2, <1>4, <1>5, ReadInGood
<1>8. Good(w, P, x, y)
  BY <1>4, <1>6, <1>7
<1> HIDE DEF w
<1> QED BY <1>1, <1>8, DoneStill DEF x, y, P

LEMMA PreadStep ==
  ASSUME OpenInv, setup' = setup, NEW p \in Procs, NEW fd \in Fds, NEW n \in setup.Sizes, NEW at \in setup.Ats, Pread(p, fd, at, n)
  PROVE  OpenInv'
<1> DEFINE g == Picked(World, p, fd)
           h == g.tables[p][fd]
           v == Moved(g, p, fd, at)
           there == Picked(v, p, fd)
           k == ReadIn(there, p, fd, n)
           back == Moved(k, p, fd, h.offset)
           w == IF at > h.size THEN g ELSE back
           x == Outside(passing)
           P == {p}
           y == Zero
<1>1. Done(p, w, truth, {}) /\ disk' = disk /\ passing' = passing /\ Readable(g, h)
  BY DEF Pread, H
<1>2. setup \in Setups /\ Good(World, P, x, y) /\ p \in P /\ DiskOK /\ n \in Nat /\ at \in Nat /\ MaxSize \in Nat
  BY Begins, Settings
<1> HIDE DEF x, y, P
<1>3. Good(g, P, x, y) /\ Settled(g, p, fd)
  BY <1>2, PickedGood DEF Looks
<1> HIDE DEF g
<1>4. h.offset \in 0 .. MaxSize /\ h.size \in 0 .. MaxSize
  BY <1>3 DEF Good, Typed, HandleOK
<1>5. ASSUME ~(at > h.size) PROVE Good(back, P, x, y)
  <2>1. at \in 0 .. MaxSize
    BY <1>2, <1>4, <1>5
  <2>2. Good(v, P, x, y) /\ Alike(g, v, p, fd)
    BY <1>2, <1>3, <2>1, MovedGood, MovesAlike
  <2>3. Readable(v, v.tables[p][fd]) /\ Settled(v, p, fd)
    BY <1>1, <1>3, <2>2, AlikeReadable, AlikeSettled
  <2>4. there = v
    BY <2>3, PickedAgain
  <2> HIDE DEF v, there
  <2>5. Good(ReadIn(v, p, fd, n), P, x, y)
    BY <1>2, <2>2, <2>3, ReadInGood
  <2>6. Good(k, P, x, y)
    BY <2>4, <2>5
  <2> HIDE DEF k
  <2> DEFINE a == h.offset
  <2>7. a \in 0 .. MaxSize
    BY <1>4
  <2> HIDE DEF a
  <2>8. Good(Moved(k, p, fd, a), P, x, y)
    BY <1>2, <2>6, <2>7, MovedGood
  <2> QED BY <2>8 DEF a
<1> HIDE DEF back
<1>6. Good(w, P, x, y)
  BY <1>3, <1>5
<1> HIDE DEF w
<1> QED BY <1>1, <1>6, DoneStill DEF x, y, P

LEMMA LseekStep ==
  ASSUME OpenInv, setup' = setup, NEW p \in Procs, NEW fd \in Fds, NEW whence, NEW by, Lseek(p, fd, whence, by)
  PROVE  OpenInv'
<1> DEFINE g == Picked(World, p, fd)
           h == g.tables[p][fd]
           To(at, size) == by + (IF whence = "set" THEN 0 ELSE IF whence = "cur" THEN at ELSE size)
           to == To(h.offset, h.size)
           trueSize == IF h.kind = "read" THEN h.size ELSE Len(BytesOf(h.id))
           w == Moved(g, p, fd, to)
           t == TrueMoved(truth, h.id, To(truth.pos[h.id], trueSize))
           met == If(whence = "end" /\ h.size # trueSize, "size")
           x == Outside(passing)
           P == {p}
           y == Zero
<1>1. Done(p, w, t, met) /\ disk' = disk /\ passing' = passing /\ to \in 0 .. MaxSize
  BY ZenonT(30) DEF Lseek, H
<1>2. setup \in Setups /\ Good(World, P, x, y) /\ p \in P
  BY Begins
<1> HIDE DEF x, y, P, t, met, to
<1>3. Good(g, P, x, y)
  BY <1>2, PickedGood
<1> HIDE DEF g
<1>4. Good(w, P, x, y)
  BY <1>1, <1>2, <1>3, MovedGood
<1> HIDE DEF w
<1> QED BY <1>1, <1>4, DoneStill DEF x, y, P

\* Memory no open file has stays as it is.
LEMMA NoMemPut ==
  ASSUME setup \in Setups, NEW w, NEW P, NEW x, NEW y, Good(w, P, x, y), NEW m \in Mems \union {0}, NEW offset, NEW said
  PROVE  Good(MemPut(w, m, offset, said), P, x, y)
<1>1. CASE m \in Mems
  BY <1>1, MemPutGood
<1>2. CASE m \notin Mems
  <2> DEFINE o == w.mems[m]
             to == offset .. offset + Len(said) - 1
             o2 == [refs |-> o.refs, pages |-> o.pages \union {i \div PAGE : i \in to},
                    data |-> [i \in DOMAIN o.data |-> IF i \in to THEN said[i - offset + 1] ELSE o.data[i]]]
             was == w.mems
             t == [was EXCEPT ![m] = o2]
             v == MemPut(w, m, offset, said)
  <2>1. v = [w EXCEPT !.mems[m] = o2]
    BY DEF MemPut, MemIs
  <2> HIDE DEF o2
  <2>2. v = [w EXCEPT !.mems = t]
    BY <2>1
  <2>3. Typed(w)
    BY DEF Good
  <2>4. was = [k \in Mems |-> was[k]]
    BY <2>3 DEF Typed
  <2> HIDE DEF was
  <2>5. t = was
    BY <1>2, <2>4
  <2> HIDE DEF t, v
  <2>6. v = w
    BY <2>2, <2>3, <2>5 DEF Typed, was
  <2>7. Good(v, P, x, y)
    BY <2>6
  <2> QED BY <2>7 DEF v
<1> QED BY <1>1, <1>2

LEMMA OnDiskOK ==
  ASSUME setup' = setup, DiskOK, NEW name \in setup.Names, NEW b, Len(b) \in 0 .. MaxSize, OnDisk(name, b) PROVE DiskOK'
<1>1. PICK s \in MayBeAt(name, b) : disk' = [disk EXCEPT ![name] = [there |-> TRUE, start |-> s, bytes |-> b]]
  BY DEF OnDisk
<1> DEFINE f == [there |-> TRUE, start |-> s, bytes |-> b]
<1>2. f.bytes = b /\ disk' = [disk EXCEPT ![name] = f]
  BY <1>1
<1> HIDE DEF f
<1>3. Len(f.bytes) \in 0 .. MaxSize
  BY <1>2
<1> QED BY <1>2, <1>3, DiskPut

\* Where the bytes of an open file are: a name, or memory there is.
LEMMA OfdIs ==
  ASSUME setup \in Setups, NEW w, Typed(w), NEW p \in Procs, NEW fd \in Fds
  PROVE  /\ WriteName(w, w.tables[p][fd]) \in setup.Names \union {NoName}
         /\ Ofd(w, w.tables[p][fd]).mem \in Mems \union {0}
<1> DEFINE h == w.tables[p][fd]
<1>1. HandleOK(h) /\ \A i \in 1 .. OFDS : OfdOK(w.ofds[i])
  BY DEF Typed
<1> HIDE DEF h
<1>2. CASE h.ofd = 0
  BY SMTT(60), <1>2 DEF WriteName, Ofd, NoOfd, h
<1>3. CASE h.ofd # 0
  <2>1. h.ofd \in 1 .. OFDS
    BY <1>1, <1>3, Settings DEF HandleOK
  <2> QED BY <1>1, <1>3, <2>1 DEF WriteName, Ofd, OfdOK, h
<1> QED BY <1>2, <1>3

LEMMA PutAtGood ==
  ASSUME OpenInv, setup' = setup, passing' = passing, NEW p \in Procs, NEW w, Good(w, {p}, Outside(passing), Zero),
         NEW fd \in Fds, NEW offset \in Nat, NEW said, Len(said) \in Nat, offset + Len(said) <= MaxSize,
         NEW to \in 0 .. MaxSize, NEW t, PutAt(p, w, fd, offset, said, to, t)
  PROVE  OpenInv'
<1> DEFINE h == w.tables[p][fd]
           name == WriteName(w, h)
           end == offset + Len(said)
           size == Max({h.size, end})
           g == Moved(w, p, fd, to)
           after == Sized(g, p, fd, size)
           m == Ofd(w, h).mem
           v == MemPut(after, m, offset, said)
           met == If(size # h.size /\ SharesMem(w, h), "size")
           b == Overlaid(disk[name].bytes, offset, said)
           x == Outside(passing)
           P == {p}
           y == Zero
<1>1. IF MemBacked(w, h) THEN Done(p, v, t, met) /\ disk' = disk
      ELSE name # NoName /\ OnDisk(name, b) /\ Done(p, after, t, {})
  BY DEF PutAt, H
<1>2. /\ setup \in Setups /\ Good(w, P, x, y) /\ p \in P /\ DiskOK /\ MaxSize \in Nat /\ PassingOK' /\ Outside(passing') = x
      /\ \A n \in setup.Names : Len(disk[n].bytes) \in 0 .. MaxSize
  BY SMTT(60), Begins, Settings, PassingStill DEF DiskOK
<1>3. name \in setup.Names \union {NoName} /\ m \in Mems \union {0} /\ h.size \in 0 .. MaxSize
  BY <1>2, OfdIs DEF Good, Typed, HandleOK
<1> HIDE DEF x, y, P, met, name, m
<1>4. size \in 0 .. MaxSize
  <2> DEFINE a == h.size
  <2>1. a \in Int /\ end \in Int /\ a \in 0 .. MaxSize /\ end \in 0 .. MaxSize
    BY <1>2, <1>3
  <2> HIDE DEF a, end
  <2>2. Max({a, end}) = IF a >= end THEN a ELSE end
    BY <2>1, MaxOfTwo
  <2>3. Max({a, end}) \in 0 .. MaxSize
    BY <2>1, <2>2
  <2> QED BY <2>3 DEF a
<1> HIDE DEF size
<1>5. Good(g, P, x, y)
  BY <1>2, MovedGood
<1> HIDE DEF g
<1>6. Good(after, P, x, y)
  BY <1>2, <1>4, <1>5, MovedGood
<1> HIDE DEF after
<1>7. Good(v, P, x, y)
  BY <1>2, <1>3, <1>6, NoMemPut
<1> HIDE DEF v
<1>8. CASE MemBacked(w, h)
  BY <1>1, <1>7, <1>8, DoneStill DEF x, y, P
<1>9. CASE ~MemBacked(w, h)
  <2> DEFINE was == disk[name].bytes
  <2>1. name \in setup.Names /\ Len(was) \in 0 .. MaxSize /\ OnDisk(name, b) /\ Done(p, after, t, {})
    BY <1>1, <1>2, <1>3, <1>9
  <2>2. Len(was) \in Nat
    BY <1>2, <2>1
  <2> HIDE DEF was
  <2>3. Len(Overlaid(was, offset, said)) = IF Len(was) >= offset + Len(said) THEN Len(was) ELSE offset + Len(said)
    BY <2>2, OverlaidLength
  <2>4. Len(Overlaid(was, offset, said)) \in 0 .. MaxSize
    BY <1>2, <2>1, <2>2, <2>3
  <2>5. Len(b) \in 0 .. MaxSize
    BY <2>4 DEF was
  <2> HIDE DEF b
  <2>6. DiskOK'
    BY <1>2, <2>1, <2>5, OnDiskOK
  <2> QED BY <1>2, <1>6, <2>1, <2>6, DoneGood DEF x, y, P
<1> QED BY <1>8, <1>9

\* What a look at descriptor fd of p gives a call to put bytes through.
LEMMA LookIs ==
  ASSUME OpenInv, NEW p \in Procs, NEW fd \in Fds
  PROVE  /\ Good(Picked(World, p, fd), {p}, Outside(passing), Zero) /\ Settled(Picked(World, p, fd), p, fd)
         /\ Picked(World, p, fd).tables[p][fd].offset \in 0 .. MaxSize
         /\ Picked(World, p, fd).tables[p][fd].size \in 0 .. MaxSize
         /\ setup \in Setups /\ MaxSize \in Nat /\ setup.Sizes \subseteq Nat /\ setup.Ats \subseteq Nat
<1> DEFINE g == Picked(World, p, fd)
           x == Outside(passing)
           P == {p}
           y == Zero
<1>1. setup \in Setups /\ Good(World, P, x, y) /\ p \in P /\ MaxSize \in Nat /\ setup.Sizes \subseteq Nat /\ setup.Ats \subseteq Nat
  BY Begins, Settings
<1> HIDE DEF x, y, P
<1>2. Good(g, P, x, y) /\ Settled(g, p, fd)
  BY <1>1, PickedGood DEF Looks
<1> HIDE DEF g
<1>3. HandleOK(g.tables[p][fd])
  BY <1>2 DEF Good, Typed
<1>4. g.tables[p][fd].offset \in 0 .. MaxSize /\ g.tables[p][fd].size \in 0 .. MaxSize
  BY <1>3 DEF HandleOK
<1> QED BY <1>1, <1>2, <1>4 DEF g, x, y, P

LEMMA WriteStep ==
  ASSUME OpenInv, setup' = setup, NEW p \in Procs, NEW fd \in Fds, NEW n \in setup.Sizes \ {0}, NEW v, Write(p, fd, n, v)
  PROVE  OpenInv'
<1> DEFINE g == Picked(World, p, fd)
           h == g.tables[p][fd]
           a == h.offset
           at == truth.pos[h.id]
           said == [i \in 1 .. n |-> v]
           t == TrueMoved(TruePut(truth, h.id, at, said), h.id, at + n)
<1>1. passing' = passing /\ a + n <= MaxSize /\ PutAt(p, g, fd, a, said, a + n, t)
  BY ZenonT(30) DEF Write, H
<1>2. Good(g, {p}, Outside(passing), Zero) /\ a \in 0 .. MaxSize /\ n \in Nat /\ MaxSize \in Nat
  BY LookIs
<1> HIDE DEF a, t, g
<1>3. Len(said) = n
  BY <1>2, LengthOf
<1> HIDE DEF said
<1> DEFINE to == a + n
<1>4. a \in Nat /\ to \in 0 .. MaxSize /\ Len(said) \in Nat /\ a + Len(said) <= MaxSize /\ PutAt(p, g, fd, a, said, to, t)
  BY <1>1, <1>2, <1>3
<1> HIDE DEF to
<1> QED BY <1>1, <1>2, <1>4, PutAtGood

LEMMA WritevStep ==
  ASSUME OpenInv, setup' = setup, NEW p \in Procs, NEW fd \in Fds, NEW v, Writev(p, fd, v)
  PROVE  OpenInv'
<1> DEFINE g == Picked(World, p, fd)
           h == g.tables[p][fd]
           a == h.offset
           up == a + 1
           k == Moved(g, p, fd, up)
           z == Picked(k, p, fd)
           next == z.tables[p][fd].offset
           at == truth.pos[h.id]
           one == <<v>>
           said == Overlaid(one, next - a, one)
           t == TrueMoved(TruePut(truth, h.id, at, <<v, v>>), h.id, at + 2)
<1>1. passing' = passing /\ a + 2 <= MaxSize /\ PutAt(p, g, fd, a, said, next + 1, t)
  BY ZenonT(30) DEF Writev, H
<1>2. Good(g, {p}, Outside(passing), Zero) /\ Settled(g, p, fd) /\ a \in 0 .. MaxSize /\ setup \in Setups /\ MaxSize \in Nat
  BY LookIs
<1>3. Len(one) = 1
  OBVIOUS
<1> HIDE DEF t, g, one
<1>4. up \in 0 .. MaxSize
  <2> HIDE DEF a
  <2> QED BY <1>1, <1>2
<1>5. next = up
  <2> HIDE DEF up
  <2>1. Moves(g, k, p, fd, up, g.tables[p][fd].size)
    BY <1>2, <1>4, MovedGood
  <2>2. Settled(k, p, fd)
    BY <1>2, <2>1, MovesAlike, AlikeSettled
  <2>3. z = k
    BY <2>2, PickedAgain
  <2> HIDE DEF k, z
  <2> QED BY <2>1, <2>3 DEF Moves, Placed
<1> HIDE DEF z, k, a
<1> DEFINE by == next - a
           to == next + 1
<1> HIDE DEF next
<1>6. by = 1 /\ to = a + 2 /\ a \in Nat /\ to \in 0 .. MaxSize
  BY <1>1, <1>2, <1>5
<1>7. Len(Overlaid(one, by, one)) = 2
  <2>1. by \in Nat /\ Len(one) \in Nat
    BY <1>3, <1>6
  <2> HIDE DEF by
  <2>2. Len(Overlaid(one, by, one)) = IF Len(one) >= by + Len(one) THEN Len(one) ELSE by + Len(one)
    BY <2>1, OverlaidLength
  <2> QED BY <1>3, <1>6, <2>2
<1>8. Len(said) \in Nat /\ a + Len(said) <= MaxSize /\ PutAt(p, g, fd, a, said, to, t)
  BY SMTT(60), <1>1, <1>7
<1> HIDE DEF said, to
<1> QED BY <1>1, <1>2, <1>6, <1>8, PutAtGood

LEMMA PwriteStep ==
  ASSUME OpenInv, setup' = setup, NEW p \in Procs, NEW fd \in Fds, NEW offset \in setup.Ats, NEW n \in setup.Sizes \ {0}, NEW v,
         Pwrite(p, fd, offset, n, v)
  PROVE  OpenInv'
<1> DEFINE g == Picked(World, p, fd)
           h == g.tables[p][fd]
           a == h.offset
           said == [i \in 1 .. n |-> v]
           t == TruePut(truth, h.id, offset, said)
<1>1. passing' = passing /\ offset + n <= MaxSize /\ PutAt(p, g, fd, offset, said, a, t)
  BY DEF Pwrite, H
<1>2. Good(g, {p}, Outside(passing), Zero) /\ a \in 0 .. MaxSize /\ n \in Nat /\ offset \in Nat
  BY LookIs
<1> HIDE DEF a, t, g
<1>3. Len(said) = n
  BY <1>2, LengthOf
<1> HIDE DEF said
<1>4. Len(said) \in Nat /\ offset + Len(said) <= MaxSize
  BY <1>1, <1>2, <1>3
<1> QED BY <1>1, <1>2, <1>4, PutAtGood

LEMMA FtruncateStep ==
  ASSUME OpenInv, setup' = setup, NEW p \in Procs, NEW fd \in Fds, NEW n \in setup.Sizes, Ftruncate(p, fd, n)
  PROVE  OpenInv'
<1> DEFINE g == Picked(World, p, fd)
           h == g.tables[p][fd]
           name == WriteName(g, h)
           was == disk[name].bytes
           zero == <<0>>
           b == IF n > h.size THEN Overlaid(was, n - 1, zero) ELSE Cut(was, n)
           t == [truth EXCEPT !.bytes[truth.node[h.id]] = Cut(@, n)]
           w == Sized(g, p, fd, n)
           met1 == If(n < h.size, "shrink") \union If(SharesMem(g, h), "size")
           met2 == If(h.size # Len(was), "size")
           x == Outside(passing)
           P == {p}
           y == Zero
<1>1. /\ passing' = passing /\ n <= MaxSize
      /\ \/ disk' = disk /\ Done(p, w, t, met1)
         \/ /\ name # NoName /\ Done(p, w, t, met2)
            /\ IF n = h.size THEN disk' = disk ELSE OnDisk(name, b)
  BY ZenonT(30) DEF Ftruncate, H
<1>2. /\ setup \in Setups /\ Good(g, P, x, y) /\ p \in P /\ n \in 0 .. MaxSize /\ n \in Nat /\ MaxSize \in Nat
      /\ h.size \in 0 .. MaxSize /\ DiskOK /\ PassingOK' /\ Outside(passing') = x
  <2>1. DiskOK /\ PassingOK' /\ Outside(passing') = x
    BY ZenonT(30), <1>1, Begins, PassingStill
  <2>2. setup \in Setups /\ Good(g, P, x, y) /\ p \in P /\ h.size \in 0 .. MaxSize /\ n \in Nat /\ MaxSize \in Nat
    BY LookIs
  <2>3. passing' = passing /\ n <= MaxSize
    BY ZenonT(30), <1>1
  <2> HIDE DEF g, x, P, y, h
  <2> QED BY <2>1, <2>2, <2>3
<1>3. name \in setup.Names \union {NoName}
  BY <1>2, OfdIs DEF Good
<1> HIDE DEF t, met1, met2, x, y, P, g, name
<1>4. Good(w, P, x, y)
  BY <1>2, MovedGood
<1> HIDE DEF w
<1>5. CASE disk' = disk /\ Done(p, w, t, met1)
  BY <1>1, <1>4, <1>5, DoneStill DEF x, y, P
<1>6. CASE /\ name # NoName /\ Done(p, w, t, met2)
           /\ IF n = h.size THEN disk' = disk ELSE OnDisk(name, b)
  <2>1. CASE n = h.size
    <3>1. disk' = disk /\ Done(p, w, t, met2)
      BY <1>6, <2>1
    <3> QED BY <1>1, <1>4, <3>1, DoneStill DEF x, y, P
  <2>2. CASE n # h.size
    <3>1. name \in setup.Names /\ OnDisk(name, b) /\ Len(was) \in 0 .. MaxSize
      BY <1>2, <1>3, <1>6, <2>2 DEF DiskOK
    <3>2. Len(b) \in 0 .. MaxSize
      <4> HIDE DEF was
      <4>1. CASE n > h.size
        <5> DEFINE up == n - 1
        <5>1. up \in Nat /\ Len(was) \in Nat /\ up + 1 = n
          BY <1>2, <3>1, <4>1
        <5>2. Len(zero) = 1 /\ Len(zero) \in Nat
          OBVIOUS
        <5> HIDE DEF up, zero
        <5>3. Len(Overlaid(was, up, zero)) = IF Len(was) >= up + Len(zero) THEN Len(was) ELSE up + Len(zero)
          BY <5>1, <5>2, OverlaidLength
        <5>4. Len(Overlaid(was, up, zero)) \in 0 .. MaxSize
          BY <1>2, <3>1, <5>1, <5>2, <5>3
        <5> QED BY <4>1, <5>4 DEF up
      <4>2. CASE ~(n > h.size)
        <5>1. Len(Cut(was, n)) = n
          BY <1>2, CutLength
        <5> QED BY <1>2, <4>2, <5>1
      <4> QED BY <4>1, <4>2
    <3> HIDE DEF b
    <3>3. DiskOK'
      BY <1>2, <3>1, <3>2, OnDiskOK
    <3> QED BY <1>2, <1>4, <1>6, <3>3, DoneGood DEF x, y, P
  <2> QED BY <2>1, <2>2
<1> QED BY <1>1, <1>5, <1>6

----------------------------------------------------------------------------
(* Names that go.                                                          *)

\* The tables as they were, and each slot as many descriptors' and where it was.
InPlace(w, v) ==
  /\ Still(w, v)
  /\ \A j \in 1 .. OFDS : v.ofds[j].refs = w.ofds[j].refs /\ v.ofds[j].offset = w.ofds[j].offset

\* Slot i given an object, k, that is counted for it once.
LEMMA LinkedGood ==
  ASSUME setup \in Setups, NEW w, NEW P, NEW x, NEW y, Good(w, P, x, y), NEW i \in 1 .. OFDS, NEW o2, OfdOK(o2),
         NEW was, was = w.ofds[i], o2.refs = was.refs, o2.offset = was.offset, NEW m \in Mems, o2.mem = m, NEW o, o = w.mems[m],
         NEW k, MemOK(k), IF was.mem = 0 THEN o.refs = 0 /\ k.refs = 1 ELSE m = was.mem /\ k.refs = o.refs,
         NEW v, v = MemIs(SlotIs(w, i, o2), m, k)
  PROVE  Good(v, P, x, y) /\ InPlace(w, v)
<1> DEFINE g == SlotIs(w, i, o2)
<1>1. OfdOK(was) /\ MemOK(o) /\ x \in [1 .. OFDS -> Int] /\ y \in [Mems -> Int] /\ Typed(w)
  BY DEF Good, Typed
<1>2. o.refs \in Nat /\ k.refs \in Nat /\ was.refs \in Nat
  BY <1>1 DEF MemOK, OfdOK
<1> DEFINE d == o2.refs - was.refs
           x1 == More(x, i, d)
           y1 == MAdj(y, was, o2)
           e == k.refs - o.refs
           u == More(y1, m, e)
<1>3. d = 0
  BY <1>2
<1>4. Good(g, P, x1, y1)
  BY SlotGood
<1>5. /\ g.mems = w.mems /\ g.tables = w.tables /\ g.touched = w.touched
      /\ \A j \in 1 .. OFDS : g.ofds[j].refs = w.ofds[j].refs /\ g.ofds[j].offset = w.ofds[j].offset
  <2>1. w.ofds = [j \in 1 .. OFDS |-> w.ofds[j]] /\ w = [tables |-> w.tables, touched |-> w.touched, ofds |-> w.ofds, mems |-> w.mems]
    BY <1>1 DEF Typed
  <2> DEFINE f == w.ofds
             f2 == [f EXCEPT ![i] = o2]
  <2>2. g = [w EXCEPT !.ofds = f2]
    BY DEF SlotIs
  <2>3. f = [j \in 1 .. OFDS |-> f[j]]
    BY <2>1
  <2> HIDE DEF f
  <2>4. \A j \in 1 .. OFDS : f2[j] = IF j = i THEN o2 ELSE f[j]
    BY <2>3
  <2> HIDE DEF f2, g
  <2>5. g.ofds = f2
    BY <2>1, <2>2
  <2> QED BY <2>4, <2>5, SlotSame DEF f, g
<1> HIDE DEF d
<1>6. Even(x1, x)
  BY <1>1, <1>3 DEF Even, More
<1>7. y1 \in [Mems -> Int] /\ MEven(y1, y1)
  BY <1>4 DEF Good, MEven
<1> HIDE DEF g, x1
<1>8. Good(g, P, x, y1)
  <2> HIDE DEF y1
  <2> QED BY <1>1, <1>4, <1>6, <1>7, EvenGood
<1>9. v = MemIs(g, m, k) /\ g.mems[m] = o
  BY <1>5 DEF g
<1>10. Good(v, P, x, u)
  <2> HIDE DEF y1
  <2>1. Good(MemIs(g, m, k), P, x, u)
    BY <1>8, <1>9, MemGood
  <2> QED BY <1>9, <2>1
<1>11. MEven(u, y)
  <2> SUFFICES ASSUME NEW q \in Mems PROVE u[q] = y[q]
    BY DEF MEven
  <2>1. y[q] \in Int /\ y1[q] = y[q] + MBit(was, q) - MBit(o2, q) /\ y1[q] \in Int
    BY <1>1, <1>7 DEF MAdj
  <2>2. u[q] = IF q = m THEN y1[q] + (k.refs - o.refs) ELSE y1[q]
    BY <1>2, <1>7 DEF More
  <2>3. 0 \notin Mems
    BY Settings
  <2> HIDE DEF u, y1
  <2>4. CASE was.mem # 0
    BY <1>2, <2>1, <2>2, <2>4 DEF MBit
  <2>5. CASE was.mem = 0
    BY <1>2, <2>1, <2>2, <2>3, <2>5 DEF MBit
  <2> QED BY <2>4, <2>5
<1> HIDE DEF u
<1>12. Even(x, x)
  BY <1>1 DEF Even
<1>13. Good(v, P, x, y)
  BY <1>1, <1>10, <1>11, <1>12, EvenGood
<1>14. v.ofds = g.ofds /\ v.tables = g.tables /\ v.touched = g.touched
  BY <1>9, MemSame
<1> QED BY <1>5, <1>13, <1>14 DEF Still, InPlace

LEMMA KeptGood ==
  ASSUME setup \in Setups, NEW w, NEW P, NEW x, NEW y, Good(w, P, x, y), NEW i \in 1 .. OFDS, w.ofds[i].refs # 0, NEW name
  PROVE  Good(Kept(w, i, name), P, x, y) /\ InPlace(w, Kept(w, i, name))
<1> DEFINE o == w.ofds[i]
           m == IF o.mem # 0 THEN o.mem ELSE Min(FreeMems(w))
           was == w.mems[m]
           b == disk[name].bytes
           fresh == {k \div PAGE : k \in 0 .. Min({Len(b), o.size}) - 1} \ was.pages
           o2 == [o EXCEPT !.mem = m, !.name = NoName]
           n == IF o.mem = 0 THEN 1 ELSE was.refs
           data == [k \in DOMAIN was.data |-> IF k \div PAGE \in fresh /\ k < Len(b) THEN b[k + 1] ELSE was.data[k]]
           k2 == [refs |-> n, pages |-> was.pages \union fresh, data |-> data]
           v == MemIs(SlotIs(w, i, o2), m, k2)
<1>1. Kept(w, i, name) = IF o.mem = 0 /\ FreeMems(w) = {} THEN w ELSE v
  BY DEF Kept
<1>2. OfdOK(o) /\ o.refs # 0
  BY DEF Good, Typed
<1> HIDE DEF fresh, data
<1>3. CASE o.mem = 0 /\ FreeMems(w) = {}
  BY <1>1, <1>3 DEF Still, InPlace
<1>4. CASE ~(o.mem = 0 /\ FreeMems(w) = {})
  <2>1. m \in Mems /\ (o.mem = 0 => was.refs = 0)
    <3>1. CASE o.mem # 0
      BY <1>2, <3>1 DEF OfdOK
    <3>2. CASE o.mem = 0
      BY <1>4, <3>2, FreeMem
    <3> QED BY <3>1, <3>2
  <2>2. MemOK(was)
    BY <2>1 DEF Good, Typed
  <2>3. m = IF o.mem # 0 THEN o.mem ELSE m
    OBVIOUS
  <2> DEFINE h == o
  <2> HIDE DEF o, m, was
  <2>4. OfdOK(o2) /\ o2.refs = o.refs /\ o2.offset = o.offset /\ o2.mem = m
    <3>1. o = [refs |-> o.refs, offset |-> o.offset, size |-> o.size, mem |-> o.mem, name |-> o.name]
      BY <1>2 DEF OfdOK
    <3> DEFINE none == NoName
               a == [o EXCEPT !.mem = m]
               c == [a EXCEPT !.name = none]
    <3>2. o2 = c
      BY <3>1
    <3> HIDE DEF none
    <3>3. a = [refs |-> o.refs, offset |-> o.offset, size |-> o.size, mem |-> m, name |-> o.name]
      BY <3>1
    <3> HIDE DEF a
    <3>4. c = [refs |-> o.refs, offset |-> o.offset, size |-> o.size, mem |-> m, name |-> none]
      BY <3>3
    <3>5. none \in setup.Names \union {NoName}
      BY DEF none
    <3> HIDE DEF c, o2
    <3>6. OfdOK(c) /\ c.refs = o.refs /\ c.offset = o.offset /\ c.mem = m
      BY <1>2, <2>1, <3>4, <3>5 DEF OfdOK
    <3> QED BY <3>2, <3>6
  <2>5. MemOK(k2) /\ k2.refs = n
    <3>1. n \in Nat
      BY <2>2 DEF MemOK
    <3> HIDE DEF n
    <3> QED BY <3>1 DEF MemOK
  <2> HIDE DEF k2
  <2>6. IF o.mem = 0 THEN was.refs = 0 /\ k2.refs = 1 ELSE m = o.mem /\ k2.refs = was.refs
    BY <2>1, <2>3, <2>5
  <2> HIDE DEF o2, n
  <2>7. o = w.ofds[i] /\ was = w.mems[m]
    BY DEF o, was
  <2>8. v = MemIs(SlotIs(w, i, o2), m, k2)
    OBVIOUS
  <2> HIDE DEF v
  <2>9. Good(v, P, x, y) /\ InPlace(w, v)
    BY <2>1, <2>4, <2>5, <2>6, <2>7, <2>8, LinkedGood
  <2>10. Kept(w, i, name) = v
    BY <1>1, <1>4
  <2> QED BY <2>9, <2>10
<1> QED BY <1>3, <1>4

LEMMA KeptAllGood ==
  ASSUME setup \in Setups, NEW w, NEW P, NEW x, NEW y, Good(w, P, x, y), NEW S, \A i \in S : w.ofds[i].refs # 0, NEW name
  PROVE  Good(KeptAll(w, name, S), P, x, y) /\ InPlace(w, KeptAll(w, name, S))
<1> DEFINE N == OFDS
           Step(v, n) == IF n \in S THEN Kept(v, n, name) ELSE v
           Part(f, m) == f = [n \in 0 .. m |-> IF n = 0 THEN w ELSE Step(f[n - 1], n)]
           after == CHOOSE f : Part(f, N)
           R == {m \in 0 .. N : \E f : Part(f, m)}
<1>1. KeptAll(w, name, S) = after[N] /\ N \in Nat
  BY Settings DEF KeptAll
<1> HIDE DEF Step, N
<1>2. 0 \in R
  <2>1. Part([n \in 0 .. 0 |-> w], 0) /\ 0 \in 0 .. N
    BY <1>1
  <2> HIDE DEF Part
  <2> QED BY <2>1
<1>3. ASSUME NEW m \in 1 .. N, m - 1 \in R PROVE m \in R
  <2>1. PICK f : Part(f, m - 1)
    <3> HIDE DEF Part
    <3> QED BY <1>3
  <2> DEFINE h == [n \in 0 .. m |-> IF n = m THEN Step(f[m - 1], m) ELSE f[n]]
  <2>2. ASSUME NEW n \in 0 .. m PROVE h[n] = IF n = 0 THEN w ELSE Step(h[n - 1], n)
    <3>1. n # 0 => h[n - 1] = f[n - 1]
      OBVIOUS
    <3>2. CASE n = m
      BY <1>3, <3>1, <3>2
    <3>3. CASE n # m
      <4>1. n \in 0 .. m - 1 /\ h[n] = f[n]
        BY <3>3
      <4> HIDE DEF h
      <4> QED BY <2>1, <3>1, <4>1
    <3> QED BY <3>2, <3>3
  <2>3. h = [n \in 0 .. m |-> h[n]] /\ m \in 0 .. N
    BY <1>1
  <2> HIDE DEF h
  <2>4. Part(h, m)
    BY <2>2, <2>3
  <2> HIDE DEF Part
  <2> QED BY <2>3, <2>4
<1>4. Part(after, N)
  <2>1. Climbs(R, N)
    <3> HIDE DEF R
    <3> QED BY <1>2, <1>3 DEF Climbs
  <2>2. N \in R
    <3> HIDE DEF R
    <3> QED BY <1>1, <2>1, Climbing
  <2> HIDE DEF Part
  <2> QED BY <2>2
<1> HIDE DEF after, R
<1>5. after[0] = w /\ \A n \in 1 .. N : after[n] = Step(after[n - 1], n)
  BY <1>1, <1>4
<1> HIDE DEF Part
<1> DEFINE Ok(v, n) == Good(v, P, x, y) /\ InPlace(w, v)
<1>6. Ok(w, 0)
  BY DEF InPlace, Still
<1>7. ASSUME NEW n \in 1 .. N, NEW v, Ok(v, n - 1) PROVE Ok(Step(v, n), n)
  <2>1. n \in 1 .. OFDS
    BY DEF N
  <2> DEFINE z == Kept(v, n, name)
  <2>2. CASE n \in S
    <3>1. v.ofds[n].refs # 0
      BY <1>7, <2>1, <2>2 DEF InPlace
    <3>2. Good(z, P, x, y) /\ InPlace(v, z)
      BY <1>7, <2>1, <3>1, KeptGood
    <3>3. Step(v, n) = z
      BY <2>2 DEF Step
    <3> HIDE DEF z
    <3> QED BY <1>7, <3>2, <3>3 DEF InPlace, Still
  <2>3. CASE n \notin S
    <3>1. Step(v, n) = v
      BY <2>3 DEF Step
    <3> QED BY <1>7, <3>1
  <2> QED BY <2>2, <2>3
<1> HIDE DEF Ok
<1> DEFINE T == {n \in 0 .. N : Ok(after[n], n)}
<1>8. Ok(after[N], N)
  <2>1. 0 \in T
    BY <1>1, <1>5, <1>6
  <2>2. ASSUME NEW n \in 1 .. N, n - 1 \in T PROVE n \in T
    BY <1>1, <1>5, <1>7, <2>2
  <2>3. N \in T
    <3> HIDE DEF T
    <3>1. Climbs(T, N)
      BY <2>1, <2>2 DEF Climbs
    <3> QED BY <1>1, <3>1, Climbing
  <2> QED BY <2>3
<1> QED BY <1>1, <1>8 DEF Ok

\* In o2 the slots of S, which do not have object m in o, have it too.
Joined(o, o2, m, S) ==
  /\ \A i \in S : o[i].mem # m
  /\ \A i \in 1 .. OFDS : o2[i].mem = IF i \in S THEN m ELSE o[i].mem

LEMMA WithMemJoined ==
  ASSUME setup \in Setups, NEW o, NEW o2, NEW m, NEW S, S \subseteq 1 .. OFDS, Joined(o, o2, m, S)
  PROVE  Cardinality(WithMem(o2, m)) = Cardinality(WithMem(o, m)) + Cardinality(S) /\ Cardinality(S) \in Nat
<1> DEFINE A == WithMem(o, m)
           B == WithMem(o2, m)
<1>1. B = A \union S /\ A \intersect S = {}
  BY DEF WithMem, Joined
<1>2. IsFiniteSet(A) /\ Cardinality(A) \in Nat
  BY WithMemFinite
<1>3. IsFiniteSet(S) /\ Cardinality(S) \in Nat
  <2>1. IsFiniteSet(1 .. OFDS)
    BY Settings, FS_Interval
  <2> QED BY <2>1, FS_Subset, FS_CardinalityType
<1> HIDE DEF A, B
<1>4. Cardinality(A \union S) = Cardinality(A) + Cardinality(S) - Cardinality(A \intersect S)
  BY <1>2, <1>3, FS_Union
<1>5. Cardinality(A \intersect S) = 0
  BY <1>1, FS_EmptySet
<1>6. Cardinality(B) = Cardinality(A) + Cardinality(S)
  BY <1>1, <1>2, <1>3, <1>4, <1>5
<1> QED BY <1>3, <1>6 DEF A, B

\* A descriptor open for reading made one of memory.
LEMMA HandleViewed ==
  ASSUME NEW h, HandleOK(h), h.kind = "read", NEW size \in 0 .. MaxSize
  PROVE  LET k == [h EXCEPT !.kind = "mem", !.size = size]
         IN HandleOK(k) /\ k.ofd = h.ofd /\ k.kind = "mem" /\ k.id = h.id /\ k.offset = h.offset
<1> DEFINE mem == "mem"
           a == [h EXCEPT !.kind = mem]
           c == [a EXCEPT !.size = size]
           k == [h EXCEPT !.kind = mem, !.size = size]
<1>1. h = [kind |-> h.kind, ofd |-> h.ofd, offset |-> h.offset, size |-> h.size, start |-> h.start,
           cloexec |-> h.cloexec, id |-> h.id]
  BY DEF HandleOK
<1>a. mem \in {"none", "pipe", "read", "write", "mem"} /\ mem # "none"
  OBVIOUS
<1> HIDE DEF mem
<1>2. k = c
  BY <1>1
<1>3. a = [kind |-> mem, ofd |-> h.ofd, offset |-> h.offset, size |-> h.size, start |-> h.start,
           cloexec |-> h.cloexec, id |-> h.id]
  BY <1>1
<1> HIDE DEF a
<1>4. c = [kind |-> mem, ofd |-> h.ofd, offset |-> h.offset, size |-> size, start |-> h.start,
           cloexec |-> h.cloexec, id |-> h.id]
  BY <1>3
<1> HIDE DEF c, k
<1>5. HandleOK(c) /\ c.ofd = h.ofd /\ c.kind = mem /\ c.id = h.id /\ c.offset = h.offset
  BY <1>a, <1>4 DEF HandleOK
<1>6. HandleOK(k) /\ k.ofd = h.ofd /\ k.kind = mem /\ k.id = h.id /\ k.offset = h.offset
  BY <1>2, <1>5
<1> QED BY <1>6 DEF k, mem

\* A slot given memory.
LEMMA OfdViewed ==
  ASSUME NEW o, OfdOK(o), o.refs # 0, NEW m \in Mems, NEW size \in 0 .. MaxSize
  PROVE  LET k == [o EXCEPT !.mem = m, !.size = size]
         IN OfdOK(k) /\ k.refs = o.refs /\ k.offset = o.offset /\ k.mem = m
<1> DEFINE a == [o EXCEPT !.mem = m]
           c == [a EXCEPT !.size = size]
           k == [o EXCEPT !.mem = m, !.size = size]
<1>1. o = [refs |-> o.refs, offset |-> o.offset, size |-> o.size, mem |-> o.mem, name |-> o.name]
  BY DEF OfdOK
<1>2. k = c
  BY <1>1
<1>3. a = [refs |-> o.refs, offset |-> o.offset, size |-> o.size, mem |-> m, name |-> o.name]
  BY <1>1
<1> HIDE DEF a
<1>4. c = [refs |-> o.refs, offset |-> o.offset, size |-> size, mem |-> m, name |-> o.name]
  BY <1>3
<1> HIDE DEF c, k
<1>5. OfdOK(c) /\ c.refs = o.refs /\ c.offset = o.offset /\ c.mem = m
  BY <1>4 DEF OfdOK
<1>6. OfdOK(k) /\ k.refs = o.refs /\ k.offset = o.offset /\ k.mem = m
  BY <1>2, <1>5
<1> QED BY <1>6 DEF k

LEMMA ViewedGood ==
  ASSUME setup \in Setups, NEW w, NEW P, NEW x, NEW y, Good(w, P, x, y), NonNeg(x), DiskOK, NEW name \in setup.Names,
         NEW m \in Mems \union {0}
  PROVE  Good(Viewed(w, name, m), P, x, y)
<1> DEFINE size == Len(disk[name].bytes)
           S == Seen(w, name)
           New(h) == [h EXCEPT !.kind = "mem", !.size = size]
           NewOfd(o) == [o EXCEPT !.mem = m, !.size = size]
           t == [q \in Procs |-> [f \in Fds |-> IF IsView(w, name, q, f) THEN New(w.tables[q][f]) ELSE w.tables[q][f]]]
           o2 == [i \in 1 .. OFDS |-> IF i \in S THEN NewOfd(w.ofds[i]) ELSE w.ofds[i]]
           ms == w.mems
           old == ms[m]
           n == old.refs + Cardinality(S)
           more == [old EXCEPT !.refs = n]
           ms2 == [ms EXCEPT ![m] = more]
           v == [tables |-> t, touched |-> w.touched, ofds |-> o2, mems |-> ms2]
<1>1. Viewed(w, name, m) = IF m = 0 \/ disk[name].start = 0 THEN w ELSE v
  BY DEF Viewed, H
<1>2. CASE m = 0 \/ disk[name].start = 0
  BY <1>1, <1>2
<1>3. CASE ~(m = 0 \/ disk[name].start = 0)
  <2>1. m \in Mems /\ Typed(w) /\ size \in 0 .. MaxSize /\ m # 0 /\ 0 \notin Mems
    BY <1>3, Settings DEF Good, DiskOK
  <2> HIDE DEF size
  <2>2. ASSUME NEW q \in Procs, NEW f \in Fds
        PROVE  HandleOK(t[q][f]) /\ t[q][f].ofd = w.tables[q][f].ofd /\ (t[q][f].kind = "none" <=> w.tables[q][f].kind = "none")
    <3> DEFINE h == w.tables[q][f]
    <3>1. HandleOK(h)
      BY <2>1 DEF Typed
    <3>2. CASE IsView(w, name, q, f)
      <4>1. t[q][f] = New(h) /\ h.kind = "read"
        BY <3>2 DEF IsView, H
      <4> HIDE DEF h, t
      <4>2. HandleOK(New(h)) /\ New(h).ofd = h.ofd /\ New(h).kind # "none"
        BY <2>1, <3>1, <4>1, HandleViewed
      <4> HIDE DEF New
      <4>3. h.kind # "none"
        BY <4>1
      <4> QED BY <4>1, <4>2, <4>3 DEF h
    <3>3. CASE ~IsView(w, name, q, f)
      <4>1. t[q][f] = h
        BY <3>3
      <4> QED BY <3>1, <4>1
    <3> QED BY <3>2, <3>3
  <2>3. S \subseteq 1 .. OFDS /\ \A i \in S : w.ofds[i].mem = 0 /\ w.ofds[i].refs # 0
    <3>1. S \subseteq 1 .. OFDS
      BY DEF Seen
    <3>2. ASSUME NEW i \in S PROVE w.ofds[i].mem = 0 /\ w.ofds[i].refs # 0
      <4>1. i \in 1 .. OFDS /\ w.ofds[i].mem = 0
        BY DEF Seen
      <4>2. PICK q \in Procs : \E f \in Fds : w.tables[q][f].ofd = i
        BY DEF Seen, H
      <4>3. PICK f \in Fds : w.tables[q][f].ofd = i
        BY <4>2
      <4>4. x[i] >= 0
        BY <4>1 DEF NonNeg
      <4>5. w.ofds[i].refs > 0
        <5> HIDE DEF S
        <5> QED BY <4>1, <4>3, <4>4, RefHeld
      <4>6. w.ofds[i].refs # 0
        BY <4>5
      <4> QED BY <4>1, <4>6
    <3> QED BY <3>1, <3>2
  <2> HIDE DEF S
  <2>4. \A i \in 1 .. OFDS : /\ OfdOK(o2[i]) /\ o2[i].refs = w.ofds[i].refs
                             /\ o2[i].mem = IF i \in S THEN m ELSE w.ofds[i].mem
    <3> SUFFICES ASSUME NEW i \in 1 .. OFDS
                 PROVE  OfdOK(o2[i]) /\ o2[i].refs = w.ofds[i].refs /\ o2[i].mem = IF i \in S THEN m ELSE w.ofds[i].mem
      OBVIOUS
    <3> DEFINE o == w.ofds[i]
    <3>1. OfdOK(o)
      BY <2>1 DEF Typed
    <3>2. CASE i \in S
      <4>1. o2[i] = NewOfd(o) /\ o.refs # 0
        BY <2>3, <3>2
      <4> HIDE DEF o, o2
      <4>2. OfdOK(NewOfd(o)) /\ NewOfd(o).refs = o.refs /\ NewOfd(o).offset = o.offset /\ NewOfd(o).mem = m
        BY <2>1, <3>1, <4>1, OfdViewed
      <4> HIDE DEF NewOfd
      <4> QED BY <3>2, <4>1, <4>2 DEF o
    <3>3. CASE i \notin S
      BY <3>1, <3>3
    <3> QED BY <3>2, <3>3
  <2>5. Cardinality(WithMem(o2, m)) = Cardinality(WithMem(w.ofds, m)) + Cardinality(S) /\ Cardinality(S) \in Nat
    <3> DEFINE o == w.ofds
    <3>1. \A i \in S : o[i].mem # m
      BY <2>1, <2>3
    <3>2. \A i \in 1 .. OFDS : o2[i].mem = IF i \in S THEN m ELSE o[i].mem
      BY <2>4
    <3>a. Joined(o, o2, m, S) /\ S \subseteq 1 .. OFDS
      BY <2>3, <3>1, <3>2 DEF Joined
    <3> HIDE DEF o, o2
    <3>3. Cardinality(WithMem(o2, m)) = Cardinality(WithMem(o, m)) + Cardinality(S) /\ Cardinality(S) \in Nat
      BY <3>a, WithMemJoined
    <3> QED BY <3>3 DEF o
  <2>6. \A k \in Mems : k # m => WithMem(o2, k) = WithMem(w.ofds, k)
    <3> HIDE DEF o2
    <3> QED BY <2>1, <2>3, <2>4 DEF WithMem
  <2>7. MemOK(more) /\ more.refs = n /\ old.refs \in Nat
    <3>1. MemOK(old)
      BY <2>1 DEF Typed
    <3> DEFINE c == Cardinality(S)
    <3>a. c \in Nat
      BY <2>5
    <3> HIDE DEF old, c
    <3>b. old.refs \in Nat
      BY <3>1 DEF MemOK
    <3>c. old.refs + c \in Nat
      BY <3>a, <3>b
    <3>2. n \in Nat /\ old.refs \in Nat
      BY <3>b, <3>c DEF c
    <3> HIDE DEF n
    <3> QED BY <3>1, <3>2, MemRefs
  <2>8. ms2 = [k \in Mems |-> ms2[k]] /\ \A k \in Mems : ms2[k] = IF k = m THEN more ELSE ms[k]
    <3>1. ms = [k \in Mems |-> ms[k]]
      BY <2>1 DEF Typed
    <3> HIDE DEF ms, more
    <3> QED BY <3>1
  <2> HIDE DEF more, ms2
  <2>9. \A k \in Mems : MemOK(ms2[k])
    BY <2>1, <2>7, <2>8 DEF Typed
  <2>10. t = [q \in Procs |-> [f \in Fds |-> t[q][f]]] /\ o2 = [i \in 1 .. OFDS |-> o2[i]]
    OBVIOUS
  <2> HIDE DEF t, o2
  <2>11. v.tables = t /\ v.touched = w.touched /\ v.ofds = o2 /\ v.mems = ms2 /\ v = [tables |-> t, touched |-> w.touched, ofds |-> o2, mems |-> ms2]
    OBVIOUS
  <2> HIDE DEF v
  <2>12. Typed(v)
    BY <2>1, <2>2, <2>4, <2>8, <2>9, <2>10, <2>11 DEF Typed
  <2>13. Counts(v, x)
    <3>1. \A i : InTables(t, i) = InTables(w.tables, i)
      BY <2>2 DEF InTables
    <3> QED BY <2>4, <2>11, <3>1 DEF Good, Counts
  <2>14. MemCounts(v, y)
    <3> SUFFICES ASSUME NEW k \in Mems PROVE ms2[k].refs = Cardinality(WithMem(o2, k)) + y[k]
      BY <2>11 DEF MemCounts
    <3>1. ms[k].refs = Cardinality(WithMem(w.ofds, k)) + y[k] /\ y[k] \in Int /\ Cardinality(WithMem(w.ofds, k)) \in Nat
      BY WithMemFinite DEF Good, MemCounts
    <3>2. CASE k = m
      BY <2>5, <2>7, <2>8, <3>1, <3>2
    <3>3. CASE k # m
      BY <2>6, <2>8, <3>1, <3>3
    <3> QED BY <3>2, <3>3
  <2>15. Quiet(v, P)
    <3> SUFFICES ASSUME NEW q \in Procs \ P
                 PROVE  /\ \A f \in w.touched[q] : t[q][f].kind # "none"
                        /\ room[q] = 0 => \A f \in Fds : t[q][f].kind = "none"
      BY <2>11 DEF Quiet
    <3>1. w.touched[q] \subseteq Fds
      BY <2>1 DEF Typed
    <3> QED BY <2>2, <3>1 DEF Good, Quiet
  <2>16. Good(v, P, x, y)
    BY <2>12, <2>13, <2>14, <2>15 DEF Good
  <2> QED BY <1>1, <1>3, <2>16
<1> QED BY <1>2, <1>3

\* What a slot that was kept has is an object.
LEMMA KeptMemory ==
  ASSUME setup \in Setups, NEW g, Typed(g), NEW kept, kept \subseteq 1 .. OFDS
  PROVE  (IF kept = {} THEN 0 ELSE g.ofds[Min(kept)].mem) \in Mems \union {0}
<1>1. CASE kept # {}
  <2>1. kept \subseteq Nat
    BY Settings
  <2>2. Min(kept) \in 1 .. OFDS
    BY <1>1, <2>1, MinIn
  <2>3. OfdOK(g.ofds[Min(kept)])
    BY <2>2 DEF Typed
  <2> QED BY <1>1, <2>3 DEF OfdOK
<1> QED BY <1>1

LEMMA UnlinkStep == ASSUME OpenInv, setup' = setup, NEW p \in Procs, NEW name \in setup.Names, Unlink(p, name) PROVE OpenInv'
<1> DEFINE S == {i \in 1 .. OFDS : ofds[i].refs > 0 /\ ofds[i].name = name}
           g == KeptAll(World, name, S)
           kept == {i \in S : g.ofds[i].name = NoName}
           views == {r \in Procs \X Fds : LET h == tables[r[1]][r[2]] IN
                      h.kind = "read" /\ h.start = disk[name].start /\ truth.node[h.id] # truth.names[name]}
           m == IF kept = {} THEN 0 ELSE g.ofds[Min(kept)].mem
           w == Viewed(g, name, m)
           t == [truth EXCEPT !.names[name] = 0]
           met == If(Cardinality(S) > 1, "copies") \union If(kept # S, "nomem") \union If(views # {}, "place")
                    \union If(\E i \in S : ofds[i].size # Len(disk[name].bytes), "size")
           x == Outside(passing)
           P == {p}
           y == Zero
<1>1. Done(p, w, t, met) /\ disk' = [disk EXCEPT ![name] = NoFile] /\ passing' = passing
  BY ZenonT(30) DEF Unlink
<1>2. /\ setup \in Setups /\ Good(World, P, x, y) /\ p \in P /\ NonNeg(x) /\ DiskOK /\ MaxSize \in Nat
      /\ PassingOK' /\ Outside(passing') = x
  BY ZenonT(30), <1>1, Begins, Settings, PassingStill
<1>3. S \subseteq 1 .. OFDS /\ \A i \in S : World.ofds[i].refs # 0
  BY DEF World
<1> HIDE DEF x, y, P, met, t, S
<1>4. Good(g, P, x, y)
  BY <1>2, <1>3, KeptAllGood
<1> HIDE DEF g
<1>5. m \in Mems \union {0}
  <2>1. kept \subseteq 1 .. OFDS
    BY <1>3
  <2>2. Typed(g)
    BY <1>4 DEF Good
  <2> HIDE DEF kept
  <2> QED BY <1>2, <2>1, <2>2, KeptMemory
<1> HIDE DEF m
<1>6. Good(w, P, x, y)
  BY <1>2, <1>4, <1>5, ViewedGood
<1> HIDE DEF w
<1>7. DiskOK'
  <2> DEFINE f == NoFile
  <2>1. f.bytes = <<>>
    BY DEF NoFile
  <2>2. Len(f.bytes) \in 0 .. MaxSize
    <3>1. Len(<<>>) = 0
      OBVIOUS
    <3> HIDE DEF f
    <3> QED BY <1>2, <2>1, <3>1
  <2>3. disk' = [disk EXCEPT ![name] = f]
    BY <1>1
  <2> HIDE DEF f
  <2> QED BY <1>2, <2>2, <2>3, DiskPut
<1> QED BY <1>1, <1>2, <1>6, <1>7, DoneGood DEF x, y, P

LEMMA RenameStep ==
  ASSUME OpenInv, setup' = setup, NEW p \in Procs, NEW from \in setup.Names, NEW to \in setup.Names, Rename(p, from, to) PROVE OpenInv'
<1> DEFINE t == [truth EXCEPT !.names[to] = truth.names[from], !.names[from] = 0]
           met == If(\E i \in 1 .. OFDS : ofds[i].refs > 0 /\ ofds[i].name \in {from, to}, "renamed")
           x == Outside(passing)
<1>1. Done(p, World, t, met) /\ disk' = [disk EXCEPT ![to] = disk[from], ![from] = NoFile] /\ passing' = passing
  BY DEF Rename
<1>2. /\ setup \in Setups /\ Good(World, {p}, x, Zero) /\ DiskOK /\ MaxSize \in Nat /\ PassingOK' /\ Outside(passing') = x
  BY <1>1, Begins, Settings, PassingStill
<1> HIDE DEF t, met, x
<1>3. DiskOK'
  <2> DEFINE f == NoFile
             d == disk
             k == d[from]
             e == [d EXCEPT ![to] = k]
             e2 == [e EXCEPT ![from] = f]
  <2>1. f.bytes = <<>>
    BY DEF NoFile
  <2>2. Len(f.bytes) \in 0 .. MaxSize
    <3>1. Len(<<>>) = 0
      OBVIOUS
    <3> HIDE DEF f
    <3> QED BY <1>2, <2>1, <3>1
  <2>3. d = [n \in setup.Names |-> d[n]] /\ \A n \in setup.Names : Len(d[n].bytes) \in 0 .. MaxSize
    BY <1>2 DEF DiskOK
  <2>4. disk' = e2
    BY <1>1
  <2> HIDE DEF f, d
  <2>5. Len(k.bytes) \in 0 .. MaxSize
    BY <2>3
  <2> HIDE DEF k
  <2>6. e = [n \in setup.Names |-> e[n]] /\ \A n \in setup.Names : e[n] = IF n = to THEN k ELSE d[n]
    BY <2>3
  <2> HIDE DEF e
  <2>7. e2 = [n \in setup.Names |-> e2[n]] /\ \A n \in setup.Names : e2[n] = IF n = from THEN f ELSE e[n]
    BY <2>6
  <2> HIDE DEF e2
  <2>8. \A n \in setup.Names : Len(e2[n].bytes) \in 0 .. MaxSize
    BY <2>2, <2>3, <2>5, <2>6, <2>7
  <2>9. disk' = [n \in setup.Names |-> disk'[n]] /\ \A n \in setup.Names : Len(disk'[n].bytes) \in 0 .. MaxSize
    BY <2>4, <2>7, <2>8
  <2> QED BY <2>9 DEF DiskOK, MaxSize
<1> QED BY <1>1, <1>2, <1>3, DoneGood

LEMMA TruncateStep == ASSUME OpenInv, setup' = setup, NEW p \in Procs, NEW name \in setup.Names, Truncate(p, name) PROVE OpenInv'
<1> DEFINE node == IF disk[name].there THEN truth.names[name] ELSE NewNode
           t == [truth EXCEPT !.names[name] = node, !.bytes[node] = <<>>]
           x == Outside(passing)
<1>1. Done(p, World, t, {}) /\ disk' = [disk EXCEPT ![name] = EmptyFile] /\ passing' = passing
  BY DEF Truncate
<1>2. /\ setup \in Setups /\ Good(World, {p}, x, Zero) /\ DiskOK /\ MaxSize \in Nat /\ PassingOK' /\ Outside(passing') = x
  BY <1>1, Begins, Settings, PassingStill
<1> HIDE DEF t, x
<1>3. DiskOK'
  <2> DEFINE f == EmptyFile
  <2>1. f.bytes = <<>>
    BY DEF EmptyFile
  <2>2. Len(f.bytes) \in 0 .. MaxSize
    <3>1. Len(<<>>) = 0
      OBVIOUS
    <3> HIDE DEF f
    <3> QED BY <1>2, <2>1, <3>1
  <2>3. disk' = [disk EXCEPT ![name] = f]
    BY <1>1
  <2> HIDE DEF f
  <2> QED BY <1>2, <2>2, <2>3, DiskPut
<1> QED BY <1>1, <1>2, <1>3, DoneGood

----------------------------------------------------------------------------
(* Calls that wait.                                                        *)

LEMMA SelectStep == ASSUME OpenInv, setup' = setup, NEW p \in Procs, Select(p) PROVE OpenInv'
<1> DEFINE S == Used(World, p)
           W == World
           w == PickedAll(W, p, S)
           x == Outside(passing)
           P == {p}
           y == Zero
           none == {}
<1>1. Becomes(w) /\ room' = room /\ room[p] > 0 /\ disk' = disk /\ passing' = passing
  BY DEF Select, Calls
<1>2. /\ setup \in Setups /\ Good(W, P, x, y) /\ p \in P /\ room \in [Procs -> Nat] /\ PassingOK' /\ DiskOK' /\ Outside(passing') = x
  BY <1>1, Begins, PassingStill, DiskStill
<1>3. S \subseteq Fds /\ \A f \in S : W.tables[p][f].kind # "none"
  BY DEF Used
<1>4. Good(W, none, x, y) /\ none \subseteq P
  BY DEF OpenInv
<1>5. P = {p}
  OBVIOUS
<1> HIDE DEF S, x, y, P, W, none
<1>6. Good(w, P, x, y) /\ Seen1(W, w, p, S)
  BY <1>2, <1>3, PickedAllGood
<1> HIDE DEF w
<1>7. W.touched[p] \subseteq Fds /\ \A f \in W.touched[p] : W.tables[p][f].kind # "none"
  BY <1>4 DEF Good, Typed, Quiet, none
<1>8. \A f \in w.touched[p] : w.tables[p][f].kind # "none"
  BY <1>3, <1>6, <1>7 DEF Seen1
<1>9. room[p] # 0
  BY <1>1
<1>10. Quiet(w, none)
  BY <1>5, <1>6, <1>8, <1>9 DEF Good, Quiet, none
<1>11. Good(w, none, x, y) /\ none \subseteq Procs /\ LeftBy(w, none, room')
  BY <1>6, <1>10 DEF Good, none, LeftBy
<1>12. room' \in [Procs -> Nat] /\ \A q \in Procs \ none : room'[q] = room[q]
  BY <1>1, <1>2
<1> QED BY <1>1, <1>2, <1>11, <1>12, GoodNext DEF y

LEMMA StillStep ==
  ASSUME OpenInv, setup' = setup, tables' = tables, room' = room, touched' = touched, ofds' = ofds, mems' = mems, disk' = disk,
         passing' = passing
  PROVE  OpenInv'
<1> DEFINE W == World
           x == Outside(passing)
           y == Zero
           none == {}
<1>1. setup \in Setups /\ Good(W, none, x, y) /\ room \in [Procs -> Nat] /\ PassingOK' /\ DiskOK' /\ Outside(passing') = x
  BY Begins, PassingStill, DiskStill DEF OpenInv
<1>2. Becomes(W)
  BY DEF Becomes, World
<1>3. none \subseteq Procs /\ LeftBy(W, none, room') /\ room' \in [Procs -> Nat] /\ \A q \in Procs \ none : room'[q] = room[q]
  BY <1>1 DEF LeftBy
<1> HIDE DEF W, x, none
<1> QED BY <1>1, <1>2, <1>3, GoodNext

LEMMA ReadWaitStep == ASSUME OpenInv, setup' = setup, NEW p \in Procs, NEW fd \in Fds, ReadWait(p, fd) PROVE OpenInv'
BY StillStep DEF ReadWait

LEMMA WaitDoneStep == ASSUME OpenInv, setup' = setup, NEW p \in Procs, WaitDone(p) PROVE OpenInv'
<1> DEFINE met == If(waiting[p].call = "read" /\ waiting[p].room # room[p], "freed")
<1>1. Done(p, World, truth, met) /\ disk' = disk /\ passing' = passing
  BY DEF WaitDone
<1>2. Good(World, {p}, Outside(passing), Zero)
  BY Begins
<1> HIDE DEF met
<1> QED BY <1>1, <1>2, DoneStill

----------------------------------------------------------------------------
(* The specification.                                                      *)

LEMMA InitGood == ASSUME NEW s \in Setups, InitFor(s) PROVE OpenInv
<1> DEFINE W == World
           x == Outside(passing)
<1>1. /\ setup = s /\ passing = <<>>
      /\ tables = [p \in Procs |-> [fd \in Fds |-> IF p = s.first /\ fd = 0 THEN Pipe ELSE NoHandle]]
      /\ room = [p \in Procs |-> IF p = s.first THEN s.FIRST_FILES ELSE 0]
      /\ touched = [p \in Procs |-> {}] /\ ofds = [i \in 1 .. OFDS |-> NoOfd] /\ mems = [m \in Mems |-> NoMem]
  BY DEF InitFor, Procs, Fds, PROGRAM_FILES, OFDS, Mems
<1>2. setup \in Setups
  BY <1>1
<1>3. HandleOK(NoHandle) /\ NoHandle.ofd = 0 /\ NoHandle.kind = "none" /\ HandleOK(Pipe) /\ Pipe.ofd = 0
  BY <1>2, NoHandleOK
<1>4. OfdOK(NoOfd) /\ NoOfd.refs = 0 /\ NoOfd.mem = 0
  <2> DEFINE none == NoName
  <2>1. NoOfd = [refs |-> 0, offset |-> 0, size |-> 0, mem |-> 0, name |-> none] /\ none = NoName
    BY DEF NoOfd
  <2>2. none \in setup.Names \union {NoName} /\ 0 \in 0 .. MaxSize
    BY <1>2, Settings
  <2> HIDE DEF none
  <2> QED BY <2>1, <2>2 DEF OfdOK
<1>5. MemOK(NoMem) /\ NoMem.refs = 0
  <2> DEFINE none == {}
             data == [i \in 0 .. MaxSize - 1 |-> 0]
  <2>1. NoMem = [refs |-> 0, pages |-> none, data |-> data]
    BY DEF NoMem
  <2> HIDE DEF none, data
  <2> QED BY <2>1 DEF MemOK
<1>6. W = [tables |-> tables, touched |-> touched, ofds |-> ofds, mems |-> mems]
  BY DEF World
<1> HIDE DEF W
<1>7. \A p \in Procs, fd \in Fds : HandleOK(W.tables[p][fd]) /\ W.tables[p][fd].ofd = 0
  BY <1>1, <1>3, <1>6
<1>8. \A i \in 1 .. OFDS : W.ofds[i] = NoOfd
  BY <1>1, <1>6
<1>9. \A m \in Mems : W.mems[m] = NoMem
  BY <1>1, <1>6
<1>10. \A p \in Procs : W.touched[p] = {}
  BY <1>1, <1>6
<1>11. Typed(W)
  <2>1. /\ W = [tables |-> W.tables, touched |-> W.touched, ofds |-> W.ofds, mems |-> W.mems]
        /\ W.tables = tables /\ W.touched = touched /\ W.ofds = ofds /\ W.mems = mems
    BY <1>6
  <2>2. W.tables = [p \in Procs |-> [fd \in Fds |-> W.tables[p][fd]]]
    BY <1>1, <2>1
  <2>3. W.touched = [p \in Procs |-> W.touched[p]]
    BY <1>1, <2>1
  <2>4. W.ofds = [i \in 1 .. OFDS |-> W.ofds[i]]
    BY <1>1, <2>1
  <2>5. W.mems = [m \in Mems |-> W.mems[m]]
    BY <1>1, <2>1
  <2> QED BY <1>4, <1>5, <1>7, <1>8, <1>9, <1>10, <2>1, <2>2, <2>3, <2>4, <2>5 DEF Typed
<1>12. x \in [1 .. OFDS -> Int] /\ Zero \in [Mems -> Int] /\ (\A i \in 1 .. OFDS : x[i] = 0) /\ \A m \in Mems : Zero[m] = 0
  BY <1>1 DEF Outside, Zero
<1> HIDE DEF x
<1>13. Counts(W, x)
  <2> SUFFICES ASSUME NEW i \in 1 .. OFDS PROVE W.ofds[i].refs = Cardinality(InTables(W.tables, i)) + x[i]
    BY DEF Counts
  <2>1. InTables(W.tables, i) = {}
    BY <1>7 DEF InTables
  <2> QED BY <1>4, <1>8, <1>12, <2>1, FS_EmptySet
<1>14. MemCounts(W, Zero)
  <2> SUFFICES ASSUME NEW m \in Mems PROVE W.mems[m].refs = Cardinality(WithMem(W.ofds, m)) + Zero[m]
    BY DEF MemCounts
  <2>1. m # 0
    BY <1>2, Settings
  <2>2. WithMem(W.ofds, m) = {}
    BY <1>4, <1>8, <2>1 DEF WithMem
  <2>3. W.mems[m].refs = 0
    BY <1>5, <1>9
  <2>4. Cardinality(WithMem(W.ofds, m)) = 0
    BY <2>2, FS_EmptySet
  <2>5. Zero[m] = 0
    BY <1>12
  <2> HIDE DEF W
  <2> QED BY <2>3, <2>4, <2>5
<1>15. s.FIRST_FILES \in Nat \ {0} /\ MaxSize \in Nat /\ BeginsFit(setup)
  BY <1>1, <1>2, Settings
<1>16. Quiet(W, {})
  <2> SUFFICES ASSUME NEW p \in Procs, room[p] = 0 PROVE \A fd \in Fds : W.tables[p][fd].kind = "none"
    BY <1>10 DEF Quiet
  <2>1. p # s.first
    BY <1>1, <1>15
  <2> QED BY <1>1, <1>3, <1>6, <2>1
<1>17. Good(W, {}, x, Zero)
  BY <1>11, <1>12, <1>13, <1>14, <1>16 DEF Good
<1>18. room \in [Procs -> Nat]
  BY <1>1, <1>15
<1>19. PassingOK
  BY <1>1 DEF PassingOK
<1>20. DiskOK
  <2> DEFINE nodes == 1 .. Cardinality(Ids) + Cardinality(s.Names)
             node == CHOOSE f \in [s.Names -> nodes] : IsInjective(f)
             d == disk
             Begun(n) == [there |-> TRUE, start |-> node[n], bytes |-> s.begin[n]]
  <2>1. d = [n \in s.Names |-> IF n \in DOMAIN s.begin THEN Begun(n) ELSE NoFile]
    BY DEF InitFor
  <2>2. \A n : Begun(n).bytes = s.begin[n]
    OBVIOUS
  <2> HIDE DEF node, d
  <2>3. NoFile.bytes = <<>>
    BY DEF NoFile
  <2>4. Len(NoFile.bytes) \in 0 .. MaxSize
    <3>1. Len(<<>>) = 0
      OBVIOUS
    <3> QED BY <1>15, <2>3, <3>1
  <2>5. \A n \in DOMAIN s.begin : Len(s.begin[n]) \in 0 .. MaxSize
    BY <1>1, <1>15 DEF BeginsFit, MaxSize
  <2> HIDE DEF Begun
  <2>6. d = [n \in s.Names |-> d[n]] /\ \A n \in s.Names : d[n] = IF n \in DOMAIN s.begin THEN Begun(n) ELSE NoFile
    BY <2>1
  <2>7. \A n \in s.Names : Len(d[n].bytes) \in 0 .. MaxSize
    BY <2>2, <2>4, <2>5, <2>6
  <2> QED BY <1>1, <2>6, <2>7 DEF DiskOK, d
<1> QED BY <1>2, <1>17, <1>18, <1>19, <1>20 DEF OpenInv, W, x

LEMMA OpensStep == ASSUME OpenInv, NEW p \in Procs, Opens(p) PROVE OpenInv'
<1>1. ASSUME NEW n \in setup.Names, NEW c \in BOOLEAN, OpenRead(p, n, c) PROVE OpenInv'
  <2>1. setup' = setup
    BY <1>1 DEF OpenRead, Same
  <2> QED BY <1>1, <2>1, OpenReadStep
<1>2. ASSUME NEW n \in setup.Names, NEW how \in setup.Hows, OpenWrite(p, n, how) PROVE OpenInv'
  <2>1. setup' = setup
    BY <1>2 DEF OpenWrite, Same
  <2> QED BY <1>2, <2>1, OpenWriteStep
<1>3. ASSUME OpenOther(p) PROVE OpenInv'
  <2>1. setup' = setup
    BY <1>3 DEF OpenOther, Same
  <2> QED BY <1>3, <2>1, OpenOtherStep
<1>4. ASSUME MemfdCreate(p) PROVE OpenInv'
  <2>1. setup' = setup
    BY <1>4 DEF MemfdCreate, Same
  <2> QED BY <1>4, <2>1, MemfdCreateStep
<1>5. ASSUME NEW fd \in Fds, Reopen(p, fd) PROVE OpenInv'
  <2>1. setup' = setup
    BY <1>5 DEF Reopen, Same
  <2> QED BY <1>5, <2>1, ReopenStep
<1> DEFINE A1 == \E n \in setup.Names, c \in BOOLEAN : OpenRead(p, n, c)
           A2 == \E n \in setup.Names, how \in setup.Hows : OpenWrite(p, n, how)
           A5 == \E fd \in Fds : Reopen(p, fd)
<1>6. A1 \/ A2 \/ OpenOther(p) \/ MemfdCreate(p) \/ A5
  BY DEF Opens
<1>7. (A1 => OpenInv') /\ (A2 => OpenInv') /\ (A5 => OpenInv')
  BY <1>1, <1>2, <1>5
<1> HIDE DEF A1, A2, A5
<1> QED BY <1>3, <1>4, <1>6, <1>7

LEMMA CopiesStep == ASSUME OpenInv, NEW p \in Procs, Copies(p) PROVE OpenInv'
<1>1. ASSUME NEW fd \in Fds, Close(p, fd) PROVE OpenInv'
  <2>1. setup' = setup
    BY <1>1 DEF Close, Same
  <2> QED BY <1>1, <2>1, CloseStep
<1>2. ASSUME NEW fd \in Fds, Send(p, fd) PROVE OpenInv'
  <2>1. setup' = setup
    BY <1>2 DEF Send, Same
  <2> QED BY <1>2, <2>1, SendStep
<1>3. ASSUME NEW fd \in Fds, NEW mark \in BOOLEAN, CloseRange(p, fd, mark) PROVE OpenInv'
  <2>1. setup' = setup
    BY <1>3 DEF CloseRange, Same
  <2> QED BY <1>3, <2>1, CloseRangeStep
<1>4. ASSUME NEW fd \in Fds, NEW mark \in BOOLEAN, Dup(p, fd, mark) PROVE OpenInv'
  <2>1. setup' = setup
    BY <1>4 DEF Dup, Same
  <2> QED BY <1>4, <2>1, DupStep
<1>5. ASSUME NEW fd \in Fds, NEW mark \in BOOLEAN, SetCloexec(p, fd, mark) PROVE OpenInv'
  <2>1. setup' = setup
    BY <1>5 DEF SetCloexec, Same
  <2> QED BY <1>5, <2>1, SetCloexecStep
<1>6. ASSUME NEW fd \in Fds, NEW to \in Fds, DupTo(p, fd, to) PROVE OpenInv'
  <2>1. setup' = setup
    BY <1>6 DEF DupTo, Same
  <2> QED BY <1>6, <2>1, DupToStep
<1>7. ASSUME NEW child \in Procs, Fork(p, child) PROVE OpenInv'
  <2>1. setup' = setup
    BY <1>7 DEF Fork, Same
  <2> QED BY <1>7, <2>1, ForkStep
<1>8. ASSUME Exec(p) PROVE OpenInv'
  <2>1. setup' = setup
    BY <1>8 DEF Exec
  <2> QED BY <1>8, <2>1, ExecStep
<1>9. ASSUME End(p) PROVE OpenInv'
  <2>1. setup' = setup
    BY <1>9 DEF End
  <2> QED BY <1>9, <2>1, EndStep
<1>10. ASSUME Receive(p) PROVE OpenInv'
  <2>1. setup' = setup
    BY <1>10 DEF Receive, Same
  <2> QED BY <1>10, <2>1, ReceiveStep
<1> DEFINE A1 == \E fd \in Fds : Close(p, fd) \/ Send(p, fd)
           A2 == \E fd \in Fds, mark \in BOOLEAN : CloseRange(p, fd, mark) \/ Dup(p, fd, mark) \/ SetCloexec(p, fd, mark)
           A3 == \E fd, to \in Fds : DupTo(p, fd, to)
           A4 == \E child \in Procs : Fork(p, child)
<1>11. A1 \/ A2 \/ A3 \/ A4 \/ Exec(p) \/ End(p) \/ Receive(p)
  BY DEF Copies
<1>12. (A1 => OpenInv') /\ (A3 => OpenInv') /\ (A4 => OpenInv')
  BY <1>1, <1>2, <1>6, <1>7
<1>13. A2 => OpenInv'
  BY <1>3, <1>4, <1>5
<1> HIDE DEF A1, A2, A3, A4
<1> QED BY <1>8, <1>9, <1>10, <1>11, <1>12, <1>13

LEMMA BytesStep == ASSUME OpenInv, NEW p \in Procs, Bytes(p) PROVE OpenInv'
<1>1. ASSUME NEW fd \in Fds, NEW n \in setup.Sizes, Read(p, fd, n) PROVE OpenInv'
  <2>1. setup' = setup
    BY <1>1 DEF Read, Same
  <2> QED BY <1>1, <2>1, ReadStep
<1>2. ASSUME NEW fd \in Fds, NEW n \in setup.Sizes, Readv(p, fd, n) PROVE OpenInv'
  <2>1. setup' = setup
    BY <1>2 DEF Readv, Same
  <2> QED BY <1>2, <2>1, ReadvStep
<1>3. ASSUME NEW fd \in Fds, NEW n \in setup.Sizes, Ftruncate(p, fd, n) PROVE OpenInv'
  <2>1. setup' = setup
    BY <1>3 DEF Ftruncate, Same
  <2> QED BY <1>3, <2>1, FtruncateStep
<1>4. ASSUME NEW fd \in Fds, NEW n \in setup.Sizes, NEW at \in setup.Ats, Pread(p, fd, at, n) PROVE OpenInv'
  <2>1. setup' = setup
    BY <1>4 DEF Pread, Same
  <2> QED BY <1>4, <2>1, PreadStep
<1>5. ASSUME NEW fd \in Fds, NEW n \in setup.Sizes \ {0}, NEW v \in setup.Vals, Write(p, fd, n, v) PROVE OpenInv'
  <2>1. setup' = setup
    BY <1>5 DEF Write, Same
  <2> QED BY <1>5, <2>1, WriteStep
<1>6. ASSUME NEW fd \in Fds, NEW v \in setup.Vals, Writev(p, fd, v) PROVE OpenInv'
  <2>1. setup' = setup
    BY <1>6 DEF Writev, Same
  <2> QED BY <1>6, <2>1, WritevStep
<1>7. ASSUME NEW fd \in Fds, NEW n \in setup.Sizes \ {0}, NEW v \in setup.Vals, NEW at \in setup.Ats, Pwrite(p, fd, at, n, v)
      PROVE  OpenInv'
  <2>1. setup' = setup
    BY <1>7 DEF Pwrite, Same
  <2> QED BY <1>7, <2>1, PwriteStep
<1>8. ASSUME NEW fd \in Fds, NEW whence \in {"set", "cur", "end"}, NEW by \in setup.Seeks, Lseek(p, fd, whence, by) PROVE OpenInv'
  <2>1. setup' = setup
    BY <1>8 DEF Lseek, Same
  <2> QED BY <1>8, <2>1, LseekStep
<1> DEFINE A1 == \E fd \in Fds, n \in setup.Sizes : Read(p, fd, n) \/ Readv(p, fd, n) \/ Ftruncate(p, fd, n)
           A2 == \E fd \in Fds, n \in setup.Sizes, at \in setup.Ats : Pread(p, fd, at, n)
           A3 == \E fd \in Fds, n \in setup.Sizes \ {0}, v \in setup.Vals : Write(p, fd, n, v)
           A4 == \E fd \in Fds, v \in setup.Vals : Writev(p, fd, v)
           A5 == \E fd \in Fds, n \in setup.Sizes \ {0}, v \in setup.Vals, at \in setup.Ats : Pwrite(p, fd, at, n, v)
           A6 == \E fd \in Fds, whence \in {"set", "cur", "end"}, by \in setup.Seeks : Lseek(p, fd, whence, by)
<1>9. A1 \/ A2 \/ A3 \/ A4 \/ A5 \/ A6
  BY DEF Bytes
<1>10. (A1 => OpenInv') /\ (A2 => OpenInv')
  BY <1>1, <1>2, <1>3, <1>4
<1>11. (A3 => OpenInv') /\ (A4 => OpenInv')
  BY <1>5, <1>6
<1>12. (A5 => OpenInv') /\ (A6 => OpenInv')
  BY <1>7, <1>8
<1> HIDE DEF A1, A2, A3, A4, A5, A6
<1> QED BY <1>9, <1>10, <1>11, <1>12

LEMMA NamesStep == ASSUME OpenInv, NEW p \in Procs, Names(p) PROVE OpenInv'
<1>1. ASSUME NEW n \in setup.Names, Unlink(p, n) PROVE OpenInv'
  <2>1. setup' = setup
    BY ZenonT(30), <1>1 DEF Unlink, Same
  <2> QED BY <1>1, <2>1, UnlinkStep
<1>2. ASSUME NEW n \in setup.Names, Truncate(p, n) PROVE OpenInv'
  <2>1. setup' = setup
    BY <1>2 DEF Truncate, Same
  <2> QED BY <1>2, <2>1, TruncateStep
<1>3. ASSUME NEW from \in setup.Names, NEW to \in setup.Names, Rename(p, from, to) PROVE OpenInv'
  <2>1. setup' = setup
    BY <1>3 DEF Rename, Same
  <2> QED BY <1>3, <2>1, RenameStep
<1> DEFINE A1 == \E n \in setup.Names : Unlink(p, n) \/ Truncate(p, n)
           A2 == \E from, to \in setup.Names : Rename(p, from, to)
<1>4. A1 \/ A2
  BY DEF Names
<1>5. (A1 => OpenInv') /\ (A2 => OpenInv')
  BY <1>1, <1>2, <1>3
<1> HIDE DEF A1, A2
<1> QED BY <1>4, <1>5

LEMMA WaitsStep == ASSUME OpenInv, NEW p \in Procs, Waits(p) PROVE OpenInv'
<1>1. ASSUME Select(p) PROVE OpenInv'
  <2>1. setup' = setup
    BY <1>1 DEF Select
  <2> QED BY <1>1, <2>1, SelectStep
<1>2. ASSUME NEW fd \in Fds, ReadWait(p, fd) PROVE OpenInv'
  <2>1. setup' = setup
    BY <1>2 DEF ReadWait
  <2> QED BY <1>2, <2>1, ReadWaitStep
<1>3. ASSUME WaitDone(p) PROVE OpenInv'
  <2>1. setup' = setup
    BY <1>3 DEF WaitDone
  <2> QED BY <1>3, <2>1, WaitDoneStep
<1> DEFINE A == \E fd \in Fds : ReadWait(p, fd)
<1>4. Select(p) \/ A \/ WaitDone(p)
  BY DEF Waits
<1>5. A => OpenInv'
  BY <1>2
<1> HIDE DEF A
<1> QED BY <1>1, <1>3, <1>4, <1>5

LEMMA OneHolder ==
  ASSUME PassingOK, NEW i \in 1 .. OFDS
  PROVE  Outside(passing)[i] = Cardinality({k \in DOMAIN passing : passing[k].ofd = i})
<1> DEFINE S == {k \in DOMAIN passing : passing[k].ofd = i}
<1>1. CASE passing = <<>>
  <2>1. S = {}
    BY <1>1
  <2> QED BY <1>1, <2>1, FS_EmptySet DEF Outside
<1>2. CASE passing # <<>>
  <2>1. DOMAIN passing = {1}
    <3>1. passing = <<passing[1]>>
      BY <1>2 DEF PassingOK
    <3> DEFINE h == passing[1]
    <3> HIDE DEF h
    <3>2. DOMAIN <<h>> = {1}
      OBVIOUS
    <3>3. passing = <<h>>
      BY <3>1 DEF h
    <3> QED BY <3>2, <3>3
  <2>2. CASE passing[1].ofd = i
    <3>1. S = {1}
      BY <2>1, <2>2
    <3> QED BY <1>2, <2>2, <3>1, FS_Singleton DEF Outside
  <2>3. CASE passing[1].ofd # i
    <3>1. S = {}
      BY <2>1, <2>3
    <3> QED BY <1>2, <2>3, <3>1, FS_EmptySet DEF Outside
  <2> QED BY <2>2, <2>3
<1> QED BY <1>1, <1>2

LEMMA OpenInvCounts == ASSUME OpenInv PROVE OpenCounted
<1>1. /\ Good(World, {}, Outside(passing), Zero) /\ PassingOK /\ Typed(World)
      /\ tables = World.tables /\ touched = World.touched /\ ofds = World.ofds /\ mems = World.mems
  BY DEF OpenInv, Good, World
<1> DEFINE W == World
<1> HIDE DEF W
<1>2. \A p \in Procs, fd \in Fds : HandleOK(tables[p][fd]) /\ (fd \in touched[p] => tables[p][fd].kind # "none")
  BY <1>1 DEF Typed, Good, Quiet
<1>3. \A i \in 1 .. OFDS : ofds[i].refs = Cardinality(InTables(tables, i)) + Outside(passing)[i] /\ OfdOK(ofds[i])
  BY <1>1 DEF Good, Counts, Typed
<1>4. \A m \in Mems : mems[m].refs = Cardinality(WithMem(ofds, m)) /\ MemOK(mems[m])
  <2> SUFFICES ASSUME NEW m \in Mems PROVE mems[m].refs = Cardinality(WithMem(ofds, m)) /\ MemOK(mems[m])
    OBVIOUS
  <2>1. mems[m].refs = Cardinality(WithMem(ofds, m)) + Zero[m] /\ MemOK(mems[m])
    BY <1>1 DEF Good, MemCounts, Typed
  <2>2. Zero[m] = 0
    BY DEF Zero
  <2>3. Cardinality(WithMem(ofds, m)) \in Nat
    BY WithMemFinite DEF OpenInv
  <2> QED BY <2>1, <2>2, <2>3
<1>5. \A p \in Procs : room[p] = 0 => Used(World, p) = {}
  BY <1>1 DEF Good, Quiet, Used
<1>6. \A i \in 1 .. OFDS : Holders(i) = Cardinality(InTables(tables, i)) + Outside(passing)[i]
  BY <1>1, OneHolder DEF Holders, InTables
<1>7. \A i \in 1 .. OFDS : ofds[i].refs = Holders(i) /\ (ofds[i].refs = 0 => ofds[i].mem = 0 /\ ofds[i].name = NoName)
  BY <1>3, <1>6 DEF OfdOK
<1>8. \A p \in Procs, fd \in Fds : LET h == tables[p][fd] IN
       /\ h.kind \in {"none", "pipe", "read", "write", "mem"} /\ h.ofd \in 0 .. OFDS
       /\ h.offset \in 0 .. MaxSize /\ h.size \in 0 .. MaxSize
       /\ fd \in touched[p] => h.kind # "none"
  BY <1>2 DEF HandleOK
<1> QED BY <1>4, <1>5, <1>7, <1>8 DEF OpenCounted, WithMem

\* Every descriptor of every table is of a slot there is, within its file's bound; a slot is counted for
\* as many descriptors as have it, in the tables and on their way, and a memory object for as many slots: so
\* neither is freed while something has it, or kept when nothing does (ofd_drop, mobj_free).
THEOREM OpenFilesAreCounted == Spec => []OpenCounted
<1>1. Init => OpenInv
  BY InitGood DEF Init
<1>2. OpenInv /\ [Next]_vars => OpenInv'
  <2> SUFFICES ASSUME OpenInv, [Next]_vars PROVE OpenInv'
    OBVIOUS
  <2>1. CASE Next
    <3>1. PICK p \in Procs : Opens(p) \/ Copies(p) \/ Bytes(p) \/ Names(p) \/ Waits(p)
      BY <2>1 DEF Next
    <3> QED BY <3>1, OpensStep, CopiesStep, BytesStep, NamesStep, WaitsStep
  <2>2. CASE UNCHANGED vars
    BY <2>2, StillStep DEF vars
  <2> QED BY <2>1, <2>2
<1>3. OpenInv => OpenCounted
  BY OpenInvCounts
<1> QED BY <1>1, <1>2, <1>3, PTL DEF Spec

----------------------------------------------------------------------------
(* Where descriptors are.                                                  *)

\* The places a descriptor may be in: the tables, and on its way (the empty place).
Spots == (Procs \X Fds) \union {<<>>}
Hands(w, k) == [r \in Spots |-> IF r = <<>> THEN k ELSE w.tables[r[1]][r[2]]]
Out(q) == IF q = <<>> THEN NoHandle ELSE q[1]

\* A descriptor of an opening has a slot, or is open for reading and has not been looked at.
Proper(h) ==
  /\ h.id \in Ids \union {0}
  /\ h.id = 0 <=> h.kind \in {"none", "pipe"}
  /\ h.id = 0 => h.ofd = 0
  /\ h.id # 0 /\ h.ofd = 0 => h.kind = "read"

\* Two descriptors of an opening have the same slot, and two of a slot are of the same opening.
Tied(h, g) ==
  /\ h.id # 0 /\ h.id = g.id => h.ofd # 0 /\ h.ofd = g.ofd
  /\ h.ofd # 0 /\ h.ofd = g.ofd => h.id = g.id

\* What the next look at h finds, with the slots o, is where its opening is: T is what truth.pos says.
RightAt(h, o, T) == h.id # 0 => IF h.ofd = 0 THEN h.offset = T[h.id] ELSE o[h.ofd].offset = T[h.id]

Whole(V, o, T) ==
  /\ \A r \in Spots : Proper(V[r]) /\ RightAt(V[r], o, T)
  /\ \A r \in Spots : \A s \in Spots \ {r} : Tied(V[r], V[s])

\* One place is another, and may be where h is.
Alter(V, Z, r, h) == Z[r] = h /\ \A s \in Spots \ {r} : Z[s] = V[s]
TiedToAll(V, r, h) == \A s \in Spots \ {r} : Tied(V[s], h)

LEMMA TiedBack == ASSUME NEW h, NEW g, Tied(h, g) PROVE Tied(g, h)
BY DEF Tied

LEMMA AlterWhole ==
  ASSUME NEW V, NEW o, NEW T, Whole(V, o, T), NEW Z, NEW r \in Spots, NEW h, Alter(V, Z, r, h),
         Proper(h), RightAt(h, o, T), TiedToAll(V, r, h)
  PROVE  Whole(Z, o, T)
<1>1. ASSUME NEW s \in Spots PROVE Proper(Z[s]) /\ RightAt(Z[s], o, T)
  BY DEF Whole, Alter
<1>2. ASSUME NEW s \in Spots, NEW u \in Spots \ {s} PROVE Tied(Z[s], Z[u])
  <2>1. CASE s = r
    <3>1. Z[s] = h /\ Z[u] = V[u] /\ u \in Spots \ {r}
      BY <2>1 DEF Alter
    <3>2. Tied(V[u], h)
      BY <3>1 DEF TiedToAll
    <3> QED BY <3>1, <3>2, TiedBack
  <2>2. CASE u = r
    <3>1. Z[u] = h /\ Z[s] = V[s] /\ s \in Spots \ {r}
      BY <2>2 DEF Alter
    <3> QED BY <3>1 DEF TiedToAll
  <2>3. CASE s # r /\ u # r
    BY <2>3 DEF Alter, Whole
  <2> QED BY <2>1, <2>2, <2>3
<1> QED BY <1>1, <1>2 DEF Whole

\* The same openings and slots; where there is no slot, the same position.
Kin(h, g) == g.id = h.id /\ g.ofd = h.ofd /\ (h.ofd = 0 => g.offset = h.offset)
AllKin(V, Z) == \A r \in Spots : Kin(V[r], Z[r]) /\ Proper(Z[r])
\* Slots that something has are where they were.
SlotsKept(V, o, n) == \A r \in Spots : V[r].ofd # 0 => n[V[r].ofd].offset = o[V[r].ofd].offset

LEMMA KinWhole ==
  ASSUME NEW V, NEW o, NEW T, Whole(V, o, T), NEW Z, NEW n, AllKin(V, Z), SlotsKept(V, o, n)
  PROVE  Whole(Z, n, T)
<1>1. ASSUME NEW r \in Spots PROVE Proper(Z[r]) /\ RightAt(Z[r], n, T)
  <2>1. Kin(V[r], Z[r]) /\ Proper(Z[r]) /\ RightAt(V[r], o, T) /\ (V[r].ofd # 0 => n[V[r].ofd].offset = o[V[r].ofd].offset)
    BY DEF Whole, AllKin, SlotsKept
  <2> QED BY <2>1 DEF RightAt, Kin
<1>2. ASSUME NEW r \in Spots, NEW s \in Spots \ {r} PROVE Tied(Z[r], Z[s])
  <2>1. Tied(V[r], V[s]) /\ Kin(V[r], Z[r]) /\ Kin(V[s], Z[s])
    BY DEF Whole, AllKin
  <2> QED BY <2>1 DEF Tied, Kin
<1> QED BY <1>1, <1>2 DEF Whole

LEMMA KinSame == ASSUME NEW V, NEW o, NEW T, Whole(V, o, T) PROVE AllKin(V, V) /\ SlotsKept(V, o, o)
BY DEF Whole, AllKin, Kin, SlotsKept

\* Openings there are, as they were.
Agrees(V, T, U) == \A r \in Spots : V[r].id # 0 => U[V[r].id] = T[V[r].id]
LEMMA AgreesWhole ==
  ASSUME NEW V, NEW o, NEW T, Whole(V, o, T), NEW U, Agrees(V, T, U) PROVE Whole(V, o, U)
BY DEF Whole, RightAt, Agrees

\* Of a slot nothing has, the position is anything.
NobodyHas(V, i) == \A r \in Spots : V[r].ofd # i
\* A place with nothing in it.
Empty(h) == h.id = 0 /\ h.ofd = 0
LEMMA EmptyTied == ASSUME NEW h, Empty(h), NEW g, Proper(g) PROVE Tied(g, h)
BY DEF Empty, Tied, Proper

\* The same opening with a slot nothing has, where it was.
LEMMA SlottedWhole ==
  ASSUME NEW V, NEW o, NEW T, Whole(V, o, T), NEW Z, NEW r \in Spots, NEW h, Alter(V, Z, r, h), Proper(h),
         V[r].ofd = 0, V[r].id # 0, h.id = V[r].id, h.ofd # 0, NobodyHas(V, h.ofd),
         o[h.ofd].offset = V[r].offset
  PROVE  Whole(Z, o, T)
<1>1. TiedToAll(V, r, h)
  <2> SUFFICES ASSUME NEW u \in Spots \ {r} PROVE Tied(V[u], h)
    BY DEF TiedToAll
  <2>1. Tied(V[r], V[u]) /\ V[u].ofd # h.ofd
    BY DEF Whole, NobodyHas
  <2> QED BY <2>1 DEF Tied
<1>2. RightAt(h, o, T)
  <2>1. RightAt(V[r], o, T)
    BY DEF Whole
  <2> QED BY <2>1 DEF RightAt
<1> QED BY <1>1, <1>2, AlterWhole

\* The positions of slots nothing has made others.
LEMMA FreeWhole ==
  ASSUME NEW V, NEW o, NEW T, Whole(V, o, T), NEW n, SlotsKept(V, o, n) PROVE Whole(V, n, T)
BY KinWhole, KinSame

----------------------------------------------------------------------------
(* The places of a world.                                                  *)

LEMMA SpotIs ==
  /\ <<>> \in Spots /\ \A q \in Procs, f \in Fds : <<q, f>> \in Spots /\ <<q, f>> # <<>>
  /\ \A r \in Spots : r = <<>> \/ \E q \in Procs, f \in Fds : r = <<q, f>>
<1>1. \A q \in Procs, f \in Fds : <<q, f>> \in Spots /\ <<q, f>> # <<>>
  BY DEF Spots
<1>2. \A r \in Procs \X Fds : \E q \in Procs, f \in Fds : r = <<q, f>>
  OBVIOUS
<1> QED BY <1>1, <1>2 DEF Spots

LEMMA HandsIs ==
  ASSUME NEW w, NEW k
  PROVE  /\ Hands(w, k)[<<>>] = k
         /\ \A q \in Procs, f \in Fds : Hands(w, k)[<<q, f>>] = w.tables[q][f]
<1>1. ASSUME NEW q \in Procs, NEW f \in Fds PROVE Hands(w, k)[<<q, f>>] = w.tables[q][f]
  <2> DEFINE r == <<q, f>>
  <2>1. r \in Spots /\ r # <<>> /\ r[1] = q /\ r[2] = f
    BY SpotIs
  <2> HIDE DEF r
  <2>2. Hands(w, k)[r] = w.tables[r[1]][r[2]]
    BY <2>1 DEF Hands
  <2> QED BY <2>1, <2>2 DEF r
<1>2. <<>> \in Spots
  BY SpotIs
<1>3. Hands(w, k)[<<>>] = k
  BY <1>2 DEF Hands
<1> QED BY <1>1, <1>3

\* The places of a world that differ in what p has at fd, and of one that differs in what is on its way.
LEMMA HasAlters ==
  ASSUME NEW w, NEW v, NEW p \in Procs, NEW fd \in Fds, Same1(w, v, p, fd), NEW k
  PROVE  Alter(Hands(w, k), Hands(v, k), <<p, fd>>, v.tables[p][fd]) /\ <<p, fd>> \in Spots
<1>1. Hands(v, k)[<<p, fd>>] = v.tables[p][fd] /\ <<p, fd>> \in Spots
  BY HandsIs, SpotIs
<1>2. ASSUME NEW s \in Spots \ {<<p, fd>>} PROVE Hands(v, k)[s] = Hands(w, k)[s]
  <2>1. CASE s = <<>>
    BY <2>1, HandsIs
  <2>2. CASE s # <<>>
    <3>1. PICK q \in Procs, f \in Fds : s = <<q, f>>
      BY <2>2, SpotIs
    <3>2. q # p \/ f # fd
      BY <3>1
    <3>3. v.tables[q][f] = w.tables[q][f]
      BY <3>2 DEF Same1
    <3> QED BY <3>1, <3>3, HandsIs
  <2> QED BY <2>1, <2>2
<1> QED BY <1>1, <1>2 DEF Alter

LEMMA OutAlters ==
  ASSUME NEW w, NEW v, v.tables = w.tables, NEW k, NEW h
  PROVE  Alter(Hands(w, k), Hands(v, h), <<>>, h) /\ <<>> \in Spots
<1>1. Hands(v, h)[<<>>] = h /\ <<>> \in Spots
  BY HandsIs, SpotIs
<1>2. ASSUME NEW s \in Spots \ {<<>>} PROVE Hands(v, h)[s] = Hands(w, k)[s]
  <2>1. PICK q \in Procs, f \in Fds : s = <<q, f>>
    BY SpotIs
  <2> QED BY <2>1, HandsIs
<1> QED BY <1>1, <1>2 DEF Alter

----------------------------------------------------------------------------
(* What holds of a world in the middle of a call of p.                     *)

\* Every opening is where T says, whoever has looked at what.
Held(w, k, T) == Whole(Hands(w, k), w.ofds, T)

\* What p has loaded is where T says, but for what is in U, which it loaded before the call.
Current(w, p, U, T) ==
  \A f \in w.touched[p] \ U : w.tables[p][f].id # 0 => w.tables[p][f].offset = T[w.tables[p][f].id]
Fair(w, k, p, U, T) == Held(w, k, T) /\ Current(w, p, U, T)

\* Whatever has a slot has one that is not free.
Live(w, k) ==
  \A r \in Spots : /\ Hands(w, k)[r].ofd \in 0 .. OFDS
                   /\ Hands(w, k)[r].ofd # 0 => w.ofds[Hands(w, k)[r].ofd].refs # 0
\* What is on its way is counted.
Carried(k, x) == k.ofd # 0 => x[k.ofd] > 0
Sure(w, P, x, y, k) == Good(w, P, x, y) /\ NonNeg(x) /\ MNonNeg(y) /\ HandleOK(k) /\ Carried(k, x)

LEMMA GoodLive ==
  ASSUME setup \in Setups, NEW w, NEW P, NEW x, NEW y, NEW k, Sure(w, P, x, y, k) PROVE Live(w, k)
<1> SUFFICES ASSUME NEW r \in Spots
             PROVE  /\ Hands(w, k)[r].ofd \in 0 .. OFDS
                    /\ Hands(w, k)[r].ofd # 0 => w.ofds[Hands(w, k)[r].ofd].refs # 0
  BY DEF Live
<1>0. OFDS \in Nat /\ \A i \in 0 .. OFDS : i # 0 => i \in 1 .. OFDS
  BY Settings
<1>1. CASE r = <<>>
  <2>1. Hands(w, k)[r] = k
    BY <1>1, HandsIs
  <2>2. k.ofd \in 0 .. OFDS
    BY DEF Sure, HandleOK
  <2>3. ASSUME k.ofd # 0 PROVE w.ofds[k.ofd].refs # 0
    <3> DEFINE i == k.ofd
               A == InTables(w.tables, i)
    <3>1. i \in 1 .. OFDS
      BY <1>0, <2>2, <2>3
    <3> HIDE DEF i
    <3>2. Cardinality(A) \in Nat
      BY InTablesFinite
    <3>3. w.ofds[i].refs = Cardinality(A) + x[i] /\ x[i] \in Int
      BY <3>1 DEF Sure, Good, Counts
    <3>4. x[i] > 0
      BY <2>3 DEF Sure, Carried, i
    <3> HIDE DEF A
    <3>5. w.ofds[i].refs # 0
      BY <3>2, <3>3, <3>4
    <3> QED BY <3>5 DEF i
  <2> QED BY <2>1, <2>2, <2>3
<1>2. CASE r # <<>>
  <2>1. PICK q \in Procs, f \in Fds : r = <<q, f>>
    BY <1>2, SpotIs
  <2> DEFINE h == w.tables[q][f]
  <2>2. Hands(w, k)[r] = h
    BY <2>1, HandsIs
  <2>3. HandleOK(h)
    BY DEF Sure, Good, Typed
  <2>4. h.ofd \in 0 .. OFDS
    BY <2>3 DEF HandleOK
  <2>5. ASSUME h.ofd # 0 PROVE w.ofds[h.ofd].refs # 0
    <3>1. h.ofd \in 1 .. OFDS
      BY <1>0, <2>4, <2>5
    <3>2. x[h.ofd] >= 0 /\ Good(w, P, x, y)
      BY <3>1 DEF Sure, NonNeg
    <3>3. w.ofds[h.ofd].refs > 0
      BY <3>1, <3>2, RefHeld
    <3> QED BY <3>3
  <2> HIDE DEF h
  <2> QED BY <2>2, <2>4, <2>5
<1> QED BY <1>1, <1>2

LEMMA LiveFree ==
  ASSUME NEW w, NEW k, Live(w, k), NEW i \in 1 .. OFDS, w.ofds[i].refs = 0 PROVE NobodyHas(Hands(w, k), i)
<1> SUFFICES ASSUME NEW r \in Spots PROVE Hands(w, k)[r].ofd # i
  BY DEF NobodyHas
<1>1. i # 0
  OBVIOUS
<1> QED BY <1>1 DEF Live

LEMMA HeldAt ==
  ASSUME NEW w, NEW k, NEW T, Held(w, k, T), NEW q \in Procs, NEW f \in Fds
  PROVE  Proper(w.tables[q][f]) /\ RightAt(w.tables[q][f], w.ofds, T)
<1>1. <<q, f>> \in Spots /\ Hands(w, k)[<<q, f>>] = w.tables[q][f]
  BY SpotIs, HandsIs
<1> QED BY <1>1 DEF Held, Whole

LEMMA HeldOut == ASSUME NEW w, NEW k, NEW T, Held(w, k, T) PROVE Proper(k) /\ RightAt(k, w.ofds, T)
<1>1. <<>> \in Spots /\ Hands(w, k)[<<>>] = k
  BY SpotIs, HandsIs
<1> QED BY <1>1 DEF Held, Whole

\* The tables are the same, and the slots that are not free are where they were.
Steady(w, v) == \A i \in 1 .. OFDS : v.ofds[i].refs # 0 => v.ofds[i].offset = w.ofds[i].offset
LEMMA SameHands == ASSUME NEW w, NEW v, v.tables = w.tables, NEW k PROVE Hands(v, k) = Hands(w, k)
BY DEF Hands

LEMMA SteadySlots ==
  ASSUME setup \in Setups, NEW w, NEW v, v.tables = w.tables, Steady(w, v), NEW k, Live(v, k)
  PROVE  SlotsKept(Hands(w, k), w.ofds, v.ofds)
<1> SUFFICES ASSUME NEW r \in Spots, Hands(w, k)[r].ofd # 0
             PROVE  v.ofds[Hands(w, k)[r].ofd].offset = w.ofds[Hands(w, k)[r].ofd].offset
  BY DEF SlotsKept
<1> DEFINE i == Hands(w, k)[r].ofd
<1>1. i \in 0 .. OFDS /\ i # 0 /\ v.ofds[i].refs # 0
  BY SameHands DEF Live
<1> HIDE DEF i
<1>2. i \in 1 .. OFDS
  BY <1>1, Settings
<1> QED BY <1>1, <1>2 DEF Steady, i

LEMMA StillHeld ==
  ASSUME setup \in Setups, NEW w, NEW v, v.tables = w.tables, Steady(w, v), NEW k, Live(v, k), NEW T, Held(w, k, T)
  PROVE  Held(v, k, T)
<1>1. Whole(Hands(w, k), v.ofds, T)
  BY SteadySlots, FreeWhole DEF Held
<1> QED BY <1>1, SameHands DEF Held

LEMMA StillFair ==
  ASSUME setup \in Setups, NEW w, NEW v, Still(w, v), Steady(w, v), NEW k, Live(v, k),
         NEW T, NEW p, NEW U, Fair(w, k, p, U, T)
  PROVE  Fair(v, k, p, U, T)
<1>1. v.tables = w.tables /\ v.touched = w.touched /\ Held(w, k, T) /\ Current(w, p, U, T)
  BY DEF Still, Fair
<1>2. Held(v, k, T)
  BY <1>1, StillHeld
<1>3. Current(v, p, U, T)
  BY <1>1 DEF Current
<1> QED BY <1>2, <1>3 DEF Fair

----------------------------------------------------------------------------
(* A look, and what it leaves.                                             *)

LEMMA HandleSlotted ==
  ASSUME NEW h, HandleOK(h), NEW i, NEW k, k = [h EXCEPT !.ofd = i]
  PROVE  k.ofd = i /\ k.id = h.id /\ k.offset = h.offset /\ k.kind = h.kind
BY DEF HandleOK

LEMMA CurrentAt ==
  ASSUME NEW w, NEW v, NEW p \in Procs, NEW fd, Same1(w, v, p, fd), w.touched[p] \subseteq Fds, v.touched[p] \subseteq w.touched[p] \union {fd},
         NEW U, NEW T, Current(w, p, U, T),
         fd \in v.touched[p] \ U /\ v.tables[p][fd].id # 0 => v.tables[p][fd].offset = T[v.tables[p][fd].id]
  PROVE  Current(v, p, U, T)
<1> SUFFICES ASSUME NEW f \in v.touched[p] \ U, v.tables[p][f].id # 0 PROVE v.tables[p][f].offset = T[v.tables[p][f].id]
  BY DEF Current
<1>1. CASE f = fd
  BY <1>1
<1>2. CASE f # fd
  <2>1. f \in w.touched[p] \ U /\ f \in Fds
    BY <1>2
  <2>2. v.tables[p][f] = w.tables[p][f]
    BY <1>2, <2>1 DEF Same1
  <2> QED BY <2>1, <2>2 DEF Current
<1> QED BY <1>1, <1>2

LEMMA SlottedFair ==
  ASSUME setup \in Setups, NEW w, NEW P, NEW x, NEW y, NEW k, Sure(w, P, x, y, k), NEW p \in P, p \in Procs, NEW fd \in Fds,
         NEW U, NEW T, Fair(w, k, p, U, T)
  PROVE  LET g == Slotted(w, p, fd)
         IN /\ Sure(g, P, x, y, k) /\ Fair(g, k, p, U, T)
            /\ g.tables[p][fd].id = w.tables[p][fd].id /\ g.tables[p][fd].offset = w.tables[p][fd].offset
<1> DEFINE h == w.tables[p][fd]
           slot == Min(FreeOfds(w))
           o == [refs |-> 1, offset |-> h.offset, size |-> h.size, mem |-> 0, name |-> NoName]
           e == [h EXCEPT !.ofd = slot]
           v == SlotIs(w, slot, o)
           g == Slotted(w, p, fd)
<1>0. Good(w, P, x, y) /\ Held(w, k, T) /\ Current(w, p, U, T)
  BY DEF Sure, Fair
<1>1. Typed(w) /\ HandleOK(h) /\ w.touched[p] \subseteq Fds
  BY <1>0 DEF Good, Typed
<1>2. Good(g, P, x, y) /\ Same1(w, g, p, fd) /\ g.touched = w.touched
  BY <1>0, SlottedGood
<1>3. Sure(g, P, x, y, k)
  BY <1>2 DEF Sure
<1>4. CASE Fresh(w, h)
  <2>1. h.ofd = 0 /\ h.kind \in {"read", "write"} /\ FreeOfds(w) # {}
    BY <1>4 DEF Fresh, OfdKind
  <2>2. slot \in 1 .. OFDS /\ w.ofds[slot].refs = 0
    BY <1>1, <2>1, FreeSlot
  <2>3. g = Has(v, p, fd, e)
    BY <1>4 DEF Slotted, H, Opened
  <2>4. v.tables = w.tables /\ v.touched = w.touched /\ v.mems = w.mems
    BY SlotSame
  <2>5. o.offset = h.offset
    OBVIOUS
  <2> HIDE DEF slot, o
  <2>6. v.ofds = [w.ofds EXCEPT ![slot] = o] /\ w.ofds = [i \in 1 .. OFDS |-> w.ofds[i]]
    BY <1>1 DEF SlotIs, Typed
  <2>7. v.ofds[slot].offset = h.offset /\ \A i \in 1 .. OFDS : i # slot => v.ofds[i] = w.ofds[i]
    BY <2>2, <2>5, <2>6
  <2>8. e.ofd = slot /\ e.id = h.id /\ e.offset = h.offset /\ e.kind = h.kind
    <3> HIDE DEF h
    <3> QED BY <1>1, HandleSlotted
  <2> HIDE DEF v, e
  <2>9. Live(w, k)
    BY GoodLive
  <2>10. NobodyHas(Hands(w, k), slot)
    BY <2>2, <2>9, LiveFree
  <2>11. SlotsKept(Hands(w, k), w.ofds, v.ofds)
    <3> SUFFICES ASSUME NEW r \in Spots, Hands(w, k)[r].ofd # 0
                 PROVE  v.ofds[Hands(w, k)[r].ofd].offset = w.ofds[Hands(w, k)[r].ofd].offset
      BY DEF SlotsKept
    <3> DEFINE i == Hands(w, k)[r].ofd
    <3>1. i \in 0 .. OFDS /\ i # 0 /\ i # slot
      BY <2>9, <2>10 DEF Live, NobodyHas
    <3> HIDE DEF i
    <3>2. i \in 1 .. OFDS
      BY <3>1, Settings
    <3> QED BY <2>7, <3>1, <3>2 DEF i
  <2>12. Whole(Hands(w, k), v.ofds, T)
    BY <1>0, <2>11, FreeWhole DEF Held
  <2>13. Typed(g) /\ g.ofds = v.ofds /\ g.tables[p][fd] = e
    <3> DEFINE n == [w.ofds EXCEPT ![slot] = o]
    <3>1. w.tables = [q \in Procs |-> [f \in Fds |-> w.tables[q][f]]]
      BY <1>1 DEF Typed
    <3>2. w = [tables |-> w.tables, touched |-> w.touched, ofds |-> w.ofds, mems |-> w.mems]
      BY <1>1 DEF Typed
    <3>3. v = [w EXCEPT !.ofds = n]
      BY DEF SlotIs, v
    <3> HIDE DEF n
    <3>4. v.ofds = n
      BY <3>2, <3>3
    <3>5. v = [w EXCEPT !.ofds = v.ofds] /\ w.tables = [q \in Procs |-> [f \in Fds |-> w.tables[q][f]]]
      BY <3>1, <3>3, <3>4
    <3>6. g = [v EXCEPT !.tables = [w.tables EXCEPT ![p][fd] = e]]
      BY <2>3, <2>4 DEF Has
    <3> DEFINE t == [w.tables EXCEPT ![p][fd] = e]
    <3>7. t[p][fd] = e
      <4> DEFINE tabs == w.tables
      <4>1. tabs = [q \in Procs |-> [f \in Fds |-> tabs[q][f]]]
        BY <3>5
      <4> HIDE DEF tabs
      <4> QED BY <4>1 DEF tabs
    <3> HIDE DEF t, g
    <3>8. g.tables = t /\ g.ofds = v.ofds
      BY <3>5, <3>2, <3>6 DEF t
    <3> QED BY <1>2, <3>7, <3>8 DEF Good
  <2>14. Alter(Hands(w, k), Hands(g, k), <<p, fd>>, e) /\ <<p, fd>> \in Spots
    <3> HIDE DEF g
    <3> QED BY <1>2, <2>13, HasAlters
  <2>15. Hands(w, k)[<<p, fd>>] = h
    BY HandsIs
  <2>16. Proper(h)
    BY <1>0, HeldAt
  <2>17. h.id # 0 /\ Proper(e)
    BY <2>1, <2>2, <2>8, <2>16 DEF Proper
  <2>18. Held(g, k, T)
    <3> DEFINE V == Hands(w, k)
               Z == Hands(g, k)
               r == <<p, fd>>
    <3>1. V[r] = h /\ Alter(V, Z, r, e) /\ r \in Spots /\ Whole(V, v.ofds, T) /\ NobodyHas(V, e.ofd)
      BY <2>8, <2>10, <2>12, <2>14, <2>15
    <3>2. e.ofd # 0 /\ e.ofd = slot
      BY <2>2, <2>8
    <3> HIDE DEF V, Z, r, g, h
    <3>3. Whole(Z, v.ofds, T)
      BY <2>1, <2>7, <2>8, <2>17, <3>1, <3>2, SlottedWhole
    <3> QED BY <2>13, <3>3 DEF Held, Z
  <2>19. Current(g, p, U, T)
    <3> HIDE DEF g
    <3>1. fd \in g.touched[p] \ U /\ g.tables[p][fd].id # 0 => g.tables[p][fd].offset = T[g.tables[p][fd].id]
      BY <1>0, <1>2, <2>8, <2>13 DEF Current
    <3> QED BY <1>0, <1>1, <1>2, <3>1, CurrentAt
  <2> HIDE DEF g
  <2> QED BY <1>3, <2>8, <2>13, <2>18, <2>19 DEF Fair, g
<1>5. CASE ~Fresh(w, h)
  <2>1. g = w
    BY <1>5 DEF Slotted, H
  <2> HIDE DEF g
  <2> QED BY <1>3, <2>1 DEF g
<1> QED BY <1>4, <1>5

\* What a look at fd gives is of the same opening, and is where that is.
Known(v, p, fd, U, T) ==
  fd \notin U /\ v.tables[p][fd].id # 0 => v.tables[p][fd].offset = T[v.tables[p][fd].id]

LEMMA SettledKnown ==
  ASSUME NEW w, NEW k, NEW p \in Procs, NEW fd \in Fds, NEW U, NEW T, Fair(w, k, p, U, T), Settled(w, p, fd)
  PROVE  Known(w, p, fd, U, T)
<1>1. RightAt(w.tables[p][fd], w.ofds, T)
  BY HeldAt DEF Fair
<1> QED BY <1>1 DEF Known, Settled, RightAt, Fair, Current

LEMMA PickedFair ==
  ASSUME setup \in Setups, NEW w, NEW P, NEW x, NEW y, NEW k, Sure(w, P, x, y, k), NEW p \in P, p \in Procs, NEW fd \in Fds,
         NEW U, NEW T, Fair(w, k, p, U, T)
  PROVE  LET g == Picked(w, p, fd)
         IN /\ Sure(g, P, x, y, k) /\ Fair(g, k, p, U, T) /\ Known(g, p, fd, U, T) /\ Looks(w, g, p, fd)
            /\ g.tables[p][fd].id = w.tables[p][fd].id
            /\ fd \in w.touched[p] => g.tables[p][fd].offset = w.tables[p][fd].offset
<1> DEFINE g == Slotted(w, p, fd)
           h == g.tables[p][fd]
           o == g.ofds[h.ofd]
           e == [h EXCEPT !.offset = o.offset, !.size = o.size]
           v == Has(g, p, fd, e)
           z == Picked(w, p, fd)
<1>0. Good(w, P, x, y) /\ Held(w, k, T) /\ Current(w, p, U, T)
  BY DEF Sure, Fair
<1>1. /\ Sure(g, P, x, y, k) /\ Fair(g, k, p, U, T)
      /\ h.id = w.tables[p][fd].id /\ h.offset = w.tables[p][fd].offset
  BY SlottedFair
<1>2. g.touched = w.touched
  BY <1>0, SlottedGood
<1>3. Good(z, P, x, y) /\ Looks(w, z, p, fd)
  BY <1>0, PickedGood
<1>4. Sure(z, P, x, y, k)
  BY <1>3 DEF Sure
<1>5. z = IF h.ofd = 0 \/ fd \in g.touched[p] THEN g ELSE Looked(v, p, g.touched[p] \union {fd})
  BY DEF Picked, H
<1> HIDE DEF g
<1>6. CASE h.ofd = 0 \/ fd \in g.touched[p]
  <2>1. z = g
    BY <1>5, <1>6
  <2> HIDE DEF z
  <2>2. Fair(z, k, p, U, T) /\ z.tables[p][fd].id = w.tables[p][fd].id /\ z.tables[p][fd].offset = w.tables[p][fd].offset
    BY <1>1, <2>1
  <2>3. Known(z, p, fd, U, T)
    BY <1>3, <2>2, SettledKnown DEF Looks
  <2> QED BY <1>3, <1>4, <2>2, <2>3 DEF z
<1>7. CASE ~(h.ofd = 0 \/ fd \in g.touched[p])
  <2>1. Typed(g) /\ HandleOK(h) /\ g.touched[p] \subseteq Fds
    BY <1>1 DEF Sure, Good, Typed
  <2>2. Proper(h) /\ RightAt(h, g.ofds, T)
    BY <1>1, HeldAt DEF Fair
  <2>3. h.ofd # 0 /\ h.id # 0 /\ o.offset = T[h.id]
    BY <1>7, <2>2 DEF Proper, RightAt
  <2> HIDE DEF h, o
  <2>4. e.id = h.id /\ e.ofd = h.ofd /\ e.kind = h.kind /\ e.offset = o.offset
    BY <2>1 DEF HandleOK
  <2>5. Proper(e)
    BY <2>2, <2>4 DEF Proper
  <2> HIDE DEF e
  <2>6. /\ Same1(g, v, p, fd) /\ v.tables[p][fd] = e
        /\ v.touched = g.touched /\ v.ofds = g.ofds /\ v.mems = g.mems
    BY <2>1, HasSame
  <2> DEFINE S == g.touched[p] \union {fd}
  <2>7. z = Looked(v, p, S) /\ z.tables = v.tables /\ z.ofds = v.ofds /\ z.touched[p] = S
    <3>1. z = Looked(v, p, S)
      BY <1>5, <1>7
    <3>2. v.touched = [q \in Procs |-> v.touched[q]]
      BY <2>1, <2>6 DEF Typed
    <3>3. v = [g EXCEPT !.tables = v.tables]
      <4> DEFINE t == [g.tables EXCEPT ![p][fd] = e]
      <4>1. v = [g EXCEPT !.tables = t] /\ g = [tables |-> g.tables, touched |-> g.touched, ofds |-> g.ofds, mems |-> g.mems]
        BY <2>1 DEF Has, Typed
      <4> HIDE DEF t, v
      <4> QED BY <4>1
    <3>4. v = [tables |-> v.tables, touched |-> v.touched, ofds |-> v.ofds, mems |-> v.mems]
      <4>1. g = [tables |-> g.tables, touched |-> g.touched, ofds |-> g.ofds, mems |-> g.mems]
        BY <2>1 DEF Typed
      <4> HIDE DEF v
      <4> QED BY <3>3, <4>1
    <3> HIDE DEF S, v
    <3>5. Looked(v, p, S) = [v EXCEPT !.touched = [v.touched EXCEPT ![p] = S]]
      BY DEF Looked
    <3> DEFINE d == [v.touched EXCEPT ![p] = S]
    <3>6. d[p] = S
      BY <3>2
    <3> HIDE DEF d
    <3>7. z.touched = d /\ z.tables = v.tables /\ z.ofds = v.ofds
      <4> HIDE DEF z
      <4> QED BY <3>1, <3>4, <3>5 DEF d
    <3> QED BY <3>1, <3>6, <3>7
  <2> HIDE DEF z, v
  <2>8. Same1(g, z, p, fd) /\ z.tables[p][fd] = e /\ z.ofds = g.ofds
    BY <2>6, <2>7 DEF Same1
  <2>9. Alter(Hands(g, k), Hands(z, k), <<p, fd>>, e) /\ <<p, fd>> \in Spots
    BY <2>8, HasAlters
  <2>10. Hands(g, k)[<<p, fd>>] = h
    BY HandsIs DEF h
  <2>11. Held(g, k, T) /\ Current(g, p, U, T)
    BY <1>1 DEF Fair
  <2>12. Held(z, k, T)
    <3> DEFINE V == Hands(g, k)
               Z == Hands(z, k)
               r == <<p, fd>>
    <3>1. V[r] = h /\ Alter(V, Z, r, e) /\ Whole(V, g.ofds, T)
      BY <2>9, <2>10, <2>11 DEF Held
    <3> HIDE DEF V, Z, r
    <3>2. AllKin(V, Z)
      <4>1. Kin(h, e)
        BY <2>3, <2>4 DEF Kin
      <4> SUFFICES ASSUME NEW s \in Spots PROVE Kin(V[s], Z[s]) /\ Proper(Z[s])
        BY DEF AllKin
      <4>2. CASE s = r
        BY <2>5, <3>1, <4>1, <4>2 DEF Alter
      <4>3. CASE s # r
        BY <3>1, <4>3 DEF Alter, Kin, Whole
      <4> QED BY <4>2, <4>3
    <3>3. SlotsKept(V, g.ofds, g.ofds)
      BY DEF SlotsKept
    <3> QED BY <2>8, <3>1, <3>2, <3>3, KinWhole DEF Held, Z
  <2>13. Current(z, p, U, T)
    <3>1. z.tables[p][fd].id # 0 => z.tables[p][fd].offset = T[z.tables[p][fd].id]
      BY <2>3, <2>4, <2>8
    <3> QED BY ZenonT(60), <2>1, <2>7, <2>8, <2>11, <3>1, CurrentAt DEF S
  <2>14. Known(z, p, fd, U, T)
    BY <2>3, <2>4, <2>8 DEF Known
  <2>15. z.tables[p][fd].id = w.tables[p][fd].id /\ fd \notin w.touched[p]
    BY <1>1, <1>2, <1>7, <2>4, <2>8 DEF h
  <2> QED BY <1>3, <1>4, <2>12, <2>13, <2>14, <2>15 DEF Fair, z
<1> QED BY <1>6, <1>7

----------------------------------------------------------------------------
(* Descriptors copied, closed and given.                                   *)

LEMMA HeldSteady ==
  ASSUME setup \in Setups, NEW w, Typed(w), NEW h, HandleOK(h)
  PROVE  Steady(w, OfdHeld(w, h)) /\ Steady(w, OfdDropped(w, h))
<1> DEFINE o == w.ofds[h.ofd]
           n == [o EXCEPT !.refs = @ + 1]
           d == [o EXCEPT !.refs = @ - 1]
<1>1. Steady(w, w)
  BY DEF Steady
<1>2. CASE h.ofd = 0
  BY <1>1, <1>2 DEF OfdHeld, OfdDropped
<1>3. CASE h.ofd # 0
  <2>1. h.ofd \in 1 .. OFDS
    BY <1>3, Settings DEF HandleOK
  <2>2. o = [refs |-> o.refs, offset |-> o.offset, size |-> o.size, mem |-> o.mem, name |-> o.name]
    BY <2>1 DEF Typed, OfdOK
  <2>3. w.ofds = [i \in 1 .. OFDS |-> w.ofds[i]] /\ w = [tables |-> w.tables, touched |-> w.touched, ofds |-> w.ofds, mems |-> w.mems]
    BY DEF Typed
  <2> HIDE DEF o
  <2>4. n.offset = o.offset /\ d.offset = o.offset
    BY <2>2
  <2> HIDE DEF n, d
  \* A slot made what is where it was, or what is free.
  <2>5. ASSUME NEW e, e.refs # 0 => e.offset = o.offset PROVE Steady(w, SlotIs(w, h.ofd, e))
    <3> DEFINE t == [w.ofds EXCEPT ![h.ofd] = e]
    <3>1. SlotIs(w, h.ofd, e) = [w EXCEPT !.ofds = t]
      BY DEF SlotIs
    <3>2. t[h.ofd] = e /\ \A i \in 1 .. OFDS : i # h.ofd => t[i] = w.ofds[i]
      BY <2>1, <2>3
    <3> HIDE DEF t
    <3>3. SlotIs(w, h.ofd, e).ofds = t
      BY <2>3, <3>1
    <3> QED BY <2>5, <3>2, <3>3 DEF Steady, o
  <2>6. Steady(w, OfdHeld(w, h))
    <3>1. OfdHeld(w, h) = SlotIs(w, h.ofd, n)
      BY <1>3 DEF OfdHeld, n, o
    <3> QED BY <2>4, <2>5, <3>1
  <2>7. Steady(w, OfdDropped(w, h))
    <3>1. CASE o.refs = 0
      BY <1>1, <3>1 DEF OfdDropped, o
    <3>2. CASE o.refs # 0 /\ o.refs > 1
      <4>1. OfdDropped(w, h) = SlotIs(w, h.ofd, d)
        BY <1>3, <3>2 DEF OfdDropped, o, d
      <4> QED BY <2>4, <2>5, <4>1
    <3>3. CASE o.refs # 0 /\ ~(o.refs > 1)
      <4> DEFINE g == SlotIs(w, h.ofd, NoOfd)
      <4>1. OfdDropped(w, h) = MemDropped(g, o.mem)
        BY <1>3, <3>3 DEF OfdDropped, o
      <4>2. Steady(w, g)
        BY <2>5 DEF NoOfd
      <4> HIDE DEF g
      <4>3. MemDropped(g, o.mem).ofds = g.ofds
        BY MemSame DEF MemDropped
      <4> QED BY <4>1, <4>2, <4>3 DEF Steady
    <3> QED BY <3>1, <3>2, <3>3
  <2> QED BY <2>6, <2>7
<1> QED BY <1>2, <1>3

LEMMA DroppedStill == ASSUME NEW w, NEW h PROVE Still(w, OfdDropped(w, h))
<1>1. ASSUME NEW u, NEW m PROVE Still(u, MemDropped(u, m))
  BY MemSame DEF Still, MemDropped
<1>2. ASSUME NEW i, NEW o PROVE Still(w, SlotIs(w, i, o))
  BY SlotSame DEF Still
<1>3. ASSUME NEW i, NEW o, NEW m PROVE Still(w, MemDropped(SlotIs(w, i, o), m))
  BY <1>1, <1>2, StillGood
<1>4. Still(w, w)
  BY DEF Still
<1> QED BY <1>2, <1>3, <1>4 DEF OfdDropped

LEMMA DroppedFair ==
  ASSUME setup \in Setups, NEW w, NEW P, NEW x, NEW y, NEW h, HandleOK(h), Good(w, P, Plus(x, h), y),
         x \in [1 .. OFDS -> Int], NonNeg(x), MNonNeg(y), NEW k, HandleOK(k), Carried(k, x),
         NEW p, NEW U, NEW T, Fair(w, k, p, U, T)
  PROVE  Sure(OfdDropped(w, h), P, x, y, k) /\ Fair(OfdDropped(w, h), k, p, U, T)
<1> DEFINE v == OfdDropped(w, h)
<1>1. Good(v, P, x, y) /\ Still(w, v)
  BY DroppedGood
<1>2. Steady(w, v)
  BY HeldSteady DEF Good
<1> HIDE DEF v
<1>3. Sure(v, P, x, y, k)
  BY <1>1 DEF Sure
<1>4. Live(v, k)
  BY <1>3, GoodLive
<1>5. Fair(v, k, p, U, T)
  BY <1>1, <1>2, <1>4, StillFair
<1> QED BY <1>3, <1>5 DEF v

\* One descriptor put where p has nothing, or nothing put there.
LEMMA PutHeld ==
  ASSUME NEW w, Typed(w), NEW q \in Procs, NEW fd \in Fds, NEW h, Proper(h), NEW k, NEW T, Held(w, k, T),
         RightAt(h, w.ofds, T), TiedToAll(Hands(w, k), <<q, fd>>, h)
  PROVE  Held(Has(w, q, fd, h), k, T)
<1> DEFINE v == Has(w, q, fd, h)
<1>1. Same1(w, v, q, fd) /\ v.tables[q][fd] = h /\ v.ofds = w.ofds
  BY HasSame
<1> HIDE DEF v
<1>2. Alter(Hands(w, k), Hands(v, k), <<q, fd>>, h) /\ <<q, fd>> \in Spots
  BY <1>1, HasAlters
<1>3. Whole(Hands(v, k), w.ofds, T)
  BY <1>2, AlterWhole DEF Held
<1> QED BY <1>1, <1>3 DEF Held, v

LEMMA NoneIs == setup \in Setups => Proper(NoHandle) /\ Empty(NoHandle) /\ Proper(Pipe) /\ Empty(Pipe)
BY DEF Proper, Empty, NoHandle, Pipe, Handle

LEMMA EmptyToAll ==
  ASSUME NEW V, NEW o, NEW T, Whole(V, o, T), NEW h, Empty(h), NEW r PROVE TiedToAll(V, r, h) /\ RightAt(h, o, T)
<1>1. TiedToAll(V, r, h)
  BY EmptyTied DEF TiedToAll, Whole
<1> QED BY <1>1 DEF RightAt, Empty

LEMMA ClosedFair ==
  ASSUME setup \in Setups, NEW w, NEW P, NEW x, NEW y, NEW k, Sure(w, P, x, y, k), NEW p \in P, p \in Procs, NEW fd \in Fds,
         NEW U, NEW T, Fair(w, k, p, U, T)
  PROVE  Sure(Closed(w, p, fd), P, x, y, k) /\ Fair(Closed(w, p, fd), k, p, U, T)
<1> DEFINE g == Picked(w, p, fd)
           h == g.tables[p][fd]
           e == Has(g, p, fd, NoHandle)
           v == OfdDropped(e, h)
<1>0. v = Closed(w, p, fd)
  BY DEF Closed, H
<1>1. Sure(g, P, x, y, k) /\ Fair(g, k, p, U, T)
  BY PickedFair
<1>2. Sure(v, P, x, y, k)
  <2>1. Good(Closed(w, p, fd), P, x, y)
    BY ClosedGood DEF Sure
  <2> HIDE DEF v
  <2> QED BY <1>0, <2>1 DEF Sure
<1> HIDE DEF g
<1>3. Typed(g) /\ HandleOK(h) /\ g.touched[p] \subseteq Fds /\ Held(g, k, T) /\ Current(g, p, U, T)
  BY <1>1 DEF Sure, Good, Typed, Fair
<1>4. Good(e, P, Adj(x, h, NoHandle), y)
  <2>1. Good(g, P, x, y)
    BY <1>1 DEF Sure
  <2> QED BY <2>1, NoHandleOK, HasGood
<1>5. Held(e, k, T)
  <2>1. TiedToAll(Hands(g, k), <<p, fd>>, NoHandle) /\ RightAt(NoHandle, g.ofds, T) /\ Proper(NoHandle)
    BY <1>3, NoneIs, EmptyToAll DEF Held
  <2> QED BY <1>3, <2>1, PutHeld
<1>6. Same1(g, e, p, fd) /\ e.tables[p][fd] = NoHandle /\ e.touched = g.touched
  BY <1>3, HasSame
<1> HIDE DEF e, h
<1>7. Current(e, p, U, T)
  <2>1. e.tables[p][fd].id = 0
    BY <1>6, NoneIs DEF Empty
  <2> QED BY <1>3, <1>6, <2>1, CurrentAt
<1>8. Steady(e, v) /\ Still(e, v)
  <2>1. Typed(e)
    BY <1>4 DEF Good
  <2>2. Still(e, v)
    BY DroppedStill
  <2> QED BY <1>3, <2>1, <2>2, HeldSteady
<1> HIDE DEF v
<1>9. Live(v, k)
  BY <1>2, GoodLive
<1>10. Fair(v, k, p, U, T)
  BY <1>5, <1>7, <1>8, <1>9, StillFair DEF Fair
<1> QED BY <1>0, <1>2, <1>10

\* h is of the opening of what q has at f, of the same slot.
CopyOf(w, q, f, h) == h.id = w.tables[q][f].id /\ h.ofd = w.tables[q][f].ofd /\ (h.id = 0 \/ h.ofd # 0)

LEMMA CopyTied ==
  ASSUME NEW w, NEW k, NEW T, Held(w, k, T), NEW q \in Procs, NEW f \in Fds, NEW h, CopyOf(w, q, f, h), NEW r
  PROVE  TiedToAll(Hands(w, k), r, h) /\ RightAt(h, w.ofds, T)
<1> DEFINE V == Hands(w, k)
           s == <<q, f>>
<1>1. Whole(V, w.ofds, T) /\ s \in Spots /\ V[s] = w.tables[q][f]
  BY SpotIs, HandsIs DEF Held
<1> HIDE DEF V, s
<1>2. Proper(V[s]) /\ RightAt(V[s], w.ofds, T) /\ h.id = V[s].id /\ h.ofd = V[s].ofd /\ (h.id = 0 \/ h.ofd # 0)
  BY <1>1 DEF Whole, CopyOf
<1>3. TiedToAll(V, r, h)
  <2> SUFFICES ASSUME NEW u \in Spots \ {r} PROVE Tied(V[u], h)
    BY DEF TiedToAll
  <2>1. CASE u = s
    BY <2>1, <1>2 DEF Tied, Proper
  <2>2. CASE u # s
    <3>1. Tied(V[u], V[s])
      BY <1>1, <2>2 DEF Whole
    <3> QED BY <1>2, <3>1 DEF Tied
  <2> QED BY <2>1, <2>2
<1>4. RightAt(h, w.ofds, T)
  BY <1>2 DEF RightAt
<1> QED BY <1>3, <1>4 DEF V

LEMMA CopiedFair ==
  ASSUME setup \in Setups, NEW w, NEW P, NEW x, NEW y, NEW k, Sure(w, P, x, y, k), NEW p \in Procs, NEW q \in P, q \in Procs,
         NEW fd \in Fds, NEW U, NEW T, Fair(w, k, p, U, T), NEW h, HandleOK(h), Proper(h), w.tables[q][fd].ofd = 0,
         NEW r \in Procs, NEW f \in Fds, CopyOf(w, r, f, h),
         q = p /\ fd \in w.touched[p] \ U /\ h.id # 0 => h.offset = T[h.id]
  PROVE  Sure(Copied(w, q, fd, h), P, x, y, k) /\ Fair(Copied(w, q, fd, h), k, p, U, T)
<1> DEFINE e == Has(w, q, fd, h)
           v == Copied(w, q, fd, h)
<1>1. Typed(w) /\ Good(w, P, x, y) /\ w.touched[p] \subseteq Fds /\ Held(w, k, T) /\ Current(w, p, U, T)
  BY DEF Sure, Good, Typed, Fair
<1>2. Good(v, P, x, y)
  BY <1>1, CopiedGood
<1>3. Sure(v, P, x, y, k)
  <2> HIDE DEF v
  <2> QED BY <1>2 DEF Sure
<1>4. Held(e, k, T)
  BY <1>1, CopyTied, PutHeld
<1>5. Same1(w, e, q, fd) /\ e.tables[q][fd] = h /\ e.touched = w.touched
  BY <1>1, HasSame
<1>6. v = OfdHeld(e, h)
  BY DEF Copied
<1>7. Typed(e)
  <2>1. Good(e, P, Adj(x, w.tables[q][fd], h), y)
    BY <1>1, HasGood
  <2> HIDE DEF e
  <2> QED BY <2>1 DEF Good
<1> HIDE DEF e, v
<1>8. Steady(e, v)
  BY <1>6, <1>7, HeldSteady
<1>9. Still(e, v)
  BY <1>6, SlotSame DEF Still, OfdHeld
<1>10. Live(v, k)
  BY <1>3, GoodLive
<1>11. Current(e, p, U, T)
  <2>1. CASE q = p
    BY <1>1, <1>5, <2>1, CurrentAt
  <2>2. CASE q # p
    <3>1. \A g \in Fds : e.tables[p][g] = w.tables[p][g]
      BY <1>5, <2>2 DEF Same1
    <3> QED BY <1>1, <1>5, <3>1 DEF Current
  <2> QED BY <2>1, <2>2
<1>12. Fair(v, k, p, U, T)
  BY <1>4, <1>8, <1>9, <1>10, <1>11, StillFair DEF Fair
<1> QED BY <1>3, <1>12 DEF v

\* What p has looked at is something.
LookedAt(w, p) == \A f \in w.touched[p] : w.tables[p][f].kind # "none"

LEMMA GivenFair ==
  ASSUME setup \in Setups, NEW w, NEW P, NEW x, NEW y, NEW h, HandleOK(h), Good(w, P, Plus(x, h), y),
         x \in [1 .. OFDS -> Int], NonNeg(x), MNonNeg(y), NEW k, HandleOK(k), Carried(k, x), NEW p \in P, p \in Procs,
         NEW U, NEW T, Fair(w, k, p, U, T), Proper(h), RightAt(h, w.ofds, T), \A r \in Spots : Tied(Hands(w, k)[r], h),
         LookedAt(w, p)
  PROVE  Sure(Given(w, p, h), P, x, y, k) /\ Fair(Given(w, p, h), k, p, U, T)
<1> DEFINE fd == Lowest(w, p)
           v == Given(w, p, h)
<1>1. CASE fd = -1
  BY <1>1, DroppedFair DEF Given
<1>2. CASE fd # -1
  <2>1. v = Has(w, p, fd, h)
    BY <1>2 DEF Given
  <2>2. Typed(w) /\ w.touched[p] \subseteq Fds /\ Held(w, k, T) /\ Current(w, p, U, T)
    BY DEF Good, Typed, Fair
  <2>3. fd \in Fds /\ w.tables[p][fd].kind = "none"
    BY <1>2, <2>2, LowestIs
  <2>4. Good(v, P, x, y)
    BY GivenGood
  <2> HIDE DEF fd, v
  <2>5. Sure(v, P, x, y, k)
    BY <2>4 DEF Sure
  <2>6. Held(v, k, T)
    <3>1. TiedToAll(Hands(w, k), <<p, fd>>, h)
      BY DEF TiedToAll
    <3> QED BY <2>1, <2>2, <2>3, <3>1, PutHeld
  <2>7. Same1(w, v, p, fd) /\ v.touched = w.touched
    BY <2>1, <2>2, <2>3, HasSame
  <2>8. fd \notin v.touched[p]
    BY <2>3, <2>7 DEF LookedAt
  <2>9. Current(v, p, U, T)
    BY <2>2, <2>7, <2>8, CurrentAt
  <2> QED BY <2>5, <2>6, <2>9 DEF Fair, v
<1> QED BY <1>1, <1>2

----------------------------------------------------------------------------
(* Descriptors in turn.                                                    *)

\* The descriptors of S in turn.
LEMMA ClosedAllTurns ==
  ASSUME setup \in Setups, NEW w, NEW p, NEW S
  PROVE  \E after : /\ ClosedAll(w, p, S) = after[PROGRAM_FILES] /\ after[0] = w
                   /\ \A n \in 1 .. PROGRAM_FILES : after[n] = IF n - 1 \in S THEN Closed(after[n - 1], p, n - 1) ELSE after[n - 1]
<1> DEFINE N == PROGRAM_FILES
           w0 == w
           Step(v, n) == IF n - 1 \in S THEN Closed(v, p, n - 1) ELSE v
           Part(f, m) == f = [n \in 0 .. m |-> IF n = 0 THEN w0 ELSE Step(f[n - 1], n)]
           after == CHOOSE f : Part(f, N)
           R == {m \in 0 .. N : \E f : Part(f, m)}
<1>1. ClosedAll(w, p, S) = after[N] /\ N \in Nat
  BY Settings DEF ClosedAll
<1> HIDE DEF Step, N, w0
<1>2. 0 \in R
  <2>1. Part([n \in 0 .. 0 |-> w0], 0) /\ 0 \in 0 .. N
    BY <1>1
  <2> HIDE DEF Part
  <2> QED BY <2>1
<1>3. ASSUME NEW m \in 1 .. N, m - 1 \in R PROVE m \in R
  <2>1. PICK f : Part(f, m - 1)
    <3> HIDE DEF Part
    <3> QED BY <1>3
  <2> DEFINE h == [n \in 0 .. m |-> IF n = m THEN Step(f[m - 1], m) ELSE f[n]]
  <2>2. ASSUME NEW n \in 0 .. m PROVE h[n] = IF n = 0 THEN w0 ELSE Step(h[n - 1], n)
    <3>1. n # 0 => h[n - 1] = f[n - 1]
      OBVIOUS
    <3>2. CASE n = m
      BY <1>3, <3>1, <3>2
    <3>3. CASE n # m
      <4>1. n \in 0 .. m - 1 /\ h[n] = f[n]
        BY <3>3
      <4> HIDE DEF h
      <4> QED BY <2>1, <3>1, <4>1
    <3> QED BY <3>2, <3>3
  <2>3. h = [n \in 0 .. m |-> h[n]] /\ m \in 0 .. N
    BY <1>1
  <2> HIDE DEF h
  <2>4. Part(h, m)
    BY <2>2, <2>3
  <2> HIDE DEF Part
  <2> QED BY <2>3, <2>4
<1>4. Part(after, N)
  <2>1. Climbs(R, N)
    <3> HIDE DEF R
    <3> QED BY <1>2, <1>3 DEF Climbs
  <2>2. N \in R
    <3> HIDE DEF R
    <3> QED BY <1>1, <2>1, Climbing
  <2> HIDE DEF Part
  <2> QED BY <2>2
<1> HIDE DEF after, R
<1>5. after[0] = w0 /\ \A n \in 1 .. N : after[n] = Step(after[n - 1], n)
  BY <1>1, <1>4
<1> QED BY <1>1, <1>5 DEF Step, N, w0

\* The same of looks.
LEMMA PickedAllTurns ==
  ASSUME setup \in Setups, NEW w, NEW p, NEW S
  PROVE  \E after : /\ PickedAll(w, p, S) = after[PROGRAM_FILES] /\ after[0] = w
                   /\ \A n \in 1 .. PROGRAM_FILES : after[n] = IF n - 1 \in S THEN Picked(after[n - 1], p, n - 1) ELSE after[n - 1]
<1> DEFINE N == PROGRAM_FILES
           w0 == w
           Step(v, n) == IF n - 1 \in S THEN Picked(v, p, n - 1) ELSE v
           Part(f, m) == f = [n \in 0 .. m |-> IF n = 0 THEN w0 ELSE Step(f[n - 1], n)]
           after == CHOOSE f : Part(f, N)
           R == {m \in 0 .. N : \E f : Part(f, m)}
<1>1. PickedAll(w, p, S) = after[N] /\ N \in Nat
  BY Settings DEF PickedAll
<1> HIDE DEF Step, N, w0
<1>2. 0 \in R
  <2>1. Part([n \in 0 .. 0 |-> w0], 0) /\ 0 \in 0 .. N
    BY <1>1
  <2> HIDE DEF Part
  <2> QED BY <2>1
<1>3. ASSUME NEW m \in 1 .. N, m - 1 \in R PROVE m \in R
  <2>1. PICK f : Part(f, m - 1)
    <3> HIDE DEF Part
    <3> QED BY <1>3
  <2> DEFINE h == [n \in 0 .. m |-> IF n = m THEN Step(f[m - 1], m) ELSE f[n]]
  <2>2. ASSUME NEW n \in 0 .. m PROVE h[n] = IF n = 0 THEN w0 ELSE Step(h[n - 1], n)
    <3>1. n # 0 => h[n - 1] = f[n - 1]
      OBVIOUS
    <3>2. CASE n = m
      BY <1>3, <3>1, <3>2
    <3>3. CASE n # m
      <4>1. n \in 0 .. m - 1 /\ h[n] = f[n]
        BY <3>3
      <4> HIDE DEF h
      <4> QED BY <2>1, <3>1, <4>1
    <3> QED BY <3>2, <3>3
  <2>3. h = [n \in 0 .. m |-> h[n]] /\ m \in 0 .. N
    BY <1>1
  <2> HIDE DEF h
  <2>4. Part(h, m)
    BY <2>2, <2>3
  <2> HIDE DEF Part
  <2> QED BY <2>3, <2>4
<1>4. Part(after, N)
  <2>1. Climbs(R, N)
    <3> HIDE DEF R
    <3> QED BY <1>2, <1>3 DEF Climbs
  <2>2. N \in R
    <3> HIDE DEF R
    <3> QED BY <1>1, <2>1, Climbing
  <2> HIDE DEF Part
  <2> QED BY <2>2
<1> HIDE DEF after, R
<1>5. after[0] = w0 /\ \A n \in 1 .. N : after[n] = Step(after[n - 1], n)
  BY <1>1, <1>4
<1> QED BY <1>1, <1>5 DEF Step, N, w0

\* And of the copies a fork makes.
LEMMA CopiedAllTurns ==
  ASSUME setup \in Setups, NEW w, NEW p, NEW child
  PROVE  \E after : /\ CopiedAll(w, p, child) = after[PROGRAM_FILES] /\ after[0] = Looked(w, child, {})
                   /\ \A n \in 1 .. PROGRAM_FILES : after[n] = Copied(after[n - 1], child, n - 1, w.tables[p][n - 1])
<1> DEFINE N == PROGRAM_FILES
           w0 == Looked(w, child, {})
           Step(v, n) == Copied(v, child, n - 1, w.tables[p][n - 1])
           Part(f, m) == f = [n \in 0 .. m |-> IF n = 0 THEN w0 ELSE Step(f[n - 1], n)]
           after == CHOOSE f : Part(f, N)
           R == {m \in 0 .. N : \E f : Part(f, m)}
<1>1. CopiedAll(w, p, child) = after[N] /\ N \in Nat
  BY Settings DEF CopiedAll
<1> HIDE DEF Step, N, w0
<1>2. 0 \in R
  <2>1. Part([n \in 0 .. 0 |-> w0], 0) /\ 0 \in 0 .. N
    BY <1>1
  <2> HIDE DEF Part
  <2> QED BY <2>1
<1>3. ASSUME NEW m \in 1 .. N, m - 1 \in R PROVE m \in R
  <2>1. PICK f : Part(f, m - 1)
    <3> HIDE DEF Part
    <3> QED BY <1>3
  <2> DEFINE h == [n \in 0 .. m |-> IF n = m THEN Step(f[m - 1], m) ELSE f[n]]
  <2>2. ASSUME NEW n \in 0 .. m PROVE h[n] = IF n = 0 THEN w0 ELSE Step(h[n - 1], n)
    <3>1. n # 0 => h[n - 1] = f[n - 1]
      OBVIOUS
    <3>2. CASE n = m
      BY <1>3, <3>1, <3>2
    <3>3. CASE n # m
      <4>1. n \in 0 .. m - 1 /\ h[n] = f[n]
        BY <3>3
      <4> HIDE DEF h
      <4> QED BY <2>1, <3>1, <4>1
    <3> QED BY <3>2, <3>3
  <2>3. h = [n \in 0 .. m |-> h[n]] /\ m \in 0 .. N
    BY <1>1
  <2> HIDE DEF h
  <2>4. Part(h, m)
    BY <2>2, <2>3
  <2> HIDE DEF Part
  <2> QED BY <2>3, <2>4
<1>4. Part(after, N)
  <2>1. Climbs(R, N)
    <3> HIDE DEF R
    <3> QED BY <1>2, <1>3 DEF Climbs
  <2>2. N \in R
    <3> HIDE DEF R
    <3> QED BY <1>1, <2>1, Climbing
  <2> HIDE DEF Part
  <2> QED BY <2>2
<1> HIDE DEF after, R
<1>5. after[0] = w0 /\ \A n \in 1 .. N : after[n] = Step(after[n - 1], n)
  BY <1>1, <1>4
<1> QED BY <1>1, <1>5 DEF Step, N, w0

----------------------------------------------------------------------------
(* What descriptors in turn leave.                                         *)

LEMMA ClosedAllFair ==
  ASSUME setup \in Setups, NEW w, NEW P, NEW x, NEW y, NEW k, Sure(w, P, x, y, k), NEW p \in P, p \in Procs, NEW S,
         NEW U, NEW T, Fair(w, k, p, U, T)
  PROVE  Sure(ClosedAll(w, p, S), P, x, y, k) /\ Fair(ClosedAll(w, p, S), k, p, U, T)
<1> DEFINE N == PROGRAM_FILES
           Ok(v) == Sure(v, P, x, y, k) /\ Fair(v, k, p, U, T)
<1>1. PICK after : /\ ClosedAll(w, p, S) = after[N] /\ after[0] = w
                   /\ \A n \in 1 .. N : after[n] = IF n - 1 \in S THEN Closed(after[n - 1], p, n - 1) ELSE after[n - 1]
  BY ClosedAllTurns
<1>2. N \in Nat
  BY Settings
<1> DEFINE R == {n \in 0 .. N : Ok(after[n])}
<1>3. 0 \in R
  BY <1>1, <1>2
<1>4. ASSUME NEW n \in 1 .. N, n - 1 \in R PROVE n \in R
  <2>1. n - 1 \in Fds /\ n \in 0 .. N
    BY <1>2 DEF Fds
  <2>2. Ok(after[n - 1])
    BY <1>4
  <2>3. Ok(Closed(after[n - 1], p, n - 1))
    BY <2>1, <2>2, ClosedFair
  <2>4. after[n] = IF n - 1 \in S THEN Closed(after[n - 1], p, n - 1) ELSE after[n - 1]
    BY <1>1
  <2> HIDE DEF Ok
  <2> QED BY <2>1, <2>2, <2>3, <2>4
<1> HIDE DEF Ok
<1>5. N \in R
  <2> HIDE DEF R, N
  <2>1. Climbs(R, N)
    BY <1>3, <1>4 DEF Climbs
  <2> QED BY <1>2, <2>1, Climbing
<1> QED BY <1>1, <1>5 DEF Ok

LEMMA PickedAllFair ==
  ASSUME setup \in Setups, NEW w, NEW P, NEW x, NEW y, NEW k, Sure(w, P, x, y, k), NEW p \in P, p \in Procs, NEW S,
         NEW U, NEW T, Fair(w, k, p, U, T)
  PROVE  Sure(PickedAll(w, p, S), P, x, y, k) /\ Fair(PickedAll(w, p, S), k, p, U, T)
<1> DEFINE N == PROGRAM_FILES
           Ok(v) == Sure(v, P, x, y, k) /\ Fair(v, k, p, U, T)
<1>1. PICK after : /\ PickedAll(w, p, S) = after[N] /\ after[0] = w
                   /\ \A n \in 1 .. N : after[n] = IF n - 1 \in S THEN Picked(after[n - 1], p, n - 1) ELSE after[n - 1]
  BY PickedAllTurns
<1>2. N \in Nat
  BY Settings
<1> DEFINE R == {n \in 0 .. N : Ok(after[n])}
<1>3. 0 \in R
  BY <1>1, <1>2
<1>4. ASSUME NEW n \in 1 .. N, n - 1 \in R PROVE n \in R
  <2>1. n - 1 \in Fds /\ n \in 0 .. N
    BY <1>2 DEF Fds
  <2>2. Ok(after[n - 1])
    BY <1>4
  <2>3. Ok(Picked(after[n - 1], p, n - 1))
    BY <2>1, <2>2, PickedFair
  <2>4. after[n] = IF n - 1 \in S THEN Picked(after[n - 1], p, n - 1) ELSE after[n - 1]
    BY <1>1
  <2> HIDE DEF Ok
  <2> QED BY <2>1, <2>2, <2>3, <2>4
<1> HIDE DEF Ok
<1>5. N \in R
  <2> HIDE DEF R, N
  <2>1. Climbs(R, N)
    BY <1>3, <1>4 DEF Climbs
  <2> QED BY <1>2, <2>1, Climbing
<1> QED BY <1>1, <1>5 DEF Ok

\* What p has of each opening may be copied as it is.
Copyable(w, p) == \A f \in Fds : w.tables[p][f].id = 0 \/ w.tables[p][f].ofd # 0

LEMMA CopiedAllFair ==
  ASSUME setup \in Setups, NEW w, NEW P, NEW x, NEW y, NEW k, Sure(w, P, x, y, k),
         NEW p \in Procs, NEW child \in P, child \in Procs, p # child, \A f \in Fds : w.tables[child][f].ofd = 0,
         NEW U, NEW T, Fair(w, k, p, U, T), Copyable(w, p)
  PROVE  Sure(CopiedAll(w, p, child), P, x, y, k) /\ Fair(CopiedAll(w, p, child), k, p, U, T)
<1> DEFINE N == PROGRAM_FILES
           w0 == Looked(w, child, {})
           Ok(v, n) == Sure(v, P, x, y, k) /\ Fair(v, k, p, U, T) /\ Lent(w, v, p, child, n)
<1>1. PICK after : /\ CopiedAll(w, p, child) = after[N] /\ after[0] = w0
                   /\ \A n \in 1 .. N : after[n] = Copied(after[n - 1], child, n - 1, w.tables[p][n - 1])
  BY CopiedAllTurns
<1>2. N \in Nat
  BY Settings
<1> DEFINE R == {n \in 0 .. N : Ok(after[n], n)}
<1>3. Ok(w0, 0)
  <2>1. /\ Good(w0, P, x, y) /\ w0.tables = w.tables /\ w0.touched[child] = {} /\ w0.ofds = w.ofds
        /\ w0.touched[p] = w.touched[p]
    BY LookedGood DEF Sure
  <2> HIDE DEF w0
  <2>2. Sure(w0, P, x, y, k) /\ Lent(w, w0, p, child, 0)
    BY <2>1 DEF Sure, Lent
  <2>3. Fair(w0, k, p, U, T)
    BY <2>1, SameHands DEF Fair, Held, Current
  <2> QED BY <2>2, <2>3
<1> HIDE DEF w0
<1>4. 0 \in R
  BY <1>1, <1>2, <1>3
<1>5. ASSUME NEW n \in 1 .. N, n - 1 \in R PROVE n \in R
  <2> DEFINE v == after[n - 1]
             h == w.tables[p][n - 1]
             z == Copied(v, child, n - 1, h)
  <2>1. n - 1 \in Fds /\ Fds \subseteq Nat /\ n \in 0 .. N
    BY <1>2, Settings DEF Fds
  <2>2. Sure(v, P, x, y, k) /\ Fair(v, k, p, U, T) /\ Lent(w, v, p, child, n - 1)
    BY <1>5
  <2>3. after[n] = z
    BY <1>1
  <2> HIDE DEF v
  <2>4. n - 1 >= n - 1
    BY <1>2
  <2>5. HandleOK(h) /\ Proper(h) /\ v.tables[child][n - 1].ofd = 0 /\ v.tables[p][n - 1] = h /\ CopyOf(v, p, n - 1, h)
    <3>1. v.tables[child][n - 1].ofd = 0 /\ v.tables[p][n - 1] = h
      BY <2>1, <2>2, <2>4 DEF Lent
    <3>2. HandleOK(h) /\ (h.id = 0 \/ h.ofd # 0)
      BY <2>1 DEF Sure, Good, Typed, Copyable
    <3>3. Proper(h)
      BY <2>1, HeldAt DEF Fair
    <3> QED BY <3>1, <3>2, <3>3 DEF CopyOf
  <2> HIDE DEF h
  <2>6. Sure(z, P, x, y, k) /\ Fair(z, k, p, U, T)
    BY <2>1, <2>2, <2>5, CopiedFair
  <2>7. Same1(v, z, child, n - 1) /\ z.touched = v.touched
    <3>1. Good(v, P, x, y)
      BY <2>2 DEF Sure
    <3> QED BY <2>1, <2>5, <3>1, CopiedGood
  <2> HIDE DEF z
  <2>8. ASSUME NEW f \in Fds PROVE z.tables[p][f] = w.tables[p][f]
    BY <2>2, <2>7 DEF Same1, Lent
  <2>9. ASSUME NEW f \in Fds, f >= n PROVE z.tables[child][f].ofd = 0
    <3>1. f # n - 1 /\ f >= n - 1
      BY <1>2, <2>1, <2>9
    <3> QED BY <2>2, <2>7, <3>1 DEF Same1, Lent
  <2>10. Lent(w, z, p, child, n)
    BY <2>2, <2>7, <2>8, <2>9 DEF Lent
  <2> QED BY <2>1, <2>3, <2>6, <2>10
<1> HIDE DEF Ok
<1>6. N \in R
  <2> HIDE DEF R, N
  <2>1. Climbs(R, N)
    BY <1>4, <1>5 DEF Climbs
  <2> QED BY <1>2, <2>1, Climbing
<1> QED BY <1>1, <1>6 DEF Ok

\* Every descriptor of the same opening, slot and position as it was, and every slot where it was.
Alikes(w, v) ==
  /\ \A q \in Procs, f \in Fds :
       /\ v.tables[q][f].id = w.tables[q][f].id /\ v.tables[q][f].ofd = w.tables[q][f].ofd
       /\ v.tables[q][f].offset = w.tables[q][f].offset /\ Proper(v.tables[q][f])
  /\ v.touched = w.touched /\ \A i \in 1 .. OFDS : v.ofds[i].offset = w.ofds[i].offset

LEMMA AlikesFair ==
  ASSUME setup \in Setups, NEW w, NEW P, NEW x, NEW y, NEW k, Sure(w, P, x, y, k), NEW p \in Procs,
         NEW U, NEW T, Fair(w, k, p, U, T), NEW v, Alikes(w, v)
  PROVE  Fair(v, k, p, U, T)
<1> DEFINE V == Hands(w, k)
           Z == Hands(v, k)
<1>1. Whole(V, w.ofds, T) /\ Current(w, p, U, T) /\ w.touched[p] \subseteq Fds
  BY DEF Fair, Held, Sure, Good, Typed
<1>2. ASSUME NEW r \in Spots PROVE Kin(V[r], Z[r]) /\ Proper(Z[r])
  <2>1. CASE r = <<>>
    <3>1. V[r] = k /\ Z[r] = k
      BY <2>1, HandsIs
    <3>2. Proper(V[r])
      BY <1>1 DEF Whole
    <3> HIDE DEF V, Z
    <3> QED BY <3>1, <3>2 DEF Kin
  <2>2. CASE r # <<>>
    <3>1. PICK q \in Procs, f \in Fds : r = <<q, f>>
      BY <2>2, SpotIs
    <3>2. V[r] = w.tables[q][f] /\ Z[r] = v.tables[q][f]
      BY <3>1, HandsIs
    <3> HIDE DEF V, Z
    <3> QED BY <3>2 DEF Kin, Alikes
  <2> QED BY <2>1, <2>2
<1>3. AllKin(V, Z)
  BY <1>2 DEF AllKin
<1>4. SlotsKept(V, w.ofds, v.ofds)
  <2> SUFFICES ASSUME NEW r \in Spots, V[r].ofd # 0 PROVE v.ofds[V[r].ofd].offset = w.ofds[V[r].ofd].offset
    BY DEF SlotsKept
  <2>1. V[r].ofd \in 0 .. OFDS
    BY GoodLive DEF Live
  <2> HIDE DEF V
  <2>2. V[r].ofd \in 1 .. OFDS
    BY <2>1, Settings
  <2> QED BY <2>2 DEF Alikes
<1>5. Held(v, k, T)
  <2> HIDE DEF V, Z
  <2>1. Whole(Z, v.ofds, T)
    BY <1>1, <1>3, <1>4, KinWhole
  <2> QED BY <2>1 DEF Held, Z
<1>6. Current(v, p, U, T)
  BY <1>1 DEF Current, Alikes
<1> QED BY <1>5, <1>6 DEF Fair

LEMMA HandleMark ==
  ASSUME NEW h, HandleOK(h), Proper(h), NEW on, NEW e, e = [h EXCEPT !.cloexec = on]
  PROVE  e.id = h.id /\ e.ofd = h.ofd /\ e.offset = h.offset /\ e.kind = h.kind /\ Proper(e)
<1>1. e.id = h.id /\ e.ofd = h.ofd /\ e.offset = h.offset /\ e.kind = h.kind
  BY DEF HandleOK
<1> QED BY <1>1 DEF Proper

LEMMA MarkedFair ==
  ASSUME setup \in Setups, NEW w, NEW P, NEW x, NEW y, NEW k, Sure(w, P, x, y, k), NEW p \in P, p \in Procs, NEW fd \in Fds,
         NEW U, NEW T, Fair(w, k, p, U, T), NEW on
  PROVE  LET v == Has(w, p, fd, [H(w, p, fd) EXCEPT !.cloexec = on])
         IN Sure(v, P, x, y, k) /\ Fair(v, k, p, U, T) /\ v.touched = w.touched
<1> DEFINE e == [H(w, p, fd) EXCEPT !.cloexec = on]
           v == Has(w, p, fd, e)
<1>1. Good(w, P, x, y) /\ Typed(w) /\ HandleOK(w.tables[p][fd])
  BY DEF Sure, Good, Typed
<1>2. Sure(v, P, x, y, k)
  <2>1. Good(v, P, x, y)
    BY <1>1, MarkedGood
  <2> HIDE DEF v
  <2> QED BY <2>1 DEF Sure
<1>3. \A q \in Procs, f \in Fds : Proper(w.tables[q][f])
  BY HeldAt DEF Fair
<1>4. e.id = w.tables[p][fd].id /\ e.ofd = w.tables[p][fd].ofd /\ e.offset = w.tables[p][fd].offset /\ Proper(e)
  <2> DEFINE h == w.tables[p][fd]
  <2>1. HandleOK(h) /\ Proper(h) /\ e = [h EXCEPT !.cloexec = on]
    BY <1>1, <1>3 DEF H
  <2> HIDE DEF h, e
  <2>2. e.id = h.id /\ e.ofd = h.ofd /\ e.offset = h.offset /\ Proper(e)
    BY <2>1, HandleMark
  <2> QED BY <2>2 DEF h
<1> HIDE DEF e
<1>5. Same1(w, v, p, fd) /\ v.tables[p][fd] = e /\ v.touched = w.touched /\ v.ofds = w.ofds
  BY <1>1, HasSame
<1> HIDE DEF v
<1>6. ASSUME NEW q \in Procs, NEW f \in Fds
      PROVE  /\ v.tables[q][f].id = w.tables[q][f].id /\ v.tables[q][f].ofd = w.tables[q][f].ofd
             /\ v.tables[q][f].offset = w.tables[q][f].offset /\ Proper(v.tables[q][f])
  <2>1. CASE q = p /\ f = fd
    BY <1>4, <1>5, <2>1
  <2>2. CASE q # p \/ f # fd
    BY <1>3, <1>5, <2>2 DEF Same1
  <2> QED BY <2>1, <2>2
<1>7. Alikes(w, v)
  BY <1>5, <1>6 DEF Alikes
<1>8. Fair(v, k, p, U, T)
  BY <1>7, AlikesFair
<1> QED BY <1>2, <1>5, <1>8 DEF v, e

LEMMA WithCloexecFair ==
  ASSUME setup \in Setups, NEW w, NEW P, NEW x, NEW y, NEW k, Sure(w, P, x, y, k), NEW p \in P, p \in Procs, NEW S,
         NEW U, NEW T, Fair(w, k, p, U, T)
  PROVE  Sure(WithCloexec(w, p, S), P, x, y, k) /\ Fair(WithCloexec(w, p, S), k, p, U, T)
<1> DEFINE v == WithCloexec(w, p, S)
           row == [f \in Fds |-> [H(w, p, f) EXCEPT !.cloexec = @ \/ f \in S]]
           tabs == w.tables
           t == [tabs EXCEPT ![p] = row]
<1>1. Good(w, P, x, y) /\ Typed(w) /\ \A q \in Procs, f \in Fds : HandleOK(w.tables[q][f])
  BY DEF Sure, Good, Typed
<1>2. Sure(v, P, x, y, k)
  <2>1. Good(v, P, x, y)
    BY <1>1, WithCloexecGood
  <2> HIDE DEF v
  <2> QED BY <2>1 DEF Sure
<1>3. \A q \in Procs, f \in Fds : Proper(w.tables[q][f])
  BY HeldAt DEF Fair
<1>4. v = [w EXCEPT !.tables = t]
  BY DEF WithCloexec
<1>5. ASSUME NEW f \in Fds
      PROVE  /\ row[f].id = w.tables[p][f].id /\ row[f].ofd = w.tables[p][f].ofd
             /\ row[f].offset = w.tables[p][f].offset /\ Proper(row[f])
  <2> DEFINE h == w.tables[p][f]
             on == h.cloexec \/ f \in S
             e == [h EXCEPT !.cloexec = on]
  <2>1. row[f] = e
    BY DEF H
  <2>2. HandleOK(h) /\ Proper(h)
    BY <1>1, <1>3
  <2> HIDE DEF row, h, on
  <2>3. e.id = h.id /\ e.ofd = h.ofd /\ e.offset = h.offset /\ Proper(e)
    BY <2>2, HandleMark
  <2> QED BY <2>1, <2>3 DEF h
<1> HIDE DEF row
<1>6. v.tables = t /\ v.touched = w.touched /\ v.ofds = w.ofds
  <2>1. w = [tables |-> w.tables, touched |-> w.touched, ofds |-> w.ofds, mems |-> w.mems]
    BY <1>1 DEF Typed
  <2> HIDE DEF t, v
  <2> QED BY <1>4, <2>1
<1>7. t[p] = row /\ \A q \in Procs : q # p => t[q] = w.tables[q]
  <2>1. tabs = [q \in Procs |-> tabs[q]]
    BY <1>1 DEF Typed
  <2> HIDE DEF tabs
  <2> QED BY <2>1 DEF tabs
<1> HIDE DEF t, v
<1>8. ASSUME NEW q \in Procs, NEW f \in Fds
      PROVE  /\ v.tables[q][f].id = w.tables[q][f].id /\ v.tables[q][f].ofd = w.tables[q][f].ofd
             /\ v.tables[q][f].offset = w.tables[q][f].offset /\ Proper(v.tables[q][f])
  <2>1. CASE q = p
    BY <1>5, <1>6, <1>7, <2>1
  <2>2. CASE q # p
    BY <1>3, <1>6, <1>7, <2>2
  <2> QED BY <2>1, <2>2
<1>9. Alikes(w, v)
  BY <1>6, <1>8 DEF Alikes
<1>10. Fair(v, k, p, U, T)
  BY <1>9, AlikesFair
<1> QED BY <1>2, <1>10 DEF v

\* What p has at fd may be copied, and is where its opening is.
Ready(w, p, fd, T) ==
  w.tables[p][fd].id # 0 => w.tables[p][fd].ofd # 0 /\ w.tables[p][fd].offset = T[w.tables[p][fd].id]

LEMMA DuppedFair ==
  ASSUME setup \in Setups, NEW w, NEW P, NEW x, NEW y, NEW k, Sure(w, P, x, y, k), NEW p \in P, p \in Procs,
         NEW fd \in Fds, NEW to \in Fds, NEW U, NEW T, Fair(w, k, p, U, T), Ready(Picked(w, p, fd), p, fd, T)
  PROVE  Sure(DuppedTo(w, p, fd, to), P, x, y, k) /\ Fair(DuppedTo(w, p, fd, to), k, p, U, T)
<1> DEFINE g == Picked(w, p, fd)
           c == IF to \in Used(g, p) THEN Closed(g, p, to) ELSE g
           h == [g.tables[p][fd] EXCEPT !.cloexec = FALSE]
<1>1. DuppedTo(w, p, fd, to) = IF to = fd THEN g ELSE Copied(c, p, to, h)
  BY DEF DuppedTo, H
<1>2. Sure(g, P, x, y, k) /\ Fair(g, k, p, U, T)
  BY PickedFair
<1>3. CASE to = fd
  BY <1>1, <1>2, <1>3
<1>4. CASE to # fd
  <2> HIDE DEF g
  <2>1. HandleOK(g.tables[p][fd]) /\ HandleOK(g.tables[p][to]) /\ Typed(g) /\ Good(g, P, x, y)
    BY <1>2 DEF Sure, Good, Typed
  <2>2. Proper(g.tables[p][fd])
    BY <1>2, HeldAt DEF Fair
  <2>3. Sure(c, P, x, y, k) /\ Fair(c, k, p, U, T) /\ c.tables[p][to].ofd = 0 /\ c.tables[p][fd] = g.tables[p][fd]
    <3>1. CASE to \in Used(g, p)
      <4>1. c = Closed(g, p, to)
        BY <3>1
      <4> HIDE DEF c
      <4>2. Same1(g, c, p, to) /\ c.tables[p][to] = NoHandle
        BY <2>1, <4>1, ClosedGood, <1>2 DEF Sure
      <4>3. c.tables[p][fd] = g.tables[p][fd]
        BY <1>4, <4>2 DEF Same1
      <4> QED BY <1>2, <4>1, <4>2, <4>3, ClosedFair, NoHandleOK
    <3>2. CASE to \notin Used(g, p)
      <4>1. c = g
        BY <3>2
      <4> HIDE DEF c
      <4>2. g.tables[p][to].ofd = 0
        BY <2>1, <3>2 DEF Used, HandleOK
      <4> QED BY <1>2, <4>1, <4>2
    <3> QED BY <3>1, <3>2
  <2> HIDE DEF c
  <2>4. /\ HandleOK(h) /\ Proper(h) /\ h.id = c.tables[p][fd].id /\ h.ofd = c.tables[p][fd].ofd
        /\ h.offset = c.tables[p][fd].offset
    <3> DEFINE e == g.tables[p][fd]
               on == FALSE
               n == [e EXCEPT !.cloexec = on]
    <3>1. HandleOK(e) /\ Proper(e) /\ h = n /\ c.tables[p][fd] = e
      BY <2>1, <2>2, <2>3
    <3> HIDE DEF e, on, h
    <3>2. HandleOK(n)
      BY <3>1, HandleMarked
    <3>3. n.id = e.id /\ n.ofd = e.ofd /\ n.offset = e.offset /\ Proper(n)
      BY <3>1, HandleMark
    <3> QED BY <3>1, <3>2, <3>3
  <2> HIDE DEF h
  <2>5. Ready(c, p, fd, T)
    BY <2>3 DEF Ready, g
  <2>6. CopyOf(c, p, fd, h) /\ (h.id # 0 => h.offset = T[h.id])
    BY <2>4, <2>5 DEF Ready, CopyOf
  <2>7. Sure(Copied(c, p, to, h), P, x, y, k) /\ Fair(Copied(c, p, to, h), k, p, U, T)
    BY <2>3, <2>4, <2>6, CopiedFair
  <2> QED BY <1>1, <1>4, <2>7
<1> QED BY <1>3, <1>4

----------------------------------------------------------------------------
(* The end of a call.                                                      *)

\* What is loaded is where T says; and what is in a slot is, or its slot is of something loaded.
LandsAt(w, p, h, T) ==
  h.id # 0 => IF h.ofd = 0 THEN h.offset = T[h.id] ELSE Back(w, p, h.ofd) # {} \/ w.ofds[h.ofd].offset = T[h.id]
Lands(w, k, p, T) ==
  /\ \A r \in Spots : Proper(Hands(w, k)[r]) /\ LandsAt(w, p, Hands(w, k)[r], T)
  /\ \A r \in Spots : \A s \in Spots \ {r} : Tied(Hands(w, k)[r], Hands(w, k)[s])
  /\ \A f \in w.touched[p] : w.tables[p][f].id # 0 => w.tables[p][f].offset = T[w.tables[p][f].id]

\* Of what p loaded before the call, all is where T says.
Unmoved(w, p, U, T) == \A f \in U : w.tables[p][f].id # 0 => w.tables[p][f].offset = T[w.tables[p][f].id]

LEMMA FairLands ==
  ASSUME NEW w, NEW k, NEW p, NEW U, NEW T, Fair(w, k, p, U, T), Unmoved(w, p, U, T) PROVE Lands(w, k, p, T)
<1>1. \A r \in Spots : Proper(Hands(w, k)[r]) /\ LandsAt(w, p, Hands(w, k)[r], T)
  BY DEF Fair, Held, Whole, LandsAt, RightAt
<1>2. \A r \in Spots : \A s \in Spots \ {r} : Tied(Hands(w, k)[r], Hands(w, k)[s])
  BY DEF Fair, Held, Whole
<1>3. \A f \in w.touched[p] : w.tables[p][f].id # 0 => w.tables[p][f].offset = T[w.tables[p][f].id]
  BY DEF Fair, Current, Unmoved
<1> QED BY <1>1, <1>2, <1>3 DEF Lands

\* Where a slot is once it is written back.
LEMMA SyncedAt ==
  ASSUME setup \in Setups, NEW w, Typed(w), NEW p \in Procs, NEW i \in 1 .. OFDS
  PROVE  IF Back(w, p, i) = {} THEN SyncedOfd(w, p, i).offset = w.ofds[i].offset
         ELSE \E f \in Back(w, p, i) : f \in Fds /\ SyncedOfd(w, p, i).offset = w.tables[p][f].offset
<1> DEFINE o == w.ofds[i]
           B == Back(w, p, i)
           h == w.tables[p][Max(B)]
           o2 == SyncedOfd(w, p, i)
<1>1. OfdOK(o)
  BY DEF Typed
<1>2. o2 = IF B = {} THEN o ELSE [o EXCEPT !.offset = h.offset, !.size = h.size]
  BY DEF SyncedOfd, H
<1>3. CASE B = {}
  BY <1>2, <1>3
<1>4. CASE B # {}
  <2> DEFINE n == PROGRAM_FILES - 1
             m == Max(B)
  <2>1. B \subseteq 0 .. n /\ n \in Nat
    <3>1. w.touched[p] \subseteq Fds
      BY DEF Typed
    <3> QED BY <3>1, Settings DEF Back, Fds
  <2>2. m \in B
    <3> HIDE DEF B, n
    <3> QED BY <1>4, <2>1, MaxIn
  <2>3. m \in Fds
    <3> HIDE DEF B, m
    <3> QED BY <2>1, <2>2 DEF Fds
  <2> HIDE DEF h, B, m, o, o2
  <2>4. o2.offset = h.offset
    BY <1>1, <1>2, <1>4 DEF OfdOK
  <2> QED BY <1>4, <2>2, <2>3, <2>4 DEF o2, h, m, B
<1> QED BY <1>3, <1>4

LEMMA SyncedHeld ==
  ASSUME setup \in Setups, NEW w, NEW P, NEW x, NEW y, NEW k, Sure(w, P, x, y, k), NEW p \in P, p \in Procs,
         NEW T, Lands(w, k, p, T)
  PROVE  Held(Synced(w, p), k, T)
<1> DEFINE s == Synced(w, p)
           t == [i \in 1 .. OFDS |-> SyncedOfd(w, p, i)]
           V == Hands(w, k)
<1>1. Good(w, P, x, y) /\ Typed(w) /\ Live(w, k)
  BY GoodLive DEF Sure, Good
<1>2. s.tables = w.tables
  BY <1>1, SyncedGood
<1>3. s.ofds = t
  <2> DEFINE v == [w EXCEPT !.ofds = t]
             S == {}
  <2>1. w = [tables |-> w.tables, touched |-> w.touched, ofds |-> w.ofds, mems |-> w.mems]
    BY <1>1 DEF Typed
  <2>2. s = Looked(v, p, S)
    BY DEF Synced
  <2> HIDE DEF t, S
  <2>3. v.ofds = t /\ v = [tables |-> v.tables, touched |-> v.touched, ofds |-> v.ofds, mems |-> v.mems]
    BY <2>1
  <2> HIDE DEF v, s
  <2> DEFINE d == [v.touched EXCEPT ![p] = S]
  <2>4. s = [v EXCEPT !.touched = d]
    BY <2>2 DEF Looked
  <2> HIDE DEF d
  <2> QED BY <2>3, <2>4
<1> HIDE DEF s
<1>4. \A i \in 1 .. OFDS : t[i] = SyncedOfd(w, p, i)
  OBVIOUS
<1> HIDE DEF t
<1>5. ASSUME NEW r \in Spots PROVE RightAt(V[r], t, T)
  <2> DEFINE h == V[r]
             i == h.ofd
  <2> SUFFICES ASSUME h.id # 0 PROVE IF h.ofd = 0 THEN h.offset = T[h.id] ELSE t[h.ofd].offset = T[h.id]
    BY DEF RightAt
  <2>1. Proper(h) /\ LandsAt(w, p, h, T) /\ i \in 0 .. OFDS
    BY <1>1 DEF Lands, Live
  <2> HIDE DEF h
  <2>2. CASE i = 0
    BY <2>1, <2>2 DEF LandsAt
  <2>3. CASE i # 0
    <3>1. i \in 1 .. OFDS
      BY <2>1, <2>3, Settings
    <3>2. CASE Back(w, p, i) = {}
      <4>1. SyncedOfd(w, p, i).offset = w.ofds[i].offset
        BY <1>1, <3>1, <3>2, SyncedAt
      <4> QED BY <1>4, <2>1, <2>3, <3>1, <3>2, <4>1 DEF LandsAt
    <3>3. CASE Back(w, p, i) # {}
      <4>1. PICK f \in Back(w, p, i) : f \in Fds /\ SyncedOfd(w, p, i).offset = w.tables[p][f].offset
        BY <1>1, <3>1, <3>3, SyncedAt
      <4> DEFINE g == w.tables[p][f]
                 u == <<p, f>>
      <4>2. f \in w.touched[p] /\ g.ofd = i
        BY DEF Back, H
      <4>3. u \in Spots /\ V[u] = g
        BY <4>1, SpotIs, HandsIs
      <4>4. g.id = h.id
        <5>1. CASE u = r
          BY <4>3, <5>1 DEF h
        <5>2. CASE u # r
          <6>1. Tied(V[r], V[u])
            BY <4>3, <5>2 DEF Lands
          <6> QED BY <2>3, <4>2, <4>3, <6>1 DEF Tied, h
        <5> QED BY <5>1, <5>2
      <4>5. g.offset = T[h.id]
        BY <4>2, <4>4 DEF Lands
      <4> QED BY <1>4, <2>3, <3>1, <4>1, <4>5
    <3> QED BY <3>2, <3>3
  <2> QED BY <2>2, <2>3
<1>6. Whole(V, t, T)
  BY <1>5 DEF Whole, Lands
<1>7. Hands(s, k) = V
  BY <1>2, SameHands
<1> HIDE DEF V
<1>8. Held(s, k, T)
  BY <1>3, <1>6, <1>7 DEF Held
<1> QED BY <1>8 DEF s

\* The truth says where each opening is.
Posed(t) == "pos" \in DOMAIN t /\ DOMAIN t.pos = Ids
Met == {"fresh", "full", "waited", "size"}
PosInv == Posed(truth) /\ (odd \intersect Met = {} => Held(World, Out(passing), truth.pos))

LEMMA HeldNext ==
  ASSUME setup' = setup, NEW s, Becomes(s), Held(s, Out(passing'), truth'.pos) PROVE Held(World, Out(passing), truth.pos)'
<1> DEFINE k == Out(passing')
           V == Hands(s, k)
           T == truth'.pos
<1>1. Procs' = Procs /\ Fds' = Fds /\ Ids' = Ids /\ Spots' = Spots
  BY DEF Procs, Fds, PROGRAM_FILES, Ids, Spots
<1>2. World'.tables = s.tables /\ ofds' = s.ofds /\ World'.ofds = s.ofds /\ Out(passing)' = k
  BY DEF World, Becomes, Out, NoHandle, Handle
<1>3. Hands(World, Out(passing))' = V
  BY <1>1, <1>2 DEF Hands
<1>4. Whole(V, s.ofds, T)
  BY DEF Held
<1> HIDE DEF V, k
<1>5. \A h : Proper(h)' <=> Proper(h)
  BY <1>1 DEF Proper
<1> QED BY <1>1, <1>2, <1>3, <1>4, <1>5 DEF Held, Whole

\* What is forgotten is of nothing.
LEMMA TidyIs ==
  ASSUME NEW t, Posed(t), NEW w, NEW q
  PROVE  LET u == Tidy(t, w, q)
         IN Posed(u) /\ \A i \in IdsUsed(w, q) \ {0} : i \in Ids => u.pos[i] = t.pos[i]
<1> DEFINE ids == IdsUsed(w, q) \ {0}
           nodes == ({t.names[n] : n \in setup.Names} \union {t.node[i] : i \in ids}) \ {0}
           a == [i \in Ids |-> IF i \in ids THEN t.pos[i] ELSE 0]
           b == [i \in Ids |-> IF i \in ids THEN t.node[i] ELSE 0]
           c == [n \in DOMAIN t.bytes |-> IF n \in nodes THEN t.bytes[n] ELSE <<>>]
           u == Tidy(t, w, q)
<1>1. u = [t EXCEPT !.pos = a, !.node = b, !.bytes = c]
  BY DEF Tidy
<1>2. DOMAIN a = Ids /\ \A i \in ids : i \in Ids => a[i] = t.pos[i]
  OBVIOUS
<1> HIDE DEF a, b, c, u, ids
<1>3. "pos" \in DOMAIN u /\ u.pos = a
  BY <1>1 DEF Posed
<1> QED BY <1>2, <1>3 DEF Posed, u, ids

\* What is somewhere is not forgotten.
LEMMA TidyHeld ==
  ASSUME setup \in Setups, NEW t, Posed(t), NEW s, NEW q, q = <<>> \/ q = <<q[1]>>, Held(s, Out(q), t.pos), NEW u, u = Tidy(t, s, q)
  PROVE  Posed(u) /\ Held(s, Out(q), u.pos)
<1> DEFINE k == Out(q)
           V == Hands(s, k)
           ids == IdsUsed(s, q)
<1>1. Posed(u) /\ \A i \in ids \ {0} : i \in Ids => u.pos[i] = t.pos[i]
  BY TidyIs
<1>2. ASSUME NEW r \in Spots, V[r].id # 0 PROVE u.pos[V[r].id] = t.pos[V[r].id]
  <2>1. V[r].id \in Ids
    BY <1>2 DEF Held, Whole, Proper
  <2>2. V[r].id \in ids
    <3>1. CASE r = <<>>
      <4>1. V[r] = k
        BY <3>1, HandsIs
      <4>2. q # <<>>
        <5> SUFFICES ASSUME q = <<>> PROVE FALSE
          OBVIOUS
        <5>1. k = NoHandle
          BY DEF Out
        <5>2. Empty(NoHandle)
          BY NoneIs
        <5> HIDE DEF k, V
        <5> QED BY <1>2, <4>1, <5>1, <5>2 DEF Empty
      <4>3. q = <<q[1]>> /\ k = q[1]
        BY <4>2 DEF Out
      <4>4. 1 \in 1 .. Len(q)
        BY <4>3
      <4> HIDE DEF k, V
      <4> QED BY <4>1, <4>3, <4>4 DEF IdsUsed
    <3>2. CASE r # <<>>
      <4>1. PICK a \in Procs, f \in Fds : r = <<a, f>>
        BY <3>2, SpotIs
      <4>2. V[r] = s.tables[a][f]
        BY <4>1, HandsIs
      <4> HIDE DEF V
      <4> QED BY <4>2 DEF IdsUsed
    <3> QED BY <3>1, <3>2
  <2> HIDE DEF V, ids
  <2> QED BY <1>1, <1>2, <2>1, <2>2
<1>3. Agrees(V, t.pos, u.pos)
  BY <1>2 DEF Agrees
<1> QED BY <1>1, <1>3, AgreesWhole DEF Held

LEMMA EndsPos ==
  ASSUME setup \in Setups, setup' = setup, PassingOK', NEW P, NEW p \in P, p \in Procs, NEW w, NEW t, NEW met, Ends(p, w, t, met), Posed(t),
         NEW x, NEW y, Sure(w, P, x, y, Out(passing')), odd' \intersect Met = {} => Lands(w, Out(passing'), p, t.pos)
  PROVE  PosInv'
<1> DEFINE s == Synced(w, p)
           q == passing'
           u == Tidy(t, s, q)
<1>1. truth' = u /\ Becomes(s)
  BY DEF Ends
<1>2. q = <<>> \/ q = <<q[1]>>
  BY DEF PassingOK
<1>3. Posed(truth)'
  <2>1. Posed(u)
    BY TidyIs
  <2>2. Ids' = Ids
    BY DEF Ids, Procs, PROGRAM_FILES
  <2> HIDE DEF u
  <2> QED BY <1>1, <2>1, <2>2 DEF Posed
<1>4. ASSUME odd' \intersect Met = {} PROVE Held(World, Out(passing), truth.pos)'
  <2>1. Held(s, Out(q), t.pos)
    BY <1>4, SyncedHeld
  <2> HIDE DEF s
  <2>2. Held(s, Out(q), u.pos)
    BY <1>2, <2>1, TidyHeld
  <2> HIDE DEF u
  <2> QED BY <1>1, <2>2, HeldNext
<1> QED BY <1>3, <1>4 DEF PosInv, Met

\* What a call of p begins with.
LEMMA PosBegins ==
  ASSUME OpenInv, PosInv, odd = {}, NEW p \in Procs
  PROVE  /\ setup \in Setups /\ Sure(World, {p}, Outside(passing), Zero, Out(passing)) /\ Posed(truth)
         /\ Fair(World, Out(passing), p, touched[p], truth.pos) /\ LookedAt(World, p)
         /\ \A q \in Procs : Sure(World, {p, q}, Outside(passing), Zero, Out(passing))
<1> DEFINE x == Outside(passing)
           k == Out(passing)
<1>1. /\ setup \in Setups /\ Good(World, {p}, x, Zero) /\ x \in [1 .. OFDS -> Int] /\ NonNeg(x) /\ MNonNeg(Zero) /\ PassingOK
  BY Begins
<1>2. HandleOK(k)
  BY <1>1, NoHandleOK DEF PassingOK, Out
<1>3. Carried(k, x)
  <2> SUFFICES ASSUME k.ofd # 0 PROVE x[k.ofd] > 0
    BY DEF Carried
  <2>1. k.ofd \in 1 .. OFDS
    BY <1>1, <1>2, Settings DEF HandleOK
  <2>2. passing # <<>> /\ k = passing[1]
    BY <1>1, NoHandleOK DEF Out
  <2> QED BY <2>1, <2>2 DEF Outside
<1>4. Good(World, {}, x, Zero)
  BY DEF OpenInv
<1>5. ASSUME NEW q \in Procs PROVE Good(World, {p, q}, x, Zero)
  BY <1>4 DEF Good, Quiet
<1>6. LookedAt(World, p)
  BY <1>4 DEF Good, Quiet, LookedAt, World
<1>7. Held(World, k, truth.pos)
  BY DEF PosInv
<1>8. Current(World, p, touched[p], truth.pos)
  BY DEF Current, World
<1> QED BY <1>1, <1>2, <1>3, <1>5, <1>6, <1>7, <1>8 DEF Sure, Fair, PosInv

\* What a call left waiting had loaded, and has not been moved since.
LEMMA NotWaited ==
  ASSUME NEW p \in Procs, NEW w, NEW t, NEW met, Ends(p, w, t, met), odd' \intersect Met = {}, NEW k, NEW T, Held(w, k, T), touched[p] \subseteq Fds
  PROVE  Unmoved(w, p, touched[p], t.pos) /\ met \intersect Met = {}
<1>1. "waited" \notin odd' /\ met \subseteq odd'
  BY SMTT(60) DEF Met, Ends
<1>2. ASSUME NEW f \in touched[p], w.tables[p][f].id # 0 PROVE w.tables[p][f].offset = t.pos[w.tables[p][f].id]
  <2>1. Proper(w.tables[p][f])
    BY HeldAt
  <2>2. w.tables[p][f].kind # "none"
    BY <1>2, <2>1 DEF Proper
  <2> QED BY <1>1, <1>2, <2>2 DEF Ends, H
<1> QED BY <1>1, <1>2 DEF Unmoved

\* A call that moves nothing.
LEMMA QuietPos ==
  ASSUME OpenInv, PosInv, odd = {}, setup' = setup, PassingOK', NEW p \in Procs, NEW w, NEW t, NEW met, Ends(p, w, t, met), Posed(t),
         NEW P, p \in P, NEW x, NEW y, Sure(w, P, x, y, Out(passing')),
         odd' \intersect Met = {} => Fair(w, Out(passing'), p, touched[p], t.pos)
  PROVE  PosInv'
<1>1. setup \in Setups /\ touched[p] \subseteq Fds
  BY Begins DEF World, Typed
<1>2. ASSUME odd' \intersect Met = {} PROVE Lands(w, Out(passing'), p, t.pos)
  <2>1. Fair(w, Out(passing'), p, touched[p], t.pos)
    BY <1>2
  <2>2. Unmoved(w, p, touched[p], t.pos)
    BY <1>1, <1>2, <2>1, NotWaited DEF Fair
  <2> QED BY <2>1, <2>2, FairLands
<1> QED BY <1>1, <1>2, EndsPos

----------------------------------------------------------------------------
(* A new opening.                                                          *)

\* There are more of them to be had than there are descriptors.
LEMMA NewIdIs ==
  ASSUME setup \in Setups, PassingOK PROVE NewId \in Ids /\ NewId \notin IdsUsed(World, passing) /\ NewId # 0
<1> DEFINE F == Procs \X Fds
           A == {tables[r[1]][r[2]].id : r \in F}
           A2 == {World.tables[q][f].id : q \in Procs, f \in Fds}
           B == {passing[i].id : i \in 1 .. Len(passing)}
           S == IdsUsed(World, passing)
           a == Cardinality(Procs)
           n == PROGRAM_FILES
<1>1. IsFiniteSet(Procs) /\ n \in Nat \ {0} /\ a \in Nat
  BY Settings, FS_CardinalityType
<1>2. IsFiniteSet(Fds) /\ Cardinality(Fds) = n
  <2>1. IsFiniteSet(0 .. n - 1) /\ Cardinality(0 .. n - 1) = n
    <3> HIDE DEF n
    <3> QED BY <1>1, FS_Interval
  <2> QED BY <2>1 DEF Fds
<1>3. IsFiniteSet(F) /\ Cardinality(F) = a * n
  BY <1>1, <1>2, FS_Product
<1>4. IsFiniteSet(A) /\ Cardinality(A) <= a * n /\ Cardinality(A) \in Nat
  <2>1. IsFiniteSet(A) /\ Cardinality(A) <= Cardinality(F)
    <3> DEFINE g == [r \in F |-> tables[r[1]][r[2]].id]
    <3> HIDE DEF F
    <3>1. g \in [F -> A] /\ \A e \in A : \E r \in F : g[r] = e
      OBVIOUS
    <3> HIDE DEF g
    <3>2. g \in Surjection(F, A)
      BY <3>1, Fun_IsSurj
    <3> QED BY <1>3, <3>2, FS_Surjection
  <2> HIDE DEF A
  <2> QED BY <1>3, <2>1, FS_CardinalityType
<1>5. A2 \subseteq A
  <2> SUFFICES ASSUME NEW q \in Procs, NEW f \in Fds PROVE World.tables[q][f].id \in A
    OBVIOUS
  <2> DEFINE r == <<q, f>>
  <2>1. r \in F /\ World.tables[q][f].id = tables[r[1]][r[2]].id
    BY DEF World
  <2> HIDE DEF r
  <2> QED BY <2>1
<1>6. IsFiniteSet(B) /\ Cardinality(B) <= 1 /\ Cardinality(B) \in Nat
  <2> DEFINE e == passing[1].id
  <2>1. B \subseteq {e}
    BY DEF PassingOK
  <2>2. IsFiniteSet({e}) /\ Cardinality({e}) = 1
    BY FS_Singleton
  <2> HIDE DEF B, e
  <2> QED BY <2>1, <2>2, FS_Subset, FS_CardinalityType
<1>7. S \subseteq A \union B
  <2>1. S = A2 \union B
    BY DEF IdsUsed
  <2> HIDE DEF A, A2, B, S
  <2> QED BY <1>5, <2>1
<1> HIDE DEF A, A2, B, F, S, a
<1>8. IsFiniteSet(A \union B) /\ Cardinality(A \union B) <= a * n + 1 /\ Cardinality(A \union B) \in Nat
  <2>1. /\ IsFiniteSet(A \union B) /\ IsFiniteSet(A \intersect B)
        /\ Cardinality(A \union B) = Cardinality(A) + Cardinality(B) - Cardinality(A \intersect B)
    BY <1>4, <1>6, FS_Union, FS_Subset
  <2>2. Cardinality(A \intersect B) \in Nat
    BY <2>1, FS_CardinalityType
  <2>3. a * n \in Nat
    BY <1>1
  <2> DEFINE k == a * n
  <2> HIDE DEF k
  <2>4. k \in Nat /\ Cardinality(A) <= k
    BY <1>4, <2>3 DEF k
  <2>5. Cardinality(A \union B) <= k + 1 /\ Cardinality(A \union B) \in Nat
    <3>1. Cardinality(A \union B) \in Nat
      BY <2>1, FS_CardinalityType
    <3> QED BY <1>4, <1>6, <2>1, <2>2, <2>4, <3>1
  <2> QED BY <2>1, <2>5 DEF k
<1> DEFINE m == a * n
<1>9. Ids = 1 .. m + 2
  BY DEF Ids, a
<1>10. m \in Nat
  BY <1>1
<1> HIDE DEF m
<1>11. Ids \ S # {}
  <2> SUFFICES ASSUME Ids \ S = {} PROVE FALSE
    OBVIOUS
  <2>1. Ids \subseteq A \union B
    BY <1>7
  <2>2. IsFiniteSet(Ids) /\ Cardinality(Ids) = m + 2
    BY <1>9, <1>10, FS_Interval
  <2>3. Cardinality(Ids) <= Cardinality(A \union B)
    BY <1>8, <2>1, FS_Subset
  <2> QED BY <1>8, <1>10, <2>2, <2>3 DEF m
<1>12. NewId \in Ids \ S
  <2> DEFINE D == Ids \ S
  <2>1. D \subseteq Nat /\ D # {}
    BY <1>9, <1>10, <1>11
  <2> HIDE DEF D
  <2>2. Min(D) \in D
    BY <2>1, MinIn
  <2> QED BY <2>2 DEF NewId, D, S
<1> QED BY <1>9, <1>10, <1>12 DEF S

\* Nothing is of opening id.
NobodyOf(w, k, id) == \A r \in Spots : Hands(w, k)[r].id # id
LEMMA NewIdFree ==
  ASSUME setup \in Setups, PassingOK PROVE NewId \in Ids /\ NewId # 0 /\ NobodyOf(World, Out(passing), NewId)
<1> DEFINE k == Out(passing)
           V == Hands(World, k)
           S == IdsUsed(World, passing)
           n == NewId
<1>1. n \in Ids /\ n \notin S /\ n # 0
  BY NewIdIs
<1>2. ASSUME NEW r \in Spots PROVE V[r].id # n
  <2>1. CASE r = <<>>
    <3>1. V[r] = k
      BY <2>1, HandsIs
    <3>2. CASE passing = <<>>
      <4>1. k = NoHandle
        BY <3>2 DEF Out
      <4>2. k.id = 0
        BY <4>1, NoneIs DEF Empty
      <4> HIDE DEF V, n, k
      <4> QED BY <1>1, <3>1, <4>2
    <3>3. CASE passing # <<>>
      <4>1. passing = <<passing[1]>> /\ k = passing[1]
        BY <3>3 DEF PassingOK, Out
      <4>2. 1 \in 1 .. Len(passing)
        BY <4>1
      <4>3. k.id \in S
        <5> HIDE DEF k
        <5> QED BY <4>1, <4>2 DEF IdsUsed
      <4> HIDE DEF V, n, k
      <4> QED BY <1>1, <3>1, <4>3
    <3> QED BY <3>2, <3>3
  <2>2. CASE r # <<>>
    <3>1. PICK q \in Procs, f \in Fds : r = <<q, f>>
      BY <2>2, SpotIs
    <3>2. V[r] = World.tables[q][f]
      BY <3>1, HandsIs
    <3>3. V[r].id \in S
      <4> HIDE DEF V
      <4> QED BY <3>2 DEF IdsUsed
    <3> HIDE DEF V, n, S
    <3> QED BY <1>1, <3>3
  <2> QED BY <2>1, <2>2
<1> HIDE DEF V, n, k
<1> QED BY <1>1, <1>2 DEF NobodyOf, V, n, k

\* Where it is said to be is nothing to the others.
LEMMA NewFair ==
  ASSUME NEW w, NEW k, NEW p \in Procs, NEW U, NEW T, Fair(w, k, p, U, T), w.touched[p] \subseteq Fds, NEW id, NobodyOf(w, k, id),
         NEW S, \A i \in Ids : i # id => S[i] = T[i]
  PROVE  Fair(w, k, p, U, S)
<1>1. Whole(Hands(w, k), w.ofds, T) /\ Current(w, p, U, T)
  BY DEF Fair, Held
<1>2. Agrees(Hands(w, k), T, S)
  BY <1>1 DEF Agrees, NobodyOf, Whole, Proper
<1>3. ASSUME NEW f \in w.touched[p] \ U, w.tables[p][f].id # 0 PROVE w.tables[p][f].offset = S[w.tables[p][f].id]
  <2>1. f \in Fds /\ <<p, f>> \in Spots /\ Hands(w, k)[<<p, f>>] = w.tables[p][f]
    BY SpotIs, HandsIs
  <2>2. S[w.tables[p][f].id] = T[w.tables[p][f].id]
    BY <1>2, <1>3, <2>1 DEF Agrees
  <2> QED BY <1>1, <1>3, <2>2 DEF Current
<1> QED BY <1>1, <1>2, <1>3, AgreesWhole DEF Fair, Held, Current

LEMMA NewTied ==
  ASSUME NEW V, NEW h, \A r \in Spots : V[r].id # h.id, h.ofd # 0 => NobodyHas(V, h.ofd)
  PROVE  \A r \in Spots : Tied(V[r], h)
BY DEF Tied, NobodyHas

\* The truth with an opening somewhere, and perhaps of another file.
Began(t, u, id, a, n) == u = [t EXCEPT !.pos[id] = a, !.node[id] = n]
LEMMA PosedAt ==
  ASSUME NEW t, Posed(t), NEW id, NEW a, NEW n, NEW u, Began(t, u, id, a, n)
  PROVE  Posed(u) /\ (id \in Ids => u.pos[id] = a) /\ \A i \in Ids : i # id => u.pos[i] = t.pos[i]
<1> DEFINE c == [t.pos EXCEPT ![id] = a]
           d == [t.node EXCEPT ![id] = n]
           g == [t EXCEPT !.pos = c]
<1>1. DOMAIN c = Ids /\ (id \in Ids => c[id] = a) /\ \A i \in Ids : i # id => c[i] = t.pos[i]
  BY DEF Posed
<1> HIDE DEF c
<1>2. DOMAIN g = DOMAIN t /\ g.pos = c
  BY DEF Posed
<1>3. u = [g EXCEPT !.node[id] = n]
  BY DEF c, Began
<1> DEFINE e == [g.node EXCEPT ![id] = n]
<1>4. u = [g EXCEPT !.node = e]
  BY <1>3
<1> HIDE DEF g, e
<1>5. "pos" \in DOMAIN t
  BY DEF Posed
<1>6. DOMAIN u = DOMAIN t /\ u.pos = c
  BY <1>2, <1>4, <1>5
<1>7. Posed(u)
  BY <1>1, <1>5, <1>6 DEF Posed
<1> HIDE DEF c
<1> QED BY <1>1, <1>6, <1>7

\* A call that moves nothing, and leaves what is being passed as it is.
LEMMA QuietStill ==
  ASSUME OpenInv, PosInv, odd = {}, setup' = setup, passing' = passing, NEW p \in Procs, NEW w, NEW t, NEW met, Ends(p, w, t, met),
         Posed(t), NEW P, p \in P, NEW x, NEW y, Sure(w, P, x, y, Out(passing)),
         odd' \intersect Met = {} => Fair(w, Out(passing), p, touched[p], t.pos)
  PROVE  PosInv'
<1>1. PassingOK'
  BY Begins, PassingStill
<1> QED BY <1>1, QuietPos

\* A free slot opened for h, the first descriptor of an opening, and h given.
LEMMA OpenedFair ==
  ASSUME setup \in Setups, NEW w, Typed(w), NEW k, Live(w, k), NEW slot \in 1 .. OFDS, w.ofds[slot].refs = 0,
         NEW p, NEW U, NEW T, Fair(w, k, p, U, T), NEW offset, NEW size, NEW mem, NEW name,
         NEW v, v = Opened(w, slot, offset, size, mem, name)
  PROVE  /\ Fair(v, k, p, U, T) /\ v.ofds[slot].offset = offset /\ NobodyHas(Hands(v, k), slot)
         /\ v.tables = w.tables /\ v.touched = w.touched
<1> DEFINE o == [refs |-> 1, offset |-> offset, size |-> size, mem |-> mem, name |-> name]
           f == [w.ofds EXCEPT ![slot] = o]
           V == Hands(w, k)
<1>1. v = SlotIs(w, slot, o)
  BY DEF Opened
<1>2. o.offset = offset
  OBVIOUS
<1> HIDE DEF o
<1>3. v.tables = w.tables /\ v.touched = w.touched
  BY <1>1, SlotSame
<1>4. v = [w EXCEPT !.ofds = f]
  BY <1>1 DEF SlotIs
<1>5. w.ofds = [i \in 1 .. OFDS |-> w.ofds[i]] /\ w = [tables |-> w.tables, touched |-> w.touched, ofds |-> w.ofds, mems |-> w.mems]
  BY DEF Typed
<1>6. f[slot].offset = offset /\ \A i \in 1 .. OFDS : i # slot => f[i] = w.ofds[i]
  BY <1>2, <1>5
<1> HIDE DEF f
<1>7. v.ofds = f
  BY <1>4, <1>5
<1>8. NobodyHas(V, slot)
  BY LiveFree
<1>9. SlotsKept(V, w.ofds, f)
  <2> SUFFICES ASSUME NEW r \in Spots, V[r].ofd # 0 PROVE f[V[r].ofd].offset = w.ofds[V[r].ofd].offset
    BY DEF SlotsKept
  <2> DEFINE i == V[r].ofd
  <2>1. i \in 0 .. OFDS /\ i # 0 /\ i # slot
    BY <1>8 DEF Live, NobodyHas
  <2> HIDE DEF i
  <2>2. i \in 1 .. OFDS
    BY <2>1, Settings
  <2> QED BY <1>6, <2>1, <2>2 DEF i
<1>10. Hands(v, k) = V
  BY <1>3, SameHands
<1>11. Held(v, k, T)
  BY <1>7, <1>9, <1>10, FreeWhole DEF Fair, Held
<1>12. Current(v, p, U, T)
  BY <1>3 DEF Fair, Current
<1> HIDE DEF V
<1>13. v.ofds[slot].offset = offset /\ NobodyHas(Hands(v, k), slot)
  BY <1>6, <1>7, <1>8, <1>10
<1> QED BY <1>3, <1>11, <1>12, <1>13 DEF Fair

LEMMA GivenNew ==
  ASSUME setup \in Setups, NEW w, Typed(w), NEW k, Live(w, k), NEW slot \in 1 .. OFDS, w.ofds[slot].refs = 0,
         NEW offset, NEW size, NEW mem, NEW name, NEW v, v = Opened(w, slot, offset, size, mem, name),
         NEW P, NEW x, NEW y, NEW h, HandleOK(h), Good(v, P, Plus(x, h), y), x \in [1 .. OFDS -> Int], NonNeg(x), MNonNeg(y),
         HandleOK(k), Carried(k, x), NEW p \in P, p \in Procs, NEW U, NEW T, Fair(w, k, p, U, T), LookedAt(w, p),
         Proper(h), h.ofd = slot, h.id # 0, NobodyOf(w, k, h.id), T[h.id] = offset
  PROVE  Sure(Given(v, p, h), P, x, y, k) /\ Fair(Given(v, p, h), k, p, U, T)
<1>1. /\ Fair(v, k, p, U, T) /\ v.ofds[slot].offset = offset /\ NobodyHas(Hands(v, k), slot)
      /\ v.tables = w.tables /\ v.touched = w.touched
  BY OpenedFair
<1>2. slot # 0
  OBVIOUS
<1>3. RightAt(h, v.ofds, T)
  BY <1>1, <1>2 DEF RightAt
<1>4. \A r \in Spots : Tied(Hands(v, k)[r], h)
  <2> DEFINE V == Hands(v, k)
  <2>1. V = Hands(w, k)
    BY <1>1, SameHands
  <2>2. \A r \in Spots : V[r].id # h.id
    BY <2>1 DEF NobodyOf
  <2>3. NobodyHas(V, h.ofd)
    BY <1>1
  <2> HIDE DEF V
  <2>4. \A r \in Spots : Tied(V[r], h)
    BY <2>2, <2>3, NewTied
  <2> QED BY <2>4 DEF V
<1>5. LookedAt(v, p)
  BY <1>1 DEF LookedAt
<1> QED BY <1>1, <1>3, <1>4, <1>5, GivenFair

LEMMA LiveSame ==
  ASSUME setup \in Setups, NEW w, NEW k, Live(w, k), NEW v, v.tables = w.tables, \A i \in 1 .. OFDS : v.ofds[i].refs = w.ofds[i].refs
  PROVE  Live(v, k)
<1> DEFINE V == Hands(w, k)
<1>1. Hands(v, k) = V
  BY SameHands
<1>2. \A r \in Spots : V[r].ofd \in 0 .. OFDS /\ (V[r].ofd # 0 => w.ofds[V[r].ofd].refs # 0)
  BY DEF Live
<1> HIDE DEF V
<1>3. \A i \in 0 .. OFDS : i # 0 => i \in 1 .. OFDS
  BY Settings
<1>4. ASSUME NEW r \in Spots PROVE V[r].ofd \in 0 .. OFDS /\ (V[r].ofd # 0 => v.ofds[V[r].ofd].refs # 0)
  BY <1>2, <1>3
<1> QED BY <1>1, <1>4 DEF Live

LEMMA OpenOtherPos ==
  ASSUME OpenInv, PosInv, odd = {}, setup' = setup, NEW p \in Procs, OpenOther(p) PROVE PosInv'
<1> DEFINE k == Out(passing)
           x == Outside(passing)
           U == touched[p]
           T == truth.pos
           P == {p}
           w == Given(World, p, Pipe)
           met == {}
<1>1. /\ setup \in Setups /\ Sure(World, P, x, Zero, k) /\ Fair(World, k, p, U, T) /\ LookedAt(World, p) /\ Posed(truth)
  BY PosBegins
<1>2. Ends(p, w, truth, met) /\ passing' = passing
  BY DEF OpenOther, Done
<1> HIDE DEF met
<1>3. HandleOK(Pipe) /\ Pipe.ofd = 0 /\ Proper(Pipe) /\ Empty(Pipe)
  BY <1>1, NoHandleOK, NoneIs
<1>4. \A r \in Spots : Tied(Hands(World, k)[r], Pipe)
  <2> DEFINE V == Hands(World, k)
  <2>1. \A r \in Spots : Proper(V[r])
    BY <1>1 DEF Fair, Held, Whole
  <2> HIDE DEF V
  <2> QED BY <1>3, <2>1, EmptyTied DEF V
<1>5. RightAt(Pipe, World.ofds, T)
  BY <1>3 DEF Empty, RightAt
<1>6. Good(World, P, Plus(x, Pipe), Zero) /\ x \in [1 .. OFDS -> Int] /\ NonNeg(x) /\ MNonNeg(Zero) /\ HandleOK(k) /\ Carried(k, x)
  BY <1>1, <1>3, PlusNone DEF Sure, Good
<1>7. p \in P
  OBVIOUS
<1> HIDE DEF P, x, k, U, T
<1>8. Sure(w, P, x, Zero, k) /\ Fair(w, k, p, U, T)
  BY <1>1, <1>3, <1>4, <1>5, <1>6, <1>7, GivenFair
<1> HIDE DEF w
<1> QED BY <1>1, <1>2, <1>7, <1>8, QuietStill DEF k, U, T

LEMMA OpenReadPos ==
  ASSUME OpenInv, PosInv, odd = {}, setup' = setup, NEW p \in Procs, NEW name \in setup.Names, NEW c \in BOOLEAN, OpenRead(p, name, c)
  PROVE  PosInv'
<1> DEFINE k == Out(passing)
           x == Outside(passing)
           U == touched[p]
           P == {p}
           id == NewId
           h == Handle("read", 0, 0, Len(disk[name].bytes), disk[name].start, c, id)
           fd == Lowest(World, p)
           g == Given(World, p, h)
           w == IF c /\ fd # -1 THEN Picked(g, p, fd) ELSE g
           node == truth.names[name]
           t == [truth EXCEPT !.pos[id] = 0, !.node[id] = node]
           T == t.pos
           met == {}
<1>1. /\ setup \in Setups /\ Sure(World, P, x, Zero, k) /\ Fair(World, k, p, U, truth.pos) /\ LookedAt(World, p) /\ Posed(truth)
  BY PosBegins
<1>2. Ends(p, w, t, met) /\ passing' = passing
  BY DEF OpenRead, Done
<1> HIDE DEF met
<1>3. id \in Ids /\ id # 0 /\ NobodyOf(World, k, id)
  BY <1>1, Begins, NewIdFree
<1>4. HandleOK(h) /\ h.ofd = 0 /\ h.id = id /\ h.offset = 0 /\ h.kind = "read"
  <2> DEFINE size == Len(disk[name].bytes)
             start == disk[name].start
  <2>1. 0 \in 0 .. OFDS /\ 0 \in 0 .. MaxSize /\ size \in 0 .. MaxSize
    BY <1>1, Settings, Begins DEF DiskOK
  <2> HIDE DEF size, start, id
  <2>2. HandleOK(Handle("read", 0, 0, size, start, c, id)) /\ Handle("read", 0, 0, size, start, c, id).ofd = 0
    BY <2>1, HandleIs
  <2>3. /\ Handle("read", 0, 0, size, start, c, id).id = id /\ Handle("read", 0, 0, size, start, c, id).offset = 0
        /\ Handle("read", 0, 0, size, start, c, id).kind = "read"
    BY DEF Handle
  <2> QED BY <2>2, <2>3 DEF size, start
<1> HIDE DEF h
<1>5. Posed(t) /\ T[id] = 0 /\ \A i \in Ids : i # id => T[i] = truth.pos[i]
  <2> DEFINE zero == 0
  <2>1. Began(truth, t, id, zero, node)
    BY DEF Began
  <2> HIDE DEF t, id, node, zero
  <2>2. Posed(t) /\ (id \in Ids => t.pos[id] = zero) /\ \A i \in Ids : i # id => t.pos[i] = truth.pos[i]
    BY <1>1, <2>1, PosedAt
  <2> QED BY <1>3, <2>2 DEF zero
<1> HIDE DEF t, id
<1>6. Fair(World, k, p, U, T)
  <2>1. World.touched[p] \subseteq Fds
    BY <1>1 DEF Sure, Good, Typed
  <2> HIDE DEF T, k, U
  <2> QED BY <1>1, <1>3, <1>5, <2>1, NewFair
<1>7. Proper(h) /\ RightAt(h, World.ofds, T)
  BY <1>3, <1>4, <1>5 DEF Proper, RightAt
<1>8. \A r \in Spots : Tied(Hands(World, k)[r], h)
  <2> DEFINE V == Hands(World, k)
  <2>1. \A r \in Spots : V[r].id # h.id
    BY <1>3, <1>4 DEF NobodyOf
  <2> HIDE DEF V
  <2> QED BY <1>4, <2>1, NewTied DEF V
<1>9. Good(World, P, Plus(x, h), Zero) /\ x \in [1 .. OFDS -> Int] /\ NonNeg(x) /\ MNonNeg(Zero) /\ HandleOK(k) /\ Carried(k, x)
  BY <1>1, <1>4, PlusNone DEF Sure, Good
<1>10. p \in P
  OBVIOUS
<1> HIDE DEF P, x, k, U, T
<1>11. Sure(g, P, x, Zero, k) /\ Fair(g, k, p, U, T)
  BY <1>1, <1>4, <1>6, <1>7, <1>8, <1>9, <1>10, GivenFair
<1> HIDE DEF g
<1>12. Sure(w, P, x, Zero, k) /\ Fair(w, k, p, U, T)
  <2>1. CASE c /\ fd # -1
    <3>1. fd \in Fds
      BY <1>1, <2>1, LowestIs DEF Sure, Good
    <3> HIDE DEF fd
    <3>2. Sure(Picked(g, p, fd), P, x, Zero, k) /\ Fair(Picked(g, p, fd), k, p, U, T)
      BY <1>1, <1>10, <1>11, <3>1, PickedFair
    <3> QED BY <2>1, <3>2
  <2>2. CASE ~(c /\ fd # -1)
    BY <1>11, <2>2
  <2> QED BY <2>1, <2>2
<1> HIDE DEF w
<1> QED BY <1>2, <1>5, <1>10, <1>12, QuietStill DEF k, U, T

LEMMA SameFair ==
  ASSUME NEW w, NEW k, NEW p, NEW U, NEW T, Fair(w, k, p, U, T), NEW v, v.tables = w.tables, v.touched = w.touched, v.ofds = w.ofds
  PROVE  Fair(v, k, p, U, T)
<1>1. Hands(v, k) = Hands(w, k)
  BY SameHands
<1> QED BY <1>1 DEF Fair, Held, Current

\* The truth with other names and bytes.
LEMMA NamesPosed ==
  ASSUME NEW t, Posed(t), NEW a, NEW b, NEW u, u = [t EXCEPT !.names[a] = b] PROVE Posed(u) /\ u.pos = t.pos
<1> DEFINE c == [t.names EXCEPT ![a] = b]
<1>1. u = [t EXCEPT !.names = c] /\ "pos" \in DOMAIN t
  BY DEF Posed
<1> HIDE DEF c
<1>2. DOMAIN u = DOMAIN t /\ u.pos = t.pos
  BY <1>1
<1> QED BY <1>2 DEF Posed

LEMMA BytesPosed ==
  ASSUME NEW t, Posed(t), NEW a, NEW b, NEW u, u = [t EXCEPT !.bytes[a] = b] PROVE Posed(u) /\ u.pos = t.pos
<1> DEFINE c == [t.bytes EXCEPT ![a] = b]
<1>1. u = [t EXCEPT !.bytes = c] /\ "pos" \in DOMAIN t
  BY DEF Posed
<1> HIDE DEF c
<1>2. DOMAIN u = DOMAIN t /\ u.pos = t.pos
  BY <1>1
<1> QED BY <1>2 DEF Posed

\* The first descriptor of an opening, h, given with a slot of its own.
LEMMA FirstPos ==
  ASSUME OpenInv, PosInv, odd = {}, setup' = setup, passing' = passing, NEW p \in Procs,
         NEW w, Typed(w), Live(w, Out(passing)), Fair(w, Out(passing), p, touched[p], truth.pos), LookedAt(w, p), w.touched[p] \subseteq Fds,
         NobodyOf(w, Out(passing), NewId), NEW slot \in 1 .. OFDS, w.ofds[slot].refs = 0,
         NEW offset, NEW size, NEW mem, NEW name, NEW v, v = Opened(w, slot, offset, size, mem, name),
         NEW h, HandleOK(h), h.ofd = slot, h.id = NewId, h.kind \in {"write", "mem"},
         NEW P, p \in P, Good(v, P, Plus(Outside(passing), h), Zero),
         NEW t, Posed(t), t.pos[NewId] = offset, \A i \in Ids : i # NewId => t.pos[i] = truth.pos[i],
         NEW met, Ends(p, Given(v, p, h), t, met)
  PROVE  PosInv'
<1> DEFINE k == Out(passing)
           x == Outside(passing)
           U == touched[p]
           T == t.pos
           id == NewId
           z == Given(v, p, h)
<1>1. /\ setup \in Setups /\ HandleOK(k) /\ Carried(k, x)
  BY PosBegins DEF Sure
<1>2. x \in [1 .. OFDS -> Int] /\ NonNeg(x) /\ MNonNeg(Zero) /\ PassingOK
  BY Begins
<1>3. id \in Ids /\ id # 0
  BY <1>1, <1>2, NewIdFree
<1> HIDE DEF x, U, k, id
<1>4. Fair(w, k, p, U, T)
  <2>1. Fair(w, k, p, U, truth.pos) /\ NobodyOf(w, k, id) /\ \A i \in Ids : i # id => T[i] = truth.pos[i]
    BY DEF k, U, id
  <2> HIDE DEF T
  <2> QED BY <2>1, NewFair
<1>5. T[id] = offset /\ h.id = id /\ Live(w, k) /\ NobodyOf(w, k, h.id) /\ Good(v, P, Plus(x, h), Zero)
  BY DEF id, k, x
<1>6. slot # 0
  OBVIOUS
<1>7. Proper(h)
  BY <1>3, <1>5, <1>6 DEF Proper
<1> HIDE DEF T
<1>8. Sure(z, P, x, Zero, k) /\ Fair(z, k, p, U, T)
  BY <1>1, <1>2, <1>3, <1>4, <1>5, <1>7, GivenNew
<1>9. Ends(p, z, t, met)
  OBVIOUS
<1> HIDE DEF z
<1> QED BY <1>8, <1>9, QuietStill DEF k, U, T

LEMMA OpenWritePos ==
  ASSUME OpenInv, PosInv, odd = {}, setup' = setup, NEW p \in Procs, NEW name \in setup.Names, NEW how, OpenWrite(p, name, how)
  PROVE  PosInv'
<1> DEFINE x == Outside(passing)
           k == Out(passing)
           new == ~disk[name].there
           empty == new \/ how = "trunc"
           bytes == IF empty THEN <<>> ELSE disk[name].bytes
           node == IF new THEN NewNode ELSE truth.names[name]
           offset == IF how = "append" THEN Len(bytes) ELSE 0
           slot == Min(FreeOfds(World))
           no == FALSE
           id == NewId
           len == Len(bytes)
           h == Handle("write", slot, offset, len, 0, no, id)
           t1 == [truth EXCEPT !.names[name] = node]
           t2 == [t1 EXCEPT !.bytes[node] = bytes]
           t == [t2 EXCEPT !.pos[id] = offset, !.node[id] = node]
           m == 0
           met == {}
           P == {p}
           y == Zero
           v == Opened(World, slot, offset, len, m, name)
           w == Given(v, p, h)
<1>1. /\ setup \in Setups /\ Good(World, P, x, y) /\ Typed(World) /\ y \in [Mems -> Int] /\ DiskOK /\ PassingOK /\ p \in P
  BY Begins
<1>2. Ends(p, w, t, met) /\ passing' = passing /\ FreeOfds(World) # {}
  BY DEF OpenWrite, Done
<1>3. slot \in 1 .. OFDS /\ World.ofds[slot].refs = 0
  BY <1>1, <1>2, FreeSlot
<1>4. 0 \in 0 .. OFDS /\ 0 \in 0 .. MaxSize /\ 0 \notin Mems /\ slot \in 0 .. OFDS
  BY <1>1, <1>3, Settings
<1>5. len \in 0 .. MaxSize /\ offset \in 0 .. MaxSize
  <2>1. Len(disk[name].bytes) \in 0 .. MaxSize
    BY <1>1 DEF DiskOK
  <2> QED BY <1>4, <2>1
<1>6. /\ Fair(World, k, p, touched[p], truth.pos) /\ LookedAt(World, p) /\ Posed(truth) /\ Live(World, k)
  BY PosBegins, GoodLive
<1>7. id \in Ids /\ id # 0 /\ NobodyOf(World, k, id)
  BY <1>1, NewIdFree
<1>8. Posed(t2) /\ t2.pos = truth.pos
  <2>1. Posed(t1) /\ t1.pos = truth.pos
    <3> HIDE DEF node
    <3> QED BY <1>6, NamesPosed
  <2> HIDE DEF t1, node, bytes
  <2>2. Posed(t2) /\ t2.pos = t1.pos
    BY <2>1, BytesPosed
  <2> HIDE DEF t2
  <2> QED BY <2>1, <2>2
<1>9. Posed(t) /\ t.pos[id] = offset /\ \A i \in Ids : i # id => t.pos[i] = truth.pos[i]
  <2> HIDE DEF t2, id, offset, node
  <2>1. Began(t2, t, id, offset, node)
    BY DEF Began
  <2> HIDE DEF t
  <2>2. Posed(t) /\ (id \in Ids => t.pos[id] = offset) /\ \A i \in Ids : i # id => t.pos[i] = t2.pos[i]
    BY <1>8, <2>1, PosedAt
  <2> QED BY <1>7, <1>8, <2>2
<1> HIDE DEF bytes, offset, slot, t, t1, t2, no, id, len, met
<1>10. HandleOK(h) /\ h.ofd = slot /\ h.id = id /\ h.kind = "write"
  <2>1. HandleOK(h) /\ h.ofd = slot
    BY <1>4, <1>5, HandleIs
  <2>2. h.id = id /\ h.kind = "write"
    BY DEF Handle
  <2> QED BY <2>1, <2>2
<1> HIDE DEF h, x, P
<1>11. Good(v, P, Plus(x, h), y)
  <2>1. \A j \in Mems : y[j] = y[j] + (IF j = m THEN 1 ELSE 0)
    BY <1>4 DEF Zero
  <2> DEFINE W == World
  <2>2. m \in Mems \union {0} /\ name \in setup.Names \union {NoName} /\ Good(W, P, x, y) /\ W.ofds[slot].refs = 0
    BY <1>1, <1>3
  <2> HIDE DEF W, m, y
  <2>3. Good(Opened(W, slot, offset, len, m, name), P, Plus(x, h), y)
    BY <1>1, <1>3, <1>5, <1>10, <2>1, <2>2, OpenedGood
  <2> QED BY <2>3 DEF W
<1>12. World.touched[p] \subseteq Fds
  BY <1>1 DEF Typed
<1>13. v = Opened(World, slot, offset, len, m, name) /\ Ends(p, Given(v, p, h), t, met)
  BY <1>2
<1>14. NobodyOf(World, k, NewId) /\ h.id = NewId /\ t.pos[NewId] = offset /\ \A i \in Ids : i # NewId => t.pos[i] = truth.pos[i]
  BY <1>7, <1>9, <1>10 DEF id
<1>15. Good(v, P, Plus(Outside(passing), h), Zero)
  BY <1>11 DEF x
<1> HIDE DEF v, m, w, y
<1> QED BY <1>1, <1>2, <1>3, <1>6, <1>9, <1>10, <1>12, <1>13, <1>14, <1>15, FirstPos DEF k

LEMMA MemfdCreatePos ==
  ASSUME OpenInv, PosInv, odd = {}, setup' = setup, NEW p \in Procs, MemfdCreate(p) PROVE PosInv'
<1> DEFINE x == Outside(passing)
           k == Out(passing)
           slot == Min(FreeOfds(World))
           m == Min(FreeMems(World))
           no == FALSE
           id == NewId
           zero == 0
           none == <<>>
           name == NoName
           h == Handle("mem", slot, zero, zero, 0, no, id)
           o == World.mems[m]
           o2 == [o EXCEPT !.refs = 1]
           g == MemIs(World, m, o2)
           v == Opened(g, slot, zero, zero, m, name)
           w == Given(v, p, h)
           node == NewNode
           t1 == [truth EXCEPT !.pos[id] = zero, !.node[id] = node]
           t == [t1 EXCEPT !.bytes[node] = none]
           P == {p}
           y == Zero
           met == {}
<1>1. /\ setup \in Setups /\ Good(World, P, x, y) /\ Typed(World) /\ y \in [Mems -> Int] /\ PassingOK /\ p \in P
      /\ World.touched[p] \subseteq Fds
  BY Begins DEF Typed
<1>2. Ends(p, w, t, met) /\ passing' = passing /\ FreeOfds(World) # {} /\ FreeMems(World) # {}
  BY DEF MemfdCreate, Done, World
<1>3. slot \in 1 .. OFDS /\ World.ofds[slot].refs = 0 /\ m \in Mems /\ o.refs = 0
  BY <1>1, <1>2, FreeSlot, FreeMem
<1>4. zero \in 0 .. MaxSize /\ slot \in 0 .. OFDS
  BY <1>1, <1>3, Settings
<1>5. Fair(World, k, p, touched[p], truth.pos) /\ LookedAt(World, p) /\ Posed(truth) /\ Live(World, k)
  BY PosBegins, GoodLive
<1>6. id \in Ids /\ NobodyOf(World, k, id)
  BY <1>1, NewIdFree
<1>7. Posed(t) /\ t.pos[id] = zero /\ \A i \in Ids : i # id => t.pos[i] = truth.pos[i]
  <2> HIDE DEF id, zero, node, none
  <2>1. Began(truth, t1, id, zero, node)
    BY DEF Began
  <2> HIDE DEF t1
  <2>2. Posed(t1) /\ (id \in Ids => t1.pos[id] = zero) /\ \A i \in Ids : i # id => t1.pos[i] = truth.pos[i]
    BY <1>5, <2>1, PosedAt
  <2>3. Posed(t) /\ t.pos = t1.pos
    <3>1. Posed(t1) /\ t = [t1 EXCEPT !.bytes[node] = none]
      BY <2>2
    <3> HIDE DEF t
    <3> QED BY <3>1, BytesPosed
  <2> HIDE DEF t
  <2> QED BY <1>6, <2>2, <2>3
<1>8. MemOK(o)
  BY <1>1, <1>3 DEF Typed
<1> HIDE DEF slot, m, o, t, no, id, zero, none, name, met, x, P, y, k
<1>9. MemOK(o2) /\ o2.refs = 1
  BY <1>8, MemRefs
<1> HIDE DEF o2
<1>10. HandleOK(h) /\ h.ofd = slot /\ h.id = id /\ h.kind = "mem"
  <2>1. HandleOK(h) /\ h.ofd = slot
    BY <1>4, HandleIs
  <2>2. h.id = id /\ h.kind = "mem"
    BY DEF Handle
  <2> QED BY <2>1, <2>2
<1> HIDE DEF h
<1> DEFINE n == o2.refs - o.refs
           u == More(y, m, n)
<1>11. n = 1
  BY <1>3, <1>9
<1>12. Good(g, P, x, u)
  BY <1>1, <1>3, <1>9, MemGood DEF o
<1> HIDE DEF n
<1>13. \A j \in Mems : u[j] = y[j] + (IF j = m THEN 1 ELSE 0)
  <2> SUFFICES ASSUME NEW j \in Mems PROVE u[j] = y[j] + (IF j = m THEN 1 ELSE 0)
    OBVIOUS
  <2>1. y[j] \in Int
    BY <1>1
  <2> QED BY <1>1, <1>11, <2>1 DEF More
<1>14. g.tables = World.tables /\ g.touched = World.touched /\ g.ofds = World.ofds
  BY MemSame
<1> HIDE DEF g, u
<1>15. Typed(g) /\ Live(g, k) /\ Fair(g, k, p, touched[p], truth.pos) /\ LookedAt(g, p) /\ NobodyOf(g, k, id)
  <2>1. Typed(g)
    BY <1>12 DEF Good
  <2>2. Hands(g, k) = Hands(World, k)
    BY <1>14, SameHands
  <2>3. Live(g, k) /\ NobodyOf(g, k, id)
    BY <1>5, <1>6, <1>14, <2>2 DEF Live, NobodyOf
  <2>4. Fair(g, k, p, touched[p], truth.pos)
    <3> DEFINE U == touched[p]
               T == truth.pos
    <3> HIDE DEF U, T
    <3>1. Fair(World, k, p, U, T)
      BY <1>5 DEF U, T
    <3>2. Fair(g, k, p, U, T)
      BY <1>14, <3>1, SameFair
    <3> QED BY <3>2 DEF U, T
  <2>5. LookedAt(g, p)
    BY <1>5, <1>14 DEF LookedAt
  <2> QED BY <2>1, <2>3, <2>4, <2>5
<1>16. Good(v, P, Plus(x, h), y)
  <2>1. m \in Mems \union {0} /\ name \in setup.Names \union {NoName} /\ g.ofds[slot].refs = 0
    BY <1>3, <1>14 DEF name
  <2> QED BY <1>1, <1>3, <1>4, <1>10, <1>12, <1>13, <2>1, OpenedGood
<1>17. /\ v = Opened(g, slot, zero, zero, m, name) /\ Ends(p, Given(v, p, h), t, met) /\ g.touched[p] \subseteq Fds
       /\ g.ofds[slot].refs = 0
  BY <1>1, <1>2, <1>3, <1>14
<1>18. /\ NobodyOf(g, k, NewId) /\ h.id = NewId /\ t.pos[NewId] = zero /\ \A i \in Ids : i # NewId => t.pos[i] = truth.pos[i]
       /\ h.kind \in {"write", "mem"}
  BY <1>7, <1>10, <1>15 DEF id
<1>19. Good(v, P, Plus(Outside(passing), h), Zero)
  BY <1>16 DEF x, y
<1> HIDE DEF v, w
<1> QED BY <1>1, <1>2, <1>3, <1>7, <1>10, <1>15, <1>17, <1>18, <1>19, FirstPos DEF k

\* A slot with another object is where it was.
LEMMA SharedSteady ==
  ASSUME setup \in Setups, NEW w, Typed(w), NEW i \in 1 .. OFDS, NEW was, was = w.ofds[i], NEW m, NEW o, NEW n, NEW v,
         Shared(w, v, i, was, m, o, n)
  PROVE  Still(w, v) /\ Steady(w, v)
<1> DEFINE e == [was EXCEPT !.mem = m]
           r == [o EXCEPT !.refs = n]
           s == SlotIs(w, i, e)
           f == [w.ofds EXCEPT ![i] = e]
<1>1. v = MemIs(s, m, r)
  BY DEF Shared
<1>2. s = [w EXCEPT !.ofds = f]
  BY DEF SlotIs
<1>3. OfdOK(was)
  BY DEF Typed
<1>4. e.offset = was.offset
  BY <1>3 DEF OfdOK
<1> HIDE DEF e, r
<1>5. s.tables = w.tables /\ s.touched = w.touched
  BY SlotSame
<1>6. w.ofds = [j \in 1 .. OFDS |-> w.ofds[j]] /\ w = [tables |-> w.tables, touched |-> w.touched, ofds |-> w.ofds, mems |-> w.mems]
  BY DEF Typed
<1>7. \A j \in 1 .. OFDS : f[j].offset = w.ofds[j].offset
  BY <1>4, <1>6
<1> HIDE DEF f, s
<1>8. s.ofds = f
  BY <1>2, <1>6
<1>9. v.tables = s.tables /\ v.touched = s.touched /\ v.ofds = s.ofds
  BY <1>1, MemSame
<1> QED BY <1>5, <1>7, <1>8, <1>9 DEF Still, Steady

\* A look makes no opening.
LEMMA LooksKeep ==
  ASSUME NEW w, NEW v, NEW p \in Procs, NEW fd \in Fds, Looks(w, v, p, fd), v.tables[p][fd].id = w.tables[p][fd].id, w.touched[p] \subseteq Fds,
         NEW k
  PROVE  /\ \A id : NobodyOf(w, k, id) => NobodyOf(v, k, id)
         /\ LookedAt(w, p) /\ w.tables[p][fd].kind # "none" => LookedAt(v, p)
<1>1. ASSUME NEW id, NobodyOf(w, k, id), NEW r \in Spots PROVE Hands(v, k)[r].id # id
  <2>1. Hands(w, k)[r].id # id
    BY <1>1 DEF NobodyOf
  <2>2. CASE r = <<>>
    BY <2>1, <2>2, HandsIs
  <2>3. CASE r # <<>>
    <3>1. PICK q \in Procs, f \in Fds : r = <<q, f>>
      BY <2>3, SpotIs
    <3>2. v.tables[q][f].id = w.tables[q][f].id
      BY DEF Looks, Same1
    <3> QED BY <2>1, <3>1, <3>2, HandsIs
  <2> QED BY <2>2, <2>3
<1>2. ASSUME LookedAt(w, p), w.tables[p][fd].kind # "none", NEW f \in v.touched[p] PROVE v.tables[p][f].kind # "none"
  <2>1. v.tables[p][fd].kind # "none"
    BY <1>2 DEF Looks
  <2>2. CASE f # fd
    <3>1. f \in w.touched[p] /\ f \in Fds
      BY <1>2, <2>2 DEF Looks
    <3>2. v.tables[p][f] = w.tables[p][f]
      BY <2>2, <3>1 DEF Looks, Same1
    <3> QED BY <1>2, <3>1, <3>2 DEF LookedAt
  <2> QED BY <2>1, <2>2
<1> QED BY <1>1, <1>2 DEF NobodyOf, LookedAt

LEMMA ReopenPos ==
  ASSUME OpenInv, PosInv, odd = {}, setup' = setup, NEW p \in Procs, NEW fd \in Fds, Reopen(p, fd) PROVE PosInv'
<1> DEFINE x == Outside(passing)
           k == Out(passing)
           y == Zero
           P == {p}
           U == touched[p]
           T == truth.pos
           w == Picked(World, p, fd)
           of == w.tables[p][fd]
           was == Ofd(w, of)
           i == of.ofd
           m == IF was.mem # 0 THEN was.mem ELSE Min(FreeMems(w))
           slot == Min(FreeOfds(w))
           o == w.mems[m]
           n == IF was.mem # 0 THEN o.refs + 1 ELSE 2
           g == MemIs(SlotIs(w, i, [was EXCEPT !.mem = m]), m, [o EXCEPT !.refs = n])
           size == was.size
           zero == 0
           no == FALSE
           id == NewId
           name == NoName
           h == Handle("mem", slot, zero, size, 0, no, id)
           v == Opened(g, slot, zero, size, m, name)
           z == Given(v, p, h)
           node == truth.node[of.id]
           t == [truth EXCEPT !.pos[id] = zero, !.node[id] = node]
           met == If(WriteName(w, of) # NoName, "named")
<1>1. /\ setup \in Setups /\ Good(World, P, x, y) /\ x \in [1 .. OFDS -> Int] /\ NonNeg(x) /\ MNonNeg(y)
      /\ y \in [Mems -> Int] /\ p \in P /\ PassingOK /\ World.touched[p] \subseteq Fds
  BY Begins DEF Typed
<1>2. Sure(World, P, x, y, k) /\ Fair(World, k, p, U, T) /\ LookedAt(World, p) /\ Posed(truth)
  BY PosBegins
<1>3. id \in Ids /\ NobodyOf(World, k, id)
  BY <1>1, NewIdFree
<1>4. /\ Ends(p, z, t, met) /\ passing' = passing /\ of.kind \in {"mem", "write"} /\ i # 0
      /\ FreeOfds(w) # {} /\ (was.mem # 0 \/ FreeMems(w) # {})
  BY ZenonT(30) DEF Reopen, Done, H
<1>5. Posed(t) /\ t.pos[id] = zero /\ \A j \in Ids : j # id => t.pos[j] = T[j]
  <2> HIDE DEF id, zero, node
  <2>1. Began(truth, t, id, zero, node)
    BY DEF Began
  <2> HIDE DEF t
  <2>2. Posed(t) /\ (id \in Ids => t.pos[id] = zero) /\ \A j \in Ids : j # id => t.pos[j] = truth.pos[j]
    BY <1>2, <2>1, PosedAt
  <2> QED BY <1>3, <2>2
<1> HIDE DEF t, met, x, y, P, U, T, k, id
<1>6. Sure(w, P, x, y, k) /\ Fair(w, k, p, U, T) /\ Looks(World, w, p, fd) /\ w.tables[p][fd].id = World.tables[p][fd].id
  BY <1>1, <1>2, PickedFair
<1>7. LookedAt(w, p) /\ NobodyOf(w, k, id)
  <2>1. World.tables[p][fd].kind # "none"
    BY ZenonT(30), <1>4, <1>6 DEF Looks
  <2> HIDE DEF w
  <2> QED BY <1>1, <1>2, <1>3, <1>6, <2>1, LooksKeep
<1> HIDE DEF w
<1>8. Good(w, P, x, y) /\ Typed(w) /\ Live(w, k)
  BY <1>1, <1>6, GoodLive DEF Sure, Good
<1>9. HandleOK(of) /\ i \in 1 .. OFDS
  <2>1. HandleOK(of)
    BY <1>8 DEF Typed
  <2>2. i # 0
    BY ZenonT(30), <1>4
  <2> HIDE DEF of
  <2> QED BY <1>1, <2>1, <2>2, Settings DEF HandleOK
<1>10. was = w.ofds[i] /\ OfdOK(was)
  BY ZenonT(30), <1>4, <1>8, <1>9 DEF Ofd, Typed
<1>11. w.ofds[i].refs > 0
  BY <1>1, <1>8, <1>9, RefHeld DEF NonNeg
<1> HIDE DEF was, of
<1>12. slot \in 1 .. OFDS /\ w.ofds[slot].refs = 0
  BY <1>1, <1>4, <1>8, FreeSlot
<1>13. m \in Mems /\ (was.mem = 0 => o.refs = 0)
  <2>1. CASE was.mem # 0
    BY <1>10, <2>1 DEF OfdOK
  <2>2. CASE was.mem = 0
    BY <1>1, <1>4, <2>2, FreeMem
  <2> QED BY <2>1, <2>2
<1>14. Counted(was, o, m, n)
  BY <1>13 DEF Counted
<1>15. zero \in 0 .. MaxSize /\ slot \in 0 .. OFDS /\ size \in 0 .. MaxSize
  BY <1>1, <1>10, <1>12, Settings DEF OfdOK
<1> HIDE DEF m, n, o, slot, size, zero, no, name
<1>16. Shared(w, g, i, was, m, o, n)
  BY DEF Shared
<1> HIDE DEF g, i
<1>17. PICK u : /\ Good(g, P, x, u) /\ \A j \in Mems : u[j] = y[j] + (IF j = m THEN 1 ELSE 0)
                /\ \A j \in 1 .. OFDS : g.ofds[j].refs = w.ofds[j].refs
  <2>1. o = w.mems[m]
    BY DEF o
  <2>2. /\ setup \in Setups /\ Good(w, P, x, y) /\ i \in 1 .. OFDS /\ w.ofds[i].refs > 0 /\ m \in Mems
        /\ was = w.ofds[i] /\ Counted(was, o, m, n)
    BY <1>1, <1>8, <1>9, <1>10, <1>11, <1>13, <1>14
  <2> QED BY <1>16, <2>1, <2>2, ReopenedGood
<1>18. Still(w, g) /\ Steady(w, g)
  BY <1>1, <1>8, <1>9, <1>10, <1>16, SharedSteady
<1>19. Typed(g) /\ Live(g, k) /\ Fair(g, k, p, U, T) /\ LookedAt(g, p) /\ NobodyOf(g, k, id) /\ g.touched[p] \subseteq Fds
  <2>1. Typed(g) /\ g.tables = w.tables /\ g.touched = w.touched
    BY <1>17, <1>18 DEF Good, Still
  <2>2. Live(g, k)
    BY <1>1, <1>8, <1>17, <2>1, LiveSame
  <2>3. Fair(g, k, p, U, T)
    BY <1>1, <1>6, <1>18, <2>2, StillFair
  <2>4. LookedAt(g, p)
    BY <1>7, <2>1 DEF LookedAt
  <2>5. NobodyOf(g, k, id)
    BY <1>7, <2>1, SameHands DEF NobodyOf
  <2>6. g.touched[p] \subseteq Fds
    BY <2>1 DEF Typed
  <2> QED BY <2>1, <2>2, <2>3, <2>4, <2>5, <2>6
<1>20. HandleOK(h) /\ h.ofd = slot /\ h.id = id /\ h.kind = "mem"
  <2>1. HandleOK(h) /\ h.ofd = slot
    BY <1>15, HandleIs
  <2>2. h.id = id /\ h.kind = "mem"
    BY DEF Handle
  <2> QED BY <2>1, <2>2
<1> HIDE DEF h
<1>21. Good(v, P, Plus(x, h), y)
  <2>1. m \in Mems \union {0} /\ name \in setup.Names \union {NoName} /\ g.ofds[slot].refs = 0
    BY <1>12, <1>13, <1>17 DEF name
  <2> QED BY <1>1, <1>12, <1>15, <1>17, <1>20, <2>1, OpenedGood
<1>22. v = Opened(g, slot, zero, size, m, name) /\ Ends(p, Given(v, p, h), t, met) /\ g.ofds[slot].refs = 0
  BY <1>4, <1>12, <1>17
<1>23. /\ NobodyOf(g, k, NewId) /\ h.id = NewId /\ t.pos[NewId] = zero /\ \A j \in Ids : j # NewId => t.pos[j] = truth.pos[j]
       /\ h.kind \in {"write", "mem"}
  BY <1>5, <1>19, <1>20 DEF id, T
<1>24. Good(v, P, Plus(Outside(passing), h), Zero)
  BY <1>21 DEF x, y
<1>25. Fair(g, k, p, touched[p], truth.pos)
  BY <1>19 DEF U, T
<1> HIDE DEF v, z
<1> QED BY <1>1, <1>4, <1>5, <1>12, <1>19, <1>20, <1>22, <1>23, <1>24, <1>25, FirstPos DEF k

----------------------------------------------------------------------------
(* Copies: each call leaves openings where they are.                       *)

LEMMA ClosePos ==
  ASSUME OpenInv, PosInv, odd = {}, setup' = setup, NEW p \in Procs, NEW fd \in Fds, Close(p, fd) PROVE PosInv'
<1> DEFINE k == Out(passing)
           x == Outside(passing)
           U == touched[p]
           T == truth.pos
           P == {p}
           w == Closed(World, p, fd)
           met == {}
<1>1. /\ setup \in Setups /\ Sure(World, P, x, Zero, k) /\ Fair(World, k, p, U, T) /\ Posed(truth) /\ p \in P
  BY PosBegins
<1>2. Ends(p, w, truth, met) /\ passing' = passing
  BY DEF Close, Done
<1> HIDE DEF met, P, x, k, U, T
<1>3. Sure(w, P, x, Zero, k) /\ Fair(w, k, p, U, T)
  BY <1>1, ClosedFair
<1> HIDE DEF w
<1> QED BY <1>1, <1>2, <1>3, QuietStill DEF k, U, T

LEMMA CloseRangePos ==
  ASSUME OpenInv, PosInv, odd = {}, setup' = setup, NEW p \in Procs, NEW fd \in Fds, NEW mark \in BOOLEAN, CloseRange(p, fd, mark)
  PROVE  PosInv'
<1> DEFINE k == Out(passing)
           x == Outside(passing)
           U == touched[p]
           T == truth.pos
           P == {p}
           S == {f \in Used(World, p) : f >= fd}
           g == PickedAll(World, p, S)
           w == IF mark THEN WithCloexec(g, p, S) ELSE ClosedAll(World, p, S)
           met == {}
<1>1. /\ setup \in Setups /\ Sure(World, P, x, Zero, k) /\ Fair(World, k, p, U, T) /\ Posed(truth) /\ p \in P
  BY PosBegins
<1>2. Ends(p, w, truth, met) /\ passing' = passing
  BY DEF CloseRange, Done
<1> HIDE DEF met, P, x, k, U, T, S
<1>3. Sure(ClosedAll(World, p, S), P, x, Zero, k) /\ Fair(ClosedAll(World, p, S), k, p, U, T)
  BY <1>1, ClosedAllFair
<1>4. Sure(g, P, x, Zero, k) /\ Fair(g, k, p, U, T)
  BY <1>1, PickedAllFair
<1> HIDE DEF g
<1>5. Sure(WithCloexec(g, p, S), P, x, Zero, k) /\ Fair(WithCloexec(g, p, S), k, p, U, T)
  BY <1>1, <1>4, WithCloexecFair
<1>6. Sure(w, P, x, Zero, k) /\ Fair(w, k, p, U, T)
  BY <1>3, <1>5
<1> HIDE DEF w
<1> QED BY <1>1, <1>2, <1>6, QuietStill DEF k, U, T

LEMMA ExecPos == ASSUME OpenInv, PosInv, odd = {}, setup' = setup, NEW p \in Procs, Exec(p) PROVE PosInv'
<1> DEFINE k == Out(passing)
           x == Outside(passing)
           U == touched[p]
           T == truth.pos
           P == {p}
           S == {fd \in Used(World, p) : tables[p][fd].cloexec}
           w == ClosedAll(World, p, S)
           met == {}
<1>1. /\ setup \in Setups /\ Sure(World, P, x, Zero, k) /\ Fair(World, k, p, U, T) /\ Posed(truth) /\ p \in P
  BY PosBegins
<1>2. Ends(p, w, truth, met) /\ passing' = passing
  BY DEF Exec, Done
<1> HIDE DEF met, P, x, k, U, T, S
<1>3. Sure(w, P, x, Zero, k) /\ Fair(w, k, p, U, T)
  BY <1>1, ClosedAllFair
<1> HIDE DEF w
<1> QED BY <1>1, <1>2, <1>3, QuietStill DEF k, U, T

LEMMA SetCloexecPos ==
  ASSUME OpenInv, PosInv, odd = {}, setup' = setup, NEW p \in Procs, NEW fd \in Fds, NEW on \in BOOLEAN, SetCloexec(p, fd, on)
  PROVE  PosInv'
<1> DEFINE k == Out(passing)
           x == Outside(passing)
           U == touched[p]
           T == truth.pos
           P == {p}
           g == Picked(World, p, fd)
           w == Has(g, p, fd, [H(g, p, fd) EXCEPT !.cloexec = on])
           met == {}
<1>1. /\ setup \in Setups /\ Sure(World, P, x, Zero, k) /\ Fair(World, k, p, U, T) /\ Posed(truth) /\ p \in P
  BY PosBegins
<1>2. Ends(p, w, truth, met) /\ passing' = passing
  BY DEF SetCloexec, Done
<1> HIDE DEF met, P, x, k, U, T
<1>3. Sure(g, P, x, Zero, k) /\ Fair(g, k, p, U, T)
  BY <1>1, PickedFair
<1> HIDE DEF g
<1>4. Sure(w, P, x, Zero, k) /\ Fair(w, k, p, U, T)
  BY SMTT(60), <1>1, <1>3, MarkedFair
<1> HIDE DEF w
<1> QED BY <1>1, <1>2, <1>4, QuietStill DEF k, U, T

\* A call after which nothing it had loaded before has moved meets none of the exceptions but its own.
LEMMA NoneWaited ==
  ASSUME NEW p, NEW w, NEW t, NEW met, Ends(p, w, t, met), odd' \intersect Met = {}
  PROVE  /\ met \intersect Met = {}
         /\ \A f \in touched[p] : w.tables[p][f].kind # "none" /\ w.tables[p][f].id # 0
                                    => w.tables[p][f].offset = t.pos[w.tables[p][f].id]
<1>1. "waited" \notin odd' /\ met \subseteq odd'
  BY DEF Met, Ends
<1> QED BY <1>1 DEF Ends, H

\* What a dup copies is still there, unless it is over itself.
LEMMA DuppedKeeps ==
  ASSUME setup \in Setups, NEW w, NEW P, NEW x, NEW y, Good(w, P, x, y), NonNeg(x), MNonNeg(y),
         NEW p \in P, p \in Procs, NEW fd \in Fds, NEW to \in Fds
  PROVE  DuppedTo(w, p, fd, to).tables[p][fd] = Picked(w, p, fd).tables[p][fd]
<1> DEFINE g == Picked(w, p, fd)
           c == IF to \in Used(g, p) THEN Closed(g, p, to) ELSE g
           no == FALSE
           e == g.tables[p][fd]
           h == [e EXCEPT !.cloexec = no]
           v == DuppedTo(w, p, fd, to)
<1>1. v = IF to = fd THEN g ELSE Copied(c, p, to, h)
  BY DEF DuppedTo, H
<1>2. Good(g, P, x, y)
  BY PickedGood
<1> HIDE DEF v
<1>3. CASE to = fd
  BY <1>1, <1>3 DEF v
<1>4. CASE to # fd
  <2> HIDE DEF g, no
  <2>1. HandleOK(e) /\ HandleOK(g.tables[p][to])
    BY <1>2 DEF Good, Typed
  <2>2. HandleOK(h)
    <3> HIDE DEF e
    <3> QED BY <2>1, HandleMarked
  <2> HIDE DEF h
  <2>3. Good(c, P, x, y) /\ c.tables[p][to].ofd = 0 /\ c.tables[p][fd] = e
    <3>1. CASE to \in Used(g, p)
      <4>1. c = Closed(g, p, to)
        BY <3>1
      <4> HIDE DEF c
      <4>2. Good(c, P, x, y) /\ Same1(g, c, p, to) /\ c.tables[p][to] = NoHandle
        BY <1>2, <4>1, ClosedGood
      <4> QED BY <1>4, <4>2, NoHandleOK DEF Same1
    <3>2. CASE to \notin Used(g, p)
      <4>1. c = g
        BY <3>2
      <4> HIDE DEF c
      <4> QED BY <1>2, <2>1, <3>2, <4>1 DEF Used, HandleOK
    <3> QED BY <3>1, <3>2
  <2> HIDE DEF c
  <2>4. Same1(c, Copied(c, p, to, h), p, to)
    BY <2>2, <2>3, CopiedGood
  <2>5. v.tables[p][fd] = e
    BY <1>1, <1>4, <2>3, <2>4 DEF Same1
  <2> QED BY <2>5 DEF e, g, v
<1> QED BY <1>3, <1>4

\* What a dup found, after a call that met no exception.
LEMMA DupReady ==
  ASSUME NEW g, NEW k, NEW p \in Procs, NEW fd \in Fds, NEW T, Held(g, k, T), Known(g, p, fd, touched[p], T),
         NEW z, z.tables[p][fd].id = g.tables[p][fd].id, z.tables[p][fd].offset = g.tables[p][fd].offset,
         z.tables[p][fd].kind = g.tables[p][fd].kind,
         NEW t, t.pos = T, NEW h, h = H(g, p, fd), NEW met, met = If(OfdKind(h) /\ h.ofd = 0, "full"),
         Ends(p, z, t, met), odd' \intersect Met = {}
  PROVE  Ready(g, p, fd, T)
<1> DEFINE e == g.tables[p][fd]
<1> SUFFICES ASSUME e.id # 0 PROVE e.ofd # 0 /\ e.offset = T[e.id]
  BY DEF Ready
<1>1. Proper(e)
  BY HeldAt
<1>2. met \intersect Met = {}
  BY NoneWaited
<1>3. e.ofd # 0
  <2>1. CASE e.ofd = 0
    <3>1. h = e /\ e.kind = "read"
      BY <1>1, <2>1 DEF H, Proper
    <3>2. met = {"full"}
      <4> HIDE DEF e
      <4> QED BY <2>1, <3>1 DEF If, OfdKind
    <3> QED BY <1>2, <3>2 DEF Met
  <2> QED BY <2>1
<1>4. ASSUME fd \in touched[p] PROVE e.offset = T[e.id]
  <2>1. z.tables[p][fd].kind # "none" /\ z.tables[p][fd].id # 0
    BY <1>1 DEF Proper
  <2> QED BY <1>4, <2>1, NoneWaited
<1>5. ASSUME fd \notin touched[p] PROVE e.offset = T[e.id]
  BY <1>5 DEF Known
<1> QED BY <1>3, <1>4, <1>5

LEMMA SureOf ==
  ASSUME NEW w, NEW P, NEW x, NEW y, NEW k, Sure(w, P, x, y, k), NEW v, Good(v, P, x, y) PROVE Sure(v, P, x, y, k)
BY DEF Sure

LEMMA DupToPos ==
  ASSUME OpenInv, PosInv, odd = {}, setup' = setup, NEW p \in Procs, NEW fd \in Fds, NEW to \in Fds, DupTo(p, fd, to) PROVE PosInv'
<1> DEFINE k == Out(passing)
           x == Outside(passing)
           U == touched[p]
           T == truth.pos
           P == {p}
           g == Picked(World, p, fd)
           z == DuppedTo(World, p, fd, to)
           h == H(g, p, fd)
           met == If(OfdKind(h) /\ h.ofd = 0, "full")
<1>1. /\ setup \in Setups /\ Sure(World, P, x, Zero, k) /\ Fair(World, k, p, U, T) /\ Posed(truth) /\ p \in P
  BY PosBegins
<1>2. Ends(p, z, truth, met) /\ passing' = passing
  BY DEF DupTo, Done
<1> HIDE DEF P, x, k
<1>3. Good(World, P, x, Zero) /\ NonNeg(x) /\ MNonNeg(Zero)
  BY <1>1 DEF Sure
<1>4. Sure(z, P, x, Zero, k)
  <2>1. Good(z, P, x, Zero)
    BY <1>1, <1>3, DuppedGood
  <2> HIDE DEF z
  <2> QED BY <1>1, <2>1, SureOf
<1>5. z.tables[p][fd] = g.tables[p][fd]
  BY <1>1, <1>3, DuppedKeeps
<1>6. Fair(g, k, p, U, T) /\ Known(g, p, fd, U, T)
  <2> HIDE DEF U, T
  <2> QED BY <1>1, PickedFair
<1>7. ASSUME odd' \intersect Met = {} PROVE Fair(z, k, p, U, T)
  <2>1. Ready(g, p, fd, T)
    <3> DEFINE n == met
               u == truth
    <3>1. Held(g, k, T) /\ Known(g, p, fd, touched[p], T) /\ u.pos = T /\ Ends(p, z, u, n)
      BY <1>2, <1>6 DEF Fair
    <3>2. n = If(OfdKind(h) /\ h.ofd = 0, "full") /\ h = H(g, p, fd)
      OBVIOUS
    <3> HIDE DEF n, u, h, g, z, T
    <3> QED BY <1>5, <1>7, <3>1, <3>2, DupReady
  <2> HIDE DEF U, T
  <2> QED BY <1>1, <2>1, DuppedFair DEF g
<1> HIDE DEF z, met
<1> QED BY <1>1, <1>2, <1>4, <1>7, QuietStill DEF k

LEMMA DupPos ==
  ASSUME OpenInv, PosInv, odd = {}, setup' = setup, NEW p \in Procs, NEW fd \in Fds, NEW cloexec \in BOOLEAN, Dup(p, fd, cloexec)
  PROVE  PosInv'
<1> DEFINE k == Out(passing)
           x == Outside(passing)
           U == touched[p]
           T == truth.pos
           P == {p}
           g == Picked(World, p, fd)
           to == Lowest(g, p)
           w == IF to = -1 THEN g ELSE DuppedTo(g, p, fd, to)
           c == Picked(w, p, to)
           on == TRUE
           v == Has(c, p, to, [H(c, p, to) EXCEPT !.cloexec = on])
           z == IF to # -1 /\ cloexec THEN v ELSE w
           h == H(g, p, fd)
           met == If(OfdKind(h) /\ h.ofd = 0, "full")
<1>1. /\ setup \in Setups /\ Sure(World, P, x, Zero, k) /\ Fair(World, k, p, U, T) /\ Posed(truth) /\ p \in P
  BY PosBegins
<1>2. Ends(p, z, truth, met) /\ passing' = passing /\ World.tables[p][fd].kind # "none"
  BY DEF Dup, Done, Used
<1> HIDE DEF P, x, k, on, U, T
<1>3. Sure(g, P, x, Zero, k) /\ Fair(g, k, p, U, T) /\ Known(g, p, fd, U, T) /\ Looks(World, g, p, fd)
  BY <1>1, PickedFair
<1>4. Picked(g, p, fd) = g /\ g.tables[p][fd].kind # "none"
  BY <1>2, <1>3, PickedAgain DEF Looks
<1> HIDE DEF g
<1>5. NonNeg(x) /\ MNonNeg(Zero) /\ Good(g, P, x, Zero) /\ Typed(g)
  BY <1>3 DEF Sure, Good
<1>6. to # -1 => to \in Fds /\ to # fd
  BY <1>1, <1>4, <1>5, LowestIs
<1> HIDE DEF to
<1>7. Sure(w, P, x, Zero, k) /\ w.tables[p][fd] = g.tables[p][fd]
  <2>1. CASE to # -1
    <3>1. Good(DuppedTo(g, p, fd, to), P, x, Zero) /\ DuppedTo(g, p, fd, to).tables[p][fd] = g.tables[p][fd]
      BY <1>1, <1>4, <1>5, <1>6, <2>1, DuppedGood, DuppedKeeps
    <3>2. Sure(DuppedTo(g, p, fd, to), P, x, Zero, k)
      BY <1>3, <3>1, SureOf
    <3> QED BY <2>1, <3>1, <3>2
  <2>2. CASE to = -1
    BY <1>3, <2>2
  <2> QED BY <2>1, <2>2
<1>8. Ready(g, p, fd, T) => Fair(w, k, p, U, T)
  <2>1. CASE to # -1
    <3> SUFFICES ASSUME Ready(g, p, fd, T) PROVE Fair(w, k, p, U, T)
      OBVIOUS
    <3>1. Fair(DuppedTo(g, p, fd, to), k, p, U, T)
      BY <1>1, <1>3, <1>4, <1>6, <2>1, DuppedFair
    <3> QED BY <2>1, <3>1
  <2>2. CASE to = -1
    BY <1>3, <2>2
  <2> QED BY <2>1, <2>2
<1> HIDE DEF w
<1>9. Sure(z, P, x, Zero, k) /\ z.tables[p][fd] = g.tables[p][fd] /\ (Fair(w, k, p, U, T) => Fair(z, k, p, U, T))
  <2>1. CASE to # -1 /\ cloexec
    <3>1. Good(w, P, x, Zero)
      BY <1>7 DEF Sure
    <3>2. Good(c, P, x, Zero) /\ Same1(w, c, p, to)
      BY <1>1, <1>6, <2>1, <3>1, PickedGood DEF Looks
    <3>3. Fair(w, k, p, U, T) => Sure(c, P, x, Zero, k) /\ Fair(c, k, p, U, T)
      BY <1>1, <1>6, <1>7, <2>1, PickedFair
    <3> HIDE DEF c
    <3>4. Good(v, P, x, Zero)
      BY <1>1, <1>6, <2>1, <3>2, MarkedGood
    <3>5. Fair(w, k, p, U, T) => Fair(v, k, p, U, T)
      BY <1>1, <1>6, <2>1, <3>3, MarkedFair
    <3>6. Same1(c, v, p, to)
      BY <1>6, <2>1, <3>2, HasSame DEF Good
    <3> HIDE DEF v
    <3>7. v.tables[p][fd] = g.tables[p][fd]
      BY <1>6, <1>7, <2>1, <3>2, <3>6 DEF Same1
    <3>8. Sure(v, P, x, Zero, k)
      BY <1>7, <3>4, SureOf
    <3> QED BY <2>1, <3>5, <3>7, <3>8
  <2>2. CASE ~(to # -1 /\ cloexec)
    BY <1>7, <2>2
  <2> QED BY <2>1, <2>2
<1> HIDE DEF z
<1>10. ASSUME odd' \intersect Met = {} PROVE Fair(z, k, p, U, T)
  <2>1. Ready(g, p, fd, T)
    <3> DEFINE n == met
               u == truth
    <3>1. Held(g, k, T) /\ Known(g, p, fd, touched[p], T) /\ u.pos = T /\ Ends(p, z, u, n)
      BY <1>2, <1>3 DEF Fair, U, T
    <3>2. n = If(OfdKind(h) /\ h.ofd = 0, "full") /\ h = H(g, p, fd)
      OBVIOUS
    <3> HIDE DEF n, u, h
    <3> QED BY <1>9, <1>10, <3>1, <3>2, DupReady
  <2> QED BY <1>8, <1>9, <2>1
<1> HIDE DEF met
<1> QED BY <1>1, <1>2, <1>9, <1>10, QuietStill DEF k, U, T

LEMMA ForkPos ==
  ASSUME OpenInv, PosInv, odd = {}, setup' = setup, NEW p \in Procs, NEW child \in Procs, Fork(p, child) PROVE PosInv'
<1> DEFINE k == Out(passing)
           x == Outside(passing)
           U == touched[p]
           T == truth.pos
           P == {p, child}
           w == CopiedAll(World, p, child)
           met == If(\E fd \in Used(World, p) : OfdKind(tables[p][fd]) /\ tables[p][fd].ofd = 0, "fresh")
<1>1. /\ setup \in Setups /\ Sure(World, P, x, Zero, k) /\ Fair(World, k, p, U, T) /\ Posed(truth) /\ p \in P /\ child \in P
  BY PosBegins
<1>2. Ends(p, w, truth, met) /\ passing' = passing /\ room[p] > 0 /\ room[child] = 0
  BY DEF Fork, Calls
<1>3. p # child /\ Good(World, {}, x, Zero)
  BY <1>2, Begins DEF OpenInv
<1>4. \A f \in Fds : World.tables[child][f].ofd = 0
  <2> SUFFICES ASSUME NEW f \in Fds PROVE World.tables[child][f].ofd = 0
    OBVIOUS
  <2>1. World.tables[child][f].kind = "none"
    BY <1>2, <1>3 DEF Good, Quiet
  <2>2. HandleOK(World.tables[child][f])
    BY <1>3 DEF Good, Typed
  <2> QED BY <2>1, <2>2 DEF HandleOK
<1> HIDE DEF P, x, k, U, T
<1>5. Sure(w, P, x, Zero, k)
  <2>1. Good(World, P, x, Zero)
    BY <1>1 DEF Sure
  <2>2. Good(w, P, x, Zero)
    BY <1>1, <1>3, <1>4, <2>1, CopiedAllGood
  <2> HIDE DEF w
  <2> QED BY <1>1, <2>2, SureOf
<1>6. ASSUME odd' \intersect Met = {} PROVE Fair(w, k, p, U, T)
  <2>1. Copyable(World, p)
    <3> SUFFICES ASSUME NEW f \in Fds, World.tables[p][f].id # 0, World.tables[p][f].ofd = 0 PROVE FALSE
      BY DEF Copyable
    <3>1. Proper(World.tables[p][f])
      BY <1>1, HeldAt DEF Fair
    <3>2. tables[p][f].kind = "read" /\ tables[p][f].ofd = 0 /\ World.tables[p][f].kind # "none"
      BY <3>1 DEF Proper, World
    <3>3. met = {"fresh"}
      BY <3>2 DEF If, OfdKind, Used
    <3>4. met \intersect Met = {}
      <4> HIDE DEF w, met
      <4> QED BY <1>2, <1>6, NoneWaited
    <3> QED BY <3>3, <3>4 DEF Met
  <2> QED BY <1>1, <1>3, <1>4, <2>1, CopiedAllFair
<1> HIDE DEF w, met
<1> QED BY <1>1, <1>2, <1>5, <1>6, QuietStill DEF k, U, T

LEMMA SendPos ==
  ASSUME OpenInv, PosInv, odd = {}, setup' = setup, NEW p \in Procs, NEW fd \in Fds, Send(p, fd) PROVE PosInv'
<1> DEFINE k == Out(passing)
           x == Outside(passing)
           U == touched[p]
           T == truth.pos
           P == {p}
           w == Picked(World, p, fd)
           e == w.tables[p][fd]
           no == FALSE
           h == [e EXCEPT !.cloexec = no]
           g == OfdHeld(w, h)
           met == If(h.ofd = 0 /\ OfdKind(h), "full")
           x2 == Outside(passing')
           z == Plus(x, h)
           y == Zero
<1>1. /\ setup \in Setups /\ Sure(World, P, x, y, k) /\ Fair(World, k, p, U, T) /\ Posed(truth) /\ p \in P
  BY PosBegins
<1>2. Ends(p, g, truth, met) /\ passing = <<>> /\ passing' = <<h>>
  BY DEF Send, Done, H
<1> HIDE DEF P, k, no, y, met, U, T
<1>3. Sure(w, P, x, y, k) /\ Fair(w, k, p, U, T)
  <2> HIDE DEF x
  <2> QED BY <1>1, PickedFair
<1> HIDE DEF w
<1>4. HandleOK(e) /\ Good(w, P, x, y) /\ Typed(w) /\ NonNeg(x) /\ MNonNeg(y) /\ x \in [1 .. OFDS -> Int] /\ y \in [Mems -> Int]
  BY <1>3 DEF Sure, Good, Typed
<1>5. HandleOK(h) /\ h.id = e.id /\ h.ofd = e.ofd /\ h.kind = e.kind
  <2> HIDE DEF e
  <2>1. HandleOK(h)
    BY <1>4, HandleMarked
  <2>2. h.id = e.id /\ h.ofd = e.ofd /\ h.kind = e.kind
    BY <1>4 DEF HandleOK
  <2> QED BY <2>1, <2>2
<1> HIDE DEF h
<1>6. Good(g, P, z, y)
  <2> HIDE DEF x
  <2> QED BY <1>1, <1>4, <1>5, HeldGood
<1>7. x2 \in [1 .. OFDS -> Int] /\ MEven(y, y) /\ Even(z, x2) /\ NonNeg(x2) /\ Carried(h, x2)
  <2>1. passing' # <<>> /\ passing'[1] = h /\ passing = <<>>
    BY <1>2
  <2>2. \A i \in 1 .. OFDS : x2[i] = z[i]
    BY <2>1 DEF Outside, Plus, Bit
  <2>3. x2 \in [1 .. OFDS -> Int] /\ NonNeg(x2)
    BY DEF Outside, NonNeg
  <2>4. Carried(h, x2)
    <3>1. h.ofd # 0 => h.ofd \in 1 .. OFDS
      BY <1>1, <1>5, Settings DEF HandleOK
    <3> QED BY <2>1, <3>1 DEF Carried, Outside
  <2> QED BY <2>2, <2>3, <2>4 DEF Even, MEven
<1> HIDE DEF x, z, x2
<1>8. Sure(g, P, x2, y, h)
  <2>1. Good(g, P, x2, y)
    BY <1>1, <1>4, <1>6, <1>7, EvenGood
  <2> HIDE DEF g
  <2> QED BY <1>4, <1>5, <1>7, <2>1 DEF Sure
<1>9. Out(passing') = h
  <2>1. passing' # <<>> /\ passing'[1] = h
    BY <1>2
  <2> QED BY <2>1 DEF Out
<1>10. PassingOK'
  BY <1>2, <1>5, PassingPut
<1>11. ASSUME odd' \intersect Met = {} PROVE Fair(g, h, p, U, T)
  <2>1. Proper(e) /\ RightAt(e, w.ofds, T)
    BY <1>3, HeldAt DEF Fair
  <2>2. met \intersect Met = {}
    <3> HIDE DEF g
    <3> QED BY <1>2, <1>11, NoneWaited
  <2>3. h.id = 0 \/ h.ofd # 0
    <3> SUFFICES ASSUME h.id # 0, h.ofd = 0 PROVE FALSE
      OBVIOUS
    <3>1. e.kind = "read"
      BY <1>5, <2>1 DEF Proper
    <3>2. met = {"full"}
      <4> HIDE DEF e
      <4> QED BY <1>5, <3>1 DEF If, OfdKind, met
    <3> QED BY <2>2, <3>2 DEF Met
  <2>4. CopyOf(w, p, fd, h) /\ Held(w, k, T) /\ Proper(h) /\ Current(w, p, U, T)
    <3>1. CopyOf(w, p, fd, h)
      BY <1>5, <2>3 DEF CopyOf
    <3>2. Proper(h)
      <4> HIDE DEF e
      <4> QED BY <1>5, <2>1 DEF Proper
    <3> QED BY <1>3, <3>1, <3>2 DEF Fair
  <2> HIDE DEF e
  <2>5. Held(w, h, T)
    <3> DEFINE V == Hands(w, k)
               Z == Hands(w, h)
               r == <<>>
    <3>1. Alter(V, Z, r, h) /\ r \in Spots
      BY OutAlters
    <3> HIDE DEF r
    <3>2. TiedToAll(V, r, h) /\ RightAt(h, w.ofds, T)
      BY <2>4, CopyTied
    <3>3. Whole(V, w.ofds, T)
      BY <2>4 DEF Held
    <3> HIDE DEF V, Z
    <3>4. Whole(Z, w.ofds, T)
      BY <2>4, <3>1, <3>2, <3>3, AlterWhole
    <3> QED BY <3>4 DEF Held, Z
  <2>6. Steady(w, g) /\ Still(w, g)
    BY <1>1, <1>4, <1>5, HeldSteady, HeldGood
  <2> HIDE DEF g
  <2>7. Live(g, h)
    BY <1>1, <1>8, GoodLive
  <2>8. Fair(w, h, p, U, T)
    BY <2>4, <2>5 DEF Fair
  <2> QED BY <1>1, <2>6, <2>7, <2>8, StillFair
<1> HIDE DEF g
<1> QED BY <1>1, <1>2, <1>8, <1>9, <1>10, <1>11, QuietPos DEF U, T

LEMMA ReceivePos == ASSUME OpenInv, PosInv, odd = {}, setup' = setup, NEW p \in Procs, Receive(p) PROVE PosInv'
<1> DEFINE h == passing[1]
           w == Given(World, p, h)
           U == touched[p]
           T == truth.pos
           x == Outside(passing)
           x2 == Outside(passing')
           z == Plus(x2, h)
           P == {p}
           y == Zero
           k == NoHandle
           met == {}
<1>1. /\ setup \in Setups /\ Sure(World, P, x, y, Out(passing)) /\ Fair(World, Out(passing), p, U, T) /\ Posed(truth)
      /\ p \in P /\ LookedAt(World, p)
  BY PosBegins
<1>2. passing # <<>> /\ passing' = Tail(passing)
  BY DEF Receive
<1>3. passing = <<h>> /\ HandleOK(h)
  BY <1>2, Begins DEF PassingOK
<1>4. passing' = <<>>
  <2> HIDE DEF h
  <2> QED BY <1>2, <1>3
<1>5. Head(passing) = h /\ Out(passing) = h /\ Out(passing') = k
  BY <1>2, <1>4 DEF Out
<1>6. Ends(p, w, truth, met)
  BY <1>5 DEF Receive, Done
<1>7. \A i \in 1 .. OFDS : x[i] = (IF h.ofd = i THEN 1 ELSE 0) /\ x2[i] = 0
  BY <1>2, <1>4 DEF Outside
<1>8. x2 \in [1 .. OFDS -> Int] /\ NonNeg(x2) /\ z \in [1 .. OFDS -> Int] /\ MEven(y, y)
  <2>1. x2 = [i \in 1 .. OFDS |-> x2[i]]
    BY DEF Outside
  <2> HIDE DEF x2
  <2> QED BY <1>7, <2>1, PlusIs DEF NonNeg, MEven
<1> HIDE DEF h, x, x2, y, P, met, U, T
<1>9. Even(x, z)
  BY <1>7 DEF Even, Plus, Bit
<1> HIDE DEF z
<1>10. Good(World, P, x, y) /\ MNonNeg(y) /\ y \in [Mems -> Int]
  BY <1>1 DEF Sure, Good
<1>11. Good(World, P, Plus(x2, h), y)
  <2>1. Good(World, P, z, y)
    BY <1>8, <1>9, <1>10, EvenGood
  <2> QED BY <2>1 DEF z
<1>12. HandleOK(k) /\ Carried(k, x2) /\ Proper(k) /\ Empty(k)
  <2>1. HandleOK(k) /\ k.ofd = 0 /\ Proper(k) /\ Empty(k)
    BY <1>1, NoHandleOK, NoneIs
  <2> HIDE DEF k
  <2> QED BY <2>1 DEF Carried
<1> HIDE DEF k
<1>13. Held(World, h, T) /\ Current(World, p, U, T)
  BY <1>1, <1>5 DEF Fair
<1>14. Proper(h) /\ RightAt(h, World.ofds, T)
  BY <1>13, HeldOut
<1>15. Fair(World, k, p, U, T) /\ \A r \in Spots : Tied(Hands(World, k)[r], h)
  <2> DEFINE V == Hands(World, h)
             Z == Hands(World, k)
             r == <<>>
             o == World.ofds
  <2>1. Alter(V, Z, r, k) /\ r \in Spots /\ V[r] = h
    BY OutAlters, HandsIs
  <2>2. Whole(V, o, T)
    BY <1>13 DEF Held
  <2> HIDE DEF V, Z, r, o
  <2>3. TiedToAll(V, r, k) /\ RightAt(k, o, T)
    BY <1>12, <2>2, EmptyToAll
  <2>4. Whole(Z, o, T)
    BY <1>12, <2>1, <2>2, <2>3, AlterWhole
  <2>5. ASSUME NEW s \in Spots PROVE Tied(Z[s], h)
    <3>1. CASE s = r
      <4>1. Tied(h, k)
        BY <1>12, <1>14, EmptyTied
      <4> QED BY <2>1, <3>1, <4>1, TiedBack DEF Alter
    <3>2. CASE s # r
      <4>1. Z[s] = V[s] /\ Tied(V[s], V[r])
        BY <2>1, <2>2, <3>2 DEF Alter, Whole
      <4> QED BY <2>1, <4>1
    <3> QED BY <3>1, <3>2
  <2>6. Held(World, k, T)
    BY <2>4 DEF Held, Z, o
  <2> QED BY <1>13, <2>5, <2>6 DEF Fair, Z
<1>16. Sure(w, P, x2, y, k) /\ Fair(w, k, p, U, T)
  BY <1>1, <1>3, <1>8, <1>10, <1>11, <1>12, <1>14, <1>15, GivenFair
<1>17. PassingOK'
  BY <1>4 DEF PassingOK
<1> HIDE DEF w
<1> QED BY <1>1, <1>5, <1>6, <1>16, <1>17, QuietPos DEF U, T

\* The end of a process writes nothing back.
LEMMA EndPos == ASSUME OpenInv, PosInv, odd = {}, setup' = setup, NEW p \in Procs, End(p) PROVE PosInv'
<1> DEFINE k == Out(passing)
           x == Outside(passing)
           U == touched[p]
           T == truth.pos
           P == {p}
           S == Used(World, p)
           w == ClosedAll(World, p, S)
           none == {}
           s == Looked(w, p, none)
           u == Tidy(truth, w, passing)
<1>1. /\ setup \in Setups /\ Sure(World, P, x, Zero, k) /\ Fair(World, k, p, U, T) /\ Posed(truth) /\ p \in P
  BY PosBegins
<1>2. Becomes(s) /\ truth' = u /\ passing' = passing
  BY DEF End
<1>3. PassingOK /\ none \subseteq Fds
  BY Begins
<1> HIDE DEF P, x, U, S, none
<1>4. Sure(w, P, x, Zero, k) /\ Fair(w, k, p, U, T)
  <2> HIDE DEF k, T
  <2> QED BY <1>1, ClosedAllFair
<1> HIDE DEF w
<1>5. s.tables = w.tables /\ s.ofds = w.ofds
  BY <1>1, <1>3, <1>4, LookedGood DEF Sure
<1> HIDE DEF s
<1>6. Held(s, k, T)
  <2> HIDE DEF k, T
  <2>1. Hands(s, k) = Hands(w, k)
    BY <1>5, SameHands
  <2> QED BY <1>4, <1>5, <2>1 DEF Fair, Held
<1>7. Posed(u) /\ Held(s, Out(passing), u.pos)
  <2>1. IdsUsed(w, passing) = IdsUsed(s, passing)
    BY <1>5 DEF IdsUsed
  <2> DEFINE q == passing
             t == truth
  <2>2. u = Tidy(t, s, q)
    BY <2>1 DEF Tidy
  <2>3. (q = <<>> \/ q = <<q[1]>>) /\ Held(s, Out(q), t.pos) /\ Posed(t)
    BY <1>1, <1>3, <1>6 DEF PassingOK
  <2> HIDE DEF q, t, u
  <2>4. Posed(u) /\ Held(s, Out(q), u.pos)
    BY <1>1, <2>2, <2>3, TidyHeld
  <2> QED BY <2>4 DEF q
<1> HIDE DEF u
<1>8. Posed(truth)'
  <2>1. Ids' = Ids
    BY DEF Ids, Procs, PROGRAM_FILES
  <2> QED BY <1>2, <1>7, <2>1 DEF Posed
<1>9. Held(World, Out(passing), truth.pos)'
  <2>1. Held(s, Out(passing'), truth'.pos)
    BY <1>2, <1>7
  <2> QED BY <1>2, <2>1, HeldNext
<1> QED BY <1>8, <1>9 DEF PosInv, Met

----------------------------------------------------------------------------
(* Waiting, and names.                                                     *)

LEMMA SelectPos == ASSUME OpenInv, PosInv, odd = {}, setup' = setup, NEW p \in Procs, Select(p) PROVE PosInv'
<1> DEFINE k == Out(passing)
           x == Outside(passing)
           U == touched[p]
           T == truth.pos
           P == {p}
           S == Used(World, p)
           w == PickedAll(World, p, S)
<1>1. /\ setup \in Setups /\ Sure(World, P, x, Zero, k) /\ Fair(World, k, p, U, T) /\ Posed(truth) /\ p \in P
  BY PosBegins
<1>2. Becomes(w) /\ truth' = truth /\ passing' = passing
  BY DEF Select
<1> HIDE DEF P, x, U, S
<1>3. Sure(w, P, x, Zero, k) /\ Fair(w, k, p, U, T)
  <2> HIDE DEF k, T
  <2> QED BY <1>1, PickedAllFair
<1> HIDE DEF w
<1>4. Held(w, Out(passing'), truth'.pos)
  BY <1>2, <1>3 DEF Fair
<1>5. Posed(truth)'
  <2>1. Ids' = Ids
    BY DEF Ids, Procs, PROGRAM_FILES
  <2> QED BY <1>1, <1>2, <2>1 DEF Posed
<1>6. Held(World, Out(passing), truth.pos)'
  BY <1>2, <1>4, HeldNext
<1> QED BY <1>5, <1>6 DEF PosInv, Met

LEMMA StillPos ==
  ASSUME PosInv, setup' = setup, tables' = tables, ofds' = ofds, touched' = touched, mems' = mems, passing' = passing, truth' = truth, odd' = odd
  PROVE  PosInv'
<1>1. Posed(truth)'
  <2>1. Ids' = Ids
    BY DEF Ids, Procs, PROGRAM_FILES
  <2> QED BY <2>1 DEF PosInv, Posed
<1>2. ASSUME odd' \intersect Met = {} PROVE Held(World, Out(passing), truth.pos)'
  <2> DEFINE w == World
  <2>1. Becomes(w) /\ Held(w, Out(passing'), truth'.pos)
    BY <1>2 DEF PosInv, Becomes, World
  <2> HIDE DEF w
  <2> QED BY <2>1, HeldNext
<1> QED BY <1>1, <1>2 DEF PosInv, Met

\* A call of p that leaves its world as it is.
LEMMA WorldPos ==
  ASSUME OpenInv, PosInv, odd = {}, setup' = setup, passing' = passing, NEW p \in Procs, NEW t, Posed(t), t.pos = truth.pos,
         NEW met, Ends(p, World, t, met)
  PROVE  PosInv'
<1>1. /\ Sure(World, {p}, Outside(passing), Zero, Out(passing)) /\ Fair(World, Out(passing), p, touched[p], truth.pos)
  BY PosBegins
<1> DEFINE P == {p}
           w == World
           x == Outside(passing)
<1>2. p \in P /\ Sure(w, P, x, Zero, Out(passing)) /\ Fair(w, Out(passing), p, touched[p], t.pos) /\ Ends(p, w, t, met)
  BY <1>1
<1> HIDE DEF P, w, x
<1> QED BY <1>2, QuietStill

LEMMA WaitDonePos == ASSUME OpenInv, PosInv, odd = {}, setup' = setup, NEW p \in Procs, WaitDone(p) PROVE PosInv'
<1> DEFINE met == If(waiting[p].call = "read" /\ waiting[p].room # room[p], "freed")
<1>1. Ends(p, World, truth, met) /\ passing' = passing
  BY DEF WaitDone, Done
<1> HIDE DEF met
<1>2. Posed(truth)
  BY DEF PosInv
<1> QED BY <1>1, <1>2, WorldPos

LEMMA RenamePos ==
  ASSUME OpenInv, PosInv, odd = {}, setup' = setup, NEW p \in Procs, NEW from \in setup.Names, NEW to \in setup.Names, Rename(p, from, to)
  PROVE  PosInv'
<1> DEFINE a == truth.names[from]
           zero == 0
           t1 == [truth EXCEPT !.names[to] = a]
           t == [t1 EXCEPT !.names[from] = zero]
           met == If(\E i \in 1 .. OFDS : ofds[i].refs > 0 /\ ofds[i].name \in {from, to}, "renamed")
<1>1. Ends(p, World, t, met) /\ passing' = passing
  BY DEF Rename, Done
<1>2. Posed(truth)
  BY DEF PosInv
<1> HIDE DEF met, a, zero
<1>3. Posed(t1) /\ t1.pos = truth.pos
  BY <1>2, NamesPosed
<1> HIDE DEF t1
<1>4. Posed(t) /\ t.pos = t1.pos
  BY <1>3, NamesPosed
<1> HIDE DEF t
<1> QED BY <1>1, <1>3, <1>4, WorldPos

LEMMA TruncatePos ==
  ASSUME OpenInv, PosInv, odd = {}, setup' = setup, NEW p \in Procs, NEW name \in setup.Names, Truncate(p, name) PROVE PosInv'
<1> DEFINE node == IF disk[name].there THEN truth.names[name] ELSE NewNode
           none == <<>>
           t1 == [truth EXCEPT !.names[name] = node]
           t == [t1 EXCEPT !.bytes[node] = none]
           met == {}
<1>1. Ends(p, World, t, met) /\ passing' = passing
  BY DEF Truncate, Done
<1>2. Posed(truth)
  BY DEF PosInv
<1> HIDE DEF met, node, none
<1>3. Posed(t1) /\ t1.pos = truth.pos
  BY <1>2, NamesPosed
<1> HIDE DEF t1
<1>4. Posed(t) /\ t.pos = t1.pos
  <2>1. Posed(t1) /\ t = [t1 EXCEPT !.bytes[node] = none]
    BY <1>3
  <2> HIDE DEF t
  <2> QED BY <2>1, BytesPosed
<1> HIDE DEF t
<1> QED BY <1>1, <1>3, <1>4, WorldPos

----------------------------------------------------------------------------
(* The bytes: a call moves one opening, through the descriptor it looks at. *)

\* Of w, descriptor fd of p is at a in v: it, and its size, are all that may be another.
Shifted(w, v, p, fd, a) ==
  /\ Same1(w, v, p, fd) /\ v.touched = w.touched /\ v.ofds = w.ofds
  /\ v.tables[p][fd].kind = w.tables[p][fd].kind /\ v.tables[p][fd].ofd = w.tables[p][fd].ofd
  /\ v.tables[p][fd].id = w.tables[p][fd].id /\ v.tables[p][fd].offset = a

LEMMA MovesShifted ==
  ASSUME NEW w, NEW v, NEW p, NEW fd, NEW a, NEW b, Moves(w, v, p, fd, a, b) PROVE Shifted(w, v, p, fd, a)
BY DEF Moves, Shifted, Placed

LEMMA ShiftedTwice ==
  ASSUME NEW u, NEW v, NEW w, NEW p, NEW fd, NEW a, NEW b, Shifted(u, v, p, fd, a), Shifted(v, w, p, fd, b)
  PROVE  Shifted(u, w, p, fd, b)
BY DEF Shifted, Same1

LEMMA ShiftedSame ==
  ASSUME NEW w, NEW v, NEW p, NEW fd, NEW a, Shifted(w, v, p, fd, a),
         NEW z, z.tables = v.tables, z.touched = v.touched, z.ofds = v.ofds
  PROVE  Shifted(w, z, p, fd, a)
BY DEF Shifted, Same1

\* Everything of w lands where the truth t says in v, if the descriptor moved does and what was loaded before did.
LEMMA ShiftedLands ==
  ASSUME NEW w, NEW k, NEW p \in Procs, NEW U, NEW T, Fair(w, k, p, U, T), NEW fd \in Fds, Settled(w, p, fd),
         w.touched[p] \subseteq Fds, w.touched[p] \subseteq U \union {fd}, w.tables[p][fd].id # 0,
         NEW v, NEW a, Shifted(w, v, p, fd, a), NEW S, \A i \in Ids : i # w.tables[p][fd].id => S[i] = T[i],
         a = S[w.tables[p][fd].id], \A f \in U : v.tables[p][f].kind # "none" /\ v.tables[p][f].id # 0
                                                  => v.tables[p][f].offset = S[v.tables[p][f].id]
  PROVE  Lands(v, k, p, S)
<1> DEFINE V == Hands(w, k)
           Z == Hands(v, k)
           r == <<p, fd>>
           h == w.tables[p][fd]
           g == v.tables[p][fd]
<1>1. Whole(V, w.ofds, T)
  BY DEF Fair, Held
<1>2. Same1(w, v, p, fd)
  BY DEF Shifted
<1>3. Alter(V, Z, r, g) /\ r \in Spots /\ V[r] = h
  BY <1>2, HasAlters, HandsIs
<1>4. /\ g.kind = h.kind /\ g.ofd = h.ofd /\ g.id = h.id /\ g.offset = a /\ v.ofds = w.ofds /\ v.touched = w.touched
  BY SMTT(60) DEF Shifted
<1>5. Proper(h) /\ Proper(g) /\ g.kind # "none"
  <2>1. Proper(h)
    BY SMTT(60), <1>1, <1>3 DEF Whole
  <2> HIDE DEF h, g
  <2> QED BY <1>4, <2>1 DEF Proper, h
<1>6. h.ofd # 0 => Back(v, p, h.ofd) # {}
  <2> SUFFICES ASSUME h.ofd # 0 PROVE fd \in Back(v, p, h.ofd)
    OBVIOUS
  <2>1. fd \in w.touched[p]
    BY DEF Settled
  <2> QED BY <1>4, <1>5, <2>1 DEF Back, H
<1> HIDE DEF V, Z, r, h, g
<1>7. ASSUME NEW s \in Spots PROVE Proper(Z[s]) /\ LandsAt(v, p, Z[s], S)
  <2>1. CASE s = r
    BY <1>3, <1>4, <1>5, <1>6, <2>1 DEF Alter, LandsAt, h
  <2>2. CASE s # r
    <3> DEFINE e == V[s]
    <3>1. Z[s] = e /\ Proper(e) /\ RightAt(e, w.ofds, T) /\ Tied(h, e)
      BY <1>1, <1>3, <2>2 DEF Alter, Whole
    <3> HIDE DEF e
    <3> SUFFICES ASSUME e.id # 0 PROVE IF e.ofd = 0 THEN e.offset = S[e.id] ELSE Back(v, p, e.ofd) # {} \/ v.ofds[e.ofd].offset = S[e.id]
      BY <3>1 DEF LandsAt
    <3>2. CASE e.id = h.id
      BY <1>6, <3>1, <3>2 DEF Tied
    <3>3. CASE e.id # h.id
      <4>1. S[e.id] = T[e.id]
        BY <3>1, <3>3 DEF Proper, h
      <4> QED BY <1>4, <3>1, <4>1 DEF RightAt
    <3> QED BY <3>2, <3>3
  <2> QED BY SMTT(60), <2>1, <2>2
<1>8. ASSUME NEW s \in Spots, NEW u \in Spots \ {s} PROVE Tied(Z[s], Z[u])
  <2>1. \A q \in Spots : Z[q].id = V[q].id /\ Z[q].ofd = V[q].ofd
    BY <1>3, <1>4 DEF Alter
  <2>2. Tied(V[s], V[u])
    BY <1>1 DEF Whole
  <2> QED BY <2>1, <2>2 DEF Tied
<1>9. ASSUME NEW f \in v.touched[p], v.tables[p][f].id # 0 PROVE v.tables[p][f].offset = S[v.tables[p][f].id]
  <2>1. CASE f = fd
    BY <1>4, <2>1 DEF g, h
  <2>2. CASE f # fd
    <3>1. f \in U /\ f \in Fds
      BY <1>4, <2>2
    <3>2. v.tables[p][f] = w.tables[p][f]
      BY <1>2, <2>2, <3>1 DEF Same1
    <3>3. Proper(w.tables[p][f])
      BY <3>1, HeldAt DEF Fair
    <3>4. v.tables[p][f].kind # "none"
      BY <1>9, <3>2, <3>3 DEF Proper
    <3> QED BY <1>9, <3>1, <3>4
  <2> QED BY <2>1, <2>2
<1> QED BY <1>7, <1>8, <1>9 DEF Lands, Z

\* A call of p that moves the opening of fd, as the truth says.
LEMMA MovedPos ==
  ASSUME OpenInv, PosInv, odd = {}, setup' = setup, passing' = passing, NEW p \in Procs, NEW fd \in Files(p),
         NEW w, w = Picked(World, p, fd), NEW v, NEW a, Shifted(w, v, p, fd, a), NEW P, P = {p}, Good(v, P, Outside(passing), Zero),
         NEW t, Posed(t), \A i \in Ids : i # w.tables[p][fd].id => t.pos[i] = truth.pos[i],
         NEW met, Ends(p, v, t, met),
         odd' \intersect Met = {} /\ w.tables[p][fd].offset = truth.pos[w.tables[p][fd].id] => a = t.pos[w.tables[p][fd].id]
  PROVE  PosInv'
<1> DEFINE k == Out(passing)
           x == Outside(passing)
           U == touched[p]
           T == truth.pos
           id == w.tables[p][fd].id
<1>1. /\ setup \in Setups /\ Sure(World, P, x, Zero, k) /\ Fair(World, k, p, U, T) /\ p \in P /\ fd \in Fds
  BY PosBegins DEF Files
<1>2. /\ Sure(w, P, x, Zero, k) /\ Fair(w, k, p, U, T) /\ Known(w, p, fd, U, T) /\ Looks(World, w, p, fd)
      /\ w.tables[p][fd].id = World.tables[p][fd].id
  <2> HIDE DEF x, k, U, T
  <2> QED BY <1>1, PickedFair
<1>3. id # 0
  <2>1. Proper(World.tables[p][fd]) /\ World.tables[p][fd].kind \in {"read", "write", "mem"}
    BY <1>1, HeldAt DEF Fair, Files, World
  <2>2. World.tables[p][fd].id # 0
    BY <2>1 DEF Proper
  <2> QED BY <1>2, <2>2
<1>4. PassingOK'
  BY Begins, PassingStill
<1>5. Sure(v, P, x, Zero, k)
  BY <1>2, SureOf
<1>6. /\ Settled(w, p, fd) /\ w.touched[p] \subseteq U \union {fd} /\ w.touched[p] \subseteq Fds
  <2>1. Typed(w)
    BY <1>2 DEF Sure, Good
  <2> QED BY <1>2, <2>1 DEF Looks, World, Typed
<1>7. ASSUME odd' \intersect Met = {} PROVE Lands(v, k, p, t.pos)
  <2>1. \A f \in U : v.tables[p][f].kind # "none" /\ v.tables[p][f].id # 0 => v.tables[p][f].offset = t.pos[v.tables[p][f].id]
    BY <1>7, NoneWaited
  <2>2. v.tables[p][fd].id = id /\ v.tables[p][fd].offset = a /\ v.tables[p][fd].kind # "none"
    <3>1. Proper(w.tables[p][fd])
      BY <1>1, <1>2, HeldAt DEF Fair
    <3>2. w.tables[p][fd].kind # "none"
      BY <1>3, <3>1 DEF Proper
    <3> QED BY <3>2 DEF Shifted
  <2>3. a = t.pos[id]
    <3>1. CASE fd \in U
      <4> HIDE DEF id, U
      <4> QED BY <1>3, <2>1, <2>2, <3>1
    <3>2. CASE fd \notin U
      BY <1>3, <1>2, <1>7, <3>2 DEF Known
    <3> QED BY <3>1, <3>2
  <2> DEFINE S == t.pos
  <2>4. a = S[w.tables[p][fd].id] /\ w.tables[p][fd].id # 0 /\ \A i \in Ids : i # w.tables[p][fd].id => S[i] = T[i]
    BY <1>3, <2>3
  <2>5. \A f \in U : v.tables[p][f].kind # "none" /\ v.tables[p][f].id # 0 => v.tables[p][f].offset = S[v.tables[p][f].id]
    BY SMTT(60), <2>1
  <2> HIDE DEF S, T, U, k
  <2>6. Lands(v, k, p, S)
    BY <1>1, <1>2, <1>6, <2>4, <2>5, ShiftedLands
  <2> QED BY <2>6 DEF S
<1>8. odd' \intersect Met = {} => Lands(v, Out(passing'), p, t.pos)
  BY <1>7
<1>9. Sure(v, P, x, Zero, Out(passing'))
  BY <1>5
<1> HIDE DEF x
<1> QED BY <1>1, <1>4, <1>8, <1>9, EndsPos

\* The truth with an opening moved, or a file's bytes others.
LEMMA TrueMovedIs ==
  ASSUME setup \in Setups, NEW t, Posed(t), NEW id, NEW to, NEW u, u = TrueMoved(t, id, to)
  PROVE  /\ Posed(u) /\ \A i \in Ids : i # id => u.pos[i] = t.pos[i]
         /\ to \in 0 .. MaxSize /\ id \in Ids => u.pos[id] = to
<1> DEFINE m == Min({to, MaxSize})
           n == Max({0, m})
           c == [t.pos EXCEPT ![id] = n]
<1>1. u = [t EXCEPT !.pos = c] /\ "pos" \in DOMAIN t /\ DOMAIN t.pos = Ids
  BY DEF TrueMoved, Posed
<1>2. to \in 0 .. MaxSize => n = to
  <2> SUFFICES ASSUME to \in 0 .. MaxSize PROVE n = to
    OBVIOUS
  <2>1. to \in Int /\ MaxSize \in Int /\ 0 \in Int /\ to <= MaxSize /\ 0 <= to
    BY Settings
  <2>2. m = to
    BY <2>1, MinOfTwo
  <2> HIDE DEF m
  <2>3. n = IF 0 >= to THEN 0 ELSE to
    BY <2>1, <2>2, MaxOfTwo
  <2> HIDE DEF n
  <2> QED BY <2>1, <2>3
<1> HIDE DEF m, n
<1>3. DOMAIN c = Ids /\ (id \in Ids => c[id] = n) /\ \A i \in Ids : i # id => c[i] = t.pos[i]
  BY <1>1
<1> HIDE DEF c
<1>4. DOMAIN u = DOMAIN t /\ u.pos = c
  BY <1>1
<1> QED BY <1>1, <1>2, <1>3, <1>4 DEF Posed

LEMMA TruePutIs ==
  ASSUME NEW t, Posed(t), NEW id, NEW offset, NEW said, NEW u, u = TruePut(t, id, offset, said)
  PROVE  Posed(u) /\ u.pos = t.pos
<1> DEFINE a == t.node[id]
           b == Overlaid(t.bytes[a], offset, said)
<1>1. u = [t EXCEPT !.bytes[a] = b]
  BY DEF TruePut
<1> HIDE DEF a, b
<1> QED BY <1>1, BytesPosed

\* What a look at fd gives a call that moves its opening.
LEMMA FileIs ==
  ASSUME OpenInv, PosInv, odd = {}, NEW p \in Procs, NEW fd \in Files(p)
  PROVE  /\ setup \in Setups /\ fd \in Fds /\ Posed(truth) /\ DiskOK /\ p \in {p}
         /\ Good(Picked(World, p, fd), {p}, Outside(passing), Zero) /\ Settled(Picked(World, p, fd), p, fd)
         /\ Picked(World, p, fd).tables[p][fd].id \in Ids
<1> DEFINE k == Out(passing)
           x == Outside(passing)
           U == touched[p]
           T == truth.pos
           P == {p}
           w == Picked(World, p, fd)
<1>1. /\ setup \in Setups /\ Sure(World, P, x, Zero, k) /\ Fair(World, k, p, U, T) /\ Posed(truth) /\ p \in P /\ fd \in Fds /\ DiskOK
  BY PosBegins, Begins DEF Files
<1> HIDE DEF x, k, U, T, P
<1>2. Sure(w, P, x, Zero, k) /\ Looks(World, w, p, fd) /\ w.tables[p][fd].id = World.tables[p][fd].id
  BY <1>1, PickedFair
<1>3. Proper(World.tables[p][fd]) /\ World.tables[p][fd].kind \in {"read", "write", "mem"}
  BY <1>1, HeldAt DEF Fair, Files, World
<1>4. w.tables[p][fd].id \in Ids
  BY <1>2, <1>3 DEF Proper
<1>5. Good(w, P, x, Zero) /\ Settled(w, p, fd)
  BY <1>2 DEF Sure, Looks
<1> HIDE DEF w
<1> QED BY <1>1, <1>4, <1>5 DEF w, P, x

LEMMA ReadInShifted ==
  ASSUME setup \in Setups, NEW w, NEW P, NEW x, NEW y, Good(w, P, x, y), DiskOK, NEW p \in P, p \in Procs, NEW fd \in Fds,
         Readable(w, w.tables[p][fd]), NEW count \in Nat
  PROVE  Shifted(w, ReadIn(w, p, fd, count), p, fd, w.tables[p][fd].offset + Got(w, p, fd, count))
<1> DEFINE a == w.tables[p][fd].offset + Got(w, p, fd, count)
           b == Length(w, w.tables[p][fd])
           v == Moved(w, p, fd, a)
           c == v.tables[p][fd].offset
           z == Sized(v, p, fd, b)
<1>1. a \in 0 .. MaxSize /\ b \in 0 .. MaxSize
  BY GotOK, LengthOK DEF Good
<1>2. z = ReadIn(w, p, fd, count)
  BY DEF ReadIn, H
<1> HIDE DEF a, b
<1>3. Good(v, P, x, y) /\ Shifted(w, v, p, fd, a)
  BY <1>1, MovedGood, MovesShifted
<1> HIDE DEF v
<1>4. Shifted(v, z, p, fd, c)
  BY <1>1, <1>3, MovedGood, MovesShifted
<1>5. c = a
  BY <1>3 DEF Shifted
<1> HIDE DEF z, c
<1>6. Shifted(w, z, p, fd, a)
  BY <1>3, <1>4, <1>5, ShiftedTwice
<1> QED BY <1>2, <1>6 DEF a

LEMMA ReadPos ==
  ASSUME OpenInv, PosInv, odd = {}, setup' = setup, NEW p \in Procs, NEW fd \in Fds, NEW n \in setup.Sizes, Read(p, fd, n) PROVE PosInv'
<1> DEFINE g == Picked(World, p, fd)
           h == g.tables[p][fd]
           id == h.id
           got == Got(g, p, fd, n)
           a == h.offset + got
           at == truth.pos[id] + got
           w == ReadIn(g, p, fd, n)
           t == TrueMoved(truth, id, at)
           P == {p}
           x == Outside(passing)
           met == {}
<1>1. Ends(p, w, t, met) /\ passing' = passing /\ Readable(g, h) /\ fd \in Files(p)
  BY DEF Read, H, Done
<1>2. setup \in Setups /\ Posed(truth) /\ DiskOK /\ p \in P /\ Good(g, P, x, Zero) /\ id \in Ids /\ n \in Nat
  BY <1>1, FileIs, Settings
<1> HIDE DEF met, P, x, g
<1>3. Good(w, P, x, Zero) /\ Shifted(g, w, p, fd, a)
  BY <1>1, <1>2, ReadInGood, ReadInShifted
<1>4. a \in 0 .. MaxSize
  BY <1>1, <1>2, GotOK DEF Good
<1> HIDE DEF got, w
<1>5. h.offset = truth.pos[id] => at = a
  OBVIOUS
<1> HIDE DEF a, at
<1>6. Posed(t) /\ (\A i \in Ids : i # id => t.pos[i] = truth.pos[i]) /\ (at \in 0 .. MaxSize => t.pos[id] = at)
  BY <1>2, TrueMovedIs
<1> HIDE DEF t
<1>7. h.offset = truth.pos[id] => a = t.pos[id]
  BY <1>4, <1>5, <1>6
<1>8. g = Picked(World, p, fd) /\ P = {p} /\ Good(w, P, Outside(passing), Zero)
  BY <1>3 DEF g, P, x
<1> QED BY <1>1, <1>3, <1>6, <1>7, <1>8, MovedPos

LEMMA ReadvPos ==
  ASSUME OpenInv, PosInv, odd = {}, setup' = setup, NEW p \in Procs, NEW fd \in Fds, NEW n \in setup.Sizes, Readv(p, fd, n) PROVE PosInv'
<1> DEFINE g == Picked(World, p, fd)
           h == g.tables[p][fd]
           id == h.id
           v == ReadIn(g, p, fd, n)
           first == Picked(v, p, fd)
           all == Got(g, p, fd, n) = n
           got1 == Got(g, p, fd, n)
           got2 == Got(first, p, fd, n)
           got == got1 + IF all THEN got2 ELSE 0
           a1 == h.offset + got1
           a2 == v.tables[p][fd].offset + Got(v, p, fd, n)
           a == IF all THEN a2 ELSE a1
           at == truth.pos[id] + got
           w == IF all THEN ReadIn(first, p, fd, n) ELSE first
           t == TrueMoved(truth, id, at)
           P == {p}
           x == Outside(passing)
           met == {}
<1>1. Ends(p, w, t, met) /\ passing' = passing /\ Readable(g, h) /\ fd \in Files(p)
  BY DEF Readv, H, Done
<1>2. setup \in Setups /\ Posed(truth) /\ DiskOK /\ p \in P /\ Good(g, P, x, Zero) /\ Settled(g, p, fd) /\ id \in Ids /\ n \in Nat
  BY <1>1, FileIs, Settings
<1> HIDE DEF met, P, x, g
<1>3. Good(v, P, x, Zero) /\ Alike(g, v, p, fd) /\ Shifted(g, v, p, fd, a1)
  BY <1>1, <1>2, ReadInGood, ReadInShifted
<1>4. a1 \in 0 .. MaxSize
  BY <1>1, <1>2, GotOK DEF Good
<1>5. Readable(v, v.tables[p][fd]) /\ Settled(v, p, fd)
  BY <1>1, <1>2, <1>3, AlikeReadable, AlikeSettled
<1>6. first = v
  BY <1>5, PickedAgain
<1> HIDE DEF all, got1
<1>7. Good(ReadIn(v, p, fd, n), P, x, Zero) /\ Shifted(v, ReadIn(v, p, fd, n), p, fd, a2)
  BY <1>2, <1>3, <1>5, ReadInGood, ReadInShifted
<1>8. a2 \in 0 .. MaxSize
  BY <1>2, <1>3, <1>5, GotOK DEF Good
<1>9. v.tables[p][fd].offset = a1
  BY <1>3 DEF Shifted
<1>10. got2 = Got(v, p, fd, n)
  BY <1>6
<1> DEFINE z == ReadIn(v, p, fd, n)
<1>11. w = IF all THEN z ELSE v
  BY <1>6
<1>12. a2 = a1 + got2
  BY <1>9, <1>10
<1> HIDE DEF v, first, got2, z, w, a2
<1>13. Good(w, P, x, Zero) /\ Shifted(g, w, p, fd, a)
  <2>1. CASE all
    <3>1. Shifted(g, z, p, fd, a2)
      BY <1>3, <1>7, ShiftedTwice DEF z
    <3> QED BY <1>7, <1>11, <2>1, <3>1 DEF z
  <2>2. CASE ~all
    BY <1>3, <1>11, <2>2
  <2> QED BY <2>1, <2>2
<1>14. a \in 0 .. MaxSize
  BY <1>4, <1>8
<1>15. h.offset = truth.pos[id] => at = a
  <2> SUFFICES ASSUME h.offset = truth.pos[id] PROVE at = a
    OBVIOUS
  <2> DEFINE o == h.offset
  <2>1. at = o + got
    OBVIOUS
  <2>2. a1 = o + got1 /\ a1 \in Int /\ a2 \in Int
    BY <1>4, <1>8
  <2>3. o \in Int
    <3>1. HandleOK(h)
      BY <1>2, <1>1 DEF Good, Typed, Files
    <3> QED BY <3>1 DEF HandleOK
  <2>4. got1 \in Int /\ got2 \in Int
    <3>1. got1 \in Int
      BY <1>1, <1>2, GotOK DEF Good, got1
    <3>2. got2 \in Int
      BY <1>2, <1>3, <1>5, <1>10, GotOK DEF Good
    <3> QED BY <3>1, <3>2
  <2> HIDE DEF o, a1, at
  <2> QED BY <1>12, <2>1, <2>2, <2>3, <2>4
<1> HIDE DEF a, at
<1>16. Posed(t) /\ (\A i \in Ids : i # id => t.pos[i] = truth.pos[i]) /\ (at \in 0 .. MaxSize => t.pos[id] = at)
  BY <1>2, TrueMovedIs
<1> HIDE DEF t
<1>17. h.offset = truth.pos[id] => a = t.pos[id]
  BY <1>14, <1>15, <1>16
<1>18. g = Picked(World, p, fd) /\ P = {p} /\ Good(w, P, Outside(passing), Zero)
  BY <1>13 DEF g, P, x
<1> QED BY <1>1, <1>13, <1>16, <1>17, <1>18, MovedPos

LEMMA PreadPos ==
  ASSUME OpenInv, PosInv, odd = {}, setup' = setup, NEW p \in Procs, NEW fd \in Fds, NEW n \in setup.Sizes, NEW at \in setup.Ats, Pread(p, fd, at, n)
  PROVE  PosInv'
<1> DEFINE g == Picked(World, p, fd)
           h == g.tables[p][fd]
           id == h.id
           a == h.offset
           v == Moved(g, p, fd, at)
           there == Picked(v, p, fd)
           k == ReadIn(there, p, fd, n)
           back == Moved(k, p, fd, a)
           w == IF at > h.size THEN g ELSE back
           P == {p}
           x == Outside(passing)
           t == truth
           met == {}
<1>1. Ends(p, w, t, met) /\ passing' = passing /\ Readable(g, h) /\ fd \in Files(p)
  BY DEF Pread, H, Done
<1>2. /\ setup \in Setups /\ Posed(truth) /\ DiskOK /\ p \in P /\ Good(g, P, x, Zero) /\ Settled(g, p, fd) /\ id \in Ids
      /\ n \in Nat /\ at \in Nat /\ MaxSize \in Nat
  BY <1>1, FileIs, Settings
<1> HIDE DEF met, P, x, g
<1>3. h.offset \in 0 .. MaxSize /\ h.size \in 0 .. MaxSize
  BY <1>2 DEF Good, Typed, HandleOK
<1>4. Shifted(g, g, p, fd, a)
  BY DEF Shifted, Same1
<1>5. ASSUME ~(at > h.size) PROVE Good(back, P, x, Zero) /\ Shifted(g, back, p, fd, a)
  <2>1. at \in 0 .. MaxSize
    BY <1>2, <1>3, <1>5
  <2>2. Good(v, P, x, Zero) /\ Alike(g, v, p, fd) /\ Shifted(g, v, p, fd, at)
    BY <1>2, <2>1, MovedGood, MovesAlike, MovesShifted
  <2>3. Readable(v, v.tables[p][fd]) /\ Settled(v, p, fd)
    BY <1>1, <1>2, <2>2, AlikeReadable, AlikeSettled
  <2>4. there = v
    BY <2>3, PickedAgain
  <2> HIDE DEF v, there
  <2> DEFINE b == v.tables[p][fd].offset + Got(v, p, fd, n)
  <2>5. Good(ReadIn(v, p, fd, n), P, x, Zero) /\ Shifted(v, ReadIn(v, p, fd, n), p, fd, b)
    BY <1>2, <2>2, <2>3, ReadInGood, ReadInShifted
  <2> HIDE DEF b
  <2>6. Good(k, P, x, Zero) /\ Shifted(g, k, p, fd, b)
    <3>1. k = ReadIn(v, p, fd, n)
      BY <2>4
    <3> HIDE DEF k
    <3>2. Good(k, P, x, Zero) /\ Shifted(v, k, p, fd, b)
      BY <2>5, <3>1
    <3> QED BY <2>2, <3>2, ShiftedTwice
  <2> HIDE DEF k
  <2>7. a \in 0 .. MaxSize
    BY <1>3
  <2> HIDE DEF a
  <2>8. Good(Moved(k, p, fd, a), P, x, Zero) /\ Shifted(k, Moved(k, p, fd, a), p, fd, a)
    BY <1>2, <2>6, <2>7, MovedGood, MovesShifted
  <2>9. Good(back, P, x, Zero) /\ Shifted(k, back, p, fd, a)
    BY <2>8
  <2> HIDE DEF back
  <2> QED BY <2>6, <2>9, ShiftedTwice
<1> HIDE DEF back
<1>6. Good(w, P, x, Zero) /\ Shifted(g, w, p, fd, a)
  BY <1>2, <1>4, <1>5
<1>7. a = h.offset /\ t.pos = truth.pos /\ Posed(t)
  BY <1>2
<1> HIDE DEF w, a, t
<1>8. \A i \in Ids : i # id => t.pos[i] = truth.pos[i]
  BY <1>7
<1>9. h.offset = truth.pos[id] => a = t.pos[id]
  BY <1>7
<1>10. g = Picked(World, p, fd) /\ P = {p} /\ Good(w, P, Outside(passing), Zero)
  BY <1>6 DEF g, P, x
<1> QED BY <1>1, <1>6, <1>7, <1>8, <1>9, <1>10, MovedPos

LEMMA LseekPos ==
  ASSUME OpenInv, PosInv, odd = {}, setup' = setup, NEW p \in Procs, NEW fd \in Fds, NEW whence \in {"set", "cur", "end"}, NEW by,
         Lseek(p, fd, whence, by)
  PROVE  PosInv'
<1> DEFINE g == Picked(World, p, fd)
           h == g.tables[p][fd]
           id == h.id
           To(at, size) == by + (IF whence = "set" THEN 0 ELSE IF whence = "cur" THEN at ELSE size)
           a == To(h.offset, h.size)
           trueSize == IF h.kind = "read" THEN h.size ELSE Len(BytesOf(h.id))
           at == To(truth.pos[id], trueSize)
           w == Moved(g, p, fd, a)
           t == TrueMoved(truth, id, at)
           met == If(whence = "end" /\ h.size # trueSize, "size")
           P == {p}
           x == Outside(passing)
<1>1. Ends(p, w, t, met) /\ passing' = passing /\ fd \in Files(p) /\ a \in 0 .. MaxSize
  BY ZenonT(60) DEF Lseek, H, Done
<1>2. setup \in Setups /\ Posed(truth) /\ p \in P /\ Good(g, P, x, Zero) /\ id \in Ids
  BY <1>1, FileIs
<1> HIDE DEF P, x, g
<1>3. odd' \intersect Met = {} /\ h.offset = truth.pos[id] => at = a
  <2> SUFFICES ASSUME odd' \intersect Met = {}, h.offset = truth.pos[id] PROVE at = a
    BY SMTT(60)
  <2>1. met \intersect Met = {}
    <3> HIDE DEF w, t, met
    <3> QED BY <1>1, NoneWaited
  <2>2. whence = "end" => h.size = trueSize
    <3> HIDE DEF trueSize
    <3> QED BY <2>1 DEF If, Met
  <2> HIDE DEF trueSize
  <2>3. CASE whence = "set"
    BY <2>3
  <2>4. CASE whence = "cur"
    BY <2>4
  <2>5. CASE whence = "end"
    BY <2>2, <2>5
  <2> QED BY <2>3, <2>4, <2>5
<1> HIDE DEF a, at, met
<1>4. Good(w, P, x, Zero) /\ Shifted(g, w, p, fd, a)
  BY <1>1, <1>2, MovedGood, MovesShifted
<1>5. Posed(t) /\ (\A i \in Ids : i # id => t.pos[i] = truth.pos[i]) /\ (at \in 0 .. MaxSize => t.pos[id] = at)
  BY <1>2, TrueMovedIs
<1> HIDE DEF t, w
<1>6. odd' \intersect Met = {} /\ h.offset = truth.pos[id] => a = t.pos[id]
  BY <1>1, <1>3, <1>5
<1>7. g = Picked(World, p, fd) /\ P = {p} /\ Good(w, P, Outside(passing), Zero)
  BY <1>4 DEF g, P, x
<1> QED BY <1>1, <1>4, <1>5, <1>6, <1>7, MovedPos

LEMMA FtruncatePos ==
  ASSUME OpenInv, PosInv, odd = {}, setup' = setup, NEW p \in Procs, NEW fd \in Fds, NEW n \in setup.Sizes, Ftruncate(p, fd, n)
  PROVE  PosInv'
<1> DEFINE g == Picked(World, p, fd)
           h == g.tables[p][fd]
           id == h.id
           node == truth.node[id]
           cut == Cut(truth.bytes[node], n)
           t == [truth EXCEPT !.bytes[node] = cut]
           w == Sized(g, p, fd, n)
           was == disk[WriteName(g, h)].bytes
           met1 == If(n < h.size, "shrink") \union If(SharesMem(g, h), "size")
           met2 == If(h.size # Len(was), "size")
           P == {p}
           x == Outside(passing)
           a == h.offset
<1>1. passing' = passing /\ fd \in Files(p) /\ n <= MaxSize /\ (Ends(p, w, t, met1) \/ Ends(p, w, t, met2))
  BY ZenonT(30) DEF Ftruncate, H, Done
<1>2. setup \in Setups /\ Posed(truth) /\ p \in P /\ Good(g, P, x, Zero) /\ id \in Ids /\ n \in Nat /\ MaxSize \in Nat
  BY ZenonT(30), <1>1, FileIs, Settings
<1> HIDE DEF P, x, g, met1, met2, node, cut
<1>3. n \in 0 .. MaxSize
  BY <1>1, <1>2
<1>4. Good(w, P, x, Zero) /\ Shifted(g, w, p, fd, a)
  BY <1>2, <1>3, MovedGood, MovesShifted
<1>5. Posed(t) /\ t.pos = truth.pos
  <2>1. Posed(truth) /\ t = [truth EXCEPT !.bytes[node] = cut]
    BY <1>2
  <2> HIDE DEF t
  <2> QED BY <2>1, BytesPosed
<1> HIDE DEF t, w
<1>6. h.offset = truth.pos[id] => a = t.pos[id]
  BY <1>5
<1>7. (\A i \in Ids : i # id => t.pos[i] = truth.pos[i])
  BY <1>5
<1>8. g = Picked(World, p, fd) /\ P = {p} /\ Good(w, P, Outside(passing), Zero)
  BY <1>4 DEF g, P, x
<1> HIDE DEF a
<1>9. PICK met : Ends(p, w, t, met)
  BY <1>1
<1> QED BY <1>1, <1>4, <1>5, <1>6, <1>7, <1>8, <1>9, MovedPos

\* Bytes put through fd, and its opening left where the truth says.
LEMMA PutAtPos ==
  ASSUME OpenInv, PosInv, odd = {}, setup' = setup, passing' = passing, NEW p \in Procs, NEW fd \in Files(p),
         NEW w, w = Picked(World, p, fd), NEW offset \in Nat, NEW said, Len(said) \in Nat, offset + Len(said) <= MaxSize,
         NEW to \in 0 .. MaxSize, NEW t, Posed(t), \A i \in Ids : i # w.tables[p][fd].id => t.pos[i] = truth.pos[i],
         w.tables[p][fd].offset = truth.pos[w.tables[p][fd].id] => to = t.pos[w.tables[p][fd].id],
         PutAt(p, w, fd, offset, said, to, t)
  PROVE  PosInv'
<1> DEFINE h == w.tables[p][fd]
           end == offset + Len(said)
           size == Max({h.size, end})
           g == Moved(w, p, fd, to)
           after == Sized(g, p, fd, size)
           at == g.tables[p][fd].offset
           m == Ofd(w, h).mem
           v == MemPut(after, m, offset, said)
           met1 == If(size # h.size /\ SharesMem(w, h), "size")
           met2 == {}
           x == Outside(passing)
           P == {p}
<1>1. Ends(p, v, t, met1) \/ Ends(p, after, t, met2)
  BY DEF PutAt, H, Done
<1>2. setup \in Setups /\ Good(w, P, x, Zero) /\ p \in P /\ fd \in Fds /\ MaxSize \in Nat
  BY FileIs, Settings
<1>3. m \in Mems \union {0} /\ h.size \in 0 .. MaxSize
  <2>1. Typed(w)
    BY <1>2 DEF Good
  <2>2. HandleOK(h)
    BY <1>2, <2>1 DEF Typed
  <2> QED BY <1>2, <2>1, <2>2, OfdIs DEF HandleOK
<1> HIDE DEF x, P, met1, met2, m
<1>4. size \in 0 .. MaxSize
  <2> DEFINE a == h.size
  <2>1. a \in Int /\ end \in Int /\ a \in 0 .. MaxSize /\ end \in 0 .. MaxSize
    BY <1>2, <1>3
  <2> HIDE DEF a, end
  <2>2. Max({a, end}) = IF a >= end THEN a ELSE end
    BY <2>1, MaxOfTwo
  <2>3. Max({a, end}) \in 0 .. MaxSize
    BY <2>1, <2>2
  <2> QED BY <2>3 DEF a
<1> HIDE DEF size
<1>5. Good(g, P, x, Zero) /\ Shifted(w, g, p, fd, to)
  BY <1>2, MovedGood, MovesShifted
<1> HIDE DEF g
<1>6. Good(after, P, x, Zero) /\ Shifted(w, after, p, fd, to)
  <2>1. Good(after, P, x, Zero) /\ Shifted(g, after, p, fd, at)
    BY <1>2, <1>4, <1>5, MovedGood, MovesShifted
  <2>2. at = to
    BY <1>5 DEF Shifted
  <2> HIDE DEF at, after
  <2> QED BY <1>5, <2>1, <2>2, ShiftedTwice
<1> HIDE DEF after
<1>7. Good(v, P, x, Zero) /\ Shifted(w, v, p, fd, to)
  <2>1. v.tables = after.tables /\ v.touched = after.touched /\ v.ofds = after.ofds
    BY MemSame DEF MemPut
  <2>2. Good(v, P, x, Zero)
    BY <1>2, <1>3, <1>6, NoMemPut
  <2> HIDE DEF v
  <2> QED BY <1>6, <2>1, <2>2, ShiftedSame
<1> HIDE DEF v
<1>8. PICK z, met : Ends(p, z, t, met) /\ Good(z, P, x, Zero) /\ Shifted(w, z, p, fd, to)
  BY <1>1, <1>6, <1>7
<1>9. P = {p} /\ Good(z, P, Outside(passing), Zero)
  BY <1>8 DEF P, x
<1> HIDE DEF h
<1> QED BY <1>8, <1>9, MovedPos

LEMMA WritePos ==
  ASSUME OpenInv, PosInv, odd = {}, setup' = setup, NEW p \in Procs, NEW fd \in Fds, NEW n \in setup.Sizes \ {0}, NEW v, Write(p, fd, n, v)
  PROVE  PosInv'
<1> DEFINE g == Picked(World, p, fd)
           h == g.tables[p][fd]
           id == h.id
           a == h.offset
           b == truth.pos[id]
           said == [i \in 1 .. n |-> v]
           u == TruePut(truth, id, b, said)
           to == a + n
           at == b + n
           t == TrueMoved(u, id, at)
<1>1. passing' = passing /\ to <= MaxSize /\ PutAt(p, g, fd, a, said, to, t) /\ fd \in Files(p)
  BY ZenonT(30) DEF Write, H
<1>2. a \in 0 .. MaxSize /\ n \in Nat /\ MaxSize \in Nat
  BY ZenonT(60), LookIs
<1>3. setup \in Setups /\ Posed(truth) /\ id \in Ids
  BY <1>1, FileIs
<1>4. Len(said) = n
  BY <1>2, LengthOf
<1> HIDE DEF said
<1>5. Posed(u) /\ u.pos = truth.pos
  <2> HIDE DEF u
  <2> QED BY <1>3, TruePutIs DEF u
<1> HIDE DEF u
<1>6. to \in 0 .. MaxSize /\ a \in Nat /\ Len(said) \in Nat /\ a + Len(said) <= MaxSize
  <2> HIDE DEF a
  <2> QED BY <1>1, <1>2, <1>4
<1>7. a = b => at = to
  OBVIOUS
<1> HIDE DEF at, to
<1>8. Posed(t) /\ (\A i \in Ids : i # id => t.pos[i] = u.pos[i]) /\ (at \in 0 .. MaxSize => t.pos[id] = at)
  BY <1>3, <1>5, TrueMovedIs
<1> HIDE DEF t
<1>9. h.offset = truth.pos[id] => to = t.pos[id]
  BY <1>3, <1>6, <1>7, <1>8 DEF a, b
<1>10. \A i \in Ids : i # id => t.pos[i] = truth.pos[i]
  BY <1>5, <1>8
<1> HIDE DEF a
<1> QED BY <1>1, <1>6, <1>8, <1>9, <1>10, PutAtPos

LEMMA PwritePos ==
  ASSUME OpenInv, PosInv, odd = {}, setup' = setup, NEW p \in Procs, NEW fd \in Fds, NEW offset \in setup.Ats, NEW n \in setup.Sizes \ {0},
         NEW v, Pwrite(p, fd, offset, n, v)
  PROVE  PosInv'
<1> DEFINE g == Picked(World, p, fd)
           h == g.tables[p][fd]
           id == h.id
           a == h.offset
           said == [i \in 1 .. n |-> v]
           t == TruePut(truth, id, offset, said)
<1>1. passing' = passing /\ offset + n <= MaxSize /\ PutAt(p, g, fd, offset, said, a, t) /\ fd \in Files(p)
  BY DEF Pwrite, H
<1>2. a \in 0 .. MaxSize /\ n \in Nat /\ MaxSize \in Nat /\ offset \in Nat
  BY LookIs
<1>3. Posed(truth)
  BY <1>1, FileIs
<1>4. Len(said) = n
  BY <1>2, LengthOf
<1> HIDE DEF said
<1>5. Posed(t) /\ t.pos = truth.pos
  <2> HIDE DEF t
  <2> QED BY <1>3, TruePutIs DEF t
<1> HIDE DEF t
<1>6. Len(said) \in Nat /\ offset + Len(said) <= MaxSize
  BY <1>1, <1>2, <1>4
<1>7. h.offset = truth.pos[id] => a = t.pos[id]
  BY <1>5
<1>8. \A i \in Ids : i # id => t.pos[i] = truth.pos[i]
  BY SMTT(60), <1>5
<1> HIDE DEF a
<1> QED BY <1>1, <1>2, <1>5, <1>6, <1>7, <1>8, PutAtPos

LEMMA WritevPos ==
  ASSUME OpenInv, PosInv, odd = {}, setup' = setup, NEW p \in Procs, NEW fd \in Fds, NEW v, Writev(p, fd, v)
  PROVE  PosInv'
<1> DEFINE g == Picked(World, p, fd)
           h == g.tables[p][fd]
           id == h.id
           a == h.offset
           up == a + 1
           k == Moved(g, p, fd, up)
           z == Picked(k, p, fd)
           next == z.tables[p][fd].offset
           b == truth.pos[id]
           one == <<v>>
           two == <<v, v>>
           said == Overlaid(one, next - a, one)
           u == TruePut(truth, id, b, two)
           at == b + 2
           t == TrueMoved(u, id, at)
<1>1. passing' = passing /\ a + 2 <= MaxSize /\ PutAt(p, g, fd, a, said, next + 1, t) /\ fd \in Files(p)
  BY ZenonT(30) DEF Writev, H
<1>2. Good(g, {p}, Outside(passing), Zero) /\ Settled(g, p, fd) /\ a \in 0 .. MaxSize /\ setup \in Setups /\ MaxSize \in Nat
  BY LookIs
<1>3. Posed(truth) /\ id \in Ids
  BY ZenonT(30), <1>1, FileIs
<1>4. Len(one) = 1
  OBVIOUS
<1>5. Posed(u) /\ u.pos = truth.pos
  <2> HIDE DEF u, two
  <2> QED BY <1>3, TruePutIs DEF u
<1> HIDE DEF u, g, one
<1>6. Posed(t) /\ (\A i \in Ids : i # id => t.pos[i] = u.pos[i]) /\ (at \in 0 .. MaxSize => t.pos[id] = at)
  <2> HIDE DEF at
  <2> QED BY <1>2, <1>3, <1>5, TrueMovedIs
<1> HIDE DEF t
<1>7. up \in 0 .. MaxSize
  <2> HIDE DEF a
  <2> QED BY <1>1, <1>2
<1>8. next = up
  <2> HIDE DEF up
  <2>1. Moves(g, k, p, fd, up, g.tables[p][fd].size)
    BY <1>2, <1>7, MovedGood
  <2>2. Settled(k, p, fd)
    BY <1>2, <2>1, MovesAlike, AlikeSettled
  <2>3. z = k
    BY <2>2, PickedAgain
  <2> HIDE DEF k, z
  <2> QED BY <2>1, <2>3 DEF Moves, Placed
<1> HIDE DEF z, k, a
<1> DEFINE by == next - a
           to == next + 1
<1> HIDE DEF next
<1>9. by = 1 /\ to = a + 2 /\ a \in Nat /\ to \in 0 .. MaxSize
  BY <1>1, <1>2, <1>8
<1>10. Len(Overlaid(one, by, one)) = 2
  <2>1. by \in Nat /\ Len(one) \in Nat
    BY <1>4, <1>9
  <2> HIDE DEF by
  <2>2. Len(Overlaid(one, by, one)) = IF Len(one) >= by + Len(one) THEN Len(one) ELSE by + Len(one)
    BY <2>1, OverlaidLength
  <2> QED BY <1>4, <1>9, <2>2
<1>11. Len(said) \in Nat /\ a + Len(said) <= MaxSize /\ PutAt(p, g, fd, a, said, to, t)
  BY SMTT(60), <1>1, <1>10
<1>12. h.offset = truth.pos[id] => to = t.pos[id]
  <2> SUFFICES ASSUME h.offset = truth.pos[id] PROVE to = t.pos[id]
    OBVIOUS
  <2>1. a = b
    BY DEF a
  <2>2. at = to
    BY <1>9, <2>1
  <2> HIDE DEF at, to, b, a
  <2> QED BY <1>6, <1>9, <2>2
<1>13. \A i \in Ids : i # id => t.pos[i] = truth.pos[i]
  BY <1>5, <1>6
<1>14. g = Picked(World, p, fd)
  BY DEF g
<1> HIDE DEF said, to
<1> QED BY <1>1, <1>2, <1>6, <1>9, <1>11, <1>12, <1>13, <1>14, PutAtPos

----------------------------------------------------------------------------
(* A name deleted: what is open of it kept in memory.                      *)

\* Memory for what is open for reading changes neither the openings nor the slots.
LEMMA ViewedAlikes ==
  ASSUME setup \in Setups, NEW w, NEW P, NEW x, NEW y, Good(w, P, x, y), NonNeg(x), DiskOK, NEW name \in setup.Names,
         NEW m \in Mems \union {0}, \A q \in Procs, f \in Fds : Proper(w.tables[q][f])
  PROVE  Alikes(w, Viewed(w, name, m))
<1> DEFINE size == Len(disk[name].bytes)
           S == Seen(w, name)
           New(h) == [h EXCEPT !.kind = "mem", !.size = size]
           NewOfd(o) == [o EXCEPT !.mem = m, !.size = size]
           t == [q \in Procs |-> [f \in Fds |-> IF IsView(w, name, q, f) THEN New(w.tables[q][f]) ELSE w.tables[q][f]]]
           o2 == [i \in 1 .. OFDS |-> IF i \in S THEN NewOfd(w.ofds[i]) ELSE w.ofds[i]]
           ms == [w.mems EXCEPT ![m].refs = @ + Cardinality(S)]
           v == [tables |-> t, touched |-> w.touched, ofds |-> o2, mems |-> ms]
<1>1. Viewed(w, name, m) = IF m = 0 \/ disk[name].start = 0 THEN w ELSE v
  BY DEF Viewed, H
<1>2. CASE m = 0 \/ disk[name].start = 0
  BY ZenonT(30), <1>1, <1>2 DEF Alikes
<1>3. CASE ~(m = 0 \/ disk[name].start = 0)
  <2>1. m \in Mems /\ Typed(w) /\ size \in 0 .. MaxSize
    BY <1>3, Settings DEF Good, DiskOK
  <2> HIDE DEF size
  <2>2. ASSUME NEW q \in Procs, NEW f \in Fds
        PROVE  /\ t[q][f].id = w.tables[q][f].id /\ t[q][f].ofd = w.tables[q][f].ofd
               /\ t[q][f].offset = w.tables[q][f].offset /\ Proper(t[q][f])
    <3> DEFINE h == w.tables[q][f]
    <3>1. HandleOK(h) /\ Proper(h)
      BY <2>1 DEF Typed
    <3>2. CASE IsView(w, name, q, f)
      <4>1. t[q][f] = New(h) /\ h.kind = "read" /\ h.ofd # 0
        BY <3>2 DEF IsView, H
      <4> HIDE DEF h, t
      <4>2. HandleOK(New(h)) /\ New(h).ofd = h.ofd /\ New(h).kind = "mem" /\ New(h).id = h.id /\ New(h).offset = h.offset
        BY <2>1, <3>1, <4>1, HandleViewed
      <4> HIDE DEF New
      <4>3. Proper(New(h))
        BY <3>1, <4>1, <4>2 DEF Proper
      <4> QED BY <4>1, <4>2, <4>3 DEF h
    <3>3. CASE ~IsView(w, name, q, f)
      <4>1. t[q][f] = h
        BY <3>3
      <4> QED BY <3>1, <4>1
    <3> QED BY <3>2, <3>3
  <2>3. ASSUME NEW i \in S PROVE w.ofds[i].refs # 0
    <3>1. i \in 1 .. OFDS
      BY DEF Seen
    <3>2. PICK q \in Procs : \E f \in Fds : w.tables[q][f].ofd = i
      BY DEF Seen, H
    <3>3. PICK f \in Fds : w.tables[q][f].ofd = i
      BY <3>2
    <3>4. x[i] >= 0
      BY <3>1 DEF NonNeg
    <3>5. w.ofds[i].refs > 0
      <4> HIDE DEF S
      <4> QED BY <3>1, <3>3, <3>4, RefHeld
    <3> QED BY <3>5
  <2> HIDE DEF S
  <2>4. ASSUME NEW i \in 1 .. OFDS PROVE o2[i].offset = w.ofds[i].offset
    <3> DEFINE o == w.ofds[i]
    <3>1. OfdOK(o)
      BY <2>1 DEF Typed
    <3>2. CASE i \in S
      <4>1. o2[i] = NewOfd(o) /\ o.refs # 0
        BY <2>3, <3>2
      <4> HIDE DEF o, o2
      <4>2. OfdOK(NewOfd(o)) /\ NewOfd(o).refs = o.refs /\ NewOfd(o).offset = o.offset /\ NewOfd(o).mem = m
        BY <2>1, <3>1, <4>1, OfdViewed
      <4> HIDE DEF NewOfd
      <4> QED BY <4>1, <4>2 DEF o
    <3>3. CASE i \notin S
      BY <3>3
    <3> QED BY <3>2, <3>3
  <2> HIDE DEF t, o2, ms
  <2>5. v.tables = t /\ v.touched = w.touched /\ v.ofds = o2
    OBVIOUS
  <2> HIDE DEF v
  <2>6. Alikes(w, v)
    BY <2>2, <2>4, <2>5 DEF Alikes
  <2> QED BY <1>1, <1>3, <2>6
<1> QED BY <1>2, <1>3

LEMMA InPlaceSteady ==
  ASSUME NEW w, NEW v, InPlace(w, v) PROVE Still(w, v) /\ Steady(w, v)
BY DEF InPlace, Steady

LEMMA UnlinkPos ==
  ASSUME OpenInv, PosInv, odd = {}, setup' = setup, NEW p \in Procs, NEW name \in setup.Names, Unlink(p, name) PROVE PosInv'
<1> DEFINE S == {i \in 1 .. OFDS : ofds[i].refs > 0 /\ ofds[i].name = name}
           g == KeptAll(World, name, S)
           kept == {i \in S : g.ofds[i].name = NoName}
           views == {r \in Procs \X Fds : LET h == tables[r[1]][r[2]] IN
                      h.kind = "read" /\ h.start = disk[name].start /\ truth.node[h.id] # truth.names[name]}
           m == IF kept = {} THEN 0 ELSE g.ofds[Min(kept)].mem
           w == Viewed(g, name, m)
           zero == 0
           t == [truth EXCEPT !.names[name] = zero]
           met == If(Cardinality(S) > 1, "copies") \union If(kept # S, "nomem") \union If(views # {}, "place")
                    \union If(\E i \in S : ofds[i].size # Len(disk[name].bytes), "size")
           x == Outside(passing)
           k == Out(passing)
           U == touched[p]
           T == truth.pos
           P == {p}
           y == Zero
<1>1. Ends(p, w, t, met) /\ passing' = passing
  BY ZenonT(30) DEF Unlink, Done
<1>2. /\ setup \in Setups /\ Sure(World, P, x, y, k) /\ Fair(World, k, p, U, T) /\ Posed(truth) /\ p \in P /\ DiskOK
  BY PosBegins DEF OpenInv
<1>3. S \subseteq 1 .. OFDS /\ \A i \in S : World.ofds[i].refs # 0
  BY DEF World
<1>4. Posed(t) /\ t.pos = T
  <2> HIDE DEF zero
  <2> QED BY <1>2, NamesPosed
<1> HIDE DEF x, y, P, met, t, S, k, U, T
<1>5. Good(World, P, x, y) /\ NonNeg(x)
  BY <1>2 DEF Sure
<1>6. Good(g, P, x, y) /\ InPlace(World, g)
  BY <1>2, <1>3, <1>5, KeptAllGood
<1> HIDE DEF g
<1>7. Sure(g, P, x, y, k)
  BY <1>2, <1>6, SureOf
<1>8. Fair(g, k, p, U, T)
  <2>1. Still(World, g) /\ Steady(World, g)
    BY <1>6, InPlaceSteady
  <2>2. Live(g, k)
    BY <1>2, <1>7, GoodLive
  <2> QED BY <1>2, <2>1, <2>2, StillFair
<1>9. m \in Mems \union {0}
  <2>1. kept \subseteq 1 .. OFDS
    BY <1>3
  <2>2. Typed(g)
    BY <1>6 DEF Good
  <2> HIDE DEF kept
  <2> QED BY <1>2, <2>1, <2>2, KeptMemory
<1> HIDE DEF m
<1>10. Sure(w, P, x, y, k)
  <2>1. Good(w, P, x, y)
    BY <1>2, <1>5, <1>6, <1>9, ViewedGood
  <2> HIDE DEF w
  <2> QED BY <1>7, <2>1, SureOf
<1>11. Fair(w, k, p, U, T)
  <2>1. \A q \in Procs, f \in Fds : Proper(g.tables[q][f])
    BY <1>8, HeldAt DEF Fair
  <2>2. Alikes(g, w)
    BY <1>2, <1>5, <1>6, <1>9, <2>1, ViewedAlikes
  <2> HIDE DEF w
  <2> QED BY <1>2, <1>7, <1>8, <2>2, AlikesFair
<1> HIDE DEF w
<1>12. Sure(w, P, x, y, Out(passing)) /\ Fair(w, Out(passing), p, touched[p], t.pos)
  BY <1>4, <1>10, <1>11 DEF k, U
<1> QED BY <1>1, <1>2, <1>4, <1>12, QuietStill

LEMMA ReadWaitPos == ASSUME PosInv, NEW p \in Procs, NEW fd \in Fds, ReadWait(p, fd) PROVE PosInv'
<1>1. /\ setup' = setup /\ tables' = tables /\ ofds' = ofds /\ touched' = touched /\ mems' = mems
      /\ passing' = passing /\ truth' = truth /\ odd' = odd
  BY DEF ReadWait
<1> QED BY <1>1, StillPos

----------------------------------------------------------------------------
(* Every call.                                                             *)

LEMMA OpensPos == ASSUME OpenInv, PosInv, odd = {}, NEW p \in Procs, Opens(p) PROVE PosInv'
<1>1. ASSUME NEW n \in setup.Names, NEW c \in BOOLEAN, OpenRead(p, n, c) PROVE PosInv'
  <2>1. setup' = setup
    BY <1>1 DEF OpenRead, Same
  <2> QED BY <1>1, <2>1, OpenReadPos
<1>2. ASSUME NEW n \in setup.Names, NEW how \in setup.Hows, OpenWrite(p, n, how) PROVE PosInv'
  <2>1. setup' = setup
    BY <1>2 DEF OpenWrite, Same
  <2> QED BY <1>2, <2>1, OpenWritePos
<1>3. ASSUME OpenOther(p) PROVE PosInv'
  <2>1. setup' = setup
    BY <1>3 DEF OpenOther, Same
  <2> QED BY <1>3, <2>1, OpenOtherPos
<1>4. ASSUME MemfdCreate(p) PROVE PosInv'
  <2>1. setup' = setup
    BY <1>4 DEF MemfdCreate, Same
  <2> QED BY <1>4, <2>1, MemfdCreatePos
<1>5. ASSUME NEW fd \in Fds, Reopen(p, fd) PROVE PosInv'
  <2>1. setup' = setup
    BY <1>5 DEF Reopen, Same
  <2> QED BY <1>5, <2>1, ReopenPos
<1> DEFINE A1 == \E n \in setup.Names, c \in BOOLEAN : OpenRead(p, n, c)
           A2 == \E n \in setup.Names, how \in setup.Hows : OpenWrite(p, n, how)
           A5 == \E fd \in Fds : Reopen(p, fd)
<1>6. A1 \/ A2 \/ OpenOther(p) \/ MemfdCreate(p) \/ A5
  BY DEF Opens
<1>7. (A1 => PosInv') /\ (A2 => PosInv') /\ (A5 => PosInv')
  BY <1>1, <1>2, <1>5
<1> HIDE DEF A1, A2, A5
<1> QED BY <1>3, <1>4, <1>6, <1>7

LEMMA CopiesPos == ASSUME OpenInv, PosInv, odd = {}, NEW p \in Procs, Copies(p) PROVE PosInv'
<1>1. ASSUME NEW fd \in Fds, Close(p, fd) PROVE PosInv'
  <2>1. setup' = setup
    BY <1>1 DEF Close, Same
  <2> QED BY <1>1, <2>1, ClosePos
<1>2. ASSUME NEW fd \in Fds, Send(p, fd) PROVE PosInv'
  <2>1. setup' = setup
    BY <1>2 DEF Send, Same
  <2> QED BY <1>2, <2>1, SendPos
<1>3. ASSUME NEW fd \in Fds, NEW mark \in BOOLEAN, CloseRange(p, fd, mark) PROVE PosInv'
  <2>1. setup' = setup
    BY <1>3 DEF CloseRange, Same
  <2> QED BY <1>3, <2>1, CloseRangePos
<1>4. ASSUME NEW fd \in Fds, NEW mark \in BOOLEAN, Dup(p, fd, mark) PROVE PosInv'
  <2>1. setup' = setup
    BY <1>4 DEF Dup, Same
  <2> QED BY <1>4, <2>1, DupPos
<1>5. ASSUME NEW fd \in Fds, NEW mark \in BOOLEAN, SetCloexec(p, fd, mark) PROVE PosInv'
  <2>1. setup' = setup
    BY <1>5 DEF SetCloexec, Same
  <2> QED BY <1>5, <2>1, SetCloexecPos
<1>6. ASSUME NEW fd \in Fds, NEW to \in Fds, DupTo(p, fd, to) PROVE PosInv'
  <2>1. setup' = setup
    BY <1>6 DEF DupTo, Same
  <2> QED BY <1>6, <2>1, DupToPos
<1>7. ASSUME NEW child \in Procs, Fork(p, child) PROVE PosInv'
  <2>1. setup' = setup
    BY <1>7 DEF Fork, Same
  <2> QED BY <1>7, <2>1, ForkPos
<1>8. ASSUME Exec(p) PROVE PosInv'
  <2>1. setup' = setup
    BY <1>8 DEF Exec
  <2> QED BY <1>8, <2>1, ExecPos
<1>9. ASSUME End(p) PROVE PosInv'
  <2>1. setup' = setup
    BY <1>9 DEF End
  <2> QED BY <1>9, <2>1, EndPos
<1>10. ASSUME Receive(p) PROVE PosInv'
  <2>1. setup' = setup
    BY <1>10 DEF Receive, Same
  <2> QED BY <1>10, <2>1, ReceivePos
<1> DEFINE A1 == \E fd \in Fds : Close(p, fd) \/ Send(p, fd)
           A2 == \E fd \in Fds, mark \in BOOLEAN : CloseRange(p, fd, mark) \/ Dup(p, fd, mark) \/ SetCloexec(p, fd, mark)
           A3 == \E fd, to \in Fds : DupTo(p, fd, to)
           A4 == \E child \in Procs : Fork(p, child)
<1>11. A1 \/ A2 \/ A3 \/ A4 \/ Exec(p) \/ End(p) \/ Receive(p)
  BY DEF Copies
<1>12. (A1 => PosInv') /\ (A3 => PosInv') /\ (A4 => PosInv')
  BY <1>1, <1>2, <1>6, <1>7
<1>13. A2 => PosInv'
  BY <1>3, <1>4, <1>5
<1> HIDE DEF A1, A2, A3, A4
<1> QED BY <1>8, <1>9, <1>10, <1>11, <1>12, <1>13

LEMMA BytesPos == ASSUME OpenInv, PosInv, odd = {}, NEW p \in Procs, Bytes(p) PROVE PosInv'
<1>1. ASSUME NEW fd \in Fds, NEW n \in setup.Sizes, Read(p, fd, n) PROVE PosInv'
  <2>1. setup' = setup
    BY <1>1 DEF Read, Same
  <2> QED BY <1>1, <2>1, ReadPos
<1>2. ASSUME NEW fd \in Fds, NEW n \in setup.Sizes, Readv(p, fd, n) PROVE PosInv'
  <2>1. setup' = setup
    BY <1>2 DEF Readv, Same
  <2> QED BY <1>2, <2>1, ReadvPos
<1>3. ASSUME NEW fd \in Fds, NEW n \in setup.Sizes, Ftruncate(p, fd, n) PROVE PosInv'
  <2>1. setup' = setup
    BY <1>3 DEF Ftruncate, Same
  <2> QED BY <1>3, <2>1, FtruncatePos
<1>4. ASSUME NEW fd \in Fds, NEW n \in setup.Sizes, NEW at \in setup.Ats, Pread(p, fd, at, n) PROVE PosInv'
  <2>1. setup' = setup
    BY <1>4 DEF Pread, Same
  <2> QED BY <1>4, <2>1, PreadPos
<1>5. ASSUME NEW fd \in Fds, NEW n \in setup.Sizes \ {0}, NEW v \in setup.Vals, Write(p, fd, n, v) PROVE PosInv'
  <2>1. setup' = setup
    BY <1>5 DEF Write, Same
  <2> QED BY <1>5, <2>1, WritePos
<1>6. ASSUME NEW fd \in Fds, NEW v \in setup.Vals, Writev(p, fd, v) PROVE PosInv'
  <2>1. setup' = setup
    BY <1>6 DEF Writev, Same
  <2> QED BY <1>6, <2>1, WritevPos
<1>7. ASSUME NEW fd \in Fds, NEW n \in setup.Sizes \ {0}, NEW v \in setup.Vals, NEW at \in setup.Ats, Pwrite(p, fd, at, n, v)
      PROVE  PosInv'
  <2>1. setup' = setup
    BY <1>7 DEF Pwrite, Same
  <2> QED BY <1>7, <2>1, PwritePos
<1>8. ASSUME NEW fd \in Fds, NEW whence \in {"set", "cur", "end"}, NEW by \in setup.Seeks, Lseek(p, fd, whence, by) PROVE PosInv'
  <2>1. setup' = setup
    BY <1>8 DEF Lseek, Same
  <2> QED BY <1>8, <2>1, LseekPos
<1> DEFINE A1 == \E fd \in Fds, n \in setup.Sizes : Read(p, fd, n) \/ Readv(p, fd, n) \/ Ftruncate(p, fd, n)
           A2 == \E fd \in Fds, n \in setup.Sizes, at \in setup.Ats : Pread(p, fd, at, n)
           A3 == \E fd \in Fds, n \in setup.Sizes \ {0}, v \in setup.Vals : Write(p, fd, n, v)
           A4 == \E fd \in Fds, v \in setup.Vals : Writev(p, fd, v)
           A5 == \E fd \in Fds, n \in setup.Sizes \ {0}, v \in setup.Vals, at \in setup.Ats : Pwrite(p, fd, at, n, v)
           A6 == \E fd \in Fds, whence \in {"set", "cur", "end"}, by \in setup.Seeks : Lseek(p, fd, whence, by)
<1>9. A1 \/ A2 \/ A3 \/ A4 \/ A5 \/ A6
  BY DEF Bytes
<1>10. (A1 => PosInv') /\ (A2 => PosInv')
  BY <1>1, <1>2, <1>3, <1>4
<1>11. (A3 => PosInv') /\ (A4 => PosInv')
  BY <1>5, <1>6
<1>12. (A5 => PosInv') /\ (A6 => PosInv')
  BY <1>7, <1>8
<1> HIDE DEF A1, A2, A3, A4, A5, A6
<1> QED BY <1>9, <1>10, <1>11, <1>12

LEMMA NamesPos == ASSUME OpenInv, PosInv, odd = {}, NEW p \in Procs, Names(p) PROVE PosInv'
<1>1. ASSUME NEW n \in setup.Names, Unlink(p, n) PROVE PosInv'
  <2>1. setup' = setup
    BY ZenonT(30), <1>1 DEF Unlink, Same
  <2> QED BY <1>1, <2>1, UnlinkPos
<1>2. ASSUME NEW n \in setup.Names, Truncate(p, n) PROVE PosInv'
  <2>1. setup' = setup
    BY <1>2 DEF Truncate, Same
  <2> QED BY <1>2, <2>1, TruncatePos
<1>3. ASSUME NEW from \in setup.Names, NEW to \in setup.Names, Rename(p, from, to) PROVE PosInv'
  <2>1. setup' = setup
    BY <1>3 DEF Rename, Same
  <2> QED BY <1>3, <2>1, RenamePos
<1> DEFINE A1 == \E n \in setup.Names : Unlink(p, n) \/ Truncate(p, n)
           A2 == \E from, to \in setup.Names : Rename(p, from, to)
<1>4. A1 \/ A2
  BY DEF Names
<1>5. (A1 => PosInv') /\ (A2 => PosInv')
  BY <1>1, <1>2, <1>3
<1> HIDE DEF A1, A2
<1> QED BY <1>4, <1>5

LEMMA WaitsPos == ASSUME OpenInv, PosInv, odd = {}, NEW p \in Procs, Waits(p) PROVE PosInv'
<1>1. ASSUME Select(p) PROVE PosInv'
  <2>1. setup' = setup
    BY <1>1 DEF Select
  <2> QED BY <1>1, <2>1, SelectPos
<1>2. ASSUME NEW fd \in Fds, ReadWait(p, fd) PROVE PosInv'
  <2>1. setup' = setup
    BY <1>2 DEF ReadWait
  <2> QED BY <1>2, <2>1, ReadWaitPos
<1>3. ASSUME WaitDone(p) PROVE PosInv'
  <2>1. setup' = setup
    BY <1>3 DEF WaitDone
  <2> QED BY <1>3, <2>1, WaitDonePos
<1> DEFINE A == \E fd \in Fds : ReadWait(p, fd)
<1>4. Select(p) \/ A \/ WaitDone(p)
  BY DEF Waits
<1>5. A => PosInv'
  BY <1>2
<1> HIDE DEF A
<1> QED BY <1>1, <1>3, <1>4, <1>5

LEMMA InitPos == ASSUME NEW s \in Setups, InitFor(s) PROVE PosInv
<1> DEFINE w == World
           k == Out(passing)
           T == truth.pos
           V == Hands(w, k)
<1>1. /\ setup \in Setups /\ passing = <<>>
      /\ tables = [p \in Procs |-> [fd \in Fds |-> IF p = s.first /\ fd = 0 THEN Pipe ELSE NoHandle]]
  BY DEF InitFor, Procs, Fds, PROGRAM_FILES
<1>2. Posed(truth)
  <2> DEFINE pos == [i \in Ids |-> 0]
  <2>1. "pos" \in DOMAIN truth /\ truth.pos = pos
    BY DEF InitFor
  <2>2. DOMAIN pos = Ids
    OBVIOUS
  <2> HIDE DEF pos
  <2> QED BY <2>1, <2>2 DEF Posed
<1>3. Proper(NoHandle) /\ Empty(NoHandle) /\ Proper(Pipe) /\ Empty(Pipe)
  BY <1>1, NoneIs
<1>4. k = NoHandle /\ \A p \in Procs, fd \in Fds : w.tables[p][fd] \in {NoHandle, Pipe}
  BY <1>1 DEF Out, World
<1> HIDE DEF w, k
<1>5. ASSUME NEW r \in Spots PROVE Proper(V[r]) /\ Empty(V[r])
  <2>1. CASE r = <<>>
    BY <1>3, <1>4, <2>1, HandsIs
  <2>2. CASE r # <<>>
    <3>1. PICK p \in Procs, fd \in Fds : r = <<p, fd>>
      BY <2>2, SpotIs
    <3>2. V[r] = w.tables[p][fd]
      BY <3>1, HandsIs
    <3> QED BY <1>3, <1>4, <3>2
  <2> QED BY <2>1, <2>2
<1> HIDE DEF V
<1>6. \A r \in Spots : RightAt(V[r], w.ofds, T)
  BY <1>5 DEF RightAt, Empty
<1>7. \A r \in Spots : \A u \in Spots \ {r} : Tied(V[r], V[u])
  BY <1>5, EmptyTied
<1>8. Held(w, k, T)
  BY <1>5, <1>6, <1>7 DEF Held, Whole, V
<1> QED BY <1>2, <1>8 DEF PosInv, w, k

\* What a look would find is where the last call on the opening left it.
LEMMA PosInvTrue == ASSUME OpenInv, PosInv PROVE PositionsShared
<1> SUFFICES ASSUME odd \intersect Met = {}, NEW p \in Procs, NEW fd \in Fds \ touched[p], tables[p][fd].id # 0
             PROVE  Now(World, p, fd).offset = truth.pos[tables[p][fd].id]
  BY DEF PositionsShared, PositionsTrue, Met
<1> DEFINE w == World
           T == truth.pos
           h == w.tables[p][fd]
<1>1. w.tables = tables /\ w.touched = touched
  BY DEF World
<1> HIDE DEF w
<1>2. RightAt(h, w.ofds, T)
  BY HeldAt DEF PosInv, w
<1>3. h.id # 0 /\ h = tables[p][fd] /\ fd \notin w.touched[p] /\ h = H(w, p, fd)
  BY <1>1 DEF H
<1> HIDE DEF h
<1>4. Now(w, p, fd) = IF h.ofd = 0 THEN [offset |-> h.offset, size |-> h.size]
                      ELSE [offset |-> w.ofds[h.ofd].offset, size |-> w.ofds[h.ofd].size]
  BY <1>3 DEF Now
<1>5. Now(w, p, fd).offset = T[h.id]
  BY <1>2, <1>3, <1>4 DEF RightAt
<1> QED BY <1>3, <1>5 DEF w

\* A descriptor of an opening - a dup's, a fork's, one that was passed - is where the last call on any of
\* them left it, in its slot or, with none, in itself; the invariant is that two descriptors of an
\* opening have the same slot, two of a slot the same opening, and each slot its opening's position
\* (file_load, ofd_sync, ofd_release).
THEOREM PositionsAreShared == Spec => []PositionsShared
<1>1. Init => OpenInv /\ PosInv
  BY InitGood, InitPos DEF Init
<1>2. OpenInv /\ PosInv /\ [Next]_vars => (OpenInv /\ PosInv)'
  <2> SUFFICES ASSUME OpenInv, PosInv, [Next]_vars PROVE OpenInv' /\ PosInv'
    OBVIOUS
  <2>1. CASE Next
    <3>1. odd = {} /\ \E p \in Procs : Opens(p) \/ Copies(p) \/ Bytes(p) \/ Names(p) \/ Waits(p)
      BY <2>1 DEF Next
    <3>2. PICK p \in Procs : Opens(p) \/ Copies(p) \/ Bytes(p) \/ Names(p) \/ Waits(p)
      BY <3>1
    <3>3. OpenInv'
      BY <3>2, OpensStep, CopiesStep, BytesStep, NamesStep, WaitsStep
    <3>4. PosInv'
      BY <3>1, <3>2, OpensPos, CopiesPos, BytesPos, NamesPos, WaitsPos
    <3> QED BY <3>3, <3>4
  <2>2. CASE UNCHANGED vars
    BY <2>2, StillStep, StillPos DEF vars
  <2> QED BY <2>1, <2>2
<1>3. OpenInv /\ PosInv => PositionsShared
  BY PosInvTrue
<1> QED BY <1>1, <1>2, <1>3, PTL DEF Spec
=============================================================================
