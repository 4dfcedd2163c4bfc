-------------------------- MODULE SharedPagesProofs --------------------------
(***************************************************************************)
(* Proofs about page tables and share.c's counts, for any number of        *)
(* spaces, pages and frames: every page of memory has one place, the count *)
(* of a page in common is the number of its holders, and a page found by   *)
(* its place in the file holds what the file does.                         *)
(***************************************************************************)
EXTENDS SharedPages, FiniteSetTheorems, FunctionTheorems, TLAPS

----------------------------------------------------------------------------
(* Counting.                                                               *)

\* Some of a finite set is taken away, and something else added.
LEMMA CardMove ==
  ASSUME NEW A, IsFiniteSet(A), NEW B, B \subseteq A, NEW D, IsFiniteSet(D), D \intersect (A \ B) = {}
  PROVE  /\ IsFiniteSet((A \ B) \union D) /\ Cardinality((A \ B) \union D) \in Nat
         /\ Cardinality(A) \in Nat /\ Cardinality(B) \in Nat /\ Cardinality(D) \in Nat
         /\ Cardinality((A \ B) \union D) = Cardinality(A) - Cardinality(B) + Cardinality(D)
<1>1. IsFiniteSet(B) /\ IsFiniteSet(A \ B)
  BY FS_Subset
<1>2. Cardinality(A) = Cardinality(A \ B) + Cardinality(B) - Cardinality((A \ B) \intersect B)
  <2>1. (A \ B) \union B = A
    OBVIOUS
  <2> QED BY <1>1, <2>1, FS_Union
<1>3. /\ IsFiniteSet((A \ B) \union D)
      /\ Cardinality((A \ B) \union D) = Cardinality(A \ B) + Cardinality(D) - Cardinality((A \ B) \intersect D)
  BY <1>1, FS_Union
<1>4. Cardinality((A \ B) \intersect B) = 0 /\ Cardinality((A \ B) \intersect D) = 0
  <2>1. (A \ B) \intersect B = {} /\ (A \ B) \intersect D = {}
    OBVIOUS
  <2> QED BY <2>1, FS_EmptySet
<1>5. /\ Cardinality(A) \in Nat /\ Cardinality(B) \in Nat /\ Cardinality(D) \in Nat
      /\ Cardinality(A \ B) \in Nat /\ Cardinality((A \ B) \union D) \in Nat
  BY <1>1, <1>3, FS_CardinalityType
<1> QED BY <1>2, <1>3, <1>4, <1>5

\* The pages of one space, as entries of the tables.
LEMMA CardPairs ==
  ASSUME NEW s, NEW Q, IsFiniteSet(Q)
  PROVE  IsFiniteSet({s} \X Q) /\ Cardinality({s} \X Q) = Cardinality(Q)
<1> DEFINE pair == [q \in Q |-> <<s, q>>]
<1>1. pair \in [Q -> {s} \X Q]
  OBVIOUS
<1>2. \A a, b \in Q : pair[a] = pair[b] => a = b
  OBVIOUS
<1>3. \A h \in {s} \X Q : \E q \in Q : pair[q] = h
  OBVIOUS
<1>4. pair \in Bijection(Q, {s} \X Q)
  BY <1>1, <1>2, <1>3, Fun_IsBij
<1>5. ExistsBijection(Q, {s} \X Q)
  BY <1>4 DEF ExistsBijection
<1> QED BY <1>5, FS_Bijection

\* Page table entries that have f in common, in tables T; and those of P in s.
Cells == Spaces \X Pages
Com(T, f) == {h \in Cells : Common(T[h[1]][h[2]]) /\ T[h[1]][h[2]].f = f}
In(T, s, P, f) == {p \in P : Common(T[s][p]) /\ T[s][p].f = f}

LEMMA Finite ==
  /\ IsFiniteSet(Pages) /\ IsFiniteSet(Cells)
  /\ \A P \in SUBSET Pages : IsFiniteSet(P)
  /\ \A T, f : IsFiniteSet(Com(T, f)) /\ Cardinality(Com(T, f)) \in Nat
  /\ \A T, s, f : \A P \in SUBSET Pages : IsFiniteSet(In(T, s, P, f)) /\ Cardinality(In(T, s, P, f)) \in Nat
<1>1. IsFiniteSet(Pages)
  BY PageConstants, FS_Interval DEF Pages
<1>2. IsFiniteSet(Cells)
  BY <1>1, PageConstants, FS_Product DEF Cells
<1>3. ASSUME NEW P \in SUBSET Pages PROVE IsFiniteSet(P)
  BY <1>1, FS_Subset
<1>4. ASSUME NEW T, NEW f PROVE IsFiniteSet(Com(T, f)) /\ Cardinality(Com(T, f)) \in Nat
  <2>1. Com(T, f) \in SUBSET Cells
    BY DEF Com
  <2> QED BY <1>2, <2>1, FS_Subset, FS_CardinalityType
<1>5. ASSUME NEW T, NEW s, NEW f, NEW P \in SUBSET Pages
      PROVE  IsFiniteSet(In(T, s, P, f)) /\ Cardinality(In(T, s, P, f)) \in Nat
  <2>1. In(T, s, P, f) \in SUBSET Pages
    BY DEF In
  <2> QED BY <1>1, <2>1, FS_Subset, FS_CardinalityType
<1> QED BY <1>1, <1>2, <1>3, <1>4, <1>5

\* When only the pages P of space s change, so does the number of those that have
\* f in common, by what P had of them and what it has.
LEMMA ComMove ==
  ASSUME NEW T, NEW U, NEW s \in Spaces, NEW P \in SUBSET Pages, NEW f,
         \A t \in Spaces, p \in Pages : t # s \/ p \notin P => U[t][p] = T[t][p]
  PROVE  Cardinality(Com(U, f)) =
           Cardinality(Com(T, f)) - Cardinality(In(T, s, P, f)) + Cardinality(In(U, s, P, f))
<1> DEFINE B == {s} \X In(T, s, P, f)
           D == {s} \X In(U, s, P, f)
<1>1. /\ IsFiniteSet(Com(T, f)) /\ IsFiniteSet(In(T, s, P, f)) /\ IsFiniteSet(In(U, s, P, f))
  BY Finite
<1>2. /\ IsFiniteSet(D) /\ Cardinality(D) = Cardinality(In(U, s, P, f))
      /\ Cardinality(B) = Cardinality(In(T, s, P, f))
  BY <1>1, CardPairs
<1>3. B \subseteq Com(T, f)
  BY DEF Com, In, Cells
<1>4. D \intersect (Com(T, f) \ B) = {}
  BY DEF Com, In, Cells
<1>5. Com(U, f) = (Com(T, f) \ B) \union D
  <2>1. ASSUME NEW h \in Cells PROVE h \in Com(U, f) <=> h \in (Com(T, f) \ B) \union D
    <3>1. PICK t \in Spaces, p \in Pages : h = <<t, p>>
      BY DEF Cells
    <3>2. CASE t = s /\ p \in P
      BY <3>1, <3>2 DEF Com, In, Cells
    <3>3. CASE ~(t = s /\ p \in P)
      <4>1. U[t][p] = T[t][p] /\ h \notin D /\ h \notin B
        BY <3>1, <3>3 DEF In
      <4> QED BY <3>1, <4>1 DEF Com, Cells
    <3> QED BY <3>2, <3>3
  <2>2. D \subseteq Cells
    BY DEF In, Cells
  <2> QED BY <2>1, <2>2 DEF Com
<1> QED BY <1>1, <1>2, <1>3, <1>4, <1>5, CardMove

----------------------------------------------------------------------------
(* The inductive invariant.                                                *)

Mappings == {m \in [at : Pages, end : Pages, from : Nat \ {0}] : m.at <= m.end}

TypedMem ==
  /\ setup \in Setups /\ live \subseteq Spaces
  /\ pte \in [Spaces -> [Pages -> Entries]]
  /\ refs \in [Frames -> Nat] /\ key \in [Frames -> 1 .. FilePages \union {None}]
  /\ free \subseteq Frames /\ data \in [Frames -> Vals] /\ disk \in [1 .. FilePages -> Vals]
  /\ frame \in [Indexes -> Frames \union {None}]

TypedMaps == maps \in [Spaces -> SUBSET Mappings] /\ opens \in 0 .. MaxOpen

Counted ==
  \A f \in Frames : refs[f] = Cardinality(Com(pte, f)) + Cardinality({i \in Indexes : frame[i] = f})

\* A page of a process's own is nobody else's.
OwnAlone ==
  \A s \in Spaces, p \in Pages : pte[s][p].k = "own" =>
    /\ pte[s][p].f \notin free /\ refs[pte[s][p].f] = 0
    /\ \A t \in Spaces, q \in Pages : pte[t][q].f = pte[s][p].f => t = s /\ q = p

FreeUnheld ==
  \A f \in free : refs[f] = 0 /\ \A s \in Spaces, p \in Pages : pte[s][p].f # f

NoneLost ==
  \A f \in Frames \ free : refs[f] = 0 => \E s \in Spaces, p \in Pages : pte[s][p] = Own(f)

\* A memory file's page is no file's, and in nobody's tables but as that.
Writable(f) == (\E s \in Spaces, p \in Pages : pte[s][p] = Shm(f)) \/ (\E i \in Indexes : frame[i] = f)
KindsApart ==
  \A f \in Frames : Writable(f) => key[f] = None /\ \A s \in Spaces, p \in Pages : pte[s][p] # Cow(f)

ObjectApart == \A i, j \in Indexes : frame[i] = frame[j] /\ frame[i] # None => i = j

\* A space that is nobody's has no pages.
GoneEmpty == \A s \in Spaces \ live : \A p \in Pages : pte[s][p] = NoPage

Sound ==
  Counted /\ OwnAlone /\ FreeUnheld /\ NoneLost /\ KindsApart /\ ObjectApart /\ GoneEmpty /\ KeyTrue

Mem == TypedMem /\ Sound
IInv == Mem /\ TypedMaps /\ did.P \subseteq Pages

----------------------------------------------------------------------------
(* What an entry can be, and what the counts say.                          *)

LEMMA EntryIs ==
  ASSUME NEW e \in Entries
  PROVE  /\ e.k \in {"none", "own", "cow", "shm", "dev"}
         /\ e.k \in {"own", "cow", "shm"} => e.f \in Frames
         /\ e.k = "none" => e = NoPage
         /\ e.k = "dev" => e = Dev
         /\ e.k = "own" => e = Own(e.f)
         /\ e.k = "cow" => e = Cow(e.f)
         /\ e.k = "shm" => e = Shm(e.f)
         /\ e.k \in {"none", "dev"} => e.f = None
         /\ e.f \in Frames => e.k \in {"own", "cow", "shm"}
BY PageConstants DEF Entries, NoPage, Dev, Own, Cow, Shm

LEMMA CowIs == \A f : Cow(f).k = "cow" /\ Cow(f).f = f /\ Common(Cow(f))
BY DEF Cow, Common

LEMMA EntryTypes ==
  /\ NoPage \in Entries /\ Dev \in Entries
  /\ \A f \in Frames : Own(f) \in Entries /\ Cow(f) \in Entries /\ Shm(f) \in Entries
BY DEF Entries

LEMMA InOne ==
  ASSUME NEW T, NEW s, NEW p \in Pages, NEW f
  PROVE  Cardinality(In(T, s, {p}, f)) = IF Common(T[s][p]) /\ T[s][p].f = f THEN 1 ELSE 0
<1>1. CASE Common(T[s][p]) /\ T[s][p].f = f
  <2>1. In(T, s, {p}, f) = {p}
    BY <1>1 DEF In
  <2> QED BY <1>1, <2>1, FS_Singleton
<1>2. CASE ~(Common(T[s][p]) /\ T[s][p].f = f)
  <2>1. In(T, s, {p}, f) = {}
    BY <1>2 DEF In
  <2> QED BY <1>2, <2>1, FS_EmptySet
<1> QED BY <1>1, <1>2

LEMMA ObjectsFinite ==
  ASSUME TypedMem, NEW f
  PROVE  /\ IsFiniteSet({i \in Indexes : frame[i] = f})
         /\ Cardinality({i \in Indexes : frame[i] = f}) \in Nat
<1>1. IsFiniteSet(Indexes)
  BY PageConstants DEF TypedMem, Indexes
<1> QED BY <1>1, FS_Subset, FS_CardinalityType

\* No more of a page's holders are among some pages of a space than there are.
LEMMA CountBound ==
  ASSUME TypedMem, Counted, NEW s \in Spaces, NEW P \in SUBSET Pages, NEW f \in Frames
  PROVE  /\ Cardinality(In(pte, s, P, f)) \in 0 .. refs[f]
         /\ refs[f] = Cardinality(In(pte, s, P, f)) =>
              /\ \A t \in Spaces, q \in Pages : Common(pte[t][q]) /\ pte[t][q].f = f => t = s /\ q \in P
              /\ \A i \in Indexes : frame[i] # f
<1> DEFINE A == Com(pte, f)
           B == {s} \X In(pte, s, P, f)
           O == {i \in Indexes : frame[i] = f}
<1>1. /\ IsFiniteSet(A) /\ Cardinality(A) \in Nat /\ IsFiniteSet(In(pte, s, P, f))
      /\ Cardinality(In(pte, s, P, f)) \in Nat
  BY Finite
<1>2. IsFiniteSet(O) /\ Cardinality(O) \in Nat
  BY ObjectsFinite
<1>3. B \in SUBSET A
  BY DEF Com, In, Cells
<1>4. Cardinality(B) = Cardinality(In(pte, s, P, f))
  BY <1>1, CardPairs
<1>5. Cardinality(B) <= Cardinality(A) /\ (Cardinality(A) = Cardinality(B) => A = B)
  BY <1>1, <1>3, FS_Subset
<1>6. refs[f] = Cardinality(A) + Cardinality(O)
  BY DEF Counted
<1>7. ASSUME refs[f] = Cardinality(In(pte, s, P, f))
      PROVE  /\ \A t \in Spaces, q \in Pages : Common(pte[t][q]) /\ pte[t][q].f = f => t = s /\ q \in P
             /\ \A i \in Indexes : frame[i] # f
  <2>1. Cardinality(O) = 0 /\ A = B
    BY <1>1, <1>2, <1>4, <1>5, <1>6, <1>7
  <2>2. O = {}
    BY <1>2, <2>1, FS_EmptySet
  <2>3. ASSUME NEW t \in Spaces, NEW q \in Pages, Common(pte[t][q]), pte[t][q].f = f
        PROVE  t = s /\ q \in P
    <3>1. <<t, q>> \in A
      BY <2>3 DEF Com, Cells
    <3>2. <<t, q>> \in B
      BY <2>1, <3>1
    <3> QED BY <3>2 DEF In
  <2> QED BY <2>2, <2>3
<1> QED BY <1>1, <1>2, <1>4, <1>5, <1>6, <1>7

\* A page with a count of nothing is in nobody's hands in common.
LEMMA CountNone ==
  ASSUME TypedMem, Counted, NEW f \in Frames, refs[f] = 0
  PROVE  /\ \A t \in Spaces, q \in Pages : ~(Common(pte[t][q]) /\ pte[t][q].f = f)
         /\ \A i \in Indexes : frame[i] # f
<1>1. ASSUME NEW t \in Spaces, NEW q \in Pages, Common(pte[t][q]) /\ pte[t][q].f = f PROVE FALSE
  <2>1. {q} \in SUBSET Pages /\ Cardinality(In(pte, t, {q}, f)) = 1
    BY <1>1, InOne
  <2>2. Cardinality(In(pte, t, {q}, f)) \in 0 .. refs[f]
    BY <2>1, CountBound
  <2> QED BY <2>1, <2>2
<1>2. ASSUME NEW i \in Indexes, frame[i] = f PROVE FALSE
  <2> DEFINE O == {j \in Indexes : frame[j] = f}
  <2>1. Cardinality(O) = 0
    <3>1. refs[f] = Cardinality(Com(pte, f)) + Cardinality(O)
      BY DEF Counted
    <3>2. Cardinality(O) \in Nat /\ Cardinality(Com(pte, f)) \in Nat
      BY ObjectsFinite, Finite
    <3> QED BY <3>1, <3>2
  <2>2. O = {}
    BY <2>1, ObjectsFinite, FS_EmptySet
  <2> QED BY <1>2, <2>2
<1> QED BY <1>1, <1>2

\* The last holder of a page in common.
LEMMA CountOne ==
  ASSUME TypedMem, Counted, NEW s \in Spaces, NEW p \in Pages, NEW f \in Frames,
         Common(pte[s][p]), pte[s][p].f = f, refs[f] = 1
  PROVE  /\ \A t \in Spaces, q \in Pages : Common(pte[t][q]) /\ pte[t][q].f = f => t = s /\ q = p
         /\ \A i \in Indexes : frame[i] # f
<1>1. {p} \in SUBSET Pages /\ refs[f] = Cardinality(In(pte, s, {p}, f))
  BY InOne
<1>2. \A t \in Spaces, q \in Pages : Common(pte[t][q]) /\ pte[t][q].f = f => t = s /\ q \in {p}
  BY <1>1, CountBound
<1>3. \A i \in Indexes : frame[i] # f
  BY <1>1, CountBound
<1> QED BY <1>2, <1>3

\* Counted is kept by a step in some pages of one space that counts what it does.
LEMMA CountStep ==
  ASSUME TypedMem, Counted, NEW s \in Spaces, NEW P \in SUBSET Pages, UNCHANGED <<setup, frame>>,
         \A t \in Spaces, p \in Pages : t # s \/ p \notin P => pte'[t][p] = pte[t][p],
         \A f \in Frames : refs'[f] = refs[f] - Cardinality(In(pte, s, P, f)) + Cardinality(In(pte', s, P, f))
  PROVE  Counted'
<1> SUFFICES ASSUME NEW f \in Frames
             PROVE  refs'[f] = Cardinality(Com(pte', f)) + Cardinality({i \in Indexes : frame[i] = f})
  BY DEF Counted, Indexes, Com, Cells
<1>1. Cardinality(Com(pte', f)) =
        Cardinality(Com(pte, f)) - Cardinality(In(pte, s, P, f)) + Cardinality(In(pte', s, P, f))
  BY ComMove
<1>2. refs[f] = Cardinality(Com(pte, f)) + Cardinality({i \in Indexes : frame[i] = f})
  BY DEF Counted
<1>3. /\ Cardinality(Com(pte, f)) \in Nat /\ Cardinality({i \in Indexes : frame[i] = f}) \in Nat
      /\ Cardinality(In(pte, s, P, f)) \in Nat /\ Cardinality(In(pte', s, P, f)) \in Nat
  BY Finite, ObjectsFinite
<1> QED BY <1>1, <1>2, <1>3

\* And so by a step in one page.
Bit(e, f) == IF Common(e) /\ e.f = f THEN 1 ELSE 0
LEMMA CountPage ==
  ASSUME TypedMem, Counted, NEW s \in Spaces, NEW p \in Pages, UNCHANGED <<setup, frame>>,
         \A t \in Spaces, q \in Pages : t # s \/ q # p => pte'[t][q] = pte[t][q],
         \A f \in Frames : refs'[f] = refs[f] - Bit(pte[s][p], f) + Bit(pte'[s][p], f)
  PROVE  Counted'
<1>1. \A t \in Spaces, q \in Pages : t # s \/ q \notin {p} => pte'[t][q] = pte[t][q]
  OBVIOUS
<1>2. {p} \in SUBSET Pages
  OBVIOUS
<1>3. \A f \in Frames : refs'[f] = refs[f] - Cardinality(In(pte, s, {p}, f)) + Cardinality(In(pte', s, {p}, f))
  <2> SUFFICES ASSUME NEW f \in Frames
               PROVE  refs'[f] = refs[f] - Cardinality(In(pte, s, {p}, f)) + Cardinality(In(pte', s, {p}, f))
    OBVIOUS
  <2>1. Cardinality(In(pte, s, {p}, f)) = Bit(pte[s][p], f) /\ Cardinality(In(pte', s, {p}, f)) = Bit(pte'[s][p], f)
    BY InOne DEF Bit
  <2> QED BY <2>1
<1>4. TypedMem /\ Counted /\ UNCHANGED <<setup, frame>>
  OBVIOUS
<1> QED BY <1>1, <1>2, <1>3, <1>4, CountStep

----------------------------------------------------------------------------
(* vm_fault                                                                *)

\* The last holder of a page in common is the only one who has it.
LEMMA SoleHolder ==
  ASSUME Mem, NEW s \in Spaces, NEW p \in Pages, Common(pte[s][p]), refs[pte[s][p].f] = 1, pte[s][p].f \in Frames
  PROVE  /\ \A t \in Spaces, q \in Pages : pte[t][q].f = pte[s][p].f => t = s /\ q = p
         /\ \A i \in Indexes : frame[i] # pte[s][p].f
<1> DEFINE f == pte[s][p].f
<1>1. pte \in [Spaces -> [Pages -> Entries]]
  BY DEF Mem, TypedMem
<1>2. /\ \A t \in Spaces, q \in Pages : Common(pte[t][q]) /\ pte[t][q].f = f => t = s /\ q = p
      /\ \A i \in Indexes : frame[i] # f
  BY CountOne DEF Mem, Sound
<1>3. \A t \in Spaces, q \in Pages : pte[t][q].f = f => pte[t][q].k # "own"
  BY DEF Mem, Sound, OwnAlone
<1>4. \A t \in Spaces, q \in Pages : pte[t][q].f = f => pte[t][q].k \in {"own", "cow", "shm"}
  BY <1>1, EntryIs
<1> QED BY <1>2, <1>3, <1>4 DEF Common

\* shared_take
LEMMA TakeMem ==
  ASSUME Mem, NEW s \in live, NEW p \in Pages, NEW v \in Vals, Take(s, p, v),
         UNCHANGED <<setup, live, disk, frame>>
  PROVE  Mem'
<1> DEFINE f == pte[s][p].f
<1>1. /\ s \in Spaces /\ pte[s][p] \in Entries /\ Common(pte[s][p]) /\ f \in Frames /\ refs[f] = 1
      /\ pte \in [Spaces -> [Pages -> Entries]]
      /\ pte' = [pte EXCEPT ![s][p] = Own(f)] /\ refs' = [refs EXCEPT ![f] = 0]
      /\ key' = [key EXCEPT ![f] = None] /\ data' = [data EXCEPT ![f] = v] /\ free' = free
  BY EntryIs DEF Mem, TypedMem, Take, MayTake, TakenKey, Common
<1>2. \A i \in Indexes : frame[i] # f
  BY <1>1, SoleHolder
<1>3. \A t \in Spaces, q \in Pages : pte[t][q].f = f => t = s /\ q = p
  BY <1>1, SoleHolder
<1>4. f \notin free
  BY <1>1 DEF Mem, Sound, FreeUnheld
<1>5. TypedMem'
  BY <1>1, EntryTypes DEF Mem, TypedMem, FilePages, Indexes
<1>6. \A t \in Spaces, q \in Pages : pte'[t][q] = IF t = s /\ q = p THEN Own(f) ELSE pte[t][q]
  BY <1>1
<1>7. Counted'
  <2>1. \A g \in Frames : refs'[g] = refs[g] - Bit(pte[s][p], g) + Bit(pte'[s][p], g)
    BY <1>1, <1>6 DEF Mem, TypedMem, Bit, Own, Common
  <2>2. \A t \in Spaces, q \in Pages : t # s \/ q # p => pte'[t][q] = pte[t][q]
    BY <1>6
  <2> QED BY <1>1, <2>1, <2>2, CountPage DEF Mem, Sound
<1>8. OwnAlone'
  BY <1>1, <1>3, <1>4, <1>6, EntryIs DEF Mem, Sound, OwnAlone, TypedMem, Own
<1>9. FreeUnheld'
  BY <1>1, <1>4, <1>6 DEF Mem, Sound, FreeUnheld, TypedMem, Own
<1>10. NoneLost'
  BY <1>1, <1>6 DEF Mem, Sound, NoneLost, TypedMem, Own
<1>11. KindsApart' /\ ObjectApart'
  BY <1>1, <1>2, <1>6 DEF Mem, Sound, KindsApart, Writable, ObjectApart, TypedMem, Own, Shm, Cow, Indexes
<1>12. GoneEmpty'
  BY <1>1, <1>6 DEF Mem, Sound, GoneEmpty
<1>13. KeyTrue'
  BY <1>1 DEF Mem, Sound, KeyTrue, TypedMem
<1> QED BY <1>5, <1>7, <1>8, <1>9, <1>10, <1>11, <1>12, <1>13 DEF Mem, Sound

\* A page nobody had is given to one that had nothing there.
LEMMA FreshMem ==
  ASSUME Mem, NEW s \in live, NEW p \in Pages, NEW v \in Vals, Fresh(s, p, v),
         UNCHANGED <<setup, live, disk, frame>>
  PROVE  Mem'
<1>1. PICK new \in free : /\ pte' = [pte EXCEPT ![s][p] = Own(new)] /\ data' = [data EXCEPT ![new] = v]
                          /\ free' = free \ {new}
  BY DEF Fresh
<1>2. /\ s \in Spaces /\ pte[s][p] = NoPage /\ refs' = refs /\ key' = key
      /\ new \in Frames /\ refs[new] = 0
      /\ \A t \in Spaces, q \in Pages : pte[t][q].f # new
      /\ \A i \in Indexes : frame[i] # new
  BY CountNone DEF Mem, Sound, TypedMem, Fresh, FreeUnheld
<1>3. \A t \in Spaces, q \in Pages : pte'[t][q] = IF t = s /\ q = p THEN Own(new) ELSE pte[t][q]
  BY <1>1, <1>2 DEF Mem, TypedMem
<1>4. TypedMem'
  BY <1>1, <1>2, EntryTypes DEF Mem, TypedMem, FilePages, Indexes
<1>5. Counted'
  <2>1. \A g \in Frames : refs'[g] = refs[g] - Bit(pte[s][p], g) + Bit(pte'[s][p], g)
    BY <1>2, <1>3 DEF Mem, TypedMem, Bit, Own, Common, NoPage
  <2>2. \A t \in Spaces, q \in Pages : t # s \/ q # p => pte'[t][q] = pte[t][q]
    BY <1>3
  <2> QED BY <1>2, <2>1, <2>2, CountPage DEF Mem, Sound
<1>6. OwnAlone'
  BY <1>1, <1>2, <1>3 DEF Mem, Sound, OwnAlone, TypedMem, Own
<1>7. FreeUnheld'
  BY <1>1, <1>2, <1>3 DEF Mem, Sound, FreeUnheld, TypedMem, Own
<1>8. NoneLost'
  BY <1>1, <1>2, <1>3 DEF Mem, Sound, NoneLost, TypedMem, Own, NoPage
<1>9. KindsApart' /\ ObjectApart'
  BY <1>1, <1>2, <1>3 DEF Mem, Sound, KindsApart, Writable, ObjectApart, TypedMem, Own, Shm, Cow, Indexes
<1>10. GoneEmpty'
  BY <1>3 DEF Mem, Sound, GoneEmpty
<1>11. KeyTrue'
  BY <1>1, <1>2 DEF Mem, Sound, KeyTrue, TypedMem
<1> QED BY <1>4, <1>5, <1>6, <1>7, <1>8, <1>9, <1>10, <1>11 DEF Mem, Sound

\* A copy, and one holder fewer.
LEMMA CopyMem ==
  ASSUME Mem, NEW s \in live, NEW p \in Pages, NEW v \in Vals, Copy(s, p, v),
         UNCHANGED <<setup, live, disk, frame>>
  PROVE  Mem'
<1> DEFINE f == pte[s][p].f
<1>1. PICK new \in free : /\ pte' = [pte EXCEPT ![s][p] = Own(new)] /\ data' = [data EXCEPT ![new] = v]
                          /\ free' = free \ {new}
  BY DEF Copy
<1>2. /\ s \in Spaces /\ pte[s][p] \in Entries /\ Common(pte[s][p]) /\ f \in Frames
      /\ refs[f] # 1 /\ refs' = [refs EXCEPT ![f] = refs[f] - 1] /\ key' = key
  BY EntryIs DEF Mem, TypedMem, Copy, MayTake, Common, LeftOf
<1>3. refs[f] # 0
  BY <1>2, CountNone DEF Mem, Sound
<1>4. refs[f] \in Nat /\ refs[f] > 1 /\ refs'[f] > 0 /\ refs'[f] \in Nat
  BY <1>2, <1>3 DEF Mem, TypedMem
<1>5. /\ new \in Frames /\ refs[new] = 0 /\ new # f
      /\ \A t \in Spaces, q \in Pages : pte[t][q].f # new
      /\ \A i \in Indexes : frame[i] # new
  BY <1>2, CountNone DEF Mem, Sound, TypedMem, FreeUnheld
<1>6. \A t \in Spaces, q \in Pages : pte'[t][q] = IF t = s /\ q = p THEN Own(new) ELSE pte[t][q]
  BY <1>1, <1>2 DEF Mem, TypedMem
<1>7. TypedMem'
  BY <1>1, <1>2, <1>4, <1>5, EntryTypes DEF Mem, TypedMem, FilePages, Indexes
<1>8. Counted'
  <2>1. \A g \in Frames : refs'[g] = refs[g] - Bit(pte[s][p], g) + Bit(pte'[s][p], g)
    BY <1>2, <1>6 DEF Mem, TypedMem, Bit, Own, Common
  <2>2. \A t \in Spaces, q \in Pages : t # s \/ q # p => pte'[t][q] = pte[t][q]
    BY <1>6
  <2> QED BY <1>2, <2>1, <2>2, CountPage DEF Mem, Sound
<1>9. OwnAlone'
  <2>1. \A t \in Spaces, q \in Pages : pte[t][q].k = "own" => pte[t][q].f # f
    BY <1>3 DEF Mem, Sound, OwnAlone
  <2> QED BY <1>1, <1>2, <1>5, <1>6, <2>1 DEF Mem, Sound, OwnAlone, TypedMem, Own
<1>10. FreeUnheld'
  <2>1. f \notin free
    BY <1>3 DEF Mem, Sound, FreeUnheld
  <2> QED BY <1>1, <1>2, <1>5, <1>6, <2>1 DEF Mem, Sound, FreeUnheld, TypedMem, Own
<1>11. NoneLost'
  BY <1>1, <1>2, <1>4, <1>5, <1>6 DEF Mem, Sound, NoneLost, TypedMem, Own, Common
<1>12. KindsApart' /\ ObjectApart'
  BY <1>1, <1>2, <1>5, <1>6 DEF Mem, Sound, KindsApart, Writable, ObjectApart, TypedMem, Own, Shm, Cow, Indexes
<1>13. GoneEmpty'
  BY <1>6 DEF Mem, Sound, GoneEmpty
<1>14. KeyTrue'
  BY <1>1, <1>2, <1>4, <1>5 DEF Mem, Sound, KeyTrue, TypedMem
<1> QED BY <1>7, <1>8, <1>9, <1>10, <1>11, <1>12, <1>13, <1>14 DEF Mem, Sound

\* Writing in a page of one's own, or of a memory file.
LEMMA WriteMem ==
  ASSUME Mem, NEW s \in live, NEW p \in Pages, NEW v \in Vals, pte[s][p].k \in {"own", "shm"},
         data' = [data EXCEPT ![pte[s][p].f] = v],
         UNCHANGED <<setup, live, pte, refs, key, free, disk, frame>>
  PROVE  Mem'
<1> DEFINE f == pte[s][p].f
<1>1. s \in Spaces /\ pte[s][p] \in Entries /\ f \in Frames
  BY EntryIs DEF Mem, TypedMem
<1>2. key[f] = None
  <2>1. CASE pte[s][p].k = "own"
    BY <1>1, <2>1 DEF Mem, Sound, OwnAlone, KeyTrue
  <2>2. CASE pte[s][p].k = "shm"
    <3>1. pte[s][p] = Shm(f)
      BY <1>1, <2>2, EntryIs
    <3> QED BY <1>1, <3>1 DEF Mem, Sound, KindsApart, Writable
  <2> QED BY <2>1, <2>2
<1>3. TypedMem'
  BY <1>1 DEF Mem, TypedMem, FilePages, Indexes
<1>4. KeyTrue'
  BY <1>1, <1>2 DEF Mem, Sound, KeyTrue, TypedMem
<1>5. Counted' /\ OwnAlone' /\ FreeUnheld' /\ NoneLost' /\ KindsApart' /\ ObjectApart' /\ GoneEmpty'
  BY DEF Mem, Sound, Counted, OwnAlone, FreeUnheld, NoneLost, KindsApart, Writable, ObjectApart, GoneEmpty, Indexes, Com, Cells
<1> QED BY <1>3, <1>4, <1>5 DEF Mem, Sound
----------------------------------------------------------------------------
(* Pages given back                                                        *)

\* What low_page_back leaves of a page: counted for those who still have it, or
\* nobody's.
Held(s, P, f) == Cardinality(In(pte, s, P, f))
GoneFrom(s, P, f) == LeftOf(f, Times(s, P, f)).gone \/ \E p \in P : pte[s][p] = Own(f)

LEMMA BackLeft ==
  ASSUME Mem, NEW s \in live, NEW P \in SUBSET Pages, NEW f \in Frames
  PROVE  /\ Held(s, P, f) \in 0 .. refs[f] /\ refs[f] - Held(s, P, f) \in Nat
         /\ LeftOf(f, Times(s, P, f)).refs = refs[f] - Held(s, P, f)
         /\ GoneFrom(s, P, f) =>
              /\ refs[f] = Held(s, P, f) /\ \A i \in Indexes : frame[i] # f
              /\ \A t \in Spaces, q \in Pages : pte[t][q].f = f => t = s /\ q \in P
         /\ refs[f] = Held(s, P, f) /\ ~GoneFrom(s, P, f) => refs[f] = 0
<1> DEFINE n == Held(s, P, f)
<1>1. s \in Spaces /\ refs[f] \in Nat /\ pte \in [Spaces -> [Pages -> Entries]]
  BY DEF Mem, TypedMem
<1>2. Times(s, P, f) = n
  BY DEF Times, In, Held
<1>3. /\ n \in 0 .. refs[f]
      /\ refs[f] = n =>
           /\ \A t \in Spaces, q \in Pages : Common(pte[t][q]) /\ pte[t][q].f = f => t = s /\ q \in P
           /\ \A i \in Indexes : frame[i] # f
  <2>1. TypedMem /\ Counted
    BY DEF Mem, Sound
  <2> QED BY <1>1, <2>1, CountBound DEF Held
<1>4. /\ LeftOf(f, Times(s, P, f)).refs = refs[f] - n
      /\ LeftOf(f, Times(s, P, f)).gone <=> (n > 0 /\ refs[f] = n)
  BY <1>2 DEF LeftOf
<1>5. GoneFrom(s, P, f) <=> (n > 0 /\ refs[f] = n) \/ \E p \in P : pte[s][p] = Own(f)
  BY <1>4 DEF GoneFrom
<1> HIDE DEF n
<1>6. ASSUME n > 0, refs[f] = n
      PROVE  \A t \in Spaces, q \in Pages : pte[t][q].f = f => t = s /\ q \in P
  <2>1. ASSUME NEW t \in Spaces, NEW q \in Pages, pte[t][q].f = f PROVE Common(pte[t][q])
    <3>1. pte[t][q].k # "own"
      BY <1>6, <2>1, <1>1 DEF Mem, Sound, OwnAlone
    <3>2. pte[t][q] \in Entries
      BY <1>1
    <3>3. pte[t][q].k \in {"own", "cow", "shm"}
      BY <2>1, <3>2, EntryIs
    <3> QED BY <3>1, <3>3 DEF Common
  <2> QED BY <1>3, <1>6, <2>1
<1>7. ASSUME NEW p \in P, pte[s][p] = Own(f)
      PROVE  refs[f] = n /\ \A t \in Spaces, q \in Pages : pte[t][q].f = f => t = s /\ q \in P
  <2>1. p \in Pages /\ pte[s][p].k = "own" /\ pte[s][p].f = f
    BY <1>7 DEF Own
  <2>2. refs[f] = 0 /\ \A t \in Spaces, q \in Pages : pte[t][q].f = f => t = s /\ q = p
    BY <1>1, <2>1 DEF Mem, Sound, OwnAlone
  <2> QED BY <1>1, <1>3, <2>2
<1>8. GoneFrom(s, P, f) =>
        /\ refs[f] = n /\ \A i \in Indexes : frame[i] # f
        /\ \A t \in Spaces, q \in Pages : pte[t][q].f = f => t = s /\ q \in P
  BY <1>3, <1>5, <1>6, <1>7
<1>9. n \in 0 .. refs[f] /\ refs[f] - n \in Nat
  BY <1>1, <1>3
<1>10. refs[f] = n /\ ~GoneFrom(s, P, f) => refs[f] = 0
  <2> SUFFICES ASSUME refs[f] = n, ~GoneFrom(s, P, f) PROVE refs[f] = 0
    OBVIOUS
  <2>1. ~(n > 0)
    BY <1>5
  <2> QED BY <1>1, <2>1
<1> QED BY <1>4, <1>8, <1>9, <1>10 DEF n

LEMMA BackMem ==
  ASSUME Mem, NEW s \in live, NEW P \in SUBSET Pages, PagesBack(s, P),
         pte' \in [Spaces -> [Pages -> Entries]],
         \A t \in Spaces, q \in Pages : t # s \/ q \notin P => pte'[t][q] = pte[t][q],
         \A p \in P : pte'[s][p] \in {NoPage, Dev},
         live' = live \/ (live' = live \ {s} /\ \A p \in Pages : pte'[s][p] = NoPage),
         UNCHANGED <<setup, data, disk, frame>>
  PROVE  Mem'
<1> DEFINE n(f) == Held(s, P, f)
           gone == {f \in Frames : GoneFrom(s, P, f)}
<1>1. /\ refs' = [f \in Frames |-> LeftOf(f, Times(s, P, f)).refs]
      /\ key' = [f \in Frames |-> IF f \in gone THEN None ELSE key[f]]
      /\ free' = free \union gone
  BY DEF PagesBack, GoneFrom
<1>2. /\ s \in Spaces /\ pte \in [Spaces -> [Pages -> Entries]] /\ refs \in [Frames -> Nat]
      /\ free \subseteq Frames /\ live' \subseteq live
  BY DEF Mem, TypedMem
<1>3. \A f \in Frames : /\ n(f) \in 0 .. refs[f]
                        /\ refs'[f] = refs[f] - n(f) /\ refs'[f] \in Nat
                        /\ refs[f] = n(f) /\ f \notin gone => refs[f] = 0
  <2> SUFFICES ASSUME NEW f \in Frames
               PROVE  /\ n(f) \in 0 .. refs[f] /\ refs'[f] = refs[f] - n(f) /\ refs'[f] \in Nat
                      /\ refs[f] = n(f) /\ f \notin gone => refs[f] = 0
    OBVIOUS
  <2>1. /\ Held(s, P, f) \in 0 .. refs[f] /\ refs[f] - Held(s, P, f) \in Nat
        /\ LeftOf(f, Times(s, P, f)).refs = refs[f] - Held(s, P, f)
        /\ refs[f] = Held(s, P, f) /\ ~GoneFrom(s, P, f) => refs[f] = 0
    BY BackLeft
  <2>2. refs'[f] = LeftOf(f, Times(s, P, f)).refs
    BY <1>1
  <2> QED BY <2>1, <2>2
<1>4. ASSUME NEW f \in gone
      PROVE  /\ f \in Frames /\ refs'[f] = 0 /\ \A i \in Indexes : frame[i] # f
             /\ \A t \in Spaces, q \in Pages : pte[t][q].f = f => t = s /\ q \in P
  <2>1. f \in Frames /\ GoneFrom(s, P, f)
    OBVIOUS
  <2>2. /\ refs[f] = n(f) /\ \A i \in Indexes : frame[i] # f
        /\ \A t \in Spaces, q \in Pages : pte[t][q].f = f => t = s /\ q \in P
    BY ZenonT(60), <2>1, BackLeft
  <2>3. refs'[f] = 0
    BY <1>2, <1>3, <2>1, <2>2
  <2> QED BY <2>1, <2>2, <2>3
<1> HIDE DEF n, gone
<1>5. \A t \in Spaces, q \in Pages :
        \/ pte'[t][q] = pte[t][q] /\ (t # s \/ q \notin P)
        \/ t = s /\ q \in P /\ pte'[t][q] \in {NoPage, Dev}
  OBVIOUS
<1>6. \A e \in {NoPage, Dev} : ~Common(e) /\ e.k \notin {"own", "cow", "shm"} /\ e.f \notin Frames
  BY PageConstants DEF Common, NoPage, Dev
<1>7. ASSUME NEW f \in gone, NEW t \in Spaces, NEW q \in Pages PROVE pte'[t][q].f # f
  BY <1>4, <1>5, <1>6
<1>8. TypedMem'
  <2>1. key' \in [Frames -> 1 .. FilePages \union {None}]
    BY <1>1 DEF Mem, TypedMem
  <2>2. refs' \in [Frames -> Nat]
    BY <1>1, <1>3
  <2>3. gone \subseteq Frames
    BY <1>4
  <2> QED BY <1>1, <1>2, <2>1, <2>2, <2>3 DEF Mem, TypedMem, FilePages, Indexes
<1>9. Counted'
  <2>1. \A f \in Frames :
          refs'[f] = refs[f] - Cardinality(In(pte, s, P, f)) + Cardinality(In(pte', s, P, f))
    <3> SUFFICES ASSUME NEW f \in Frames
                 PROVE  refs'[f] = refs[f] - Cardinality(In(pte, s, P, f)) + Cardinality(In(pte', s, P, f))
      OBVIOUS
    <3>1. In(pte', s, P, f) = {}
      BY <1>6 DEF In
    <3>2. Cardinality(In(pte', s, P, f)) = 0
      BY <3>1, FS_EmptySet
    <3> QED BY <1>2, <1>3, <3>2 DEF Held, n
  <2>2. \A t \in Spaces, q \in Pages : t # s \/ q \notin P => pte'[t][q] = pte[t][q]
    OBVIOUS
  <2>3. TypedMem /\ Counted /\ s \in Spaces /\ UNCHANGED <<setup, frame>>
    BY <1>2 DEF Mem, Sound
  <2> QED BY <2>1, <2>2, <2>3, CountStep
<1>10. OwnAlone'
  <2> SUFFICES ASSUME NEW t \in Spaces, NEW q \in Pages, pte'[t][q].k = "own"
               PROVE  /\ pte'[t][q].f \notin free' /\ refs'[pte'[t][q].f] = 0
                      /\ \A u \in Spaces, r \in Pages : pte'[u][r].f = pte'[t][q].f => u = t /\ r = q
    BY DEF OwnAlone
  <2>1. pte'[t][q] = pte[t][q] /\ pte[t][q] \in Entries
    BY <1>2, <1>5, <1>6
  <2>2. PICK f \in Frames : f = pte[t][q].f
    BY <2>1, EntryIs
  <2>3. /\ f \notin free /\ refs[f] = 0
        /\ \A u \in Spaces, r \in Pages : pte[u][r].f = f => u = t /\ r = q
    BY <2>1, <2>2 DEF Mem, Sound, OwnAlone
  <2>4. f \notin gone
    BY <1>7, <2>1, <2>2
  <2>5. refs'[f] = 0
    BY <1>2, <1>3, <2>3
  <2> QED BY <1>1, <1>5, <1>6, <2>1, <2>2, <2>3, <2>4, <2>5
<1>11. FreeUnheld'
  <2> SUFFICES ASSUME NEW f \in free'
               PROVE  refs'[f] = 0 /\ \A t \in Spaces, q \in Pages : pte'[t][q].f # f
    BY DEF FreeUnheld
  <2>1. CASE f \in gone
    BY <1>4, <1>7, <2>1
  <2>2. CASE f \in free
    <3>1. f \in Frames /\ refs[f] = 0 /\ \A t \in Spaces, q \in Pages : pte[t][q].f # f
      BY <1>2, <2>2 DEF Mem, Sound, FreeUnheld
    <3>2. refs'[f] = 0
      BY <1>3, <3>1
    <3> QED BY <1>5, <1>6, <3>1, <3>2
  <2> QED BY <1>1, <2>1, <2>2
<1>12. NoneLost'
  <2> SUFFICES ASSUME NEW f \in Frames \ free', refs'[f] = 0
               PROVE  \E t \in Spaces, q \in Pages : pte'[t][q] = Own(f)
    BY DEF NoneLost
  <2>1. f \notin gone /\ f \notin free
    BY <1>1
  <2>2. refs[f] = 0
    <3>1. n(f) \in 0 .. refs[f] /\ refs'[f] = refs[f] - n(f) /\ (refs[f] = n(f) => refs[f] = 0)
      BY <1>3, <2>1
    <3>2. refs[f] \in Nat /\ refs'[f] = 0
      BY <1>2
    <3> QED BY <3>1, <3>2
  <2>3. PICK t \in Spaces, q \in Pages : pte[t][q] = Own(f)
    BY <2>1, <2>2 DEF Mem, Sound, NoneLost
  <2>4. t # s \/ q \notin P
    BY <2>1, <2>3 DEF gone, GoneFrom
  <2> QED BY <2>3, <2>4
<1>13. KindsApart'
  <2>1. \A t \in Spaces, q \in Pages : pte'[t][q].k \in {"cow", "shm"} => pte'[t][q] = pte[t][q]
    BY <1>5, <1>6
  <2>2. \A f \in Frames : Writable(f)' => Writable(f)
    BY <2>1 DEF Writable, Shm, Indexes
  <2>3. \A f \in Frames : \A t \in Spaces, q \in Pages : pte'[t][q] = Cow(f) => pte[t][q] = Cow(f)
    BY <2>1 DEF Cow
  <2>4. \A f \in Frames : key[f] = None => key'[f] = None
    BY <1>1
  <2> QED BY <2>2, <2>3, <2>4 DEF Mem, Sound, KindsApart
<1>14. ObjectApart'
  BY DEF Mem, Sound, ObjectApart, Indexes
<1>15. GoneEmpty'
  BY <1>5 DEF Mem, Sound, GoneEmpty
<1>16. KeyTrue'
  <2> SUFFICES ASSUME NEW f \in Frames, key'[f] # None
               PROVE  refs'[f] > 0 /\ data'[f] = disk'[key'[f]]
    BY DEF KeyTrue
  <2>1. f \notin gone /\ key'[f] = key[f]
    BY <1>1
  <2>2. refs[f] > 0 /\ data[f] = disk[key[f]]
    BY <2>1 DEF Mem, Sound, KeyTrue
  <2>3. n(f) \in 0 .. refs[f] /\ refs'[f] = refs[f] - n(f) /\ (refs[f] = n(f) => refs[f] = 0)
    BY <1>3, <2>1
  <2>4. refs'[f] > 0
    <3>1. refs[f] \in Nat
      BY <1>2
    <3> QED BY <2>2, <2>3, <3>1
  <2> QED BY <2>1, <2>2, <2>4
<1> QED BY <1>8, <1>9, <1>10, <1>11, <1>12, <1>13, <1>14, <1>15, <1>16 DEF Mem, Sound
----------------------------------------------------------------------------
(* A memory file's page in the place of another                            *)

LEMMA MapSharedMem ==
  ASSUME Mem, NEW s \in live, NEW p \in Pages, NEW i \in Indexes, MapShared(s, p, i), UNCHANGED setup
  PROVE  Mem'
<1> DEFINE n(h) == Held(s, {p}, h)
           gone == {h \in Frames : GoneFrom(s, {p}, h)}
<1>1. gone = {h \in Frames : LeftOf(h, Times(s, {p}, h)).gone \/ pte[s][p] = Own(h)}
  BY DEF GoneFrom
<1>2. /\ live' = live /\ disk' = disk
      /\ key' = [h \in Frames |-> IF h \in gone THEN None ELSE key[h]]
  BY <1>1 DEF MapShared
<1>3. PICK f \in free \union gone \union {frame[i]} :
        /\ f # None /\ (frame[i] # None => f = frame[i])
        /\ pte' = [pte EXCEPT ![s][p] = Shm(f)]
        /\ refs' = [h \in Frames |-> LeftOf(h, Times(s, {p}, h)).refs
                      + (IF h # f THEN 0 ELSE Holds(i))]
        /\ free' = (free \union gone) \ {f}
        /\ data' = IF FreshIn(i) THEN [data EXCEPT ![f] = 0] ELSE data
        /\ frame' = [frame EXCEPT ![i] = f]
  BY <1>1 DEF MapShared
<1>4. /\ s \in Spaces /\ pte \in [Spaces -> [Pages -> Entries]] /\ refs \in [Frames -> Nat]
      /\ free \subseteq Frames /\ frame \in [Indexes -> Frames \union {None}]
      /\ None \notin Frames /\ {p} \in SUBSET Pages
  BY PageConstants DEF Mem, TypedMem
<1>5. ASSUME NEW h \in Frames
      PROVE  /\ n(h) \in 0 .. refs[h] /\ refs[h] \in Nat
             /\ refs'[h] = refs[h] - n(h) + (IF h # f THEN 0 ELSE Holds(i))
             /\ h \notin gone /\ refs[h] = n(h) => refs[h] = 0
             /\ h \in gone => /\ refs[h] = n(h) /\ \A j \in Indexes : frame[j] # h
                              /\ \A t \in Spaces, q \in Pages : pte[t][q].f = h => t = s /\ q = p
  <2> HIDE DEF n, gone
  <2>1. /\ Held(s, {p}, h) \in 0 .. refs[h]
        /\ LeftOf(h, Times(s, {p}, h)).refs = refs[h] - Held(s, {p}, h)
        /\ GoneFrom(s, {p}, h) =>
             /\ refs[h] = Held(s, {p}, h) /\ \A j \in Indexes : frame[j] # h
             /\ \A t \in Spaces, q \in Pages : pte[t][q].f = h => t = s /\ q \in {p}
        /\ refs[h] = Held(s, {p}, h) /\ ~GoneFrom(s, {p}, h) => refs[h] = 0
    <3>1. PICK P \in SUBSET Pages : P = {p}
      BY <1>4
    <3>2. /\ Held(s, P, h) \in 0 .. refs[h]
          /\ LeftOf(h, Times(s, P, h)).refs = refs[h] - Held(s, P, h)
          /\ refs[h] = Held(s, P, h) /\ ~GoneFrom(s, P, h) => refs[h] = 0
      BY BackLeft
    <3>3. ASSUME GoneFrom(s, P, h)
          PROVE  /\ refs[h] = Held(s, P, h) /\ \A j \in Indexes : frame[j] # h
                 /\ \A t \in Spaces, q \in Pages : pte[t][q].f = h => t = s /\ q \in P
      BY ZenonT(60), <3>3, BackLeft
    <3> QED BY <3>1, <3>2, <3>3
  <2>2. refs'[h] = LeftOf(h, Times(s, {p}, h)).refs + (IF h # f THEN 0 ELSE Holds(i)) /\ refs[h] \in Nat
    BY <1>3, <1>4
  <2> QED BY <2>1, <2>2 DEF n, gone
<1> HIDE DEF n, gone
<1>6. gone \subseteq Frames /\ f \in Frames
  BY <1>3, <1>4 DEF gone
<1>7. ASSUME frame[i] = None
      PROVE  /\ refs[f] = n(f) /\ (f \in free \/ f \in gone) /\ \A j \in Indexes : frame[j] # f
             /\ \A t \in Spaces, q \in Pages : pte[t][q].f = f => t = s /\ q = p
  <2>1. f \in free \/ f \in gone
    BY <1>3, <1>7
  <2>2. CASE f \in free
    <3>1. refs[f] = 0 /\ \A t \in Spaces, q \in Pages : pte[t][q].f # f
      BY <2>2 DEF Mem, Sound, FreeUnheld
    <3>2. \A j \in Indexes : frame[j] # f
      BY <1>6, <3>1, CountNone DEF Mem, Sound
    <3>3. n(f) \in 0 .. refs[f]
      BY <1>5, <1>6
    <3> QED BY <2>2, <3>1, <3>2, <3>3
  <2>3. CASE f \in gone
    BY <1>5, <1>6, <2>3
  <2> QED BY <2>1, <2>2, <2>3
<1>8. ASSUME frame[i] # None
      PROVE  /\ frame' = frame /\ frame[i] = f /\ refs[f] > 0 /\ f \notin gone /\ f \notin free
             /\ data' = data /\ key[f] = None
             /\ \A t \in Spaces, q \in Pages : pte[t][q] # Cow(f) /\ pte[t][q] # Own(f)
  <2>1. frame[i] = f /\ frame' = frame /\ data' = data
    BY <1>3, <1>4, <1>8 DEF FreshIn
  <2>2. refs[f] # 0 /\ refs[f] \in Nat
    BY <1>4, <1>6, <2>1, CountNone DEF Mem, Sound
  <2>3. f \notin gone /\ f \notin free
    BY <1>5, <1>6, <2>1, <2>2 DEF Mem, Sound, FreeUnheld
  <2>4. key[f] = None /\ \A t \in Spaces, q \in Pages : pte[t][q] # Cow(f)
    BY <1>6, <2>1 DEF Mem, Sound, KindsApart, Writable
  <2>5. \A t \in Spaces, q \in Pages : pte[t][q] # Own(f)
    BY <2>2 DEF Mem, Sound, OwnAlone, Own
  <2> QED BY <2>1, <2>2, <2>3, <2>4, <2>5
<1>9. \A t \in Spaces, q \in Pages : pte'[t][q] = IF t = s /\ q = p THEN Shm(f) ELSE pte[t][q]
  BY <1>3, <1>4
<1>10. refs'[f] \in Nat /\ refs'[f] > 0 /\ \A h \in Frames \ {f} : refs'[h] = refs[h] - n(h)
  <2>1. Holds(i) \in {1, 2}
    BY DEF Holds
  <2>2. refs'[f] = refs[f] - n(f) + Holds(i) /\ n(f) \in 0 .. refs[f] /\ refs[f] \in Nat
    BY <1>5, <1>6
  <2>3. ASSUME NEW h \in Frames \ {f} PROVE refs'[h] = refs[h] - n(h)
    <3>1. refs'[h] = refs[h] - n(h) + 0 /\ n(h) \in 0 .. refs[h] /\ refs[h] \in Nat
      BY <1>5
    <3> QED BY <3>1
  <2> QED BY <2>1, <2>2, <2>3
<1>11. TypedMem'
  <2>1. refs' \in [Frames -> Nat]
    <3>1. ASSUME NEW h \in Frames PROVE refs'[h] \in Nat
      <4>1. n(h) \in 0 .. refs[h] /\ refs[h] \in Nat
        BY <1>5
      <4> QED BY <1>10, <4>1
    <3>2. DOMAIN refs' = Frames /\ refs' = [h \in Frames |-> refs'[h]]
      BY <1>3
    <3> QED BY <3>1, <3>2
  <2>2. pte' \in [Spaces -> [Pages -> Entries]]
    BY <1>3, <1>4, <1>6, EntryTypes
  <2>3. key' \in [Frames -> 1 .. FilePages \union {None}]
    BY <1>2 DEF Mem, TypedMem
  <2>4. free' \subseteq Frames /\ frame' \in [Indexes -> Frames \union {None}]
    BY <1>3, <1>4, <1>6
  <2>5. data' \in [Frames -> Vals]
    BY <1>3, <1>6, PageConstants DEF Mem, TypedMem
  <2> QED BY <1>2, <2>1, <2>2, <2>3, <2>4, <2>5 DEF Mem, TypedMem, FilePages, Indexes
<1>12. Counted'
  <2> SUFFICES ASSUME NEW h \in Frames
               PROVE  refs'[h] = Cardinality(Com(pte', h)) + Cardinality({j \in Indexes : frame'[j] = h})
    BY DEF Counted, Indexes, Com, Cells
  <2> DEFINE O == {j \in Indexes : frame[j] = h}
             O2 == {j \in Indexes : frame'[j] = h}
             b == IF h = f THEN 1 ELSE 0
  <2>1. Cardinality(Com(pte', h)) = Cardinality(Com(pte, h)) - n(h) + b
    <3>1. \A t \in Spaces, q \in Pages : t # s \/ q \notin {p} => pte'[t][q] = pte[t][q]
      BY <1>9
    <3>2. Cardinality(Com(pte', h)) =
            Cardinality(Com(pte, h)) - Cardinality(In(pte, s, {p}, h)) + Cardinality(In(pte', s, {p}, h))
      BY <1>4, <3>1, ComMove
    <3>3. Common(pte'[s][p]) /\ (pte'[s][p].f = h <=> h = f)
      BY <1>4, <1>9 DEF Common, Shm
    <3>4. Cardinality(In(pte', s, {p}, h)) = b
      BY <3>3, InOne
    <3> QED BY <3>2, <3>4 DEF n, Held
  <2>2. Cardinality(O2) = Cardinality(O) + (IF h = f THEN Holds(i) - 1 ELSE 0) /\ Cardinality(O) \in Nat
    <3>0. Cardinality(O) \in Nat
      BY ObjectsFinite DEF Mem
    <3>1. CASE frame[i] # None
      <4>1. O2 = O /\ Holds(i) = 1
        BY <1>8, <3>1 DEF Holds
      <4>2. Cardinality(O2) = Cardinality(O)
        BY <4>1
      <4> QED BY <3>0, <4>1, <4>2
    <3>2. CASE frame[i] = None /\ h = f
      <4>1. O = {} /\ O2 = {i} /\ Holds(i) = 2
        BY <1>3, <1>4, <1>7, <3>2 DEF Holds
      <4>2. Cardinality(O) = 0 /\ Cardinality(O2) = 1
        BY <4>1, FS_EmptySet, FS_Singleton
      <4> QED BY <3>2, <4>1, <4>2
    <3>3. CASE frame[i] = None /\ h # f
      <4>1. O2 = O
        BY <1>3, <1>4, <3>3
      <4>2. Cardinality(O2) = Cardinality(O)
        BY <4>1
      <4> QED BY <3>0, <3>3, <4>2
    <3> QED BY <3>1, <3>2, <3>3
  <2>3. refs[h] = Cardinality(Com(pte, h)) + Cardinality(O) /\ Cardinality(Com(pte, h)) \in Nat
    BY Finite DEF Mem, Sound, Counted
  <2>4. /\ n(h) \in 0 .. refs[h] /\ refs[h] \in Nat
        /\ refs'[h] = refs[h] - n(h) + (IF h # f THEN 0 ELSE Holds(i))
    BY <1>5
  <2>5. Holds(i) \in {1, 2}
    BY DEF Holds
  <2> HIDE DEF O, O2
  <2>6. refs'[h] = Cardinality(Com(pte', h)) + Cardinality(O2)
    BY <2>1, <2>2, <2>3, <2>4, <2>5
  <2> QED BY <2>6 DEF O2
<1>13. OwnAlone'
  <2> SUFFICES ASSUME NEW t \in Spaces, NEW q \in Pages, pte'[t][q].k = "own"
               PROVE  /\ pte'[t][q].f \notin free' /\ refs'[pte'[t][q].f] = 0
                      /\ \A u \in Spaces, r \in Pages : pte'[u][r].f = pte'[t][q].f => u = t /\ r = q
    BY DEF OwnAlone
  <2>1. ~(t = s /\ q = p) /\ pte'[t][q] = pte[t][q] /\ pte[t][q] \in Entries
    BY <1>4, <1>9 DEF Shm
  <2>2. PICK g \in Frames : g = pte[t][q].f /\ pte[t][q] = Own(g)
    BY <2>1, EntryIs
  <2>3. g \notin free /\ refs[g] = 0 /\ \A u \in Spaces, r \in Pages : pte[u][r].f = g => u = t /\ r = q
    <3>1. pte[t][q].k = "own" /\ pte[t][q].f = g
      BY <2>2 DEF Own
    <3> QED BY <3>1 DEF Mem, Sound, OwnAlone
  <2>4. g \notin gone /\ g # f
    BY ZenonT(60), <1>5, <1>7, <1>8, <2>1, <2>2
  <2>5. n(g) \in 0 .. refs[g] /\ refs'[g] = refs[g] - n(g)
    BY <1>5, <1>10, <2>4
  <2>6. refs'[g] = 0
    BY <2>3, <2>5
  <2> QED BY <1>3, <1>9, <2>1, <2>2, <2>3, <2>4, <2>6 DEF Shm
<1>14. FreeUnheld'
  <2> SUFFICES ASSUME NEW g \in free'
               PROVE  refs'[g] = 0 /\ \A t \in Spaces, q \in Pages : pte'[t][q].f # g
    BY DEF FreeUnheld
  <2>1. g \in Frames /\ g # f /\ (g \in free \/ g \in gone)
    BY <1>3, <1>4, <1>6
  <2>2. n(g) \in 0 .. refs[g] /\ refs[g] \in Nat /\ refs'[g] = refs[g] - n(g)
    BY <1>5, <1>10, <2>1
  <2>3. refs[g] = n(g) /\ \A t \in Spaces, q \in Pages : pte[t][q].f = g => t = s /\ q = p
    <3>1. CASE g \in gone
      BY <1>5, <2>1, <3>1
    <3>2. CASE g \in free
      BY <2>2, <3>2 DEF Mem, Sound, FreeUnheld
    <3> QED BY <2>1, <3>1, <3>2
  <2> QED BY <1>9, <2>1, <2>2, <2>3 DEF Shm
<1>15. NoneLost'
  <2> SUFFICES ASSUME NEW g \in Frames \ free', refs'[g] = 0
               PROVE  \E t \in Spaces, q \in Pages : pte'[t][q] = Own(g)
    BY DEF NoneLost
  <2>1. g # f /\ g \notin free /\ g \notin gone
    BY <1>3, <1>10
  <2>2. n(g) \in 0 .. refs[g] /\ refs[g] \in Nat /\ refs'[g] = refs[g] - n(g) /\ (refs[g] = n(g) => refs[g] = 0)
    BY <1>5, <1>10, <2>1
  <2>3. refs[g] = 0
    BY <2>2
  <2>4. PICK t \in Spaces, q \in Pages : pte[t][q] = Own(g)
    BY <2>1, <2>3 DEF Mem, Sound, NoneLost
  <2>5. ~(t = s /\ q = p)
    BY <2>1, <2>4 DEF gone, GoneFrom
  <2> QED BY <1>9, <2>4, <2>5
<1>16. key'[f] = None /\ \A t \in Spaces, q \in Pages : pte'[t][q] # Cow(f)
  <2>1. CASE frame[i] = None
    <3>1. key'[f] = None
      <4>1. CASE f \in gone
        BY <1>2, <1>6, <4>1
      <4>2. CASE f \in free
        BY <1>2, <1>6, <4>2 DEF Mem, Sound, FreeUnheld, KeyTrue
      <4> QED BY <1>7, <2>1, <4>1, <4>2
    <3> QED BY <1>7, <1>9, <2>1, <3>1 DEF Shm, Cow
  <2>2. CASE frame[i] # None
    BY <1>2, <1>6, <1>8, <1>9, <2>2 DEF Shm, Cow
  <2> QED BY <2>1, <2>2
<1>17. KindsApart'
  <2> SUFFICES ASSUME NEW g \in Frames, Writable(g)', g # f
               PROVE  key'[g] = None /\ \A t \in Spaces, q \in Pages : pte'[t][q] # Cow(g)
    BY <1>16 DEF KindsApart
  <2>1. Writable(g)
    <3>1. CASE \E t \in Spaces, q \in Pages : pte'[t][q] = Shm(g)
      BY <1>9, <3>1 DEF Writable, Shm
    <3>2. CASE \E j \in Indexes : frame'[j] = g
      BY <1>3, <1>4, <3>2 DEF Writable
    <3> QED BY <3>1, <3>2 DEF Writable, Indexes
  <2>2. key[g] = None /\ \A t \in Spaces, q \in Pages : pte[t][q] # Cow(g)
    BY <2>1 DEF Mem, Sound, KindsApart
  <2> QED BY <1>2, <1>9, <2>2 DEF Shm, Cow
<1>18. ObjectApart'
  <2>1. CASE frame[i] # None
    BY <1>8, <2>1 DEF Mem, Sound, ObjectApart, Indexes
  <2>2. CASE frame[i] = None
    <3>1. \A j \in Indexes : frame'[j] = IF j = i THEN f ELSE frame[j]
      BY <1>3, <1>4
    <3> QED BY <1>7, <2>2, <3>1 DEF Mem, Sound, ObjectApart, Indexes
  <2> QED BY <2>1, <2>2
<1>19. GoneEmpty'
  BY <1>2, <1>9 DEF Mem, Sound, GoneEmpty
<1>20. KeyTrue'
  <2> SUFFICES ASSUME NEW h \in Frames, key'[h] # None
               PROVE  refs'[h] > 0 /\ data'[h] = disk'[key'[h]]
    BY DEF KeyTrue
  <2>1. h \notin gone /\ key'[h] = key[h] /\ h # f
    BY <1>2, <1>16
  <2>2. refs[h] > 0 /\ data[h] = disk[key[h]]
    BY <2>1 DEF Mem, Sound, KeyTrue
  <2>3. n(h) \in 0 .. refs[h] /\ refs[h] \in Nat /\ refs'[h] = refs[h] - n(h) /\ (refs[h] = n(h) => refs[h] = 0)
    BY <1>5, <1>10, <2>1
  <2>4. refs'[h] > 0
    BY <2>2, <2>3
  <2>5. data'[h] = data[h]
    BY <1>3, <1>6, <2>1 DEF Mem, TypedMem
  <2> QED BY <1>2, <2>1, <2>2, <2>4, <2>5
<1> QED BY <1>11, <1>12, <1>13, <1>14, <1>15, <1>17, <1>18, <1>19, <1>20 DEF Mem, Sound
----------------------------------------------------------------------------
(* The memory file through its descriptors, and the disk's file            *)

\* mem_io
LEMMA WriteMemoryMem ==
  ASSUME Mem, NEW i \in Indexes, NEW v \in Vals, WriteMemory(i, v), UNCHANGED setup
  PROVE  Mem'
<1>1. /\ UNCHANGED <<setup, live, pte, key, disk>>
      /\ refs \in [Frames -> Nat] /\ frame \in [Indexes -> Frames \union {None}]
      /\ data \in [Frames -> Vals] /\ free \subseteq Frames /\ None \notin Frames
  BY PageConstants DEF Mem, TypedMem, WriteMemory
<1>2. CASE frame[i] # None
  <2>1. /\ data' = [data EXCEPT ![frame[i]] = v] /\ UNCHANGED <<refs, free, frame>>
        /\ frame[i] \in Frames
    BY <1>1, <1>2 DEF WriteMemory
  <2>2. key[frame[i]] = None
    BY <2>1 DEF Mem, Sound, KindsApart, Writable
  <2>3. TypedMem'
    BY <1>1, <2>1 DEF Mem, TypedMem, FilePages, Indexes
  <2>4. KeyTrue'
    BY <1>1, <2>1, <2>2 DEF Mem, Sound, KeyTrue
  <2>5. Counted' /\ OwnAlone' /\ FreeUnheld' /\ NoneLost' /\ KindsApart' /\ ObjectApart' /\ GoneEmpty'
    BY <1>1, <2>1 DEF Mem, Sound, Counted, OwnAlone, FreeUnheld, NoneLost, KindsApart, Writable, ObjectApart, GoneEmpty, Indexes, Com, Cells
  <2> QED BY <2>3, <2>4, <2>5 DEF Mem, Sound
<1>3. CASE frame[i] = None
  <2>1. PICK f \in free : /\ frame' = [frame EXCEPT ![i] = f] /\ free' = free \ {f}
                          /\ refs' = [refs EXCEPT ![f] = 1] /\ data' = [data EXCEPT ![f] = v]
    BY <1>3 DEF WriteMemory
  <2>2. /\ f \in Frames /\ refs[f] = 0 /\ key[f] = None
        /\ \A s \in Spaces, p \in Pages : pte[s][p].f # f
    BY <1>1 DEF Mem, Sound, FreeUnheld, KeyTrue
  <2>3. \A j \in Indexes : frame[j] # f
    BY <2>2, CountNone DEF Mem, Sound
  <2>4. \A j \in Indexes : frame'[j] = IF j = i THEN f ELSE frame[j]
    BY <1>1, <2>1
  <2>5. TypedMem'
    BY <1>1, <2>1, <2>2 DEF Mem, TypedMem, FilePages, Indexes
  <2>6. Counted'
    <3> SUFFICES ASSUME NEW h \in Frames
                 PROVE  refs'[h] = Cardinality(Com(pte, h)) + Cardinality({j \in Indexes : frame'[j] = h})
      BY <1>1 DEF Counted, Indexes, Com, Cells
    <3>1. refs[h] = Cardinality(Com(pte, h)) + Cardinality({j \in Indexes : frame[j] = h})
      BY DEF Mem, Sound, Counted
    <3>2. CASE h # f
      <4>1. {j \in Indexes : frame'[j] = h} = {j \in Indexes : frame[j] = h}
        BY <1>1, <1>3, <2>4, <3>2
      <4>2. refs'[h] = refs[h]
        BY <1>1, <2>1, <3>2
      <4> QED BY <3>1, <4>1, <4>2
    <3>3. CASE h = f
      <4>1. {j \in Indexes : frame'[j] = h} = {i} /\ {j \in Indexes : frame[j] = h} = {}
        BY <2>3, <2>4, <3>3
      <4>2. /\ Cardinality({j \in Indexes : frame'[j] = h}) = 1
            /\ Cardinality({j \in Indexes : frame[j] = h}) = 0
        BY <4>1, FS_Singleton, FS_EmptySet
      <4>3. refs'[h] = 1 /\ refs[h] = 0
        BY <1>1, <2>1, <2>2, <3>3
      <4>4. Cardinality(Com(pte, h)) \in Nat
        BY Finite
      <4> QED BY <3>1, <4>2, <4>3, <4>4
    <3> QED BY <3>2, <3>3
  <2>7. OwnAlone' /\ NoneLost' /\ GoneEmpty'
    BY <1>1, <2>1, <2>2 DEF Mem, Sound, OwnAlone, NoneLost, GoneEmpty
  <2>8. FreeUnheld'
    BY <1>1, <2>1, <2>2 DEF Mem, Sound, FreeUnheld
  <2>9. KindsApart'
    <3>1. \A g \in Frames : Writable(g)' => g = f \/ Writable(g)
      BY <1>1, <2>4 DEF Writable, Indexes
    <3>2. \A s \in Spaces, p \in Pages : pte[s][p] # Cow(f)
      BY <2>2 DEF Cow
    <3> QED BY <1>1, <2>2, <3>1, <3>2 DEF Mem, Sound, KindsApart
  <2>10. ObjectApart'
    BY <1>1, <2>3, <2>4 DEF Mem, Sound, ObjectApart, Indexes
  <2>11. KeyTrue'
    BY <1>1, <2>1, <2>2 DEF Mem, Sound, KeyTrue
  <2> QED BY <2>5, <2>6, <2>7, <2>8, <2>9, <2>10, <2>11 DEF Mem, Sound
<1> QED BY <1>2, <1>3

\* A page has one index in the memory file, or none.
LEMMA OneObject ==
  ASSUME Mem, NEW f \in Frames
  PROVE  Cardinality({i \in Indexes : frame[i] = f}) = IF \E i \in Indexes : frame[i] = f THEN 1 ELSE 0
<1>1. CASE \E i \in Indexes : frame[i] = f
  <2>1. PICK i \in Indexes : frame[i] = f
    BY <1>1
  <2>2. {j \in Indexes : frame[j] = f} = {i}
    BY <2>1, PageConstants DEF Mem, Sound, ObjectApart
  <2> QED BY <1>1, <2>2, FS_Singleton
<1>2. CASE ~\E i \in Indexes : frame[i] = f
  <2>1. {j \in Indexes : frame[j] = f} = {}
    BY <1>2
  <2> QED BY <1>2, <2>1, FS_EmptySet
<1> QED BY <1>1, <1>2

\* mobj_free
LEMMA CloseMemoryMem ==
  ASSUME Mem, CloseMemory, UNCHANGED setup
  PROVE  Mem'
<1> DEFINE mine(f) == IF \E i \in Indexes : frame[i] = f THEN 1 ELSE 0
           gone == {f \in Frames : mine(f) > 0 /\ refs[f] = mine(f)}
<1>1. /\ UNCHANGED <<setup, live, pte, key, data, disk>>
      /\ refs \in [Frames -> Nat] /\ frame \in [Indexes -> Frames \union {None}]
      /\ free \subseteq Frames /\ None \notin Frames
  BY PageConstants DEF Mem, TypedMem, CloseMemory
<1>2. CASE opens # 1
  <2>1. UNCHANGED <<refs, free, frame>>
    BY <1>2 DEF CloseMemory
  <2>2. TypedMem' /\ Sound'
    BY <1>1, <2>1 DEF Mem, TypedMem, FilePages, Indexes, Sound, Counted, OwnAlone, FreeUnheld, NoneLost, KindsApart, Writable, ObjectApart, GoneEmpty, KeyTrue, Com, Cells
  <2> QED BY <2>2 DEF Mem
<1>3. CASE opens = 1
  <2>1. /\ refs' = [f \in Frames |-> refs[f] - mine(f)] /\ free' = free \union gone
        /\ frame' = [i \in Indexes |-> None]
    BY <1>3 DEF CloseMemory, LeftOf
  <2>2. ASSUME NEW f \in Frames
        PROVE  /\ refs[f] = Cardinality(Com(pte, f)) + mine(f) /\ Cardinality(Com(pte, f)) \in Nat
               /\ mine(f) \in {0, 1} /\ refs[f] \in Nat /\ refs'[f] = Cardinality(Com(pte, f))
    <3>1. refs[f] = Cardinality(Com(pte, f)) + Cardinality({i \in Indexes : frame[i] = f})
      BY DEF Mem, Sound, Counted
    <3>2. Cardinality({i \in Indexes : frame[i] = f}) = mine(f)
      BY OneObject
    <3>3. Cardinality(Com(pte, f)) \in Nat /\ mine(f) \in {0, 1}
      BY Finite
    <3>4. refs'[f] = refs[f] - mine(f) /\ refs[f] \in Nat
      BY <1>1, <2>1
    <3> HIDE DEF mine
    <3> QED BY <3>1, <3>2, <3>3, <3>4
  <2>3. \A i \in Indexes, f \in Frames : frame'[i] # f
    BY <1>1, <2>1
  <2>4. TypedMem'
    <3>1. refs' \in [Frames -> Nat]
      BY <2>1, <2>2
    <3> QED BY <1>1, <2>1, <3>1 DEF Mem, TypedMem, FilePages, Indexes
  <2>5. Counted'
    <3> SUFFICES ASSUME NEW f \in Frames
                 PROVE  refs'[f] = Cardinality(Com(pte, f)) + Cardinality({i \in Indexes : frame'[i] = f})
      BY <1>1 DEF Counted, Indexes, Com, Cells
    <3>1. {i \in Indexes : frame'[i] = f} = {}
      BY <2>3
    <3>2. Cardinality({i \in Indexes : frame'[i] = f}) = 0
      BY <3>1, FS_EmptySet
    <3> QED BY <2>2, <3>2
  <2>6. ASSUME NEW f \in gone
        PROVE  f \in Frames /\ refs'[f] = 0 /\ \A s \in Spaces, p \in Pages : pte[s][p].f # f
    <3>1. f \in Frames /\ refs[f] = 1 /\ mine(f) = 1
      OBVIOUS
    <3> HIDE DEF mine, gone
    <3>2. refs'[f] = 0 /\ Cardinality(Com(pte, f)) = 0
      BY <2>2, <3>1
    <3>3. Com(pte, f) = {}
      BY <3>2, Finite, FS_EmptySet
    <3>4. ASSUME NEW s \in Spaces, NEW p \in Pages, pte[s][p].f = f PROVE FALSE
      <4>1. pte[s][p].k \in {"own", "cow", "shm"}
        BY <3>1, <3>4, EntryIs DEF Mem, TypedMem
      <4>2. pte[s][p].k # "own"
        BY <3>1, <3>4 DEF Mem, Sound, OwnAlone
      <4>3. <<s, p>> \in Com(pte, f)
        BY <3>4, <4>1, <4>2 DEF Com, Cells, Common
      <4> QED BY <3>3, <4>3
    <3> QED BY <3>1, <3>2, <3>4
  <2>7. ASSUME NEW f \in Frames, refs'[f] = 0, f \notin gone PROVE refs[f] = 0
    <3>1. refs[f] = mine(f) /\ mine(f) \in {0, 1} /\ refs[f] \in Nat
      BY <2>2, <2>7
    <3> QED BY <2>7, <3>1
  <2>8. ASSUME NEW f \in Frames, refs[f] = 0 PROVE refs'[f] = 0 /\ mine(f) = 0
    <3> HIDE DEF mine
    <3> QED BY <2>2, <2>8
  <2>9. OwnAlone'
    BY <1>1, <2>1, <2>6, <2>8, EntryIs DEF Mem, TypedMem, Sound, OwnAlone
  <2>10. FreeUnheld'
    BY <1>1, <2>1, <2>6, <2>8 DEF Mem, Sound, FreeUnheld
  <2>11. NoneLost' /\ GoneEmpty' /\ ObjectApart'
    BY <1>1, <2>1, <2>7 DEF Mem, Sound, NoneLost, GoneEmpty, ObjectApart, Indexes
  <2>12. KindsApart'
    BY <1>1, <2>3 DEF Mem, Sound, KindsApart, Writable, Indexes
  <2>13. KeyTrue'
    <3> SUFFICES ASSUME NEW f \in Frames, key[f] # None PROVE refs'[f] > 0 /\ data[f] = disk[key[f]]
      BY <1>1 DEF KeyTrue
    <3>1. mine(f) = 0
      BY DEF Mem, Sound, KindsApart, Writable
    <3>2. refs[f] > 0 /\ data[f] = disk[key[f]]
      BY DEF Mem, Sound, KeyTrue
    <3> HIDE DEF mine
    <3> QED BY <2>2, <3>1, <3>2
  <2> QED BY <2>4, <2>5, <2>9, <2>10, <2>11, <2>12, <2>13 DEF Mem, Sound
<1> QED BY <1>2, <1>3

\* ata_write_many, shared_written
LEMMA FileWriteMem ==
  ASSUME Mem, NEW i \in 1 .. FilePages, NEW v \in Vals, FileWrite(i, v), UNCHANGED setup
  PROVE  Mem'
<1>1. /\ UNCHANGED <<setup, live, pte, refs, free, data, frame>>
      /\ disk' = [disk EXCEPT ![i] = v] /\ key' = [f \in Frames |-> IF key[f] = i THEN None ELSE key[f]]
  BY DEF FileWrite, Written
<1>2. TypedMem'
  BY <1>1 DEF Mem, TypedMem, FilePages, Indexes
<1>3. Counted' /\ OwnAlone' /\ FreeUnheld' /\ NoneLost' /\ ObjectApart' /\ GoneEmpty'
  BY <1>1 DEF Mem, Sound, Counted, OwnAlone, FreeUnheld, NoneLost, ObjectApart, GoneEmpty, Indexes, Com, Cells
<1>4. KindsApart'
  BY <1>1 DEF Mem, Sound, KindsApart, Writable, Indexes
<1>5. KeyTrue'
  BY <1>1 DEF Mem, TypedMem, Sound, KeyTrue
<1> QED BY <1>2, <1>3, <1>4, <1>5 DEF Mem, Sound
----------------------------------------------------------------------------
(* map_fill                                                                *)

\* The page of the file a promised page is owed.
LEMMA FilePageIs ==
  ASSUME TypedMem, TypedMaps, NEW s \in Spaces, NEW p \in Pages
  PROVE  /\ Promised(s, p) # {} => FilePage(s, p) \in Nat \ {0}
         /\ Promised(s, p) # {} /\ MayShare(s, p) => FilePage(s, p) \in 1 .. FilePages
         /\ Owed(s, p) \in Vals
<1>1. FilePages \in Nat /\ p \in Nat
  BY PageConstants DEF TypedMem, FilePages, Pages
<1>2. ASSUME Promised(s, p) # {} PROVE FilePage(s, p) \in Nat \ {0}
  <2>1. PICK m \in Promised(s, p) : FilePage(s, p) = m.from + (p - m.at)
    BY <1>2 DEF FilePage
  <2>2. m \in Mappings /\ m.at <= p
    BY <2>1 DEF Promised, TypedMaps
  <2>3. m.from \in Nat \ {0} /\ m.at \in Nat
    BY <2>2, PageConstants DEF Mappings, Pages
  <2> QED BY <1>1, <2>1, <2>2, <2>3
<1>3. Promised(s, p) # {} /\ MayShare(s, p) => FilePage(s, p) \in 1 .. FilePages
  BY <1>1, <1>2 DEF MayShare
<1>4. Owed(s, p) \in Vals
  <2>1. CASE Promised(s, p) # {} /\ FilePage(s, p) <= FilePages
    BY <1>3, <2>1 DEF Owed, MayShare, TypedMem
  <2>2. CASE ~(Promised(s, p) # {} /\ FilePage(s, p) <= FilePages)
    BY <2>2, PageConstants DEF Owed
  <2> QED BY <2>1, <2>2
<1> QED BY <1>2, <1>3, <1>4

\* The chunk is part of what was promised.
LEMMA ChunkIn ==
  ASSUME TypedMem, TypedMaps, NEW s \in Spaces, NEW p \in Pages, Promised(s, p) # {}
  PROVE  \A q \in Unmapped(s, p) : q \in Pages /\ pte[s][q] = NoPage /\ Promised(s, q) # {}
<1> DEFINE m == CHOOSE n \in Promised(s, p) : TRUE
           lo == m.at + ((p - m.at) \div FILL_PAGES) * FILL_PAGES
<1>1. m \in maps[s] /\ m.at <= p /\ p <= m.end
  BY DEF Promised
<1>2. m.at \in 1 .. NPages /\ m.end \in 1 .. NPages /\ NPages \in Nat /\ FILL_PAGES \in Nat \ {0} /\ p \in 1 .. NPages
  BY <1>1, PageConstants DEF TypedMaps, Mappings, Pages
<1> HIDE DEF m
<1>3. lo \in Nat /\ lo >= m.at
  <2>1. p - m.at \in Nat
    BY <1>1, <1>2
  <2>2. (p - m.at) \div FILL_PAGES \in Nat
    <3>1. \A d \in Nat, k \in Nat \ {0} : d \div k \in Nat
      OBVIOUS
    <3> QED BY <1>2, <2>1, <3>1
  <2>3. ((p - m.at) \div FILL_PAGES) * FILL_PAGES \in Nat
    <3>1. \A d \in Nat, k \in Nat \ {0} : d * k \in Nat
      OBVIOUS
    <3> QED BY <1>2, <2>2, <3>1
  <2> QED BY <1>2, <2>3
<1>4. ASSUME NEW q \in Unmapped(s, p) PROVE q \in Pages /\ pte[s][q] = NoPage /\ Promised(s, q) # {}
  <2>1. q \in lo .. lo + FILL_PAGES - 1 /\ q <= m.end /\ pte[s][q] = NoPage
    BY DEF Unmapped, Chunk, m
  <2> HIDE DEF lo
  <2>2. q \in Nat /\ m.at <= q /\ q <= m.end
    BY <1>2, <1>3, <2>1
  <2>3. q \in Pages
    BY <1>2, <2>2 DEF Pages
  <2>4. m \in Promised(s, q)
    BY <1>1, <2>2 DEF Promised
  <2> QED BY <2>1, <2>3, <2>4
<1> QED BY <1>4

\* Pages of a process's own where it had none.
LEMMA OwnMem ==
  ASSUME Mem, NEW s \in live, NEW P \in SUBSET Pages, \A p \in P : pte[s][p] = NoPage,
         NEW g \in Injections(P, free),
         pte' = [pte EXCEPT ![s] = [q \in Pages |-> IF q \in P THEN Own(g[q]) ELSE @[q]]],
         data' \in [Frames -> Vals], \A f \in Frames : f \in {g[q] : q \in P} \/ data'[f] = data[f],
         free' = free \ {g[q] : q \in P},
         UNCHANGED <<setup, live, refs, key, disk, frame>>
  PROVE  Mem'
<1>1. /\ s \in Spaces /\ pte \in [Spaces -> [Pages -> Entries]] /\ free \subseteq Frames
      /\ refs \in [Frames -> Nat] /\ None \notin Frames
  BY PageConstants DEF Mem, TypedMem
<1>2. \A q \in P : g[q] \in free /\ \A r \in P : g[q] = g[r] => q = r
  BY DEF Injections
<1>3. \A f \in free : refs[f] = 0 /\ \A t \in Spaces, q \in Pages : pte[t][q].f # f
  BY DEF Mem, Sound, FreeUnheld
<1>4. \A t \in Spaces, q \in Pages : pte'[t][q] = IF t = s /\ q \in P THEN Own(g[q]) ELSE pte[t][q]
  BY <1>1
<1>5. TypedMem'
  <2>1. pte' \in [Spaces -> [Pages -> Entries]]
    BY <1>1, <1>2, EntryTypes
  <2> QED BY <2>1 DEF Mem, TypedMem, FilePages, Indexes
<1>6. Counted'
  <2>1. \A f \in Frames :
          refs'[f] = refs[f] - Cardinality(In(pte, s, P, f)) + Cardinality(In(pte', s, P, f))
    <3> SUFFICES ASSUME NEW f \in Frames
                 PROVE  refs'[f] = refs[f] - Cardinality(In(pte, s, P, f)) + Cardinality(In(pte', s, P, f))
      OBVIOUS
    <3>1. In(pte', s, P, f) = {} /\ In(pte, s, P, f) = {}
      BY <1>1, <1>4 DEF In, Own, NoPage, Common
    <3>2. Cardinality(In(pte', s, P, f)) = 0 /\ Cardinality(In(pte, s, P, f)) = 0
      BY <3>1, FS_EmptySet
    <3>3. refs'[f] = refs[f] /\ refs[f] \in Nat
      BY <1>1
    <3> QED BY <3>2, <3>3
  <2>2. \A t \in Spaces, q \in Pages : t # s \/ q \notin P => pte'[t][q] = pte[t][q]
    BY <1>4
  <2>3. TypedMem /\ Counted /\ s \in Spaces /\ UNCHANGED <<setup, frame>>
    BY <1>1 DEF Mem, Sound
  <2> QED BY <2>1, <2>2, <2>3, CountStep
<1>7. OwnAlone'
  <2> SUFFICES ASSUME NEW t \in Spaces, NEW q \in Pages, pte'[t][q].k = "own"
               PROVE  /\ pte'[t][q].f \notin free' /\ refs[pte'[t][q].f] = 0
                      /\ \A u \in Spaces, r \in Pages : pte'[u][r].f = pte'[t][q].f => u = t /\ r = q
    BY DEF OwnAlone
  <2>1. CASE t = s /\ q \in P
    <3>1. pte'[t][q].f = g[q]
      <4>1. pte'[t][q] = Own(g[q])
        BY <1>4, <2>1
      <4> QED BY <4>1 DEF Own
    <3>2. g[q] \in free
      BY <1>2, <2>1
    <3> QED BY <1>2, <1>3, <1>4, <2>1, <3>1, <3>2 DEF Own
  <2>2. CASE ~(t = s /\ q \in P)
    <3>1. pte'[t][q] = pte[t][q]
      BY <1>4, <2>2
    <3>2. /\ pte[t][q].f \notin free /\ refs[pte[t][q].f] = 0
          /\ \A u \in Spaces, r \in Pages : pte[u][r].f = pte[t][q].f => u = t /\ r = q
      BY <3>1 DEF Mem, Sound, OwnAlone
    <3> QED BY <1>2, <1>4, <3>1, <3>2 DEF Own
  <2> QED BY <2>1, <2>2
<1>8. FreeUnheld'
  BY <1>3, <1>4 DEF FreeUnheld, Own
<1>9. NoneLost'
  <2> SUFFICES ASSUME NEW f \in Frames \ free', refs[f] = 0
               PROVE  \E t \in Spaces, q \in Pages : pte'[t][q] = Own(f)
    BY DEF NoneLost
  <2>1. CASE f \in free
    <3>1. PICK q \in P : f = g[q]
      BY <2>1
    <3> QED BY <1>1, <1>4, <3>1
  <2>2. CASE f \notin free
    <3>1. PICK t \in Spaces, q \in Pages : pte[t][q] = Own(f)
      BY <2>2 DEF Mem, Sound, NoneLost
    <3>2. pte[t][q] # NoPage
      BY <3>1 DEF Own, NoPage
    <3> QED BY <1>4, <3>1, <3>2
  <2> QED BY <2>1, <2>2
<1>10. KindsApart' /\ ObjectApart'
  <2>1. \A t \in Spaces, q \in Pages : pte'[t][q].k \in {"cow", "shm"} => pte'[t][q] = pte[t][q]
    BY <1>4 DEF Own
  <2>2. \A f \in Frames : Writable(f)' => Writable(f)
    BY <2>1 DEF Writable, Shm, Indexes
  <2>3. \A f \in Frames : \A t \in Spaces, q \in Pages : pte'[t][q] = Cow(f) => pte[t][q] = Cow(f)
    BY <2>1 DEF Cow
  <2> QED BY <2>2, <2>3 DEF Mem, Sound, KindsApart, ObjectApart, Indexes
<1>11. GoneEmpty'
  BY <1>4 DEF Mem, Sound, GoneEmpty
<1>12. KeyTrue'
  <2>1. \A f \in Frames : key[f] # None => refs[f] > 0 /\ data[f] = disk[key[f]]
    BY DEF Mem, Sound, KeyTrue
  <2>2. \A f \in Frames : key[f] # None => data'[f] = data[f]
    BY <1>2, <1>3, <2>1
  <2> QED BY <2>1, <2>2 DEF KeyTrue
<1> QED BY <1>5, <1>6, <1>7, <1>8, <1>9, <1>10, <1>11, <1>12 DEF Mem, Sound

LEMMA FillOwnMem ==
  ASSUME Mem, TypedMaps, NEW s \in live, NEW p \in Pages, Promised(s, p) # {}, pte[s][p] = NoPage,
         NEW lost, FillOwn(s, p, lost), UNCHANGED <<setup, live, disk, frame>>
  PROVE  Mem'
<1>1. s \in Spaces
  BY DEF Mem, TypedMem
<1>0. PICK P \in {Unmapped(s, p), {p}} : \E g \in Injections(P, free) :
        /\ pte' = [pte EXCEPT ![s] = [q \in Pages |-> IF q \in P THEN Own(g[q]) ELSE @[q]]]
        /\ data' = [f \in Frames |->
                      IF \E q \in P : g[q] = f
                      THEN LET q == CHOOSE r \in P : g[r] = f
                           IN IF q \in lost THEN 0 ELSE Owed(s, q)
                      ELSE data[f]]
        /\ free' = free \ {g[q] : q \in P}
  BY DEF FillOwn
<1>2. PICK g \in Injections(P, free) :
        /\ pte' = [pte EXCEPT ![s] = [q \in Pages |-> IF q \in P THEN Own(g[q]) ELSE @[q]]]
        /\ data' = [f \in Frames |->
                      IF \E q \in P : g[q] = f
                      THEN LET q == CHOOSE r \in P : g[r] = f
                           IN IF q \in lost THEN 0 ELSE Owed(s, q)
                      ELSE data[f]]
        /\ free' = free \ {g[q] : q \in P}
  BY <1>0
<1>3. P \in SUBSET Pages /\ \A q \in P : pte[s][q] = NoPage
  BY <1>0, <1>1, ChunkIn DEF Mem
<1>4. data' \in [Frames -> Vals]
  <2>1. ASSUME NEW f \in Frames, \E q \in P : g[q] = f
        PROVE  LET q == CHOOSE r \in P : g[r] = f IN (IF q \in lost THEN 0 ELSE Owed(s, q)) \in Vals
    <3>1. PICK q \in P : q = CHOOSE r \in P : g[r] = f
      BY <2>1
    <3>2. Owed(s, q) \in Vals
      BY <1>1, <1>3, FilePageIs DEF Mem
    <3> QED BY <3>1, <3>2, PageConstants
  <2> QED BY <1>2, <2>1 DEF Mem, TypedMem
<1>5. \A f \in Frames : f \in {g[q] : q \in P} \/ data'[f] = data[f]
  BY <1>2
<1>6. UNCHANGED <<refs, key>>
  BY DEF FillOwn
<1> QED BY <1>2, <1>3, <1>4, <1>5, <1>6, OwnMem
LEMMA FillSharedMem ==
  ASSUME Mem, TypedMaps, NEW s \in live, NEW p \in Pages, Promised(s, p) # {},
         FillShared(s, p), UNCHANGED <<setup, live, disk, frame>>
  PROVE  Mem'
<1>1. /\ s \in Spaces /\ pte \in [Spaces -> [Pages -> Entries]] /\ free \subseteq Frames
      /\ refs \in [Frames -> Nat] /\ key \in [Frames -> 1 .. FilePages \union {None}]
      /\ None \notin Frames /\ None \notin 1 .. FilePages
  BY PageConstants DEF Mem, TypedMem, FilePages
<1>2. PICK R \in SUBSET {q \in Unmapped(s, p) : MayShare(s, q)} :
        LET new == {q \in R : Known(FilePage(s, q)) = {}}
        IN \E g \in Injections(new, free) :
             LET at(q) == IF q \in new THEN g[q] ELSE CHOOSE f \in Known(FilePage(s, q)) : TRUE
                 page(f) == {q \in R : at(q) = f}
             IN /\ pte' = [pte EXCEPT ![s] =
                             [q \in Pages |-> IF q \in R THEN Cow(at(q)) ELSE @[q]]]
                /\ refs' = [f \in Frames |-> refs[f] + Cardinality(page(f))]
                /\ key' = [f \in Frames |-> IF page(f) = {} THEN key[f]
                                            ELSE FilePage(s, CHOOSE q \in page(f) : TRUE)]
                /\ data' = [f \in Frames |-> IF f \in {g[q] : q \in new}
                              THEN disk[FilePage(s, CHOOSE q \in page(f) : TRUE)] ELSE data[f]]
                /\ free' = free \ {g[q] : q \in new}
  BY DEF FillShared
<1> DEFINE new == {q \in R : Known(FilePage(s, q)) = {}}
<1>3. PICK g \in Injections(new, free) :
        LET at(q) == IF q \in new THEN g[q] ELSE CHOOSE f \in Known(FilePage(s, q)) : TRUE
            page(f) == {q \in R : at(q) = f}
        IN /\ pte' = [pte EXCEPT ![s] =
                        [q \in Pages |-> IF q \in R THEN Cow(at(q)) ELSE @[q]]]
           /\ refs' = [f \in Frames |-> refs[f] + Cardinality(page(f))]
           /\ key' = [f \in Frames |-> IF page(f) = {} THEN key[f]
                                       ELSE FilePage(s, CHOOSE q \in page(f) : TRUE)]
           /\ data' = [f \in Frames |-> IF f \in {g[q] : q \in new}
                         THEN disk[FilePage(s, CHOOSE q \in page(f) : TRUE)] ELSE data[f]]
           /\ free' = free \ {g[q] : q \in new}
  BY <1>2
<1> DEFINE at(q) == IF q \in new THEN g[q] ELSE CHOOSE f \in Known(FilePage(s, q)) : TRUE
           page(f) == {q \in R : at(q) = f}
           first(f) == FilePage(s, CHOOSE q \in page(f) : TRUE)
           read == {g[q] : q \in new}
<1>4. /\ pte' = [pte EXCEPT ![s] = [q \in Pages |-> IF q \in R THEN Cow(at(q)) ELSE @[q]]]
      /\ refs' = [f \in Frames |-> refs[f] + Cardinality(page(f))]
      /\ key' = [f \in Frames |-> IF page(f) = {} THEN key[f] ELSE first(f)]
      /\ data' = [f \in Frames |-> IF f \in read THEN disk[first(f)] ELSE data[f]]
      /\ free' = free \ read
  BY <1>3
<1>5. \A q \in R : q \in Pages /\ pte[s][q] = NoPage /\ FilePage(s, q) \in 1 .. FilePages
  <2> SUFFICES ASSUME NEW q \in R
               PROVE  q \in Pages /\ pte[s][q] = NoPage /\ FilePage(s, q) \in 1 .. FilePages
    OBVIOUS
  <2>1. q \in Unmapped(s, p) /\ MayShare(s, q)
    BY <1>2
  <2>2. q \in Pages /\ pte[s][q] = NoPage /\ Promised(s, q) # {}
    BY <1>1, <2>1, ChunkIn DEF Mem
  <2>3. FilePage(s, q) \in 1 .. FilePages
    BY <1>1, <2>1, <2>2, FilePageIs DEF Mem
  <2> QED BY <2>2, <2>3
\* A page of the file is at a frame nobody had, or at one found by its key.
<1>6. ASSUME NEW q \in R
      PROVE  /\ q \in new => at(q) \in free /\ at(q) \in read
             /\ q \notin new => at(q) \in Frames /\ key[at(q)] = FilePage(s, q)
             /\ at(q) \in Frames
  <2>1. CASE q \in new
    <3>1. at(q) = g[q] /\ g[q] \in free
      BY <2>1 DEF Injections
    <3> QED BY <1>1, <2>1, <3>1
  <2>2. CASE q \notin new
    <3>1. Known(FilePage(s, q)) # {}
      BY <2>2
    <3>2. at(q) = CHOOSE f \in Known(FilePage(s, q)) : TRUE
      BY <2>2
    <3>3. at(q) \in Known(FilePage(s, q))
      BY <3>1, <3>2
    <3> QED BY <2>2, <3>3 DEF Known
  <2> QED BY <2>1, <2>2
<1>7. \A f \in read : f \in free /\ \E q \in R : at(q) = f
  BY DEF Injections
<1> HIDE DEF new, at, read
\* Nobody has such a frame as its own, or to write in for all.
<1>8. ASSUME NEW q \in R
      PROVE  /\ \A t \in Spaces, r \in Pages : pte[t][r] # Own(at(q)) /\ pte[t][r] # Shm(at(q))
             /\ \A i \in Indexes : frame[i] # at(q)
             /\ at(q) \in free \/ refs[at(q)] > 0
  <2> DEFINE f == at(q)
  <2>1. CASE q \in new
    <3>1. f \in free /\ refs[f] = 0 /\ \A t \in Spaces, r \in Pages : pte[t][r].f # f
      BY <1>6, <2>1 DEF Mem, Sound, FreeUnheld
    <3>2. \A i \in Indexes : frame[i] # f
      BY <1>6, <3>1, CountNone DEF Mem, Sound
    <3> QED BY <3>1, <3>2 DEF Own, Shm
  <2>2. CASE q \notin new
    <3>1. f \in Frames /\ key[f] # None
      BY <1>1, <1>5, <1>6, <2>2
    <3>2. refs[f] > 0 /\ ~Writable(f)
      BY <3>1 DEF Mem, Sound, KeyTrue, KindsApart
    <3>3. \A t \in Spaces, r \in Pages : pte[t][r] # Own(f)
      BY <1>1, <3>1, <3>2 DEF Mem, Sound, OwnAlone, Own
    <3> QED BY <3>2, <3>3 DEF Writable
  <2> QED BY <2>1, <2>2
<1>9. \A t \in Spaces, q \in Pages :
        IF t = s /\ q \in R THEN pte'[t][q].k = "cow" /\ pte'[t][q].f = at(q) ELSE pte'[t][q] = pte[t][q]
  <2>1. \A t \in Spaces, q \in Pages : pte'[t][q] = IF t = s /\ q \in R THEN Cow(at(q)) ELSE pte[t][q]
    BY <1>1, <1>4
  <2>2. \A f : Cow(f).k = "cow" /\ Cow(f).f = f
    BY DEF Cow
  <2> QED BY <2>1, <2>2
<1>10. R \in SUBSET Pages
  BY <1>5
<1>11. \A f \in Frames : /\ Cardinality(page(f)) \in Nat /\ refs'[f] = refs[f] + Cardinality(page(f))
                         /\ Cardinality(page(f)) = 0 <=> page(f) = {}
  <2> SUFFICES ASSUME NEW f \in Frames
               PROVE  /\ Cardinality(page(f)) \in Nat /\ refs'[f] = refs[f] + Cardinality(page(f))
                      /\ Cardinality(page(f)) = 0 <=> page(f) = {}
    OBVIOUS
  <2>1. refs'[f] = refs[f] + Cardinality(page(f))
    BY <1>4
  <2>2. page(f) \in SUBSET Pages
    BY <1>10
  <2> HIDE DEF page
  <2>3. IsFiniteSet(page(f))
    BY <2>2, Finite
  <2> QED BY <2>1, <2>3, FS_CardinalityType, FS_EmptySet
<1>12. ASSUME NEW f \in Frames, page(f) # {} PROVE first(f) \in 1 .. FilePages
  <2>1. PICK q \in page(f) : first(f) = FilePage(s, q)
    BY <1>12
  <2> QED BY <1>5, <2>1
<1>13. TypedMem'
  <2>1. pte' \in [Spaces -> [Pages -> Entries]]
    BY <1>1, <1>4, <1>6, EntryTypes
  <2> HIDE DEF page, first
  <2>2. refs' \in [Frames -> Nat]
    BY <1>1, <1>4, <1>11
  <2>3. key' \in [Frames -> 1 .. FilePages \union {None}]
    BY <1>1, <1>4, <1>12
  <2>4. data' \in [Frames -> Vals]
    <3>1. ASSUME NEW f \in Frames, f \in read PROVE disk[first(f)] \in Vals
      <4>1. page(f) # {}
        BY <1>7, <3>1 DEF page
      <4> QED BY <1>12, <4>1 DEF Mem, TypedMem
    <3> QED BY <1>4, <3>1 DEF Mem, TypedMem
  <2> QED BY <1>1, <1>4, <2>1, <2>2, <2>3, <2>4 DEF Mem, TypedMem, FilePages, Indexes
<1>14. Counted'
  <2>1. \A f \in Frames :
          refs'[f] = refs[f] - Cardinality(In(pte, s, R, f)) + Cardinality(In(pte', s, R, f))
    <3> SUFFICES ASSUME NEW f \in Frames
                 PROVE  refs'[f] = refs[f] - Cardinality(In(pte, s, R, f)) + Cardinality(In(pte', s, R, f))
      OBVIOUS
    <3>1. In(pte, s, R, f) = {} /\ In(pte', s, R, f) = page(f)
      BY <1>1, <1>5, <1>9 DEF In, NoPage, Common
    <3>2. Cardinality(In(pte, s, R, f)) = 0
      BY <3>1, FS_EmptySet
    <3> HIDE DEF page
    <3> QED BY <1>1, <1>11, <3>1, <3>2
  <2>2. \A t \in Spaces, q \in Pages : t # s \/ q \notin R => pte'[t][q] = pte[t][q]
    BY <1>9
  <2>3. TypedMem /\ Counted /\ s \in Spaces /\ UNCHANGED <<setup, frame>>
    BY <1>1 DEF Mem, Sound
  <2> QED BY <1>10, <2>1, <2>2, <2>3, CountStep
<1>15. OwnAlone'
  <2> SUFFICES ASSUME NEW t \in Spaces, NEW q \in Pages, pte'[t][q].k = "own"
               PROVE  /\ pte'[t][q].f \notin free' /\ refs'[pte'[t][q].f] = 0
                      /\ \A u \in Spaces, r \in Pages : pte'[u][r].f = pte'[t][q].f => u = t /\ r = q
    BY DEF OwnAlone
  <2>1. pte'[t][q] = pte[t][q] /\ pte[t][q] \in Entries
    BY <1>1, <1>9
  <2>2. PICK f \in Frames : f = pte[t][q].f /\ pte[t][q] = Own(f)
    BY <2>1, EntryIs
  <2>3. f \notin free /\ refs[f] = 0 /\ \A u \in Spaces, r \in Pages : pte[u][r].f = f => u = t /\ r = q
    <3>1. pte[t][q].k = "own" /\ pte[t][q].f = f
      BY <2>2 DEF Own
    <3> QED BY <3>1 DEF Mem, Sound, OwnAlone
  <2>4. \A r \in R : at(r) # f
    BY <1>8, <2>2
  <2>5. page(f) = {}
    BY <2>4
  <2>6. refs'[f] = 0
    <3> HIDE DEF page
    <3>1. Cardinality(page(f)) = 0 /\ refs'[f] = refs[f] + Cardinality(page(f))
      BY <1>11, <2>5
    <3> QED BY <2>3, <3>1
  <2>7. \A u \in Spaces, r \in Pages : pte'[u][r].f = f => u = t /\ r = q
    BY <1>9, <2>3, <2>4
  <2>8. f \notin free'
    BY <1>4, <2>3
  <2> QED BY <2>1, <2>2, <2>6, <2>7, <2>8
<1>16. ASSUME NEW f \in free \ read PROVE page(f) = {}
  <2>1. ASSUME NEW q \in R, at(q) = f PROVE FALSE
    <3>1. q \notin new
      BY <1>6, <2>1
    <3>2. key[f] # None /\ f \in Frames
      BY <1>1, <1>5, <1>6, <2>1, <3>1
    <3> QED BY <3>2 DEF Mem, Sound, KeyTrue, FreeUnheld
  <2> QED BY <2>1
<1>17. FreeUnheld'
  <2> SUFFICES ASSUME NEW f \in free \ read
               PROVE  refs'[f] = 0 /\ \A t \in Spaces, q \in Pages : pte'[t][q].f # f
    BY <1>4 DEF FreeUnheld
  <2>1. f \in Frames /\ refs[f] = 0 /\ \A t \in Spaces, q \in Pages : pte[t][q].f # f
    BY <1>1 DEF Mem, Sound, FreeUnheld
  <2>2. refs'[f] = 0
    <3> HIDE DEF page
    <3>1. Cardinality(page(f)) = 0 /\ refs'[f] = refs[f] + Cardinality(page(f))
      BY <1>11, <1>16, <2>1
    <3> QED BY <2>1, <3>1
  <2>3. \A q \in R : at(q) # f
    BY <1>16
  <2> QED BY <1>9, <2>1, <2>2, <2>3
<1>18. NoneLost'
  <2> SUFFICES ASSUME NEW f \in Frames \ free', refs'[f] = 0
               PROVE  \E t \in Spaces, q \in Pages : pte'[t][q] = Own(f)
    BY DEF NoneLost
  <2>1. page(f) = {} /\ refs[f] = 0
    <3> HIDE DEF page
    <3>1. refs[f] \in Nat
      BY <1>1
    <3> QED BY <1>11, <3>1
  <2>2. f \notin read
    BY <1>7, <2>1
  <2>3. f \notin free
    BY <1>4, <2>2
  <2>4. PICK t \in Spaces, q \in Pages : pte[t][q] = Own(f)
    BY <2>1, <2>3 DEF Mem, Sound, NoneLost
  <2>5. ~(t = s /\ q \in R)
    BY <1>5, <2>4 DEF Own, NoPage
  <2> QED BY <1>9, <2>4, <2>5
<1>19. KindsApart'
  <2> SUFFICES ASSUME NEW f \in Frames, Writable(f)'
               PROVE  key'[f] = None /\ \A t \in Spaces, q \in Pages : pte'[t][q] # Cow(f)
    BY DEF KindsApart
  <2>1. Writable(f)
    BY <1>9 DEF Writable, Shm, Indexes
  <2>2. \A q \in R : at(q) # f
    BY <1>8, <2>1 DEF Writable
  <2>3. page(f) = {}
    BY <2>2
  <2>4. key'[f] = key[f]
    BY <1>4, <2>3
  <2> QED BY <1>9, <2>1, <2>2, <2>4 DEF Mem, Sound, KindsApart, Cow
<1>20. ObjectApart' /\ GoneEmpty'
  BY <1>9 DEF Mem, Sound, ObjectApart, GoneEmpty, Indexes
<1>21. KeyTrue'
  <2> SUFFICES ASSUME NEW f \in Frames, key'[f] # None
               PROVE  refs'[f] > 0 /\ data'[f] = disk[key'[f]]
    BY DEF KeyTrue
  <2>1. CASE page(f) = {}
    <3>1. key'[f] = key[f] /\ f \notin read
      BY <1>4, <1>7, <2>1
    <3>2. data'[f] = data[f] /\ refs'[f] = refs[f]
      BY <1>1, <1>4, <1>11, <2>1, <3>1
    <3> QED BY <3>1, <3>2 DEF Mem, Sound, KeyTrue
  <2>2. CASE page(f) # {}
    <3>1. refs'[f] > 0
      <4> HIDE DEF page
      <4> QED BY <1>1, <1>11, <2>2
    <3>2. key'[f] = first(f)
      BY <1>4, <2>2
    <3>3. CASE f \in read
      BY <1>4, <3>1, <3>2, <3>3
    <3>4. CASE f \notin read
      <4>1. PICK q \in page(f) : first(f) = FilePage(s, q)
        BY <2>2
      <4>2. q \in R /\ at(q) = f /\ q \notin new
        BY <1>6, <3>4, <4>1
      <4>3. key[f] = first(f)
        BY <1>6, <4>1, <4>2
      <4>4. data'[f] = data[f]
        BY <1>4, <3>4
      <4>5. key[f] # None
        BY <3>2, <4>3
      <4> QED BY <3>1, <3>2, <4>3, <4>4, <4>5 DEF Mem, Sound, KeyTrue
    <3> QED BY <3>3, <3>4
  <2> QED BY <2>1, <2>2
<1> QED BY <1>13, <1>14, <1>15, <1>17, <1>18, <1>19, <1>20, <1>21 DEF Mem, Sound
----------------------------------------------------------------------------
(* fork                                                                    *)

\* A page adopted was one process's own, and is in common with one holder.
LEMMA AdoptIn ==
  ASSUME Mem, NEW s \in Spaces, NEW A \in SUBSET OwnPages(s), NEW f \in Frames,
         NEW T, \A q \in Pages : T[s][q] = Adopted(s, A)[q]
  PROVE  /\ Cardinality(In(T, s, Pages, f)) =
              IF \E p \in A : pte[s][p].f = f THEN 1 ELSE Cardinality(In(pte, s, Pages, f))
         /\ (\E p \in A : pte[s][p].f = f) =>
              /\ refs[f] = 0 /\ Cardinality(Com(pte, f)) = 0 /\ Cardinality(In(pte, s, Pages, f)) = 0
              /\ f \notin free /\ \A i \in Indexes : frame[i] # f
              /\ \A t \in Spaces, q \in Pages : pte[t][q].f = f => t = s /\ q \in A
<1>1. \A q \in Pages : T[s][q] = IF q \in A THEN Cow(pte[s][q].f) ELSE pte[s][q]
  BY DEF Adopted
<1>2. CASE \E p \in A : pte[s][p].f = f
  <2>1. PICK p \in A : pte[s][p].f = f
    BY <1>2
  <2>2. p \in Pages /\ pte[s][p].k = "own"
    BY DEF OwnPages
  <2>3. f \notin free /\ refs[f] = 0 /\ \A t \in Spaces, q \in Pages : pte[t][q].f = f => t = s /\ q = p
    BY <2>1, <2>2 DEF Mem, Sound, OwnAlone
  <2>4. /\ \A t \in Spaces, q \in Pages : ~(Common(pte[t][q]) /\ pte[t][q].f = f)
        /\ \A i \in Indexes : frame[i] # f
    BY <2>3, CountNone DEF Mem, Sound
  <2>5. Com(pte, f) = {} /\ In(pte, s, Pages, f) = {}
    BY <2>4 DEF Com, In, Cells
  <2>6. In(T, s, Pages, f) = {p}
    <3>1. \A q \in Pages : Common(T[s][q]) /\ T[s][q].f = f => pte[s][q].f = f
      BY <1>1, CowIs
    <3>2. Common(T[s][p]) /\ T[s][p].f = f
      BY <1>1, <2>1, <2>2, CowIs
    <3> QED BY <2>2, <2>3, <3>1, <3>2 DEF In
  <2>7. /\ Cardinality(In(T, s, Pages, f)) = 1
        /\ Cardinality(Com(pte, f)) = 0 /\ Cardinality(In(pte, s, Pages, f)) = 0
    BY <2>5, <2>6, FS_EmptySet, FS_Singleton
  <2> QED BY <1>2, <2>3, <2>4, <2>7
<1>3. CASE ~\E p \in A : pte[s][p].f = f
  <2>1. In(T, s, Pages, f) = In(pte, s, Pages, f)
    <3>1. ASSUME NEW q \in Pages
          PROVE  Common(T[s][q]) /\ T[s][q].f = f <=> Common(pte[s][q]) /\ pte[s][q].f = f
      <4>1. CASE q \in A
        <5>1. pte[s][q].f # f /\ T[s][q].f = pte[s][q].f
          BY <1>1, <1>3, <4>1, CowIs
        <5> QED BY <5>1
      <4>2. CASE q \notin A
        BY <1>1, <4>2
      <4> QED BY <4>1, <4>2
    <3> QED BY <3>1 DEF In
  <2> QED BY <1>3, <2>1
<1> QED BY <1>2, <1>3

\* A fork that fails: some of the pages are in common, with one holder each.
LEMMA ForkFailsMem ==
  ASSUME Mem, NEW s \in Spaces, ForkFails(s), UNCHANGED setup
  PROVE  Mem'
<1>0. PICK n \in Pages : \E A \in SUBSET {p \in OwnPages(s) : p < n} :
        /\ pte' = [pte EXCEPT ![s] = Adopted(s, A)]
        /\ refs' = [f \in Frames |-> IF \E p \in A : pte[s][p].f = f THEN 1 ELSE refs[f]]
  BY DEF ForkFails
<1>1. PICK A \in SUBSET OwnPages(s) :
        /\ pte' = [pte EXCEPT ![s] = Adopted(s, A)]
        /\ refs' = [f \in Frames |-> IF \E p \in A : pte[s][p].f = f THEN 1 ELSE refs[f]]
  BY <1>0
<1> DEFINE adopted(f) == \E p \in A : pte[s][p].f = f
<1>2. /\ A \in SUBSET OwnPages(s) /\ s \in live /\ UNCHANGED <<setup, live, key, free, data, disk, frame>>
      /\ pte \in [Spaces -> [Pages -> Entries]] /\ refs \in [Frames -> Nat]
  BY <1>1 DEF ForkFails, Mem, TypedMem
<1>3. \A t \in Spaces, q \in Pages :
        IF t = s /\ q \in A THEN pte'[t][q] = Cow(pte[s][q].f) /\ pte[s][q].k = "own" /\ pte[s][q].f \in Frames
                            ELSE pte'[t][q] = pte[t][q]
  BY <1>1, <1>2, EntryIs DEF Adopted, OwnPages
<1>4. \A q \in Pages : pte'[s][q] = Adopted(s, A)[q]
  BY <1>1, <1>2
<1>5. ASSUME NEW f \in Frames
      PROVE  /\ Cardinality(In(pte', s, Pages, f)) =
                  IF adopted(f) THEN 1 ELSE Cardinality(In(pte, s, Pages, f))
             /\ adopted(f) =>
                  /\ refs[f] = 0 /\ Cardinality(Com(pte, f)) = 0 /\ Cardinality(In(pte, s, Pages, f)) = 0
                  /\ f \notin free /\ \A i \in Indexes : frame[i] # f
                  /\ \A t \in Spaces, q \in Pages : pte[t][q].f = f => t = s /\ q \in A
  BY <1>2, <1>4, AdoptIn
<1>6. \A f \in Frames : refs'[f] = IF adopted(f) THEN 1 ELSE refs[f]
  BY <1>1
<1>7. \A q \in A : q \in Pages /\ adopted(pte[s][q].f)
  BY <1>2 DEF OwnPages
<1> HIDE DEF adopted
<1>8. TypedMem'
  <2>1. pte' \in [Spaces -> [Pages -> Entries]]
    <3>1. \A q \in Pages : Adopted(s, A)[q] \in Entries
      BY <1>2, <1>3, <1>4, EntryTypes
    <3>2. Adopted(s, A) \in [Pages -> Entries]
      BY <3>1 DEF Adopted
    <3> QED BY <1>1, <1>2, <3>2
  <2>2. refs' \in [Frames -> Nat]
    BY <1>1, <1>2
  <2> QED BY <1>2, <2>1, <2>2 DEF Mem, TypedMem, FilePages, Indexes
<1>9. Counted'
  <2>1. \A f \in Frames :
          refs'[f] = refs[f] - Cardinality(In(pte, s, Pages, f)) + Cardinality(In(pte', s, Pages, f))
    <3> SUFFICES ASSUME NEW f \in Frames
                 PROVE  refs'[f] = refs[f] - Cardinality(In(pte, s, Pages, f)) + Cardinality(In(pte', s, Pages, f))
      OBVIOUS
    <3>1. refs[f] \in Nat /\ Cardinality(In(pte, s, Pages, f)) \in Nat
      BY <1>2, Finite
    <3> QED BY <1>5, <1>6, <3>1
  <2>2. \A t \in Spaces, q \in Pages : t # s \/ q \notin Pages => pte'[t][q] = pte[t][q]
    BY <1>1, <1>2
  <2>3. TypedMem /\ Counted /\ Pages \in SUBSET Pages /\ UNCHANGED <<setup, frame>>
    BY <1>2 DEF Mem, Sound
  <2> QED BY <2>1, <2>2, <2>3, CountStep
<1>10. \A t \in Spaces, q \in Pages :
         /\ pte'[t][q].f = pte[t][q].f
         /\ pte'[t][q].k \in {"own", "shm"} => pte'[t][q] = pte[t][q] /\ ~(t = s /\ q \in A)
         /\ pte'[t][q].k = "cow" => pte'[t][q] = pte[t][q] \/ (t = s /\ q \in A)
  BY <1>3, CowIs
<1>11. OwnAlone'
  <2> SUFFICES ASSUME NEW t \in Spaces, NEW q \in Pages, pte'[t][q].k = "own"
               PROVE  /\ pte'[t][q].f \notin free' /\ refs'[pte'[t][q].f] = 0
                      /\ \A u \in Spaces, r \in Pages : pte'[u][r].f = pte'[t][q].f => u = t /\ r = q
    BY DEF OwnAlone
  <2>1. pte'[t][q] = pte[t][q] /\ ~(t = s /\ q \in A) /\ pte[t][q] \in Entries
    BY <1>2, <1>10
  <2>2. PICK f \in Frames : f = pte[t][q].f
    BY <2>1, EntryIs
  <2>3. f \notin free /\ refs[f] = 0 /\ \A u \in Spaces, r \in Pages : pte[u][r].f = f => u = t /\ r = q
    BY <2>1, <2>2 DEF Mem, Sound, OwnAlone
  <2>4. ~adopted(f)
    BY <1>5, <2>1, <2>2
  <2> QED BY <1>2, <1>6, <1>10, <2>1, <2>2, <2>3, <2>4
<1>12. FreeUnheld'
  <2> SUFFICES ASSUME NEW f \in free
               PROVE  refs'[f] = 0 /\ \A t \in Spaces, q \in Pages : pte'[t][q].f # f
    BY <1>2 DEF FreeUnheld
  <2>1. f \in Frames /\ refs[f] = 0 /\ \A t \in Spaces, q \in Pages : pte[t][q].f # f
    BY DEF Mem, TypedMem, Sound, FreeUnheld
  <2> QED BY <1>5, <1>6, <1>10, <2>1
<1>13. NoneLost'
  <2> SUFFICES ASSUME NEW f \in Frames \ free, refs'[f] = 0
               PROVE  \E t \in Spaces, q \in Pages : pte'[t][q] = Own(f)
    BY <1>2 DEF NoneLost
  <2>1. refs[f] = 0 /\ ~adopted(f)
    BY <1>6
  <2>2. PICK t \in Spaces, q \in Pages : pte[t][q] = Own(f)
    BY <2>1 DEF Mem, Sound, NoneLost
  <2>3. ~(t = s /\ q \in A)
    BY <1>7, <2>1, <2>2 DEF Own
  <2> QED BY <1>3, <2>2, <2>3
<1>14. KindsApart' /\ ObjectApart'
  <2>1. ASSUME NEW f \in Frames, Writable(f)'
        PROVE  key'[f] = None /\ \A t \in Spaces, q \in Pages : pte'[t][q] # Cow(f)
    <3>1. Writable(f)
      BY <1>2, <1>10, <2>1 DEF Writable, Shm, Indexes
    <3>2. key[f] = None /\ \A t \in Spaces, q \in Pages : pte[t][q] # Cow(f)
      BY <3>1 DEF Mem, Sound, KindsApart
    <3>3. ~adopted(f)
      BY <1>5, <3>1, <1>2 DEF Writable, Shm, OwnPages
    <3>4. ASSUME NEW t \in Spaces, NEW q \in Pages, pte'[t][q] = Cow(f) PROVE FALSE
      <4>1. t = s /\ q \in A
        BY <1>10, <3>2, <3>4 DEF Cow
      <4>2. pte[s][q].f = f
        BY <1>10, <3>4, <4>1 DEF Cow
      <4> QED BY <1>7, <3>3, <4>1, <4>2
    <3> QED BY <1>2, <3>2, <3>4
  <2> QED BY <1>2, <2>1 DEF KindsApart, ObjectApart, Mem, Sound, Indexes
<1>15. GoneEmpty'
  BY <1>2, <1>3 DEF Mem, Sound, GoneEmpty
<1>16. KeyTrue'
  <2>1. \A f \in Frames : refs'[f] > 0 \/ refs'[f] = refs[f]
    BY <1>6
  <2> QED BY <1>2, <2>1 DEF Mem, Sound, KeyTrue
<1> QED BY <1>8, <1>9, <1>11, <1>12, <1>13, <1>14, <1>15, <1>16 DEF Mem, Sound
\* A fork: each page in common has one more holder, the ones adopted two.
LEMMA ForkMem ==
  ASSUME Mem, NEW s \in Spaces, NEW t \in Spaces, Fork(s, t), UNCHANGED setup
  PROVE  Mem'
<1>1. PICK A \in SUBSET OwnPages(s) : \E g \in Injections(OwnPages(s) \ A, free) :
        LET copies == {g[p] : p \in OwnPages(s) \ A}
        IN /\ pte' = [pte EXCEPT ![s] = Adopted(s, A),
                        ![t] = [p \in Pages |->
                                  IF p \in OwnPages(s) \ A THEN Own(g[p])
                                  ELSE IF p \in A THEN Cow(pte[s][p].f) ELSE pte[s][p]]]
           /\ refs' = [f \in Frames |-> IF \E p \in A : pte[s][p].f = f THEN 2
                                        ELSE refs[f] + Times(s, Pages, f)]
           /\ data' = [f \in Frames |->
                         IF f \in copies
                         THEN data[pte[s][CHOOSE p \in DOMAIN g : g[p] = f].f] ELSE data[f]]
           /\ free' = free \ copies
  BY DEF Fork
<1> DEFINE B == OwnPages(s) \ A
           adopted(f) == \E p \in A : pte[s][p].f = f
<1>2. PICK g \in Injections(B, free) :
        LET copies == {g[p] : p \in B}
        IN /\ pte' = [pte EXCEPT ![s] = Adopted(s, A),
                        ![t] = [p \in Pages |->
                                  IF p \in B THEN Own(g[p])
                                  ELSE IF p \in A THEN Cow(pte[s][p].f) ELSE pte[s][p]]]
           /\ refs' = [f \in Frames |-> IF adopted(f) THEN 2 ELSE refs[f] + Times(s, Pages, f)]
           /\ data' = [f \in Frames |->
                         IF f \in copies
                         THEN data[pte[s][CHOOSE p \in DOMAIN g : g[p] = f].f] ELSE data[f]]
           /\ free' = free \ copies
  BY <1>1
<1> DEFINE copies == {g[p] : p \in B}
<1>3. /\ s \in live /\ t \notin live /\ s # t /\ live' = live \union {t}
      /\ UNCHANGED <<setup, key, disk, frame>>
      /\ pte \in [Spaces -> [Pages -> Entries]] /\ refs \in [Frames -> Nat] /\ free \subseteq Frames
      /\ A \subseteq Pages /\ B \subseteq Pages
      /\ \A p \in A \union B : pte[s][p].k = "own" /\ pte[s][p].f \in Frames
      /\ \A p \in Pages \ (A \union B) : pte[s][p].k # "own"
  BY EntryIs DEF Fork, Mem, TypedMem, OwnPages
<1>4. DOMAIN g = B /\ \A p \in B : g[p] \in free /\ \A q \in B : g[p] = g[q] => p = q
  BY DEF Injections
<1>5. \A u \in Spaces, q \in Pages :
        pte'[u][q] = IF u = s THEN Adopted(s, A)[q]
                     ELSE IF u # t THEN pte[u][q]
                     ELSE IF q \in B THEN Own(g[q])
                     ELSE IF q \in A THEN Cow(pte[s][q].f) ELSE pte[s][q]
  BY <1>2, <1>3
<1>6. \A q \in Pages : Adopted(s, A)[q] = IF q \in A THEN Cow(pte[s][q].f) ELSE pte[s][q]
  BY DEF Adopted
<1>7. \A f \in Frames : refs'[f] = IF adopted(f) THEN 2 ELSE refs[f] + Cardinality(In(pte, s, Pages, f))
  <2>1. \A f \in Frames : Times(s, Pages, f) = Cardinality(In(pte, s, Pages, f))
    BY DEF Times, In
  <2> QED BY <1>2, <2>1
<1>8. /\ \A f \in copies : f \in free /\ \E p \in B : g[p] = f
      /\ free' = free \ copies
      /\ \A f \in Frames : f \notin copies => data'[f] = data[f]
  BY <1>2, <1>4
<1>9. data' \in [Frames -> Vals]
  <2>1. ASSUME NEW f \in Frames, f \in copies
        PROVE  data[pte[s][CHOOSE p \in DOMAIN g : g[p] = f].f] \in Vals
    <3>1. PICK p \in B : p = CHOOSE q \in DOMAIN g : g[q] = f
      BY <1>4, <2>1
    <3>2. data[pte[s][p].f] \in Vals
      BY <1>3 DEF Mem, TypedMem
    <3> QED BY <3>1, <3>2
  <2> QED BY <1>2, <2>1 DEF Mem, TypedMem
\* The tables as they are with the pages adopted, before the child has them.
<1>10. PICK T : T = [pte EXCEPT ![s] = Adopted(s, A)]
  OBVIOUS
<1>11. \A u \in Spaces, q \in Pages : T[u][q] = IF u = s THEN Adopted(s, A)[q] ELSE pte[u][q]
  BY <1>3, <1>10
<1>12. ASSUME NEW f \in Frames
       PROVE  /\ Cardinality(In(T, s, Pages, f)) = IF adopted(f) THEN 1 ELSE Cardinality(In(pte, s, Pages, f))
              /\ adopted(f) =>
                   /\ refs[f] = 0 /\ Cardinality(Com(pte, f)) = 0 /\ Cardinality(In(pte, s, Pages, f)) = 0
                   /\ f \notin free /\ \A i \in Indexes : frame[i] # f
                   /\ \A u \in Spaces, q \in Pages : pte[u][q].f = f => u = s /\ q \in A
  <2>1. \A q \in Pages : T[s][q] = Adopted(s, A)[q]
    BY <1>11
  <2> QED BY <2>1, AdoptIn
<1>13. \A q \in A : adopted(pte[s][q].f)
  OBVIOUS
<1>14. \A q \in Pages : pte[t][q] = NoPage
  BY <1>3 DEF Mem, Sound, GoneEmpty
<1> HIDE DEF adopted, copies, B
<1>15. \A f \in Frames :
         /\ Cardinality(Com(pte', f)) = IF adopted(f) THEN 2
                                        ELSE Cardinality(Com(pte, f)) + Cardinality(In(pte, s, Pages, f))
  <2> SUFFICES ASSUME NEW f \in Frames
               PROVE  Cardinality(Com(pte', f)) = IF adopted(f) THEN 2
                                        ELSE Cardinality(Com(pte, f)) + Cardinality(In(pte, s, Pages, f))
    OBVIOUS
  <2>1. \A u \in Spaces, q \in Pages : u # s \/ q \notin Pages => T[u][q] = pte[u][q]
    BY <1>11
  <2>2. Cardinality(Com(T, f)) =
          Cardinality(Com(pte, f)) - Cardinality(In(pte, s, Pages, f)) + Cardinality(In(T, s, Pages, f))
    BY <2>1, ComMove
  <2>3. \A u \in Spaces, q \in Pages : u # t \/ q \notin Pages => pte'[u][q] = T[u][q]
    BY <1>5, <1>11
  <2>4. Cardinality(Com(pte', f)) =
          Cardinality(Com(T, f)) - Cardinality(In(T, t, Pages, f)) + Cardinality(In(pte', t, Pages, f))
    BY <2>3, ComMove
  <2>5. In(T, t, Pages, f) = {}
    BY <1>3, <1>11, <1>14 DEF In, NoPage, Common
  <2>6. In(pte', t, Pages, f) = In(T, s, Pages, f)
    <3>1. ASSUME NEW q \in Pages
          PROVE  Common(pte'[t][q]) /\ pte'[t][q].f = f <=> Common(T[s][q]) /\ T[s][q].f = f
      <4>1. CASE q \in B
        <5>1. pte'[t][q] = Own(g[q]) /\ T[s][q] = pte[s][q]
          BY <1>3, <1>5, <1>6, <1>11, <4>1 DEF B
        <5>2. pte[s][q].k = "own"
          BY <1>3, <4>1
        <5> QED BY <5>1, <5>2 DEF Own, Common
      <4>2. CASE q \notin B
        <5>1. pte'[t][q] = T[s][q]
          BY <1>3, <1>5, <1>6, <1>11, <4>2
        <5> QED BY <5>1
      <4> QED BY <4>1, <4>2
    <3> QED BY <3>1 DEF In
  <2>7. Cardinality(In(T, t, Pages, f)) = 0
    BY <2>5, FS_EmptySet
  <2>8. /\ Cardinality(Com(pte, f)) \in Nat /\ Cardinality(In(pte, s, Pages, f)) \in Nat
        /\ Cardinality(In(T, s, Pages, f)) \in Nat
    BY Finite
  <2>9. Cardinality(Com(pte', f)) =
          Cardinality(Com(pte, f)) - Cardinality(In(pte, s, Pages, f)) + Cardinality(In(T, s, Pages, f))
            + Cardinality(In(T, s, Pages, f))
    BY <2>2, <2>4, <2>6, <2>7, <2>8
  <2>10. Cardinality(In(T, s, Pages, f)) = IF adopted(f) THEN 1 ELSE Cardinality(In(pte, s, Pages, f))
    BY <1>12
  <2>11. adopted(f) => Cardinality(Com(pte, f)) = 0 /\ Cardinality(In(pte, s, Pages, f)) = 0
    BY <1>12
  <2> QED BY <2>8, <2>9, <2>10, <2>11
<1>16. \A f \in Frames : refs'[f] \in Nat /\ (refs[f] = 0 /\ ~adopted(f) => refs'[f] = 0)
                         /\ (refs'[f] = 0 => refs[f] = 0 /\ ~adopted(f))
  <2> SUFFICES ASSUME NEW f \in Frames
               PROVE  /\ refs'[f] \in Nat /\ (refs[f] = 0 /\ ~adopted(f) => refs'[f] = 0)
                      /\ (refs'[f] = 0 => refs[f] = 0 /\ ~adopted(f))
    OBVIOUS
  <2>1. Cardinality(In(pte, s, Pages, f)) \in 0 .. refs[f]
    <3>1. TypedMem /\ Counted /\ Pages \in SUBSET Pages
      BY DEF Mem, Sound
    <3> QED BY <3>1, CountBound
  <2>2. refs[f] \in Nat
    BY <1>3
  <2> QED BY <1>7, <2>1, <2>2
<1>17. TypedMem'
  <2>1. \A u \in Spaces, q \in Pages : pte'[u][q] \in Entries
    <3> SUFFICES ASSUME NEW u \in Spaces, NEW q \in Pages PROVE pte'[u][q] \in Entries
      OBVIOUS
    <3>1. q \in A => Cow(pte[s][q].f) \in Entries
      BY <1>3, EntryTypes
    <3>2. q \in B => Own(g[q]) \in Entries
      BY <1>3, <1>4, EntryTypes
    <3> QED BY <1>3, <1>5, <1>6, <3>1, <3>2
  <2>2. pte' \in [Spaces -> [Pages -> Entries]]
    <3>1. \A u \in Spaces : DOMAIN pte'[u] = Pages /\ pte'[u] = [q \in Pages |-> pte'[u][q]]
      BY <1>2, <1>3 DEF Adopted
    <3>2. DOMAIN pte' = Spaces /\ pte' = [u \in Spaces |-> pte'[u]]
      BY <1>2, <1>3
    <3> QED BY <2>1, <3>1, <3>2
  <2>3. refs' \in [Frames -> Nat]
    BY <1>2, <1>16
  <2>4. live' \subseteq Spaces
    BY <1>3 DEF Mem, TypedMem
  <2> QED BY <1>3, <1>8, <1>9, <2>2, <2>3, <2>4 DEF Mem, TypedMem, FilePages, Indexes
<1>18. Counted'
  <2> SUFFICES ASSUME NEW f \in Frames
               PROVE  refs'[f] = Cardinality(Com(pte', f)) + Cardinality({i \in Indexes : frame[i] = f})
    BY <1>3 DEF Counted, Indexes, Com, Cells
  <2>1. refs[f] = Cardinality(Com(pte, f)) + Cardinality({i \in Indexes : frame[i] = f})
    BY DEF Mem, Sound, Counted
  <2>2. /\ Cardinality(Com(pte, f)) \in Nat /\ Cardinality(In(pte, s, Pages, f)) \in Nat
        /\ Cardinality({i \in Indexes : frame[i] = f}) \in Nat
    BY Finite, ObjectsFinite DEF Mem
  <2>3. adopted(f) => refs[f] = 0 /\ Cardinality(Com(pte, f)) = 0
    BY <1>12
  <2>4. Cardinality(Com(pte', f)) =
          IF adopted(f) THEN 2 ELSE Cardinality(Com(pte, f)) + Cardinality(In(pte, s, Pages, f))
    BY <1>15
  <2>5. refs'[f] = IF adopted(f) THEN 2 ELSE refs[f] + Cardinality(In(pte, s, Pages, f))
    BY <1>7
  <2> QED BY <2>1, <2>2, <2>3, <2>4, <2>5
\* An entry is one there was, the parent's adopted, or the child's copy.
<1>19. \A u \in Spaces, q \in Pages :
         \/ u # t /\ pte'[u][q] = pte[u][q] /\ ~(u = s /\ q \in A)
         \/ u \in {s, t} /\ q \in A /\ pte'[u][q].k = "cow" /\ pte'[u][q].f = pte[s][q].f
         \/ u = t /\ q \in B /\ pte'[u][q] = Own(g[q])
         \/ u = t /\ pte'[u][q] = pte[s][q] /\ pte[s][q].k # "own" /\ q \notin A
  BY <1>3, <1>5, <1>6, CowIs
<1>20. \A f \in free : /\ f \in Frames /\ refs[f] = 0 /\ ~adopted(f)
                       /\ \A u \in Spaces, q \in Pages : pte[u][q].f # f
  BY <1>3, <1>12 DEF Mem, Sound, FreeUnheld
<1>21. \A q \in B : Own(g[q]).k = "own" /\ Own(g[q]).f = g[q] /\ g[q] \in free /\ g[q] \in copies
  BY <1>4 DEF Own, copies
<1>22. OwnAlone'
  <2> SUFFICES ASSUME NEW u \in Spaces, NEW q \in Pages, pte'[u][q].k = "own"
               PROVE  /\ pte'[u][q].f \notin free' /\ refs'[pte'[u][q].f] = 0
                      /\ \A v \in Spaces, r \in Pages : pte'[v][r].f = pte'[u][q].f => v = u /\ r = q
    BY DEF OwnAlone
  <2>1. CASE u = t /\ q \in B /\ pte'[u][q] = Own(g[q])
    <3>1. PICK f \in free : f = g[q]
      BY <1>21, <2>1
    <3>2. pte'[u][q].f = f /\ f \in copies /\ refs'[f] = 0
      BY <1>16, <1>20, <1>21, <2>1, <3>1
    <3>3. ASSUME NEW v \in Spaces, NEW r \in Pages, pte'[v][r].f = f PROVE v = u /\ r = q
      <4>1. v = t /\ r \in B /\ pte'[v][r] = Own(g[r])
        BY <1>3, <1>19, <1>20, <3>3
      <4>2. g[r] = g[q]
        BY <1>21, <3>1, <3>3, <4>1
      <4> QED BY <1>4, <2>1, <4>1, <4>2
    <3> QED BY <1>8, <3>2, <3>3
  <2>2. CASE u # t /\ pte'[u][q] = pte[u][q] /\ ~(u = s /\ q \in A)
    <3>1. PICK f \in Frames : f = pte[u][q].f
      BY <1>3, <2>2, EntryIs
    <3>2. f \notin free /\ refs[f] = 0 /\ \A v \in Spaces, r \in Pages : pte[v][r].f = f => v = u /\ r = q
      BY <2>2, <3>1 DEF Mem, Sound, OwnAlone
    <3>3. ~adopted(f)
      BY <1>12, <2>2, <3>1
    <3>4. ASSUME NEW v \in Spaces, NEW r \in Pages, pte'[v][r].f = f PROVE v = u /\ r = q
      <4>1. CASE pte'[v][r] = pte[v][r]
        BY <3>2, <3>4, <4>1
      <4>2. CASE r \in A /\ pte'[v][r].f = pte[s][r].f
        BY <1>13, <3>3, <3>4, <4>2
      <4>3. CASE r \in B /\ pte'[v][r] = Own(g[r])
        BY <1>21, <3>2, <3>4, <4>3
      <4>4. CASE pte'[v][r] = pte[s][r] /\ pte[s][r].k # "own"
        <5>1. u = s /\ r = q
          BY <3>2, <3>4, <4>4
        <5> QED BY <2>2, <4>4, <5>1
      <4> QED BY <1>19, <4>1, <4>2, <4>3, <4>4
    <3> QED BY <1>8, <1>16, <2>2, <3>1, <3>2, <3>3, <3>4
  <2> QED BY <1>19, <2>1, <2>2
<1>23. FreeUnheld'
  <2> SUFFICES ASSUME NEW f \in free \ copies
               PROVE  refs'[f] = 0 /\ \A u \in Spaces, q \in Pages : pte'[u][q].f # f
    BY <1>8 DEF FreeUnheld
  <2> QED BY <1>3, <1>16, <1>19, <1>20, <1>21
<1>24. NoneLost'
  <2> SUFFICES ASSUME NEW f \in Frames \ free', refs'[f] = 0
               PROVE  \E u \in Spaces, q \in Pages : pte'[u][q] = Own(f)
    BY DEF NoneLost
  <2>1. CASE f \in free
    <3>1. PICK q \in B : g[q] = f
      BY <1>8, <2>1
    <3> QED BY <1>3, <1>5, <3>1
  <2>2. CASE f \notin free
    <3>1. refs[f] = 0 /\ ~adopted(f)
      BY <1>16
    <3>2. PICK u \in Spaces, q \in Pages : pte[u][q] = Own(f)
      BY <2>2, <3>1 DEF Mem, Sound, NoneLost
    <3>3. pte[u][q].k = "own" /\ pte[u][q].f = f
      BY <3>2 DEF Own
    <3>4. u # t
      BY <1>14, <3>3 DEF NoPage
    <3>5. ~(u = s /\ q \in A)
      BY <1>13, <3>1, <3>3
    <3> QED BY <1>5, <1>6, <3>2, <3>4, <3>5
  <2> QED BY <2>1, <2>2
<1>25. KindsApart' /\ ObjectApart'
  <2>1. ASSUME NEW f \in Frames, Writable(f)'
        PROVE  key'[f] = None /\ \A u \in Spaces, q \in Pages : pte'[u][q] # Cow(f)
    <3>1. Writable(f)
      <4>1. ASSUME NEW u \in Spaces, NEW q \in Pages, pte'[u][q] = Shm(f) PROVE Writable(f)
        <5>1. pte'[u][q].k = "shm"
          BY <4>1 DEF Shm
        <5>2. pte[u][q] = Shm(f) \/ pte[s][q] = Shm(f)
          BY <1>19, <1>21, <4>1, <5>1
        <5> QED BY <5>2 DEF Writable
      <4> QED BY <1>3, <2>1, <4>1 DEF Writable, Indexes
    <3>2. key[f] = None /\ \A u \in Spaces, q \in Pages : pte[u][q] # Cow(f)
      BY <3>1 DEF Mem, Sound, KindsApart
    <3>3. ~adopted(f)
      <4>1. CASE \E i \in Indexes : frame[i] = f
        BY <1>12, <4>1
      <4>2. ASSUME NEW u \in Spaces, NEW q \in Pages, pte[u][q] = Shm(f), adopted(f) PROVE FALSE
        <5>1. pte[u][q].f = f /\ pte[u][q].k = "shm"
          BY <4>2 DEF Shm
        <5>2. u = s /\ q \in A
          BY <1>12, <4>2, <5>1
        <5> QED BY <1>3, <5>1, <5>2
      <4> QED BY <3>1, <4>1, <4>2 DEF Writable
    <3>4. ASSUME NEW u \in Spaces, NEW q \in Pages, pte'[u][q] = Cow(f) PROVE FALSE
      <4>1. pte'[u][q].k = "cow" /\ pte'[u][q].f = f
        BY <3>4, CowIs
      <4> QED BY <1>13, <1>19, <1>21, <3>2, <3>3, <3>4, <4>1
    <3> QED BY <1>3, <3>2, <3>4
  <2> QED BY <1>3, <2>1 DEF KindsApart, ObjectApart, Mem, Sound, Indexes
<1>26. GoneEmpty'
  BY <1>3, <1>5 DEF Mem, Sound, GoneEmpty
<1>27. KeyTrue'
  <2> SUFFICES ASSUME NEW f \in Frames, key[f] # None
               PROVE  refs'[f] > 0 /\ data'[f] = disk[key[f]]
    BY <1>3 DEF KeyTrue
  <2>1. refs[f] > 0 /\ data[f] = disk[key[f]]
    BY DEF Mem, Sound, KeyTrue
  <2>2. f \notin copies
    BY <1>8, <1>20, <2>1
  <2> QED BY <1>8, <1>16, <2>1, <2>2
<1> QED BY <1>17, <1>18, <1>22, <1>23, <1>24, <1>25, <1>26, <1>27 DEF Mem, Sound
----------------------------------------------------------------------------
(* The promises                                                            *)

LEMMA Trimming ==
  ASSUME NEW M \in SUBSET Mappings, NEW a \in Pages, NEW b \in Pages
  PROVE  Trimmed(M, a, b) \in SUBSET Mappings
<1>1. NPages \in Nat /\ a \in 1 .. NPages /\ b \in 1 .. NPages
  BY PageConstants DEF Pages
<1>2. ASSUME NEW n \in M
      PROVE  /\ n \in Mappings /\ n.at \in 1 .. NPages /\ n.end \in 1 .. NPages /\ n.at <= n.end
             /\ n.from \in Nat \ {0}
  BY DEF Mappings, Pages
<1>3. ASSUME NEW n \in M, n.at < a, a <= n.end PROVE [n EXCEPT !.end = a - 1] \in Mappings
  <2>1. a - 1 \in Pages /\ n.at <= a - 1
    BY <1>1, <1>2, <1>3 DEF Pages
  <2> QED BY <1>2, <2>1 DEF Mappings
<1>4. ASSUME NEW n \in M, a <= n.at, n.at <= b, b < n.end
      PROVE  [n EXCEPT !.at = b + 1, !.from = @ + b + 1 - n.at] \in Mappings
  <2>1. b + 1 \in Pages /\ b + 1 <= n.end /\ n.from + b + 1 - n.at \in Nat \ {0}
    BY <1>1, <1>2, <1>4 DEF Pages
  <2> QED BY <1>2, <2>1 DEF Mappings
<1> QED BY <1>2, <1>3, <1>4 DEF Trimmed

LEMMA Promising ==
  ASSUME TypedMaps, NEW s \in Spaces, NEW a \in Pages, NEW b \in Pages, NEW more \in SUBSET Mappings,
         Promise(s, a, b, more), opens' = opens
  PROVE  TypedMaps'
<1>1. Trimmed(maps[s], a, b) \in SUBSET Mappings
  BY Trimming DEF TypedMaps
<1> QED BY <1>1 DEF TypedMaps, Promise

LEMMA UsedPages ==
  ASSUME TypedMem
  PROVE  \A p \in Used : p \in Pages /\ \A b \in p .. setup.used : b \in Pages /\ p .. b \in SUBSET Pages /\ p <= b
BY PageConstants DEF TypedMem, Used, Pages

----------------------------------------------------------------------------
(* One step of each kind                                                   *)

LEMMA StutterMem ==
  ASSUME Mem, UNCHANGED <<setup, live, pte, refs, key, free, data, disk, frame>>
  PROVE  Mem'
BY DEF Mem, TypedMem, FilePages, Indexes, Sound, Counted, OwnAlone, FreeUnheld, NoneLost, KindsApart, Writable, ObjectApart, GoneEmpty, KeyTrue, Com, Cells

LEMMA WriteFaultMem ==
  ASSUME Mem, NEW s \in Spaces, NEW p \in Pages, WriteFault(s, p), UNCHANGED setup
  PROVE  Mem'
<1>1. s \in live /\ UNCHANGED <<live, disk, frame>> /\ pte[s][p] \in Entries /\ pte[s][p].k = "cow"
  BY DEF WriteFault, Mem, TypedMem
<1>2. PICK v \in Vals : v = data[pte[s][p].f]
  BY <1>1, EntryIs DEF Mem, TypedMem
<1>3. CASE Take(s, p, v)
  BY <1>1, <1>3, TakeMem
<1>4. CASE Copy(s, p, v)
  BY <1>1, <1>4, CopyMem
<1> QED BY <1>2, <1>3, <1>4 DEF WriteFault

LEMMA ClaimMem ==
  ASSUME Mem, NEW s \in live, NEW p \in Pages, NEW v \in Vals, Claim(s, p, v) \/ NotClaimed(s, p),
         UNCHANGED <<setup, live, disk, frame>>
  PROVE  Mem'
<1>1. CASE Take(s, p, v)
  BY <1>1, TakeMem
<1>2. CASE Copy(s, p, v)
  BY <1>2, CopyMem
<1>3. CASE Fresh(s, p, v)
  BY <1>3, FreshMem
<1>4. CASE pte[s][p].k = "own" /\ data' = [data EXCEPT ![pte[s][p].f] = v] /\ UNCHANGED <<pte, refs, key, free>>
  BY <1>4, WriteMem
<1>5. CASE UNCHANGED <<pte, data, refs, key, free>>
  BY <1>5, StutterMem
<1> QED BY <1>1, <1>2, <1>3, <1>4, <1>5 DEF Claim, NotClaimed

LEMMA EmptiedMem ==
  ASSUME Mem, NEW s \in live, NEW P \in SUBSET Pages, PagesBack(s, P), pte' = Emptied(s, P),
         live' = live \/ (live' = live \ {s} /\ P = Pages),
         UNCHANGED <<setup, data, disk, frame>>
  PROVE  Mem'
<1>1. s \in Spaces /\ pte \in [Spaces -> [Pages -> Entries]] /\ NoPage \in Entries
  BY EntryTypes DEF Mem, TypedMem
<1>2. pte' \in [Spaces -> [Pages -> Entries]]
  BY <1>1 DEF Emptied
<1>3. \A t \in Spaces, q \in Pages : t # s \/ q \notin P => pte'[t][q] = pte[t][q]
  BY <1>1 DEF Emptied
<1>4. \A p \in P : pte'[s][p] = NoPage
  BY <1>1 DEF Emptied
<1> QED BY <1>2, <1>3, <1>4, BackMem

LEMMA MapDeviceMem ==
  ASSUME Mem, NEW s \in Spaces, NEW p \in Pages, MapDevice(s, p), UNCHANGED setup
  PROVE  Mem'
<1>1. /\ s \in live /\ PagesBack(s, {p}) /\ pte' = [pte EXCEPT ![s][p] = Dev]
      /\ UNCHANGED <<setup, live, data, disk, frame>> /\ pte \in [Spaces -> [Pages -> Entries]]
  BY DEF MapDevice, Mem, TypedMem
<1>2. PICK P \in SUBSET Pages : P = {p}
  OBVIOUS
<1>3. pte' \in [Spaces -> [Pages -> Entries]]
  BY <1>1, EntryTypes
<1>4. \A t \in Spaces, q \in Pages : t # s \/ q \notin P => pte'[t][q] = pte[t][q]
  BY <1>1, <1>2
<1>5. \A q \in P : pte'[s][q] \in {NoPage, Dev}
  BY <1>1, <1>2
<1>6. PagesBack(s, P)
  BY <1>1, <1>2
<1> QED BY <1>1, <1>3, <1>4, <1>5, <1>6, BackMem

LEMMA FileFaultMem ==
  ASSUME Mem, TypedMaps, NEW s \in Spaces, NEW p \in Pages, FileFault(s, p), UNCHANGED setup
  PROVE  Mem'
<1>1. /\ s \in live /\ pte[s][p] = NoPage /\ Promised(s, p) # {}
      /\ UNCHANGED <<setup, live, disk, frame>>
      /\ FillShared(s, p) \/ \E lost : FillOwn(s, p, lost)
  BY DEF FileFault
<1>2. CASE FillShared(s, p)
  BY <1>1, <1>2, FillSharedMem
<1>3. ASSUME NEW lost, FillOwn(s, p, lost) PROVE Mem'
  BY <1>1, <1>3, FillOwnMem
<1> QED BY <1>1, <1>2, <1>3

----------------------------------------------------------------------------
(* The invariant is kept                                                   *)

LEMMA OtherSteps ==
  ASSUME IInv, Others, UNCHANGED setup
  PROVE  Mem' /\ TypedMaps'
<1>1. Mem /\ TypedMem /\ TypedMaps /\ maps \in [Spaces -> SUBSET Mappings] /\ opens \in 0 .. MaxOpen
  BY DEF IInv, Mem, TypedMaps
<1>2. ASSUME UNCHANGED <<maps, opens>> PROVE TypedMaps'
  BY <1>1, <1>2 DEF TypedMaps
<1>3. {} \in SUBSET Mappings
  OBVIOUS
<1>4. ASSUME NEW s \in Spaces, Exec(s) PROVE Mem' /\ TypedMaps'
  <2>1. /\ s \in live /\ PagesBack(s, Pages) /\ pte' = Emptied(s, Pages) /\ Pages \in SUBSET Pages
        /\ maps' = [maps EXCEPT ![s] = {}] /\ UNCHANGED <<setup, live, data, disk, opens, frame>>
    BY <1>4 DEF Exec
  <2>2. Mem'
    BY <1>1, <2>1, EmptiedMem
  <2> QED BY <1>1, <2>1, <2>2 DEF TypedMaps
<1>5. ASSUME NEW s \in Spaces, Exit(s) PROVE Mem' /\ TypedMaps'
  <2>1. /\ s \in live /\ PagesBack(s, Pages) /\ pte' = Emptied(s, Pages) /\ Pages \in SUBSET Pages
        /\ maps' = [maps EXCEPT ![s] = {}] /\ live' = live \ {s} /\ UNCHANGED <<setup, data, disk, opens, frame>>
    BY <1>5 DEF Exit
  <2>2. Mem'
    BY <1>1, <2>1, EmptiedMem
  <2> QED BY <1>1, <2>1, <2>2 DEF TypedMaps
<1>6. ASSUME NEW s \in Spaces, ForkFails(s) PROVE Mem' /\ TypedMaps'
  BY <1>1, <1>2, <1>6, ForkFailsMem DEF ForkFails
<1>7. ASSUME NEW s \in Spaces, NEW t \in Spaces, Fork(s, t) PROVE Mem' /\ TypedMaps'
  <2>1. Mem'
    BY <1>1, <1>7, ForkMem
  <2>2. maps' = [maps EXCEPT ![t] = maps[s]] /\ opens' = opens
    BY <1>7 DEF Fork
  <2> QED BY <1>1, <2>1, <2>2 DEF TypedMaps
<1>8. ASSUME NEW s \in Spaces, NEW p \in Pages, WriteFault(s, p) PROVE Mem' /\ TypedMaps'
  BY <1>1, <1>2, <1>8, WriteFaultMem DEF WriteFault
<1>9. ASSUME NEW s \in Spaces, NEW p \in Pages, TouchFault(s, p) PROVE Mem' /\ TypedMaps'
  <2>1. s \in live /\ Fresh(s, p, 0) /\ 0 \in Vals /\ UNCHANGED <<setup, live, maps, disk, opens, frame>>
    BY <1>9, PageConstants DEF TouchFault
  <2> QED BY <1>1, <1>2, <2>1, FreshMem
<1>10. ASSUME NEW s \in Spaces, NEW p \in Pages, FileFault(s, p) PROVE Mem' /\ TypedMaps'
  BY <1>1, <1>2, <1>10, FileFaultMem DEF FileFault
<1>11. ASSUME NEW s \in Spaces, NEW p \in Pages, MapDevice(s, p) PROVE Mem' /\ TypedMaps'
  <2>1. Promise(s, p, p, {}) /\ opens' = opens
    BY <1>11 DEF MapDevice
  <2> QED BY <1>1, <1>3, <1>11, <2>1, MapDeviceMem, Promising
<1>12. ASSUME NEW s \in Spaces, NEW p \in Pages, NEW i \in Indexes, MapShared(s, p, i) PROVE Mem' /\ TypedMaps'
  <2>1. Promise(s, p, p, {}) /\ opens' = opens /\ s \in live
    BY <1>12 DEF MapShared
  <2> QED BY <1>1, <1>3, <1>12, <2>1, MapSharedMem, Promising
<1>13. ASSUME NEW s \in Spaces, NEW a \in Pages, NEW b \in Pages, a .. b \in SUBSET Pages, Unmap(s, a, b)
       PROVE  Mem' /\ TypedMaps'
  <2>1. /\ Promise(s, a, b, {}) /\ s \in live /\ PagesBack(s, a .. b) /\ pte' = Emptied(s, a .. b)
        /\ UNCHANGED <<setup, live, data, disk, opens, frame>>
    BY <1>13 DEF Unmap
  <2>2. PICK P \in SUBSET Pages : P = a .. b
    BY <1>13
  <2>3. Mem'
    BY <1>1, <2>1, <2>2, EmptiedMem
  <2> QED BY <1>1, <1>3, <2>1, <2>3, Promising
<1>14. ASSUME NEW s \in Spaces, NEW a \in Pages, NEW b \in Pages, NEW i \in Nat \ {0}, a <= b, MapFile(s, a, b, i)
       PROVE  Mem' /\ TypedMaps'
  <2>1. /\ Promise(s, a, b, {[at |-> a, end |-> b, from |-> i]})
        /\ UNCHANGED <<setup, live, pte, refs, key, free, data, disk, opens, frame>>
    BY <1>14 DEF MapFile
  <2>2. {[at |-> a, end |-> b, from |-> i]} \in SUBSET Mappings
    BY <1>14 DEF Mappings
  <2> QED BY <1>1, <2>1, <2>2, StutterMem, Promising
<1>15. ASSUME OpenMemory PROVE Mem' /\ TypedMaps'
  <2>1. /\ opens < MaxOpen /\ opens' = opens + 1
        /\ UNCHANGED <<setup, live, pte, maps, refs, key, free, data, disk, frame>>
    BY <1>15 DEF OpenMemory
  <2>2. Mem'
    BY <1>1, <2>1, StutterMem
  <2> QED BY <1>1, <2>1, <2>2, PageConstants DEF TypedMaps
<1>16. ASSUME CloseMemory PROVE Mem' /\ TypedMaps'
  <2>1. opens > 0 /\ opens' = opens - 1 /\ maps' = maps
    BY <1>16 DEF CloseMemory
  <2>2. Mem'
    BY <1>1, <1>16, CloseMemoryMem
  <2> QED BY <1>1, <2>1, <2>2, PageConstants DEF TypedMaps
<1>17. ASSUME NEW i \in Indexes, NEW v \in Vals, WriteMemory(i, v) PROVE Mem' /\ TypedMaps'
  BY <1>1, <1>2, <1>17, WriteMemoryMem DEF WriteMemory
<1>18. ASSUME NEW i \in 1 .. FilePages, NEW v \in Vals, FileWrite(i, v) PROVE Mem' /\ TypedMaps'
  BY <1>1, <1>2, <1>18, FileWriteMem DEF FileWrite
<1>19. CASE \E s \in Spaces : Exec(s) \/ Exit(s) \/ ForkFails(s)
  BY <1>4, <1>5, <1>6, <1>19
<1>20. CASE \E s, t \in Spaces : Fork(s, t)
  BY <1>7, <1>20
<1>21. ASSUME NEW s \in Spaces, NEW p \in Used,
              \/ WriteFault(s, p) \/ TouchFault(s, p) \/ FileFault(s, p)
              \/ MapDevice(s, p)
              \/ \E i \in Indexes : MapShared(s, p, i)
              \/ \E b \in p .. setup.used :
                   \/ Unmap(s, p, b)
                   \/ \E i \in 1 .. FilePages : MapFile(s, p, b, i)
       PROVE  Mem' /\ TypedMaps'
  <2>1. p \in Pages /\ \A b \in p .. setup.used : b \in Pages /\ p .. b \in SUBSET Pages /\ p <= b
    BY <1>1, UsedPages
  <2>2. CASE \E b \in p .. setup.used : Unmap(s, p, b)
    BY <1>13, <2>1, <2>2
  <2>3. CASE \E b \in p .. setup.used : \E i \in 1 .. FilePages : MapFile(s, p, b, i)
    <3>1. \A i \in 1 .. FilePages : i \in Nat \ {0}
      OBVIOUS
    <3> QED BY <1>14, <2>1, <2>3, <3>1
  <2> QED BY <1>8, <1>9, <1>10, <1>11, <1>12, <1>21, <2>1, <2>2, <2>3
<1>22. CASE OpenMemory \/ CloseMemory \/ (\E i \in Indexes, v \in Vals : WriteMemory(i, v))
              \/ (\E i \in 1 .. FilePages, v \in Vals : FileWrite(i, v))
  BY <1>15, <1>16, <1>17, <1>18, <1>22
<1> QED BY <1>19, <1>20, <1>21, <1>22 DEF Others
LEMMA StepMem ==
  ASSUME IInv, Steps, UNCHANGED setup
  PROVE  IInv'
<1>1. Mem /\ TypedMem /\ TypedMaps /\ maps \in [Spaces -> SUBSET Mappings] /\ opens \in 0 .. MaxOpen
  BY DEF IInv, Mem, TypedMaps
<1>2. {} \in SUBSET Mappings
  OBVIOUS
<1>3. CASE Others /\ did' = Nothing
  <2>1. did'.P \subseteq Pages
    BY <1>3 DEF Nothing
  <2> QED BY <1>3, <2>1, OtherSteps DEF IInv
<1>4. ASSUME NEW s \in Spaces, NEW p \in Used, did' = [op |-> "write", s |-> s, P |-> {p}],
             MapAnon(s, p) \/ (\E v \in Vals : Write(s, p, v)) \/ (\E i \in 1 .. FilePages + 1 : MapFileNow(s, p, i))
      PROVE  IInv'
  <2>1. p \in Pages /\ did'.P \subseteq Pages
    BY <1>1, <1>4, UsedPages
  <2>2. CASE MapAnon(s, p)
    <3>1. /\ s \in live /\ (Claim(s, p, 0) \/ NotClaimed(s, p))
          /\ Promise(s, p, p, {}) /\ UNCHANGED <<setup, live, disk, opens, frame>>
      BY <2>2 DEF MapAnon
    <3>2. 0 \in Vals
      BY PageConstants
    <3>3. Mem'
      BY <1>1, <2>1, <3>1, <3>2, ClaimMem
    <3>4. TypedMaps'
      BY <1>1, <1>2, <2>1, <3>1, Promising
    <3> QED BY <2>1, <3>3, <3>4 DEF IInv
  <2>3. ASSUME NEW v \in Vals, Write(s, p, v) PROVE IInv'
    <3>1. /\ s \in live /\ pte[s][p].k \in {"own", "shm"} /\ data' = [data EXCEPT ![pte[s][p].f] = v]
          /\ UNCHANGED <<setup, live, pte, maps, refs, key, free, disk, opens, frame>>
      BY <2>3 DEF Write
    <3>2. Mem'
      BY <1>1, <2>1, <3>1, WriteMem
    <3>3. TypedMaps'
      BY <1>1, <3>1 DEF TypedMaps
    <3> QED BY <2>1, <3>2, <3>3 DEF IInv
  <2>4. ASSUME NEW i \in 1 .. FilePages + 1, MapFileNow(s, p, i) PROVE IInv'
    <3>1. PICK v : v = IF i <= FilePages THEN disk[i] ELSE 0
      OBVIOUS
    <3>2. /\ s \in live /\ (Claim(s, p, v) \/ NotClaimed(s, p))
          /\ Promise(s, p, p, {}) /\ UNCHANGED <<setup, live, disk, opens, frame>>
      BY <2>4, <3>1 DEF MapFileNow
    <3>3. v \in Vals
      <4>1. FilePages \in Nat
        BY <1>1, PageConstants DEF TypedMem, FilePages
      <4> QED BY <1>1, <3>1, <4>1, PageConstants DEF TypedMem
    <3>4. Mem'
      BY <1>1, <2>1, <3>2, <3>3, ClaimMem
    <3>5. TypedMaps'
      BY <1>1, <1>2, <2>1, <3>2, Promising
    <3> QED BY <2>1, <3>4, <3>5 DEF IInv
  <2> QED BY <1>4, <2>2, <2>3, <2>4
<1>5. ASSUME NEW s \in Spaces, NEW a \in Used, NEW b \in Used, Madvise(s, a, b) PROVE IInv'
  <2>1. a .. b \subseteq Pages
    <3>1. a \in Pages /\ b \in Pages /\ NPages \in Nat
      BY <1>1, UsedPages, PageConstants
    <3> QED BY <3>1 DEF Pages
  <2>2. PICK P \in SUBSET Pages : P = {p \in a .. b : pte[s][p].k = "own"}
    BY <2>1
  <2>3. /\ s \in live /\ PagesBack(s, P) /\ pte' = Emptied(s, P)
        /\ did' = [op |-> "discard", s |-> s, P |-> a .. b]
        /\ UNCHANGED <<setup, live, maps, data, disk, opens, frame>>
    BY <1>5, <2>2 DEF Madvise
  <2>4. Mem'
    BY <1>1, <2>3, EmptiedMem
  <2>5. TypedMaps' /\ did'.P \subseteq Pages
    BY <1>1, <2>1, <2>3 DEF TypedMaps
  <2> QED BY <2>4, <2>5 DEF IInv
<1> QED BY <1>3, <1>4, <1>5 DEF Steps

LEMMA InitIInv == Init => IInv
<1> SUFFICES ASSUME Init PROVE IInv
  OBVIOUS
<1>1. /\ setup \in Setups /\ pte = [s \in Spaces |-> [p \in Pages |-> NoPage]]
      /\ refs = [f \in Frames |-> 0] /\ key = [f \in Frames |-> None] /\ free = Frames
      /\ data = [f \in Frames |-> 0] /\ disk = [i \in 1 .. FilePages |-> 1]
      /\ frame = [i \in Indexes |-> None] /\ did = Nothing /\ opens = 0
      /\ maps = [s \in Spaces |-> {}] /\ live \subseteq Spaces
  BY DEF Init
<1>2. None \notin Frames /\ 0 \in Vals /\ 1 \in Vals /\ MaxOpen \in Nat
  BY PageConstants
<1>3. NoPage.k = "none" /\ NoPage.f = None /\ ~Common(NoPage) /\ NoPage \in Entries
  BY EntryTypes DEF NoPage, Common
<1>4. \A s \in Spaces, p \in Pages : pte[s][p] = NoPage
  BY <1>1
<1>5. TypedMem
  BY <1>1, <1>2, <1>3 DEF TypedMem
<1>6. TypedMaps /\ did.P \subseteq Pages
  BY <1>1, <1>2 DEF TypedMaps, Nothing
<1>7. Counted
  <2> SUFFICES ASSUME NEW f \in Frames
               PROVE  refs[f] = Cardinality(Com(pte, f)) + Cardinality({i \in Indexes : frame[i] = f})
    BY DEF Counted
  <2>1. Com(pte, f) = {} /\ {i \in Indexes : frame[i] = f} = {}
    BY <1>1, <1>2, <1>3, <1>4 DEF Com, Cells
  <2>2. Cardinality(Com(pte, f)) = 0 /\ Cardinality({i \in Indexes : frame[i] = f}) = 0
    BY <2>1, FS_EmptySet
  <2> QED BY <1>1, <2>2
<1>8. OwnAlone /\ FreeUnheld /\ NoneLost /\ GoneEmpty /\ KeyTrue
  BY <1>1, <1>2, <1>3, <1>4 DEF OwnAlone, FreeUnheld, NoneLost, GoneEmpty, KeyTrue
<1>9. KindsApart /\ ObjectApart
  BY <1>1, <1>2, <1>3, <1>4 DEF KindsApart, ObjectApart, Writable, Shm, Cow
<1> QED BY <1>5, <1>6, <1>7, <1>8, <1>9 DEF IInv, Mem, Sound

LEMMA NextIInv == IInv /\ [Next]_vars => IInv'
<1> SUFFICES ASSUME IInv, [Next]_vars PROVE IInv'
  OBVIOUS
<1>1. CASE Next
  BY <1>1, StepMem DEF Next
<1>2. CASE UNCHANGED vars
  <2>1. UNCHANGED <<setup, live, pte, maps, refs, key, free, data, disk, opens, frame, did>>
    BY <1>2 DEF vars
  <2>2. Mem'
    BY <2>1, StutterMem DEF IInv
  <2> QED BY <2>1, <2>2 DEF IInv, TypedMaps
<1> QED BY <1>1, <1>2

\* The memory of processes is what the invariant says, whatever they do.
THEOREM MemorySound == Spec => []IInv
<1> QED BY InitIInv, NextIInv, PTL DEF Spec

LEMMA IInvTypes == IInv => TypeOK
<1> SUFFICES ASSUME IInv PROVE TypeOK
  OBVIOUS
<1>1. TypedMem /\ maps \in [Spaces -> SUBSET Mappings] /\ opens \in 0 .. MaxOpen /\ did.P \subseteq Pages
  BY DEF IInv, Mem, TypedMaps
<1>2. \A s \in Spaces : \A m \in maps[s] : m.at \in Pages /\ m.end \in m.at .. NPages
  BY <1>1, PageConstants DEF Mappings, Pages
<1> QED BY <1>1, <1>2 DEF TypeOK, TypedMem

\* Every variable has its type.
THEOREM PageTypes == Spec => []TypeOK
<1> QED BY IInvTypes, MemorySound, PTL

\* A page found by its place in the file holds what the file holds there now
\* (shared_find, shared_written, share.c).
THEOREM KeysAreTrue == Spec => []KeyTrue
<1>1. IInv => KeyTrue
  BY DEF IInv, Mem, Sound
<1> QED BY <1>1, MemorySound, PTL

\* A page of memory is free, or one process's own, or in common with as many
\* holders as share.c counts: none is lost, none is given back while somebody
\* has it.
THEOREM PagesHaveOnePlace == Spec => []OnePlace
<1>1. IInv => OnePlace
  <2> SUFFICES ASSUME IInv PROVE OnePlace
    OBVIOUS
  <2>1. TypeOK /\ TypedMem /\ Counted /\ OwnAlone /\ FreeUnheld /\ NoneLost
    BY IInvTypes DEF IInv, Mem, Sound
  <2>2. CountedRight
    <3> SUFFICES ASSUME NEW f \in Frames
                 PROVE  refs[f] = Cardinality({h \in Holders(f) : Common(pte[h[1]][h[2]])}) + Cardinality(ObjectsOf(f))
      BY DEF CountedRight
    <3>1. {h \in Holders(f) : Common(pte[h[1]][h[2]])} = Com(pte, f)
      BY DEF Holders, Com, Cells
    <3> QED BY <2>1, <3>1 DEF Counted, ObjectsOf
  <2>3. ASSUME NEW f \in Frames
        PROVE  LET own == {h \in Holders(f) : pte[h[1]][h[2]].k = "own"}
               IN \/ f \in free /\ Holders(f) = {} /\ refs[f] = 0
                  \/ f \notin free /\ Cardinality(own) = 1 /\ Holders(f) = own /\ refs[f] = 0
                  \/ f \notin free /\ own = {} /\ refs[f] > 0
    <3> DEFINE own == {h \in Holders(f) : pte[h[1]][h[2]].k = "own"}
    <3>1. CASE f \in free
      <4>1. refs[f] = 0 /\ Holders(f) = {}
        BY <2>1, <3>1 DEF FreeUnheld, Holders
      <4> QED BY <3>1, <4>1
    <3>2. CASE f \notin free /\ refs[f] = 0
      <4>1. PICK s \in Spaces, p \in Pages : pte[s][p] = Own(f)
        BY <2>1, <3>2 DEF NoneLost
      <4>2. pte[s][p].k = "own" /\ pte[s][p].f = f
        BY <4>1 DEF Own
      <4>3. \A t \in Spaces, q \in Pages : pte[t][q].f = f => t = s /\ q = p
        BY <2>1, <4>2 DEF OwnAlone
      <4>4. Holders(f) = {<<s, p>>} /\ own = {<<s, p>>}
        BY <4>2, <4>3 DEF Holders
      <4>5. Cardinality(own) = 1
        BY <4>4, FS_Singleton
      <4> QED BY <3>2, <4>4, <4>5
    <3>3. CASE f \notin free /\ refs[f] # 0
      <4>1. own = {}
        BY <2>1, <3>3 DEF OwnAlone, Holders
      <4>2. refs[f] > 0
        BY <2>1, <3>3 DEF TypedMem
      <4> QED BY <3>3, <4>1, <4>2
    <3> QED BY <3>1, <3>2, <3>3
  <2> QED BY <2>1, <2>2, <2>3 DEF OnePlace
<1> QED BY <1>1, MemorySound, PTL

----------------------------------------------------------------------------
(***************************************************************************)
(* Refinement: the pages in common, counted and copied on the first write  *)
(* (vm.c, share.c), are to every process as if they were its own:          *)
(* SharedPages implements OwnMemory.                                       *)
(***************************************************************************)

(* What a process sees, entry by entry.                                    *)

See(e, d) == CASE e.k = "none" -> Untouched
               [] e.k = "dev"  -> Screen
               [] e.k = "shm"  -> e.f
               [] OTHER -> d[e.f]
ForAll(T, f) == \E s \in Spaces, p \in Pages : T[s][p] = Shm(f)

\* An object stays as it was while it is mapped.
Kept == \A f \in Frames : ForAll(pte, f) /\ ForAll(pte', f) => data'[f] = data[f]
Same(s, p) == See(pte'[s][p], data') = See(pte[s][p], data)

LEMMA SeeIs ==
  ASSUME NEW e \in Entries, NEW d \in [Frames -> Vals]
  PROVE  /\ e.k = "none" => See(e, d) = Untouched
         /\ e.k = "dev" => See(e, d) = Screen
         /\ e.k = "shm" => See(e, d) = e.f /\ e.f \in Frames /\ e = Shm(e.f)
         /\ e.k \in {"own", "cow"} => See(e, d) = d[e.f] /\ d[e.f] \in Vals /\ e.f \in Frames
         /\ e.k \in {"none", "dev", "shm", "own", "cow"}
BY EntryIs DEF See

LEMMA MappedIs ==
  ASSUME NEW T \in [Spaces -> [Pages -> Entries]], NEW d \in [Frames -> Vals], NEW f \in Frames
  PROVE  (\E s \in Spaces, p \in Pages : See(T[s][p], d) = f) <=> ForAll(T, f)
<1>1. ASSUME NEW s \in Spaces, NEW p \in Pages PROVE See(T[s][p], d) = f <=> T[s][p] = Shm(f)
  <2>1. PICK e \in Entries : e = T[s][p]
    OBVIOUS
  <2>2. f \notin Vals /\ f # Untouched /\ f # Screen
    BY PageConstants
  <2>3. e = Shm(f) => e.k = "shm" /\ e.f = f
    BY DEF Shm
  <2> QED BY <2>1, <2>2, <2>3, SeeIs
<1> QED BY <1>1 DEF ForAll

Typed == pte \in [Spaces -> [Pages -> Entries]] /\ data \in [Frames -> Vals]

LEMMA MappedNow ==
  ASSUME Typed, NEW f \in Frames
  PROVE  Promises!Mapped(f) <=> ForAll(pte, f)
BY MappedIs DEF Promises!Mapped, See, Typed

LEMMA MappedNext ==
  ASSUME Typed', NEW f \in Frames
  PROVE  Promises!Mapped(f)' <=> ForAll(pte', f)
BY MappedIs DEF Promises!Mapped, See, Typed

LEMMA KeptIs ==
  ASSUME Typed, Typed', Kept
  PROVE  \A f \in Frames : Promises!Mapped(f) /\ Promises!Mapped(f)' => data'[f] = data[f]
BY MappedNow, MappedNext DEF Kept

----------------------------------------------------------------------------
(* The steps of OwnMemory, in terms of entries.                            *)

\* A process touches pages it never did, or nothing is seen to change.
LEMMA AsTouch ==
  ASSUME Typed, Typed', Kept, NEW s \in Spaces, s \in live, live' = live,
         \A t \in Spaces \ {s}, p \in Pages : Same(t, p),
         \A p \in Pages : Same(s, p) \/ (See(pte[s][p], data) = Untouched /\ See(pte'[s][p], data') \in Vals)
  PROVE  Promises!Next
<1>1. Promises!Touch(s)
  BY KeptIs DEF Promises!Touch, Promises!StepOf, Promises!KeptBut, Same, See
<1> QED BY <1>1 DEF Promises!Next

\* It writes in a page of its own.
LEMMA AsWrite ==
  ASSUME Typed, Typed', Kept, NEW s \in Spaces, s \in live, live' = live,
         did'.op = "write", did'.s = s,
         \A t \in Spaces \ {s}, p \in Pages : Same(t, p),
         \A p \in Pages : Same(s, p) \/ (p \in did'.P /\ See(pte'[s][p], data') \in Vals)
  PROVE  Promises!Next
<1>1. Promises!Write(s)
  BY KeptIs DEF Promises!Write, Promises!StepOf, Promises!KeptBut, Same, See
<1> QED BY <1>1 DEF Promises!Next

\* It lets go of pages, or maps the screen over some.
LEMMA AsForget ==
  ASSUME Typed, Typed', Kept, NEW s \in Spaces, s \in live, live' = live,
         \A t \in Spaces \ {s}, p \in Pages : Same(t, p),
         \A p \in Pages : Same(s, p) \/ See(pte'[s][p], data') \in {Untouched, Screen}
  PROVE  Promises!Next
<1>1. Promises!Forget(s)
  BY KeptIs DEF Promises!Forget, Promises!StepOf, Promises!KeptBut, Same, See
<1> QED BY <1>1 DEF Promises!Next

\* It maps an object.
LEMMA AsShare ==
  ASSUME Typed, Typed', Kept, NEW s \in Spaces, s \in live, live' = live,
         \A t \in Spaces \ {s}, p \in Pages : Same(t, p),
         \A p \in Pages : Same(s, p) \/ See(pte'[s][p], data') \in Frames
  PROVE  Promises!Next
<1>1. Promises!Share(s)
  BY KeptIs DEF Promises!Share, Promises!StepOf, Promises!KeptBut, Same, See
<1> QED BY <1>1 DEF Promises!Next

\* An object is written.
LEMMA AsWriteShared ==
  ASSUME Typed, Typed', NEW f \in Frames, live' = live,
         \A g \in Frames : g # f /\ ForAll(pte, g) /\ ForAll(pte', g) => data'[g] = data[g],
         \A t \in Spaces, p \in Pages : Same(t, p)
  PROVE  Promises!Next
<1>1. \A g \in Frames \ {f} : Promises!Mapped(g) /\ Promises!Mapped(g)' => data'[g] = data[g]
  BY MappedNow, MappedNext
<1>2. data'[f] \in Vals
  BY DEF Typed
<1>3. Promises!WriteShared(f)
  BY <1>1, <1>2 DEF Promises!WriteShared, Promises!KeptBut, Same, See
<1> QED BY <1>3 DEF Promises!Next

\* Nothing a process sees changes.
LEMMA AsNothing ==
  ASSUME Typed, Typed', Kept, live' = live, \A t \in Spaces, p \in Pages : Same(t, p)
  PROVE  Promises!Next
<1>1. PICK f \in Frames : TRUE
  BY PageConstants
<1> QED BY AsWriteShared DEF Kept

\* A child is given what its parent has.
LEMMA AsFork ==
  ASSUME Typed, Typed', Kept, NEW s \in Spaces, NEW t \in Spaces, s \in live, t \notin live,
         live' = live \union {t},
         \A u \in Spaces \ {t}, p \in Pages : Same(u, p),
         \A p \in Pages : See(pte'[t][p], data') = See(pte[s][p], data)
  PROVE  Promises!Next
<1> DEFINE was == [u \in Spaces |-> [p \in Pages |-> See(pte[u][p], data)]]
           now == [u \in Spaces |-> [p \in Pages |-> See(pte'[u][p], data')]]
<1>1. now = [was EXCEPT ![t] = was[s]]
  <2>1. \A u \in Spaces, p \in Pages : now[u][p] = IF u = t THEN was[s][p] ELSE was[u][p]
    BY DEF Same
  <2>2. was[s] = [p \in Pages |-> was[s][p]] /\ \A u \in Spaces : was[u] = [p \in Pages |-> was[u][p]] /\ now[u] = [p \in Pages |-> now[u][p]]
    OBVIOUS
  <2>3. now = [u \in Spaces |-> now[u]] /\ was = [u \in Spaces |-> was[u]]
    OBVIOUS
  <2> HIDE DEF was, now
  <2>4. \A u \in Spaces : now[u] = IF u = t THEN was[s] ELSE was[u]
    BY <2>1, <2>2
  <2> QED BY <2>3, <2>4
<1>2. Promises!KeptBut({})
  BY KeptIs DEF Promises!KeptBut
<1>3. Promises!Fork(s, t)
  BY <1>1, <1>2 DEF Promises!Fork, See
<1> QED BY <1>3 DEF Promises!Next

\* A process is gone.
LEMMA AsExit ==
  ASSUME Typed, Typed', Kept, NEW s \in Spaces, s \in live, live' = live \ {s},
         \A u \in Spaces \ {s}, p \in Pages : Same(u, p),
         \A p \in Pages : See(pte'[s][p], data') = Untouched
  PROVE  Promises!Next
<1> DEFINE was == [u \in Spaces |-> [p \in Pages |-> See(pte[u][p], data)]]
           now == [u \in Spaces |-> [p \in Pages |-> See(pte'[u][p], data')]]
           empty == [p \in Pages |-> Untouched]
<1>1. now = [was EXCEPT ![s] = empty]
  <2>1. \A u \in Spaces, p \in Pages : now[u][p] = IF u = s THEN empty[p] ELSE was[u][p]
    BY DEF Same
  <2>2. /\ \A u \in Spaces : was[u] = [p \in Pages |-> was[u][p]] /\ now[u] = [p \in Pages |-> now[u][p]]
        /\ empty = [p \in Pages |-> empty[p]]
    OBVIOUS
  <2>3. now = [u \in Spaces |-> now[u]] /\ was = [u \in Spaces |-> was[u]]
    OBVIOUS
  <2> HIDE DEF was, now, empty
  <2>4. \A u \in Spaces : now[u] = IF u = s THEN empty ELSE was[u]
    BY <2>1, <2>2
  <2> QED BY <2>3, <2>4
<1>2. Promises!KeptBut({})
  BY KeptIs DEF Promises!KeptBut
<1>3. Promises!Exit(s)
  BY <1>1, <1>2 DEF Promises!Exit, Promises!Empty, See
<1> QED BY <1>3 DEF Promises!Next
----------------------------------------------------------------------------
(* What the steps of SharedPages look like                                 *)

\* Nobody is seen to have changed what it has at an entry that is as it was, at a
\* frame that is.
LEMMA Quiet ==
  ASSUME Typed, Typed', NEW D,
         \A f \in Frames : f \in D \/ data'[f] = data[f],
         NEW s \in Spaces, NEW p \in Pages, pte'[s][p] = pte[s][p], pte[s][p].f \notin D \/ pte[s][p].k = "shm"
  PROVE  Same(s, p)
<1>1. pte[s][p] \in Entries /\ data \in [Frames -> Vals] /\ data' \in [Frames -> Vals]
  BY DEF Typed
<1> QED BY <1>1, SeeIs DEF Same

\* v is put in page p of s, as its own.
Put(s, p, v) ==
  /\ Kept /\ See(pte'[s][p], data') = v
  /\ \A t \in Spaces, q \in Pages : t # s \/ q # p => Same(t, q)

LEMMA TakeSees ==
  ASSUME Mem, Mem', NEW s \in Spaces, NEW p \in Pages, NEW v \in Vals, Take(s, p, v)
  PROVE  Put(s, p, v)
<1>1. PICK f : f = pte[s][p].f
  OBVIOUS
<1>2. /\ pte \in [Spaces -> [Pages -> Entries]] /\ data \in [Frames -> Vals] /\ Common(pte[s][p]) /\ refs[f] = 1
      /\ f \in Frames /\ pte' = [pte EXCEPT ![s][p] = Own(f)] /\ data' = [data EXCEPT ![f] = v]
  BY <1>1, EntryIs DEF Mem, TypedMem, Take, MayTake, Common
<1>3. \A t \in Spaces, q \in Pages : pte[t][q].f = f => t = s /\ q = p
  BY <1>1, <1>2, SoleHolder
<1>4. \A t \in Spaces, q \in Pages : t # s \/ q # p => pte'[t][q] = pte[t][q] /\ pte[t][q].f \notin {f}
  BY <1>2, <1>3
<1>5. \A g \in Frames : g \in {f} \/ data'[g] = data[g]
  BY <1>2
<1>6. pte'[s][p] = Own(f) /\ data'[f] = v
  BY <1>2
<1>7. See(pte'[s][p], data') = v
  BY <1>6 DEF See, Own
<1>8. Kept
  <2>1. ~ForAll(pte', f)
    BY <1>4, <1>6 DEF ForAll, Own, Shm
  <2> QED BY <1>5, <2>1 DEF Kept
<1>9. \A t \in Spaces, q \in Pages : t # s \/ q # p => Same(t, q)
  <2>1. Typed /\ Typed'
    BY DEF Mem, TypedMem, Typed
  <2> QED BY <1>4, <1>5, <2>1, Quiet
<1> QED BY <1>7, <1>8, <1>9 DEF Put

LEMMA NewSees ==
  ASSUME Mem, Mem', NEW s \in Spaces, NEW p \in Pages, NEW v \in Vals, NEW f \in free,
         pte' = [pte EXCEPT ![s][p] = Own(f)], data' = [data EXCEPT ![f] = v]
  PROVE  Put(s, p, v)
<1>1. /\ pte \in [Spaces -> [Pages -> Entries]] /\ data \in [Frames -> Vals] /\ f \in Frames
      /\ \A t \in Spaces, q \in Pages : pte[t][q].f # f
  BY DEF Mem, TypedMem, Sound, FreeUnheld
<1>2. \A t \in Spaces, q \in Pages : t # s \/ q # p => pte'[t][q] = pte[t][q] /\ pte[t][q].f \notin {f}
  BY <1>1
<1>3. \A g \in Frames : g \in {f} \/ data'[g] = data[g]
  BY <1>1
<1>4. pte'[s][p] = Own(f) /\ data'[f] = v
  BY <1>1
<1>5. See(pte'[s][p], data') = v
  BY <1>4 DEF See, Own
<1>6. Kept
  <2>1. ~ForAll(pte, f)
    BY <1>1 DEF ForAll, Shm
  <2> QED BY <1>3, <2>1 DEF Kept
<1>7. \A t \in Spaces, q \in Pages : t # s \/ q # p => Same(t, q)
  <2>1. Typed /\ Typed'
    BY DEF Mem, TypedMem, Typed
  <2> QED BY <1>2, <1>3, <2>1, Quiet
<1> QED BY <1>5, <1>6, <1>7 DEF Put

\* Tables and frames as they were: so is what everyone sees.
LEMMA NothingSees ==
  ASSUME Mem, Mem', UNCHANGED <<pte, data>>
  PROVE  Typed /\ Typed' /\ Kept /\ \A t \in Spaces, q \in Pages : Same(t, q)
BY DEF Mem, TypedMem, Typed, Kept, Same

\* vm_fault for a write: the same is seen, wherever it is.
LEMMA WriteFaultSees ==
  ASSUME Mem, Mem', NEW s \in Spaces, NEW p \in Pages, WriteFault(s, p)
  PROVE  Promises!Next
<1>1. Typed /\ Typed' /\ live' = live /\ pte[s][p] \in Entries /\ pte[s][p].k = "cow"
  BY DEF Mem, TypedMem, Typed, WriteFault
<1>2. PICK v \in Vals : v = data[pte[s][p].f] /\ v = See(pte[s][p], data)
  BY <1>1, SeeIs DEF Typed
<1>3. ASSUME Take(s, p, v) PROVE Put(s, p, v)
  BY <1>3, TakeSees
<1>4. ASSUME Copy(s, p, v) PROVE Put(s, p, v)
  <2>1. PICK f \in free : pte' = [pte EXCEPT ![s][p] = Own(f)] /\ data' = [data EXCEPT ![f] = v]
    BY <1>4 DEF Copy
  <2> QED BY <2>1, NewSees
<1>5. Put(s, p, v)
  BY <1>2, <1>3, <1>4 DEF WriteFault
<1>6. Kept /\ \A t \in Spaces, q \in Pages : Same(t, q)
  BY <1>2, <1>5 DEF Put, Same
<1> QED BY <1>1, <1>6, AsNothing
\* Pages never touched are given what they hold, in frames nobody had.
LEMMA FillSees ==
  ASSUME Mem, Mem', NEW s \in Spaces, s \in live, live' = live, NEW P \in SUBSET Pages,
         \A f \in Frames : f \in free \/ data'[f] = data[f],
         \A t \in Spaces, q \in Pages :
           IF t = s /\ q \in P THEN pte[t][q] = NoPage /\ pte'[t][q].k \in {"own", "cow"}
                               ELSE pte'[t][q] = pte[t][q]
  PROVE  Promises!Next
<1>1. Typed /\ Typed'
  BY DEF Mem, TypedMem, Typed
<1>2. \A f \in free : \A t \in Spaces, q \in Pages : pte[t][q].f # f
  BY DEF Mem, Sound, FreeUnheld
<1>3. Kept
  <2>1. \A f \in free : ~ForAll(pte, f)
    BY <1>2 DEF ForAll, Shm
  <2> QED BY <2>1 DEF Kept
<1>4. \A t \in Spaces, q \in Pages : ~(t = s /\ q \in P) => Same(t, q)
  BY <1>1, <1>2, Quiet
<1>5. ASSUME NEW q \in P PROVE See(pte[s][q], data) = Untouched /\ See(pte'[s][q], data') \in Vals
  <2>1. pte[s][q] = NoPage /\ pte'[s][q].k \in {"own", "cow"} /\ pte'[s][q] \in Entries /\ data' \in [Frames -> Vals]
    BY <1>1 DEF Typed
  <2>2. See(pte'[s][q], data') \in Vals
    BY <2>1, SeeIs
  <2> QED BY <2>1, <2>2 DEF See, NoPage
<1> QED BY <1>1, <1>3, <1>4, <1>5, AsTouch

LEMMA TouchFaultSees ==
  ASSUME Mem, Mem', NEW s \in Spaces, NEW p \in Pages, TouchFault(s, p)
  PROVE  Promises!Next
<1>1. PICK f \in free : pte' = [pte EXCEPT ![s][p] = Own(f)] /\ data' = [data EXCEPT ![f] = 0]
  BY DEF TouchFault, Fresh
<1>2. s \in live /\ live' = live /\ pte[s][p] = NoPage /\ pte \in [Spaces -> [Pages -> Entries]] /\ data \in [Frames -> Vals]
  BY DEF TouchFault, Fresh, Mem, TypedMem
<1>3. PICK P \in SUBSET Pages : P = {p}
  OBVIOUS
<1>4. \A g \in Frames : g \in free \/ data'[g] = data[g]
  BY <1>1, <1>2
<1>5. \A t \in Spaces, q \in Pages :
        IF t = s /\ q \in P THEN pte[t][q] = NoPage /\ pte'[t][q].k \in {"own", "cow"}
                            ELSE pte'[t][q] = pte[t][q]
  BY <1>1, <1>2, <1>3 DEF Own
<1> QED BY ZenonT(60), <1>2, <1>4, <1>5, FillSees

LEMMA FillOwnSees ==
  ASSUME Mem, Mem', TypedMaps, NEW s \in Spaces, s \in live, live' = live, NEW p \in Pages, Promised(s, p) # {},
         pte[s][p] = NoPage, NEW lost, FillOwn(s, p, lost)
  PROVE  Promises!Next
<1>1. PICK P \in {Unmapped(s, p), {p}} : \E g \in Injections(P, free) :
        /\ pte' = [pte EXCEPT ![s] = [q \in Pages |-> IF q \in P THEN Own(g[q]) ELSE @[q]]]
        /\ data' = [f \in Frames |->
                      IF \E q \in P : g[q] = f
                      THEN LET q == CHOOSE r \in P : g[r] = f
                           IN IF q \in lost THEN 0 ELSE Owed(s, q)
                      ELSE data[f]]
  BY DEF FillOwn
<1>2. PICK g \in Injections(P, free) :
        /\ pte' = [pte EXCEPT ![s] = [q \in Pages |-> IF q \in P THEN Own(g[q]) ELSE @[q]]]
        /\ data' = [f \in Frames |->
                      IF \E q \in P : g[q] = f
                      THEN LET q == CHOOSE r \in P : g[r] = f
                           IN IF q \in lost THEN 0 ELSE Owed(s, q)
                      ELSE data[f]]
  BY <1>1
<1>3. P \in SUBSET Pages /\ \A q \in P : pte[s][q] = NoPage
  BY <1>1, ChunkIn DEF Mem
<1>4. pte \in [Spaces -> [Pages -> Entries]] /\ \A q \in P : g[q] \in free
  BY DEF Mem, TypedMem, Injections
<1>5. \A f \in Frames : f \in free \/ data'[f] = data[f]
  BY <1>2, <1>4
<1>6. \A t \in Spaces, q \in Pages : pte'[t][q] = IF t = s /\ q \in P THEN Own(g[q]) ELSE pte[t][q]
  BY <1>2, <1>4
<1>7. \A f : Own(f).k = "own"
  BY DEF Own
<1>8. \A t \in Spaces, q \in Pages :
        IF t = s /\ q \in P THEN pte[t][q] = NoPage /\ pte'[t][q].k \in {"own", "cow"}
                            ELSE pte'[t][q] = pte[t][q]
  BY <1>3, <1>6, <1>7
<1> QED BY <1>3, <1>5, <1>8, FillSees

LEMMA FillSharedSees ==
  ASSUME Mem, Mem', TypedMaps, NEW s \in Spaces, s \in live, live' = live, NEW p \in Pages, Promised(s, p) # {},
         FillShared(s, p)
  PROVE  Promises!Next
<1>1. PICK R \in SUBSET {q \in Unmapped(s, p) : MayShare(s, q)} :
        LET new == {q \in R : Known(FilePage(s, q)) = {}}
        IN \E g \in Injections(new, free) :
             LET at(q) == IF q \in new THEN g[q] ELSE CHOOSE f \in Known(FilePage(s, q)) : TRUE
                 page(f) == {q \in R : at(q) = f}
             IN /\ pte' = [pte EXCEPT ![s] =
                             [q \in Pages |-> IF q \in R THEN Cow(at(q)) ELSE @[q]]]
                /\ data' = [f \in Frames |-> IF f \in {g[q] : q \in new}
                              THEN disk[FilePage(s, CHOOSE q \in page(f) : TRUE)] ELSE data[f]]
  BY DEF FillShared
<1> DEFINE new == {q \in R : Known(FilePage(s, q)) = {}}
<1>2. PICK g \in Injections(new, free) :
        LET at(q) == IF q \in new THEN g[q] ELSE CHOOSE f \in Known(FilePage(s, q)) : TRUE
            page(f) == {q \in R : at(q) = f}
        IN /\ pte' = [pte EXCEPT ![s] =
                        [q \in Pages |-> IF q \in R THEN Cow(at(q)) ELSE @[q]]]
           /\ data' = [f \in Frames |-> IF f \in {g[q] : q \in new}
                         THEN disk[FilePage(s, CHOOSE q \in page(f) : TRUE)] ELSE data[f]]
  BY <1>1
<1> DEFINE at(q) == IF q \in new THEN g[q] ELSE CHOOSE f \in Known(FilePage(s, q)) : TRUE
           first(f) == FilePage(s, CHOOSE q \in {q \in R : at(q) = f} : TRUE)
<1>3. /\ pte' = [pte EXCEPT ![s] = [q \in Pages |-> IF q \in R THEN Cow(at(q)) ELSE @[q]]]
      /\ data' = [f \in Frames |-> IF f \in {g[q] : q \in new} THEN disk[first(f)] ELSE data[f]]
  BY <1>2
<1>4. \A q \in new : g[q] \in free
  BY DEF Injections
<1> HIDE DEF at, first, new
<1>5. R \in SUBSET Pages /\ \A q \in R : pte[s][q] = NoPage
  BY <1>1, ChunkIn DEF Mem
<1>6. \A f \in Frames : f \in free \/ data'[f] = data[f]
  BY <1>3, <1>4
<1>7. \A t \in Spaces, q \in Pages : pte'[t][q] = IF t = s /\ q \in R THEN Cow(at(q)) ELSE pte[t][q]
  BY <1>3 DEF Mem, TypedMem
<1>8. \A t \in Spaces, q \in Pages :
        IF t = s /\ q \in R THEN pte[t][q] = NoPage /\ pte'[t][q].k \in {"own", "cow"}
                            ELSE pte'[t][q] = pte[t][q]
  BY <1>5, <1>7, CowIs
<1> QED BY <1>5, <1>6, <1>8, FillSees

LEMMA FileFaultSees ==
  ASSUME Mem, Mem', TypedMaps, NEW s \in Spaces, NEW p \in Pages, FileFault(s, p)
  PROVE  Promises!Next
<1>1. /\ s \in live /\ pte[s][p] = NoPage /\ Promised(s, p) # {} /\ live' = live
      /\ FillShared(s, p) \/ \E lost : FillOwn(s, p, lost)
  BY DEF FileFault
<1> QED BY <1>1, FillSharedSees, FillOwnSees

----------------------------------------------------------------------------

\* Pages given back, or the screen in the place of one.
LEMMA ForgetSees ==
  ASSUME Mem, Mem', NEW s \in Spaces, s \in live, NEW P \in SUBSET Pages,
         \A t \in Spaces, q \in Pages : t # s \/ q \notin P => pte'[t][q] = pte[t][q],
         \A p \in P : pte'[s][p] \in {NoPage, Dev}, data' = data, live' = live
  PROVE  Promises!Next
<1>1. Typed /\ Typed'
  BY DEF Mem, TypedMem, Typed
<1>2. \A t \in Spaces, q \in Pages : t # s \/ q \notin P => Same(t, q)
  BY DEF Same
<1>3. \A p \in P : See(pte'[s][p], data') \in {Untouched, Screen}
  BY DEF See, NoPage, Dev
<1> QED BY <1>1, <1>2, <1>3, AsForget DEF Kept

LEMMA EmptiedSees ==
  ASSUME Mem, Mem', NEW s \in Spaces, s \in live, NEW P \in SUBSET Pages, pte' = Emptied(s, P), data' = data,
         live' = live \/ (live' = live \ {s} /\ P = Pages)
  PROVE  Promises!Next
<1>1. /\ \A t \in Spaces, q \in Pages : t # s \/ q \notin P => pte'[t][q] = pte[t][q]
      /\ \A p \in P : pte'[s][p] = NoPage
  BY DEF Emptied, Mem, TypedMem
<1>2. CASE live' = live
  BY <1>1, <1>2, ForgetSees
<1>3. CASE live' = live \ {s} /\ P = Pages
  <2>1. Typed /\ Typed' /\ Kept
    BY DEF Mem, TypedMem, Typed, Kept
  <2>2. \A t \in Spaces \ {s}, p \in Pages : Same(t, p)
    BY <1>1 DEF Same
  <2>3. \A p \in Pages : See(pte'[s][p], data') = Untouched
    BY <1>1, <1>3 DEF See, NoPage
  <2> QED BY <1>3, <2>1, <2>2, <2>3, AsExit
<1> QED BY <1>2, <1>3

LEMMA MapDeviceSees ==
  ASSUME Mem, Mem', NEW s \in Spaces, NEW p \in Pages, MapDevice(s, p)
  PROVE  Promises!Next
<1>1. s \in live /\ live' = live /\ data' = data /\ pte' = [pte EXCEPT ![s][p] = Dev]
  BY DEF MapDevice
<1>2. PICK P \in SUBSET Pages : P = {p}
  OBVIOUS
<1>3. /\ \A t \in Spaces, q \in Pages : t # s \/ q \notin P => pte'[t][q] = pte[t][q]
      /\ \A q \in P : pte'[s][q] \in {NoPage, Dev}
  BY <1>1, <1>2 DEF Mem, TypedMem
<1> QED BY <1>1, <1>3, ForgetSees
\* An object in the place of what was there.  Its page may be the very one an
\* earlier object left there: then it is that object that is written.
LEMMA MapSharedSees ==
  ASSUME Mem, Mem', NEW s \in Spaces, NEW p \in Pages, NEW i \in Indexes, MapShared(s, p, i)
  PROVE  Promises!Next
<1> DEFINE gone == {h \in Frames : GoneFrom(s, {p}, h)}
<1>1. gone = {h \in Frames : LeftOf(h, Times(s, {p}, h)).gone \/ pte[s][p] = Own(h)}
  BY DEF GoneFrom
<1>2. PICK f \in free \union gone \union {frame[i]} :
        /\ f # None /\ (frame[i] # None => f = frame[i])
        /\ pte' = [pte EXCEPT ![s][p] = Shm(f)]
        /\ data' = IF FreshIn(i) THEN [data EXCEPT ![f] = 0] ELSE data
  BY <1>1 DEF MapShared
<1>3. /\ s \in live /\ live' = live /\ Typed /\ Typed' /\ pte \in [Spaces -> [Pages -> Entries]]
      /\ frame \in [Indexes -> Frames \union {None}] /\ free \subseteq Frames /\ data \in [Frames -> Vals]
  BY DEF MapShared, Mem, TypedMem, Typed
<1>4. f \in Frames
  BY <1>2, <1>3
<1>5. \A t \in Spaces, q \in Pages : pte'[t][q] = IF t = s /\ q = p THEN Shm(f) ELSE pte[t][q]
  BY <1>2, <1>3
<1>6. See(pte'[s][p], data') = f
  <2>1. pte'[s][p] = Shm(f)
    BY <1>5
  <2> QED BY <2>1 DEF See, Shm
<1>7. CASE frame[i] # None
  <2>1. data' = data
    BY <1>2, <1>7 DEF FreshIn
  <2>2. Kept /\ \A t \in Spaces, q \in Pages : t # s \/ q # p => Same(t, q)
    BY <1>5, <2>1 DEF Kept, Same
  <2> QED BY <1>3, <1>4, <1>6, <2>2, AsShare
<1>8. CASE frame[i] = None
  <2>1. data' = [data EXCEPT ![f] = 0] /\ (f \in free \/ f \in gone)
    BY <1>2, <1>8 DEF FreshIn
  <2>2. \A t \in Spaces, q \in Pages : pte[t][q].f = f => t = s /\ q = p
    <3>1. CASE f \in free
      BY <3>1 DEF Mem, Sound, FreeUnheld
    <3>2. CASE f \in gone
      <4>1. PICK P \in SUBSET Pages : P = {p}
        OBVIOUS
      <4>2. GoneFrom(s, P, f)
        BY <3>2, <4>1
      <4>3. \A t \in Spaces, q \in Pages : pte[t][q].f = f => t = s /\ q \in P
        BY <1>3, <1>4, <4>2, BackLeft
      <4> QED BY <4>1, <4>3
    <3> QED BY <2>1, <3>1, <3>2
  <2>3. \A g \in Frames : g \in {f} \/ data'[g] = data[g]
    BY <1>3, <2>1
  <2>4. \A t \in Spaces, q \in Pages : t # s \/ q # p => Same(t, q)
    <3>1. \A t \in Spaces, q \in Pages : t # s \/ q # p => pte'[t][q] = pte[t][q] /\ pte[t][q].f \notin {f}
      BY <1>5, <2>2
    <3> QED BY <1>3, <2>3, <3>1, Quiet
  <2>5. CASE pte[s][p] = Shm(f)
    <3>1. See(pte[s][p], data) = f
      BY <2>5 DEF See, Shm
    <3>2. \A t \in Spaces, q \in Pages : Same(t, q)
      BY <1>6, <2>4, <3>1 DEF Same
    <3>3. \A g \in Frames : g # f /\ ForAll(pte, g) /\ ForAll(pte', g) => data'[g] = data[g]
      BY <2>3
    <3> QED BY <1>3, <1>4, <3>2, <3>3, AsWriteShared
  <2>6. CASE pte[s][p] # Shm(f)
    <3>1. ~ForAll(pte, f)
      BY <2>2, <2>6 DEF ForAll, Shm
    <3>2. Kept
      BY <2>3, <3>1 DEF Kept
    <3> QED BY <1>3, <1>4, <1>6, <2>4, <3>2, AsShare
  <2> QED BY <2>5, <2>6
<1> QED BY <1>7, <1>8

\* claim: the page is the program's own and holds v, or nothing changes.
LEMMA ClaimSees ==
  ASSUME Mem, Mem', NEW s \in Spaces, s \in live, live' = live, NEW p \in Pages, NEW v \in Vals,
         Claim(s, p, v) \/ NotClaimed(s, p), did' = [op |-> "write", s |-> s, P |-> {p}]
  PROVE  Promises!Next
<1>1. /\ Typed /\ Typed' /\ pte \in [Spaces -> [Pages -> Entries]] /\ data \in [Frames -> Vals]
      /\ did'.op = "write" /\ did'.s = s /\ p \in did'.P
  BY DEF Mem, TypedMem, Typed
<1>2. CASE UNCHANGED <<pte, data>>
  BY <1>1, <1>2, NothingSees, AsNothing
<1>3. ASSUME Put(s, p, v) PROVE Promises!Next
  BY <1>1, <1>3, AsWrite DEF Put
<1>4. CASE Take(s, p, v)
  BY <1>3, <1>4, TakeSees
<1>5. CASE Copy(s, p, v) \/ Fresh(s, p, v)
  <2>1. PICK f \in free : pte' = [pte EXCEPT ![s][p] = Own(f)] /\ data' = [data EXCEPT ![f] = v]
    BY <1>5 DEF Copy, Fresh
  <2> QED BY <1>3, <2>1, NewSees
<1>6. CASE pte[s][p].k = "own" /\ data' = [data EXCEPT ![pte[s][p].f] = v] /\ pte' = pte
  <2>1. PICK f : f = pte[s][p].f
    OBVIOUS
  <2>2. /\ f \in Frames /\ data' = [data EXCEPT ![f] = v] /\ data'[f] = v
        /\ \A t \in Spaces, q \in Pages : pte[t][q].f = f => t = s /\ q = p
    BY <1>1, <1>6, <2>1, EntryIs DEF Mem, Sound, OwnAlone
  <2>3. \A g \in Frames : g \in {f} \/ data'[g] = data[g]
    BY <1>1, <2>2
  <2>4. \A t \in Spaces, q \in Pages : t # s \/ q # p => pte'[t][q] = pte[t][q] /\ pte[t][q].f \notin {f}
    BY <1>6, <2>2
  <2>5. \A t \in Spaces, q \in Pages : t # s \/ q # p => Same(t, q)
    BY <1>1, <2>3, <2>4, Quiet
  <2>6. Kept
    <3>1. ~ForAll(pte, f)
      BY <1>6, <2>1, <2>2 DEF ForAll, Shm
    <3> QED BY <2>3, <3>1 DEF Kept
  <2>7. See(pte'[s][p], data') = v
    BY <1>6, <2>1, <2>2 DEF See
  <2> QED BY <1>3, <2>5, <2>6, <2>7 DEF Put
<1> QED BY <1>2, <1>4, <1>5, <1>6 DEF Claim, NotClaimed

\* A program writes in its own page, or in an object for all who map it.
LEMMA WriteSees ==
  ASSUME Mem, Mem', NEW s \in Spaces, NEW p \in Pages, NEW v \in Vals, Write(s, p, v),
         did' = [op |-> "write", s |-> s, P |-> {p}]
  PROVE  Promises!Next
<1>1. /\ s \in live /\ live' = live /\ pte[s][p].k \in {"own", "shm"} /\ data' = [data EXCEPT ![pte[s][p].f] = v]
      /\ UNCHANGED <<pte, refs, key, free>>
      /\ Typed /\ Typed' /\ pte[s][p] \in Entries /\ data \in [Frames -> Vals]
  BY DEF Write, Mem, TypedMem, Typed
<1>2. CASE pte[s][p].k = "own"
  BY <1>1, <1>2, ClaimSees DEF Claim
<1>3. CASE pte[s][p].k = "shm"
  <2>1. PICK f \in Frames : f = pte[s][p].f /\ pte[s][p] = Shm(f)
    BY <1>1, <1>3, EntryIs
  <2>2. \A g \in Frames : g \in {f} \/ data'[g] = data[g]
    BY <1>1, <2>1
  <2>3. \A t \in Spaces, q \in Pages : pte[t][q].f \notin {f} \/ pte[t][q].k = "shm"
    <3>1. \A t \in Spaces, q \in Pages : pte[t][q] # Cow(f)
      BY <2>1 DEF Mem, Sound, KindsApart, Writable
    <3>2. ASSUME NEW t \in Spaces, NEW q \in Pages, pte[t][q].f = f PROVE pte[t][q].k = "shm"
      <4>1. pte[t][q] \in Entries
        BY <1>1 DEF Typed
      <4>2. pte[t][q].k \in {"own", "cow", "shm"} /\ (pte[t][q].k = "cow" => pte[t][q] = Cow(f))
        BY <3>2, <4>1, EntryIs
      <4>3. ASSUME pte[t][q].k = "own" PROVE s = t /\ p = q
        <5>1. pte[t][q].k = "own" /\ pte[t][q].f = f /\ pte[s][p].f = f
          BY <2>1, <3>2, <4>3
        <5> QED BY <5>1 DEF Mem, Sound, OwnAlone
      <4> QED BY <1>3, <3>1, <4>2, <4>3
    <3> QED BY <3>2
  <2>4. \A t \in Spaces, q \in Pages : Same(t, q)
    BY <1>1, <2>2, <2>3, Quiet
  <2> QED BY <1>1, <2>1, <2>2, <2>4, AsWriteShared
<1> QED BY <1>1, <1>2, <1>3
----------------------------------------------------------------------------
(* The memory file written through a descriptor, and fork.                 *)

LEMMA WriteMemorySees ==
  ASSUME Mem, Mem', NEW i \in Indexes, NEW v \in Vals, WriteMemory(i, v)
  PROVE  Promises!Next
<1>1. /\ Typed /\ Typed' /\ live' = live /\ pte' = pte /\ pte \in [Spaces -> [Pages -> Entries]]
      /\ data \in [Frames -> Vals] /\ frame \in [Indexes -> Frames \union {None}]
  BY DEF Mem, TypedMem, Typed, WriteMemory
<1>2. PICK f \in Frames : /\ data' = [data EXCEPT ![f] = v]
                          /\ frame[i] = f \/ f \in free
  BY <1>1 DEF WriteMemory, Mem, TypedMem
<1>3. \A g \in Frames : g \in {f} \/ data'[g] = data[g]
  BY <1>1, <1>2
<1>4. \A t \in Spaces, q \in Pages : pte[t][q].f \notin {f} \/ pte[t][q].k = "shm"
  <2>1. CASE f \in free
    BY <2>1 DEF Mem, Sound, FreeUnheld
  <2>2. CASE frame[i] = f
    <3>1. \A t \in Spaces, q \in Pages : pte[t][q] # Cow(f)
      BY <2>2 DEF Mem, Sound, KindsApart, Writable
    <3>2. refs[f] # 0
      BY <2>2, CountNone DEF Mem, Sound
    <3>3. ASSUME NEW t \in Spaces, NEW q \in Pages, pte[t][q].f = f PROVE pte[t][q].k = "shm"
      <4>1. pte[t][q] \in Entries
        BY <1>1
      <4>2. pte[t][q].k \in {"own", "cow", "shm"} /\ (pte[t][q].k = "cow" => pte[t][q] = Cow(f))
        BY <3>3, <4>1, EntryIs
      <4>3. ASSUME pte[t][q].k = "own" PROVE FALSE
        <5>1. pte[t][q].k = "own" /\ pte[t][q].f = f
          BY <3>3, <4>3
        <5> QED BY <3>2, <5>1 DEF Mem, Sound, OwnAlone
      <4> QED BY <3>1, <4>2, <4>3
    <3> QED BY <3>3
  <2> QED BY <1>2, <2>1, <2>2
<1>5. \A t \in Spaces, q \in Pages : Same(t, q)
  BY <1>1, <1>3, <1>4, Quiet
<1> QED BY <1>1, <1>3, <1>5, AsWriteShared

\* A page a fork has adopted, or one kept: the frame is the one it was.
LEMMA AdoptedSees ==
  ASSUME NEW d \in [Frames -> Vals], NEW e \in Entries, NEW c,
         c = e \/ (e.k = "own" /\ c = Cow(e.f))
  PROVE  See(c, d) = See(e, d) /\ \A f \in Frames : c = Shm(f) => e = Shm(f)
<1>1. e.k = "own" /\ c = Cow(e.f) => See(c, d) = d[e.f] /\ See(e, d) = d[e.f] /\ c.k = "cow"
  BY SeeIs, CowIs DEF See
<1> QED BY <1>1 DEF Shm

LEMMA ForkFailsSees ==
  ASSUME Mem, Mem', NEW s \in Spaces, ForkFails(s)
  PROVE  Promises!Next
<1>1. PICK n \in Pages : \E A \in SUBSET {p \in OwnPages(s) : p < n} : pte' = [pte EXCEPT ![s] = Adopted(s, A)]
  BY DEF ForkFails
<1>2. PICK A \in SUBSET {p \in OwnPages(s) : p < n} : pte' = [pte EXCEPT ![s] = Adopted(s, A)]
  BY <1>1
<1>3. /\ Typed /\ Typed' /\ live' = live /\ data' = data /\ pte \in [Spaces -> [Pages -> Entries]]
      /\ data \in [Frames -> Vals]
  BY DEF Mem, TypedMem, Typed, ForkFails
<1>4. \A t \in Spaces, q \in Pages :
        pte'[t][q] = pte[t][q] \/ (pte[t][q].k = "own" /\ pte'[t][q] = Cow(pte[t][q].f))
  BY <1>2, <1>3 DEF Adopted, OwnPages
<1>5. \A t \in Spaces, q \in Pages : Same(t, q)
  BY <1>3, <1>4, AdoptedSees DEF Same
<1> QED BY <1>3, <1>5, AsNothing DEF Kept

LEMMA ForkSees ==
  ASSUME Mem, Mem', NEW s \in Spaces, NEW t \in Spaces, Fork(s, t)
  PROVE  Promises!Next
<1>1. PICK A \in SUBSET OwnPages(s) :
        \E g \in Injections(OwnPages(s) \ A, free) :
          LET copies == {g[p] : p \in OwnPages(s) \ A}
          IN /\ pte' = [pte EXCEPT ![s] = Adopted(s, A),
                          ![t] = [p \in Pages |->
                                    IF p \in OwnPages(s) \ A THEN Own(g[p])
                                    ELSE IF p \in A THEN Cow(pte[s][p].f) ELSE pte[s][p]]]
             /\ data' = [f \in Frames |->
                           IF f \in copies
                           THEN data[pte[s][CHOOSE p \in DOMAIN g : g[p] = f].f] ELSE data[f]]
  BY DEF Fork
<1> DEFINE B == OwnPages(s) \ A
<1>2. PICK g \in Injections(B, free) :
          LET copies == {g[p] : p \in B}
          IN /\ pte' = [pte EXCEPT ![s] = Adopted(s, A),
                          ![t] = [p \in Pages |->
                                    IF p \in B THEN Own(g[p])
                                    ELSE IF p \in A THEN Cow(pte[s][p].f) ELSE pte[s][p]]]
             /\ data' = [f \in Frames |->
                           IF f \in copies
                           THEN data[pte[s][CHOOSE p \in DOMAIN g : g[p] = f].f] ELSE data[f]]
  BY <1>1
<1>3. /\ Typed /\ Typed' /\ live' = live \union {t} /\ s \in live /\ t \notin live /\ s # t
      /\ pte \in [Spaces -> [Pages -> Entries]] /\ data \in [Frames -> Vals] /\ free \subseteq Frames
  BY DEF Mem, TypedMem, Typed, Fork
<1>4. /\ g \in [B -> free] /\ DOMAIN g = B /\ \A p, q \in B : p # q => g[p] # g[q]
      /\ B \subseteq Pages /\ A \subseteq Pages /\ A \intersect B = {}
      /\ \A p \in A \union B : pte[s][p].k = "own"
  BY DEF Injections, OwnPages
<1>5. /\ \A u \in Spaces \ {s, t}, q \in Pages : pte'[u][q] = pte[u][q]
      /\ \A q \in Pages : pte'[s][q] = IF q \in A THEN Cow(pte[s][q].f) ELSE pte[s][q]
      /\ \A q \in Pages : pte'[t][q] = IF q \in B THEN Own(g[q])
                                       ELSE IF q \in A THEN Cow(pte[s][q].f) ELSE pte[s][q]
  BY <1>2, <1>3 DEF Adopted
<1>6. \A f \in Frames : f \in free \/ data'[f] = data[f]
  BY <1>2, <1>4
<1>7. \A q \in B : data'[g[q]] = data[pte[s][q].f]
  <2> SUFFICES ASSUME NEW q \in B PROVE data'[g[q]] = data[pte[s][q].f]
    OBVIOUS
  <2>1. g[q] \in Frames /\ (CHOOSE p \in DOMAIN g : g[p] = g[q]) = q
    BY <1>3, <1>4
  <2> QED BY <1>2, <2>1
<1> HIDE DEF B
<1>8. \A f \in free : \A u \in Spaces, q \in Pages : pte[u][q].f # f
  BY DEF Mem, Sound, FreeUnheld
<1>9. Kept
  <2>1. \A f \in free : ~ForAll(pte, f)
    BY <1>8 DEF ForAll, Shm
  <2> QED BY <1>6, <2>1 DEF Kept
<1>10. \A u \in Spaces, q \in Pages : See(pte[u][q], data') = See(pte[u][q], data)
  <2> SUFFICES ASSUME NEW u \in Spaces, NEW q \in Pages PROVE See(pte[u][q], data') = See(pte[u][q], data)
    OBVIOUS
  <2>1. pte[u][q] \in Entries /\ data' \in [Frames -> Vals] /\ pte[u][q].f \notin free
    BY <1>3, <1>8 DEF Typed
  <2> QED BY <1>3, <1>6, <2>1, SeeIs
<1>11. data' \in [Frames -> Vals]
  BY <1>3 DEF Typed
<1>12. ASSUME NEW q \in Pages PROVE Same(s, q)
  <2>1. See(pte'[s][q], data') = See(pte[s][q], data')
    BY <1>3, <1>4, <1>5, <1>11, AdoptedSees
  <2> QED BY <1>10, <2>1 DEF Same
<1>13. ASSUME NEW u \in Spaces \ {t}, NEW q \in Pages PROVE Same(u, q)
  BY <1>5, <1>10, <1>12 DEF Same
<1>14. ASSUME NEW q \in Pages PROVE See(pte'[t][q], data') = See(pte[s][q], data)
  <2>1. CASE q \in B
    <3>1. pte'[t][q] = Own(g[q]) /\ pte[s][q] \in Entries /\ pte[s][q].k = "own"
      BY <1>3, <1>4, <1>5, <2>1
    <3>2. See(pte'[t][q], data') = data'[g[q]]
      BY <3>1 DEF See, Own
    <3>3. See(pte[s][q], data) = data[pte[s][q].f]
      BY <1>3, <3>1, SeeIs
    <3> QED BY <1>7, <2>1, <3>2, <3>3
  <2>2. CASE q \notin B
    <3>1. See(pte'[t][q], data') = See(pte[s][q], data')
      BY <1>3, <1>4, <1>5, <1>11, <2>2, AdoptedSees
    <3> QED BY <1>10, <3>1
  <2> QED BY <2>1, <2>2
<1> QED BY <1>3, <1>9, <1>13, <1>14, AsFork
----------------------------------------------------------------------------
(* Every step is one OwnMemory allows, or none.                            *)

LEMMA OtherSees ==
  ASSUME Mem, Mem', TypedMaps, Others
  PROVE  Promises!Next
<1>1. TypedMem
  BY DEF Mem
<1>2. ASSUME UNCHANGED <<live, pte, data>> PROVE Promises!Next
  BY <1>2, NothingSees, AsNothing
<1>3. ASSUME NEW s \in Spaces, Exec(s) \/ Exit(s) PROVE Promises!Next
  <2>1. /\ s \in live /\ pte' = Emptied(s, Pages) /\ Pages \in SUBSET Pages /\ data' = data
        /\ live' = live \/ live' = live \ {s}
    BY <1>3 DEF Exec, Exit
  <2> QED BY <2>1, EmptiedSees
<1>4. ASSUME NEW s \in Spaces, NEW P \in SUBSET Pages, s \in live, pte' = Emptied(s, P), UNCHANGED <<live, data>>
      PROVE  Promises!Next
  BY <1>4, EmptiedSees
<1>5. ASSUME NEW s \in Spaces, NEW p \in Used,
             \/ WriteFault(s, p) \/ TouchFault(s, p) \/ FileFault(s, p)
             \/ MapDevice(s, p)
             \/ \E i \in Indexes : MapShared(s, p, i)
             \/ \E b \in p .. setup.used :
                  \/ Unmap(s, p, b)
                  \/ \E i \in 1 .. FilePages : MapFile(s, p, b, i)
      PROVE  Promises!Next
  <2>1. p \in Pages /\ \A b \in p .. setup.used : p .. b \in SUBSET Pages
    BY <1>1, UsedPages
  <2>2. ASSUME NEW b \in p .. setup.used, Unmap(s, p, b) PROVE Promises!Next
    <3>1. s \in live /\ pte' = Emptied(s, p .. b) /\ UNCHANGED <<live, data>>
      BY <2>2 DEF Unmap
    <3>2. PICK P \in SUBSET Pages : P = p .. b
      BY <2>1
    <3> QED BY <1>4, <3>1, <3>2
  <2>3. ASSUME NEW b \in p .. setup.used, NEW i \in 1 .. FilePages, MapFile(s, p, b, i) PROVE Promises!Next
    BY <1>2, <2>3 DEF MapFile
  <2> QED BY <1>5, <2>1, <2>2, <2>3, WriteFaultSees, TouchFaultSees, FileFaultSees, MapDeviceSees, MapSharedSees
<1>6. ASSUME OpenMemory \/ CloseMemory PROVE Promises!Next
  BY <1>2, <1>6 DEF OpenMemory, CloseMemory
<1>7. ASSUME NEW i \in 1 .. FilePages, NEW v \in Vals, FileWrite(i, v) PROVE Promises!Next
  BY <1>2, <1>7 DEF FileWrite
<1> QED BY <1>3, <1>5, <1>6, <1>7, ForkFailsSees, ForkSees, WriteMemorySees DEF Others

LEMMA StepSees ==
  ASSUME IInv, IInv', [Next]_vars
  PROVE  [Promises!Next]_(Promises!mvars)
<1>1. Mem /\ Mem' /\ TypedMem /\ TypedMaps
  BY DEF IInv, Mem
<1>2. ASSUME UNCHANGED vars PROVE UNCHANGED Promises!mvars
  BY <1>2 DEF vars, Promises!mvars
<1>3. ASSUME Others PROVE Promises!Next
  BY <1>1, <1>3, OtherSees
<1>4. ASSUME NEW s \in Spaces, NEW p \in Used, did' = [op |-> "write", s |-> s, P |-> {p}],
             MapAnon(s, p) \/ (\E v \in Vals : Write(s, p, v)) \/ (\E i \in 1 .. FilePages + 1 : MapFileNow(s, p, i)),
             setup' = setup
      PROVE  Promises!Next
  <2>1. p \in Pages
    BY <1>1, UsedPages
  <2>2. CASE MapAnon(s, p)
    <3>1. s \in live /\ live' = live /\ (Claim(s, p, 0) \/ NotClaimed(s, p)) /\ 0 \in Vals
      BY <2>2, PageConstants DEF MapAnon
    <3> QED BY <1>1, <1>4, <2>1, <3>1, ClaimSees
  <2>3. ASSUME NEW v \in Vals, Write(s, p, v) PROVE Promises!Next
    BY <1>1, <1>4, <2>1, <2>3, WriteSees
  <2>4. ASSUME NEW i \in 1 .. FilePages + 1, MapFileNow(s, p, i) PROVE Promises!Next
    <3>1. PICK v : v = IF i <= FilePages THEN disk[i] ELSE 0
      OBVIOUS
    <3>2. s \in live /\ live' = live /\ (Claim(s, p, v) \/ NotClaimed(s, p))
      BY <2>4, <3>1 DEF MapFileNow
    <3>3. v \in Vals
      <4>1. FilePages \in Nat
        BY <1>1, PageConstants DEF TypedMem, FilePages
      <4> QED BY <1>1, <3>1, <4>1, PageConstants DEF TypedMem
    <3> QED BY <1>1, <1>4, <2>1, <3>2, <3>3, ClaimSees
  <2> QED BY <1>4, <2>2, <2>3, <2>4
<1>5. ASSUME NEW s \in Spaces, NEW a \in Used, NEW b \in Used, Madvise(s, a, b) PROVE Promises!Next
  <2>1. a .. b \subseteq Pages
    <3>1. a \in Pages /\ b \in Pages /\ NPages \in Nat
      BY <1>1, UsedPages, PageConstants
    <3> QED BY <3>1 DEF Pages
  <2>2. PICK P \in SUBSET Pages : P = {p \in a .. b : pte[s][p].k = "own"}
    BY <2>1
  <2>3. s \in live /\ pte' = Emptied(s, P) /\ UNCHANGED <<live, data>>
    BY <1>5, <2>2 DEF Madvise
  <2> QED BY <1>1, <2>3, EmptiedSees
<1> QED BY <1>2, <1>3, <1>4, <1>5 DEF Next, Steps

LEMMA InitSees == Init => Promises!Init
<1> SUFFICES ASSUME Init PROVE Promises!Init
  OBVIOUS
<1>1. /\ live \in SUBSET Spaces /\ pte = [s \in Spaces |-> [p \in Pages |-> NoPage]]
      /\ data \in [Frames -> Vals] /\ did.op = "none"
  BY PageConstants DEF Init, Nothing
<1>2. \A s \in Spaces, p \in Pages : pte[s][p].k = "none"
  BY <1>1 DEF NoPage
<1> QED BY <1>1, <1>2 DEF Promises!Init, Promises!Empty

\* vm.c and share.c implement OwnMemory: whatever programs fork, map, share and
\* write, nobody sees a page of its own change under it, and a child starts with
\* its parent's.
THEOREM MemoryIsTheirOwn == Spec => MemoryIsOwn
<1>1. IInv /\ [Next]_vars => IInv'
  BY NextIInv
<1>2. IInv /\ IInv' /\ [Next]_vars => [Promises!Next]_(Promises!mvars)
  BY StepSees
<1> QED BY <1>1, <1>2, InitIInv, InitSees, PTL DEF Spec, MemoryIsOwn, Promises!Spec
=============================================================================
