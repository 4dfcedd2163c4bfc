----------------------------- MODULE PtyProofs ------------------------------
(***************************************************************************)
(* Proofs about pseudo-terminals, for any number of processes, descriptors *)
(* and terminals: each end is counted once for every descriptor on it; the *)
(* line being edited is what the screen shows, and a prompt before it is   *)
(* left alone; what is written is read whole and in order.                 *)
(***************************************************************************)
EXTENDS Pty, FiniteSetTheorems, FunctionTheorems, WellFoundedInduction, Lemmas

----------------------------------------------------------------------------
(* Counting.                                                               *)

\* Some of a finite set is taken away, and something else added.
LEMMA CardMove ==
  ASSUME NEW A, IsFiniteSet(A), NEW B, B \subseteq A, NEW D, IsFiniteSet(D), D \intersect (A \ B) = {}
  PROVE  /\ IsFiniteSet((A \ B) \union D) /\ Cardinality((A \ B) \union D) \in Nat
         /\ Cardinality(A) \in Nat /\ Cardinality(B) \in Nat /\ Cardinality(D) \in Nat
         /\ Cardinality((A \ B) \union D) = Cardinality(A) - Cardinality(B) + Cardinality(D)
<1>1. IsFiniteSet(B) /\ IsFiniteSet(A \ B)
  BY FS_Subset
<1>2. Cardinality(A) = Cardinality(A \ B) + Cardinality(B) - Cardinality((A \ B) \intersect B)
  <2>1. (A \ B) \union B = A
    OBVIOUS
  <2> QED BY <1>1, <2>1, FS_Union
<1>3. /\ IsFiniteSet((A \ B) \union D)
      /\ Cardinality((A \ B) \union D) = Cardinality(A \ B) + Cardinality(D) - Cardinality((A \ B) \intersect D)
  BY <1>1, FS_Union
<1>4. Cardinality((A \ B) \intersect B) = 0 /\ Cardinality((A \ B) \intersect D) = 0
  <2>1. (A \ B) \intersect B = {} /\ (A \ B) \intersect D = {}
    OBVIOUS
  <2> QED BY <2>1, FS_EmptySet
<1>5. /\ Cardinality(A) \in Nat /\ Cardinality(B) \in Nat /\ Cardinality(D) \in Nat
      /\ Cardinality(A \ B) \in Nat /\ Cardinality((A \ B) \union D) \in Nat
  BY <1>1, <1>3, FS_CardinalityType
<1> QED BY <1>2, <1>3, <1>4, <1>5

\* The descriptors of one table, as descriptors of all of them.
LEMMA CardPairs ==
  ASSUME NEW s, NEW Q, IsFiniteSet(Q)
  PROVE  IsFiniteSet({s} \X Q) /\ Cardinality({s} \X Q) = Cardinality(Q)
<1> DEFINE pair == [q \in Q |-> <<s, q>>]
<1>1. pair \in [Q -> {s} \X Q]
  OBVIOUS
<1>2. \A a, b \in Q : pair[a] = pair[b] => a = b
  OBVIOUS
<1>3. \A h \in {s} \X Q : \E q \in Q : pair[q] = h
  OBVIOUS
<1>4. pair \in Bijection(Q, {s} \X Q)
  BY <1>1, <1>2, <1>3, Fun_IsBij
<1>5. ExistsBijection(Q, {s} \X Q)
  BY <1>4 DEF ExistsBijection
<1> QED BY <1>5, FS_Bijection

Tables == [Callers -> [1 .. NFds -> [pty : Slots \union {0}, slave : BOOLEAN, nonblock : BOOLEAN]]]

LEMMA Finite ==
  /\ \A tab, n, sl : IsFiniteSet(On(tab, n, sl)) /\ Cardinality(On(tab, n, sl)) \in Nat
  /\ \A tabs, n, sl : IsFiniteSet(Holders(tabs, n, sl)) /\ Cardinality(Holders(tabs, n, sl)) \in Nat
<1>1. IsFiniteSet(1 .. NFds) /\ IsFiniteSet(Callers)
  BY PtyConstants, FS_Interval DEF Callers
<1>2. IsFiniteSet(Callers \X (1 .. NFds))
  BY <1>1, FS_Product
<1>3. ASSUME NEW tab, NEW n, NEW sl PROVE IsFiniteSet(On(tab, n, sl)) /\ Cardinality(On(tab, n, sl)) \in Nat
  <2>1. On(tab, n, sl) \in SUBSET (1 .. NFds)
    BY DEF On
  <2> QED BY <1>1, <2>1, FS_Subset, FS_CardinalityType
<1>4. ASSUME NEW tabs, NEW n, NEW sl
      PROVE  IsFiniteSet(Holders(tabs, n, sl)) /\ Cardinality(Holders(tabs, n, sl)) \in Nat
  <2>1. Holders(tabs, n, sl) \in SUBSET (Callers \X (1 .. NFds))
    BY DEF Holders
  <2> QED BY <1>2, <2>1, FS_Subset, FS_CardinalityType
<1> QED BY <1>3, <1>4

\* All tables but that of process c are the same.
OnlyOf(c, tabs, tabz) == \A p \in Callers \ {c} : tabz[p] = tabs[p]

\* When only the table of process c changes, so does the number of those that have
\* the end open, by what it had and what it has.
LEMMA TableMove ==
  ASSUME NEW tabs, NEW tabz, NEW c \in Callers, OnlyOf(c, tabs, tabz), NEW n, NEW sl
  PROVE  Cardinality(Holders(tabz, n, sl)) = Cardinality(Holders(tabs, n, sl))
           - Cardinality(On(tabs[c], n, sl)) + Cardinality(On(tabz[c], n, sl))
<1> DEFINE A == Holders(tabs, n, sl)
           B == {c} \X On(tabs[c], n, sl)
           D == {c} \X On(tabz[c], n, sl)
<1>1. IsFiniteSet(A) /\ IsFiniteSet(On(tabs[c], n, sl)) /\ IsFiniteSet(On(tabz[c], n, sl))
  BY Finite
<1>2. /\ IsFiniteSet(D) /\ Cardinality(D) = Cardinality(On(tabz[c], n, sl))
      /\ Cardinality(B) = Cardinality(On(tabs[c], n, sl))
  BY <1>1, CardPairs
<1>3. B \subseteq A
  BY DEF Holders, On
<1>4. D \intersect (A \ B) = {}
  BY DEF Holders
<1>5. Holders(tabz, n, sl) = (A \ B) \union D
  <2>1. ASSUME NEW h \in Callers \X (1 .. NFds)
        PROVE  h \in Holders(tabz, n, sl) <=> h \in (A \ B) \union D
    <3>1. PICK p \in Callers, i \in 1 .. NFds : h = <<p, i>>
      OBVIOUS
    <3>2. CASE p = c
      BY <3>1, <3>2 DEF Holders
    <3>3. CASE p # c
      BY <3>1, <3>3 DEF Holders, OnlyOf
    <3> QED BY <3>2, <3>3
  <2>2. D \subseteq Callers \X (1 .. NFds)
    BY DEF On
  <2> QED BY <2>1, <2>2 DEF Holders
<1> QED BY SMTT(60), <1>1, <1>2, <1>3, <1>4, <1>5, CardMove

\* A descriptor h counts once on its end of its terminal.
Bit(h, n, sl) == IF h.pty = n /\ h.slave = sl THEN 1 ELSE 0

\* Of a table that was tab, descriptor i is h now.
SetIs(tab, i, h, is) == is[i] = h /\ \A j \in (1 .. NFds) \ {i} : is[j] = tab[j]

LEMMA OnSet ==
  ASSUME NEW tab, NEW i \in 1 .. NFds, NEW h, NEW is, SetIs(tab, i, h, is), NEW n, NEW sl
  PROVE  Cardinality(On(is, n, sl))
           = Cardinality(On(tab, n, sl)) - Bit(tab[i], n, sl) + Bit(h, n, sl)
<1> DEFINE was == On(tab, n, sl)
           gone == IF Bit(tab[i], n, sl) = 1 THEN {i} ELSE {}
           new == IF Bit(h, n, sl) = 1 THEN {i} ELSE {}
<1>1. Cardinality(gone) = Bit(tab[i], n, sl) /\ Cardinality(new) = Bit(h, n, sl)
  BY FS_Singleton, FS_EmptySet DEF Bit
<1>2. IsFiniteSet(was) /\ IsFiniteSet(new)
  BY Finite, FS_Singleton, FS_EmptySet
<1>3. gone \subseteq was
  BY DEF Bit, On
<1>4. new \intersect (was \ gone) = {}
  BY DEF Bit, On
<1>5. On(is, n, sl) = (was \ gone) \union new
  BY DEF On, Bit, SetIs
<1> HIDE DEF was, gone, new
<1>6. Cardinality((was \ gone) \union new) = Cardinality(was) - Cardinality(gone) + Cardinality(new)
  BY <1>2, <1>3, <1>4, CardMove
<1> QED BY <1>1, <1>5, <1>6 DEF was

LEMMA OnNone == ASSUME NEW n, n # 0, NEW sl PROVE On(NoTable, n, sl) = {} /\ Cardinality(On(NoTable, n, sl)) = 0
<1>1. On(NoTable, n, sl) = {}
  BY DEF On, NoTable, NoFd
<1> QED BY <1>1, FS_EmptySet

LEMMA OnOnly ==
  ASSUME NEW h, NEW n, n # 0, NEW sl PROVE Cardinality(On(Only(h), n, sl)) = Bit(h, n, sl)
<1> DEFINE one == IF Bit(h, n, sl) = 1 THEN {1} ELSE {}
<1>1. 1 \in 1 .. NFds
  BY PtyConstants
<1>2. On(Only(h), n, sl) = one
  BY <1>1 DEF On, Only, NoTable, NoFd, Bit
<1>3. Cardinality(one) = Bit(h, n, sl)
  BY FS_Singleton, FS_EmptySet DEF Bit
<1> QED BY <1>2, <1>3

----------------------------------------------------------------------------
(* The inductive invariant.                                                *)

Handles == [pty : Slots \union {0}, slave : BOOLEAN, nonblock : BOOLEAN]
Table == [1 .. NFds -> Handles]

\* A terminal, and that its rings and its line fit their arrays.
Ptys ==
  [masters : Nat, slaves : Nat, opened : BOOLEAN, locked : BOOLEAN, eof : BOOLEAN,
   pgrp : Callers \union {0}, sid : Callers \union {0}, t : SUBSET Flags,
   in : Seq(Key), out : Seq(Shown), line : Seq(Key)]
Fits(p) == Len(p.in) <= QUEUE /\ Len(p.out) <= QUEUE /\ Len(p.line) <= LINE

Typed ==
  /\ setup \in Setups
  /\ ptys \in [Slots -> Ptys] /\ \A n \in Slots : Fits(ptys[n])
  /\ fds \in [Callers -> Table]
  /\ pend \subseteq Callers /\ loaded \in BOOLEAN

\* A call in the kernel holds a descriptor of its process on a terminal, and the
\* table that has it stays as it is.
Waits == [op : {"mread", "sread", "swrite"}, fd : 1 .. NFds, pty : Slots, left : Seq(Key), count : Nat]
WaitTrue(call, tab) == call.op = "idle" \/ (call \in Waits /\ tab[call.fd].pty = call.pty)
CallsTrue == calls \in [Callers -> {Idle} \union Waits] /\ \A c \in Callers : WaitTrue(calls[c], fds[c])

\* What the two ends of terminal n, as p, are counted as.
CountsAre(p, tabs, n) ==
  p.masters = Cardinality(Holders(tabs, n, FALSE)) /\ p.slaves = Cardinality(Holders(tabs, n, TRUE))

\* A terminal nobody has open is as it was at first; one that is open keeps the module.
EmptyIsNone(p) == p.masters = 0 /\ p.slaves = 0 => p = NoPty
Sound(p, tabs, n) == CountsAre(p, tabs, n) /\ EmptyIsNone(p) /\ (p # NoPty => loaded)

PtyInv == Typed /\ CallsTrue /\ \A n \in Slots : Sound(ptys[n], fds, n)
----------------------------------------------------------------------------
(* The line discipline keeps a terminal one, and leaves its ends alone.    *)

Good(p) == p \in Ptys /\ Fits(p)
Kept(p, q) == Good(q) /\ q.masters = p.masters /\ q.slaves = p.slaves

LEMMA SetupType ==
  ASSUME setup \in Setups
  PROVE  /\ setup.NPtys \in Nat \ {0} /\ LINE \in Nat \ {0} /\ QUEUE \in Nat \ {0}
         /\ 1 .. setup.callers \subseteq Callers /\ setup.Counts \subseteq Nat
         /\ setup.Keys \subseteq Key /\ setup.Written \subseteq Key /\ setup.Terms \subseteq SUBSET Flags
BY PtyConstants DEF LINE, QUEUE, Callers

LEMMA CutType ==
  ASSUME NEW A, NEW s \in Seq(A), NEW n \in Nat
  PROVE  Cut(s, n) \in Seq(A) /\ Len(Cut(s, n)) <= n
<1>1. CASE Len(s) > n
  <2>1. SubSeq(s, 1, n) \in Seq(A) /\ Len(SubSeq(s, 1, n)) = n
    BY <1>1
  <2> QED BY <1>1, <2>1 DEF Cut
<1>2. CASE ~(Len(s) > n)
  <2>1. Len(s) \in Nat
    OBVIOUS
  <2> QED BY <1>2, <2>1 DEF Cut
<1> QED BY <1>1, <1>2

LEMMA SetOut ==
  ASSUME NEW p, Good(p), NEW s \in Seq(Shown), Len(s) <= QUEUE
  PROVE  Kept(p, [p EXCEPT !.out = s])
<1>1. p \in Ptys
  BY DEF Good
<1> QED BY <1>1 DEF Kept, Good, Fits, Ptys

LEMMA SetIn ==
  ASSUME NEW p, Good(p), NEW s \in Seq(Key), Len(s) <= QUEUE
  PROVE  Kept(p, [p EXCEPT !.in = s])
<1>1. p \in Ptys
  BY DEF Good
<1> QED BY <1>1 DEF Kept, Good, Fits, Ptys

LEMMA SetLine ==
  ASSUME NEW p, Good(p), NEW s \in Seq(Key), Len(s) <= LINE
  PROVE  Kept(p, [p EXCEPT !.line = s])
<1>1. p \in Ptys
  BY DEF Good
<1> QED BY <1>1 DEF Kept, Good, Fits, Ptys

LEMMA KeptOn == ASSUME NEW p, NEW q, NEW r, Kept(p, q), Kept(q, r) PROVE Kept(p, r)
BY DEF Kept

LEMMA Parts ==
  ASSUME setup \in Setups, NEW p, Good(p)
  PROVE  /\ p.in \in Seq(Key) /\ p.out \in Seq(Shown) /\ p.line \in Seq(Key) /\ p.t \in SUBSET Flags
         /\ p.masters \in Nat /\ p.slaves \in Nat /\ p.eof \in BOOLEAN
         /\ Len(p.in) <= QUEUE /\ Len(p.out) <= QUEUE /\ Len(p.line) <= LINE /\ QUEUE \in Nat /\ LINE \in Nat
         /\ Kept(p, p)
<1>1. p \in Ptys
  BY DEF Good
<1> QED BY <1>1, SetupType DEF Kept, Good, Fits, Ptys

LEMMA OutPutKeeps ==
  ASSUME setup \in Setups, NEW p, Good(p), NEW cs \in Seq(Shown)
  PROVE  Kept(p, OutPut(p, cs))
<1> DEFINE s == Cut(p.out \o cs, QUEUE)
<1>1. p.out \o cs \in Seq(Shown) /\ QUEUE \in Nat
  BY Parts
<1>2. s \in Seq(Shown) /\ Len(s) <= QUEUE
  BY <1>1, CutType
<1>3. OutPut(p, cs) = [p EXCEPT !.out = s]
  BY DEF OutPut
<1> HIDE DEF s
<1> QED BY <1>2, <1>3, SetOut

LEMMA ExpandedType == ASSUME NEW p, NEW c \in Key PROVE Expanded(p, c) \in Seq(Shown)
<1>1. c \in Shown /\ "cr" \in Shown /\ "nl" \in Shown
  BY DEF Shown, Key
<1> QED BY <1>1 DEF Expanded

LEMMA EchoKeeps ==
  ASSUME setup \in Setups, NEW p, Good(p), NEW c \in Key
  PROVE  Kept(p, Echo(p, c))
<1>1. <<"^", "letter">> \in Seq(Shown)
  BY DEF Shown
<1>2. Expanded(p, c) \in Seq(Shown)
  BY ExpandedType
<1>3. Kept(p, p) /\ Kept(p, OutPut(p, <<"^", "letter">>)) /\ Kept(p, OutPut(p, Expanded(p, c)))
  BY <1>1, <1>2, OutPutKeeps, Parts
<1> QED BY <1>3 DEF Echo, Output

LEMMA RubbingType == ASSUME NEW k \in Nat PROVE [i \in 1 .. 3 * k |-> IF i % 3 = 2 THEN "sp" ELSE "bs"] \in Seq(Shown)
<1>1. 3 * k \in Nat /\ "sp" \in Shown /\ "bs" \in Shown
  BY DEF Shown, Key
<1> QED BY <1>1

LEMMA EraseKeeps ==
  ASSUME setup \in Setups, NEW p, Good(p), NEW n \in Nat
  PROVE  Kept(p, Erase(p, n))
<1> DEFINE k == IF n < Len(p.line) THEN n ELSE Len(p.line)
           s == SubSeq(p.line, 1, Len(p.line) - k)
           q == [p EXCEPT !.line = s]
           cs == [i \in 1 .. 3 * k |-> IF i % 3 = 2 THEN "sp" ELSE "bs"]
<1>1. k \in Nat /\ k <= Len(p.line)
  BY Parts
<1>2. s \in Seq(Key) /\ Len(s) <= LINE
  <2> HIDE DEF k
  <2>1. p.line \in Seq(Key) /\ Len(p.line) <= LINE /\ LINE \in Nat
    BY Parts
  <2>2. Len(p.line) - k \in 0 .. Len(p.line)
    BY <1>1, <2>1
  <2>3. s \in Seq(Key) /\ Len(s) = Len(p.line) - k
    BY <2>1, <2>2
  <2> QED BY <2>1, <2>2, <2>3
<1>3. Kept(p, q)
  <2> HIDE DEF s
  <2> QED BY <1>2, SetLine
<1>4. cs \in Seq(Shown)
  <2> HIDE DEF k
  <2> QED BY <1>1, RubbingType
<1>5. Kept(q, OutPut(q, cs))
  <2> HIDE DEF q, cs
  <2>1. Good(q)
    BY <1>3 DEF Kept
  <2> QED BY <1>4, <2>1, OutPutKeeps
<1>6. Erase(p, n) = IF {"echo", "echoe"} \subseteq p.t THEN OutPut(q, cs) ELSE q
  BY DEF Erase
<1> HIDE DEF q, cs
<1> QED BY <1>3, <1>5, <1>6, KeptOn

LEMMA WordType == ASSUME NEW line \in Seq(Key) PROVE Word(line) \in Nat
<1> DEFINE n == Len(line)
           L == {i \in DOMAIN line : line[i] # "sp"} \union {0}
           B == {i \in 1 .. Max(L) : line[i] = "sp"} \union {0}
<1>1. n \in Nat /\ DOMAIN line = 1 .. n
  OBVIOUS
<1>2. L \subseteq 0 .. n /\ L # {}
  BY <1>1
<1>3. Max(L) \in 0 .. n
  <2> HIDE DEF L, n
  <2> QED BY <1>1, <1>2, MaxIn
<1>4. B \subseteq 0 .. n /\ B # {}
  <2> HIDE DEF L
  <2> QED BY <1>1, <1>3
<1>5. Max(B) \in 0 .. n
  <2> HIDE DEF B, n
  <2> QED BY <1>1, <1>4, MaxIn
<1>6. Word(line) = n - Max(B)
  BY DEF Word
<1> HIDE DEF B
<1> QED BY <1>1, <1>5, <1>6

LEMMA LineDoneKeeps ==
  ASSUME setup \in Setups, NEW p, Good(p)
  PROVE  Kept(p, LineDone(p))
<1> DEFINE s == Cut(p.in \o p.line, QUEUE)
           q == [p EXCEPT !.in = s]
           e == <<>>
<1>1. p.in \o p.line \in Seq(Key) /\ QUEUE \in Nat /\ LINE \in Nat
  BY Parts
<1>2. s \in Seq(Key) /\ Len(s) <= QUEUE
  BY <1>1, CutType
<1>3. e \in Seq(Key) /\ Len(e) <= LINE
  BY <1>1
<1>4. LineDone(p) = [q EXCEPT !.line = e]
  BY DEF LineDone
<1>5. Kept(p, q)
  <2> HIDE DEF s
  <2> QED BY <1>2, SetIn
<1>6. Kept(q, [q EXCEPT !.line = e])
  <2> HIDE DEF q, e
  <2>1. Good(q)
    BY <1>5 DEF Kept
  <2> QED BY <1>3, <2>1, SetLine
<1> HIDE DEF q, e
<1> QED BY <1>4, <1>5, <1>6, KeptOn

\* A character at the end of the line, cut to n places, n no more than the array has.
LEMMA LineGrows ==
  ASSUME setup \in Setups, NEW p, Good(p), NEW c \in Key
  PROVE  /\ Kept(p, [p EXCEPT !.line = Cut(Append(@, c), LINE)])
         /\ Len(p.line) < LINE - 1 => Kept(p, [p EXCEPT !.line = Append(@, c)])
<1> DEFINE s == Append(p.line, c)
           u == Cut(s, LINE)
<1>1. s \in Seq(Key) /\ LINE \in Nat /\ Len(s) = Len(p.line) + 1 /\ Len(p.line) \in Nat
  BY Parts
<1>2. u \in Seq(Key) /\ Len(u) <= LINE
  <2> HIDE DEF s
  <2> QED BY <1>1, CutType
<1>3. Kept(p, [p EXCEPT !.line = u])
  <2> HIDE DEF u
  <2> QED BY <1>2, SetLine
<1>4. Len(p.line) < LINE - 1 => Kept(p, [p EXCEPT !.line = s])
  <2> HIDE DEF s
  <2> QED BY <1>1, SetLine
<1> QED BY <1>3, <1>4

LEMMA GatherKeeps ==
  ASSUME setup \in Setups, NEW p, Good(p), NEW c \in Key
  PROVE  Kept(p, Gather(p, c))
<1> DEFINE q == [p EXCEPT !.line = Append(@, c)]
<1>1. CASE Len(p.line) < LINE - 1
  <2>1. Kept(p, q)
    BY <1>1, LineGrows
  <2>2. Gather(p, c) = Echo(q, c)
    BY <1>1 DEF Gather
  <2> HIDE DEF q
  <2>3. Kept(q, Echo(q, c))
    BY <2>1, EchoKeeps DEF Kept
  <2> QED BY <2>1, <2>2, <2>3, KeptOn
<1>2. CASE ~(Len(p.line) < LINE - 1)
  BY <1>2, Parts DEF Gather
<1> QED BY <1>1, <1>2

LEMMA InputKeeps ==
  ASSUME setup \in Setups, NEW p, Good(p), NEW k \in Key
  PROVE  Kept(p, Input(p, k))
<1> DEFINE c == IF k = "cr" /\ "icrnl" \in p.t THEN "nl" ELSE k
           e == <<>>
           A1 == [Echo(p, c) EXCEPT !.line = e, !.in = e]
           i2 == Cut(Append(p.in, c), QUEUE)
           p2 == [p EXCEPT !.in = i2]
           A2 == Echo(p2, c)
           p3 == [p EXCEPT !.eof = (p.line = e)]
           A3 == LineDone(p3)
           p4 == [p EXCEPT !.line = Cut(Append(@, c), LINE)]
           A4 == LineDone(Echo(p4, c))
<1>0. c \in Key /\ e \in Seq(Key) /\ Len(e) = 0
  BY DEF Key
<1>1. Kept(p, A1)
  <2> DEFINE q == Echo(p, c)
             r == [q EXCEPT !.line = e]
  <2>1. A1 = [r EXCEPT !.in = e]
    OBVIOUS
  <2> HIDE DEF c, e
  <2>2. Kept(p, q)
    BY <1>0, EchoKeeps
  <2> HIDE DEF q
  <2>3. Good(q) /\ QUEUE \in Nat /\ LINE \in Nat
    BY <2>2, Parts DEF Kept
  <2>4. Kept(q, r)
    <3>1. Len(e) <= LINE
      BY <1>0, <2>3
    <3> QED BY <1>0, <2>3, <3>1, SetLine
  <2> HIDE DEF r
  <2>5. Kept(r, [r EXCEPT !.in = e])
    <3>1. Len(e) <= QUEUE /\ Good(r)
      BY <1>0, <2>3, <2>4 DEF Kept
    <3> QED BY <1>0, <3>1, SetIn
  <2> HIDE DEF A1
  <2> QED BY <2>1, <2>2, <2>4, <2>5, KeptOn
<1>2. Kept(p, A2)
  <2>1. i2 \in Seq(Key) /\ Len(i2) <= QUEUE
    <3> HIDE DEF c
    <3>1. Append(p.in, c) \in Seq(Key) /\ QUEUE \in Nat
      BY <1>0, Parts
    <3> QED BY <3>1, CutType
  <2>2. Kept(p, p2)
    <3> HIDE DEF i2
    <3> QED BY <2>1, SetIn
  <2> HIDE DEF p2, c
  <2>3. Kept(p2, Echo(p2, c))
    BY <1>0, <2>2, EchoKeeps DEF Kept
  <2> QED BY <2>2, <2>3, KeptOn
<1>3. Kept(p, A3)
  <2>1. Kept(p, p3)
    <3>1. p \in Ptys
      BY DEF Good
    <3> QED BY <3>1 DEF Kept, Good, Fits, Ptys
  <2> HIDE DEF p3
  <2>2. Kept(p3, LineDone(p3))
    BY <2>1, LineDoneKeeps DEF Kept
  <2> QED BY <2>1, <2>2, KeptOn
<1>4. Kept(p, A4)
  <2> HIDE DEF c
  <2>1. Kept(p, p4)
    BY <1>0, LineGrows
  <2> HIDE DEF p4
  <2> DEFINE q == Echo(p4, c)
  <2>2. Kept(p4, q)
    BY <1>0, <2>1, EchoKeeps DEF Kept
  <2> HIDE DEF q
  <2>3. Kept(q, LineDone(q))
    BY <2>2, LineDoneKeeps DEF Kept
  <2>4. Kept(p, LineDone(q))
    BY <2>1, <2>2, <2>3, KeptOn
  <2> QED BY <2>4 DEF q
<1>5. Kept(p, Erase(p, 1)) /\ Kept(p, Erase(p, Len(p.line))) /\ Kept(p, Erase(p, Word(p.line)))
  <2>1. 1 \in Nat /\ Len(p.line) \in Nat /\ Word(p.line) \in Nat
    BY Parts, WordType
  <2> QED BY <2>1, EraseKeeps
<1>6. Kept(p, Gather(p, c))
  <2> HIDE DEF c
  <2> QED BY <1>0, GatherKeeps
<1>7. \/ Input(p, k) = A1 \/ Input(p, k) = A2 \/ Input(p, k) = A3 \/ Input(p, k) = A4
      \/ Input(p, k) \in {Erase(p, 1), Erase(p, Len(p.line)), Erase(p, Word(p.line)), Gather(p, c)}
  BY DEF Input
<1> HIDE DEF A1, A2, A3, A4, c
<1> QED BY <1>1, <1>2, <1>3, <1>4, <1>5, <1>6, <1>7
----------------------------------------------------------------------------
(* Steps that leave the tables of descriptors alone.                       *)

\* Terminals change and their ends do not; one nobody has open does not change at all.
Tended ==
  /\ ptys' \in [Slots -> Ptys]
  /\ \A n \in Slots : Kept(ptys[n], ptys'[n]) /\ (ptys[n] = NoPty => ptys'[n] = NoPty)

LEMMA GoodThere == ASSUME PtyInv, NEW n \in Slots PROVE Good(ptys[n]) /\ Kept(ptys[n], ptys[n])
BY DEF PtyInv, Typed, Good, Kept

LEMMA SameTended == ASSUME PtyInv, UNCHANGED ptys PROVE Tended
<1>1. ptys \in [Slots -> Ptys]
  BY DEF PtyInv, Typed
<1> QED BY <1>1, GoodThere DEF Tended

\* A terminal somebody holds a descriptor on is in use.
LEMMA HeldIsOpen ==
  ASSUME PtyInv, NEW c \in Callers, NEW fd \in 1 .. NFds, fds[c][fd].pty # 0
  PROVE  fds[c][fd].pty \in Slots /\ InUse(fds[c][fd].pty)
<1> DEFINE h == fds[c][fd]
           n == h.pty
<1>1. h \in Handles
  BY DEF PtyInv, Typed, Table
<1>2. n \in Slots /\ h.slave \in BOOLEAN
  BY <1>1 DEF Handles
<1>3. <<c, fd>> \in Holders(fds, n, h.slave)
  BY DEF Holders, On
<1>4. IsFiniteSet(Holders(fds, n, h.slave)) /\ Holders(fds, n, h.slave) # {}
  BY <1>3, Finite
<1>5. Cardinality(Holders(fds, n, h.slave)) # 0
  BY <1>4, FS_EmptySet
<1>6. h.slave = TRUE \/ h.slave = FALSE
  BY <1>2
<1>7. ptys[n].masters # 0 \/ ptys[n].slaves # 0
  <2>1. CountsAre(ptys[n], fds, n)
    BY <1>2 DEF PtyInv, Sound
  <2> QED BY <1>5, <1>6, <2>1 DEF CountsAre
<1>8. NoPty.masters = 0 /\ NoPty.slaves = 0
  BY DEF NoPty
<1> QED BY <1>2, <1>7, <1>8 DEF InUse

LEMMA Tending ==
  ASSUME PtyInv, NEW n \in Slots, InUse(n), NEW q, Kept(ptys[n], q), ptys' = [ptys EXCEPT ![n] = q]
  PROVE  Tended
<1>1. ptys \in [Slots -> Ptys] /\ q \in Ptys
  BY DEF PtyInv, Typed, Kept, Good
<1>2. ptys' \in [Slots -> Ptys]
  BY <1>1
<1>3. ASSUME NEW m \in Slots PROVE Kept(ptys[m], ptys'[m]) /\ (ptys[m] = NoPty => ptys'[m] = NoPty)
  <2>1. CASE m = n
    BY <1>1, <2>1 DEF InUse
  <2>2. CASE m # n
    BY <1>1, <2>2, GoodThere
  <2> QED BY <2>1, <2>2
<1> QED BY <1>2, <1>3 DEF Tended

\* The invariant, when no table changes; and the module goes when nothing is in use only.
LEMMA TendedStep ==
  ASSUME PtyInv, Tended, UNCHANGED <<setup, fds>>, pend' \subseteq Callers, CallsTrue',
         loaded' \in BOOLEAN, loaded' = loaded \/ loaded' = TRUE \/ \A n \in Slots : ~InUse(n)
  PROVE  PtyInv'
<1>1. Slots' = Slots /\ QUEUE' = QUEUE /\ LINE' = LINE
  BY DEF Slots, QUEUE, LINE
<1>2. Typed'
  BY <1>1 DEF PtyInv, Typed, Tended, Kept, Good, Fits, Ptys, Table, Handles
<1>3. ASSUME NEW n \in Slots' PROVE Sound(ptys[n], fds, n)'
  <2> DEFINE p == ptys[n]
             q == ptys'[n]
  <2>1. Sound(p, fds, n) /\ Kept(p, q) /\ (p = NoPty => q = NoPty)
    BY <1>1 DEF PtyInv, Tended
  <2>2. q.masters = p.masters /\ q.slaves = p.slaves
    BY <2>1 DEF Kept
  <2>3. q # NoPty => loaded'
    BY <1>1, <2>1 DEF Sound, InUse
  <2> HIDE DEF p, q
  <2>4. CountsAre(q, fds', n) /\ EmptyIsNone(q)
    BY <2>1, <2>2 DEF Sound, CountsAre, EmptyIsNone
  <2>5. Sound(ptys[n], fds, n)' <=> CountsAre(q, fds', n) /\ EmptyIsNone(q) /\ (q # NoPty => loaded')
    BY DEF Sound, CountsAre, EmptyIsNone, q, Holders, On, NoPty, Callers
  <2> QED BY <2>3, <2>4, <2>5
<1> QED BY <1>1, <1>2, <1>3 DEF PtyInv

LEMMA CallsSame == ASSUME PtyInv, UNCHANGED <<setup, fds, calls>> PROVE CallsTrue'
BY DEF PtyInv, CallsTrue, WaitTrue, Waits, Slots

LEMMA RestType ==
  ASSUME NEW A, NEW s \in Seq(A), NEW k \in Nat
  PROVE  SubSeq(s, k + 1, Len(s)) \in Seq(A) /\ Len(SubSeq(s, k + 1, Len(s))) <= Len(s)
<1>1. Len(s) \in Nat /\ \A i \in 1 .. Len(s) : s[i] \in A
  OBVIOUS
<1>2. CASE k + 1 > Len(s)
  <2>1. Len(SubSeq(s, k + 1, Len(s))) = 0
    BY <1>1, <1>2
  <2>2. SubSeq(s, k + 1, Len(s)) = <<>>
    BY <1>1, <1>2
  <2> QED BY <1>1, <2>1, <2>2
<1>3. CASE k + 1 <= Len(s)
  <2>1. k + 1 \in 1 .. Len(s)
    BY <1>1, <1>3
  <2>2. SubSeq(s, k + 1, Len(s)) \in Seq(A) /\ Len(SubSeq(s, k + 1, Len(s))) = Len(s) - k
    BY <1>1, <2>1
  <2> QED BY <1>1, <2>2
<1> QED BY <1>1, <1>2, <1>3

LEMMA TakenType ==
  ASSUME setup \in Setups, NEW p, Good(p), NEW n \in Nat
  PROVE  Taken(p, n) \in Nat
<1> DEFINE S == {i \in DOMAIN p.in : p.in[i] = "nl"} \union {Len(p.in)}
<1>1. S \subseteq Nat /\ S # {} /\ Len(p.in) \in Nat
  BY Parts
<1>2. LineEnd(p.in) \in Nat
  <2> HIDE DEF S
  <2>1. Min(S) \in Nat
    BY <1>1, MinIn
  <2> QED BY <2>1 DEF S, LineEnd
<1> QED BY <1>1, <1>2 DEF Taken

\* A call that process c makes, or waits in, is on a descriptor of its own.
Made(c, call) == call \in Waits /\ fds[c][call.fd].pty = call.pty

LEMMA ReturnTrue ==
  ASSUME PtyInv, NEW c \in Callers, UNCHANGED <<setup, fds>>, Return(c)
  PROVE  CallsTrue'
<1>1. Slots' = Slots
  BY DEF Slots
<1>2. calls \in [Callers -> {Idle} \union Waits] /\ \A d \in Callers : WaitTrue(calls[d], fds[d])
  BY DEF PtyInv, CallsTrue
<1>3. calls' \in [Callers -> {Idle} \union Waits]
  BY <1>2 DEF Return
<1>4. ASSUME NEW d \in Callers PROVE WaitTrue(calls'[d], fds[d])
  <2>1. CASE d = c
    BY <1>2, <2>1 DEF Return, WaitTrue, Idle
  <2>2. CASE d # c
    BY <1>2, <2>2 DEF Return
  <2> QED BY <2>1, <2>2
<1> QED BY <1>1, <1>3, <1>4 DEF CallsTrue, WaitTrue, Waits

LEMMA WaitingTrue ==
  ASSUME PtyInv, NEW c \in Callers, UNCHANGED <<setup, fds>>, NEW call, Made(c, call),
         calls' = [calls EXCEPT ![c] = call]
  PROVE  CallsTrue'
<1>1. Slots' = Slots
  BY DEF Slots
<1>2. calls \in [Callers -> {Idle} \union Waits] /\ \A d \in Callers : WaitTrue(calls[d], fds[d])
  BY DEF PtyInv, CallsTrue
<1>3. calls' \in [Callers -> {Idle} \union Waits]
  BY <1>2 DEF Made
<1>4. ASSUME NEW d \in Callers PROVE WaitTrue(calls'[d], fds[d])
  <2>1. CASE d = c
    BY <1>2, <2>1 DEF Made, WaitTrue
  <2>2. CASE d # c
    BY <1>2, <2>2
  <2> QED BY <2>1, <2>2
<1> QED BY <1>1, <1>3, <1>4 DEF CallsTrue, WaitTrue, Waits

LEMMA WaitForStep ==
  ASSUME PtyInv, NEW c \in Callers, UNCHANGED <<setup, fds>>, NEW call, Made(c, call), WaitFor(c, call)
  PROVE  Tended /\ CallsTrue'
<1>1. Return(c) \/ calls' = [calls EXCEPT ![c] = call]
  BY DEF WaitFor
<1>2. UNCHANGED ptys
  BY DEF WaitFor
<1> QED BY <1>1, <1>2, ReturnTrue, WaitingTrue, SameTended
LEMMA MadeIsOpen ==
  ASSUME PtyInv, NEW c \in Callers, NEW call, Made(c, call)
  PROVE  /\ call.pty \in Slots /\ InUse(call.pty) /\ Good(ptys[call.pty])
         /\ call.op \in {"mread", "sread", "swrite"} /\ call.left \in Seq(Key) /\ call.count \in Nat
<1>1. call \in Waits
  BY DEF Made
<1>2. /\ call.fd \in 1 .. NFds /\ call.pty \in Slots /\ call.op \in {"mread", "sread", "swrite"}
      /\ call.left \in Seq(Key) /\ call.count \in Nat
  BY <1>1 DEF Waits
<1>3. fds[c][call.fd].pty = call.pty /\ call.pty # 0
  BY <1>2, SetupType DEF Made, Slots
<1> QED BY <1>2, <1>3, HeldIsOpen, GoodThere

LEMMA MasterReadStep ==
  ASSUME PtyInv, NEW c \in Callers, UNCHANGED <<setup, fds>>, NEW call, Made(c, call), MasterRead(c, call)
  PROVE  Tended /\ CallsTrue'
<1> DEFINE n == call.pty
           p == ptys[n]
           k == IF call.count < Len(p.out) THEN call.count ELSE Len(p.out)
           s == SubSeq(p.out, k + 1, Len(p.out))
           q == [p EXCEPT !.out = s]
<1>1. n \in Slots /\ InUse(n) /\ Good(p) /\ call.count \in Nat /\ setup \in Setups
  BY MadeIsOpen DEF PtyInv, Typed
<1>2. CASE ~MasterCanRead(p)
  BY <1>2, WaitForStep DEF MasterRead
<1>3. CASE MasterCanRead(p)
  <2>1. ptys' = [ptys EXCEPT ![n] = q] /\ Return(c)
    BY <1>3 DEF MasterRead
  <2>2. p.out \in Seq(Shown) /\ Len(p.out) <= QUEUE /\ QUEUE \in Nat
    BY <1>1, Parts
  <2>3. k \in Nat
    BY <1>1, <2>2
  <2>4. s \in Seq(Shown) /\ Len(s) <= Len(p.out)
    <3> HIDE DEF k
    <3> QED BY <2>2, <2>3, RestType
  <2>5. Len(s) <= QUEUE
    <3>1. Len(s) \in Nat /\ Len(p.out) \in Nat
      BY SMTT(60), <2>2, <2>4
    <3> HIDE DEF s
    <3> QED BY <2>2, <2>4, <3>1
  <2>6. Kept(p, q)
    <3> HIDE DEF s
    <3> QED BY <1>1, <2>4, <2>5, SetOut
  <2> HIDE DEF q, n
  <2> QED BY <1>1, <2>1, <2>6, Tending, ReturnTrue
<1> QED BY <1>2, <1>3

LEMMA SlaveReadStep ==
  ASSUME PtyInv, NEW c \in Callers, UNCHANGED <<setup, fds>>, NEW call, Made(c, call), SlaveRead(c, call)
  PROVE  Tended /\ CallsTrue'
<1> DEFINE n == call.pty
           p == ptys[n]
           k == Taken(p, call.count)
           s == SubSeq(p.in, k + 1, Len(p.in))
           q == IF p.in = <<>> THEN [p EXCEPT !.eof = FALSE] ELSE [p EXCEPT !.in = s]
<1>1. n \in Slots /\ InUse(n) /\ Good(p) /\ call.count \in Nat /\ setup \in Setups
  BY MadeIsOpen DEF PtyInv, Typed
<1>2. CASE ~SlaveCanRead(p)
  BY <1>2, WaitForStep DEF SlaveRead
<1>3. CASE SlaveCanRead(p)
  <2>1. ptys' = [ptys EXCEPT ![n] = q] /\ Return(c)
    BY <1>3 DEF SlaveRead
  <2>2. p.in \in Seq(Key) /\ Len(p.in) <= QUEUE /\ QUEUE \in Nat
    BY <1>1, Parts
  <2>3. k \in Nat
    BY <1>1, TakenType
  <2>4. s \in Seq(Key) /\ Len(s) <= Len(p.in)
    <3> HIDE DEF k
    <3> QED BY <2>2, <2>3, RestType
  <2>5. Len(s) <= QUEUE
    <3>1. Len(s) \in Nat /\ Len(p.in) \in Nat
      BY <2>2, <2>4
    <3> HIDE DEF s
    <3> QED BY <2>2, <2>4, <3>1
  <2>6. Kept(p, [p EXCEPT !.in = s])
    <3> HIDE DEF s
    <3> QED BY <1>1, <2>4, <2>5, SetIn
  <2>7. Kept(p, [p EXCEPT !.eof = FALSE])
    <3>1. p \in Ptys
      BY <1>1 DEF Good
    <3> HIDE DEF p
    <3> QED BY <1>1, <3>1 DEF Kept, Good, Fits, Ptys
  <2>8. Kept(p, q)
    BY <2>6, <2>7
  <2> HIDE DEF q, n
  <2> QED BY <1>1, <2>1, <2>8, Tending, ReturnTrue
<1> QED BY <1>2, <1>3

LEMMA PutsType ==
  ASSUME NEW p, NEW cs \in Seq(Key)
  PROVE  Puts(p, cs) \in 0 .. Len(cs)
<1> DEFINE Size(i) == Len(p.out) + Len(Expansion(p, SubSeq(cs, 1, i)))
           S == {i \in 0 .. Len(cs) : i = 0 \/ Size(i - 1) < QUEUE}
<1>1. Len(cs) \in Nat /\ S \subseteq 0 .. Len(cs)
  <2> HIDE DEF Size
  <2> QED OBVIOUS
<1>2. 0 \in S
  <2> HIDE DEF Size
  <2> QED BY <1>1
<1>3. S # {}
  BY <1>2
<1>4. Puts(p, cs) = Max(S)
  BY DEF Puts
<1> HIDE DEF S
<1> QED BY <1>1, <1>3, <1>4, MaxIn

LEMMA ExpansionType ==
  ASSUME NEW p, NEW cs \in Seq(Key)
  PROVE  Expansion(p, cs) \in Seq(Shown)
<1> DEFINE seqs == [i \in DOMAIN cs |-> Expanded(p, cs[i])]
<1>1. \A i \in DOMAIN cs : Expanded(p, cs[i]) \in Seq(Shown)
  BY ExpandedType
<1>2. Len(cs) \in Nat /\ DOMAIN cs = 1 .. Len(cs)
  OBVIOUS
<1>3. seqs \in Seq(Seq(Shown))
  BY <1>1, <1>2
<1> HIDE DEF seqs
<1>4. FlattenSeq(seqs) \in Seq(Shown)
  BY <1>3, FlattenType
<1> QED BY <1>4 DEF Expansion, seqs

LEMMA SlaveWriteStep ==
  ASSUME PtyInv, NEW c \in Callers, UNCHANGED <<setup, fds>>, NEW call, Made(c, call), SlaveWrite(c, call)
  PROVE  Tended /\ CallsTrue'
<1> DEFINE n == call.pty
           p == ptys[n]
           k == Puts(p, call.left)
           now == SubSeq(call.left, 1, k)
           then == SubSeq(call.left, k + 1, Len(call.left))
           rest == [call EXCEPT !.left = then]
           cs == Expansion(p, now)
           q == OutPut(p, cs)
<1>1. n \in Slots /\ InUse(n) /\ Good(p) /\ call.left \in Seq(Key) /\ setup \in Setups
  BY MadeIsOpen DEF PtyInv, Typed
<1>2. CASE p.masters = 0
  BY <1>2, ReturnTrue, SameTended DEF SlaveWrite
<1>3. CASE p.masters # 0
  <2>1. ptys' = [ptys EXCEPT ![n] = q] /\ (Return(c) \/ calls' = [calls EXCEPT ![c] = rest])
    BY <1>3 DEF SlaveWrite
  <2>2. k \in 0 .. Len(call.left)
    BY <1>1, PutsType
  <2>3. now \in Seq(Key) /\ then \in Seq(Key)
    <3> HIDE DEF k
    <3>1. then \in Seq(Key)
      BY <1>1, <2>2, RestType
    <3>2. now \in Seq(Key)
      BY <1>1, <2>2
    <3> QED BY <3>1, <3>2
  <2>4. cs \in Seq(Shown)
    <3> HIDE DEF now
    <3> QED BY <2>3, ExpansionType
  <2>5. Kept(p, q)
    <3> HIDE DEF cs
    <3> QED BY <1>1, <2>4, OutPutKeeps
  <2>6. Made(c, rest)
    <3> HIDE DEF then
    <3> QED BY <2>3 DEF Made, Waits
  <2>7. Tended
    <3> HIDE DEF q, n
    <3> QED BY <1>1, <2>1, <2>5, Tending
  <2>8. CallsTrue'
    <3> HIDE DEF rest
    <3> QED BY <2>1, <2>6, ReturnTrue, WaitingTrue
  <2> QED BY <2>7, <2>8
<1> QED BY <1>2, <1>3

LEMMA CarryOnStep ==
  ASSUME PtyInv, NEW c \in Callers, UNCHANGED <<setup, fds>>, NEW call, Made(c, call), CarryOn(c, call)
  PROVE  Tended /\ CallsTrue'
<1>1. call.op \in {"mread", "sread", "swrite"}
  BY MadeIsOpen
<1>2. MasterRead(c, call) \/ SlaveRead(c, call) \/ SlaveWrite(c, call)
  BY <1>1 DEF CarryOn
<1> QED BY <1>2, MasterReadStep, SlaveReadStep, SlaveWriteStep
----------------------------------------------------------------------------
(* The steps that leave the tables alone, one by one.                      *)

LEMMA LoadedSame ==
  ASSUME PtyInv, Tended, UNCHANGED <<setup, fds, loaded>>, pend' \subseteq Callers, CallsTrue'
  PROVE  PtyInv'
<1>1. loaded' \in BOOLEAN
  BY DEF PtyInv, Typed
<1> QED BY <1>1, TendedStep

LEMMA PendSame == ASSUME PtyInv, UNCHANGED pend PROVE pend' \subseteq Callers
BY DEF PtyInv, Typed

LEMMA PtyReadStep ==
  ASSUME PtyInv, UNCHANGED setup, NEW c \in Callers, NEW fd \in 1 .. NFds, NEW n \in Nat, PtyRead(c, fd, n)
  PROVE  PtyInv'
<1> DEFINE kind == IF Handle(c, fd).slave THEN "sread" ELSE "mread"
           e == <<>>
           call == [op |-> kind, fd |-> fd, pty |-> Handle(c, fd).pty, left |-> e, count |-> n]
<1>1. CarryOn(c, call) /\ UNCHANGED <<fds, pend, loaded>> /\ fds[c][fd].pty # 0
  BY DEF PtyRead, Open, Handle
<1>2. fds[c][fd].pty \in Slots /\ n \in Nat
  BY <1>1, HeldIsOpen, SetupType DEF PtyInv, Typed
<1>3. kind \in {"sread", "mread"} /\ e \in Seq(Key)
  OBVIOUS
<1> HIDE DEF kind, e
<1>4. Made(c, call)
  BY <1>2, <1>3 DEF Made, Waits, Handle
<1> HIDE DEF call
<1>5. Tended /\ CallsTrue'
  BY <1>1, <1>4, CarryOnStep
<1> QED BY <1>1, <1>5, LoadedSame, PendSame

LEMMA PtyWriteStep ==
  ASSUME PtyInv, UNCHANGED setup, NEW c \in Callers, NEW fd \in 1 .. NFds, NEW text \in Seq(Key), PtyWrite(c, fd, text)
  PROVE  PtyInv'
<1> DEFINE call == [Idle EXCEPT !.op = "swrite", !.fd = fd, !.pty = Handle(c, fd).pty, !.left = text]
<1>1. CarryOn(c, call) /\ UNCHANGED <<fds, pend, loaded>> /\ fds[c][fd].pty # 0
  BY DEF PtyWrite, Open, Handle
<1>2. fds[c][fd].pty \in Slots
  BY <1>1, HeldIsOpen
<1>3. Made(c, call)
  BY <1>2 DEF Made, Waits, Idle, Handle
<1> HIDE DEF call
<1>4. Tended /\ CallsTrue'
  BY <1>1, <1>3, CarryOnStep
<1> QED BY <1>1, <1>4, LoadedSame, PendSame

LEMMA TurnStep ==
  ASSUME PtyInv, UNCHANGED setup, NEW c \in Callers, Turn(c)
  PROVE  PtyInv'
<1>1. CarryOn(c, calls[c]) /\ UNCHANGED <<fds, pend, loaded>> /\ ~Free(c)
  BY DEF Turn
<1>2. Made(c, calls[c])
  BY <1>1 DEF PtyInv, CallsTrue, WaitTrue, Made, Free
<1>3. Tended /\ CallsTrue'
  BY <1>1, <1>2, CarryOnStep
<1> QED BY <1>1, <1>3, LoadedSame, PendSame

LEMMA TypeStep ==
  ASSUME PtyInv, UNCHANGED setup, NEW c \in Callers, NEW fd \in 1 .. NFds, NEW k \in setup.Keys, Type(c, fd, k)
  PROVE  PtyInv'
<1> DEFINE n == Handle(c, fd).pty
           q == Input(ptys[n], k)
<1>1. ptys' = [ptys EXCEPT ![n] = q] /\ UNCHANGED <<fds, calls, loaded>> /\ fds[c][fd].pty # 0
  BY DEF Type, Open, Handle
<1>2. n \in Slots /\ InUse(n) /\ setup \in Setups /\ k \in Key
  BY <1>1, HeldIsOpen, SetupType DEF Handle, PtyInv, Typed
<1>3. Kept(ptys[n], q)
  <2> HIDE DEF n
  <2> QED BY <1>2, GoodThere, InputKeeps
<1>4. Tended
  <2> HIDE DEF n, q
  <2> QED BY <1>1, <1>2, <1>3, Tending
<1>5. pend' \subseteq Callers
  BY PendSame DEF Type, Signalled, PtyInv, Typed
<1> QED BY <1>1, <1>4, <1>5, CallsSame, LoadedSame

\* A terminal somebody has a descriptor on becomes q: what the ioctls do.
LEMMA IoctlStep ==
  ASSUME PtyInv, UNCHANGED setup, NEW c \in Callers, NEW fd \in 1 .. NFds, Ioctl(c, fd), UNCHANGED pend,
         NEW q, Kept(PtyOn(c, fd), q), ptys' = [ptys EXCEPT ![Handle(c, fd).pty] = q]
  PROVE  PtyInv'
<1> DEFINE n == Handle(c, fd).pty
<1>1. UNCHANGED <<fds, calls, loaded>> /\ fds[c][fd].pty # 0
  BY DEF Ioctl, Open, Handle
<1>2. n \in Slots /\ InUse(n) /\ Kept(ptys[n], q) /\ ptys' = [ptys EXCEPT ![n] = q]
  BY <1>1, HeldIsOpen DEF Handle, PtyOn
<1>3. Tended
  <2> HIDE DEF n
  <2> QED BY <1>2, Tending
<1> QED BY <1>1, <1>3, CallsSame, LoadedSame, PendSame

LEMMA OnGood ==
  ASSUME PtyInv, NEW c \in Callers, NEW fd \in 1 .. NFds, Ioctl(c, fd)
  PROVE  Good(PtyOn(c, fd)) /\ setup \in Setups /\ PtyOn(c, fd) \in Ptys
BY HeldIsOpen, GoodThere DEF Ioctl, Open, Handle, PtyOn, PtyInv, Typed, Good

LEMMA UnlockStep ==
  ASSUME PtyInv, UNCHANGED setup, NEW c \in Callers, NEW fd \in 1 .. NFds, Unlock(c, fd)
  PROVE  PtyInv'
<1> DEFINE p == PtyOn(c, fd)
           q == [p EXCEPT !.locked = FALSE]
<1>1. Ioctl(c, fd) /\ UNCHANGED pend /\ ptys' = [ptys EXCEPT ![Handle(c, fd).pty] = q]
  BY DEF Unlock, PtyOn
<1>2. Good(p) /\ p \in Ptys
  BY <1>1, OnGood
<1>3. Kept(p, q)
  <2> HIDE DEF p
  <2> QED BY <1>2 DEF Kept, Good, Fits, Ptys
<1> HIDE DEF q
<1> QED BY <1>1, <1>3, IoctlStep

LEMMA SetPgrpStep ==
  ASSUME PtyInv, UNCHANGED setup, NEW c \in Callers, NEW fd \in 1 .. NFds, NEW g \in Callers, SetPgrp(c, fd, g)
  PROVE  PtyInv'
<1> DEFINE p == PtyOn(c, fd)
           q == [p EXCEPT !.pgrp = g]
<1>1. Ioctl(c, fd) /\ UNCHANGED pend /\ ptys' = [ptys EXCEPT ![Handle(c, fd).pty] = q]
  BY DEF SetPgrp, PtyOn
<1>2. Good(p) /\ p \in Ptys
  BY <1>1, OnGood
<1>3. Kept(p, q)
  <2> HIDE DEF p
  <2> QED BY <1>2 DEF Kept, Good, Fits, Ptys
<1> HIDE DEF q
<1> QED BY <1>1, <1>3, IoctlStep

LEMMA SetTerminalStep ==
  ASSUME PtyInv, UNCHANGED setup, NEW c \in Callers, NEW fd \in 1 .. NFds, SetTerminal(c, fd)
  PROVE  PtyInv'
<1> DEFINE p == PtyOn(c, fd)
           q == [p EXCEPT !.pgrp = c, !.sid = c]
<1>1. Ioctl(c, fd) /\ UNCHANGED pend
  BY DEF SetTerminal
<1>2. Good(p) /\ p \in Ptys
  BY <1>1, OnGood
<1>3. Handle(c, fd).pty \in Slots /\ ptys \in [Slots -> Ptys]
  BY <1>1, HeldIsOpen DEF Ioctl, Open, Handle, PtyInv, Typed
<1>4. ptys' = [ptys EXCEPT ![Handle(c, fd).pty] = q]
  BY <1>3 DEF SetTerminal, PtyOn
<1>5. Kept(p, q)
  <2> HIDE DEF p
  <2> QED BY <1>2 DEF Kept, Good, Fits, Ptys
<1> HIDE DEF q
<1> QED BY <1>1, <1>4, <1>5, IoctlStep

LEMMA FlushStep ==
  ASSUME PtyInv, UNCHANGED setup, NEW c \in Callers, NEW fd \in 1 .. NFds, Flush(c, fd)
  PROVE  PtyInv'
<1> DEFINE p == PtyOn(c, fd)
           e == <<>>
           q == [p EXCEPT !.in = e]
           r == [q EXCEPT !.line = e]
<1>1. Ioctl(c, fd) /\ UNCHANGED pend
  BY DEF Flush
<1>2. Good(p)
  BY <1>1, OnGood
<1>3. Handle(c, fd).pty \in Slots /\ ptys \in [Slots -> Ptys]
  BY <1>1, HeldIsOpen DEF Ioctl, Open, Handle, PtyInv, Typed
<1>4. ptys' = [ptys EXCEPT ![Handle(c, fd).pty] = r]
  BY <1>3 DEF Flush, PtyOn
<1>5. e \in Seq(Key) /\ Len(e) <= QUEUE /\ Len(e) <= LINE
  BY <1>1, OnGood, SetupType
<1> HIDE DEF e, p
<1>6. Kept(p, q)
  BY <1>2, <1>5, SetIn
<1> HIDE DEF q
<1>7. Kept(q, r)
  BY <1>5, <1>6, SetLine DEF Kept
<1> HIDE DEF r
<1>8. Kept(p, r)
  BY <1>6, <1>7, KeptOn
<1> QED BY <1>1, <1>4, <1>8, IoctlStep DEF p

LEMMA SetAttrStep ==
  ASSUME PtyInv, UNCHANGED setup, NEW c \in Callers, NEW fd \in 1 .. NFds,
         NEW t \in setup.Terms, NEW flush \in BOOLEAN, SetAttr(c, fd, t, flush)
  PROVE  PtyInv'
<1> DEFINE p == PtyOn(c, fd)
           e == <<>>
           p1 == [p EXCEPT !.t = t]
           p2 == [p1 EXCEPT !.in = e]
           p3 == [p2 EXCEPT !.line = e]
           q == IF flush THEN p3 ELSE p1
           r == IF "icanon" \notin t THEN LineDone(q) ELSE q
<1>1. Ioctl(c, fd) /\ UNCHANGED pend
  BY DEF SetAttr
<1>2. Good(p) /\ p \in Ptys /\ setup \in Setups
  BY <1>1, OnGood
<1>3. ptys' = [ptys EXCEPT ![Handle(c, fd).pty] = r]
  BY DEF SetAttr
<1>4. e \in Seq(Key) /\ Len(e) <= QUEUE /\ Len(e) <= LINE /\ t \in SUBSET Flags
  BY <1>2, SetupType
<1> HIDE DEF e, p
<1>5. Kept(p, p1)
  BY <1>2, <1>4 DEF Kept, Good, Fits, Ptys
<1> HIDE DEF p1
<1>6. Kept(p1, p2)
  BY <1>4, <1>5, SetIn DEF Kept
<1> HIDE DEF p2
<1>7. Kept(p2, p3)
  BY <1>4, <1>6, SetLine DEF Kept
<1> HIDE DEF p3
<1>8. Kept(p, q)
  BY <1>5, <1>6, <1>7, KeptOn
<1> HIDE DEF q
<1>9. Kept(q, LineDone(q))
  BY <1>2, <1>8, LineDoneKeeps DEF Kept
<1>10. Kept(p, r)
  BY <1>8, <1>9, KeptOn
<1> HIDE DEF r
<1> QED BY <1>1, <1>3, <1>10, IoctlStep DEF p

LEMMA SetSizeStep ==
  ASSUME PtyInv, UNCHANGED setup, NEW c \in Callers, NEW fd \in 1 .. NFds, SetSize(c, fd)
  PROVE  PtyInv'
<1>1. UNCHANGED <<ptys, fds, calls, loaded>>
  BY DEF SetSize, Ioctl
<1>2. pend' \subseteq Callers
  BY DEF SetSize, Signalled, PtyInv, Typed
<1> QED BY <1>1, <1>2, SameTended, CallsSame, LoadedSame

LEMMA ModuleStep ==
  ASSUME PtyInv, UNCHANGED setup, Load \/ Unload
  PROVE  PtyInv'
<1>1. UNCHANGED <<ptys, fds, calls, pend>> /\ loaded' \in BOOLEAN
  BY DEF Load, Unload
<1>2. loaded' = TRUE \/ \A n \in Slots : ~InUse(n)
  BY DEF Load, Unload
<1> QED BY <1>1, <1>2, SameTended, CallsSame, PendSame, TendedStep
----------------------------------------------------------------------------
(* Steps that change the table of one process.                             *)

\* How many more descriptors on each end terminal n has as q than it had as p.
EndsMove(p, q, was, is, n) ==
  /\ q.masters = p.masters - Cardinality(On(was, n, FALSE)) + Cardinality(On(is, n, FALSE))
  /\ q.slaves = p.slaves - Cardinality(On(was, n, TRUE)) + Cardinality(On(is, n, TRUE))

\* The terminals follow the table of a process, was, as it becomes is.
Followed(was, is) ==
  /\ ptys' \in [Slots -> Ptys]
  /\ \A n \in Slots :
       /\ Fits(ptys'[n]) /\ EndsMove(ptys[n], ptys'[n], was, is, n)
       /\ EmptyIsNone(ptys'[n]) /\ (ptys'[n] # NoPty => loaded)

\* What is left, and what there is then, are numbers; the counts are those of the new tables.
LEMMA CountsMove ==
  ASSUME PtyInv, NEW c \in Callers, NEW tab \in Table, fds' = [fds EXCEPT ![c] = tab], NEW n \in Slots,
         NEW q, EndsMove(ptys[n], q, fds[c], tab, n)
  PROVE  CountsAre(q, fds', n) /\ q.masters \in Nat /\ q.slaves \in Nat
<1> DEFINE tabz == fds'
<1>1. CountsAre(ptys[n], fds, n) /\ fds \in [Callers -> Table]
  BY DEF PtyInv, Typed, Sound
<1>2. tabz[c] = tab /\ OnlyOf(c, fds, tabz)
  BY <1>1 DEF OnlyOf
<1> HIDE DEF tabz
<1>3. ASSUME NEW sl \in BOOLEAN
      PROVE  /\ Cardinality(Holders(tabz, n, sl)) = Cardinality(Holders(fds, n, sl))
                  - Cardinality(On(fds[c], n, sl)) + Cardinality(On(tab, n, sl))
             /\ Cardinality(Holders(tabz, n, sl)) \in Nat
  BY <1>2, TableMove, Finite
<1>4. TRUE \in BOOLEAN /\ FALSE \in BOOLEAN
  OBVIOUS
<1>5. CountsAre(q, tabz, n) /\ q.masters \in Nat /\ q.slaves \in Nat
  BY <1>1, <1>3, <1>4 DEF CountsAre, EndsMove
<1> QED BY <1>5 DEF tabz

\* The invariant, when one table changes.
LEMMA TableStep ==
  ASSUME PtyInv, NEW c \in Callers, NEW tab \in Table, fds' = [fds EXCEPT ![c] = tab],
         Followed(fds[c], tab), UNCHANGED <<setup, loaded>>, pend' \subseteq Callers, CallsTrue'
  PROVE  PtyInv'
<1>1. Slots' = Slots /\ QUEUE' = QUEUE /\ LINE' = LINE
  BY DEF Slots, QUEUE, LINE
<1>2. Typed'
  <2>1. fds' \in [Callers -> Table]
    BY DEF PtyInv, Typed
  <2> QED BY <1>1, <2>1 DEF PtyInv, Typed, Followed, Fits, Ptys, Table, Handles
<1>3. ASSUME NEW n \in Slots' PROVE Sound(ptys[n], fds, n)'
  <2> DEFINE q == ptys'[n]
  <2>1. EndsMove(ptys[n], q, fds[c], tab, n) /\ EmptyIsNone(q) /\ (q # NoPty => loaded)
    BY <1>1 DEF Followed
  <2> HIDE DEF q
  <2>2. CountsAre(q, fds', n)
    BY <1>1, <2>1, CountsMove
  <2>3. Sound(ptys[n], fds, n)' <=> CountsAre(q, fds', n) /\ EmptyIsNone(q) /\ (q # NoPty => loaded')
    BY DEF Sound, CountsAre, EmptyIsNone, q, Holders, On, NoPty, Callers
  <2> QED BY <2>1, <2>2, <2>3
<1> QED BY <1>1, <1>2, <1>3 DEF PtyInv

\* A process that has no call in the kernel may have its table changed.
LEMMA CallsTable ==
  ASSUME PtyInv, UNCHANGED setup, NEW c \in Callers, NEW tab, fds' = [fds EXCEPT ![c] = tab],
         calls'[c] = Idle, calls' \in [Callers -> {Idle} \union Waits], \A d \in Callers \ {c} : calls'[d] = calls[d]
  PROVE  CallsTrue'
<1>1. Slots' = Slots
  BY DEF Slots
<1>2. \A d \in Callers : WaitTrue(calls[d], fds[d])
  BY DEF PtyInv, CallsTrue
<1>3. ASSUME NEW d \in Callers PROVE WaitTrue(calls'[d], fds'[d])
  <2>1. CASE d = c
    BY <2>1 DEF WaitTrue, Idle
  <2>2. CASE d # c
    <3>1. calls'[d] = calls[d] /\ fds'[d] = fds[d]
      BY <2>2 DEF PtyInv, Typed
    <3> QED BY <1>2, <3>1
  <2> QED BY <2>1, <2>2
<1> QED BY <1>1, <1>3 DEF CallsTrue, WaitTrue, Waits

LEMMA FreeIsIdle == ASSUME PtyInv, NEW c \in Callers, Free(c) PROVE calls[c] = Idle
<1>1. calls[c] \in {Idle} \union Waits
  BY DEF PtyInv, CallsTrue
<1> QED BY <1>1 DEF Free, Waits

LEMMA CallsFree ==
  ASSUME PtyInv, UNCHANGED <<setup, calls>>, NEW c \in Callers, Free(c), NEW tab, fds' = [fds EXCEPT ![c] = tab]
  PROVE  CallsTrue'
<1>1. calls[c] = Idle /\ calls \in [Callers -> {Idle} \union Waits]
  BY FreeIsIdle DEF PtyInv, CallsTrue
<1> QED BY <1>1, CallsTable

LEMMA HandleType ==
  ASSUME PtyInv, NEW c \in Callers, NEW fd \in 1 .. NFds
  PROVE  Handle(c, fd) \in Handles /\ fds[c] \in Table
<1>1. fds[c] \in Table
  BY DEF PtyInv, Typed
<1> QED BY <1>1 DEF Table, Handle

\* A new descriptor, in the lowest place that is free, adds itself.
LEMMA GivenAdds ==
  ASSUME PtyInv, NEW c \in Callers, FreeFds(c) # {}, NEW h \in Handles
  PROVE  \E tab \in Table :
           /\ Given(c, h) = [fds EXCEPT ![c] = tab]
           /\ \A n \in Slots, sl \in BOOLEAN :
                Cardinality(On(tab, n, sl)) = Cardinality(On(fds[c], n, sl)) + Bit(h, n, sl)
<1> DEFINE i == Min(FreeFds(c))
           was == fds[c]
           is == [was EXCEPT ![i] = h]
<1>1. FreeFds(c) \subseteq Nat
  BY DEF FreeFds
<1>2. i \in FreeFds(c)
  BY <1>1, MinIn
<1>3. i \in 1 .. NFds /\ was[i] = NoFd /\ was \in Table
  BY <1>2 DEF FreeFds, PtyInv, Typed
<1>4. Given(c, h) = [fds EXCEPT ![c] = is]
  BY DEF Given
<1> HIDE DEF i, was
<1>5. is \in Table
  BY <1>3 DEF Table
<1>6. ASSUME NEW n \in Slots, NEW sl \in BOOLEAN
      PROVE  Cardinality(On(is, n, sl)) = Cardinality(On(was, n, sl)) + Bit(h, n, sl)
  <2>1. n # 0
    BY SetupType DEF PtyInv, Typed, Slots
  <2>2. Bit(was[i], n, sl) = 0
    <3>1. Bit(NoFd, n, sl) = 0
      BY <2>1 DEF Bit, NoFd
    <3> QED BY <1>3, <3>1
  <2>3. SetIs(was, i, h, is)
    BY <1>3 DEF Table, SetIs
  <2> HIDE DEF is
  <2>4. Cardinality(On(is, n, sl)) = Cardinality(On(was, n, sl)) - Bit(was[i], n, sl) + Bit(h, n, sl)
    BY <1>3, <2>3, OnSet
  <2>5. Cardinality(On(was, n, sl)) \in Nat /\ Bit(h, n, sl) \in Nat
    BY Finite DEF Bit
  <2> QED BY <2>2, <2>4, <2>5
<1> HIDE DEF is
<1> QED BY <1>4, <1>5, <1>6 DEF was
LEMMA NoneGood ==
  ASSUME setup \in Setups
  PROVE  Good(NoPty) /\ Good(NewPty) /\ NewPty.masters = 1 /\ NewPty.slaves = 0
<1> DEFINE e == <<>>
<1>1. e \in Seq(Key) /\ e \in Seq(Shown) /\ Len(e) = 0 /\ Cooked \in SUBSET Flags
  BY DEF Flags
<1>2. LINE \in Nat /\ QUEUE \in Nat
  BY SetupType
<1>3. NoPty = [masters |-> 0, slaves |-> 0, opened |-> FALSE, locked |-> FALSE,
               eof |-> FALSE, pgrp |-> 0, sid |-> 0, t |-> Cooked, in |-> e, out |-> e, line |-> e]
  BY DEF NoPty
<1> HIDE DEF e
<1>4. Good(NoPty) /\ NoPty \in Ptys /\ NoPty.slaves = 0
  BY <1>1, <1>2, <1>3 DEF Good, Ptys, Fits
<1>5. Good(NewPty) /\ NewPty.masters = 1 /\ NewPty.slaves = 0
  <2> DEFINE none == NoPty
  <2>1. NewPty = [none EXCEPT !.masters = 1, !.locked = TRUE]
    BY DEF NewPty
  <2>2. Good(none) /\ none \in Ptys /\ none.slaves = 0
    BY <1>4
  <2> HIDE DEF none
  <2> QED BY <2>1, <2>2 DEF Good, Ptys, Fits
<1> QED BY <1>4, <1>5

\* The counts of a terminal, as it is when no other field of it changes.
Counted(p, m, s) == [p EXCEPT !.masters = m, !.slaves = s]

LEMMA CountedGood ==
  ASSUME NEW p, Good(p), NEW m \in Nat, NEW s \in Nat
  PROVE  Good(Counted(p, m, s)) /\ Counted(p, m, s).masters = m /\ Counted(p, m, s).slaves = s
<1>1. p \in Ptys
  BY DEF Good
<1> QED BY <1>1 DEF Good, Counted, Ptys, Fits

LEMMA CountedSame ==
  ASSUME NEW p, Good(p)
  PROVE  Counted(p, p.masters, p.slaves) = p
<1>1. p \in Ptys
  BY DEF Good
<1> QED BY <1>1 DEF Counted, Ptys

\* pty_hold counts what the new table has more.
LEMMA HeldFollows ==
  ASSUME PtyInv, NEW was, NEW is, NEW tab, ptys' = Held(tab),
         \A n \in Slots, sl \in BOOLEAN :
           Cardinality(On(is, n, sl)) = Cardinality(On(was, n, sl)) + Cardinality(On(tab, n, sl)),
         \A n \in Slots, sl \in BOOLEAN : On(tab, n, sl) # {} => InUse(n)
  PROVE  Followed(was, is)
<1>1. ASSUME NEW n \in Slots
      PROVE  /\ Good(ptys'[n]) /\ EndsMove(ptys[n], ptys'[n], was, is, n)
             /\ EmptyIsNone(ptys'[n]) /\ (ptys'[n] # NoPty => loaded)
  <2> DEFINE p == ptys[n]
             a == Cardinality(On(tab, n, FALSE))
             b == Cardinality(On(tab, n, TRUE))
             m == p.masters + a
             s == p.slaves + b
             q == Counted(p, m, s)
  <2>1. ptys'[n] = q
    BY DEF Held, Counted
  <2>2. Good(p) /\ EmptyIsNone(p) /\ (p # NoPty => loaded) /\ setup \in Setups
    BY GoodThere DEF PtyInv, Sound, Typed
  <2>3. p.masters \in Nat /\ p.slaves \in Nat /\ a \in Nat /\ b \in Nat
    BY <2>2, Parts, Finite
  <2>4. FALSE \in BOOLEAN /\ TRUE \in BOOLEAN
    OBVIOUS
  <2>5. a # 0 \/ b # 0 => p # NoPty
    BY <2>4, FS_EmptySet DEF InUse
  <2>6. /\ Cardinality(On(is, n, FALSE)) = Cardinality(On(was, n, FALSE)) + a
        /\ Cardinality(On(is, n, TRUE)) = Cardinality(On(was, n, TRUE)) + b
        /\ Cardinality(On(was, n, FALSE)) \in Nat /\ Cardinality(On(was, n, TRUE)) \in Nat
    BY <2>4, Finite
  <2> HIDE DEF a, b, p
  <2>7. Good(q) /\ q.masters = m /\ q.slaves = s
    <3>1. m \in Nat /\ s \in Nat
      BY <2>3
    <3> HIDE DEF m, s
    <3> QED BY <2>2, <3>1, CountedGood
  <2>8. EndsMove(p, q, was, is, n)
    <3> DEFINE w0 == Cardinality(On(was, n, FALSE))
               w1 == Cardinality(On(was, n, TRUE))
               i0 == Cardinality(On(is, n, FALSE))
               i1 == Cardinality(On(is, n, TRUE))
    <3>1. EndsMove(p, q, was, is, n) <=> q.masters = p.masters - w0 + i0 /\ q.slaves = p.slaves - w1 + i1
      BY DEF EndsMove
    <3>2. i0 = w0 + a /\ i1 = w1 + b /\ w0 \in Nat /\ w1 \in Nat
      BY <2>6
    <3> HIDE DEF q, w0, w1, i0, i1
    <3> QED BY <2>3, <2>7, <3>1, <3>2
  <2>9. a = 0 /\ b = 0 => q = p
    <3>1. a = 0 /\ b = 0 => m = p.masters /\ s = p.slaves
      BY <2>3
    <3>2. Counted(p, p.masters, p.slaves) = p
      BY <2>2, CountedSame
    <3> QED BY <3>1, <3>2
  <2>10. EmptyIsNone(q) /\ (q # NoPty => loaded)
    <3>1. CASE a = 0 /\ b = 0
      BY <2>2, <2>9, <3>1
    <3>2. CASE ~(a = 0 /\ b = 0)
      <4>1. q.masters # 0 \/ q.slaves # 0
        <5> HIDE DEF q
        <5> QED BY <2>3, <2>7, <3>2
      <4>2. loaded
        BY <2>2, <2>5, <3>2
      <4> QED BY <4>1, <4>2 DEF EmptyIsNone
    <3> QED BY <3>1, <3>2
  <2> HIDE DEF q
  <2> QED BY <2>1, <2>7, <2>8, <2>10 DEF p
<1>2. ptys' \in [Slots -> Ptys]
  <2>1. ptys' = [n \in Slots |-> ptys'[n]]
    BY DEF Held
  <2>2. \A n \in Slots : ptys'[n] \in Ptys
    BY <1>1 DEF Good
  <2> QED BY <2>1, <2>2
<1> QED BY <1>1, <1>2 DEF Followed, Good

\* pty_drop takes away what the table had and has no more.
LEMMA DropsFollow ==
  ASSUME PtyInv, NEW c \in Callers, NEW is \in Table, fds' = [fds EXCEPT ![c] = is], NEW tab, ptys' = Dropped(tab),
         \A n \in Slots, sl \in BOOLEAN :
           Cardinality(On(is, n, sl)) = Cardinality(On(fds[c], n, sl)) - Cardinality(On(tab, n, sl))
  PROVE  Followed(fds[c], is)
<1>1. ASSUME NEW n \in Slots
      PROVE  /\ Good(ptys'[n]) /\ EndsMove(ptys[n], ptys'[n], fds[c], is, n)
             /\ EmptyIsNone(ptys'[n]) /\ (ptys'[n] # NoPty => loaded)
  <2> DEFINE p == ptys[n]
             was == fds[c]
             a == Cardinality(On(tab, n, FALSE))
             b == Cardinality(On(tab, n, TRUE))
             m == p.masters - a
             s == p.slaves - b
             some == Counted(p, m, s)
             q == IF m = 0 /\ s = 0 THEN NoPty ELSE some
  <2>1. ptys'[n] = q
    BY DEF Dropped, Counted
  <2>2. Good(p) /\ EmptyIsNone(p) /\ (p # NoPty => loaded) /\ setup \in Setups
    BY GoodThere DEF PtyInv, Sound, Typed
  <2>3. p.masters \in Nat /\ p.slaves \in Nat /\ a \in Nat /\ b \in Nat /\ p \in Ptys
    BY <2>2, Parts, Finite DEF Good
  <2>4. FALSE \in BOOLEAN /\ TRUE \in BOOLEAN
    OBVIOUS
  <2>5. /\ Cardinality(On(is, n, FALSE)) = Cardinality(On(was, n, FALSE)) - a
        /\ Cardinality(On(is, n, TRUE)) = Cardinality(On(was, n, TRUE)) - b
        /\ Cardinality(On(was, n, FALSE)) \in Nat /\ Cardinality(On(was, n, TRUE)) \in Nat
    BY <2>4, Finite
  <2> HIDE DEF a, b
  <2>6. some.masters = m /\ some.slaves = s
    <3> HIDE DEF p
    <3> QED BY <2>3 DEF Counted, Ptys
  <2>7. EndsMove(p, some, was, is, n)
    <3> DEFINE w0 == Cardinality(On(was, n, FALSE))
               w1 == Cardinality(On(was, n, TRUE))
               i0 == Cardinality(On(is, n, FALSE))
               i1 == Cardinality(On(is, n, TRUE))
    <3>1. EndsMove(p, some, was, is, n) <=> some.masters = p.masters - w0 + i0 /\ some.slaves = p.slaves - w1 + i1
      BY DEF EndsMove
    <3>2. i0 = w0 - a /\ i1 = w1 - b /\ w0 \in Nat /\ w1 \in Nat
      BY <2>5
    <3> HIDE DEF p, some, w0, w1, i0, i1
    <3> QED BY <2>3, <2>6, <3>1, <3>2
  <2>8. m \in Nat /\ s \in Nat
    <3>1. some.masters \in Nat /\ some.slaves \in Nat
      <4> HIDE DEF some
      <4> QED BY <2>7, CountsMove
    <3> QED BY <2>6, <3>1
  <2>9. Good(some)
    <3> HIDE DEF p, m, s
    <3> QED BY <2>2, <2>8, CountedGood
  <2>10. Good(NoPty) /\ NoPty.masters = 0 /\ NoPty.slaves = 0
    BY <2>2, NoneGood DEF NoPty
  <2>11. Good(q) /\ q.masters = m /\ q.slaves = s /\ EmptyIsNone(q)
    <3> HIDE DEF some, m, s
    <3> QED BY <2>6, <2>9, <2>10 DEF EmptyIsNone
  <2>12. EndsMove(p, q, was, is, n)
    <3> HIDE DEF some, q
    <3> QED BY <2>6, <2>7, <2>11 DEF EndsMove
  <2>13. q # NoPty => loaded
    <3>1. CASE p # NoPty
      BY <2>2, <3>1
    <3>2. CASE p = NoPty
      <4>1. p.masters = 0 /\ p.slaves = 0
        BY <2>10, <3>2
      <4>2. m = 0 /\ s = 0
        <5> HIDE DEF p
        <5> QED BY <2>3, <2>8, <4>1
      <4> QED BY <4>2
    <3> QED BY <3>1, <3>2
  <2> HIDE DEF q
  <2> QED BY <2>1, <2>11, <2>12, <2>13
<1>2. ptys' \in [Slots -> Ptys]
  <2>1. ptys' = [n \in Slots |-> ptys'[n]]
    BY DEF Dropped
  <2>2. \A n \in Slots : ptys'[n] \in Ptys
    BY <1>1 DEF Good
  <2> QED BY <2>1, <2>2
<1> QED BY <1>1, <1>2 DEF Followed, Good
----------------------------------------------------------------------------
(* The steps that change a table, one by one.                              *)

LEMMA SlotsType == ASSUME PtyInv PROVE Slots \subseteq Nat \ {0}
BY SetupType DEF PtyInv, Typed, Slots

\* A descriptor h is given to a process, and its terminal becomes q, which has it more.
LEMMA OpenStep ==
  ASSUME PtyInv, NEW c \in Callers, Free(c), FreeFds(c) # {}, NEW h \in Handles, h.pty \in Slots, fds' = Given(c, h),
         NEW q, Good(q), ptys' = [ptys EXCEPT ![h.pty] = q], loaded, UNCHANGED <<setup, calls, pend, loaded>>,
         q.masters = ptys[h.pty].masters + Bit(h, h.pty, FALSE), q.slaves = ptys[h.pty].slaves + Bit(h, h.pty, TRUE)
  PROVE  PtyInv'
<1>1. PICK tab \in Table :
        /\ Given(c, h) = [fds EXCEPT ![c] = tab]
        /\ \A n \in Slots, sl \in BOOLEAN :
             Cardinality(On(tab, n, sl)) = Cardinality(On(fds[c], n, sl)) + Bit(h, n, sl)
  BY GivenAdds
<1>2. ptys \in [Slots -> Ptys] /\ setup \in Setups
  BY DEF PtyInv, Typed
<1>3. ptys' \in [Slots -> Ptys]
  BY <1>2 DEF Good
<1>4. ASSUME NEW n \in Slots
      PROVE  /\ Fits(ptys'[n]) /\ EndsMove(ptys[n], ptys'[n], fds[c], tab, n) /\ EmptyIsNone(ptys'[n])
  <2> DEFINE p == ptys[n]
             r == ptys'[n]
             b0 == Bit(h, n, FALSE)
             b1 == Bit(h, n, TRUE)
             w0 == Cardinality(On(fds[c], n, FALSE))
             w1 == Cardinality(On(fds[c], n, TRUE))
             i0 == Cardinality(On(tab, n, FALSE))
             i1 == Cardinality(On(tab, n, TRUE))
  <2>1. Good(p) /\ EmptyIsNone(p) /\ p.masters \in Nat /\ p.slaves \in Nat
    BY <1>2, GoodThere, Parts DEF PtyInv, Sound
  <2>2. Good(r) /\ r.masters = p.masters + b0 /\ r.slaves = p.slaves + b1 /\ EmptyIsNone(r)
    <3>1. CASE n = h.pty
      <4>1. r = q
        BY <1>2, <3>1
      <4>2. r.masters = p.masters + b0 /\ r.slaves = p.slaves + b1
        BY <3>1, <4>1
      <4>3. b0 \in Nat /\ b1 \in Nat /\ (b0 # 0 \/ b1 # 0)
        BY <3>1 DEF Bit, Handles
      <4> HIDE DEF p, r, b0, b1
      <4>4. r.masters # 0 \/ r.slaves # 0
        BY <2>1, <4>2, <4>3
      <4> QED BY <4>1, <4>2, <4>4 DEF EmptyIsNone
    <3>2. CASE n # h.pty
      <4>1. r = p
        BY <1>2, <3>2
      <4>2. b0 = 0 /\ b1 = 0
        BY <3>2 DEF Bit
      <4> HIDE DEF p, r, b0, b1
      <4> QED BY <2>1, <4>1, <4>2
    <3> QED BY <3>1, <3>2
  <2>3. b0 \in Nat /\ b1 \in Nat
    BY DEF Bit
  <2>4. i0 = w0 + b0 /\ i1 = w1 + b1 /\ w0 \in Nat /\ w1 \in Nat
    <3>1. FALSE \in BOOLEAN /\ TRUE \in BOOLEAN
      OBVIOUS
    <3> QED BY <1>1, <3>1, Finite
  <2>5. EndsMove(p, r, fds[c], tab, n) <=> r.masters = p.masters - w0 + i0 /\ r.slaves = p.slaves - w1 + i1
    BY DEF EndsMove
  <2> HIDE DEF w0, w1, i0, i1, b0, b1
  <2>6. EndsMove(p, r, fds[c], tab, n)
    <3> HIDE DEF p, r
    <3> QED BY <2>1, <2>2, <2>3, <2>4, <2>5
  <2> QED BY <2>2, <2>6 DEF Good
<1>5. Followed(fds[c], tab)
  BY <1>3, <1>4 DEF Followed
<1>6. fds' = [fds EXCEPT ![c] = tab]
  BY <1>1
<1> QED BY <1>5, <1>6, CallsFree, PendSame, TableStep

LEMMA PtyOpenStep ==
  ASSUME PtyInv, UNCHANGED setup, NEW c \in Callers, NEW nonblock \in BOOLEAN, PtyOpen(c, nonblock)
  PROVE  PtyInv'
<1> DEFINE free == {n \in Slots : ~InUse(n)}
           n == Min(free)
           h == [NoFd EXCEPT !.pty = n, !.nonblock = nonblock]
<1>1. /\ loaded /\ Free(c) /\ free # {} /\ FreeFds(c) # {}
      /\ ptys' = [ptys EXCEPT ![n] = NewPty] /\ fds' = Given(c, h) /\ UNCHANGED <<calls, pend, loaded>>
  BY DEF PtyOpen
<1>2. n \in free
  <2>1. free \subseteq Nat
    BY SlotsType
  <2> HIDE DEF free
  <2> QED BY <1>1, <2>1, MinIn
<1>3. n \in Slots /\ ptys[n] = NoPty /\ setup \in Setups
  BY <1>2 DEF InUse, PtyInv, Typed
<1> HIDE DEF n
<1>4. h \in Handles /\ h.pty = n /\ h.slave = FALSE
  BY <1>3 DEF Handles, NoFd
<1>5. Bit(h, n, FALSE) = 1 /\ Bit(h, n, TRUE) = 0
  BY <1>4 DEF Bit
<1>6. Good(NewPty) /\ NewPty.masters = 1 /\ NewPty.slaves = 0
  BY <1>3, NoneGood
<1>7. NoPty.masters = 0 /\ NoPty.slaves = 0
  BY DEF NoPty
<1> DEFINE b0 == Bit(h, n, FALSE)
           b1 == Bit(h, n, TRUE)
           p == ptys[n]
<1>8. NewPty.masters = p.masters + b0 /\ NewPty.slaves = p.slaves + b1
  <2>1. p.masters = 0 /\ p.slaves = 0 /\ b0 = 1 /\ b1 = 0
    BY <1>3, <1>5, <1>7
  <2> HIDE DEF p, b0, b1
  <2> QED BY <1>6, <2>1
<1> HIDE DEF h
<1> QED BY <1>1, <1>3, <1>4, <1>6, <1>8, OpenStep

LEMMA SlaveOpenStep ==
  ASSUME PtyInv, UNCHANGED setup, NEW c \in 1 .. setup.callers, NEW n \in Slots, NEW nonblock \in BOOLEAN,
         SlaveOpen(c, n, nonblock)
  PROVE  PtyInv'
<1> DEFINE p == ptys[n]
           q == SlaveOpened(p, c)
           h == [NoFd EXCEPT !.pty = n, !.slave = TRUE, !.nonblock = nonblock]
<1>1. /\ loaded /\ Free(c) /\ FreeFds(c) # {}
      /\ ptys' = [ptys EXCEPT ![n] = q] /\ fds' = Given(c, h) /\ UNCHANGED <<calls, pend, loaded>>
  BY DEF SlaveOpen
<1>2. Good(p) /\ p \in Ptys /\ setup \in Setups /\ c \in Callers
  BY GoodThere, SetupType DEF PtyInv, Typed, Good
<1>3. h \in Handles /\ h.pty = n /\ h.slave = TRUE
  BY DEF Handles, NoFd
<1>4. Bit(h, n, FALSE) = 0 /\ Bit(h, n, TRUE) = 1
  BY <1>3 DEF Bit
<1> HIDE DEF h
<1>5. Good(q) /\ q.masters = p.masters /\ q.slaves = p.slaves + 1 /\ p.masters \in Nat
  <2> HIDE DEF p
  <2> DEFINE who == IF p.sid = 0 THEN c ELSE p.sid
             group == IF p.sid = 0 THEN c ELSE p.pgrp
  <2>1. who \in Callers \union {0} /\ group \in Callers \union {0}
    BY <1>2 DEF Ptys
  <2>2. q = [p EXCEPT !.slaves = @ + 1, !.opened = TRUE, !.sid = who, !.pgrp = group]
    BY DEF SlaveOpened
  <2> HIDE DEF who, group
  <2> DEFINE r == [p EXCEPT !.slaves = @ + 1, !.opened = TRUE, !.sid = who, !.pgrp = group]
  <2>3. r \in Ptys
    <3> DEFINE s == p.slaves + 1
               p1 == [p EXCEPT !.slaves = s, !.opened = TRUE]
    <3>1. p1 \in Ptys
      <4>1. s \in Nat
        BY <1>2 DEF Ptys
      <4> HIDE DEF s
      <4> QED BY <1>2, <4>1 DEF Ptys
    <3>2. r = [p1 EXCEPT !.sid = who, !.pgrp = group]
      OBVIOUS
    <3> HIDE DEF p1, r
    <3> QED BY <2>1, <3>1, <3>2 DEF Ptys
  <2>4. r.masters = p.masters /\ r.slaves = p.slaves + 1 /\ p.masters \in Nat
    BY <1>2 DEF Ptys
  <2>5. r.in = p.in /\ r.out = p.out /\ r.line = p.line
    BY <1>2 DEF Ptys
  <2> HIDE DEF q, r
  <2>6. q = r
    BY <2>2 DEF r
  <2>7. Fits(r)
    BY <1>2, <2>5 DEF Good, Fits
  <2> QED BY <2>3, <2>4, <2>6, <2>7 DEF Good
<1> DEFINE b0 == Bit(h, n, FALSE)
           b1 == Bit(h, n, TRUE)
<1>6. q.masters = p.masters + b0 /\ q.slaves = p.slaves + b1
  <2>1. b0 = 0 /\ b1 = 1
    BY <1>4
  <2> HIDE DEF p, q, b0, b1
  <2> QED BY <1>5, <2>1
<1> HIDE DEF q
<1> QED BY <1>1, <1>2, <1>3, <1>5, <1>6, OpenStep

LEMMA DupStep ==
  ASSUME PtyInv, UNCHANGED setup, NEW c \in Callers, NEW fd \in 1 .. NFds, Dup(c, fd)
  PROVE  PtyInv'
<1> DEFINE h == Handle(c, fd)
           tab == Only(h)
<1>1. /\ Free(c) /\ h.pty # 0 /\ FreeFds(c) # {} /\ fds' = Given(c, h) /\ ptys' = Held(tab)
      /\ UNCHANGED <<calls, pend, loaded>>
  BY DEF Dup, Open
<1>2. h \in Handles /\ h.pty \in Slots /\ InUse(h.pty)
  BY <1>1, HandleType, HeldIsOpen DEF Handle
<1> HIDE DEF h
<1>3. PICK is \in Table :
        /\ Given(c, h) = [fds EXCEPT ![c] = is]
        /\ \A n \in Slots, sl \in BOOLEAN :
             Cardinality(On(is, n, sl)) = Cardinality(On(fds[c], n, sl)) + Bit(h, n, sl)
  BY <1>1, <1>2, GivenAdds
<1>4. \A n \in Slots, sl \in BOOLEAN : Cardinality(On(tab, n, sl)) = Bit(h, n, sl)
  BY SlotsType, OnOnly
<1>5. \A n \in Slots, sl \in BOOLEAN : On(tab, n, sl) # {} => InUse(n)
  <2> SUFFICES ASSUME NEW n \in Slots, NEW sl \in BOOLEAN, On(tab, n, sl) # {} PROVE InUse(n)
    OBVIOUS
  <2>1. n # 0
    BY SlotsType
  <2>2. h.pty = n
    BY <2>1 DEF On, Only, NoTable, NoFd
  <2> QED BY <1>2, <2>2
<1> HIDE DEF tab
<1>6. \A n \in Slots, sl \in BOOLEAN :
        Cardinality(On(is, n, sl)) = Cardinality(On(fds[c], n, sl)) + Cardinality(On(tab, n, sl))
  BY <1>3, <1>4
<1>7. Followed(fds[c], is)
  BY <1>1, <1>5, <1>6, HeldFollows
<1>8. fds' = [fds EXCEPT ![c] = is]
  BY <1>1, <1>3
<1> QED BY <1>1, <1>7, <1>8, CallsFree, PendSame, TableStep

LEMMA CloseStep ==
  ASSUME PtyInv, UNCHANGED setup, NEW c \in Callers, NEW fd \in 1 .. NFds, Close(c, fd)
  PROVE  PtyInv'
<1> DEFINE h == Handle(c, fd)
           tab == Only(h)
           was == fds[c]
           is == [was EXCEPT ![fd] = NoFd]
<1>1. Free(c) /\ fds' = [fds EXCEPT ![c] = is] /\ ptys' = Dropped(tab) /\ UNCHANGED <<calls, loaded>>
  BY DEF Close, Drops
<1>2. was \in Table /\ h = was[fd]
  BY HandleType DEF Handle
<1>3. is \in Table /\ SetIs(was, fd, NoFd, is)
  <2> HIDE DEF was
  <2> QED BY <1>2 DEF Table, Handles, NoFd, SetIs
<1>4. pend' \subseteq Callers
  BY DEF Close, Drops, PtyInv, Typed
<1> HIDE DEF is, h, was
<1>5. ASSUME NEW n \in Slots, NEW sl \in BOOLEAN
      PROVE  Cardinality(On(is, n, sl)) = Cardinality(On(was, n, sl)) - Cardinality(On(tab, n, sl))
  <2>1. n # 0
    BY SlotsType
  <2>2. Cardinality(On(tab, n, sl)) = Bit(h, n, sl)
    BY <2>1, OnOnly
  <2>3. Cardinality(On(is, n, sl)) = Cardinality(On(was, n, sl)) - Bit(was[fd], n, sl) + Bit(NoFd, n, sl)
    BY <1>3, OnSet
  <2>4. Bit(NoFd, n, sl) = 0
    BY <2>1 DEF Bit, NoFd
  <2>5. Cardinality(On(was, n, sl)) \in Nat /\ Bit(h, n, sl) \in Nat
    BY Finite DEF Bit
  <2> QED BY <1>2, <2>2, <2>3, <2>4, <2>5
<1> HIDE DEF tab
<1>6. Followed(was, is)
  BY <1>1, <1>3, <1>5, DropsFollow DEF was
<1> QED BY <1>1, <1>3, <1>4, <1>6, CallsFree, TableStep DEF was

LEMMA ForkStep ==
  ASSUME PtyInv, UNCHANGED setup, NEW c \in Callers, NEW p \in Callers, Fork(c, p)
  PROVE  PtyInv'
<1> DEFINE tab == fds[c]
<1>1. fds[p] = NoTable /\ fds' = [fds EXCEPT ![p] = tab] /\ ptys' = Held(tab) /\ UNCHANGED <<calls, pend, loaded>>
  BY DEF Fork
<1>2. tab \in Table
  BY DEF PtyInv, Typed
<1>3. \A n \in Slots, sl \in BOOLEAN : On(tab, n, sl) # {} => InUse(n)
  <2> SUFFICES ASSUME NEW n \in Slots, NEW sl \in BOOLEAN, On(tab, n, sl) # {} PROVE InUse(n)
    OBVIOUS
  <2>1. PICK i \in 1 .. NFds : tab[i].pty = n
    BY DEF On
  <2>2. fds[c][i].pty = n /\ n # 0
    BY <2>1, SlotsType
  <2> QED BY <2>2, HeldIsOpen
<1>4. Free(p)
  <2>1. WaitTrue(calls[p], fds[p])
    BY DEF PtyInv, CallsTrue
  <2>2. SUFFICES ASSUME calls[p] \in Waits, fds[p][calls[p].fd].pty = calls[p].pty PROVE FALSE
    BY <2>1 DEF WaitTrue, Free
  <2>3. calls[p].fd \in 1 .. NFds /\ calls[p].pty \in Slots
    BY <2>2 DEF Waits
  <2>4. fds[p][calls[p].fd].pty = 0
    BY <1>1, <2>3 DEF NoTable, NoFd
  <2> QED BY <2>2, <2>3, <2>4, SlotsType
<1>5. CallsTrue'
  BY <1>1, <1>4, CallsFree
<1> HIDE DEF tab
<1>6. \A n \in Slots, sl \in BOOLEAN :
        Cardinality(On(tab, n, sl)) = Cardinality(On(fds[p], n, sl)) + Cardinality(On(tab, n, sl))
  <2> SUFFICES ASSUME NEW n \in Slots, NEW sl \in BOOLEAN
               PROVE  Cardinality(On(tab, n, sl)) = Cardinality(On(fds[p], n, sl)) + Cardinality(On(tab, n, sl))
    OBVIOUS
  <2>1. Cardinality(On(tab, n, sl)) \in Nat /\ n # 0
    BY SlotsType, Finite
  <2>2. Cardinality(On(fds[p], n, sl)) = 0
    BY <1>1, <2>1, OnNone
  <2> QED BY <2>1, <2>2
<1>7. Followed(fds[p], tab)
  BY <1>1, <1>3, <1>6, HeldFollows
<1> QED BY <1>1, <1>2, <1>5, <1>7, PendSame, TableStep

LEMMA TurnSignalledStep ==
  ASSUME PtyInv, UNCHANGED setup, NEW c \in Callers, TurnSignalled(c)
  PROVE  PtyInv'
<1>1. CASE Return(c) /\ pend' = pend \ {c} /\ UNCHANGED <<fds, ptys>>
  <2>1. pend' \subseteq Callers
    BY <1>1 DEF PtyInv, Typed
  <2>2. UNCHANGED loaded
    BY DEF TurnSignalled
  <2> QED BY <1>1, <2>1, <2>2, SameTended, ReturnTrue, LoadedSame
<1>2. CASE /\ calls' = [d \in Callers |-> IF d = c THEN Idle ELSE calls[d]]
           /\ fds' = [fds EXCEPT ![c] = NoTable]
           /\ ptys' = Dropped(fds[c])
           /\ pend' = (pend \union ({ptys[n].pgrp : n \in HungUp(fds[c])} \cap Callers)) \ {c}
  <2> DEFINE none == NoTable
             tab == fds[c]
  <2>1. UNCHANGED loaded /\ pend' \subseteq Callers
    BY <1>2 DEF TurnSignalled, PtyInv, Typed
  <2>2. none \in Table
    BY DEF NoTable, NoFd, Table, Handles
  <2>3. ASSUME NEW n \in Slots, NEW sl \in BOOLEAN
        PROVE  Cardinality(On(none, n, sl)) = Cardinality(On(tab, n, sl)) - Cardinality(On(tab, n, sl))
    <3>1. Cardinality(On(tab, n, sl)) \in Nat /\ n # 0
      BY Finite, SlotsType
    <3>2. Cardinality(On(none, n, sl)) = 0
      BY <3>1, OnNone
    <3> HIDE DEF none, tab
    <3> QED BY <3>1, <3>2
  <2>4. CallsTrue'
    <3>1. calls \in [Callers -> {Idle} \union Waits]
      BY DEF PtyInv, CallsTrue
    <3>2. /\ calls' \in [Callers -> {Idle} \union Waits] /\ calls'[c] = Idle
          /\ \A d \in Callers \ {c} : calls'[d] = calls[d]
      BY <1>2, <3>1
    <3> QED BY <1>2, <3>2, CallsTable
  <2> HIDE DEF none
  <2>5. fds' = [fds EXCEPT ![c] = none] /\ ptys' = Dropped(fds[c])
    BY <1>2 DEF none
  <2>6. Followed(fds[c], none)
    BY <2>2, <2>3, <2>5, DropsFollow
  <2> QED BY <2>1, <2>2, <2>4, <2>5, <2>6, TableStep
<1> QED BY <1>1, <1>2 DEF TurnSignalled
----------------------------------------------------------------------------
(* The counts, in every state.                                             *)

LEMMA InitSound == ASSUME Init PROVE PtyInv
<1> DEFINE none == NoTable
<1>1. /\ setup \in Setups /\ ptys = [n \in Slots |-> NoPty] /\ fds = [p \in Callers |-> none]
      /\ calls = [c \in Callers |-> Idle] /\ pend = {} /\ loaded = FALSE
  BY DEF Init
<1>2. Good(NoPty) /\ NoPty.masters = 0 /\ NoPty.slaves = 0
  BY <1>1, NoneGood DEF NoPty
<1>3. none \in Table
  BY DEF NoTable, NoFd, Table, Handles
<1>4. Slots \subseteq Nat \ {0}
  BY <1>1, SetupType DEF Slots
<1>5. Typed
  <2> HIDE DEF none
  <2> QED BY <1>1, <1>2, <1>3 DEF Typed, Good
<1>6. CallsTrue
  BY <1>1 DEF CallsTrue, WaitTrue, Idle
<1>7. ASSUME NEW n \in Slots PROVE Sound(ptys[n], fds, n)
  <2>1. ASSUME NEW sl PROVE Holders(fds, n, sl) = {}
    <3>1. On(none, n, sl) = {}
      BY <1>4, OnNone
    <3> HIDE DEF none
    <3> QED BY <1>1, <3>1 DEF Holders
  <2>2. \A sl : Cardinality(Holders(fds, n, sl)) = 0
    BY <2>1, FS_EmptySet
  <2>3. ptys[n] = NoPty
    BY <1>1
  <2> QED BY <1>2, <2>2, <2>3 DEF Sound, CountsAre, EmptyIsNone
<1> QED BY <1>5, <1>6, <1>7 DEF PtyInv

LEMMA CallStep ==
  ASSUME PtyInv, UNCHANGED setup, NEW c \in 1 .. setup.callers, Call(c)
  PROVE  PtyInv'
<1>1. setup \in Setups /\ c \in Callers
  BY SetupType DEF PtyInv, Typed
<1>2. CASE \E nonblock \in BOOLEAN : PtyOpen(c, nonblock)
  BY <1>1, <1>2, PtyOpenStep
<1>3. CASE \E n \in Slots, nonblock \in BOOLEAN : SlaveOpen(c, n, nonblock)
  BY <1>3, SlaveOpenStep
<1>4. CASE \E p \in Callers : Fork(c, p)
  BY <1>1, <1>4, ForkStep
<1>5. ASSUME NEW fd \in 1 .. NFds, NEW n \in setup.Counts, PtyRead(c, fd, n) PROVE PtyInv'
  <2>1. n \in Nat
    BY <1>1, SetupType
  <2> QED BY <1>1, <1>5, <2>1, PtyReadStep
<1>6. ASSUME NEW fd \in 1 .. NFds, NEW k \in 1 .. setup.MaxText, NEW text \in [1 .. k -> setup.Written],
             PtyWrite(c, fd, text)
      PROVE  PtyInv'
  <2>1. setup.Written \subseteq Key /\ k \in Nat
    BY <1>1, SetupType
  <2>2. text \in [1 .. k -> Key]
    BY <2>1
  <2>3. text \in Seq(Key)
    BY <2>1, <2>2
  <2> QED BY <1>1, <1>6, <2>3, PtyWriteStep
<1>7. ASSUME NEW fd \in 1 .. NFds, NEW k \in setup.Keys, Type(c, fd, k) PROVE PtyInv'
  BY <1>1, <1>7, TypeStep
<1>8. ASSUME NEW fd \in 1 .. NFds, Dup(c, fd) \/ Close(c, fd) \/ Unlock(c, fd) \/ Flush(c, fd) PROVE PtyInv'
  BY <1>1, <1>8, DupStep, CloseStep, UnlockStep, FlushStep
<1>9. ASSUME NEW fd \in 1 .. NFds, SetSize(c, fd) \/ SetTerminal(c, fd) PROVE PtyInv'
  BY <1>1, <1>9, SetSizeStep, SetTerminalStep
<1>10. ASSUME NEW fd \in 1 .. NFds, NEW t \in setup.Terms, NEW flush \in BOOLEAN, SetAttr(c, fd, t, flush) PROVE PtyInv'
  BY <1>1, <1>10, SetAttrStep
<1>11. ASSUME NEW fd \in 1 .. NFds, NEW g \in Callers, SetPgrp(c, fd, g) PROVE PtyInv'
  BY <1>1, <1>11, SetPgrpStep
<1> QED BY <1>2, <1>3, <1>4, <1>5, <1>6, <1>7, <1>8, <1>9, <1>10, <1>11 DEF Call

LEMMA NextSound == ASSUME PtyInv, [Next]_vars PROVE PtyInv'
<1>1. CASE Next
  <2>1. Steps /\ UNCHANGED setup
    BY <1>1 DEF Next
  <2>2. 1 .. setup.callers \subseteq Callers
    BY SetupType DEF PtyInv, Typed
  <2> QED BY <2>1, <2>2, ModuleStep, CallStep, TurnStep, TurnSignalledStep DEF Steps
<1>2. CASE UNCHANGED vars
  BY <1>2, SameTended, CallsSame, PendSame, LoadedSame DEF vars
<1> QED BY <1>1, <1>2

\* A terminal is in use while somebody has it open; what the counts say, and the types.
LEMMA SoundCounts == ASSUME PtyInv PROVE HandlesCounted
<1>1. setup \in Setups /\ ptys \in [Slots -> Ptys] /\ \A n \in Slots : Good(ptys[n])
  BY GoodThere DEF PtyInv, Typed
<1>2. TypeOK
  <2>1. ASSUME NEW n \in Slots
        PROVE  /\ ptys[n].masters \in Nat /\ ptys[n].slaves \in Nat
               /\ ptys[n].pgrp \in Callers \union {0} /\ ptys[n].sid \in Callers \union {0}
               /\ ptys[n].t \in SUBSET Flags /\ {ptys[n].opened, ptys[n].locked, ptys[n].eof} \subseteq BOOLEAN
               /\ ptys[n].in \in Seq(Key) /\ Len(ptys[n].in) <= QUEUE
               /\ ptys[n].out \in Seq(Shown) /\ Len(ptys[n].out) <= QUEUE
               /\ ptys[n].line \in Seq(Key) /\ Len(ptys[n].line) <= LINE
    <3> DEFINE p == ptys[n]
    <3>1. Good(p) /\ p \in Ptys
      BY <1>1
    <3> HIDE DEF p
    <3>2. /\ p.pgrp \in Callers \union {0} /\ p.sid \in Callers \union {0}
          /\ p.opened \in BOOLEAN /\ p.locked \in BOOLEAN /\ p.eof \in BOOLEAN
      BY <3>1 DEF Ptys
    <3>3. /\ p.in \in Seq(Key) /\ p.out \in Seq(Shown) /\ p.line \in Seq(Key) /\ p.t \in SUBSET Flags
          /\ p.masters \in Nat /\ p.slaves \in Nat
          /\ Len(p.in) <= QUEUE /\ Len(p.out) <= QUEUE /\ Len(p.line) <= LINE
      BY <1>1, <3>1, Parts
    <3> QED BY <3>2, <3>3 DEF p
  <2>2. /\ \A p \in Callers : fds[p] \in [1 .. NFds -> [pty : Slots \union {0}, slave : BOOLEAN, nonblock : BOOLEAN]]
        /\ pend \subseteq Callers /\ loaded \in BOOLEAN
    BY DEF PtyInv, Typed, Table, Handles
  <2> QED BY <2>1, <2>2 DEF TypeOK
<1>3. ASSUME NEW n \in Slots, InUse(n) PROVE loaded
  BY <1>3 DEF PtyInv, Sound, InUse
<1>4. ASSUME NEW c \in Callers, ~Free(c) PROVE loaded
  <2>1. Made(c, calls[c])
    BY <1>4 DEF PtyInv, CallsTrue, WaitTrue, Made, Free
  <2>2. calls[c].pty \in Slots /\ InUse(calls[c].pty)
    BY <2>1, MadeIsOpen
  <2> QED BY <1>3, <2>2
<1>5. CodeIsThere
  BY <1>3, <1>4 DEF CodeIsThere
<1>6. ASSUME NEW n \in Slots
      PROVE  /\ ptys[n].masters = Cardinality(Holders(fds, n, FALSE))
             /\ ptys[n].slaves = Cardinality(Holders(fds, n, TRUE))
             /\ InUse(n) <=> Holders(fds, n, FALSE) \union Holders(fds, n, TRUE) # {}
  <2>1. CountsAre(ptys[n], fds, n) /\ EmptyIsNone(ptys[n])
    BY DEF PtyInv, Sound
  <2>2. ASSUME InUse(n) PROVE Holders(fds, n, FALSE) \union Holders(fds, n, TRUE) # {}
    BY <2>1, <2>2, FS_EmptySet DEF InUse, CountsAre, EmptyIsNone
  <2>3. ASSUME NEW sl, NEW h \in Holders(fds, n, sl) PROVE InUse(n)
    <3>1. h[1] \in Callers /\ h[2] \in 1 .. NFds /\ fds[h[1]][h[2]].pty = n /\ n # 0
      BY SlotsType DEF Holders, On
    <3> QED BY <3>1, HeldIsOpen
  <2> QED BY <2>1, <2>2, <2>3 DEF CountsAre
<1> QED BY <1>2, <1>5, <1>6 DEF HandlesCounted

\* Each end of a terminal is counted once for every descriptor there is on it, by
\* whatever opens, dups, forks, closes and deaths it came to be there, and a terminal
\* is there exactly while something has it open, as is the module; the line discipline
\* keeps its rings and its line in their arrays.
THEOREM EndsAreCounted == Spec => []HandlesCounted
<1>1. Init => PtyInv
  BY InitSound
<1>2. PtyInv /\ [Next]_vars => PtyInv'
  BY NextSound
<1>3. PtyInv => HandlesCounted
  BY SoundCounts
<1> QED BY <1>1, <1>2, <1>3, PTL DEF Spec

----------------------------------------------------------------------------
(* What is drawn.                                                          *)

\* The row after text has been drawn on r.
Shows(r, text) == FoldLeft(Draw, r, text)
Rows == Seq(Shown)

\* f is the rows there are on the way.
Draws(f, r, text) ==
  /\ f = [i \in 0 .. Len(text) |-> f[i]] /\ f[0] = r
  /\ \A i \in 0 .. Len(text) : f[i] \in Rows
  /\ \A i \in 1 .. Len(text) : f[i] = Draw(f[i - 1], text[i])

LEMMA DrawType == ASSUME NEW r \in Rows, NEW c \in Shown PROVE Draw(r, c) \in Rows
<1>1. r # <<>> => Front(r) \in Rows
  BY DEF Front, Rows
<1>2. Append(r, c) \in Rows /\ <<>> \in Rows
  BY DEF Rows
<1> QED BY <1>1, <1>2 DEF Draw

LEMMA MaxIs ==
  ASSUME NEW n \in Nat, NEW s, s \subseteq 1 .. n, n \in s
  PROVE  Max(s) = n
<1>1. \A y \in s : n >= y
  OBVIOUS
<1>2. Max(s) \in s /\ \A y \in s : Max(s) >= y
  BY <1>1 DEF Max
<1>3. Max(s) \in 1 .. n /\ Max(s) >= n
  BY <1>2
<1> QED BY <1>3

\* What FoldLeft folds: a function from the places drawn to the row.
Folds(g, r, text, m) ==
  g = [s \in SUBSET (1 .. m) |-> IF s = {} THEN r ELSE Draw(g[s \ {Max(s)}], text[Max(s)])]

LEMMA FoldsGrow ==
  ASSUME NEW r, NEW text, NEW m \in Nat \ {0}, NEW g, Folds(g, r, text, m - 1)
  PROVE  \E h : Folds(h, r, text, m)
<1> DEFINE h == [s \in SUBSET (1 .. m) |-> IF m \in s THEN Draw(g[s \ {m}], text[m]) ELSE g[s]]
<1>1. ASSUME NEW s \in SUBSET (1 .. m)
      PROVE  h[s] = IF s = {} THEN r ELSE Draw(h[s \ {Max(s)}], text[Max(s)])
  <2>1. CASE s = {}
    <3>1. s \in SUBSET (1 .. m - 1)
      BY <2>1
    <3>2. g[s] = r
      BY <2>1, <3>1 DEF Folds
    <3> QED BY <2>1, <3>2
  <2>2. CASE m \in s
    <3>1. Max(s) = m
      BY <2>2, MaxIs
    <3>2. s \ {m} \in SUBSET (1 .. m)
      OBVIOUS
    <3>3. h[s \ {m}] = g[s \ {m}]
      BY <3>2
    <3> QED BY <2>2, <3>1, <3>3
  <2>3. CASE s # {} /\ m \notin s
    <3>1. s \in SUBSET (1 .. m - 1)
      BY <2>3
    <3>2. g[s] = Draw(g[s \ {Max(s)}], text[Max(s)])
      BY <2>3, <3>1 DEF Folds
    <3>3. h[s] = g[s]
      BY <2>3
    <3>4. s \ {Max(s)} \in SUBSET (1 .. m) /\ m \notin s \ {Max(s)}
      BY <2>3
    <3>5. h[s \ {Max(s)}] = g[s \ {Max(s)}]
      BY <3>4
    <3> QED BY <2>3, <3>2, <3>3, <3>5
  <2> QED BY <2>1, <2>2, <2>3
<1>2. h = [s \in SUBSET (1 .. m) |-> h[s]]
  OBVIOUS
<1> HIDE DEF h
<1>3. Folds(h, r, text, m)
  BY <1>1, <1>2 DEF Folds
<1> QED BY <1>3

LEMMA FoldsThere == ASSUME NEW r, NEW text, NEW n \in Nat PROVE \E g : Folds(g, r, text, n)
<1> DEFINE S == {m \in 0 .. n : \E g : Folds(g, r, text, m)}
<1>1. 0 \in S
  <2> DEFINE g == [s \in SUBSET (1 .. 0) |-> r]
  <2>1. \A s \in SUBSET (1 .. 0) : s = {}
    OBVIOUS
  <2>2. Folds(g, r, text, 0)
    BY <2>1 DEF Folds
  <2>3. \E x : Folds(x, r, text, 0)
    <3> HIDE DEF g
    <3> QED BY <2>2
  <2> QED BY <2>3
<1>2. ASSUME NEW m \in 1 .. n, m - 1 \in S PROVE m \in S
  <2>1. PICK g : Folds(g, r, text, m - 1)
    BY <1>2
  <2>2. m \in Nat \ {0}
    OBVIOUS
  <2> QED BY <2>1, <2>2, FoldsGrow
<1>3. Climbs(S, n)
  <2> HIDE DEF S
  <2> QED BY <1>1, <1>2 DEF Climbs
<1>4. n \in S
  <2> HIDE DEF S
  <2> QED BY <1>3, Climbing
<1> QED BY <1>4

LEMMA Drawing ==
  ASSUME NEW r \in Rows, NEW text \in Seq(Shown)
  PROVE  \E f : Draws(f, r, text) /\ Shows(r, text) = f[Len(text)]
<1> DEFINE n == Len(text)
           g == CHOOSE x : Folds(x, r, text, n)
           f == [i \in 0 .. n |-> g[1 .. i]]
<1>1. n \in Nat /\ DOMAIN text = 1 .. n /\ \A i \in 1 .. n : text[i] \in Shown
  OBVIOUS
<1>2. Folds(g, r, text, n)
  BY <1>1, FoldsThere
<1>3. Shows(r, text) = g[1 .. n]
  BY <1>1 DEF Shows, FoldLeft, MapThenFoldSet, Folds
<1> HIDE DEF g, n
<1>4. f[0] = r /\ f = [i \in 0 .. n |-> f[i]]
  <2>1. 1 .. 0 = {} /\ 0 \in 0 .. n
    BY <1>1
  <2>2. g[{}] = r
    BY <1>2 DEF Folds
  <2> QED BY <2>1, <2>2
<1>5. ASSUME NEW i \in 1 .. n PROVE f[i] = Draw(f[i - 1], text[i])
  <2>1. 1 .. i \in SUBSET (1 .. n) /\ i \in 1 .. i /\ i \in Nat
    BY <1>1
  <2>2. Max(1 .. i) = i
    BY <2>1, MaxIs
  <2>3. (1 .. i) \ {i} = 1 .. i - 1
    BY <2>1
  <2>4. g[1 .. i] = Draw(g[(1 .. i) \ {i}], text[i])
    BY <1>2, <2>1, <2>2 DEF Folds
  <2>5. i \in 0 .. n /\ i - 1 \in 0 .. n
    BY <1>1
  <2> QED BY <2>3, <2>4, <2>5
<1> HIDE DEF f
<1>6. \A i \in 0 .. n : f[i] \in Rows
  <2> DEFINE S == {i \in 0 .. n : f[i] \in Rows}
  <2>1. 0 \in S
    BY <1>1, <1>4
  <2>2. ASSUME NEW i \in 1 .. n, i - 1 \in S PROVE i \in S
    <3>1. f[i] = Draw(f[i - 1], text[i]) /\ f[i - 1] \in Rows /\ text[i] \in Shown
      BY <1>1, <1>5, <2>2
    <3>2. i \in 0 .. n
      BY <1>1
    <3> QED BY <3>1, <3>2, DrawType
  <2>3. Climbs(S, n)
    <3> HIDE DEF S
    <3> QED BY <2>1, <2>2 DEF Climbs
  <2>4. \A i \in 0 .. n : i \in S
    <3> HIDE DEF S
    <3> QED BY <1>1, <2>3, Climbing
  <2> QED BY <2>4
<1>7. Draws(f, r, text)
  BY <1>4, <1>5, <1>6 DEF Draws, n
<1>8. f[n] = g[1 .. n]
  BY <1>1 DEF f
<1> QED BY <1>3, <1>7, <1>8 DEF n

\* Two that draw the same are the same.
Strokes(f, text, n) == \A i \in 1 .. n : f[i] = Draw(f[i - 1], text[i])

LEMMA DrawnSame ==
  ASSUME NEW n \in Nat, NEW f, NEW h, NEW text, f[0] = h[0], Strokes(f, text, n), Strokes(h, text, n)
  PROVE  f[n] = h[n]
<1> DEFINE S == {i \in 0 .. n : f[i] = h[i]}
<1>1. 0 \in S
  OBVIOUS
<1>2. ASSUME NEW i \in 1 .. n, i - 1 \in S PROVE i \in S
  <2>1. f[i] = Draw(f[i - 1], text[i]) /\ h[i] = Draw(h[i - 1], text[i]) /\ f[i - 1] = h[i - 1]
    BY <1>2 DEF Strokes
  <2> QED BY <2>1
<1>3. Climbs(S, n)
  <2> HIDE DEF S
  <2> QED BY <1>1, <1>2 DEF Climbs
<1>4. n \in S
  <2> HIDE DEF S
  <2> QED BY <1>3, Climbing
<1> QED BY <1>4

LEMMA ShowsType == ASSUME NEW r \in Rows, NEW text \in Seq(Shown) PROVE Shows(r, text) \in Rows
<1>1. PICK f : Draws(f, r, text) /\ Shows(r, text) = f[Len(text)]
  BY Drawing
<1>2. Len(text) \in 0 .. Len(text)
  OBVIOUS
<1> QED BY <1>1, <1>2 DEF Draws

LEMMA ShowsNone == ASSUME NEW r \in Rows PROVE Shows(r, <<>>) = r
<1> DEFINE e == <<>>
<1>1. e \in Seq(Shown) /\ Len(e) = 0
  OBVIOUS
<1> HIDE DEF e
<1>2. PICK f : Draws(f, r, e) /\ Shows(r, e) = f[Len(e)]
  BY <1>1, Drawing
<1>3. Shows(r, e) = r
  BY <1>1, <1>2 DEF Draws
<1> QED BY <1>3 DEF e

LEMMA ShowsOne == ASSUME NEW r \in Rows, NEW c \in Shown PROVE Shows(r, <<c>>) = Draw(r, c)
<1> DEFINE e == <<c>>
<1>1. e \in Seq(Shown) /\ Len(e) = 1 /\ e[1] = c /\ 1 \in 1 .. 1
  OBVIOUS
<1> HIDE DEF e
<1>2. PICK f : Draws(f, r, e) /\ Shows(r, e) = f[Len(e)]
  BY <1>1, Drawing
<1>3. f[1] = Draw(f[1 - 1], e[1]) /\ f[0] = r
  BY <1>1, <1>2 DEF Draws
<1>4. Shows(r, e) = Draw(r, c)
  BY <1>1, <1>2, <1>3
<1> QED BY <1>4 DEF e

LEMMA ShowsMore ==
  ASSUME NEW r \in Rows, NEW a \in Seq(Shown), NEW b \in Seq(Shown)
  PROVE  Shows(r, a \o b) = Shows(Shows(r, a), b)
<1> DEFINE c == a \o b
           m == Len(a)
           n == Len(b)
           r2 == Shows(r, a)
<1>1. m \in Nat /\ n \in Nat /\ c \in Seq(Shown) /\ Len(c) = m + n
  OBVIOUS
<1>2. (\A i \in 1 .. m : c[i] = a[i]) /\ \A i \in 1 .. n : c[m + i] = b[i]
  OBVIOUS
<1> HIDE DEF c
<1>3. PICK f : Draws(f, r, c) /\ Shows(r, c) = f[Len(c)]
  BY <1>1, Drawing
<1>4. PICK fa : Draws(fa, r, a) /\ Shows(r, a) = fa[Len(a)]
  BY Drawing
<1>5. r2 \in Rows
  BY ShowsType
<1> HIDE DEF r2
<1>6. PICK fb : Draws(fb, r2, b) /\ Shows(r2, b) = fb[Len(b)]
  BY <1>5, Drawing
<1> HIDE DEF m, n
<1>7. f[m] = fa[m]
  <2>1. \A i \in 1 .. m : i \in 1 .. Len(c)
    BY <1>1
  <2>2. Strokes(f, a, m)
    BY <1>2, <1>3, <2>1 DEF Draws, Strokes
  <2>3. Strokes(fa, a, m)
    BY <1>4 DEF Draws, m, Strokes
  <2>4. f[0] = fa[0]
    BY <1>3, <1>4 DEF Draws
  <2> QED BY <1>1, <2>2, <2>3, <2>4, DrawnSame
<1> DEFINE h == [i \in 0 .. n |-> f[m + i]]
<1>8. h[n] = fb[n]
  <2>1. h[0] = fb[0]
    BY <1>1, <1>4, <1>6, <1>7 DEF Draws, m, r2
  <2>2. ASSUME NEW i \in 1 .. n PROVE h[i] = Draw(h[i - 1], b[i])
    <3>1. m + i \in 1 .. Len(c) /\ m + i - 1 = m + (i - 1) /\ i \in 0 .. n /\ i - 1 \in 0 .. n
      BY <1>1
    <3> DEFINE k == m + i
    <3>2. f[k] = Draw(f[k - 1], c[k])
      <4>1. k \in 1 .. Len(c)
        BY <3>1
      <4> HIDE DEF k
      <4> QED BY <1>3, <4>1 DEF Draws
    <3>3. k - 1 = m + (i - 1)
      BY <1>1
    <3>4. c[k] = b[i]
      BY <1>2 DEF n
    <3>5. h[i] = f[k] /\ h[i - 1] = f[m + (i - 1)]
      BY <3>1
    <3> HIDE DEF h, k
    <3> QED BY <3>2, <3>3, <3>4, <3>5
  <2>3. Strokes(fb, b, n)
    BY <1>6 DEF Draws, n, Strokes
  <2> HIDE DEF h
  <2>4. Strokes(h, b, n)
    BY <2>2 DEF Strokes
  <2> QED BY <1>1, <2>1, <2>3, <2>4, DrawnSame
<1>9. h[n] = f[m + n]
  BY <1>1
<1> QED BY <1>1, <1>3, <1>6, <1>8, <1>9 DEF c, n, r2

----------------------------------------------------------------------------
(* A line, and the row it is at the end of.                                *)

Ends(s, t) == Len(s) <= Len(t) /\ \A i \in 1 .. Len(s) : s[i] = t[Len(t) - Len(s) + i]
Begins(s, t) == Len(s) <= Len(t) /\ \A i \in 1 .. Len(s) : s[i] = t[i]

\* What is on row x before the line.
Left(line, x) == SubSeq(x, 1, Len(x) - Len(line))

\* The line and its row become another line and row, and the row before it is kept or gone.
Follows(line, x, now, y) == Ends(now, y) /\ (Begins(Left(line, x), Left(now, y)) \/ y = <<>>)

LEMMA LeftIs ==
  ASSUME NEW line \in Seq(Shown), NEW x \in Rows, Ends(line, x)
  PROVE  /\ Left(line, x) \in Rows /\ Len(Left(line, x)) = Len(x) - Len(line)
         /\ \A i \in 1 .. Len(x) - Len(line) : Left(line, x)[i] = x[i]
<1> DEFINE n == Len(x) - Len(line)
<1>1. n \in Nat /\ n <= Len(x) /\ x \in Seq(Shown)
  BY DEF Ends, Rows
<1> HIDE DEF n
<1>2. SubSeq(x, 1, n) \in Seq(Shown) /\ Len(SubSeq(x, 1, n)) = n /\ \A i \in 1 .. n : SubSeq(x, 1, n)[i] = x[i]
  BY <1>1
<1> QED BY <1>2 DEF Left, n, Rows

LEMMA FollowsSame ==
  ASSUME NEW line \in Seq(Shown), NEW x \in Rows, Ends(line, x)
  PROVE  Follows(line, x, line, x)
<1>1. Len(Left(line, x)) \in Nat
  BY LeftIs DEF Rows
<1> QED BY <1>1 DEF Follows, Begins

\* The line is let go, and the row goes on or is new.
LEMMA FollowsNone ==
  ASSUME NEW line \in Seq(Shown), NEW x \in Rows, Ends(line, x), NEW y \in Rows, Begins(x, y) \/ y = <<>>
  PROVE  Follows(line, x, <<>>, y)
<1> DEFINE e == <<>>
           a == Left(line, x)
           b == Left(e, y)
<1>1. e \in Seq(Shown) /\ Len(e) = 0 /\ Len(x) \in Nat /\ Len(y) \in Nat /\ Len(line) \in Nat
  BY DEF Rows
<1>2. Ends(e, y)
  BY <1>1 DEF Ends
<1> HIDE DEF e
<1>3. Len(a) = Len(x) - Len(line) /\ \A i \in 1 .. Len(x) - Len(line) : a[i] = x[i]
  BY LeftIs
<1>4. Len(b) = Len(y) /\ \A i \in 1 .. Len(y) : b[i] = y[i]
  <2>1. Len(y) - Len(e) = Len(y)
    BY <1>1
  <2>2. Len(b) = Len(y) - Len(e) /\ \A i \in 1 .. Len(y) - Len(e) : b[i] = y[i]
    BY <1>1, <1>2, LeftIs
  <2> HIDE DEF b
  <2> QED BY <2>1, <2>2
<1> HIDE DEF a, b
<1>5. Begins(x, y) => Begins(a, b)
  BY <1>1, <1>3, <1>4 DEF Begins
<1> QED BY <1>2, <1>5 DEF Follows, a, b, e

\* A character comes to both.
LEMMA FollowsGrown ==
  ASSUME NEW line \in Seq(Shown), NEW x \in Rows, Ends(line, x), NEW c \in Shown
  PROVE  Follows(line, x, Append(line, c), Append(x, c))
<1> DEFINE m == Append(line, c)
           y == Append(x, c)
           a == Left(line, x)
           b == Left(m, y)
<1>1. /\ m \in Seq(Shown) /\ Len(m) = Len(line) + 1 /\ y \in Rows /\ Len(y) = Len(x) + 1
      /\ Len(line) \in Nat /\ Len(x) \in Nat /\ Len(line) <= Len(x)
  BY DEF Ends, Rows
<1>2. /\ \A i \in 1 .. Len(line) : m[i] = line[i]
      /\ \A i \in 1 .. Len(x) : y[i] = x[i]
      /\ m[Len(line) + 1] = c /\ y[Len(x) + 1] = c
  BY DEF Rows
<1> HIDE DEF m, y
<1>3. Ends(m, y)
  <2>1. ASSUME NEW i \in 1 .. Len(m) PROVE m[i] = y[Len(y) - Len(m) + i]
    <3> DEFINE k == Len(x) - Len(line) + i
    <3>1. Len(y) - Len(m) + i = k /\ k \in 1 .. Len(x) + 1
      BY <1>1
    <3>2. CASE i = Len(line) + 1
      <4>1. k = Len(x) + 1
        BY <1>1, <3>2
      <4> QED BY <1>2, <3>1, <3>2, <4>1
    <3>3. CASE i # Len(line) + 1
      <4>1. i \in 1 .. Len(line) /\ k \in 1 .. Len(x)
        BY <1>1, <3>3
      <4>2. line[i] = x[k]
        BY <4>1 DEF Ends
      <4> HIDE DEF k
      <4> QED BY <1>2, <3>1, <4>1, <4>2
    <3> QED BY <3>2, <3>3
  <2> QED BY <1>1, <2>1 DEF Ends
<1>4. Len(a) = Len(x) - Len(line) /\ \A i \in 1 .. Len(x) - Len(line) : a[i] = x[i]
  BY LeftIs
<1>5. Len(b) = Len(y) - Len(m) /\ \A i \in 1 .. Len(y) - Len(m) : b[i] = y[i]
  BY <1>1, <1>3, LeftIs
<1> HIDE DEF a, b
<1>6. Begins(a, b)
  <2>1. Len(y) - Len(m) = Len(x) - Len(line) /\ \A i \in 1 .. Len(x) - Len(line) : i \in 1 .. Len(x)
    BY <1>1
  <2>2. Len(a) = Len(b) /\ Len(a) \in Nat
    BY <1>1, <1>4, <1>5, <2>1
  <2> QED BY <1>2, <1>4, <1>5, <2>1, <2>2 DEF Begins
<1> QED BY <1>3, <1>6 DEF Follows, m, y, a, b

\* k characters go from both.
LEMMA FollowsRubbed ==
  ASSUME NEW line \in Seq(Shown), NEW x \in Rows, Ends(line, x), NEW k \in 0 .. Len(line)
  PROVE  Follows(line, x, SubSeq(line, 1, Len(line) - k), SubSeq(x, 1, Len(x) - k))
<1> DEFINE l == Len(line) - k
           h == Len(x) - k
           m == SubSeq(line, 1, l)
           y == SubSeq(x, 1, h)
           a == Left(line, x)
           b == Left(m, y)
<1>1. /\ Len(line) \in Nat /\ Len(x) \in Nat /\ Len(line) <= Len(x)
      /\ l \in 0 .. Len(line) /\ h \in 0 .. Len(x) /\ h - l = Len(x) - Len(line)
  BY DEF Ends, Rows
<1> HIDE DEF l, h
<1>2. /\ m \in Seq(Shown) /\ Len(m) = l /\ y \in Rows /\ Len(y) = h
      /\ (\A i \in 1 .. l : m[i] = line[i]) /\ (\A i \in 1 .. h : y[i] = x[i])
  BY <1>1 DEF Rows
<1> HIDE DEF m, y
<1>3. Ends(m, y)
  <2>1. ASSUME NEW i \in 1 .. Len(m) PROVE m[i] = y[Len(y) - Len(m) + i]
    <3> DEFINE j == Len(x) - Len(line) + i
    <3>1. Len(y) - Len(m) + i = j /\ j \in 1 .. h /\ i \in 1 .. Len(line) /\ i \in 1 .. l
      BY SMTT(60), <1>1, <1>2
    <3>2. line[i] = x[j]
      BY <3>1 DEF Ends
    <3> HIDE DEF j
    <3> QED BY <1>2, <3>1, <3>2
  <2>2. Len(m) <= Len(y)
    BY <1>1, <1>2
  <2> QED BY <2>1, <2>2 DEF Ends
<1>4. Len(a) = Len(x) - Len(line) /\ \A i \in 1 .. Len(x) - Len(line) : a[i] = x[i]
  BY LeftIs
<1>5. Len(b) = Len(y) - Len(m) /\ \A i \in 1 .. Len(y) - Len(m) : b[i] = y[i]
  BY <1>2, <1>3, LeftIs
<1> HIDE DEF a, b
<1>6. Begins(a, b)
  <2>1. Len(y) - Len(m) = Len(x) - Len(line) /\ \A i \in 1 .. Len(x) - Len(line) : i \in 1 .. h
    BY <1>1, <1>2
  <2>2. Len(a) = Len(b) /\ Len(a) \in Nat
    BY <1>1, <1>4, <1>5, <2>1
  <2> QED BY <1>2, <1>4, <1>5, <2>1, <2>2 DEF Begins
<1> QED BY <1>3, <1>6 DEF Follows, m, y, a, b, l, h

\* What erase_one sends, k times over, takes k characters off the row.
Rub(k) == [i \in 1 .. 3 * k |-> IF i % 3 = 2 THEN "sp" ELSE "bs"]

LEMMA RubsOne ==
  ASSUME NEW y \in Rows, y # <<>>
  PROVE  Draw(Draw(Draw(y, "bs"), "sp"), "bs") = SubSeq(y, 1, Len(y) - 1)
<1> DEFINE n == Len(y) - 1
           z == SubSeq(y, 1, n)
           w == Append(z, "sp")
<1>1. n \in Nat /\ n <= Len(y) /\ y \in Seq(Shown)
  BY DEF Rows
<1>2. z = Front(y)
  BY DEF Front
<1> HIDE DEF n
<1>3. z \in Seq(Shown) /\ Len(z) = n
  BY <1>1
<1> HIDE DEF z
<1>4. Draw(y, "bs") = z /\ Draw(z, "sp") = w
  BY <1>2 DEF Draw
<1>5. w # <<>> /\ Front(w) = z
  <2>1. "sp" \in Shown
    BY DEF Shown, Key
  <2>2. w \in Seq(Shown) /\ Len(w) = n + 1 /\ \A i \in 1 .. n : w[i] = z[i]
    BY <1>1, <1>3, <2>1
  <2> HIDE DEF w
  <2>3. SubSeq(w, 1, n) \in Seq(Shown) /\ Len(SubSeq(w, 1, n)) = n /\ \A i \in 1 .. n : SubSeq(w, 1, n)[i] = w[i]
    BY <1>1, <2>2
  <2>4. SubSeq(w, 1, n) = z
    BY <1>3, <2>2, <2>3, AgreeSame DEF Agree
  <2>5. Len(w) - 1 = n /\ w # <<>>
    BY <1>1, <2>2
  <2> QED BY <2>4, <2>5 DEF Front
<1> HIDE DEF w
<1>6. Draw(w, "bs") = z
  BY <1>5 DEF Draw
<1> QED BY <1>4, <1>6 DEF z, n

LEMMA ShowsRub ==
  ASSUME NEW x \in Rows, NEW k \in 0 .. Len(x)
  PROVE  Shows(x, Rub(k)) = SubSeq(x, 1, Len(x) - k)
<1> DEFINE c == Rub(k)
           l == Len(x)
<1>1. l \in Nat /\ k \in Nat /\ k <= l /\ x \in Seq(Shown)
  BY DEF Rows
<1>2. c \in Seq(Shown) /\ Len(c) = 3 * k
  <2>1. 3 * k \in Nat
    BY <1>1
  <2>2. Rub(k) \in Seq(Shown)
    BY <1>1, RubbingType DEF Rub
  <2>3. DOMAIN Rub(k) = 1 .. 3 * k
    BY DEF Rub
  <2> HIDE DEF c
  <2> QED BY <2>1, <2>2, <2>3 DEF c
<1>3. ASSUME NEW j \in 1 .. k
      PROVE  /\ {3 * j - 2, 3 * j - 1, 3 * j} \subseteq 1 .. 3 * k
             /\ c[3 * j - 2] = "bs" /\ c[3 * j - 1] = "sp" /\ c[3 * j] = "bs"
  <2>1. {3 * j - 2, 3 * j - 1, 3 * j} \subseteq 1 .. 3 * k
    BY <1>1
  <2>2. (3 * j - 2) % 3 = 1 /\ (3 * j - 1) % 3 = 2 /\ (3 * j) % 3 = 0
    OBVIOUS
  <2> QED BY <2>1, <2>2 DEF Rub
<1> HIDE DEF c, l
<1>4. PICK f : Draws(f, x, c) /\ Shows(x, c) = f[Len(c)]
  BY <1>2, Drawing
<1> DEFINE S == {j \in 0 .. k : f[3 * j] = SubSeq(x, 1, l - j)}
<1>5. 0 \in S
  <2>1. SubSeq(x, 1, l) \in Seq(Shown) /\ Len(SubSeq(x, 1, l)) = l /\ \A i \in 1 .. l : SubSeq(x, 1, l)[i] = x[i]
    BY <1>1 DEF l
  <2>2. SubSeq(x, 1, l) = x
    BY <1>1, <2>1, AgreeSame DEF Agree, l
  <2>3. f[3 * 0] = x /\ l - 0 = l
    BY <1>1, <1>4 DEF Draws
  <2> QED BY <1>1, <2>2, <2>3
<1>6. ASSUME NEW j \in 1 .. k, j - 1 \in S PROVE j \in S
  <2> DEFINE y == SubSeq(x, 1, l - (j - 1))
             i1 == 3 * j - 2
             i2 == 3 * j - 1
             i3 == 3 * j
  <2>1. f[3 * (j - 1)] = y /\ 3 * (j - 1) = i1 - 1 /\ i1 = i2 - 1 /\ i2 = i3 - 1
    BY <1>6
  <2>2. l - (j - 1) \in 1 .. l /\ l - j \in 0 .. l - (j - 1) /\ l - (j - 1) - 1 = l - j
    BY <1>1
  <2>3. y \in Rows /\ Len(y) = l - (j - 1) /\ y # <<>> /\ \A i \in 1 .. l - (j - 1) : y[i] = x[i]
    <3> DEFINE n == l - (j - 1)
    <3>1. n \in 1 .. Len(x)
      BY <2>2 DEF l
    <3> HIDE DEF n
    <3>2. SubSeq(x, 1, n) \in Seq(Shown) /\ Len(SubSeq(x, 1, n)) = n /\ \A i \in 1 .. n : SubSeq(x, 1, n)[i] = x[i]
      BY <1>1, <3>1
    <3>3. SubSeq(x, 1, n) # <<>>
      BY <3>1, <3>2
    <3> QED BY <3>2, <3>3 DEF n, Rows
  <2>4. {i1, i2, i3} \subseteq 1 .. Len(c) /\ c[i1] = "bs" /\ c[i2] = "sp" /\ c[i3] = "bs"
    BY <1>2, <1>3
  <2> HIDE DEF y, i1, i2, i3
  <2>5. f[i1] = Draw(f[i1 - 1], c[i1]) /\ f[i2] = Draw(f[i2 - 1], c[i2]) /\ f[i3] = Draw(f[i3 - 1], c[i3])
    BY <1>4, <2>4 DEF Draws
  <2>6. f[i3] = Draw(Draw(Draw(y, "bs"), "sp"), "bs")
    BY <2>1, <2>4, <2>5
  <2>7. f[i3] = SubSeq(y, 1, Len(y) - 1)
    BY <2>3, <2>6, RubsOne
  <2>8. SubSeq(y, 1, l - j) = SubSeq(x, 1, l - j)
    <3> DEFINE n == l - j
    <3>1. n \in 0 .. Len(y) /\ n \in 0 .. Len(x) /\ y \in Seq(Shown) /\ \A i \in 1 .. n : y[i] = x[i]
      BY <1>1, <2>2, <2>3 DEF Rows, l
    <3> HIDE DEF n
    <3>2. /\ SubSeq(x, 1, n) \in Seq(Shown) /\ Len(SubSeq(x, 1, n)) = n /\ \A i \in 1 .. n : SubSeq(x, 1, n)[i] = x[i]
          /\ SubSeq(y, 1, n) \in Seq(Shown) /\ Len(SubSeq(y, 1, n)) = n /\ \A i \in 1 .. n : SubSeq(y, 1, n)[i] = y[i]
      BY <1>1, <3>1
    <3>3. SubSeq(y, 1, n) = SubSeq(x, 1, n)
      BY <3>1, <3>2, AgreeSame DEF Agree
    <3> QED BY <3>3 DEF n
  <2>9. f[i3] = SubSeq(x, 1, l - j)
    BY <2>2, <2>3, <2>7, <2>8
  <2> QED BY <2>9 DEF i3
<1>7. Climbs(S, k)
  <2> HIDE DEF S
  <2> QED BY <1>5, <1>6 DEF Climbs
<1>8. k \in S
  <2> HIDE DEF S
  <2> QED BY <1>1, <1>7, Climbing
<1> QED BY <1>2, <1>4, <1>8 DEF c, l

----------------------------------------------------------------------------
(* Characters drawn as they are.                                           *)

LEMMA FlattenSingles ==
  ASSUME NEW A, NEW s \in Seq(A)
  PROVE  FlattenSeq([i \in DOMAIN s |-> <<s[i]>>]) = s
<1> DEFINE n == Len(s)
           seqs == [i \in DOMAIN s |-> <<s[i]>>]
           first(i) == SubSeq(s, 1, i)
           Is(f) == f = [i \in 1 .. n |-> IF i = 1 THEN seqs[i] ELSE f[i - 1] \o seqs[i]]
           flatten == CHOOSE f : Is(f)
<1>1. n \in Nat /\ DOMAIN s = 1 .. n /\ (\A i \in 1 .. n : s[i] \in A) /\ DOMAIN seqs = 1 .. n
  OBVIOUS
<1>2. Len(seqs) = n
  <2>1. \A i \in 1 .. n : <<s[i]>> \in Seq(A)
    BY <1>1
  <2>2. seqs \in Seq(Seq(A))
    BY <1>1, <2>1
  <2> HIDE DEF seqs
  <2> QED BY <1>1, <2>2
<1>3. \A i \in 0 .. n : first(i) \in Seq(A) /\ Len(first(i)) = i /\ \A j \in 1 .. i : first(i)[j] = s[j]
  BY <1>1
<1>4. first(n) = s
  BY <1>1, <1>3, AgreeSame DEF Agree
<1>5. CASE n = 0
  <2>1. s = <<>> /\ seqs = <<>>
    BY <1>1, <1>5
  <2> QED BY <1>2, <1>5, <2>1 DEF FlattenSeq
<1>6. CASE n # 0
  <2>1. ASSUME NEW i \in 1 .. n PROVE first(i) = IF i = 1 THEN seqs[i] ELSE first(i - 1) \o seqs[i]
    <3> DEFINE one == <<s[i]>>
               a == first(i - 1)
    <3>1. one \in Seq(A) /\ Len(one) = 1 /\ one[1] = s[i] /\ seqs[i] = one
      BY <1>1
    <3>2. i \in 0 .. n /\ i - 1 \in 0 .. n /\ i \in Nat
      BY <1>1
    <3>3. a \in Seq(A) /\ Len(a) = i - 1 /\ \A j \in 1 .. i - 1 : a[j] = s[j]
      BY <1>3, <3>2
    <3>4. first(i) \in Seq(A) /\ Len(first(i)) = i /\ \A j \in 1 .. i : first(i)[j] = s[j]
      BY <1>3, <3>2
    <3> HIDE DEF one, a, first
    <3>5. a \o one \in Seq(A) /\ Len(a \o one) = i
      <4>1. a \in Seq(A) /\ one \in Seq(A)
        BY <3>1, <3>3
      <4>2. a \o one \in Seq(A) /\ Len(a \o one) = Len(a) + Len(one)
        BY <4>1, ConcatIs
      <4> QED BY <3>1, <3>2, <3>3, <4>2
    <3>6. ASSUME NEW j \in 1 .. i PROVE (a \o one)[j] = s[j]
      <4>0. (a \o one)[j] = IF j <= i - 1 THEN a[j] ELSE one[j - (i - 1)]
        <5>1. j \in 1 .. Len(a) + Len(one)
          BY <3>1, <3>2, <3>3
        <5>2. a \in Seq(A) /\ one \in Seq(A)
          BY <3>1, <3>3
        <5>3. (a \o one)[j] = IF j <= Len(a) THEN a[j] ELSE one[j - Len(a)]
          BY <5>1, <5>2, ConcatAt
        <5> QED BY <3>3, <5>3
      <4>1. CASE j = i
        <5>1. ~(j <= i - 1) /\ j - (i - 1) = 1
          BY <3>2, <4>1
        <5> QED BY <3>1, <4>0, <4>1, <5>1
      <4>2. CASE j # i
        <5>1. j \in 1 .. i - 1 /\ j <= i - 1
          BY <3>2, <4>2
        <5> QED BY <3>3, <4>0, <5>1
      <4> QED BY <4>1, <4>2
    <3>7. first(i) = a \o one
      BY <3>4, <3>5, <3>6, AgreeSame DEF Agree
    <3>8. i = 1 => first(i) = one
      BY <3>1, <3>4, AgreeSame DEF Agree
    <3> QED BY <3>1, <3>7, <3>8 DEF a
  <2> HIDE DEF seqs, first
  <2>2. Is([i \in 1 .. n |-> first(i)])
    <3> DEFINE g == [i \in 1 .. n |-> first(i)]
    <3>1. ASSUME NEW i \in 1 .. n PROVE g[i] = IF i = 1 THEN seqs[i] ELSE g[i - 1] \o seqs[i]
      <4>1. i # 1 => i - 1 \in 1 .. n
        BY <1>1
      <4> QED BY <2>1, <4>1
    <3>2. g = [i \in 1 .. n |-> g[i]]
      OBVIOUS
    <3> HIDE DEF g
    <3>3. Is(g)
      BY <3>1, <3>2
    <3> QED BY <3>3 DEF g
  <2>3. Is(flatten)
    <3> HIDE DEF Is
    <3> QED BY <2>2
  <2>4. FlattenSeq(seqs) = flatten[n]
    BY <1>2, <1>6 DEF FlattenSeq
  <2> HIDE DEF flatten
  <2> DEFINE S == {i \in 0 .. n : i = 0 \/ flatten[i] = first(i)}
  <2>5. 0 \in S
    BY <1>1
  <2>6. ASSUME NEW i \in 1 .. n, i - 1 \in S PROVE i \in S
    <3>1. flatten[i] = IF i = 1 THEN seqs[i] ELSE flatten[i - 1] \o seqs[i]
      BY <2>3
    <3>2. i # 1 => flatten[i - 1] = first(i - 1)
      BY <1>1, <2>6
    <3>3. i \in 0 .. n
      BY <1>1
    <3> QED BY <2>1, <3>1, <3>2, <3>3
  <2>7. Climbs(S, n)
    <3> HIDE DEF S
    <3> QED BY <2>5, <2>6 DEF Climbs
  <2>8. n \in S
    <3> HIDE DEF S
    <3> QED BY <1>1, <2>7, Climbing
  <2> QED BY <1>4, <1>6, <2>4, <2>8 DEF seqs
<1> QED BY <1>5, <1>6

\* What a line that is edited holds.
Ink == {"a", "sp"}

LEMMA InkShown == ASSUME NEW s \in Seq(Ink) PROVE s \in Seq(Shown) /\ s \in Seq(Key)
<1>1. Ink \subseteq Shown /\ Ink \subseteq Key
  BY DEF Ink, Shown, Key
<1>2. Len(s) \in Nat /\ s \in [1 .. Len(s) -> Ink]
  OBVIOUS
<1> QED BY <1>1, <1>2

LEMMA ImageIs == ASSUME NEW s \in Seq(Ink) PROVE Image(s) = s
<1>1. \A i \in DOMAIN s : s[i] \in Ink
  OBVIOUS
<1>2. \A i \in DOMAIN s : Glyphs(s[i]) = <<s[i]>>
  BY <1>1 DEF Glyphs, Ink, Control
<1>3. [i \in DOMAIN s |-> Glyphs(s[i])] = [i \in DOMAIN s |-> <<s[i]>>]
  BY <1>2
<1> QED BY <1>3, FlattenSingles DEF Image

LEMMA ExpansionIs == ASSUME NEW p, NEW s \in Seq(Key \ {"nl"}) PROVE Expansion(p, s) = s
<1>1. \A i \in DOMAIN s : s[i] # "nl"
  OBVIOUS
<1>2. \A i \in DOMAIN s : Expanded(p, s[i]) = <<s[i]>>
  BY <1>1 DEF Expanded
<1>3. [i \in DOMAIN s |-> Expanded(p, s[i])] = [i \in DOMAIN s |-> <<s[i]>>]
  BY <1>2
<1> QED BY <1>3, FlattenSingles DEF Expansion

----------------------------------------------------------------------------
(* The line discipline, and what is seen of the line.                      *)

Cook == {"icrnl", "isig", "echo", "echoe"}
Cooking(p) == "icanon" \in p.t => Cook \subseteq p.t
RawEmpty(p) == "icanon" \notin p.t => p.line = <<>>

\* The row, once everything on its way to it has been drawn.
Seen(p, r) == Shows(r, p.out)
Edits(p, r) == Cooking(p) /\ p.line \in Seq(Ink) /\ Ends(p.line, Seen(p, r))
Moves(p, r, q, s) == Cooking(q) /\ q.line \in Seq(Ink) /\ Follows(p.line, Seen(p, r), q.line, Seen(q, s))

\* What an echo of c is.
Echoes(c) == {<<>>, <<"^", "letter">>, <<c>>, <<"cr", "nl">>}

LEMMA EchoesType == ASSUME NEW c \in Key, NEW cs \in Echoes(c) PROVE cs \in Seq(Shown) /\ Len(cs) <= 2
<1>1. c \in Shown /\ {"^", "letter", "cr", "nl"} \subseteq Shown
  BY DEF Shown, Key
<1>2. cs = <<>> \/ cs = <<"^", "letter">> \/ cs = <<c>> \/ cs = <<"cr", "nl">>
  BY DEF Echoes
<1>3. <<>> \in Seq(Shown) /\ <<"^", "letter">> \in Seq(Shown) /\ <<c>> \in Seq(Shown) /\ <<"cr", "nl">> \in Seq(Shown)
  BY <1>1
<1>4. Len(<<>>) = 0 /\ Len(<<"^", "letter">>) = 2 /\ Len(<<c>>) = 1 /\ Len(<<"cr", "nl">>) = 2
  OBVIOUS
<1>5. CASE cs = <<>>
  BY <1>3, <1>4, <1>5
<1>6. CASE cs = <<"^", "letter">>
  BY <1>3, <1>4, <1>6
<1>7. CASE cs = <<c>>
  BY <1>3, <1>4, <1>7
<1>8. CASE cs = <<"cr", "nl">>
  BY <1>3, <1>4, <1>8
<1> QED BY <1>2, <1>5, <1>6, <1>7, <1>8

\* An echo goes on with the row, or begins another.
LEMMA EchoShows ==
  ASSUME NEW x \in Rows, NEW c \in Key, NEW cs \in Echoes(c)
  PROVE  Shows(x, cs) \in Rows /\ (Begins(x, Shows(x, cs)) \/ Shows(x, cs) = <<>>)
<1>1. cs \in Seq(Shown) /\ c \in Shown /\ {"^", "letter", "cr", "nl"} \subseteq Shown
  BY EchoesType DEF Shown, Key
<1>2. ASSUME NEW y \in Rows, NEW d \in Shown \ {"bs", "cr", "nl"}
      PROVE  Shows(y, <<d>>) = Append(y, d) /\ Append(y, d) \in Rows /\ Begins(y, Append(y, d))
  <2>1. Shows(y, <<d>>) = Append(y, d)
    BY ShowsOne DEF Draw
  <2>2. Append(y, d) \in Rows /\ Begins(y, Append(y, d))
    BY DEF Rows, Begins
  <2> QED BY <2>1, <2>2
<1>3. CASE cs = <<>>
  BY <1>3, ShowsNone DEF Begins, Rows
<1>4. CASE cs = <<c>>
  <2>1. CASE c \in {"cr", "nl"}
    BY <1>1, <1>4, <2>1, ShowsOne, ShowsType DEF Draw
  <2>2. CASE c \notin {"cr", "nl"}
    <3>1. c # "bs"
      BY DEF Key, Control
    <3> QED BY <1>1, <1>2, <1>4, <2>2, <3>1
  <2> QED BY <2>1, <2>2
<1>5. CASE cs = <<"^", "letter">>
  <2> DEFINE a == "^"
             b == "letter"
             y == Append(x, a)
             z == Append(y, b)
  <2>1. a \in Shown \ {"bs", "cr", "nl"} /\ b \in Shown \ {"bs", "cr", "nl"} /\ cs = <<a>> \o <<b>>
    BY <1>1, <1>5
  <2> HIDE DEF a, b
  <2>2. Shows(x, <<a>>) = y /\ y \in Rows /\ Begins(x, y)
    BY <1>2, <2>1
  <2> HIDE DEF y
  <2>3. Shows(y, <<b>>) = z /\ z \in Rows /\ Begins(y, z)
    BY <1>2, <2>1, <2>2
  <2> HIDE DEF z
  <2>4. Shows(x, cs) = z
    <3>1. <<a>> \in Seq(Shown) /\ <<b>> \in Seq(Shown)
      BY <2>1
    <3>2. Shows(x, <<a>> \o <<b>>) = Shows(Shows(x, <<a>>), <<b>>)
      BY <3>1, ShowsMore
    <3> QED BY <2>1, <2>2, <2>3, <3>2
  <2>5. Begins(x, z)
    <3>1. Len(x) \in Nat /\ Len(y) \in Nat /\ Len(z) \in Nat
      BY <2>2, <2>3 DEF Rows
    <3> QED BY <2>2, <2>3, <3>1 DEF Begins
  <2> QED BY <2>3, <2>4, <2>5
<1>6. CASE cs = <<"cr", "nl">>
  <2> DEFINE a == "cr"
             b == "nl"
             e == <<>>
  <2>1. a \in Shown /\ b \in Shown /\ cs = <<a>> \o <<b>> /\ e \in Rows
    BY <1>1, <1>6 DEF Rows
  <2>2. Draw(x, a) = e /\ Draw(e, b) = e
    BY DEF Draw
  <2> HIDE DEF a, b, e
  <2>3. Shows(x, <<a>>) = e /\ Shows(e, <<b>>) = e
    BY <2>1, <2>2, ShowsOne
  <2>4. <<a>> \in Seq(Shown) /\ <<b>> \in Seq(Shown)
    BY <2>1
  <2>5. Shows(x, cs) = e
    BY <2>1, <2>3, <2>4, ShowsMore
  <2> QED BY <2>1, <2>5 DEF e
<1> QED BY <1>3, <1>4, <1>5, <1>6 DEF Echoes

LEMMA OutPutIs ==
  ASSUME setup \in Setups, NEW p, Good(p), NEW cs \in Seq(Shown)
  PROVE  /\ OutPut(p, cs).t = p.t /\ OutPut(p, cs).line = p.line
         /\ Len(p.out) + Len(cs) <= QUEUE => OutPut(p, cs).out = p.out \o cs
<1> DEFINE s == p.out \o cs
<1>1. p \in Ptys /\ s \in Seq(Shown) /\ Len(s) = Len(p.out) + Len(cs) /\ QUEUE \in Nat
  BY Parts DEF Good
<1> HIDE DEF s
<1>2. OutPut(p, cs) = [p EXCEPT !.out = Cut(s, QUEUE)]
  BY DEF OutPut, s
<1>3. OutPut(p, cs).t = p.t /\ OutPut(p, cs).line = p.line /\ OutPut(p, cs).out = Cut(s, QUEUE)
  BY <1>1, <1>2 DEF Ptys
<1>4. Len(s) <= QUEUE => Cut(s, QUEUE) = s
  BY <1>1 DEF Cut
<1> QED BY <1>1, <1>3, <1>4 DEF s

\* An echo, when there is room, as there is of a terminal that keeps up.
LEMMA EchoIs ==
  ASSUME setup \in Setups, NEW p, Good(p), NEW c \in Key
  PROVE  /\ Echo(p, c).t = p.t /\ Echo(p, c).line = p.line
         /\ \E cs \in Echoes(c) :
              /\ Len(p.out) + 2 <= QUEUE => Echo(p, c).out = p.out \o cs
              /\ "echo" \in p.t /\ c \in Ink => cs = <<c>>
<1>1. p.out \in Seq(Shown) /\ Len(p.out) \in Nat /\ QUEUE \in Nat
  BY Parts
<1>2. \A cs \in Echoes(c) : cs \in Seq(Shown) /\ Len(cs) \in Nat /\ Len(cs) <= 2
  BY EchoesType
<1>3. ASSUME NEW cs \in Echoes(c)
      PROVE  /\ OutPut(p, cs).t = p.t /\ OutPut(p, cs).line = p.line
             /\ Len(p.out) + 2 <= QUEUE => OutPut(p, cs).out = p.out \o cs
  BY <1>1, <1>2, OutPutIs
<1>4. CASE "echo" \notin p.t
  <2> DEFINE e == <<>>
  <2>1. e \in Echoes(c) /\ p.out \o e = p.out
    BY <1>1 DEF Echoes
  <2>2. Echo(p, c) = p
    BY <1>4 DEF Echo
  <2> HIDE DEF e
  <2> QED BY <1>4, <2>1, <2>2
<1>5. CASE "echo" \in p.t
  <2>1. PICK cs \in Echoes(c) : Echo(p, c) = OutPut(p, cs) /\ (c \in Ink => cs = <<c>>)
    <3>1. c \in Ink => c \notin Control /\ c # "cr" /\ c # "nl"
      BY DEF Ink, Control
    <3> QED BY <1>5, <3>1 DEF Echo, Output, Expanded, Echoes
  <2> QED BY <1>3, <2>1
<1> QED BY <1>4, <1>5

LEMMA LineDoneIs ==
  ASSUME NEW p \in Ptys
  PROVE  LineDone(p).t = p.t /\ LineDone(p).out = p.out /\ LineDone(p).line = <<>>
BY DEF LineDone, Ptys

\* The line is let go, or was empty, and something is echoed.
Clears(p, q, c) ==
  /\ q.t = p.t /\ (q.line = <<>> \/ ("icanon" \notin p.t /\ q.line = p.line))
  /\ \E cs \in Echoes(c) : Len(p.out) + 2 <= QUEUE => q.out = p.out \o cs

\* What a key becomes.
Typing(p, k) == IF k = "cr" /\ "icrnl" \in p.t THEN "nl" ELSE k

LEMMA InputIs ==
  ASSUME setup \in Setups, NEW p, Good(p), NEW k \in Key
  PROVE  \/ Clears(p, Input(p, k), Typing(p, k))
         \/ Input(p, k) \in {Erase(p, 1), Erase(p, Len(p.line)), Erase(p, Word(p.line))}
         \/ /\ Input(p, k) = Gather(p, Typing(p, k)) /\ "icanon" \in p.t
            /\ Typing(p, k) \notin {"erase", "kill", "werase", "eof", "nl"} /\ ("isig" \in p.t => Typing(p, k) # "intr")
<1> DEFINE c == Typing(p, k)
           e == <<>>
           A1 == [Echo(p, c) EXCEPT !.line = e, !.in = e]
           i2 == Cut(Append(p.in, c), QUEUE)
           p2 == [p EXCEPT !.in = i2]
           A2 == Echo(p2, c)
           p3 == [p EXCEPT !.eof = (p.line = e)]
           A3 == LineDone(p3)
           l4 == Cut(Append(p.line, c), LINE)
           p4 == [p EXCEPT !.line = l4]
           p5 == Echo(p4, c)
           A4 == LineDone(p5)
<1>0. c \in Key /\ p \in Ptys
  BY DEF Key, Typing, Good
<1> HIDE DEF c
<1>1. Clears(p, A1, c)
  <2> DEFINE q == Echo(p, c)
  <2>1. PICK cs \in Echoes(c) : q.t = p.t /\ (Len(p.out) + 2 <= QUEUE => q.out = p.out \o cs)
    BY <1>0, EchoIs
  <2>2. q \in Ptys
    BY <1>0, EchoKeeps DEF Kept, Good
  <2> HIDE DEF q
  <2>3. [q EXCEPT !.line = e, !.in = e].t = q.t /\ [q EXCEPT !.line = e, !.in = e].out = q.out
        /\ [q EXCEPT !.line = e, !.in = e].line = e
    BY <2>2 DEF Ptys
  <2> QED BY <2>1, <2>3 DEF Clears, q
<1>2. "icanon" \notin p.t => Clears(p, A2, c)
  <2>1. Good(p2)
    <3>1. Append(p.in, c) \in Seq(Key) /\ QUEUE \in Nat
      BY <1>0, Parts
    <3>2. i2 \in Seq(Key) /\ Len(i2) <= QUEUE
      BY <3>1, CutType
    <3> HIDE DEF i2
    <3> QED BY <3>2, SetIn DEF Kept
  <2>2. p2.t = p.t /\ p2.line = p.line /\ p2.out = p.out
    BY <1>0 DEF Ptys
  <2> HIDE DEF p2
  <2>3. PICK cs \in Echoes(c) : A2.t = p2.t /\ A2.line = p2.line /\ (Len(p2.out) + 2 <= QUEUE => A2.out = p2.out \o cs)
    BY <1>0, <2>1, EchoIs
  <2> QED BY <2>2, <2>3 DEF Clears
<1>3. Clears(p, A3, c)
  <2>1. p3 \in Ptys /\ p3.t = p.t /\ p3.out = p.out
    BY <1>0 DEF Ptys
  <2> HIDE DEF p3
  <2>2. A3.t = p.t /\ A3.out = p.out /\ A3.line = e
    BY <2>1, LineDoneIs
  <2>3. e \in Echoes(c) /\ p.out \o e = p.out
    BY Parts DEF Echoes
  <2> QED BY <2>2, <2>3 DEF Clears
<1>4. Clears(p, A4, c)
  <2>1. Good(p4)
    BY <1>0, LineGrows DEF Kept
  <2>2. p4.t = p.t /\ p4.out = p.out
    BY <1>0 DEF Ptys
  <2> HIDE DEF p4
  <2>3. PICK cs \in Echoes(c) : p5.t = p4.t /\ (Len(p4.out) + 2 <= QUEUE => p5.out = p4.out \o cs)
    BY <1>0, <2>1, EchoIs
  <2>4. p5 \in Ptys
    BY <1>0, <2>1, EchoKeeps DEF Kept, Good
  <2> HIDE DEF p5
  <2>5. A4.t = p5.t /\ A4.out = p5.out /\ A4.line = e
    BY <2>4, LineDoneIs
  <2> QED BY <2>2, <2>3, <2>5 DEF Clears
<1>5. \/ Input(p, k) = A1
      \/ "icanon" \notin p.t /\ Input(p, k) = A2
      \/ Input(p, k) = A3 \/ Input(p, k) = A4
      \/ Input(p, k) \in {Erase(p, 1), Erase(p, Len(p.line)), Erase(p, Word(p.line))}
      \/ /\ Input(p, k) = Gather(p, c) /\ "icanon" \in p.t
         /\ c \notin {"erase", "kill", "werase", "eof", "nl"} /\ ("isig" \in p.t => c # "intr")
  BY DEF Input, c, Typing
<1> HIDE DEF A1, A2, A3, A4
<1> QED BY <1>1, <1>2, <1>3, <1>4, <1>5 DEF c

LEMMA SeenType == ASSUME setup \in Setups, NEW p, Good(p), NEW r \in Rows PROVE Seen(p, r) \in Rows
BY Parts, ShowsType DEF Seen

LEMMA ClearsMoves ==
  ASSUME setup \in Setups, NEW p, Good(p), NEW r \in Rows, Edits(p, r), RawEmpty(p), Len(p.out) + 2 <= QUEUE,
         NEW c \in Key, NEW q, Clears(p, q, c)
  PROVE  Moves(p, r, q, r)
<1> DEFINE x == Seen(p, r)
           e == <<>>
<1>1. PICK cs \in Echoes(c) : q.out = p.out \o cs
  BY DEF Clears
<1>2. q.t = p.t /\ q.line = e
  BY DEF Clears, RawEmpty
<1>3. x \in Rows /\ p.line \in Seq(Shown) /\ p.out \in Seq(Shown) /\ cs \in Seq(Shown)
  BY SeenType, InkShown, EchoesType, Parts DEF Edits
<1>4. Seen(q, r) = Shows(x, cs)
  BY <1>1, <1>3, ShowsMore DEF Seen
<1>5. Ends(p.line, x) /\ Cooking(q) /\ e \in Seq(Ink)
  BY <1>2 DEF Edits, Cooking
<1> HIDE DEF x
<1>6. Shows(x, cs) \in Rows /\ (Begins(x, Shows(x, cs)) \/ Shows(x, cs) = <<>>)
  BY <1>3, EchoShows
<1>7. Follows(p.line, x, <<>>, Shows(x, cs))
  BY <1>3, <1>5, <1>6, FollowsNone
<1> QED BY <1>2, <1>4, <1>5, <1>7 DEF Moves, x

LEMMA EraseIs ==
  ASSUME setup \in Setups, NEW p, Good(p), NEW n \in Nat
  PROVE  \E k \in 0 .. Len(p.line) :
           /\ Erase(p, n).t = p.t /\ Erase(p, n).line = SubSeq(p.line, 1, Len(p.line) - k)
           /\ Len(p.out) + 3 * LINE <= QUEUE /\ ({"echo", "echoe"} \subseteq p.t \/ k = 0)
              => Erase(p, n).out = p.out \o Rub(k)
<1> DEFINE k == IF n < Len(p.line) THEN n ELSE Len(p.line)
           s == SubSeq(p.line, 1, Len(p.line) - k)
           q == [p EXCEPT !.line = s]
           cs == Rub(k)
<1>1. /\ p \in Ptys /\ Len(p.line) \in Nat /\ k \in 0 .. Len(p.line) /\ p.line \in Seq(Key) /\ Len(p.line) <= LINE
      /\ LINE \in Nat /\ QUEUE \in Nat /\ p.out \in Seq(Shown) /\ Len(p.out) \in Nat
  BY Parts DEF Good
<1>2. Erase(p, n) = IF {"echo", "echoe"} \subseteq p.t THEN OutPut(q, cs) ELSE q
  BY DEF Erase, Rub
<1> HIDE DEF k
<1>3. s \in Seq(Key) /\ Len(s) <= LINE
  <2> DEFINE m == Len(p.line) - k
  <2>1. m \in 0 .. Len(p.line)
    BY <1>1
  <2> HIDE DEF m
  <2>2. SubSeq(p.line, 1, m) \in Seq(Key) /\ Len(SubSeq(p.line, 1, m)) = m
    BY <1>1, <2>1
  <2>3. m <= LINE
    BY <1>1, <2>1
  <2> QED BY <2>2, <2>3 DEF m
<1> HIDE DEF s
<1>4. Good(q) /\ q.t = p.t /\ q.out = p.out /\ q.line = s
  BY <1>1, <1>3, SetLine DEF Kept, Ptys
<1>5. cs \in Seq(Shown) /\ Len(cs) = 3 * k
  <2>1. 3 * k \in Nat /\ k \in Nat
    BY <1>1
  <2>2. Rub(k) \in Seq(Shown)
    BY <2>1, RubbingType DEF Rub
  <2>3. DOMAIN Rub(k) = 1 .. 3 * k
    BY DEF Rub
  <2> HIDE DEF cs
  <2> QED BY <2>1, <2>2, <2>3 DEF cs
<1>6. k = 0 => p.out \o cs = p.out
  <2>1. k = 0 => cs = <<>>
    BY <1>5
  <2> QED BY <1>1, <2>1
<1> HIDE DEF q, cs
<1>7. OutPut(q, cs).t = p.t /\ OutPut(q, cs).line = s /\ (Len(p.out) + 3 * LINE <= QUEUE => OutPut(q, cs).out = p.out \o cs)
  <2>1. Len(p.out) + 3 * LINE <= QUEUE => Len(p.out) + Len(cs) <= QUEUE
    <3>1. k \in Nat /\ k <= LINE
      BY <1>1
    <3>2. \A a, b, c, d \in Nat : a <= b /\ c + 3 * b <= d => c + 3 * a <= d
      OBVIOUS
    <3>3. k <= LINE /\ Len(p.out) + 3 * LINE <= QUEUE => Len(p.out) + 3 * k <= QUEUE
      <4> DEFINE b == LINE
                 c == Len(p.out)
                 d == QUEUE
      <4>1. b \in Nat /\ d \in Nat /\ c \in Nat
        BY <1>1
      <4> HIDE DEF b, c, d
      <4>2. k <= b /\ c + 3 * b <= d => c + 3 * k <= d
        BY <3>1, <3>2, <4>1
      <4> QED BY <4>2 DEF b, c, d
    <3> QED BY <1>5, <3>1, <3>3
  <2> QED BY <1>4, <1>5, <2>1, OutPutIs
<1>8. /\ Erase(p, n).t = p.t /\ Erase(p, n).line = s
      /\ Len(p.out) + 3 * LINE <= QUEUE /\ ({"echo", "echoe"} \subseteq p.t \/ k = 0) => Erase(p, n).out = p.out \o cs
  BY <1>2, <1>4, <1>6, <1>7
<1> QED BY <1>1, <1>8 DEF s, cs

LEMMA EraseMoves ==
  ASSUME setup \in Setups, NEW p, Good(p), NEW r \in Rows, Edits(p, r), RawEmpty(p), Len(p.out) + 3 * LINE <= QUEUE,
         NEW n \in Nat
  PROVE  Moves(p, r, Erase(p, n), r)
<1> DEFINE x == Seen(p, r)
           q == Erase(p, n)
<1>1. PICK k \in 0 .. Len(p.line) :
        /\ q.t = p.t /\ q.line = SubSeq(p.line, 1, Len(p.line) - k)
        /\ {"echo", "echoe"} \subseteq p.t \/ k = 0 => q.out = p.out \o Rub(k)
  BY EraseIs
<1>2. {"echo", "echoe"} \subseteq p.t \/ k = 0
  <2>1. "icanon" \notin p.t => Len(p.line) = 0
    BY DEF RawEmpty
  <2>2. Len(p.line) = 0 => k = 0
    OBVIOUS
  <2> QED BY <2>1, <2>2 DEF Edits, Cooking, Cook
<1>3. x \in Rows /\ p.line \in Seq(Ink) /\ p.line \in Seq(Shown) /\ p.out \in Seq(Shown) /\ Ends(p.line, x)
  BY SeenType, InkShown, Parts DEF Edits
<1>4. k \in Nat /\ k \in 0 .. Len(x)
  <2>1. Len(p.line) <= Len(x) /\ Len(x) \in Nat /\ Len(p.line) \in Nat
    BY <1>3 DEF Ends, Rows
  <2> QED BY <2>1
<1> HIDE DEF q, x
<1>5. Seen(q, r) = SubSeq(x, 1, Len(x) - k)
  <2>1. Rub(k) \in Seq(Shown)
    BY <1>4, RubbingType DEF Rub
  <2>2. Seen(q, r) = Shows(x, Rub(k))
    <3>1. q.out = p.out \o Rub(k)
      BY <1>1, <1>2
    <3>2. Shows(r, p.out \o Rub(k)) = Shows(Shows(r, p.out), Rub(k))
      BY <1>3, <2>1, ShowsMore
    <3> QED BY <3>1, <3>2 DEF Seen, x
  <2> QED BY <1>3, <1>4, <2>2, ShowsRub
<1>6. Follows(p.line, x, SubSeq(p.line, 1, Len(p.line) - k), SubSeq(x, 1, Len(x) - k))
  BY <1>3, FollowsRubbed
<1>7. q.line \in Seq(Ink)
  <2> DEFINE m == Len(p.line) - k
  <2>1. m \in 0 .. Len(p.line)
    BY <1>3
  <2> HIDE DEF m
  <2>2. SubSeq(p.line, 1, m) \in Seq(Ink)
    BY <1>3, <2>1
  <2> QED BY <1>1, <2>2 DEF m
<1>8. Cooking(q)
  BY <1>1 DEF Edits, Cooking
<1> QED BY <1>1, <1>5, <1>6, <1>7, <1>8 DEF Moves, x, q

LEMMA GatherMoves ==
  ASSUME setup \in Setups, NEW p, Good(p), NEW r \in Rows, Edits(p, r), "icanon" \in p.t, Len(p.out) + 2 <= QUEUE,
         NEW c \in Ink
  PROVE  Moves(p, r, Gather(p, c), r)
<1> DEFINE x == Seen(p, r)
           l == Append(p.line, c)
           p1 == [p EXCEPT !.line = l]
           q == Echo(p1, c)
<1>1. /\ x \in Rows /\ p.line \in Seq(Ink) /\ p.line \in Seq(Shown) /\ p.out \in Seq(Shown) /\ Ends(p.line, x)
      /\ p \in Ptys /\ c \in Key /\ c \in Shown /\ Cook \subseteq p.t
  BY SeenType, InkShown, Parts DEF Edits, Cooking, Good, Ink, Key, Shown
<1>2. CASE Len(p.line) < LINE - 1
  <2>1. Gather(p, c) = q
    BY <1>2 DEF Gather
  <2>2. Good(p1)
    BY <1>1, <1>2, LineGrows DEF Kept
  <2>3. p1.t = p.t /\ p1.line = l /\ p1.out = p.out
    BY <1>1 DEF Ptys
  <2> HIDE DEF p1
  <2>4. q.t = p.t /\ q.line = l /\ q.out = p.out \o <<c>>
    <3>1. "echo" \in p1.t
      BY <1>1, <2>3 DEF Cook
    <3> QED BY <1>1, <2>2, <2>3, <3>1, EchoIs
  <2>5. Seen(q, r) = Append(x, c)
    <3>1. <<c>> \in Seq(Shown)
      BY <1>1
    <3>2. Seen(q, r) = Shows(x, <<c>>)
      <4>1. Shows(r, p.out \o <<c>>) = Shows(Shows(r, p.out), <<c>>)
        BY <1>1, <3>1, ShowsMore
      <4>2. q.out = p.out \o <<c>>
        BY <2>4
      <4> HIDE DEF q
      <4> QED BY <4>1, <4>2 DEF Seen
    <3>3. c # "bs" /\ c \notin {"cr", "nl"}
      BY DEF Ink
    <3> HIDE DEF x
    <3>4. Shows(x, <<c>>) = Append(x, c)
      BY <1>1, <3>3, ShowsOne DEF Draw
    <3> QED BY <3>2, <3>4
  <2>6. l \in Seq(Ink)
    BY <1>1
  <2> HIDE DEF x, q
  <2>7. Follows(p.line, x, l, Append(x, c))
    BY <1>1, FollowsGrown
  <2>8. Cooking(q)
    BY <1>1, <2>4 DEF Cooking
  <2> HIDE DEF l
  <2> QED BY <2>1, <2>4, <2>5, <2>6, <2>7, <2>8 DEF Moves, x
<1>3. CASE ~(Len(p.line) < LINE - 1)
  <2>1. Gather(p, c) = p
    BY <1>3 DEF Gather
  <2> HIDE DEF x
  <2>2. Follows(p.line, x, p.line, x)
    BY <1>1, FollowsSame
  <2> QED BY <1>1, <2>1, <2>2 DEF Moves, Edits, x
<1> QED BY <1>2, <1>3

\* A key typed at a terminal that keeps up.
LEMMA InputMoves ==
  ASSUME setup \in Setups, NEW p, Good(p), NEW r \in Rows, Edits(p, r), RawEmpty(p), Len(p.out) + 3 * LINE <= QUEUE,
         NEW k \in Key \ {"bell"}
  PROVE  Moves(p, r, Input(p, k), r)
<1> DEFINE c == Typing(p, k)
<1>1. c \in Key /\ c # "bell" /\ ("icrnl" \in p.t => c # "cr")
  BY DEF Typing, Key
<1>2. Len(p.out) + 2 <= QUEUE
  <2>1. LINE \in Nat \ {0} /\ Len(p.out) \in Nat /\ QUEUE \in Nat
    BY Parts, SetupType
  <2>2. \A a, d \in Nat, b \in Nat \ {0} : a + 3 * b <= d => a + 2 <= d
    OBVIOUS
  <2> QED BY <2>1, <2>2
<1> HIDE DEF c
<1>3. CASE Clears(p, Input(p, k), c)
  BY <1>1, <1>2, <1>3, ClearsMoves
<1>4. CASE Input(p, k) \in {Erase(p, 1), Erase(p, Len(p.line)), Erase(p, Word(p.line))}
  <2>1. 1 \in Nat /\ Len(p.line) \in Nat /\ Word(p.line) \in Nat
    BY Parts, WordType
  <2> QED BY <1>4, <2>1, EraseMoves
<1>5. CASE /\ Input(p, k) = Gather(p, c) /\ "icanon" \in p.t
           /\ c \notin {"erase", "kill", "werase", "eof", "nl"} /\ ("isig" \in p.t => c # "intr")
  <2>1. {"icrnl", "isig"} \subseteq p.t
    BY <1>5 DEF Edits, Cooking, Cook
  <2>2. c \in Ink
    BY <1>1, <1>5, <2>1 DEF Key, Control, Ink
  <2> QED BY <1>2, <1>5, <2>2, GatherMoves
<1> QED BY <1>3, <1>4, <1>5, InputIs DEF c

\* A raw terminal holds nothing back, whatever the room.
LEMMA InputRaw ==
  ASSUME setup \in Setups, NEW p, Good(p), RawEmpty(p), NEW k \in Key
  PROVE  RawEmpty(Input(p, k))
<1> DEFINE c == Typing(p, k)
           q == Input(p, k)
<1>1. CASE Clears(p, q, c)
  BY <1>1 DEF Clears, RawEmpty
<1>2. CASE q \in {Erase(p, 1), Erase(p, Len(p.line)), Erase(p, Word(p.line))}
  <2>1. 1 \in Nat /\ Len(p.line) \in Nat /\ Word(p.line) \in Nat
    BY Parts, WordType
  <2>2. PICK n \in Nat : q = Erase(p, n)
    BY <1>2, <2>1
  <2>3. PICK j \in 0 .. Len(p.line) : q.t = p.t /\ q.line = SubSeq(p.line, 1, Len(p.line) - j)
    BY <2>2, EraseIs
  <2>4. p.line = <<>> => q.line = <<>>
    <3> DEFINE n1 == Len(p.line) - j
    <3>1. p.line = <<>> => n1 = 0
      OBVIOUS
    <3>2. p.line \in Seq(Key)
      BY Parts
    <3> HIDE DEF n1, q
    <3>3. p.line = <<>> => SubSeq(p.line, 1, n1) = <<>>
      BY <3>1, <3>2
    <3> QED BY <2>3, <3>3 DEF n1
  <2> QED BY <2>3, <2>4 DEF RawEmpty
<1>3. CASE q = Gather(p, c) /\ "icanon" \in p.t
  <2> DEFINE p1 == [p EXCEPT !.line = Append(@, c)]
  <2>1. p \in Ptys /\ c \in Key
    BY DEF Good, Typing, Key
  <2>2. Len(p.line) < LINE - 1 => Good(p1)
    BY <2>1, LineGrows DEF Kept
  <2>3. p1.t = p.t
    BY <2>1 DEF Ptys
  <2> HIDE DEF p1
  <2>4. Len(p.line) < LINE - 1 => Echo(p1, c).t = p.t
    BY <2>1, <2>2, <2>3, EchoIs
  <2>5. q = IF Len(p.line) < LINE - 1 THEN Echo(p1, c) ELSE p
    BY <1>3 DEF Gather, p1
  <2> HIDE DEF q
  <2>6. q.t = p.t
    BY <2>4, <2>5
  <2> QED BY <1>3, <2>6 DEF RawEmpty, q
<1> QED BY <1>1, <1>2, <1>3, InputIs
----------------------------------------------------------------------------
(* What each terminal's line, row and writes are, through every step.      *)

\* The terminals the theorems are about.  Where what is typed is followed on the
\* screen, nobody else writes there, no key stays in a line that is echoed as two
\* characters and rubbed out as one (echo, erase_one), and a terminal that edits
\* lines echoes them.  Where what is written is, no newline is: with one place left
\* in the queue its second character is dropped (pty_write, out_put).
Plain(s) ==
  /\ "type" \in s.Does /\ "flood" \notin s.Does =>
       /\ "write" \notin s.Does /\ "bell" \notin s.Keys
       /\ \A t \in s.Terms : "icanon" \in t => Cook \subseteq t
  /\ "type" \notin s.Does => "nl" \notin s.Written

\* A writer writes what it may.
Writes(call) == call.op = "swrite" => "write" \in Does /\ call.left \in Seq(setup.Written)

\* What was written is read, or on its way.
Wrote(p, g, s) ==
  "type" \notin Does => ("write" \notin Does => p.out = <<>>) /\ (p # NoPty => g \o p.out = s)

LineInv ==
  /\ PtyInv /\ Plain(setup)
  /\ row \in [Slots -> Rows] /\ sent \in [Slots -> Rows] /\ got \in [Slots -> Rows]
  /\ \A c \in Callers : Writes(calls[c])
  /\ \A n \in Slots :
       RawEmpty(ptys[n]) /\ (KeepsUp => Edits(ptys[n], row[n])) /\ Wrote(ptys[n], got[n], sent[n])

\* Terminal p, with row r, becomes q with row s.
Goes(p, r, q, s) ==
  RawEmpty(q) /\ (KeepsUp => Edits(q, s) /\ (q = NoPty \/ Follows(p.line, Seen(p, r), q.line, Seen(q, s))))

\* What a step does to them all.
Turned ==
  /\ row' \in [Slots -> Rows] /\ sent' \in [Slots -> Rows] /\ got' \in [Slots -> Rows]
  /\ \A c \in Callers : Writes(calls'[c])
  /\ \A n \in Slots : Goes(ptys[n], row[n], ptys'[n], row'[n]) /\ Wrote(ptys'[n], got'[n], sent'[n])

LEMMA MovesGoes ==
  ASSUME NEW p, NEW r, NEW q, NEW s, RawEmpty(q), KeepsUp => Moves(p, r, q, s)
  PROVE  Goes(p, r, q, s)
BY DEF Goes, Moves, Edits, Follows

LEMMA NoneEdits == ASSUME NEW r \in Rows PROVE RawEmpty(NoPty) /\ RawEmpty(NewPty) /\ Edits(NoPty, r) /\ Edits(NewPty, r)
<1> DEFINE e == <<>>
<1>1. e \in Seq(Ink) /\ e \in Seq(Shown) /\ Len(e) = 0 /\ Cook \subseteq Cooked /\ "icanon" \in Cooked
  BY DEF Cook, Cooked
<1>2. NoPty.t = Cooked /\ NoPty.line = e /\ NoPty.out = e
  BY DEF NoPty
<1>3. NewPty.t = Cooked /\ NewPty.line = e /\ NewPty.out = e
  <2> DEFINE none == NoPty
             yes == TRUE
  <2>1. NewPty = [none EXCEPT !.masters = 1, !.locked = yes]
    BY DEF NewPty
  <2>2. none = [masters |-> none.masters, slaves |-> none.slaves, opened |-> none.opened, locked |-> none.locked,
                eof |-> none.eof, pgrp |-> none.pgrp, sid |-> none.sid, t |-> none.t,
                in |-> none.in, out |-> none.out, line |-> none.line]
    BY DEF NoPty
  <2>3. none.t = Cooked /\ none.line = e /\ none.out = e
    BY <1>2
  <2> HIDE DEF none, e, yes
  <2> QED BY <2>1, <2>2, <2>3
<1> HIDE DEF e
<1>4. Shows(r, e) = r
  BY ShowsNone DEF e
<1>5. Len(r) \in Nat
  BY DEF Rows
<1>6. Ends(e, r)
  BY <1>1, <1>5 DEF Ends
<1>7. RawEmpty(NoPty) /\ RawEmpty(NewPty)
  BY <1>1, <1>2, <1>3 DEF RawEmpty
<1> QED BY <1>1, <1>2, <1>3, <1>4, <1>6, <1>7 DEF Edits, Seen, Cooking

\* A terminal the line and row of which a step leaves alone, or that is closed.
Alike(p, q) == q = NoPty \/ (p # NoPty /\ q.t = p.t /\ q.out = p.out /\ q.line = p.line)

LEMMA LineParts ==
  ASSUME LineInv, NEW n \in Slots
  PROVE  /\ setup \in Setups /\ Good(ptys[n]) /\ ptys[n] \in Ptys /\ row[n] \in Rows /\ sent[n] \in Rows /\ got[n] \in Rows
         /\ RawEmpty(ptys[n]) /\ (KeepsUp => Edits(ptys[n], row[n])) /\ Wrote(ptys[n], got[n], sent[n])
         /\ Seen(ptys[n], row[n]) \in Rows
<1>1. setup \in Setups /\ Good(ptys[n]) /\ row[n] \in Rows
  BY GoodThere DEF LineInv, PtyInv, Typed
<1>2. Seen(ptys[n], row[n]) \in Rows
  BY <1>1, SeenType
<1> QED BY <1>1, <1>2 DEF LineInv, Good

LEMMA AlikeGoes ==
  ASSUME LineInv, NEW n \in Slots, NEW q, Alike(ptys[n], q)
  PROVE  Goes(ptys[n], row[n], q, row[n]) /\ Wrote(q, got[n], sent[n])
<1> DEFINE p == ptys[n]
           r == row[n]
<1>1. /\ r \in Rows /\ RawEmpty(p) /\ (KeepsUp => Edits(p, r)) /\ Wrote(p, got[n], sent[n]) /\ Seen(p, r) \in Rows
  BY LineParts
<1>2. CASE q = NoPty
  <2>1. RawEmpty(q) /\ Edits(q, r) /\ q.out = <<>>
    BY <1>1, <1>2, NoneEdits DEF NoPty
  <2> QED BY <1>2, <2>1 DEF Goes, Wrote
<1>3. CASE p # NoPty /\ q.t = p.t /\ q.out = p.out /\ q.line = p.line
  <2> HIDE DEF p, r
  <2>1. RawEmpty(q) /\ (KeepsUp => Edits(q, r)) /\ Seen(q, r) = Seen(p, r)
    BY <1>1, <1>3 DEF RawEmpty, Edits, Cooking, Seen
  <2>2. KeepsUp => Follows(p.line, Seen(p, r), p.line, Seen(p, r))
    <3> SUFFICES ASSUME KeepsUp PROVE Follows(p.line, Seen(p, r), p.line, Seen(p, r))
      OBVIOUS
    <3>1. p.line \in Seq(Ink) /\ Ends(p.line, Seen(p, r))
      BY <1>1 DEF Edits
    <3>2. p.line \in Seq(Shown)
      BY <3>1, InkShown
    <3> QED BY <1>1, <3>1, <3>2, FollowsSame
  <2>3. Wrote(q, got[n], sent[n])
    BY <1>1, <1>3 DEF Wrote
  <2> QED BY <1>3, <2>1, <2>2, <2>3 DEF Goes, p, r
<1> QED BY <1>2, <1>3 DEF Alike

LEMMA SameWrites == ASSUME LineInv, UNCHANGED calls PROVE \A c \in Callers : Writes(calls'[c])
BY DEF LineInv

LEMMA CallWrites ==
  ASSUME LineInv, NEW c \in Callers, NEW call, Writes(call), calls' = [calls EXCEPT ![c] = call]
  PROVE  \A d \in Callers : Writes(calls'[d])
<1>1. calls \in [Callers -> {Idle} \union Waits] /\ \A d \in Callers : Writes(calls[d])
  BY DEF LineInv, PtyInv, CallsTrue
<1> SUFFICES ASSUME NEW d \in Callers PROVE Writes(calls'[d])
  OBVIOUS
<1>2. calls'[d] = IF d = c THEN call ELSE calls[d]
  BY <1>1
<1> QED BY <1>1, <1>2

LEMMA IdleWrites == Writes(Idle)
BY DEF Writes, Idle

LEMMA ReturnWrites == ASSUME LineInv, NEW c \in Callers, Return(c) PROVE \A d \in Callers : Writes(calls'[d])
BY CallWrites, IdleWrites DEF Return

\* Every terminal is as it was, or closed.
LEMMA AlikeTurned ==
  ASSUME LineInv, UNCHANGED ghosts, \A c \in Callers : Writes(calls'[c]),
         \A n \in Slots : Alike(ptys[n], ptys'[n])
  PROVE  Turned
<1>1. UNCHANGED <<row, sent, got>>
  BY DEF ghosts
<1>2. row \in [Slots -> Rows] /\ sent \in [Slots -> Rows] /\ got \in [Slots -> Rows]
  BY DEF LineInv
<1>3. ASSUME NEW n \in Slots PROVE Goes(ptys[n], row[n], ptys'[n], row'[n]) /\ Wrote(ptys'[n], got'[n], sent'[n])
  BY <1>1, AlikeGoes
<1> QED BY <1>1, <1>2, <1>3 DEF Turned

LEMMA SameAlike == ASSUME LineInv, NEW n \in Slots PROVE Alike(ptys[n], ptys[n])
BY DEF Alike

\* One terminal becomes q, with row s, and so much sent and got.
LEMMA OneTurned ==
  ASSUME LineInv, \A c \in Callers : Writes(calls'[c]), NEW m \in Slots, NEW q, ptys' = [ptys EXCEPT ![m] = q],
         NEW s \in Rows, row' = [row EXCEPT ![m] = s],
         NEW w \in Rows, sent' = [sent EXCEPT ![m] = w], NEW g \in Rows, got' = [got EXCEPT ![m] = g],
         Goes(ptys[m], row[m], q, s), Wrote(q, g, w)
  PROVE  Turned
<1>1. ptys \in [Slots -> Ptys] /\ row \in [Slots -> Rows] /\ sent \in [Slots -> Rows] /\ got \in [Slots -> Rows]
  BY DEF LineInv, PtyInv, Typed
<1>2. row' \in [Slots -> Rows] /\ sent' \in [Slots -> Rows] /\ got' \in [Slots -> Rows]
  BY <1>1
<1>3. ASSUME NEW n \in Slots PROVE Goes(ptys[n], row[n], ptys'[n], row'[n]) /\ Wrote(ptys'[n], got'[n], sent'[n])
  <2>1. CASE n = m
    <3>1. ptys'[n] = q /\ row'[n] = s /\ got'[n] = g /\ sent'[n] = w
      BY <1>1, <2>1
    <3> QED BY <2>1, <3>1
  <2>2. CASE n # m
    <3>1. ptys'[n] = ptys[n] /\ row'[n] = row[n] /\ got'[n] = got[n] /\ sent'[n] = sent[n]
      BY <1>1, <2>2
    <3> QED BY <3>1, SameAlike, AlikeGoes
  <2> QED BY <2>1, <2>2
<1> QED BY <1>2, <1>3 DEF Turned

\* The same, when nothing is drawn, sent or got.
LEMMA QuietTurned ==
  ASSUME LineInv, \A c \in Callers : Writes(calls'[c]), NEW m \in Slots, NEW q, ptys' = [ptys EXCEPT ![m] = q],
         UNCHANGED ghosts, Goes(ptys[m], row[m], q, row[m]), Wrote(q, got[m], sent[m])
  PROVE  Turned
<1>1. row \in [Slots -> Rows] /\ sent \in [Slots -> Rows] /\ got \in [Slots -> Rows]
  BY DEF LineInv
<1>2. row' = [row EXCEPT ![m] = row[m]] /\ sent' = [sent EXCEPT ![m] = sent[m]] /\ got' = [got EXCEPT ![m] = got[m]]
  BY <1>1 DEF ghosts
<1>3. row[m] \in Rows /\ sent[m] \in Rows /\ got[m] \in Rows
  BY <1>1
<1> QED BY <1>2, <1>3, OneTurned

LEMMA QuietAlike ==
  ASSUME LineInv, \A c \in Callers : Writes(calls'[c]), NEW m \in Slots, NEW q, ptys' = [ptys EXCEPT ![m] = q],
         UNCHANGED ghosts, Alike(ptys[m], q)
  PROVE  Turned
BY AlikeGoes, QuietTurned
----------------------------------------------------------------------------
(* The steps, one by one: reads and writes.                                *)

LEMMA CutAt ==
  ASSUME NEW A, NEW s \in Seq(A), NEW k \in 0 .. Len(s)
  PROVE  /\ SubSeq(s, 1, k) \in Seq(A) /\ Len(SubSeq(s, 1, k)) = k
         /\ SubSeq(s, k + 1, Len(s)) \in Seq(A)
         /\ SubSeq(s, 1, k) \o SubSeq(s, k + 1, Len(s)) = s
<1> DEFINE l == Len(s)
           a == SubSeq(s, 1, k)
           b == SubSeq(s, k + 1, l)
<1>1. l \in Nat /\ \A i \in 1 .. l : s[i] \in A
  OBVIOUS
<1>2. a \in Seq(A) /\ Len(a) = k /\ \A i \in 1 .. k : a[i] = s[i]
  BY <1>1
<1>3. b \in Seq(A) /\ Len(b) = l - k /\ \A i \in 1 .. l - k : b[i] = s[k + i]
  <2>1. CASE k = l
    <3>1. b = <<>>
      BY <1>1, <2>1
    <3> QED BY <1>1, <2>1, <3>1
  <2>2. CASE k # l
    <3> DEFINE j == k + 1
    <3>1. j \in 1 .. l /\ k \in Nat
      BY <1>1, <2>2
    <3>2. /\ SubSeq(s, j, l) \in Seq(A) /\ Len(SubSeq(s, j, l)) = l - j + 1
          /\ \A i \in 1 .. l - j + 1 : SubSeq(s, j, l)[i] = s[j + i - 1]
      <4> HIDE DEF j
      <4> QED BY <1>1, <3>1
    <3>3. l - j + 1 = l - k /\ \A i \in 1 .. l - k : j + i - 1 = k + i
      BY <1>1, <3>1
    <3> QED BY <3>2, <3>3
  <2> QED BY <2>1, <2>2
<1> HIDE DEF a, b
<1>4. a \o b \in Seq(A) /\ Len(a \o b) = l
  <2>1. Len(a \o b) = Len(a) + Len(b) /\ a \o b \in Seq(A)
    BY <1>2, <1>3, ConcatIs
  <2> QED BY <1>1, <1>2, <1>3, <2>1
<1>5. ASSUME NEW i \in 1 .. l PROVE (a \o b)[i] = s[i]
  <2>1. (a \o b)[i] = IF i <= k THEN a[i] ELSE b[i - k]
    <3>1. i \in 1 .. Len(a) + Len(b)
      BY <1>1, <1>2, <1>3
    <3>2. (a \o b)[i] = IF i <= Len(a) THEN a[i] ELSE b[i - Len(a)]
      BY <1>2, <1>3, <3>1, ConcatAt
    <3> QED BY <1>2, <3>2
  <2>2. CASE i <= k
    BY <1>2, <2>1, <2>2
  <2>3. CASE ~(i <= k)
    <3>1. i - k \in 1 .. l - k /\ k + (i - k) = i
      BY <1>1, <2>3
    <3> QED BY <1>3, <2>1, <2>3, <3>1
  <2> QED BY <2>2, <2>3
<1>6. a \o b = s
  BY <1>1, <1>4, <1>5, AgreeSame DEF Agree
<1> QED BY <1>2, <1>3, <1>6 DEF a, b

LEMMA ConcatSame ==
  ASSUME NEW A, NEW a \in Seq(A), NEW b \in Seq(A), NEW c \in Seq(A)
  PROVE  (a \o b) \o c = a \o (b \o c)
<1> DEFINE x == (a \o b) \o c
           y == a \o (b \o c)
           l == Len(a)
           m == Len(b)
           k == Len(c)
<1>1. l \in Nat /\ m \in Nat /\ k \in Nat
  OBVIOUS
<1>2. a \o b \in Seq(A) /\ Len(a \o b) = l + m
  BY ConcatIs
<1>3. b \o c \in Seq(A) /\ Len(b \o c) = m + k
  BY ConcatIs
<1>4. x \in Seq(A) /\ Len(x) = l + m + k
  BY <1>2, ConcatIs
<1>5. y \in Seq(A) /\ Len(y) = l + (m + k)
  BY <1>3, ConcatIs
<1>6. ASSUME NEW i \in 1 .. l + m + k PROVE x[i] = y[i]
  <2> DEFINE ab == a \o b
             bc == b \o c
  <2>1. x[i] = IF i <= l + m THEN ab[i] ELSE c[i - (l + m)]
    <3>1. i \in 1 .. Len(ab) + Len(c)
      BY <1>2
    <3>2. ab \in Seq(A) /\ x = ab \o c
      BY <1>2
    <3> HIDE DEF ab, x
    <3>3. (ab \o c)[i] = IF i <= Len(ab) THEN ab[i] ELSE c[i - Len(ab)]
      BY <3>1, <3>2, ConcatAt
    <3>4. x[i] = IF i <= Len(ab) THEN ab[i] ELSE c[i - Len(ab)]
      BY <3>2, <3>3
    <3> QED BY <1>2, <3>4 DEF ab
  <2>2. y[i] = IF i <= l THEN a[i] ELSE bc[i - l]
    <3>1. i \in 1 .. Len(a) + Len(bc)
      BY <1>1, <1>3
    <3>2. bc \in Seq(A) /\ y = a \o bc
      BY <1>3
    <3> HIDE DEF bc, y
    <3>3. (a \o bc)[i] = IF i <= Len(a) THEN a[i] ELSE bc[i - Len(a)]
      BY <3>1, <3>2, ConcatAt
    <3> QED BY <3>2, <3>3
  <2>3. CASE i <= l
    <3>1. i \in 1 .. l + m
      BY <1>1, <2>3
    <3>2. ab[i] = a[i]
      BY <2>3, <3>1, ConcatAt
    <3> HIDE DEF x, y, ab, bc
    <3> QED BY <1>1, <2>1, <2>2, <2>3, <3>1, <3>2
  <2>4. CASE ~(i <= l) /\ i <= l + m
    <3>1. i \in 1 .. l + m /\ i - l \in 1 .. m + k /\ i - l <= m
      BY <1>1, <2>4
    <3>2. ab[i] = b[i - l]
      BY <2>4, <3>1, ConcatAt
    <3>3. bc[i - l] = b[i - l]
      <4> DEFINE j == i - l
      <4>1. j \in 1 .. Len(b) + Len(c) /\ j <= Len(b)
        BY <3>1
      <4> HIDE DEF j
      <4>2. bc[j] = b[j]
        BY <4>1, ConcatAt
      <4> QED BY <4>2 DEF j
    <3> HIDE DEF x, y, ab, bc
    <3> QED BY <2>1, <2>2, <2>4, <3>2, <3>3
  <2>5. CASE ~(i <= l + m)
    <3>1. ~(i <= l) /\ i - l \in 1 .. m + k /\ ~(i - l <= m) /\ (i - l) - m = i - (l + m)
      BY <1>1, <2>5
    <3>2. bc[i - l] = c[(i - l) - m]
      <4> DEFINE j == i - l
      <4>1. j \in 1 .. Len(b) + Len(c) /\ ~(j <= Len(b))
        BY <3>1
      <4> HIDE DEF j
      <4>2. bc[j] = c[j - Len(b)]
        BY <4>1, ConcatAt
      <4> QED BY <4>2 DEF j
    <3> HIDE DEF x, y, ab, bc
    <3> QED BY <2>1, <2>2, <2>5, <3>1, <3>2
  <2> QED BY <2>3, <2>4, <2>5
<1> HIDE DEF x, y
<1>7. Len(x) = Len(y) /\ \A i \in 1 .. Len(x) : x[i] = y[i]
  BY <1>1, <1>4, <1>5, <1>6
<1>8. x = y
  BY <1>4, <1>5, <1>7, AgreeSame DEF Agree
<1> QED BY <1>8 DEF x, y

LEMMA TextSame ==
  ASSUME NEW a \in Seq(Shown), NEW b \in Seq(Shown), NEW c \in Seq(Shown)
  PROVE  (a \o b) \o c = a \o (b \o c)
<1> DEFINE A == Shown
<1>1. a \in Seq(A) /\ b \in Seq(A) /\ c \in Seq(A)
  OBVIOUS
<1> HIDE DEF A
<1> QED BY <1>1, ConcatSame

LEMMA WaitForTurned ==
  ASSUME LineInv, NEW c \in Callers, NEW call, Writes(call), WaitFor(c, call)
  PROVE  Turned
<1>1. \A d \in Callers : Writes(calls'[d])
  BY CallWrites, ReturnWrites DEF WaitFor
<1>2. UNCHANGED <<ptys, ghosts>>
  BY DEF WaitFor
<1>3. \A n \in Slots : Alike(ptys[n], ptys'[n])
  BY <1>2, SameAlike
<1> QED BY <1>1, <1>2, <1>3, AlikeTurned

LEMMA MasterReadTurned ==
  ASSUME LineInv, NEW c \in Callers, NEW call, Made(c, call), Writes(call), MasterRead(c, call)
  PROVE  Turned
<1> DEFINE n == call.pty
           p == ptys[n]
           r == row[n]
           k == IF call.count < Len(p.out) THEN call.count ELSE Len(p.out)
           cs == SubSeq(p.out, 1, k)
           s == SubSeq(p.out, k + 1, Len(p.out))
           q == [p EXCEPT !.out = s]
           x == Shows(r, cs)
           g == IF "write" \in Does THEN got[n] \o cs ELSE got[n]
<1>1. PtyInv /\ n \in Slots /\ InUse(n) /\ call.count \in Nat
  BY MadeIsOpen DEF LineInv
<1>2. /\ setup \in Setups /\ Good(p) /\ p \in Ptys /\ r \in Rows /\ sent[n] \in Rows /\ got[n] \in Rows
      /\ RawEmpty(p) /\ (KeepsUp => Edits(p, r)) /\ Wrote(p, got[n], sent[n]) /\ Seen(p, r) \in Rows
  BY <1>1, LineParts
<1>3. CASE ~MasterCanRead(p)
  BY <1>3, WaitForTurned DEF MasterRead
<1>4. CASE MasterCanRead(p)
  <2>1. /\ ptys' = [ptys EXCEPT ![n] = q] /\ Return(c) /\ UNCHANGED sent
        /\ row' = [row EXCEPT ![n] = x]
        /\ got' = IF "write" \in Does THEN [got EXCEPT ![n] = got[n] \o cs] ELSE got
    BY <1>4 DEF MasterRead, Drawn, Shows
  <2>2. p.out \in Seq(Shown) /\ k \in 0 .. Len(p.out)
    BY <1>1, <1>2, Parts
  <2>3. cs \in Seq(Shown) /\ s \in Seq(Shown) /\ cs \o s = p.out
    <3> HIDE DEF k
    <3> QED BY <2>2, CutAt
  <2>4. q.t = p.t /\ q.line = p.line /\ q.out = s
    <3> HIDE DEF s
    <3> QED BY <1>2 DEF Ptys
  <2> HIDE DEF cs, s
  <2>5. x \in Rows
    BY <1>2, <2>3, ShowsType
  <2>6. Seen(q, x) = Seen(p, r)
    <3>1. Shows(r, cs \o s) = Shows(x, s)
      <4> HIDE DEF p, r
      <4> QED BY <1>2, <2>3, ShowsMore
    <3> HIDE DEF p, q, r, x
    <3> QED BY <2>3, <2>4, <3>1 DEF Seen
  <2>7. got' = [got EXCEPT ![n] = g] /\ sent' = [sent EXCEPT ![n] = sent[n]] /\ g \in Rows
    <3>1. got \in [Slots -> Rows] /\ sent \in [Slots -> Rows]
      BY DEF LineInv
    <3>2. got[n] \o cs \in Rows
      BY <1>2, <2>3, ConcatIs DEF Rows
    <3> QED BY <1>1, <1>2, <2>1, <3>1, <3>2
  <2>8. Goes(p, r, q, x)
    <3> HIDE DEF x, q, p, r
    <3>1. RawEmpty(q) /\ (KeepsUp => Edits(q, x))
      BY <1>2, <2>4, <2>6 DEF RawEmpty, Edits, Cooking
    <3>2. KeepsUp => Follows(p.line, Seen(p, r), q.line, Seen(q, x))
      BY <1>2, <2>4, <2>6, InkShown, FollowsSame DEF Edits
    <3> QED BY <3>1, <3>2 DEF Goes
  <2>9. Wrote(q, g, sent[n])
    <3>1. CASE "write" \in Does
      <4>1. (got[n] \o cs) \o s = got[n] \o p.out
        <5> DEFINE a == got[n]
        <5>1. a \in Seq(Shown)
          BY <1>2 DEF Rows
        <5> HIDE DEF a
        <5>2. (a \o cs) \o s = a \o (cs \o s)
          BY <2>3, <5>1, TextSame
        <5> DEFINE b == cs \o s
                   o == p.out
        <5>3. b = o /\ (a \o cs) \o s = a \o b
          BY <2>3, <5>2
        <5> HIDE DEF b, o
        <5>4. (a \o cs) \o s = a \o o
          BY <5>3
        <5> QED BY <5>4 DEF a, o
      <4>2. p # NoPty
        BY <1>1 DEF InUse
      <4> QED BY <1>2, <2>4, <3>1, <4>1, <4>2 DEF Wrote
    <3>2. CASE "write" \notin Does
      <4>1. SUFFICES ASSUME "type" \notin Does PROVE q.out = <<>> /\ got[n] \o q.out = sent[n]
        BY <3>2 DEF Wrote
      <4>2. p.out = <<>> /\ got[n] \o p.out = sent[n]
        BY <1>1, <1>2, <3>2, <4>1 DEF Wrote, InUse
      <4>3. s = <<>>
        <5>1. Len(cs \o s) = Len(cs) + Len(s) /\ Len(cs) \in Nat /\ Len(s) \in Nat
          BY <2>3, ConcatIs
        <5>2. Len(cs \o s) = 0
          BY <2>3, <4>2
        <5>3. Len(s) = 0
          BY <5>1, <5>2
        <5> QED BY <2>3, <5>3
      <4> QED BY <2>4, <4>2, <4>3
    <3> QED BY <3>1, <3>2
  <2>10. \A d \in Callers : Writes(calls'[d])
    BY <2>1, ReturnWrites
  <2> HIDE DEF n, p, q, r, x, g
  <2> QED BY <1>1, <1>2, <2>1, <2>5, <2>7, <2>8, <2>9, <2>10, OneTurned DEF p, r
<1> QED BY <1>3, <1>4

LEMMA SlaveReadTurned ==
  ASSUME LineInv, NEW c \in Callers, NEW call, Made(c, call), Writes(call), SlaveRead(c, call)
  PROVE  Turned
<1> DEFINE n == call.pty
           p == ptys[n]
           no == FALSE
           s == SubSeq(p.in, Taken(p, call.count) + 1, Len(p.in))
           q1 == [p EXCEPT !.eof = no]
           q2 == [p EXCEPT !.in = s]
           q == IF p.in = <<>> THEN q1 ELSE q2
<1>1. PtyInv /\ n \in Slots /\ InUse(n) /\ p \in Ptys
  BY MadeIsOpen DEF LineInv, Good
<1>2. CASE ~SlaveCanRead(p)
  BY <1>2, WaitForTurned DEF SlaveRead
<1>3. CASE SlaveCanRead(p)
  <2>1. ptys' = [ptys EXCEPT ![n] = q] /\ Return(c) /\ UNCHANGED ghosts
    BY <1>3 DEF SlaveRead
  <2>2. Alike(p, q1)
    <3> HIDE DEF no
    <3> QED BY <1>1 DEF Alike, InUse, Ptys
  <2>3. Alike(p, q2)
    <3> HIDE DEF s
    <3> QED BY <1>1 DEF Alike, InUse, Ptys
  <2>4. \A d \in Callers : Writes(calls'[d])
    BY <2>1, ReturnWrites
  <2>5. Alike(p, q)
    BY <2>2, <2>3
  <2> HIDE DEF n, q
  <2> QED BY <1>1, <2>1, <2>4, <2>5, QuietAlike
<1> QED BY <1>2, <1>3

LEMMA PutsFit ==
  ASSUME setup \in Setups, NEW p, Good(p), NEW cs \in Seq(Key \ {"nl"})
  PROVE  Len(p.out) + Puts(p, cs) <= QUEUE
<1> DEFINE Size(i) == Len(p.out) + Len(Expansion(p, SubSeq(cs, 1, i)))
           S == {i \in 0 .. Len(cs) : i = 0 \/ Size(i - 1) < QUEUE}
           k == Puts(p, cs)
           o == Len(p.out)
           b == QUEUE
<1>1. o \in Nat /\ b \in Nat /\ o <= b
  BY Parts
<1>2. S \subseteq 0 .. Len(cs) /\ S # {} /\ Len(cs) \in Nat
  <2>1. 0 \in 0 .. Len(cs) /\ Len(cs) \in Nat
    OBVIOUS
  <2> HIDE DEF Size
  <2>2. 0 \in S
    BY <2>1
  <2> QED BY <2>1, <2>2
<1>3. k = Max(S)
  BY DEF Puts
<1>4. k \in S
  <2> HIDE DEF S, k
  <2> QED BY <1>2, <1>3, MaxIn
<1>5. k \in 0 .. Len(cs) /\ (k = 0 \/ Size(k - 1) < b)
  <2> HIDE DEF Size, k
  <2> QED BY <1>4
<1>6. CASE k = 0
  <2> HIDE DEF k, o, b
  <2>1. o + k <= b
    BY <1>1, <1>6
  <2> QED BY <2>1 DEF k, o, b
<1>7. CASE k # 0
  <2> DEFINE j == k - 1
  <2>1. j \in 0 .. Len(cs) /\ k = j + 1 /\ j \in Nat /\ Size(j) < b
    <3> HIDE DEF Size, k
    <3> QED BY <1>2, <1>5, <1>7
  <2> HIDE DEF j, k
  <2>2. SubSeq(cs, 1, j) \in Seq(Key \ {"nl"}) /\ Len(SubSeq(cs, 1, j)) = j
    BY <2>1, CutAt
  <2>3. Expansion(p, SubSeq(cs, 1, j)) = SubSeq(cs, 1, j)
    BY <2>2, ExpansionIs
  <2>4. Size(j) = o + j
    BY <2>2, <2>3
  <2> HIDE DEF Size, o, b
  <2>5. o + k <= b
    BY <1>1, <2>1, <2>4
  <2> QED BY <2>5 DEF k, o, b
<1> QED BY <1>6, <1>7

LEMMA SlaveWriteTurned ==
  ASSUME LineInv, NEW c \in Callers, NEW call, Made(c, call), call.op = "swrite", Writes(call), SlaveWrite(c, call)
  PROVE  Turned
<1> DEFINE n == call.pty
           p == ptys[n]
           r == row[n]
           k == Puts(p, call.left)
           now == SubSeq(call.left, 1, k)
           then == SubSeq(call.left, k + 1, Len(call.left))
           rest == [call EXCEPT !.left = then]
           cs == Expansion(p, now)
           q == OutPut(p, cs)
           w == sent[n] \o cs
<1>1. PtyInv /\ n \in Slots /\ InUse(n) /\ call.left \in Seq(Key) /\ call \in Waits
  BY MadeIsOpen DEF LineInv, Made
<1>2. /\ setup \in Setups /\ Good(p) /\ p \in Ptys /\ r \in Rows /\ sent[n] \in Rows /\ got[n] \in Rows
      /\ RawEmpty(p) /\ Wrote(p, got[n], sent[n])
  BY <1>1, LineParts
<1>3. "write" \in Does /\ ~KeepsUp /\ call.left \in Seq(setup.Written)
  BY DEF Writes, LineInv, Plain, KeepsUp, Does
<1>4. CASE p.masters = 0
  <2>1. \A d \in Callers : Writes(calls'[d])
    BY <1>4, ReturnWrites DEF SlaveWrite
  <2>2. UNCHANGED <<ptys, ghosts>>
    BY <1>4 DEF SlaveWrite
  <2> QED BY <2>1, <2>2, SameAlike, AlikeTurned
<1>5. CASE p.masters # 0
  <2>1. /\ ptys' = [ptys EXCEPT ![n] = q] /\ (Return(c) \/ calls' = [calls EXCEPT ![c] = rest])
        /\ sent' = [sent EXCEPT ![n] = w] /\ UNCHANGED <<row, got>>
    BY <1>5 DEF SlaveWrite
  <2>2. k \in 0 .. Len(call.left)
    BY <1>1, PutsType
  <2>3. now \in Seq(Key) /\ Len(now) = k /\ then \in Seq(setup.Written)
    <3> HIDE DEF k
    <3> QED BY <1>1, <1>3, <2>2, CutAt
  <2>4. cs \in Seq(Shown)
    <3> HIDE DEF now
    <3> QED BY <2>3, ExpansionType
  <2>5. q.t = p.t /\ q.line = p.line /\ (Len(p.out) + Len(cs) <= QUEUE => q.out = p.out \o cs)
    <3> HIDE DEF cs
    <3> QED BY <1>2, <2>4, OutPutIs
  <2>6. \A d \in Callers : Writes(calls'[d])
    <3>1. Writes(rest)
      <4> HIDE DEF then
      <4>1. rest.left = then
        BY <1>1 DEF Waits
      <4> QED BY <1>3, <2>3, <4>1 DEF Writes
    <3> HIDE DEF rest
    <3> QED BY <2>1, <3>1, ReturnWrites, CallWrites
  <2>7. w \in Rows
    BY <1>2, <2>4, ConcatIs DEF Rows
  <2>8. Goes(p, r, q, r)
    <3> HIDE DEF p, q, r
    <3> QED BY <1>2, <1>3, <2>5 DEF Goes, RawEmpty
  <2>9. Wrote(q, got[n], w)
    <3> SUFFICES ASSUME "type" \notin Does PROVE got[n] \o q.out = w
      BY <1>3 DEF Wrote
    <3>1. setup.Written \subseteq Key \ {"nl"}
      BY <1>2, SetupType DEF LineInv, Plain, Does
    <3>2. call.left \in Seq(Key \ {"nl"})
      <4>1. \A i \in 1 .. Len(call.left) : call.left[i] \in Key \ {"nl"}
        BY <1>3, <3>1
      <4> QED BY <1>3, <4>1
    <3>3. Len(p.out) + k <= QUEUE
      BY <1>2, <3>2, PutsFit
    <3>4. now \in Seq(Key \ {"nl"})
      <4> HIDE DEF k
      <4> QED BY <2>2, <3>2, CutAt
    <3>5. cs = now
      <4> HIDE DEF now
      <4> QED BY <3>4, ExpansionIs
    <3>6. q.out = p.out \o cs
      <4>1. Len(cs) = k
        BY <2>3, <3>5
      <4>2. Len(p.out) + Len(cs) <= QUEUE
        BY <3>3, <4>1
      <4> QED BY <2>5, <4>2
    <3> DEFINE g == got[n]
               o == p.out
               x == sent[n]
    <3>7. g \in Seq(Shown) /\ o \in Seq(Shown) /\ g \o o = x /\ q.out = o \o cs
      BY <1>1, <1>2, <3>6, Parts DEF Wrote, InUse, Rows
    <3> HIDE DEF g, o, x, cs, q
    <3>8. (g \o o) \o cs = g \o (o \o cs)
      BY <2>4, <3>7, TextSame
    <3>9. g \o q.out = x \o cs
      BY <3>7, <3>8
    <3> QED BY <3>9 DEF g, x
  <2>10. row' = [row EXCEPT ![n] = r] /\ got' = [got EXCEPT ![n] = got[n]]
    <3>1. row \in [Slots -> Rows] /\ got \in [Slots -> Rows]
      BY DEF LineInv
    <3> QED BY <1>1, <2>1, <3>1
  <2> HIDE DEF n, p, q, r, w
  <2> QED BY <1>1, <1>2, <2>1, <2>6, <2>7, <2>8, <2>9, <2>10, OneTurned DEF p, r
<1> QED BY <1>4, <1>5

LEMMA CarryOnTurned ==
  ASSUME LineInv, NEW c \in Callers, NEW call, Made(c, call), Writes(call), CarryOn(c, call)
  PROVE  Turned
<1>1. call.op \in {"mread", "sread", "swrite"}
  BY MadeIsOpen DEF LineInv
<1>2. MasterRead(c, call) \/ SlaveRead(c, call) \/ (call.op = "swrite" /\ SlaveWrite(c, call))
  BY <1>1 DEF CarryOn
<1> QED BY <1>2, MasterReadTurned, SlaveReadTurned, SlaveWriteTurned
----------------------------------------------------------------------------
(* The steps, one by one: calls, ends and settings.                        *)

LEMMA PtyReadTurned ==
  ASSUME LineInv, NEW c \in Callers, NEW fd \in 1 .. NFds, NEW n \in Nat, PtyRead(c, fd, n)
  PROVE  Turned
<1> DEFINE kind == IF Handle(c, fd).slave THEN "sread" ELSE "mread"
           e == <<>>
           call == [op |-> kind, fd |-> fd, pty |-> Handle(c, fd).pty, left |-> e, count |-> n]
<1>1. CarryOn(c, call) /\ fds[c][fd].pty # 0 /\ PtyInv
  BY DEF PtyRead, Open, Handle, LineInv
<1>2. fds[c][fd].pty \in Slots
  BY <1>1, HeldIsOpen
<1>3. kind \in {"sread", "mread"} /\ e \in Seq(Key)
  OBVIOUS
<1> HIDE DEF kind, e
<1>4. Made(c, call) /\ Writes(call)
  BY <1>2, <1>3 DEF Made, Waits, Handle, Writes
<1> HIDE DEF call
<1> QED BY <1>1, <1>4, CarryOnTurned

LEMMA PtyWriteTurned ==
  ASSUME LineInv, NEW c \in Callers, NEW fd \in 1 .. NFds, NEW text \in Seq(setup.Written), PtyWrite(c, fd, text)
  PROVE  Turned
<1> DEFINE call == [Idle EXCEPT !.op = "swrite", !.fd = fd, !.pty = Handle(c, fd).pty, !.left = text]
<1>1. CarryOn(c, call) /\ fds[c][fd].pty # 0 /\ PtyInv /\ "write" \in Does /\ setup \in Setups
  BY DEF PtyWrite, Open, Handle, LineInv, PtyInv, Typed
<1>2. fds[c][fd].pty \in Slots
  BY <1>1, HeldIsOpen
<1>3. text \in Seq(Key)
  <2>1. setup.Written \subseteq Key
    BY <1>1, SetupType
  <2>2. \A i \in 1 .. Len(text) : text[i] \in Key
    BY <2>1
  <2> QED BY <2>2
<1>4. Made(c, call) /\ Writes(call)
  BY <1>1, <1>2, <1>3 DEF Made, Waits, Idle, Handle, Writes
<1> HIDE DEF call
<1> QED BY <1>1, <1>4, CarryOnTurned

LEMMA TurnTurned == ASSUME LineInv, NEW c \in Callers, Turn(c) PROVE Turned
<1>1. CarryOn(c, calls[c]) /\ ~Free(c) /\ Writes(calls[c])
  BY DEF Turn, LineInv
<1>2. Made(c, calls[c])
  BY <1>1 DEF LineInv, PtyInv, CallsTrue, WaitTrue, Made, Free
<1> QED BY <1>1, <1>2, CarryOnTurned

LEMMA TypeTurned ==
  ASSUME LineInv, NEW c \in Callers, NEW fd \in 1 .. NFds, NEW k \in setup.Keys, Type(c, fd, k)
  PROVE  Turned
<1> DEFINE n == Handle(c, fd).pty
           p == ptys[n]
           r == row[n]
           q == Input(p, k)
<1>1. /\ ptys' = [ptys EXCEPT ![n] = q] /\ UNCHANGED <<calls, ghosts>> /\ fds[c][fd].pty # 0
      /\ "type" \in Does /\ ("flood" \in Does \/ Len(p.out) + 3 * LINE <= QUEUE) /\ PtyInv
  BY DEF Type, Open, Handle, LineInv
<1>2. n \in Slots
  BY <1>1, HeldIsOpen DEF Handle
<1>3. setup \in Setups /\ Good(p) /\ r \in Rows /\ RawEmpty(p) /\ (KeepsUp => Edits(p, r))
  BY <1>2, LineParts
<1>4. k \in Key /\ (KeepsUp => k # "bell" /\ Len(p.out) + 3 * LINE <= QUEUE)
  BY <1>1, <1>3, SetupType DEF LineInv, Plain, KeepsUp, Does
<1>5. RawEmpty(q)
  <2> HIDE DEF p
  <2> QED BY <1>3, <1>4, InputRaw
<1>6. KeepsUp => Moves(p, r, q, r)
  <2> HIDE DEF p, r
  <2> QED BY <1>3, <1>4, InputMoves
<1>7. Goes(p, r, q, r) /\ Wrote(q, got[n], sent[n])
  <2>1. Goes(p, r, q, r)
    <3> HIDE DEF p, q, r
    <3> QED BY <1>5, <1>6, MovesGoes
  <2> QED BY <1>1, <2>1 DEF Wrote
<1>8. \A d \in Callers : Writes(calls'[d])
  BY <1>1, SameWrites
<1> HIDE DEF n, q
<1> QED BY <1>1, <1>2, <1>7, <1>8, QuietTurned

\* What descriptors are on is in use.
LEMMA OnInUse == ASSUME PtyInv, NEW c \in Callers, NEW n \in Slots, NEW sl, On(fds[c], n, sl) # {} PROVE InUse(n)
<1>1. PICK i \in 1 .. NFds : fds[c][i].pty = n
  BY DEF On
<1> QED BY <1>1, SlotsType, HeldIsOpen

LEMMA OnlyInUse ==
  ASSUME PtyInv, NEW c \in Callers, NEW fd \in 1 .. NFds, NEW n \in Slots, NEW sl, On(Only(Handle(c, fd)), n, sl) # {}
  PROVE  InUse(n)
<1>1. n # 0
  BY SlotsType
<1>2. fds[c][fd].pty = n
  BY <1>1 DEF On, Only, NoTable, NoFd, Handle
<1> QED BY <1>1, <1>2, HeldIsOpen

LEMMA HeldAlike ==
  ASSUME LineInv, NEW tab, ptys' = Held(tab), \A n \in Slots, sl \in BOOLEAN : On(tab, n, sl) # {} => InUse(n)
  PROVE  \A n \in Slots : Alike(ptys[n], ptys'[n])
<1> SUFFICES ASSUME NEW n \in Slots PROVE Alike(ptys[n], ptys'[n])
  OBVIOUS
<1> DEFINE p == ptys[n]
           m == Cardinality(On(tab, n, FALSE))
           s == Cardinality(On(tab, n, TRUE))
           a == p.masters + m
           b == p.slaves + s
<1>1. Good(p) /\ p \in Ptys /\ setup \in Setups
  BY LineParts
<1>2. ptys'[n] = Counted(p, a, b)
  BY DEF Held, Counted
<1>3. CASE p # NoPty
  <2>1. Alike(p, Counted(p, a, b))
    <3> HIDE DEF p, a, b
    <3> QED BY <1>1, <1>3 DEF Alike, Counted, Ptys
  <2> QED BY <1>2, <2>1
<1>4. CASE p = NoPty
  <2>1. On(tab, n, FALSE) = {} /\ On(tab, n, TRUE) = {}
    BY <1>4 DEF InUse
  <2>2. m = 0 /\ s = 0
    BY <2>1, FS_EmptySet
  <2>3. p.masters \in Nat /\ p.slaves \in Nat
    BY <1>1, Parts
  <2> HIDE DEF m, s, p
  <2>4. a = p.masters /\ b = p.slaves
    BY <2>2, <2>3
  <2>5. Counted(p, a, b) = p
    BY <1>1, <2>4, CountedSame
  <2> QED BY <1>2, <1>4, <2>5 DEF Alike, p
<1> QED BY <1>3, <1>4

LEMMA DroppedAlike ==
  ASSUME LineInv, NEW tab, ptys' = Dropped(tab), \A n \in Slots, sl \in BOOLEAN : On(tab, n, sl) # {} => InUse(n)
  PROVE  \A n \in Slots : Alike(ptys[n], ptys'[n])
<1> SUFFICES ASSUME NEW n \in Slots PROVE Alike(ptys[n], ptys'[n])
  OBVIOUS
<1> DEFINE p == ptys[n]
           m == Cardinality(On(tab, n, FALSE))
           s == Cardinality(On(tab, n, TRUE))
           a == p.masters - m
           b == p.slaves - s
<1>1. Good(p) /\ p \in Ptys
  BY LineParts
<1>2. ptys'[n] = IF a = 0 /\ b = 0 THEN NoPty ELSE Counted(p, a, b)
  BY DEF Dropped, Counted
<1>3. CASE p # NoPty
  <2>1. Alike(p, Counted(p, a, b))
    <3> HIDE DEF p, a, b
    <3> QED BY <1>1, <1>3 DEF Alike, Counted, Ptys
  <2> QED BY <1>2, <2>1 DEF Alike
<1>4. CASE p = NoPty
  <2>1. On(tab, n, FALSE) = {} /\ On(tab, n, TRUE) = {}
    BY <1>4 DEF InUse
  <2>2. m = 0 /\ s = 0
    BY <2>1, FS_EmptySet
  <2>3. p.masters = 0 /\ p.slaves = 0
    BY <1>4 DEF NoPty
  <2> HIDE DEF m, s, p
  <2>4. a = 0 /\ b = 0
    BY <2>2, <2>3
  <2> QED BY <1>2, <2>4 DEF Alike
<1> QED BY <1>3, <1>4

LEMMA PtyOpenTurned == ASSUME LineInv, NEW c \in Callers, NEW nonblock \in BOOLEAN, PtyOpen(c, nonblock) PROVE Turned
<1> DEFINE free == {n \in Slots : ~InUse(n)}
           n == Min(free)
           e == <<>>
<1>1. /\ free # {} /\ ptys' = [ptys EXCEPT ![n] = NewPty] /\ UNCHANGED calls
      /\ row' = [row EXCEPT ![n] = e] /\ sent' = [sent EXCEPT ![n] = e] /\ got' = [got EXCEPT ![n] = e]
  BY DEF PtyOpen
<1>2. n \in Slots
  <2>1. free \subseteq Nat
    BY SlotsType DEF LineInv
  <2>2. Min(free) \in free
    <3> HIDE DEF free
    <3> QED BY <1>1, <2>1, MinIn
  <2> QED BY <2>2
<1>3. e \in Rows /\ e \o e = e /\ Len(e) = 0
  BY DEF Rows
<1>4. NewPty.out = e /\ NewPty.line = e
  BY DEF NewPty, NoPty
<1>5. \A d \in Callers : Writes(calls'[d])
  BY <1>1, SameWrites
<1> HIDE DEF e, n
<1>6. RawEmpty(NewPty) /\ Edits(NewPty, e) /\ Shows(e, e) = e
  BY <1>3, NoneEdits, ShowsNone DEF e
<1>7. Wrote(NewPty, e, e)
  BY <1>3, <1>4 DEF Wrote, e
<1>8. Goes(ptys[n], row[n], NewPty, e)
  <2>1. Seen(NewPty, e) = e
    BY <1>4, <1>6 DEF Seen
  <2>2. Ends(NewPty.line, Seen(NewPty, e))
    BY <1>6 DEF Edits
  <2> QED BY <1>6, <2>1, <2>2 DEF Goes, Follows, e
<1> QED BY <1>1, <1>2, <1>3, <1>5, <1>7, <1>8, OneTurned

LEMMA SlaveOpenTurned ==
  ASSUME LineInv, NEW c, NEW n \in Slots, NEW nonblock \in BOOLEAN, SlaveOpen(c, n, nonblock)
  PROVE  Turned
<1> DEFINE p == ptys[n]
           q == SlaveOpened(p, c)
<1>1. ptys' = [ptys EXCEPT ![n] = q] /\ UNCHANGED <<calls, ghosts>> /\ p # NoPty
  BY DEF SlaveOpen, InUse
<1>2. p \in Ptys
  BY LineParts
<1>3. Alike(p, q)
  <2> HIDE DEF p
  <2> QED BY <1>1, <1>2 DEF Alike, SlaveOpened, Ptys
<1>4. \A d \in Callers : Writes(calls'[d])
  BY <1>1, SameWrites
<1> HIDE DEF q
<1> QED BY <1>1, <1>3, <1>4, QuietAlike

LEMMA DupTurned == ASSUME LineInv, NEW c \in Callers, NEW fd \in 1 .. NFds, Dup(c, fd) PROVE Turned
<1>1. ptys' = Held(Only(Handle(c, fd))) /\ UNCHANGED <<calls, ghosts>> /\ PtyInv
  BY DEF Dup, LineInv
<1>2. \A n \in Slots, sl \in BOOLEAN : On(Only(Handle(c, fd)), n, sl) # {} => InUse(n)
  BY <1>1, OnlyInUse
<1>3. \A n \in Slots : Alike(ptys[n], ptys'[n])
  BY <1>1, <1>2, HeldAlike
<1> QED BY <1>1, <1>3, SameWrites, AlikeTurned

LEMMA ForkTurned == ASSUME LineInv, NEW c \in Callers, NEW p \in Callers, Fork(c, p) PROVE Turned
<1>1. ptys' = Held(fds[c]) /\ UNCHANGED <<calls, ghosts>> /\ PtyInv
  BY DEF Fork, LineInv
<1>2. \A n \in Slots, sl \in BOOLEAN : On(fds[c], n, sl) # {} => InUse(n)
  BY <1>1, OnInUse
<1>3. \A n \in Slots : Alike(ptys[n], ptys'[n])
  BY <1>1, <1>2, HeldAlike
<1> QED BY <1>1, <1>3, SameWrites, AlikeTurned

LEMMA CloseTurned == ASSUME LineInv, NEW c \in Callers, NEW fd \in 1 .. NFds, Close(c, fd) PROVE Turned
<1>1. ptys' = Dropped(Only(Handle(c, fd))) /\ UNCHANGED <<calls, ghosts>> /\ PtyInv
  BY DEF Close, Drops, LineInv
<1>2. \A n \in Slots, sl \in BOOLEAN : On(Only(Handle(c, fd)), n, sl) # {} => InUse(n)
  BY <1>1, OnlyInUse
<1>3. \A n \in Slots : Alike(ptys[n], ptys'[n])
  BY <1>1, <1>2, DroppedAlike
<1> QED BY <1>1, <1>3, SameWrites, AlikeTurned

LEMMA TurnSignalledTurned == ASSUME LineInv, NEW c \in Callers, TurnSignalled(c) PROVE Turned
<1>1. UNCHANGED ghosts /\ PtyInv
  BY DEF TurnSignalled, LineInv
<1>2. CASE Return(c) /\ UNCHANGED ptys
  <2>1. \A n \in Slots : Alike(ptys[n], ptys'[n])
    BY <1>2, SameAlike
  <2> QED BY <1>1, <1>2, <2>1, ReturnWrites, AlikeTurned
<1>3. CASE calls' = [d \in Callers |-> IF d = c THEN Idle ELSE calls[d]] /\ ptys' = Dropped(fds[c])
  <2>1. \A n \in Slots, sl \in BOOLEAN : On(fds[c], n, sl) # {} => InUse(n)
    BY <1>1, OnInUse
  <2>2. \A n \in Slots : Alike(ptys[n], ptys'[n])
    BY <1>3, <2>1, DroppedAlike
  <2>3. \A d \in Callers : Writes(calls'[d])
    BY <1>3, IdleWrites DEF LineInv
  <2> QED BY <1>1, <2>2, <2>3, AlikeTurned
<1> QED BY <1>2, <1>3 DEF TurnSignalled

\* A terminal that a program with a descriptor on it sets something of.
LEMMA OnThere ==
  ASSUME LineInv, NEW c \in Callers, NEW fd \in 1 .. NFds, Ioctl(c, fd)
  PROVE  /\ Handle(c, fd).pty \in Slots /\ PtyOn(c, fd) = ptys[Handle(c, fd).pty] /\ PtyOn(c, fd) # NoPty
         /\ PtyOn(c, fd) \in Ptys /\ ptys \in [Slots -> Ptys]
         /\ (\A d \in Callers : Writes(calls'[d])) /\ UNCHANGED ghosts
<1>1. PtyInv /\ fds[c][fd].pty # 0 /\ UNCHANGED <<calls, ghosts>>
  BY DEF LineInv, Ioctl, Open, Handle
<1>2. fds[c][fd].pty \in Slots /\ InUse(fds[c][fd].pty) /\ ptys \in [Slots -> Ptys]
  BY <1>1, HeldIsOpen DEF PtyInv, Typed
<1> QED BY <1>1, <1>2, SameWrites DEF Handle, PtyOn, InUse

LEMMA IoctlAlike ==
  ASSUME LineInv, NEW c \in Callers, NEW fd \in 1 .. NFds, Ioctl(c, fd), NEW q, Alike(PtyOn(c, fd), q),
         ptys' = [ptys EXCEPT ![Handle(c, fd).pty] = q]
  PROVE  Turned
<1> DEFINE n == Handle(c, fd).pty
<1>1. /\ n \in Slots /\ Alike(ptys[n], q) /\ ptys' = [ptys EXCEPT ![n] = q] /\ UNCHANGED ghosts
      /\ \A d \in Callers : Writes(calls'[d])
  BY OnThere
<1> HIDE DEF n
<1> QED BY <1>1, QuietAlike

LEMMA UnlockTurned == ASSUME LineInv, NEW c \in Callers, NEW fd \in 1 .. NFds, Unlock(c, fd) PROVE Turned
<1> DEFINE p == PtyOn(c, fd)
           q == [p EXCEPT !.locked = FALSE]
<1>1. Ioctl(c, fd) /\ ptys' = [ptys EXCEPT ![Handle(c, fd).pty] = q]
  BY DEF Unlock, PtyOn
<1>2. p \in Ptys /\ p # NoPty
  BY <1>1, OnThere
<1>3. Alike(p, q)
  <2> DEFINE no == FALSE
  <2>1. q = [p EXCEPT !.locked = no]
    OBVIOUS
  <2> HIDE DEF p, q, no
  <2> QED BY <1>2, <2>1 DEF Alike, Ptys
<1> HIDE DEF q
<1> QED BY <1>1, <1>3, IoctlAlike

LEMMA SetPgrpTurned ==
  ASSUME LineInv, NEW c \in Callers, NEW fd \in 1 .. NFds, NEW g \in Callers, SetPgrp(c, fd, g)
  PROVE  Turned
<1> DEFINE p == PtyOn(c, fd)
           q == [p EXCEPT !.pgrp = g]
<1>1. Ioctl(c, fd) /\ ptys' = [ptys EXCEPT ![Handle(c, fd).pty] = q]
  BY DEF SetPgrp, PtyOn
<1>2. p \in Ptys /\ p # NoPty
  BY <1>1, OnThere
<1>3. Alike(p, q)
  <2> HIDE DEF p
  <2> QED BY <1>2 DEF Alike, Ptys
<1> HIDE DEF q
<1> QED BY <1>1, <1>3, IoctlAlike

LEMMA SetTerminalTurned == ASSUME LineInv, NEW c \in Callers, NEW fd \in 1 .. NFds, SetTerminal(c, fd) PROVE Turned
<1> DEFINE p == PtyOn(c, fd)
           q == [p EXCEPT !.pgrp = c, !.sid = c]
<1>1. Ioctl(c, fd)
  BY DEF SetTerminal
<1>2. p \in Ptys /\ p # NoPty /\ Handle(c, fd).pty \in Slots /\ ptys \in [Slots -> Ptys]
  BY <1>1, OnThere
<1>3. ptys' = [ptys EXCEPT ![Handle(c, fd).pty] = q]
  BY <1>2 DEF SetTerminal, PtyOn
<1>4. Alike(p, q)
  <2> HIDE DEF p
  <2> QED BY <1>2 DEF Alike, Ptys
<1> HIDE DEF q
<1> QED BY <1>1, <1>3, <1>4, IoctlAlike

\* The line is emptied, or stays as it is.
Settled(p, q) ==
  /\ q.out = p.out /\ q.line \in {<<>>, p.line} /\ RawEmpty(q)
  /\ (KeepsUp /\ Cooking(p) => Cooking(q))

LEMMA SettledTurned ==
  ASSUME LineInv, NEW c \in Callers, NEW fd \in 1 .. NFds, Ioctl(c, fd), NEW q, Settled(PtyOn(c, fd), q),
         ptys' = [ptys EXCEPT ![Handle(c, fd).pty] = q]
  PROVE  Turned
<1> DEFINE n == Handle(c, fd).pty
           p == ptys[n]
           r == row[n]
<1>1. /\ n \in Slots /\ Settled(p, q) /\ p # NoPty /\ ptys' = [ptys EXCEPT ![n] = q] /\ UNCHANGED ghosts
      /\ \A d \in Callers : Writes(calls'[d])
  BY OnThere
<1>2. (KeepsUp => Edits(p, r)) /\ Wrote(p, got[n], sent[n]) /\ Seen(p, r) \in Rows
  BY <1>1, LineParts
<1>3. Wrote(q, got[n], sent[n])
  BY <1>1, <1>2 DEF Wrote, Settled
<1>4. KeepsUp => Moves(p, r, q, r)
  <2> SUFFICES ASSUME KeepsUp PROVE Moves(p, r, q, r)
    OBVIOUS
  <2> HIDE DEF p, r
  <2>1. Cooking(p) /\ p.line \in Seq(Ink) /\ Ends(p.line, Seen(p, r))
    BY <1>2 DEF Edits
  <2>2. Seen(q, r) = Seen(p, r) /\ Cooking(q)
    BY <1>1, <2>1 DEF Settled, Seen
  <2>3. p.line \in Seq(Shown)
    BY <2>1, InkShown
  <2>4. Follows(p.line, Seen(p, r), p.line, Seen(p, r))
    BY <1>2, <2>1, <2>3, FollowsSame
  <2>5. Follows(p.line, Seen(p, r), <<>>, Seen(p, r))
    <3>1. Begins(Seen(p, r), Seen(p, r))
      BY <1>2 DEF Begins, Rows
    <3> QED BY <1>2, <2>1, <2>3, <3>1, FollowsNone
  <2>6. q.line = <<>> \/ q.line = p.line
    BY <1>1 DEF Settled
  <2>7. <<>> \in Seq(Ink)
    OBVIOUS
  <2> QED BY <2>1, <2>2, <2>4, <2>5, <2>6, <2>7 DEF Moves
<1>5. Goes(p, r, q, r)
  <2> HIDE DEF p, r
  <2> QED BY <1>1, <1>4, MovesGoes DEF Settled
<1> HIDE DEF n
<1> QED BY <1>1, <1>3, <1>5, QuietTurned

LEMMA FlushTurned == ASSUME LineInv, NEW c \in Callers, NEW fd \in 1 .. NFds, Flush(c, fd) PROVE Turned
<1> DEFINE p == PtyOn(c, fd)
           e == <<>>
           q == [p EXCEPT !.in = e, !.line = e]
<1>1. Ioctl(c, fd)
  BY DEF Flush
<1>2. p \in Ptys /\ Handle(c, fd).pty \in Slots /\ ptys \in [Slots -> Ptys]
  BY <1>1, OnThere
<1>3. ptys' = [ptys EXCEPT ![Handle(c, fd).pty] = q]
  BY <1>2 DEF Flush, PtyOn
<1>4. q.out = p.out /\ q.line = e /\ q.t = p.t
  <2> HIDE DEF p, e
  <2> QED BY <1>2 DEF Ptys
<1>5. Settled(p, q)
  <2> HIDE DEF p, q
  <2> QED BY <1>4 DEF Settled, RawEmpty, Cooking
<1> HIDE DEF q
<1> QED BY <1>1, <1>3, <1>5, SettledTurned

LEMMA SetAttrTurned ==
  ASSUME LineInv, NEW c \in Callers, NEW fd \in 1 .. NFds, NEW t \in setup.Terms, NEW flush \in BOOLEAN,
         SetAttr(c, fd, t, flush)
  PROVE  Turned
<1> DEFINE p == PtyOn(c, fd)
           e == <<>>
           p1 == [p EXCEPT !.t = t]
           p3 == [p EXCEPT !.t = t, !.in = e, !.line = e]
           q == IF flush THEN p3 ELSE p1
           r == IF "icanon" \notin t THEN LineDone(q) ELSE q
<1>1. Ioctl(c, fd) /\ ptys' = [ptys EXCEPT ![Handle(c, fd).pty] = r]
  BY DEF SetAttr
<1>2. p \in Ptys /\ setup \in Setups /\ t \in SUBSET Flags
  BY <1>1, OnThere, SetupType DEF LineInv, PtyInv, Typed
<1>3. e \in Seq(Key)
  OBVIOUS
<1> HIDE DEF e
<1>4. /\ p1 \in Ptys /\ p1.t = t /\ p1.out = p.out /\ p1.line = p.line
      /\ p3 \in Ptys /\ p3.t = t /\ p3.out = p.out /\ p3.line = e
  <2> HIDE DEF p
  <2> QED BY <1>2, <1>3 DEF Ptys
<1> HIDE DEF p1, p3
<1>5. q \in Ptys /\ q.t = t /\ q.out = p.out /\ q.line \in {e, p.line}
  BY <1>4
<1> HIDE DEF q
<1>6. LineDone(q).t = t /\ LineDone(q).out = p.out /\ LineDone(q).line = e
  BY <1>5, LineDoneIs DEF e
<1>7. r.t = t /\ r.out = p.out /\ r.line \in {e, p.line} /\ ("icanon" \notin t => r.line = e)
  BY <1>5, <1>6
<1>8. KeepsUp => ("icanon" \in t => Cook \subseteq t)
  BY DEF LineInv, Plain, KeepsUp, Does
<1>9. Settled(p, r)
  <2> HIDE DEF p, r
  <2> QED BY <1>7, <1>8 DEF Settled, RawEmpty, Cooking, e
<1> HIDE DEF r
<1> QED BY <1>1, <1>9, SettledTurned

LEMMA SameTurned == ASSUME LineInv, UNCHANGED <<ptys, calls, ghosts>> PROVE Turned
<1>1. \A n \in Slots : Alike(ptys[n], ptys'[n])
  BY SameAlike
<1>2. \A d \in Callers : Writes(calls'[d])
  BY SameWrites
<1> QED BY <1>1, <1>2, AlikeTurned

LEMMA CallTurned == ASSUME LineInv, NEW c \in 1 .. setup.callers, Call(c) PROVE Turned
<1>1. setup \in Setups /\ c \in Callers
  BY SetupType DEF LineInv, PtyInv, Typed
<1>2. CASE \E nonblock \in BOOLEAN : PtyOpen(c, nonblock)
  BY <1>1, <1>2, PtyOpenTurned
<1>3. CASE \E n \in Slots, nonblock \in BOOLEAN : SlaveOpen(c, n, nonblock)
  BY <1>3, SlaveOpenTurned
<1>4. CASE \E p \in Callers : Fork(c, p)
  BY <1>1, <1>4, ForkTurned
<1>5. ASSUME NEW fd \in 1 .. NFds, NEW n \in setup.Counts, PtyRead(c, fd, n) PROVE Turned
  <2>1. n \in Nat
    BY <1>1, SetupType
  <2> QED BY <1>1, <1>5, <2>1, PtyReadTurned
<1>6. ASSUME NEW fd \in 1 .. NFds, NEW k \in 1 .. setup.MaxText, NEW text \in [1 .. k -> setup.Written],
             PtyWrite(c, fd, text)
      PROVE  Turned
  <2>1. k \in Nat
    OBVIOUS
  <2>2. text \in Seq(setup.Written)
    BY <2>1
  <2> QED BY <1>1, <1>6, <2>2, PtyWriteTurned
<1>7. ASSUME NEW fd \in 1 .. NFds, NEW k \in setup.Keys, Type(c, fd, k) PROVE Turned
  BY <1>1, <1>7, TypeTurned
<1>8. ASSUME NEW fd \in 1 .. NFds, Dup(c, fd) \/ Close(c, fd) \/ Unlock(c, fd) \/ Flush(c, fd) PROVE Turned
  BY <1>1, <1>8, DupTurned, CloseTurned, UnlockTurned, FlushTurned
<1>9. ASSUME NEW fd \in 1 .. NFds, SetSize(c, fd) \/ SetTerminal(c, fd) PROVE Turned
  BY <1>1, <1>9, SameTurned, SetTerminalTurned DEF SetSize, Ioctl
<1>10. ASSUME NEW fd \in 1 .. NFds, NEW t \in setup.Terms, NEW flush \in BOOLEAN, SetAttr(c, fd, t, flush) PROVE Turned
  BY <1>1, <1>10, SetAttrTurned
<1>11. ASSUME NEW fd \in 1 .. NFds, NEW g \in Callers, SetPgrp(c, fd, g) PROVE Turned
  BY <1>1, <1>11, SetPgrpTurned
<1> QED BY <1>2, <1>3, <1>4, <1>5, <1>6, <1>7, <1>8, <1>9, <1>10, <1>11 DEF Call

LEMMA NextTurned == ASSUME LineInv, [Next]_vars PROVE Turned /\ UNCHANGED setup
<1>1. CASE Next
  <2>1. Steps /\ UNCHANGED setup
    BY <1>1 DEF Next
  <2>2. 1 .. setup.callers \subseteq Callers
    BY SetupType DEF LineInv, PtyInv, Typed
  <2>3. Load \/ Unload => Turned
    BY SameTurned DEF Load, Unload
  <2> QED BY <2>1, <2>2, <2>3, CallTurned, TurnTurned, TurnSignalledTurned DEF Steps
<1>2. CASE UNCHANGED vars
  BY <1>2, SameTurned DEF vars, ghosts
<1> QED BY <1>1, <1>2

LEMMA NextLine == ASSUME LineInv, [Next]_vars PROVE LineInv'
<1>1. Turned /\ UNCHANGED setup
  BY NextTurned
<1>2. PtyInv'
  BY NextSound DEF LineInv
<1>3. Slots' = Slots /\ Callers' = Callers /\ KeepsUp' = KeepsUp /\ Does' = Does
  BY <1>1 DEF Slots, Callers, KeepsUp, Does
<1>4. Plain(setup)'
  BY <1>1 DEF LineInv, Plain
<1>5. \A c \in Callers : Writes(calls[c])'
  BY <1>1, <1>3 DEF Turned, Writes
<1>6. ASSUME NEW n \in Slots
      PROVE  (RawEmpty(ptys[n]) /\ (KeepsUp => Edits(ptys[n], row[n])) /\ Wrote(ptys[n], got[n], sent[n]))'
  BY <1>1, <1>3 DEF Turned, Goes, RawEmpty, Edits, Cooking, Seen, Wrote
<1>7. (row \in [Slots -> Rows] /\ sent \in [Slots -> Rows] /\ got \in [Slots -> Rows])'
  BY <1>1, <1>3 DEF Turned
<1> QED BY <1>2, <1>3, <1>4, <1>5, <1>6, <1>7 DEF LineInv

LEMMA InitLine == ASSUME \A s \in Setups : Plain(s), Init PROVE LineInv
<1> DEFINE e == <<>>
           start == [n \in Slots |-> e]
<1>1. PtyInv /\ Plain(setup)
  BY InitSound DEF Init
<1>2. row = start /\ sent = start /\ got = start /\ ptys = [n \in Slots |-> NoPty] /\ calls = [c \in Callers |-> Idle]
  BY DEF Init
<1>3. e \in Rows
  BY DEF Rows
<1>4. ASSUME NEW n \in Slots
      PROVE  RawEmpty(ptys[n]) /\ (KeepsUp => Edits(ptys[n], row[n])) /\ Wrote(ptys[n], got[n], sent[n])
  <2>1. ptys[n] = NoPty /\ row[n] = e /\ NoPty.out = e
    BY <1>2 DEF NoPty
  <2>2. RawEmpty(NoPty) /\ Edits(NoPty, e)
    <3> HIDE DEF e
    <3> QED BY <1>3, NoneEdits
  <2> QED BY <2>1, <2>2 DEF Wrote
<1>5. \A c \in Callers : Writes(calls[c])
  BY <1>2, IdleWrites
<1> HIDE DEF e
<1>6. start \in [Slots -> Rows]
  BY <1>3
<1> HIDE DEF start
<1> QED BY <1>1, <1>2, <1>4, <1>5, <1>6 DEF LineInv
----------------------------------------------------------------------------
(* The theorems.                                                           *)

LEMMA RowIs == ASSUME NEW n PROVE Row(n) = Seen(ptys[n], row[n])
BY DEF Row, Seen, Shows

LEMMA EndsSuffix ==
  ASSUME NEW s \in Seq(Shown), NEW t \in Seq(Shown), Ends(s, t)
  PROVE  IsSuffix(s, t)
<1> DEFINE a == Reverse(s)
           b == Reverse(t)
           l == Len(s)
           m == Len(t)
<1>1. l \in Nat /\ m \in Nat /\ l <= m /\ \A i \in 1 .. l : s[i] = t[m - l + i]
  BY DEF Ends
<1>2. a \in Seq(Shown) /\ Len(a) = l /\ \A i \in 1 .. l : a[i] = s[l - i + 1]
  BY <1>1 DEF Reverse
<1>3. b \in Seq(Shown) /\ Len(b) = m /\ \A i \in 1 .. m : b[i] = t[m - i + 1]
  BY <1>1 DEF Reverse
<1> HIDE DEF a, b
<1>4. ASSUME NEW i \in 1 .. l PROVE a[i] = b[i]
  <2> DEFINE j == l - i + 1
  <2>1. i \in 1 .. m /\ j \in 1 .. l /\ m - l + j = m - i + 1
    BY <1>1
  <2>2. a[i] = s[j] /\ b[i] = t[m - i + 1]
    BY <1>2, <1>3, <2>1
  <2>3. s[j] = t[m - l + j]
    <3> HIDE DEF j
    <3> QED BY <1>1, <2>1
  <2> QED BY <2>1, <2>2, <2>3
<1>5. SubSeq(b, 1, l) = a
  <2>1. l \in 0 .. Len(b)
    BY <1>1, <1>3
  <2>2. SubSeq(b, 1, l) \in Seq(Shown) /\ Len(SubSeq(b, 1, l)) = l /\ \A i \in 1 .. l : SubSeq(b, 1, l)[i] = b[i]
    <3> HIDE DEF l
    <3> QED BY <1>3, <2>1
  <2> QED BY <1>1, <1>2, <1>4, <2>2, AgreeSame DEF Agree
<1>6. IsPrefix(a, b)
  BY <1>1, <1>2, <1>3, <1>5 DEF IsPrefix
<1> QED BY <1>6 DEF IsSuffix, a, b

LEMMA BeginsPrefix ==
  ASSUME NEW s \in Seq(Shown), NEW t \in Seq(Shown), Begins(s, t)
  PROVE  IsPrefix(s, t)
<1> DEFINE l == Len(s)
<1>1. l \in 0 .. Len(t) /\ \A i \in 1 .. l : s[i] = t[i]
  BY DEF Begins
<1>2. SubSeq(t, 1, l) \in Seq(Shown) /\ Len(SubSeq(t, 1, l)) = l /\ \A i \in 1 .. l : SubSeq(t, 1, l)[i] = t[i]
  <2> HIDE DEF l
  <2> QED BY <1>1
<1>3. SubSeq(t, 1, l) = s
  BY <1>1, <1>2, AgreeSame DEF Agree
<1> QED BY <1>1, <1>3 DEF IsPrefix

LEMMA LineNothingLost == ASSUME LineInv PROVE NothingLost
<1>1. ASSUME KeepsUp, NEW n \in Slots PROVE IsSuffix(Image(ptys[n].line), Row(n))
  <2> DEFINE l == ptys[n].line
             x == Seen(ptys[n], row[n])
  <2>1. l \in Seq(Ink) /\ Ends(l, x) /\ x \in Rows
    BY <1>1, LineParts DEF Edits
  <2>2. Row(n) = x
    BY RowIs
  <2> HIDE DEF l, x
  <2>3. Image(l) = l /\ l \in Seq(Shown)
    BY <2>1, ImageIs, InkShown
  <2>4. IsSuffix(l, x)
    BY <2>1, <2>3, EndsSuffix DEF Rows
  <2> QED BY <2>2, <2>3, <2>4 DEF l
<1>2. LineShown
  BY <1>1 DEF LineShown
<1>3. WrittenIsDrawn
  BY LineParts DEF WrittenIsDrawn, Wrote, InUse
<1>4. RawHoldsNothingBack
  BY LineParts DEF RawHoldsNothingBack, RawEmpty
<1> QED BY <1>2, <1>3, <1>4 DEF NothingLost

LEMMA TurnedPrompt ==
  ASSUME LineInv, LineInv', Turned, UNCHANGED setup, KeepsUp, NEW n \in Slots, InUse(n)'
  PROVE  IsPrefix(Prompt(n), Prompt(n)') \/ Row(n)' = <<>>
<1> DEFINE p == ptys[n]
           q == ptys'[n]
           x == Seen(ptys[n], row[n])
           y == Seen(ptys'[n], row'[n])
<1>1. p.line \in Seq(Ink) /\ Ends(p.line, x) /\ x \in Rows
  BY LineParts DEF Edits
<1>2. q.line \in Seq(Ink) /\ Ends(q.line, y) /\ Follows(p.line, x, q.line, y)
  <2>1. Goes(p, row[n], q, row'[n]) /\ q # NoPty
    BY DEF Turned, InUse
  <2> QED BY <2>1 DEF Goes, Edits
<1>3. y \in Rows
  <2>1. ptys' \in [Slots -> Ptys]
    BY DEF LineInv, PtyInv, Typed, Slots, Ptys, Callers
  <2>2. row'[n] \in Rows
    BY DEF Turned
  <2>3. q.out \in Seq(Shown)
    BY <2>1 DEF Ptys
  <2> QED BY <2>2, <2>3, ShowsType DEF Seen
<1>4. Row(n) = x /\ Row(n)' = y
  BY DEF Row, Seen, Shows
<1>5. Image(p.line) = p.line /\ Image(q.line) = q.line /\ p.line \in Seq(Shown) /\ q.line \in Seq(Shown)
  BY <1>1, <1>2, ImageIs, InkShown
<1>6. Prompt(n) = Left(p.line, x)
  BY <1>4, <1>5 DEF Prompt, Left
<1>7. Prompt(n)' = Left(q.line, y)
  BY <1>4, <1>5 DEF Prompt, Left
<1> HIDE DEF x, y
<1>8. Left(p.line, x) \in Rows /\ Left(q.line, y) \in Rows
  BY <1>1, <1>2, <1>3, <1>5, LeftIs
<1>9. CASE Begins(Left(p.line, x), Left(q.line, y))
  <2>1. IsPrefix(Left(p.line, x), Left(q.line, y))
    BY <1>8, <1>9, BeginsPrefix DEF Rows
  <2> QED BY <1>6, <1>7, <2>1
<1>10. CASE y = <<>>
  BY <1>4, <1>10
<1> QED BY <1>2, <1>9, <1>10 DEF Follows

\* What the line discipline was given is where it should be, whatever the keys,
\* settings, writers, reads and their order: the line being edited is what the
\* screen shows, what was written is on its way, whole and in order, and a raw
\* terminal holds nothing back (input, erase_one, pty_write, TCSETS); in the
\* terminals that Plain tells.
THEOREM LinesKept == ASSUME \A s \in Setups : Plain(s) PROVE Spec => []NothingLost
<1>1. Init => LineInv
  BY InitLine
<1>2. LineInv /\ [Next]_vars => LineInv'
  BY NextLine
<1>3. LineInv => NothingLost
  BY LineNothingLost
<1> QED BY <1>1, <1>2, <1>3, PTL DEF Spec

\* Nor does rubbing out, of a character, a word or a line, ever eat into what
\* was on the row before the line (erase_one).
THEOREM PromptsKept == ASSUME \A s \in Setups : Plain(s) PROVE Spec => PromptKept
<1>1. Init => LineInv
  BY InitLine
<1>2. LineInv /\ [Next]_vars => LineInv'
  BY NextLine
<1>3. LineInv /\ LineInv' /\ [Next]_vars =>
        [KeepsUp => \A n \in Slots : InUse(n)' => (IsPrefix(Prompt(n), Prompt(n)') \/ Row(n)' = <<>>)]_vars
  BY NextTurned, TurnedPrompt
<1> QED BY <1>1, <1>2, <1>3, PTL DEF Spec, PromptKept
=============================================================================
