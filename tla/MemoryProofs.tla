---------------------------- MODULE MemoryProofs ----------------------------
(***************************************************************************)
(* Proofs about the machine's pages, for any number of them and any room   *)
(* in the list of runs: every page is in one place.                        *)
(***************************************************************************)
EXTENDS Memory, Lemmas

----------------------------------------------------------------------------
(* Sequences.                                                              *)

LEMMA RemovedAt ==
  ASSUME NEW A, NEW s \in Seq(A), NEW i \in DOMAIN s
  PROVE  /\ RemoveAt(s, i) \in Seq(A) /\ Len(RemoveAt(s, i)) = Len(s) - 1 /\ DOMAIN RemoveAt(s, i) = 1 .. Len(s) - 1
         /\ \A k \in 1 .. Len(s) - 1 : RemoveAt(s, i)[k] = IF k < i THEN s[k] ELSE s[k + 1]
<1> DEFINE n == Len(s)
           a == SubSeq(s, 1, i - 1)
           b == SubSeq(s, i + 1, n)
           t == a \o b
<1>1. n \in Nat /\ i \in 1 .. n
  OBVIOUS
<1>2. /\ a \in Seq(A) /\ Len(a) = i - 1 /\ \A k \in 1 .. i - 1 : a[k] = s[k]
      /\ b \in Seq(A) /\ Len(b) = n - i /\ \A k \in 1 .. n - i : b[k] = s[i + k]
  BY <1>1
<1>3. RemoveAt(s, i) = t
  BY DEF RemoveAt
<1> HIDE DEF a, b, n
<1>4. t \in Seq(A) /\ Len(t) = n - 1
  <2>1. t \in Seq(A) /\ Len(t) = Len(a) + Len(b)
    BY <1>2, ConcatIs
  <2> HIDE DEF t
  <2> QED BY <1>1, <1>2, <2>1
<1>5. ASSUME NEW k \in 1 .. n - 1 PROVE t[k] = IF k < i THEN s[k] ELSE s[k + 1]
  <2>1. k \in 1 .. Len(a) + Len(b)
    BY <1>1, <1>2
  <2>2. t[k] = IF k <= Len(a) THEN a[k] ELSE b[k - Len(a)]
    BY <1>2, <2>1, ConcatAt
  <2>3. CASE k < i
    <3>1. k \in 1 .. i - 1 /\ k <= Len(a)
      BY <1>1, <1>2, <2>3
    <3> QED BY <1>2, <2>2, <2>3, <3>1
  <2>4. CASE ~(k < i)
    <3>1. k - Len(a) \in 1 .. n - i /\ ~(k <= Len(a)) /\ i + (k - Len(a)) = k + 1
      BY <1>1, <1>2, <2>4
    <3> QED BY <1>2, <2>2, <2>4, <3>1
  <2> QED BY <2>3, <2>4
<1> HIDE DEF t
<1>6. DOMAIN t = 1 .. n - 1
  BY <1>1, <1>4
<1> QED BY <1>3, <1>4, <1>5, <1>6 DEF n

LEMMA InsertedAt ==
  ASSUME NEW A, NEW s \in Seq(A), NEW i \in 1 .. Len(s) + 1, NEW e \in A
  PROVE  /\ InsertAt(s, i, e) \in Seq(A) /\ Len(InsertAt(s, i, e)) = Len(s) + 1 /\ DOMAIN InsertAt(s, i, e) = 1 .. Len(s) + 1
         /\ \A k \in 1 .. Len(s) + 1 : InsertAt(s, i, e)[k] = IF k < i THEN s[k] ELSE IF k = i THEN e ELSE s[k - 1]
<1> DEFINE n == Len(s)
           a == SubSeq(s, 1, i - 1)
           c == a \o <<e>>
           b == SubSeq(s, i, n)
           t == c \o b
<1>1. n \in Nat /\ i \in 1 .. n + 1
  OBVIOUS
<1>2. /\ a \in Seq(A) /\ Len(a) = i - 1 /\ \A k \in 1 .. i - 1 : a[k] = s[k]
      /\ b \in Seq(A) /\ Len(b) = n - i + 1 /\ \A k \in 1 .. n - i + 1 : b[k] = s[i + k - 1]
  <2>1. CASE i <= n
    BY <1>1, <2>1
  <2>2. CASE i = n + 1
    BY <1>1, <2>2
  <2> QED BY <1>1, <2>1, <2>2
<1>3. InsertAt(s, i, e) = t
  BY DEF InsertAt
<1> HIDE DEF a, b, n
<1>4. c \in Seq(A) /\ Len(c) = i /\ c[i] = e /\ \A k \in 1 .. i - 1 : c[k] = a[k]
  BY <1>1, <1>2
<1> HIDE DEF c
<1>5. t \in Seq(A) /\ Len(t) = n + 1
  <2>1. t \in Seq(A) /\ Len(t) = Len(c) + Len(b)
    BY <1>2, <1>4, ConcatIs
  <2> HIDE DEF t
  <2> QED BY <1>1, <1>2, <1>4, <2>1
<1>6. ASSUME NEW k \in 1 .. n + 1 PROVE t[k] = IF k < i THEN s[k] ELSE IF k = i THEN e ELSE s[k - 1]
  <2>1. k \in 1 .. Len(c) + Len(b)
    BY <1>1, <1>2, <1>4
  <2>2. t[k] = IF k <= Len(c) THEN c[k] ELSE b[k - Len(c)]
    BY <1>2, <1>4, <2>1, ConcatAt
  <2>3. CASE k < i
    <3>1. k \in 1 .. i - 1 /\ k <= Len(c)
      BY <1>1, <1>4, <2>3
    <3> QED BY <1>2, <1>4, <2>2, <2>3, <3>1
  <2>4. CASE k = i
    <3>1. k <= Len(c)
      BY <1>1, <1>4, <2>4
    <3> QED BY <1>1, <1>4, <2>2, <2>4, <3>1
  <2>5. CASE k > i
    <3>1. k - Len(c) \in 1 .. n - i + 1 /\ ~(k <= Len(c)) /\ i + (k - Len(c)) - 1 = k - 1
      BY <1>1, <1>4, <2>5
    <3>2. ~(k < i) /\ k # i
      BY <1>1, <2>5
    <3> QED BY <1>2, <2>2, <3>1, <3>2
  <2>6. k < i \/ k = i \/ k > i
    BY <1>1
  <2> HIDE DEF t
  <2> QED BY <2>3, <2>4, <2>5, <2>6
<1> HIDE DEF t
<1>7. DOMAIN t = 1 .. n + 1
  BY <1>1, <1>5
<1> QED BY <1>3, <1>5, <1>6, <1>7 DEF n

LEMMA Concatenated ==
  ASSUME NEW A, NEW a \in Seq(A), NEW b \in Seq(A)
  PROVE  /\ a \o b \in Seq(A) /\ ToSet(a \o b) = ToSet(a) \union ToSet(b)
         /\ IsInjective(a) /\ IsInjective(b) /\ ToSet(a) \intersect ToSet(b) = {} => IsInjective(a \o b)
<1> DEFINE t == a \o b
           n == Len(a)
           m == Len(b)
<1>1. /\ n \in Nat /\ m \in Nat /\ t \in Seq(A) /\ DOMAIN t = 1 .. n + m /\ DOMAIN a = 1 .. n /\ DOMAIN b = 1 .. m
      /\ \A k \in 1 .. n + m : t[k] = IF k <= n THEN a[k] ELSE b[k - n]
  BY ConcatAt, ConcatIs
<1> HIDE DEF t, n, m
<1>2. \A k \in 1 .. n + m : IF k <= n THEN k \in 1 .. n ELSE k - n \in 1 .. m
  BY <1>1
<1>3. ToSet(t) \subseteq ToSet(a) \union ToSet(b)
  <2> SUFFICES ASSUME NEW k \in 1 .. n + m PROVE t[k] \in ToSet(a) \union ToSet(b)
    BY <1>1 DEF ToSet
  <2>1. CASE k <= n
    BY <1>1, <1>2, <2>1 DEF ToSet
  <2>2. CASE ~(k <= n)
    BY <1>1, <1>2, <2>2 DEF ToSet
  <2> QED BY <2>1, <2>2
<1>4. ToSet(a) \subseteq ToSet(t)
  <2> SUFFICES ASSUME NEW k \in 1 .. n PROVE a[k] \in ToSet(t)
    BY <1>1 DEF ToSet
  <2>1. k \in 1 .. n + m /\ k <= n
    BY <1>1
  <2> QED BY <1>1, <2>1 DEF ToSet
<1>5. ToSet(b) \subseteq ToSet(t)
  <2> SUFFICES ASSUME NEW k \in 1 .. m PROVE b[k] \in ToSet(t)
    BY <1>1 DEF ToSet
  <2>1. k + n \in 1 .. n + m /\ ~(k + n <= n) /\ (k + n) - n = k
    BY <1>1
  <2> QED BY <1>1, <2>1 DEF ToSet
<1>6. ASSUME IsInjective(a), IsInjective(b), ToSet(a) \intersect ToSet(b) = {} PROVE IsInjective(t)
  <2> SUFFICES ASSUME NEW k \in 1 .. n + m, NEW l \in 1 .. n + m, t[k] = t[l] PROVE k = l
    BY <1>1 DEF IsInjective
  <2>1. CASE k <= n /\ l <= n
    BY <1>1, <1>2, <1>6, <2>1 DEF IsInjective
  <2>2. CASE ~(k <= n) /\ ~(l <= n)
    <3>1. k - n = l - n
      BY <1>1, <1>2, <1>6, <2>2 DEF IsInjective
    <3> QED BY <1>1, <3>1
  <2>3. CASE k <= n /\ ~(l <= n)
    BY <1>1, <1>2, <1>6, <2>3 DEF ToSet
  <2>4. CASE ~(k <= n) /\ l <= n
    BY <1>1, <1>2, <1>6, <2>4 DEF ToSet
  <2> QED BY <2>1, <2>2, <2>3, <2>4
<1> QED BY <1>1, <1>3, <1>4, <1>5, <1>6 DEF t

LEMMA Tailed ==
  ASSUME NEW A, NEW s \in Seq(A), s # <<>>
  PROVE  /\ Tail(s) \in Seq(A) /\ Len(Tail(s)) = Len(s) - 1 /\ DOMAIN Tail(s) = 1 .. Len(s) - 1
         /\ \A k \in 1 .. Len(s) - 1 : Tail(s)[k] = s[k + 1]
         /\ 1 \in DOMAIN s /\ Head(s) = s[1] /\ Head(s) \in A /\ ToSet(s) = {Head(s)} \union ToSet(Tail(s))
         /\ IsInjective(s) => IsInjective(Tail(s)) /\ Head(s) \notin ToSet(Tail(s))
<1> DEFINE t == Tail(s)
           n == Len(s)
<1>1. /\ n \in Nat \ {0} /\ DOMAIN s = 1 .. n /\ t \in Seq(A) /\ Len(t) = n - 1 /\ DOMAIN t = 1 .. n - 1
      /\ \A k \in 1 .. n - 1 : t[k] = s[k + 1]
      /\ Head(s) = s[1] /\ Head(s) \in A /\ 1 \in 1 .. n
  OBVIOUS
<1> HIDE DEF t, n
<1>2. ToSet(s) = {Head(s)} \union ToSet(t)
  <2>1. ASSUME NEW k \in 1 .. n PROVE s[k] \in {Head(s)} \union ToSet(t)
    <3>1. CASE k = 1
      BY <1>1, <3>1
    <3>2. CASE k # 1
      <4>1. k - 1 \in 1 .. n - 1 /\ (k - 1) + 1 = k
        BY <1>1, <3>2
      <4>2. t[k - 1] = s[k]
        BY <1>1, <4>1
      <4> QED BY <1>1, <4>1, <4>2 DEF ToSet
    <3> QED BY <3>1, <3>2
  <2>2. ASSUME NEW k \in 1 .. n - 1 PROVE t[k] \in ToSet(s)
    <3>1. k + 1 \in 1 .. n
      BY <1>1
    <3> QED BY <1>1, <3>1 DEF ToSet
  <2>3. Head(s) \in ToSet(s)
    BY <1>1 DEF ToSet
  <2> QED BY <1>1, <2>1, <2>2, <2>3 DEF ToSet
<1>3. ASSUME IsInjective(s) PROVE IsInjective(t) /\ Head(s) \notin ToSet(t)
  <2>1. ASSUME NEW k \in 1 .. n - 1, NEW l \in 1 .. n - 1, t[k] = t[l] PROVE k = l
    <3>1. k + 1 \in 1 .. n /\ l + 1 \in 1 .. n /\ s[k + 1] = s[l + 1]
      BY <1>1, <2>1
    <3>2. k + 1 = l + 1
      BY <1>1, <1>3, <3>1 DEF IsInjective
    <3> QED BY <1>1, <3>2
  <2>2. ASSUME NEW k \in 1 .. n - 1 PROVE t[k] # Head(s)
    <3>1. k + 1 \in 1 .. n /\ k + 1 # 1
      BY <1>1
    <3> QED BY <1>1, <1>3, <3>1 DEF IsInjective
  <2> QED BY <1>1, <2>1, <2>2 DEF IsInjective, ToSet
<1> QED BY <1>1, <1>2, <1>3 DEF t, n

\* From high down to low, and no further.
LEMMA DownIs ==
  ASSUME NEW low \in Nat \ {0}, NEW high \in Int
  PROVE  /\ Down(low, high) \in Seq(Nat \ {0}) /\ ToSet(Down(low, high)) = low .. high /\ IsInjective(Down(low, high))
<1> DEFINE n == high - low + 1
           t == Down(low, high)
<1>1. t = [i \in 1 .. n |-> high + 1 - i] /\ n \in Int
  BY DEF Down
<1>2. CASE n >= 0
  <2>1. n \in Nat /\ \A i \in 1 .. n : high + 1 - i \in Nat \ {0} /\ high + 1 - i \in low .. high
    BY <1>2
  <2>2. t \in Seq(Nat \ {0}) /\ DOMAIN t = 1 .. n /\ \A i \in 1 .. n : t[i] = high + 1 - i
    BY <1>1, <2>1
  <2>3. \A p \in low .. high : high + 1 - p \in 1 .. n /\ high + 1 - (high + 1 - p) = p
    OBVIOUS
  <2> HIDE DEF t
  <2>4. ToSet(t) = low .. high
    <3>1. \A p \in low .. high : p \in ToSet(t)
      BY <2>2, <2>3 DEF ToSet
    <3>2. \A p \in ToSet(t) : p \in low .. high
      BY <2>1, <2>2 DEF ToSet
    <3> QED BY <3>1, <3>2
  <2>5. IsInjective(t)
    <3>1. \A i, j \in 1 .. n : t[i] = t[j] => i = j
      BY <2>2
    <3> QED BY <2>2, <3>1 DEF IsInjective
  <2> QED BY <2>2, <2>4, <2>5 DEF t
<1>3. CASE ~(n >= 0)
  <2>1. 1 .. n = {} /\ low .. high = {}
    BY <1>3
  <2>2. t = <<>>
    BY <1>1, <2>1
  <2>3. t \in Seq(Nat \ {0}) /\ DOMAIN t = {}
    BY <2>2
  <2> HIDE DEF t
  <2> QED BY <2>1, <2>3 DEF t, ToSet, IsInjective
<1> QED BY <1>2, <1>3

\* How far the largest of some numbers and none reaches.
LEMMA MaxIs ==
  ASSUME NEW n \in Nat, NEW S, S \subseteq 0 .. n, S # {}
  PROVE  Max(S) \in S /\ \A y \in S : y <= Max(S)
<1> DEFINE R == {n - x : x \in S}
<1>1. R \subseteq Nat /\ R # {}
  <2>1. \A x \in S : n - x \in Nat
    OBVIOUS
  <2> QED BY <2>1
<1>2. PICK r \in R : \A y \in R : r <= y
  BY <1>1, Least
<1>3. PICK x \in S : r = n - x
  OBVIOUS
<1>4. ASSUME NEW y \in S PROVE x >= y
  <2>1. n - y \in R /\ x \in 0 .. n /\ y \in 0 .. n
    OBVIOUS
  <2> HIDE DEF R
  <2> QED BY <1>2, <1>3, <2>1
<1>5. \E z \in S : \A y \in S : z >= y
  BY <1>4
<1>6. Max(S) \in S /\ \A y \in S : Max(S) >= y
  BY <1>5 DEF Max
<1> QED BY <1>6

----------------------------------------------------------------------------
(* The list of runs.                                                       *)

Spans == [at : Nat \ {0}, count : Nat \ {0}]
RunsOK(rs) == rs \in Seq(Spans) /\ InOrder(rs)
Fits(rs, r, before, after) ==
  /\ \A j \in before : End(rs[j]) < r.at
  /\ \A j \in after : End(r) < rs[j].at

LEMMA Constants ==
  ASSUME machine \in Machines
  PROVE  /\ Top \in Nat \ {0} /\ RUNS \in Nat \ {0, 1} /\ FLOOR \in Nat \ {0} /\ LOOSE_FILL \in Nat \ {0}
         /\ LINE_PAGES \in Nat \ {0} /\ machine.Sizes \subseteq Nat \ {0} /\ machine.Limits \subseteq Nat
BY MemoryConstants DEF Top, RUNS, FLOOR, LOOSE_FILL, LINE_PAGES

LEMMA SpanOK ==
  ASSUME NEW at \in Nat \ {0}, NEW n \in Nat \ {0}
  PROVE  Span(at, n) \in Spans /\ Span(at, n).at = at /\ Span(at, n).count = n /\ End(Span(at, n)) = at + n
BY DEF Span, Spans, End

LEMMA RunOf ==
  ASSUME NEW rs \in Seq(Spans), NEW i \in DOMAIN rs
  PROVE  /\ rs[i] \in Spans /\ rs[i].at \in Nat \ {0} /\ rs[i].count \in Nat \ {0} /\ End(rs[i]) = rs[i].at + rs[i].count
         /\ End(rs[i]) \in Nat /\ Len(rs) \in Nat /\ DOMAIN rs = 1 .. Len(rs) /\ i \in 1 .. Len(rs)
         /\ \A p : p \in Run(rs[i].at, rs[i].count) <=> p \in Nat /\ rs[i].at <= p /\ p < End(rs[i])
<1>1. rs[i] \in Spans /\ Len(rs) \in Nat /\ DOMAIN rs = 1 .. Len(rs) /\ i \in 1 .. Len(rs)
  OBVIOUS
<1> DEFINE a == rs[i].at
           c == rs[i].count
<1>2. a \in Nat \ {0} /\ c \in Nat \ {0} /\ End(rs[i]) = a + c
  BY <1>1 DEF Spans, End
<1> HIDE DEF a, c
<1>3. a + c \in Nat /\ \A p : p \in Run(a, c) <=> p \in Nat /\ a <= p /\ p < a + c
  BY <1>2 DEF Run
<1> QED BY <1>1, <1>2, <1>3 DEF a, c

LEMMA InRunsIs ==
  ASSUME NEW rs \in Seq(Spans)
  PROVE  \A p : p \in InRuns(rs) <=> \E i \in DOMAIN rs : p \in Nat /\ rs[i].at <= p /\ p < End(rs[i])
BY RunOf DEF InRuns

\* A page is in one run.
LEMMA RunsApart ==
  ASSUME NEW rs, RunsOK(rs), NEW i \in DOMAIN rs, NEW j \in DOMAIN rs, NEW p,
         p \in Run(rs[i].at, rs[i].count), p \in Run(rs[j].at, rs[j].count)
  PROVE  i = j
<1>1. /\ p \in Nat /\ rs[i].at <= p /\ p < End(rs[i]) /\ rs[j].at <= p /\ p < End(rs[j]) /\ i \in Nat /\ j \in Nat
      /\ rs[i].at \in Nat /\ rs[j].at \in Nat /\ End(rs[i]) \in Nat /\ End(rs[j]) \in Nat
  BY RunOf DEF RunsOK
<1>2. /\ i < j => End(rs[i]) < rs[j].at
      /\ j < i => End(rs[j]) < rs[i].at
  BY DEF RunsOK, InOrder
<1> QED BY <1>1, <1>2

LEMMA BeforeIs ==
  ASSUME NEW rs, RunsOK(rs), NEW at \in Nat
  PROVE  Before(rs, at) \in 0 .. Len(rs) /\ \A j \in DOMAIN rs : rs[j].at < at <=> j <= Before(rs, at)
<1> DEFINE S == {0} \union {j \in DOMAIN rs : rs[j].at < at}
           b == Max(S)
<1>1. /\ Len(rs) \in Nat /\ DOMAIN rs = 1 .. Len(rs)
      /\ \A i \in DOMAIN rs : rs[i].at \in Nat /\ rs[i].count \in Nat \ {0} /\ End(rs[i]) = rs[i].at + rs[i].count
  BY RunOf DEF RunsOK
<1>2. S \subseteq 0 .. Len(rs) /\ S # {}
  BY <1>1
<1>3. b \in S /\ \A y \in S : y <= b
  <2> HIDE DEF S
  <2> QED BY <1>1, <1>2, MaxIs
<1> HIDE DEF b
<1>4. ASSUME NEW j \in DOMAIN rs, j <= b PROVE rs[j].at < at
  <2>1. b \in DOMAIN rs /\ rs[b].at < at /\ j \in 1 .. Len(rs)
    BY <1>1, <1>3, <1>4
  <2>2. CASE j = b
    BY <2>1, <2>2
  <2>3. CASE j # b
    <3>1. j < b
      BY <1>1, <1>4, <2>1, <2>3
    <3>2. End(rs[j]) < rs[b].at
      BY <2>1, <3>1 DEF RunsOK, InOrder
    <3> QED BY <1>1, <2>1, <3>2
  <2> QED BY <2>2, <2>3
<1>5. ASSUME NEW j \in DOMAIN rs, rs[j].at < at PROVE j <= b
  BY <1>3, <1>5
<1> QED BY <1>2, <1>3, <1>4, <1>5 DEF Before, b

LEMMA RunsRemoved ==
  ASSUME NEW rs, RunsOK(rs), NEW i \in DOMAIN rs, RUNS \in Nat
  PROVE  /\ RunsOK(RemoveAt(rs, i)) /\ Len(RemoveAt(rs, i)) = Len(rs) - 1
         /\ InRuns(RemoveAt(rs, i)) = InRuns(rs) \ Run(rs[i].at, rs[i].count)
<1> DEFINE t == RemoveAt(rs, i)
           n == Len(rs)
           from(k) == IF k < i THEN k ELSE k + 1
           to(k) == IF k < i THEN k ELSE k - 1
<1>1. /\ t \in Seq(Spans) /\ Len(t) = n - 1 /\ DOMAIN t = 1 .. n - 1 /\ n \in Nat /\ i \in 1 .. n /\ DOMAIN rs = 1 .. n
      /\ \A k \in 1 .. n - 1 : t[k] = IF k < i THEN rs[k] ELSE rs[k + 1]
  BY RemovedAt DEF RunsOK
<1>2. \A k \in 1 .. n - 1 : from(k) \in (1 .. n) \ {i} /\ t[k] = rs[from(k)]
  BY <1>1
<1>3. \A k \in (1 .. n) \ {i} : to(k) \in 1 .. n - 1 /\ from(to(k)) = k
  BY <1>1
<1>4. \A k, l \in 1 .. n - 1 : k < l => from(k) < from(l)
  BY <1>1
<1>5. Len(rs) <= RUNS /\ (\A k \in DOMAIN rs : rs[k].count > 0) /\ \A k, l \in DOMAIN rs : k < l => End(rs[k]) < rs[l].at
  BY DEF RunsOK, InOrder
<1>6. Len(t) <= RUNS
  BY <1>1, <1>5
<1> HIDE DEF t, n, from, to
<1>7. InOrder(t)
  <2>1. \A k \in DOMAIN t : t[k].count > 0
    BY <1>1, <1>2, <1>5
  <2>2. \A k, l \in DOMAIN t : k < l => End(t[k]) < t[l].at
    BY <1>1, <1>2, <1>4, <1>5
  <2> QED BY <1>6, <2>1, <2>2 DEF InOrder
<1>8. InRuns(t) \subseteq InRuns(rs) \ Run(rs[i].at, rs[i].count)
  <2> SUFFICES ASSUME NEW k \in 1 .. n - 1, NEW p \in Run(t[k].at, t[k].count)
               PROVE  p \in InRuns(rs) /\ p \notin Run(rs[i].at, rs[i].count)
    BY <1>1 DEF InRuns
  <2>1. from(k) \in DOMAIN rs /\ from(k) # i /\ p \in Run(rs[from(k)].at, rs[from(k)].count)
    BY <1>1, <1>2
  <2> QED BY <2>1, RunsApart DEF InRuns
<1>9. InRuns(rs) \ Run(rs[i].at, rs[i].count) \subseteq InRuns(t)
  <2> SUFFICES ASSUME NEW k \in DOMAIN rs, NEW p \in Run(rs[k].at, rs[k].count), p \notin Run(rs[i].at, rs[i].count)
               PROVE  p \in InRuns(t)
    BY DEF InRuns
  <2>1. k # i
    OBVIOUS
  <2>2. to(k) \in 1 .. n - 1 /\ t[to(k)] = rs[k]
    BY <1>1, <1>2, <1>3, <2>1
  <2> QED BY <1>1, <2>2 DEF InRuns
<1> QED BY <1>1, <1>7, <1>8, <1>9 DEF RunsOK, t, n

LEMMA RunsChanged ==
  ASSUME NEW rs, RunsOK(rs), NEW i \in DOMAIN rs, NEW r \in Spans, RUNS \in Nat,
         Fits(rs, r, 1 .. i - 1, i + 1 .. Len(rs))
  PROVE  /\ RunsOK([rs EXCEPT ![i] = r]) /\ Len([rs EXCEPT ![i] = r]) = Len(rs)
         /\ InRuns([rs EXCEPT ![i] = r]) = (InRuns(rs) \ Run(rs[i].at, rs[i].count)) \union Run(r.at, r.count)
<1> DEFINE t == [rs EXCEPT ![i] = r]
           n == Len(rs)
<1>1. /\ t \in Seq(Spans) /\ Len(t) = n /\ DOMAIN t = 1 .. n /\ n \in Nat /\ i \in 1 .. n /\ DOMAIN rs = 1 .. n
      /\ t[i] = r /\ \A k \in 1 .. n : k # i => t[k] = rs[k]
  BY DEF RunsOK
<1>2. n <= RUNS /\ (\A k \in 1 .. n : rs[k].count > 0) /\ \A k, l \in 1 .. n : k < l => End(rs[k]) < rs[l].at
  BY <1>1 DEF RunsOK, InOrder
<1>3. r.count > 0
  BY DEF Spans
<1>4. \A k \in 1 .. n : (k < i => k \in 1 .. i - 1) /\ (i < k => k \in i + 1 .. n)
  BY <1>1
<1> HIDE DEF t, n
<1>5. InOrder(t)
  <2>1. \A k \in DOMAIN t : t[k].count > 0
    BY <1>1, <1>2, <1>3
  <2>2. ASSUME NEW k \in 1 .. n, NEW l \in 1 .. n, k < l PROVE End(t[k]) < t[l].at
    <3>1. CASE k = i
      <4>1. l # i /\ l \in i + 1 .. n
        BY <1>4, <2>2, <3>1
      <4> QED BY <1>1, <3>1, <4>1 DEF Fits, n
    <3>2. CASE l = i
      <4>1. k # i /\ k \in 1 .. i - 1
        BY <1>4, <2>2, <3>2
      <4> QED BY <1>1, <3>2, <4>1 DEF Fits
    <3>3. CASE k # i /\ l # i
      BY <1>1, <1>2, <2>2, <3>3
    <3> QED BY <3>1, <3>2, <3>3
  <2> QED BY <1>1, <1>2, <2>1, <2>2 DEF InOrder
<1>6. InRuns(t) \subseteq (InRuns(rs) \ Run(rs[i].at, rs[i].count)) \union Run(r.at, r.count)
  <2> SUFFICES ASSUME NEW k \in 1 .. n, NEW p \in Run(t[k].at, t[k].count)
               PROVE  p \in Run(r.at, r.count) \/ (p \in InRuns(rs) /\ p \notin Run(rs[i].at, rs[i].count))
    BY <1>1 DEF InRuns
  <2>1. CASE k = i
    BY <1>1, <2>1
  <2>2. CASE k # i
    <3>1. k \in DOMAIN rs /\ p \in Run(rs[k].at, rs[k].count)
      BY <1>1, <2>2
    <3> QED BY <2>2, <3>1, RunsApart DEF InRuns
  <2> QED BY <2>1, <2>2
<1>7. (InRuns(rs) \ Run(rs[i].at, rs[i].count)) \subseteq InRuns(t)
  <2> SUFFICES ASSUME NEW k \in 1 .. n, NEW p \in Run(rs[k].at, rs[k].count), p \notin Run(rs[i].at, rs[i].count)
               PROVE  p \in InRuns(t)
    BY <1>1 DEF InRuns
  <2>1. k # i /\ t[k] = rs[k]
    BY <1>1
  <2> QED BY <1>1, <2>1 DEF InRuns
<1>8. Run(r.at, r.count) \subseteq InRuns(t)
  BY <1>1 DEF InRuns
<1> QED BY <1>1, <1>5, <1>6, <1>7, <1>8 DEF RunsOK, t, n

LEMMA RunsInserted ==
  ASSUME NEW rs, RunsOK(rs), NEW i \in 1 .. Len(rs) + 1, NEW r \in Spans, RUNS \in Nat, Len(rs) < RUNS,
         Fits(rs, r, 1 .. i - 1, i .. Len(rs))
  PROVE  /\ RunsOK(InsertAt(rs, i, r)) /\ Len(InsertAt(rs, i, r)) = Len(rs) + 1
         /\ InsertAt(rs, i, r)[i] = r /\ i \in DOMAIN InsertAt(rs, i, r)
         /\ InRuns(InsertAt(rs, i, r)) = InRuns(rs) \union Run(r.at, r.count)
<1> DEFINE t == InsertAt(rs, i, r)
           n == Len(rs)
           from(k) == IF k < i THEN k ELSE k - 1
           to(k) == IF k < i THEN k ELSE k + 1
<1>1. /\ t \in Seq(Spans) /\ Len(t) = n + 1 /\ DOMAIN t = 1 .. n + 1 /\ n \in Nat /\ i \in 1 .. n + 1 /\ DOMAIN rs = 1 .. n
      /\ \A k \in 1 .. n + 1 : t[k] = IF k < i THEN rs[k] ELSE IF k = i THEN r ELSE rs[k - 1]
  <2>1. rs \in Seq(Spans) /\ n \in Nat /\ DOMAIN rs = 1 .. n
    BY DEF RunsOK
  <2>2. /\ t \in Seq(Spans) /\ Len(t) = n + 1 /\ DOMAIN t = 1 .. n + 1
        /\ \A k \in 1 .. n + 1 : t[k] = IF k < i THEN rs[k] ELSE IF k = i THEN r ELSE rs[k - 1]
    BY <2>1, InsertedAt
  <2> HIDE DEF t
  <2> QED BY <2>1, <2>2
<1>2. t[i] = r /\ \A k \in (1 .. n + 1) \ {i} : from(k) \in 1 .. n /\ t[k] = rs[from(k)]
  BY <1>1
<1>3. \A k \in 1 .. n : to(k) \in (1 .. n + 1) \ {i} /\ from(to(k)) = k
  BY <1>1
<1>4. \A k \in (1 .. n + 1) \ {i} : /\ k < i => from(k) \in 1 .. i - 1
                                    /\ i < k => from(k) \in i .. n
                                    /\ \A l \in (1 .. n + 1) \ {i} : k < l => from(k) < from(l)
  BY <1>1
<1>5. n < RUNS /\ (\A k \in 1 .. n : rs[k].count > 0) /\ \A k, l \in 1 .. n : k < l => End(rs[k]) < rs[l].at
  BY <1>1 DEF RunsOK, InOrder
<1>6. r.count > 0 /\ Len(t) <= RUNS
  BY <1>1, <1>5 DEF Spans
<1> HIDE DEF t, n, from, to
<1>7. InOrder(t)
  <2>1. \A k \in DOMAIN t : t[k].count > 0
    BY <1>1, <1>2, <1>5, <1>6
  <2>2. ASSUME NEW k \in 1 .. n + 1, NEW l \in 1 .. n + 1, k < l PROVE End(t[k]) < t[l].at
    <3>1. CASE k = i
      <4>1. l # i /\ from(l) \in i .. n /\ t[l] = rs[from(l)]
        BY <1>1, <1>2, <1>4, <2>2, <3>1
      <4> QED BY <1>2, <3>1, <4>1 DEF Fits, n
    <3>2. CASE l = i
      <4>1. k # i /\ from(k) \in 1 .. i - 1 /\ t[k] = rs[from(k)]
        BY <1>1, <1>2, <1>4, <2>2, <3>2
      <4> QED BY <1>2, <3>2, <4>1 DEF Fits
    <3>3. CASE k # i /\ l # i
      BY <1>2, <1>4, <1>5, <2>2, <3>3
    <3> QED BY <3>1, <3>2, <3>3
  <2> QED BY <1>1, <1>6, <2>1, <2>2 DEF InOrder
<1>8. InRuns(t) \subseteq InRuns(rs) \union Run(r.at, r.count)
  BY <1>1, <1>2 DEF InRuns
<1>9. InRuns(rs) \subseteq InRuns(t)
  <2> SUFFICES ASSUME NEW k \in 1 .. n, NEW p \in Run(rs[k].at, rs[k].count) PROVE p \in InRuns(t)
    BY <1>1 DEF InRuns
  <2>1. to(k) \in 1 .. n + 1 /\ t[to(k)] = rs[k]
    BY <1>2, <1>3
  <2> QED BY <1>1, <2>1 DEF InRuns
<1>10. Run(r.at, r.count) \subseteq InRuns(t)
  BY <1>1, <1>2 DEF InRuns
<1> QED BY <1>1, <1>2, <1>7, <1>8, <1>9, <1>10 DEF RunsOK, t, n


----------------------------------------------------------------------------
(* What a call works on.                                                   *)

IsWorld(m) == m \in [runs : Seq(Spans), loose : Seq(Nat \ {0}), lost : SUBSET Nat, lent : Seq(Nat \ {0}), at : Nat]
Is(g, rs, s, L, ls, at) ==
  IsWorld(g) /\ g.runs = rs /\ g.loose = s /\ g.lost = L /\ g.lent = ls /\ g.at = at

LEMMA WorldIs ==
  ASSUME NEW m, IsWorld(m)
  PROVE  m.runs \in Seq(Spans) /\ m.loose \in Seq(Nat \ {0}) /\ m.lost \subseteq Nat /\ m.lent \in Seq(Nat \ {0}) /\ m.at \in Nat
BY DEF IsWorld

LEMMA Parts ==
  ASSUME NEW m, IsWorld(m)
  PROVE  /\ \A rs \in Seq(Spans) : Is(RunsAre(m, rs), rs, m.loose, m.lost, m.lent, m.at)
         /\ \A s \in Seq(Nat \ {0}) : Is(LooseIs(m, s), m.runs, s, m.lost, m.lent, m.at)
         /\ \A L \in SUBSET Nat : Is(LostIs(m, L), m.runs, m.loose, L, m.lent, m.at)
         /\ \A ls \in Seq(Nat \ {0}) : Is(LentIs(m, ls), m.runs, m.loose, m.lost, ls, m.at)
         /\ \A at \in Nat : Is(AtIs(m, at), m.runs, m.loose, m.lost, m.lent, at)
<1> DEFINE R == Seq(Spans)
           N == Seq(Nat \ {0})
           T == SUBSET Nat
<1>1. m \in [runs : R, loose : N, lost : T, lent : N, at : Nat]
  BY DEF IsWorld
<1>2. \A g : IsWorld(g) <=> g \in [runs : R, loose : N, lost : T, lent : N, at : Nat]
  BY DEF IsWorld
<1> HIDE DEF R, N, T
<1>3. ASSUME NEW rs \in R PROVE Is(RunsAre(m, rs), rs, m.loose, m.lost, m.lent, m.at)
  BY <1>1, <1>2 DEF RunsAre, Is
<1>4. ASSUME NEW s \in N PROVE Is(LooseIs(m, s), m.runs, s, m.lost, m.lent, m.at)
  BY <1>1, <1>2 DEF LooseIs, Is
<1>5. ASSUME NEW L \in T PROVE Is(LostIs(m, L), m.runs, m.loose, L, m.lent, m.at)
  BY <1>1, <1>2 DEF LostIs, Is
<1>6. ASSUME NEW ls \in N PROVE Is(LentIs(m, ls), m.runs, m.loose, m.lost, ls, m.at)
  BY <1>1, <1>2 DEF LentIs, Is
<1>7. ASSUME NEW at \in Nat PROVE Is(AtIs(m, at), m.runs, m.loose, m.lost, m.lent, at)
  BY <1>1, <1>2 DEF AtIs, Is
<1> QED BY <1>3, <1>4, <1>5, <1>6, <1>7 DEF R, N, T

\* What the kernel has of its own, each page once.
Split(rs, s, L) ==
  /\ RunsOK(rs) /\ s \in Seq(Nat \ {0}) /\ IsInjective(s) /\ L \subseteq Nat
  /\ InRuns(rs) \intersect ToSet(s) = {} /\ InRuns(rs) \intersect L = {} /\ ToSet(s) \intersect L = {}
Sound(m) == IsWorld(m) /\ Split(m.runs, m.loose, m.lost)
All(m) == InRuns(m.runs) \union ToSet(m.loose) \union m.lost

\* g is m with the pages of S more.
Grown(g, m, S) == Sound(g) /\ All(g) = All(m) \union S /\ g.lent = m.lent /\ g.at = m.at

LEMMA InRunsPages ==
  ASSUME NEW rs \in Seq(Spans) PROVE InRuns(rs) \subseteq Nat \ {0}
BY RunOf, InRunsIs

\* loosen: the pages above the gigabyte are on the chain, the others lost, whatever runs there are beside.
Loosened(g, m, rs, at, n) ==
  /\ Is(g, m.runs, g.loose, g.lost, m.lent, m.at) /\ Split(rs, g.loose, g.lost)
  /\ ToSet(g.loose) \union g.lost = ToSet(m.loose) \union m.lost \union Run(at, n)
  /\ at >= FLOOR => g.lost = m.lost
LEMMA LoosenIs ==
  ASSUME machine \in Machines, NEW m, IsWorld(m), NEW rs, Split(rs, m.loose, m.lost), NEW at \in Nat \ {0}, NEW n \in Nat,
         Run(at, n) \intersect (InRuns(rs) \union ToSet(m.loose) \union m.lost) = {}
  PROVE  Loosened(Loosen(m, at, n), m, rs, at, n)
<1> DEFINE low == Max({at, FLOOR})
           d == Down(low, at + n - 1)
           s == d \o m.loose
           c == LooseIs(m, s)
           B == {p \in Run(at, n) : p < FLOOR}
           g == Loosen(m, at, n)
           A == InRuns(rs) \union ToSet(m.loose) \union m.lost
<1>1. FLOOR \in Nat \ {0}
  BY Constants
<1>2. low \in Nat \ {0} /\ low >= at /\ low >= FLOOR /\ (low = at \/ low = FLOOR)
  <2>1. {at, FLOOR} \subseteq 0 .. at + FLOOR /\ {at, FLOOR} # {} /\ at + FLOOR \in Nat
    BY <1>1
  <2>2. low \in {at, FLOOR} /\ \A y \in {at, FLOOR} : y <= low
    BY <2>1, MaxIs
  <2> HIDE DEF low
  <2> QED BY <1>1, <2>2
<1> HIDE DEF low
<1>3. d \in Seq(Nat \ {0}) /\ ToSet(d) = low .. at + n - 1 /\ IsInjective(d)
  <2>1. at + n - 1 \in Int
    OBVIOUS
  <2> QED BY <1>2, <2>1, DownIs
<1>4. /\ ToSet(d) \union B = Run(at, n) /\ ToSet(d) \intersect B = {} /\ B \subseteq Nat
      /\ at >= FLOOR => B = {}
  BY <1>1, <1>2, <1>3 DEF Run
<1> HIDE DEF d, B
<1>5. m.loose \in Seq(Nat \ {0}) /\ m.lost \subseteq Nat
  BY WorldIs
<1>6. Run(at, n) \intersect A = {} /\ ToSet(d) \intersect A = {} /\ B \intersect A = {}
  BY <1>4
<1>7. s \in Seq(Nat \ {0}) /\ ToSet(s) = ToSet(d) \union ToSet(m.loose) /\ IsInjective(s)
  <2>1. ToSet(d) \intersect ToSet(m.loose) = {} /\ IsInjective(m.loose)
    BY <1>6 DEF Split
  <2>2. /\ s \in Seq(Nat \ {0}) /\ ToSet(s) = ToSet(d) \union ToSet(m.loose)
        /\ IsInjective(d) /\ IsInjective(m.loose) /\ ToSet(d) \intersect ToSet(m.loose) = {} => IsInjective(s)
    BY <1>3, <1>5, Concatenated
  <2> HIDE DEF s
  <2> QED BY <1>3, <2>1, <2>2
<1> HIDE DEF s
<1>8. Is(c, m.runs, s, m.lost, m.lent, m.at)
  BY <1>5, <1>7, Parts
<1>9. Is(g, m.runs, s, m.lost \union B, m.lent, m.at)
  <2>1. g = LostIs(c, m.lost \union B)
    BY DEF Loosen, low, d, s, B
  <2>2. m.lost \union B \in SUBSET Nat
    BY <1>4, <1>5
  <2>3. IsWorld(c) /\ c.runs = m.runs /\ c.loose = s /\ c.lent = m.lent /\ c.at = m.at
    BY <1>8 DEF Is
  <2> DEFINE L == m.lost \union B
  <2> HIDE DEF c, g, L
  <2>4. Is(LostIs(c, L), c.runs, c.loose, L, c.lent, c.at)
    BY <2>2, <2>3, Parts DEF L
  <2> QED BY <2>1, <2>3, <2>4 DEF L
<1> HIDE DEF g, c
<1>10. Split(rs, s, m.lost \union B)
  <2>1. InRuns(rs) \intersect ToSet(s) = {}
    BY <1>6, <1>7 DEF Split
  <2>2. InRuns(rs) \intersect (m.lost \union B) = {}
    BY <1>6, <1>7 DEF Split
  <2>3. ToSet(s) \intersect (m.lost \union B) = {}
    BY <1>4, <1>6, <1>7 DEF Split
  <2> QED BY <1>4, <1>5, <1>7, <2>1, <2>2, <2>3 DEF Split
<1>11. ToSet(s) \union (m.lost \union B) = ToSet(m.loose) \union m.lost \union Run(at, n)
  BY <1>4, <1>7
<1>12. g.loose = s /\ g.lost = m.lost \union B /\ (at >= FLOOR => g.lost = m.lost)
  BY <1>4, <1>9 DEF Is
<1>13. /\ Is(g, m.runs, g.loose, g.lost, m.lent, m.at) /\ Split(rs, g.loose, g.lost)
       /\ ToSet(g.loose) \union g.lost = ToSet(m.loose) \union m.lost \union Run(at, n)
  BY <1>9, <1>10, <1>11, <1>12
<1> QED BY <1>12, <1>13 DEF Loosened, g

LEMMA LoosenGood ==
  ASSUME machine \in Machines, NEW m, Sound(m), NEW at \in Nat \ {0}, NEW n \in Nat, Run(at, n) \intersect All(m) = {}
  PROVE  /\ Grown(Loosen(m, at, n), m, Run(at, n)) /\ Loosen(m, at, n).runs = m.runs
         /\ at >= FLOOR => Loosen(m, at, n).lost = m.lost
<1> DEFINE g == Loosen(m, at, n)
<1>1. IsWorld(m) /\ Split(m.runs, m.loose, m.lost)
  BY DEF Sound
<1>2. Run(at, n) \intersect (InRuns(m.runs) \union ToSet(m.loose) \union m.lost) = {}
  BY DEF All
<1>3. /\ Is(g, m.runs, g.loose, g.lost, m.lent, m.at) /\ Split(m.runs, g.loose, g.lost)
      /\ ToSet(g.loose) \union g.lost = ToSet(m.loose) \union m.lost \union Run(at, n)
      /\ at >= FLOOR => g.lost = m.lost
  <2>1. Loosened(g, m, m.runs, at, n)
    BY <1>1, <1>2, LoosenIs
  <2> HIDE DEF g
  <2> QED BY <2>1 DEF Loosened
<1> HIDE DEF g
<1>4. IsWorld(g) /\ g.runs = m.runs /\ g.lent = m.lent /\ g.at = m.at
  BY <1>3 DEF Is
<1>5. Sound(g) /\ All(g) = All(m) \union Run(at, n)
  BY <1>3, <1>4 DEF Sound, All
<1> QED BY <1>3, <1>4, <1>5 DEF Grown, g

\* The smallest run there is one of.
LEMMA SmallestIs ==
  ASSUME NEW rs, RunsOK(rs), rs # <<>>
  PROVE  Smallest(rs) \in DOMAIN rs /\ (High(rs) # {} => Smallest(rs) \in High(rs))
<1> DEFINE S == IF High(rs) # {} THEN High(rs) ELSE DOMAIN rs
           f == [i \in DOMAIN rs |-> rs[i].count]
           Best(i) == \A j \in S \ {i} : rs[i].count < rs[j].count \/ (rs[i].count = rs[j].count /\ i < j)
<1>1. S \subseteq DOMAIN rs /\ S # {} /\ DOMAIN rs \subseteq Nat
  BY DEF High, RunsOK
<1>2. \A i \in DOMAIN rs : f[i] \in Nat /\ f[i] = rs[i].count
  BY RunOf DEF RunsOK
<1>3. \E i \in S : Best(i)
  <2> HIDE DEF S, f
  <2>1. \E i \in S : \A j \in S \ {i} : f[i] < f[j] \/ (f[i] = f[j] /\ i < j)
    BY <1>1, <1>2, FirstLeast
  <2> QED BY <1>1, <1>2, <2>1
<1>4. Smallest(rs) = CHOOSE i \in S : Best(i)
  BY DEF Smallest
<1> HIDE DEF Best
<1>5. Smallest(rs) \in S
  <2> HIDE DEF S
  <2> QED BY <1>3, <1>4
<1> QED BY <1>1, <1>5

----------------------------------------------------------------------------
(* run_add.                                                                *)

LEMMA RunsOf ==
  ASSUME NEW rs, RunsOK(rs)
  PROVE  /\ rs \in Seq(Spans) /\ Len(rs) \in Nat /\ DOMAIN rs = 1 .. Len(rs) /\ Len(rs) <= RUNS
         /\ \A j \in DOMAIN rs : rs[j].at \in Nat \ {0} /\ rs[j].count \in Nat \ {0} /\ End(rs[j]) = rs[j].at + rs[j].count
                                 /\ End(rs[j]) \in Nat
         /\ \A j, k \in DOMAIN rs : j < k => End(rs[j]) < rs[k].at
<1>1. rs \in Seq(Spans) /\ Len(rs) <= RUNS /\ \A j, k \in DOMAIN rs : j < k => End(rs[j]) < rs[k].at
  BY DEF RunsOK, InOrder
<1>2. Len(rs) \in Nat /\ DOMAIN rs = 1 .. Len(rs)
  BY <1>1
<1> QED BY <1>1, <1>2, RunOf

\* Where pages of none of the runs are among them.
LEMMA Around ==
  ASSUME NEW rs, RunsOK(rs), NEW at \in Nat \ {0}, NEW n \in Nat \ {0}, Run(at, n) \intersect InRuns(rs) = {}
  PROVE  /\ Before(rs, at) \in 0 .. Len(rs)
         /\ \A j \in DOMAIN rs : /\ j <= Before(rs, at) => End(rs[j]) <= at
                                 /\ j < Before(rs, at) => End(rs[j]) < at
                                 /\ Before(rs, at) < j => at + n <= rs[j].at
                                 /\ Before(rs, at) + 1 < j => at + n < rs[j].at
<1> DEFINE i == Before(rs, at)
<1>1. i \in 0 .. Len(rs) /\ \A j \in DOMAIN rs : rs[j].at < at <=> j <= i
  BY BeforeIs
<1>2. /\ DOMAIN rs = 1 .. Len(rs) /\ Len(rs) \in Nat /\ rs \in Seq(Spans)
      /\ \A j \in DOMAIN rs : rs[j].at \in Nat \ {0} /\ rs[j].count \in Nat \ {0} /\ End(rs[j]) = rs[j].at + rs[j].count
      /\ \A j, k \in DOMAIN rs : j < k => End(rs[j]) < rs[k].at
  BY RunsOf
<1> HIDE DEF i
<1>4. ASSUME NEW j \in DOMAIN rs PROVE (j <= i => End(rs[j]) <= at) /\ (i < j => at + n <= rs[j].at)
  <2> DEFINE a == rs[j].at
             e == End(rs[j])
  <2>1. at \in Run(at, n) /\ at \notin InRuns(rs)
    BY DEF Run
  <2>2. a \in Nat \ {0} /\ e \in Nat /\ a < e /\ j \in Nat /\ (a < at <=> j <= i) /\ i \in Nat
    BY <1>1, <1>2
  <2>3. a \in InRuns(rs)
    <3>1. a \in Run(rs[j].at, rs[j].count)
      BY SMTT(60), <1>2, <2>2, RunOf
    <3> HIDE DEF a
    <3> QED BY <3>1 DEF InRuns
  <2>4. ~(a <= at /\ at < e)
    BY <1>2, <2>1, InRunsIs
  <2> HIDE DEF a, e
  <2>5. ~(at <= a /\ a < at + n)
    BY <2>2, <2>3 DEF Run
  <2>6. (j <= i => e <= at) /\ (i < j => at + n <= a)
    BY <2>2, <2>4, <2>5
  <2> QED BY <2>6 DEF a, e
<1>5. ASSUME NEW j \in DOMAIN rs, j < i PROVE End(rs[j]) < at
  <2>1. i \in DOMAIN rs /\ j < i
    BY <1>1, <1>2, <1>5
  <2>2. End(rs[j]) < rs[i].at /\ rs[i].at < at
    BY <1>1, <1>2, <2>1
  <2> QED BY <1>2, <2>1, <2>2
<1>6. ASSUME NEW j \in DOMAIN rs, i + 1 < j PROVE at + n < rs[j].at
  <2>1. i + 1 \in DOMAIN rs /\ i < i + 1
    BY <1>1, <1>2, <1>6
  <2>2. End(rs[i + 1]) < rs[j].at /\ at + n <= rs[i + 1].at
    BY <1>2, <1>4, <1>6, <2>1
  <2> QED BY <1>2, <2>1, <2>2
<1> QED BY <1>1, <1>4, <1>5, <1>6 DEF i

\* t has the pages of S more than rs, and no more runs than k.
Adds(t, rs, S, k) == RunsOK(t) /\ InRuns(t) = InRuns(rs) \union S /\ Len(t) <= k

\* A run longer by pages that no other run is near.
LEMMA Lengthened ==
  ASSUME NEW rs, RunsOK(rs), NEW i \in DOMAIN rs, NEW r \in Spans, RUNS \in Nat, NEW S,
         Fits(rs, r, 1 .. i - 1, i + 1 .. Len(rs)), Run(r.at, r.count) = Run(rs[i].at, rs[i].count) \union S
  PROVE  Adds([rs EXCEPT ![i] = r], rs, S, Len(rs))
<1> DEFINE t == [rs EXCEPT ![i] = r]
<1>1. /\ RunsOK(t) /\ Len(t) = Len(rs)
      /\ InRuns(t) = (InRuns(rs) \ Run(rs[i].at, rs[i].count)) \union Run(r.at, r.count)
  BY RunsChanged
<1>2. Len(rs) \in Nat
  BY RunsOf
<1> HIDE DEF t
<1>3. Run(rs[i].at, rs[i].count) \subseteq InRuns(rs)
  BY DEF InRuns
<1>4. Adds(t, rs, S, Len(rs))
  <2> DEFINE X == Run(rs[i].at, rs[i].count)
             Y == Run(r.at, r.count)
  <2>1. Y = X \union S /\ X \subseteq InRuns(rs) /\ InRuns(t) = (InRuns(rs) \ X) \union Y
    BY <1>1, <1>3
  <2> HIDE DEF X, Y
  <2> QED BY <1>1, <1>2, <2>1 DEF Adds
<1> QED BY <1>4 DEF t

\* Pages side by side.
Meet(at, n, k) == Run(at, n + k) = Run(at, n) \union Run(at + n, k)
LEMMA RunsMeet == ASSUME NEW at \in Nat, NEW n \in Nat, NEW k \in Nat PROVE Meet(at, n, k)
BY DEF Run, Meet

LEMMA JoinOnto ==
  ASSUME NEW rs, RunsOK(rs), NEW at \in Nat \ {0}, NEW n \in Nat \ {0}, RUNS \in Nat, NEW i \in DOMAIN rs,
         Run(at, n) \intersect InRuns(rs) = {}, i = Before(rs, at), End(rs[i]) = at,
         i < Len(rs) => at + n # rs[i + 1].at
  PROVE  Adds(Longer(rs, i, rs[i].count + n), rs, Run(at, n), Len(rs))
<1> DEFINE a == rs[i].at
           k == rs[i].count
           r == Span(a, k + n)
<1>1. /\ i \in 1 .. Len(rs) /\ Len(rs) \in Nat /\ DOMAIN rs = 1 .. Len(rs)
      /\ \A j \in DOMAIN rs : rs[j].at \in Nat /\ (i < j => End(rs[i]) < rs[j].at) /\ (j < i => End(rs[j]) < rs[i].at)
      /\ a \in Nat \ {0} /\ k \in Nat \ {0} /\ a + k = at
  BY RunsOf
<1>2. \A j \in DOMAIN rs : (i < j => at + n <= rs[j].at) /\ (i + 1 < j => at + n < rs[j].at)
  BY Around
<1>3. Longer(rs, i, k + n) = [rs EXCEPT ![i] = r]
  BY DEF Longer
<1>4. Run(a, k + n) = Run(a, k) \union Run(at, n)
  <2> HIDE DEF a, k
  <2>1. a \in Nat /\ k \in Nat /\ a + k = at
    BY <1>1
  <2>2. Meet(a, k, n)
    BY <2>1, RunsMeet
  <2> QED BY <2>1, <2>2 DEF Meet
<1>5. r \in Spans /\ r.at = a /\ r.count = k + n /\ End(r) = at + n
  <2> HIDE DEF a, k
  <2>1. a \in Nat \ {0} /\ k + n \in Nat \ {0} /\ a + (k + n) = at + n
    BY <1>1
  <2>2. r \in Spans /\ r.at = a /\ r.count = k + n /\ End(r) = a + (k + n)
    BY <2>1, SpanOK
  <2> QED BY <2>1, <2>2
<1> HIDE DEF r
<1>6. Fits(rs, r, 1 .. i - 1, i + 1 .. Len(rs))
  <2>1. ASSUME NEW j \in 1 .. i - 1 PROVE End(rs[j]) < r.at
    <3>1. j \in DOMAIN rs /\ j < i
      BY <1>1
    <3> QED BY <1>1, <1>5, <3>1
  <2>2. ASSUME NEW j \in i + 1 .. Len(rs) PROVE End(r) < rs[j].at
    <3>1. j \in DOMAIN rs /\ i < j /\ (j = i + 1 \/ i + 1 < j)
      BY <1>1
    <3>2. at + n <= rs[j].at /\ (i + 1 < j => at + n < rs[j].at) /\ rs[j].at \in Nat
      BY <1>1, <1>2, <3>1
    <3>3. CASE j = i + 1
      <4>1. at + n # rs[j].at
        BY <1>1, <3>3
      <4> QED BY <1>5, <3>2, <4>1
    <3>4. CASE i + 1 < j
      BY <1>5, <3>2, <3>4
    <3> QED BY <3>1, <3>3, <3>4
  <2> QED BY <2>1, <2>2 DEF Fits
<1>7. Adds([rs EXCEPT ![i] = r], rs, Run(at, n), Len(rs))
  BY <1>4, <1>5, <1>6, Lengthened
<1> QED BY <1>3, <1>7

LEMMA JoinUnder ==
  ASSUME NEW rs, RunsOK(rs), NEW at \in Nat \ {0}, NEW n \in Nat \ {0}, RUNS \in Nat, NEW k \in DOMAIN rs,
         Run(at, n) \intersect InRuns(rs) = {}, k = Before(rs, at) + 1, at + n = rs[k].at,
         k > 1 => End(rs[k - 1]) # at
  PROVE  Adds([rs EXCEPT ![k] = Span(at, n + rs[k].count)], rs, Run(at, n), Len(rs))
<1> DEFINE a == rs[k].at
           c == rs[k].count
           r == Span(at, n + c)
<1>1. /\ k \in 1 .. Len(rs) /\ Len(rs) \in Nat /\ DOMAIN rs = 1 .. Len(rs)
      /\ \A j \in DOMAIN rs : End(rs[j]) \in Nat /\ (k < j => End(rs[k]) < rs[j].at) /\ (j < k => End(rs[j]) < rs[k].at)
      /\ a \in Nat \ {0} /\ c \in Nat \ {0} /\ End(rs[k]) = a + c /\ a = at + n
  BY RunsOf
<1>2. \A j \in DOMAIN rs : (j <= k - 1 => End(rs[j]) <= at) /\ (j < k - 1 => End(rs[j]) < at)
  <2>1. Before(rs, at) = k - 1
    BY <1>1, Around
  <2> QED BY <2>1, Around
<1>4. Run(at, n + c) = Run(a, c) \union Run(at, n)
  <2> HIDE DEF a, c
  <2>1. c \in Nat /\ a = at + n
    BY <1>1
  <2>2. Meet(at, n, c)
    BY <2>1, RunsMeet
  <2> QED BY <2>1, <2>2 DEF Meet
<1>5. r \in Spans /\ r.at = at /\ r.count = n + c /\ End(r) = End(rs[k])
  <2> HIDE DEF a, c
  <2>1. n + c \in Nat \ {0} /\ at + (n + c) = a + c
    BY <1>1
  <2>2. r \in Spans /\ r.at = at /\ r.count = n + c /\ End(r) = at + (n + c)
    BY <2>1, SpanOK
  <2> QED BY <1>1, <2>1, <2>2
<1> HIDE DEF r
<1>6. Fits(rs, r, 1 .. k - 1, k + 1 .. Len(rs))
  <2>1. ASSUME NEW j \in 1 .. k - 1 PROVE End(rs[j]) < r.at
    <3>1. j \in DOMAIN rs /\ j <= k - 1 /\ (j = k - 1 \/ j < k - 1)
      BY <1>1
    <3>2. End(rs[j]) <= at /\ (j < k - 1 => End(rs[j]) < at) /\ End(rs[j]) \in Nat
      BY <1>1, <1>2, <3>1
    <3>3. CASE j = k - 1
      <4>1. End(rs[j]) # at
        BY <1>1, <3>3
      <4> QED BY <1>5, <3>2, <4>1
    <3>4. CASE j < k - 1
      BY <1>5, <3>2, <3>4
    <3> QED BY <3>1, <3>3, <3>4
  <2>2. ASSUME NEW j \in k + 1 .. Len(rs) PROVE End(r) < rs[j].at
    <3>1. j \in DOMAIN rs /\ k < j
      BY <1>1
    <3> QED BY <1>1, <1>5, <3>1
  <2> QED BY <2>1, <2>2 DEF Fits
<1>7. Adds([rs EXCEPT ![k] = r], rs, Run(at, n), Len(rs))
  BY <1>4, <1>5, <1>6, Lengthened
<1> QED BY <1>7 DEF r

LEMMA JoinBoth ==
  ASSUME NEW rs, RunsOK(rs), NEW at \in Nat \ {0}, NEW n \in Nat \ {0}, RUNS \in Nat, NEW i \in DOMAIN rs, i + 1 \in DOMAIN rs,
         End(rs[i]) = at, at + n = rs[i + 1].at
  PROVE  Adds(RemoveAt(Longer(rs, i, rs[i].count + n + rs[i + 1].count), i + 1), rs, Run(at, n), Len(rs) - 1)
<1> DEFINE a == rs[i].at
           k == rs[i].count
           b == rs[i + 1].at
           c == rs[i + 1].count
           r == Span(a, k + n + c)
           l == Longer(rs, i, k + n + c)
           t == RemoveAt(l, i + 1)
           u == RemoveAt(rs, i + 1)
           v == [u EXCEPT ![i] = r]
           N == Len(rs)
<1>1. /\ a \in Nat \ {0} /\ k \in Nat \ {0} /\ b \in Nat \ {0} /\ c \in Nat \ {0} /\ a + k = at /\ at + n = b
      /\ End(rs[i + 1]) = b + c
  BY RunsOf
<1>2. /\ i \in 1 .. N /\ N \in Nat /\ i + 1 \in 1 .. N /\ rs \in Seq(Spans) /\ DOMAIN rs = 1 .. N
      /\ \A j \in DOMAIN rs : i + 1 < j => End(rs[i + 1]) < rs[j].at
  BY RunsOf
<1>3. l = [rs EXCEPT ![i] = r]
  BY DEF Longer
<1>4. r \in Spans /\ r.at = a /\ r.count = k + n + c /\ End(r) = End(rs[i + 1])
  <2> HIDE DEF a, b, c, k
  <2>1. k + n + c \in Nat \ {0} /\ a + (k + n + c) = b + c
    BY <1>1
  <2>2. r \in Spans /\ r.at = a /\ r.count = k + n + c /\ End(r) = a + (k + n + c)
    BY <1>1, <2>1, SpanOK
  <2> QED BY <1>1, <2>1, <2>2
<1>5. Run(a, k + n + c) = Run(a, k) \union Run(at, n) \union Run(b, c)
  <2> HIDE DEF a, b, c, k
  <2>1. a \in Nat /\ k \in Nat /\ c \in Nat /\ k + n \in Nat /\ a + (k + n) = b /\ a + k = at
    BY <1>1
  <2>2. Meet(a, k + n, c) /\ Meet(a, k, n)
    BY <2>1, RunsMeet
  <2> QED BY <2>1, <2>2 DEF Meet
<1> HIDE DEF r, l
<1>6. l \in Seq(Spans) /\ Len(l) = N /\ DOMAIN l = 1 .. N /\ l[i] = r /\ \A j \in 1 .. N : j # i => l[j] = rs[j]
  BY <1>2, <1>3, <1>4
<1>7. /\ t \in Seq(Spans) /\ Len(t) = N - 1 /\ DOMAIN t = 1 .. N - 1
      /\ \A j \in 1 .. N - 1 : t[j] = IF j < i + 1 THEN l[j] ELSE l[j + 1]
  <2>1. i + 1 \in DOMAIN l
    BY <1>2, <1>6
  <2>2. /\ t \in Seq(Spans) /\ Len(t) = Len(l) - 1 /\ DOMAIN t = 1 .. Len(l) - 1
        /\ \A j \in 1 .. Len(l) - 1 : t[j] = IF j < i + 1 THEN l[j] ELSE l[j + 1]
    BY <1>6, <2>1, RemovedAt
  <2> HIDE DEF t, N
  <2> QED BY <1>6, <2>2
<1>8. /\ u \in Seq(Spans) /\ Len(u) = N - 1 /\ DOMAIN u = 1 .. N - 1
      /\ \A j \in 1 .. N - 1 : u[j] = IF j < i + 1 THEN rs[j] ELSE rs[j + 1]
  <2>1. i + 1 \in DOMAIN rs /\ rs \in Seq(Spans)
    BY <1>2
  <2> QED BY <2>1, RemovedAt
<1>9. RunsOK(u) /\ InRuns(u) = InRuns(rs) \ Run(b, c)
  BY RunsRemoved
<1> HIDE DEF t, u, N
<1>10. i \in 1 .. N - 1 /\ u[i] = rs[i] /\ N - 1 \in Nat
  BY <1>2, <1>8
<1>11. v \in Seq(Spans) /\ Len(v) = N - 1 /\ DOMAIN v = 1 .. N - 1 /\ v[i] = r /\ \A j \in 1 .. N - 1 : j # i => v[j] = u[j]
  BY <1>4, <1>8, <1>10
<1>12. Fits(u, r, 1 .. i - 1, i + 1 .. Len(u))
  <2>1. ASSUME NEW j \in 1 .. i - 1 PROVE End(u[j]) < r.at
    <3>1. j \in DOMAIN u /\ i \in DOMAIN u /\ j < i
      BY <1>2, <1>8, <1>10
    <3>2. End(u[j]) < u[i].at
      BY <1>9, <3>1, RunsOf
    <3> QED BY <1>4, <1>10, <3>2
  <2>2. ASSUME NEW j \in i + 1 .. Len(u) PROVE End(r) < rs[j + 1].at /\ u[j] = rs[j + 1]
    <3>1. j \in 1 .. N - 1 /\ ~(j < i + 1) /\ j + 1 \in 1 .. N /\ i + 1 < j + 1
      BY <1>2, <1>8
    <3> QED BY <1>2, <1>4, <1>8, <3>1
  <2> QED BY <2>1, <2>2 DEF Fits
<1>13. Adds(v, u, Run(at, n) \union Run(b, c), N - 1)
  <2>1. i \in DOMAIN u /\ Run(r.at, r.count) = Run(u[i].at, u[i].count) \union (Run(at, n) \union Run(b, c))
    BY <1>4, <1>5, <1>8, <1>10
  <2> DEFINE S == Run(at, n) \union Run(b, c)
  <2> HIDE DEF a, b, c, k, S
  <2>2. Adds(v, u, S, Len(u))
    BY <1>4, <1>9, <1>12, <2>1, Lengthened DEF S
  <2> QED BY <1>8, <2>2 DEF S
<1> HIDE DEF v
<1>14. t = v
  <2>1. ASSUME NEW j \in 1 .. N - 1 PROVE t[j] = v[j]
    <3>1. CASE j = i
      BY <1>2, <1>6, <1>7, <1>10, <1>11, <3>1
    <3>2. CASE j # i
      <4>1. CASE j < i + 1
        <5>1. j \in 1 .. N
          BY <1>2
        <5> QED BY <1>6, <1>7, <1>8, <1>11, <3>2, <4>1, <5>1
      <4>2. CASE ~(j < i + 1)
        <5>1. j + 1 \in 1 .. N /\ j + 1 # i
          BY <1>2, <4>2
        <5> QED BY <1>6, <1>7, <1>8, <1>11, <3>2, <4>2, <5>1
      <4> QED BY <4>1, <4>2
    <3> QED BY <3>1, <3>2
  <2>2. Agree(t, v)
    BY <1>7, <1>11, <2>1 DEF Agree
  <2> QED BY <1>7, <1>11, <2>2, AgreeSame
<1>15. Run(b, c) \subseteq InRuns(rs)
  BY DEF InRuns
<1>16. Adds(t, rs, Run(at, n), N - 1)
  BY <1>9, <1>13, <1>14, <1>15 DEF Adds
<1> QED BY <1>16 DEF t, l, N

\* Pages that touch no run.
Clear(rs, at, n) ==
  \A j \in DOMAIN rs : (rs[j].at < at => End(rs[j]) < at) /\ (~(rs[j].at < at) => at + n < rs[j].at)

LEMMA JoinNone ==
  ASSUME NEW rs, RunsOK(rs), NEW at \in Nat \ {0}, NEW n \in Nat \ {0}, RUNS \in Nat, Clear(rs, at, n), Len(rs) < RUNS
  PROVE  Adds(Inserted(rs, at, n), rs, Run(at, n), Len(rs) + 1)
<1> DEFINE b == Before(rs, at)
           r == Span(at, n)
           i == b + 1
<1>1. b \in 0 .. Len(rs) /\ \A j \in DOMAIN rs : rs[j].at < at <=> j <= b
  BY BeforeIs
<1>2. Len(rs) \in Nat /\ DOMAIN rs = 1 .. Len(rs)
  BY RunsOf
<1>3. r \in Spans /\ r.at = at /\ r.count = n /\ End(r) = at + n
  BY SpanOK
<1> HIDE DEF b, r
<1>4. i \in 1 .. Len(rs) + 1 /\ i - 1 = b
  BY <1>1, <1>2
<1>5. Fits(rs, r, 1 .. i - 1, i .. Len(rs))
  <2>1. ASSUME NEW j \in 1 .. i - 1 PROVE End(rs[j]) < r.at
    <3>1. j \in DOMAIN rs /\ j <= b
      BY <1>1, <1>2, <1>4
    <3> QED BY <1>1, <1>3, <3>1 DEF Clear
  <2>2. ASSUME NEW j \in i .. Len(rs) PROVE End(r) < rs[j].at
    <3>1. j \in DOMAIN rs /\ ~(j <= b)
      BY <1>1, <1>2, <1>4
    <3> QED BY <1>1, <1>3, <3>1 DEF Clear
  <2> QED BY <2>1, <2>2 DEF Fits
<1> HIDE DEF i
<1>6. /\ RunsOK(InsertAt(rs, i, r)) /\ Len(InsertAt(rs, i, r)) = Len(rs) + 1
      /\ InRuns(InsertAt(rs, i, r)) = InRuns(rs) \union Run(r.at, r.count)
  BY <1>3, <1>4, <1>5, RunsInserted
<1>7. Inserted(rs, at, n) = InsertAt(rs, i, r)
  BY DEF Inserted, i, b, r
<1> QED BY <1>2, <1>3, <1>6, <1>7 DEF Adds

LEMMA ListChanged ==
  ASSUME NEW m, Sound(m), NEW t, NEW S, NEW k, Adds(t, m.runs, S, k), S \intersect All(m) = {}
  PROVE  /\ Grown(RunsAre(m, t), m, S) /\ RunsAre(m, t).runs = t
         /\ RunsAre(m, t).loose = m.loose /\ RunsAre(m, t).lost = m.lost
<1> DEFINE g == RunsAre(m, t)
<1>1. IsWorld(m) /\ Split(m.runs, m.loose, m.lost)
  BY DEF Sound
<1>2. t \in Seq(Spans) /\ RunsOK(t) /\ InRuns(t) = InRuns(m.runs) \union S
  BY DEF Adds, RunsOK
<1>3. Is(g, t, m.loose, m.lost, m.lent, m.at)
  BY <1>1, <1>2, Parts
<1> HIDE DEF g
<1>4. Split(t, m.loose, m.lost)
  BY <1>1, <1>2 DEF Split, All
<1>5. All(g) = All(m) \union S
  BY <1>2, <1>3 DEF All, Is
<1>6. Grown(g, m, S)
  BY <1>3, <1>4, <1>5 DEF Grown, Sound, Is
<1> QED BY <1>3, <1>6 DEF Is, g

LEMMA ClearRemoved ==
  ASSUME NEW rs, RunsOK(rs), NEW s \in DOMAIN rs, NEW at, NEW n, Clear(rs, at, n)
  PROVE  Clear(RemoveAt(rs, s), at, n)
<1> DEFINE t == RemoveAt(rs, s)
<1>1. rs \in Seq(Spans) /\ Len(rs) \in Nat /\ DOMAIN rs = 1 .. Len(rs)
  BY RunsOf
<1>2. DOMAIN t = 1 .. Len(rs) - 1 /\ \A k \in 1 .. Len(rs) - 1 : t[k] = IF k < s THEN rs[k] ELSE rs[k + 1]
  BY <1>1, RemovedAt
<1> HIDE DEF t
<1>3. ASSUME NEW k \in DOMAIN t PROVE \E j \in DOMAIN rs : t[k] = rs[j]
  <2>1. k \in DOMAIN rs /\ k + 1 \in DOMAIN rs
    BY <1>1, <1>2
  <2> QED BY <1>2, <2>1
<1>4. Clear(t, at, n)
  BY <1>3 DEF Clear
<1> QED BY <1>4 DEF t

\* The list full: the smallest run gives way to one that goes in.
LEMMA SwapGood ==
  ASSUME machine \in Machines, NEW m, Sound(m), NEW at \in Nat \ {0}, NEW n \in Nat \ {0}, Run(at, n) \intersect All(m) = {},
         Clear(m.runs, at, n), NEW s \in DOMAIN m.runs
  PROVE  LET g == RunsAre(Loosen(m, m.runs[s].at, m.runs[s].count), Inserted(RemoveAt(m.runs, s), at, n))
         IN Grown(g, m, Run(at, n)) /\ (m.runs[s].at >= FLOOR => g.lost = m.lost)
<1> DEFINE rs == m.runs
           a == rs[s].at
           c == rs[s].count
           us == RemoveAt(rs, s)
           x == Loosen(m, a, c)
           t == Inserted(us, at, n)
           g == RunsAre(x, t)
<1>1. IsWorld(m) /\ Split(rs, m.loose, m.lost) /\ RunsOK(rs) /\ s \in DOMAIN rs
  BY DEF Sound, Split
<1>2. RUNS \in Nat
  BY Constants
<1>3. a \in Nat \ {0} /\ c \in Nat \ {0} /\ Len(rs) <= RUNS /\ Len(rs) \in Nat
  BY <1>1, RunsOf
<1>4. RunsOK(us) /\ Len(us) = Len(rs) - 1 /\ InRuns(us) = InRuns(rs) \ Run(a, c)
  BY <1>1, <1>2, RunsRemoved
<1>5. Run(a, c) \subseteq InRuns(rs)
  BY DEF InRuns
<1>6. Clear(us, at, n)
  BY <1>1, ClearRemoved
<1> HIDE DEF us, a, c, rs
<1>7. Adds(t, us, Run(at, n), Len(us) + 1)
  <2>1. Len(us) < RUNS
    BY <1>2, <1>3, <1>4
  <2> QED BY <1>2, <1>4, <1>6, <2>1, JoinNone
<1>8. Split(us, m.loose, m.lost) /\ Run(a, c) \intersect (InRuns(us) \union ToSet(m.loose) \union m.lost) = {}
  BY <1>1, <1>4, <1>5 DEF Split
<1>9. /\ Is(x, rs, x.loose, x.lost, m.lent, m.at) /\ Split(us, x.loose, x.lost)
      /\ ToSet(x.loose) \union x.lost = ToSet(m.loose) \union m.lost \union Run(a, c)
      /\ a >= FLOOR => x.lost = m.lost
  <2>1. Loosened(x, m, us, a, c)
    BY <1>1, <1>3, <1>8, LoosenIs
  <2> HIDE DEF x
  <2> QED BY <2>1 DEF Loosened, rs
<1> HIDE DEF x, t
<1>10. t \in Seq(Spans) /\ RunsOK(t) /\ InRuns(t) = InRuns(us) \union Run(at, n)
  BY <1>7 DEF Adds, RunsOK
<1>11. Is(g, t, x.loose, x.lost, m.lent, m.at)
  <2>1. IsWorld(x) /\ x.lent = m.lent /\ x.at = m.at
    BY <1>9 DEF Is
  <2>2. Is(g, t, x.loose, x.lost, x.lent, x.at)
    BY <1>10, <2>1, Parts
  <2> QED BY <2>1, <2>2
<1> HIDE DEF g
<1>12. Run(at, n) \intersect (InRuns(rs) \union ToSet(m.loose) \union m.lost) = {}
  BY DEF All, rs
<1>13. Split(t, x.loose, x.lost)
  <2>1. Run(at, n) \intersect (ToSet(x.loose) \union x.lost) = {}
    BY <1>5, <1>9, <1>12
  <2> QED BY <1>9, <1>10, <2>1 DEF Split
<1>14. InRuns(t) \union ToSet(x.loose) \union x.lost = (InRuns(rs) \union ToSet(m.loose) \union m.lost) \union Run(at, n)
  BY <1>4, <1>5, <1>9, <1>10
<1>15. Grown(g, m, Run(at, n)) /\ g.lost = x.lost
  BY <1>11, <1>13, <1>14 DEF Grown, Sound, Is, All, rs
<1>16. Grown(g, m, Run(at, n)) /\ (a >= FLOOR => g.lost = m.lost)
  BY <1>9, <1>15
<1> QED BY <1>16 DEF g, x, t, us, a, c, rs

\* What run_add lets go of for good, and when.
Keeps(g, m, at) ==
  /\ Len(m.runs) < RUNS => g.loose = m.loose /\ g.lost = m.lost /\ Len(g.runs) <= Len(m.runs) + 1
  /\ at >= FLOOR \/ High(m.runs) # {} => g.lost = m.lost

\* run_add: the pages are in the runs, in order, the chain or lost, and each once.
LEMMA RunAddGood ==
  ASSUME machine \in Machines, NEW m, Sound(m), NEW at \in Nat \ {0}, NEW n \in Nat, Run(at, n) \intersect All(m) = {}
  PROVE  Grown(RunAdd(m, at, n), m, Run(at, n)) /\ Keeps(RunAdd(m, at, n), m, at)
<1> DEFINE rs == m.runs
           i == Before(rs, at)
           onto == i > 0 /\ End(rs[i]) = at
           under == i < Len(rs) /\ at + n = rs[i + 1].at
           s == Smallest(rs)
           both == RemoveAt(Longer(rs, i, rs[i].count + n + rs[i + 1].count), i + 1)
           long == Longer(rs, i, rs[i].count + n)
           front == [rs EXCEPT ![i + 1] = Span(at, n + rs[i + 1].count)]
           new == Inserted(rs, at, n)
           swapped == Inserted(RemoveAt(rs, s), at, n)
           g == RunAdd(m, at, n)
           S == Run(at, n)
<1>1. IsWorld(m) /\ RunsOK(rs) /\ S \intersect InRuns(rs) = {} /\ RUNS \in Nat \ {0, 1}
  BY Constants DEF Sound, Split, All
<1>2. Len(rs) \in Nat /\ DOMAIN rs = 1 .. Len(rs) /\ Len(rs) <= RUNS
  BY <1>1, RunsOf
<1>3. /\ n = 0 => g = m
      /\ n # 0 /\ onto /\ under => g = RunsAre(m, both)
      /\ n # 0 /\ onto /\ ~under => g = RunsAre(m, long)
      /\ n # 0 /\ ~onto /\ under => g = RunsAre(m, front)
      /\ n # 0 /\ ~onto /\ ~under /\ Len(rs) < RUNS => g = RunsAre(m, new)
      /\ n # 0 /\ ~onto /\ ~under /\ ~(Len(rs) < RUNS) =>
           \/ at >= FLOOR /\ g = Loosen(m, at, n)
           \/ (at >= FLOOR => ~(rs[s].at < FLOOR)) /\ g = RunsAre(Loosen(m, rs[s].at, rs[s].count), swapped)
  <2> HIDE DEF both, long, front, new, swapped, s, i, onto, under
  <2> QED BY DEF RunAdd, both, long, front, new, swapped, s, i, onto, under
<1>4. CASE n = 0
  <2>1. S = {}
    BY <1>4 DEF Run
  <2>2. g = m
    BY <1>3, <1>4
  <2> HIDE DEF g, S
  <2>3. Grown(g, m, S) /\ Keeps(g, m, at)
    BY <1>2, <2>1, <2>2 DEF Grown, Keeps
  <2> QED BY <2>3 DEF g, S
<1> HIDE DEF g
<1>5. ASSUME n # 0 PROVE Grown(g, m, S) /\ Keeps(g, m, at)
  <2>1. n \in Nat \ {0}
    BY <1>5
  <2>2. /\ i \in 0 .. Len(rs)
        /\ \A j \in DOMAIN rs : /\ j <= i => End(rs[j]) <= at
                                /\ j < i => End(rs[j]) < at
                                /\ i < j => at + n <= rs[j].at
                                /\ i + 1 < j => at + n < rs[j].at
    <3> HIDE DEF rs
    <3> QED BY <1>1, <2>1, Around
  <2>3. /\ onto => i \in DOMAIN rs /\ End(rs[i]) = at
        /\ under => i + 1 \in DOMAIN rs /\ at + n = rs[i + 1].at
        /\ onto /\ ~under => (i < Len(rs) => at + n # rs[i + 1].at)
        /\ ~onto /\ under => (i + 1 > 1 => End(rs[i + 1 - 1]) # at)
    <3> HIDE DEF rs, i
    <3>1. i + 1 - 1 = i
      BY <2>2
    <3> QED BY <1>2, <2>2, <3>1
  <2>4. ASSUME NEW t, Adds(t, rs, S, Len(rs) + 1), g = RunsAre(m, t) PROVE Grown(g, m, S) /\ Keeps(g, m, at)
    <3>1. /\ Grown(g, m, S) /\ g.runs = t /\ g.loose = m.loose /\ g.lost = m.lost
      BY <2>4, ListChanged
    <3> QED BY <2>4, <3>1 DEF Keeps, Adds
  <2>5. CASE onto /\ under
    <3> HIDE DEF i
    <3>1. Adds(both, rs, S, Len(rs) - 1)
      <4> HIDE DEF rs
      <4> QED BY <1>1, <2>1, <2>3, <2>5, JoinBoth
    <3>2. Adds(both, rs, S, Len(rs) + 1) /\ g = RunsAre(m, both)
      <4> HIDE DEF both, rs, S
      <4>1. Len(both) \in Nat
        BY <3>1, RunsOf DEF Adds
      <4>2. Adds(both, rs, S, Len(rs) + 1)
        BY <1>2, <3>1, <4>1 DEF Adds
      <4> QED BY <1>3, <1>5, <2>5, <4>2
    <3> HIDE DEF both, rs, S
    <3> QED BY <2>4, <3>2
  <2>6. CASE onto /\ ~under
    <3>1. Adds(long, rs, S, Len(rs))
      <4> HIDE DEF rs
      <4> QED BY <1>1, <2>1, <2>3, <2>6, JoinOnto
    <3> HIDE DEF long, rs, S, i
    <3>2. Len(long) \in Nat
      BY <3>1, RunsOf DEF Adds
    <3>3. Adds(long, rs, S, Len(rs) + 1)
      BY <1>2, <3>1, <3>2 DEF Adds
    <3>4. g = RunsAre(m, long)
      BY <1>3, <1>5, <2>6
    <3> QED BY <2>4, <3>3, <3>4
  <2>7. CASE ~onto /\ under
    <3>1. Adds(front, rs, S, Len(rs))
      <4> HIDE DEF rs
      <4>1. i + 1 \in DOMAIN rs /\ at + n = rs[i + 1].at /\ (i + 1 > 1 => End(rs[i + 1 - 1]) # at)
        BY <2>3, <2>7
      <4> DEFINE k == i + 1
      <4>2. k \in DOMAIN rs /\ k = Before(rs, at) + 1 /\ at + n = rs[k].at /\ (k > 1 => End(rs[k - 1]) # at)
        <5>1. k = i + 1
          OBVIOUS
        <5> HIDE DEF k
        <5>2. k \in DOMAIN rs /\ at + n = rs[k].at /\ (k > 1 => End(rs[k - 1]) # at)
          <6>1. i \in Int
            BY <1>2, <2>2
          <6> HIDE DEF i
          <6> QED BY <4>1, <5>1, <6>1
        <5> QED BY <5>1, <5>2
      <4> HIDE DEF k
      <4>3. Adds([rs EXCEPT ![k] = Span(at, n + rs[k].count)], rs, S, Len(rs))
        BY <1>1, <2>1, <4>2, JoinUnder
      <4> QED BY <4>3 DEF k
    <3> HIDE DEF front, rs, S, i
    <3>2. Len(front) \in Nat
      BY <3>1, RunsOf DEF Adds
    <3>3. Adds(front, rs, S, Len(rs) + 1)
      BY <1>2, <3>1, <3>2 DEF Adds
    <3>4. g = RunsAre(m, front)
      BY <1>3, <1>5, <2>7
    <3> QED BY <2>4, <3>3, <3>4
  <2>8. CASE ~onto /\ ~under
    <3>1. Clear(rs, at, n)
      <4> SUFFICES ASSUME NEW j \in DOMAIN rs
                   PROVE  (rs[j].at < at => End(rs[j]) < at) /\ (~(rs[j].at < at) => at + n < rs[j].at)
        BY DEF Clear
      <4>1. rs[j].at \in Nat /\ rs[j].count \in Nat \ {0} /\ End(rs[j]) = rs[j].at + rs[j].count /\ j \in 1 .. Len(rs) /\ i \in 0 .. Len(rs)
        BY <1>1, <1>2, <2>2, RunsOf
      <4> HIDE DEF rs, i
      <4>2. CASE j <= i
        <5>1. End(rs[j]) <= at /\ (j < i => End(rs[j]) < at)
          BY <2>2, <4>2
        <5>2. j = i => End(rs[j]) # at
          BY <2>8, <4>1
        <5> QED BY <1>2, <4>1, <4>2, <5>1, <5>2
      <4>3. CASE ~(j <= i)
        <5>1. i < j /\ at + n <= rs[j].at /\ (i + 1 < j => at + n < rs[j].at)
          BY <1>2, <2>2, <4>1, <4>3
        <5>2. j = i + 1 => at + n # rs[j].at
          BY <1>2, <2>8, <4>1
        <5>3. j = i + 1 \/ i + 1 < j
          BY <1>2, <4>1, <5>1
        <5> QED BY <2>1, <4>1, <5>1, <5>2, <5>3
      <4> QED BY <4>2, <4>3
    <3>2. CASE Len(rs) < RUNS
      <4>1. Adds(new, rs, S, Len(rs) + 1)
        <5> HIDE DEF rs
        <5> QED BY <1>1, <2>1, <3>1, <3>2, JoinNone
      <4>2. g = RunsAre(m, new)
        BY <1>3, <1>5, <2>8, <3>2
      <4> HIDE DEF new, rs, S, i
      <4> QED BY <2>4, <4>1, <4>2
    <3>3. CASE ~(Len(rs) < RUNS)
      <4>1. s \in DOMAIN rs /\ (High(rs) # {} => s \in High(rs))
        <5>1. rs # <<>>
          BY <1>1, <1>2, <3>3
        <5> HIDE DEF rs
        <5> QED BY <1>1, <5>1, SmallestIs
      <4>2. CASE at >= FLOOR /\ g = Loosen(m, at, n)
        <5>1. Grown(g, m, S) /\ g.lost = m.lost
          BY <2>1, <4>2, LoosenGood
        <5> QED BY <3>3, <5>1 DEF Keeps
      <4>3. CASE (at >= FLOOR => ~(rs[s].at < FLOOR)) /\ g = RunsAre(Loosen(m, rs[s].at, rs[s].count), swapped)
        <5> HIDE DEF i, s
        <5>1. Grown(g, m, S) /\ (rs[s].at >= FLOOR => g.lost = m.lost)
          BY <2>1, <3>1, <4>1, <4>3, SwapGood
        <5>2. rs[s].at \in Nat /\ FLOOR \in Nat
          BY <1>1, <4>1, RunsOf, Constants
        <5>3. at >= FLOOR \/ High(rs) # {} => rs[s].at >= FLOOR
          BY <4>1, <4>3, <5>2 DEF High
        <5> QED BY <3>3, <5>1, <5>3 DEF Keeps
      <4>4. \/ at >= FLOOR /\ g = Loosen(m, at, n)
            \/ (at >= FLOOR => ~(rs[s].at < FLOOR)) /\ g = RunsAre(Loosen(m, rs[s].at, rs[s].count), swapped)
        <5> HIDE DEF rs, i, s, swapped
        <5> QED BY <1>3, <1>5, <2>8, <3>3
      <4> QED BY <4>2, <4>3, <4>4
    <3> QED BY <3>2, <3>3
  <2> QED BY <2>5, <2>6, <2>7, <2>8
<1> QED BY <1>4, <1>5 DEF g

----------------------------------------------------------------------------
(* Pages taken out of the runs.                                            *)

LEMMA ShortGood ==
  ASSUME NEW rs, RunsOK(rs), NEW i \in DOMAIN rs, NEW n \in Nat, n <= rs[i].count, RUNS \in Nat
  PROVE  /\ RunsOK(Short(rs, i, n)) /\ InRuns(Short(rs, i, n)) = InRuns(rs) \ Run(rs[i].at + n, rs[i].count - n)
         /\ Len(Short(rs, i, n)) <= Len(rs) /\ (n = 0 => Len(Short(rs, i, n)) < Len(rs))
         /\ Run(rs[i].at + n, rs[i].count - n) \subseteq InRuns(rs)
<1> DEFINE a == rs[i].at
           c == rs[i].count
           t == Short(rs, i, n)
<1>1. /\ a \in Nat \ {0} /\ c \in Nat \ {0} /\ End(rs[i]) = a + c /\ Len(rs) \in Nat /\ DOMAIN rs = 1 .. Len(rs)
      /\ \A j \in DOMAIN rs : rs[j].at \in Nat /\ (j < i => End(rs[j]) < a) /\ (i < j => End(rs[i]) < rs[j].at)
  BY RunsOf
<1>2. Run(a, c) \subseteq InRuns(rs)
  BY DEF InRuns
<1>3. n <= c
  OBVIOUS
<1> HIDE DEF a, c
<1>4. Run(a, c) = Run(a, n) \union Run(a + n, c - n) /\ Run(a, n) \intersect Run(a + n, c - n) = {}
  BY <1>1, <1>3 DEF Run
<1>5. CASE n = 0
  <2>1. t = RemoveAt(rs, i)
    BY <1>5 DEF Short
  <2>2. RunsOK(RemoveAt(rs, i)) /\ Len(RemoveAt(rs, i)) = Len(rs) - 1 /\ InRuns(RemoveAt(rs, i)) = InRuns(rs) \ Run(a, c)
    BY RunsRemoved DEF a, c
  <2>3. Run(a + n, c - n) = Run(a, c)
    BY <1>1, <1>5
  <2> HIDE DEF t
  <2>4. /\ RunsOK(t) /\ InRuns(t) = InRuns(rs) \ Run(a + n, c - n) /\ Len(t) <= Len(rs) /\ (n = 0 => Len(t) < Len(rs))
        /\ Run(a + n, c - n) \subseteq InRuns(rs)
    BY <1>1, <1>2, <2>1, <2>2, <2>3
  <2> QED BY <2>4 DEF a, c, t
<1>6. CASE n # 0
  <2> DEFINE r == Span(a, n)
  <2>1. r \in Spans /\ r.at = a /\ r.count = n /\ End(r) = a + n
    BY <1>1, <1>6, SpanOK
  <2>2. t = [rs EXCEPT ![i] = r]
    BY <1>6 DEF Short, Longer, a
  <2> HIDE DEF r
  <2>3. Fits(rs, r, 1 .. i - 1, i + 1 .. Len(rs))
    <3>1. ASSUME NEW j \in 1 .. i - 1 PROVE End(rs[j]) < r.at
      <4>1. j \in DOMAIN rs /\ j < i
        BY <1>1
      <4> QED BY <1>1, <2>1, <4>1
    <3>2. ASSUME NEW j \in i + 1 .. Len(rs) PROVE End(r) < rs[j].at
      <4>1. j \in DOMAIN rs /\ i < j
        BY <1>1
      <4>2. a + c < rs[j].at /\ rs[j].at \in Nat
        BY <1>1, <4>1
      <4> QED BY <1>1, <1>3, <2>1, <4>2
    <3> QED BY <3>1, <3>2 DEF Fits
  <2>4. /\ RunsOK([rs EXCEPT ![i] = r]) /\ Len([rs EXCEPT ![i] = r]) = Len(rs)
        /\ InRuns([rs EXCEPT ![i] = r]) = (InRuns(rs) \ Run(a, c)) \union Run(r.at, r.count)
    BY ZenonT(60), <2>1, <2>3, RunsChanged DEF a, c
  <2>5. RunsOK(t) /\ Len(t) = Len(rs) /\ InRuns(t) = (InRuns(rs) \ Run(a, c)) \union Run(a, n)
    BY <2>1, <2>2, <2>4
  <2> HIDE DEF t
  <2>6. /\ RunsOK(t) /\ InRuns(t) = InRuns(rs) \ Run(a + n, c - n) /\ Len(t) <= Len(rs) /\ (n = 0 => Len(t) < Len(rs))
        /\ Run(a + n, c - n) \subseteq InRuns(rs)
    BY <1>1, <1>2, <1>4, <1>6, <2>5
  <2> QED BY <2>6 DEF a, c, t
<1> QED BY <1>5, <1>6

\* g is m with the pages of S, which it had, not there.
Fewer(g, m, S) == Sound(g) /\ S \subseteq All(m) /\ All(g) = All(m) \ S /\ g.lent = m.lent /\ g.lost = m.lost

LEMMA ListShrunk ==
  ASSUME NEW m, Sound(m), NEW t, NEW S, RunsOK(t), InRuns(t) = InRuns(m.runs) \ S, S \subseteq InRuns(m.runs)
  PROVE  /\ Fewer(RunsAre(m, t), m, S) /\ RunsAre(m, t).runs = t
         /\ RunsAre(m, t).loose = m.loose /\ RunsAre(m, t).at = m.at
<1> DEFINE g == RunsAre(m, t)
<1>1. IsWorld(m) /\ Split(m.runs, m.loose, m.lost) /\ t \in Seq(Spans)
  BY DEF Sound, RunsOK
<1>2. Is(g, t, m.loose, m.lost, m.lent, m.at)
  BY <1>1, Parts
<1> HIDE DEF g
<1>3. Split(t, m.loose, m.lost)
  BY <1>1 DEF Split
<1>4. S \subseteq All(m) /\ All(g) = All(m) \ S
  BY <1>1, <1>2 DEF All, Is, Split
<1>5. Fewer(g, m, S)
  BY <1>2, <1>3, <1>4 DEF Fewer, Sound, Is
<1> QED BY <1>2, <1>5 DEF Is, g

LEMMA AtSound ==
  ASSUME NEW m, Sound(m), NEW at \in Nat
  PROVE  /\ Sound(AtIs(m, at)) /\ All(AtIs(m, at)) = All(m) /\ AtIs(m, at).lent = m.lent /\ AtIs(m, at).runs = m.runs
         /\ AtIs(m, at).loose = m.loose /\ AtIs(m, at).lost = m.lost /\ AtIs(m, at).at = at
<1> DEFINE g == AtIs(m, at)
<1>1. Is(g, m.runs, m.loose, m.lost, m.lent, at)
  BY Parts DEF Sound
<1> HIDE DEF g
<1>2. IsWorld(g) /\ g.runs = m.runs /\ g.loose = m.loose /\ g.lost = m.lost /\ g.lent = m.lent /\ g.at = at
  BY <1>1 DEF Is
<1>3. Sound(g) /\ All(g) = All(m)
  BY <1>2 DEF Sound, All
<1> QED BY <1>2, <1>3 DEF g

\* n pages off the top of a run that has them.
LEMMA TakeTopGood ==
  ASSUME machine \in Machines, NEW m, Sound(m), NEW i \in DOMAIN m.runs, NEW n \in Nat \ {0}, n <= m.runs[i].count
  PROVE  LET g == TakeTop(m, i, n)
         IN /\ Fewer(g, m, Run(g.at, n)) /\ g.at = End(m.runs[i]) - n /\ g.at \in Nat \ {0}
            /\ g.loose = m.loose /\ Len(g.runs) <= Len(m.runs)
<1> DEFINE rs == m.runs
           a == rs[i].at
           c == rs[i].count
           at == End(rs[i]) - n
           t == Short(rs, i, c - n)
           x == RunsAre(m, t)
           g == TakeTop(m, i, n)
<1>1. RunsOK(rs) /\ RUNS \in Nat
  BY Constants DEF Sound, Split
<1>2. a \in Nat \ {0} /\ c \in Nat \ {0} /\ End(rs[i]) = a + c
  BY <1>1, RunsOf
<1>3. c - n \in Nat /\ c - n <= c /\ at = a + (c - n) /\ c - (c - n) = n /\ at \in Nat \ {0}
  <2>1. n <= c
    OBVIOUS
  <2> HIDE DEF a, c
  <2> QED BY <1>2, <2>1
<1>4. RunsOK(t) /\ InRuns(t) = InRuns(rs) \ Run(at, n) /\ Run(at, n) \subseteq InRuns(rs) /\ Len(t) <= Len(rs)
  <2> DEFINE k == c - n
  <2>1. k \in Nat /\ k <= c
    BY <1>3
  <2> HIDE DEF k, rs
  <2>2. /\ RunsOK(Short(rs, i, k)) /\ InRuns(Short(rs, i, k)) = InRuns(rs) \ Run(a + k, c - k)
        /\ Len(Short(rs, i, k)) <= Len(rs) /\ Run(a + k, c - k) \subseteq InRuns(rs)
    BY <1>1, <2>1, ShortGood DEF rs
  <2>3. a + k = at /\ c - k = n
    BY <1>3 DEF k
  <2>4. RunsOK(Short(rs, i, k)) /\ InRuns(Short(rs, i, k)) = InRuns(rs) \ Run(at, n) /\ Run(at, n) \subseteq InRuns(rs)
        /\ Len(Short(rs, i, k)) <= Len(rs)
    BY <2>2, <2>3
  <2> QED BY <2>4 DEF k
<1>5. g = AtIs(x, at)
  BY DEF TakeTop
<1> HIDE DEF t, at
<1>6. /\ Fewer(x, m, Run(at, n)) /\ x.runs = t /\ x.loose = m.loose
  BY <1>4, ListShrunk
<1> HIDE DEF x
<1>7. /\ Sound(AtIs(x, at)) /\ All(AtIs(x, at)) = All(x) /\ AtIs(x, at).lent = x.lent /\ AtIs(x, at).runs = x.runs
      /\ AtIs(x, at).loose = x.loose /\ AtIs(x, at).lost = x.lost /\ AtIs(x, at).at = at
  BY <1>3, <1>6, AtSound DEF Fewer
<1> HIDE DEF g
<1>8. Fewer(g, m, Run(at, n)) /\ g.at = at /\ g.loose = m.loose /\ Len(g.runs) <= Len(rs)
  BY <1>4, <1>5, <1>6, <1>7 DEF Fewer
<1> QED BY <1>3, <1>8 DEF g, at

\* run_take: the page that a run held is gone, and no other; and none moved where there was
\* room for the runs on both sides of it, or it was the first of its run.
LEMMA RunTakeGood ==
  ASSUME machine \in Machines, NEW m, Sound(m), NEW page, page \in InRuns(m.runs)
  PROVE  LET g == RunTake(m, page)
         IN /\ Sound(g) /\ All(g) = All(m) \ {page} /\ g.lent = m.lent /\ g.at = m.at
            /\ Len(m.runs) < RUNS \/ page - 1 \notin InRuns(m.runs) => g.loose = m.loose /\ g.lost = m.lost
<1> DEFINE rs == m.runs
           H == Holding(rs, page)
           i == CHOOSE j \in H : TRUE
           a == rs[i].at
           e == End(rs[i])
           t == Short(rs, i, page - a)
           x == RunsAre(m, t)
           k == e - page - 1
           g == RunTake(m, page)
<1>1. RunsOK(rs) /\ RUNS \in Nat /\ rs \in Seq(Spans) /\ InRuns(rs) \subseteq All(m)
  BY Constants DEF Sound, Split, RunsOK, All
<1>2. H # {}
  BY DEF Holding, InRuns
<1>3. i \in DOMAIN rs /\ page \in Run(a, rs[i].count)
  <2>1. i \in H
    BY <1>2
  <2> HIDE DEF i
  <2> QED BY <2>1 DEF Holding
<1>4. g = RunAdd(x, page + 1, k)
  BY <1>2 DEF RunTake
<1> HIDE DEF H, i
<1>5. a \in Nat \ {0} /\ rs[i].count \in Nat \ {0} /\ e = a + rs[i].count /\ Len(rs) \in Nat /\ Len(rs) <= RUNS
  BY <1>1, <1>3, RunsOf
<1>6. page \in Nat \ {0} /\ a <= page /\ page < e /\ e \in Nat
  <2>1. page \in Nat /\ a <= page /\ page < e
    BY <1>1, <1>3, RunOf
  <2>2. a \in Nat \ {0} /\ e \in Nat
    <3> HIDE DEF a
    <3> QED BY <1>5
  <2> HIDE DEF a, e
  <2> QED BY <2>1, <2>2
<1>7. page - a \in Nat /\ page - a <= rs[i].count /\ a + (page - a) = page /\ rs[i].count - (page - a) = e - page
      /\ k \in Nat /\ e - page \in Nat
  <2> DEFINE c == rs[i].count
  <2>1. c \in Nat \ {0} /\ e = a + c /\ a \in Nat \ {0} /\ page \in Nat /\ a <= page /\ page < e
    BY <1>5, <1>6
  <2> HIDE DEF c, a, e
  <2>2. page - a \in Nat /\ page - a <= c /\ a + (page - a) = page /\ c - (page - a) = e - page
        /\ k \in Nat /\ e - page \in Nat
    <3>1. page - a \in Nat /\ page - a <= c /\ a + (page - a) = page /\ c - (page - a) = e - page
      BY <2>1
    <3>2. e - page - 1 \in Nat /\ e - page \in Nat
      BY <2>1
    <3> QED BY <3>1, <3>2
  <2> QED BY <2>2 DEF c
<1>8. /\ RunsOK(t) /\ InRuns(t) = InRuns(rs) \ Run(page, e - page) /\ Len(t) <= Len(rs) /\ (page = a => Len(t) < Len(rs))
      /\ Run(page, e - page) \subseteq InRuns(rs)
  <2> DEFINE n == page - a
  <2>1. n \in Nat /\ n <= rs[i].count /\ a + n = page /\ rs[i].count - n = e - page
    BY <1>7
  <2>2. page = a => n = 0
    BY <1>5
  <2> HIDE DEF n
  <2>3. /\ RunsOK(Short(rs, i, n)) /\ InRuns(Short(rs, i, n)) = InRuns(rs) \ Run(a + n, rs[i].count - n)
        /\ Len(Short(rs, i, n)) <= Len(rs) /\ (n = 0 => Len(Short(rs, i, n)) < Len(rs))
        /\ Run(a + n, rs[i].count - n) \subseteq InRuns(rs)
    BY <1>1, <1>3, <2>1, ShortGood
  <2>4. /\ RunsOK(Short(rs, i, n)) /\ InRuns(Short(rs, i, n)) = InRuns(rs) \ Run(page, e - page)
        /\ Len(Short(rs, i, n)) <= Len(rs) /\ (page = a => Len(Short(rs, i, n)) < Len(rs))
        /\ Run(page, e - page) \subseteq InRuns(rs)
    BY <2>1, <2>2, <2>3
  <2> QED BY <2>4 DEF n
<1>9. a <= page - 1 => page - 1 \in InRuns(rs)
  <2>1. a <= page - 1 => page - 1 \in Run(a, rs[i].count)
    <3> DEFINE c == rs[i].count
    <3> HIDE DEF c, a, e
    <3> QED BY <1>5, <1>6 DEF Run, c
  <2> QED BY <1>3, <2>1 DEF InRuns
<1> HIDE DEF t
<1>10. Fewer(x, m, Run(page, e - page)) /\ x.runs = t /\ x.loose = m.loose /\ x.at = m.at
  BY <1>8, ListShrunk
<1> HIDE DEF x
<1>11. Run(page, e - page) = {page} \union Run(page + 1, k) /\ page \notin Run(page + 1, k)
  <2> HIDE DEF e
  <2> QED BY <1>6, <1>7 DEF Run
<1> HIDE DEF k
<1>12. Sound(x) /\ Run(page + 1, k) \intersect All(x) = {} /\ page + 1 \in Nat \ {0} /\ k \in Nat
  BY <1>6, <1>7, <1>10, <1>11 DEF Fewer
<1>13. Grown(g, x, Run(page + 1, k)) /\ Keeps(g, x, page + 1)
  BY <1>4, <1>12, RunAddGood
<1> HIDE DEF g
<1>14. Sound(g) /\ All(g) = All(m) \ {page} /\ g.lent = m.lent /\ g.at = m.at
  <2> DEFINE S == Run(page, e - page)
             T == Run(page + 1, k)
  <2>1. S = {page} \union T /\ page \notin T /\ S \subseteq All(m) /\ All(x) = All(m) \ S /\ All(g) = All(x) \union T
    BY <1>10, <1>11, <1>13 DEF Fewer, Grown
  <2>2. Sound(g) /\ g.lent = m.lent /\ g.at = m.at
    BY <1>10, <1>13 DEF Fewer, Grown
  <2> HIDE DEF S, T
  <2> QED BY <2>1, <2>2
<1>15. ASSUME Len(rs) < RUNS \/ page - 1 \notin InRuns(rs) PROVE g.loose = m.loose /\ g.lost = m.lost
  <2>1. CASE Len(rs) < RUNS
    <3>1. Len(t) < RUNS
      BY <1>1, <1>5, <1>8, <2>1, RunsOf
    <3> QED BY <1>10, <1>13, <3>1 DEF Keeps, Fewer
  <2>2. CASE page - 1 \notin InRuns(rs)
    <3>1. page = a
      BY <1>5, <1>6, <1>9, <2>2
    <3>2. Len(t) < RUNS
      BY <1>1, <1>5, <1>8, <3>1, RunsOf
    <3> QED BY <1>10, <1>13, <3>2 DEF Keeps, Fewer
  <2> QED BY <1>15, <2>1, <2>2
<1> QED BY <1>14, <1>15 DEF g

----------------------------------------------------------------------------
(* take.                                                                   *)

\* g is m with the same pages, elsewhere perhaps.
Conserved(g, m) == Sound(g) /\ All(g) = All(m) /\ g.lent = m.lent /\ g.lost = m.lost

\* The next single page off the chain.
LEMMA HeadOff ==
  ASSUME NEW m, Sound(m), m.loose # <<>>
  PROVE  LET g == LooseIs(m, Tail(m.loose))
         IN /\ Fewer(g, m, {Head(m.loose)}) /\ g.runs = m.runs /\ g.loose = Tail(m.loose) /\ g.at = m.at
            /\ Head(m.loose) \in Nat \ {0} /\ Len(g.loose) = Len(m.loose) - 1
<1> DEFINE s == m.loose
           t == Tail(s)
           h == Head(s)
           g == LooseIs(m, t)
<1>1. IsWorld(m) /\ Split(m.runs, s, m.lost) /\ s \in Seq(Nat \ {0})
  BY DEF Sound, Split
<1>2. /\ t \in Seq(Nat \ {0}) /\ Len(t) = Len(s) - 1 /\ h \in Nat \ {0} /\ ToSet(s) = {h} \union ToSet(t)
      /\ IsInjective(s) => IsInjective(t) /\ h \notin ToSet(t)
  BY <1>1, Tailed
<1> HIDE DEF t, h, s
<1>3. Is(g, m.runs, t, m.lost, m.lent, m.at)
  BY <1>1, <1>2, Parts
<1> HIDE DEF g
<1>4. Split(m.runs, t, m.lost) /\ h \notin ToSet(t) /\ h \notin InRuns(m.runs) /\ h \notin m.lost
  BY <1>1, <1>2 DEF Split
<1>5. {h} \subseteq All(m) /\ All(g) = All(m) \ {h}
  <2>1. All(m) = InRuns(m.runs) \union ToSet(s) \union m.lost /\ All(g) = InRuns(m.runs) \union ToSet(t) \union m.lost
    BY <1>3 DEF All, Is, s
  <2> QED BY <1>2, <1>4, <2>1
<1>6. Fewer(g, m, {h}) /\ g.runs = m.runs /\ g.loose = t /\ g.at = m.at
  BY <1>3, <1>4, <1>5 DEF Fewer, Sound, Is
<1> QED BY <1>2, <1>6 DEF g, t, h, s

LEMMA FilledGood ==
  ASSUME machine \in Machines, NEW m, Sound(m)
  PROVE  Conserved(Filled(m), m)
<1> DEFINE rs == m.runs
           F == Filling(rs)
           i == Max(F)
           t == TakeTop(m, i, LOOSE_FILL)
           x == AtIs(t, 0)
           g == Loosen(x, t.at, LOOSE_FILL)
<1>1. RunsOK(rs) /\ LOOSE_FILL \in Nat \ {0} /\ FLOOR \in Nat
  BY Constants DEF Sound, Split
<1>2. CASE F = {}
  <2>1. Filled(m) = m
    BY <1>2 DEF Filled
  <2> QED BY <2>1 DEF Conserved
<1>3. CASE F # {}
  <2>1. Filled(m) = g
    BY <1>3 DEF Filled
  <2>2. i \in DOMAIN rs /\ rs[i].count >= LOOSE_FILL /\ End(rs[i]) > FLOOR + LOOSE_FILL
    <3>1. F \subseteq 0 .. Len(rs) /\ Len(rs) \in Nat
      BY <1>1, RunsOf DEF Filling
    <3>2. i \in F
      <4> HIDE DEF F
      <4> QED BY <1>3, <3>1, MaxIs
    <3> HIDE DEF i
    <3> QED BY <3>2 DEF Filling
  <2>3. rs[i].count \in Nat /\ End(rs[i]) \in Nat /\ LOOSE_FILL <= rs[i].count
    BY <1>1, <2>2, RunsOf
  <2> HIDE DEF i, F
  <2>4. Fewer(t, m, Run(t.at, LOOSE_FILL)) /\ t.at = End(rs[i]) - LOOSE_FILL /\ t.at \in Nat \ {0}
    BY <1>1, <2>2, <2>3, TakeTopGood
  <2> HIDE DEF t
  <2>5. t.at >= FLOOR
    BY <1>1, <2>2, <2>3, <2>4
  <2>6. Sound(x) /\ All(x) = All(t) /\ x.lent = t.lent /\ x.lost = t.lost
    BY <2>4, AtSound DEF Fewer
  <2> HIDE DEF x
  <2>7. Run(t.at, LOOSE_FILL) \intersect All(x) = {}
    BY <2>4, <2>6 DEF Fewer
  <2>8. Grown(g, x, Run(t.at, LOOSE_FILL)) /\ g.lost = x.lost
    BY <1>1, <2>4, <2>5, <2>6, <2>7, LoosenGood
  <2> HIDE DEF g
  <2>9. Conserved(g, m)
    BY <2>4, <2>6, <2>8 DEF Conserved, Fewer, Grown
  <2> QED BY <2>1, <2>9
<1> QED BY <1>2, <1>3

\* The single pages back in runs, or as many as the list has room for.
LEMMA DrainedGood ==
  ASSUME machine \in Machines, NEW m, Sound(m)
  PROVE  Conserved(Drained(m), m) /\ (Drained(m).loose = <<>> \/ ~(Len(Drained(m).runs) < RUNS - 1))
<1> DEFINE N == Len(m.loose)
           More(v) == v.loose # <<>> /\ Len(v.runs) < RUNS - 1
           Step(v) == IF More(v) THEN RunAdd(LooseIs(v, Tail(v.loose)), Head(v.loose), 1) ELSE v
           Part(f) == f = [k \in 0 .. N |-> IF k = 0 THEN m ELSE Step(f[k - 1])]
           after == CHOOSE f : Part(f)
           Ok(v, k) == Conserved(v, m) /\ (~More(v) \/ Len(v.loose) <= N - k)
<1>1. Drained(m) = after[N] /\ N \in Nat /\ RUNS \in Nat \ {0, 1}
  BY Constants, WorldIs DEF Drained, Sound
<1> HIDE DEF N
<1>2. Ok(m, 0)
  <2>1. N - 0 = Len(m.loose)
    BY <1>1 DEF N
  <2> QED BY <1>1, <2>1 DEF Conserved, N
<1>3. ASSUME NEW k \in 1 .. N, NEW v, Ok(v, k - 1) PROVE Ok(Step(v), k)
  <2>1. Sound(v) /\ v.loose \in Seq(Nat \ {0}) /\ Len(v.loose) \in Nat /\ Len(v.runs) \in Nat
    BY <1>3, WorldIs DEF Conserved, Sound
  <2>2. CASE More(v)
    <3> DEFINE h == Head(v.loose)
               y == LooseIs(v, Tail(v.loose))
               z == RunAdd(y, h, 1)
    <3>1. Step(v) = z
      BY <2>2
    <3>2. Fewer(y, v, {h}) /\ y.runs = v.runs /\ h \in Nat \ {0} /\ Len(y.loose) = Len(v.loose) - 1
      BY <2>1, <2>2, HeadOff
    <3> HIDE DEF h, y
    <3>3. Run(h, 1) = {h} /\ Run(h, 1) \intersect All(y) = {} /\ Sound(y)
      BY <3>2 DEF Run, Fewer
    <3>4. Grown(z, y, {h}) /\ Keeps(z, y, h)
      BY <3>2, <3>3, RunAddGood
    <3> HIDE DEF z
    <3>5. z.loose = y.loose /\ z.lost = y.lost
      BY <1>1, <2>1, <2>2, <3>2, <3>4 DEF Keeps
    <3>6. Conserved(z, m)
      <4>1. All(z) = (All(v) \ {h}) \union {h} /\ {h} \subseteq All(v) /\ Sound(z) /\ z.lent = v.lent /\ z.lost = v.lost
        BY <3>2, <3>4, <3>5 DEF Grown, Fewer
      <4>2. All(z) = All(v)
        BY <4>1
      <4> QED BY <1>3, <4>1, <4>2 DEF Conserved
    <3>7. Len(z.loose) <= N - k
      <4>1. Len(v.loose) <= N - (k - 1)
        BY <1>3, <2>2
      <4> QED BY <1>1, <2>1, <3>2, <3>5, <4>1
    <3> QED BY <3>1, <3>6, <3>7
  <2>3. CASE ~More(v)
    <3>1. Step(v) = v
      BY <2>3
    <3> QED BY <1>3, <2>3, <3>1
  <2> QED BY <2>2, <2>3
<1> HIDE DEF Ok, Step, More
<1>4. Ok(after[N], N)
  <2> DEFINE W == {v \in [runs : Seq(Spans), loose : Seq(Nat \ {0}), lost : SUBSET Nat, lent : Seq(Nat \ {0}), at : Nat] : TRUE}
             X == [k \in 0 .. N |-> {v \in W : Ok(v, k)}]
             G == [k \in 1 .. N |-> [v \in W |-> Step(v)]]
  <2>1. ASSUME NEW v, NEW k, Ok(v, k) PROVE v \in W
    BY <2>1 DEF Ok, Conserved, Sound, IsWorld
  <2> HIDE DEF W
  <2>2. Leads(G, N, X) /\ m \in X[0]
    <3>1. ASSUME NEW k \in 1 .. N, NEW v \in X[k - 1] PROVE G[k][v] \in X[k]
      <4>1. v \in W /\ Ok(v, k - 1) /\ k \in 0 .. N
        BY <1>1
      <4>2. Ok(Step(v), k) /\ Step(v) \in W
        BY <1>3, <2>1, <4>1
      <4>3. G[k][v] = Step(v)
        BY <4>1
      <4> QED BY <4>1, <4>2, <4>3
    <3>2. m \in X[0]
      BY <1>1, <1>2, <2>1
    <3> HIDE DEF X, G
    <3> QED BY <3>1, <3>2 DEF Leads
  <2>3. PICK f : Takes(f, G, N, X, m)
    <3> HIDE DEF X, G
    <3> QED BY <1>1, <2>2, Recursion
  <2>4. Part(f)
    <3>1. f = [k \in 0 .. N |-> f[k]] /\ f[0] = m
      BY <2>3 DEF Takes
    <3>2. ASSUME NEW k \in 1 .. N PROVE f[k] = Step(f[k - 1])
      <4>1. f[k] = G[k][f[k - 1]] /\ f[k - 1] \in X[k - 1] /\ k - 1 \in 0 .. N
        <5> HIDE DEF X, G
        <5>1. k - 1 \in 0 .. N
          BY <1>1
        <5>2. f[k] = G[k][f[k - 1]] /\ f[k - 1] \in X[k - 1]
          BY <2>3 DEF Takes
        <5> QED BY <5>1, <5>2
      <4> QED BY <4>1
    <3>3. ASSUME NEW k \in 0 .. N PROVE f[k] = IF k = 0 THEN m ELSE Step(f[k - 1])
      <4>1. k # 0 => k \in 1 .. N
        BY <1>1
      <4> QED BY <3>1, <3>2, <4>1
    <3> QED BY <3>1, <3>3
  <2>5. Part(after)
    <3> HIDE DEF Part
    <3> QED BY <2>4
  <2> HIDE DEF after
  <2>6. after[0] = m /\ \A k \in 1 .. N : after[k] = Step(after[k - 1])
    BY <1>1, <2>5
  <2> DEFINE R == {k \in 0 .. N : Ok(after[k], k)}
  <2>7. Climbs(R, N)
    <3>1. 0 \in R
      BY <1>1, <1>2, <2>6
    <3>2. ASSUME NEW k \in 1 .. N, k - 1 \in R PROVE k \in R
      <4>1. Ok(after[k - 1], k - 1) /\ after[k] = Step(after[k - 1]) /\ k \in 0 .. N
        BY <1>1, <2>6, <3>2
      <4> QED BY <1>3, <4>1
    <3> HIDE DEF R
    <3> QED BY <3>1, <3>2 DEF Climbs
  <2>8. N \in R
    <3> HIDE DEF R
    <3> QED BY <1>1, <2>7, Climbing
  <2> QED BY <2>8
<1> HIDE DEF after
<1>5. Conserved(after[N], m) /\ ~More(after[N])
  <2>1. Conserved(after[N], m) /\ (~More(after[N]) \/ Len(after[N].loose) <= 0)
    BY <1>1, <1>4 DEF Ok
  <2>2. after[N].loose \in Seq(Nat \ {0})
    BY <2>1, WorldIs DEF Conserved, Sound
  <2>3. Len(after[N].loose) <= 0 => after[N].loose = <<>>
    BY <2>2
  <2> QED BY <2>1, <2>3 DEF More
<1> QED BY <1>1, <1>5 DEF More

----------------------------------------------------------------------------

\* g is m once n pages were asked of it: they are g's to hand out, and in none of its places, or
\* there is no run so long and no putting one together.
Gives(g, m, n) ==
  /\ Sound(g) /\ g.lent = m.lent /\ g.lost = m.lost /\ g.at \in Nat
  /\ g.at = 0 => /\ All(g) = All(m) /\ (g.loose = <<>> \/ ~(Len(g.runs) < RUNS - 1))
                 /\ Fitting(g, n) = {}
  /\ g.at # 0 => Run(g.at, n) \subseteq All(m) /\ All(g) = All(m) \ Run(g.at, n)

LEMMA TakeGood ==
  ASSUME machine \in Machines, NEW m, Sound(m), NEW n \in Nat \ {0}
  PROVE  Gives(Take(m, n), m, n)
<1> DEFINE f == IF n = 1 /\ m.loose = <<>> THEN Filled(m) ELSE m
           d == Drained(f)
           g == Take(m, n)
           one == AtIs(LooseIs(f, Tail(f.loose)), Head(f.loose))
           OffTop(x) == TakeTop(x, Max(Fitting(x, n)), n)
<1>1. Conserved(f, m)
  <2>1. Conserved(m, m)
    BY DEF Conserved
  <2> QED BY <2>1, FilledGood
<1>2. /\ n = 1 /\ f.loose # <<>> => g = one
      /\ ~(n = 1 /\ f.loose # <<>>) /\ Fitting(f, n) # {} => g = OffTop(f)
      /\ ~(n = 1 /\ f.loose # <<>>) /\ Fitting(f, n) = {} /\ Fitting(d, n) # {} => g = OffTop(d)
      /\ ~(n = 1 /\ f.loose # <<>>) /\ Fitting(f, n) = {} /\ Fitting(d, n) = {} => g = AtIs(d, 0)
  <2> HIDE DEF f, one, OffTop, d
  <2> QED BY DEF Take, f, one, OffTop, d
<1> HIDE DEF g, f
<1>3. Conserved(d, m) /\ (d.loose = <<>> \/ ~(Len(d.runs) < RUNS - 1))
  <2>1. Sound(f)
    BY <1>1 DEF Conserved
  <2>2. Conserved(d, f) /\ (d.loose = <<>> \/ ~(Len(d.runs) < RUNS - 1))
    BY <2>1, DrainedGood
  <2> HIDE DEF d
  <2> QED BY <1>1, <2>2 DEF Conserved
<1> HIDE DEF d
<1>4. ASSUME NEW x, Conserved(x, m), Fitting(x, n) # {} PROVE Gives(OffTop(x), m, n)
  <2> DEFINE F == Fitting(x, n)
             i == Max(F)
             t == TakeTop(x, i, n)
  <2>1. Sound(x) /\ RunsOK(x.runs)
    BY <1>4 DEF Conserved, Sound, Split
  <2>2. F \subseteq 0 .. Len(x.runs) /\ Len(x.runs) \in Nat
    BY <2>1, RunsOf DEF Fitting
  <2>3. i \in F
    <3> HIDE DEF F
    <3> QED BY <1>4, <2>2, MaxIs DEF F
  <2> HIDE DEF i
  <2>4. i \in DOMAIN x.runs /\ n <= x.runs[i].count
    <3>1. i \in DOMAIN x.runs /\ x.runs[i].count >= n
      BY <2>3 DEF Fitting
    <3>2. x.runs[i].count \in Nat
      BY <2>1, <3>1, RunsOf
    <3> QED BY <3>1, <3>2
  <2>5. Fewer(t, x, Run(t.at, n)) /\ t.at \in Nat \ {0}
    BY <2>1, <2>4, TakeTopGood
  <2> HIDE DEF t
  <2>6. Gives(t, m, n)
    BY <1>4, <2>5 DEF Gives, Fewer, Conserved
  <2> QED BY <2>6 DEF t, i
<1>5. CASE n = 1 /\ f.loose # <<>>
  <2> DEFINE h == Head(f.loose)
             y == LooseIs(f, Tail(f.loose))
  <2>1. Sound(f)
    BY <1>1 DEF Conserved
  <2>2. Fewer(y, f, {h}) /\ h \in Nat \ {0}
    BY <1>5, <2>1, HeadOff
  <2>3. g = AtIs(y, h)
    BY <1>2, <1>5
  <2> HIDE DEF h, y
  <2>4. Sound(g) /\ All(g) = All(y) /\ g.lent = y.lent /\ g.lost = y.lost /\ g.at = h
    BY <2>2, <2>3, AtSound DEF Fewer
  <2>5. Run(h, n) = {h}
    BY <1>5, <2>2 DEF Run
  <2>6. Gives(g, m, n)
    BY <1>1, <2>2, <2>4, <2>5 DEF Gives, Fewer, Conserved
  <2> QED BY <2>6 DEF g
<1>6. CASE ~(n = 1 /\ f.loose # <<>>) /\ Fitting(f, n) # {}
  <2> HIDE DEF OffTop
  <2> QED BY <1>1, <1>2, <1>4, <1>6 DEF g
<1>7. CASE ~(n = 1 /\ f.loose # <<>>) /\ Fitting(f, n) = {} /\ Fitting(d, n) # {}
  <2> HIDE DEF OffTop
  <2> QED BY <1>2, <1>3, <1>4, <1>7 DEF g
<1>8. CASE ~(n = 1 /\ f.loose # <<>>) /\ Fitting(f, n) = {} /\ Fitting(d, n) = {}
  <2>1. g = AtIs(d, 0)
    BY <1>2, <1>8
  <2>2. Sound(g) /\ All(g) = All(d) /\ g.lent = d.lent /\ g.lost = d.lost /\ g.at = 0 /\ g.runs = d.runs /\ g.loose = d.loose
    BY <1>3, <2>1, AtSound DEF Conserved
  <2>3. Fitting(g, n) = {}
    BY <1>8, <2>2 DEF Fitting
  <2>4. Gives(g, m, n)
    BY <1>3, <2>2, <2>3 DEF Gives, Conserved
  <2> QED BY <2>4 DEF g
<1> QED BY <1>5, <1>6, <1>7, <1>8

----------------------------------------------------------------------------
(* The disk cache's lines.                                                 *)

Whole(m) == Sound(m) /\ Apart(m.lent) /\ InLines(m.lent) \intersect All(m) = {}
Total(m) == All(m) \union InLines(m.lent)

LEMMA PagesFreeGood ==
  ASSUME machine \in Machines, NEW m, Sound(m), NEW at \in Nat \ {0}, NEW n \in Nat, Run(at, n) \intersect All(m) = {}
  PROVE  Grown(PagesFree(m, at, n), m, Run(at, n))
<1>1. CASE n = 1 /\ at >= FLOOR
  <2>1. Grown(Loosen(m, at, n), m, Run(at, n))
    BY LoosenGood
  <2> QED BY <1>1, <2>1 DEF PagesFree
<1>2. CASE ~(n = 1 /\ at >= FLOOR)
  BY <1>2, RunAddGood DEF PagesFree
<1> QED BY <1>1, <1>2

\* The line used longest ago, and the others.
LEMMA FirstLine ==
  ASSUME NEW ls \in Seq(Nat \ {0}), ls # <<>>, Apart(ls)
  PROVE  /\ Tail(ls) \in Seq(Nat \ {0}) /\ Head(ls) \in Nat \ {0} /\ Len(Tail(ls)) = Len(ls) - 1
         /\ Apart(Tail(ls)) /\ InLines(ls) = Run(Head(ls), LINE_PAGES) \union InLines(Tail(ls))
         /\ Run(Head(ls), LINE_PAGES) \intersect InLines(Tail(ls)) = {}
<1> DEFINE t == Tail(ls)
           n == Len(ls)
           R(p) == Run(p, LINE_PAGES)
<1>1. /\ t \in Seq(Nat \ {0}) /\ Len(t) = n - 1 /\ DOMAIN t = 1 .. n - 1 /\ Head(ls) = ls[1] /\ Head(ls) \in Nat \ {0}
      /\ \A k \in 1 .. n - 1 : t[k] = ls[k + 1]
      /\ 1 \in DOMAIN ls /\ DOMAIN ls = 1 .. n /\ n \in Nat
  BY Tailed
<1> HIDE DEF t, n
<1>2. \A k \in 1 .. n - 1 : k + 1 \in 1 .. n /\ k + 1 # 1
  BY <1>1
<1>3. \A k \in 1 .. n : k # 1 => k - 1 \in 1 .. n - 1 /\ (k - 1) + 1 = k
  BY <1>1
<1>4. \A i, j \in 1 .. n : i # j => R(ls[i]) \intersect R(ls[j]) = {}
  BY <1>1 DEF Apart
<1>5. InLines(t) = UNION {R(t[k]) : k \in 1 .. n - 1} /\ InLines(ls) = UNION {R(ls[k]) : k \in 1 .. n}
  BY <1>1 DEF InLines
<1> HIDE DEF R
<1>6. \A i, j \in 1 .. n - 1 : i # j => R(t[i]) \intersect R(t[j]) = {}
  <2> SUFFICES ASSUME NEW i \in 1 .. n - 1, NEW j \in 1 .. n - 1, i # j PROVE R(t[i]) \intersect R(t[j]) = {}
    OBVIOUS
  <2>1. i + 1 # j + 1 /\ i + 1 \in 1 .. n /\ j + 1 \in 1 .. n
    BY <1>2
  <2> QED BY <1>1, <1>4, <2>1
<1>7. InLines(ls) = R(Head(ls)) \union InLines(t)
  <2>1. ASSUME NEW k \in 1 .. n PROVE R(ls[k]) \subseteq R(Head(ls)) \union InLines(t)
    <3>1. CASE k = 1
      BY <1>1, <3>1
    <3>2. CASE k # 1
      <4>1. t[k - 1] = ls[k] /\ k - 1 \in 1 .. n - 1
        BY <1>1, <1>3, <3>2
      <4> QED BY <1>5, <4>1
    <3> QED BY <3>1, <3>2
  <2>2. ASSUME NEW k \in 1 .. n - 1 PROVE R(t[k]) \subseteq InLines(ls)
    <3>1. t[k] = ls[k + 1] /\ k + 1 \in 1 .. n
      BY <1>1, <1>2
    <3> QED BY <1>5, <3>1
  <2>3. R(Head(ls)) \subseteq InLines(ls)
    BY <1>1, <1>5
  <2> QED BY <1>5, <2>1, <2>2, <2>3
<1>8. R(Head(ls)) \intersect InLines(t) = {}
  <2>1. ASSUME NEW k \in 1 .. n - 1 PROVE R(ls[1]) \intersect R(t[k]) = {}
    <3>1. t[k] = ls[k + 1] /\ k + 1 \in 1 .. n /\ k + 1 # 1 /\ 1 \in 1 .. n
      BY <1>1, <1>2
    <3> QED BY <1>4, <3>1
  <2> QED BY <1>1, <1>5, <2>1
<1>9. Apart(t)
  BY <1>1, <1>6 DEF Apart, R
<1> QED BY <1>1, <1>7, <1>8, <1>9 DEF t, n, R

\* What is in the chain, the runs and the lost pages more or less, the lines the same.
LEMMA WholeGrown ==
  ASSUME NEW m, Whole(m), NEW g, NEW S, Grown(g, m, S), S \intersect Total(m) = {}
  PROVE  Whole(g) /\ Total(g) = Total(m) \union S
<1>1. Sound(g) /\ All(g) = All(m) \union S /\ g.lent = m.lent
  BY DEF Grown
<1> QED BY <1>1 DEF Whole, Total

LEMMA LineBack ==
  ASSUME machine \in Machines, NEW m, Whole(m), m.lent # <<>>
  PROVE  LET g == PagesFree(LentIs(m, Tail(m.lent)), Head(m.lent), LINE_PAGES)
         IN Whole(g) /\ Total(g) = Total(m) /\ Len(g.lent) = Len(m.lent) - 1 /\ g.at = m.at
<1> DEFINE ls == m.lent
           t == Tail(ls)
           h == Head(ls)
           x == LentIs(m, t)
           g == PagesFree(x, h, LINE_PAGES)
           S == Run(h, LINE_PAGES)
<1>1. IsWorld(m) /\ Split(m.runs, m.loose, m.lost) /\ ls \in Seq(Nat \ {0}) /\ Apart(ls) /\ LINE_PAGES \in Nat
  BY WorldIs, Constants DEF Whole, Sound
<1>2. /\ t \in Seq(Nat \ {0}) /\ h \in Nat \ {0} /\ Len(t) = Len(ls) - 1
      /\ Apart(t) /\ InLines(ls) = S \union InLines(t) /\ S \intersect InLines(t) = {}
  BY <1>1, FirstLine
<1> HIDE DEF t, h
<1>3. Is(x, m.runs, m.loose, m.lost, t, m.at)
  BY <1>1, <1>2, Parts
<1> HIDE DEF x
<1>4. Sound(x) /\ All(x) = All(m) /\ x.lent = t /\ x.at = m.at
  BY <1>1, <1>3 DEF Sound, All, Is
<1>5. Whole(x) /\ S \intersect Total(x) = {} /\ Total(m) = Total(x) \union S
  <2>1. InLines(ls) \intersect All(m) = {} /\ Total(m) = All(m) \union InLines(ls)
    BY DEF Whole, Total
  <2> HIDE DEF S, ls
  <2>2. InLines(t) \intersect All(x) = {} /\ Total(x) = All(x) \union InLines(t)
    BY <1>2, <1>4, <2>1 DEF Total
  <2> QED BY <1>2, <1>4, <2>1, <2>2 DEF Whole
<1>6. Grown(g, x, S)
  <2>1. S \intersect All(x) = {}
    BY <1>5 DEF Total
  <2> QED BY <1>1, <1>2, <1>4, <2>1, PagesFreeGood
<1> HIDE DEF g, S
<1>7. Whole(g) /\ Total(g) = Total(m) /\ Len(g.lent) = Len(ls) - 1 /\ g.at = m.at
  <2>1. Whole(g) /\ Total(g) = Total(x) \union S
    BY <1>5, <1>6, WholeGrown
  <2>2. g.lent = x.lent /\ g.at = x.at
    BY <1>6 DEF Grown
  <2> QED BY <1>2, <1>4, <1>5, <2>1, <2>2
<1> QED BY <1>7 DEF g, x, t, h

\* The same pages, and if lines were lent, fewer.
Returned(g, m) ==
  /\ Whole(g) /\ Total(g) = Total(m) /\ g.at = m.at
  /\ IF m.lent = <<>> THEN g.lent = <<>> ELSE Len(g.lent) < Len(m.lent)

LEMMA LinesFor ==
  ASSUME machine \in Machines, NEW n \in Nat \ {0}, NEW l \in Nat
  PROVE  LET k == Min({l, (n + LINE_PAGES - 1) \div LINE_PAGES})
         IN k \in 0 .. l /\ (l > 0 => k > 0)
<1> DEFINE a == n + LINE_PAGES - 1
           q == a \div LINE_PAGES
           k == Min({l, q})
<1>1. LINE_PAGES \in Nat \ {0} /\ a \in Nat /\ a >= LINE_PAGES
  BY Constants
<1> HIDE DEF a
<1>2. q \in Nat /\ a % LINE_PAGES \in 0 .. LINE_PAGES - 1 /\ a = LINE_PAGES * q + (a % LINE_PAGES)
  BY <1>1, DivMod
<1> HIDE DEF q
<1>3. q > 0
  <2>1. SUFFICES ASSUME q = 0 PROVE FALSE
    BY <1>2
  <2>2. LINE_PAGES * q = 0
    BY <1>1, <2>1
  <2> QED BY <1>1, <1>2, <2>2
<1>4. k \in {l, q} /\ k <= l
  <2>1. {l, q} \subseteq Nat /\ {l, q} # {}
    BY <1>2
  <2> QED BY <2>1, MinIn
<1> HIDE DEF k
<1>5. k \in 0 .. l /\ (l > 0 => k > 0)
  BY <1>2, <1>3, <1>4
<1> QED BY <1>5 DEF k, q, a

LEMMA ShrunkGood ==
  ASSUME machine \in Machines, NEW m, Whole(m), NEW n \in Nat \ {0}
  PROVE  Returned(Shrunk(m, n), m)
<1> DEFINE L == Len(m.lent)
           N == Min({L, (n + LINE_PAGES - 1) \div LINE_PAGES})
           Step(v) == PagesFree(LentIs(v, Tail(v.lent)), Head(v.lent), LINE_PAGES)
           Part(f) == f = [k \in 0 .. N |-> IF k = 0 THEN m ELSE Step(f[k - 1])]
           after == CHOOSE f : Part(f)
           Ok(v, k) == Whole(v) /\ Total(v) = Total(m) /\ v.at = m.at /\ Len(v.lent) = L - k
<1>1. Shrunk(m, n) = after[N] /\ m.lent \in Seq(Nat \ {0}) /\ L \in Nat
  BY WorldIs DEF Shrunk, Whole, Sound
<1>2. N \in 0 .. L /\ (L > 0 => N > 0)
  <2> HIDE DEF L
  <2> QED BY <1>1, LinesFor
<1> HIDE DEF N, L
<1>3. Ok(m, 0)
  <2>1. L - 0 = Len(m.lent)
    BY <1>1 DEF L
  <2> QED BY <2>1
<1>4. ASSUME NEW k \in 1 .. N, NEW v, Ok(v, k - 1) PROVE Ok(Step(v), k)
  <2>1. Whole(v) /\ v.lent # <<>>
    <3>1. Len(v.lent) > 0
      BY <1>1, <1>2, <1>4
    <3> QED BY <1>4, <3>1
  <2>2. Whole(Step(v)) /\ Total(Step(v)) = Total(v) /\ Len(Step(v).lent) = Len(v.lent) - 1 /\ Step(v).at = v.at
    BY <2>1, LineBack
  <2> HIDE DEF Step
  <2>3. Len(Step(v).lent) = L - k
    BY <1>1, <1>2, <1>4, <2>2
  <2> QED BY <1>4, <2>2, <2>3
<1> HIDE DEF Ok, Step
<1>5. Ok(after[N], N)
  <2> DEFINE W == {v \in [runs : Seq(Spans), loose : Seq(Nat \ {0}), lost : SUBSET Nat, lent : Seq(Nat \ {0}), at : Nat] : TRUE}
             X == [k \in 0 .. N |-> {v \in W : Ok(v, k)}]
             G == [k \in 1 .. N |-> [v \in W |-> Step(v)]]
  <2>1. ASSUME NEW v, NEW k, Ok(v, k) PROVE v \in W
    BY <2>1 DEF Ok, Whole, Sound, IsWorld
  <2> HIDE DEF W
  <2>2. Leads(G, N, X) /\ m \in X[0]
    <3>1. ASSUME NEW k \in 1 .. N, NEW v \in X[k - 1] PROVE G[k][v] \in X[k]
      <4>1. v \in W /\ Ok(v, k - 1) /\ k \in 0 .. N
        BY <1>1, <1>2
      <4>2. Ok(Step(v), k) /\ Step(v) \in W
        BY <1>4, <2>1, <4>1
      <4>3. G[k][v] = Step(v)
        BY <4>1
      <4> QED BY <4>1, <4>2, <4>3
    <3>2. m \in X[0]
      BY <1>1, <1>2, <1>3, <2>1
    <3> HIDE DEF X, G
    <3> QED BY <3>1, <3>2 DEF Leads
  <2>3. PICK f : Takes(f, G, N, X, m)
    <3> HIDE DEF X, G
    <3> QED BY <1>1, <1>2, <2>2, Recursion
  <2>4. Part(f)
    <3>1. f = [k \in 0 .. N |-> f[k]] /\ f[0] = m
      BY <2>3 DEF Takes
    <3>2. ASSUME NEW k \in 1 .. N PROVE f[k] = Step(f[k - 1])
      <4>1. f[k] = G[k][f[k - 1]] /\ f[k - 1] \in X[k - 1] /\ k - 1 \in 0 .. N
        <5> HIDE DEF X, G
        <5>1. k - 1 \in 0 .. N
          BY <1>1, <1>2
        <5>2. f[k] = G[k][f[k - 1]] /\ f[k - 1] \in X[k - 1]
          BY <2>3 DEF Takes
        <5> QED BY <5>1, <5>2
      <4> QED BY <4>1
    <3>3. ASSUME NEW k \in 0 .. N PROVE f[k] = IF k = 0 THEN m ELSE Step(f[k - 1])
      <4>1. k # 0 => k \in 1 .. N
        BY <1>1, <1>2
      <4> QED BY <3>1, <3>2, <4>1
    <3> QED BY <3>1, <3>3
  <2>5. Part(after)
    <3> HIDE DEF Part
    <3> QED BY <2>4
  <2> HIDE DEF after
  <2>6. after[0] = m /\ \A k \in 1 .. N : after[k] = Step(after[k - 1])
    BY <1>1, <1>2, <2>5
  <2> DEFINE R == {k \in 0 .. N : Ok(after[k], k)}
  <2>7. Climbs(R, N)
    <3>1. 0 \in R
      BY <1>1, <1>2, <1>3, <2>6
    <3>2. ASSUME NEW k \in 1 .. N, k - 1 \in R PROVE k \in R
      <4>1. Ok(after[k - 1], k - 1) /\ after[k] = Step(after[k - 1]) /\ k \in 0 .. N
        BY <1>1, <1>2, <2>6, <3>2
      <4> QED BY <1>4, <4>1
    <3> HIDE DEF R
    <3> QED BY <3>1, <3>2 DEF Climbs
  <2>8. N \in R
    <3> HIDE DEF R
    <3> QED BY <1>1, <1>2, <2>7, Climbing
  <2> QED BY <2>8
<1> HIDE DEF after
<1>6. Whole(after[N]) /\ Total(after[N]) = Total(m) /\ after[N].at = m.at /\ Len(after[N].lent) = L - N
  BY <1>5 DEF Ok
<1>7. after[N].lent \in Seq(Nat \ {0})
  BY <1>6, WorldIs DEF Whole, Sound
<1>8. IF m.lent = <<>> THEN after[N].lent = <<>> ELSE Len(after[N].lent) < Len(m.lent)
  <2>1. CASE m.lent = <<>>
    <3>1. L = 0
      BY <2>1 DEF L
    <3>2. Len(after[N].lent) = 0
      <4>1. N = 0 /\ L = 0
        BY <1>2, <3>1
      <4>2. L - N = 0
        BY <4>1
      <4> QED BY <1>6, <4>2
    <3>3. after[N].lent = <<>>
      BY <1>7, <3>2
    <3> QED BY <2>1, <3>3
  <2>2. CASE m.lent # <<>>
    <3>1. L > 0
      BY <1>1, <2>2 DEF L
    <3>2. Len(after[N].lent) < L
      BY <1>1, <1>2, <1>6, <3>1
    <3> QED BY <2>2, <3>2 DEF L
  <2> QED BY <2>1, <2>2
<1> QED BY <1>1, <1>6, <1>8 DEF Returned

----------------------------------------------------------------------------
(* The calls.                                                              *)

\* What a call hands out: n pages of m's, in none of g's places, or nothing.
Hands(g, m, n) ==
  /\ Whole(g) /\ g.at \in Nat
  /\ g.at = 0 => Total(g) = Total(m)
  /\ g.at # 0 => Run(g.at, n) \subseteq Total(m) /\ Total(g) = Total(m) \ Run(g.at, n)
NoneFits(g, n) == Fitting(g, n) = {} /\ (g.loose = <<>> \/ ~(Len(g.runs) < RUNS - 1))

LEMMA TakeHands ==
  ASSUME machine \in Machines, NEW m, Whole(m), NEW n \in Nat \ {0}
  PROVE  LET g == Take(m, n)
         IN Hands(g, m, n) /\ g.lent = m.lent /\ (g.at = 0 => NoneFits(g, n)) /\ (g.at # 0 => Run(g.at, n) \subseteq All(m))
<1> DEFINE g == Take(m, n)
           S == Run(g.at, n)
           I == InLines(m.lent)
<1>1. Gives(g, m, n)
  BY TakeGood DEF Whole
<1> HIDE DEF g, S, I
<1>2. Apart(m.lent) /\ I \intersect All(m) = {} /\ Total(m) = All(m) \union I
  BY DEF Whole, Total, I
<1>3. Sound(g) /\ g.lent = m.lent /\ g.at \in Nat
  BY <1>1 DEF Gives
<1>4. g.at = 0 => All(g) = All(m) /\ NoneFits(g, n)
  BY <1>1 DEF Gives, NoneFits
<1>5. g.at # 0 => S \subseteq All(m) /\ All(g) = All(m) \ S
  BY <1>1 DEF Gives, S
<1>6. Whole(g) /\ Total(g) = All(g) \union I
  <2>1. I \intersect All(g) = {}
    BY <1>2, <1>4, <1>5
  <2> QED BY <1>2, <1>3, <2>1 DEF Whole, Total, I
<1>7. Hands(g, m, n)
  BY <1>2, <1>3, <1>4, <1>5, <1>6 DEF Hands, S
<1> QED BY <1>3, <1>4, <1>5, <1>7 DEF g, S

LEMMA AtWhole ==
  ASSUME NEW m, Whole(m), NEW at \in Nat
  PROVE  Whole(AtIs(m, at)) /\ Total(AtIs(m, at)) = Total(m) /\ AtIs(m, at).at = at /\ AtIs(m, at).lent = m.lent
<1>1. /\ Sound(AtIs(m, at)) /\ All(AtIs(m, at)) = All(m) /\ AtIs(m, at).lent = m.lent /\ AtIs(m, at).at = at
  BY AtSound DEF Whole
<1> QED BY <1>1 DEF Whole, Total

LEMMA AgainGood ==
  ASSUME machine \in Machines, NEW m, Whole(m), m.at = 0, NEW n \in Nat \ {0}
  PROVE  Returned(Again(m, n), m)
<1> DEFINE t == Take(m, n)
           c == Shrunk(t, n)
           s == AtIs(c, 0)
           a == t.at
           g == RunAdd(s, a, n)
           S == Run(a, n)
<1>1. Again(m, n) = IF a # 0 THEN g ELSE s
  BY DEF Again
<1>2. Hands(t, m, n) /\ t.lent = m.lent
  BY TakeHands
<1> HIDE DEF t
<1>3. Returned(c, t)
  BY <1>2, ShrunkGood DEF Hands
<1> HIDE DEF c
<1>4. Whole(s) /\ Total(s) = Total(t) /\ s.at = 0 /\ s.lent = c.lent
  <2>1. Whole(c) /\ Total(c) = Total(t)
    BY <1>3 DEF Returned
  <2> QED BY <2>1, AtWhole
<1> HIDE DEF s
<1>5. IF m.lent = <<>> THEN s.lent = <<>> ELSE Len(s.lent) < Len(m.lent)
  BY <1>2, <1>3, <1>4 DEF Returned
<1>6. a \in Nat /\ (a = 0 => Total(t) = Total(m)) /\ (a # 0 => S \subseteq Total(m) /\ Total(t) = Total(m) \ S)
  BY <1>2 DEF Hands
<1> HIDE DEF a, S
<1>7. CASE a = 0
  <2>1. Returned(s, m)
    BY <1>4, <1>5, <1>6, <1>7 DEF Returned
  <2> QED BY <1>1, <1>7, <2>1
<1>8. CASE a # 0
  <2>1. S \intersect Total(s) = {} /\ S \intersect All(s) = {} /\ Sound(s)
    BY <1>4, <1>6, <1>8 DEF Total, Whole
  <2>2. Grown(g, s, S)
    BY <1>6, <1>8, <2>1, RunAddGood DEF S
  <2> HIDE DEF g
  <2>3. Whole(g) /\ Total(g) = Total(s) \union S
    BY <1>4, <2>1, <2>2, WholeGrown
  <2>4. Total(g) = Total(m) /\ g.at = 0 /\ g.lent = s.lent
    BY <1>4, <1>6, <1>8, <2>2, <2>3 DEF Grown
  <2>5. Returned(g, m)
    BY <1>5, <2>3, <2>4 DEF Returned
  <2> QED BY <1>1, <1>8, <2>5
<1> QED BY <1>7, <1>8

LEMMA MemPagesGood ==
  ASSUME machine \in Machines, Whole(Now), NEW n \in Nat \ {0}, NEW busy \in BOOLEAN
  PROVE  LET g == MemPages(n, busy)
         IN Hands(g, Now, n) /\ (g.at = 0 => NoneFits(g, n)) /\ (Good(g.at) \/ busy \/ g.lent = <<>>)
<1> DEFINE m == Now
           N == Len(lent)
           Step(v) == Again(v, n)
           Part(f) == f = [k \in 0 .. N |-> IF k = 0 THEN m ELSE Step(f[k - 1])]
           try == CHOOSE f : Part(f)
           Stops(k) == Good(Take(try[k], n).at) \/ busy \/ try[k].lent = <<>>
           S == {k \in 0 .. N : Stops(k)}
           Ok(v, k) == Whole(v) /\ Total(v) = Total(m) /\ v.at = 0 /\ Len(v.lent) <= N - k
<1>1. MemPages(n, busy) = Take(try[Min(S)], n)
  BY DEF MemPages
<1>2. m.lent = lent /\ m.at = 0
  BY DEF Now
<1> HIDE DEF m
<1>3. lent \in Seq(Nat \ {0}) /\ N \in Nat
  BY <1>2, WorldIs DEF Whole, Sound, m
<1>4. Ok(m, 0)
  <2>1. Len(m.lent) <= N - 0
    BY <1>2, <1>3
  <2> QED BY <1>2, <2>1 DEF m
<1> HIDE DEF N
<1>5. ASSUME NEW k \in 1 .. N, NEW v, Ok(v, k - 1) PROVE Ok(Step(v), k)
  <2>1. Whole(v) /\ v.at = 0 /\ Total(v) = Total(m) /\ Len(v.lent) <= N - (k - 1)
    BY <1>5
  <2>2. Returned(Step(v), v)
    BY <2>1, AgainGood
  <2> HIDE DEF Step
  <2>3. v.lent \in Seq(Nat \ {0}) /\ Step(v).lent \in Seq(Nat \ {0})
    BY <2>1, <2>2, WorldIs DEF Returned, Whole, Sound
  <2>4. Len(Step(v).lent) <= N - k
    <3>1. CASE v.lent = <<>>
      <4>1. Len(Step(v).lent) = 0 /\ k <= N
        BY <1>3, <2>2, <3>1 DEF Returned
      <4> QED BY <1>3, <4>1
    <3>2. CASE v.lent # <<>>
      <4>1. Len(Step(v).lent) < Len(v.lent) /\ Len(Step(v).lent) \in Nat /\ Len(v.lent) \in Nat
        BY <2>2, <2>3, <3>2 DEF Returned
      <4> QED BY <1>3, <2>1, <4>1
    <3> QED BY <3>1, <3>2
  <2> QED BY <2>1, <2>2, <2>4 DEF Returned
<1> HIDE DEF Ok, Step, Stops
<1>6. \A k \in 0 .. N : Ok(try[k], k)
  <2> DEFINE W == {v \in [runs : Seq(Spans), loose : Seq(Nat \ {0}), lost : SUBSET Nat, lent : Seq(Nat \ {0}), at : Nat] : TRUE}
             X == [k \in 0 .. N |-> {v \in W : Ok(v, k)}]
             G == [k \in 1 .. N |-> [v \in W |-> Step(v)]]
  <2>1. ASSUME NEW v, NEW k, Ok(v, k) PROVE v \in W
    BY <2>1 DEF Ok, Whole, Sound, IsWorld
  <2> HIDE DEF W
  <2>2. Leads(G, N, X) /\ m \in X[0]
    <3>1. ASSUME NEW k \in 1 .. N, NEW v \in X[k - 1] PROVE G[k][v] \in X[k]
      <4>1. v \in W /\ Ok(v, k - 1) /\ k \in 0 .. N
        BY <1>3
      <4>2. Ok(Step(v), k) /\ Step(v) \in W
        BY <1>5, <2>1, <4>1
      <4>3. G[k][v] = Step(v)
        BY <4>1
      <4> QED BY <4>1, <4>2, <4>3
    <3>2. m \in X[0]
      BY <1>3, <1>4, <2>1
    <3> HIDE DEF X, G
    <3> QED BY <3>1, <3>2 DEF Leads
  <2>3. PICK f : Takes(f, G, N, X, m)
    <3> HIDE DEF X, G
    <3> QED BY <1>3, <2>2, Recursion
  <2>4. Part(f)
    <3>1. f = [k \in 0 .. N |-> f[k]] /\ f[0] = m
      BY <2>3 DEF Takes
    <3>2. ASSUME NEW k \in 1 .. N PROVE f[k] = Step(f[k - 1])
      <4>1. f[k] = G[k][f[k - 1]] /\ f[k - 1] \in X[k - 1] /\ k - 1 \in 0 .. N
        <5> HIDE DEF X, G
        <5>1. k - 1 \in 0 .. N
          BY <1>3
        <5>2. f[k] = G[k][f[k - 1]] /\ f[k - 1] \in X[k - 1]
          BY <2>3 DEF Takes
        <5> QED BY <5>1, <5>2
      <4> QED BY <4>1
    <3>3. ASSUME NEW k \in 0 .. N PROVE f[k] = IF k = 0 THEN m ELSE Step(f[k - 1])
      <4>1. k # 0 => k \in 1 .. N
        BY <1>3
      <4> QED BY <3>1, <3>2, <4>1
    <3> QED BY <3>1, <3>3
  <2>5. Part(try)
    <3> HIDE DEF Part
    <3> QED BY <2>4
  <2> HIDE DEF try
  <2>6. try[0] = m /\ \A k \in 1 .. N : try[k] = Step(try[k - 1])
    BY <1>3, <2>5
  <2> DEFINE R == {k \in 0 .. N : Ok(try[k], k)}
  <2>7. Climbs(R, N)
    <3>1. 0 \in R
      BY <1>3, <1>4, <2>6
    <3>2. ASSUME NEW k \in 1 .. N, k - 1 \in R PROVE k \in R
      <4>1. Ok(try[k - 1], k - 1) /\ try[k] = Step(try[k - 1]) /\ k \in 0 .. N
        BY <1>3, <2>6, <3>2
      <4> QED BY <1>5, <4>1
    <3> HIDE DEF R
    <3> QED BY <3>1, <3>2 DEF Climbs
  <2>8. \A k \in 0 .. N : k \in R
    <3> HIDE DEF R
    <3> QED BY <1>3, <2>7, Climbing
  <2> QED BY <2>8
<1> HIDE DEF try
<1>7. N \in S
  <2>1. Ok(try[N], N)
    BY <1>3, <1>6
  <2>2. Len(try[N].lent) <= N - N /\ Whole(try[N])
    BY <2>1 DEF Ok
  <2>3. try[N].lent \in Seq(Nat \ {0})
    BY <2>2, WorldIs DEF Whole, Sound
  <2>4. try[N].lent = <<>>
    BY <1>3, <2>2, <2>3
  <2> QED BY <1>3, <2>4 DEF Stops
<1> DEFINE K == Min(S)
           v == try[K]
           g == Take(v, n)
<1>8. K \in 0 .. N /\ Stops(K)
  <2>1. S \subseteq Nat /\ S # {}
    BY <1>3, <1>7
  <2>2. K \in S
    <3> HIDE DEF S
    <3> QED BY <2>1, MinIn
  <2> HIDE DEF K
  <2> QED BY <2>2
<1> HIDE DEF K, S
<1>9. Whole(v) /\ Total(v) = Total(m)
  BY <1>6, <1>8 DEF Ok
<1>10. Good(g.at) \/ busy \/ v.lent = <<>>
  BY <1>8 DEF Stops
<1> HIDE DEF v
<1>11. Hands(g, v, n) /\ g.lent = v.lent /\ (g.at = 0 => NoneFits(g, n))
  BY <1>9, TakeHands
<1> HIDE DEF g
<1>12. Hands(g, m, n)
  BY <1>9, <1>11 DEF Hands
<1> QED BY <1>1, <1>10, <1>11, <1>12 DEF g, v, K, m

\* mem_pages_lent: what lands low goes back.
LEMMA LentGood ==
  ASSUME machine \in Machines, Whole(Now)
  PROVE  Hands(Lent, Now, LINE_PAGES) /\ Lent.lent = lent
<1> DEFINE m == Now
           t == Take(m, LINE_PAGES)
           a == t.at
           s == AtIs(t, 0)
           g == RunAdd(s, a, LINE_PAGES)
           S == Run(a, LINE_PAGES)
<1>1. Lent = IF a # 0 /\ a < FloorKept THEN g ELSE t
  BY DEF Lent
<1>2. m.lent = lent /\ m.at = 0
  BY DEF Now
<1>3. LINE_PAGES \in Nat \ {0}
  BY Constants
<1>4. Whole(m)
  OBVIOUS
<1> HIDE DEF m
<1>5. Hands(t, m, LINE_PAGES) /\ t.lent = lent
  BY <1>2, <1>3, <1>4, TakeHands
<1> HIDE DEF t
<1>6. a \in Nat /\ Whole(t) /\ (a # 0 => S \subseteq Total(m) /\ Total(t) = Total(m) \ S)
  BY <1>5 DEF Hands
<1>7. Whole(s) /\ Total(s) = Total(t) /\ s.at = 0 /\ s.lent = lent
  BY <1>5, <1>6, AtWhole
<1> HIDE DEF s, a, S
<1>8. CASE a # 0 /\ a < FloorKept
  <2>1. S \intersect Total(s) = {} /\ S \intersect All(s) = {} /\ Sound(s)
    BY <1>6, <1>7, <1>8 DEF Total, Whole
  <2>2. Grown(g, s, S)
    BY <1>3, <1>6, <1>8, <2>1, RunAddGood DEF S
  <2> HIDE DEF g
  <2>3. Whole(g) /\ Total(g) = Total(s) \union S
    BY <1>7, <2>1, <2>2, WholeGrown
  <2>4. g.at = 0 /\ g.lent = lent
    BY <1>7, <2>2 DEF Grown
  <2>5. Total(g) = Total(m)
    BY <1>6, <1>7, <1>8, <2>3
  <2>6. Hands(g, m, LINE_PAGES)
    BY <2>3, <2>4, <2>5 DEF Hands
  <2> QED BY <1>1, <1>8, <2>4, <2>6 DEF m
<1>9. CASE ~(a # 0 /\ a < FloorKept)
  BY <1>1, <1>5, <1>9 DEF m
<1> QED BY <1>8, <1>9

\* mem_pages_below, before it takes.
LEMMA AskedGood ==
  ASSUME machine \in Machines, Whole(Now), NEW n \in Nat \ {0}, NEW limit \in Nat
  PROVE  Whole(Asked(n, limit)) /\ Total(Asked(n, limit)) = Total(Now)
<1> DEFINE m == Now
           N == Len(lent)
           Step(v) == Shrunk(v, n)
           Part(f) == f = [k \in 0 .. N |-> IF k = 0 THEN m ELSE Step(f[k - 1])]
           try == CHOOSE f : Part(f)
           Stops(k) == Reaching(try[k].runs, n, limit) # {} \/ try[k].lent = <<>>
           S == {k \in 0 .. N : Stops(k)}
           Ok(v, k) == Whole(v) /\ Total(v) = Total(m) /\ Len(v.lent) <= N - k
<1>1. Asked(n, limit) = try[Min(S)]
  BY DEF Asked
<1>2. m.lent = lent /\ m.at = 0
  BY DEF Now
<1> HIDE DEF m
<1>3. lent \in Seq(Nat \ {0}) /\ N \in Nat
  BY <1>2, WorldIs DEF Whole, Sound, m
<1>4. Ok(m, 0)
  <2>1. Len(m.lent) <= N - 0
    BY <1>2, <1>3
  <2> QED BY <1>2, <2>1 DEF m
<1> HIDE DEF N
<1>5. ASSUME NEW k \in 1 .. N, NEW v, Ok(v, k - 1) PROVE Ok(Step(v), k)
  <2>1. Whole(v) /\ Total(v) = Total(m) /\ Len(v.lent) <= N - (k - 1)
    BY <1>5
  <2>2. Returned(Step(v), v)
    BY <2>1, ShrunkGood
  <2> HIDE DEF Step
  <2>3. v.lent \in Seq(Nat \ {0}) /\ Step(v).lent \in Seq(Nat \ {0})
    BY <2>1, <2>2, WorldIs DEF Returned, Whole, Sound
  <2>4. Len(Step(v).lent) <= N - k
    <3>1. CASE v.lent = <<>>
      <4>1. Len(Step(v).lent) = 0 /\ k <= N
        BY <1>3, <2>2, <3>1 DEF Returned
      <4> QED BY <1>3, <4>1
    <3>2. CASE v.lent # <<>>
      <4>1. Len(Step(v).lent) < Len(v.lent) /\ Len(Step(v).lent) \in Nat /\ Len(v.lent) \in Nat
        BY <2>2, <2>3, <3>2 DEF Returned
      <4> QED BY <1>3, <2>1, <4>1
    <3> QED BY <3>1, <3>2
  <2> QED BY <2>1, <2>2, <2>4 DEF Returned
<1> HIDE DEF Ok, Step, Stops
<1>6. \A k \in 0 .. N : Ok(try[k], k)
  <2> DEFINE W == {v \in [runs : Seq(Spans), loose : Seq(Nat \ {0}), lost : SUBSET Nat, lent : Seq(Nat \ {0}), at : Nat] : TRUE}
             X == [k \in 0 .. N |-> {v \in W : Ok(v, k)}]
             G == [k \in 1 .. N |-> [v \in W |-> Step(v)]]
  <2>1. ASSUME NEW v, NEW k, Ok(v, k) PROVE v \in W
    BY <2>1 DEF Ok, Whole, Sound, IsWorld
  <2> HIDE DEF W
  <2>2. Leads(G, N, X) /\ m \in X[0]
    <3>1. ASSUME NEW k \in 1 .. N, NEW v \in X[k - 1] PROVE G[k][v] \in X[k]
      <4>1. v \in W /\ Ok(v, k - 1) /\ k \in 0 .. N
        BY <1>3
      <4>2. Ok(Step(v), k) /\ Step(v) \in W
        BY <1>5, <2>1, <4>1
      <4>3. G[k][v] = Step(v)
        BY <4>1
      <4> QED BY <4>1, <4>2, <4>3
    <3>2. m \in X[0]
      BY <1>3, <1>4, <2>1
    <3> HIDE DEF X, G
    <3> QED BY <3>1, <3>2 DEF Leads
  <2>3. PICK f : Takes(f, G, N, X, m)
    <3> HIDE DEF X, G
    <3> QED BY <1>3, <2>2, Recursion
  <2>4. Part(f)
    <3>1. f = [k \in 0 .. N |-> f[k]] /\ f[0] = m
      BY <2>3 DEF Takes
    <3>2. ASSUME NEW k \in 1 .. N PROVE f[k] = Step(f[k - 1])
      <4>1. f[k] = G[k][f[k - 1]] /\ f[k - 1] \in X[k - 1] /\ k - 1 \in 0 .. N
        <5> HIDE DEF X, G
        <5>1. k - 1 \in 0 .. N
          BY <1>3
        <5>2. f[k] = G[k][f[k - 1]] /\ f[k - 1] \in X[k - 1]
          BY <2>3 DEF Takes
        <5> QED BY <5>1, <5>2
      <4> QED BY <4>1
    <3>3. ASSUME NEW k \in 0 .. N PROVE f[k] = IF k = 0 THEN m ELSE Step(f[k - 1])
      <4>1. k # 0 => k \in 1 .. N
        BY <1>3
      <4> QED BY <3>1, <3>2, <4>1
    <3> QED BY <3>1, <3>3
  <2>5. Part(try)
    <3> HIDE DEF Part
    <3> QED BY <2>4
  <2> HIDE DEF try
  <2>6. try[0] = m /\ \A k \in 1 .. N : try[k] = Step(try[k - 1])
    BY <1>3, <2>5
  <2> DEFINE R == {k \in 0 .. N : Ok(try[k], k)}
  <2>7. Climbs(R, N)
    <3>1. 0 \in R
      BY <1>3, <1>4, <2>6
    <3>2. ASSUME NEW k \in 1 .. N, k - 1 \in R PROVE k \in R
      <4>1. Ok(try[k - 1], k - 1) /\ try[k] = Step(try[k - 1]) /\ k \in 0 .. N
        BY <1>3, <2>6, <3>2
      <4> QED BY <1>5, <4>1
    <3> HIDE DEF R
    <3> QED BY <3>1, <3>2 DEF Climbs
  <2>8. \A k \in 0 .. N : k \in R
    <3> HIDE DEF R
    <3> QED BY <1>3, <2>7, Climbing
  <2> QED BY <2>8
<1> HIDE DEF try
<1>7. N \in S
  <2>1. Ok(try[N], N)
    BY <1>3, <1>6
  <2>2. Len(try[N].lent) <= N - N /\ Whole(try[N])
    BY <2>1 DEF Ok
  <2>3. try[N].lent \in Seq(Nat \ {0})
    BY <2>2, WorldIs DEF Whole, Sound
  <2>4. try[N].lent = <<>>
    BY <1>3, <2>2, <2>3
  <2> QED BY <1>3, <2>4 DEF Stops
<1>8. Min(S) \in 0 .. N
  <2>1. S \subseteq Nat /\ S # {} /\ S \subseteq 0 .. N
    BY <1>3, <1>7
  <2> HIDE DEF S
  <2> QED BY <2>1, MinIn
<1>9. Whole(try[Min(S)]) /\ Total(try[Min(S)]) = Total(m)
  <2> HIDE DEF S
  <2> QED BY <1>6, <1>8 DEF Ok
<1> QED BY <1>1, <1>9 DEF m

\* n pages of one stretch, one after the other: with room in the list for the rest of the
\* run they are in, or one, none of them goes anywhere else meanwhile.
LEMMA CutOutGood ==
  ASSUME machine \in Machines, NEW m, Sound(m), NEW at \in Nat \ {0}, NEW n \in Nat \ {0},
         Run(at, n) \subseteq InRuns(m.runs), n = 1 \/ Len(m.runs) < RUNS
  PROVE  LET g == CutOut(m, at, n)
         IN Sound(g) /\ All(g) = All(m) \ Run(at, n) /\ g.lent = m.lent /\ g.at = at
<1> DEFINE N == n
           Step(v, k) == RunTake(v, at + k - 1)
           Part(f) == f = [k \in 0 .. N |-> IF k = 0 THEN m ELSE Step(f[k - 1], k)]
           taken == CHOOSE f : Part(f)
           Ok(v, k) == /\ Sound(v) /\ All(v) = All(m) \ Run(at, k) /\ v.lent = m.lent
                       /\ k = 0 => v = m
                       /\ k < N => v.loose = m.loose /\ v.lost = m.lost
<1>1. CutOut(m, at, n) = AtIs(taken[N], at) /\ N \in Nat /\ N = n
  BY DEF CutOut
<1> HIDE DEF N
<1>2. Ok(m, 0)
  <2>1. Run(at, 0) = {}
    BY DEF Run
  <2> QED BY <2>1
<1>3. ASSUME NEW k \in 1 .. N, NEW v, Ok(v, k - 1) PROVE Ok(Step(v, k), k)
  <2> DEFINE p == at + k - 1
             T == Run(at, k - 1)
  <2>1. Sound(v) /\ v.lent = m.lent /\ v.loose = m.loose /\ v.lost = m.lost /\ All(v) = All(m) \ T /\ (k = 1 => v = m)
    BY <1>1, <1>3
  <2>2. p \in Run(at, n) /\ p \notin T /\ Run(at, k) = T \union {p}
    BY <1>1 DEF Run
  <2>3. k > 1 => p - 1 \in T
    BY <1>1 DEF Run
  <2> HIDE DEF T, p
  <2>4. InRuns(v.runs) = InRuns(m.runs) \ T
    <3>1. /\ InRuns(v.runs) \intersect ToSet(m.loose) = {} /\ InRuns(v.runs) \intersect m.lost = {}
          /\ InRuns(m.runs) \intersect ToSet(m.loose) = {} /\ InRuns(m.runs) \intersect m.lost = {}
      BY <2>1 DEF Sound, Split
    <3>2. All(v) = InRuns(v.runs) \union ToSet(m.loose) \union m.lost /\ All(m) = InRuns(m.runs) \union ToSet(m.loose) \union m.lost
      BY <2>1 DEF All
    <3>3. T \subseteq InRuns(m.runs)
      BY <1>1 DEF Run, T
    <3> QED BY <2>1, <3>1, <3>2, <3>3
  <2>5. p \in InRuns(v.runs)
    BY <2>2, <2>4
  <2> DEFINE g == RunTake(v, p)
  <2>6. /\ Sound(g) /\ All(g) = All(v) \ {p} /\ g.lent = v.lent
        /\ Len(v.runs) < RUNS \/ p - 1 \notin InRuns(v.runs) => g.loose = v.loose /\ g.lost = v.lost
    BY <2>1, <2>5, RunTakeGood
  <2> HIDE DEF g
  <2>7. k < N => g.loose = m.loose /\ g.lost = m.lost
    <3>1. SUFFICES ASSUME k < N PROVE Len(v.runs) < RUNS \/ p - 1 \notin InRuns(v.runs)
      BY <2>1, <2>6
    <3>2. CASE k = 1
      <4>1. n # 1
        BY <1>1, <3>1, <3>2
      <4> QED BY <2>1, <3>2, <4>1
    <3>3. CASE k # 1
      BY <1>1, <2>3, <2>4, <3>3
    <3> QED BY <3>2, <3>3
  <2>8. All(g) = All(m) \ Run(at, k)
    BY <2>1, <2>2, <2>6
  <2>9. k # 0 /\ Step(v, k) = g
    BY <1>1 DEF g, p
  <2> HIDE DEF Step
  <2> QED BY <2>1, <2>6, <2>7, <2>8, <2>9
<1> HIDE DEF Ok, Step
<1>4. Ok(taken[N], N)
  <2> DEFINE W == {v \in [runs : Seq(Spans), loose : Seq(Nat \ {0}), lost : SUBSET Nat, lent : Seq(Nat \ {0}), at : Nat] : TRUE}
             X == [k \in 0 .. N |-> {v \in W : Ok(v, k)}]
             G == [k \in 1 .. N |-> [v \in W |-> Step(v, k)]]
  <2>1. ASSUME NEW v, NEW k, Ok(v, k) PROVE v \in W
    BY <2>1 DEF Ok, Sound, IsWorld
  <2> HIDE DEF W
  <2>2. Leads(G, N, X) /\ m \in X[0]
    <3>1. ASSUME NEW k \in 1 .. N, NEW v \in X[k - 1] PROVE G[k][v] \in X[k]
      <4>1. v \in W /\ Ok(v, k - 1) /\ k \in 0 .. N
        BY <1>1
      <4>2. Ok(Step(v, k), k) /\ Step(v, k) \in W
        BY <1>3, <2>1, <4>1
      <4>3. G[k][v] = Step(v, k)
        BY <4>1
      <4> QED BY <4>1, <4>2, <4>3
    <3>2. m \in X[0]
      BY <1>1, <1>2, <2>1
    <3> HIDE DEF X, G
    <3> QED BY <3>1, <3>2 DEF Leads
  <2>3. PICK f : Takes(f, G, N, X, m)
    <3> HIDE DEF X, G
    <3> QED BY <1>1, <2>2, Recursion
  <2>4. Part(f)
    <3>1. f = [k \in 0 .. N |-> f[k]] /\ f[0] = m
      BY <2>3 DEF Takes
    <3>2. ASSUME NEW k \in 1 .. N PROVE f[k] = Step(f[k - 1], k)
      <4>1. f[k] = G[k][f[k - 1]] /\ f[k - 1] \in X[k - 1] /\ k - 1 \in 0 .. N
        <5> HIDE DEF X, G
        <5>1. k - 1 \in 0 .. N
          BY <1>1
        <5>2. f[k] = G[k][f[k - 1]] /\ f[k - 1] \in X[k - 1]
          BY <2>3 DEF Takes
        <5> QED BY <5>1, <5>2
      <4> QED BY <4>1
    <3>3. ASSUME NEW k \in 0 .. N PROVE f[k] = IF k = 0 THEN m ELSE Step(f[k - 1], k)
      <4>1. k # 0 => k \in 1 .. N
        BY <1>1
      <4> QED BY <3>1, <3>2, <4>1
    <3> QED BY <3>1, <3>3
  <2>5. Part(taken)
    <3> HIDE DEF Part
    <3> QED BY <2>4
  <2> HIDE DEF taken
  <2>6. taken[0] = m /\ \A k \in 1 .. N : taken[k] = Step(taken[k - 1], k)
    BY <1>1, <2>5
  <2> DEFINE R == {k \in 0 .. N : Ok(taken[k], k)}
  <2>7. Climbs(R, N)
    <3>1. 0 \in R
      BY <1>1, <1>2, <2>6
    <3>2. ASSUME NEW k \in 1 .. N, k - 1 \in R PROVE k \in R
      <4>1. Ok(taken[k - 1], k - 1) /\ taken[k] = Step(taken[k - 1], k) /\ k \in 0 .. N
        BY <1>1, <2>6, <3>2
      <4> QED BY <1>3, <4>1
    <3> HIDE DEF R
    <3> QED BY <3>1, <3>2 DEF Climbs
  <2>8. N \in R
    <3> HIDE DEF R
    <3> QED BY <1>1, <2>7, Climbing
  <2> QED BY <2>8
<1> HIDE DEF taken
<1>5. Sound(taken[N]) /\ All(taken[N]) = All(m) \ Run(at, n) /\ taken[N].lent = m.lent
  BY <1>1, <1>4 DEF Ok
<1> DEFINE t == taken[N]
           g == CutOut(m, at, n)
<1>6. g = AtIs(t, at) /\ Sound(t) /\ All(t) = All(m) \ Run(at, n) /\ t.lent = m.lent /\ at \in Nat
  BY <1>1, <1>5
<1> HIDE DEF t, g
<1>7. Sound(AtIs(t, at)) /\ All(AtIs(t, at)) = All(t) /\ AtIs(t, at).lent = t.lent /\ AtIs(t, at).at = at
  BY <1>6, AtSound
<1>8. Sound(g) /\ All(g) = All(m) \ Run(at, n) /\ g.lent = m.lent /\ g.at = at
  BY <1>6, <1>7
<1> QED BY <1>8 DEF g

LEMMA TakeBelowGood ==
  ASSUME machine \in Machines, NEW m, Whole(m), NEW n \in Nat \ {0}, NEW limit \in Nat, n = 1 \/ Len(m.runs) < RUNS
  PROVE  Hands(TakeBelow(m, n, limit), m, n) /\ TakeBelow(m, n, limit).lent = m.lent
<1> DEFINE rs == m.runs
           S == Reaching(rs, n, limit)
           i == Max(S)
           e == End(rs[i])
           u == Min({e, limit})
           at == u - n
           g == CutOut(m, at, n)
           I == InLines(m.lent)
<1>1. RunsOK(rs) /\ Sound(m)
  BY DEF Whole, Sound, Split
<1>2. CASE S = {}
  <2>1. TakeBelow(m, n, limit) = AtIs(m, 0)
    BY <1>2 DEF TakeBelow
  <2>2. Hands(AtIs(m, 0), m, n) /\ AtIs(m, 0).lent = m.lent
    BY AtWhole DEF Hands
  <2> QED BY <2>1, <2>2
<1>3. CASE S # {}
  <2>1. TakeBelow(m, n, limit) = g
    BY <1>3 DEF TakeBelow, Under
  <2>2. i \in DOMAIN rs /\ u >= rs[i].at + n
    <3>1. S \subseteq 0 .. Len(rs) /\ Len(rs) \in Nat
      BY <1>1, RunsOf DEF Reaching
    <3>2. i \in S
      <4> HIDE DEF S
      <4> QED BY <1>3, <3>1, MaxIs
    <3> HIDE DEF i
    <3> QED BY <3>2 DEF Reaching, Under
  <2> HIDE DEF i, S
  <2>3. rs[i].at \in Nat \ {0} /\ e \in Nat /\ \A p : p \in Run(rs[i].at, rs[i].count) <=> p \in Nat /\ rs[i].at <= p /\ p < e
    BY <1>1, <2>2, RunOf DEF RunsOK
  <2> DEFINE b == rs[i].at
  <2>4. Run(b, rs[i].count) \subseteq InRuns(rs) /\ b \in Nat \ {0} /\ u >= b + n
    BY <2>2, <2>3 DEF InRuns
  <2> HIDE DEF b, e
  <2>5. u \in Nat /\ u <= e
    <3>1. {e, limit} \subseteq Nat /\ {e, limit} # {}
      BY <2>3
    <3> QED BY <3>1, MinIn
  <2> HIDE DEF u
  <2>6. at \in Nat \ {0} /\ at >= b /\ at + n = u
    BY <2>4, <2>5
  <2> HIDE DEF at
  <2>7. Run(at, n) \subseteq InRuns(rs)
    <3>1. \A p \in Run(at, n) : p \in Nat /\ b <= p /\ p < e
      BY <2>3, <2>4, <2>5, <2>6 DEF Run
    <3>2. Run(at, n) \subseteq Run(b, rs[i].count)
      BY <2>3, <3>1 DEF b
    <3> QED BY <2>4, <3>2
  <2>8. Sound(g) /\ All(g) = All(m) \ Run(at, n) /\ g.lent = m.lent /\ g.at = at
    BY <1>1, <2>6, <2>7, CutOutGood
  <2> HIDE DEF g
  <2>9. Run(at, n) \subseteq All(m) /\ I \intersect All(m) = {} /\ Total(m) = All(m) \union I /\ Total(g) = All(g) \union I /\ Apart(m.lent)
    BY <2>7, <2>8 DEF All, Whole, Total
  <2> HIDE DEF I, rs
  <2>10. Whole(g)
    <3>1. InLines(g.lent) = I /\ Apart(g.lent)
      BY <2>8, <2>9 DEF I
    <3> QED BY <2>8, <2>9, <3>1 DEF Whole
  <2>11. Hands(g, m, n)
    BY <2>6, <2>8, <2>9, <2>10 DEF Hands
  <2> QED BY <2>1, <2>8, <2>11
<1> QED BY <1>2, <1>3

----------------------------------------------------------------------------
(* Why a call got none.                                                    *)

\* A stretch of free pages in the list is in one run: no two of them touch.
LEMMA StretchInOne ==
  ASSUME NEW rs, RunsOK(rs), NEW at \in Nat, NEW n \in Nat \ {0}, Run(at, n) \subseteq InRuns(rs)
  PROVE  \E i \in DOMAIN rs : rs[i].count >= n
<1>1. /\ rs \in Seq(Spans) /\ DOMAIN rs \subseteq Nat
      /\ \A j \in DOMAIN rs : rs[j].at \in Nat \ {0} /\ rs[j].count \in Nat \ {0} /\ End(rs[j]) = rs[j].at + rs[j].count
                              /\ End(rs[j]) \in Nat
      /\ \A j, k \in DOMAIN rs : j < k => End(rs[j]) < rs[k].at
  BY RunsOf
<1>2. \A p : p \in InRuns(rs) <=> \E i \in DOMAIN rs : p \in Nat /\ rs[i].at <= p /\ p < End(rs[i])
  BY <1>1, InRunsIs
<1>3. PICK i \in DOMAIN rs : rs[i].at <= at /\ at < End(rs[i])
  <2>1. at \in Run(at, n)
    BY DEF Run
  <2> QED BY <1>2, <2>1
<1> DEFINE e == End(rs[i])
<1>4. at + n <= e
  <2>1. SUFFICES ASSUME e < at + n PROVE FALSE
    BY <1>1
  <2>2. e \in Run(at, n)
    BY <1>1, <1>3, <2>1 DEF Run
  <2>3. PICK j \in DOMAIN rs : rs[j].at <= e /\ e < End(rs[j])
    <3> HIDE DEF e
    <3> QED BY <1>2, <2>2
  <2>4. CASE j < i
    BY <1>1, <1>3, <2>3, <2>4
  <2>5. CASE i < j
    BY <1>1, <2>3, <2>5
  <2>6. CASE i = j
    BY <1>1, <2>3, <2>6
  <2>7. i \in Nat /\ j \in Nat
    BY <1>1
  <2> QED BY <2>4, <2>5, <2>6, <2>7
<1> QED BY SMTT(60), <1>1, <1>3, <1>4

LEMMA NoneIs ==
  ASSUME machine \in Machines, NEW g, Sound(g), NEW n \in Nat \ {0}, NoneFits(g, n), Len(g.runs) < RUNS - 1
  PROVE  \A at \in Nat : ~(Run(at, n) \subseteq InRuns(g.runs) \union ToSet(g.loose))
<1>1. RunsOK(g.runs) /\ g.loose = <<>> /\ Fitting(g, n) = {}
  BY DEF Sound, Split, NoneFits
<1>2. ToSet(g.loose) = {}
  BY <1>1 DEF ToSet
<1>3. ASSUME NEW at \in Nat, Run(at, n) \subseteq InRuns(g.runs) PROVE FALSE
  BY <1>1, <1>3, StretchInOne DEF Fitting
<1> QED BY <1>2, <1>3

----------------------------------------------------------------------------
(* Lines in another order, or one more.                                    *)

LEMMA LineGone ==
  ASSUME NEW ls \in Seq(Nat \ {0}), Apart(ls), NEW i \in DOMAIN ls
  PROVE  /\ RemoveAt(ls, i) \in Seq(Nat \ {0}) /\ ls[i] \in Nat \ {0}
         /\ Apart(RemoveAt(ls, i)) /\ InLines(ls) = Run(ls[i], LINE_PAGES) \union InLines(RemoveAt(ls, i))
         /\ Run(ls[i], LINE_PAGES) \intersect InLines(RemoveAt(ls, i)) = {}
<1> DEFINE t == RemoveAt(ls, i)
           n == Len(ls)
           R(p) == Run(p, LINE_PAGES)
           from(k) == IF k < i THEN k ELSE k + 1
           to(k) == IF k < i THEN k ELSE k - 1
<1>1. /\ t \in Seq(Nat \ {0}) /\ DOMAIN t = 1 .. n - 1 /\ \A k \in 1 .. n - 1 : t[k] = IF k < i THEN ls[k] ELSE ls[k + 1]
      /\ n \in Nat /\ DOMAIN ls = 1 .. n /\ i \in 1 .. n /\ ls[i] \in Nat \ {0}
  BY RemovedAt
<1> HIDE DEF t, n
<1>2. /\ \A k \in 1 .. n - 1 : from(k) \in 1 .. n /\ from(k) # i /\ t[k] = ls[from(k)]
      /\ \A j, k \in 1 .. n - 1 : j # k => from(j) # from(k)
  <2>1. ASSUME NEW k \in 1 .. n - 1 PROVE from(k) \in 1 .. n /\ from(k) # i
    BY <1>1
  <2>2. ASSUME NEW k \in 1 .. n - 1 PROVE t[k] = ls[from(k)]
    <3>1. CASE k < i
      BY <1>1, <3>1
    <3>2. CASE ~(k < i)
      BY <1>1, <3>2
    <3> QED BY <3>1, <3>2
  <2>3. ASSUME NEW j \in 1 .. n - 1, NEW k \in 1 .. n - 1, from(j) = from(k) PROVE j = k
    <3>1. i \in Nat /\ j \in Nat /\ k \in Nat
      BY <1>1
    <3>2. CASE j < i
      BY <2>3, <3>1, <3>2
    <3>3. CASE ~(j < i)
      BY <2>3, <3>1, <3>3
    <3> QED BY <3>2, <3>3
  <2> HIDE DEF from
  <2> QED BY <2>1, <2>2, <2>3
<1>3. \A k \in 1 .. n : k # i => to(k) \in 1 .. n - 1 /\ from(to(k)) = k
  BY <1>1
<1> HIDE DEF from, to
<1>4. \A j, k \in 1 .. n : j # k => R(ls[j]) \intersect R(ls[k]) = {}
  BY <1>1 DEF Apart
<1>5. InLines(t) = UNION {R(t[k]) : k \in 1 .. n - 1} /\ InLines(ls) = UNION {R(ls[k]) : k \in 1 .. n}
  BY <1>1 DEF InLines
<1> HIDE DEF R
<1>6. \A j, k \in 1 .. n - 1 : j # k => R(t[j]) \intersect R(t[k]) = {}
  BY <1>2, <1>4
<1>7. InLines(ls) = R(ls[i]) \union InLines(t)
  <2>1. ASSUME NEW k \in 1 .. n PROVE R(ls[k]) \subseteq R(ls[i]) \union InLines(t)
    <3>1. CASE k # i
      <4>1. to(k) \in 1 .. n - 1 /\ t[to(k)] = ls[k]
        BY <1>2, <1>3, <3>1
      <4> QED BY <1>5, <4>1
    <3> QED BY <3>1
  <2>2. ASSUME NEW k \in 1 .. n - 1 PROVE R(t[k]) \subseteq InLines(ls)
    <3>1. from(k) \in 1 .. n /\ t[k] = ls[from(k)]
      BY <1>2
    <3> QED BY <1>5, <3>1
  <2>3. R(ls[i]) \subseteq InLines(ls)
    BY <1>1, <1>5
  <2> QED BY ZenonT(60), <1>5, <2>1, <2>2, <2>3
<1>8. R(ls[i]) \intersect InLines(t) = {}
  <2>1. ASSUME NEW k \in 1 .. n - 1 PROVE R(ls[i]) \intersect R(t[k]) = {}
    BY <1>1, <1>2, <1>4
  <2> QED BY <1>5, <2>1
<1>9. Apart(t)
  BY <1>1, <1>6 DEF Apart, R
<1> QED BY <1>1, <1>7, <1>8, <1>9 DEF t, R

LEMMA LineMore ==
  ASSUME NEW ls \in Seq(Nat \ {0}), Apart(ls), NEW p \in Nat \ {0}, Run(p, LINE_PAGES) \intersect InLines(ls) = {}
  PROVE  /\ Append(ls, p) \in Seq(Nat \ {0}) /\ Apart(Append(ls, p))
         /\ InLines(Append(ls, p)) = InLines(ls) \union Run(p, LINE_PAGES)
<1> DEFINE t == Append(ls, p)
           n == Len(ls)
           R(q) == Run(q, LINE_PAGES)
<1>1. /\ t \in Seq(Nat \ {0}) /\ DOMAIN t = 1 .. n + 1 /\ \A k \in 1 .. n : t[k] = ls[k]
      /\ t[n + 1] = p /\ n \in Nat /\ DOMAIN ls = 1 .. n
  OBVIOUS
<1> HIDE DEF t, n
<1>2. \A k \in 1 .. n + 1 : k = n + 1 \/ k \in 1 .. n
  BY <1>1
<1>3. \A k \in 1 .. n : k \in 1 .. n + 1
  BY <1>1
<1>4. n + 1 \in 1 .. n + 1
  BY <1>1
<1>5. \A j, k \in 1 .. n : j # k => R(ls[j]) \intersect R(ls[k]) = {}
  BY <1>1 DEF Apart
<1>6. InLines(t) = UNION {R(t[k]) : k \in 1 .. n + 1} /\ InLines(ls) = UNION {R(ls[k]) : k \in 1 .. n}
  BY <1>1 DEF InLines
<1>7. R(p) \intersect InLines(ls) = {}
  OBVIOUS
<1> HIDE DEF R
<1>8. InLines(t) = InLines(ls) \union R(p)
  BY <1>1, <1>2, <1>3, <1>4, <1>6
<1>9. \A j, k \in 1 .. n + 1 : j # k => R(t[j]) \intersect R(t[k]) = {}
  <2>1. \A k \in 1 .. n : R(p) \intersect R(ls[k]) = {}
    BY <1>6, <1>7
  <2> QED BY <1>1, <1>2, <1>5, <2>1
<1>10. Apart(t)
  BY <1>1, <1>9 DEF Apart, R
<1> QED BY <1>1, <1>8, <1>10 DEF t, R

----------------------------------------------------------------------------
(* The invariant.                                                          *)

\* What is in the runs, on the chain, lost and lent is all in one place.
Places(rs, s, L, ls) ==
  /\ Split(rs, s, L) /\ ls \in Seq(Nat \ {0}) /\ Apart(ls)
  /\ InLines(ls) \intersect (InRuns(rs) \union ToSet(s) \union L) = {}
Kept(rs, s, L, ls) == InRuns(rs) \union ToSet(s) \union L \union InLines(ls)

HeldKept ==
  /\ \A h \in held : h.at \in Nat \ {0} /\ h.count \in Nat \ {0}
  /\ HeldApart

MemInv ==
  /\ machine \in Machines
  /\ Places(runs, loose, lost, lent) /\ HeldKept
  /\ InHeld \intersect Kept(runs, loose, lost, lent) = {} /\ InHeld \union Kept(runs, loose, lost, lent) = Pages
  /\ FailsOnlyWhenFull

LEMMA WholeIs ==
  ASSUME NEW m, IsWorld(m)
  PROVE  /\ Whole(m) <=> Places(m.runs, m.loose, m.lost, m.lent)
         /\ Total(m) = Kept(m.runs, m.loose, m.lost, m.lent)
BY WorldIs DEF Whole, Sound, Total, All, Places, Kept

LEMMA NowWhole ==
  ASSUME MemInv
  PROVE  Whole(Now) /\ Total(Now) = Kept(runs, loose, lost, lent) /\ Now.lent = lent /\ Now.runs = runs /\ Now.at = 0
<1>1. IsWorld(Now) /\ Now.runs = runs /\ Now.loose = loose /\ Now.lost = lost /\ Now.lent = lent /\ Now.at = 0
  BY DEF MemInv, Places, Split, RunsOK, Now, IsWorld
<1>2. Places(runs, loose, lost, lent)
  BY DEF MemInv
<1> QED BY <1>1, <1>2, WholeIs

\* The places after a call that has put things where g says.
LEMMA PlacesNext ==
  ASSUME NEW g, Whole(g), Becomes(g), NEW ls, lent' = ls, Apart(ls), ls \in Seq(Nat \ {0}), machine' = machine,
         InLines(ls) \intersect All(g) = {}
  PROVE  Places(runs, loose, lost, lent)' /\ Kept(runs, loose, lost, lent)' = All(g) \union InLines(ls)
<1>1. Split(g.runs, g.loose, g.lost) /\ InLines(ls) \intersect (InRuns(g.runs) \union ToSet(g.loose) \union g.lost) = {}
  BY DEF Whole, Sound, All
<1>2. RUNS' = RUNS /\ LINE_PAGES' = LINE_PAGES
  BY DEF RUNS, LINE_PAGES
<1>3. runs' = g.runs /\ loose' = g.loose /\ lost' = g.lost
  BY DEF Becomes
<1>4. Split(runs, loose, lost)'
  BY <1>1, <1>2, <1>3 DEF Split, RunsOK, InOrder
<1>5. InLines(lent)' = InLines(ls) /\ Apart(lent)'
  BY <1>2 DEF InLines, Apart
<1>6. InRuns(runs)' = InRuns(g.runs) /\ ToSet(loose)' = ToSet(g.loose)
  BY <1>3
<1>7. Places(runs, loose, lost, lent)'
  BY <1>1, <1>3, <1>4, <1>5, <1>6 DEF Places
<1>8. Kept(runs, loose, lost, lent)' = All(g) \union InLines(ls)
  BY <1>3, <1>5, <1>6 DEF Kept, All
<1> QED BY <1>7, <1>8

LEMMA GivenGood ==
  ASSUME MemInv, machine' = machine, NEW g, NEW n \in Nat \ {0}, Hands(g, Now, n), NEW who,
         Given(g, n, who), who = "kernel" /\ g.at = 0 => NoneFits(g, n)
  PROVE  MemInv'
<1> DEFINE S == Run(g.at, n)
           h == [at |-> g.at, count |-> n, who |-> who]
           K == Kept(runs, loose, lost, lent)
           H == InHeld
           P == Pages
<1>1. Whole(g) /\ g.at \in Nat /\ Becomes(g) /\ lent' = g.lent
  BY DEF Hands, Given
<1>2. g.lent \in Seq(Nat \ {0}) /\ Apart(g.lent) /\ InLines(g.lent) \intersect All(g) = {} /\ Sound(g)
  BY <1>1, WorldIs DEF Whole, Sound
<1>3. Places(runs, loose, lost, lent)' /\ Kept(runs, loose, lost, lent)' = Total(g)
  BY <1>1, <1>2, PlacesNext DEF Total
<1>4. Total(Now) = K
  BY NowWhole
<1>5. /\ g.at = 0 => Total(g) = K /\ held' = held
      /\ g.at # 0 => S \subseteq K /\ Total(g) = K \ S /\ held' = held \union {h}
  BY <1>4 DEF Hands, Given
<1>6. machine \in Machines /\ H \intersect K = {} /\ H \union K = P /\ P' = P
  BY DEF MemInv, Pages, Top
<1>7. h.at = g.at /\ h.count = n
  OBVIOUS
<1>8. H = UNION {Run(x.at, x.count) : x \in held} /\ H' = UNION {Run(x.at, x.count) : x \in held'}
  BY DEF InHeld
<1>9. /\ \A x \in held : x.at \in Nat \ {0} /\ x.count \in Nat \ {0}
      /\ \A x, y \in held : x # y => Run(x.at, x.count) \intersect Run(y.at, y.count) = {}
  BY DEF MemInv, HeldKept, HeldApart
<1> HIDE DEF h, K, H, P
<1>10. H' = H \union (IF g.at = 0 THEN {} ELSE S)
  BY <1>5, <1>7, <1>8
<1>11. H' \intersect Total(g) = {} /\ H' \union Total(g) = P
  BY <1>5, <1>6, <1>10
<1>12. HeldKept'
  <2>1. ASSUME NEW x \in held' PROVE x.at \in Nat \ {0} /\ x.count \in Nat \ {0}
    BY <1>1, <1>5, <1>7, <1>9, <2>1
  <2>2. ASSUME NEW x \in held', NEW y \in held', x # y PROVE Run(x.at, x.count) \intersect Run(y.at, y.count) = {}
    <3>1. \A z \in held : Run(z.at, z.count) \subseteq H
      BY <1>8
    <3>2. g.at # 0 => S \intersect H = {}
      BY <1>5, <1>6
    <3>3. Run(h.at, h.count) = S
      BY <1>7
    <3> HIDE DEF S
    <3> QED BY <1>5, <1>9, <2>2, <3>1, <3>2, <3>3
  <2> QED BY <2>1, <2>2 DEF HeldKept, HeldApart
<1>13. FailsOnlyWhenFull'
  <2>1. CASE g.at = 0 /\ who = "kernel"
    <3>1. failed' = n /\ NoneFits(g, n) /\ RUNS' = RUNS /\ Len(g.runs) \in Nat /\ RUNS \in Nat
      BY <1>2, <1>6, <2>1, Constants, WorldIs DEF Given, RUNS, Sound
    <3>2. runs' = g.runs /\ loose' = g.loose /\ P \subseteq Nat
      BY <1>1 DEF Becomes, P, Pages
    <3>3. FreePages' = InRuns(g.runs) \union ToSet(g.loose)
      BY <3>2 DEF FreePages
    <3>4. CASE Len(g.runs) < RUNS - 1
      <4>1. \A at \in Nat : ~(Run(at, n) \subseteq FreePages')
        BY <1>2, <1>6, <3>1, <3>3, <3>4, NoneIs
      <4>2. \A at \in Pages' : ~(Run(at, failed') \subseteq FreePages')
        BY <1>6, <3>1, <3>2, <4>1 DEF P
      <4> QED BY <4>2 DEF FailsOnlyWhenFull
    <3>5. CASE ~(Len(g.runs) < RUNS - 1)
      <4>1. Len(runs') >= RUNS' - 1
        BY <3>1, <3>2, <3>5
      <4> QED BY <4>1 DEF FailsOnlyWhenFull
    <3> QED BY <3>4, <3>5
  <2>2. CASE ~(g.at = 0 /\ who = "kernel")
    <3>1. failed' = 0
      BY <2>2 DEF Given
    <3> QED BY <3>1 DEF FailsOnlyWhenFull
  <2> QED BY <2>1, <2>2
<1>14. MemInv'
  <2>1. machine' \in Machines
    BY <1>6
  <2>2. InHeld' \intersect Kept(runs, loose, lost, lent)' = {} /\ InHeld' \union Kept(runs, loose, lost, lent)' = Pages'
    BY <1>3, <1>6, <1>11 DEF H, P
  <2> QED BY <1>3, <1>12, <1>13, <2>1, <2>2 DEF MemInv
<1> QED BY <1>14

\* What changes no page's place but those of the lines.
LEMMA LinesMoved ==
  ASSUME MemInv, machine' = machine, NEW g, Whole(g), Becomes(g), UNCHANGED held, failed' = 0,
         NEW ls, lent' = ls, Apart(ls), ls \in Seq(Nat \ {0}), InLines(ls) \intersect All(g) = {},
         All(g) \union InLines(ls) = Kept(runs, loose, lost, lent)
  PROVE  MemInv'
<1>1. Places(runs, loose, lost, lent)' /\ Kept(runs, loose, lost, lent)' = Kept(runs, loose, lost, lent)
  BY PlacesNext
<1>2. InHeld' = InHeld /\ Pages' = Pages /\ HeldKept'
  BY DEF MemInv, InHeld, Pages, Top, HeldKept, HeldApart
<1>3. FailsOnlyWhenFull'
  BY DEF FailsOnlyWhenFull
<1> QED BY <1>1, <1>2, <1>3 DEF MemInv

LEMMA AllocPagesStep ==
  ASSUME MemInv, machine' = machine, NEW n \in machine.Sizes, AllocPages(n)
  PROVE  MemInv' /\ KeepsOut
<1> DEFINE busy == FALSE
           g == MemPages(n, busy)
           who == "kernel"
<1>1. busy \in BOOLEAN /\ ~busy
  OBVIOUS
<1>2. Given(g, n, who)
  BY DEF AllocPages
<1> HIDE DEF busy
<1>3. n \in Nat \ {0} /\ machine \in Machines
  BY Constants DEF MemInv
<1>4. Hands(g, Now, n) /\ (g.at = 0 => NoneFits(g, n)) /\ (Good(g.at) \/ g.lent = <<>>)
  BY <1>1, <1>3, NowWhole, MemPagesGood
<1> HIDE DEF g
<1>5. KeepsOut
  <2> SUFFICES ASSUME NEW h \in held' \ held, h.at < FloorKept PROVE lent' = <<>>
    BY DEF KeepsOut
  <2>1. g.at # 0 /\ h = [at |-> g.at, count |-> n, who |-> who] /\ lent' = g.lent
    <3> HIDE DEF who
    <3> QED BY <1>2 DEF Given
  <2>2. h.at = g.at
    <3> HIDE DEF who
    <3> QED BY <2>1
  <2>3. g.at \in Nat /\ FloorKept \in Nat
    BY <1>3, <1>4, Constants DEF Hands, FloorKept
  <2>4. ~Good(g.at)
    BY <2>2, <2>3 DEF Good
  <2> QED BY <1>4, <2>1, <2>4
<1>6. MemInv'
  <2> HIDE DEF who
  <2> QED BY <1>2, <1>3, <1>4, GivenGood
<1> QED BY <1>5, <1>6

\* What a call hands to somebody else than the kernel.
LEMMA OthersStep ==
  ASSUME MemInv, machine' = machine, NEW n \in Nat \ {0}, NEW g, Hands(g, Now, n), NEW who, who # "kernel", Given(g, n, who)
  PROVE  MemInv' /\ KeepsOut
<1>1. MemInv'
  BY GivenGood
<1>2. ASSUME NEW h \in held' \ held PROVE h.who = who
  <2>1. h = [at |-> g.at, count |-> n, who |-> who]
    BY DEF Given
  <2> QED BY <2>1
<1>3. KeepsOut
  BY <1>2 DEF KeepsOut
<1> QED BY <1>1, <1>3

LEMMA AllocTableStep ==
  ASSUME MemInv, machine' = machine, NEW n \in machine.Sizes, AllocTable(n)
  PROVE  MemInv' /\ KeepsOut
<1> DEFINE busy == TRUE
           g == MemPages(n, busy)
           who == "cache"
<1>1. busy \in BOOLEAN
  OBVIOUS
<1>2. Given(g, n, who) /\ who # "kernel"
  BY DEF AllocTable
<1> HIDE DEF busy, who
<1>3. n \in Nat \ {0} /\ machine \in Machines
  BY Constants DEF MemInv
<1>4. Hands(g, Now, n)
  BY <1>1, <1>3, NowWhole, MemPagesGood
<1> HIDE DEF g
<1> QED BY <1>2, <1>3, <1>4, OthersStep

LEMMA AllocBelowStep ==
  ASSUME MemInv, machine' = machine, NEW n \in machine.Sizes, NEW limit \in machine.Limits, AllocBelow(n, limit),
         "cutfull" \notin Does
  PROVE  MemInv' /\ KeepsOut
<1> DEFINE m == Asked(n, limit)
           g == TakeBelow(m, n, limit)
           who == "device"
<1>1. Given(g, n, who) /\ who # "kernel" /\ (n = 1 \/ Len(m.runs) < RUNS)
  BY DEF AllocBelow
<1>2. n \in Nat \ {0} /\ limit \in Nat /\ machine \in Machines
  BY Constants DEF MemInv
<1>3. Whole(m) /\ Total(m) = Total(Now)
  BY <1>2, NowWhole, AskedGood
<1> HIDE DEF m, who
<1>4. Hands(g, m, n)
  BY <1>1, <1>2, <1>3, TakeBelowGood
<1> HIDE DEF g
<1>5. Hands(g, Now, n)
  BY <1>3, <1>4 DEF Hands
<1> QED BY <1>1, <1>2, <1>5, OthersStep

LEMMA TakePageStep ==
  ASSUME MemInv, machine' = machine, NEW page \in Pages, TakePage(page)
  PROVE  MemInv' /\ KeepsOut
<1> DEFINE m == Now
           t == RunTake(m, page)
           found == Holding(m.runs, page) # {}
           a == IF found THEN page ELSE 0
           g == AtIs(t, a)
           who == "program"
<1>1. Whole(m) /\ m.runs = runs /\ m.at = 0 /\ machine \in Machines /\ page \in Nat \ {0}
  BY NowWhole DEF MemInv, Pages
<1>2. Given(g, 1, who) /\ who # "kernel"
  BY <1>1 DEF TakePage
<1> HIDE DEF m, who
<1>3. Sound(m) /\ InLines(m.lent) \intersect All(m) = {} /\ Apart(m.lent) /\ Total(m) = All(m) \union InLines(m.lent)
  BY <1>1 DEF Whole, Total
<1>4. Hands(g, m, 1)
  <2>1. CASE ~found
    <3>1. t = m /\ a = 0
      BY <2>1 DEF RunTake
    <3> HIDE DEF t, a
    <3>2. Whole(g) /\ Total(g) = Total(m) /\ g.at = 0
      BY <1>1, <3>1, AtWhole
    <3> HIDE DEF g
    <3> QED BY <3>2 DEF Hands
  <2>2. CASE found
    <3>1. page \in InRuns(m.runs) /\ a = page
      BY <2>2 DEF Holding, InRuns
    <3>2. Sound(t) /\ All(t) = All(m) \ {page} /\ t.lent = m.lent /\ page \in All(m)
      BY <1>1, <1>3, <3>1, RunTakeGood DEF All
    <3> HIDE DEF t, a
    <3>3. Whole(t) /\ Total(t) = Total(m) \ {page}
      BY <1>3, <3>2 DEF Whole, Total
    <3>4. Whole(g) /\ Total(g) = Total(t) /\ g.at = page
      BY <1>1, <3>1, <3>3, AtWhole
    <3>5. Run(page, 1) = {page}
      BY <1>1 DEF Run
    <3> HIDE DEF g
    <3> QED BY <1>1, <1>3, <3>2, <3>3, <3>4, <3>5 DEF Hands
  <2> QED BY <2>1, <2>2
<1> HIDE DEF g
<1> QED BY <1>2, <1>4, OthersStep DEF m

LEMMA LendLineStep ==
  ASSUME MemInv, machine' = machine, LendLine
  PROVE  MemInv' /\ KeepsOut
<1> DEFINE g == Lent
           S == Run(g.at, LINE_PAGES)
           K == Kept(runs, loose, lost, lent)
<1>1. Whole(Now) /\ Total(Now) = K /\ machine \in Machines
  BY NowWhole DEF MemInv
<1>2. Hands(g, Now, LINE_PAGES) /\ g.lent = lent
  BY <1>1, LentGood
<1>3. Becomes(g) /\ lent' = (IF g.at = 0 THEN lent ELSE Append(lent, g.at)) /\ failed' = 0 /\ UNCHANGED held
  BY DEF LendLine
<1> HIDE DEF g
<1>4. /\ Whole(g) /\ lent \in Seq(Nat \ {0}) /\ Apart(lent) /\ InLines(lent) \intersect All(g) = {} /\ g.at \in Nat
      /\ Total(g) = All(g) \union InLines(lent)
  BY <1>2, WorldIs DEF Hands, Whole, Sound, Total
<1>5. KeepsOut
  BY <1>3 DEF KeepsOut
<1> HIDE DEF K
<1>6. CASE g.at = 0
  <2>1. Total(g) = K /\ lent' = lent
    BY <1>1, <1>2, <1>3, <1>6 DEF Hands
  <2>2. MemInv'
    BY <1>3, <1>4, <2>1, LinesMoved DEF K
  <2> QED BY <1>5, <2>2
<1>7. CASE g.at # 0
  <2>1. S \subseteq K /\ Total(g) = K \ S /\ lent' = Append(lent, g.at) /\ g.at \in Nat \ {0}
    BY <1>1, <1>2, <1>3, <1>4, <1>7 DEF Hands
  <2>2. S \intersect InLines(lent) = {} /\ S \intersect All(g) = {}
    <3> HIDE DEF S
    <3> QED BY <1>4, <2>1
  <2>3. /\ Append(lent, g.at) \in Seq(Nat \ {0}) /\ Apart(Append(lent, g.at))
        /\ InLines(Append(lent, g.at)) = InLines(lent) \union S
    BY <1>4, <2>1, <2>2, LineMore
  <2> DEFINE ls == Append(lent, g.at)
  <2> HIDE DEF S, ls
  <2>4. /\ lent' = ls /\ ls \in Seq(Nat \ {0}) /\ Apart(ls) /\ InLines(ls) \intersect All(g) = {}
        /\ All(g) \union InLines(ls) = K
    BY <1>4, <2>1, <2>2, <2>3 DEF ls
  <2>5. MemInv'
    BY <1>3, <1>4, <2>4, LinesMoved DEF K
  <2> QED BY <1>5, <2>5
<1> QED BY <1>6, <1>7

LEMMA ReadLineStep ==
  ASSUME MemInv, machine' = machine, NEW i \in DOMAIN lent, ReadLine(i)
  PROVE  MemInv' /\ KeepsOut
<1> DEFINE m == Now
           t == RemoveAt(lent, i)
           p == lent[i]
           ls == Append(t, p)
<1>1. Whole(m) /\ Total(m) = Kept(runs, loose, lost, lent) /\ m.lent = lent
  BY NowWhole
<1>2. Becomes(m) /\ lent' = ls /\ failed' = 0 /\ UNCHANGED held
  BY DEF ReadLine, Becomes, Now
<1> HIDE DEF m
<1>3. lent \in Seq(Nat \ {0}) /\ Apart(lent) /\ InLines(lent) \intersect All(m) = {} /\ Total(m) = All(m) \union InLines(lent)
  BY <1>1, WorldIs DEF Whole, Sound, Total
<1>4. /\ t \in Seq(Nat \ {0}) /\ p \in Nat \ {0} /\ Apart(t)
      /\ InLines(lent) = Run(p, LINE_PAGES) \union InLines(t) /\ Run(p, LINE_PAGES) \intersect InLines(t) = {}
  BY <1>3, LineGone
<1> HIDE DEF t, p
<1>5. ls \in Seq(Nat \ {0}) /\ Apart(ls) /\ InLines(ls) = InLines(t) \union Run(p, LINE_PAGES)
  BY <1>4, LineMore
<1> HIDE DEF ls
<1>6. InLines(ls) = InLines(lent)
  BY <1>4, <1>5
<1>7. MemInv'
  BY <1>1, <1>2, <1>3, <1>5, <1>6, LinesMoved
<1>8. KeepsOut
  BY <1>2 DEF KeepsOut
<1> QED BY <1>7, <1>8

LEMMA FreeStep ==
  ASSUME MemInv, machine' = machine, NEW h \in held, Free(h)
  PROVE  MemInv' /\ KeepsOut
<1> DEFINE m == Now
           S == Run(h.at, h.count)
           g == PagesFree(m, h.at, h.count)
           K == Kept(runs, loose, lost, lent)
           H == InHeld
           P == Pages
<1>1. Whole(m) /\ Total(m) = K /\ m.lent = lent /\ machine \in Machines
  BY NowWhole DEF MemInv
<1>2. Becomes(g) /\ held' = held \ {h} /\ failed' = 0 /\ lent' = lent
  BY DEF Free
<1> HIDE DEF m
<1>3. H \intersect K = {} /\ H \union K = P /\ P' = P
  BY DEF MemInv, Pages, Top
<1>4. /\ \A x \in held : x.at \in Nat \ {0} /\ x.count \in Nat \ {0}
      /\ \A x, y \in held : x # y => Run(x.at, x.count) \intersect Run(y.at, y.count) = {}
  BY DEF MemInv, HeldKept, HeldApart
<1>5. H = UNION {Run(x.at, x.count) : x \in held} /\ H' = UNION {Run(x.at, x.count) : x \in held'}
  BY DEF InHeld
<1>6. S \subseteq H /\ H' = H \ S
  BY <1>2, <1>4, <1>5
<1> HIDE DEF S, K, H, P
<1>7. Grown(g, m, S) /\ Whole(g) /\ Total(g) = K \union S
  <2>1. S \intersect Total(m) = {} /\ S \intersect All(m) = {} /\ Sound(m)
    BY <1>1, <1>3, <1>6 DEF Whole, Total
  <2>2. Grown(g, m, S)
    BY <1>1, <1>4, <2>1, PagesFreeGood DEF S
  <2> HIDE DEF g
  <2> QED BY <1>1, <2>1, <2>2, WholeGrown
<1> HIDE DEF g
<1>8. g.lent = lent /\ lent \in Seq(Nat \ {0}) /\ Apart(lent) /\ InLines(lent) \intersect All(g) = {} /\ Total(g) = All(g) \union InLines(lent)
  BY <1>1, <1>7, WorldIs DEF Grown, Whole, Sound, Total
<1>9. Places(runs, loose, lost, lent)' /\ Kept(runs, loose, lost, lent)' = K \union S
  BY <1>2, <1>7, <1>8, PlacesNext
<1>10. HeldKept'
  BY <1>2, <1>4 DEF HeldKept, HeldApart
<1>11. FailsOnlyWhenFull'
  BY <1>2 DEF FailsOnlyWhenFull
<1>12. H' \intersect (K \union S) = {} /\ H' \union (K \union S) = P'
  BY <1>3, <1>6
<1>13. MemInv'
  BY <1>1, <1>9, <1>10, <1>11, <1>12 DEF MemInv, H, P
<1>14. KeepsOut
  BY <1>2 DEF KeepsOut
<1> QED BY <1>13, <1>14

LEMMA InitGood == ASSUME Init PROVE MemInv
<1> DEFINE r == Span(1, Top)
           K == Kept(runs, loose, lost, lent)
<1>1. /\ machine \in Machines /\ Top \in Nat \ {0} /\ RUNS \in Nat \ {0, 1}
      /\ runs = <<r>> /\ loose = <<>> /\ lost = {} /\ lent = <<>> /\ held = {} /\ failed = 0
  BY Constants DEF Init
<1>2. r \in Spans /\ r.at = 1 /\ r.count = Top /\ End(r) = 1 + Top
  BY <1>1 DEF Span, Spans, End
<1> HIDE DEF r
<1>3. runs \in Seq(Spans) /\ Len(runs) = 1 /\ DOMAIN runs = {1} /\ runs[1] = r
  BY <1>1, <1>2
<1>4. InRuns(runs) = Run(1, Top)
  BY <1>2, <1>3 DEF InRuns
<1>5. Run(1, Top) = Pages
  BY <1>1 DEF Run, Pages
<1>6. RunsOK(runs)
  <2>1. Len(runs) <= RUNS
    BY <1>1, <1>3
  <2>2. \A i \in DOMAIN runs : runs[i].count > 0
    BY <1>1, <1>2, <1>3
  <2>3. \A i, j \in DOMAIN runs : i < j => End(runs[i]) < runs[j].at
    BY <1>3
  <2> QED BY <1>3, <2>1, <2>2, <2>3 DEF RunsOK, InOrder
<1>7. ToSet(loose) = {} /\ IsInjective(loose) /\ loose \in Seq(Nat \ {0})
  BY <1>1 DEF ToSet, IsInjective
<1>8. InLines(lent) = {} /\ Apart(lent) /\ lent \in Seq(Nat \ {0})
  BY <1>1 DEF InLines, Apart
<1>9. Places(runs, loose, lost, lent) /\ K = Pages
  BY <1>1, <1>4, <1>5, <1>6, <1>7, <1>8 DEF Places, Split, Kept
<1>10. HeldKept /\ InHeld = {} /\ FailsOnlyWhenFull
  BY <1>1 DEF HeldKept, HeldApart, InHeld, FailsOnlyWhenFull
<1> QED BY <1>1, <1>9, <1>10 DEF MemInv

LEMMA StillStep == ASSUME MemInv, UNCHANGED vars PROVE MemInv' /\ KeepsOut
<1>1. /\ machine' = machine /\ runs' = runs /\ loose' = loose /\ lost' = lost /\ lent' = lent /\ held' = held
      /\ failed' = failed
  BY DEF vars
<1>2. Whole(Now) /\ Total(Now) = Kept(runs, loose, lost, lent) /\ Now.lent = lent /\ Becomes(Now)
  BY <1>1, NowWhole DEF Becomes, Now
<1>3. lent \in Seq(Nat \ {0}) /\ Apart(lent) /\ InLines(lent) \intersect All(Now) = {} /\ Total(Now) = All(Now) \union InLines(lent)
  BY <1>2, WorldIs DEF Whole, Sound, Total
<1>4. Places(runs, loose, lost, lent)' /\ Kept(runs, loose, lost, lent)' = Kept(runs, loose, lost, lent)
  BY <1>1, <1>2, <1>3, PlacesNext
<1>5. HeldKept' /\ InHeld' = InHeld /\ Pages' = Pages
  BY <1>1 DEF MemInv, HeldKept, HeldApart, InHeld, Pages, Top
<1>6. FailsOnlyWhenFull'
  BY <1>1 DEF MemInv, FailsOnlyWhenFull, Pages, Top, RUNS, FreePages
<1>7. KeepsOut
  BY <1>1 DEF KeepsOut
<1> QED BY <1>1, <1>4, <1>5, <1>6, <1>7 DEF MemInv

\* Each call keeps the invariant, unless it cuts a stretch while the list is full.
LEMMA StepGood ==
  ASSUME \A m \in Machines : "cutfull" \notin m.Does, MemInv, [Next]_vars
  PROVE  MemInv' /\ KeepsOut
<1>1. CASE UNCHANGED vars
  BY <1>1, StillStep
<1>2. CASE Next
  <2>1. machine' = machine /\ Steps
    BY <1>2 DEF Next
  <2>2. "cutfull" \notin Does
    BY DEF MemInv, Does
  <2>3. CASE \E n \in machine.Sizes : AllocPages(n) \/ AllocTable(n) \/ \E l \in machine.Limits : AllocBelow(n, l)
    BY <2>1, <2>2, <2>3, AllocPagesStep, AllocTableStep, AllocBelowStep
  <2>4. CASE \E page \in Pages : TakePage(page)
    BY <2>1, <2>4, TakePageStep
  <2>5. CASE LendLine
    BY <2>1, <2>5, LendLineStep
  <2>6. CASE \E i \in DOMAIN lent : ReadLine(i)
    BY <2>1, <2>6, ReadLineStep
  <2>7. CASE \E h \in held : Free(h)
    BY <2>1, <2>7, FreeStep
  <2> QED BY <2>1, <2>3, <2>4, <2>5, <2>6, <2>7 DEF Steps
<1> QED BY <1>1, <1>2

LEMMA InvTrue == ASSUME MemInv PROVE PagesTrue
<1> DEFINE A == InRuns(runs)
           B == ToSet(loose)
           I == InLines(lent)
           H == InHeld
           places == <<A, B, lost, I, H>>
<1>1. /\ RunsOK(runs) /\ IsInjective(loose) /\ Apart(lent) /\ HeldApart
      /\ A \intersect B = {} /\ A \intersect lost = {} /\ B \intersect lost = {}
      /\ I \intersect (A \union B \union lost) = {}
      /\ H \intersect (A \union B \union lost \union I) = {} /\ H \union (A \union B \union lost \union I) = Pages
      /\ FailsOnlyWhenFull
  BY DEF MemInv, Places, Kept, Split, HeldKept
<1>2. PagesOnce <=> /\ InOrder(runs) /\ IsInjective(loose) /\ Apart(lent) /\ HeldApart
                    /\ UNION {places[i] : i \in 1 .. 5} = Pages
                    /\ \A i, j \in 1 .. 5 : i # j => places[i] \intersect places[j] = {}
  BY DEF PagesOnce
<1> HIDE DEF A, B, I, H
<1>3. /\ places[1] = A /\ places[2] = B /\ places[3] = lost /\ places[4] = I /\ places[5] = H
      /\ 1 .. 5 = {1, 2, 3, 4, 5}
  OBVIOUS
<1> HIDE DEF places
<1>4. UNION {places[i] : i \in 1 .. 5} = Pages
  BY <1>1, <1>3
<1>5. \A i, j \in 1 .. 5 : i # j => places[i] \intersect places[j] = {}
  BY <1>1, <1>3
<1> QED BY <1>1, <1>2, <1>4, <1>5 DEF PagesTrue, RunsOK

----------------------------------------------------------------------------
\* Whatever pages are asked for, lent, asked back and given back, in any order, run_add, run_take,
\* take and take_below leave every page in one place, and mem_pages fails only when no stretch is so
\* long (kernel/mem.c); but for a stretch cut below a limit while the list of runs is full.
THEOREM PagesAreOnce ==
  ASSUME \A m \in Machines : "cutfull" \notin m.Does
  PROVE  Spec => []PagesTrue
<1>1. Init => MemInv
  BY InitGood
<1>2. MemInv /\ [Next]_vars => MemInv'
  BY StepGood
<1>3. MemInv => PagesTrue
  BY InvTrue
<1> QED BY <1>1, <1>2, <1>3, PTL DEF Spec

\* mem_pages gives the kernel pages a program at a fixed address could hide only once the disk cache
\* has given back all it was lent (mem.c:169).
THEOREM KernelGoesLowLast ==
  ASSUME \A m \in Machines : "cutfull" \notin m.Does
  PROVE  Spec => [][KeepsOut]_vars
<1>1. Init => MemInv
  BY InitGood
<1>2. MemInv /\ [Next]_vars => MemInv' /\ [KeepsOut]_vars
  BY StepGood
<1> QED BY <1>1, <1>2, PTL DEF Spec
=============================================================================
