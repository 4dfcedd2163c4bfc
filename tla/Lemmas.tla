------------------------------- MODULE Lemmas --------------------------------
(***************************************************************************)
(* What the proofs need of numbers, of functions defined from one number   *)
(* to the next, and of sequences.                                          *)
(***************************************************************************)
EXTENDS Integers, Sequences, FiniteSets, FiniteSetsExt, SequencesExt, FunctionTheorems,
        WellFoundedInduction, TLAPS

Less == {p \in Nat \X Nat : p[1] < p[2]}

\* The naturals are well founded under <.
LEMMA LessWellFounded == IsWellFoundedOn(Less, Nat)
BY NatLessThanWellFounded DEF OpToRel, Less

LEMMA Least ==
  ASSUME NEW S, S \subseteq Nat, S # {}
  PROVE  \E x \in S : \A y \in S : x <= y
<1>1. PICK x \in S : \A y \in S : ~(<<y, x>> \in Less)
  BY LessWellFounded, WFMin
<1>2. ASSUME NEW y \in S PROVE x <= y
  <2>1. x \in Nat /\ y \in Nat
    OBVIOUS
  <2>2. SUFFICES ASSUME y < x PROVE FALSE
    BY <2>1
  <2>3. <<y, x>> \in Nat \X Nat /\ <<y, x>>[1] = y /\ <<y, x>>[2] = x
    BY <2>1
  <2>4. <<y, x>> \in Less
    BY <2>2, <2>3 DEF Less
  <2> QED BY <1>1, <2>4
<1> QED BY <1>2

LEMMA MinIn ==
  ASSUME NEW S, S \subseteq Nat, S # {}
  PROVE  Min(S) \in S /\ \A y \in S : Min(S) <= y
BY Least DEF Min

LEMMA MaxIn ==
  ASSUME NEW n \in Nat, NEW S, S \subseteq 0 .. n, S # {}
  PROVE  Max(S) \in S
<1> DEFINE R == {n - x : x \in S}
<1>1. R \subseteq Nat /\ R # {}
  <2>1. \A x \in S : n - x \in Nat
    OBVIOUS
  <2> QED BY <2>1
<1>2. PICK r \in R : \A y \in R : r <= y
  BY <1>1, Least
<1>3. PICK x \in S : r = n - x
  OBVIOUS
<1>4. ASSUME NEW y \in S PROVE x >= y
  <2>1. n - y \in R /\ x \in 0 .. n /\ y \in 0 .. n
    OBVIOUS
  <2> HIDE DEF R
  <2> QED BY <1>2, <1>3, <2>1
<1> QED BY <1>4 DEF Max

\* Of elements that have a number in f, one has the lowest and is the first of those.
LEMMA FirstLeast ==
  ASSUME NEW S, S \subseteq Nat, S # {}, NEW f, \A i \in S : f[i] \in Nat
  PROVE  \E i \in S : \A j \in S \ {i} : f[i] < f[j] \/ (f[i] = f[j] /\ i < j)
<1> DEFINE R == {f[i] : i \in S}
<1>1. R \subseteq Nat /\ R # {}
  OBVIOUS
<1>2. PICK r \in R : \A y \in R : r <= y
  BY <1>1, Least
<1> DEFINE T == {i \in S : f[i] = r}
<1>3. T \subseteq Nat /\ T # {}
  OBVIOUS
<1>4. PICK i \in T : \A j \in T : i <= j
  <2> HIDE DEF T
  <2> QED BY <1>3, Least
<1>5. ASSUME NEW j \in S \ {i} PROVE f[i] < f[j] \/ (f[i] = f[j] /\ i < j)
  <2>1. f[j] \in R /\ f[i] = r /\ f[i] \in Nat /\ f[j] \in Nat /\ i \in Nat /\ j \in Nat
    OBVIOUS
  <2>2. f[i] <= f[j]
    BY <1>2, <2>1
  <2>3. f[j] = r => i <= j
    BY <1>4
  <2> QED BY <2>1, <2>2, <2>3
<1> QED BY <1>5

\* A number is a whole number of k's and what is left.
LEMMA DivMod ==
  ASSUME NEW n \in Nat, NEW k \in Nat \ {0}
  PROVE  n \div k \in Nat /\ n % k \in 0 .. k - 1 /\ n = k * (n \div k) + (n % k)
OBVIOUS

LEMMA ModOf ==
  ASSUME NEW q \in Nat, NEW k \in Nat \ {0}, NEW m \in 0 .. k - 1
  PROVE  (k * q + m) % k = m
<1> DEFINE n == k * q + m
           d == n \div k
           r == n % k
           y == k * (q - d)
<1>1. n \in Nat /\ k \in Nat /\ m \in Nat /\ m < k
  OBVIOUS
<1>2. n = k * d + r /\ r \in 0 .. k - 1 /\ d \in Nat
  BY <1>1, DivMod
<1>3. y = r - m
  BY <1>2
<1>4. (q - d >= 1 => y >= k) /\ (q - d <= -1 => y <= -k) /\ (q - d = 0 => y = 0)
  <2>1. q - d >= 1 => y >= k
    BY <1>2
  <2>2. q - d <= -1 => y <= -k
    BY <1>2
  <2>3. q - d = 0 => y = 0
    BY <1>2
  <2> QED BY <2>1, <2>2, <2>3
<1>5. q - d \in Int /\ r \in Int /\ r >= 0 /\ r < k
  BY <1>2
<1> HIDE DEF y, r, n, d
<1>6. r = m
  BY <1>1, <1>3, <1>4, <1>5
<1> QED BY <1>6 DEF r, n

LEMMA DivOrder ==
  ASSUME NEW m \in Nat, NEW n \in Nat, m <= n, NEW k \in Nat \ {0}
  PROVE  m \div k <= n \div k
<1> DEFINE a == m \div k
           b == n \div k
           y == k * (a - b)
<1>1. /\ a \in Nat /\ b \in Nat /\ m = k * a + (m % k) /\ n = k * b + (n % k)
      /\ m % k \in 0 .. k - 1 /\ n % k \in 0 .. k - 1
  BY DivMod
<1>2. y = (m - n) - (m % k) + (n % k)
  BY <1>1
<1>3. a - b >= 1 => y >= k
  BY <1>1
<1>4. y < k /\ a - b \in Int
  <2> HIDE DEF y, a, b
  <2> QED BY <1>1, <1>2
<1> HIDE DEF y, a, b
<1>5. a <= b
  BY <1>1, <1>3, <1>4
<1> QED BY <1>5 DEF a, b

\* All of S is reached from 0.
Climbs(S, n) == 0 \in S /\ \A i \in 1 .. n : i - 1 \in S => i \in S

LEMMA Climbing == ASSUME NEW n \in Nat, NEW S, Climbs(S, n) PROVE \A i \in 0 .. n : i \in S
<1> DEFINE R == {i \in 0 .. n : i \notin S}
<1>1. SUFFICES ASSUME R # {} PROVE FALSE
  OBVIOUS
<1>2. R \subseteq Nat
  OBVIOUS
<1>3. PICK m \in R : \A k \in R : m <= k
  <2> HIDE DEF R
  <2> QED BY <1>1, <1>2, Least
<1>4. m # 0
  BY DEF Climbs
<1>5. m \in 1 .. n /\ m - 1 \in 0 .. n /\ m - 1 \notin R
  BY <1>3, <1>4
<1> QED BY <1>5 DEF Climbs

\* Step i of G takes what is in X[i - 1] to what is in X[i]; f takes the steps from x0 on.
Leads(G, n, X) == \A i \in 1 .. n : \A x \in X[i - 1] : G[i][x] \in X[i]
Takes(f, G, n, X, x0) ==
  /\ f = [i \in 0 .. n |-> f[i]] /\ f[0] = x0
  /\ \A i \in 1 .. n : f[i] = G[i][f[i - 1]] /\ f[i - 1] \in X[i - 1] /\ f[i] \in X[i]

LEMMA Recursion ==
  ASSUME NEW n \in Nat, NEW X, NEW x0 \in X[0], NEW G, Leads(G, n, X)
  PROVE  \E f : Takes(f, G, n, X, x0)
<1> DEFINE Is(f, m) == Takes(f, G, m, X, x0)
           S == {m \in 0 .. n : \E f : Is(f, m)}
<1>1. 0 \in S
  <2>1. Is([i \in 0 .. 0 |-> x0], 0)
    BY DEF Takes
  <2>2. \E f : Is(f, 0)
    <3> HIDE DEF Is
    <3> QED BY <2>1
  <2> QED BY <2>2
<1>2. ASSUME NEW m \in 1 .. n, m - 1 \in S PROVE m \in S
  <2>1. PICK f : Is(f, m - 1)
    <3> HIDE DEF Is
    <3> QED BY <1>2
  <2> DEFINE h == [i \in 0 .. m |-> IF i = m THEN G[m][f[m - 1]] ELSE f[i]]
  <2>2. f[m - 1] \in X[m - 1]
    <3>1. CASE m = 1
      BY <2>1, <3>1 DEF Takes
    <3>2. CASE m # 1
      <4>1. m - 1 \in 1 .. m - 1
        BY <3>2
      <4> QED BY <2>1, <4>1 DEF Takes
    <3> QED BY <3>1, <3>2
  <2>3. G[m][f[m - 1]] \in X[m]
    BY <2>2 DEF Leads
  <2>4. h[0] = x0 /\ h = [i \in 0 .. m |-> h[i]]
    BY <2>1 DEF Takes
  <2>5. ASSUME NEW i \in 1 .. m PROVE h[i] = G[i][h[i - 1]] /\ h[i - 1] \in X[i - 1] /\ h[i] \in X[i]
    <3>1. h[i - 1] = f[i - 1]
      OBVIOUS
    <3>2. CASE i = m
      BY <2>2, <2>3, <3>1, <3>2
    <3>3. CASE i # m
      <4>1. i \in 1 .. m - 1 /\ h[i] = f[i]
        BY <3>3
      <4> HIDE DEF h
      <4> QED BY <2>1, <3>1, <4>1 DEF Takes
    <3> QED BY <3>2, <3>3
  <2>6. Is(h, m)
    <3> HIDE DEF h
    <3> QED BY <2>4, <2>5 DEF Takes
  <2>7. \E g : Is(g, m)
    <3> HIDE DEF Is, h
    <3> QED BY <2>6
  <2> QED BY <2>7
<1>3. n \in S
  <2>1. Climbs(S, n)
    <3> HIDE DEF S
    <3> QED BY <1>1, <1>2 DEF Climbs
  <2> HIDE DEF S
  <2> QED BY <2>1, Climbing
<1> HIDE DEF Is
<1> QED BY <1>3 DEF Is

\* One after the other, sequences of elements of A are one.
LEMMA FlattenType ==
  ASSUME NEW A, NEW seqs \in Seq(Seq(A)) PROVE FlattenSeq(seqs) \in Seq(A)
<1>1. CASE Len(seqs) = 0
  <2>1. seqs = <<>>
    BY <1>1
  <2> QED BY <1>1, <2>1 DEF FlattenSeq
<1>2. CASE Len(seqs) # 0
  <2> DEFINE n == Len(seqs)
             X == Seq(A)
             G == [i \in 1 .. n |-> [s \in X |-> IF i = 1 THEN seqs[i] ELSE s \o seqs[i]]]
             Is(f) == f = [i \in 1 .. n |-> IF i = 1 THEN seqs[i] ELSE f[i - 1] \o seqs[i]]
             flatten == CHOOSE f : Is(f)
  <2>1. n \in Nat \ {0} /\ \A i \in 1 .. n : seqs[i] \in X
    BY <1>2
  <2> DEFINE Xs == [i \in 0 .. n |-> X]
  <2>2. <<>> \in Xs[0] /\ Leads(G, n, Xs)
    <3>1. <<>> \in X /\ \A i \in 1 .. n : \A x \in X : G[i][x] \in X
      BY <2>1
    <3>2. 0 \in 0 .. n /\ (\A i \in 1 .. n : i - 1 \in 0 .. n /\ i \in 0 .. n) /\ \A i \in 0 .. n : Xs[i] = X
      BY <2>1
    <3>3. <<>> \in Xs[0]
      BY <3>1, <3>2
    <3> HIDE DEF G, X, Xs, n
    <3> QED BY <3>1, <3>2, <3>3 DEF Leads
  <2>3. PICK f \in [0 .. n -> X] : \A i \in 1 .. n : f[i] = G[i][f[i - 1]]
    <3> DEFINE x0 == <<>>
    <3>1. n \in Nat /\ x0 \in Xs[0]
      BY <2>1, <2>2
    <3> HIDE DEF G, Xs, n, x0
    <3>2. PICK f : Takes(f, G, n, Xs, x0)
      BY <2>2, <3>1, Recursion
    <3>3. \A i \in 0 .. n : f[i] \in Xs[i]
      <4>1. f[0] \in Xs[0]
        BY <3>1, <3>2 DEF Takes
      <4>2. \A i \in 1 .. n : f[i] \in Xs[i]
        BY <3>2 DEF Takes
      <4> QED BY <3>1, <4>1, <4>2
    <3>4. f \in [0 .. n -> X]
      <4>1. \A i \in 0 .. n : Xs[i] = X
        BY DEF Xs
      <4> QED BY <3>2, <3>3, <4>1 DEF Takes
    <3> QED BY <3>2, <3>4 DEF Takes
  <2>4. Is([i \in 1 .. n |-> f[i]])
    <3> SUFFICES ASSUME NEW i \in 1 .. n
                 PROVE  f[i] = IF i = 1 THEN seqs[i] ELSE [k \in 1 .. n |-> f[k]][i - 1] \o seqs[i]
      OBVIOUS
    <3>1. f[i - 1] \in X /\ f[i] = G[i][f[i - 1]]
      <4> HIDE DEF G, X
      <4>1. i - 1 \in 0 .. n
        BY <2>1
      <4> QED BY <2>3, <4>1
    <3>2. f[i] = IF i = 1 THEN seqs[i] ELSE f[i - 1] \o seqs[i]
      BY <3>1
    <3>3. i # 1 => i - 1 \in 1 .. n
      BY <2>1
    <3> QED BY <3>2, <3>3
  <2>5. Is(flatten)
    <3> HIDE DEF Is
    <3> QED BY <2>4
  <2> DEFINE S == {i \in 1 .. n : flatten[i] \notin X}
  <2>6. ASSUME S # {} PROVE FALSE
    <3> HIDE DEF flatten
    <3>1. S \subseteq Nat
      OBVIOUS
    <3>2. PICK m \in S : \A k \in S : m <= k
      BY <2>6, <3>1, Least
    <3>3. CASE m = 1
      BY <2>1, <2>5, <3>3
    <3>4. CASE m # 1
      <4>1. m - 1 \in 1 .. n /\ m - 1 \notin S
        BY <3>2, <3>4
      <4>2. m \in 1 .. n /\ flatten[m] = flatten[m - 1] \o seqs[m]
        BY <2>5, <3>2, <3>4
      <4>3. flatten[m - 1] \in X /\ seqs[m] \in X
        BY <2>1, <4>1, <4>2
      <4>4. flatten[m] \in X
        BY <4>2, <4>3
      <4> QED BY <3>2, <4>4
    <3> QED BY <3>3, <3>4
  <2>7. flatten[n] \in X
    <3> HIDE DEF flatten, X
    <3>1. n \in 1 .. n
      BY <2>1
    <3> QED BY <2>6, <3>1
  <2>8. FlattenSeq(seqs) = flatten[n]
    BY <1>2 DEF FlattenSeq
  <2> QED BY <2>7, <2>8
<1> QED BY <1>1, <1>2

----------------------------------------------------------------------------
(* Sequences that have nothing twice.                                      *)

LEMMA Prepended ==
  ASSUME NEW A, NEW s \in Seq(A), NEW e \in A
  PROVE  /\ <<e>> \o s \in Seq(A) /\ ToSet(<<e>> \o s) = {e} \union ToSet(s)
         /\ IsInjective(s) /\ e \notin ToSet(s) => IsInjective(<<e>> \o s)
<1> DEFINE t == <<e>> \o s
<1>1. t \in Seq(A) /\ Len(t) = Len(s) + 1 /\ t[1] = e
  OBVIOUS
<1>2. \A k \in 1 .. Len(t) : k # 1 => k - 1 \in 1 .. Len(s) /\ t[k] = s[k - 1]
  OBVIOUS
<1>3. \A k \in 1 .. Len(s) : k + 1 \in 1 .. Len(t) /\ t[k + 1] = s[k]
  OBVIOUS
<1>4. 1 \in 1 .. Len(t) /\ DOMAIN t = 1 .. Len(t) /\ DOMAIN s = 1 .. Len(s)
  OBVIOUS
<1> HIDE DEF t
<1>5. ToSet(t) = {e} \union ToSet(s)
  <2>1. ASSUME NEW k \in 1 .. Len(t) PROVE t[k] \in {e} \union ToSet(s)
    <3>1. CASE k = 1
      BY <1>1, <3>1
    <3>2. CASE k # 1
      BY <1>2, <1>4, <3>2 DEF ToSet
    <3> QED BY <3>1, <3>2
  <2>2. ASSUME NEW k \in 1 .. Len(s) PROVE s[k] \in ToSet(t)
    BY <1>3, <1>4 DEF ToSet
  <2>3. e \in ToSet(t)
    BY <1>1, <1>4 DEF ToSet
  <2> QED BY <1>4, <2>1, <2>2, <2>3 DEF ToSet
<1>6. ASSUME IsInjective(s), e \notin ToSet(s) PROVE IsInjective(t)
  <2>1. SUFFICES ASSUME NEW a \in 1 .. Len(t), NEW b \in 1 .. Len(t), t[a] = t[b] PROVE a = b
    BY <1>4 DEF IsInjective
  <2>2. CASE a = 1 /\ b # 1
    BY <1>1, <1>2, <1>4, <1>6, <2>1, <2>2 DEF ToSet
  <2>3. CASE a # 1 /\ b = 1
    BY <1>1, <1>2, <1>4, <1>6, <2>1, <2>3 DEF ToSet
  <2>4. CASE a # 1 /\ b # 1
    <3>1. a - 1 \in DOMAIN s /\ b - 1 \in DOMAIN s /\ s[a - 1] = s[b - 1]
      BY <1>2, <1>4, <2>1, <2>4
    <3>2. a - 1 = b - 1
      BY <1>6, <3>1 DEF IsInjective
    <3> QED BY <3>2
  <2> QED BY <2>2, <2>3, <2>4
<1> QED BY <1>1, <1>5, <1>6 DEF t

LEMMA ConcatAt ==
  ASSUME NEW A, NEW a \in Seq(A), NEW b \in Seq(A), NEW k \in 1 .. Len(a) + Len(b)
  PROVE  (a \o b)[k] = IF k <= Len(a) THEN a[k] ELSE b[k - Len(a)]
OBVIOUS

LEMMA ConcatIs ==
  ASSUME NEW A, NEW a \in Seq(A), NEW b \in Seq(A)
  PROVE  a \o b \in Seq(A) /\ Len(a \o b) = Len(a) + Len(b)
OBVIOUS

\* Two sequences say the same.
Agree(s, t) == Len(s) = Len(t) /\ \A k \in 1 .. Len(s) : s[k] = t[k]

LEMMA AgreeSame == ASSUME NEW A, NEW s \in Seq(A), NEW t \in Seq(A), Agree(s, t) PROVE s = t
BY DEF Agree

LEMMA Removed ==
  ASSUME NEW A, NEW s \in Seq(A), IsInjective(s), NEW at \in DOMAIN s
  PROVE  /\ RemoveAt(s, at) \in Seq(A) /\ IsInjective(RemoveAt(s, at))
         /\ ToSet(RemoveAt(s, at)) = ToSet(s) \ {s[at]}
<1> DEFINE t == RemoveAt(s, at)
           n == Len(s)
<1>1. n \in Nat /\ at \in 1 .. n /\ DOMAIN s = 1 .. n
  OBVIOUS
<1>2. /\ SubSeq(s, 1, at - 1) \in Seq(A) /\ Len(SubSeq(s, 1, at - 1)) = at - 1
      /\ SubSeq(s, at + 1, n) \in Seq(A) /\ Len(SubSeq(s, at + 1, n)) = n - at
  BY <1>1
<1>3. t \in Seq(A) /\ Len(t) = n - 1
  BY SMTT(60), <1>1, <1>2 DEF RemoveAt
<1>4. \A k \in 1 .. n - 1 : t[k] = IF k < at THEN s[k] ELSE s[k + 1]
  <2> SUFFICES ASSUME NEW k \in 1 .. n - 1 PROVE t[k] = IF k < at THEN s[k] ELSE s[k + 1]
    OBVIOUS
  <2>1. CASE k < at
    <3>1. SubSeq(s, 1, at - 1)[k] = s[k]
      BY <1>1, <2>1
    <3> QED BY <1>1, <1>2, <2>1, <3>1 DEF RemoveAt
  <2>2. CASE k >= at
    <3>1. k - (at - 1) \in 1 .. n - at /\ at + (k - (at - 1)) = k + 1
      BY <1>1, <2>2
    <3>2. SubSeq(s, at + 1, n)[k - (at - 1)] = s[k + 1]
      BY <1>1, <3>1
    <3> DEFINE a == SubSeq(s, 1, at - 1)
               b == SubSeq(s, at + 1, n)
    <3>3. t = a \o b /\ a \in Seq(A) /\ b \in Seq(A) /\ Len(a) = at - 1 /\ Len(b) = n - at /\ b[k - (at - 1)] = s[k + 1]
      BY <1>2, <3>2 DEF RemoveAt
    <3> HIDE DEF a, b, t, n
    <3>4. (a \o b)[k] = b[k - Len(a)]
      <4>1. k \in 1 .. Len(a) + Len(b) /\ ~(k <= Len(a)) /\ Len(a) \in Nat /\ Len(b) \in Nat
        BY <1>1, <2>2, <3>3
      <4> QED BY <3>3, <4>1, ConcatAt
    <3>5. t[k] = s[k + 1]
      BY <3>3, <3>4
    <3> QED BY <1>1, <2>2, <3>5
  <2> QED BY <1>1, <2>1, <2>2
<1> DEFINE from(k) == IF k < at THEN k ELSE k + 1
           to(k) == IF k < at THEN k ELSE k - 1
<1>5. DOMAIN t = 1 .. n - 1
  BY <1>1, <1>3
<1>6. \A k \in 1 .. n - 1 : from(k) \in (1 .. n) \ {at} /\ t[k] = s[from(k)]
  BY <1>1, <1>4
<1>7. \A k \in (1 .. n) \ {at} : to(k) \in 1 .. n - 1 /\ from(to(k)) = k
  BY <1>1
<1>8. \A k, l \in 1 .. n - 1 : from(k) = from(l) => k = l
  BY <1>1
<1> HIDE DEF t, n, from, to
<1>9. IsInjective(t)
  <2> SUFFICES ASSUME NEW k \in 1 .. n - 1, NEW l \in 1 .. n - 1, t[k] = t[l] PROVE k = l
    BY <1>5 DEF IsInjective
  <2>1. from(k) = from(l)
    BY <1>1, <1>6 DEF IsInjective
  <2> QED BY <1>8, <2>1
<1>10. ToSet(t) = ToSet(s) \ {s[at]}
  <2>1. ASSUME NEW k \in 1 .. n - 1 PROVE t[k] \in ToSet(s) \ {s[at]}
    <3>1. from(k) \in 1 .. n /\ from(k) # at /\ t[k] = s[from(k)]
      BY <1>6
    <3>2. s[from(k)] # s[at]
      BY <1>1, <3>1 DEF IsInjective
    <3> QED BY <1>1, <3>1, <3>2 DEF ToSet
  <2>2. ASSUME NEW k \in 1 .. n, s[k] # s[at] PROVE s[k] \in ToSet(t)
    <3>1. to(k) \in 1 .. n - 1 /\ from(to(k)) = k
      BY <1>7, <2>2
    <3>2. t[to(k)] = s[k]
      BY <1>6, <3>1
    <3> QED BY <1>5, <3>1, <3>2 DEF ToSet
  <2> QED BY <1>1, <1>5, <2>1, <2>2 DEF ToSet
<1> QED BY <1>3, <1>9, <1>10 DEF t
==============================================================================
