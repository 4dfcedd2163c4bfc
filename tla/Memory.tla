------------------------------- MODULE Memory -------------------------------
(***************************************************************************)
(* The machine's pages (kernel/mem.c), once they are the kernel's: a       *)
(* sorted list of free runs taken from the top down, a chain of single     *)
(* pages kept apart from it, and the pages lent to the disk cache, which   *)
(* are asked back before an allocation fails or lands low.                 *)
(*                                                                         *)
(* A page is its number.  Each call is one action: nothing here waits.     *)
(***************************************************************************)
EXTENDS Integers, Sequences, FiniteSets, SequencesExt, FiniteSetsExt

CONSTANT Machines  \* the machines, and what is done on each, a run goes through

(***************************************************************************)
(* Of a machine: Top, the pages it has, 1 .. Top; RUNS, the list's room;   *)
(* FLOOR, the first page above the gigabyte (LOOSE_FLOOR, FIXED_TOP);      *)
(* LOOSE_FILL; LINE_PAGES, what the disk cache takes and gives back at a   *)
(* time; Sizes, pages asked for in one call; Limits, what mem_pages_below  *)
(* is asked to stay under; Does, the calls that are made.                  *)
(***************************************************************************)
ASSUME MemoryConstants == \A m \in Machines :
  /\ {m.Top, m.LOOSE_FILL, m.LINE_PAGES, m.FLOOR} \subseteq Nat \ {0} /\ m.RUNS \in Nat \ {0, 1}
  /\ m.Sizes \subseteq Nat \ {0} /\ m.Limits \subseteq Nat
  /\ m.Does \subseteq {"pages", "table", "lent", "below", "page", "free", "cutfull"}

VARIABLES
  machine,
  runs,   \* runs[]
  loose,  \* the chain of single pages, the next to be taken first
  lost,   \* pages nothing says anything about any more
  lent,   \* the disk cache's lines, the one used longest ago first
  held,   \* what has been handed out: where, and how many pages
  failed  \* the pages asked for by a mem_pages that just got none, else 0

vars == <<machine, runs, loose, lost, lent, held, failed>>

Top == machine.Top
RUNS == machine.RUNS
FLOOR == machine.FLOOR
LOOSE_FILL == machine.LOOSE_FILL
LINE_PAGES == machine.LINE_PAGES
Does == machine.Does

Pages == 1 .. Top
Run(at, n) == at .. at + n - 1

\* What the calls below change, as one record; at is what a call returns, 0 for none.
Now == [runs |-> runs, loose |-> loose, lost |-> lost, lent |-> lent, at |-> 0]

RunsAre(m, rs) == [m EXCEPT !.runs = rs]
LooseIs(m, s) == [m EXCEPT !.loose = s]
LostIs(m, S) == [m EXCEPT !.lost = S]
LentIs(m, s) == [m EXCEPT !.lent = s]
AtIs(m, at) == [m EXCEPT !.at = at]

----------------------------------------------------------------------------
(* The list of runs                                                        *)

\* Each goes to the front of the chain.  A page below the gigabyte cannot: it is lost.
Down(low, high) == [i \in 1 .. high - low + 1 |-> high + 1 - i]
Loosen(m, at, n) ==
  LET chained == LooseIs(m, Down(Max({at, FLOOR}), at + n - 1) \o m.loose)
  IN LostIs(chained, m.lost \union {p \in Run(at, n) : p < FLOOR})

Span(at, n) == [at |-> at, count |-> n]
End(r) == r.at + r.count

\* The run let go of when the list is full: above the gigabyte if one is, the
\* smallest, the first of those.
High(rs) == {i \in DOMAIN rs : rs[i].at >= FLOOR}
Smallest(rs) ==
  LET S == IF High(rs) # {} THEN High(rs) ELSE DOMAIN rs
  IN CHOOSE i \in S : \A j \in S \ {i} : rs[i].count < rs[j].count \/ (rs[i].count = rs[j].count /\ i < j)

\* How many runs begin before.
Before(rs, at) == Max({0} \union {j \in DOMAIN rs : rs[j].at < at})
Inserted(rs, at, n) == InsertAt(rs, Before(rs, at) + 1, Span(at, n))
Longer(rs, i, n) == [rs EXCEPT ![i] = Span(rs[i].at, n)]

RunAdd(m, at, n) ==
  LET rs == m.runs
      i == Before(rs, at)
      onto == i > 0 /\ End(rs[i]) = at                      \* the end of the one before
      under == i < Len(rs) /\ at + n = rs[i + 1].at         \* the front of the next
      s == Smallest(rs)
      small == rs[s]
  IN IF n = 0 THEN m
     ELSE IF onto /\ under THEN RunsAre(m, RemoveAt(Longer(rs, i, rs[i].count + n + rs[i + 1].count), i + 1))
     ELSE IF onto THEN RunsAre(m, Longer(rs, i, rs[i].count + n))
     ELSE IF under THEN RunsAre(m, [rs EXCEPT ![i + 1] = Span(at, n + rs[i + 1].count)])
     ELSE IF Len(rs) < RUNS THEN RunsAre(m, Inserted(rs, at, n))
     ELSE IF at >= FLOOR /\ (small.at < FLOOR \/ small.count >= n) THEN Loosen(m, at, n)
     ELSE RunsAre(Loosen(m, small.at, small.count), Inserted(RemoveAt(rs, s), at, n))

\* Run i cut short to n pages.
Short(rs, i, n) == IF n = 0 THEN RemoveAt(rs, i) ELSE Longer(rs, i, n)

\* Takes a page out of the run that holds it, if one does.
Holding(rs, page) == {i \in DOMAIN rs : page \in Run(rs[i].at, rs[i].count)}
RunTake(m, page) ==
  LET i == CHOOSE j \in Holding(m.runs, page) : TRUE
      r == m.runs[i]
  IN IF Holding(m.runs, page) = {} THEN m
     ELSE RunAdd(RunsAre(m, Short(m.runs, i, page - r.at)), page + 1, End(r) - page - 1)

\* n pages off the top end of run i.
TakeTop(m, i, n) ==
  LET r == m.runs[i] IN AtIs(RunsAre(m, Short(m.runs, i, r.count - n)), End(r) - n)

----------------------------------------------------------------------------
(* take                                                                    *)

\* The chain filled from the topmost run that has as many above the gigabyte.
Filling(rs) == {i \in DOMAIN rs : rs[i].count >= LOOSE_FILL /\ End(rs[i]) > FLOOR + LOOSE_FILL}
Filled(m) ==
  LET t == TakeTop(m, Max(Filling(m.runs)), LOOSE_FILL)
  IN IF Filling(m.runs) = {} THEN m ELSE Loosen(AtIs(t, 0), t.at, LOOSE_FILL)

Fitting(m, n) == {i \in DOMAIN m.runs : m.runs[i].count >= n}

\* Mutant: single pages are not put back into runs when nothing is long enough.
NotDrained(m) == m
\* Single pages back into runs, for as long as the list has room.
Drained(m) ==
  LET after[k \in 0 .. Len(m.loose)] ==
        IF k = 0 THEN m
        ELSE LET x == after[k - 1]
             IN IF x.loose # <<>> /\ Len(x.runs) < RUNS - 1
                THEN RunAdd(LooseIs(x, Tail(x.loose)), Head(x.loose), 1)
                ELSE x
  IN after[Len(m.loose)]

Take(m, n) ==
  LET f == IF n = 1 /\ m.loose = <<>> THEN Filled(m) ELSE m
      d == Drained(f)
  IN IF n = 1 /\ f.loose # <<>> THEN AtIs(LooseIs(f, Tail(f.loose)), Head(f.loose))
     ELSE IF Fitting(f, n) # {} THEN TakeTop(f, Max(Fitting(f, n)), n)
     ELSE IF Fitting(d, n) # {} THEN TakeTop(d, Max(Fitting(d, n)), n)
     ELSE AtIs(d, 0)

\* floor_kept: on a machine with memory above the gigabyte, the kernel keeps out of it.
FloorKept == IF Top >= FLOOR THEN FLOOR ELSE 0

\* mem_pages_free
PagesFree(m, at, n) == IF n = 1 /\ at >= FLOOR THEN Loosen(m, at, 1) ELSE RunAdd(m, at, n)

\* shrink: lines back, oldest first, enough for n pages or all there are.
Shrunk(m, n) ==
  LET k == Min({Len(m.lent), (n + LINE_PAGES - 1) \div LINE_PAGES})
      back[i \in 0 .. k] ==
        IF i = 0 THEN m
        ELSE PagesFree(LentIs(back[i - 1], Tail(back[i - 1].lent)), Head(back[i - 1].lent), LINE_PAGES)
  IN back[k]

\* Mutant: what is low is taken while the cache could still give some back.
GoodAny(at) == at # 0
Good(at) == at # 0 /\ at >= FloorKept

\* mem_pages: asked again for as long as the cache, unless it is busy, gives.
Again(m, n) ==
  LET t == Take(m, n)
      s == AtIs(Shrunk(t, n), 0)
  IN IF t.at # 0 THEN RunAdd(s, t.at, n) ELSE s
MemPages(n, busy) ==
  LET try[k \in 0 .. Len(lent)] == IF k = 0 THEN Now ELSE Again(try[k - 1], n)
      Stops(k) == Good(Take(try[k], n).at) \/ busy \/ try[k].lent = <<>>
  IN Take(try[Min({k \in 0 .. Len(lent) : Stops(k)})], n)

\* mem_pages_lent: only from above the gigabyte.
Lent ==
  LET t == Take(Now, LINE_PAGES)
  IN IF t.at # 0 /\ t.at < FloorKept THEN RunAdd(AtIs(t, 0), t.at, LINE_PAGES) ELSE t

\* take_below: page by page, off the topmost stretch under the limit.
Under(r, limit) == Min({End(r), limit})
Reaching(rs, n, limit) == {i \in DOMAIN rs : Under(rs[i], limit) >= rs[i].at + n}
CutOut(m, at, n) ==
  LET taken[k \in 0 .. n] == IF k = 0 THEN m ELSE RunTake(taken[k - 1], at + k - 1)
  IN AtIs(taken[n], at)
TakeBelow(m, n, limit) ==
  LET S == Reaching(m.runs, n, limit)
  IN IF S = {} THEN AtIs(m, 0) ELSE CutOut(m, Under(m.runs[Max(S)], limit) - n, n)

\* mem_pages_below: what take_below succeeds on, or fails on in the end.
Asked(n, limit) ==
  LET try[k \in 0 .. Len(lent)] == IF k = 0 THEN Now ELSE Shrunk(try[k - 1], n)
      Stops(k) == Reaching(try[k].runs, n, limit) # {} \/ try[k].lent = <<>>
  IN try[Min({k \in 0 .. Len(lent) : Stops(k)})]

----------------------------------------------------------------------------
Becomes(m) == runs' = m.runs /\ loose' = m.loose /\ lost' = m.lost

\* What a call for n pages hands out, to whom.
Given(m, n, who) ==
  /\ Becomes(m) /\ lent' = m.lent
  /\ held' = IF m.at = 0 THEN held ELSE held \union {[at |-> m.at, count |-> n, who |-> who]}
  /\ failed' = IF m.at = 0 /\ who = "kernel" THEN n ELSE 0

\* mem_alloc and page_from; the cache's own table, bought while it is busy.
AllocPages(n) == "pages" \in Does /\ Given(MemPages(n, FALSE), n, "kernel")
AllocTable(n) == "table" \in Does /\ Given(MemPages(n, TRUE), n, "cache")

\* With the list full, the pages of a longer stretch go to the chain while they are cut.
AllocBelow(n, limit) ==
  /\ "below" \in Does /\ ("cutfull" \in Does \/ n = 1 \/ Len(Asked(n, limit).runs) < RUNS)
  /\ Given(TakeBelow(Asked(n, limit), n, limit), n, "device")

\* mem_take_page: a page at its own address, for a program linked to run there.
TakePage(page) ==
  LET found == Holding(runs, page) # {}
  IN /\ "page" \in Does /\ page < FLOOR
     /\ Given(AtIs(RunTake(Now, page), IF found THEN page ELSE 0), 1, "program")

\* A line for the disk cache (slot), and one that is read again.
LendLine ==
  /\ "lent" \in Does
  /\ Becomes(Lent) /\ lent' = (IF Lent.at = 0 THEN lent ELSE Append(lent, Lent.at))
  /\ failed' = 0 /\ UNCHANGED held

ReadLine(i) ==
  /\ i \in DOMAIN lent
  /\ lent' = Append(RemoveAt(lent, i), lent[i]) /\ failed' = 0
  /\ UNCHANGED <<runs, loose, lost, held>>

Free(h) ==
  /\ "free" \in Does /\ h \in held
  /\ Becomes(PagesFree(Now, h.at, h.count)) /\ held' = held \ {h}
  /\ failed' = 0 /\ UNCHANGED lent

\* mem_take_over: the free memory of the memory map, but page 0, which would be "none".
Init ==
  /\ machine \in Machines
  /\ runs = <<Span(1, Top)>> /\ loose = <<>> /\ lost = {}
  /\ lent = <<>> /\ held = {} /\ failed = 0

Steps ==
  \/ \E n \in machine.Sizes : AllocPages(n) \/ AllocTable(n) \/ \E l \in machine.Limits : AllocBelow(n, l)
  \/ \E page \in Pages : TakePage(page)
  \/ LendLine
  \/ \E i \in DOMAIN lent : ReadLine(i)
  \/ \E h \in held : Free(h)

Next == Steps /\ UNCHANGED machine

Spec == Init /\ [][Next]_vars

----------------------------------------------------------------------------
\* The list is in order, its runs are longer than nothing, and no two of them touch:
\* run_add joined whatever it could, and the list never outgrows its room.
InOrder(rs) ==
  /\ Len(rs) <= RUNS
  /\ \A i \in DOMAIN rs : rs[i].count > 0
  /\ \A i, j \in DOMAIN rs : i < j => End(rs[i]) < rs[j].at

InRuns(rs) == UNION {Run(rs[i].at, rs[i].count) : i \in DOMAIN rs}
InLines(ls) == UNION {Run(ls[i], LINE_PAGES) : i \in DOMAIN ls}
InHeld == UNION {Run(h.at, h.count) : h \in held}
FreePages == InRuns(runs) \union ToSet(loose)

Apart(ls) == \A i, j \in DOMAIN ls : i # j => Run(ls[i], LINE_PAGES) \intersect Run(ls[j], LINE_PAGES) = {}
HeldApart == \A g, h \in held : g # h => Run(g.at, g.count) \intersect Run(h.at, h.count) = {}

\* Every page is in one place: in a run, on the chain, lent to the cache, handed out
\* once, or lost.  A page in two of them would be given to two owners (mem.c:16).
PagesOnce ==
  /\ InOrder(runs) /\ IsInjective(loose) /\ Apart(lent) /\ HeldApart
  /\ LET places == <<InRuns(runs), ToSet(loose), lost, InLines(lent), InHeld>>
     IN /\ UNION {places[i] : i \in 1 .. 5} = Pages
        /\ \A i, j \in 1 .. 5 : i # j => places[i] \intersect places[j] = {}

\* A page is lost only when the list is full and none of its runs could go to the
\* chain instead, all of them starting below the gigabyte (mem.c:110).
LostLast ==
  lost' # lost => Len(runs) = RUNS /\ \A i \in DOMAIN runs : runs[i].at < FLOOR

\* The kernel's memory lands where a program at a fixed address could hide it only
\* once the disk cache has nothing more to give back (mem.c:169).
KeepsOut ==
  \A h \in held' \ held : (h.who = "kernel" /\ h.at < FloorKept) => lent' = <<>>

\* Neither is done while there is a better way: pages are lost last, and the kernel
\* goes low last.
WorstLast == [][LostLast /\ KeepsOut]_vars

\* A call for pages gets none only when there is no stretch so long, with the single
\* pages counted, unless the list of runs has no room to put them together (mem.c:249).
FailsOnlyWhenFull ==
  failed > 0 =>
    \/ Len(runs) >= RUNS - 1
    \/ \A at \in Pages : ~(Run(at, failed) \subseteq FreePages)

\* take, run_add, loosen and cache_shrink move pages between the places they are in
\* without making, doubling or hiding any.
PagesTrue == PagesOnce /\ FailsOnlyWhenFull
=============================================================================
