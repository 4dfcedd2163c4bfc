--------------------------- MODULE ConsoleProofs ---------------------------
(***************************************************************************)
(* Proofs about the screen and the console, for every screen, font, mode,  *)
(* text, line and history: what the framebuffer shows is what the console  *)
(* holds, whoever writes and edits, and what is read of a line is the line *)
(* that was entered.                                                       *)
(*                                                                         *)
(* Most of it says what one function of vga.c does to a whole screen, or   *)
(* one edit of console.c to a line.                                        *)
(***************************************************************************)
EXTENDS Console, Lemmas

----------------------------------------------------------------------------
(* Screens.                                                                *)

Fields == {"taken", "gopmode", "gop", "real", "want", "fb", "font", "laid", "width", "rows", "screen", "picture", "marks",
           "cursor", "color", "pen", "reversed", "top", "bottom", "wrap", "shown", "inserting", "crlf", "escape", "params",
           "private", "g1", "graphics", "shifted", "utf8", "osc", "saved", "savedpen", "lent", "capture", "captureMax"}
IsScreen(v) == v = [f \in Fields |-> v[f]]

Sequencing == {"plain", "after", "charset", "osc", "csi"}

\* What the sizes and the text of a screen are, its grid aside.
Sized(v) == /\ v.taken \in DOMAIN setup.Modes /\ v.gopmode \in DOMAIN setup.Modes
            /\ v.real \in Size /\ v.want \in Size /\ v.fb \in Size /\ v.font \in FontSize
Inked(v) == v.color = IF v.reversed THEN <<v.pen[2], v.pen[1]>> ELSE v.pen
Parsing(v) == v.params \in Seq(Nat) /\ Len(v.params) <= PARAMS /\ v.escape \in Sequencing
Sound(v) == setup \in Setups /\ IsScreen(v) /\ Sized(v) /\ Inked(v) /\ Parsing(v)

Grid(v) == /\ v.laid /\ v.width \in Nat \ {0} /\ v.rows \in Nat
           /\ v.width = v.fb[1] \div v.font[1] /\ v.rows = v.fb[2] \div v.font[2]
           /\ v.screen = [i \in Cells(v) |-> v.screen[i]] /\ v.picture = [i \in Cells(v) |-> v.picture[i]]
Placed(v) == v.cursor \in Cells(v)
Region(v) == v.top \in Nat /\ v.bottom \in Nat /\ v.top + 1 < v.bottom /\ v.bottom <= v.rows
Good(v) == Sound(v) /\ Grid(v) /\ Placed(v) /\ Region(v)

\* What is drawn, where there is a picture of ours to be seen: the cells, and a cursor nowhere but in M.
Showing(v) == ~v.lent /\ ~Astray(v)
Marked(v, M) == Showing(v) => v.picture = v.screen /\ v.marks \subseteq M /\ (v.marks # {} => v.shown)
WrapTrue(v) == v.wrap => v.cursor \in {0, RowStart(v) + v.width - 1}
Whole(v) == Good(v) /\ WrapTrue(v) /\ Marked(v, {v.cursor})

\* w is the same screen as v, of the same size, taken as much and lent or not.
Frame(v, w) == /\ w.taken = v.taken /\ w.gopmode = v.gopmode /\ w.real = v.real /\ w.want = v.want /\ w.fb = v.fb
               /\ w.font = v.font /\ w.laid = v.laid /\ w.width = v.width /\ w.rows = v.rows /\ w.lent = v.lent /\ w.captureMax = v.captureMax
Keeps(v, w) == Good(w) /\ Frame(v, w) /\ (w.wrap => v.wrap) /\ \A M : Marked(v, M) => Marked(w, M)

LEMMA SetupTrue ==
  ASSUME setup \in Setups
  PROVE  /\ PARAMS \in Nat \ {0} /\ setup.MinCols \in Nat \ {0} /\ setup.MinRows \in Nat \ {0, 1} /\ setup.TAB \in Nat \ {0}
         /\ setup.Modes \in Seq(Size) /\ setup.Modes # <<>> /\ setup.Shown \in Seq(STRING) /\ setup.Writes \subseteq Seq(STRING)
         /\ setup.Scales \subseteq Size /\ setup.Fonts \subseteq FontSize
         /\ setup.Modes[1][1] >= setup.MinCols /\ setup.Modes[1][2] >= setup.MinRows
BY SetupsAssumption DEF PARAMS

LEMMA KeepsOn == ASSUME NEW v, NEW w, NEW x, Keeps(v, w), Keeps(w, x) PROVE Keeps(v, x)
BY DEF Keeps, Frame

LEMMA KeepsSame == ASSUME NEW v, Good(v) PROVE Keeps(v, v)
BY DEF Keeps, Frame

\* What the text of a screen is but for its cells.
Pens(v, w) == w.color = v.color /\ w.pen = v.pen /\ w.reversed = v.reversed
Rest(v, w) == /\ w.cursor = v.cursor /\ w.wrap = v.wrap /\ w.shown = v.shown /\ w.top = v.top /\ w.bottom = v.bottom
              /\ w.params = v.params /\ w.escape = v.escape /\ w.inserting = v.inserting /\ Pens(v, w)
Picture(v, w) == w.screen = v.screen /\ w.picture = v.picture /\ w.marks = v.marks

\* A screen that only differs in what nothing here is about.
LEMMA Alike ==
  ASSUME NEW v, NEW w, Good(v), IsScreen(w), Frame(v, w), Rest(v, w), Picture(v, w)
  PROVE  Keeps(v, w)
<1>1. Cells(w) = Cells(v)
  BY DEF Cells, Frame
<1>2. Sound(w)
  BY DEF Good, Sound, Sized, Inked, Parsing, Frame, Rest, Pens
<1>3. Grid(w) /\ Placed(w) /\ Region(w)
  BY <1>1 DEF Good, Grid, Placed, Region, Frame, Rest, Picture
<1>4. \A M : Marked(v, M) => Marked(w, M)
  BY DEF Marked, Showing, Astray, Frame, Rest, Picture
<1> QED BY <1>2, <1>3, <1>4 DEF Good, Keeps, Rest

----------------------------------------------------------------------------
(* Drawing.                                                                *)

LEMMA PutKeeps ==
  ASSUME NEW v, Good(v), NEW f
  PROVE  Keeps(v, Put(v, f)) /\ Rest(v, Put(v, f))
<1> DEFINE drawn == IF v.lent THEN {} ELSE {i \in DOMAIN f : f[i] # v.screen[i]}
           s == [i \in DOMAIN v.screen |-> IF i \in DOMAIN f THEN f[i] ELSE v.screen[i]]
           p == [i \in DOMAIN v.picture |-> IF i \in drawn THEN f[i] ELSE v.picture[i]]
           m == v.marks \ drawn
           w == [v EXCEPT !.screen = s, !.picture = p, !.marks = m]
<1>1. Put(v, f) = w
  BY DEF Put
<1>2. DOMAIN v.screen = Cells(v) /\ DOMAIN v.picture = Cells(v)
  BY DEF Good, Grid
<1>3. s = [i \in Cells(v) |-> s[i]] /\ p = [i \in Cells(v) |-> p[i]]
  BY <1>2
<1>4. ASSUME ~v.lent, v.picture = v.screen PROVE p = s
  BY <1>4
<1>5. m \subseteq v.marks
  OBVIOUS
<1> HIDE DEF s, p, m
<1>6. IsScreen(w) /\ Frame(v, w) /\ Rest(v, w) /\ w.screen = s /\ w.picture = p /\ w.marks = m
  BY ZenonT(60) DEF Good, Sound, IsScreen, Fields, Frame, Rest, Pens
<1> HIDE DEF w
<1>7. Cells(w) = Cells(v)
  BY <1>6 DEF Cells, Frame
<1>8. Sound(w)
  BY <1>6 DEF Good, Sound, Sized, Inked, Parsing, Frame, Rest, Pens
<1>9. Grid(w) /\ Placed(w) /\ Region(w)
  BY <1>3, <1>6, <1>7 DEF Good, Grid, Placed, Region, Frame, Rest
<1>10. ASSUME NEW M, Marked(v, M) PROVE Marked(w, M)
  BY <1>4, <1>5, <1>6, <1>10 DEF Marked, Showing, Astray, Frame, Rest
<1> QED BY <1>1, <1>6, <1>8, <1>9, <1>10 DEF Good, Keeps, Rest

LEMMA DrawnCell ==
  ASSUME NEW v, Good(v), NEW i \in Cells(v)
  PROVE  /\ Keeps(v, DrawCell(v, i)) /\ Rest(v, DrawCell(v, i))
         /\ \A M : Marked(v, M) => Marked(DrawCell(v, i), M \ {i})
<1>1. CASE v.lent
  <2>1. DrawCell(v, i) = v
    BY <1>1 DEF DrawCell
  <2>2. \A M : Marked(v, M \ {i})
    BY <1>1 DEF Marked, Showing
  <2> QED BY <2>1, <2>2, KeepsSame DEF Rest, Pens
<1>2. CASE ~v.lent
  <2> DEFINE p == [v.picture EXCEPT ![i] = v.screen[i]]
             m == v.marks \ {i}
             w == [v EXCEPT !.picture = p, !.marks = m]
  <2>1. DrawCell(v, i) = w
    BY <1>2 DEF DrawCell, Good, Sound, IsScreen, Fields
  <2>2. p = [j \in Cells(v) |-> p[j]]
    BY DEF Good, Grid
  <2>3. ASSUME v.picture = v.screen PROVE p = v.screen
    <3>1. v.screen = [j \in Cells(v) |-> v.screen[j]]
      BY DEF Good, Grid
    <3> QED BY <2>3, <3>1
  <2>4. m \subseteq v.marks /\ \A M : v.marks \subseteq M => m \subseteq M \ {i}
    OBVIOUS
  <2> HIDE DEF p, m
  <2>5. IsScreen(w) /\ Frame(v, w) /\ Rest(v, w) /\ w.screen = v.screen /\ w.picture = p /\ w.marks = m
    BY ZenonT(60) DEF Good, Sound, IsScreen, Fields, Frame, Rest, Pens
  <2> HIDE DEF w
  <2>6. Cells(w) = Cells(v)
    BY <2>5 DEF Cells, Frame
  <2>7. Good(w)
    BY <2>2, <2>5, <2>6 DEF Good, Sound, Sized, Inked, Parsing, Frame, Rest, Pens, Grid, Placed, Region
  <2>8. \A M : Marked(v, M) => Marked(w, M) /\ Marked(w, M \ {i})
    BY <2>3, <2>4, <2>5 DEF Marked, Showing, Astray, Frame, Rest
  <2> QED BY <2>1, <2>5, <2>7, <2>8 DEF Keeps, Rest
<1> QED BY <1>1, <1>2

\* The bar taken away, and drawn.
LEMMA BarOff ==
  ASSUME NEW v, Good(v), NEW M, Marked(v, M)
  PROVE  /\ Keeps(v, CursorDraw(v, FALSE)) /\ Rest(v, CursorDraw(v, FALSE))
         /\ Marked(CursorDraw(v, FALSE), M \ {v.cursor})
<1>1. v.cursor \in Cells(v)
  BY DEF Good, Placed
<1>2. CASE v.lent
  <2>1. CursorDraw(v, FALSE) = v
    BY <1>2 DEF CursorDraw
  <2>2. Marked(v, M \ {v.cursor})
    BY <1>2 DEF Marked, Showing
  <2> QED BY <2>1, <2>2, KeepsSame DEF Rest, Pens
<1>3. CASE ~v.lent
  <2>1. CursorDraw(v, FALSE) = DrawCell(v, v.cursor)
    BY <1>1, <1>3 DEF CursorDraw
  <2> QED BY ZenonT(60), <1>1, <2>1, DrawnCell
<1> QED BY <1>2, <1>3

LEMMA BarOn ==
  ASSUME NEW v, Good(v)
  PROVE  LET w == CursorDraw(v, TRUE)
         IN /\ Good(w) /\ Frame(v, w) /\ Rest(v, w) /\ w.screen = v.screen
            /\ \A M : Marked(v, M) => Marked(w, M \cup {v.cursor})
<1> DEFINE w == CursorDraw(v, TRUE)
<1>1. v.cursor \in Cells(v)
  BY DEF Good, Placed
<1>2. CASE v.lent \/ ~v.shown
  <2>1. w = v
    BY <1>2 DEF CursorDraw
  <2>2. \A M : Marked(v, M) => Marked(v, M \cup {v.cursor})
    BY DEF Marked
  <2> HIDE DEF w
  <2> QED BY <2>1, <2>2 DEF Rest, Pens, Frame, w
<1>3. CASE ~v.lent /\ v.shown
  <2> DEFINE m == v.marks \cup {v.cursor}
             x == [v EXCEPT !.marks = m]
  <2>1. w = x
    BY <1>1, <1>3 DEF CursorDraw, Good, Sound, IsScreen, Fields
  <2>2. \A M : v.marks \subseteq M => m \subseteq M \cup {v.cursor}
    OBVIOUS
  <2> HIDE DEF m, w
  <2>3. IsScreen(x) /\ Frame(v, x) /\ Rest(v, x) /\ x.screen = v.screen /\ x.picture = v.picture /\ x.marks = m
    BY DEF Good, Sound, IsScreen, Fields, Frame, Rest, Pens
  <2> HIDE DEF x
  <2>4. Cells(x) = Cells(v)
    BY <2>3 DEF Cells, Frame
  <2>5. Good(x)
    BY <2>3, <2>4 DEF Good, Sound, Sized, Inked, Parsing, Frame, Rest, Pens, Grid, Placed, Region
  <2>6. \A M : Marked(v, M) => Marked(x, M \cup {v.cursor})
    BY <1>3, <2>2, <2>3 DEF Marked, Showing, Astray, Frame, Rest
  <2> QED BY <2>1, <2>3, <2>5, <2>6 DEF w
<1> QED BY <1>2, <1>3

----------------------------------------------------------------------------
(* Where the cursor is, and may be put.                                    *)

LEMMA Place ==
  ASSUME NEW w \in Nat \ {0}, NEW h \in Nat, NEW r \in Nat, r < h, NEW c \in Nat, c < w
  PROVE  r * w + c \in 0 .. w * h - 1
<1> DEFINE d == h - 1 - r
<1>1. d \in Nat /\ d * w \in Nat /\ r * w \in Nat
  OBVIOUS
<1>2. w * h = r * w + d * w + w
  <2>1. h = r + d + 1
    OBVIOUS
  <2> HIDE DEF d
  <2>2. w * (r + d + 1) = r * w + d * w + w
    BY <1>1
  <2> QED BY <2>1, <2>2
<1> HIDE DEF d
<1> DEFINE a == r * w
           b == d * w
           n == w * h
<1>3. a \in Nat /\ b \in Nat /\ n = a + b + w
  BY <1>1, <1>2
<1> HIDE DEF a, b, n
<1>4. a + c \in 0 .. n - 1
  BY <1>3
<1> QED BY <1>4 DEF a, n

LEMMA Where ==
  ASSUME NEW v, Good(v)
  PROVE  /\ v.width \in Nat \ {0} /\ v.rows \in Nat /\ v.width * v.rows \in Nat /\ v.cursor \in Nat
         /\ RowOf(v) \in Nat /\ RowOf(v) < v.rows /\ Column(v) \in Nat /\ Column(v) < v.width
         /\ v.cursor = RowOf(v) * v.width + Column(v) /\ RowStart(v) = RowOf(v) * v.width
         /\ RowStart(v) \in Nat
<1> DEFINE w == v.width
           h == v.rows
           n == v.cursor
           r == n \div w
           c == n % w
<1>1. w \in Nat \ {0} /\ h \in Nat
  BY DEF Good, Grid
<1>2. w * h \in Nat
  BY <1>1
<1>3. n \in Nat /\ n < w * h
  BY <1>2 DEF Good, Placed, Cells
<1> HIDE DEF w, h, n
<1>4. r \in Nat /\ c \in 0 .. w - 1 /\ n = w * r + c
  BY <1>1, <1>3, DivMod
<1> HIDE DEF r, c
<1>5. r < h
  <2>1. SUFFICES ASSUME r >= h PROVE FALSE
    BY <1>1, <1>4
  <2> DEFINE d == r - h
  <2>2. d \in Nat /\ r = h + d
    BY <1>1, <1>4, <2>1
  <2> HIDE DEF d
  <2>3. w * (h + d) = w * h + w * d /\ w * d \in Nat
    BY <1>1, <2>2
  <2> DEFINE a == w * h
             b == w * d
             e == w * r
  <2>4. a \in Nat /\ b \in Nat /\ e = a + b /\ n < a /\ n = e + c
    BY <1>2, <1>3, <1>4, <2>2, <2>3
  <2> HIDE DEF a, b, e
  <2> QED BY <1>4, <2>4
<1>6. r * w \in Nat /\ w * r = r * w
  BY <1>1, <1>4
<1>7. RowOf(v) = r /\ Column(v) = c /\ RowStart(v) = n - c
  BY DEF RowOf, Column, RowStart, r, c, n, w
<1>8. n - c = r * w
  <2> DEFINE a == r * w
  <2>1. a \in Nat /\ n = a + c
    BY <1>4, <1>6
  <2> HIDE DEF a
  <2>2. n - c = a
    BY <2>1, <1>4
  <2> QED BY <2>2 DEF a
<1>9. c \in Nat /\ c < w /\ n = r * w + c
  BY <1>1, <1>4, <1>6
<1> QED BY <1>1, <1>2, <1>3, <1>4, <1>5, <1>6, <1>7, <1>8, <1>9 DEF w, h, n

LEMMA PlaceOn ==
  ASSUME NEW v, Good(v), NEW r \in Nat, r < v.rows, NEW c \in Nat, c < v.width
  PROVE  r * v.width + c \in Cells(v)
BY Where, Place DEF Cells

LEMMA RowStartOn == ASSUME NEW v, Good(v) PROVE RowStart(v) \in Cells(v)
<1> DEFINE s == RowOf(v) * v.width
<1>1. s + 0 \in Cells(v)
  BY Where, PlaceOn
<1>2. s = RowStart(v) /\ s \in Nat
  BY Where
<1> HIDE DEF s
<1> QED BY <1>1, <1>2

\* A screen with nothing drawn on it that was not.
LEMMA Restated ==
  ASSUME NEW v, NEW w, Good(v), IsScreen(w), Frame(v, w), Picture(v, w), Inked(w), Parsing(w), w.cursor \in Cells(v),
         Region(w), w.shown = v.shown
  PROVE  Good(w) /\ (\A M : Marked(v, M) => Marked(w, M)) /\ ((w.wrap => v.wrap) => Keeps(v, w))
<1>1. Cells(w) = Cells(v)
  BY DEF Cells, Frame
<1>2. Good(w)
  BY <1>1 DEF Good, Sound, Sized, Grid, Placed, Frame, Picture
<1>3. \A M : Marked(v, M) => Marked(w, M)
  BY DEF Marked, Showing, Astray, Frame, Picture
<1> QED BY <1>2, <1>3 DEF Keeps

LEMMA CursorTo ==
  ASSUME NEW v, Good(v), NEW c \in Cells(v)
  PROVE  LET w == [v EXCEPT !.cursor = c] IN Keeps(v, w) /\ w.cursor = c /\ w.wrap = v.wrap
<1> DEFINE w == [v EXCEPT !.cursor = c]
<1>1. IsScreen(w) /\ Frame(v, w) /\ Picture(v, w) /\ w.cursor = c /\ w.wrap = v.wrap /\ w.shown = v.shown
      /\ Pens(v, w) /\ w.params = v.params /\ w.escape = v.escape /\ w.top = v.top /\ w.bottom = v.bottom
  BY SMTT(60) DEF Good, Sound, IsScreen, Fields, Frame, Picture, Pens
<1> HIDE DEF w
<1>2. Inked(w) /\ Parsing(w) /\ Region(w)
  BY <1>1 DEF Good, Sound, Inked, Parsing, Region, Pens, Frame
<1>3. Keeps(v, w)
  BY <1>1, <1>2, Restated
<1> QED BY <1>1, <1>3 DEF w

\* The wrap let go of.
LEMMA NoWrap ==
  ASSUME NEW v, Good(v)
  PROVE  LET w == [v EXCEPT !.wrap = FALSE] IN Keeps(v, w) /\ ~w.wrap /\ Picture(v, w) /\ w.cursor = v.cursor
<1> DEFINE w == [v EXCEPT !.wrap = FALSE]
<1>1. IsScreen(w) /\ Frame(v, w) /\ Picture(v, w) /\ w.cursor = v.cursor /\ w.wrap = FALSE /\ w.shown = v.shown
      /\ Pens(v, w) /\ w.params = v.params /\ w.escape = v.escape /\ w.top = v.top /\ w.bottom = v.bottom
  BY ZenonT(60) DEF Good, Sound, IsScreen, Fields, Frame, Picture, Pens
<1> HIDE DEF w
<1>2. Inked(w) /\ Parsing(w) /\ Region(w) /\ w.cursor \in Cells(v)
  BY <1>1 DEF Good, Sound, Inked, Parsing, Region, Pens, Frame, Placed
<1>3. Keeps(v, w)
  BY <1>1, <1>2, Restated
<1> QED BY <1>1, <1>3 DEF w

----------------------------------------------------------------------------
(* What the sequences do.                                                  *)

LEMMA ScrollKeeps ==
  ASSUME NEW v, Good(v), NEW top, NEW bottom, NEW up
  PROVE  Keeps(v, Scroll(v, top, bottom, up)) /\ Rest(v, Scroll(v, top, bottom, up))
BY PutKeeps DEF Scroll

LEMMA BlankKeeps ==
  ASSUME NEW v, Good(v), NEW S PROVE Keeps(v, Blank(v, S)) /\ Rest(v, Blank(v, S))
BY PutKeeps DEF Blank

LEMMA ShiftKeeps ==
  ASSUME NEW v, Good(v), NEW open, NEW count
  PROVE  Keeps(v, ShiftLine(v, open, count)) /\ Rest(v, ShiftLine(v, open, count))
BY PutKeeps DEF ShiftLine

LEMMA FeedKeeps ==
  ASSUME NEW v, Good(v) PROVE Keeps(v, LineFeed(v)) /\ LineFeed(v).wrap = v.wrap
<1>1. CASE RowOf(v) + 1 = v.bottom
  <2> DEFINE up == TRUE
             w == Scroll(v, v.top, v.bottom, up)
  <2>1. LineFeed(v) = w
    BY <1>1 DEF LineFeed
  <2> HIDE DEF up
  <2>2. Keeps(v, w) /\ Rest(v, w)
    BY ScrollKeeps
  <2> HIDE DEF w
  <2> QED BY <2>1, <2>2 DEF Rest
<1>2. CASE RowOf(v) + 1 # v.bottom /\ RowOf(v) + 1 < v.rows
  <2> DEFINE r == RowOf(v) + 1
             c == v.cursor + v.width
  <2>1. r * v.width + Column(v) \in Cells(v)
    BY <1>2, Where, PlaceOn
  <2>2. c = r * v.width + Column(v)
    <3> DEFINE a == RowOf(v) * v.width
    <3>1. r * v.width = a + v.width /\ a \in Nat
      BY Where
    <3>2. v.cursor = a + Column(v) /\ Column(v) \in Nat /\ v.width \in Nat
      BY Where
    <3> HIDE DEF a, r
    <3> QED BY <3>1, <3>2
  <2>3. LineFeed(v) = [v EXCEPT !.cursor = c]
    BY <1>2 DEF LineFeed, Good, Sound, IsScreen, Fields
  <2> HIDE DEF c
  <2> QED BY <2>1, <2>2, <2>3, CursorTo
<1>3. CASE RowOf(v) + 1 # v.bottom /\ ~(RowOf(v) + 1 < v.rows)
  BY <1>3, KeepsSame DEF LineFeed
<1> QED BY <1>1, <1>2, <1>3

LEMMA ReverseKeeps ==
  ASSUME NEW v, Good(v) PROVE Keeps(v, ReverseFeed(v)) /\ ReverseFeed(v).wrap = v.wrap
<1>1. CASE RowOf(v) = v.top
  <2> DEFINE up == FALSE
             w == Scroll(v, v.top, v.bottom, up)
  <2>1. ReverseFeed(v) = w
    BY <1>1 DEF ReverseFeed
  <2> HIDE DEF up
  <2>2. Keeps(v, w) /\ Rest(v, w)
    BY ScrollKeeps
  <2> HIDE DEF w
  <2> QED BY <2>1, <2>2 DEF Rest
<1>2. CASE RowOf(v) # v.top /\ RowOf(v) > 0
  <2> DEFINE r == RowOf(v) - 1
             c == v.cursor - v.width
  <2>1. r * v.width + Column(v) \in Cells(v)
    BY <1>2, Where, PlaceOn
  <2>2. c = r * v.width + Column(v)
    <3> DEFINE a == RowOf(v) * v.width
    <3>1. r * v.width = a - v.width /\ a \in Nat
      BY Where
    <3>2. v.cursor = a + Column(v) /\ Column(v) \in Nat /\ v.width \in Nat
      BY Where
    <3> HIDE DEF a, r
    <3> QED BY <3>1, <3>2
  <2>3. ReverseFeed(v) = [v EXCEPT !.cursor = c]
    BY <1>2 DEF ReverseFeed, Good, Sound, IsScreen, Fields
  <2> HIDE DEF c
  <2> QED BY <2>1, <2>2, <2>3, CursorTo
<1>3. CASE RowOf(v) # v.top /\ ~(RowOf(v) > 0)
  BY <1>3, KeepsSame DEF ReverseFeed
<1> QED BY <1>1, <1>2, <1>3

LEMMA Counted1 == ASSUME NEW v, Good(v) PROVE CountParam(v) \in Nat \ {0}
BY DEF CountParam, Given, Good, Sound, Parsing

LEMMA MoveByKeeps ==
  ASSUME NEW v, Good(v), NEW c PROVE Keeps(v, MoveBy(v, c)) /\ MoveBy(v, c).wrap = v.wrap
<1> DEFINE n == CountParam(v)
           row == CASE c = "A" -> (IF RowOf(v) > n THEN RowOf(v) - n ELSE 0)
                    [] c = "B" -> Lesser(RowOf(v) + n, v.rows - 1)
                    [] OTHER -> RowOf(v)
           column == CASE c = "C" -> Lesser(Column(v) + n, v.width - 1)
                       [] c = "D" -> (IF Column(v) > n THEN Column(v) - n ELSE 0)
                       [] c = "G" -> Lesser(n - 1, v.width - 1)
                       [] OTHER -> Column(v)
           to == row * v.width + column
<1>1. n \in Nat \ {0}
  BY Counted1
<1> HIDE DEF n
<1>2. row \in Nat /\ row < v.rows
  <2>1. RowOf(v) \in Nat /\ RowOf(v) < v.rows /\ v.rows \in Nat
    BY Where
  <2>2. CASE c = "A"
    BY <1>1, <2>1, <2>2
  <2>3. CASE c = "B"
    BY <1>1, <2>1, <2>3 DEF Lesser
  <2>4. CASE c # "A" /\ c # "B"
    BY <2>1, <2>4
  <2> QED BY <2>2, <2>3, <2>4
<1>3. column \in Nat /\ column < v.width
  <2>1. Column(v) \in Nat /\ Column(v) < v.width /\ v.width \in Nat \ {0}
    BY Where
  <2>2. CASE c = "C"
    BY <1>1, <2>1, <2>2 DEF Lesser
  <2>3. CASE c = "D"
    BY <1>1, <2>1, <2>3
  <2>4. CASE c = "G"
    BY <1>1, <2>1, <2>4 DEF Lesser
  <2>5. CASE c # "C" /\ c # "D" /\ c # "G"
    BY <2>1, <2>5
  <2> QED BY <2>2, <2>3, <2>4, <2>5
<1>4. MoveBy(v, c) = [v EXCEPT !.cursor = to]
  BY DEF MoveBy, n
<1> HIDE DEF row, column
<1>5. to \in Cells(v)
  BY <1>2, <1>3, PlaceOn
<1> HIDE DEF to
<1> QED BY <1>4, <1>5, CursorTo

LEMMA MoveCursorKeeps ==
  ASSUME NEW v, Good(v) PROVE Keeps(v, MoveCursor(v)) /\ MoveCursor(v).wrap = v.wrap
<1> DEFINE to == (IF Given(v, 1) THEN v.params[1] - 1 ELSE 0) * v.width + (IF Given(v, 2) THEN v.params[2] - 1 ELSE 0)
<1>1. MoveCursor(v) = IF to \in Cells(v) THEN [v EXCEPT !.cursor = to] ELSE v
  BY DEF MoveCursor
<1> HIDE DEF to
<1>2. CASE to \in Cells(v)
  BY <1>1, <1>2, CursorTo
<1>3. CASE to \notin Cells(v)
  BY <1>1, <1>3, KeepsSame
<1> QED BY <1>2, <1>3

LEMMA ToRowKeeps ==
  ASSUME NEW v, Good(v) PROVE Keeps(v, ToRow(v)) /\ ToRow(v).wrap = v.wrap
<1> DEFINE r == CountParam(v) - 1
           to == r * v.width + Column(v)
<1>1. r \in Nat
  BY Counted1
<1>2. ToRow(v) = IF r < v.rows THEN [v EXCEPT !.cursor = to] ELSE v
  BY DEF ToRow
<1> HIDE DEF r
<1>3. CASE r < v.rows
  <2>1. to \in Cells(v)
    BY <1>1, <1>3, Where, PlaceOn
  <2> HIDE DEF to
  <2> QED BY <1>2, <1>3, <2>1, CursorTo
<1>4. CASE ~(r < v.rows)
  BY <1>2, <1>4, KeepsSame
<1> QED BY <1>3, <1>4

LEMMA RegionKeeps ==
  ASSUME NEW v, Good(v) PROVE Keeps(v, SetRegion(v)) /\ SetRegion(v).wrap = v.wrap
<1> DEFINE top == IF Given(v, 1) THEN v.params[1] - 1 ELSE 0
           bottom == IF Given(v, 2) /\ v.params[2] <= v.rows THEN v.params[2] ELSE v.rows
           w == [v EXCEPT !.top = top, !.bottom = bottom, !.cursor = 0]
<1>1. v.params \in Seq(Nat) /\ v.rows \in Nat
  BY DEF Good, Sound, Parsing, Grid
<1>2. top \in Nat
  BY <1>1 DEF Given
<1>3. bottom \in Nat /\ bottom <= v.rows
  BY <1>1 DEF Given
<1>4. SetRegion(v) = IF top + 1 < bottom THEN w ELSE v
  BY DEF SetRegion
<1> HIDE DEF top, bottom
<1>5. IsScreen(w) /\ Frame(v, w) /\ Picture(v, w) /\ w.cursor = 0 /\ w.top = top /\ w.bottom = bottom /\ w.wrap = v.wrap
      /\ w.shown = v.shown /\ Pens(v, w) /\ w.params = v.params /\ w.escape = v.escape
  BY ZenonT(60) DEF Good, Sound, IsScreen, Fields, Frame, Picture, Pens
<1>6. 0 \in Cells(v)
  BY Where DEF Cells, Good, Placed
<1> HIDE DEF w
<1>7. CASE top + 1 < bottom
  <2>1. Inked(w) /\ Parsing(w) /\ Region(w)
    BY <1>2, <1>3, <1>5, <1>7 DEF Good, Sound, Inked, Parsing, Pens, Region, Frame
  <2>2. Keeps(v, w)
    BY <1>5, <1>6, <2>1, Restated
  <2> QED BY <1>4, <1>5, <1>7, <2>2
<1>8. CASE ~(top + 1 < bottom)
  BY <1>4, <1>8, KeepsSame
<1> QED BY <1>7, <1>8

LEMMA GraphicsKeeps ==
  ASSUME NEW v, Good(v)
  PROVE  Keeps(v, SetGraphics(v)) /\ SetGraphics(v).wrap = v.wrap /\ SetGraphics(v).cursor = v.cursor
<1> DEFINE ps == IF v.params = <<>> THEN <<0>> ELSE v.params
           Turned(r, n) == IF n \in {0, 27} THEN FALSE ELSE IF n = 7 THEN TRUE ELSE r
           pen == FoldLeft(Coloured, v.pen, ps)
           rev == FoldLeft(Turned, v.reversed, ps)
           ink == IF rev THEN <<pen[2], pen[1]>> ELSE pen
           w == [v EXCEPT !.params = ps, !.pen = pen, !.reversed = rev, !.color = ink]
<1>1. SetGraphics(v) = w
  BY DEF SetGraphics
<1>2. ps \in Seq(Nat) /\ Len(ps) <= PARAMS
  <2>1. v.params \in Seq(Nat) /\ Len(v.params) <= PARAMS /\ PARAMS >= 1
    BY SetupTrue DEF Good, Sound, Parsing
  <2> QED BY <2>1
<1>3. ink = IF rev THEN <<pen[2], pen[1]>> ELSE pen
  OBVIOUS
<1> HIDE DEF ps, pen, rev, ink
<1>4. IsScreen(w) /\ Frame(v, w) /\ Picture(v, w) /\ w.cursor = v.cursor /\ w.top = v.top /\ w.bottom = v.bottom
      /\ w.wrap = v.wrap /\ w.shown = v.shown /\ w.params = ps /\ w.escape = v.escape /\ w.pen = pen /\ w.reversed = rev
      /\ w.color = ink
  BY ZenonT(60) DEF Good, Sound, IsScreen, Fields, Frame, Picture
<1> HIDE DEF w
<1>5. Inked(w) /\ Parsing(w) /\ Region(w) /\ w.cursor \in Cells(v)
  BY <1>2, <1>3, <1>4 DEF Good, Sound, Inked, Parsing, Region, Frame, Placed
<1>6. Keeps(v, w)
  BY <1>4, <1>5, Restated
<1> QED BY <1>1, <1>4, <1>6

LEMMA EraseCharsKeeps ==
  ASSUME NEW v, Good(v) PROVE Keeps(v, EraseChars(v)) /\ Rest(v, EraseChars(v))
BY BlankKeeps DEF EraseChars

\* Everything drawn again.
LEMMA RepaintMarks ==
  ASSUME NEW v, Good(v)
  PROVE  LET w == Repaint(v) IN Good(w) /\ Frame(v, w) /\ Rest(v, w) /\ Marked(w, {v.cursor})
<1> DEFINE x == [v EXCEPT !.picture = v.screen, !.marks = {}]
           y == IF v.lent THEN v ELSE x
           w == CursorDraw(y, TRUE)
<1>1. Repaint(v) = w
  BY DEF Repaint
<1>2. IsScreen(x) /\ Frame(v, x) /\ Rest(v, x) /\ x.screen = v.screen /\ x.picture = v.screen /\ x.marks = {}
  BY ZenonT(60) DEF Good, Sound, IsScreen, Fields, Frame, Rest, Pens
<1> HIDE DEF x
<1>3. Good(x)
  <2>1. Cells(x) = Cells(v)
    BY <1>2 DEF Cells, Frame
  <2> QED BY <1>2, <2>1 DEF Good, Sound, Sized, Inked, Parsing, Frame, Rest, Pens, Grid, Placed, Region
<1>4. Good(y) /\ Frame(v, y) /\ Rest(v, y) /\ Marked(y, {})
  <2>1. CASE v.lent
    BY <2>1 DEF Marked, Showing, Frame, Rest, Pens
  <2>2. CASE ~v.lent
    BY <1>2, <1>3, <2>2 DEF Marked
  <2> QED BY <2>1, <2>2
<1> HIDE DEF y
<1>5. Good(w) /\ Frame(y, w) /\ Rest(y, w) /\ Marked(w, {} \cup {y.cursor})
  BY <1>4, BarOn
<1>6. {} \cup {y.cursor} = {v.cursor}
  BY <1>4 DEF Rest
<1> HIDE DEF w
<1> QED BY <1>1, <1>4, <1>5, <1>6 DEF Frame, Rest, Pens

LEMMA ClearMarks ==
  ASSUME NEW v, Sound(v), Grid(v), Region(v)
  PROVE  LET w == Clear(v)
         IN Good(w) /\ Frame(v, w) /\ w.cursor = 0 /\ w.wrap = v.wrap /\ Marked(w, {0})
<1> DEFINE c == Cell(v, " ")
           s == [i \in DOMAIN v.screen |-> c]
           x == [v EXCEPT !.screen = s, !.cursor = 0]
           p == [i \in DOMAIN x.picture |-> c]
           z == [x EXCEPT !.picture = p, !.marks = {}]
           y == IF x.lent THEN x ELSE z
           w == CursorDraw(y, TRUE)
<1>1. Clear(v) = w
  BY DEF Clear, Filled
<1> HIDE DEF c
<1>2. s = [i \in Cells(v) |-> c]
  BY DEF Grid
<1> HIDE DEF s
<1>3. IsScreen(x) /\ Frame(v, x) /\ x.screen = s /\ x.cursor = 0 /\ x.picture = v.picture /\ Pens(v, x)
      /\ x.wrap = v.wrap /\ x.top = v.top /\ x.bottom = v.bottom /\ x.params = v.params /\ x.escape = v.escape
  BY ZenonT(60) DEF Sound, IsScreen, Fields, Frame, Pens
<1> HIDE DEF x
<1>4. Cells(x) = Cells(v) /\ 0 \in Cells(v)
  <2>1. Cells(x) = Cells(v)
    BY <1>3 DEF Cells, Frame
  <2>2. v.width \in Nat \ {0} /\ v.rows \in Nat /\ 0 < v.rows
    BY DEF Grid, Region
  <2>3. 0 * v.width + 0 \in 0 .. v.width * v.rows - 1
    BY <2>2, Place
  <2>4. 0 * v.width + 0 = 0
    BY <2>2
  <2> QED BY <2>1, <2>3, <2>4 DEF Cells
<1>5. p = s
  BY <1>2, <1>3 DEF Grid
<1>6. Good(x)
  <2>1. Sound(x)
    BY <1>3 DEF Sound, Sized, Inked, Parsing, Frame, Pens
  <2>2. Grid(x)
    BY <1>2, <1>3, <1>4 DEF Grid, Frame
  <2>3. Placed(x) /\ Region(x)
    BY <1>3, <1>4 DEF Placed, Region, Frame
  <2> QED BY <2>1, <2>2, <2>3 DEF Good
<1> HIDE DEF p
<1>7. IsScreen(z) /\ Frame(x, z) /\ Rest(x, z) /\ z.screen = s /\ z.picture = s /\ z.marks = {}
  BY ZenonT(60), <1>3, <1>5, <1>6 DEF Good, Sound, IsScreen, Fields, Frame, Rest, Pens
<1> HIDE DEF z
<1>8. Good(z)
  <2>1. Cells(z) = Cells(v)
    BY <1>4, <1>7 DEF Cells, Frame
  <2>2. Sound(z)
    BY <1>6, <1>7 DEF Good, Sound, Sized, Inked, Parsing, Frame, Rest, Pens
  <2>3. Grid(z)
    BY <1>2, <1>6, <1>7, <2>1 DEF Good, Grid, Frame
  <2>4. Placed(z) /\ Region(z)
    BY <1>3, <1>4, <1>6, <1>7, <2>1 DEF Good, Placed, Region, Frame, Rest
  <2> QED BY <2>2, <2>3, <2>4 DEF Good
<1>9. Good(y) /\ Frame(v, y) /\ y.cursor = 0 /\ y.wrap = v.wrap /\ Marked(y, {})
  <2>1. CASE x.lent
    BY <1>3, <1>6, <2>1 DEF Marked, Showing, Frame
  <2>2. CASE ~x.lent
    BY <1>3, <1>7, <1>8, <2>2 DEF Marked, Frame, Rest
  <2> QED BY <2>1, <2>2
<1> HIDE DEF y
<1>10. Good(w) /\ Frame(y, w) /\ Rest(y, w) /\ Marked(w, {} \cup {y.cursor})
  BY <1>9, BarOn
<1>11. {} \cup {y.cursor} = {0}
  BY <1>9
<1> HIDE DEF w
<1> QED BY <1>1, <1>9, <1>10, <1>11 DEF Frame, Rest

LEMMA RowsKeep ==
  ASSUME NEW v, Good(v), NEW open PROVE Keeps(v, ShiftRows(v, open)) /\ ShiftRows(v, open).wrap = v.wrap
<1>1. CASE RowOf(v) < v.top \/ RowOf(v) >= v.bottom
  BY <1>1, KeepsSame DEF ShiftRows
<1>2. CASE ~(RowOf(v) < v.top \/ RowOf(v) >= v.bottom)
  <2> DEFINE N == Lesser(CountParam(v), v.bottom - RowOf(v))
             Next1(u) == Scroll(u, RowOf(v), v.bottom, ~open)
             Part(g) == g = [k \in 0 .. N |-> IF k = 0 THEN v ELSE Next1(g[k - 1])]
             moved == CHOOSE g : Part(g)
             Fine(u) == Keeps(v, u) /\ u.wrap = v.wrap
  <2>1. N \in Nat
    <3>1. CountParam(v) \in Nat /\ RowOf(v) \in Nat /\ v.bottom \in Nat /\ RowOf(v) < v.bottom
      BY <1>2, Counted1, Where DEF Good, Region
    <3> QED BY <3>1 DEF Lesser
  <2>2. ShiftRows(v, open) = [moved[N] EXCEPT !.cursor = RowStart(v)]
    BY <1>2 DEF ShiftRows
  <2>3. Fine(v)
    BY KeepsSame
  <2>4. ASSUME NEW u, Fine(u) PROVE Fine(Next1(u))
    <3>1. Keeps(u, Next1(u)) /\ Rest(u, Next1(u))
      <4> DEFINE up == ~open
      <4> HIDE DEF up
      <4>1. Keeps(u, Scroll(u, RowOf(v), v.bottom, up)) /\ Rest(u, Scroll(u, RowOf(v), v.bottom, up))
        BY <2>4, ScrollKeeps DEF Keeps
      <4> QED BY <4>1 DEF up
    <3> HIDE DEF Next1
    <3> QED BY <2>4, <3>1, KeepsOn DEF Rest
  <2> HIDE DEF N, Next1, Fine
  <2>5. \E g : Part(g)
    <3> DEFINE Is(g, m) == g = [k \in 0 .. m |-> IF k = 0 THEN v ELSE Next1(g[k - 1])]
               S == {m \in 0 .. N : \E g : Is(g, m)}
    <3>1. 0 \in S
      <4>1. Is([k \in 0 .. 0 |-> v], 0)
        OBVIOUS
      <4> HIDE DEF Is
      <4> QED BY <2>1, <4>1
    <3>2. ASSUME NEW m \in 1 .. N, m - 1 \in S PROVE m \in S
      <4>1. PICK g : Is(g, m - 1)
        BY <3>2
      <4> DEFINE h == [k \in 0 .. m |-> IF k <= m - 1 THEN g[k] ELSE Next1(g[m - 1])]
      <4>2. ASSUME NEW k \in 0 .. m PROVE h[k] = IF k = 0 THEN v ELSE Next1(h[k - 1])
        <5>1. CASE k = 0
          BY <2>1, <4>1, <5>1
        <5>2. CASE k # 0 /\ k <= m - 1
          <6>1. k \in 0 .. m - 1 /\ k - 1 \in 0 .. m - 1 /\ k - 1 \in 0 .. m
            BY <2>1, <5>2
          <6>2. h[k] = g[k] /\ h[k - 1] = g[k - 1]
            BY <2>1, <6>1
          <6>3. g[k] = Next1(g[k - 1])
            BY <4>1, <5>2, <6>1
          <6> HIDE DEF h
          <6> QED BY <5>2, <6>2, <6>3
        <5>3. CASE k # 0 /\ k = m
          <6>1. h[m] = Next1(g[m - 1]) /\ h[m - 1] = g[m - 1]
            BY <2>1
          <6> HIDE DEF h
          <6> QED BY <5>3, <6>1
        <5> QED BY <2>1, <5>1, <5>2, <5>3
      <4>3. h = [k \in 0 .. m |-> h[k]]
        OBVIOUS
      <4> HIDE DEF h
      <4>4. Is(h, m)
        BY <4>2, <4>3
      <4> HIDE DEF Is
      <4> QED BY <4>4
    <3>3. N \in S
      <4>1. Climbs(S, N)
        <5> HIDE DEF S
        <5> QED BY <3>1, <3>2 DEF Climbs
      <4> HIDE DEF S
      <4> QED BY <2>1, <4>1, Climbing
    <3>4. PICK g : Is(g, N)
      BY <3>3
    <3>5. Part(g)
      BY <3>4
    <3> HIDE DEF Part
    <3> QED BY <3>5
  <2>6. Part(moved)
    <3> HIDE DEF Part
    <3> QED BY <2>5
  <2> HIDE DEF moved
  <2> DEFINE R == {k \in 0 .. N : Fine(moved[k])}
  <2>7. Climbs(R, N)
    <3>1. 0 \in R
      BY <2>1, <2>3, <2>6
    <3>2. ASSUME NEW k \in 1 .. N, k - 1 \in R PROVE k \in R
      <4>1. Fine(moved[k - 1]) /\ moved[k] = Next1(moved[k - 1]) /\ k \in 0 .. N
        BY <2>1, <2>6, <3>2
      <4> QED BY <2>4, <4>1
    <3> HIDE DEF R
    <3> QED BY <3>1, <3>2 DEF Climbs
  <2>8. Fine(moved[N])
    <3>1. N \in R
      <4> HIDE DEF R
      <4> QED BY <2>1, <2>7, Climbing
    <3> QED BY <3>1
  <2> DEFINE u == moved[N]
             s == RowStart(v)
  <2> HIDE DEF u
  <2>9. Keeps(v, u) /\ u.wrap = v.wrap
    BY <2>8 DEF Fine, u
  <2>10. s \in Cells(u)
    BY <2>9, RowStartOn DEF Keeps, Frame, Cells
  <2> HIDE DEF s
  <2>11. Keeps(u, [u EXCEPT !.cursor = s]) /\ [u EXCEPT !.cursor = s].wrap = u.wrap
    BY <2>9, <2>10, CursorTo DEF Keeps
  <2> DEFINE w == [u EXCEPT !.cursor = s]
  <2> HIDE DEF w
  <2>12. Keeps(u, w) /\ w.wrap = u.wrap
    BY <2>11 DEF w
  <2>13. ShiftRows(v, open) = w
    BY <2>2 DEF w, u, s
  <2> QED BY <2>9, <2>12, <2>13, KeepsOn
<1> QED BY <1>1, <1>2

\* What is erased but for the whole screen.
LEMMA EraseKeeps ==
  ASSUME NEW v, Good(v), NEW c
  PROVE  \/ Keeps(v, Erase(v, c)) /\ Rest(v, Erase(v, c))
         \/ Erase(v, c) = Clear(v)
<1>1. CASE c = "J" /\ v.params # <<>> /\ v.params[1] >= 2
  BY <1>1 DEF Erase
<1>2. CASE ~(c = "J" /\ v.params # <<>> /\ v.params[1] >= 2)
  <2> DEFINE S == IF ParamIs(v, 1) THEN (IF c = "J" THEN 0 ELSE RowStart(v)) .. v.cursor
                  ELSE IF c = "J" THEN {i \in Cells(v) : i >= v.cursor}
                  ELSE (IF ParamIs(v, 2) THEN RowStart(v) ELSE v.cursor) .. RowStart(v) + v.width - 1
  <2>1. Erase(v, c) = Blank(v, S)
    BY <1>2 DEF Erase
  <2> HIDE DEF S
  <2> QED BY <2>1, BlankKeeps
<1> QED BY <1>1, <1>2

----------------------------------------------------------------------------
(* Escape sequences.                                                       *)

\* The letters that may move the cursor and leave its bar to be moved.
Movers == {"8", "M", "D", "E", "H", "f", "A", "B", "C", "G", "L", "d", "r"}

\* What the byte c of a sequence makes of v.
Goads(v, w, c) == /\ Good(w) /\ Frame(v, w) /\ WrapTrue(w)
                  /\ Marked(w, {v.cursor}) \/ Marked(w, {w.cursor})
                  /\ c \notin Movers => Marked(w, {w.cursor})

LEMMA GoadsKept ==
  ASSUME NEW v, Whole(v), NEW w, Keeps(v, w), NEW c, w.wrap => w.cursor = v.cursor, c \in Movers \/ w.cursor = v.cursor
  PROVE  Goads(v, w, c)
<1>1. Good(w) /\ Frame(v, w) /\ Marked(w, {v.cursor}) /\ (w.wrap => v.wrap)
  BY DEF Whole, Keeps
<1>2. WrapTrue(w)
  <2>1. SUFFICES ASSUME w.wrap PROVE w.cursor \in {0, RowStart(w) + w.width - 1}
    BY DEF WrapTrue
  <2>2. w.cursor = v.cursor /\ w.width = v.width /\ v.wrap
    BY <1>1, <2>1 DEF Frame
  <2>3. RowStart(w) = RowStart(v)
    BY <2>2 DEF RowStart, Column
  <2> QED BY <2>2, <2>3 DEF Whole, WrapTrue
<1>3. c \notin Movers => Marked(w, {w.cursor})
  BY <1>1
<1> QED BY <1>1, <1>2, <1>3 DEF Goads

LEMMA GoadsCleared ==
  ASSUME NEW v, NEW w, Good(w), Frame(v, w), NEW c, w.cursor = 0, Marked(w, {0})
  PROVE  Goads(v, w, c)
BY DEF Goads, WrapTrue

\* Only what is being read has changed.
Reads(v, w) == /\ IsScreen(w) /\ Frame(v, w) /\ Picture(v, w) /\ Pens(v, w) /\ w.cursor = v.cursor /\ w.wrap = v.wrap
               /\ w.shown = v.shown /\ w.top = v.top /\ w.bottom = v.bottom

LEMMA ReadsKeep == ASSUME NEW v, Good(v), NEW w, Reads(v, w), Parsing(w) PROVE Keeps(v, w)
<1>1. IsScreen(w) /\ Frame(v, w) /\ Picture(v, w) /\ Inked(w) /\ Region(w) /\ w.shown = v.shown /\ w.cursor \in Cells(v)
  BY DEF Reads, Good, Sound, Inked, Region, Pens, Frame, Placed
<1> QED BY <1>1, Restated DEF Reads

LEMMA ReadsGoad == ASSUME NEW v, Whole(v), NEW w, Reads(v, w), Parsing(w), NEW c PROVE Goads(v, w, c)
<1>1. Keeps(v, w)
  BY ReadsKeep DEF Whole
<1> QED BY <1>1, GoadsKept DEF Reads

LEMMA AfterEscGoads ==
  ASSUME NEW v, Whole(v), NEW c PROVE Goads(v, AfterEsc(v, c), c)
<1> DEFINE e == CASE c = "[" -> "csi" [] c \in {"(", ")"} -> "charset" [] c = "]" -> "osc" [] OTHER -> "plain"
           g == c = ")"
           nil == <<>>
           no == FALSE
           zero == 0
           w == [v EXCEPT !.escape = e, !.g1 = g, !.params = nil, !.private = no, !.osc = zero]
<1>1. e \in Sequencing
  BY DEF Sequencing
<1> HIDE DEF e, g, nil, no, zero
<1>2. Reads(v, w) /\ w.escape = e /\ w.params = nil /\ w.saved = v.saved /\ w.savedpen = v.savedpen
  <2>1. IsScreen(w)
    BY DEF Whole, Good, Sound, IsScreen
  <2>2. w.escape = e /\ w.params = nil /\ w.saved = v.saved /\ w.savedpen = v.savedpen
    BY DEF Whole, Good, Sound, IsScreen, Fields
  <2>3. Frame(v, w)
    BY DEF Whole, Good, Sound, IsScreen, Fields, Frame
  <2>4. Picture(v, w) /\ Pens(v, w) /\ w.cursor = v.cursor /\ w.wrap = v.wrap /\ w.shown = v.shown /\ w.top = v.top /\ w.bottom = v.bottom
    BY DEF Whole, Good, Sound, IsScreen, Fields, Picture, Pens
  <2> QED BY <2>1, <2>2, <2>3, <2>4 DEF Reads
<1>3. Parsing(w)
  BY <1>1, <1>2, SetupTrue DEF Parsing, Whole, Good, Sound, nil
<1>4. AfterEsc(v, c) =
        CASE c = "7" -> [w EXCEPT !.saved = w.cursor, !.savedpen = w.pen]
          [] c = "8" -> [w EXCEPT !.cursor = IF w.saved \in Cells(w) THEN w.saved ELSE 0, !.pen = w.savedpen, !.reversed = FALSE,
                                  !.color = w.savedpen, !.wrap = FALSE]
          [] c = "M" -> [ReverseFeed(w) EXCEPT !.wrap = FALSE]
          [] c = "D" -> [LineFeed(w) EXCEPT !.wrap = FALSE]
          [] c = "E" -> [LineFeed([w EXCEPT !.cursor = RowStart(w)]) EXCEPT !.wrap = FALSE]
          [] c = "c" -> Clear([TextReset(w) EXCEPT !.pen = Plain, !.color = Plain, !.reversed = FALSE, !.inserting = FALSE,
                                                    !.shown = TRUE, !.top = 0, !.bottom = w.rows])
          [] OTHER -> w
  BY DEF AfterEsc, e, g, nil, no, zero
<1> HIDE DEF w
<1>5. Keeps(v, w) /\ Good(w) /\ w.cursor = v.cursor /\ w.wrap = v.wrap
  BY <1>2, <1>3, ReadsKeep DEF Whole, Reads, Keeps
<1>6. CASE c = "7"
  <2> DEFINE x == [w EXCEPT !.saved = w.cursor, !.savedpen = w.pen]
  <2>1. IsScreen(x) /\ Frame(w, x) /\ Rest(w, x) /\ Picture(w, x)
    BY ZenonT(60), <1>5 DEF Good, Sound, IsScreen, Fields, Frame, Rest, Picture, Pens
  <2>2. AfterEsc(v, c) = x
    BY <1>4, <1>6
  <2> HIDE DEF x
  <2>3. Keeps(v, x) /\ x.cursor = v.cursor
    BY <1>5, <2>1, Alike, KeepsOn DEF Rest
  <2> QED BY <2>2, <2>3, GoadsKept
<1>7. CASE c = "8"
  <2> DEFINE to == IF w.saved \in Cells(w) THEN w.saved ELSE 0
             x == [w EXCEPT !.cursor = to, !.pen = w.savedpen, !.reversed = no, !.color = w.savedpen, !.wrap = no]
  <2>1. to \in Cells(w)
    BY <1>5, Where DEF Cells, Good, Placed
  <2>2. AfterEsc(v, c) = x
    BY <1>4, <1>7 DEF no
  <2> HIDE DEF to
  <2> USE DEF Good, Sound
  <2>11. IsScreen(x)
    BY <1>5 DEF IsScreen
  <2>12. Frame(w, x)
    BY <1>5 DEF IsScreen, Fields, Frame
  <2>13. Picture(w, x) /\ x.shown = w.shown /\ x.top = w.top /\ x.bottom = w.bottom /\ x.params = w.params /\ x.escape = w.escape
    BY <1>5 DEF IsScreen, Fields, Picture
  <2>14. x.cursor = to /\ x.wrap = no /\ x.reversed = no /\ x.pen = x.color
    BY <1>5 DEF IsScreen, Fields
  <2>3. IsScreen(x) /\ Frame(w, x) /\ Picture(w, x) /\ x.cursor = to /\ x.wrap = no /\ x.reversed = no /\ x.pen = x.color
        /\ x.shown = w.shown /\ x.top = w.top /\ x.bottom = w.bottom /\ x.params = w.params /\ x.escape = w.escape
    BY <2>11, <2>12, <2>13, <2>14
  <2> HIDE DEF x
  <2>4. Inked(x) /\ Parsing(x) /\ Region(x)
    BY <1>5, <2>3 DEF Good, Sound, Inked, Parsing, Region, Frame, no
  <2>5. Keeps(v, x)
    BY <1>5, <2>1, <2>3, <2>4, Restated, KeepsOn DEF no
  <2> QED BY <1>7, <2>2, <2>3, <2>5, GoadsKept DEF Movers, no
<1>8. CASE c = "M"
  <2> DEFINE u == ReverseFeed(w)
             x == [u EXCEPT !.wrap = FALSE]
  <2>1. Keeps(v, u)
    BY <1>5, ReverseKeeps, KeepsOn
  <2> HIDE DEF u
  <2>2. Keeps(u, x) /\ ~x.wrap
    BY <2>1, NoWrap DEF Keeps
  <2>3. AfterEsc(v, c) = x
    BY <1>4, <1>8 DEF u
  <2> HIDE DEF x
  <2>4. Keeps(v, x)
    BY <2>1, <2>2, KeepsOn
  <2> QED BY <1>8, <2>2, <2>3, <2>4, GoadsKept DEF Movers
<1>9. CASE c = "D" \/ c = "E"
  <2> DEFINE s == RowStart(w)
             y == [w EXCEPT !.cursor = s]
             z == IF c = "D" THEN w ELSE y
             u == LineFeed(z)
             x == [u EXCEPT !.wrap = FALSE]
  <2>1. s \in Cells(w)
    BY <1>5, RowStartOn
  <2>2. AfterEsc(v, c) = x
    <3>1. CASE c = "D"
      BY <1>4, <3>1
    <3>2. CASE c = "E"
      BY <1>4, <3>2
    <3> QED BY <1>9, <3>1, <3>2
  <2> HIDE DEF s
  <2>3. Keeps(w, y)
    BY <1>5, <2>1, CursorTo
  <2>4. Keeps(v, z)
    BY <1>5, <2>3, KeepsOn
  <2> HIDE DEF z
  <2>5. Keeps(v, u)
    BY <2>4, FeedKeeps, KeepsOn DEF Keeps
  <2> HIDE DEF u
  <2>6. Keeps(u, x) /\ ~x.wrap
    BY <2>5, NoWrap DEF Keeps
  <2> HIDE DEF x
  <2>7. Keeps(v, x)
    BY <2>5, <2>6, KeepsOn
  <2> QED BY <1>9, <2>2, <2>6, <2>7, GoadsKept DEF Movers
<1>10. CASE c = "c"
  <2> DEFINE t == TextReset(w)
             yes == TRUE
             x == [t EXCEPT !.pen = Plain, !.color = Plain, !.reversed = no, !.inserting = no, !.shown = yes,
                            !.top = zero, !.bottom = w.rows]
  <2>1. IsScreen(t) /\ Frame(w, t) /\ Picture(w, t) /\ t.params = w.params /\ t.escape = w.escape
    BY ZenonT(60), <1>5 DEF Good, Sound, IsScreen, Fields, Frame, Picture, TextReset
  <2>2. AfterEsc(v, c) = Clear(x)
    BY <1>4, <1>10 DEF no, zero
  <2> HIDE DEF t, yes
  <2>11. IsScreen(x)
    BY <2>1 DEF IsScreen
  <2>12. Frame(t, x)
    BY <2>1 DEF IsScreen, Fields, Frame
  <2>13. Picture(t, x) /\ x.params = t.params /\ x.escape = t.escape
    BY <2>1 DEF IsScreen, Fields, Picture
  <2>14. x.pen = x.color /\ x.reversed = no /\ x.top = zero /\ x.bottom = w.rows
    BY <2>1 DEF IsScreen, Fields
  <2>3. IsScreen(x) /\ Frame(w, x) /\ Picture(w, x) /\ x.params = w.params /\ x.escape = w.escape /\ x.pen = x.color
        /\ x.reversed = no /\ x.top = zero /\ x.bottom = w.rows
    BY <2>1, <2>11, <2>12, <2>13, <2>14 DEF Frame, Picture
  <2> HIDE DEF x
  <2>4. Sound(x) /\ Grid(x)
    <3>1. Cells(x) = Cells(w)
      BY <2>3 DEF Cells, Frame
    <3> QED BY <1>5, <2>3, <3>1 DEF Good, Sound, Sized, Inked, Parsing, Grid, Frame, Picture, no
  <2>5. Region(x)
    <3>1. w.top \in Nat /\ w.bottom \in Nat /\ w.rows \in Nat /\ w.top + 1 < w.bottom /\ w.bottom <= w.rows /\ x.rows = w.rows
      BY <1>5, <2>3 DEF Good, Region, Grid, Frame
    <3> QED BY <2>3, <3>1 DEF Region, zero
  <2> DEFINE y == Clear(x)
  <2>6. Good(y) /\ Frame(x, y) /\ y.cursor = 0 /\ Marked(y, {0})
    BY <2>4, <2>5, ClearMarks
  <2> HIDE DEF y
  <2>7. Frame(v, y)
    BY <1>5, <2>3, <2>6 DEF Keeps, Frame
  <2> QED BY <2>2, <2>6, <2>7, GoadsCleared DEF y
<1>11. CASE c \notin {"7", "8", "M", "D", "E", "c"}
  <2>1. AfterEsc(v, c) = w
    BY <1>4, <1>11
  <2> QED BY <1>5, <2>1, GoadsKept
<1> QED BY <1>6, <1>7, <1>8, <1>9, <1>10, <1>11

LEMMA InOscGoads ==
  ASSUME NEW v, Whole(v), v.escape = "osc", NEW c PROVE Goads(v, InOsc(v, c), c)
<1> DEFINE e == InOsc(v, c).escape
           o == InOsc(v, c).osc
           w == [v EXCEPT !.escape = e, !.osc = o]
<1>1. InOsc(v, c) = w
  BY ZenonT(60) DEF InOsc, Whole, Good, Sound, IsScreen, Fields
<1>2. e \in Sequencing
  BY DEF InOsc, Whole, Good, Sound, IsScreen, Fields, Sequencing
<1> HIDE DEF e, o
<1>3. Reads(v, w) /\ w.escape = e /\ w.params = v.params
  BY ZenonT(60) DEF Whole, Good, Sound, IsScreen, Fields, Reads, Frame, Picture, Pens
<1> HIDE DEF w
<1>4. Parsing(w)
  BY <1>2, <1>3 DEF Parsing, Whole, Good, Sound
<1> QED BY <1>1, <1>3, <1>4, ReadsGoad

LEMMA DigitsNat == \A c \in DOMAIN Digits : Digits[c] \in Nat
<1> DEFINE ds == <<"0", "1", "2", "3", "4", "5", "6", "7", "8", "9">>
           C == {"0", "1", "2", "3", "4", "5", "6", "7", "8", "9"}
<1>1. ASSUME NEW c \in C PROVE \E n \in 0 .. 9 : c = ds[n + 1]
  <2>1. \E k \in 1 .. 10 : c = ds[k]
    OBVIOUS
  <2>2. PICK k \in 1 .. 10 : c = ds[k]
    BY <2>1
  <2>3. k - 1 \in 0 .. 9 /\ k - 1 + 1 = k
    OBVIOUS
  <2> HIDE DEF ds, C
  <2> QED BY <2>2, <2>3
<1>2. Digits = [c \in C |-> CHOOSE n \in 0 .. 9 : c = ds[n + 1]]
  BY DEF Digits
<1> HIDE DEF ds, C
<1>3. ASSUME NEW c \in C PROVE Digits[c] \in Nat
  <2>1. Digits[c] = CHOOSE n \in 0 .. 9 : c = ds[n + 1]
    BY <1>2
  <2>2. Digits[c] \in 0 .. 9
    BY <1>1, <2>1
  <2> QED BY <2>2
<1> QED BY <1>2, <1>3

\* The letter that ends a sequence, of the ones a program's own settings are.
LEMMA PrivateGoads ==
  ASSUME NEW v, Whole(v), NEW w, Good(w), w.cursor = v.cursor, Marked(w, {w.cursor}), ~w.wrap,
         Frame(v, w), NEW b, NEW c
  PROVE  Goads(v, CursorDraw([CursorDraw(w, FALSE) EXCEPT !.shown = b], TRUE), c)
<1> DEFINE a == CursorDraw(w, FALSE)
           x == [a EXCEPT !.shown = b]
           y == CursorDraw(x, TRUE)
<1>1. Keeps(w, a) /\ Rest(w, a) /\ Marked(a, {w.cursor} \ {w.cursor})
  BY BarOff
<1> HIDE DEF a
<1>2. Good(a)
  BY <1>1 DEF Keeps
<1>3. IsScreen(x) /\ Frame(a, x) /\ Picture(a, x) /\ Pens(a, x) /\ x.cursor = a.cursor /\ x.wrap = a.wrap
      /\ x.top = a.top /\ x.bottom = a.bottom /\ x.params = a.params /\ x.escape = a.escape
  BY SMTT(60), <1>2 DEF Good, Sound, IsScreen, Fields, Frame, Picture, Pens
<1> HIDE DEF x
<1>4. Good(x)
  <2>1. Cells(x) = Cells(a)
    BY <1>3 DEF Cells, Frame
  <2> QED BY <1>2, <1>3, <2>1 DEF Good, Sound, Sized, Inked, Parsing, Grid, Placed, Region, Frame, Picture, Pens
<1>5. Marked(x, {})
  <2>1. Marked(a, {})
    <3>1. {w.cursor} \ {w.cursor} = {}
      OBVIOUS
    <3> QED BY <1>1, <3>1
  <2>2. SUFFICES ASSUME Showing(x) PROVE x.picture = x.screen /\ x.marks = {}
    BY DEF Marked
  <2>3. Showing(a)
    BY <1>3, <2>2 DEF Showing, Astray, Frame
  <2>4. a.picture = a.screen /\ a.marks = {}
    BY <2>1, <2>3 DEF Marked
  <2> QED BY <1>3, <2>4 DEF Picture
<1>6. Good(y) /\ Frame(x, y) /\ Rest(x, y) /\ Marked(y, {} \cup {x.cursor})
  BY <1>4, <1>5, BarOn
<1> HIDE DEF y
<1>7. Frame(v, y) /\ y.cursor = v.cursor /\ ~y.wrap /\ Marked(y, {y.cursor})
  <2>1. x.cursor = v.cursor /\ y.cursor = v.cursor /\ ~y.wrap
    BY <1>1, <1>3, <1>6 DEF Rest
  <2>2. {} \cup {x.cursor} = {y.cursor}
    BY <2>1
  <2>3. Frame(v, y)
    BY <1>1, <1>3, <1>6 DEF Frame, Keeps
  <2> QED BY <1>6, <2>1, <2>2, <2>3
<1>8. Goads(v, y, c)
  BY <1>6, <1>7 DEF Goads, WrapTrue
<1> QED BY <1>8 DEF y, x, a

LEMMA FinalGoads ==
  ASSUME NEW v, Whole(v), NEW c PROVE Goads(v, Final(v, c), c)
<1> DEFINE e == "plain"
           no == FALSE
           w == [v EXCEPT !.escape = e, !.wrap = no, !.private = no]
           op == Final(v, c)
<1> HIDE DEF e, no
<1>1. IsScreen(w) /\ Frame(v, w) /\ Picture(v, w) /\ Pens(v, w) /\ w.cursor = v.cursor /\ w.shown = v.shown /\ w.top = v.top
      /\ w.bottom = v.bottom /\ w.escape = e /\ w.params = v.params /\ w.wrap = no
  <2>1. IsScreen(w)
    BY DEF Whole, Good, Sound, IsScreen
  <2>2. Frame(v, w)
    BY DEF Whole, Good, Sound, IsScreen, Fields, Frame
  <2>3. Picture(v, w) /\ Pens(v, w) /\ w.cursor = v.cursor /\ w.shown = v.shown /\ w.top = v.top /\ w.bottom = v.bottom
    BY DEF Whole, Good, Sound, IsScreen, Fields, Picture, Pens
  <2>4. w.escape = e /\ w.params = v.params /\ w.wrap = no
    BY DEF Whole, Good, Sound, IsScreen, Fields
  <2> QED BY <2>1, <2>2, <2>3, <2>4
<1>2. Final(v, c) =
        IF v.private THEN
          IF c \in {"h", "l"} /\ ParamIs(v, 25)
          THEN CursorDraw([CursorDraw(w, FALSE) EXCEPT !.shown = c = "h"], TRUE) ELSE w
        ELSE CASE c = "m" -> SetGraphics(w)
               [] c \in {"J", "K"} -> Erase(w, c)
               [] c \in {"H", "f"} -> MoveCursor(w)
               [] c \in {"A", "B", "C", "D", "G"} -> MoveBy(w, c)
               [] c = "@" -> ShiftLine(w, TRUE, CountParam(w))
               [] c = "P" -> ShiftLine(w, FALSE, CountParam(w))
               [] c \in {"L", "M"} -> ShiftRows(w, c = "L")
               [] c = "X" -> EraseChars(w)
               [] c = "d" -> ToRow(w)
               [] c = "r" -> SetRegion(w)
               [] c \in {"h", "l"} /\ ParamIs(w, 4) -> [w EXCEPT !.inserting = c = "h"]
               [] OTHER -> w
  BY DEF Final, e, no
<1> HIDE DEF w
<1>3. Keeps(v, w) /\ ~w.wrap /\ Good(w)
  <2>1. Inked(w) /\ Parsing(w) /\ Region(w) /\ w.cursor \in Cells(v) /\ Good(v)
    BY <1>1 DEF Whole, Good, Sound, Inked, Parsing, Region, Pens, Frame, Placed, Sequencing, e
  <2>2. Keeps(v, w)
    BY <1>1, <2>1, Restated DEF no
  <2> QED BY <1>1, <2>2 DEF Keeps, no
<1>4. ASSUME NEW x, Keeps(w, x), ~x.wrap, c \in Movers \/ x.cursor = v.cursor PROVE Goads(v, x, c)
  <2>1. Keeps(v, x)
    BY <1>3, <1>4, KeepsOn
  <2> QED BY <1>4, <2>1, GoadsKept
<1>5. Goads(v, w, c)
  BY <1>1, <1>3, GoadsKept
<1>6. CASE v.private
  <2>1. CASE c \in {"h", "l"} /\ ParamIs(v, 25)
    <3> DEFINE b == c = "h"
    <3>1. Final(v, c) = CursorDraw([CursorDraw(w, FALSE) EXCEPT !.shown = b], TRUE)
      BY <1>2, <1>6, <2>1
    <3> HIDE DEF b
    <3>2. Marked(w, {w.cursor}) /\ Frame(v, w)
      BY <1>1, <1>3 DEF Keeps, Whole
    <3>3. w.cursor = v.cursor /\ ~w.wrap /\ Good(w)
      BY <1>1, <1>3
    <3>4. Goads(v, CursorDraw([CursorDraw(w, FALSE) EXCEPT !.shown = b], TRUE), c)
      BY <3>2, <3>3, PrivateGoads
    <3> QED BY <3>1, <3>4, Zenon
  <2>2. CASE ~(c \in {"h", "l"} /\ ParamIs(v, 25))
    <3>1. Final(v, c) = w
      BY <1>2, <1>6, <2>2
    <3> QED BY <1>5, <3>1
  <2> QED BY <2>1, <2>2
<1>7. CASE ~v.private
  <2>1. CASE c = "m"
    <3>1. Final(v, c) = SetGraphics(w)
      BY <1>2, <1>7, <2>1
    <3>2. Keeps(w, SetGraphics(w)) /\ ~SetGraphics(w).wrap /\ SetGraphics(w).cursor = v.cursor
      BY <1>1, <1>3, GraphicsKeeps
    <3> QED BY <1>4, <3>1, <3>2
  <2>2. CASE c \in {"J", "K"}
    <3> DEFINE x == Erase(w, c)
    <3>1. Final(v, c) = x
      BY <1>2, <1>7, <2>2
    <3>2. CASE Keeps(w, x) /\ Rest(w, x)
      <4> HIDE DEF x
      <4> QED BY <1>1, <1>3, <1>4, <3>1, <3>2 DEF Rest
    <3>3. CASE x = Clear(w)
      <4> DEFINE y == Clear(w)
      <4>1. Good(y) /\ Frame(w, y) /\ y.cursor = 0 /\ Marked(y, {0})
        BY <1>3, ClearMarks DEF Good
      <4> HIDE DEF x, y
      <4>2. Frame(v, y)
        BY <1>1, <4>1 DEF Frame
      <4> QED BY <3>1, <3>3, <4>1, <4>2, GoadsCleared DEF y
    <3> QED BY <1>3, <3>2, <3>3, EraseKeeps
  <2>3. CASE c \in {"H", "f"}
    <3>1. Final(v, c) = MoveCursor(w)
      BY <1>2, <1>7, <2>3
    <3>2. Keeps(w, MoveCursor(w)) /\ ~MoveCursor(w).wrap
      BY <1>3, MoveCursorKeeps
    <3> QED BY <1>4, <2>3, <3>1, <3>2 DEF Movers
  <2>4. CASE c \in {"A", "B", "C", "D", "G"}
    <3>1. Final(v, c) = MoveBy(w, c)
      BY <1>2, <1>7, <2>4
    <3>2. Keeps(w, MoveBy(w, c)) /\ ~MoveBy(w, c).wrap
      BY <1>3, MoveByKeeps
    <3> QED BY <1>4, <2>4, <3>1, <3>2 DEF Movers
  <2>5. CASE c \in {"@", "P"}
    <3> DEFINE open == c = "@"
               x == ShiftLine(w, open, CountParam(w))
    <3>1. Final(v, c) = x
      <4>1. CASE c = "@"
        <5>1. open = TRUE
          BY <4>1
        <5>2. Final(v, c) = ShiftLine(w, TRUE, CountParam(w))
          BY <1>2, <1>7, <4>1
        <5> QED BY <5>1, <5>2
      <4>2. CASE c = "P"
        <5>1. open = FALSE
          BY <4>2
        <5>2. Final(v, c) = ShiftLine(w, FALSE, CountParam(w))
          BY <1>2, <1>7, <4>2
        <5> QED BY <5>1, <5>2
      <4> QED BY <2>5, <4>1, <4>2
    <3> HIDE DEF open
    <3>2. Keeps(w, x) /\ Rest(w, x)
      BY <1>3, ShiftKeeps
    <3> HIDE DEF x
    <3> QED BY <1>1, <1>3, <1>4, <3>1, <3>2 DEF Rest
  <2>6. CASE c \in {"L", "M"}
    <3> DEFINE open == c = "L"
    <3>1. Final(v, c) = ShiftRows(w, open)
      BY <1>2, <1>7, <2>6
    <3> HIDE DEF open
    <3>2. Keeps(w, ShiftRows(w, open)) /\ ~ShiftRows(w, open).wrap
      BY <1>3, RowsKeep
    <3> QED BY <1>4, <2>6, <3>1, <3>2 DEF Movers
  <2>7. CASE c = "X"
    <3>1. Final(v, c) = EraseChars(w)
      BY <1>2, <1>7, <2>7
    <3> DEFINE x == EraseChars(w)
    <3>2. Keeps(w, x) /\ Rest(w, x)
      BY <1>3, EraseCharsKeeps
    <3>3. Final(v, c) = x
      BY <3>1
    <3> HIDE DEF x
    <3> QED BY <1>1, <1>3, <1>4, <3>2, <3>3 DEF Rest
  <2>8. CASE c = "d"
    <3>1. Final(v, c) = ToRow(w)
      BY <1>2, <1>7, <2>8
    <3>2. Keeps(w, ToRow(w)) /\ ~ToRow(w).wrap
      BY <1>3, ToRowKeeps
    <3> QED BY <1>4, <2>8, <3>1, <3>2 DEF Movers
  <2>9. CASE c = "r"
    <3>1. Final(v, c) = SetRegion(w)
      BY <1>2, <1>7, <2>9
    <3>2. Keeps(w, SetRegion(w)) /\ ~SetRegion(w).wrap
      BY <1>3, RegionKeeps
    <3> QED BY <1>4, <2>9, <3>1, <3>2 DEF Movers
  <2>10. CASE c \in {"h", "l"} /\ ParamIs(w, 4)
    <3> DEFINE b == c = "h"
               x == [w EXCEPT !.inserting = b]
    <3>1. Final(v, c) = x
      BY <1>2, <1>7, <2>10
    <3> HIDE DEF b
    <3>2. Reads(w, x) /\ x.params = w.params /\ x.escape = w.escape
      BY <1>3 DEF Good, Sound, IsScreen, Fields, Reads, Frame, Picture, Pens
    <3> HIDE DEF x
    <3>3. Keeps(w, x)
      BY <1>3, <3>2, ReadsKeep DEF Good, Sound, Parsing
    <3> QED BY <1>1, <1>3, <1>4, <3>1, <3>2, <3>3 DEF Reads
  <2>11. CASE /\ c \notin {"m", "J", "K", "H", "f", "A", "B", "C", "D", "G", "@", "P", "L", "M", "X", "d", "r"}
              /\ ~(c \in {"h", "l"} /\ ParamIs(w, 4))
    <3>1. Final(v, c) = w
      BY <1>2, <1>7, <2>11
    <3> QED BY <1>5, <3>1
  <2> QED BY <2>1, <2>2, <2>3, <2>4, <2>5, <2>6, <2>7, <2>8, <2>9, <2>10, <2>11
<1> QED BY <1>6, <1>7

LEMMA InCsiGoads ==
  ASSUME NEW v, Whole(v), v.escape = "csi", NEW c PROVE Goads(v, InCsi(v, c), c)
<1>0. Good(v) /\ IsScreen(v) /\ Parsing(v) /\ PARAMS \in Nat \ {0}
  BY SetupTrue DEF Whole, Good, Sound
<1>1. CASE c \in {"?", "<", "=", ">"}
  <2> DEFINE yes == TRUE
             w == [v EXCEPT !.private = yes]
  <2>1. InCsi(v, c) = w
    BY <1>1 DEF InCsi
  <2> HIDE DEF yes
  <2>2. Reads(v, w) /\ w.params = v.params /\ w.escape = v.escape
    BY SMTT(60), <1>0 DEF IsScreen, Fields, Reads, Frame, Picture, Pens
  <2> HIDE DEF w
  <2>3. Parsing(w)
    BY <1>0, <2>2 DEF Parsing
  <2> QED BY <2>1, <2>2, <2>3, ReadsGoad
<1>2. ASSUME NEW ps, ps \in Seq(Nat), Len(ps) <= PARAMS, InCsi(v, c) = [v EXCEPT !.params = ps]
      PROVE  Goads(v, InCsi(v, c), c)
  <2> DEFINE w == [v EXCEPT !.params = ps]
  <2>1. Reads(v, w) /\ w.params = ps /\ w.escape = v.escape
    BY <1>0 DEF IsScreen, Fields, Reads, Frame, Picture, Pens
  <2>2. InCsi(v, c) = w
    BY <1>2
  <2> HIDE DEF w
  <2>3. Parsing(w)
    BY <1>0, <1>2, <2>1 DEF Parsing
  <2> QED BY <2>1, <2>2, <2>3, ReadsGoad
<1>3. CASE c \notin {"?", "<", "=", ">"} /\ c \in DOMAIN Digits
  <2>1. Digits[c] \in Nat
    BY <1>3, DigitsNat
  <2> DEFINE d == Digits[c]
  <2> HIDE DEF d
  <2>2. CASE v.params = <<>>
    <3>1. InCsi(v, c) = [v EXCEPT !.params = <<d>>]
      BY <1>3, <2>2 DEF InCsi, d
    <3>2. <<d>> \in Seq(Nat) /\ Len(<<d>>) = 1
      BY <2>1 DEF d
    <3>3. Len(<<d>>) <= PARAMS
      BY <1>0, <3>2
    <3> QED BY <1>2, <3>1, <3>2, <3>3
  <2>3. CASE v.params # <<>>
    <3> DEFINE n == Len(v.params)
               x == Lesser(v.params[n] * 10 + d, MaxParam)
               ps == [v.params EXCEPT ![n] = x]
    <3>1. InCsi(v, c) = [v EXCEPT !.params[Len(v.params)] = Lesser(v.params[Len(v.params)] * 10 + d, MaxParam)]
      BY <1>3, <2>3 DEF InCsi, d
    <3>2. InCsi(v, c) = [v EXCEPT !.params = ps]
      BY <3>1
    <3>3. v.params \in Seq(Nat) /\ n \in 1 .. n
      BY <1>0, <2>3 DEF Parsing
    <3>4. x \in Nat
      BY <2>1, <3>3 DEF Lesser, MaxParam, d
    <3> HIDE DEF x
    <3>5. ps \in Seq(Nat) /\ Len(ps) = Len(v.params)
      BY <3>3, <3>4
    <3>6. Len(ps) <= PARAMS
      BY <1>0, <3>5 DEF Parsing
    <3> HIDE DEF ps
    <3> QED BY <1>2, <3>2, <3>5, <3>6
  <2> QED BY <2>2, <2>3
<1>4. CASE c \notin {"?", "<", "=", ">"} /\ c \notin DOMAIN Digits /\ c = ";"
  <2>1. CASE Len(v.params) < PARAMS
    <3> DEFINE zero == 0
               ps == Append(v.params, zero)
    <3>1. InCsi(v, c) = [v EXCEPT !.params = ps]
      BY <1>4, <2>1 DEF InCsi
    <3>2. zero \in Nat /\ v.params \in Seq(Nat)
      BY <1>0 DEF Parsing
    <3> HIDE DEF zero
    <3>3. ps \in Seq(Nat) /\ Len(ps) = Len(v.params) + 1
      BY <3>2
    <3>4. Len(ps) <= PARAMS
      BY <1>0, <2>1, <3>2, <3>3
    <3> HIDE DEF ps
    <3> QED BY <1>2, <3>1, <3>3, <3>4
  <2>2. CASE ~(Len(v.params) < PARAMS)
    <3>1. InCsi(v, c) = v
      BY <1>4, <2>2 DEF InCsi
    <3>2. Reads(v, v)
      BY <1>0 DEF Reads, Frame, Picture, Pens
    <3> QED BY <1>0, <3>1, <3>2, ReadsGoad
  <2> QED BY <2>1, <2>2
<1>5. CASE c \notin {"?", "<", "=", ">"} /\ c \notin DOMAIN Digits /\ c # ";"
  <2>1. InCsi(v, c) = Final(v, c)
    BY <1>5 DEF InCsi
  <2> QED BY <2>1, FinalGoads
<1> QED BY <1>1, <1>3, <1>4, <1>5

LEMMA EscapedGoads ==
  ASSUME NEW v, Whole(v), NEW c PROVE Goads(v, Escaped(v, c), c)
<1>0. Good(v) /\ IsScreen(v) /\ Parsing(v) /\ v.escape \in Sequencing
  BY DEF Whole, Good, Sound, Parsing
<1>1. CASE v.escape = "plain"
  <2> DEFINE e == "after"
             w == [v EXCEPT !.escape = e]
  <2>1. Escaped(v, c) = w
    BY <1>1 DEF Escaped
  <2>2. e \in Sequencing
    BY DEF Sequencing
  <2> HIDE DEF e
  <2>3. Reads(v, w) /\ w.params = v.params /\ w.escape = e
    BY <1>0 DEF IsScreen, Fields, Reads, Frame, Picture, Pens
  <2> HIDE DEF w
  <2>4. Parsing(w)
    BY <1>0, <2>2, <2>3 DEF Parsing
  <2> QED BY <2>1, <2>3, <2>4, ReadsGoad
<1>2. CASE v.escape = "after"
  <2>1. Escaped(v, c) = AfterEsc(v, c)
    BY <1>2 DEF Escaped
  <2> QED BY <2>1, AfterEscGoads
<1>3. CASE v.escape = "charset"
  <2> DEFINE e == "plain"
             gs == [v.graphics EXCEPT ![IF v.g1 THEN 2 ELSE 1] = c = "0"]
             w == [v EXCEPT !.escape = e, !.graphics = gs]
  <2>1. Escaped(v, c) = w
    BY <1>0, <1>3 DEF Escaped, IsScreen, Fields
  <2>2. e \in Sequencing
    BY DEF Sequencing
  <2> HIDE DEF e, gs
  <2>3. Reads(v, w) /\ w.params = v.params /\ w.escape = e
    BY ZenonT(60), <1>0 DEF IsScreen, Fields, Reads, Frame, Picture, Pens
  <2> HIDE DEF w
  <2>4. Parsing(w)
    BY <1>0, <2>2, <2>3 DEF Parsing
  <2> QED BY <2>1, <2>3, <2>4, ReadsGoad
<1>4. CASE v.escape = "osc"
  <2>1. Escaped(v, c) = InOsc(v, c)
    BY <1>4 DEF Escaped
  <2> QED BY <1>4, <2>1, InOscGoads
<1>5. CASE v.escape = "csi"
  <2>1. Escaped(v, c) = InCsi(v, c)
    BY <1>5 DEF Escaped
  <2> QED BY <1>5, <2>1, InCsiGoads
<1> QED BY <1>0, <1>1, <1>2, <1>3, <1>4, <1>5 DEF Sequencing

LEMMA MovedWhole ==
  ASSUME NEW v, Whole(v), NEW w, NEW c, Goads(v, w, c)
  PROVE  Whole(Moved(v, w)) /\ Frame(v, Moved(v, w))
<1>0. Good(v) /\ Good(w) /\ Frame(v, w) /\ WrapTrue(w) /\ (Marked(w, {v.cursor}) \/ Marked(w, {w.cursor}))
  BY DEF Whole, Goads
<1>1. CASE w.cursor = v.cursor
  <2>1. Moved(v, w) = w
    BY <1>1 DEF Moved
  <2>2. Marked(w, {w.cursor})
    BY <1>0, <1>1
  <2> QED BY <1>0, <2>1, <2>2 DEF Whole
<1>2. CASE w.cursor # v.cursor
  <2> DEFINE was == v.cursor
             now == w.cursor
             a == [w EXCEPT !.cursor = was]
             b == CursorDraw(a, FALSE)
             d == [b EXCEPT !.cursor = now]
             x == CursorDraw(d, TRUE)
             M == {was, now}
  <2>1. Moved(v, w) = x
    BY <1>2 DEF Moved
  <2>2. was \in Cells(w) /\ now \in Cells(w)
    BY <1>0 DEF Good, Placed, Cells, Frame
  <2>3. Marked(w, M)
    BY <1>0 DEF Marked
  <2>4. Keeps(w, a) /\ a.cursor = was /\ a.wrap = w.wrap
    <3> HIDE DEF was
    <3> QED BY <1>0, <2>2, CursorTo
  <2> HIDE DEF a
  <2>5. Good(a) /\ Marked(a, M) /\ Frame(w, a)
    BY <2>3, <2>4 DEF Keeps
  <2> HIDE DEF M
  <2>6. Keeps(a, b) /\ Rest(a, b) /\ Marked(b, M \ {a.cursor})
    BY <2>5, BarOff
  <2> HIDE DEF b
  <2>7. Good(b) /\ Frame(w, b) /\ b.wrap = w.wrap /\ now \in Cells(b) /\ Marked(b, {now})
    <3>1. Good(b) /\ Frame(w, b) /\ b.wrap = w.wrap
      BY <2>4, <2>5, <2>6 DEF Keeps, Frame, Rest
    <3>2. now \in Cells(b)
      BY <2>2, <3>1 DEF Cells, Frame
    <3>3. M \ {a.cursor} \subseteq {now}
      BY <2>4 DEF M
    <3> HIDE DEF now
    <3>4. Marked(b, {now})
      BY <2>6, <3>3 DEF Marked
    <3> QED BY <3>1, <3>2, <3>4
  <2>8. Keeps(b, d) /\ d.cursor = now /\ d.wrap = b.wrap
    <3> HIDE DEF now
    <3> QED BY <2>7, CursorTo
  <2> HIDE DEF d
  <2>9. Good(d) /\ Frame(w, d) /\ Marked(d, {now})
    BY <2>7, <2>8 DEF Keeps, Frame
  <2>10. Good(x) /\ Frame(d, x) /\ Rest(d, x) /\ Marked(x, {now} \cup {d.cursor})
    <3> HIDE DEF now
    <3> QED BY <2>9, BarOn
  <2> HIDE DEF x
  <2>11. x.cursor = w.cursor /\ x.wrap = w.wrap /\ Frame(w, x) /\ {now} \cup {d.cursor} = {x.cursor}
    BY <2>7, <2>8, <2>9, <2>10 DEF Rest, Frame
  <2>12. WrapTrue(x)
    BY <1>0, <2>11 DEF WrapTrue, RowStart, Column, Frame
  <2>13. Frame(v, x)
    BY <1>0, <2>11 DEF Frame
  <2> QED BY <2>1, <2>10, <2>11, <2>12, <2>13 DEF Whole
<1> QED BY <1>1, <1>2

----------------------------------------------------------------------------
(* Printing.                                                               *)

\* The cursor put somewhere, and the wrap let go of.
LEMMA PlainlyTo ==
  ASSUME NEW v, Good(v), NEW c \in Cells(v)
  PROVE  LET w == [v EXCEPT !.cursor = c, !.wrap = FALSE] IN Keeps(v, w) /\ ~w.wrap
<1> DEFINE x == [v EXCEPT !.cursor = c]
           w == [x EXCEPT !.wrap = FALSE]
<1>1. [v EXCEPT !.cursor = c, !.wrap = FALSE] = w
  BY DEF Good, Sound, IsScreen
<1>2. Keeps(v, x)
  BY CursorTo
<1> HIDE DEF x
<1>3. Keeps(x, w) /\ ~w.wrap
  BY <1>2, NoWrap DEF Keeps
<1> HIDE DEF w
<1>4. Keeps(v, w) /\ ~w.wrap
  BY <1>2, <1>3, KeepsOn
<1> QED BY <1>1, <1>4

LEMMA WrapNowKeeps ==
  ASSUME NEW v, Good(v) PROVE Keeps(v, WrapNow(v)) /\ ~WrapNow(v).wrap
<1>1. CASE ~v.wrap
  BY <1>1, KeepsSame DEF WrapNow
<1>2. CASE v.wrap
  <2> DEFINE s == RowStart(v)
             x == [v EXCEPT !.cursor = s]
             u == LineFeed(x)
             w == [u EXCEPT !.wrap = FALSE]
  <2>1. WrapNow(v) = w
    BY <1>2 DEF WrapNow
  <2>2. s \in Cells(v)
    BY RowStartOn
  <2> HIDE DEF s
  <2>3. Keeps(v, x)
    BY <2>2, CursorTo
  <2> HIDE DEF x
  <2>4. Keeps(v, u)
    BY <2>3, FeedKeeps, KeepsOn DEF Keeps
  <2> HIDE DEF u
  <2>5. Keeps(u, w) /\ ~w.wrap
    BY <2>4, NoWrap DEF Keeps
  <2> HIDE DEF w
  <2> QED BY <2>1, <2>4, <2>5, KeepsOn
<1> QED BY <1>1, <1>2

LEMMA GlyphKeeps ==
  ASSUME NEW v, Good(v), NEW c
  PROVE  LET w == Glyph(v, c)[2] IN Keeps(v, w) /\ w.wrap = v.wrap
<1> DEFINE w == Glyph(v, c)[2]
           u == w.utf8
           x == [v EXCEPT !.utf8 = u]
<1>1. w = x
  <2>1. CASE c \in DOMAIN LeadBytes
    BY <2>1 DEF Glyph, Good, Sound, IsScreen, Fields
  <2>2. CASE c \notin DOMAIN LeadBytes /\ c = "cont" /\ v.utf8 = 0
    BY <2>2 DEF Glyph, Good, Sound, IsScreen, Fields
  <2>3. CASE c \notin DOMAIN LeadBytes /\ c = "cont" /\ v.utf8 # 0
    BY <2>3 DEF Glyph, Good, Sound, IsScreen, Fields
  <2>4. CASE c \notin DOMAIN LeadBytes /\ c # "cont"
    BY <2>4 DEF Glyph, Good, Sound, IsScreen, Fields
  <2> QED BY <2>1, <2>2, <2>3, <2>4
<1> HIDE DEF u
<1>2. Reads(v, x) /\ x.params = v.params /\ x.escape = v.escape
  BY DEF Good, Sound, IsScreen, Fields, Reads, Frame, Picture, Pens
<1> HIDE DEF x
<1>3. Keeps(v, x)
  BY <1>2, ReadsKeep DEF Good, Sound, Parsing
<1> HIDE DEF w
<1> QED BY <1>1, <1>2, <1>3 DEF Reads, w

\* A screen printed on, on which no cursor is drawn.
Prints(v, w) == Good(w) /\ Frame(v, w) /\ WrapTrue(w) /\ \A M : Marked(v, M) => Marked(w, M)

LEMMA PrintsKept == ASSUME NEW v, NEW w, Keeps(v, w), ~w.wrap PROVE Prints(v, w)
BY DEF Keeps, Prints, WrapTrue

LEMMA TextPrints == ASSUME NEW v, Good(v), NEW c PROVE Prints(v, Text(v, c))
<1> DEFINE a == WrapNow(v)
           g == Glyph(a, c)[1]
           w == Glyph(a, c)[2]
           opened == IF w.inserting THEN ShiftLine(w, TRUE, 1) ELSE w
           put == Put(opened, [i \in {opened.cursor} |-> Cell(opened, g)])
           yes == TRUE
           one == 1
           ended == [put EXCEPT !.wrap = yes]
           on == put.cursor + 1
           next == [put EXCEPT !.cursor = on]
<1>1. Text(v, c) = IF g = None THEN w ELSE IF Column(put) = put.width - 1 THEN ended ELSE next
  BY DEF Text
<1>2. Keeps(v, a) /\ ~a.wrap
  BY WrapNowKeeps
<1> HIDE DEF a
<1>3. Keeps(a, w) /\ w.wrap = a.wrap
  BY <1>2, GlyphKeeps DEF Keeps
<1>4. Keeps(v, w) /\ ~w.wrap
  BY <1>2, <1>3, KeepsOn
<1> HIDE DEF w, g
<1>5. Keeps(w, opened) /\ ~opened.wrap
  <2>1. opened = IF w.inserting THEN ShiftLine(w, yes, one) ELSE w
    OBVIOUS
  <2> HIDE DEF yes, one, opened
  <2>2. CASE w.inserting
    <3>1. Keeps(w, ShiftLine(w, yes, one)) /\ Rest(w, ShiftLine(w, yes, one))
      BY <1>4, ShiftKeeps DEF Keeps
    <3> QED BY <1>4, <2>1, <2>2, <3>1 DEF Rest
  <2>3. CASE ~w.inserting
    BY <1>4, <2>1, <2>3, KeepsSame DEF Keeps
  <2> QED BY <2>2, <2>3
<1>6. Keeps(v, opened)
  BY <1>4, <1>5, KeepsOn
<1> HIDE DEF opened
<1>7. Keeps(v, put) /\ ~put.wrap
  <2> DEFINE f == [i \in {opened.cursor} |-> Cell(opened, g)]
  <2> HIDE DEF f
  <2>1. Keeps(opened, Put(opened, f)) /\ Rest(opened, Put(opened, f))
    BY <1>6, PutKeeps DEF Keeps
  <2>2. Keeps(v, Put(opened, f)) /\ ~Put(opened, f).wrap
    BY <1>5, <1>6, <2>1, KeepsOn DEF Rest
  <2> QED BY <2>2 DEF f
<1> HIDE DEF put
<1>8. Good(put) /\ Frame(v, put) /\ \A M : Marked(v, M) => Marked(put, M)
  BY <1>7 DEF Keeps
<1>9. CASE g = None
  <2>1. Text(v, c) = w
    BY <1>1, <1>9
  <2> QED BY <1>4, <2>1, PrintsKept
<1>10. CASE g # None /\ Column(put) = put.width - 1
  <2>1. Text(v, c) = ended
    BY <1>1, <1>10
  <2> HIDE DEF yes
  <2>2. IsScreen(ended) /\ Frame(put, ended) /\ Picture(put, ended) /\ Pens(put, ended) /\ ended.cursor = put.cursor
        /\ ended.shown = put.shown /\ ended.top = put.top /\ ended.bottom = put.bottom /\ ended.params = put.params
        /\ ended.escape = put.escape
    BY SMTT(60), <1>8 DEF Good, Sound, IsScreen, Fields, Frame, Picture, Pens
  <2> HIDE DEF ended
  <2>3. Inked(ended) /\ Parsing(ended) /\ Region(ended) /\ ended.cursor \in Cells(put)
    BY <1>8, <2>2 DEF Good, Sound, Inked, Parsing, Region, Pens, Frame, Placed
  <2>4. Good(ended) /\ \A M : Marked(put, M) => Marked(ended, M)
    BY <1>8, <2>2, <2>3, Restated
  <2>5. WrapTrue(ended)
    <3>1. RowStart(ended) = RowStart(put) /\ ended.width = put.width /\ ended.cursor = put.cursor
      BY <2>2 DEF RowStart, Column, Frame
    <3>2. put.cursor = RowStart(put) + Column(put) /\ RowStart(put) \in Nat /\ Column(put) \in Nat /\ put.width \in Nat
      BY <1>8, Where
    <3>3. put.cursor = RowStart(put) + put.width - 1
      BY <1>10, <3>2
    <3> QED BY <3>1, <3>3 DEF WrapTrue
  <2>6. Frame(v, ended)
    BY <1>8, <2>2 DEF Frame
  <2> QED BY <1>8, <2>1, <2>4, <2>5, <2>6 DEF Prints
<1>11. CASE g # None /\ Column(put) # put.width - 1
  <2>1. Text(v, c) = next
    BY <1>1, <1>11
  <2>2. on \in Cells(put)
    <3> DEFINE r == RowOf(put)
               k == Column(put) + 1
    <3>1. r \in Nat /\ r < put.rows /\ k \in Nat /\ k < put.width
      <4> DEFINE col == Column(put)
      <4>1. r \in Nat /\ r < put.rows /\ col \in Nat /\ col < put.width /\ put.width \in Nat /\ col # put.width - 1
        BY <1>8, <1>11, Where
      <4>2. k = col + 1
        OBVIOUS
      <4> HIDE DEF r, k, col
      <4> QED BY <4>1, <4>2
    <3>2. on = r * put.width + k
      <4> DEFINE n == r * put.width
      <4>1. n \in Nat /\ put.cursor = n + Column(put) /\ Column(put) \in Nat
        BY <1>8, Where
      <4> HIDE DEF n
      <4>2. on = n + k
        BY <4>1
      <4> QED BY <4>2 DEF n
    <3> HIDE DEF r, k
    <3>3. r * put.width + k \in Cells(put)
      BY <1>8, <3>1, PlaceOn
    <3> HIDE DEF on
    <3> QED BY <3>2, <3>3
  <2> HIDE DEF on
  <2>3. Keeps(put, next) /\ next.wrap = put.wrap
    BY <1>8, <2>2, CursorTo
  <2> HIDE DEF next
  <2> QED BY <1>7, <2>1, <2>3, KeepsOn, PrintsKept
<1> QED BY <1>9, <1>10, <1>11

LEMMA TypedPrints == ASSUME NEW v, Good(v), WrapTrue(v), NEW c PROVE Prints(v, Typed(v, c))
<1> DEFINE no == FALSE
<1>1. CASE c = "LF"
  <2> DEFINE to == IF v.crlf THEN RowStart(v) ELSE v.cursor
             x == [v EXCEPT !.cursor = to, !.wrap = no]
  <2>1. Typed(v, c) = LineFeed(x)
    BY <1>1 DEF Typed, Controls
  <2>2. to \in Cells(v)
    BY RowStartOn DEF Good, Placed
  <2> HIDE DEF to
  <2>3. Keeps(v, x) /\ ~x.wrap
    BY <2>2, PlainlyTo
  <2> HIDE DEF x
  <2>4. Keeps(v, LineFeed(x)) /\ ~LineFeed(x).wrap
    BY <2>3, FeedKeeps, KeepsOn DEF Keeps
  <2> QED BY <2>1, <2>4, PrintsKept
<1>2. ASSUME NEW to \in Cells(v), Typed(v, c) = [v EXCEPT !.cursor = to, !.wrap = no] PROVE Prints(v, Typed(v, c))
  <2> DEFINE x == [v EXCEPT !.cursor = to, !.wrap = no]
  <2>1. Keeps(v, x) /\ ~x.wrap
    BY PlainlyTo
  <2>2. Typed(v, c) = x
    BY <1>2
  <2> HIDE DEF x
  <2> QED BY <2>1, <2>2, PrintsKept
<1>3. CASE c = "CR"
  <2>1. Typed(v, c) = [v EXCEPT !.cursor = RowStart(v), !.wrap = no]
    BY <1>3 DEF Typed, Controls
  <2> HIDE DEF no
  <2> QED BY <1>2, <2>1, RowStartOn
<1>4. CASE c = "BS"
  <2> DEFINE to == IF Column(v) > 0 /\ ~v.wrap THEN v.cursor - 1 ELSE v.cursor
  <2>1. Typed(v, c) = [v EXCEPT !.cursor = to, !.wrap = no]
    BY <1>4 DEF Typed, Controls
  <2>2. to \in Cells(v)
    <3>1. CASE Column(v) > 0 /\ ~v.wrap
      <4> DEFINE n == RowOf(v) * v.width
                 m == v.width * v.rows
      <4>1. n \in Nat /\ v.cursor = n + Column(v) /\ Column(v) \in Nat /\ m \in Nat
        BY Where
      <4>2. Cells(v) = 0 .. m - 1 /\ v.cursor \in Cells(v)
        BY DEF Cells, Good, Placed
      <4> HIDE DEF n, m
      <4> QED BY <3>1, <4>1, <4>2
    <3>2. CASE ~(Column(v) > 0 /\ ~v.wrap)
      BY <3>2 DEF Good, Placed
    <3> QED BY <3>1, <3>2
  <2> HIDE DEF to, no
  <2> QED BY <1>2, <2>1, <2>2
<1>5. CASE c = "TAB"
  <2> DEFINE t == setup.TAB
             stop == (v.cursor \div t + 1) * t
             end == RowStart(v) + v.width - 1
             to == Lesser(stop, end)
  <2>1. Typed(v, c) = [v EXCEPT !.cursor = to, !.wrap = no]
    BY <1>5 DEF Typed, Controls
  <2>2. stop \in Nat
    <3>1. v.cursor \in Nat /\ t \in Nat \ {0}
      BY Where, SetupTrue DEF Good, Sound
    <3> DEFINE q == v.cursor \div t
    <3>2. q \in Nat
      <4> HIDE DEF t
      <4> QED BY <3>1, DivMod
    <3> HIDE DEF q, t
    <3>3. (q + 1) * t \in Nat
      BY <3>1, <3>2
    <3> QED BY <3>3 DEF q
  <2>3. end \in Cells(v) /\ end \in Nat
    <3> DEFINE r == RowOf(v)
               k == v.width - 1
    <3>1. r * v.width + k \in Cells(v)
      BY Where, PlaceOn
    <3> DEFINE n == r * v.width
    <3>2. RowStart(v) = n /\ n \in Nat /\ v.width \in Nat \ {0}
      BY Where
    <3> HIDE DEF n
    <3>3. end = n + k /\ end \in Nat
      BY <3>2
    <3> HIDE DEF end
    <3> QED BY <3>1, <3>3 DEF n
  <2>4. to \in Cells(v)
    <3> HIDE DEF stop, end
    <3> DEFINE m == v.width * v.rows
    <3>1. m \in Nat /\ Cells(v) = 0 .. m - 1
      BY Where DEF Cells
    <3> HIDE DEF m
    <3> QED BY <2>2, <2>3, <3>1 DEF Lesser
  <2> HIDE DEF to, no
  <2> QED BY <1>2, <2>1, <2>4
<1>6. CASE c \in {"SO", "SI"}
  <2> DEFINE b == c = "SO"
             x == [v EXCEPT !.shifted = b]
  <2>1. Typed(v, c) = x
    BY <1>6 DEF Typed, Controls
  <2> HIDE DEF b
  <2>2. Reads(v, x) /\ x.params = v.params /\ x.escape = v.escape
    BY DEF Good, Sound, IsScreen, Fields, Reads, Frame, Picture, Pens
  <2> HIDE DEF x
  <2>3. Keeps(v, x)
    BY <2>2, ReadsKeep DEF Good, Sound, Parsing
  <2>4. WrapTrue(x)
    BY <2>2 DEF WrapTrue, RowStart, Column, Reads, Frame
  <2> QED BY <2>1, <2>3, <2>4 DEF Keeps, Prints
<1>7. CASE c \in Controls
  <2>1. Typed(v, c) = v
    BY <1>7 DEF Typed, Controls
  <2> QED BY <2>1 DEF Prints, Frame
<1>8. CASE c \notin {"LF", "CR", "BS", "TAB", "SO", "SI"} /\ c \notin Controls
  <2>1. Typed(v, c) = Text(v, c)
    BY <1>8 DEF Typed, Controls
  <2> QED BY <2>1, TextPrints
<1> QED BY <1>1, <1>3, <1>4, <1>5, <1>6, <1>7, <1>8

LEMMA WholeKept ==
  ASSUME NEW v, Whole(v), NEW w, Keeps(v, w), w.cursor = v.cursor
  PROVE  Whole(w) /\ Frame(v, w)
<1>1. Good(w) /\ Frame(v, w) /\ Marked(w, {w.cursor}) /\ (w.wrap => v.wrap) /\ WrapTrue(v)
  BY DEF Whole, Keeps
<1>2. WrapTrue(w)
  BY <1>1 DEF WrapTrue, RowStart, Column, Frame
<1> QED BY <1>1, <1>2 DEF Whole

\* The bar taken away, the screen printed on, and the bar drawn where the cursor is then.
LEMMA BarWith ==
  ASSUME NEW v, Whole(v), NEW w, Prints(CursorDraw(v, FALSE), w)
  PROVE  LET x == CursorDraw(w, TRUE) IN Whole(x) /\ Frame(v, x)
<1> DEFINE a == CursorDraw(v, FALSE)
           x == CursorDraw(w, TRUE)
           no == v.cursor
<1>1. Keeps(v, a) /\ Marked(a, {no} \ {no})
  BY BarOff DEF Whole
<1>2. Prints(a, w)
  OBVIOUS
<1> HIDE DEF a, no
<1>3. {no} \ {no} = {}
  OBVIOUS
<1>4. Good(w) /\ Frame(v, w) /\ WrapTrue(w) /\ Marked(w, {})
  BY <1>1, <1>2, <1>3 DEF Prints, Keeps, Frame
<1>5. Good(x) /\ Frame(w, x) /\ Rest(w, x) /\ Marked(x, {} \cup {w.cursor})
  BY <1>4, BarOn
<1> HIDE DEF x
<1>6. {} \cup {w.cursor} = {x.cursor}
  BY <1>5 DEF Rest
<1>7. WrapTrue(x) /\ Frame(v, x)
  BY <1>4, <1>5 DEF WrapTrue, RowStart, Column, Frame, Rest
<1>8. Whole(x) /\ Frame(v, x)
  BY <1>5, <1>6, <1>7 DEF Whole
<1> QED BY <1>8 DEF x

LEMMA PutcWhole ==
  ASSUME NEW v, Whole(v), NEW c, v.captureMax > 0 => c \notin Movers
  PROVE  Whole(Putc(v, c)) /\ Frame(v, Putc(v, c))
<1>1. CASE v.captureMax > 0 /\ Escapes(v, c)
  <2> DEFINE w == Escaped(v, c)
  <2>1. Putc(v, c) = w
    BY <1>1 DEF Putc, Captured
  <2>2. Goads(v, w, c)
    BY EscapedGoads
  <2> HIDE DEF w
  <2> QED BY <1>1, <2>1, <2>2 DEF Goads, Whole
<1>2. CASE v.captureMax > 0 /\ ~Escapes(v, c)
  <2> DEFINE t == Captured(v, c).capture
             w == [v EXCEPT !.capture = t]
  <2>0. IsScreen(v) /\ Good(v)
    BY DEF Whole, Good, Sound
  <2>1. Putc(v, c) = w
    <3>1. Putc(v, c) = Captured(v, c)
      BY <1>2 DEF Putc
    <3>2. CASE Len(v.capture) + 1 < v.captureMax
      <4>1. Captured(v, c) = [v EXCEPT !.capture = Append(v.capture, c)]
        BY <1>2, <3>2 DEF Captured
      <4>2. Captured(v, c).capture = Append(v.capture, c)
        BY <2>0, <4>1 DEF IsScreen, Fields
      <4> QED BY <3>1, <4>1, <4>2
    <3>3. CASE ~(Len(v.capture) + 1 < v.captureMax)
      <4>1. Captured(v, c) = v
        BY <1>2, <3>3 DEF Captured
      <4> QED BY <2>0, <3>1, <4>1 DEF IsScreen, Fields
    <3> QED BY <3>2, <3>3
  <2> HIDE DEF t
  <2>2. IsScreen(w) /\ Frame(v, w) /\ Rest(v, w) /\ Picture(v, w)
    BY <2>0 DEF IsScreen, Fields, Frame, Rest, Picture, Pens
  <2> HIDE DEF w
  <2>3. Keeps(v, w) /\ w.cursor = v.cursor
    BY <2>0, <2>2, Alike DEF Rest
  <2> QED BY <2>1, <2>3, WholeKept
<1>3. CASE ~(v.captureMax > 0) /\ Escapes(v, c)
  <2>1. Putc(v, c) = Moved(v, Escaped(v, c))
    BY <1>3 DEF Putc
  <2> QED BY <2>1, EscapedGoads, MovedWhole
<1>4. CASE ~(v.captureMax > 0) /\ ~Escapes(v, c)
  <2> DEFINE a == CursorDraw(v, FALSE)
             w == Typed(a, c)
  <2>1. Putc(v, c) = CursorDraw(w, TRUE)
    BY <1>4 DEF Putc
  <2>2. Good(a) /\ WrapTrue(a)
    <3>1. Keeps(v, a) /\ Rest(v, a)
      BY BarOff DEF Whole
    <3> HIDE DEF a
    <3> QED BY <3>1, WholeKept DEF Rest, Whole, Keeps
  <2>3. Prints(a, w)
    <3> HIDE DEF a
    <3> QED BY <2>2, TypedPrints
  <2> HIDE DEF w
  <2>4. Whole(CursorDraw(w, TRUE)) /\ Frame(v, CursorDraw(w, TRUE))
    BY <2>3, BarWith
  <2> QED BY <2>1, <2>4, Zenon
<1> QED BY <1>1, <1>2, <1>3, <1>4

\* Text that leaves the bar of the cursor where it belongs when it is captured.
Calmly(v, text) == Len(text) \in Nat /\ \A k \in 1 .. Len(text) : v.captureMax > 0 => text[k] \notin Movers

LEMMA PutsWhole ==
  ASSUME NEW v, Whole(v), NEW text, Calmly(v, text)
  PROVE  Whole(Puts(v, text)) /\ Frame(v, Puts(v, text))
<1> DEFINE N == Len(text)
           Next1(u, k) == Putc(u, text[k])
           Part(g) == g = [k \in 0 .. N |-> IF k = 0 THEN v ELSE Next1(g[k - 1], k)]
           put == CHOOSE g : Part(g)
           Fine(u) == Whole(u) /\ Frame(v, u)
<1>1. N \in Nat
  BY DEF Calmly
<1>2. Puts(v, text) = put[N]
  BY DEF Puts
<1>3. Fine(v)
  BY DEF Frame
<1>4. ASSUME NEW u, Fine(u), NEW k \in 1 .. N PROVE Fine(Next1(u, k))
  <2>1. u.captureMax > 0 => text[k] \notin Movers
    BY <1>4 DEF Calmly, Frame
  <2> DEFINE c == text[k]
  <2> HIDE DEF c
  <2>2. Whole(Putc(u, c)) /\ Frame(u, Putc(u, c))
    BY <1>4, <2>1, PutcWhole DEF c
  <2>3. Frame(v, Putc(u, c))
    BY <1>4, <2>2 DEF Frame
  <2> QED BY <2>2, <2>3 DEF c
<1> HIDE DEF N, Next1, Fine
<1>5. \E g : Part(g)
  <2> DEFINE Is(g, m) == g = [k \in 0 .. m |-> IF k = 0 THEN v ELSE Next1(g[k - 1], k)]
             S == {m \in 0 .. N : \E g : Is(g, m)}
  <2>1. 0 \in S
    <3>1. Is([k \in 0 .. 0 |-> v], 0)
      OBVIOUS
    <3> HIDE DEF Is
    <3> QED BY <1>1, <3>1
  <2>2. ASSUME NEW m \in 1 .. N, m - 1 \in S PROVE m \in S
    <3>1. PICK g : Is(g, m - 1)
      BY <2>2
    <3> DEFINE h == [k \in 0 .. m |-> IF k <= m - 1 THEN g[k] ELSE Next1(g[m - 1], m)]
    <3>2. ASSUME NEW k \in 0 .. m PROVE h[k] = IF k = 0 THEN v ELSE Next1(h[k - 1], k)
      <4>1. CASE k = 0
        BY <1>1, <3>1, <4>1
      <4>2. CASE k # 0 /\ k <= m - 1
        <5>1. k \in 0 .. m - 1 /\ k - 1 \in 0 .. m - 1 /\ k - 1 \in 0 .. m
          BY <1>1, <4>2
        <5>2. h[k] = g[k] /\ h[k - 1] = g[k - 1]
          BY <1>1, <5>1
        <5>3. g[k] = Next1(g[k - 1], k)
          BY <3>1, <4>2, <5>1
        <5> HIDE DEF h
        <5> QED BY <4>2, <5>2, <5>3
      <4>3. CASE k # 0 /\ k = m
        <5>1. h[m] = Next1(g[m - 1], m) /\ h[m - 1] = g[m - 1]
          BY <1>1
        <5> HIDE DEF h
        <5> QED BY <4>3, <5>1
      <4> QED BY <1>1, <4>1, <4>2, <4>3
    <3>3. h = [k \in 0 .. m |-> h[k]]
      OBVIOUS
    <3> HIDE DEF h
    <3>4. Is(h, m)
      BY <3>2, <3>3
    <3> HIDE DEF Is
    <3> QED BY <3>4
  <2>3. N \in S
    <3>1. Climbs(S, N)
      <4> HIDE DEF S
      <4> QED BY <2>1, <2>2 DEF Climbs
    <3> HIDE DEF S
    <3> QED BY <1>1, <3>1, Climbing
  <2>4. PICK g : Is(g, N)
    BY <2>3
  <2>5. Part(g)
    BY <2>4
  <2> HIDE DEF Part
  <2> QED BY <2>5
<1>6. Part(put)
  <2> HIDE DEF Part
  <2> QED BY <1>5
<1> HIDE DEF put
<1> DEFINE R == {k \in 0 .. N : Fine(put[k])}
<1>7. Climbs(R, N)
  <2>1. 0 \in R
    BY <1>1, <1>3, <1>6
  <2>2. ASSUME NEW k \in 1 .. N, k - 1 \in R PROVE k \in R
    <3>1. Fine(put[k - 1]) /\ put[k] = Next1(put[k - 1], k) /\ k \in 0 .. N
      BY <1>1, <1>6, <2>2
    <3> QED BY <1>4, <3>1
  <2> HIDE DEF R
  <2> QED BY <2>1, <2>2 DEF Climbs
<1>8. Fine(put[N])
  <2>1. N \in R
    <3> HIDE DEF R
    <3> QED BY <1>1, <1>7, Climbing
  <2> QED BY <2>1
<1> QED BY <1>2, <1>8 DEF Fine

LEMMA AtWhole ==
  ASSUME NEW v, Whole(v) PROVE Whole(At(v)) /\ Frame(v, At(v))
<1>1. CASE ~v.wrap
  <2>1. At(v) = v
    BY <1>1 DEF At
  <2> QED BY <2>1 DEF Frame
<1>2. CASE v.wrap
  <2> DEFINE a == CursorDraw(v, FALSE)
             w == WrapNow(a)
  <2>1. At(v) = CursorDraw(w, TRUE)
    BY <1>2 DEF At
  <2>2. Good(a)
    BY BarOff DEF Whole, Keeps
  <2>3. Prints(a, w)
    <3> HIDE DEF a
    <3> QED BY <2>2, WrapNowKeeps, PrintsKept
  <2> HIDE DEF w
  <2>4. Whole(CursorDraw(w, TRUE)) /\ Frame(v, CursorDraw(w, TRUE))
    BY <2>3, BarWith
  <2> QED BY <2>1, <2>4, Zenon
<1> QED BY <1>1, <1>2

----------------------------------------------------------------------------
(* What is done to the screen.                                             *)

\* Another mode, size or font of a machine, or another use of it, with the grid as it is.
Fits(w) == w.width = w.fb[1] \div w.font[1] /\ w.rows = w.fb[2] \div w.font[2]
Laid(v, w) == w.laid = v.laid /\ w.width = v.width /\ w.rows = v.rows

LEMMA Twin ==
  ASSUME NEW v, Good(v), NEW w, IsScreen(w), Sized(w), Fits(w), Laid(v, w), Rest(v, w),
         w.screen = v.screen, w.picture = [i \in Cells(v) |-> w.picture[i]]
  PROVE  Good(w) /\ (WrapTrue(v) => WrapTrue(w))
<1>1. Cells(w) = Cells(v)
  BY DEF Cells, Laid
<1>2. Sound(w)
  BY DEF Good, Sound, Inked, Parsing, Rest, Pens
<1>3. Grid(w) /\ Placed(w) /\ Region(w)
  BY <1>1 DEF Good, Grid, Placed, Region, Rest, Laid, Fits
<1>4. WrapTrue(v) => WrapTrue(w)
  BY DEF WrapTrue, RowStart, Column, Rest, Laid
<1> QED BY <1>2, <1>3, <1>4 DEF Good

LEMMA FitSound ==
  ASSUME NEW v, Sound(v), NEW map
  PROVE  LET w == Fit(v, map)
         IN Sound(w) /\ Laid(v, w) /\ Rest(v, w) /\ Picture(v, w) /\ w.captureMax = v.captureMax /\ w.lent = v.lent
            /\ w.font = v.font /\ w.taken = v.taken /\ w.gopmode = v.gopmode
<1> DEFINE fb == IF v.want # <<0, 0>> /\ v.want[1] <= v.real[1] /\ v.want[2] <= v.real[2] /\ v.want # v.real /\ map
                 THEN v.want ELSE v.real
           w == [v EXCEPT !.fb = fb]
<1>1. Fit(v, map) = w
  BY DEF Fit
<1>2. fb \in Size
  BY DEF Sound, Sized
<1> HIDE DEF fb
<1>3. IsScreen(w) /\ w.fb = fb /\ Rest(v, w) /\ Picture(v, w) /\ Laid(v, w) /\ w.captureMax = v.captureMax
      /\ w.lent = v.lent /\ w.font = v.font /\ w.taken = v.taken /\ w.gopmode = v.gopmode /\ w.real = v.real /\ w.want = v.want
  BY DEF Sound, IsScreen, Fields, Rest, Picture, Pens, Laid
<1> HIDE DEF w
<1>4. Sound(w)
  BY <1>2, <1>3 DEF Sound, Sized, Inked, Parsing, Rest, Pens
<1> QED BY <1>1, <1>3, <1>4

LEMMA TakeSound ==
  ASSUME NEW v, Sound(v), NEW m \in DOMAIN setup.Modes
  PROVE  LET w == TakeScreen(v, m)
         IN Sound(w) /\ Laid(v, w) /\ Rest(v, w) /\ Picture(v, w) /\ w.captureMax = v.captureMax /\ w.lent = v.lent
            /\ w.font = v.font
<1> DEFINE r == setup.Modes[m]
           w == [v EXCEPT !.taken = m, !.real = r]
<1>1. TakeScreen(v, m) = w
  BY DEF TakeScreen
<1>2. r \in Size
  BY SetupTrue DEF Sound
<1> HIDE DEF r
<1>3. IsScreen(w) /\ w.real = r /\ w.taken = m /\ Rest(v, w) /\ Picture(v, w) /\ Laid(v, w) /\ w.captureMax = v.captureMax
      /\ w.lent = v.lent /\ w.font = v.font /\ w.gopmode = v.gopmode /\ w.fb = v.fb /\ w.want = v.want
  BY ZenonT(60) DEF Sound, IsScreen, Fields, Rest, Picture, Pens, Laid
<1> HIDE DEF w
<1>4. Sound(w)
  BY <1>2, <1>3 DEF Sound, Sized, Inked, Parsing, Rest, Pens
<1> QED BY <1>1, <1>3, <1>4

LEMMA LayoutUsable ==
  ASSUME NEW v, Sound(v), Usable(v), NEW memory, memory
  PROVE  Whole(Layout(v, memory)) /\ Layout(v, memory).captureMax = v.captureMax
<1>0. IsScreen(v) /\ Sized(v) /\ setup \in Setups
  BY DEF Sound
<1>1. Usable(v) /\ memory
  OBVIOUS
<1> DEFINE w == v.fb[1] \div v.font[1]
           h == v.fb[2] \div v.font[2]
           grid == [i \in 0 .. w * h - 1 |-> <<" ", <<Black, Black>>>>]
           shown == IF v.lent THEN [i \in 0 .. w * h - 1 |-> <<"theirs", Plain>>] ELSE grid
           none == {}
           no == FALSE
           yes == TRUE
           zero == 0
           x == [v EXCEPT !.width = w, !.rows = h, !.screen = grid, !.marks = none, !.top = zero, !.bottom = h,
                          !.picture = shown, !.wrap = no, !.laid = yes]
<1>2. Layout(v, memory) = Clear(x)
  BY <1>1 DEF Layout
<1>3. w \in Nat /\ w >= 1 /\ h \in Nat /\ h >= 2
  <2>1. v.fb[1] \in Nat /\ v.fb[2] \in Nat /\ v.font[1] \in Nat \ {0} /\ v.font[2] \in Nat \ {0}
    BY <1>0 DEF Sized, Size, FontSize
  <2>2. w \in Nat /\ h \in Nat
    BY <2>1, DivMod
  <2>3. w >= setup.MinCols /\ h >= setup.MinRows
    BY <1>1 DEF Usable
  <2> HIDE DEF w, h
  <2> QED BY <1>0, <2>2, <2>3, SetupTrue
<1>4. grid = [i \in 0 .. w * h - 1 |-> grid[i]] /\ shown = [i \in 0 .. w * h - 1 |-> shown[i]]
  OBVIOUS
<1>5. w = v.fb[1] \div v.font[1] /\ h = v.fb[2] \div v.font[2]
  OBVIOUS
<1> HIDE DEF w, h, grid, shown, none, no, yes, zero
<1>6. IsScreen(x)
  BY <1>0 DEF IsScreen
<1>7. x.width = w /\ x.rows = h /\ x.screen = grid /\ x.picture = shown /\ x.top = zero /\ x.bottom = h
  BY <1>0 DEF IsScreen, Fields
<1>8. x.wrap = no /\ x.laid = yes /\ x.fb = v.fb /\ x.font = v.font /\ x.lent = v.lent /\ x.captureMax = v.captureMax
  BY <1>0 DEF IsScreen, Fields
<1>9. x.taken = v.taken /\ x.gopmode = v.gopmode /\ x.real = v.real /\ x.want = v.want /\ x.params = v.params
      /\ x.escape = v.escape
  BY <1>0 DEF IsScreen, Fields
<1>10. Pens(v, x)
  BY <1>0 DEF IsScreen, Fields, Pens
<1> HIDE DEF x
<1>11. Sound(x)
  BY <1>0, <1>6, <1>8, <1>9, <1>10 DEF Sound, Sized, Inked, Parsing, Pens
<1>12. Grid(x)
  <2>1. Cells(x) = 0 .. w * h - 1
    BY <1>7 DEF Cells
  <2> QED BY SMTT(60), <1>3, <1>4, <1>5, <1>7, <1>8, <2>1 DEF Grid, yes
<1>13. Region(x)
  BY <1>3, <1>7 DEF Region, zero
<1> DEFINE y == Clear(x)
<1>14. Good(y) /\ Frame(x, y) /\ y.cursor = 0 /\ y.wrap = x.wrap /\ Marked(y, {0})
  BY <1>11, <1>12, <1>13, ClearMarks
<1> HIDE DEF y
<1>15. Whole(y) /\ y.captureMax = v.captureMax
  BY <1>8, <1>14 DEF Whole, WrapTrue, Frame
<1> QED BY <1>2, <1>15 DEF y

LEMMA LayoutWhole ==
  ASSUME NEW v, Sound(v), NEW memory, Layout(v, memory).laid
  PROVE  Whole(Layout(v, memory)) /\ Layout(v, memory).captureMax = v.captureMax
<1>1. Usable(v) /\ memory
  <2>1. SUFFICES ASSUME ~Usable(v) \/ ~memory PROVE FALSE
    OBVIOUS
  <2> DEFINE no == FALSE
             w == [v EXCEPT !.laid = no]
  <2>2. Layout(v, memory) = w
    BY <2>1 DEF Layout
  <2> HIDE DEF no
  <2>3. w.laid = no
    BY DEF Sound, IsScreen, Fields
  <2> HIDE DEF w
  <2> QED BY <2>2, <2>3 DEF no
<1> QED BY <1>1, LayoutUsable

\* The console as it is between steps.
Steady(v) == v.laid => Whole(v) /\ (v.captureMax > 0 => "capture" \in Does)

\* Where output is captured, nothing that is written can move the cursor: vga_putc then acts on sequences and
\* leaves the bar of the cursor behind (ConsoleMC, CaptureMoves), and a line editor's moves are such sequences.
Calm(s) ==
  "capture" \in s.Does => /\ "read" \notin s.Does /\ "signal" \notin s.Does
                          /\ \A text \in s.Writes : \A k \in 1 .. Len(text) : text[k] \notin Movers

LEMMA SteadyLaid ==
  ASSUME NEW v, NEW w, Steady(v), v.laid, Sound(w), w.captureMax = v.captureMax, NEW memory
  PROVE  Steady(Layout(w, memory))
BY LayoutWhole DEF Steady

LEMMA SteadyFrame ==
  ASSUME NEW v, NEW w, Steady(v), v.laid, Whole(w), w.captureMax = v.captureMax PROVE Steady(w)
BY DEF Steady

LEMMA SteadyKept ==
  ASSUME NEW v, NEW w, Steady(v), v.laid, Keeps(v, w), w.cursor = v.cursor PROVE Steady(w)
BY WholeKept DEF Steady, Frame

LEMMA WriteSteady ==
  ASSUME NEW v, Steady(v), v.laid, Calm(setup), NEW text \in setup.Writes PROVE Steady(Puts(v, text))
<1>1. Whole(v) /\ setup \in Setups /\ (v.captureMax > 0 => "capture" \in Does)
  BY DEF Steady, Whole, Good, Sound
<1>2. Calmly(v, text)
  <2>1. text \in Seq(STRING)
    BY <1>1, SetupTrue
  <2> QED BY <1>1, <2>1 DEF Calmly, Calm, Does
<1>3. Whole(Puts(v, text)) /\ Frame(v, Puts(v, text))
  BY <1>1, <1>2, PutsWhole
<1> DEFINE w == Puts(v, text)
<1> HIDE DEF w
<1>4. Whole(w) /\ Frame(v, w)
  BY <1>3 DEF w
<1>5. Steady(w)
  BY <1>4, SteadyFrame DEF Frame
<1> QED BY <1>5 DEF w

LEMMA ColorSteady ==
  ASSUME NEW v, Steady(v), v.laid, NEW c
  PROVE  Steady([v EXCEPT !.pen = c, !.color = c, !.reversed = FALSE])
<1> DEFINE no == FALSE
           w == [v EXCEPT !.pen = c, !.color = c, !.reversed = no]
<1>1. Good(v) /\ IsScreen(v)
  BY DEF Steady, Whole, Good, Sound
<1> HIDE DEF no
<1>2. IsScreen(w) /\ Frame(v, w) /\ Picture(v, w) /\ w.cursor = v.cursor /\ w.wrap = v.wrap /\ w.shown = v.shown
      /\ w.top = v.top /\ w.bottom = v.bottom /\ w.params = v.params /\ w.escape = v.escape /\ w.pen = c /\ w.color = c
      /\ w.reversed = no
  <2>1. IsScreen(w)
    BY <1>1 DEF IsScreen
  <2>2. Frame(v, w)
    BY <1>1 DEF IsScreen, Fields, Frame
  <2>3. Picture(v, w) /\ w.cursor = v.cursor /\ w.wrap = v.wrap /\ w.shown = v.shown
    BY <1>1 DEF IsScreen, Fields, Picture
  <2>4. w.top = v.top /\ w.bottom = v.bottom /\ w.params = v.params /\ w.escape = v.escape
    BY <1>1 DEF IsScreen, Fields
  <2>5. w.pen = c /\ w.color = c /\ w.reversed = no
    BY <1>1 DEF IsScreen, Fields
  <2> QED BY <2>1, <2>2, <2>3, <2>4, <2>5
<1> HIDE DEF w
<1>3. Inked(w) /\ Parsing(w) /\ Region(w) /\ w.cursor \in Cells(v)
  BY <1>1, <1>2 DEF Good, Sound, Inked, Parsing, Region, Frame, Placed, no
<1>4. Keeps(v, w)
  BY <1>1, <1>2, <1>3, Restated
<1>5. Steady(w)
  BY <1>2, <1>4, SteadyKept
<1> QED BY <1>5 DEF w, no

\* Pictures and marks of the screen as they were.
LEMMA TwinMarks ==
  ASSUME NEW v, NEW w, Rest(v, w), Picture(v, w), Showing(w) => Showing(v), Marked(v, {v.cursor})
  PROVE  Marked(w, {w.cursor})
BY DEF Marked, Rest, Picture

LEMMA CaptureSteady ==
  ASSUME NEW v, Steady(v), v.laid, NEW t, NEW max, max > 0 => "capture" \in Does
  PROVE  Steady([v EXCEPT !.capture = t, !.captureMax = max])
<1> DEFINE w == [v EXCEPT !.capture = t, !.captureMax = max]
<1>1. Whole(v) /\ Good(v) /\ IsScreen(v)
  BY DEF Steady, Whole, Good, Sound
<1>2. IsScreen(w) /\ Laid(v, w) /\ Rest(v, w) /\ Picture(v, w) /\ w.captureMax = max
  BY ZenonT(60), <1>1 DEF IsScreen, Fields, Laid, Rest, Pens, Picture
<1>3. w.taken = v.taken /\ w.gopmode = v.gopmode /\ w.real = v.real /\ w.want = v.want /\ w.fb = v.fb /\ w.font = v.font
      /\ w.lent = v.lent
  BY <1>1 DEF IsScreen, Fields
<1> HIDE DEF w
<1>4. Good(w) /\ WrapTrue(w)
  <2>1. Sized(w) /\ Fits(w)
    BY <1>1, <1>2, <1>3 DEF Good, Sound, Sized, Grid, Fits, Laid
  <2>2. w.picture = [i \in Cells(v) |-> w.picture[i]] /\ w.screen = v.screen
    BY <1>1, <1>2 DEF Good, Grid, Picture
  <2> QED BY <1>1, <1>2, <2>1, <2>2, Twin DEF Whole
<1>5. Marked(w, {w.cursor})
  BY <1>1, <1>2, <1>3, TwinMarks DEF Whole, Showing, Astray
<1>6. Steady(w)
  BY <1>2, <1>4, <1>5 DEF Steady, Whole
<1> QED BY <1>6 DEF w

LEMMA RawSteady ==
  ASSUME NEW v, Steady(v), v.laid, v.captureMax > 0, NEW text PROVE Steady(PutsRaw(v, text))
<1> DEFINE t == SubSeq(v.capture \o text, 1, Lesser(Len(v.capture \o text), v.captureMax - 1))
           w == [v EXCEPT !.capture = t]
<1>1. Good(v) /\ IsScreen(v)
  BY DEF Steady, Whole, Good, Sound
<1>2. PutsRaw(v, text) = w
  BY DEF PutsRaw
<1> HIDE DEF t
<1>3. IsScreen(w) /\ Frame(v, w) /\ Rest(v, w) /\ Picture(v, w)
  BY <1>1 DEF IsScreen, Fields, Frame, Rest, Pens, Picture
<1> HIDE DEF w
<1>4. Keeps(v, w) /\ w.cursor = v.cursor
  BY <1>1, <1>3, Alike DEF Rest
<1> QED BY <1>2, <1>4, SteadyKept

\* A mode, size and font are sound to lay a screen out for.
LEMMA ModeSteady ==
  ASSUME NEW v, Steady(v), v.laid, NEW m \in DOMAIN setup.Modes, NEW map, NEW memory
  PROVE  Steady(Layout(Fit(TakeScreen([v EXCEPT !.gopmode = m], m), map), memory))
<1> DEFINE x == [v EXCEPT !.gopmode = m]
           y == TakeScreen(x, m)
           z == Fit(y, map)
<1>1. Sound(v) /\ IsScreen(v)
  BY DEF Steady, Whole, Good, Sound
<1>2. Sound(x) /\ x.captureMax = v.captureMax
  <2>1. IsScreen(x) /\ x.gopmode = m /\ x.captureMax = v.captureMax /\ Pens(v, x) /\ x.params = v.params /\ x.escape = v.escape
    BY <1>1 DEF IsScreen, Fields, Pens
  <2>2. x.taken = v.taken /\ x.real = v.real /\ x.want = v.want /\ x.fb = v.fb /\ x.font = v.font
    BY <1>1 DEF IsScreen, Fields
  <2> HIDE DEF x
  <2> QED BY <1>1, <2>1, <2>2 DEF Sound, Sized, Inked, Parsing, Pens
<1> HIDE DEF x
<1>3. Sound(y) /\ y.captureMax = v.captureMax
  BY <1>2, TakeSound
<1> HIDE DEF y
<1>4. Sound(z) /\ z.captureMax = v.captureMax
  BY <1>3, FitSound
<1> HIDE DEF z
<1>5. Steady(Layout(z, memory))
  BY <1>4, SteadyLaid
<1> QED BY <1>5 DEF z, y, x

LEMMA FontSteady ==
  ASSUME NEW v, Steady(v), v.laid, NEW f \in FontSize, NEW memory
  PROVE  Steady(Layout([v EXCEPT !.font = f], memory))
<1> DEFINE x == [v EXCEPT !.font = f]
<1>1. Sound(v) /\ IsScreen(v)
  BY DEF Steady, Whole, Good, Sound
<1>2. Sound(x) /\ x.captureMax = v.captureMax
  <2>1. IsScreen(x) /\ x.gopmode = v.gopmode /\ x.captureMax = v.captureMax /\ Pens(v, x) /\ x.params = v.params /\ x.escape = v.escape
    BY <1>1 DEF IsScreen, Fields, Pens
  <2>2. x.taken = v.taken /\ x.real = v.real /\ x.want = v.want /\ x.fb = v.fb /\ x.font = f
    BY <1>1 DEF IsScreen, Fields
  <2> HIDE DEF x
  <2> QED BY <1>1, <2>1, <2>2 DEF Sound, Sized, Inked, Parsing, Pens
<1> HIDE DEF x
<1>3. Steady(Layout(x, memory))
  BY <1>2, SteadyLaid
<1> QED BY <1>3 DEF x

LEMMA ScaleSteady ==
  ASSUME NEW v, Steady(v), v.laid, NEW size \in Size, NEW map, NEW memory
  PROVE  Steady(Layout(Fit([v EXCEPT !.want = size], map), memory)) /\ Steady(Layout(Fit(v, map), memory))
<1> DEFINE x == [v EXCEPT !.want = size]
<1>1. Sound(v) /\ IsScreen(v)
  BY DEF Steady, Whole, Good, Sound
<1>2. Sound(x) /\ x.captureMax = v.captureMax
  <2>1. IsScreen(x) /\ x.gopmode = v.gopmode /\ x.captureMax = v.captureMax /\ Pens(v, x) /\ x.params = v.params /\ x.escape = v.escape
    BY <1>1 DEF IsScreen, Fields, Pens
  <2>2. x.taken = v.taken /\ x.real = v.real /\ x.want = size /\ x.fb = v.fb /\ x.font = v.font
    BY <1>1 DEF IsScreen, Fields
  <2> HIDE DEF x
  <2> QED BY <1>1, <2>1, <2>2 DEF Sound, Sized, Inked, Parsing, Pens
<1> HIDE DEF x
<1>3. ASSUME NEW u, Sound(u), u.captureMax = v.captureMax PROVE Steady(Layout(Fit(u, map), memory))
  <2> DEFINE y == Fit(u, map)
  <2>1. Sound(y) /\ y.captureMax = v.captureMax
    BY <1>3, FitSound
  <2> HIDE DEF y
  <2>2. Steady(Layout(y, memory))
    BY <2>1, SteadyLaid
  <2> QED BY <2>2 DEF y
<1>4. Steady(Layout(Fit(x, map), memory))
  BY <1>2, <1>3
<1>5. Steady(Layout(Fit(v, map), memory))
  BY <1>1, <1>3
<1> QED BY <1>4, <1>5 DEF x

\* A picture that is not ours, over a screen that is otherwise as it was.
LEMMA TheirsGood ==
  ASSUME NEW v, Good(v), NEW w, IsScreen(w), Sized(w), Fits(w), Laid(v, w), Rest(v, w), Picture(v, w)
  PROVE  LET x == Theirs(w)
         IN Good(x) /\ (WrapTrue(v) => WrapTrue(x)) /\ Frame(w, x) /\ Rest(w, x)
<1> DEFINE p == [i \in DOMAIN w.picture |-> <<"theirs", Plain>>]
           none == {}
           x == [w EXCEPT !.picture = p, !.marks = none]
<1>1. Theirs(w) = x
  BY DEF Theirs
<1>2. p = [i \in Cells(v) |-> p[i]]
  BY DEF Good, Grid, Picture
<1> HIDE DEF p, none
<1>3. IsScreen(x) /\ Frame(w, x) /\ Rest(w, x) /\ x.screen = w.screen /\ x.picture = p
  BY ZenonT(60) DEF IsScreen, Fields, Frame, Rest, Pens
<1> HIDE DEF x
<1>4. Sized(x) /\ Fits(x) /\ Laid(v, x) /\ Rest(v, x) /\ x.screen = v.screen
  BY <1>3 DEF Sized, Fits, Laid, Rest, Pens, Frame, Picture
<1>5. Good(x) /\ (WrapTrue(v) => WrapTrue(x))
  BY <1>2, <1>3, <1>4, Twin
<1> QED BY <1>1, <1>3, <1>5

LEMMA FirmwareSteady ==
  ASSUME NEW v, Steady(v), v.laid, NEW m \in DOMAIN setup.Modes, ~Astray(v), m # v.gopmode
  PROVE  Steady(Theirs([v EXCEPT !.gopmode = m]))
<1> DEFINE w == [v EXCEPT !.gopmode = m]
           x == Theirs(w)
<1>1. Whole(v) /\ Good(v) /\ IsScreen(v)
  BY DEF Steady, Whole, Good, Sound
<1>2. IsScreen(w) /\ w.gopmode = m /\ w.captureMax = v.captureMax /\ Laid(v, w) /\ Rest(v, w) /\ Picture(v, w)
  BY <1>1 DEF IsScreen, Fields, Laid, Rest, Pens, Picture
<1>3. w.taken = v.taken /\ w.real = v.real /\ w.want = v.want /\ w.fb = v.fb /\ w.font = v.font
  BY <1>1 DEF IsScreen, Fields
<1> HIDE DEF w
<1>4. Sized(w) /\ Fits(w)
  BY <1>1, <1>2, <1>3 DEF Good, Sound, Sized, Grid, Fits, Laid
<1>5. Good(x) /\ WrapTrue(x) /\ Frame(w, x)
  BY <1>1, <1>2, <1>4, TheirsGood DEF Whole
<1> HIDE DEF x
<1>6. Marked(x, {x.cursor})
  BY <1>2, <1>3, <1>5 DEF Marked, Showing, Astray, Frame
<1>7. Steady(x)
  BY <1>2, <1>5, <1>6, SteadyFrame DEF Whole, Frame
<1> QED BY <1>7 DEF x, w

LEMMA OverSteady ==
  ASSUME NEW v, Steady(v), v.laid, v.lent PROVE Steady(Theirs(v))
<1> DEFINE x == Theirs(v)
<1>1. Whole(v) /\ Good(v) /\ IsScreen(v) /\ Sized(v) /\ Fits(v) /\ Laid(v, v) /\ Rest(v, v) /\ Picture(v, v)
  BY DEF Steady, Whole, Good, Sound, Grid, Fits, Laid, Rest, Pens, Picture
<1>2. Good(x) /\ WrapTrue(x) /\ Frame(v, x)
  BY <1>1, TheirsGood DEF Whole
<1> HIDE DEF x
<1>3. Marked(x, {x.cursor})
  BY <1>2 DEF Marked, Showing, Frame
<1>4. Steady(x)
  BY <1>2, <1>3, SteadyFrame DEF Whole, Frame
<1> QED BY <1>4 DEF x

LEMMA LentSteady ==
  ASSUME NEW v, Steady(v), v.laid PROVE Steady([v EXCEPT !.lent = TRUE])
<1> DEFINE yes == TRUE
           w == [v EXCEPT !.lent = yes]
<1>1. Whole(v) /\ Good(v) /\ IsScreen(v)
  BY DEF Steady, Whole, Good, Sound
<1> HIDE DEF yes
<1>2. IsScreen(w) /\ w.lent = yes /\ w.captureMax = v.captureMax /\ Laid(v, w) /\ Rest(v, w) /\ Picture(v, w)
  BY <1>1 DEF IsScreen, Fields, Laid, Rest, Pens, Picture
<1>3. w.taken = v.taken /\ w.gopmode = v.gopmode /\ w.real = v.real /\ w.want = v.want /\ w.fb = v.fb /\ w.font = v.font
  BY <1>1 DEF IsScreen, Fields
<1> HIDE DEF w
<1>4. Sized(w) /\ Fits(w) /\ w.picture = [i \in Cells(v) |-> w.picture[i]] /\ w.screen = v.screen
  BY <1>1, <1>2, <1>3 DEF Good, Sound, Sized, Grid, Fits, Laid, Picture
<1>5. Good(w) /\ WrapTrue(w)
  BY <1>1, <1>2, <1>4, Twin DEF Whole
<1>6. Marked(w, {w.cursor})
  BY <1>2 DEF Marked, Showing, yes
<1>7. Steady(w)
  BY <1>2, <1>5, <1>6, SteadyFrame DEF Whole
<1> QED BY <1>7 DEF w, yes

LEMMA RepaintWhole ==
  ASSUME NEW v, Good(v), WrapTrue(v) PROVE Whole(Repaint(v)) /\ Frame(v, Repaint(v))
<1> DEFINE w == Repaint(v)
<1>1. Good(w) /\ Frame(v, w) /\ Rest(v, w) /\ Marked(w, {v.cursor})
  BY RepaintMarks
<1> HIDE DEF w
<1>2. WrapTrue(w) /\ w.cursor = v.cursor
  BY <1>1 DEF WrapTrue, RowStart, Column, Frame, Rest
<1>3. Whole(w) /\ Frame(v, w)
  BY <1>1, <1>2 DEF Whole
<1> QED BY <1>3 DEF w

LEMMA BackSteady ==
  ASSUME NEW v, Steady(v), v.laid PROVE Steady(Repaint([Theirs(v) EXCEPT !.lent = FALSE]))
<1> DEFINE no == FALSE
           x == Theirs(v)
           w == [x EXCEPT !.lent = no]
<1>1. Whole(v) /\ Good(v) /\ IsScreen(v) /\ Sized(v) /\ Fits(v) /\ Laid(v, v) /\ Rest(v, v) /\ Picture(v, v)
  BY DEF Steady, Whole, Good, Sound, Grid, Fits, Laid, Rest, Pens, Picture
<1>2. Good(x) /\ WrapTrue(x) /\ Frame(v, x) /\ IsScreen(x)
  BY <1>1, TheirsGood DEF Whole, Good, Sound
<1> HIDE DEF x, no
<1>3. IsScreen(w) /\ w.captureMax = x.captureMax /\ Laid(x, w) /\ Rest(x, w) /\ Picture(x, w)
  BY <1>2 DEF IsScreen, Fields, Laid, Rest, Pens, Picture
<1>4. w.taken = x.taken /\ w.gopmode = x.gopmode /\ w.real = x.real /\ w.want = x.want /\ w.fb = x.fb /\ w.font = x.font
  BY <1>2 DEF IsScreen, Fields
<1> HIDE DEF w
<1>5. Sized(w) /\ Fits(w) /\ w.picture = [i \in Cells(x) |-> w.picture[i]] /\ w.screen = x.screen
  BY <1>2, <1>3, <1>4 DEF Good, Sound, Sized, Grid, Fits, Laid, Picture
<1>6. Good(w) /\ WrapTrue(w)
  BY <1>2, <1>3, <1>5, Twin
<1>7. Whole(Repaint(w)) /\ Frame(w, Repaint(w))
  BY <1>6, RepaintWhole
<1>8. Steady(Repaint(w))
  BY <1>2, <1>3, <1>7, SteadyFrame DEF Frame
<1> QED BY <1>8 DEF w, x, no

LEMMA GoneSteady ==
  ASSUME NEW v, Steady(v), v.laid PROVE Steady([v EXCEPT !.gop = FALSE])
<1> DEFINE no == FALSE
           w == [v EXCEPT !.gop = no]
<1>1. Good(v) /\ IsScreen(v)
  BY DEF Steady, Whole, Good, Sound
<1> HIDE DEF no
<1>2. IsScreen(w) /\ Frame(v, w) /\ Rest(v, w) /\ Picture(v, w)
  BY ZenonT(60), <1>1 DEF IsScreen, Fields, Frame, Rest, Pens, Picture
<1> HIDE DEF w
<1>3. Keeps(v, w) /\ w.cursor = v.cursor
  BY <1>1, <1>2, Alike DEF Rest
<1>4. Steady(w)
  BY <1>3, SteadyKept
<1> QED BY <1>4 DEF w, no

LEMMA FollowSteady ==
  ASSUME NEW v, Steady(v), v.laid, NEW map, NEW memory PROVE Steady(FollowTo(v, map, memory))
<1> DEFINE y == TakeScreen(v, v.gopmode)
           w == Fit(y, map)
<1>1. Whole(v) /\ Good(v) /\ Sound(v) /\ v.gopmode \in DOMAIN setup.Modes
  BY DEF Steady, Whole, Good, Sound, Sized
<1>2. Sound(y) /\ Laid(v, y) /\ Rest(v, y) /\ Picture(v, y) /\ y.captureMax = v.captureMax
  BY <1>1, TakeSound
<1>3. FollowTo(v, map, memory) = IF w.fb[1] \div w.font[1] = v.width /\ w.fb[2] \div w.font[2] = v.rows THEN Repaint(w) ELSE Layout(w, memory)
  BY DEF FollowTo
<1> HIDE DEF y
<1>4. Sound(w) /\ Laid(v, w) /\ Rest(v, w) /\ Picture(v, w) /\ w.captureMax = v.captureMax
  BY ZenonT(60), <1>2, FitSound DEF Laid, Rest, Pens, Picture
<1> HIDE DEF w
<1>5. CASE w.fb[1] \div w.font[1] = v.width /\ w.fb[2] \div w.font[2] = v.rows
  <2>1. IsScreen(w) /\ Sized(w) /\ Fits(w) /\ w.screen = v.screen /\ w.picture = [i \in Cells(v) |-> w.picture[i]]
    BY <1>1, <1>4, <1>5 DEF Sound, Fits, Laid, Picture, Good, Grid
  <2>2. Good(w) /\ WrapTrue(w)
    BY <1>1, <1>4, <2>1, Twin DEF Whole
  <2>3. Whole(Repaint(w)) /\ Frame(w, Repaint(w))
    BY <2>2, RepaintWhole
  <2> QED BY <1>3, <1>4, <1>5, <2>3, SteadyFrame DEF Frame
<1>6. CASE ~(w.fb[1] \div w.font[1] = v.width /\ w.fb[2] \div w.font[2] = v.rows)
  BY <1>3, <1>4, <1>6, SteadyLaid
<1> QED BY <1>5, <1>6

\* The screen after a step.
Next1Steady == \E w : vga' = w /\ Steady(w)

LEMMA ScreenNextSteady ==
  ASSUME Steady(vga), setup \in Setups, Calm(setup), ScreenNext PROVE Next1Steady
<1> DEFINE v == vga
<1>1. v.laid
  BY DEF ScreenNext, Write, Raw, SetColor, Capture, CaptureEnd, SetMode, Firmware, SetFont, SetScale, Follow, FirmwareGone,
         Lend, DrawOver, Step
<1>2. ASSUME NEW text \in setup.Writes, Write(text) PROVE Next1Steady
  <2>1. vga' = Puts(vga, text)
    BY <1>2 DEF Write
  <2> QED BY <1>1, <2>1, WriteSteady DEF Next1Steady
<1>3. ASSUME NEW text \in setup.Writes, Raw(text) PROVE Next1Steady
  <2>1. vga.captureMax > 0 /\ vga' = PutsRaw(vga, text)
    BY <1>3 DEF Raw
  <2> QED BY <1>1, <2>1, RawSteady DEF Next1Steady
<1>4. ASSUME NEW c, SetColor(c) PROVE Next1Steady
  <2>1. vga' = [vga EXCEPT !.pen = c, !.color = c, !.reversed = FALSE]
    BY <1>4 DEF SetColor
  <2>2. Steady([vga EXCEPT !.pen = c, !.color = c, !.reversed = FALSE])
    BY <1>1, ColorSteady
  <2> DEFINE w == [vga EXCEPT !.pen = c, !.color = c, !.reversed = FALSE]
  <2> HIDE DEF w
  <2>3. vga' = w /\ Steady(w)
    BY <2>1, <2>2 DEF w
  <2> QED BY <2>3 DEF Next1Steady
<1>5. ASSUME NEW n, Capture(n) PROVE Next1Steady
  <2> DEFINE t == <<>>
             w == [vga EXCEPT !.capture = t, !.captureMax = n]
  <2>1. vga' = w /\ "capture" \in Does
    BY <1>5 DEF Capture, Step
  <2> HIDE DEF t
  <2>2. Steady(w)
    BY <1>1, <2>1, CaptureSteady
  <2> HIDE DEF w
  <2> QED BY <2>1, <2>2 DEF Next1Steady
<1>6. ASSUME CaptureEnd PROVE Next1Steady
  <2> DEFINE t == <<>>
             zero == 0
             w == [vga EXCEPT !.capture = t, !.captureMax = zero]
  <2>1. vga' = w
    <3>1. IsScreen(vga)
      BY <1>1 DEF Steady, Whole, Good, Sound
    <3>2. vga' = [vga EXCEPT !.captureMax = zero, !.capture = t]
      BY <1>6 DEF CaptureEnd
    <3> HIDE DEF t, zero
    <3> QED BY <3>1, <3>2 DEF IsScreen, Fields
  <2>2. zero > 0 => "capture" \in Does
    OBVIOUS
  <2> HIDE DEF t, zero
  <2>3. Steady(w)
    BY <1>1, <2>2, CaptureSteady
  <2> HIDE DEF w
  <2> QED BY <2>1, <2>3 DEF Next1Steady
<1>7. ASSUME NEW m \in DOMAIN setup.Modes, SetMode(m) PROVE Next1Steady
  <2>1. PICK map \in BOOLEAN, memory \in BOOLEAN :
          vga' = Layout(Fit(TakeScreen([vga EXCEPT !.gopmode = m], m), map), memory)
    BY <1>7 DEF SetMode
  <2>2. Steady(Layout(Fit(TakeScreen([vga EXCEPT !.gopmode = m], m), map), memory))
    BY <1>1, ModeSteady
  <2> DEFINE w == Layout(Fit(TakeScreen([vga EXCEPT !.gopmode = m], m), map), memory)
  <2> HIDE DEF w
  <2>3. vga' = w /\ Steady(w)
    BY <2>1, <2>2 DEF w
  <2> QED BY <2>3 DEF Next1Steady
<1>8. ASSUME NEW m \in DOMAIN setup.Modes, Firmware(m) PROVE Next1Steady
  <2>1. ~Astray(vga) /\ m # vga.gopmode /\ vga' = Theirs([vga EXCEPT !.gopmode = m])
    BY <1>8 DEF Firmware
  <2>2. Steady(Theirs([vga EXCEPT !.gopmode = m]))
    BY <1>1, <2>1, FirmwareSteady
  <2> DEFINE w == Theirs([vga EXCEPT !.gopmode = m])
  <2> HIDE DEF w
  <2>3. vga' = w /\ Steady(w)
    BY <2>1, <2>2 DEF w
  <2> QED BY <2>3 DEF Next1Steady
<1>9. ASSUME NEW f \in setup.Fonts, SetFont(f) PROVE Next1Steady
  <2>1. PICK memory \in BOOLEAN :
          LET now == Layout([vga EXCEPT !.font = f], memory) IN vga' = IF now.laid THEN now ELSE vga
    BY <1>9 DEF SetFont
  <2>2. f \in FontSize
    BY SetupTrue
  <2>3. Steady(Layout([vga EXCEPT !.font = f], memory))
    BY <1>1, <2>2, FontSteady
  <2> DEFINE now == Layout([vga EXCEPT !.font = f], memory)
  <2>4. (vga' = IF now.laid THEN now ELSE vga) /\ Steady(now)
    BY <2>1, <2>3
  <2> HIDE DEF now
  <2> QED BY <2>4 DEF Next1Steady
<1>10. ASSUME NEW size \in setup.Scales, SetScale(size) PROVE Next1Steady
  <2>1. PICK map \in BOOLEAN, memory \in BOOLEAN, again \in BOOLEAN :
          LET now == Layout(Fit([vga EXCEPT !.want = size], map), memory)
          IN vga' = IF now.laid THEN now ELSE Layout(Fit(vga, map), again)
    BY <1>10 DEF SetScale
  <2>2. size \in Size
    BY SetupTrue
  <2>3. Steady(Layout(Fit([vga EXCEPT !.want = size], map), memory))
    BY <1>1, <2>2, ScaleSteady
  <2>4. Steady(Layout(Fit(vga, map), again))
    BY <1>1, <2>2, ScaleSteady
  <2> DEFINE now == Layout(Fit([vga EXCEPT !.want = size], map), memory)
             back == Layout(Fit(vga, map), again)
  <2>5. (vga' = IF now.laid THEN now ELSE back) /\ Steady(now) /\ Steady(back)
    BY <2>1, <2>3, <2>4
  <2> HIDE DEF now, back
  <2> QED BY <2>5 DEF Next1Steady
<1>11. ASSUME Follow PROVE Next1Steady
  <2>1. PICK map \in BOOLEAN, memory \in BOOLEAN : vga' = FollowTo(vga, map, memory)
    BY <1>11 DEF Follow
  <2>2. Steady(FollowTo(vga, map, memory))
    BY <1>1, FollowSteady
  <2> QED BY <2>1, <2>2 DEF Next1Steady
<1>12. ASSUME FirmwareGone PROVE Next1Steady
  <2>1. vga' = [vga EXCEPT !.gop = FALSE]
    BY <1>12 DEF FirmwareGone
  <2>2. Steady([vga EXCEPT !.gop = FALSE])
    BY <1>1, GoneSteady
  <2> DEFINE w == [vga EXCEPT !.gop = FALSE]
  <2> HIDE DEF w
  <2>3. vga' = w /\ Steady(w)
    BY <2>1, <2>2 DEF w
  <2> QED BY <2>3 DEF Next1Steady
<1>13. ASSUME NEW on \in BOOLEAN, Lend(on) PROVE Next1Steady
  <2> DEFINE w == [vga EXCEPT !.lent = TRUE]
             x == Repaint([Theirs(vga) EXCEPT !.lent = FALSE])
  <2>1. vga' = IF on THEN w ELSE x
    BY <1>13 DEF Lend
  <2>2. Steady(w) /\ Steady(x)
    BY <1>1, LentSteady, BackSteady
  <2> HIDE DEF w, x
  <2> QED BY <2>1, <2>2 DEF Next1Steady
<1>14. ASSUME DrawOver PROVE Next1Steady
  <2>1. vga.lent /\ vga' = Theirs(vga)
    BY <1>14 DEF DrawOver
  <2> QED BY <1>1, <2>1, OverSteady DEF Next1Steady
<1> QED BY <1>2, <1>3, <1>4, <1>5, <1>6, <1>7, <1>8, <1>9, <1>10, <1>11, <1>12, <1>13, <1>14 DEF ScreenNext

\* The screen at first.
LEMMA StartWhole == ASSUME setup \in Setups PROVE Whole(Started) /\ Started.captureMax = 0
<1> DEFINE yes == TRUE
           no == FALSE
           nil == <<>>
           none == {}
           zero == 0
           one == 1
           off == <<0, 0>>
           font == <<1, 1>>
           plain == "plain"
           real == setup.Modes[1]
           graphics == <<FALSE, FALSE>>
           black == <<Black, Black>>
           v == [taken |-> one, gopmode |-> one, gop |-> yes, real |-> real, want |-> off, fb |-> off,
                 font |-> font, laid |-> yes, width |-> one, rows |-> one, screen |-> nil, picture |-> nil, marks |-> none,
                 cursor |-> zero, color |-> Plain, pen |-> Plain, reversed |-> no, top |-> zero, bottom |-> one, wrap |-> no,
                 shown |-> yes, inserting |-> no, crlf |-> yes, escape |-> plain, params |-> nil, private |-> no,
                 g1 |-> no, graphics |-> graphics, shifted |-> no, utf8 |-> zero, osc |-> zero,
                 saved |-> zero, savedpen |-> black, lent |-> no, capture |-> nil, captureMax |-> zero]
           w == Fit(v, yes)
<1>1. Started = Layout(w, yes)
  BY DEF Started
<1>2. 1 \in DOMAIN setup.Modes /\ real \in Size /\ PARAMS \in Nat
  BY SetupTrue
<1>3. one = 1 /\ off \in Size /\ font \in FontSize /\ nil \in Seq(Nat) /\ Len(nil) = 0 /\ plain \in Sequencing /\ zero = 0 /\ ~no
  BY DEF Size, FontSize, Sequencing
<1> HIDE DEF yes, no, nil, none, zero, one, off, font, plain, real, graphics, black
<1>4. IsScreen(v)
  BY DEF IsScreen, Fields
<1>5. v.taken = one /\ v.gopmode = one /\ v.real = real /\ v.want = off /\ v.fb = off /\ v.font = font
  OBVIOUS
<1>6. v.color = Plain /\ v.pen = Plain /\ v.reversed = no /\ v.params = nil /\ v.escape = plain /\ v.captureMax = zero
  OBVIOUS
<1> HIDE DEF v
<1>7. Sound(v)
  BY <1>2, <1>3, <1>4, <1>5, <1>6 DEF Sound, Sized, Inked, Parsing
<1>8. Sound(w) /\ w.captureMax = v.captureMax /\ w.font = v.font
  BY <1>7, FitSound
<1>9. w.fb = real
  BY <1>4, <1>5 DEF Fit, off, IsScreen, Fields
<1> HIDE DEF w
<1>10. Usable(w)
  <2>1. real[1] \in Nat /\ real[2] \in Nat /\ real[1] >= setup.MinCols /\ real[2] >= setup.MinRows
    BY <1>2, SetupTrue DEF real, Size
  <2>2. w.font[1] = 1 /\ w.font[2] = 1
    BY <1>5, <1>8 DEF font
  <2>3. real[1] \div 1 = real[1] /\ real[2] \div 1 = real[2]
    BY <2>1
  <2> QED BY <1>9, <2>1, <2>2, <2>3 DEF Usable
<1>11. Whole(Layout(w, yes)) /\ Layout(w, yes).captureMax = w.captureMax
  BY <1>8, <1>10, LayoutUsable DEF yes
<1> QED BY <1>1, <1>3, <1>6, <1>8, <1>11, Zenon

LEMMA StartSteady == ASSUME setup \in Setups PROVE Steady(Puts(Started, setup.Shown))
<1> DEFINE s == Started
           w == Puts(s, setup.Shown)
<1>2. Whole(s) /\ s.captureMax = 0
  BY StartWhole
<1>3. setup.Shown \in Seq(STRING)
  BY SetupTrue
<1> HIDE DEF s
<1>4. Calmly(s, setup.Shown)
  BY <1>2, <1>3 DEF Calmly
<1>5. Whole(w) /\ Frame(s, w)
  BY <1>2, <1>4, PutsWhole
<1> HIDE DEF w
<1>6. Steady(w)
  BY <1>2, <1>5 DEF Steady, Frame
<1> QED BY <1>6 DEF w, s

----------------------------------------------------------------------------
(* Text, whatever it is made of.                                           *)

IsText(s) == \E A : s \in Seq(A)

LEMMA TextWider == ASSUME NEW A, NEW B, NEW s \in Seq(A), A \subseteq B PROVE s \in Seq(B)
OBVIOUS

LEMMA TextLen == ASSUME NEW s, IsText(s) PROVE Len(s) \in Nat /\ DOMAIN s = 1 .. Len(s)
BY DEF IsText

LEMMA TextOn ==
  ASSUME NEW s, NEW t, IsText(s), IsText(t)
  PROVE  IsText(s \o t) /\ Len(s \o t) = Len(s) + Len(t)
<1>1. PICK A : s \in Seq(A)
  BY DEF IsText
<1>2. PICK B : t \in Seq(B)
  BY DEF IsText
<1>3. s \in Seq(A \cup B) /\ t \in Seq(A \cup B)
  BY <1>1, <1>2, TextWider
<1>4. s \o t \in Seq(A \cup B) /\ Len(s \o t) = Len(s) + Len(t)
  BY <1>3, ConcatIs
<1> QED BY <1>4 DEF IsText

LEMMA TextMore ==
  ASSUME NEW s, IsText(s), NEW c
  PROVE  IsText(Append(s, c)) /\ Len(Append(s, c)) = Len(s) + 1
<1>1. PICK A : s \in Seq(A)
  BY DEF IsText
<1>2. s \in Seq(A \cup {c}) /\ c \in A \cup {c}
  BY <1>1, TextWider
<1>3. Append(s, c) \in Seq(A \cup {c}) /\ Len(Append(s, c)) = Len(s) + 1
  BY <1>2
<1> QED BY <1>3 DEF IsText

LEMMA TextPart ==
  ASSUME NEW s, IsText(s), NEW m \in 1 .. Len(s) + 1, NEW n \in m - 1 .. Len(s)
  PROVE  IsText(SubSeq(s, m, n)) /\ Len(SubSeq(s, m, n)) = n - m + 1
<1>1. PICK A : s \in Seq(A)
  BY DEF IsText
<1>2. SubSeq(s, m, n) \in Seq(A) /\ Len(SubSeq(s, m, n)) = n - m + 1
  <2>1. m \in Int /\ n \in Int /\ Len(s) \in Nat /\ \A i \in m .. n : s[i] \in A
    BY <1>1
  <2> QED BY <1>1, <2>1
<1> QED BY <1>2 DEF IsText

LEMMA TextFull ==
  ASSUME NEW n \in Nat, NEW f, f = [i \in 1 .. n |-> f[i]] PROVE IsText(f) /\ Len(f) = n
<1> DEFINE A == {f[i] : i \in 1 .. n}
<1>1. \A i \in 1 .. n : f[i] \in A
  OBVIOUS
<1> HIDE DEF A
<1>2. f \in Seq(A) /\ Len(f) = n
  BY <1>1
<1> QED BY <1>2 DEF IsText

----------------------------------------------------------------------------
(* What the line editor draws.                                             *)

LEMMA OneText == ASSUME NEW a PROVE IsText(<<a>>)
<1>1. <<a>> \in Seq({a})
  OBVIOUS
<1> QED BY <1>1 DEF IsText

LEMMA TwoText == ASSUME NEW a, NEW b PROVE IsText(<<a, b>>)
<1>1. <<a, b>> \in Seq({a, b})
  OBVIOUS
<1> QED BY <1>1 DEF IsText

LEMMA ThreeText == ASSUME NEW a, NEW b, NEW c PROVE IsText(<<a, b, c>>)
<1>1. <<a, b, c>> \in Seq({a, b, c})
  OBVIOUS
<1> QED BY <1>1 DEF IsText

LEMMA NoText == IsText(<<>>)
<1>1. <<>> \in Seq({})
  OBVIOUS
<1> QED BY <1>1 DEF IsText

LEMMA DecimalText == ASSUME NEW n PROVE IsText(Decimal(n))
<1>1. CASE n < 10
  BY <1>1, OneText DEF Decimal
<1>2. CASE ~(n < 10)
  BY <1>2, TwoText DEF Decimal
<1> QED BY <1>1, <1>2

LEMMA StepsText == ASSUME NEW v, NEW from, NEW to PROVE IsText(Steps(v, from, to))
<1> DEFINE place == v.cursor - from + to
           want == IF place >= 0 THEN place \div v.width ELSE 99
           column == IF place >= 0 THEN place % v.width ELSE ((65536 % v.width) * (65536 % v.width) + place) % v.width
           rows == want - RowOf(v)
           esc == <<"ESC", "[">>
           down == Append(Decimal(rows), "B")
           up == Append(Decimal(-rows), "A")
           over == Append(Decimal(column + 1), "G")
           climb == IF rows > 0 THEN down ELSE up
           first == IF rows = 0 THEN <<>> ELSE esc \o climb
           nil == <<>>
<1>1. IsText(esc) /\ IsText(down) /\ IsText(up) /\ IsText(over) /\ IsText(nil)
  BY TwoText, DecimalText, TextMore, NoText
<1>2. Steps(v, from, to) = IF from = to THEN nil ELSE first \o esc \o over
  BY DEF Steps
<1>3. IsText(climb)
  BY <1>1
<1>4. IsText(first)
  <2> HIDE DEF esc, climb, rows
  <2>1. IsText(esc \o climb)
    BY <1>1, <1>3, TextOn
  <2> QED BY <1>1, <2>1
<1>5. IsText(first \o esc)
  <2> HIDE DEF first, esc
  <2> QED BY <1>1, <1>4, TextOn
<1>6. IsText(first \o esc \o over)
  <2> HIDE DEF first, esc, over
  <2> QED BY <1>1, <1>5, TextOn
<1> HIDE DEF first, esc, over, nil
<1> QED BY <1>1, <1>2, <1>6

Told(d) == d.move \/ IsText(d.text)
Said(out) == IsText(out) /\ \A k \in 1 .. Len(out) : Told(out[k])

\* A screen that output is not taken from.
Plainer(v) == Whole(v) /\ ~(v.captureMax > 0)

LEMMA PlainerPuts == ASSUME NEW v, Plainer(v), NEW text, IsText(text) PROVE Plainer(Puts(v, text)) /\ Frame(v, Puts(v, text))
<1>1. Calmly(v, text)
  BY TextLen DEF Calmly, Plainer
<1>2. Whole(Puts(v, text)) /\ Frame(v, Puts(v, text))
  BY <1>1, PutsWhole DEF Plainer
<1> QED BY <1>2 DEF Plainer, Frame

LEMMA DrawnPlainer == ASSUME NEW v, Plainer(v), NEW d, Told(d) PROVE Plainer(Drawn(v, d)) /\ Frame(v, Drawn(v, d))
<1> DEFINE a == At(v)
           t == Steps(a, d.from, d.to)
<1>1. CASE d.move
  <2>1. Drawn(v, d) = Puts(a, t)
    BY <1>1 DEF Drawn
  <2>2. Plainer(a) /\ Frame(v, a)
    <3>1. Whole(a) /\ Frame(v, a)
      BY AtWhole DEF Plainer
    <3> HIDE DEF a
    <3> QED BY <3>1 DEF Plainer, Frame
  <2>3. IsText(t)
    BY StepsText
  <2> HIDE DEF a, t
  <2> DEFINE w == Puts(a, t)
  <2>4. Plainer(w) /\ Frame(a, w)
    BY <2>2, <2>3, PlainerPuts
  <2> HIDE DEF w
  <2>5. Frame(v, w)
    BY <2>2, <2>4 DEF Frame
  <2> QED BY <2>1, <2>4, <2>5 DEF w
<1>2. CASE ~d.move
  <2>1. Drawn(v, d) = Puts(v, d.text)
    BY <1>2 DEF Drawn
  <2> DEFINE u == d.text
  <2>2. IsText(u)
    BY <1>2 DEF Told
  <2> HIDE DEF u
  <2>3. Plainer(Puts(v, u)) /\ Frame(v, Puts(v, u))
    BY <2>2, PlainerPuts
  <2> QED BY <2>1, <2>3 DEF u
<1> QED BY <1>1, <1>2

LEMMA AllDrawnPlainer == ASSUME NEW v, Plainer(v), NEW out, Said(out) PROVE Plainer(AllDrawn(v, out))
<1> DEFINE N == Len(out)
           Next1(u, k) == Drawn(u, out[k])
           Part(g) == g = [k \in 0 .. N |-> IF k = 0 THEN v ELSE Next1(g[k - 1], k)]
           put == CHOOSE g : Part(g)
           Fine(u) == Plainer(u)
<1>1. N \in Nat
  BY TextLen DEF Said
<1>2. AllDrawn(v, out) = put[N]
  BY DEF AllDrawn
<1>3. Fine(v)
  OBVIOUS
<1>4. ASSUME NEW u, Fine(u), NEW k \in 1 .. N PROVE Fine(Next1(u, k))
  <2> DEFINE d == out[k]
  <2>1. Told(d)
    BY DEF Said
  <2> HIDE DEF d
  <2>2. Plainer(Drawn(u, d))
    BY <1>4, <2>1, DrawnPlainer
  <2> QED BY <2>2 DEF d
<1> HIDE DEF N, Next1, Fine
<1>5. \E g : Part(g)
  <2> DEFINE Is(g, m) == g = [k \in 0 .. m |-> IF k = 0 THEN v ELSE Next1(g[k - 1], k)]
             S == {m \in 0 .. N : \E g : Is(g, m)}
  <2>1. 0 \in S
    <3>1. Is([k \in 0 .. 0 |-> v], 0)
      OBVIOUS
    <3> HIDE DEF Is
    <3> QED BY <1>1, <3>1
  <2>2. ASSUME NEW m \in 1 .. N, m - 1 \in S PROVE m \in S
    <3>1. PICK g : Is(g, m - 1)
      BY <2>2
    <3> DEFINE h == [k \in 0 .. m |-> IF k <= m - 1 THEN g[k] ELSE Next1(g[m - 1], m)]
    <3>2. ASSUME NEW k \in 0 .. m PROVE h[k] = IF k = 0 THEN v ELSE Next1(h[k - 1], k)
      <4>1. CASE k = 0
        BY <1>1, <3>1, <4>1
      <4>2. CASE k # 0 /\ k <= m - 1
        <5>1. k \in 0 .. m - 1 /\ k - 1 \in 0 .. m - 1 /\ k - 1 \in 0 .. m
          BY <1>1, <4>2
        <5>2. h[k] = g[k] /\ h[k - 1] = g[k - 1]
          BY <1>1, <5>1
        <5>3. g[k] = Next1(g[k - 1], k)
          BY <3>1, <4>2, <5>1
        <5> HIDE DEF h
        <5> QED BY <4>2, <5>2, <5>3
      <4>3. CASE k # 0 /\ k = m
        <5>1. h[m] = Next1(g[m - 1], m) /\ h[m - 1] = g[m - 1]
          BY <1>1
        <5> HIDE DEF h
        <5> QED BY <4>3, <5>1
      <4> QED BY <1>1, <4>1, <4>2, <4>3
    <3>3. h = [k \in 0 .. m |-> h[k]]
      OBVIOUS
    <3> HIDE DEF h
    <3>4. Is(h, m)
      BY <3>2, <3>3
    <3> HIDE DEF Is
    <3> QED BY <3>4
  <2>3. N \in S
    <3>1. Climbs(S, N)
      <4> HIDE DEF S
      <4> QED BY <2>1, <2>2 DEF Climbs
    <3> HIDE DEF S
    <3> QED BY <1>1, <3>1, Climbing
  <2>4. PICK g : Is(g, N)
    BY <2>3
  <2>5. Part(g)
    BY <2>4
  <2> HIDE DEF Part
  <2> QED BY <2>5
<1>6. Part(put)
  <2> HIDE DEF Part
  <2> QED BY <1>5
<1> HIDE DEF put
<1> DEFINE R == {k \in 0 .. N : Fine(put[k])}
<1>7. Climbs(R, N)
  <2>1. 0 \in R
    BY <1>1, <1>3, <1>6
  <2>2. ASSUME NEW k \in 1 .. N, k - 1 \in R PROVE k \in R
    <3>1. Fine(put[k - 1]) /\ put[k] = Next1(put[k - 1], k) /\ k \in 0 .. N
      BY <1>1, <1>6, <2>2
    <3> QED BY <1>4, <3>1
  <2> HIDE DEF R
  <2> QED BY <2>1, <2>2 DEF Climbs
<1>8. Fine(put[N])
  <2>1. N \in R
    <3> HIDE DEF R
    <3> QED BY <1>1, <1>7, Climbing
  <2> QED BY <2>1
<1> QED BY <1>2, <1>8 DEF Fine

----------------------------------------------------------------------------
(* The line editor.                                                        *)

ConFields == {"set", "typed", "signalled", "unread", "off", "handed", "ready", "line", "pos", "history", "drawing"}
ReaderFields == {"at", "busy", "back", "tabbed", "digit", "count", "got"}
EditFields == {"out", "con", "reader", "truth"}
Places == {"none", "line", "esc", "csi", "num", "raw"}

Line(c) == /\ c = [f \in ConFields |-> c[f]]
           /\ IsText(c.line) /\ c.pos \in 0 .. Len(c.line)
           /\ IsText(c.history) /\ \A k \in 1 .. Len(c.history) : IsText(c.history[k])
Asking(r, c) == r = [f \in ReaderFields |-> r[f]] /\ r.at \in Places /\ r.back \in 0 .. Len(c.history)
Editor(e) == e = [f \in EditFields |-> e[f]] /\ Line(e.con) /\ Asking(e.reader, e.con) /\ (Whole(vga) => Said(e.out))

\* f is e with only more to draw, or with another line as well.
Alone(e, f) == f.con = e.con /\ f.reader = e.reader /\ f.truth = e.truth
Still(e, f) == f.reader = e.reader /\ f.truth = e.truth /\ \A x \in ConFields \ {"line", "pos"} : f.con[x] = e.con[x]


\* f is e after an edit, as far as the line being read goes.
Onward(e, f) ==
  f.truth = e.truth /\ f.con.ready = e.con.ready /\ f.con.handed = e.con.handed /\ f.reader.count = e.reader.count
Edited(e, f) == Editor(f) /\ Onward(e, f)

LEMMA StillOnward == ASSUME NEW e, NEW f, Editor(f), Still(e, f) PROVE Edited(e, f)
BY DEF Still, Onward, Edited, ConFields

LEMMA SameOnward == ASSUME NEW e, Editor(e) PROVE Edited(e, e)
BY DEF Onward, Edited

LEMMA EditedOn == ASSUME NEW e, NEW f, NEW g, Edited(e, f), Edited(f, g) PROVE Edited(e, g)
BY DEF Onward, Edited

LEMMA AloneStill == ASSUME NEW e, NEW f, Alone(e, f) PROVE Still(e, f)
BY DEF Alone, Still

LEMMA SaidMore == ASSUME NEW out, Said(out), NEW d, Told(d) PROVE Said(Append(out, d))
<1> DEFINE t == Append(out, d)
<1>1. PICK A : out \in Seq(A)
  BY DEF Said, IsText
<1>2. IsText(t) /\ Len(t) = Len(out) + 1
  BY TextMore DEF Said
<1>3. \A k \in 1 .. Len(out) + 1 : t[k] = IF k <= Len(out) THEN out[k] ELSE d
  BY <1>1
<1> HIDE DEF t
<1>4. Said(t)
  <2>1. ASSUME NEW k \in 1 .. Len(t) PROVE Told(t[k])
    BY <1>1, <1>2, <1>3, <2>1 DEF Said
  <2> QED BY <1>2, <2>1 DEF Said
<1> QED BY <1>4 DEF t

LEMMA OutMore ==
  ASSUME NEW e, Editor(e), NEW d, Whole(vga) => Told(d)
  PROVE  LET f == [e EXCEPT !.out = Append(@, d)] IN Editor(f) /\ Alone(e, f)
<1> DEFINE o == Append(e.out, d)
           f == [e EXCEPT !.out = o]
<1>1. Whole(vga) => Said(o)
  BY SaidMore DEF Editor
<1> HIDE DEF o
<1>2. f.out = o /\ f.con = e.con /\ f.reader = e.reader /\ f.truth = e.truth /\ f = [x \in EditFields |-> f[x]]
  BY DEF Editor, EditFields
<1> HIDE DEF f
<1>3. Editor(f) /\ Alone(e, f)
  BY <1>1, <1>2 DEF Editor, Alone
<1> QED BY <1>3 DEF f, o

LEMMA EchoEdits ==
  ASSUME NEW e, Editor(e), NEW text, Whole(vga) => IsText(text) PROVE Editor(Echo(e, text)) /\ Alone(e, Echo(e, text))
<1> DEFINE no == FALSE
           zero == 0
           d == [text |-> text, from |-> zero, to |-> zero, move |-> no]
<1>1. Echo(e, text) = [e EXCEPT !.out = Append(@, d)]
  BY DEF Echo
<1> HIDE DEF no, zero
<1>2. Whole(vga) => Told(d)
  BY DEF Told
<1> HIDE DEF d
<1> QED BY ZenonT(60), <1>1, <1>2, OutMore

LEMMA DrawEdits ==
  ASSUME NEW e, Editor(e), NEW text, Whole(vga) => IsText(text) PROVE Editor(Draw(e, text)) /\ Alone(e, Draw(e, text))
<1>1. CASE e.con.drawing
  BY <1>1, EchoEdits DEF Draw
<1>2. CASE ~e.con.drawing
  BY <1>2 DEF Draw, Alone
<1> QED BY <1>1, <1>2

LEMMA MoveEdits == ASSUME NEW e, Editor(e), NEW from, NEW to PROVE Editor(Move(e, from, to)) /\ Alone(e, Move(e, from, to))
<1> DEFINE yes == TRUE
           nil == <<>>
           at == IF e.con.drawing THEN to ELSE from
           d == [text |-> nil, from |-> from, to |-> at, move |-> yes]
<1>1. Move(e, from, to) = [e EXCEPT !.out = Append(@, d)]
  BY DEF Move
<1> HIDE DEF nil, at
<1>2. Told(d)
  BY DEF Told
<1> HIDE DEF d
<1> QED BY <1>1, <1>2, OutMore

LEMMA LineOf == ASSUME NEW e, Editor(e) PROVE /\ IsText(e.con.line) /\ Have(e) \in Nat /\ e.con.pos \in 0 .. Have(e)
                                              /\ Have(e) = Len(e.con.line) /\ e.con.pos \in Nat
<1>1. IsText(e.con.line) /\ e.con.pos \in 0 .. Len(e.con.line)
  BY DEF Editor, Line
<1> QED BY <1>1, TextLen DEF Have

LEMMA RedrawEdits ==
  ASSUME NEW e, Editor(e), NEW was \in Nat PROVE Editor(Redraw(e, was)) /\ Alone(e, Redraw(e, was))
<1> DEFINE pos == e.con.pos
           n == Greater(was, Have(e))
           rest == SubSeq(e.con.line, pos + 1, Have(e))
           gap == [i \in 1 .. n - Have(e) |-> " "]
           a == Draw(e, rest)
           b == Draw(a, gap)
           m == Move(b, n, pos)
<1>1. Redraw(e, was) = m
  BY DEF Redraw
<1>2. IsText(rest)
  <2>1. IsText(e.con.line) /\ Have(e) = Len(e.con.line) /\ pos + 1 \in 1 .. Have(e) + 1 /\ Have(e) \in pos + 1 - 1 .. Have(e)
    BY LineOf
  <2> HIDE DEF pos
  <2> QED BY <2>1, TextPart
<1>3. IsText(gap)
  <2>1. n - Have(e) \in Nat
    BY LineOf DEF Greater
  <2>2. gap = [i \in 1 .. n - Have(e) |-> gap[i]]
    OBVIOUS
  <2> HIDE DEF gap, n
  <2> QED BY <2>1, <2>2, TextFull
<1> HIDE DEF rest, gap, n, pos
<1>4. Editor(a) /\ Alone(e, a)
  BY <1>2, DrawEdits
<1> HIDE DEF a
<1>5. Editor(b) /\ Alone(a, b)
  BY <1>3, <1>4, DrawEdits
<1> HIDE DEF b
<1>6. Editor(m) /\ Alone(b, m)
  BY <1>5, MoveEdits
<1> HIDE DEF m
<1> QED BY <1>1, <1>4, <1>5, <1>6 DEF Alone

\* Another line, with the cursor elsewhere in it.
LEMMA NewLine ==
  ASSUME NEW e, Editor(e), NEW line, IsText(line), NEW pos \in 0 .. Len(line)
  PROVE  LET f == [e EXCEPT !.con.line = line, !.con.pos = pos]
         IN Editor(f) /\ Still(e, f) /\ f.con.line = line /\ f.con.pos = pos
<1> DEFINE c == [e.con EXCEPT !.line = line, !.pos = pos]
           f == [e EXCEPT !.con = c]
<1>1. [e EXCEPT !.con.line = line, !.con.pos = pos] = f
  BY DEF Editor, EditFields
<1>2. /\ c = [x \in ConFields |-> c[x]] /\ c.line = line /\ c.pos = pos /\ c.history = e.con.history
      /\ \A x \in ConFields \ {"line", "pos"} : c[x] = e.con[x]
  BY DEF Editor, Line, ConFields
<1> HIDE DEF c
<1>3. f = [x \in EditFields |-> f[x]] /\ f.con = c /\ f.reader = e.reader /\ f.truth = e.truth /\ f.out = e.out
  BY DEF Editor, EditFields
<1> HIDE DEF f
<1>4. Line(c) /\ Asking(f.reader, c)
  BY <1>2, <1>3 DEF Editor, Line, Asking
<1>5. Editor(f) /\ Still(e, f)
  BY <1>2, <1>3, <1>4 DEF Editor, Still
<1> QED BY <1>1, <1>2, <1>3, <1>5, Zenon

LEMMA StillOn == ASSUME NEW e, NEW f, NEW g, Still(e, f), Still(f, g) PROVE Still(e, g)
BY DEF Still

LEMMA NewPlace ==
  ASSUME NEW e, Editor(e), NEW pos \in 0 .. Have(e)
  PROVE  LET f == [e EXCEPT !.con.pos = pos] IN Editor(f) /\ Still(e, f) /\ f.con.line = e.con.line /\ f.con.pos = pos
<1> DEFINE line == e.con.line
           f == [e EXCEPT !.con.line = line, !.con.pos = pos]
<1>1. [e EXCEPT !.con.pos = pos] = f
  BY DEF Editor, EditFields, Line, ConFields
<1>2. IsText(line) /\ pos \in 0 .. Len(line)
  BY LineOf
<1> HIDE DEF line
<1>3. Editor(f) /\ Still(e, f)
  BY <1>2, NewLine
<1>4. f.con.line = line /\ f.con.pos = pos
  BY DEF Editor, EditFields, Line, ConFields
<1> HIDE DEF f
<1> QED BY <1>1, <1>3, <1>4 DEF line

LEMMA InsertEdits ==
  ASSUME NEW e, Editor(e), NEW text, IsText(text) PROVE Editor(Insert(e, text)) /\ Still(e, Insert(e, text))
<1>1. CASE Have(e) + Len(text) >= LINE_MAX
  BY <1>1 DEF Insert, Still
<1>2. CASE ~(Have(e) + Len(text) >= LINE_MAX)
  <2> DEFINE line == e.con.line
             p == e.con.pos
             before == SubSeq(line, 1, p)
             after == SubSeq(line, p + 1, Len(line))
             new == before \o text \o after
             q == p + Len(text)
             f == [e EXCEPT !.con.line = new, !.con.pos = q]
             g == Draw(f, text)
             h == Redraw(g, Have(f))
  <2>1. Insert(e, text) = h
    <3>1. [e EXCEPT !.con.line = SubSeq(@, 1, p) \o text \o SubSeq(@, p + 1, Len(@)), !.con.pos = p + Len(text)] = f
      BY DEF Editor, EditFields, Line, ConFields
    <3> HIDE DEF f
    <3> QED BY <1>2, <3>1 DEF Insert
  <2>2. IsText(line) /\ p \in 0 .. Len(line) /\ p \in Nat /\ Len(line) \in Nat /\ Len(text) \in Nat
    BY LineOf, TextLen
  <2> HIDE DEF line, p
  <2>3. IsText(before) /\ Len(before) = p /\ IsText(after) /\ Len(after) = Len(line) - p
    <3>1. 1 \in 1 .. Len(line) + 1 /\ p \in 1 - 1 .. Len(line) /\ p + 1 \in 1 .. Len(line) + 1 /\ Len(line) \in p + 1 - 1 .. Len(line)
      BY <2>2
    <3>2. IsText(before) /\ Len(before) = p - 1 + 1
      BY <2>2, <3>1, TextPart
    <3>3. IsText(after) /\ Len(after) = Len(line) - (p + 1) + 1
      BY <2>2, <3>1, TextPart
    <3> HIDE DEF before, after
    <3> QED BY <2>2, <3>2, <3>3
  <2> HIDE DEF before, after
  <2>4. IsText(new) /\ Len(new) = Len(line) + Len(text)
    <3> DEFINE s == before \o text
    <3>1. IsText(s) /\ Len(s) = p + Len(text)
      BY <2>3, TextOn
    <3> HIDE DEF s
    <3>2. IsText(s \o after) /\ Len(s \o after) = Len(s) + Len(after)
      BY <2>3, <3>1, TextOn
    <3>3. new = s \o after
      BY DEF s
    <3> DEFINE m == Len(new)
    <3>4. IsText(new)
      BY <3>2, <3>3
    <3>5. m = Len(s) + Len(after)
      BY <3>2, <3>3
    <3> HIDE DEF new, m
    <3>6. m = Len(line) + Len(text)
      BY <2>2, <2>3, <3>1, <3>5
    <3> QED BY <3>4, <3>6 DEF m
  <2> HIDE DEF new
  <2>5. q \in 0 .. Len(new)
    BY <2>2, <2>4
  <2> HIDE DEF q
  <2>6. Editor(f) /\ Still(e, f)
    BY <2>4, <2>5, NewLine
  <2> HIDE DEF f
  <2>7. Editor(g) /\ Alone(f, g)
    BY <2>6, DrawEdits
  <2> HIDE DEF g
  <2>8. Have(f) \in Nat
    BY <2>6, LineOf
  <2>9. Editor(h) /\ Alone(g, h)
    BY <2>7, <2>8, RedrawEdits
  <2> HIDE DEF h
  <2>10. Still(e, h)
    BY <2>6, <2>7, <2>9, AloneStill, StillOn
  <2> QED BY <2>1, <2>9, <2>10
<1> QED BY <1>1, <1>2

LEMMA RemovedText ==
  ASSUME NEW s, IsText(s), NEW at \in 1 .. Len(s) PROVE IsText(RemoveAt(s, at)) /\ Len(RemoveAt(s, at)) = Len(s) - 1
<1> DEFINE a == SubSeq(s, 1, at - 1)
           b == SubSeq(s, at + 1, Len(s))
<1>1. RemoveAt(s, at) = a \o b
  BY DEF RemoveAt
<1>2. Len(s) \in Nat /\ 1 \in 1 .. Len(s) + 1 /\ at - 1 \in 1 - 1 .. Len(s) /\ at + 1 \in 1 .. Len(s) + 1 /\ Len(s) \in at + 1 - 1 .. Len(s)
  BY TextLen
<1>3. IsText(a) /\ Len(a) = (at - 1) - 1 + 1
  BY <1>2, TextPart
<1>4. IsText(b) /\ Len(b) = Len(s) - (at + 1) + 1
  BY <1>2, TextPart
<1> HIDE DEF a, b
<1>5. IsText(a \o b) /\ Len(a \o b) = Len(a) + Len(b)
  BY <1>3, <1>4, TextOn
<1> QED BY <1>1, <1>2, <1>3, <1>4, <1>5

LEMMA EraseAtEdits ==
  ASSUME NEW e, Editor(e), NEW at \in 0 .. Have(e) - 1 PROVE Editor(EraseAt(e, at)) /\ Still(e, EraseAt(e, at))
<1> DEFINE f == Move(e, e.con.pos, at)
           line == RemoveAt(f.con.line, at + 1)
           g == [f EXCEPT !.con.line = line, !.con.pos = at]
           h == Redraw(g, Have(e))
<1>1. Editor(f) /\ Alone(e, f)
  BY MoveEdits
<1>2. EraseAt(e, at) = h
  <2>1. EraseAt(e, at) = Redraw([f EXCEPT !.con.pos = at, !.con.line = RemoveAt(@, at + 1)], Have(e))
    BY DEF EraseAt
  <2> HIDE DEF f
  <2>2. [f EXCEPT !.con.pos = at, !.con.line = RemoveAt(@, at + 1)] = g
    BY <1>1 DEF Editor, EditFields, Line, ConFields
  <2> HIDE DEF g
  <2> QED BY <2>1, <2>2
<1> HIDE DEF f
<1>3. Have(f) = Have(e) /\ Have(e) \in Nat
  BY <1>1, LineOf DEF Alone, Have
<1>4. IsText(line) /\ at \in 0 .. Len(line)
  <2>1. IsText(f.con.line) /\ at + 1 \in 1 .. Len(f.con.line)
    BY <1>1, <1>3, LineOf
  <2>2. IsText(line) /\ Len(line) = Len(f.con.line) - 1
    BY <2>1, RemovedText
  <2> HIDE DEF line
  <2> QED BY <1>1, <1>3, <2>2, LineOf
<1> HIDE DEF line
<1>5. Editor(g) /\ Still(f, g)
  BY <1>1, <1>4, NewLine
<1> HIDE DEF g
<1>6. Editor(h) /\ Alone(g, h)
  BY <1>3, <1>5, RedrawEdits
<1> HIDE DEF h
<1> QED BY <1>1, <1>2, <1>5, <1>6, AloneStill, StillOn

LEMMA ReplaceLineEdits ==
  ASSUME NEW e, Editor(e), NEW text, IsText(text) PROVE Editor(ReplaceLine(e, text)) /\ Still(e, ReplaceLine(e, text))
<1> DEFINE zero == 0
           n == Len(text)
           f == Move(e, e.con.pos, zero)
           f1 == [f EXCEPT !.con.line = text, !.con.pos = zero]
           g == Redraw(f1, Have(e))
           m == Move(g, zero, n)
           x == [m EXCEPT !.con.pos = n]
<1>1. Editor(f) /\ Alone(e, f)
  BY MoveEdits
<1>2. ReplaceLine(e, text) = x
  <2>1. ReplaceLine(e, text) = [Move(Redraw([f EXCEPT !.con.pos = zero, !.con.line = text], Have(e)), zero, n) EXCEPT !.con.pos = n]
    BY DEF ReplaceLine
  <2> HIDE DEF f, zero, n
  <2>2. [f EXCEPT !.con.pos = zero, !.con.line = text] = f1
    BY <1>1 DEF Editor, EditFields, Line, ConFields
  <2> HIDE DEF f1
  <2> QED BY <2>1, <2>2
<1>3. n \in Nat /\ zero \in 0 .. Len(text) /\ Have(e) \in Nat
  BY TextLen, LineOf
<1> HIDE DEF f, zero
<1>4. Editor(f1) /\ Still(f, f1)
  BY <1>1, <1>3, NewLine
<1>9. f1.con.line = text
  BY <1>1 DEF Editor, EditFields, Line, ConFields
<1> HIDE DEF f1
<1>5. Editor(g) /\ Alone(f1, g)
  BY <1>3, <1>4, RedrawEdits
<1> HIDE DEF g
<1>6. Editor(m) /\ Alone(g, m)
  BY <1>5, MoveEdits
<1> HIDE DEF m
<1>7. n \in 0 .. Have(m)
  BY <1>3, <1>9, <1>5, <1>6 DEF Alone, Have
<1> HIDE DEF n
<1>8. Editor(x) /\ Still(m, x)
  BY <1>6, <1>7, NewPlace
<1> HIDE DEF x
<1> QED BY <1>1, <1>2, <1>4, <1>5, <1>6, <1>8, AloneStill, StillOn

LEMMA EraseBeforeEdits == ASSUME NEW e, Editor(e) PROVE Editor(EraseBefore(e)) /\ Still(e, EraseBefore(e))
<1> DEFINE zero == 0
           n == e.con.pos
           f == Move(e, n, zero)
           line == SubSeq(f.con.line, n + 1, Len(f.con.line))
           g == [f EXCEPT !.con.line = line, !.con.pos = zero]
           h == Redraw(g, Have(e))
<1>1. Editor(f) /\ Alone(e, f)
  BY MoveEdits
<1>2. EraseBefore(e) = h
  <2>1. EraseBefore(e) = Redraw([f EXCEPT !.con.pos = zero, !.con.line = SubSeq(@, n + 1, Len(@))], Have(e))
    BY DEF EraseBefore
  <2> HIDE DEF f, zero
  <2>2. [f EXCEPT !.con.pos = zero, !.con.line = SubSeq(@, n + 1, Len(@))] = g
    BY <1>1 DEF Editor, EditFields, Line, ConFields
  <2> HIDE DEF g
  <2> QED BY <2>1, <2>2
<1> HIDE DEF f
<1>3. f.con.line = e.con.line /\ n \in 0 .. Len(f.con.line) /\ IsText(f.con.line) /\ Len(f.con.line) \in Nat /\ Have(e) \in Nat
  BY <1>1, LineOf DEF Alone
<1> HIDE DEF n
<1>4. IsText(line) /\ zero \in 0 .. Len(line)
  <2>1. n + 1 \in 1 .. Len(f.con.line) + 1 /\ Len(f.con.line) \in n + 1 - 1 .. Len(f.con.line)
    BY <1>3
  <2>2. IsText(line)
    BY <1>3, <2>1, TextPart
  <2> HIDE DEF line
  <2> QED BY <2>2, TextLen
<1> HIDE DEF line, zero
<1>5. Editor(g) /\ Still(f, g)
  BY <1>1, <1>4, NewLine
<1> HIDE DEF g
<1>6. Editor(h) /\ Alone(g, h)
  BY <1>3, <1>5, RedrawEdits
<1> HIDE DEF h
<1> QED BY <1>1, <1>2, <1>5, <1>6, AloneStill, StillOn

LEMMA GoToEdits == ASSUME NEW e, Editor(e), NEW to \in 0 .. Have(e) PROVE Editor(GoTo(e, to)) /\ Still(e, GoTo(e, to))
<1> DEFINE m == Move(e, e.con.pos, to)
           x == [m EXCEPT !.con.pos = to]
<1>1. GoTo(e, to) = x
  BY DEF GoTo
<1>2. Editor(m) /\ Alone(e, m)
  BY MoveEdits
<1> HIDE DEF m
<1>3. to \in 0 .. Have(m)
  BY <1>2 DEF Alone, Have
<1>4. Editor(x) /\ Still(m, x)
  BY <1>2, <1>3, NewPlace
<1> HIDE DEF x
<1> QED BY <1>1, <1>2, <1>4, AloneStill, StillOn

\* Completion.
LEMMA TextAny ==
  ASSUME NEW s, IsText(s), NEW m \in Nat \ {0}, NEW n \in 0 .. Len(s) PROVE IsText(SubSeq(s, m, n))
<1>0. Len(s) \in Nat
  BY TextLen
<1>1. CASE m <= n
  <2>1. m \in 1 .. Len(s) + 1 /\ n \in m - 1 .. Len(s)
    BY <1>0, <1>1
  <2> QED BY <2>1, TextPart
<1>2. CASE ~(m <= n)
  <2>1. PICK A : s \in Seq(A)
    BY DEF IsText
  <2>2. SubSeq(s, m, n) \in Seq(A)
    BY <1>0, <1>2, <2>1
  <2> QED BY <2>2 DEF IsText
<1> QED BY <1>1, <1>2

LEMMA TwoIn == ASSUME NEW A, NEW a \in A, NEW b \in A PROVE <<a, b>> \in Seq(A) /\ <<>> \in Seq(A)
OBVIOUS

LEMMA AfterIn ==
  ASSUME NEW c, NEW line, NEW pos \in Nat, NEW least \in 0 .. pos PROVE After(c, line, pos, least) \in least .. pos
<1> DEFINE S == {least} \cup {i \in least + 1 .. pos : line[i] = c}
<1>1. S \subseteq 0 .. pos /\ S # {} /\ S \subseteq least .. pos
  OBVIOUS
<1>2. After(c, line, pos, least) = Max(S)
  BY DEF After
<1> HIDE DEF S
<1>3. Max(S) \in S
  BY <1>1, MaxIn
<1> QED BY <1>1, <1>2, <1>3

LEMMA WordText ==
  ASSUME NEW e, Editor(e), setup \in Setups
  PROVE  Word(e.con).names \in Seq(Seq(STRING)) /\ IsText(Word(e.con).typed)
<1> DEFINE c == e.con
           word == After(" ", c.line, c.pos, 0)
           slash == After("/", c.line, c.pos, word)
           command == slash = word /\ \A i \in 1 .. word : c.line[i] = " "
           dir == SubSeq(c.line, word + 1, slash)
           typed == SubSeq(c.line, slash + 1, c.pos)
           names == IF slash > word /\ dir \notin setup.Dirs THEN <<>> ELSE IF command THEN setup.Commands ELSE setup.Files
           found == slash = word \/ dir \in setup.Dirs
<1>1. Word(c) = [from |-> word, typed |-> typed, command |-> command, names |-> names, found |-> found]
  BY DEF Word
<1>2. IsText(c.line) /\ c.pos \in 0 .. Len(c.line) /\ c.pos \in Nat /\ Len(c.line) \in Nat
  BY LineOf, TextLen
<1> HIDE DEF c
<1>3. word \in 0 .. c.pos
  <2>1. 0 \in 0 .. c.pos
    BY <1>2
  <2> QED BY <1>2, <2>1, AfterIn
<1> HIDE DEF word
<1>4. slash \in word .. c.pos
  BY <1>2, <1>3, AfterIn
<1> HIDE DEF slash
<1>5. IsText(typed)
  <2> DEFINE m == slash + 1
  <2>1. m \in Nat \ {0}
    BY <1>2, <1>3, <1>4
  <2> HIDE DEF m
  <2>2. IsText(SubSeq(c.line, m, c.pos))
    BY <1>2, <2>1, TextAny
  <2> QED BY <2>2 DEF m
<1>6. setup.Commands \in Seq(Seq(STRING)) /\ setup.Files \in Seq(Seq(STRING))
  BY NamesAssumption
<1> HIDE DEF dir, command
<1>7. names \in Seq(Seq(STRING))
  <2> DEFINE nil == <<>>
             T == Seq(STRING)
  <2>1. nil \in Seq(T)
    OBVIOUS
  <2>2. setup.Commands \in Seq(T) /\ setup.Files \in Seq(T)
    BY <1>6
  <2>3. names = IF slash > word /\ dir \notin setup.Dirs THEN nil ELSE IF command THEN setup.Commands ELSE setup.Files
    OBVIOUS
  <2> HIDE DEF nil, T, names
  <2>4. names \in Seq(T)
    BY <2>1, <2>2, <2>3
  <2> QED BY <2>4 DEF T
<1> HIDE DEF typed, names, found
<1>8. Word(c).names = names /\ Word(c).typed = typed
  BY <1>1
<1> QED BY <1>5, <1>7, <1>8 DEF c

LEMMA CommonText ==
  ASSUME NEW names \in Seq(Seq(STRING)), NEW typed, Matches(names, typed) # {}
  PROVE  IsText(Common(names, Matches(names, typed)))
<1> DEFINE ms == Matches(names, typed)
           first == names[Min(ms)]
           S == {k \in 0 .. Len(first) : \A i \in ms : IsPrefix(SubSeq(first, 1, k), names[i])}
           k == Max(S)
<1>1. ms \subseteq DOMAIN names /\ ms \subseteq Nat /\ ms # {}
  BY DEF Matches
<1>2. Min(ms) \in ms
  <2> HIDE DEF ms
  <2> QED BY <1>1, MinIn
<1>3. first \in Seq(STRING) /\ \A i \in ms : names[i] \in Seq(STRING)
  <2> HIDE DEF ms
  <2> QED BY <1>1, <1>2
<1>4. Common(names, ms) = SubSeq(first, 1, k)
  BY DEF Common
<1> HIDE DEF ms, first
<1>5. 0 \in S
  <2>1. SubSeq(first, 1, 0) = <<>>
    BY <1>3
  <2>2. ASSUME NEW i \in ms PROVE IsPrefix(<<>>, names[i])
    BY <1>3, <2>2 DEF IsPrefix
  <2>3. 0 \in 0 .. Len(first)
    BY <1>3
  <2>4. ASSUME NEW i \in ms PROVE IsPrefix(SubSeq(first, 1, 0), names[i])
    BY <2>1, <2>2, Zenon
  <2> QED BY <2>3, <2>4
<1>6. S \subseteq 0 .. Len(first) /\ Len(first) \in Nat /\ S # {}
  BY <1>3, <1>5
<1> HIDE DEF S
<1>7. k \in 0 .. Len(first)
  BY <1>6, MaxIn
<1> HIDE DEF k
<1>8. IsText(first)
  BY <1>3 DEF IsText
<1>9. IsText(SubSeq(first, 1, k))
  BY <1>7, <1>8, TextAny
<1> QED BY <1>4, <1>9 DEF ms

LEMMA CompleteEdits ==
  ASSUME NEW e, Editor(e), setup \in Setups PROVE Editor(Complete(e)) /\ Still(e, Complete(e))
<1> DEFINE w == Word(e.con)
           ms == Matches(w.names, w.typed)
           common == Common(w.names, ms)
           more == SubSeq(common, Len(w.typed) + 1, Len(common))
           f == Insert(e, more)
           dir == SubSeq(f.con.line, w.from + 1, f.con.pos)
           end == IF ~w.command /\ dir \in setup.Links THEN <<"/">> ELSE <<" ">>
           g == Insert(f, end)
           done == Cardinality(ms) = 1 /\ (common = <<>> \/ Last(common) # "/")
<1>1. Complete(e) = IF ms = {} THEN e ELSE IF done THEN g ELSE f
  BY DEF Complete
<1>2. w.names \in Seq(Seq(STRING)) /\ IsText(w.typed)
  BY WordText
<1> HIDE DEF w
<1>3. CASE ms = {}
  BY <1>1, <1>3 DEF Still
<1>4. CASE ms # {}
  <2>1. IsText(common)
    BY <1>2, <1>4, CommonText
  <2> HIDE DEF ms, common
  <2>2. IsText(more)
    <3>1. Len(w.typed) + 1 \in Nat \ {0} /\ Len(common) \in 0 .. Len(common)
      BY <1>2, <2>1, TextLen
    <3> QED BY <2>1, <3>1, TextAny
  <2> HIDE DEF more
  <2>3. Editor(f) /\ Still(e, f)
    BY <2>2, InsertEdits
  <2> HIDE DEF f, dir
  <2>4. IsText(end)
    BY OneText
  <2> HIDE DEF end
  <2>5. Editor(g) /\ Still(f, g)
    BY <2>3, <2>4, InsertEdits
  <2> HIDE DEF g, done
  <2> QED BY <1>1, <1>4, <2>3, <2>5, StillOn
<1> QED BY <1>3, <1>4

LEMMA ListEdits ==
  ASSUME NEW e, Editor(e), setup \in Setups PROVE Editor(ListChoices(e)) /\ Still(e, ListChoices(e))
<1> DEFINE w == Word(e.con)
           at == At(vga)
           start == at.cursor - e.con.pos
           shown == [i \in 1 .. start % at.width |-> at.screen[start - (start % at.width) + i - 1][1]]
           prompt == IF start < 0 THEN <<>> ELSE shown
           ms == Matches(w.names, w.typed)
           seqs == [i \in DOMAIN w.names |-> IF i \in ms THEN w.names[i] \o <<" ", " ">> ELSE <<>>]
           listed == FlattenSeq(seqs)
           feed == <<"LF">>
           text == feed \o listed \o feed \o prompt \o e.con.line
           m == Move(e, e.con.pos, Have(e))
           f == Draw(m, text)
           x == Move(f, Have(e), e.con.pos)
<1>1. ListChoices(e) = IF ~w.found THEN e ELSE x
  BY DEF ListChoices
<1>3. w.names \in Seq(Seq(STRING))
  BY WordText
<1> HIDE DEF w
<1>4. IsText(listed)
  <2> HIDE DEF ms
  <2> DEFINE sp == " "
             A == STRING \cup {sp}
             pad == <<sp, sp>>
             nil == <<>>
             T == Seq(A)
  <2>1. pad \in T /\ nil \in T
    <3>1. sp \in A
      OBVIOUS
    <3> HIDE DEF sp, A
    <3> QED BY <3>1, TwoIn
  <2>2. \A i \in 1 .. Len(w.names) : w.names[i] \in T
    <3>1. STRING \subseteq A
      OBVIOUS
    <3>2. \A i \in 1 .. Len(w.names) : w.names[i] \in Seq(STRING)
      BY <1>3
    <3> HIDE DEF A
    <3> QED BY <3>1, <3>2, TextWider
  <2>3. seqs = [i \in 1 .. Len(w.names) |-> IF i \in ms THEN w.names[i] \o pad ELSE nil]
    <3>1. DOMAIN w.names = 1 .. Len(w.names)
      BY <1>3
    <3> QED BY <3>1, Zenon
  <2>4. Len(w.names) \in Nat
    BY <1>3
  <2> HIDE DEF seqs, pad, nil, sp, A
  <2>5. \A i \in 1 .. Len(w.names) : w.names[i] \o pad \in T
    BY <2>1, <2>2, ConcatIs
  <2> HIDE DEF T
  <2>6. \A i \in 1 .. Len(w.names) : seqs[i] \in T
    BY <2>1, <2>3, <2>5
  <2>7. seqs = [i \in 1 .. Len(w.names) |-> seqs[i]]
    BY <2>3
  <2>8. seqs \in Seq(T)
    BY <2>4, <2>6, <2>7
  <2>9. FlattenSeq(seqs) \in Seq(A)
    BY <2>8, FlattenType DEF T
  <2> QED BY <2>9 DEF IsText
<1>5. Whole(vga) => IsText(prompt)
  <2> SUFFICES ASSUME Whole(vga) PROVE IsText(prompt)
    OBVIOUS
  <2>1. Whole(at)
    BY AtWhole
  <2> HIDE DEF at
  <2>2. at.cursor \in Int /\ at.width \in Nat \ {0} /\ e.con.pos \in Nat
    BY SMTT(60), <2>1, LineOf DEF Whole, Good, Placed, Cells, Grid
  <2>3. CASE start < 0
    BY <2>3, NoText
  <2>4. CASE ~(start < 0)
    <3>1. start \in Nat
      BY <2>2, <2>4
    <3> DEFINE n == start % at.width
    <3>2. n \in Nat
      <4> HIDE DEF start
      <4> QED BY <2>2, <3>1, DivMod
    <3>3. shown = [i \in 1 .. n |-> shown[i]]
      OBVIOUS
    <3> HIDE DEF n, shown
    <3>4. IsText(shown)
      BY <3>2, <3>3, TextFull
    <3> HIDE DEF start
    <3> QED BY <2>4, <3>4
  <2> QED BY <2>3, <2>4
<1> HIDE DEF at, start, prompt, ms, seqs, listed
<1>6. Whole(vga) => IsText(text)
  <2> SUFFICES ASSUME Whole(vga) PROVE IsText(text)
    OBVIOUS
  <2>1. IsText(feed) /\ IsText(e.con.line)
    BY OneText, LineOf
  <2> HIDE DEF feed
  <2>2. IsText(feed \o listed)
    BY <1>4, <2>1, TextOn
  <2>3. IsText((feed \o listed) \o feed)
    BY <2>1, <2>2, TextOn
  <2>4. IsText(((feed \o listed) \o feed) \o prompt)
    BY <1>5, <2>3, TextOn
  <2> QED BY <2>1, <2>4, TextOn
<1> HIDE DEF text
<1>7. Editor(m) /\ Alone(e, m)
  BY MoveEdits
<1> HIDE DEF m
<1>8. Editor(f) /\ Alone(m, f)
  BY <1>6, <1>7, DrawEdits
<1> HIDE DEF f
<1>9. Editor(x) /\ Alone(f, x)
  BY <1>8, MoveEdits
<1> HIDE DEF x
<1>10. Alone(e, x)
  BY <1>7, <1>8, <1>9 DEF Alone
<1>11. Still(e, x) /\ Still(e, e)
  BY <1>10, AloneStill DEF Still
<1> QED BY <1>1, <1>9, <1>11

----------------------------------------------------------------------------
(* Keys, and what becomes of a read.                                       *)

\* What a read is owed: the line being edited is nobody's yet, and of one that was entered what was handed out
\* is its beginning and what was not is still there.  `lost' is when a line never entered may be taken for one.
EditPlaces == {"line", "esc", "csi", "num"}
TruthFields == {"clean", "prompt", "entered", "had", "lost"}

Owes(c) == c.ready \in Nat /\ c.handed \in 0 .. c.ready
Honest(t) == t = [x \in TruthFields |-> t[x]] /\ IsText(t.entered)
HandedOut(c, t) ==
  t.lost \/ (/\ t.had = SubSeq(t.entered, 1, c.handed)
             /\ c.ready > 0 => c.ready = Len(t.entered) /\ c.line = t.entered)
Reading(c, r, t) ==
  /\ Owes(c) /\ Honest(t) /\ (r.at # "none" => r.count \in Nat)
  /\ IF r.at \in EditPlaces THEN c.handed = 0 /\ t.had = <<>> ELSE HandedOut(c, t)

Rightly(e) == Reading(e.con, e.reader, e.truth)
\* f is what e becomes, with what it owes.
Brings(e, f) == Editor(f) /\ (Rightly(e) => Rightly(f))

LEMMA EditedBrings ==
  ASSUME NEW e, NEW f, Edited(e, f), e.reader.at \in EditPlaces, f.reader.at \in EditPlaces PROVE Brings(e, f)
<1>1. e.reader.at # "none"
  BY DEF EditPlaces
<1>2. Rightly(e) => Rightly(f)
  BY <1>1 DEF Edited, Onward, Rightly, Reading, Owes
<1> QED BY <1>2 DEF Brings, Edited

LEMMA MorePart ==
  ASSUME NEW E, IsText(E), NEW h \in 0 .. Len(E), NEW n \in 0 .. Len(E) - h
  PROVE  SubSeq(E, 1, h) \o [k \in 1 .. n |-> E[h + k]] = SubSeq(E, 1, h + n)
<1>1. PICK A : E \in Seq(A)
  BY DEF IsText
<1>2. Len(E) \in Nat
  BY <1>1
<1> DEFINE new == [k \in 1 .. n |-> E[h + k]]
           one == 1
           a == SubSeq(E, one, h)
           m == h + n
           b == SubSeq(E, one, m)
<1>3. n \in Nat /\ h \in Nat /\ m \in Nat /\ m <= Len(E) /\ h <= Len(E) /\ one = 1
  BY <1>2
<1>4. new \in Seq(A) /\ Len(new) = n /\ \A k \in 1 .. n : new[k] = E[h + k]
  <2>1. \A k \in 1 .. n : E[h + k] \in A
    BY <1>1, <1>2
  <2> QED BY <1>3, <2>1
<1> HIDE DEF one, new, m
<1>5. a \in Seq(A) /\ Len(a) = h /\ \A k \in 1 .. h : a[k] = E[k]
  BY <1>1, <1>3
<1>6. b \in Seq(A) /\ Len(b) = m /\ \A k \in 1 .. m : b[k] = E[k]
  BY <1>1, <1>3
<1> HIDE DEF a, b
<1> DEFINE c == a \o new
<1>7. c \in Seq(A) /\ Len(c) = h + n /\ \A k \in 1 .. h + n : c[k] = IF k <= h THEN a[k] ELSE new[k - h]
  BY ZenonT(60), <1>3, <1>4, <1>5, ConcatAt, ConcatIs
<1> HIDE DEF c
<1>8. \A k \in 1 .. m : c[k] = b[k]
  <2>1. ASSUME NEW k \in 1 .. m PROVE c[k] = b[k]
    <3>1. CASE k <= h
      <4>1. k \in 1 .. h /\ k \in 1 .. h + n
        BY <1>3, <2>1, <3>1 DEF m
      <4> QED BY <1>5, <1>6, <1>7, <2>1, <3>1, <4>1
    <3>2. CASE ~(k <= h)
      <4>1. k - h \in 1 .. n /\ h + (k - h) = k
        BY <1>3, <2>1, <3>2 DEF m
      <4>2. new[k - h] = E[h + (k - h)]
        BY <1>4, <4>1
      <4> QED BY <1>3, <1>6, <1>7, <2>1, <3>2, <4>1, <4>2 DEF m
    <3> QED BY <3>1, <3>2
  <2> QED BY <2>1
<1>9. c = b
  BY <1>6, <1>7, <1>8 DEF m
<1> QED BY <1>9 DEF a, b, c, new, m, one

\* The console and what is to be drawn, whoever reads.
Writer(e) == e = [f \in EditFields |-> e[f]] /\ Line(e.con) /\ (Whole(vga) => Said(e.out))

LEMMA Assembled ==
  ASSUME NEW e, Writer(e), NEW c, Line(c), NEW r, Asking(r, c), NEW t
  PROVE  Editor([e EXCEPT !.con = c, !.reader = r, !.truth = t])
<1> DEFINE f == [e EXCEPT !.con = c, !.reader = r, !.truth = t]
<1>1. f = [x \in EditFields |-> f[x]] /\ f.con = c /\ f.reader = r /\ f.out = e.out
  BY DEF Writer, EditFields
<1> HIDE DEF f
<1>2. Editor(f)
  BY <1>1 DEF Writer, Editor
<1> QED BY <1>2 DEF f

LEMMA ReaderEdits ==
  ASSUME NEW e, Editor(e), NEW r, Asking(r, e.con)
  PROVE  LET f == [e EXCEPT !.reader = r] IN Editor(f) /\ f.con = e.con /\ f.reader = r /\ f.truth = e.truth
<1> DEFINE f == [e EXCEPT !.reader = r]
<1>1. f = [x \in EditFields |-> f[x]] /\ f.con = e.con /\ f.reader = r /\ f.out = e.out /\ f.truth = e.truth
  BY DEF Editor, EditFields
<1> HIDE DEF f
<1>2. Editor(f)
  BY <1>1 DEF Editor
<1> QED BY <1>1, <1>2 DEF f

LEMMA NoReaderAsks == ASSUME NEW c, Line(c) PROVE Asking(NoReader, c)
<1> DEFINE no == FALSE
           nil == <<>>
           zero == 0
           none == "none"
           r == [at |-> none, busy |-> no, back |-> zero, tabbed |-> no, digit |-> NoKey, count |-> zero, got |-> nil]
<1>1. NoReader = r
  BY DEF NoReader
<1>2. Len(c.history) \in Nat
  BY TextLen DEF Line
<1>3. none \in Places /\ zero \in 0 .. Len(c.history)
  BY <1>2 DEF Places
<1> HIDE DEF no, nil, zero, none
<1>4. r = [f \in ReaderFields |-> r[f]] /\ r.at = none /\ r.back = zero
  BY DEF ReaderFields
<1> HIDE DEF r
<1> QED BY <1>1, <1>3, <1>4 DEF Asking

\* A console that differs in nothing a line is about.
LEMMA LineSame ==
  ASSUME NEW c, Line(c), NEW d, d = [f \in ConFields |-> d[f]], d.line = c.line, d.pos = c.pos, d.history = c.history
  PROVE  Line(d) /\ \A r : Asking(r, c) => Asking(r, d)
BY DEF Line, Asking

LEMMA HandOutEdits ==
  ASSUME NEW e, Writer(e)
  PROVE  /\ Editor(HandOut(e))
         /\ Owes(e.con) /\ Honest(e.truth) /\ e.reader.count \in Nat /\ HandedOut(e.con, e.truth) => Rightly(HandOut(e))
<1> DEFINE n == Lesser(e.con.ready - e.con.handed, e.reader.count)
           got == [k \in 1 .. n |-> IF e.con.handed + k <= Have(e) THEN e.con.line[e.con.handed + k] ELSE "old"]
           h == e.con.handed + n
           c == [e.con EXCEPT !.handed = h]
           t == [e.truth EXCEPT !.had = @ \o got]
           f == [e EXCEPT !.con = c, !.reader = NoReader, !.truth = t]
<1>1. HandOut(e) = f
  <2>1. HandOut(e) = [e EXCEPT !.con.handed = @ + n, !.reader = NoReader, !.truth.had = @ \o got]
    BY DEF HandOut
  <2> HIDE DEF n, got
  <2> QED BY <2>1 DEF Writer, EditFields, Line, ConFields
<1> DEFINE Owed == Owes(e.con) /\ Honest(e.truth) /\ e.reader.count \in Nat /\ HandedOut(e.con, e.truth)
<1>a. Owed => n \in 0 .. e.con.ready - e.con.handed
  BY DEF Owes, Lesser
<1>b. Owed => t = [x \in TruthFields |-> t[x]] /\ t.entered = e.truth.entered /\ t.lost = e.truth.lost /\ t.had = e.truth.had \o got
  <2> HIDE DEF got
  <2> QED BY DEF Honest, TruthFields
<1>c. Owed /\ ~e.truth.lost => t.had = SubSeq(e.truth.entered, 1, h)
  <2> SUFFICES ASSUME Owed, ~e.truth.lost PROVE t.had = SubSeq(e.truth.entered, 1, h)
    OBVIOUS
  <2> DEFINE E == e.truth.entered
             a == e.con.handed
             new == [k \in 1 .. n |-> E[a + k]]
  <2> HIDE DEF n
  <2>1. Len(E) \in Nat /\ IsText(E)
    BY TextLen DEF Honest
  <2>2. e.con.ready \in Nat /\ a \in 0 .. e.con.ready /\ e.truth.had = SubSeq(E, 1, a)
        /\ (e.con.ready > 0 => e.con.ready = Len(E) /\ e.con.line = E)
    BY DEF Owes, HandedOut
  <2>3. a \in 0 .. Len(E) /\ n \in 0 .. Len(E) - a
    <3>1. n \in 0 .. e.con.ready - a
      BY <1>a
    <3> HIDE DEF E, a
    <3>2. CASE e.con.ready > 0
      BY <2>1, <2>2, <3>1, <3>2
    <3>3. CASE e.con.ready = 0
      BY <2>1, <2>2, <3>1, <3>3
    <3> QED BY <2>2, <3>2, <3>3
  <2>4. got = new
    <3>1. ASSUME NEW k \in 1 .. n PROVE a + k <= Have(e) /\ e.con.line[a + k] = E[a + k]
      BY SMTT(60), <1>a, <2>1, <2>2, <2>3, <3>1 DEF Have
    <3> QED BY <3>1
  <2> HIDE DEF got, E, a, new
  <2>5. SubSeq(E, 1, a) \o new = SubSeq(E, 1, a + n)
    BY <2>1, <2>3, MorePart DEF new
  <2>6. t.had = SubSeq(E, 1, a) \o new
    BY <1>b, <2>2, <2>4 DEF E
  <2> QED BY <2>5, <2>6 DEF E, a
<1>d. Owed => h \in 0 .. e.con.ready /\ e.con.ready \in Nat
  <2> HIDE DEF n
  <2> QED BY <1>a DEF Owes
<1> HIDE DEF n, got, h, t
<1>2. c = [x \in ConFields |-> c[x]] /\ c.line = e.con.line /\ c.pos = e.con.pos /\ c.history = e.con.history
      /\ c.handed = h /\ c.ready = e.con.ready
  BY DEF Writer, Line, ConFields
<1> HIDE DEF c
<1>3. Line(c)
  BY <1>2, LineSame DEF Writer
<1>4. Asking(NoReader, c)
  BY <1>3, NoReaderAsks
<1>5. Editor(f)
  BY <1>3, <1>4, Assembled
<1>6. f.con = c /\ f.reader = NoReader /\ f.truth = t
  BY DEF Writer, EditFields
<1>7. NoReader.at = "none" /\ "none" \notin EditPlaces
  BY DEF NoReader, EditPlaces
<1> HIDE DEF f
<1>8. Owed => Rightly(f)
  BY <1>2, <1>6, <1>7, <1>b, <1>c, <1>d DEF Rightly, Reading, Owes, Honest, HandedOut
<1> QED BY <1>1, <1>5, <1>8

LEMMA PlainlyEdits == ASSUME NEW e, Editor(e) PROVE Edited(e, Plainly(e)) /\ Plainly(e).reader.at = "line"
<1> DEFINE no == FALSE
           line == "line"
           r == [e.reader EXCEPT !.at = line, !.tabbed = no]
           f == [e EXCEPT !.reader = r]
<1>1. Plainly(e) = f
  BY DEF Plainly, Editor, EditFields, Asking, ReaderFields
<1>2. line \in Places
  BY DEF Places
<1> HIDE DEF no
<1> SUFFICES Edited(e, f) /\ f.reader.at = line
  BY <1>1
<1> HIDE DEF line
<1>3. r = [x \in ReaderFields |-> r[x]] /\ r.at = line /\ r.back = e.reader.back /\ r.count = e.reader.count
  BY DEF Editor, Asking, ReaderFields
<1> HIDE DEF r
<1>4. Asking(r, e.con)
  BY <1>2, <1>3 DEF Editor, Asking
<1>5. Editor(f) /\ f.con = e.con /\ f.reader = r /\ f.truth = e.truth
  BY <1>4, ReaderEdits
<1> HIDE DEF f
<1> QED BY <1>3, <1>5 DEF Edited, Onward

LEMMA GoesEdits == ASSUME NEW e, Editor(e), NEW at \in Places PROVE Edited(e, Goes(e, at)) /\ Goes(e, at).reader.at = at
<1> DEFINE r == [e.reader EXCEPT !.at = at]
           f == [e EXCEPT !.reader = r]
<1>1. Goes(e, at) = f
  BY DEF Goes, Editor, EditFields, Asking, ReaderFields
<1>3. r = [x \in ReaderFields |-> r[x]] /\ r.at = at /\ r.back = e.reader.back /\ r.count = e.reader.count
  BY DEF Editor, Asking, ReaderFields
<1> HIDE DEF r
<1>4. Asking(r, e.con)
  BY <1>3 DEF Editor, Asking
<1>5. Editor(f) /\ f.con = e.con /\ f.reader = r /\ f.truth = e.truth
  BY <1>4, ReaderEdits
<1> HIDE DEF f
<1> QED BY <1>1, <1>3, <1>5 DEF Edited, Onward

\* Another of the past lines.
LEMMA BackEdits ==
  ASSUME NEW e, Editor(e), NEW text, IsText(text), NEW back \in 0 .. Len(e.con.history)
  PROVE  Edited(e, [ReplaceLine(e, text) EXCEPT !.reader.back = back])
<1> DEFINE g == ReplaceLine(e, text)
           r == [g.reader EXCEPT !.back = back]
           f == [g EXCEPT !.reader = r]
<1>1. Editor(g) /\ Still(e, g)
  BY ReplaceLineEdits
<1> HIDE DEF g
<1>2. [g EXCEPT !.reader.back = back] = f
  BY <1>1 DEF Editor, EditFields
<1>3. g.con.history = e.con.history
  BY <1>1 DEF Still, ConFields
<1>4. r = [x \in ReaderFields |-> r[x]] /\ r.at = g.reader.at /\ r.back = back /\ r.count = g.reader.count
  BY <1>1 DEF Editor, Asking, ReaderFields
<1> HIDE DEF r
<1>5. Asking(r, g.con)
  BY <1>1, <1>3, <1>4 DEF Editor, Asking
<1>6. Editor(f) /\ f.con = g.con /\ f.reader = r /\ f.truth = g.truth
  BY <1>1, <1>5, ReaderEdits
<1> HIDE DEF f
<1>7. Edited(e, g)
  BY <1>1, StillOnward
<1>8. Edited(e, f)
  BY <1>4, <1>6, <1>7 DEF Edited, Onward
<1> QED BY <1>2, <1>8 DEF g

LEMMA EditKeyEdits ==
  ASSUME NEW e, Editor(e), NEW key PROVE Edited(e, EditKey(e, key)) /\ EditKey(e, key).reader.at = "line"
<1> DEFINE c == e.con
           back == e.reader.back
           up == [ReplaceLine(e, Recalled(c, back + 1)) EXCEPT !.reader.back = back + 1]
           down == [ReplaceLine(e, IF back = 1 THEN <<>> ELSE Recalled(c, back - 1)) EXCEPT !.reader.back = back - 1]
           one == CASE key = "A" /\ Recalls(c, back + 1) -> up
                    [] key = "B" /\ back > 0 -> down
                    [] key = "C" /\ c.pos < Have(e) -> GoTo(e, c.pos + 1)
                    [] key = "D" /\ c.pos > 0 -> GoTo(e, c.pos - 1)
                    [] key \in {"H", "1", "7"} -> GoTo(e, 0)
                    [] key \in {"F", "4", "8"} -> GoTo(e, Have(e))
                    [] key = "3" /\ c.pos < Have(e) -> EraseAt(e, c.pos)
                    [] OTHER -> e
<1>1. EditKey(e, key) = Plainly(one)
  BY DEF EditKey
<1>2. back \in 0 .. Len(c.history) /\ Len(c.history) \in Nat /\ \A k \in 1 .. Len(c.history) : IsText(c.history[k])
  BY TextLen DEF Editor, Asking, Line
<1>3. c.pos \in 0 .. Have(e) /\ Have(e) \in Nat
  BY LineOf
<1>4. Recalls(c, back + 1) => Edited(e, up)
  <2>1. SUFFICES ASSUME Recalls(c, back + 1) PROVE Edited(e, up)
    OBVIOUS
  <2>2. back + 1 \in 1 .. Len(c.history)
    BY <2>1 DEF Recalls
  <2> DEFINE b == back + 1
             text == Recalled(c, b)
  <2>3. b \in 1 .. Len(c.history)
    BY <2>2
  <2>6. b \in 0 .. Len(c.history)
    BY <2>3, <1>2
  <2> HIDE DEF b
  <2>4. IsText(text)
    <3> DEFINE k == Len(c.history) - b + 1
    <3>1. k \in 1 .. Len(c.history)
      BY <1>2, <2>3
    <3> HIDE DEF k
    <3>2. IsText(c.history[k])
      BY <1>2, <3>1
    <3> QED BY <3>2 DEF Recalled, k
  <2> HIDE DEF text
  <2>5. Edited(e, [ReplaceLine(e, text) EXCEPT !.reader.back = b])
    BY <2>4, <2>6, BackEdits
  <2> QED BY <2>5 DEF text, b
<1>5. back > 0 => Edited(e, down)
  <2>1. SUFFICES ASSUME back > 0 PROVE Edited(e, down)
    OBVIOUS
  <2> DEFINE text == IF back = 1 THEN <<>> ELSE Recalled(c, back - 1)
             b == back - 1
  <2>2. b \in 0 .. Len(c.history)
    BY <1>2, <2>1
  <2>3. IsText(text)
    <3>1. CASE back = 1
      BY <3>1, NoText
    <3>2. CASE back # 1
      <4> DEFINE k == Len(c.history) - b + 1
      <4>1. k \in 1 .. Len(c.history)
        BY SMTT(60), <1>2, <2>1, <3>2
      <4> HIDE DEF k
      <4>2. IsText(c.history[k])
        BY <1>2, <4>1
      <4> QED BY <3>2, <4>2 DEF Recalled, k
    <3> QED BY <3>1, <3>2
  <2> HIDE DEF text, b
  <2>5. Edited(e, [ReplaceLine(e, text) EXCEPT !.reader.back = b])
    BY <2>2, <2>3, BackEdits
  <2> QED BY <2>5 DEF text, b
<1>6. c.pos < Have(e) => Edited(e, GoTo(e, c.pos + 1)) /\ Edited(e, EraseAt(e, c.pos))
  <2>1. SUFFICES ASSUME c.pos < Have(e) PROVE Edited(e, GoTo(e, c.pos + 1)) /\ Edited(e, EraseAt(e, c.pos))
    OBVIOUS
  <2> DEFINE p == c.pos
             q == c.pos + 1
  <2>2. q \in 0 .. Have(e) /\ p \in 0 .. Have(e) - 1
    BY <1>3, <2>1
  <2> HIDE DEF p, q
  <2>3. Edited(e, GoTo(e, q)) /\ Edited(e, EraseAt(e, p))
    BY <2>2, GoToEdits, EraseAtEdits, StillOnward
  <2> QED BY <2>3 DEF p, q
<1>7. c.pos > 0 => Edited(e, GoTo(e, c.pos - 1))
  <2>1. SUFFICES ASSUME c.pos > 0 PROVE Edited(e, GoTo(e, c.pos - 1))
    OBVIOUS
  <2> DEFINE q == c.pos - 1
  <2>2. q \in 0 .. Have(e)
    BY <1>3, <2>1
  <2> HIDE DEF q
  <2>3. Edited(e, GoTo(e, q))
    BY <2>2, GoToEdits, StillOnward
  <2> QED BY <2>3 DEF q
<1>8. Edited(e, GoTo(e, 0)) /\ Edited(e, GoTo(e, Have(e)))
  <2>1. 0 \in 0 .. Have(e) /\ Have(e) \in 0 .. Have(e)
    BY <1>3
  <2> QED BY <2>1, GoToEdits, StillOnward
<1> HIDE DEF up, down, c, back
<1>9. Edited(e, one)
  BY <1>4, <1>5, <1>6, <1>7, <1>8, SameOnward
<1> HIDE DEF one
<1>10. Edited(one, Plainly(one)) /\ Plainly(one).reader.at = "line"
  BY <1>9, PlainlyEdits DEF Edited
<1> QED BY <1>1, <1>9, <1>10, EditedOn

LEMMA NoHistory == HistorySize(<<>>) = 0
<1> DEFINE h == <<>>
           Part(g) == g = [k \in 0 .. Len(h) |-> IF k = 0 THEN 0 ELSE g[k - 1] + Len(h[k]) + 1]
           size == CHOOSE g : Part(g)
<1>1. HistorySize(h) = size[Len(h)]
  BY DEF HistorySize
<1>2. Len(h) = 0
  OBVIOUS
<1>3. \E g : Part(g)
  <2>1. Part([k \in 0 .. 0 |-> 0])
    <3> HIDE DEF h
    <3> QED BY <1>2
  <2> HIDE DEF Part
  <2> QED BY <2>1
<1>4. Part(size)
  <2> HIDE DEF Part
  <2> QED BY <1>3
<1> HIDE DEF size, h
<1>5. size[0] = 0
  BY <1>2, <1>4
<1> QED BY <1>1, <1>2, <1>5 DEF h

LEMMA RememberLine ==
  ASSUME NEW c, Line(c), setup \in Setups
  PROVE  LET d == Remember(c)
         IN Line(d) /\ d.line = c.line /\ d.pos = c.pos /\ \A x \in ConFields \ {"history"} : d[x] = c[x]
<1> DEFINE H == c.history
           n == Len(H)
           full == c.line = <<>> \/ Len(c.line) + 1 > setup.HISTORY
           Fits1(j) == HistorySize(SubSeq(H, j + 1, Len(H))) + Len(c.line) + 1 <= setup.HISTORY
           S == {k \in 0 .. n : Fits1(k)}
           Fit1(k) == k \in 0 .. n /\ Fits1(k) /\ \A j \in 0 .. k - 1 : ~Fits1(j)
           kept == CHOOSE k \in 0 .. n : Fits1(k) /\ \A j \in 0 .. k - 1 : ~Fits1(j)
           older == SubSeq(H, kept + 1, Len(H))
           new == Append(older, c.line)
           w == [c EXCEPT !.history = new]
<1>1. CASE full
  <2>1. Remember(c) = c
    BY <1>1 DEF Remember
  <2> QED BY <2>1
<1>2. CASE ~full
  <2>1. Remember(c) = w
    BY <1>2 DEF Remember
  <2>2. n \in Nat /\ Len(c.line) \in Nat /\ setup.HISTORY \in Nat
    BY TextLen, NamesAssumption DEF Line
  <2>3. n \in S
    <3>1. SubSeq(H, n + 1, n) = <<>>
      <4>1. PICK A : H \in Seq(A)
        BY DEF Line, IsText
      <4> QED BY <2>2, <4>1
    <3>2. HistorySize(SubSeq(H, n + 1, n)) = 0
      BY <3>1, NoHistory
    <3>3. Fits1(n)
      BY <1>2, <2>2, <3>2
    <3> HIDE DEF Fits1
    <3> QED BY <2>2, <3>3
  <2>4. S \subseteq Nat /\ S # {}
    BY <2>2, <2>3
  <2> HIDE DEF Fits1
  <2>5. PICK k \in S : \A y \in S : k <= y
    <3> HIDE DEF S
    <3> QED BY <2>4, Least
  <2>6. Fit1(k)
    <3>1. k \in 0 .. n /\ Fits1(k) /\ n \in Nat
      BY <2>2, <2>5
    <3>2. ASSUME NEW j \in 0 .. k - 1 PROVE ~Fits1(j)
      <4>1. j \in 0 .. n /\ ~(k <= j)
        BY <3>1, <3>2
      <4> QED BY <2>5, <4>1
    <3> QED BY <3>1, <3>2
  <2>7. kept \in 0 .. n
    <3> HIDE DEF n
    <3>1. \E m \in 0 .. n : Fits1(m) /\ \A j \in 0 .. m - 1 : ~Fits1(j)
      BY <2>6
    <3> QED BY <3>1
  <2> HIDE DEF kept, S, Fit1
  <2>8. IsText(new) /\ \A i \in 1 .. Len(new) : IsText(new[i])
    <3> DEFINE R == {H[i] : i \in 1 .. n} \cup {c.line}
    <3>1. H \in Seq(R) /\ c.line \in R
      <4>1. IsText(H) /\ \A i \in 1 .. n : H[i] \in R
        BY DEF Line
      <4>2. PICK A : H \in Seq(A)
        BY <4>1 DEF IsText
      <4>3. c.line \in R
        OBVIOUS
      <4> HIDE DEF R
      <4> QED BY <2>2, <4>1, <4>2, <4>3
    <3>2. \A x \in R : IsText(x)
      BY DEF Line
    <3> HIDE DEF R
    <3>3. older \in Seq(R)
      <4> DEFINE p == kept + 1
      <4>1. p \in Nat \ {0} /\ n \in Nat /\ p <= n + 1
        BY <2>2, <2>7
      <4> HIDE DEF p
      <4>2. SubSeq(H, p, n) \in Seq(R)
        BY <3>1, <4>1
      <4> QED BY <4>2 DEF p
    <3> HIDE DEF older
    <3>4. new \in Seq(R)
      BY <3>1, <3>3
    <3> HIDE DEF new
    <3>5. \A i \in 1 .. Len(new) : new[i] \in R
      BY <3>4
    <3> QED BY <3>2, <3>4, <3>5 DEF IsText
  <2> HIDE DEF new
  <2>9. w = [x \in ConFields |-> w[x]] /\ w.line = c.line /\ w.pos = c.pos /\ w.history = new
        /\ \A x \in ConFields \ {"history"} : w[x] = c[x]
    BY DEF Line, ConFields
  <2> HIDE DEF w
  <2>10. Line(w)
    BY <2>8, <2>9 DEF Line
  <2> QED BY <2>1, <2>9, <2>10
<1> QED BY <1>1, <1>2

LEMMA EnterEdits ==
  ASSUME NEW e, Editor(e), setup \in Setups, e.reader.at \in EditPlaces PROVE Brings(e, Enter(e))
<1> DEFINE m == Move(e, e.con.pos, Have(e))
           feed == <<"LF">>
           f == Draw(m, feed)
           line == Append(f.con.line, "LF")
           d == Remember(f.con)
           size == Len(line)
           c == [d EXCEPT !.line = line, !.ready = size]
           nil == <<>>
           t == [f.truth EXCEPT !.entered = line, !.had = nil]
           g == [f EXCEPT !.con = c, !.truth = t]
<1>1. Editor(m) /\ Edited(e, m)
  <2>1. Editor(m) /\ Alone(e, m)
    BY MoveEdits
  <2> QED BY <2>1, AloneStill, StillOnward
<1>2. Enter(e) = HandOut([f EXCEPT !.con = c, !.truth.entered = line, !.truth.had = nil])
  BY DEF Enter
<1> HIDE DEF m
<1>3. Editor(f) /\ Edited(e, f)
  <2>1. IsText(feed)
    BY OneText
  <2> HIDE DEF feed
  <2>2. Editor(f) /\ Alone(m, f)
    BY <1>1, <2>1, DrawEdits
  <2> HIDE DEF f
  <2>3. Edited(m, f)
    BY <2>2, AloneStill, StillOnward
  <2> QED BY <1>1, <2>2, <2>3, EditedOn
<1> HIDE DEF f, nil
<1>4. IsText(line) /\ f.con.pos \in 0 .. Len(line) /\ Len(line) \in Nat /\ size = Len(line)
  <2>1. IsText(line) /\ Len(line) = Len(f.con.line) + 1
    <3>1. IsText(f.con.line)
      BY <1>3, LineOf
    <3> QED BY <3>1, TextMore
  <2> HIDE DEF line
  <2>2. f.con.pos \in 0 .. Len(f.con.line) /\ Len(f.con.line) \in Nat
    BY <1>3, LineOf
  <2> QED BY <2>1, <2>2
<1> HIDE DEF line, size
<1>5. Line(d) /\ d.pos = f.con.pos /\ d.handed = f.con.handed
  <2>1. Line(f.con)
    BY <1>3 DEF Editor
  <2>2. Line(d) /\ d.pos = f.con.pos /\ \A x \in ConFields \ {"history"} : d[x] = f.con[x]
    BY <2>1, RememberLine
  <2> HIDE DEF d
  <2>3. "handed" \in ConFields \ {"history"}
    BY DEF ConFields
  <2> QED BY <2>2, <2>3
<1> HIDE DEF d
<1>6. c = [x \in ConFields |-> c[x]] /\ c.line = line /\ c.pos = d.pos /\ c.history = d.history
      /\ c.ready = size /\ c.handed = d.handed
  BY <1>5 DEF Line, ConFields
<1> HIDE DEF c
<1>7. Line(c)
  BY <1>4, <1>5, <1>6 DEF Line
<1>8. [f EXCEPT !.con = c, !.truth.entered = line, !.truth.had = nil] = g
  BY <1>3 DEF Editor, EditFields
<1>a. Honest(e.truth) => Honest(t) /\ t.entered = line /\ t.had = nil
  BY <1>3, <1>4 DEF Edited, Onward, Honest, TruthFields
<1> HIDE DEF t
<1>9. g = [x \in EditFields |-> g[x]] /\ g.con = c /\ g.out = f.out /\ g.truth = t /\ g.reader = f.reader
  BY <1>3 DEF Editor, EditFields
<1> HIDE DEF g
<1>10. Writer(g)
  BY <1>3, <1>7, <1>9 DEF Writer, Editor
<1>11. nil = SubSeq(line, 1, 0)
  BY DEF nil
<1>12. Rightly(e) => Owes(g.con) /\ Honest(g.truth) /\ g.reader.count \in Nat /\ HandedOut(g.con, g.truth)
  <2>1. e.reader.at # "none"
    BY DEF EditPlaces
  <2>2. f.con.handed = e.con.handed /\ f.reader.count = e.reader.count
    BY <1>3 DEF Edited, Onward
  <2>3. SUFFICES ASSUME Rightly(e) PROVE Owes(g.con) /\ Honest(g.truth) /\ g.reader.count \in Nat /\ HandedOut(g.con, g.truth)
    OBVIOUS
  <2>4. e.con.handed = 0 /\ e.reader.count \in Nat /\ Honest(e.truth)
    BY <2>1, <2>3 DEF Rightly, Reading
  <2>5. c.handed = 0 /\ c.ready = Len(line) /\ c.line = line
    BY <1>4, <1>5, <1>6, <2>2, <2>4
  <2>6. Owes(c)
    BY <1>4, <2>5 DEF Owes
  <2>7. HandedOut(c, t)
    BY <1>a, <1>11, <2>4, <2>5 DEF HandedOut
  <2> QED BY <1>9, <1>a, <2>2, <2>4, <2>6, <2>7
<1>13. Editor(HandOut(g)) /\ (Rightly(e) => Rightly(HandOut(g)))
  BY <1>10, <1>12, HandOutEdits
<1> QED BY <1>2, <1>8, <1>13 DEF Brings

LEMMA NoLineEdits == ASSUME NEW e, Editor(e) PROVE Brings(e, NoLine(e))
<1> DEFINE nil == <<>>
           zero == 0
           c == [e.con EXCEPT !.line = nil, !.pos = zero, !.ready = zero, !.handed = zero]
           t == [e.truth EXCEPT !.entered = nil, !.had = nil]
           f == [e EXCEPT !.con = c, !.reader = NoReader, !.truth = t]
<1>1. NoLine(e) = f
  <2>1. NoLine(e) = [e EXCEPT !.con.line = nil, !.con.pos = zero, !.con.ready = zero, !.con.handed = zero, !.reader = NoReader,
                       !.truth.entered = nil, !.truth.had = nil]
    BY DEF NoLine
  <2> HIDE DEF nil, zero
  <2> QED BY <2>1 DEF Editor, EditFields, Line, ConFields
<1>2. IsText(nil) /\ zero \in 0 .. Len(nil)
  <2>1. IsText(nil)
    BY NoText
  <2> HIDE DEF nil
  <2> QED BY <2>1, TextLen
<1>a. Honest(e.truth) => Honest(t) /\ t.entered = nil /\ t.had = nil
  BY <1>2 DEF Honest, TruthFields
<1>b. nil = SubSeq(nil, 1, 0) /\ zero = 0
  OBVIOUS
<1> HIDE DEF nil, zero, t
<1>3. c = [x \in ConFields |-> c[x]] /\ c.line = nil /\ c.pos = zero /\ c.history = e.con.history
      /\ c.ready = zero /\ c.handed = zero
  BY DEF Editor, Line, ConFields
<1> HIDE DEF c
<1>4. Line(c)
  BY <1>2, <1>3 DEF Editor, Line
<1>5. Asking(NoReader, c)
  BY <1>4, NoReaderAsks
<1>6. Editor(f)
  BY <1>4, <1>5, Assembled DEF Editor, Writer
<1>7. f.con = c /\ f.reader = NoReader /\ f.truth = t
  BY DEF Editor, EditFields
<1>8. NoReader.at = "none" /\ "none" \notin EditPlaces
  BY DEF NoReader, EditPlaces
<1> HIDE DEF f
<1>9. Rightly(e) => Rightly(f)
  <2> SUFFICES ASSUME Honest(e.truth) PROVE Reading(c, NoReader, t)
    BY <1>7 DEF Rightly, Reading
  <2>1. c.ready = 0 /\ c.handed = 0
    BY <1>3, <1>b
  <2>2. Owes(c)
    BY <2>1 DEF Owes
  <2>3. HandedOut(c, t)
    <3>1. t.entered = nil /\ t.had = nil /\ nil = SubSeq(nil, 1, 0)
      BY <1>a, <1>b
    <3>2. t.had = SubSeq(t.entered, 1, c.handed)
      BY <2>1, <3>1
    <3>3. ~(c.ready > 0)
      BY <2>1
    <3> QED BY <3>2, <3>3 DEF HandedOut
  <2> QED BY <1>8, <1>a, <2>2, <2>3 DEF Reading
<1> QED BY <1>1, <1>6, <1>9 DEF Brings

LEMMA LineKeyEdits ==
  ASSUME NEW e, Editor(e), NEW k, setup \in Setups, e.reader.at \in EditPlaces PROVE Brings(e, LineKey(e, k))
<1>0. ASSUME NEW f, Edited(e, f) PROVE Brings(e, Plainly(f)) /\ Edited(e, Plainly(f)) /\ Plainly(f).reader.at = "line"
  <2>1. Edited(f, Plainly(f)) /\ Plainly(f).reader.at = "line"
    BY <1>0, PlainlyEdits DEF Edited
  <2>2. Edited(e, Plainly(f)) /\ Plainly(f).reader.at \in EditPlaces
    BY <1>0, <2>1, EditedOn DEF EditPlaces
  <2> QED BY <2>1, <2>2, EditedBrings
<1>1. Brings(e, NoLine(e)) /\ Brings(e, Goes(e, "line")) /\ Brings(e, Plainly(e)) /\ Brings(e, Enter(e))
  <2>1. "line" \in Places /\ "line" \in EditPlaces
    BY DEF Places, EditPlaces
  <2>2. Brings(e, Goes(e, "line"))
    <3> DEFINE at == "line"
    <3> HIDE DEF at
    <3>1. at \in Places /\ at \in EditPlaces
      BY <2>1 DEF at
    <3>2. Edited(e, Goes(e, at)) /\ Goes(e, at).reader.at = at
      BY <3>1, GoesEdits
    <3>3. Brings(e, Goes(e, at))
      BY <3>1, <3>2, EditedBrings
    <3> QED BY <3>3 DEF at
  <2> QED BY <1>0, <2>2, SameOnward, NoLineEdits, EnterEdits
<1>2. Brings(e, Plainly(IF e.con.pos > 0 THEN EraseAt(e, e.con.pos - 1) ELSE e))
  <2> DEFINE f == IF e.con.pos > 0 THEN EraseAt(e, e.con.pos - 1) ELSE e
  <2>1. Edited(e, f)
    <3>1. CASE e.con.pos > 0
      <4> DEFINE at == e.con.pos - 1
      <4>1. at \in 0 .. Have(e) - 1
        BY <3>1, LineOf
      <4> HIDE DEF at
      <4>2. Edited(e, EraseAt(e, at))
        BY <4>1, EraseAtEdits, StillOnward
      <4> QED BY <3>1, <4>2 DEF at
    <3>2. CASE ~(e.con.pos > 0)
      BY <3>2, SameOnward
    <3> QED BY <3>1, <3>2
  <2> HIDE DEF f
  <2>2. Brings(e, Plainly(f))
    BY <1>0, <2>1
  <2> QED BY <2>2 DEF f
<1>3. Brings(e, [Plainly(IF e.reader.tabbed THEN ListChoices(e) ELSE Complete(e)) EXCEPT !.reader.tabbed = TRUE])
  <2> DEFINE f == IF e.reader.tabbed THEN ListChoices(e) ELSE Complete(e)
             g == Plainly(f)
             yes == TRUE
             r == [g.reader EXCEPT !.tabbed = yes]
             h == [g EXCEPT !.reader = r]
  <2>1. Edited(e, ListChoices(e)) /\ Edited(e, Complete(e))
    BY ListEdits, CompleteEdits, StillOnward
  <2>2. Edited(e, f)
    BY <2>1
  <2> HIDE DEF f
  <2>3. Editor(g) /\ Edited(e, g) /\ g.reader.at = "line"
    BY <1>0, <2>2 DEF Edited
  <2> HIDE DEF g, yes
  <2>4. [g EXCEPT !.reader.tabbed = yes] = h
    BY <2>3 DEF Editor, EditFields
  <2>5. r = [x \in ReaderFields |-> r[x]] /\ r.at = g.reader.at /\ r.back = g.reader.back /\ r.count = g.reader.count
    BY <2>3 DEF Editor, Asking, ReaderFields
  <2> HIDE DEF r
  <2>6. Asking(r, g.con)
    BY <2>3, <2>5 DEF Editor, Asking
  <2>7. Editor(h) /\ h.con = g.con /\ h.reader = r /\ h.truth = g.truth
    BY <2>3, <2>6, ReaderEdits
  <2> HIDE DEF h
  <2>9. Edited(e, h) /\ h.reader.at \in EditPlaces
    BY <2>3, <2>5, <2>7 DEF Edited, Onward, EditPlaces
  <2>8. Brings(e, [g EXCEPT !.reader.tabbed = yes])
    BY <2>4, <2>9, EditedBrings
  <2> QED BY <2>8 DEF yes, g, f
<1>4. Brings(e, Plainly(EraseBefore(e))) /\ Brings(e, Plainly(Insert(e, <<k>>)))
  <2>1. Edited(e, EraseBefore(e)) /\ Edited(e, Insert(e, <<k>>))
    BY EraseBeforeEdits, InsertEdits, OneText, StillOnward
  <2> QED BY <1>0, <2>1
<1> DEFINE a == NoLine(e)
           b == Goes(e, "line")
           c == Plainly(IF e.con.pos > 0 THEN EraseAt(e, e.con.pos - 1) ELSE e)
           d == [Plainly(IF e.reader.tabbed THEN ListChoices(e) ELSE Complete(e)) EXCEPT !.reader.tabbed = TRUE]
           f == Plainly(EraseBefore(e))
           g == Plainly(Insert(e, <<k>>))
           one == CASE k = "^D" -> (IF Have(e) = 0 THEN a ELSE b)
                    [] k \in {"BS", "DEL"} -> c
                    [] k = "TAB" -> d
                    [] k = "^U" -> f
                    [] k = "LF" -> Enter(e)
                    [] k \in Ignored -> Plainly(e)
                    [] OTHER -> g
<1>5. LineKey(e, k) = one
  BY DEF LineKey
<1>6. Brings(e, a) /\ Brings(e, b) /\ Brings(e, c) /\ Brings(e, d) /\ Brings(e, f) /\ Brings(e, g)
  BY <1>1, <1>2, <1>3, <1>4
<1> HIDE DEF a, b, c, d, f, g
<1>7. Brings(e, one)
  BY <1>1, <1>6
<1> QED BY <1>5, <1>7

LEMMA RawKeyEdits == ASSUME NEW e, Editor(e), NEW k, e.reader.at = "raw" PROVE Brings(e, RawKey(e, k))
<1> DEFINE c == IF k = "LF" /\ ~e.con.set.icrnl THEN "CR" ELSE k
           f == IF e.con.set.echo THEN Echo(e, <<c>>) ELSE e
           got == Append(e.reader.got, c)
           none == [e EXCEPT !.reader = NoReader]
           done == [f EXCEPT !.reader = NoReader]
           r == [f.reader EXCEPT !.got = got]
           more == [f EXCEPT !.reader = r]
<1>1. RawKey(e, k) = IF k = NoKey THEN none
                     ELSE IF Len(got) < e.reader.count /\ Waiting(e.con) THEN [f EXCEPT !.reader.got = got] ELSE done
  BY DEF RawKey
<1>2. Editor(f) /\ Alone(e, f)
  <2> HIDE DEF c
  <2>1. Editor(Echo(e, <<c>>)) /\ Alone(e, Echo(e, <<c>>))
    BY OneText, EchoEdits
  <2> QED BY <2>1 DEF Alone
<1> HIDE DEF f, got
<1>a. ASSUME NEW g, Editor(g), g.con = e.con, g.truth = e.truth, g.reader.at \in {"none", "raw"},
             g.reader.at # "none" => g.reader.count = e.reader.count
      PROVE  Brings(e, g)
  <2>1. g.reader.at \notin EditPlaces /\ e.reader.at \notin EditPlaces /\ e.reader.at # "none"
    BY <1>a DEF EditPlaces
  <2> QED BY <1>a, <2>1 DEF Brings, Rightly, Reading
<1>3. Brings(e, none) /\ Brings(e, done)
  <2>1. Asking(NoReader, e.con) /\ Asking(NoReader, f.con)
    BY <1>2, NoReaderAsks DEF Editor
  <2>2. Editor(none) /\ none.con = e.con /\ none.truth = e.truth /\ none.reader = NoReader
    BY <2>1, ReaderEdits
  <2>3. Editor(done) /\ done.con = f.con /\ done.truth = f.truth /\ done.reader = NoReader
    BY <1>2, <2>1, ReaderEdits
  <2>4. NoReader.at = "none"
    BY DEF NoReader
  <2> HIDE DEF none, done
  <2> QED BY <1>2, <1>a, <2>2, <2>3, <2>4 DEF Alone
<1>4. [f EXCEPT !.reader.got = got] = more
  BY <1>2 DEF Editor, EditFields
<1>5. r = [x \in ReaderFields |-> r[x]] /\ r.at = f.reader.at /\ r.back = f.reader.back /\ r.count = f.reader.count
  BY <1>2 DEF Editor, Asking, ReaderFields
<1> HIDE DEF r
<1>6. Asking(r, f.con)
  BY <1>2, <1>5 DEF Editor, Asking
<1>7. Brings(e, more)
  <2>1. Editor(more) /\ more.con = f.con /\ more.truth = f.truth /\ more.reader = r
    BY <1>2, <1>6, ReaderEdits
  <2> HIDE DEF more
  <2> QED BY <1>2, <1>5, <1>a, <2>1 DEF Alone
<1> HIDE DEF none, done, more
<1> QED BY <1>1, <1>3, <1>4, <1>7

LEMMA KeyEdits ==
  ASSUME NEW e, Editor(e), NEW k, setup \in Setups, e.reader.at \in Places \ {"none", "raw"} PROVE Brings(e, Key(e, k))
<1> DEFINE a == NoLine(e)
           b == Goes(e, "esc")
           c == LineKey(e, k)
           d == Goes(e, "csi")
           f == Plainly(e)
           g == [Goes(e, "num") EXCEPT !.reader.digit = k]
           h == EditKey(e, k)
           i == EditKey(e, e.reader.digit)
           one == CASE e.reader.at = "line" -> (IF k = NoKey THEN a ELSE IF k = "ESC" THEN b ELSE c)
                    [] e.reader.at = "esc" -> (IF k = "[" THEN d ELSE IF k = NoKey THEN f ELSE c)
                    [] e.reader.at = "csi" -> (IF k \in DOMAIN Digits THEN g ELSE h)
                    [] e.reader.at = "num" -> (IF k \in DOMAIN Digits THEN e ELSE i)
<1>1. Key(e, k) = one
  BY DEF Key
<1>0. e.reader.at \in EditPlaces
  BY DEF Places, EditPlaces
<1>a. ASSUME NEW at \in {"esc", "csi", "num"} PROVE Edited(e, Goes(e, at)) /\ Goes(e, at).reader.at = at /\ at \in EditPlaces
  <2>1. at \in Places /\ at \in EditPlaces
    BY <1>a DEF Places, EditPlaces
  <2> QED BY <2>1, GoesEdits
<1>2. Brings(e, a) /\ Brings(e, b) /\ Brings(e, c) /\ Brings(e, d) /\ Brings(e, f) /\ Brings(e, h) /\ Brings(e, i) /\ Brings(e, e)
  <2>1. Brings(e, b) /\ Brings(e, d)
    BY <1>0, <1>a, EditedBrings
  <2>2. "line" \in EditPlaces
    BY DEF EditPlaces
  <2>3. Edited(e, f) /\ f.reader.at = "line" /\ Edited(e, h) /\ h.reader.at = "line" /\ Edited(e, i) /\ i.reader.at = "line"
    BY PlainlyEdits, EditKeyEdits
  <2>4. Brings(e, a) /\ Brings(e, c)
    BY <1>0, NoLineEdits, LineKeyEdits
  <2> HIDE DEF a, b, c, d, f, h, i
  <2>5. Brings(e, f) /\ Brings(e, h) /\ Brings(e, i)
    BY <1>0, <2>2, <2>3, EditedBrings
  <2>6. Brings(e, e)
    BY DEF Brings
  <2> QED BY <2>1, <2>4, <2>5, <2>6
<1>3. Brings(e, g)
  <2> DEFINE m == Goes(e, "num")
             r == [m.reader EXCEPT !.digit = k]
             n == [m EXCEPT !.reader = r]
  <2>1. Editor(m) /\ Edited(e, m) /\ m.reader.at \in EditPlaces
    BY <1>a DEF Edited
  <2> HIDE DEF m
  <2>2. [m EXCEPT !.reader.digit = k] = n
    BY <2>1 DEF Editor, EditFields
  <2>3. r = [x \in ReaderFields |-> r[x]] /\ r.at = m.reader.at /\ r.back = m.reader.back /\ r.count = m.reader.count
    BY <2>1 DEF Editor, Asking, ReaderFields
  <2> HIDE DEF r
  <2>4. Asking(r, m.con)
    BY <2>1, <2>3 DEF Editor, Asking
  <2>5. Editor(n) /\ n.con = m.con /\ n.reader = r /\ n.truth = m.truth
    BY <2>1, <2>4, ReaderEdits
  <2> HIDE DEF n
  <2>7. Edited(e, n) /\ n.reader.at \in EditPlaces
    BY <2>1, <2>3, <2>5 DEF Edited, Onward
  <2>6. Brings(e, [m EXCEPT !.reader.digit = k])
    BY <1>0, <2>2, <2>7, EditedBrings
  <2> QED BY <2>6 DEF m
<1> HIDE DEF a, b, c, d, f, g, h, i
<1>4. Brings(e, one)
  <2> DEFINE at == e.reader.at
  <2>1. at \in {"line", "esc", "csi", "num"}
    BY DEF Places
  <2> QED BY <1>2, <1>3, <2>1
<1> QED BY <1>1, <1>4

LEMMA HandledEdits ==
  ASSUME NEW e, Editor(e), NEW k, setup \in Setups, e.reader.at # "none" PROVE Brings(e, Handled(e, k))
<1>1. CASE e.reader.at = "raw"
  BY <1>1, RawKeyEdits DEF Handled
<1>2. CASE e.reader.at # "raw"
  <2>1. e.reader.at \in Places \ {"none", "raw"}
    BY <1>2 DEF Editor, Asking
  <2> QED BY <1>2, <2>1, KeyEdits DEF Handled
<1> QED BY <1>1, <1>2

----------------------------------------------------------------------------
(* Steps.                                                                  *)

LEMMA HereWrites ==
  ASSUME NEW c, Line(c)
  PROVE  /\ Writer(Here(c)) /\ Here(c).con = c /\ Here(c).reader = reader /\ Here(c).truth = truth
         /\ (Asking(reader, c) => Editor(Here(c)))
<1> DEFINE nil == <<>>
           e == [out |-> nil, con |-> c, reader |-> reader, truth |-> truth]
<1>1. Here(c) = e
  BY DEF Here
<1>2. Said(nil)
  <2>1. IsText(nil) /\ Len(nil) = 0
    BY NoText
  <2> HIDE DEF nil
  <2> QED BY <2>1 DEF Said
<1> HIDE DEF nil
<1>3. e = [x \in EditFields |-> e[x]] /\ e.con = c /\ e.reader = reader /\ e.truth = truth /\ e.out = nil
  BY DEF EditFields
<1> HIDE DEF e
<1>4. Writer(e) /\ (Asking(reader, c) => Editor(e))
  BY <1>2, <1>3 DEF Writer, Editor
<1> QED BY <1>1, <1>3, <1>4

LEMMA FreshAsks ==
  ASSUME NEW c, Line(c), NEW at \in Places, NEW count
  PROVE  Asking([NoReader EXCEPT !.at = at, !.busy = TRUE, !.count = count], c)
<1> DEFINE yes == TRUE
           r == [NoReader EXCEPT !.at = at, !.busy = yes, !.count = count]
<1>1. Asking(NoReader, c)
  BY NoReaderAsks
<1> HIDE DEF yes
<1>2. r = [x \in ReaderFields |-> r[x]] /\ r.at = at /\ r.back = NoReader.back
  BY <1>1 DEF Asking, ReaderFields
<1> HIDE DEF r
<1>3. Asking(r, c)
  BY <1>1, <1>2 DEF Asking
<1> QED BY <1>3 DEF r, yes

LEMMA GatheredLine ==
  ASSUME Line(con), NEW text, NEW late
  PROVE  /\ Line(Gathered(text, late)) /\ \A r : Asking(r, con) => Asking(r, Gathered(text, late))
         /\ \A r, t : Reading(con, r, t) => Reading(Gathered(text, late), r, t)
<1> DEFINE Next1(c, k) == Gather(c, k, late)
           now == FoldLeft(Next1, con, text)
           t == now.typed
           s == now.signalled
           u == now.unread
           d == [con EXCEPT !.typed = t, !.signalled = s, !.unread = u]
<1>1. Gathered(text, late) = d
  BY DEF Gathered
<1> HIDE DEF t, s, u
<1>2. d = [x \in ConFields |-> d[x]] /\ d.line = con.line /\ d.pos = con.pos /\ d.history = con.history
      /\ d.handed = con.handed /\ d.ready = con.ready
  BY DEF Line, ConFields
<1> HIDE DEF d
<1>3. Line(d) /\ \A r : Asking(r, con) => Asking(r, d)
  BY <1>2, LineSame
<1>4. \A r1, t1 : Reading(con, r1, t1) => Reading(d, r1, t1)
  BY <1>2 DEF Reading, Owes, HandedOut
<1> QED BY <1>1, <1>3, <1>4

LEMMA TakeEdits ==
  ASSUME NEW c, Line(c), Asking(reader, c), reader.at # "none", setup \in Setups
  PROVE  Editor(Take(c)) /\ (Reading(c, reader, truth) => Rightly(Take(c)))
<1> DEFINE yes == TRUE
           r == [reader EXCEPT !.busy = yes]
           e == Here(c)
           f == [e EXCEPT !.reader = r]
           tail == Tail(c.typed)
           zero == 0
           d == [c EXCEPT !.typed = tail, !.unread = zero]
           g == Here(d)
           h == [g EXCEPT !.reader = r]
           head == Head(c.typed)
<1>1. Take(c) = IF c.signalled # 0 THEN Handled([e EXCEPT !.reader.busy = yes], NoKey)
                ELSE Handled([g EXCEPT !.reader.busy = yes], head)
  <2>1. [c EXCEPT !.typed = Tail(@), !.unread = 0] = d
    BY DEF Line, ConFields
  <2> HIDE DEF d
  <2> QED BY <2>1 DEF Take
<1>2. Editor(e) /\ e.con = c /\ e.reader = reader /\ e.truth = truth
  BY HereWrites
<1> HIDE DEF tail, zero, e, head, yes
<1>3. d = [x \in ConFields |-> d[x]] /\ d.line = c.line /\ d.pos = c.pos /\ d.history = c.history
      /\ d.handed = c.handed /\ d.ready = c.ready
  BY DEF Line, ConFields
<1> HIDE DEF d
<1>4. Line(d) /\ Asking(reader, d)
  BY <1>3, LineSame
<1>5. Editor(g) /\ g.con = d /\ g.reader = reader /\ g.truth = truth
  BY <1>4, HereWrites
<1> HIDE DEF g
<1>6. r = [x \in ReaderFields |-> r[x]] /\ r.at = reader.at /\ r.back = reader.back /\ r.count = reader.count
  BY DEF Asking, ReaderFields
<1>7. [e EXCEPT !.reader.busy = yes] = f /\ [g EXCEPT !.reader.busy = yes] = h
  BY <1>2, <1>5 DEF Editor, EditFields
<1> HIDE DEF r
<1>8. Asking(r, e.con) /\ Asking(r, g.con)
  BY <1>2, <1>4, <1>5, <1>6 DEF Asking
<1>9. /\ Editor(f) /\ f.reader = r /\ f.con = c /\ f.truth = truth
      /\ Editor(h) /\ h.reader = r /\ h.con = d /\ h.truth = truth
  <2>1. Editor(f) /\ Editor(h)
    BY <1>2, <1>5, <1>8, ReaderEdits
  <2>2. f.reader = r /\ h.reader = r /\ f.con = c /\ h.con = d /\ f.truth = truth /\ h.truth = truth
    BY <1>2, <1>5 DEF Editor, EditFields
  <2> QED BY <2>1, <2>2
<1> HIDE DEF f, h
<1>11. Reading(c, reader, truth) => Rightly(f) /\ Rightly(h)
  BY <1>3, <1>6, <1>9 DEF Rightly, Reading, Owes, HandedOut
<1>10. Brings(f, Handled(f, NoKey)) /\ Brings(h, Handled(h, head))
  <2>1. f.reader.at # "none" /\ h.reader.at # "none"
    BY <1>6, <1>9
  <2> QED BY <1>9, <2>1, HandledEdits
<1> QED BY <1>1, <1>7, <1>10, <1>11 DEF Brings

At1(v, c, r) == Steady(v) /\ Line(c) /\ Asking(r, c) /\ (r.at # "none" => "read" \in Does)
Stands == setup \in Setups /\ At1(vga, con, reader)
After1 == \E v, c, r : vga' = v /\ con' = c /\ reader' = r /\ At1(v, c, r)

LEMMA ReadsPlain ==
  ASSUME Stands, Calm(setup), vga.laid, "read" \in Does \/ "signal" \in Does PROVE Plainer(vga)
BY DEF Stands, At1, Steady, Calm, Does, Plainer

LEMMA PlainerSteady == ASSUME NEW v, Plainer(v) PROVE Steady(v)
BY DEF Plainer, Steady

LEMMA BecomesAfter ==
  ASSUME Stands, Calm(setup), vga.laid, "read" \in Does, NEW e, Editor(e), Becomes(e) PROVE After1
<1> DEFINE v == AllDrawn(vga, e.out)
           c == e.con
           r == e.reader
<1>1. vga' = v /\ con' = c /\ reader' = r
  BY DEF Becomes
<1>2. Plainer(vga) /\ Said(e.out)
  <2>1. Plainer(vga)
    BY ReadsPlain
  <2> QED BY <2>1 DEF Plainer, Editor
<1>3. Plainer(v)
  BY <1>2, AllDrawnPlainer
<1>4. Line(c) /\ Asking(r, c)
  BY DEF Editor
<1> HIDE DEF v, c, r
<1>5. At1(v, c, r)
  BY <1>3, <1>4, PlainerSteady DEF At1
<1> QED BY <1>1, <1>5 DEF After1

\* Whoever reads, not in the middle of a line.
LEMMA ReadingOn ==
  ASSUME NEW c, NEW r, NEW t, Reading(c, r, t), r.at \notin EditPlaces,
         NEW q, q.at \notin EditPlaces, q.at # "none" => q.count \in Nat
  PROVE  Reading(c, q, t)
BY DEF Reading

LEMMA ReadEdits ==
  ASSUME NEW n, Read(n), Line(con), Asking(reader, con)
  PROVE  \E e : Becomes(e) /\ Editor(e) /\ (n \in Nat /\ Reading(con, reader, truth) => Rightly(e))
<1>1. reader.at = "none" /\ "none" \notin EditPlaces /\ "raw" \notin EditPlaces
  BY DEF Read, EditPlaces
<1> DEFINE Right(e) == Editor(e) /\ (n \in Nat /\ Reading(con, reader, truth) => Rightly(e))
<1>2. ASSUME NEW c, Line(c), Reading(con, reader, truth) => Reading(c, reader, truth)
      PROVE  Right(RawRead(c, n)) /\ Right(RawPolled(c, n))
  <2> DEFINE e == Here(c)
             raw == "raw"
             yes == TRUE
             r == [NoReader EXCEPT !.at = raw, !.busy = yes, !.count = n]
             f == [e EXCEPT !.reader = r]
             g == [e EXCEPT !.reader = NoReader]
  <2>1. Writer(e) /\ e.con = c /\ e.truth = truth
    BY <1>2, HereWrites
  <2>2. raw \in Places
    BY DEF Places
  <2>3. RawRead(c, n) = f /\ RawPolled(c, n) = IF Waiting(c) THEN RawRead(c, n) ELSE g
    BY DEF RawRead, RawPolled
  <2>4. r.at = raw /\ raw \notin EditPlaces /\ r.count = n
    BY <1>1 DEF NoReader
  <2>5. NoReader.at = "none"
    BY DEF NoReader
  <2> HIDE DEF raw
  <2>6. Asking(r, c) /\ Asking(NoReader, c)
    BY <1>2, <2>2, FreshAsks, NoReaderAsks
  <2> HIDE DEF r, e
  <2>7. ASSUME NEW q, Asking(q, c), q.at \notin EditPlaces, q.at # "none" => q.count = n PROVE Right([e EXCEPT !.reader = q])
    <3> DEFINE x == [e EXCEPT !.reader = q]
    <3>1. x = [y \in EditFields |-> x[y]] /\ x.con = c /\ x.reader = q /\ x.truth = truth /\ x.out = e.out
      BY <2>1 DEF Writer, EditFields
    <3> HIDE DEF x
    <3>2. Editor(x)
      BY <2>1, <2>7, <3>1 DEF Writer, Editor
    <3>3. n \in Nat /\ Reading(con, reader, truth) => Rightly(x)
      BY <1>1, <1>2, <2>7, <3>1, ReadingOn DEF Rightly
    <3> QED BY <3>2, <3>3 DEF x
  <2>8. Right(f) /\ Right(g)
    BY <1>1, <2>4, <2>5, <2>6, <2>7
  <2> HIDE DEF f, g, Right
  <2> QED BY <2>3, <2>8
<1>3. CASE con.set.icanon
  <2> DEFINE e == Here(con)
             one == [e EXCEPT !.reader.count = n]
             no == con.set.echo
             zero == 0
             nil == <<>>
             line == "line"
             yes == TRUE
             false == FALSE
             clean == CleanNow(vga)
             prompt == PromptNow(vga)
             c == [con EXCEPT !.drawing = no, !.handed = zero, !.line = nil, !.pos = zero]
             q == [NoReader EXCEPT !.at = line, !.busy = yes, !.count = n]
             t == [NoTruth EXCEPT !.clean = clean, !.prompt = prompt]
             two == [Here(c) EXCEPT !.reader = q, !.truth = t]
  <2>1. Becomes(IF con.handed # con.ready THEN HandOut(one) ELSE two)
    BY <1>3 DEF Read
  <2>2. Writer(e) /\ e.con = con /\ e.reader = reader /\ e.truth = truth
    BY HereWrites
  <2> HIDE DEF e
  <2>3. Right(HandOut(one))
    <3>1. one = [y \in EditFields |-> one[y]] /\ one.con = con /\ one.out = e.out /\ one.truth = truth /\ one.reader.count = n
      BY <2>2 DEF Writer, EditFields, Asking, ReaderFields
    <3> HIDE DEF one
    <3>2. Writer(one)
      BY <2>2, <3>1 DEF Writer
    <3>3. n \in Nat /\ Reading(con, reader, truth) =>
            Owes(one.con) /\ Honest(one.truth) /\ one.reader.count \in Nat /\ HandedOut(one.con, one.truth)
      BY <1>1, <3>1 DEF Reading
    <3> QED BY <3>2, <3>3, HandOutEdits
  <2>4. IsText(nil) /\ zero \in 0 .. Len(nil) /\ zero = 0 /\ nil = <<>>
    <3>1. IsText(nil)
      BY NoText
    <3> HIDE DEF nil
    <3>2. zero \in 0 .. Len(nil)
      BY <3>1, TextLen
    <3> QED BY <3>1, <3>2 DEF nil
  <2>5. t = [x \in TruthFields |-> t[x]] /\ t.entered = nil /\ t.had = nil
    <3>1. NoTruth = [clean |-> false, prompt |-> nil, entered |-> nil, had |-> nil, lost |-> false]
      BY DEF NoTruth
    <3> HIDE DEF nil, clean, prompt, false
    <3> QED BY <3>1 DEF TruthFields
  <2> HIDE DEF no, zero, nil, t, false, clean, prompt
  <2>6. c = [x \in ConFields |-> c[x]] /\ c.line = nil /\ c.pos = zero /\ c.history = con.history
        /\ c.handed = zero /\ c.ready = con.ready
    BY DEF Line, ConFields
  <2> HIDE DEF c
  <2>7. Line(c)
    BY <2>4, <2>6 DEF Line
  <2>8. q.at = line /\ q.count = n /\ line \in Places /\ line \in EditPlaces
    BY DEF NoReader, Places, EditPlaces
  <2> HIDE DEF line
  <2>9. Asking(q, c)
    BY <2>7, <2>8, FreshAsks
  <2> HIDE DEF q
  <2>10. n \in Nat /\ Reading(con, reader, truth) => Reading(c, q, t)
    <3> SUFFICES ASSUME n \in Nat, Reading(con, reader, truth) PROVE Reading(c, q, t)
      OBVIOUS
    <3>1. con.ready \in Nat
      BY DEF Reading, Owes
    <3>2. Owes(c)
      BY <2>4, <2>6, <3>1 DEF Owes
    <3>3. Honest(t)
      BY <2>4, <2>5 DEF Honest
    <3> QED BY <2>4, <2>5, <2>6, <2>8, <3>2, <3>3 DEF Reading
  <2>11. Right(two)
    <3> DEFINE g == Here(c)
    <3>1. Writer(g) /\ g.con = c
      BY <2>7, HereWrites
    <3> HIDE DEF g
    <3>2. [g EXCEPT !.con = c, !.reader = q, !.truth = t] = [g EXCEPT !.reader = q, !.truth = t]
      BY <3>1 DEF Writer, EditFields
    <3>3. Editor([g EXCEPT !.con = c, !.reader = q, !.truth = t])
      BY <2>7, <2>9, <3>1, Assembled
    <3> DEFINE h == [g EXCEPT !.reader = q, !.truth = t]
    <3>4. h.con = c /\ h.reader = q /\ h.truth = t
      BY <3>1 DEF Writer, EditFields
    <3> HIDE DEF h
    <3>5. Editor(h)
      BY <3>2, <3>3 DEF h
    <3>6. Right(h)
      BY <2>10, <3>4, <3>5 DEF Rightly
    <3> QED BY <3>6 DEF g, h
  <2> DEFINE now == IF con.handed # con.ready THEN HandOut(one) ELSE two
  <2> HIDE DEF one, two, Right
  <2>12. Right(now)
    BY <2>3, <2>11
  <2> QED BY <2>1, <2>12 DEF Right
<1>4. CASE ~con.set.icanon
  <2>1. PICK late \in BOOLEAN :
          IF con.set.vmin = 0 THEN Polling(Polled(kbd), late, n) ELSE UNCHANGED kbd /\ Becomes(RawRead(con, n))
    BY <1>4 DEF Read
  <2>2. CASE con.set.vmin = 0
    <3> DEFINE p == Polled(kbd)
               c == Gathered(p.text, late)
               e == RawPolled(c, n)
    <3>1. Becomes(e)
      BY <2>1, <2>2 DEF Polling
    <3>2. Line(c) /\ (Reading(con, reader, truth) => Reading(c, reader, truth))
      BY GatheredLine
    <3> HIDE DEF c, Right
    <3>3. Right(e)
      BY <1>2, <3>2
    <3> HIDE DEF e
    <3> QED BY <3>1, <3>3 DEF Right
  <2>3. CASE con.set.vmin # 0
    <3> HIDE DEF Right
    <3>1. Becomes(RawRead(con, n)) /\ Right(RawRead(con, n))
      BY <1>2, <2>1, <2>3
    <3> QED BY <3>1 DEF Right
  <2> QED BY <2>2, <2>3
<1> QED BY <1>3, <1>4

LEMMA ReadAfter == ASSUME Stands, Calm(setup), NEW n, Read(n) PROVE After1
<1>1. vga.laid /\ "read" \in Does /\ Line(con) /\ Asking(reader, con)
  BY DEF Read, Others, Step, Stands, At1
<1>2. PICK e : Becomes(e) /\ Editor(e)
  BY <1>1, ReadEdits
<1> QED BY <1>1, <1>2, BecomesAfter

LEMMA TakeKeyEdits ==
  ASSUME TakeKey, Line(con), Asking(reader, con), setup \in Setups
  PROVE  \E e : Becomes(e) /\ Editor(e) /\ (Reading(con, reader, truth) => Rightly(e))
<1>1. reader.at # "none"
  BY DEF TakeKey
<1>2. PICK late \in BOOLEAN : TakePolled(Polled(kbd), late)
  BY DEF TakeKey
<1> DEFINE p == Polled(kbd)
           c == Gathered(p.text, late)
           e == Here(c)
           no == FALSE
           r == [reader EXCEPT !.busy = no]
           f == [e EXCEPT !.reader = r]
<1>3. IF Waiting(c) THEN Becomes(Take(c)) ELSE Becomes([e EXCEPT !.reader.busy = no])
  BY <1>2 DEF TakePolled, TakeOrWait, Waits
<1>4. Line(c) /\ Asking(reader, c) /\ (Reading(con, reader, truth) => Reading(c, reader, truth))
  BY GatheredLine
<1> HIDE DEF c, p, no
<1>5. Editor(Take(c)) /\ (Reading(con, reader, truth) => Rightly(Take(c)))
  BY <1>1, <1>4, TakeEdits
<1>6. Editor(e) /\ e.con = c /\ e.reader = reader /\ e.truth = truth
  BY <1>4, HereWrites
<1> HIDE DEF e
<1>7. r = [x \in ReaderFields |-> r[x]] /\ r.at = reader.at /\ r.back = reader.back /\ r.count = reader.count
  BY DEF Asking, ReaderFields
<1>8. [e EXCEPT !.reader.busy = no] = f
  BY <1>6 DEF Editor, EditFields
<1> HIDE DEF r
<1>9. Asking(r, e.con)
  BY <1>4, <1>6, <1>7 DEF Asking
<1>10. Editor(f) /\ f.con = c /\ f.reader = r /\ f.truth = truth
  BY <1>6, <1>9, ReaderEdits
<1> HIDE DEF f
<1>11. Reading(con, reader, truth) => Rightly(f)
  BY <1>4, <1>7, <1>10 DEF Rightly, Reading
<1> DEFINE now == IF Waiting(c) THEN Take(c) ELSE f
<1>12. Editor(now) /\ Becomes(now) /\ (Reading(con, reader, truth) => Rightly(now))
  BY <1>3, <1>5, <1>8, <1>10, <1>11
<1> HIDE DEF now
<1> QED BY <1>12

LEMMA TakeAfter == ASSUME Stands, Calm(setup), TakeKey PROVE After1
<1>1. vga.laid /\ "read" \in Does /\ Line(con) /\ Asking(reader, con) /\ setup \in Setups
  BY DEF TakeKey, Stands, At1
<1>2. PICK e : Becomes(e) /\ Editor(e)
  BY <1>1, TakeKeyEdits
<1> QED BY <1>1, <1>2, BecomesAfter

LEMMA CrlfSteady == ASSUME NEW v, Steady(v), v.laid, NEW on PROVE Steady([v EXCEPT !.crlf = on]) /\ [v EXCEPT !.crlf = on].laid
<1> DEFINE w == [v EXCEPT !.crlf = on]
<1>1. Good(v) /\ IsScreen(v)
  BY DEF Steady, Whole, Good, Sound
<1>2. IsScreen(w) /\ Frame(v, w) /\ Rest(v, w) /\ Picture(v, w)
  BY ZenonT(60), <1>1 DEF IsScreen, Fields, Frame, Rest, Pens, Picture
<1> HIDE DEF w
<1>3. Keeps(v, w) /\ w.cursor = v.cursor
  BY <1>1, <1>2, Alike DEF Rest
<1>4. Steady(w) /\ w.laid
  BY <1>2, <1>3, SteadyKept DEF Frame
<1> QED BY <1>4 DEF w

LEMMA ResetSteady == ASSUME NEW v, Steady(v), v.laid PROVE Steady(TextReset(v))
<1> DEFINE no == FALSE
           zero == 0
           plain == <<FALSE, FALSE>>
           w == [v EXCEPT !.graphics = plain, !.shifted = no, !.utf8 = zero]
<1>1. Good(v) /\ IsScreen(v)
  BY DEF Steady, Whole, Good, Sound
<1>2. TextReset(v) = w
  BY DEF TextReset
<1> HIDE DEF no, zero, plain
<1>3. IsScreen(w) /\ Frame(v, w) /\ Rest(v, w) /\ Picture(v, w)
  BY ZenonT(60), <1>1 DEF IsScreen, Fields, Frame, Rest, Pens, Picture
<1> HIDE DEF w
<1>4. Keeps(v, w) /\ w.cursor = v.cursor
  BY <1>1, <1>3, Alike DEF Rest
<1> QED BY <1>2, <1>4, SteadyKept

\* Everything but what is drawn as keys are taken.
LEMMA SameAfter == ASSUME Stands, UNCHANGED <<vga, con, reader>> PROVE After1
BY DEF Stands, After1

LEMMA LookAfter ==
  ASSUME Stands, UNCHANGED <<vga, reader>>, NEW text, NEW late, con' = Gathered(text, late) PROVE After1
<1> DEFINE c == Gathered(text, late)
<1>1. Line(c) /\ Asking(reader, c)
  BY GatheredLine DEF Stands, At1
<1> HIDE DEF c
<1>2. vga' = vga /\ con' = c /\ reader' = reader /\ At1(vga, c, reader)
  BY <1>1 DEF Stands, At1, c
<1> QED BY <1>2 DEF After1

LEMMA SignalAfter == ASSUME Stands, Calm(setup), TakeSignal PROVE After1
<1>1. vga.laid /\ "signal" \in Does /\ reader' = reader
  BY DEF TakeSignal, Others, Step
<1>2. PICK late \in BOOLEAN, shows \in BOOLEAN : SignalPolled(Polled(kbd), late, shows)
  BY DEF TakeSignal
<1> DEFINE p == Polled(kbd)
           c == Gathered(p.text, late)
           echo == SignalEcho(c.signalled, shows)
           v == Puts(vga, echo)
           zero == 0
           u == IF c.signalled = FORCE THEN 0 ELSE c.unread
           d == [c EXCEPT !.signalled = zero, !.unread = u]
<1>3. Signal(c, shows)
  BY <1>2 DEF SignalPolled
<1>4. Line(c) /\ Asking(reader, c)
  BY GatheredLine DEF Stands, At1
<1> HIDE DEF c
<1>5. vga' = v
  BY <1>3 DEF Signal, ShowEcho
<1>6. con' = d
  <2>1. con' = [c EXCEPT !.signalled = 0, !.unread = IF c.signalled = FORCE THEN 0 ELSE @]
    BY <1>3 DEF Signal
  <2> QED BY <1>4, <2>1 DEF Line, ConFields
<1> HIDE DEF u, zero
<1>7. Line(d) /\ Asking(reader, d)
  <2>1. d = [x \in ConFields |-> d[x]] /\ d.line = c.line /\ d.pos = c.pos /\ d.history = c.history
    BY <1>4 DEF Line, ConFields
  <2> HIDE DEF d
  <2> QED BY <1>4, <2>1, LineSame
<1>8. IsText(echo)
  <2> DEFINE nil == <<>>
             quit == <<"^", "\\", "LF">>
             end == <<"^", "C", "LF">>
             n == c.signalled
  <2>1. IsText(nil) /\ IsText(quit) /\ IsText(end)
    BY NoText, ThreeText
  <2>2. echo = IF n = 0 \/ ~(shows \/ n = FORCE) THEN nil ELSE IF n = 3 THEN quit ELSE end
    BY DEF SignalEcho
  <2> HIDE DEF nil, quit, end, n, echo
  <2> QED BY <2>1, <2>2
<1> HIDE DEF echo
<1>9. Steady(v)
  <2>1. Plainer(vga)
    BY <1>1, ReadsPlain
  <2>2. Plainer(v)
    BY <1>8, <2>1, PlainerPuts
  <2> HIDE DEF v
  <2> QED BY <2>2, PlainerSteady
<1> HIDE DEF v, d
<1>10. At1(v, d, reader)
  BY <1>7, <1>9 DEF Stands, At1
<1> QED BY <1>1, <1>5, <1>6, <1>10 DEF After1

LEMMA EndsAfter == ASSUME Stands, ReaderEnds PROVE After1
<1>1. vga' = vga /\ con' = con /\ reader' = NoReader
  BY DEF ReaderEnds
<1>2. Asking(NoReader, con) /\ NoReader.at = "none"
  BY NoReaderAsks DEF Stands, At1, NoReader
<1>3. At1(vga, con, NoReader)
  BY <1>2 DEF Stands, At1
<1> QED BY <1>1, <1>3 DEF After1

LEMMA KeysAfter == ASSUME Stands, NEW on, ConsoleKeys(on) PROVE After1
<1> DEFINE off == ~on
           d == [con EXCEPT !.off = off]
<1>1. vga' = vga /\ con' = d /\ reader' = reader
  BY DEF ConsoleKeys
<1> HIDE DEF off
<1>2. d = [x \in ConFields |-> d[x]] /\ d.line = con.line /\ d.pos = con.pos /\ d.history = con.history
  BY DEF Stands, At1, Line, ConFields
<1> HIDE DEF d
<1>3. At1(vga, d, reader)
  BY <1>2, LineSame DEF Stands, At1
<1> QED BY <1>1, <1>3 DEF After1

LEMMA SetAfter == ASSUME Stands, NEW s, ConsoleSet(s) PROVE After1
<1> DEFINE d == [con EXCEPT !.set = s]
           on == s.onlcr
           v == [vga EXCEPT !.crlf = on]
<1>1. vga' = v /\ con' = d /\ reader' = reader /\ vga.laid
  BY DEF ConsoleSet, Others, Step
<1>2. d = [x \in ConFields |-> d[x]] /\ d.line = con.line /\ d.pos = con.pos /\ d.history = con.history
  BY DEF Stands, At1, Line, ConFields
<1> HIDE DEF d, on
<1>3. Steady(v)
  BY <1>1, CrlfSteady DEF Stands, At1
<1> HIDE DEF v
<1>4. At1(v, d, reader)
  BY <1>2, <1>3, LineSame DEF Stands, At1
<1> QED BY <1>1, <1>4 DEF After1

LEMMA ResetAfter == ASSUME Stands, ConsoleReset PROVE After1
<1> DEFINE nil == <<>>
           zero == 0
           yes == TRUE
           d == [con EXCEPT !.set = Cooked, !.typed = nil, !.signalled = zero, !.unread = zero, !.handed = zero, !.ready = zero]
           u == [vga EXCEPT !.crlf = yes]
           v == TextReset(u)
<1>1. vga' = v /\ con' = d /\ reader' = reader /\ vga.laid
  BY DEF ConsoleReset, Others, Step
<1> HIDE DEF nil, zero, yes
<1>2. d = [x \in ConFields |-> d[x]] /\ d.line = con.line /\ d.pos = con.pos /\ d.history = con.history
  BY DEF Stands, At1, Line, ConFields
<1> HIDE DEF d
<1>3. Steady(u) /\ u.laid
  BY <1>1, CrlfSteady DEF Stands, At1
<1> HIDE DEF u
<1>4. Steady(v)
  BY <1>3, ResetSteady
<1> HIDE DEF v
<1>5. At1(v, d, reader)
  BY <1>2, <1>4, LineSame DEF Stands, At1
<1> QED BY <1>1, <1>5 DEF After1

LEMMA ScreenAfter == ASSUME Stands, Calm(setup), OnScreen PROVE After1
<1>1. con' = con /\ reader' = reader /\ ScreenNext
  BY DEF OnScreen
<1>2. PICK v : vga' = v /\ Steady(v)
  BY <1>1, ScreenNextSteady DEF Stands, At1, Next1Steady
<1>3. At1(v, con, reader)
  BY <1>2 DEF Stands, At1
<1> QED BY <1>1, <1>2, <1>3 DEF After1

LEMMA NextAfter == ASSUME Stands, Calm(setup), [Next]_vars PROVE After1
<1>1. ASSUME NEW text, Press(text) PROVE After1
  BY <1>1, SameAfter DEF Press
<1>2. ASSUME NEW n, Read(n) PROVE After1
  BY <1>2, ReadAfter
<1>3. ASSUME Ready PROVE After1
  <2>1. PICK late \in BOOLEAN : con' = Gathered(Polled(kbd).text, late)
    BY <1>3 DEF Ready, Look
  <2> DEFINE text == Polled(kbd).text
  <2> HIDE DEF text
  <2>2. con' = Gathered(text, late) /\ UNCHANGED <<vga, reader>>
    BY <1>3, <2>1 DEF Ready, text
  <2> QED BY <2>2, LookAfter
<1>4. ASSUME NEW d, NEW n, InputRead(d, n) PROVE After1
  <2>1. PICK late \in BOOLEAN : con' = Gathered(Polled(kbd).text, late)
    BY <1>4 DEF InputRead, Look
  <2> DEFINE text == Polled(kbd).text
  <2> HIDE DEF text
  <2>2. con' = Gathered(text, late) /\ UNCHANGED <<vga, reader>>
    BY <1>4, <2>1 DEF InputRead, text
  <2> QED BY <2>2, LookAfter
<1>5. ASSUME OnKeyboard PROVE After1
  BY <1>5, SameAfter DEF OnKeyboard
<1>6. ASSUME UNCHANGED vars PROVE After1
  BY <1>6, SameAfter DEF vars
<1>7. ASSUME NEW on, ConsoleKeys(on) PROVE After1
  BY <1>7, KeysAfter
<1>8. ASSUME NEW s, ConsoleSet(s) PROVE After1
  BY <1>8, SetAfter
<1> QED BY <1>1, <1>2, <1>3, <1>4, <1>5, <1>6, <1>7, <1>8, TakeAfter, SignalAfter, EndsAfter, ResetAfter, ScreenAfter DEF Next

----------------------------------------------------------------------------
(* What the screen shows.                                                  *)

LEMMA StandsTrue == ASSUME Stands PROVE ScreenTrue
<1>1. CASE ~vga.laid
  BY <1>1 DEF ScreenTrue, Shows
<1>2. CASE vga.laid
  <2>1. Whole(vga)
    BY <1>2 DEF Stands, At1, Steady
  <2>2. GridTrue(vga)
    BY <2>1 DEF GridTrue, Whole, WrapTrue, Good, Sound, Grid, Placed, Region, Inked, Parsing
  <2>3. Shows(vga) => vga.picture = vga.screen /\ vga.marks \subseteq {vga.cursor} /\ (vga.marks # {} => vga.shown)
    BY <2>1 DEF Whole, Marked, Showing, Shows
  <2> QED BY <2>2, <2>3 DEF ScreenTrue
<1> QED BY <1>1, <1>2

LEMMA StandsFirst == ASSUME Init PROVE Stands
<1> DEFINE v == Puts(Started, setup.Shown)
           no == FALSE
           nil == <<>>
           zero == 0
           c == [set |-> Cooked, typed |-> nil, signalled |-> zero, unread |-> zero, off |-> no, handed |-> zero, ready |-> zero,
                 line |-> nil, pos |-> zero, history |-> nil, drawing |-> no]
<1>1. setup \in Setups /\ vga = v /\ con = c /\ reader = NoReader
  BY DEF Init, ScreenInit, Quiet
<1>2. Steady(v)
  BY <1>1, StartSteady
<1> HIDE DEF v
<1>3. IsText(nil) /\ Len(nil) = 0 /\ zero = 0
  BY NoText
<1> HIDE DEF no, nil, zero
<1>4. c = [x \in ConFields |-> c[x]] /\ c.line = nil /\ c.pos = zero /\ c.history = nil
  BY DEF ConFields
<1> HIDE DEF c
<1>5. Line(c)
  BY <1>3, <1>4 DEF Line
<1>6. Asking(NoReader, c) /\ NoReader.at = "none"
  BY <1>5, NoReaderAsks DEF NoReader
<1> QED BY <1>1, <1>2, <1>5, <1>6 DEF Stands, At1

LEMMA StandsNext == ASSUME Stands, Calm(setup), [Next]_vars PROVE Stands'
<1>1. setup' = setup
  BY DEF Next, Press, Read, TakeKey, Ready, TakeSignal, ReaderEnds, ConsoleReset, OnScreen, OnKeyboard, InputRead, ConsoleKeys,
         ConsoleSet, Others, Step, ScreenNext, Write, Raw, SetColor, Capture, CaptureEnd, SetMode, Firmware, SetFont, SetScale,
         Follow, FirmwareGone, Lend, DrawOver, vars
<1>2. PICK v, c, r : vga' = v /\ con' = c /\ reader' = r /\ At1(v, c, r)
  BY NextAfter DEF After1
<1>3. Stands' <=> (setup' \in Setups /\ At1(vga, con, reader)')
  BY DEF Stands
<1>4. At1(vga, con, reader)'
  BY <1>1, <1>2 DEF At1, Steady, Line, Asking, Does, Whole, Good, Sound, Grid, Placed, Region, WrapTrue, Marked, Showing, Astray,
     IsScreen, Sized, Inked, Parsing, PARAMS, Cells, RowStart, Column, IsText
<1> QED BY <1>1, <1>3, <1>4 DEF Stands

\* Whenever the console has the screen, in the mode it believes in, every cell is drawn as the console holds it
\* and the one bar of a cursor is where the cursor is: vga.c draws only the cells that change, and no scroll,
\* insertion, erasure, change of mode, font or scale, lending, capture or edited line leaves one out.
THEOREM ScreenTheorem == ASSUME \A s \in Setups : Calm(s) PROVE Spec => []ScreenTrue
<1>1. Init => Stands
  BY StandsFirst
<1>2. Stands /\ [Next]_vars => Stands'
  <2>1. ASSUME Stands, [Next]_vars PROVE Stands'
    <3>1. Calm(setup)
      BY <2>1 DEF Stands
    <3> QED BY <2>1, <3>1, StandsNext
  <2> QED BY <2>1
<1>3. Stands => ScreenTrue
  BY StandsTrue
<1> QED BY <1>1, <1>2, <1>3, PTL DEF Spec

----------------------------------------------------------------------------
(* What is read.  None of it depends on the screen.                        *)

Owing(c, r, t) == Line(c) /\ Asking(r, c) /\ Reading(c, r, t)
Owed == setup \in Setups /\ Owing(con, reader, truth)
OwedAfter == \E c, r, t : con' = c /\ reader' = r /\ truth' = t /\ Owing(c, r, t)

\* What is read of a line does not depend on the rest of the console.
LEMMA OwingSame ==
  ASSUME NEW c, NEW r, NEW t, Owing(c, r, t),
         NEW d, d = [f \in ConFields |-> d[f]], d.line = c.line, d.pos = c.pos, d.history = c.history, d.handed = c.handed,
         d.ready = c.ready,
         NEW u, u = [x \in TruthFields |-> u[x]], u.entered = t.entered, u.had = t.had, u.lost = t.lost
  PROVE  Owing(d, r, u)
<1>1. Line(d) /\ Asking(r, d)
  BY LineSame DEF Owing
<1>2. Reading(d, r, u)
  BY DEF Owing, Reading, Owes, Honest, HandedOut
<1> QED BY <1>1, <1>2 DEF Owing

LEMMA TruthKept == ASSUME NEW t, Honest(t), NEW clean PROVE
  LET u == [t EXCEPT !.clean = clean]
  IN u = [x \in TruthFields |-> u[x]] /\ u.entered = t.entered /\ u.had = t.had /\ u.lost = t.lost
<1> DEFINE u == [t EXCEPT !.clean = clean]
<1>1. u = [x \in TruthFields |-> u[x]] /\ u.entered = t.entered /\ u.had = t.had /\ u.lost = t.lost
  BY DEF Honest, TruthFields
<1> QED BY <1>1

LEMMA BecomesOwed == ASSUME NEW e, Becomes(e), Editor(e), Rightly(e) PROVE OwedAfter
BY DEF Becomes, Editor, Rightly, OwedAfter, Owing

LEMMA GatheredOwed ==
  ASSUME Owed, NEW text, NEW late, con' = Gathered(text, late), UNCHANGED <<reader, truth>> PROVE OwedAfter
<1> DEFINE c == Gathered(text, late)
<1>1. Owing(c, reader, truth)
  BY GatheredLine DEF Owed, Owing
<1> HIDE DEF c
<1>2. con' = c /\ reader' = reader /\ truth' = truth
  BY DEF c
<1> QED BY <1>1, <1>2 DEF OwedAfter

LEMMA SameOwed == ASSUME Owed, UNCHANGED <<con, reader, truth>> PROVE OwedAfter
BY DEF Owed, OwedAfter

LEMMA SignalOwed == ASSUME Owed, TakeSignal PROVE OwedAfter
<1>1. reader' = reader
  BY DEF TakeSignal
<1>2. PICK late \in BOOLEAN, shows \in BOOLEAN : SignalPolled(Polled(kbd), late, shows)
  BY DEF TakeSignal
<1> DEFINE p == Polled(kbd)
           c == Gathered(p.text, late)
           echo == SignalEcho(c.signalled, shows)
           zero == 0
           u == IF c.signalled = FORCE THEN 0 ELSE c.unread
           d == [c EXCEPT !.signalled = zero, !.unread = u]
           clean == truth.clean /\ echo = <<>>
           t == [truth EXCEPT !.clean = clean]
<1>3. Signal(c, shows)
  BY <1>2 DEF SignalPolled
<1>4. Owing(c, reader, truth)
  BY GatheredLine DEF Owed, Owing
<1> HIDE DEF c
<1>5. con' = d
  <2>1. con' = [c EXCEPT !.signalled = 0, !.unread = IF c.signalled = FORCE THEN 0 ELSE @]
    BY <1>3 DEF Signal
  <2> QED BY <1>4, <2>1 DEF Owing, Line, ConFields
<1>6. truth' = t
  <2>1. truth' = [truth EXCEPT !.clean = @ /\ echo = <<>>]
    BY <1>3 DEF Signal, ShowEcho
  <2> HIDE DEF echo
  <2> QED BY <1>4, <2>1 DEF Owing, Reading, Honest, TruthFields
<1> HIDE DEF u, zero, echo, clean
<1>7. d = [x \in ConFields |-> d[x]] /\ d.line = c.line /\ d.pos = c.pos /\ d.history = c.history
      /\ d.handed = c.handed /\ d.ready = c.ready
  BY <1>4 DEF Owing, Line, ConFields
<1>8. t = [x \in TruthFields |-> t[x]] /\ t.entered = truth.entered /\ t.had = truth.had /\ t.lost = truth.lost
  BY <1>4, TruthKept DEF Owing, Reading
<1> HIDE DEF d, t
<1>9. Owing(d, reader, t)
  BY <1>4, <1>7, <1>8, OwingSame
<1> QED BY <1>1, <1>5, <1>6, <1>9 DEF OwedAfter

LEMMA EndsOwed == ASSUME Owed, ReaderEnds PROVE OwedAfter
<1> DEFINE lost == truth.lost \/ (Editing /\ con.handed # con.ready)
           t == [truth EXCEPT !.lost = lost]
<1>1. con' = con /\ reader' = NoReader /\ truth' = t /\ reader.at # "none"
  BY DEF ReaderEnds
<1>2. Editing <=> reader.at \in EditPlaces
  BY DEF Editing, EditPlaces
<1>3. Line(con) /\ Reading(con, reader, truth)
  BY DEF Owed, Owing
<1>4. Asking(NoReader, con) /\ NoReader.at = "none" /\ "none" \notin EditPlaces
  BY <1>3, NoReaderAsks DEF NoReader, EditPlaces
<1>5. t = [x \in TruthFields |-> t[x]] /\ t.entered = truth.entered /\ t.had = truth.had /\ t.lost = lost
  <2> HIDE DEF lost
  <2> QED BY <1>3 DEF Reading, Honest, TruthFields
<1> HIDE DEF t
<1>6. HandedOut(con, t)
  <2>1. CASE reader.at \in EditPlaces
    <3>1. con.handed = 0 /\ truth.had = <<>> /\ con.ready \in Nat
      BY <1>3, <2>1 DEF Reading, Owes
    <3>2. CASE con.ready # 0
      BY <1>2, <1>5, <2>1, <3>1, <3>2 DEF HandedOut
    <3>3. CASE con.ready = 0
      <4>1. SubSeq(t.entered, 1, 0) = <<>>
        <5> DEFINE E == truth.entered
        <5>1. PICK A : E \in Seq(A)
          BY <1>3 DEF Reading, Honest, IsText
        <5> HIDE DEF E
        <5>2. SubSeq(E, 1, 0) = <<>>
          BY <5>1
        <5> QED BY <1>5, <5>2 DEF E
      <4>2. t.had = SubSeq(t.entered, 1, con.handed)
        BY <1>5, <3>1, <4>1
      <4>3. ~(con.ready > 0)
        BY <3>3
      <4> QED BY <4>2, <4>3 DEF HandedOut
    <3> QED BY <3>2, <3>3
  <2>2. CASE reader.at \notin EditPlaces
    <3>1. HandedOut(con, truth)
      BY <1>3, <2>2 DEF Reading
    <3>2. t.lost <=> truth.lost
      BY <1>2, <1>5, <2>2
    <3> QED BY <1>5, <3>1, <3>2 DEF HandedOut
  <2> QED BY <2>1, <2>2
<1>7. Reading(con, NoReader, t)
  BY <1>3, <1>4, <1>5, <1>6 DEF Reading, Honest
<1> QED BY <1>1, <1>3, <1>4, <1>7 DEF OwedAfter, Owing

LEMMA KeysOwed == ASSUME Owed, NEW on, ConsoleKeys(on) PROVE OwedAfter
<1> DEFINE off == ~on
           d == [con EXCEPT !.off = off]
<1>1. con' = d /\ reader' = reader /\ truth' = truth
  BY DEF ConsoleKeys
<1>2. Owing(con, reader, truth) /\ truth = [x \in TruthFields |-> truth[x]]
  BY DEF Owed, Owing, Reading, Honest
<1> HIDE DEF off
<1>3. d = [x \in ConFields |-> d[x]] /\ d.line = con.line /\ d.pos = con.pos /\ d.history = con.history
      /\ d.handed = con.handed /\ d.ready = con.ready
  BY <1>2 DEF Owing, Line, ConFields
<1> HIDE DEF d
<1>4. Owing(d, reader, truth)
  BY <1>2, <1>3, OwingSame
<1> QED BY <1>1, <1>4 DEF OwedAfter

LEMMA SetOwed == ASSUME Owed, NEW s, ConsoleSet(s) PROVE OwedAfter
<1> DEFINE d == [con EXCEPT !.set = s]
           clean == truth.clean /\ s.onlcr
           t == [truth EXCEPT !.clean = clean]
<1>1. con' = d /\ reader' = reader /\ truth' = [truth EXCEPT !.clean = @ /\ s.onlcr]
  BY DEF ConsoleSet
<1>2. Owing(con, reader, truth) /\ Honest(truth)
  BY DEF Owed, Owing, Reading
<1>3. truth' = t
  BY <1>1, <1>2 DEF Honest, TruthFields
<1> HIDE DEF clean
<1>4. d = [x \in ConFields |-> d[x]] /\ d.line = con.line /\ d.pos = con.pos /\ d.history = con.history
      /\ d.handed = con.handed /\ d.ready = con.ready
  BY <1>2 DEF Owing, Line, ConFields
<1>5. t = [x \in TruthFields |-> t[x]] /\ t.entered = truth.entered /\ t.had = truth.had /\ t.lost = truth.lost
  BY <1>2, TruthKept
<1> HIDE DEF d, t
<1>6. Owing(d, reader, t)
  BY <1>2, <1>4, <1>5, OwingSame
<1> QED BY <1>1, <1>3, <1>6 DEF OwedAfter

LEMMA OnScreenOwed == ASSUME Owed, OnScreen PROVE OwedAfter
<1> DEFINE clean == truth.clean /\ Terminal(vga') = Terminal(vga)
           t == [truth EXCEPT !.clean = clean]
<1>1. con' = con /\ reader' = reader /\ truth' = [truth EXCEPT !.clean = @ /\ Terminal(vga') = Terminal(vga)]
  BY DEF OnScreen
<1>2. Owing(con, reader, truth) /\ Honest(truth)
  BY DEF Owed, Owing, Reading
<1>3. truth' = t
  BY <1>1, <1>2 DEF Honest, TruthFields
<1> HIDE DEF clean
<1>4. con = [x \in ConFields |-> con[x]]
  BY <1>2 DEF Owing, Line
<1>5. t = [x \in TruthFields |-> t[x]] /\ t.entered = truth.entered /\ t.had = truth.had /\ t.lost = truth.lost
  BY <1>2, TruthKept
<1> HIDE DEF t
<1>6. Owing(con, reader, t)
  BY <1>2, <1>4, <1>5, OwingSame
<1> QED BY <1>1, <1>3, <1>6 DEF OwedAfter

\* Nothing is owed: no line, and nothing of one handed out.
LEMMA NothingOwed ==
  ASSUME NEW c, Line(c), c.handed = 0, c.ready = 0, NEW r, Asking(r, c), r.at = "none" PROVE Owing(c, r, NoTruth)
<1> DEFINE no == FALSE
           nil == <<>>
           t == [clean |-> no, prompt |-> nil, entered |-> nil, had |-> nil, lost |-> no]
<1>1. NoTruth = t
  BY DEF NoTruth
<1>2. IsText(nil) /\ nil = SubSeq(nil, 1, 0)
  BY NoText
<1> HIDE DEF no, nil
<1>3. t = [x \in TruthFields |-> t[x]] /\ t.entered = nil /\ t.had = nil
  BY DEF TruthFields
<1> HIDE DEF t
<1>4. HandedOut(c, t)
  <2>1. t.had = SubSeq(t.entered, 1, c.handed)
    BY <1>2, <1>3
  <2>2. ~(c.ready > 0)
    OBVIOUS
  <2> QED BY <2>1, <2>2 DEF HandedOut
<1>5. r.at \notin EditPlaces
  BY DEF EditPlaces
<1>6. Owes(c) /\ Honest(t)
  BY <1>2, <1>3 DEF Owes, Honest
<1>7. Reading(c, r, t)
  BY <1>4, <1>5, <1>6 DEF Reading
<1> QED BY <1>1, <1>7 DEF Owing

LEMMA ResetOwed == ASSUME Owed, ConsoleReset PROVE OwedAfter
<1> DEFINE nil == <<>>
           zero == 0
           d == [con EXCEPT !.set = Cooked, !.typed = nil, !.signalled = zero, !.unread = zero, !.handed = zero, !.ready = zero]
<1>1. con' = d /\ reader' = reader /\ truth' = NoTruth /\ reader.at = "none"
  BY DEF ConsoleReset
<1>2. Line(con) /\ Asking(reader, con) /\ zero = 0
  BY DEF Owed, Owing
<1> HIDE DEF nil, zero
<1>3. d = [x \in ConFields |-> d[x]] /\ d.line = con.line /\ d.pos = con.pos /\ d.history = con.history
      /\ d.handed = zero /\ d.ready = zero
  BY <1>2 DEF Line, ConFields
<1> HIDE DEF d
<1>4. Line(d) /\ Asking(reader, d)
  BY <1>2, <1>3, LineSame
<1>5. Owing(d, reader, NoTruth)
  BY <1>1, <1>2, <1>3, <1>4, NothingOwed
<1> QED BY <1>1, <1>5 DEF OwedAfter

LEMMA NextOwed == ASSUME Owed, [Next]_vars PROVE OwedAfter
<1>0. Line(con) /\ Asking(reader, con) /\ Reading(con, reader, truth) /\ setup \in Setups
  BY DEF Owed, Owing
<1>1. ASSUME NEW text, Press(text) PROVE OwedAfter
  BY <1>1, SameOwed DEF Press
<1>2. ASSUME NEW n \in setup.Counts, Read(n) PROVE OwedAfter
  <2>1. n \in Nat
    BY <1>0, NamesAssumption
  <2>2. PICK e : Becomes(e) /\ Editor(e) /\ Rightly(e)
    BY <1>0, <1>2, <2>1, ReadEdits
  <2> QED BY <2>2, BecomesOwed
<1>3. ASSUME TakeKey PROVE OwedAfter
  <2>1. PICK e : Becomes(e) /\ Editor(e) /\ Rightly(e)
    BY <1>0, <1>3, TakeKeyEdits
  <2> QED BY <2>1, BecomesOwed
<1>4. ASSUME Ready PROVE OwedAfter
  <2>1. PICK late \in BOOLEAN : con' = Gathered(Polled(kbd).text, late)
    BY <1>4 DEF Ready, Look
  <2> DEFINE text == Polled(kbd).text
  <2> HIDE DEF text
  <2>2. con' = Gathered(text, late) /\ UNCHANGED <<reader, truth>>
    BY <1>4, <2>1 DEF Ready, text
  <2> QED BY <2>2, GatheredOwed
<1>5. ASSUME NEW d, NEW n, InputRead(d, n) PROVE OwedAfter
  <2>1. PICK late \in BOOLEAN : con' = Gathered(Polled(kbd).text, late)
    BY <1>5 DEF InputRead, Look
  <2> DEFINE text == Polled(kbd).text
  <2> HIDE DEF text
  <2>2. con' = Gathered(text, late) /\ UNCHANGED <<reader, truth>>
    BY <1>5, <2>1 DEF InputRead, text
  <2> QED BY <2>2, GatheredOwed
<1>6. ASSUME OnKeyboard PROVE OwedAfter
  BY <1>6, SameOwed DEF OnKeyboard
<1>7. ASSUME UNCHANGED vars PROVE OwedAfter
  BY <1>7, SameOwed DEF vars
<1>8. ASSUME NEW on, ConsoleKeys(on) PROVE OwedAfter
  BY <1>8, KeysOwed
<1>9. ASSUME NEW s, ConsoleSet(s) PROVE OwedAfter
  BY <1>9, SetOwed
<1> QED BY <1>1, <1>2, <1>3, <1>4, <1>5, <1>6, <1>7, <1>8, <1>9, SignalOwed, EndsOwed, ResetOwed, OnScreenOwed DEF Next

LEMMA OwedFirst == ASSUME Init PROVE Owed
<1> DEFINE no == FALSE
           nil == <<>>
           zero == 0
           c == [set |-> Cooked, typed |-> nil, signalled |-> zero, unread |-> zero, off |-> no, handed |-> zero, ready |-> zero,
                 line |-> nil, pos |-> zero, history |-> nil, drawing |-> no]
<1>1. setup \in Setups /\ con = c /\ reader = NoReader /\ truth = NoTruth
  BY DEF Init, Quiet
<1>2. IsText(nil) /\ Len(nil) = 0 /\ zero = 0
  BY NoText
<1> HIDE DEF no, nil, zero
<1>3. c = [x \in ConFields |-> c[x]] /\ c.line = nil /\ c.pos = zero /\ c.history = nil /\ c.handed = zero /\ c.ready = zero
  BY DEF ConFields
<1> HIDE DEF c
<1>4. Line(c)
  BY <1>2, <1>3 DEF Line
<1>5. Asking(NoReader, c) /\ NoReader.at = "none"
  BY <1>4, NoReaderAsks DEF NoReader
<1>6. Owing(c, NoReader, NoTruth)
  BY <1>2, <1>3, <1>4, <1>5, NothingOwed
<1> QED BY <1>1, <1>6 DEF Owed

LEMMA OwedNext == ASSUME Owed, [Next]_vars PROVE Owed'
<1>1. setup' = setup /\ setup \in Setups
  BY DEF Owed, Next, Press, Read, TakeKey, Ready, TakeSignal, ReaderEnds, ConsoleReset, OnScreen, OnKeyboard, InputRead, ConsoleKeys,
         ConsoleSet, Others, Step, ScreenNext, Write, Raw, SetColor, Capture, CaptureEnd, SetMode, Firmware, SetFont, SetScale,
         Follow, FirmwareGone, Lend, DrawOver, vars
<1>2. PICK c, r, t : con' = c /\ reader' = r /\ truth' = t /\ Owing(c, r, t)
  BY NextOwed DEF OwedAfter
<1>3. Owing(con, reader, truth)'
  BY <1>2 DEF Owing, Line, Asking, Reading, Owes, Honest, HandedOut, IsText
<1> QED BY <1>1, <1>3 DEF Owed

LEMMA OwedRead == ASSUME Owed PROVE LineRead
<1>1. Editing <=> reader.at \in EditPlaces
  BY DEF Editing, EditPlaces
<1> QED BY <1>1 DEF Owed, Owing, Reading, HandedOut, LineRead

\* What programs read of a line is that line, from its beginning, in however many reads: console_read's `ready'
\* and `handed' stay true to `line' through raw reads, signals, settings and other threads in between.
THEOREM ReadTheorem == Spec => []LineRead
<1>1. Init => Owed
  BY OwedFirst
<1>2. Owed /\ [Next]_vars => Owed'
  BY OwedNext
<1>3. Owed => LineRead
  BY OwedRead
<1> QED BY <1>1, <1>2, <1>3, PTL DEF Spec
=============================================================================
