------------------------------- MODULE Screen -------------------------------
(***************************************************************************)
(* The screen (kernel/vga.c): a grid of cells drawn into the framebuffer,  *)
(* and the terminal that writes in it - escape sequences, scrolling, line  *)
(* wrap, the cursor - with the modes, sizes and fonts that lay it out.     *)
(*                                                                         *)
(* The whole of it is one record, since everything that prints goes        *)
(* through many characters in one step.  `picture' is what the framebuffer *)
(* shows of each cell and `marks' where the bar of a cursor is drawn in    *)
(* it; the code keeps neither, only `screen', from which it decides what   *)
(* need not be drawn again.                                                *)
(*                                                                         *)
(* Characters are one-letter strings and the names of the control codes;   *)
(* "lead1".."lead3" and "cont" are the bytes of a longer UTF-8 character.  *)
(* A colour is <<foreground, background>>.                                 *)
(***************************************************************************)
EXTENDS Integers, Sequences, FiniteSets, SequencesExt, FiniteSetsExt, TLC

CONSTANT Setups   \* the machines, and what is done on each

(***************************************************************************)
(* Of a setup, for the screen: Modes, the sizes the firmware offers;       *)
(* Scales and Fonts, sizes asked for; MinCols and MinRows, the least grid  *)
(* layout takes; TAB and PARAMS; Writes, what programs write; Takes, how   *)
(* much a capture takes; Shown, what the screen shows at first; Does, what *)
(* happens; MaxSteps, how many steps.                                      *)
(***************************************************************************)
Size == Nat \X Nat
FontSize == (Nat \ {0}) \X (Nat \ {0})

ASSUME SetupsAssumption ==
  \A s \in Setups :
    /\ {s.MinCols, s.TAB, s.PARAMS} \subseteq Nat \ {0} /\ s.MinRows \in Nat \ {0, 1}
    /\ s.Modes \in Seq(Size) /\ s.Modes # <<>> /\ s.Modes[1][1] >= s.MinCols /\ s.Modes[1][2] >= s.MinRows
    /\ s.Scales \subseteq Size /\ s.Fonts \subseteq FontSize
    /\ s.Shown \in Seq(STRING) /\ s.Writes \subseteq Seq(STRING)

VARIABLES
  setup,
  vga,       \* the screen
  left       \* steps still to be made

PARAMS == setup.PARAMS
Does == setup.Does

MaxParam == 9999   \* a bound on a parameter, far past any screen
LightGray == 7
Black == 0
Plain == <<LightGray, Black>>
None == "none"

Digits == [c \in {"0", "1", "2", "3", "4", "5", "6", "7", "8", "9"} |->
             CHOOSE n \in 0 .. 9 : c = <<"0", "1", "2", "3", "4", "5", "6", "7", "8", "9">>[n + 1]]
Lines == {"_", "a", "b", "c", "q", "x", "~"}   \* '_' to '~', which the VT100's line drawing set draws as lines
LeadBytes == [lead1 |-> 1, lead2 |-> 2, lead3 |-> 3]
\* Control characters there is no answer for, of which "^A" and its like are what Ctrl and a letter type.
Controls == {"BEL", "DEL", "^A", "^B", "^C", "^D", "^U", "^\\"}

----------------------------------------------------------------------------
(* Cells, and drawing them.                                                *)

Cells(v) == 0 .. v.width * v.rows - 1
Cell(v, g) == <<g, v.color>>
RowOf(v) == v.cursor \div v.width
Column(v) == v.cursor % v.width
RowStart(v) == v.cursor - Column(v)

DrawCell(v, i) == IF v.lent THEN v ELSE [v EXCEPT !.picture[i] = v.screen[i], !.marks = @ \ {i}]

CursorDraw(v, on) ==
  IF v.cursor \notin Cells(v) \/ (on /\ ~v.shown) \/ v.lent THEN v
  ELSE IF on THEN [v EXCEPT !.marks = @ \cup {v.cursor}]
  ELSE DrawCell(v, v.cursor)

\* Cells given values at once, of which only the ones that change are drawn.
Put(v, f) ==
  LET drawn == IF v.lent THEN {} ELSE {i \in DOMAIN f : f[i] # v.screen[i]}
  IN [v EXCEPT !.screen  = [i \in DOMAIN @ |-> IF i \in DOMAIN f THEN f[i] ELSE @[i]],
               !.picture = [i \in DOMAIN @ |-> IF i \in drawn THEN f[i] ELSE @[i]],
               !.marks   = @ \ drawn]

Blank(v, S) == Put(v, [i \in S |-> Cell(v, " ")])

Repaint(v) ==
  CursorDraw(IF v.lent THEN v ELSE [v EXCEPT !.picture = v.screen, !.marks = {}], TRUE)

\* The whole picture painted at once, which is cheaper than drawing each cell.
Filled(v, c) == IF v.lent THEN v ELSE [v EXCEPT !.picture = [i \in DOMAIN @ |-> c], !.marks = {}]

Clear(v) ==
  CursorDraw(Filled([v EXCEPT !.screen = [i \in DOMAIN @ |-> Cell(v, " ")], !.cursor = 0], Cell(v, " ")), TRUE)

----------------------------------------------------------------------------
(* Modes and fonts.                                                        *)

Usable(v) == v.fb[1] \div v.font[1] >= setup.MinCols /\ v.fb[2] \div v.font[2] >= setup.MinRows

\* The console laid out for the screen and the font; `memory' is whether its cells can be had.
\* Where it cannot be, nothing has changed - and `laid' says so of the grid, which no longer fits.
Layout(v, memory) ==
  IF ~Usable(v) \/ ~memory THEN [v EXCEPT !.laid = FALSE]
  ELSE LET w == v.fb[1] \div v.font[1]
           h == v.fb[2] \div v.font[2]
           grid == [i \in 0 .. w * h - 1 |-> <<" ", <<Black, Black>>>>]
       IN Clear([v EXCEPT !.width = w, !.rows = h, !.screen = grid, !.marks = {}, !.top = 0, !.bottom = h,
                          !.picture = IF v.lent THEN [i \in 0 .. w * h - 1 |-> <<"theirs", Plain>>] ELSE grid,
                          !.wrap = FALSE, !.laid = TRUE])

\* The size drawn in: what `scale' asked for where it fits the mode and a map can be had, or the mode's own.
Fit(v, map) ==
  [v EXCEPT !.fb = IF v.want # <<0, 0>> /\ v.want[1] <= v.real[1] /\ v.want[2] <= v.real[2] /\ v.want # v.real /\ map
                   THEN v.want ELSE v.real]

TakeScreen(v, m) == [v EXCEPT !.taken = m, !.real = setup.Modes[m]]

----------------------------------------------------------------------------
(* What a byte draws.                                                      *)

TextReset(v) == [v EXCEPT !.graphics = <<FALSE, FALSE>>, !.shifted = FALSE, !.utf8 = 0]

\* The glyph, or None while a character is still being gathered, and the screen after it.
Glyph(v, c) ==
  IF c \in DOMAIN LeadBytes THEN <<None, [v EXCEPT !.utf8 = LeadBytes[c]]>>
  ELSE IF c = "cont" THEN
    IF v.utf8 = 0 THEN <<"?", v>>
    ELSE <<IF v.utf8 > 1 THEN None ELSE "u", [v EXCEPT !.utf8 = @ - 1]>>
  ELSE <<IF v.graphics[IF v.shifted THEN 2 ELSE 1] /\ c \in Lines THEN "line" ELSE c, [v EXCEPT !.utf8 = 0]>>

----------------------------------------------------------------------------
(* Escape sequences.                                                       *)

Given(v, k) == Len(v.params) >= k /\ v.params[k] > 0
CountParam(v) == IF Given(v, 1) THEN v.params[1] ELSE 1
ParamIs(v, n) == v.params # <<>> /\ v.params[1] = n

AnsiColors == <<0, 4, 2, 6, 1, 5, 3, 7>>
Bright(n) == (n % 8) + 8

\* One parameter of "m" applied to a colour, apart from reverse video.
Coloured(c, n) ==
  CASE n = 0 -> Plain
    [] n = 39 -> <<LightGray, c[2]>>
    [] n = 49 -> <<c[1], Black>>
    [] n = 1 -> <<Bright(c[1]), c[2]>>
    [] n = 22 -> <<c[1] % 8, c[2]>>
    [] n \in 30 .. 37 -> <<AnsiColors[n - 29] + 8 * (c[1] \div 8), c[2]>>
    [] n \in 90 .. 97 -> <<Bright(AnsiColors[n - 89]), c[2]>>
    [] n \in 40 .. 47 -> <<c[1], AnsiColors[n - 39]>>
    [] n \in 100 .. 107 -> <<c[1], Bright(AnsiColors[n - 99])>>
    [] OTHER -> c

SetGraphics(v) ==
  LET ps == IF v.params = <<>> THEN <<0>> ELSE v.params
      Turned(r, n) == IF n \in {0, 27} THEN FALSE ELSE IF n = 7 THEN TRUE ELSE r
      pen == FoldLeft(Coloured, v.pen, ps)
      rev == FoldLeft(Turned, v.reversed, ps)
  IN [v EXCEPT !.params = ps, !.pen = pen, !.reversed = rev, !.color = IF rev THEN <<pen[2], pen[1]>> ELSE pen]

Erase(v, c) ==
  IF c = "J" /\ v.params # <<>> /\ v.params[1] >= 2 THEN Clear(v)
  ELSE Blank(v, IF ParamIs(v, 1) THEN (IF c = "J" THEN 0 ELSE RowStart(v)) .. v.cursor
                ELSE IF c = "J" THEN {i \in Cells(v) : i >= v.cursor}
                ELSE (IF ParamIs(v, 2) THEN RowStart(v) ELSE v.cursor) .. RowStart(v) + v.width - 1)

\* Rows top up to bottom moved by one, a blank one coming in.
Scroll(v, top, bottom, up) ==
  LET first == top * v.width
      last == bottom * v.width
  IN Put(v, [i \in first .. last - 1 |->
               IF up THEN (IF i + v.width < last THEN v.screen[i + v.width] ELSE Cell(v, " "))
               ELSE IF i >= first + v.width THEN v.screen[i - v.width] ELSE Cell(v, " ")])

LineFeed(v) ==
  IF RowOf(v) + 1 = v.bottom THEN Scroll(v, v.top, v.bottom, TRUE)
  ELSE IF RowOf(v) + 1 < v.rows THEN [v EXCEPT !.cursor = @ + v.width]
  ELSE v

ReverseFeed(v) ==
  IF RowOf(v) = v.top THEN Scroll(v, v.top, v.bottom, FALSE)
  ELSE IF RowOf(v) > 0 THEN [v EXCEPT !.cursor = @ - v.width]
  ELSE v

Lesser(a, b) == IF a < b THEN a ELSE b

MoveBy(v, c) ==
  LET n == CountParam(v)
      row == CASE c = "A" -> (IF RowOf(v) > n THEN RowOf(v) - n ELSE 0)
               [] c = "B" -> Lesser(RowOf(v) + n, v.rows - 1)
               [] OTHER -> RowOf(v)
      column == CASE c = "C" -> Lesser(Column(v) + n, v.width - 1)
                  [] c = "D" -> (IF Column(v) > n THEN Column(v) - n ELSE 0)
                  [] c = "G" -> Lesser(n - 1, v.width - 1)
                  [] OTHER -> Column(v)
  IN [v EXCEPT !.cursor = row * v.width + column]

\* A gap opened in the line at the cursor, or closed.
ShiftLine(v, open, count) ==
  LET end == RowStart(v) + v.width
      n == Lesser(count, end - v.cursor)
  IN Put(v, [i \in v.cursor .. end - 1 |->
               IF open THEN (IF i >= v.cursor + n THEN v.screen[i - n] ELSE Cell(v, " "))
               ELSE IF i + n < end THEN v.screen[i + n] ELSE Cell(v, " ")])

MoveCursor(v) ==
  LET to == (IF Given(v, 1) THEN v.params[1] - 1 ELSE 0) * v.width + (IF Given(v, 2) THEN v.params[2] - 1 ELSE 0)
  IN IF to \in Cells(v) THEN [v EXCEPT !.cursor = to] ELSE v

ShiftRows(v, open) ==
  IF RowOf(v) < v.top \/ RowOf(v) >= v.bottom THEN v
  ELSE LET n == Lesser(CountParam(v), v.bottom - RowOf(v))
           moved[k \in 0 .. n] == IF k = 0 THEN v ELSE Scroll(moved[k - 1], RowOf(v), v.bottom, ~open)
       IN [moved[n] EXCEPT !.cursor = RowStart(v)]

EraseChars(v) == Blank(v, v.cursor .. Lesser(RowStart(v) + v.width, v.cursor + CountParam(v)) - 1)

SetRegion(v) ==
  LET top == IF Given(v, 1) THEN v.params[1] - 1 ELSE 0
      bottom == IF Given(v, 2) /\ v.params[2] <= v.rows THEN v.params[2] ELSE v.rows
  IN IF top + 1 < bottom THEN [v EXCEPT !.top = top, !.bottom = bottom, !.cursor = 0] ELSE v

ToRow(v) ==
  IF CountParam(v) - 1 < v.rows THEN [v EXCEPT !.cursor = (CountParam(v) - 1) * v.width + Column(v)] ELSE v

\* The letter after an escape.
AfterEsc(v, c) ==
  LET w == [v EXCEPT !.escape = CASE c = "[" -> "csi" [] c \in {"(", ")"} -> "charset" [] c = "]" -> "osc" [] OTHER -> "plain",
                     !.g1 = c = ")", !.params = <<>>, !.private = FALSE, !.osc = 0]
  IN CASE c = "7" -> [w EXCEPT !.saved = w.cursor, !.savedpen = w.pen]
       [] c = "8" -> [w EXCEPT !.cursor = IF w.saved \in Cells(w) THEN w.saved ELSE 0, !.pen = w.savedpen, !.reversed = FALSE,
                               !.color = w.savedpen, !.wrap = FALSE]
       [] c = "M" -> [ReverseFeed(w) EXCEPT !.wrap = FALSE]
       [] c = "D" -> [LineFeed(w) EXCEPT !.wrap = FALSE]
       [] c = "E" -> [LineFeed([w EXCEPT !.cursor = RowStart(w)]) EXCEPT !.wrap = FALSE]
       [] c = "c" -> Clear([TextReset(w) EXCEPT !.pen = Plain, !.color = Plain, !.reversed = FALSE, !.inserting = FALSE,
                                                 !.shown = TRUE, !.top = 0, !.bottom = w.rows])
       [] OTHER -> w

InOsc(v, c) ==
  IF v.osc > 0 THEN [v EXCEPT !.osc = @ - 1, !.escape = IF v.osc = 1 THEN "plain" ELSE @]
  ELSE IF c = "P" THEN [v EXCEPT !.osc = 7]
  ELSE IF c = "ESC" THEN [v EXCEPT !.escape = "after"]
  ELSE IF c \in {"R", "BEL"} THEN [v EXCEPT !.escape = "plain"]
  ELSE v

\* The letter that ends a sequence.
Final(v, c) ==
  LET w == [v EXCEPT !.escape = "plain", !.wrap = FALSE, !.private = FALSE]
  IN IF v.private THEN
       IF c \in {"h", "l"} /\ ParamIs(v, 25)
       THEN CursorDraw([CursorDraw(w, FALSE) EXCEPT !.shown = c = "h"], TRUE) ELSE w
     ELSE CASE c = "m" -> SetGraphics(w)
            [] c \in {"J", "K"} -> Erase(w, c)
            [] c \in {"H", "f"} -> MoveCursor(w)
            [] c \in {"A", "B", "C", "D", "G"} -> MoveBy(w, c)
            [] c = "@" -> ShiftLine(w, TRUE, CountParam(w))
            [] c = "P" -> ShiftLine(w, FALSE, CountParam(w))
            [] c \in {"L", "M"} -> ShiftRows(w, c = "L")
            [] c = "X" -> EraseChars(w)
            [] c = "d" -> ToRow(w)
            [] c = "r" -> SetRegion(w)
            [] c \in {"h", "l"} /\ ParamIs(w, 4) -> [w EXCEPT !.inserting = c = "h"]
            [] OTHER -> w

InCsi(v, c) ==
  IF c \in {"?", "<", "=", ">"} THEN [v EXCEPT !.private = TRUE]
  ELSE IF c \in DOMAIN Digits THEN
    IF v.params = <<>> THEN [v EXCEPT !.params = <<Digits[c]>>]
    ELSE [v EXCEPT !.params[Len(v.params)] = Lesser(@ * 10 + Digits[c], MaxParam)]
  ELSE IF c = ";" THEN (IF Len(v.params) < PARAMS THEN [v EXCEPT !.params = Append(@, 0)] ELSE v)
  ELSE Final(v, c)

Escapes(v, c) == v.escape # "plain" \/ c = "ESC"

Escaped(v, c) ==
  CASE v.escape = "plain" -> [v EXCEPT !.escape = "after"]
    [] v.escape = "after" -> AfterEsc(v, c)
    [] v.escape = "charset" -> [v EXCEPT !.escape = "plain", !.graphics[IF v.g1 THEN 2 ELSE 1] = c = "0"]
    [] v.escape = "osc" -> InOsc(v, c)
    [] v.escape = "csi" -> InCsi(v, c)

----------------------------------------------------------------------------
(* Printing.                                                               *)

\* The wrap a full line was waiting with.
WrapNow(v) == IF v.wrap THEN [LineFeed([v EXCEPT !.cursor = RowStart(v)]) EXCEPT !.wrap = FALSE] ELSE v

\* A printing character, or a byte of one.
Text(v, c) ==
  LET g == Glyph(WrapNow(v), c)
      w == g[2]
      opened == IF w.inserting THEN ShiftLine(w, TRUE, 1) ELSE w
      put == Put(opened, [i \in {opened.cursor} |-> Cell(opened, g[1])])
  IN IF g[1] = None THEN w
     ELSE IF Column(put) = put.width - 1 THEN [put EXCEPT !.wrap = TRUE]
     ELSE [put EXCEPT !.cursor = @ + 1]

Typed(v, c) ==
  CASE c = "LF" -> LineFeed([v EXCEPT !.cursor = IF v.crlf THEN RowStart(v) ELSE @, !.wrap = FALSE])
    [] c = "CR" -> [v EXCEPT !.cursor = RowStart(v), !.wrap = FALSE]
    [] c = "BS" -> [v EXCEPT !.cursor = IF Column(v) > 0 /\ ~v.wrap THEN @ - 1 ELSE @, !.wrap = FALSE]
    [] c = "TAB" -> [v EXCEPT !.cursor = Lesser((@ \div setup.TAB + 1) * setup.TAB, RowStart(v) + v.width - 1), !.wrap = FALSE]
    [] c \in {"SO", "SI"} -> [v EXCEPT !.shifted = c = "SO"]
    [] c \in Controls -> v
    [] OTHER -> Text(v, c)

\* A plausible bug: the bar of the cursor left where it was.
MovedOnly(v, now) == now

\* The cursor's bar goes with it when a sequence has moved the cursor.
Moved(v, now) ==
  IF now.cursor = v.cursor THEN now
  ELSE CursorDraw([CursorDraw([now EXCEPT !.cursor = v.cursor], FALSE) EXCEPT !.cursor = now.cursor], TRUE)

Captured(v, c) ==
  IF Escapes(v, c) THEN Escaped(v, c)
  ELSE IF Len(v.capture) + 1 < v.captureMax THEN [v EXCEPT !.capture = Append(@, c)] ELSE v

Putc(v, c) ==
  IF v.captureMax > 0 THEN Captured(v, c)
  ELSE IF Escapes(v, c) THEN Moved(v, Escaped(v, c))
  ELSE CursorDraw(Typed(CursorDraw(v, FALSE), c), TRUE)

Puts(v, text) ==
  LET put[k \in 0 .. Len(text)] == IF k = 0 THEN v ELSE Putc(put[k - 1], text[k])
  IN put[Len(text)]

\* Text whose sequences are kept, even captured.
PutsRaw(v, text) ==
  IF v.captureMax = 0 THEN Puts(v, text)
  ELSE [v EXCEPT !.capture = SubSeq(@ \o text, 1, Lesser(Len(@ \o text), v.captureMax - 1))]

\* Where the next character goes, the wrap made.
At(v) == IF v.wrap THEN CursorDraw(WrapNow(CursorDraw(v, FALSE)), TRUE) ELSE v

----------------------------------------------------------------------------
(* What is done to the screen.                                             *)

\* The screen as vga_start leaves it, in the firmware's first mode.
Started ==
  LET v == [taken |-> 1, gopmode |-> 1, gop |-> TRUE, real |-> setup.Modes[1], want |-> <<0, 0>>, fb |-> <<0, 0>>,
            font |-> <<1, 1>>, laid |-> TRUE, width |-> 1, rows |-> 1, screen |-> <<>>, picture |-> <<>>, marks |-> {},
            cursor |-> 0, color |-> Plain, pen |-> Plain, reversed |-> FALSE, top |-> 0, bottom |-> 1, wrap |-> FALSE,
            shown |-> TRUE, inserting |-> FALSE, crlf |-> TRUE, escape |-> "plain", params |-> <<>>, private |-> FALSE,
            g1 |-> FALSE, graphics |-> <<FALSE, FALSE>>, shifted |-> FALSE, utf8 |-> 0, osc |-> 0,
            saved |-> 0, savedpen |-> <<Black, Black>>, lent |-> FALSE, capture |-> <<>>, captureMax |-> 0]
  IN Layout(Fit(v, TRUE), TRUE)

ScreenInit == vga = Puts(Started, setup.Shown)

Step(what) == what \in Does /\ vga.laid /\ left > 0 /\ left' = left - 1 /\ UNCHANGED setup

Write(text) == Step("write") /\ vga' = Puts(vga, text)

SetColor(c) == Step("color") /\ vga' = [vga EXCEPT !.pen = c, !.color = c, !.reversed = FALSE]

\* A kernel command's output taken into a buffer instead, until the end of the capture.
Capture(max) == Step("capture") /\ vga.captureMax = 0 /\ vga' = [vga EXCEPT !.capture = <<>>, !.captureMax = max]
Raw(text) == Step("capture") /\ vga.captureMax > 0 /\ vga' = PutsRaw(vga, text)
CaptureEnd == Step("capture") /\ vga.captureMax > 0 /\ vga' = [vga EXCEPT !.captureMax = 0, !.capture = <<>>]

SetMode(m) ==
  /\ Step("mode") /\ vga.gop
  /\ \E map, memory \in BOOLEAN :
       vga' = Layout(Fit(TakeScreen([vga EXCEPT !.gopmode = m], m), map), memory)

SetFont(f) ==
  /\ Step("font")
  /\ \E memory \in BOOLEAN :
       LET now == Layout([vga EXCEPT !.font = f], memory)
       IN vga' = IF now.laid THEN now ELSE vga

\* <<0, 0>> is "off".
SetScale(size) ==
  /\ Step("scale") /\ size[1] <= vga.real[1] /\ size[2] <= vga.real[2]
  /\ \E map, memory, again \in BOOLEAN :
       LET now == Layout(Fit([vga EXCEPT !.want = size], map), memory)
       IN vga' = IF now.laid THEN now ELSE Layout(Fit(vga, map), again)

\* The firmware puts the mode back to one of its own, which is noticed by whoever next waits for a key.
Theirs(v) == [v EXCEPT !.picture = [i \in DOMAIN @ |-> <<"theirs", Plain>>], !.marks = {}]

Astray(v) == v.gopmode # v.taken

Firmware(m) == Step("follow") /\ vga.gop /\ ~Astray(vga) /\ m # vga.gopmode /\ vga' = Theirs([vga EXCEPT !.gopmode = m])

FollowTo(v, map, memory) ==
  LET w == Fit(TakeScreen(v, v.gopmode), map)
  IN IF w.fb[1] \div w.font[1] = v.width /\ w.fb[2] \div w.font[2] = v.rows THEN Repaint(w) ELSE Layout(w, memory)

Follow == Step("follow") /\ vga.gop /\ Astray(vga) /\ \E map, memory \in BOOLEAN : vga' = FollowTo(vga, map, memory)

FirmwareGone == Step("follow") /\ vga.gop /\ vga' = [vga EXCEPT !.gop = FALSE]

\* A program draws on the screen itself, from when it takes it until it ends or gives it back.
Lend(on) ==
  /\ Step("lend") /\ vga.lent # on
  /\ vga' = IF on THEN [vga EXCEPT !.lent = TRUE] ELSE Repaint([Theirs(vga) EXCEPT !.lent = FALSE])

DrawOver == Step("lend") /\ vga.lent /\ vga' = Theirs(vga)

ScreenNext ==
  \/ \E text \in setup.Writes : Write(text) \/ Raw(text)
  \/ \E c \in {<<7, 0>>, <<4, 0>>} : SetColor(c)
  \/ \E n \in setup.Takes : Capture(n)
  \/ CaptureEnd
  \/ \E m \in DOMAIN setup.Modes : SetMode(m) \/ Firmware(m)
  \/ \E f \in setup.Fonts : SetFont(f)
  \/ \E size \in setup.Scales : SetScale(size)
  \/ Follow \/ FirmwareGone
  \/ \E on \in BOOLEAN : Lend(on)
  \/ DrawOver

----------------------------------------------------------------------------
(* Properties.                                                             *)

Shows(v) == v.laid /\ ~v.lent /\ ~Astray(v)

GridTrue(v) ==
  /\ v.width = v.fb[1] \div v.font[1] /\ v.rows = v.fb[2] \div v.font[2]
  /\ v.cursor \in Cells(v) /\ DOMAIN v.screen = Cells(v)
  /\ 0 <= v.top /\ v.top + 1 < v.bottom /\ v.bottom <= v.rows
  /\ v.wrap => v.cursor \in {0, RowStart(v) + v.width - 1}
  /\ Len(v.params) <= PARAMS
  /\ v.color = IF v.reversed THEN <<v.pen[2], v.pen[1]>> ELSE v.pen

\* The framebuffer shows every cell as the console has it, whatever was written, in whatever order the screen
\* was scrolled, resized, scaled, lent or taken by the firmware and given back, though only what changes is
\* drawn; no cursor is left drawn where the cursor is not, or while it is hidden; and the grid, the scrolling
\* rows, the held wrap and the colours agree with one another.
ScreenTrue ==
  /\ vga.laid => GridTrue(vga)
  /\ Shows(vga) => /\ vga.picture = vga.screen
                   /\ vga.marks \subseteq {vga.cursor}
                   /\ vga.marks # {} => vga.shown
=============================================================================
