------------------------------ MODULE Console ------------------------------
(***************************************************************************)
(* The console (kernel/console.c) over the screen: the keys taken off the  *)
(* keyboard, the signals typed, and the line editor - history, completion, *)
(* a line that wraps and scrolls - which draws with the same characters    *)
(* and sequences a program would write.                                    *)
(*                                                                         *)
(* Every wait is in take_key, so a read is one step for each key, and      *)
(* other threads run only while it waits (`busy').  One thread reads at a  *)
(* time.  `truth' is what whoever types counts on.                         *)
(***************************************************************************)
EXTENDS Screen, Keyboard

(***************************************************************************)
(* Of a setup, for the console: "ahead" in Does is typing ahead of reads;  *)
(* Ahead, keys the firmware holds; TYPED, LINE_MAX, HISTORY and            *)
(* FORCE_AFTER; Presses, keys it has at once; Boards, Keys and Moves, what *)
(* is done on the other keyboards, and Reads, how many events are read;    *)
(* Counts, how much is read; Settings, what programs set; Commands and     *)
(* Files, the names completion finds; Dirs, folders there are, and Links,  *)
(* to folders.                                                             *)
(***************************************************************************)
ASSUME NamesAssumption ==
  \A s \in Setups : s.Commands \in Seq(Seq(STRING)) /\ s.Files \in Seq(Seq(STRING)) /\ s.HISTORY \in Nat /\ s.Counts \subseteq Nat

VARIABLES
  con,       \* the console's own state
  reader,    \* the thread in console_read
  truth

vars == <<setup, vga, left, kbd, con, reader, truth>>

LINE_MAX == setup.LINE_MAX
FORCE == 9
NoKey == "signal"   \* what take_key returns for one, which no key is

Cooked == [isig |-> TRUE, icanon |-> TRUE, echo |-> TRUE, icrnl |-> TRUE, vmin |-> 1, onlcr |-> TRUE]

Quiet == [set |-> Cooked, typed |-> <<>>, signalled |-> 0, unread |-> 0, off |-> FALSE, handed |-> 0, ready |-> 0,
          line |-> <<>>, pos |-> 0, history |-> <<>>, drawing |-> FALSE]
NoReader == [at |-> "none", busy |-> FALSE, back |-> 0, tabbed |-> FALSE, digit |-> NoKey, count |-> 0, got |-> <<>>]
NoTruth == [clean |-> FALSE, prompt |-> <<>>, entered |-> <<>>, had |-> <<>>, lost |-> FALSE]

----------------------------------------------------------------------------
(* Keys.                                                                   *)

\* One key off the keyboard; `late' is whether nothing has been read for FORCE_IDLE.
Gather(c, k, late) ==
  LET d == [c EXCEPT !.unread = IF k = "^C" THEN Lesser(@ + 1, setup.FORCE_AFTER) ELSE 0]
  IN IF d.unread >= setup.FORCE_AFTER /\ late THEN [d EXCEPT !.signalled = FORCE, !.typed = <<>>]
     ELSE IF d.off THEN d
     ELSE IF d.set.isig /\ k \in {"^C", "^\\"} THEN [d EXCEPT !.signalled = IF k = "^C" THEN 2 ELSE 3, !.typed = <<>>]
     ELSE IF Len(d.typed) < setup.TYPED THEN [d EXCEPT !.typed = Append(@, k)]
     ELSE d

\* All of them, as everything that looks for a key does first.
Gathered(text, late) ==
  LET Next1(c, k) == Gather(c, k, late)
      now == FoldLeft(Next1, con, text)
  IN [con EXCEPT !.typed = now.typed, !.signalled = now.signalled, !.unread = now.unread]

Waiting(c) == c.typed # <<>> \/ c.signalled # 0

----------------------------------------------------------------------------
(* The line editor.  e is the console, whoever reads, and what to draw,    *)
(* in order: text, or a move from one place in the line to another.        *)

Digit(n) == <<"0", "1", "2", "3", "4", "5", "6", "7", "8", "9">>[n + 1]
Decimal(n) == IF n < 10 THEN <<Digit(n)>> ELSE <<Digit(Lesser(n, 99) \div 10), Digit(Lesser(n, 99) % 10)>>

Echo(e, text) == [e EXCEPT !.out = Append(@, [text |-> text, from |-> 0, to |-> 0, move |-> FALSE])]
Draw(e, text) == IF e.con.drawing THEN Echo(e, text) ELSE e
Move(e, from, to) ==
  [e EXCEPT !.out = Append(@, [text |-> <<>>, from |-> from, to |-> IF e.con.drawing THEN to ELSE from, move |-> TRUE])]

\* The sequences that move the cursor.  Where the line begins is counted back from the cursor in 32 bits, so
\* that a beginning that has scrolled off is a row far below the screen.
Steps(v, from, to) ==
  LET place == v.cursor - from + to
      want == IF place >= 0 THEN place \div v.width ELSE 99
      column == IF place >= 0 THEN place % v.width ELSE ((65536 % v.width) * (65536 % v.width) + place) % v.width
      rows == want - RowOf(v)
  IN IF from = to THEN <<>>
     ELSE (IF rows = 0 THEN <<>>
           ELSE <<"ESC", "[">> \o (IF rows > 0 THEN Append(Decimal(rows), "B") ELSE Append(Decimal(-rows), "A")))
          \o <<"ESC", "[">> \o Append(Decimal(column + 1), "G")

Drawn(v, d) ==
  LET at == IF d.move THEN At(v) ELSE v
  IN Puts(at, IF d.move THEN Steps(at, d.from, d.to) ELSE d.text)

Have(e) == Len(e.con.line)
Greater(a, b) == IF a > b THEN a ELSE b

\* A plausible bug: what an edit leaves past the end of the line not blanked.
RedrawShort(e, was) == Move(Draw(e, SubSeq(e.con.line, e.con.pos + 1, Have(e))), Have(e), e.con.pos)

Redraw(e, was) ==
  LET pos == e.con.pos
      drawn == Draw(Draw(e, SubSeq(e.con.line, pos + 1, Have(e))), [i \in 1 .. Greater(was, Have(e)) - Have(e) |-> " "])
  IN Move(drawn, Greater(was, Have(e)), pos)

Insert(e, text) ==
  IF Have(e) + Len(text) >= LINE_MAX THEN e
  ELSE LET pos == e.con.pos
           f == [e EXCEPT !.con.line = SubSeq(@, 1, pos) \o text \o SubSeq(@, pos + 1, Len(@)),
                          !.con.pos = pos + Len(text)]
       IN Redraw(Draw(f, text), Have(f))

EraseAt(e, at) ==
  LET f == Move(e, e.con.pos, at)
  IN Redraw([f EXCEPT !.con.pos = at, !.con.line = RemoveAt(@, at + 1)], Have(e))

ReplaceLine(e, text) ==
  LET f == Move(e, e.con.pos, 0)
      g == Redraw([f EXCEPT !.con.pos = 0, !.con.line = text], Have(e))
  IN [Move(g, 0, Len(text)) EXCEPT !.con.pos = Len(text)]

EraseBefore(e) ==
  LET n == e.con.pos
      f == Move(e, n, 0)
  IN Redraw([f EXCEPT !.con.pos = 0, !.con.line = SubSeq(@, n + 1, Len(@))], Have(e))

GoTo(e, to) == [Move(e, e.con.pos, to) EXCEPT !.con.pos = to]

\* Past lines, each with the NUL that ends it; the oldest make room.
HistorySize(h) ==
  LET size[k \in 0 .. Len(h)] == IF k = 0 THEN 0 ELSE size[k - 1] + Len(h[k]) + 1
  IN size[Len(h)]

Remember(c) ==
  IF c.line = <<>> \/ Len(c.line) + 1 > setup.HISTORY THEN c
  ELSE LET kept == CHOOSE k \in 0 .. Len(c.history) :
                     LET Fits(j) == HistorySize(SubSeq(c.history, j + 1, Len(c.history))) + Len(c.line) + 1 <= setup.HISTORY
                     IN Fits(k) /\ \A j \in 0 .. k - 1 : ~Fits(j)
       IN [c EXCEPT !.history = Append(SubSeq(@, kept + 1, Len(@)), c.line)]

Recalls(c, back) == back \in 1 .. Len(c.history)
Recalled(c, back) == c.history[Len(c.history) - back + 1]

----------------------------------------------------------------------------
(* Completion.                                                             *)

\* The last place before pos, or `least', after which the line has the character c.
After(c, line, pos, least) == Max({least} \cup {i \in least + 1 .. pos : line[i] = c})

Matches(names, typed) == {i \in DOMAIN names : IsPrefix(typed, names[i])}

\* What they begin with, all of them.
Common(names, ms) ==
  LET first == names[Min(ms)]
  IN SubSeq(first, 1, Max({k \in 0 .. Len(first) : \A i \in ms : IsPrefix(SubSeq(first, 1, k), names[i])}))

\* Where the word at the cursor begins, where the part after its last slash does, and what may complete it.
Word(c) ==
  LET word == After(" ", c.line, c.pos, 0)
      slash == After("/", c.line, c.pos, word)
      command == slash = word /\ \A i \in 1 .. word : c.line[i] = " "
      dir == SubSeq(c.line, word + 1, slash)
  IN [from |-> word, typed |-> SubSeq(c.line, slash + 1, c.pos), command |-> command,
      names |-> IF slash > word /\ dir \notin setup.Dirs THEN <<>> ELSE IF command THEN setup.Commands ELSE setup.Files,
      found |-> slash = word \/ dir \in setup.Dirs]

Complete(e) ==
  LET w == Word(e.con)
      ms == Matches(w.names, w.typed)
      common == Common(w.names, ms)
      f == Insert(e, SubSeq(common, Len(w.typed) + 1, Len(common)))
      dir == SubSeq(f.con.line, w.from + 1, f.con.pos)
  IN IF ms = {} THEN e
     ELSE IF Cardinality(ms) = 1 /\ (common = <<>> \/ Last(common) # "/")
     THEN Insert(f, IF ~w.command /\ dir \in setup.Links THEN <<"/">> ELSE <<" ">>)
     ELSE f

\* The choices under the line, then the prompt, copied off the screen, and the line again.
ListChoices(e) ==
  LET w == Word(e.con)
      at == At(vga)
      start == at.cursor - e.con.pos
      prompt == IF start < 0 THEN <<>>
                ELSE [i \in 1 .. start % at.width |-> at.screen[start - (start % at.width) + i - 1][1]]
      ms == Matches(w.names, w.typed)
      listed == FlattenSeq([i \in DOMAIN w.names |-> IF i \in ms THEN w.names[i] \o <<" ", " ">> ELSE <<>>])
      f == Draw(Move(e, e.con.pos, Have(e)), <<"LF">> \o listed \o <<"LF">> \o prompt \o e.con.line)
  IN IF ~w.found THEN e ELSE Move(f, Have(e), e.con.pos)

----------------------------------------------------------------------------
(* Reading.                                                                *)

\* What whoever types may count on when a line begins to be read: an empty rest of the screen that the line
\* fits in, and a terminal that was left plain.
CleanNow(v) ==
  LET start == At(v).cursor
  IN /\ v.escape = "plain" /\ ~v.inserting /\ v.top = 0 /\ v.bottom = v.rows /\ v.captureMax = 0 /\ v.crlf
     /\ v.graphics = <<FALSE, FALSE>>
     /\ (start % v.width) + LINE_MAX <= v.width * v.rows
     /\ \A i \in Cells(v) : i >= start => At(v).screen[i][1] = " "

PromptNow(v) ==
  LET at == At(v)
  IN [i \in 1 .. Column(at) |-> at.screen[RowStart(at) + i - 1][1]]

\* e with the thread reading gone on to `at', or done.
Goes(e, at) == [e EXCEPT !.reader.at = at]
Plainly(e) == [e EXCEPT !.reader.at = "line", !.reader.tabbed = FALSE]

\* A plausible bug: a line taken to be read however little of it was asked for.
HandOutOnce(e) ==
  LET n == Lesser(e.con.ready - e.con.handed, e.reader.count)
  IN [e EXCEPT !.con.handed = e.con.ready, !.reader = NoReader,
               !.truth.had = @ \o SubSeq(e.con.line, e.con.handed + 1, e.con.handed + n)]

\* What is left of a line that is ready, as much as was asked for.
HandOut(e) ==
  LET n == Lesser(e.con.ready - e.con.handed, e.reader.count)
      At1(k) == IF k <= Have(e) THEN e.con.line[k] ELSE "old"      \* of a line before
  IN [e EXCEPT !.con.handed = @ + n, !.reader = NoReader,
               !.truth.had = @ \o [k \in 1 .. n |-> At1(e.con.handed + k)]]

\* A key of an escape sequence, in the middle of a line.
EditKey(e, key) ==
  LET c == e.con
      back == e.reader.back
  IN Plainly(
     CASE key = "A" /\ Recalls(c, back + 1) -> [ReplaceLine(e, Recalled(c, back + 1)) EXCEPT !.reader.back = back + 1]
       [] key = "B" /\ back > 0 ->
            [ReplaceLine(e, IF back = 1 THEN <<>> ELSE Recalled(c, back - 1)) EXCEPT !.reader.back = back - 1]
       [] key = "C" /\ c.pos < Have(e) -> GoTo(e, c.pos + 1)
       [] key = "D" /\ c.pos > 0 -> GoTo(e, c.pos - 1)
       [] key \in {"H", "1", "7"} -> GoTo(e, 0)
       [] key \in {"F", "4", "8"} -> GoTo(e, Have(e))
       [] key = "3" /\ c.pos < Have(e) -> EraseAt(e, c.pos)
       [] OTHER -> e)

Enter(e) ==
  LET f == Draw(Move(e, e.con.pos, Have(e)), <<"LF">>)
      line == Append(f.con.line, "LF")
  IN HandOut([f EXCEPT !.con = [Remember(f.con) EXCEPT !.line = line, !.ready = Len(line)],
                       !.truth.entered = line, !.truth.had = <<>>])

\* The end of a read with no line: Ctrl-D on an empty one, or a signal, which the line goes with.
NoLine(e) == [e EXCEPT !.con.line = <<>>, !.con.pos = 0, !.con.ready = 0, !.con.handed = 0, !.reader = NoReader,
                       !.truth.entered = <<>>, !.truth.had = <<>>]

\* Control characters that an edited line does not take.
Ignored == {"ESC", "BEL", "CR", "SO", "SI", "^A", "^B", "^C", "^\\"}

LineKey(e, k) ==
  CASE k = "^D" -> (IF Have(e) = 0 THEN NoLine(e) ELSE Goes(e, "line"))
    [] k \in {"BS", "DEL"} -> Plainly(IF e.con.pos > 0 THEN EraseAt(e, e.con.pos - 1) ELSE e)
    [] k = "TAB" -> [Plainly(IF e.reader.tabbed THEN ListChoices(e) ELSE Complete(e)) EXCEPT !.reader.tabbed = TRUE]
    [] k = "^U" -> Plainly(EraseBefore(e))
    [] k = "LF" -> Enter(e)
    [] k \in Ignored -> Plainly(e)
    [] OTHER -> Plainly(Insert(e, <<k>>))

\* A key of a line, at whichever take_key waits for it.  A signal ends a sequence like any key it cannot
\* have - one with a number does what that says - and then, still there, the line.
Key(e, k) ==
  CASE e.reader.at = "line" -> (IF k = NoKey THEN NoLine(e) ELSE IF k = "ESC" THEN Goes(e, "esc") ELSE LineKey(e, k))
    [] e.reader.at = "esc" -> (IF k = "[" THEN Goes(e, "csi") ELSE IF k = NoKey THEN Plainly(e) ELSE LineKey(e, k))
    [] e.reader.at = "csi" -> (IF k \in DOMAIN Digits THEN [Goes(e, "num") EXCEPT !.reader.digit = k] ELSE EditKey(e, k))
    [] e.reader.at = "num" -> (IF k \in DOMAIN Digits THEN e ELSE EditKey(e, e.reader.digit))

\* A key of a raw read, which ends with what has been typed or asked for.
RawKey(e, k) ==
  LET c == IF k = "LF" /\ ~e.con.set.icrnl THEN "CR" ELSE k
      f == IF e.con.set.echo THEN Echo(e, <<c>>) ELSE e
      got == Append(e.reader.got, c)
  IN IF k = NoKey THEN [e EXCEPT !.reader = NoReader]
     ELSE IF Len(got) < e.reader.count /\ Waiting(e.con) THEN [f EXCEPT !.reader.got = got]
     ELSE [f EXCEPT !.reader = NoReader]

----------------------------------------------------------------------------
(* Steps.                                                                  *)

AllDrawn(v, out) ==
  LET drawn[k \in 0 .. Len(out)] == IF k = 0 THEN v ELSE Drawn(drawn[k - 1], out[k])
  IN drawn[Len(out)]
Becomes(e) == vga' = AllDrawn(vga, e.out) /\ con' = e.con /\ reader' = e.reader /\ truth' = e.truth
Here(c) == [out |-> <<>>, con |-> c, reader |-> reader, truth |-> truth]

\* What waits for a key looks at the screen's mode first.
Followed == ~(vga.gop /\ Astray(vga))

Others(what) == Step(what) /\ ~reader.busy

Press(text) ==
  /\ Step("press") /\ ("ahead" \in Does \/ kbd.firmware \o con.typed = <<>>)
  /\ FirmwareHas(text, setup.Ahead)
  /\ UNCHANGED <<vga, con, reader, truth>>

RawRead(c, count) == [Here(c) EXCEPT !.reader = [NoReader EXCEPT !.at = "raw", !.busy = TRUE, !.count = count]]
RawPolled(c, count) == IF Waiting(c) THEN RawRead(c, count) ELSE [Here(c) EXCEPT !.reader = NoReader]
Polling(polled, late, count) == kbd' = polled.kbd /\ Becomes(RawPolled(Gathered(polled.text, late), count))

Read(count) ==
  /\ Others("read") /\ reader.at = "none" /\ Followed
  /\ IF con.set.icanon
     THEN /\ UNCHANGED kbd
          /\ Becomes(IF con.handed # con.ready THEN HandOut([Here(con) EXCEPT !.reader.count = count])
                     ELSE [Here([con EXCEPT !.drawing = con.set.echo, !.handed = 0, !.line = <<>>, !.pos = 0])
                             EXCEPT !.reader = [NoReader EXCEPT !.at = "line", !.busy = TRUE, !.count = count],
                                    !.truth = [NoTruth EXCEPT !.clean = CleanNow(vga), !.prompt = PromptNow(vga)]])
     ELSE \E late \in BOOLEAN :
            IF con.set.vmin = 0 THEN Polling(Polled(kbd), late, count) ELSE UNCHANGED kbd /\ Becomes(RawRead(con, count))

\* take_key: the keys gathered, and the first of them taken, or the wait for one.
Handled(e, key) == IF e.reader.at = "raw" THEN RawKey(e, key) ELSE Key(e, key)
Take(c) ==
  IF c.signalled # 0 THEN Handled([Here(c) EXCEPT !.reader.busy = TRUE], NoKey)
  ELSE Handled([Here([c EXCEPT !.typed = Tail(@), !.unread = 0]) EXCEPT !.reader.busy = TRUE], Head(c.typed))
Waits(c) == (reader.busy \/ Polls(kbd)) /\ Becomes([Here(c) EXCEPT !.reader.busy = FALSE])
TakeOrWait(c) == IF Waiting(c) THEN Becomes(Take(c)) ELSE Waits(c)
TakePolled(polled, late) == kbd' = polled.kbd /\ TakeOrWait(Gathered(polled.text, late))

TakeKey ==
  /\ reader.at # "none" /\ Followed /\ vga.laid
  /\ \E late \in BOOLEAN : TakePolled(Polled(kbd), late)
  /\ UNCHANGED <<setup, left>>

\* Keys looked for with n events of device d then read, or none.
Look(polled, late, d, n) == kbd' = EventsRead(polled.kbd, d, n) /\ con' = Gathered(polled.text, late)

\* console_ready, asked by a poll.
Ready ==
  /\ Others("ready") /\ Followed
  /\ \E late \in BOOLEAN : Look(Polled(kbd), late, Keyboard, 0)
  /\ UNCHANGED <<vga, reader, truth>>

\* Events read by a program, which look for keys first.
InputRead(d, n) ==
  /\ Others("input") /\ Followed /\ kbd.input[d].open
  /\ \E late \in BOOLEAN : Look(Polled(kbd), late, d, n)
  /\ UNCHANGED <<vga, reader, truth>>

\* What is done at the keyboards, and what programs ask of their events.
OnKeyboard ==
  /\ Step("keyboard") /\ KeyboardNext(setup.Keys, setup.Moves)
  /\ UNCHANGED <<vga, con, reader, truth>>

\* The signal typed, taken for the foreground programs, and shown where one is to end by it.
SignalEcho(signal, shows) ==
  IF signal = 0 \/ ~(shows \/ signal = FORCE) THEN <<>> ELSE IF signal = 3 THEN <<"^", "\\", "LF">> ELSE <<"^", "C", "LF">>
ShowEcho(echo) == vga' = Puts(vga, echo) /\ truth' = [truth EXCEPT !.clean = @ /\ echo = <<>>]
Signal(c, shows) ==
  /\ con' = [c EXCEPT !.signalled = 0, !.unread = IF c.signalled = FORCE THEN 0 ELSE @]
  /\ ShowEcho(SignalEcho(c.signalled, shows))
SignalPolled(polled, late, shows) == kbd' = polled.kbd /\ Signal(Gathered(polled.text, late), shows)

TakeSignal ==
  /\ Others("signal") /\ Followed
  /\ \E late, shows \in BOOLEAN : SignalPolled(Polled(kbd), late, shows)
  /\ UNCHANGED reader

Editing == reader.at \in {"line", "esc", "csi", "num"}

\* The reading thread is ended while it waits, by another of its program.  If it was editing a line, what was
\* the last line's `ready' may then be taken for this one's, which `lost' notes.
ReaderEnds ==
  /\ Others("ends") /\ reader.at # "none" /\ reader' = NoReader
  /\ truth' = [truth EXCEPT !.lost = @ \/ (Editing /\ con.handed # con.ready)]
  /\ UNCHANGED <<vga, kbd, con>>

ConsoleKeys(on) == Others("keys") /\ con' = [con EXCEPT !.off = ~on] /\ UNCHANGED <<vga, kbd, reader, truth>>

ConsoleSet(s) ==
  /\ Others("set")
  /\ con' = [con EXCEPT !.set = s]
  /\ vga' = [vga EXCEPT !.crlf = s.onlcr]
  /\ truth' = [truth EXCEPT !.clean = @ /\ s.onlcr]
  /\ UNCHANGED <<kbd, reader>>

\* A plain terminal again, before each program and each of the shell's lines.
ConsoleReset ==
  /\ Others("reset") /\ reader.at = "none"
  /\ con' = [con EXCEPT !.set = Cooked, !.typed = <<>>, !.signalled = 0, !.unread = 0, !.handed = 0, !.ready = 0]
  /\ vga' = TextReset([vga EXCEPT !.crlf = TRUE])
  /\ truth' = NoTruth
  /\ UNCHANGED <<kbd, reader>>

Terminal(v) == <<v.width, v.screen, v.cursor, v.wrap, v.escape, v.inserting, v.top, v.bottom, v.graphics, v.captureMax>>

\* What is done to the screen, by other programs and by the kernel's commands.
OnScreen ==
  /\ ~reader.busy /\ ScreenNext
  /\ truth' = [truth EXCEPT !.clean = @ /\ Terminal(vga') = Terminal(vga)]
  /\ UNCHANGED <<kbd, con, reader>>

Init ==
  /\ setup \in Setups /\ left = setup.MaxSteps /\ ScreenInit
  /\ kbd = NoKeys /\ con = Quiet /\ reader = NoReader /\ truth = NoTruth

Next ==
  \/ \E text \in setup.Presses : Press(text)
  \/ \E n \in setup.Counts : Read(n)
  \/ TakeKey \/ Ready \/ TakeSignal \/ ReaderEnds \/ ConsoleReset \/ OnScreen \/ OnKeyboard
  \/ \E d \in {Keyboard, Mouse}, n \in setup.Reads : InputRead(d, n)
  \/ \E on \in BOOLEAN : ConsoleKeys(on)
  \/ \E s \in setup.Settings : ConsoleSet(s)

Spec == Init /\ [][Next]_vars

----------------------------------------------------------------------------
(* Properties.                                                             *)

\* While a line is typed, the screen shows it: the prompt, then the line, the cursor at the place in it where
\* the next edit goes, and nothing after it - through insertions and deletions in the middle, lines recalled
\* and completed, choices listed, and a line that wraps and scrolls the screen.
LineDrawn ==
  Editing /\ con.drawing /\ truth.clean =>
    LET at == At(vga)
        start == at.cursor - con.pos
        n == Len(truth.prompt)
    IN /\ start >= n /\ con.pos \in 0 .. Len(con.line) /\ Len(con.line) < LINE_MAX
       /\ \A i \in 1 .. n : at.screen[start - n + i - 1][1] = truth.prompt[i]
       /\ \A i \in 1 .. Len(con.line) : at.screen[start + i - 1][1] = con.line[i]
       /\ \A i \in Cells(vga) : i >= start + Len(con.line) => at.screen[i][1] = " "

\* What a program reads is the line that was entered, all of it and in order, in however many reads and
\* whatever raw reads, signals and settings come between.
LineRead ==
  ~Editing /\ ~truth.lost =>
    /\ truth.had = SubSeq(truth.entered, 1, con.handed)
    /\ con.ready > 0 => con.ready = Len(truth.entered) /\ con.line = truth.entered
=============================================================================
