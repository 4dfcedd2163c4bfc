----------------------------- MODULE ConsoleMC -----------------------------
EXTENDS Console

Csi(w) == <<"ESC", "[">> \o w

Base == [Modes |-> <<<<4, 3>>>>, Scales |-> {}, Fonts |-> {}, MinCols |-> 2, MinRows |-> 2, TAB |-> 2, PARAMS |-> 2, Shown |-> <<>>,
         Writes |-> {}, Takes |-> {}, Does |-> {}, MaxSteps |-> 6, Ahead |-> 6, Keys |-> <<>>, Moves |-> {}, Reads |-> {}, TYPED |-> 6, LINE_MAX |-> 8, HISTORY |-> 8,
         FORCE_AFTER |-> 3, Presses |-> {}, Counts |-> {}, Settings |-> {},
         Commands |-> <<<<"a", "b">>, <<"a", "a">>>>, Files |-> <<<<"b", "/">>, <<"a">>>>, Dirs |-> {<<"b", "/">>}, Links |-> {<<"a">>}]

\* Lines edited in place, recalled and completed, where the prompt leaves room for less or more of them.
Editing1 == [Base EXCEPT !.Does = {"read", "press"}, !.Counts = {8}, !.MaxSteps = 7,
  !.Presses = {<<"a">>, <<"b", "a", "b">>, <<"BS">>, <<"^U">>, <<"LF">>, <<"up">>, <<"down">>, <<"left">>, <<"right">>, <<"home">>, <<"end">>, <<"delete">>}]
Edits == [Editing1 EXCEPT !.Shown = <<"$">>]
EditsBelow == [Editing1 EXCEPT !.Shown = <<"b", "LF", "LF", "$">>, !.MaxSteps = 6]
EditsAtEnd == [Editing1 EXCEPT !.Shown = <<"LF", "LF", "a", "b", "b", "$">>]
Completes == [Base EXCEPT !.Does = {"read", "press"}, !.Counts = {8}, !.MaxSteps = 6, !.Shown = <<"b", "LF", "$">>,
  !.Presses = {<<"a">>, <<"b">>, <<" ">>, <<"/">>, <<"TAB">>, <<"left">>, <<"LF">>}]

\* What a terminal is told, whole and in pieces; and the sizes it is given.
Terminals == [Base EXCEPT !.Does = {"write", "lend"}, !.Modes = <<<<3, 3>>>>, !.MaxSteps = 4, !.Writes =
  {<<"a">>, <<"b", "b", "b">>, <<"LF">>, <<"CR">>, <<"BS">>, <<"TAB">>, <<"BEL">>, <<"ESC", "c">>, <<"ESC", "7">>, <<"ESC", "8">>,
   <<"ESC", "M">>, <<"ESC", "D">>, <<"ESC", "E">>} \cup
  {Csi(w) : w \in {<<"2", ";", "3", "H">>, <<"K">>, <<"1", "K">>, <<"2", "K">>, <<"J">>, <<"1", "J">>, <<"2", "J">>, <<"@">>, <<"2", "P">>,
                   <<"L">>, <<"2", "M">>, <<"X">>, <<"3", "d">>, <<"2", "r">>, <<"A">>, <<"2", "B">>, <<"C">>, <<"D">>, <<"2", "G">>,
                   <<"4", "h">>, <<"4", "l">>, <<"?", "2", "5", "l">>, <<"?", "2", "5", "h">>, <<"7", "m">>}}]
Pieces == [Base EXCEPT !.Does = {"write"}, !.Modes = <<<<3, 2>>>>, !.MaxSteps = 5,
  !.Writes = {<<"ESC">>, <<"[">>, <<"2", ";">>, <<"3">>, <<"H">>, <<"m">>, <<"a", "q">>, <<"(", "0">>, <<")", "0">>, <<"SO">>, <<"SI">>,
              <<"]", "P">>, <<"1", "1", "1", "1", "1", "1">>, <<"lead2", "cont">>, <<"cont">>, <<"lead1">>, <<"R">>}]
Captures == [Base EXCEPT !.Does = {"write", "color", "capture"}, !.Modes = <<<<3, 2>>>>, !.Takes = {1, 4}, !.MaxSteps = 5,
  !.Writes = {<<"a">>, <<"b", "b", "LF">>, Csi(<<"7", "m">>)}]
Colours == [Base EXCEPT !.Does = {"write", "color"}, !.Modes = <<<<3, 2>>>>, !.PARAMS = 4, !.MaxSteps = 4,
  !.Writes = {Csi(<<>> \o w \o <<"m">>) : w \in {<<"0">>, <<"1">>, <<"2", "2">>, <<"7">>, <<"2", "7">>, <<"3", "1">>, <<"3", "9">>, <<"4", "9">>, <<"9", "4">>,
     <<"4", "2">>, <<"1", "0", "3">>, <<"3", "8", ";", "5", ";", "1", ";", "7", ";", "4">>}} \cup {<<"a">>, <<"ESC", "7">>, <<"ESC", "8">>}]
Sizes == [Base EXCEPT !.Does = {"write", "mode", "font", "scale", "follow", "lend"}, !.Modes = <<<<3, 3>>, <<6, 6>>, <<4, 3>>>>,
  !.Scales = {<<0, 0>>, <<3, 3>>}, !.Fonts = {<<1, 1>>, <<2, 2>>}, !.MaxSteps = 5, !.Writes = {<<"a", "b", "LF", "c">>}]

\* Keys typed ahead, signals typed, raw reads and settings that change.
Raw1 == [Cooked EXCEPT !.icanon = FALSE, !.isig = FALSE, !.icrnl = FALSE, !.onlcr = FALSE]
Poll1 == [Cooked EXCEPT !.icanon = FALSE, !.vmin = 0, !.echo = FALSE]
Signals == [Base EXCEPT !.Does = {"read", "press", "ahead", "ready", "signal", "keys", "set", "reset", "ends"}, !.Ahead = 3, !.TYPED = 3,
  !.Counts = {1, 2}, !.MaxSteps = 5, !.Presses = {<<"a">>, <<"b", "LF">>, <<"^C">>, <<"^C", "^C">>, <<"^\\">>, <<"^D">>}, !.Settings = {Cooked, Raw1, Poll1}]
\* A signal typed, or a key that is not the next of one, in the middle of an escape sequence.
Sequences == [Base EXCEPT !.Does = {"read", "press", "signal"}, !.Counts = {8}, !.Shown = <<"$">>,
  !.Presses = {<<"a", "0", "left">>, <<"ESC", "[">>, <<"3">>, <<"~">>, <<"^A">>, <<"^C">>}]
\* Others write, and the firmware takes the screen, while a line is read.
Meanwhile == [Base EXCEPT !.Does = {"read", "press", "write", "lend", "follow", "signal"}, !.Counts = {8}, !.Modes = <<<<4, 3>>, <<3, 4>>, <<4, 3>>>>,
  !.Shown = <<"$">>, !.MaxSteps = 6, !.Presses = {<<"a">>, <<"b", "b", "b">>, <<"BS">>, <<"^C">>, <<"ESC", "ESC">>, <<"ESC", "O">>}, !.Writes = {<<"c", "LF">>}]

\* Keys and buttons, read late, and events read late.
Typing == [Base EXCEPT !.Does = {"keyboard", "ready", "input"}, !.Reads = {1, 9}, !.MaxSteps = 7,
  !.Keys = (0 :> {"a", "up", "lshift", "rctrl", "caps"})]
Typing2 == [Typing EXCEPT !.Keys = (0 :> {"c", "1", "f1", "kp8", "kpenter", "rshift", "lctrl", "ralt"}), !.MaxSteps = 5]
Usb == [Typing EXCEPT !.Keys = <<{"a", "up", "b", "lshift"}, {"c", "rctrl", "caps"}>>, !.MaxSteps = 5]
Both == [Typing EXCEPT !.Keys = (0 :> {"a", "lctrl"} @@ 1 :> {"c", "rctrl"}), !.Does = @ \cup {"read"}, !.Counts = {1}, !.MaxSteps = 5]
Mice == [Typing EXCEPT !.Keys = <<>>, !.Moves = {<<0, 0, 0>>, <<1, 0, 1>>, <<-1, 9, 3>>}]

\* Not among them: a sequence left unfinished and ended while output is captured moves the cursor, and its bar
\* stays where it was.  With this setup ScreenTrue does not hold.
CaptureMoves == [Captures EXCEPT !.Does = {"write", "capture"}, !.MaxSteps = 4, !.Writes = {<<"a">>, <<"ESC", "[">>, <<"H">>}]

Some == {Edits, EditsBelow, EditsAtEnd, Completes, Terminals, Pieces, Captures, Colours, Sizes, Signals, Sequences, Meanwhile,
         Typing, Typing2, Usb, Both, Mice}
=============================================================================
