------------------------------ MODULE Keyboard ------------------------------
(***************************************************************************)
(* The keyboards and the mouse: input/ps2 and input/usbkbd, which turn     *)
(* scan codes and reports into characters and into events for programs     *)
(* that read them (kernel/input.c), and keyboard_poll_char, which takes    *)
(* characters from whichever has one.  Nothing interrupts: the hardware is *)
(* read when something looks for a key.                                    *)
(*                                                                         *)
(* A key is named by what it types, or by its name where it types nothing. *)
(* A scan code is <<key, up>>, of the key set 1 has it for alone; `Behind' *)
(* gives the ones sent after E0.  The mouse's bytes are numbers.           *)
(***************************************************************************)
EXTENDS Integers, Sequences, FiniteSets, SequencesExt, FiniteSetsExt, TLC

CONSTANTS
  KEYS,      \* characters a driver holds
  EVENTS,    \* events a device holds
  SLOTS,     \* keys in a USB report
  KBDS,      \* USB keyboards
  WIRE       \* a bound on what the hardware holds unread

VARIABLE kbd

Letters == [a |-> "A", b |-> "B", c |-> "C"]
Shifted == Letters @@ ("1" :> "!") @@ ("[" :> "{")
Control == [a |-> "^A", A |-> "^A", b |-> "^B", B |-> "^B", c |-> "^C", C |-> "^C"] @@ ("[" :> "ESC") @@ ("{" :> "ESC")
Grey == [up |-> <<"ESC", "[", "A">>, down |-> <<"ESC", "[", "B">>, right |-> <<"ESC", "[", "C">>, left |-> <<"ESC", "[", "D">>,
         home |-> <<"ESC", "[", "H">>, end |-> <<"ESC", "[", "F">>, delete |-> <<"ESC", "[", "3", "~">>]
Function == [f1 |-> <<"ESC", "[", "[", "A">>]
Behind == [up |-> "kp8", kpenter |-> "LF", rctrl |-> "lctrl", ralt |-> "lalt", fake |-> "lshift"]

Shifts == {"lshift", "rshift"}
Ctrls == {"lctrl", "rctrl"}
Alts == {"lalt", "ralt"}
Mods == Shifts \cup Ctrls \cup Alts
E0 == <<"E0", FALSE>>
Keyboard == "keyboard"
Mouse == "mouse"

\* What a key types, with the modifiers held: its sequence, or its character, after Escape for Alt.
Types(k, shift, ctrl, alt, caps) ==
  LET plain == IF shift /\ k \in DOMAIN Shifted THEN Shifted[k] ELSE k
      cased == IF ~caps THEN plain
               ELSE IF plain \in DOMAIN Letters THEN Letters[plain]
               ELSE IF \E l \in DOMAIN Letters : Letters[l] = plain THEN k ELSE plain
      c == IF ctrl /\ cased \in DOMAIN Control THEN Control[cased] ELSE cased
  IN IF k \in DOMAIN Grey THEN Grey[k]
     ELSE IF k \in DOMAIN Function THEN Function[k]
     ELSE IF k \in {"kp8", "meta"} THEN <<>>
     ELSE IF k = "kpenter" THEN (IF alt THEN <<"ESC", "LF">> ELSE <<"LF">>)
     ELSE IF alt THEN <<"ESC", c>> ELSE <<c>>

\* Characters a driver has typed, the ones there is no room for going; `cut' notes it.
Push(k, driver, text) ==
  LET all == k[driver].keys \o text
  IN [k EXCEPT ![driver].keys = SubSeq(all, 1, Min({Len(all), KEYS})), !.cut = @ \/ Len(all) > KEYS]

----------------------------------------------------------------------------
(* Events, as programs read them.                                          *)

Ev(type, code, value) == [type |-> type, code |-> code, value |-> value]
Syn == Ev("syn", "0", 0)

\* Of a queue, `seen' is the keys its program believes are down and `known' those it has had any event of;
\* `lost' is those whose last event was pushed out by later ones before it was read.
NoQueue == [open |-> FALSE, events |-> <<>>, down |-> {}, seen |-> {}, known |-> {}, lost |-> {}]

CodesOf(events) == {events[i].code : i \in {j \in DOMAIN events : events[j].type = "key"}}

\* A plausible bug: past so many waiting the newest event goes, not the oldest.
QueuedFirst(events, e) == IF Len(events) = EVENTS THEN events ELSE Append(events, e)
\* Events waiting, with one more: past so many the oldest goes.
Queued(events, e) == Append(IF Len(events) = EVENTS THEN Tail(events) ELSE events, e)

InputReport(q, e) ==
  LET again == e.type = "key" /\ e.value # 0 /\ e.code \in q.down
      now == IF q.open THEN Queued(q.events, IF again THEN [e EXCEPT !.value = 2] ELSE e) ELSE q.events
  IN [q EXCEPT !.down = IF e.type # "key" THEN @ ELSE IF e.value # 0 THEN @ \cup {e.code} ELSE @ \ {e.code},
               !.events = now, !.lost = (@ \cup CodesOf(q.events)) \ CodesOf(now)]

Reported(k, device, es) == [k EXCEPT !.input[device] = FoldLeft(InputReport, @, es)]

----------------------------------------------------------------------------
(* The PS/2 keyboard and mouse.                                            *)

\* Linux's key for a scan code.
Keycode(base, ext) ==
  IF ~ext THEN base
  ELSE LET ks == {k \in DOMAIN Behind \ {"fake"} : Behind[k] = base} IN IF ks = {} THEN "none" ELSE CHOOSE k \in ks : TRUE

\* A plausible bug: the shift that comes with a grey key taken for one that was pressed.
KeyDoneFake(k, p, base, up, key) ==
  IF base \in Shifts THEN [k EXCEPT !.ps2.shift = ~up]
  ELSE IF base = "lctrl" THEN [k EXCEPT !.ps2.ctrl = ~up]
  ELSE IF base = "lalt" THEN [k EXCEPT !.ps2.alt = ~up]
  ELSE IF up \/ key = "none" THEN k
  ELSE IF base = "caps" THEN [k EXCEPT !.ps2.caps = ~@]
  ELSE Push(k, "ps2", Types(key, p.shift, p.ctrl, p.alt, p.caps))

\* What a scan code does but for the events it is; p is the driver before it.
KeyDone(k, p, base, up, key) ==
  IF base \in Shifts THEN (IF p.ext THEN k ELSE [k EXCEPT !.ps2.shift = ~up])
  ELSE IF base = "lctrl" THEN [k EXCEPT !.ps2.ctrl = ~up]
  ELSE IF base = "lalt" THEN [k EXCEPT !.ps2.alt = ~up]
  ELSE IF up \/ key = "none" THEN k
  ELSE IF base = "caps" THEN [k EXCEPT !.ps2.caps = ~@]
  ELSE Push(k, "ps2", Types(key, p.shift, p.ctrl, p.alt, p.caps))

KeyEvents(key, up) == IF key = "none" THEN <<>> ELSE <<Ev("key", key, IF up THEN 0 ELSE 1), Syn>>

KeyByte(k, code) ==
  LET key == Keycode(code[1], k.ps2.ext)
  IN IF code = E0 THEN [k EXCEPT !.ps2.ext = TRUE]
     ELSE KeyDone([Reported(k, Keyboard, KeyEvents(key, code[2])) EXCEPT !.ps2.ext = FALSE], k.ps2, code[1], code[2], key)

Bit(n, i) == (n \div 2 ^ i) % 2

\* Three bytes a movement: buttons and signs, then x, then y, upwards.
MouseByte(k, byte) ==
  LET n == Append(k.ps2.packet, byte)
      dx == n[2] - 256 * Bit(n[1], 4)
      dy == n[3] - 256 * Bit(n[1], 5)
      over == Bit(n[1], 6) = 1 \/ Bit(n[1], 7) = 1
      Button(i) == <<"left", "right", "middle">>[i + 1]
      moves == SelectSeq(<<Ev("rel", "x", dx), Ev("rel", "y", -dy)>>, LAMBDA e : ~over /\ e.value # 0)
      presses == SelectSeq(<<0, 1, 2>>, LAMBDA i : Bit(n[1], i) # Bit(k.ps2.buttons, i))
  IN IF k.ps2.packet = <<>> /\ Bit(byte, 3) = 0 THEN k
     ELSE IF Len(n) < 3 THEN [k EXCEPT !.ps2.packet = n]
     ELSE [Reported(k, Mouse, moves \o [i \in DOMAIN presses |-> Ev("key", Button(presses[i]), Bit(n[1], presses[i]))] \o <<Syn>>)
             EXCEPT !.ps2.packet = <<>>, !.ps2.buttons = n[1] % 8]

\* Everything in the controller, from either port.
Ps2Poll(k) ==
  LET Byte(w, b) == IF b.aux THEN MouseByte(w, b.byte) ELSE KeyByte(w, b.code)
  IN FoldLeft(Byte, [k EXCEPT !.ps2.wire = <<>>], k.ps2.wire)

----------------------------------------------------------------------------
(* USB keyboards.                                                          *)

\* A report of what is down, in the order it went down; "over" is too many keys at once.
Report(held) ==
  LET keys == SelectSeq(held, LAMBDA k : k \notin Mods)
  IN [mods |-> {k \in Mods : Contains(held, k)}, keys |-> IF Len(keys) > SLOTS THEN [i \in 1 .. SLOTS |-> "over"] ELSE keys]

Over(r) == Contains(r.keys, "over")
Without(ks, r) == SelectSeq(ks, LAMBDA k : k # "over" /\ ~Contains(r.keys, k))

UsbTypes(key, mods, caps) == Types(key, mods \cap Shifts # {}, mods \cap Ctrls # {}, mods \cap Alts # {}, caps)

UsbEvents(was, now) ==
  LET changed == SetToSeq((was.mods \ now.mods) \cup (now.mods \ was.mods))
      es == [i \in DOMAIN changed |-> Ev("key", changed[i], IF changed[i] \in now.mods THEN 1 ELSE 0)]
            \o [i \in DOMAIN Without(was.keys, now) |-> Ev("key", Without(was.keys, now)[i], 0)]
            \o [i \in DOMAIN Without(now.keys, was) |-> Ev("key", Without(now.keys, was)[i], 1)]
  IN IF es = <<>> THEN es ELSE Append(es, Syn)

UsbReport(k, n, now) ==
  LET was == k.usb.last[n]
      Press1(w, key) == IF key = "caps" THEN [w EXCEPT !.usb.caps = ~@]
                        ELSE [Push(w, "usb", UsbTypes(key, now.mods, w.usb.caps)) EXCEPT !.usb.held = key, !.usb.due = FALSE]
      typed == FoldLeft(Press1, IF Over(now) THEN k ELSE Reported(k, Keyboard, UsbEvents(was, now)), Without(now.keys, was))
  IN [typed EXCEPT !.usb.held = IF Contains(now.keys, @) THEN @ ELSE "none", !.usb.last[n] = now]

Repeated(k) ==
  LET again == UsbTypes(k.usb.held, UNION {k.usb.last[n].mods : n \in DOMAIN k.usb.last}, k.usb.caps)
  IN IF k.usb.held # "none" /\ k.usb.keys = <<>> /\ k.usb.due
     THEN [Push(k, "usb", again) EXCEPT !.usb.due = FALSE, !.want.usb = again \o @]
     ELSE k

\* A report of each keyboard, if it has one, and the key held typed again when it is time.
UsbPoll(k) ==
  LET Next1(w, n) == IF w.usb.wire[n] = <<>> THEN w
                     ELSE UsbReport([w EXCEPT !.usb.wire[n] = Tail(@)], n, Head(w.usb.wire[n]))
  IN Repeated(FoldLeft(Next1, k, [n \in DOMAIN k.usb.last |-> n]))

----------------------------------------------------------------------------
(* Looking for a key.                                                      *)

FirmwareKey(key) == IF key \in DOMAIN Grey THEN Grey[key] ELSE <<key>>

\* A character taken off a driver's, which should be the first that was to be typed on it.
Taken(k, driver) ==
  [k EXCEPT ![driver].keys = Tail(@),
            !.want[driver] = IF @ # <<>> /\ Head(@) = Head(k[driver].keys) THEN Tail(@) ELSE <<"wrong">>]

\* One call of keyboard_poll_char.  s is the keyboards, what has been typed, and whether there is no more.
Gives(s, k, c) == [s EXCEPT !.kbd = k, !.text = Append(@, c)]

FromFirmware(s, k, text) == Gives(s, [k EXCEPT !.firmware = Tail(@), !.pending = Tail(text)], Head(text))

FromUsb(s, k) ==
  IF k.usb.keys # <<>> THEN Gives(s, Taken(k, "usb"), Head(k.usb.keys))
  ELSE IF k.firmware # <<>> THEN FromFirmware(s, k, FirmwareKey(Head(k.firmware)))
  ELSE [s EXCEPT !.kbd = k, !.done = TRUE]

FromPs2(s, k) ==
  IF k.ps2.keys # <<>> THEN Gives(s, Taken(k, "ps2"), Head(k.ps2.keys)) ELSE FromUsb(s, UsbPoll(k))

PollChar(s, i) ==
  IF s.done THEN s
  ELSE IF s.kbd.pending # <<>> THEN Gives(s, [s.kbd EXCEPT !.pending = Tail(@)], Head(s.kbd.pending))
  ELSE FromPs2(s, Ps2Poll(s.kbd))

\* Whether a call would find something.
Polls(k) ==
  \/ k.ps2.wire # <<>> \/ k.pending # <<>> \/ k.firmware # <<>> \/ (k.usb.due /\ k.usb.held # "none")
  \/ \E n \in DOMAIN k.usb.wire : k.usb.wire[n] # <<>>

\* Calls until there is no more, as everything that looks for a key makes; a key types at most four characters.
Polled(k) ==
  LET reports == FoldLeft(LAMBDA n, w : n + Len(w), 0, k.usb.wire)
      presses == FoldLeft(LAMBDA n, key : n + Len(FirmwareKey(key)), 0, k.firmware)
      most == 1 + Len(k.pending) + presses + 4 * (Len(k.ps2.wire) + reports + (IF k.usb.due THEN 1 ELSE 0))
  IN IF Polls(k) THEN FoldLeft(PollChar, [kbd |-> k, text |-> <<>>, done |-> FALSE], [i \in 1 .. most |-> i])
     ELSE [kbd |-> k, text |-> <<>>, done |-> TRUE]

----------------------------------------------------------------------------
(* What is done at the keyboards, and what programs ask for.  `held' is    *)
(* what is down, `lamp' what Caps Lock is, `buttons' the mouse's, `want'   *)
(* what is still to be typed of what was pressed; the drivers see none of  *)
(* them.  `same' notes what they cannot tell apart: both keys of a         *)
(* modifier, or which of two USB keyboards was first; `over' that too many *)
(* were down; `astray' that a byte of the mouse's was lost.                *)

NoKeys ==
  [ps2 |-> [wire |-> <<>>, ext |-> FALSE, shift |-> FALSE, ctrl |-> FALSE, alt |-> FALSE, caps |-> FALSE, keys |-> <<>>,
            packet |-> <<>>, buttons |-> 0],
   usb |-> [wire |-> [n \in 1 .. KBDS |-> <<>>], last |-> [n \in 1 .. KBDS |-> [mods |-> {}, keys |-> <<>>]], caps |-> FALSE,
            held |-> "none", due |-> FALSE, keys |-> <<>>],
   firmware |-> <<>>, pending |-> <<>>, input |-> [d \in {Keyboard, Mouse} |-> NoQueue],
   held |-> [n \in 0 .. KBDS |-> <<>>], lamp |-> [ps2 |-> FALSE, usb |-> FALSE], buttons |-> 0, want |-> [ps2 |-> <<>>, usb |-> <<>>],
   cut |-> FALSE, same |-> FALSE, over |-> FALSE, astray |-> FALSE]

Held(k) == UNION {ToSet(k.held[n]) : n \in DOMAIN k.held}

\* A key goes down or up on keyboard n, of which 0 is the PS/2's.
Pressed(n, key) ==
  LET driver == IF n = 0 THEN "ps2" ELSE "usb"
      held == Append(kbd.held[n], key)
      text == IF key \in Mods \cup {"caps"} THEN <<>> ELSE UsbTypes(key, ToSet(held), kbd.lamp[driver])
  IN [kbd EXCEPT !.held[n] = held, !.want[driver] = @ \o text, !.lamp[driver] = IF key = "caps" THEN ~@ ELSE @,
                 !.same = @ \/ (n = 0 /\ \E p \in {Shifts, Ctrls, Alts} : key \in p /\ p \subseteq ToSet(held))
                            \/ (n > 0 /\ \E m \in 1 .. KBDS \ {n} : kbd.usb.wire[m] # <<>>),
                 !.over = @ \/ (n > 0 /\ Over(Report(held)))]

Codes(key, up) == IF key \in DOMAIN Behind THEN <<E0, <<Behind[key], up>>>> ELSE <<<<key, up>>>>
\* Some keys come with a shift that nobody pressed.
Sent(key, up) ==
  LET codes == IF key # "up" THEN Codes(key, up) ELSE IF up THEN Codes(key, up) \o Codes("fake", up) ELSE Codes("fake", up) \o Codes(key, up)
  IN [i \in DOMAIN codes |-> [aux |-> FALSE, code |-> codes[i], byte |-> 0]]

Wired(k, n, key, up) ==
  IF n = 0 THEN [k EXCEPT !.ps2.wire = @ \o Sent(key, up)] ELSE [k EXCEPT !.usb.wire[n] = Append(@, Report(k.held[n]))]

Room(n) == IF n = 0 THEN Len(kbd.ps2.wire) + 4 <= WIRE ELSE Len(kbd.usb.wire[n]) < WIRE

KeyDown(n, key) == Room(n) /\ ~Contains(kbd.held[n], key) /\ kbd' = Wired(Pressed(n, key), n, key, FALSE)
KeyUp(n, key) ==
  Room(n) /\ Contains(kbd.held[n], key)
  /\ kbd' = Wired([kbd EXCEPT !.held[n] = SelectSeq(@, LAMBDA k : k # key)], n, key, TRUE)

\* The last key still down typed again, by a PS/2 keyboard or by the time there is for a USB one.
Again(n) ==
  /\ Room(n) /\ kbd.held[n] # <<>> /\ Last(kbd.held[n]) \notin Mods \cup {"caps"}
  /\ LET key == Last(kbd.held[n])
     IN kbd' = IF n = 0 THEN Wired([kbd EXCEPT !.want.ps2 = @ \o UsbTypes(key, ToSet(kbd.held[0]), kbd.lamp.ps2)], 0, key, FALSE)
               ELSE [kbd EXCEPT !.usb.due = TRUE]

MouseSends(dx, dy, buttons) ==
  LET sign == (IF dx < 0 THEN 16 ELSE 0) + (IF dy < 0 THEN 32 ELSE 0)
      bytes == <<8 + sign + buttons, dx % 256, dy % 256>>
  IN /\ Room(0)
     /\ kbd' = [kbd EXCEPT !.buttons = buttons, !.ps2.wire = @ \o [i \in 1 .. 3 |-> [aux |-> TRUE, code |-> E0, byte |-> bytes[i]]],
                           !.astray = @ /\ (kbd.ps2.wire # <<>> \/ kbd.ps2.packet # <<>>)]

MouseLoses ==
  /\ \E i \in DOMAIN kbd.ps2.wire :
       kbd.ps2.wire[i].aux /\ kbd' = [kbd EXCEPT !.ps2.wire = RemoveAt(@, i), !.astray = TRUE]

FirmwareHas(keys, most) ==
  kbd' = [kbd EXCEPT !.firmware = SubSeq(@ \o keys, 1, Min({Len(@ \o keys), most}))]

InputOpen(d) == ~kbd.input[d].open /\ kbd' = [kbd EXCEPT !.input[d].open = TRUE]

Seen(q, e) ==
  IF e.type # "key" THEN q
  ELSE [q EXCEPT !.known = @ \cup {e.code}, !.seen = IF e.value = 0 THEN @ \ {e.code} ELSE @ \cup {e.code}]

\* Events read, of those there are once the hardware has been looked at.
EventsRead(k, d, n) ==
  LET q == k.input[d]
      take == Min({n, Len(q.events)})
  IN [k EXCEPT !.input[d] = [FoldLeft(Seen, q, SubSeq(q.events, 1, take)) EXCEPT !.events = SubSeq(@, take + 1, Len(@))]]

\* Once nothing runs, the queues go; what is down is kept.
InputRelease == kbd' = [kbd EXCEPT !.input = [d \in DOMAIN @ |-> [NoQueue EXCEPT !.down = kbd.input[d].down]]]

\* keys is the ones there are on each keyboard, moves what the mouse does.
KeyboardNext(keys, moves) ==
  \/ \E n \in DOMAIN keys : Again(n) \/ \E key \in keys[n] : KeyDown(n, key) \/ KeyUp(n, key)
  \/ \E m \in moves : MouseSends(m[1], m[2], m[3])
  \/ (moves # {} /\ MouseLoses)
  \/ \E d \in {Keyboard, Mouse} : InputOpen(d)
  \/ InputRelease

----------------------------------------------------------------------------
(* Properties.                                                             *)

ReadAll == kbd.ps2.wire = <<>> /\ \A n \in DOMAIN kbd.usb.wire : kbd.usb.wire[n] = <<>>

\* What is typed is what the keys that went down mean with the modifiers that were down with them, in order,
\* each once, however late the hardware is read and whatever shifts of their own keys send; a key that was
\* pressed is never lost while there is room for it.
TypedTrue == ReadAll /\ ~kbd.cut /\ ~kbd.same /\ ~kbd.over => kbd.want = [ps2 |-> kbd.ps2.keys, usb |-> kbd.usb.keys]

\* A program that reads the events comes to know the keys and buttons that are down, though queues come and go
\* and events are dropped when it is slow: the last it has had or will have of each is how it is - but for a key
\* whose own last event was pushed out unread, which nothing makes up for until the key is next pressed or let
\* go.  What is down is what is down at the hardware once that has been read, a lost byte of the mouse's made up
\* for by its next packet; and a packet of events never waits without its end.
EventsTrue ==
  /\ \A d \in {Keyboard, Mouse} :
       LET q == FoldLeft(Seen, kbd.input[d], kbd.input[d].events)
       IN /\ \A k \in q.known \ q.lost : k \in q.seen <=> k \in q.down
          /\ kbd.input[d].events # <<>> => Last(kbd.input[d].events) = Syn
  /\ ReadAll /\ ~kbd.over => kbd.input[Keyboard].down = Held(kbd)
  /\ ReadAll /\ ~kbd.astray => kbd.input[Mouse].down = {<<"left", "right", "middle">>[i + 1] : i \in {j \in 0 .. 2 : Bit(kbd.buttons, j) = 1}}
=============================================================================
