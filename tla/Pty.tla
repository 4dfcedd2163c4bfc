-------------------------------- MODULE Pty --------------------------------
(***************************************************************************)
(* Pseudo-terminals: the table ptys[], the line discipline between a       *)
(* master's writes and a slave's reads, the descriptors counted on each    *)
(* end, and the calls that wait (modules/ipc/pty.c).                       *)
(*                                                                         *)
(* A call runs to its end, or to the thread_yield in wait_for, before      *)
(* anything else does: each is one action, and one that waits tries again  *)
(* in Turn.                                                                *)
(***************************************************************************)
EXTENDS Integers, Sequences, FiniteSets, FiniteSetsExt, SequencesExt

CONSTANTS
  NFds,      \* bound: descriptors in a process's table
  NCallers,  \* processes making calls, of one thread each
  Setups     \* the terminals, and what is done with them, a run goes through

Control == {"intr", "eof", "kill", "werase", "bell"}   \* below 0x20
Key     == {"a", "sp", "nl", "cr", "erase"} \union Control
Shown   == Key \union {"bs", "^", "letter"}
Cooked  == {"icrnl", "onlcr", "isig", "icanon", "echo", "echoe", "echoctl"}
Flags   == Cooked \union {"vmin0"}

(***************************************************************************)
(* Of a setup: NPtys (PTYS), LINE and QUEUE; callers, the processes there  *)
(* are; Keys, what is typed; Written, the characters programs on the slave *)
(* write; Counts, how many a read asks for; Terms, the settings programs   *)
(* choose (TCSETS); Does, what they do; and as bounds MaxText, characters  *)
(* in one write, MaxTyped, keys typed, MaxSent, characters slaves write.   *)
(***************************************************************************)
ASSUME PtyConstants ==
  /\ {NFds, NCallers} \subseteq Nat \ {0}
  /\ \A u \in Setups :
       /\ {u.NPtys, u.LINE, u.QUEUE} \subseteq Nat \ {0} /\ u.callers \in 1 .. NCallers
       /\ {u.MaxTyped, u.MaxSent, u.MaxText} \subseteq Nat /\ u.Counts \subseteq Nat \ {0}
       /\ u.Keys \subseteq Key /\ u.Written \subseteq Key /\ u.Terms \subseteq SUBSET Flags
       /\ u.Does \subseteq {"type", "write", "dup", "fork", "close", "setattr", "pgrp",
                           "nonblock", "unload", "flood"}

VARIABLES
  setup,
  ptys,    \* ptys[]
  fds,     \* each process's descriptors on ptys
  calls,   \* what each thread is doing in the kernel
  pend,    \* processes with a signal waiting
  loaded,  \* whether the module is
  typed,   \* keys typed so far
  row,     \* the emulator: the row it has drawn, up to its cursor
  sent, got  \* what slaves' writes said was written; what masters have read

vars == <<setup, ptys, fds, calls, pend, loaded, typed, row, sent, got>>
ghosts == <<row, sent, got>>

LINE == setup.LINE
QUEUE == setup.QUEUE
Does == setup.Does
Slots == 1 .. setup.NPtys
Callers == 1 .. NCallers

NoPty == [masters |-> 0, slaves |-> 0, opened |-> FALSE, locked |-> FALSE,
          eof |-> FALSE, pgrp |-> 0, sid |-> 0, t |-> Cooked,
          in |-> <<>>, out |-> <<>>, line |-> <<>>]
NewPty == [NoPty EXCEPT !.masters = 1, !.locked = TRUE]
NoFd == [pty |-> 0, slave |-> FALSE, nonblock |-> FALSE]
Idle == [op |-> "idle", fd |-> 0, pty |-> 0, left |-> <<>>, count |-> 0]

InUse(n) == ptys[n] # NoPty
Handle(c, fd) == fds[c][fd]
Open(c, fd) == Handle(c, fd).pty # 0
Free(c) == calls[c].op = "idle"

Cut(s, n) == IF Len(s) > n THEN SubSeq(s, 1, n) ELSE s

----------------------------------------------------------------------------
(* The line discipline.                                                    *)

\* out_put, for each of cs: what does not fit is dropped.
OutPut(p, cs) == [p EXCEPT !.out = Cut(@ \o cs, QUEUE)]

Expanded(p, c) == IF "onlcr" \in p.t /\ c = "nl" THEN <<"cr", "nl">> ELSE <<c>>
Output(p, c) == OutPut(p, Expanded(p, c))

Echo(p, c) ==
  IF "echo" \notin p.t THEN p
  ELSE IF "echoctl" \in p.t /\ (c \in Control \/ c = "cr") THEN OutPut(p, <<"^", "letter">>)
  ELSE Output(p, c)

\* Mutant: an empty line is rubbed out on the screen all the same.
EraseAlways(p, n) ==
  LET k == IF Len(p.line) > n THEN Len(p.line) - n ELSE 0
  IN OutPut([p EXCEPT !.line = SubSeq(@, 1, k)],
            [i \in 1 .. 3 * n |-> IF i % 3 = 2 THEN "sp" ELSE "bs"])

\* erase_one, n times.
Erase(p, n) ==
  LET k == IF n < Len(p.line) THEN n ELSE Len(p.line)
      q == [p EXCEPT !.line = SubSeq(@, 1, Len(@) - k)]
  IN IF {"echo", "echoe"} \subseteq p.t
     THEN OutPut(q, [i \in 1 .. 3 * k |-> IF i % 3 = 2 THEN "sp" ELSE "bs"])
     ELSE q

\* VWERASE: the blanks at the end of the line, and the word before them.
Word(line) ==
  LET last == Max({i \in DOMAIN line : line[i] # "sp"} \union {0})
  IN Len(line) - Max({i \in 1 .. last : line[i] = "sp"} \union {0})

LineDone(p) == [p EXCEPT !.in = Cut(@ \o p.line, QUEUE), !.line = <<>>]

\* Mutant: a full line is echoed though nothing is kept of it.
GatherEchoed(p, c) ==
  Echo(IF Len(p.line) < LINE - 1 THEN [p EXCEPT !.line = Append(@, c)] ELSE p, c)

\* A character of the line itself: the last place is left for its end.
Gather(p, c) ==
  IF Len(p.line) < LINE - 1 THEN Echo([p EXCEPT !.line = Append(@, c)], c) ELSE p

\* input: one character typed at the slave.
Input(p, typedKey) ==
  LET c == IF typedKey = "cr" /\ "icrnl" \in p.t THEN "nl" ELSE typedKey
  IN CASE "isig" \in p.t /\ c = "intr" ->
            [Echo(p, c) EXCEPT !.line = <<>>, !.in = <<>>]
       [] "icanon" \notin p.t ->
            Echo([p EXCEPT !.in = Cut(Append(@, c), QUEUE)], c)
       [] c = "erase"  -> Erase(p, 1)
       [] c = "kill"   -> Erase(p, Len(p.line))
       [] c = "werase" -> Erase(p, Word(p.line))
       [] c = "eof"    -> LineDone([p EXCEPT !.eof = (p.line = <<>>)])
       [] c = "nl"     -> LineDone(Echo([p EXCEPT !.line = Cut(Append(@, c), LINE)], c))
       [] OTHER        -> Gather(p, c)

Interrupts(p, c) == "isig" \in p.t /\ c = "intr"

\* signal_pgrp: each process is the leader of its own group.
Signalled(g) == pend' = pend \union ({g} \cap Callers)

----------------------------------------------------------------------------
(* Reading and writing.                                                    *)

MasterCanRead(p) == p.out # <<>> \/ (p.opened /\ p.slaves = 0)

\* Mutant: a master that has gone ends no read.
SlaveCanReadDeaf(p) == p.in # <<>> \/ p.eof \/ {"icanon", "vmin0"} \cap p.t = {"vmin0"}

SlaveCanRead(p) ==
  p.in # <<>> \/ p.eof \/ p.masters = 0 \/ {"icanon", "vmin0"} \cap p.t = {"vmin0"}

\* How much of in a read of n takes: in a cooked terminal no more than a line.
LineEnd(in) == Min({i \in DOMAIN in : in[i] = "nl"} \union {Len(in)})
Taken(p, n) ==
  LET most == IF "icanon" \in p.t THEN LineEnd(p.in) ELSE Len(p.in)
  IN IF n < most THEN n ELSE most

Return(c) == calls' = [calls EXCEPT ![c] = Idle]

\* wait_for, its test not holding: the thread yields unless it may not wait.
\* Signals: TurnSignalled.
WaitFor(c, call) ==
  /\ IF Handle(c, call.fd).nonblock THEN Return(c)
     ELSE calls' = [calls EXCEPT ![c] = call]
  /\ UNCHANGED <<ptys, ghosts>>

\* The emulator draws what it reads; the line discipline rubs out with
\* backspace, blank, backspace.
Draw(r, c) ==
  CASE c = "bs" -> IF r = <<>> THEN r ELSE Front(r)
    [] c \in {"cr", "nl"} -> <<>>
    [] OTHER -> Append(r, c)
Drawn(n, cs) == FoldLeft(Draw, row[n], cs)

MasterRead(c, call) ==
  LET p == ptys[call.pty]
      k == IF call.count < Len(p.out) THEN call.count ELSE Len(p.out)
      cs == SubSeq(p.out, 1, k)
  IN IF ~MasterCanRead(p) THEN WaitFor(c, call)
     ELSE /\ ptys' = [ptys EXCEPT ![call.pty].out = SubSeq(@, k + 1, Len(@))]
          /\ row' = [row EXCEPT ![call.pty] = Drawn(call.pty, cs)]
          /\ got' = IF "write" \in Does THEN [got EXCEPT ![call.pty] = @ \o cs] ELSE got
          /\ Return(c) /\ UNCHANGED sent

SlaveRead(c, call) ==
  LET p == ptys[call.pty]
      k == Taken(p, call.count)
  IN IF ~SlaveCanRead(p) THEN WaitFor(c, call)
     ELSE /\ ptys' = [ptys EXCEPT ![call.pty] =
                       IF p.in = <<>> THEN [p EXCEPT !.eof = FALSE]
                       ELSE [p EXCEPT !.in = SubSeq(@, k + 1, Len(@))]]
          /\ Return(c) /\ UNCHANGED ghosts

\* What cs look like on their way out.
Expansion(p, cs) == FlattenSeq([i \in DOMAIN cs |-> Expanded(p, cs[i])])

\* How many of cs go out before the writer has to wait: one does as long as
\* the queue is not full, whatever it becomes.
Puts(p, cs) ==
  LET Size(i) == Len(p.out) + Len(Expansion(p, SubSeq(cs, 1, i)))
  IN Max({i \in 0 .. Len(cs) : i = 0 \/ Size(i - 1) < QUEUE})

\* pty_write on the slave, from where call has got to.
SlaveWrite(c, call) ==
  LET p == ptys[call.pty]
      k == Puts(p, call.left)
      now == SubSeq(call.left, 1, k)
      then == SubSeq(call.left, k + 1, Len(call.left))
  IN IF p.masters = 0 THEN Return(c) /\ UNCHANGED <<ptys, ghosts>>
     ELSE /\ ptys' = [ptys EXCEPT ![call.pty] = OutPut(p, Expansion(p, now))]
          /\ sent' = [sent EXCEPT ![call.pty] = @ \o Expansion(p, now)]
          /\ IF then = <<>> \/ Handle(c, call.fd).nonblock THEN Return(c)
             ELSE calls' = [calls EXCEPT ![c] = [call EXCEPT !.left = then]]
          /\ UNCHANGED <<row, got>>

CarryOn(c, call) ==
  CASE call.op = "mread"  -> MasterRead(c, call)
    [] call.op = "sread"  -> SlaveRead(c, call)
    [] call.op = "swrite" -> SlaveWrite(c, call)

----------------------------------------------------------------------------
(* The calls.                                                              *)

PtyRead(c, fd, n) ==
  /\ Free(c) /\ Open(c, fd)
  /\ CarryOn(c, [op |-> IF Handle(c, fd).slave THEN "sread" ELSE "mread", fd |-> fd,
                 pty |-> Handle(c, fd).pty, left |-> <<>>, count |-> n])
  /\ UNCHANGED <<fds, pend, loaded, typed>>

PtyWrite(c, fd, text) ==
  /\ "write" \in Does
  /\ Free(c) /\ Open(c, fd) /\ Handle(c, fd).slave
  /\ Len(sent[Handle(c, fd).pty]) < setup.MaxSent
  /\ CarryOn(c, [Idle EXCEPT !.op = "swrite", !.fd = fd, !.pty = Handle(c, fd).pty,
                             !.left = text])
  /\ UNCHANGED <<fds, pend, loaded, typed>>

\* pty_write on the master: a key typed; several are as many of these.  An
\* emulator that keeps up with its screen leaves the queue room for an echo.
Type(c, fd, k) ==
  LET n == Handle(c, fd).pty
  IN /\ "type" \in Does /\ typed < setup.MaxTyped
     /\ Free(c) /\ Open(c, fd) /\ ~Handle(c, fd).slave
     /\ "flood" \in Does \/ Len(ptys[n].out) + 3 * LINE <= QUEUE
     /\ ptys' = [ptys EXCEPT ![n] = Input(@, k)]
     /\ IF Interrupts(ptys[n], k) THEN Signalled(ptys[n].pgrp) ELSE UNCHANGED pend
     /\ typed' = typed + 1
     /\ UNCHANGED <<fds, calls, loaded, ghosts>>

\* A thread waiting in wait_for has its turn.
Turn(c) ==
  /\ ~Free(c) /\ c \notin pend
  /\ CarryOn(c, calls[c])
  /\ UNCHANGED <<fds, pend, loaded, typed>>

FreeFds(p) == {i \in 1 .. NFds : fds[p][i] = NoFd}
Given(p, h) == [fds EXCEPT ![p][Min(FreeFds(p))] = h]

\* pty_open of ptmx.
PtyOpen(c, nonblock) ==
  LET free == {n \in Slots : ~InUse(n)}
  IN /\ loaded /\ Free(c) /\ free # {} /\ FreeFds(c) # {}
     /\ nonblock => "nonblock" \in Does
     /\ ptys' = [ptys EXCEPT ![Min(free)] = NewPty]
     /\ row' = [row EXCEPT ![Min(free)] = <<>>]
     /\ sent' = [sent EXCEPT ![Min(free)] = <<>>]
     /\ got' = [got EXCEPT ![Min(free)] = <<>>]
     /\ fds' = Given(c, [NoFd EXCEPT !.pty = Min(free), !.nonblock = nonblock])
     /\ UNCHANGED <<calls, pend, loaded, typed>>

\* The first to open the slave has it as its terminal.
SlaveOpened(p, who) ==
  [p EXCEPT !.slaves = @ + 1, !.opened = TRUE,
            !.sid = IF p.sid = 0 THEN who ELSE @, !.pgrp = IF p.sid = 0 THEN who ELSE @]

SlaveOpen(c, n, nonblock) ==
  /\ nonblock => "nonblock" \in Does
  /\ loaded /\ Free(c) /\ InUse(n) /\ ~ptys[n].locked /\ FreeFds(c) # {}
  /\ ptys' = [ptys EXCEPT ![n] = SlaveOpened(@, c)]
  /\ fds' = Given(c, [NoFd EXCEPT !.pty = n, !.slave = TRUE, !.nonblock = nonblock])
  /\ UNCHANGED <<calls, pend, loaded, typed, ghosts>>

----------------------------------------------------------------------------
(* Descriptors made and closed.                                            *)

On(tab, n, slave) == {i \in 1 .. NFds : tab[i].pty = n /\ tab[i].slave = slave}

\* pty_hold, for each descriptor of the table.
Held(tab) ==
  [n \in Slots |-> [ptys[n] EXCEPT !.masters = @ + Cardinality(On(tab, n, FALSE)),
                                   !.slaves = @ + Cardinality(On(tab, n, TRUE))]]

\* pty_drop, for each descriptor of the table: the last one frees it.
Dropped(tab) ==
  [n \in Slots |->
    LET m == ptys[n].masters - Cardinality(On(tab, n, FALSE))
        s == ptys[n].slaves - Cardinality(On(tab, n, TRUE))
    IN IF m = 0 /\ s = 0 THEN NoPty ELSE [ptys[n] EXCEPT !.masters = m, !.slaves = s]]

\* Terminals whose last master the table holds: their groups hear SIGHUP.
HungUp(tab) ==
  {n \in Slots : On(tab, n, FALSE) # {} /\ ptys[n].masters = Cardinality(On(tab, n, FALSE))}

Drops(tab) ==
  /\ ptys' = Dropped(tab)
  /\ pend' = pend \union ({ptys[n].pgrp : n \in HungUp(tab)} \cap Callers)

NoTable == [i \in 1 .. NFds |-> NoFd]
Only(h) == [NoTable EXCEPT ![1] = h]

\* Mutant: the descriptor is copied and not counted.
DupNotHeld(c, fd) ==
  /\ "dup" \in Does /\ Free(c) /\ Open(c, fd) /\ FreeFds(c) # {}
  /\ fds' = Given(c, Handle(c, fd))
  /\ UNCHANGED <<ptys, calls, pend, loaded, typed, ghosts>>

\* sys_dup
Dup(c, fd) ==
  /\ "dup" \in Does /\ Free(c) /\ Open(c, fd) /\ FreeFds(c) # {}
  /\ fds' = Given(c, Handle(c, fd))
  /\ ptys' = Held(Only(Handle(c, fd)))
  /\ UNCHANGED <<calls, pend, loaded, typed, ghosts>>

Close(c, fd) ==
  /\ "close" \in Does /\ Free(c) /\ Open(c, fd)
  /\ fds' = [fds EXCEPT ![c][fd] = NoFd]
  /\ Drops(Only(Handle(c, fd)))
  /\ UNCHANGED <<calls, loaded, typed, ghosts>>

\* A fork, its child one that has nothing yet: hold_all.
Fork(c, p) ==
  /\ "fork" \in Does /\ Free(c) /\ p \in Callers \ {c} /\ fds[p] = NoTable
  /\ fds[c] # NoTable
  /\ fds' = [fds EXCEPT ![p] = fds[c]]
  /\ ptys' = Held(fds[c])
  /\ UNCHANGED <<calls, pend, loaded, typed, ghosts>>

\* A signal ends the wait: it is handled (EINTR), or it ends the process,
\* which closes everything it has.
TurnSignalled(c) ==
  /\ c \in pend
  /\ \/ /\ ~Free(c) /\ Return(c)
        /\ pend' = pend \ {c}
        /\ UNCHANGED <<fds, ptys>>
     \/ /\ calls' = [d \in Callers |-> IF d = c THEN Idle ELSE calls[d]]
        /\ fds' = [fds EXCEPT ![c] = NoTable]
        /\ ptys' = Dropped(fds[c])
        /\ pend' = (pend \union ({ptys[n].pgrp : n \in HungUp(fds[c])} \cap Callers))
                   \ {c}
  /\ UNCHANGED <<loaded, typed, ghosts>>

----------------------------------------------------------------------------
(* pty_ioctl: what changes something.                                      *)

Ioctl(c, fd) == Free(c) /\ Open(c, fd) /\ UNCHANGED <<fds, calls, loaded, typed, ghosts>>
PtyOn(c, fd) == ptys[Handle(c, fd).pty]

Unlock(c, fd) ==
  /\ Ioctl(c, fd) /\ ~Handle(c, fd).slave /\ PtyOn(c, fd).locked
  /\ ptys' = [ptys EXCEPT ![Handle(c, fd).pty].locked = FALSE]
  /\ UNCHANGED pend

\* TCSETS, or TCSETSF, which flushes what has been typed first: a terminal
\* that is raw from now on hands over what was gathered.
SetAttr(c, fd, t, flush) ==
  LET p == PtyOn(c, fd)
      q == IF flush THEN [p EXCEPT !.t = t, !.in = <<>>, !.line = <<>>] ELSE [p EXCEPT !.t = t]
  IN /\ "setattr" \in Does /\ Ioctl(c, fd)
     /\ ptys' = [ptys EXCEPT ![Handle(c, fd).pty] = IF "icanon" \notin t THEN LineDone(q) ELSE q]
     /\ UNCHANGED pend

Flush(c, fd) ==
  /\ "setattr" \in Does /\ Ioctl(c, fd)
  /\ ptys' = [ptys EXCEPT ![Handle(c, fd).pty].in = <<>>, ![Handle(c, fd).pty].line = <<>>]
  /\ UNCHANGED pend

\* TIOCSWINSZ: the group in front hears SIGWINCH.
SetSize(c, fd) ==
  /\ "pgrp" \in Does /\ Ioctl(c, fd)
  /\ Signalled(PtyOn(c, fd).pgrp)
  /\ UNCHANGED ptys

\* TIOCSPGRP, and TIOCSCTTY.
SetPgrp(c, fd, g) ==
  /\ "pgrp" \in Does /\ Ioctl(c, fd)
  /\ ptys' = [ptys EXCEPT ![Handle(c, fd).pty].pgrp = g]
  /\ UNCHANGED pend
SetTerminal(c, fd) ==
  /\ "pgrp" \in Does /\ Ioctl(c, fd)
  /\ ptys' = [ptys EXCEPT ![Handle(c, fd).pty].pgrp = c,
                          ![Handle(c, fd).pty].sid = c]
  /\ UNCHANGED pend

\* module_init and module_exit: a terminal still open is a program's.
Load == ~loaded /\ loaded' = TRUE /\ UNCHANGED <<ptys, fds, calls, pend, typed, ghosts>>
Unload ==
  /\ "unload" \in Does /\ loaded /\ \A n \in Slots : ~InUse(n)
  /\ loaded' = FALSE
  /\ UNCHANGED <<ptys, fds, calls, pend, typed, ghosts>>

----------------------------------------------------------------------------
Init ==
  /\ setup \in Setups
  /\ ptys = [n \in Slots |-> NoPty]
  /\ fds = [p \in Callers |-> NoTable]
  /\ calls = [c \in Callers |-> Idle]
  /\ pend = {} /\ loaded = FALSE /\ typed = 0
  /\ row = [n \in Slots |-> <<>>] /\ sent = row /\ got = row

Call(c) ==
  \/ \E nonblock \in BOOLEAN : PtyOpen(c, nonblock)
  \/ \E n \in Slots, nonblock \in BOOLEAN : SlaveOpen(c, n, nonblock)
  \/ \E p \in Callers : Fork(c, p)
  \/ \E fd \in 1 .. NFds :
       \/ \E n \in setup.Counts : PtyRead(c, fd, n)
       \/ \E k \in 1 .. setup.MaxText : \E text \in [1 .. k -> setup.Written] : PtyWrite(c, fd, text)
       \/ \E k \in setup.Keys : Type(c, fd, k)
       \/ Dup(c, fd) \/ Close(c, fd) \/ Unlock(c, fd) \/ Flush(c, fd)
       \/ SetSize(c, fd) \/ SetTerminal(c, fd)
       \/ \E t \in setup.Terms, flush \in BOOLEAN : SetAttr(c, fd, t, flush)
       \/ \E g \in Callers : SetPgrp(c, fd, g)

Steps ==
  \/ Load \/ Unload
  \/ \E c \in 1 .. setup.callers : Call(c) \/ Turn(c) \/ TurnSignalled(c)

Next == Steps /\ UNCHANGED setup

Spec == Init /\ [][Next]_vars

\* Threads take turns, and one that waits tries again: the others end their
\* calls or wait in them.
FairSpec == Spec /\ \A c \in Callers : WF_vars(Turn(c) /\ UNCHANGED setup) /\ WF_vars(TurnSignalled(c) /\ UNCHANGED setup)

----------------------------------------------------------------------------
(* Properties.                                                             *)

\* The type of every variable: the rings and the line never outgrow their arrays.
TypeOK ==
  /\ \A n \in Slots :
       /\ ptys[n].masters \in Nat /\ ptys[n].slaves \in Nat
       /\ ptys[n].pgrp \in Callers \union {0} /\ ptys[n].sid \in Callers \union {0}
       /\ ptys[n].t \in SUBSET Flags /\ {ptys[n].opened, ptys[n].locked, ptys[n].eof} \subseteq BOOLEAN
       /\ ptys[n].in \in Seq(Key) /\ Len(ptys[n].in) <= QUEUE
       /\ ptys[n].out \in Seq(Shown) /\ Len(ptys[n].out) <= QUEUE
       /\ ptys[n].line \in Seq(Key) /\ Len(ptys[n].line) <= LINE
  /\ \A p \in Callers : fds[p] \in [1 .. NFds -> [pty : Slots \union {0}, slave : BOOLEAN, nonblock : BOOLEAN]]
  /\ pend \subseteq Callers /\ loaded \in BOOLEAN

\* The module is there while anything of it is in use.
CodeIsThere == (\E n \in Slots : InUse(n)) \/ (\E c \in Callers : ~Free(c)) => loaded

Holders(tabs, n, slave) == {h \in Callers \X (1 .. NFds) : h[2] \in On(tabs[h[1]], n, slave)}

\* Each end is counted once for every descriptor on it, a fork's and a dup's
\* too, and a terminal is there exactly while something has it open
\* ("nothing once it is closed"), as is the module.
HandlesCounted ==
  TypeOK /\ CodeIsThere /\ \A n \in Slots :
    /\ ptys[n].masters = Cardinality(Holders(fds, n, FALSE))
    /\ ptys[n].slaves = Cardinality(Holders(fds, n, TRUE))
    /\ InUse(n) <=> Holders(fds, n, FALSE) \union Holders(fds, n, TRUE) # {}

\* What is on the emulator's row, once it has drawn all that is on its way.
Row(n) == FoldLeft(Draw, row[n], ptys[n].out)

\* Echoing and rubbing out keep together: the line being edited is what the
\* screen shows at its cursor, so what a program is given is what was seen
\* (an emulator that keeps up with its screen: an echo with no room is dropped).
KeepsUp == "type" \in Does /\ "flood" \notin Does
Glyphs(c) == IF c \in Control THEN <<"^", "letter">> ELSE <<c>>
Image(line) == FlattenSeq([i \in DOMAIN line |-> Glyphs(line[i])])
LineShown == KeepsUp => \A n \in Slots : IsSuffix(Image(ptys[n].line), Row(n))

\* Rubbing out never eats into what was on the row before the line (a
\* prompt): that only goes with a new row.
Prompt(n) == SubSeq(Row(n), 1, Len(Row(n)) - Len(Image(ptys[n].line)))
PromptKept ==
  [][KeepsUp => \A n \in Slots : InUse(n)' => (IsPrefix(Prompt(n), Prompt(n)') \/ Row(n)' = <<>>)]_vars

\* What slaves' writes were told is written reaches the master, in order and
\* whole, however the writers wait and take turns: the queue loses nothing.
WrittenIsDrawn ==
  "type" \notin Does => \A n \in Slots : InUse(n) => got[n] \o ptys[n].out = sent[n]

\* Whatever the order of settings, keys and reads, nothing typed is held back
\* from the reads of a terminal that is raw ("what was gathered is there to
\* read").
RawHoldsNothingBack ==
  \A n \in Slots : "icanon" \notin ptys[n].t => ptys[n].line = <<>>

\* What the line discipline was given is where it should be: typed characters on the
\* screen as in the line or handed on, written ones on their way (input, pty_write, TCSETS).
NothingLost == LineShown /\ WrittenIsDrawn /\ RawHoldsNothingBack

\* A hang-up ends every wait: of a slave's reader or writer once the masters
\* are gone, of a master's reader once the slaves are.
HungUpFor(c) ==
  LET p == ptys[calls[c].pty]
  IN ~Free(c) /\ (IF calls[c].op = "mread" THEN p.opened /\ p.slaves = 0 ELSE p.masters = 0)
HangupEnds == \A c \in Callers : HungUpFor(c) ~> ~HungUpFor(c)
=============================================================================
