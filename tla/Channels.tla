------------------------------ MODULE Channels ------------------------------
(***************************************************************************)
(* Pipes, FIFOs, eventfds and socketpairs (kernel/syscall.c), the          *)
(* descriptors sent over them, and the AF_UNIX sockets by which programs   *)
(* meet (modules/ipc/unix.c).                                              *)
(*                                                                         *)
(* Descriptors are copied by dup, by fork and by being sent, and every one *)
(* is counted on what it is open on; the last one closed frees it, and     *)
(* with it the descriptors still queued there.  A byte is the number of    *)
(* the write it came from.  Nothing preempts: a call is one action, up to  *)
(* its thread_yield, from which Turn carries on.                           *)
(***************************************************************************)
EXTENDS Integers, Sequences, FiniteSets, FiniteSetsExt, SequencesExt

CONSTANTS
  BACKLOG,
  NCallers,  \* processes making calls, of one thread each
  Setups     \* the tables, and what is done with them, a run goes through

(***************************************************************************)
(* Of a setup: NPipes (PIPES), NSocks (SOCKETS) and CAP (PIPE_CAP);        *)
(* callers, the processes there are; Sizes, how much is written or read at *)
(* a time; Does, what the programs do and what goes wrong; and as bounds   *)
(* NFds, descriptors in a process's table, and MaxTag, writes made.  Where *)
(* fair is FALSE its threads may stop, and nothing is said of their waits. *)
(***************************************************************************)
ASSUME ChannelConstants ==
  /\ {BACKLOG, NCallers} \subseteq Nat \ {0}
  /\ \A u \in Setups :
       /\ {u.NPipes, u.CAP, u.NFds} \subseteq Nat \ {0} /\ u.callers \in 1 .. NCallers
       /\ {u.NSocks, u.MaxTag} \subseteq Nat /\ u.Sizes \subseteq Nat /\ u.fair \in BOOLEAN
       /\ u.Does \subseteq {"pipe", "fifo", "event", "pair", "packets", "dup", "fork", "close",
                           "write", "pass", "passfull", "nonblock", "signal", "die", "killsender",
                           "socket", "exec", "lastslot"}

VARIABLES
  setup,
  pipes,   \* pipes[]
  socks,   \* socks[]: AF_UNIX sockets not yet connected
  tab,     \* each process's descriptors
  calls,   \* what each thread is doing in the kernel
  pend,    \* processes with a signal waiting
  gone,    \* threads that have ended
  tag      \* writes so far

vars == <<setup, pipes, socks, tab, calls, pend, gone, tag>>

Callers == 1 .. NCallers
NPipes == setup.NPipes
NSocks == setup.NSocks
CAP == setup.CAP
MaxTag == setup.MaxTag
Does == setup.Does
Fds == 1 .. setup.NFds

NoHandle == [kind |-> "none", in |-> 0, out |-> 0, nb |-> FALSE, cx |-> FALSE]
Kinds == {"none", "read", "write", "pair", "event", "sock"}

NoPipe == [refs |-> 0, count |-> 0, kind |-> "pipe", fifo |-> FALSE, packets |-> FALSE,
           buf |-> <<>>, msgs |-> <<>>, wrote |-> 0, taken |-> 0]
NoSock == [refs |-> 0, listening |-> FALSE, bound |-> FALSE, queue |-> <<>>]

Idle == [op |-> "idle", fd |-> 0, h |-> NoHandle, n |-> 0, tag |-> 0, fds |-> <<>>,
         queued |-> FALSE, part |-> FALSE]

Free(c) == c \notin gone /\ calls[c].op = "idle"
ThreadOnly(c) == Callers \ {c} \subseteq gone
Handle(c, fd) == tab[c][fd]

\* pipe_of, pair_out, written: the pipe read from, and the one written to.
Reads(h)  == IF h.kind \in {"read", "pair", "event"} THEN h.in ELSE 0
Writes(h) == IF h.kind = "write" THEN h.in ELSE IF h.kind = "pair" THEN h.out ELSE 0

----------------------------------------------------------------------------
(* Counting descriptors.  A store is the record of both tables.            *)

Store == [pipes |-> pipes, socks |-> socks]

PipeRefs(h, p) ==
  (IF h.kind \notin {"none", "sock"} /\ h.in = p THEN 1 ELSE 0)
  + (IF h.kind = "pair" /\ h.out = p THEN 1 ELSE 0)
WriteRefs(h, p) == IF Writes(h) = p THEN 1 ELSE 0
SockRefs(h, s) == IF h.kind = "sock" /\ h.in = s THEN 1 ELSE 0

\* pipe_hold and sock_hold: one descriptor more.
HoldOne(st, h) ==
  [st EXCEPT !.pipes = [p \in 1 .. NPipes |->
                         [@[p] EXCEPT !.refs = @ + PipeRefs(h, p), !.count = @ + WriteRefs(h, p)]],
             !.socks = [s \in 1 .. NSocks |-> [@[s] EXCEPT !.refs = @ + SockRefs(h, s)]]]
Held(st, hs) == FoldLeft(HoldOne, st, hs)

Less(n, k) == IF n > k THEN n - k ELSE 0
Sent(p) == FlattenSeq([i \in DOMAIN p.msgs |-> p.msgs[i].fds])

\* Mutant: what was sent and never received stays held.
ReleaseOneKeeps(job) ==
  LET h == Head(job.todo)
  IN IF job.todo = <<>> THEN job ELSE
     [st |-> [job.st EXCEPT
               !.pipes = [i \in 1 .. NPipes |->
                           LET q == [@[i] EXCEPT !.refs = Less(@, PipeRefs(h, i)),
                                                 !.count = Less(@, WriteRefs(h, i))]
                           IN IF q.refs = 0 THEN NoPipe ELSE q],
               !.socks = [s \in 1 .. NSocks |->
                           LET q == [@[s] EXCEPT !.refs = Less(@, SockRefs(h, s))]
                           IN IF q.refs = 0 THEN NoSock ELSE q]],
      todo |-> Tail(job.todo)]

\* pipe_release and sock_drop of the first handle of job.todo.  A pipe or a
\* socket nothing is open on any more is cleared, and what is queued on it is
\* to be released in turn.
ReleaseOne(job) ==
  LET h == Head(job.todo)
      ps == [i \in 1 .. NPipes |->
              [job.st.pipes[i] EXCEPT !.refs = Less(@, PipeRefs(h, i)),
                                      !.count = Less(@, WriteRefs(h, i))]]
      ss == [s \in 1 .. NSocks |-> [job.st.socks[s] EXCEPT !.refs = Less(@, SockRefs(h, s))]]
      ended(i) == ps[i].refs = 0 /\ job.st.pipes[i].refs > 0
      over(s) == ss[s].refs = 0 /\ job.st.socks[s].refs > 0
  IN IF job.todo = <<>> THEN job ELSE
     [st |-> [pipes |-> [i \in 1 .. NPipes |-> IF ended(i) THEN NoPipe ELSE ps[i]],
              socks |-> [s \in 1 .. NSocks |-> IF over(s) THEN NoSock ELSE ss[s]]],
      todo |-> Tail(job.todo)
               \o FlattenSeq([i \in 1 .. NPipes |-> IF ended(i) THEN Sent(ps[i]) ELSE <<>>])
               \o FlattenSeq([s \in 1 .. NSocks |-> IF over(s) THEN ss[s].queue ELSE <<>>])]

\* The handles hs let go of, and all that goes with them: never more than are
\* queued anywhere.
Released(st, hs) ==
  LET most == Len(hs) + FoldLeft(LAMBDA k, p : k + Len(Sent(p)), 0, st.pipes)
              + FoldLeft(LAMBDA k, s : k + Len(s.queue), 0, st.socks)
  IN FoldLeft(LAMBDA job, i : ReleaseOne(job), [st |-> st, todo |-> hs],
              [i \in 1 .. most |-> i]).st

Stored(st) == pipes' = st.pipes /\ socks' = st.socks

Closing(table) == SelectSeq(table, LAMBDA h : h.kind # "none")

FreeFds(t) == {i \in Fds : t[i].kind = "none"}
\* give_handle, of each of hs: what finds no room is not given.
Given(t, h) == IF FreeFds(t) = {} THEN t ELSE [t EXCEPT ![Min(FreeFds(t))] = h]
GivenTo(c, hs) == [tab EXCEPT ![c] = FoldLeft(Given, @, hs)]
RoomFor(c, k) == Cardinality(FreeFds(tab[c])) >= k
PipeSlots == {p \in 1 .. NPipes : pipes[p].refs = 0}

----------------------------------------------------------------------------
(* Made.                                                                   *)

Makes(c, what) == what \in Does /\ Free(c) /\ UNCHANGED <<calls, pend, gone, tag>>

May(flag, what) == flag => what \in Does

Pipe2(c, nb, cx) ==
  LET p == Min(PipeSlots)
      h == [NoHandle EXCEPT !.in = p, !.nb = nb, !.cx = cx]
  IN /\ Makes(c, "pipe") /\ PipeSlots # {} /\ RoomFor(c, 2)
     /\ May(nb, "nonblock") /\ May(cx, "exec")
     /\ pipes' = [pipes EXCEPT ![p] = [NoPipe EXCEPT !.refs = 2, !.count = 1]]
     /\ tab' = GivenTo(c, <<[h EXCEPT !.kind = "read"], [h EXCEPT !.kind = "write"]>>)
     /\ UNCHANGED socks

\* fifo_open: the pipe it is, made by whoever opens it first; read and write
\* both is a pair end whose other end is itself.
FifoOpen(c, mode) ==
  LET open == {p \in 1 .. NPipes : pipes[p].refs > 0 /\ pipes[p].fifo}
      p == IF open # {} THEN Min(open) ELSE Min(PipeSlots)
      h == [NoHandle EXCEPT !.kind = mode, !.in = p, !.out = IF mode = "pair" THEN p ELSE 0]
      st == IF open # {} THEN Store
            ELSE [Store EXCEPT !.pipes[p] = [NoPipe EXCEPT !.fifo = TRUE]]
  IN /\ Makes(c, "fifo") /\ (open # {} \/ PipeSlots # {}) /\ RoomFor(c, 1)
     /\ Stored(HoldOne(st, h))
     /\ tab' = GivenTo(c, <<h>>)

EventFd(c, n) ==
  LET p == Min(PipeSlots)
  IN /\ Makes(c, "event") /\ PipeSlots # {} /\ RoomFor(c, 1)
     /\ pipes' = [pipes EXCEPT ![p] = [NoPipe EXCEPT !.refs = 1, !.count = n, !.kind = "event"]]
     /\ tab' = GivenTo(c, <<[NoHandle EXCEPT !.kind = "event", !.in = p]>>)
     /\ UNCHANGED socks

\* pair_new, in the two lowest free slots.
PairSlots == LET p == Min(PipeSlots) IN <<p, Min(PipeSlots \ {p})>>
PairEnds(s, nb, cx) ==
  <<[kind |-> "pair", in |-> s[1], out |-> s[2], nb |-> nb, cx |-> cx],
    [kind |-> "pair", in |-> s[2], out |-> s[1], nb |-> nb, cx |-> cx]>>
PairMade(s, packets) ==
  [pipes EXCEPT ![s[1]] = [NoPipe EXCEPT !.refs = 2, !.count = 1, !.packets = packets],
                ![s[2]] = [NoPipe EXCEPT !.refs = 2, !.count = 1, !.packets = packets]]

SocketPair(c, packets, nb, cx) ==
  /\ Makes(c, "pair") /\ May(packets, "packets") /\ May(nb, "nonblock") /\ May(cx, "exec")
  /\ Cardinality(PipeSlots) >= 2 /\ RoomFor(c, 2)
  /\ pipes' = PairMade(PairSlots, packets)
  /\ tab' = GivenTo(c, PairEnds(PairSlots, nb, cx))
  /\ UNCHANGED socks

\* pair_new with one slot left: it is taken, counted twice, and dropped once.
PairFails(c) ==
  /\ Makes(c, "lastslot") /\ Cardinality(PipeSlots) = 1
  /\ pipes' = [pipes EXCEPT ![Min(PipeSlots)] = [NoPipe EXCEPT !.refs = 1, !.count = 1]]
  /\ UNCHANGED <<socks, tab>>

----------------------------------------------------------------------------
(* Copied and closed.                                                      *)

Dup(c, fd) ==
  /\ Makes(c, "dup") /\ Handle(c, fd).kind # "none" /\ RoomFor(c, 1)
  /\ tab' = GivenTo(c, <<[Handle(c, fd) EXCEPT !.cx = FALSE]>>)
  /\ Stored(HoldOne(Store, Handle(c, fd)))

Close(c, fd) ==
  /\ Makes(c, "close") /\ Handle(c, fd).kind # "none"
  /\ tab' = [tab EXCEPT ![c][fd] = NoHandle]
  /\ Stored(Released(Store, <<Handle(c, fd)>>))

\* A fork, its child one with nothing open yet: hold_all.
Fork(c, p) ==
  /\ Makes(c, "fork") /\ p \in Callers \ {c} /\ Closing(tab[p]) = <<>>
  /\ Closing(tab[c]) # <<>> /\ p \notin gone
  /\ tab' = [tab EXCEPT ![p] = tab[c]]
  /\ Stored(Held(Store, tab[c]))

\* execve: what is marked close-on-exec is closed.
Exec(c) ==
  /\ Makes(c, "exec") /\ \E fd \in Fds : Handle(c, fd).cx
  /\ tab' = [tab EXCEPT ![c] = [fd \in Fds |-> IF @[fd].cx THEN NoHandle ELSE @[fd]]]
  /\ Stored(Released(Store, SelectSeq(tab[c], LAMBDA h : h.cx)))

----------------------------------------------------------------------------
(* Writing.                                                                *)

Return(c) == calls' = [calls EXCEPT ![c] = Idle]
WaitIn(c, call) == calls' = [calls EXCEPT ![c] = call]
MayWait(c, call) == ~call.h.nb /\ ~ThreadOnly(c)

Put(p, t, k) == [p EXCEPT !.buf = @ \o [i \in 1 .. k |-> t], !.wrote = @ + k]

Room(p) == CAP - Len(p.buf)
Message(p, call) == [tag |-> call.tag, at |-> p.wrote, len |-> call.n, fds |-> call.fds]
Pushed(p, call) == [p EXCEPT !.msgs = Append(@, Message(p, call))]

\* Mutant: a pipe nobody reads is written to for ever.
BrokenNever(h, p) == FALSE

\* Nobody left to read: looked for on a write end's pipe only.
Broken(h, p) == h.kind = "write" /\ p.refs <= p.count

\* An error on the way out of sendmsg closes the copies made to be sent,
\* queued or not.
SendFails(c, call, st) == Return(c) /\ Stored(Released(st, call.fds))

\* pipe_write, from where call has got to, call.n still to go; what sendmsg
\* passes is queued before the first byte.  st: the tables, copies made.
StreamPut(c, call, st) ==
  LET w == Writes(call.h)
      p == IF call.fds # <<>> /\ ~call.queued THEN Pushed(st.pipes[w], call) ELSE st.pipes[w]
      k == Min({call.n, Room(p)})
      now == [st EXCEPT !.pipes[w] = Put(p, call.tag, k)]
      left == [call EXCEPT !.n = @ - k, !.queued = TRUE, !.part = @ \/ k > 0]
  IN IF Broken(call.h, p)
     THEN Return(c) /\ pend' = pend \union {c} /\ Stored(st)
     ELSE /\ UNCHANGED pend
          /\ IF left.n = 0 THEN Return(c) /\ Stored(now)
             ELSE IF MayWait(c, call) THEN WaitIn(c, left) /\ Stored(now)
             ELSE IF left.part THEN Return(c) /\ Stored(now)
             ELSE SendFails(c, call, now)

\* A packet goes in whole.
RoomForPacket(p, n) == Room(p) >= n

\* pair_put on a packet pair.
PacketPut(c, call, st) ==
  LET w == Writes(call.h)
      p == st.pipes[w]
  IN /\ UNCHANGED pend
     /\ IF RoomForPacket(p, call.n)
        THEN /\ Return(c)
             /\ Stored([st EXCEPT !.pipes[w] =
                         Put(Pushed(p, call), call.tag, Min({call.n, Room(p)}))])
        ELSE IF call.n <= CAP /\ MayWait(c, call) THEN WaitIn(c, call) /\ Stored(st)
        ELSE SendFails(c, call, st)

EventPut(c, call) ==
  /\ pipes[call.h.in].count + call.n <= CAP       \* bound
  /\ pipes' = [pipes EXCEPT ![call.h.in].count = @ + call.n]
  /\ Return(c) /\ UNCHANGED <<socks, pend>>

WriteOn(c, call, st) ==
  IF call.h.kind = "event" THEN EventPut(c, call)
  ELSE IF st.pipes[Writes(call.h)].packets THEN PacketPut(c, call, st)
  ELSE StreamPut(c, call, st)

\* sys_write, or sendmsg with a copy of descriptor pass (0: none).
Write(c, fd, n, pass) ==
  LET h == Handle(c, fd)
      copies == IF pass = 0 THEN <<>> ELSE <<[Handle(c, pass) EXCEPT !.cx = FALSE]>>
  IN /\ "write" \in Does /\ Free(c) /\ tag < MaxTag
     /\ h.kind \in {"write", "pair", "event"}
     /\ n = 0 => h.kind = "pair" /\ pipes[h.out].packets
     /\ pass # 0 => /\ "pass" \in Does /\ h.kind = "pair" /\ copies[1].kind # "none"
                    /\ "passfull" \in Does \/ pipes[h.out].packets \/ Room(pipes[h.out]) >= n
     /\ tag' = tag + 1
     /\ WriteOn(c, [Idle EXCEPT !.op = "write", !.fd = fd, !.h = h, !.n = n,
                                !.tag = tag + 1, !.fds = copies], Held(Store, copies))
     /\ UNCHANGED <<tab, gone>>

----------------------------------------------------------------------------
(* Reading.                                                                *)

\* Something to read, or nothing left that could write it.
Readable(p) == p.buf # <<>> \/ p.count = 0

\* One packet, whole: what the read has no room for is lost.
PacketTaken(p, n) ==
  LET k == Head(p.msgs).len
  IN [p EXCEPT !.buf = SubSeq(@, k + 1, Len(@)), !.taken = @ + k, !.msgs = Tail(@)]

\* Mutant: bytes are taken as far as they go.
StreamLimitNone(p) == Len(p.buf)

\* How far a read of a stream goes: up to the next descriptors sent, and from
\* where they are, to the ones after.
StreamLimit(p) ==
  IF p.msgs = <<>> THEN Len(p.buf)
  ELSE IF Head(p.msgs).at > p.taken THEN Min({Head(p.msgs).at - p.taken, Len(p.buf)})
  ELSE IF Len(p.msgs) > 1 THEN Min({p.msgs[2].at - p.taken, Len(p.buf)})
  ELSE Len(p.buf)
StreamWhole(p) == p.msgs # <<>> /\ Head(p.msgs).at <= p.taken
StreamTaken(p, n) ==
  LET k == Min({n, StreamLimit(p)})
  IN [p EXCEPT !.buf = SubSeq(@, k + 1, Len(@)), !.taken = @ + k,
               !.msgs = IF StreamWhole(p) THEN Tail(@) ELSE @]

\* pair_take and pipe_read, once there is something or nothing can come.
\* recvmsg is given the descriptors that came; a read lets them go.
TakeFrom(c, call) ==
  LET r == call.h.in
      p == pipes[r]
      end == p.packets /\ p.msgs = <<>>
      q == IF end THEN p ELSE IF p.packets THEN PacketTaken(p, call.n) ELSE StreamTaken(p, call.n)
      came == IF Len(q.msgs) < Len(p.msgs) THEN Head(p.msgs).fds ELSE <<>>
      st == [Store EXCEPT !.pipes[r] = q]
  IN /\ Return(c)
     /\ IF call.op = "recv" /\ came # <<>> /\ RoomFor(c, Len(came))
        THEN tab' = GivenTo(c, came) /\ Stored(st)
        ELSE Stored(Released(st, came)) /\ UNCHANGED tab

EventTake(c, call) ==
  /\ \E took \in {1, pipes[call.h.in].count} :    \* EFD_SEMAPHORE, or not
       pipes' = [pipes EXCEPT ![call.h.in].count = @ - took]
  /\ Return(c) /\ UNCHANGED <<socks, tab>>

ReadOn(c, call) ==
  LET p == pipes[call.h.in]
      ready == IF call.h.kind = "event" THEN p.count > 0 ELSE Readable(p)
  IN /\ UNCHANGED pend
     /\ IF ready THEN IF call.h.kind = "event" THEN EventTake(c, call) ELSE TakeFrom(c, call)
        ELSE IF MayWait(c, call) THEN WaitIn(c, call) /\ UNCHANGED <<pipes, socks, tab>>
        ELSE Return(c) /\ UNCHANGED <<pipes, socks, tab>>

\* sys_read, or recvmsg.
Read(c, fd, n, op) ==
  LET h == Handle(c, fd)
  IN /\ Free(c) /\ h.kind \in {"read", "pair", "event"} /\ n > 0
     /\ op = "recv" => h.kind = "pair" /\ "pass" \in Does
     /\ ReadOn(c, [Idle EXCEPT !.op = op, !.fd = fd, !.h = h, !.n = n])
     /\ UNCHANGED <<gone, tag>>

----------------------------------------------------------------------------
(* AF_UNIX sockets: bind, listen, connect, accept.                         *)

Socket(c, nb, cx) ==
  LET free == {s \in 1 .. NSocks : socks[s].refs = 0}
  IN /\ Makes(c, "socket") /\ free # {} /\ RoomFor(c, 1)
     /\ May(nb, "nonblock") /\ May(cx, "exec")
     /\ socks' = [socks EXCEPT ![Min(free)] = [NoSock EXCEPT !.refs = 1]]
     /\ tab' = GivenTo(c, <<[NoHandle EXCEPT !.kind = "sock", !.in = Min(free), !.nb = nb,
                                             !.cx = cx]>>)
     /\ UNCHANGED pipes

SockOn(c, fd) == Handle(c, fd).in
IsSock(c, fd) == Handle(c, fd).kind = "sock"

\* bind and listen, to the one name there is here.
Bind(c, fd) ==
  /\ Makes(c, "socket") /\ IsSock(c, fd) /\ \A s \in 1 .. NSocks : ~socks[s].bound
  /\ socks' = [socks EXCEPT ![SockOn(c, fd)].bound = TRUE]
  /\ UNCHANGED <<pipes, tab>>
Listen(c, fd) ==
  /\ Makes(c, "socket") /\ IsSock(c, fd) /\ socks[SockOn(c, fd)].bound
  /\ socks' = [socks EXCEPT ![SockOn(c, fd)].listening = TRUE]
  /\ UNCHANGED <<pipes, tab>>

\* connect: the caller's socket becomes one end of a new pair, the other
\* waits at the listener.
Connect(c, fd) ==
  \E to \in {s \in 1 .. NSocks : socks[s].bound /\ socks[s].listening} :
    LET ends == PairEnds(PairSlots, Handle(c, fd).nb, FALSE)
        st == [pipes |-> PairMade(PairSlots, FALSE),
               socks |-> [socks EXCEPT ![to].queue = Append(@, ends[2])]]
    IN /\ Makes(c, "socket") /\ IsSock(c, fd) /\ Len(socks[to].queue) < BACKLOG
       /\ Cardinality(PipeSlots) >= 2
       /\ Stored(Released(st, <<Handle(c, fd)>>))
       /\ tab' = [tab EXCEPT ![c][fd] = ends[1]]

\* accept: the oldest connection, which stays where there is no room for it.
AcceptOn(c, call) ==
  LET k == call.h.in
  IN /\ UNCHANGED <<pipes, pend>>
     /\ IF socks[k].queue # <<>>
        THEN /\ Return(c)
             /\ IF RoomFor(c, 1)
                THEN /\ tab' = GivenTo(c, <<[Head(socks[k].queue) EXCEPT !.nb = FALSE]>>)
                     /\ socks' = [socks EXCEPT ![k].queue = Tail(@)]
                ELSE UNCHANGED <<tab, socks>>
        ELSE /\ IF call.h.nb THEN Return(c) ELSE WaitIn(c, call)
             /\ UNCHANGED <<tab, socks>>

Accept(c, fd) ==
  /\ "socket" \in Does /\ Free(c) /\ IsSock(c, fd) /\ socks[SockOn(c, fd)].listening
  /\ AcceptOn(c, [Idle EXCEPT !.op = "accept", !.fd = fd, !.h = Handle(c, fd)])
  /\ UNCHANGED <<gone, tag>>

----------------------------------------------------------------------------
(* Waiting, signals and ends.                                              *)

Waits(c) == c \notin gone /\ calls[c].op # "idle"

Turn(c) ==
  /\ Waits(c) /\ c \notin pend
  /\ CASE calls[c].op = "write"  -> WriteOn(c, calls[c], Store) /\ UNCHANGED tab
       [] calls[c].op = "accept" -> AcceptOn(c, calls[c])
       [] OTHER                  -> ReadOn(c, calls[c])
  /\ UNCHANGED <<gone, tag>>

Signal(p) ==
  /\ "signal" \in Does /\ p \notin pend /\ Waits(p)
  /\ pend' = pend \union {p}
  /\ UNCHANGED <<pipes, socks, tab, calls, gone, tag>>

\* A handler ends the wait with EINTR, or with what is done so far.
Interrupted(c) ==
  /\ c \in pend /\ c \notin gone
  /\ pend' = pend \ {c}
  /\ IF calls[c].op = "write" /\ ~calls[c].part THEN SendFails(c, calls[c], Store)
     ELSE Return(c) /\ UNCHANGED <<pipes, socks>>
  /\ UNCHANGED <<tab, gone, tag>>

\* A process ends: its threads where they are, then its descriptors.
End(c) ==
  /\ "die" \in Does /\ c \notin gone /\ (Free(c) \/ c \in pend)
  /\ "killsender" \in Does \/ calls[c].fds = <<>>
  /\ gone' = gone \union {c} /\ pend' = pend \ {c} /\ Return(c)
  /\ tab' = [tab EXCEPT ![c] = [fd \in Fds |-> NoHandle]]
  /\ Stored(Released(Store, Closing(tab[c])))
  /\ UNCHANGED tag

----------------------------------------------------------------------------
Init ==
  /\ setup \in Setups
  /\ pipes = [p \in 1 .. NPipes |-> NoPipe]
  /\ socks = [s \in 1 .. NSocks |-> NoSock]
  /\ tab = [p \in Callers |-> [fd \in Fds |-> NoHandle]]
  /\ calls = [c \in Callers |-> Idle]
  /\ pend = {} /\ gone = Callers \ (1 .. setup.callers) /\ tag = 0

Call(c) ==
  \/ \E nb, cx \in BOOLEAN :
       \/ Pipe2(c, nb, cx) \/ Socket(c, nb, cx)
       \/ \E packets \in BOOLEAN : SocketPair(c, packets, nb, cx)
  \/ \E mode \in {"read", "write", "pair"} : FifoOpen(c, mode)
  \/ EventFd(c, 1) \/ PairFails(c) \/ Exec(c)
  \/ \E p \in Callers : Fork(c, p)
  \/ \E fd \in Fds :
       \/ Dup(c, fd) \/ Close(c, fd)
       \/ Bind(c, fd) \/ Listen(c, fd) \/ Connect(c, fd) \/ Accept(c, fd)
       \/ \E n \in setup.Sizes, pass \in Fds \union {0} : Write(c, fd, n, pass)
       \/ \E n \in setup.Sizes, op \in {"read", "recv"} : Read(c, fd, n, op)

Steps ==
  \/ \E c \in Callers : Call(c) \/ Turn(c) \/ Interrupted(c) \/ End(c)
  \/ \E p \in Callers : Signal(p)

Next == Steps /\ UNCHANGED setup

Spec == Init /\ [][Next]_vars

\* Threads take turns, and one that waits tries again; one that is told of a
\* signal acts on it.
FairSpec ==
  Spec /\ \A c \in Callers : WF_vars(setup.fair /\ Turn(c) /\ UNCHANGED setup)
                             /\ WF_vars(setup.fair /\ Interrupted(c) /\ UNCHANGED setup)

----------------------------------------------------------------------------
(* Properties.                                                             *)

HandleSet == [kind : Kinds, in : 0 .. Max({NPipes, NSocks}), out : 0 .. NPipes,
              nb : BOOLEAN, cx : BOOLEAN]
\* The type of every variable: a ring never outgrows PIPE_CAP, and its two counters
\* are apart by what it holds.
TypeOK ==
  /\ \A p \in 1 .. NPipes :
       /\ pipes[p].refs \in Nat /\ pipes[p].count \in Nat
       /\ pipes[p].buf \in Seq(1 .. MaxTag) /\ Len(pipes[p].buf) <= CAP
       /\ pipes[p].wrote - pipes[p].taken = Len(pipes[p].buf)
  /\ \A s \in 1 .. NSocks : socks[s].refs \in Nat /\ Len(socks[s].queue) <= BACKLOG
  /\ \A p \in Callers : tab[p] \in [Fds -> HandleSet]
  /\ tag \in 0 .. MaxTag /\ pend \subseteq Callers /\ gone \subseteq Callers

\* Every descriptor there is: in a process's table, sent and not received,
\* connected and not accepted, or copied by a sendmsg still waiting to queue it.
AllHandles ==
  FlattenSeq([p \in 1 .. Cardinality(Callers) |-> tab[p]])
  \o FlattenSeq([p \in 1 .. NPipes |-> Sent(pipes[p])])
  \o FlattenSeq([s \in 1 .. NSocks |-> socks[s].queue])
  \o FlattenSeq([c \in Callers |-> IF calls[c].queued THEN <<>> ELSE calls[c].fds])
Total(Refs(_, _), handles, x) == FoldLeft(LAMBDA n, h : n + Refs(h, x), 0, handles)

\* A pipe's refs are the descriptors on either end of it and its count the
\* write ends, wherever they are, and a socket's refs the descriptors on it:
\* nothing is freed while in use nor kept once the last is closed (but for the
\* slot a pair that finds no second one is left with: PairFails).
Counted ==
  TypeOK /\ ("lastslot" \notin Does => \E all \in {AllHandles} :
    /\ \A p \in 1 .. NPipes :
         /\ pipes[p].refs = Total(PipeRefs, all, p)
         /\ pipes[p].kind = "pipe" => pipes[p].count = Total(WriteRefs, all, p)
         /\ pipes[p].refs = 0 => pipes[p] = NoPipe
    /\ \A s \in 1 .. NSocks : socks[s].refs = Total(SockRefs, all, s))

\* On a packet pair the bytes queued are those of the messages queued, each
\* whole and in order, so a read takes one message and nothing of the next.
PacketsWhole ==
  \A p \in 1 .. NPipes : pipes[p].packets =>
    pipes[p].buf = FlattenSeq([i \in DOMAIN pipes[p].msgs |->
                                [k \in 1 .. pipes[p].msgs[i].len |-> pipes[p].msgs[i].tag]])

\* On a stream, descriptors wait with the bytes they came with: the byte at
\* which they are handed out is the first of the write that sent them.
FdsWithBytes ==
  \A p \in 1 .. NPipes : ~pipes[p].packets =>
    \A i \in DOMAIN pipes[p].msgs :
      LET m == pipes[p].msgs[i]
      IN /\ m.at >= pipes[p].taken
         /\ m.at < pipes[p].wrote => pipes[p].buf[m.at - pipes[p].taken + 1] = m.tag

\* However reads and writes cut them up (pair_put, pair_take), messages keep to their bytes.
MessagesTrue == PacketsWhole /\ FdsWithBytes

NoWriter(c) ==
  setup.fair /\ Waits(c) /\ calls[c].op \in {"read", "recv"} /\ calls[c].h.kind \in {"read", "pair"}
  /\ pipes[calls[c].h.in].count = 0

ReadRefs(h, p) == IF Reads(h) = p THEN 1 ELSE 0
NoReader(c) ==
  setup.fair /\ Waits(c) /\ calls[c].op = "write" /\ calls[c].h.kind = "write" /\ Total(ReadRefs, AllHandles, Writes(calls[c].h)) = 0

\* With nobody left to write, a read that waits ends ("at its end once nothing can"),
\* and with nobody left to read a pipe, a write that waits on it ("Nobody left to read is
\* EPIPE").
WaitsEnd ==
  \A c \in Callers : (NoWriter(c) ~> ~NoWriter(c)) /\ (NoReader(c) ~> ~NoReader(c))

=============================================================================
