-------------------------------- MODULE Tcp ---------------------------------
(* TCP of src/modules/network/stack/stack.c and the calls of socket.c that     *)
(* programs make on it: sockets with their two buffers, sequence numbers that  *)
(* wrap, a card that loses, repeats and reorders segments, timers, and a       *)
(* loopback that answers a segment before its sending has returned.            *)
(* Nothing preempts, so a call is one action up to its wait (sock_wait), which *)
(* carries on in Turn.  The state of the stacks is one record, m, and the      *)
(* functions of stack.c are operators from it to the next.                     *)
EXTENDS Integers, Sequences, FiniteSets, SequencesExt, FiniteSetsExt

CONSTANT Setups \* what may happen, and how large things are: see SetupOK

VARIABLES
  setup,  \* the one of Setups that this is, which no step changes
  m,      \* socks: each host's table; net: what is on its way to each host; next: autobind's
  calls,  \* for each program its call, its descriptors and what it has been told
  budget  \* how often more a segment may be lost, repeated or overtaken, a timer be early

vars == <<setup, m, calls, budget>>

Hosts == 1 .. setup.hosts
Slots == 1 .. setup.SOCKETS
Programs == DOMAIN setup.programs
HostOf(c) == setup.programs[c].host
Serves(c) == setup.programs[c].serves
RBUF == setup.RBUF
SBUF == setup.SBUF
WINDOW == setup.WINDOW
MSS == setup.MSS
TRIES == setup.TRIES
MOD == setup.MOD      \* 2^32 in the code
Does == setup.Does

SetupOK(s) ==
  /\ {s.hosts, s.SOCKETS, s.RBUF, s.SBUF, s.WINDOW, s.MSS, s.TRIES, s.BACKLOG} \subseteq Nat \ {0}
  /\ \A c \in DOMAIN s.programs : s.programs[c].host \in 1 .. s.hosts /\ s.programs[c].bytes \in Nat
  /\ s.MOD > 2 * (s.SBUF + s.RBUF + 2) /\ s.ISS \in 0 .. s.MOD - 1
  /\ s.looks \subseteq 1 .. s.hosts
  /\ s.Does \subseteq {"shutdown", "close", "signal", "hold", "relisten"}
ASSUME SetupsAssumption == \A s \in Setups : SetupOK(s)

----------------------------------------------------------------------------
(* Sockets                                                                 *)

Nobody == [host |-> 0, port |-> 0]
NoSock ==
  [used |-> FALSE, refs |-> 0, state |-> "CLOSED", error |-> "", parent |-> 0, backlog |-> 0,
   tries |-> 0, dups |-> 0, loop |-> FALSE, fin_in |-> FALSE, fin_out |-> FALSE, fin_sent |-> FALSE,
   port |-> 0, peer |-> Nobody, in |-> <<>>, out |-> <<>>, snd_una |-> 0, snd_nxt |-> 0, snd_wnd |-> 0,
   rcv_nxt |-> 0, timer |-> FALSE,
   by |-> 0]  \* the program that connected or accepted it, which is not in the code

Sock(x, h, s) == x.socks[h][s]
With(x, h, s, k) == [x EXCEPT !.socks[h][s] = k]
Taken(x, h) == {s \in Slots : Sock(x, h, s).used}
\* sock_new takes the first slot that is free; 0 if none is.
FreeSlot(x, h) == IF Taken(x, h) = Slots THEN 0 ELSE Min(Slots \ Taken(x, h))

PortTaken(x, h, port) == \E s \in Slots : Sock(x, h, s).port = port /\ Sock(x, h, s).parent = 0
\* autobind: the next port, past those that are taken, unless it has one.
Autobind(x, h, s) ==
  IF Sock(x, h, s).port # 0 THEN x
  ELSE LET p == Min({q \in x.next[h] .. x.next[h] + Cardinality(Slots) : ~PortTaken(x, h, q)})
       IN [With(x, h, s, [Sock(x, h, s) EXCEPT !.port = p]) EXCEPT !.next[h] = p + 1]

----------------------------------------------------------------------------
(* Segments                                                                *)

Diff(a, b) == (a - b) % MOD
Plus(a, n) == (a + n) % MOD
\* seq_lt: the difference, as a signed number, is below nought.
Lt(a, b) == Diff(a, b) >= MOD \div 2

Window(k) == Min({RBUF - Len(k.in), WINDOW})

\* What is sent over the card is on its way; what is looped back has been taken in, and
\* answered, before the call that sends it returns (ip_out).
RECURSIVE Input(_, _, _)
Out(x, to, g) == IF g.loop THEN Input(x, to, g) ELSE [x EXCEPT !.net[to] = Append(@, g)]

TcpSend(x, h, s, fl, seq, data) ==
  LET k == Sock(x, h, s)
  IN Out(x, k.peer.host, [src |-> h, sport |-> k.port, dport |-> k.peer.port, seq |-> seq, ack |-> k.rcv_nxt,
                          fl |-> fl, win |-> Window(k), data |-> data, loop |-> k.loop])

Ack(x, h, s) == TcpSend(x, h, s, {"ACK"}, Sock(x, h, s).snd_nxt, <<>>)

\* tcp_refuse: a reset for a segment g nothing wanted.
Refuse(x, h, g) ==
  LET after == Plus(g.seq, Len(g.data) + Cardinality(g.fl \intersect {"SYN", "FIN"}))
  IN Out(x, g.src, [src |-> h, sport |-> g.dport, dport |-> g.sport,
                    seq |-> IF "ACK" \in g.fl THEN g.ack ELSE 0, ack |-> IF "ACK" \in g.fl THEN 0 ELSE after,
                    fl |-> IF "ACK" \in g.fl THEN {"RST"} ELSE {"RST", "ACK"},
                    win |-> 0, data |-> <<>>, loop |-> g.loop])

\* tcp_closed: with no program left to hold it, it is free.
Closed(x, h, s, err) ==
  LET k == Sock(x, h, s)
  IN With(x, h, s, IF k.refs = 0 THEN NoSock
                   ELSE [k EXCEPT !.state = "CLOSED", !.timer = FALSE, !.error = IF @ = "" THEN err ELSE @])

Synchronised == {"SYN_RCVD", "ESTABLISHED", "FIN_WAIT1", "FIN_WAIT2", "CLOSE_WAIT", "CLOSING", "LAST_ACK"}
Abort(x, h, s, err) ==
  LET k == Sock(x, h, s)
      y == IF k.state \in Synchronised THEN TcpSend(x, h, s, {"RST", "ACK"}, k.snd_nxt, <<>>) ELSE x
  IN Closed(y, h, s, err)

\* tcp_push: what the window allows, then the FIN, then the acknowledgement if nothing
\* carried it; the socket looked at afresh after each segment.
RECURSIVE Push(_, _, _, _)
Push(x, h, s, ack) ==
  LET k == Sock(x, h, s)
      sent == Diff(k.snd_nxt, k.snd_una)
      n == Min({Len(k.out) - sent, MSS, Max({k.snd_wnd - sent, 0})})
      sends == k.used /\ ~k.fin_sent /\ k.state \in {"ESTABLISHED", "CLOSE_WAIT", "FIN_WAIT1", "CLOSING", "LAST_ACK"}
      data == [k EXCEPT !.snd_nxt = Plus(@, n), !.timer = TRUE]
      fin == [k EXCEPT !.snd_nxt = Plus(@, 1), !.fin_sent = TRUE, !.timer = TRUE,
                       !.state = CASE @ = "ESTABLISHED" -> "FIN_WAIT1" [] @ = "CLOSE_WAIT" -> "LAST_ACK" [] OTHER -> @]
  IN IF sends /\ n > 0
       THEN Push(TcpSend(With(x, h, s, data), h, s, {"ACK", "PSH"}, k.snd_nxt, SubSeq(k.out, sent + 1, sent + n)), h, s, FALSE)
     ELSE IF sends /\ k.fin_out /\ sent = Len(k.out)
       THEN TcpSend(With(x, h, s, fin), h, s, {"FIN", "ACK"}, k.snd_nxt, <<>>)
     ELSE IF ack /\ k.used /\ k.state # "CLOSED" THEN Ack(x, h, s) ELSE x

\* tcp_timeout
Timeout(x, h, s) ==
  LET k == Sock(x, h, s)
      again == With(x, h, s, [k EXCEPT !.tries = @ + 1])
      back == [k EXCEPT !.tries = @ + 1, !.snd_nxt = k.snd_una, !.fin_sent = FALSE, !.snd_wnd = Max({@, 1})]
  IN CASE k.state = "FIN_WAIT2" -> Closed(x, h, s, "")
       [] k.state # "FIN_WAIT2" /\ k.tries + 1 > TRIES -> Abort(again, h, s, "ETIMEDOUT")
       [] OTHER -> CASE k.state = "SYN_SENT" -> TcpSend(again, h, s, {"SYN"}, k.snd_una, <<>>)
                     [] k.state = "SYN_RCVD" -> TcpSend(again, h, s, {"SYN", "ACK"}, k.snd_una, <<>>)
                     [] OTHER -> Push(With(x, h, s, back), h, s, FALSE)

----------------------------------------------------------------------------
(* tcp_input                                                               *)

\* tcp_find: the connection it is for, or the last that listens at its port; 0 if none.
TcpFind(x, h, g) ==
  LET at == {s \in Slots : Sock(x, h, s).used /\ Sock(x, h, s).port = g.dport /\ Sock(x, h, s).state # "CLOSED"}
      mine == {s \in at : Sock(x, h, s).state # "LISTEN" /\ Sock(x, h, s).peer = [host |-> g.src, port |-> g.sport]}
      listen == {s \in at : Sock(x, h, s).state = "LISTEN"}
  IN IF mine # {} THEN Min(mine) ELSE IF listen # {} THEN Max(listen) ELSE 0

Waiting(x, h, l) == {s \in Slots : Sock(x, h, s).used /\ Sock(x, h, s).parent = l}
\* Mutant: nobody counts those that wait.
MayOfferAny(x, h, l) == FreeSlot(x, h) # 0
MayOffer(x, h, l) == Cardinality(Waiting(x, h, l)) < Sock(x, h, l).backlog /\ FreeSlot(x, h) # 0

\* tcp_offer: one that finds no room is not answered: it will ask again.
Offer(x, h, l, g) ==
  LET s == FreeSlot(x, h)
      k == [NoSock EXCEPT !.used = TRUE, !.state = "SYN_RCVD", !.parent = l, !.port = Sock(x, h, l).port,
              !.peer = [host |-> g.src, port |-> g.sport], !.rcv_nxt = Plus(g.seq, 1), !.snd_una = setup.ISS,
              !.snd_nxt = Plus(setup.ISS, 1), !.snd_wnd = g.win, !.loop = g.loop, !.timer = TRUE]
  IN IF ~MayOffer(x, h, l) THEN x ELSE TcpSend(With(x, h, s, k), h, s, {"SYN", "ACK"}, setup.ISS, <<>>)

\* Mutant: what was had already is not trimmed off.
TrimmedNot(k, g) == [data |-> g.data, fin |-> "FIN" \in g.fl, ack |-> g.data # <<>> \/ "FIN" \in g.fl]
\* Only what comes next is taken: what was had is trimmed off, what is ahead dropped.
Trimmed(k, g) ==
  LET had == IF Lt(g.seq, k.rcv_nxt) THEN Diff(k.rcv_nxt, g.seq) ELSE 0
      skip == Min({had, Len(g.data)})
      next == Plus(g.seq, skip) = k.rcv_nxt
  IN IF g.data = <<>> /\ "FIN" \notin g.fl THEN [data |-> <<>>, fin |-> FALSE, ack |-> FALSE]
     ELSE [data |-> IF next THEN SubSeq(g.data, skip + 1, Len(g.data)) ELSE <<>>,
           fin |-> "FIN" \in g.fl /\ next /\ had <= Len(g.data), ack |-> had > 0 \/ ~next]
\* Mutant: nothing limits the wait for the far end's FIN.
AckedNoTimer(k, ack) ==
  [k EXCEPT !.out = SubSeq(@, Min({Diff(ack, k.snd_una), Len(@)}) + 1, Len(@)), !.snd_una = ack, !.tries = 0, !.dups = 0,
            !.timer = ack # k.snd_nxt, !.state = IF k.fin_sent /\ ack = k.snd_nxt /\ @ = "FIN_WAIT1" THEN "FIN_WAIT2" ELSE @]
\* An acknowledgement of something new: what it covers is let go.
Acked(k, ack) ==
  LET n == Diff(ack, k.snd_una)
      all == ack = k.snd_nxt
  IN [k EXCEPT !.out = SubSeq(@, Min({n, Len(@)}) + 1, Len(@)), !.snd_una = ack, !.tries = 0, !.dups = 0,
               !.timer = ~all \/ (k.fin_sent /\ k.state = "FIN_WAIT1" /\ k.refs = 0),
               !.state = IF k.fin_sent /\ all /\ @ = "FIN_WAIT1" THEN "FIN_WAIT2" ELSE @]
Over(k, ack) == k.fin_sent /\ ack = k.snd_nxt /\ k.state \in {"LAST_ACK", "CLOSING"}

\* One of nothing new, with nothing in it, while something is on its way: the third in
\* a row says the first of that went missing.
Again(k, g, t) ==
  LET dup == g.ack = k.snd_una /\ t.data = <<>> /\ ~t.fin /\ k.snd_nxt # k.snd_una
  IN IF ~dup THEN k
     ELSE IF k.dups + 1 # 3 THEN [k EXCEPT !.dups = @ + 1]
     ELSE [k EXCEPT !.dups = 3, !.snd_nxt = k.snd_una, !.fin_sent = FALSE]

\* The rest of it: the window, the data there is room for, the FIN.
Receive(x, h, s, k, g, t) ==
  LET takes == k.state \in {"ESTABLISHED", "FIN_WAIT1", "FIN_WAIT2"}
      n == IF takes THEN Min({RBUF - Len(k.in), Len(t.data)}) ELSE 0
      fin == t.fin /\ ~k.fin_in /\ (takes => n = Len(t.data))
      r == [k EXCEPT !.snd_wnd = g.win, !.in = @ \o SubSeq(t.data, 1, n), !.fin_in = @ \/ fin,
                     !.rcv_nxt = Plus(@, n + IF fin THEN 1 ELSE 0),
                     !.state = CASE fin /\ @ = "ESTABLISHED" -> "CLOSE_WAIT"
                                 [] fin /\ @ = "FIN_WAIT1" -> "CLOSING" [] OTHER -> @]
      y == With(x, h, s, r)
  IN IF fin /\ k.state = "FIN_WAIT2" THEN Closed(Ack(y, h, s), h, s, "")
     ELSE Push(y, h, s, t.ack \/ fin \/ (takes /\ t.data # <<>>))

\* A segment for a connection both ends know of.
Segment(x, h, s, g) ==
  LET k == Sock(x, h, s)
      t == Trimmed(k, g)
      new == Lt(k.snd_una, g.ack) /\ ~Lt(k.snd_nxt, g.ack)
  IN CASE "ACK" \notin g.fl -> x
       [] "ACK" \in g.fl /\ k.state = "SYN_RCVD" ->
            IF g.ack # k.snd_nxt THEN Refuse(x, h, g)
            ELSE Receive(x, h, s, [k EXCEPT !.snd_una = g.ack, !.state = "ESTABLISHED", !.timer = FALSE, !.tries = 0], g, t)
       [] "ACK" \in g.fl /\ k.state # "SYN_RCVD" ->
            CASE new /\ Over(k, g.ack) -> Closed(x, h, s, "")
              [] new /\ ~Over(k, g.ack) -> Receive(x, h, s, Acked(k, g.ack), g, t)
              [] ~new /\ Lt(k.snd_nxt, g.ack) -> Ack(x, h, s)
              [] OTHER -> Receive(x, h, s, Again(k, g, t), g, t)

\* One for a connection that was asked for from here.
Answer(x, h, s, g) ==
  LET k == Sock(x, h, s)
      up == [k EXCEPT !.rcv_nxt = Plus(g.seq, 1), !.snd_una = g.ack, !.snd_wnd = g.win, !.state = "ESTABLISHED",
                      !.timer = FALSE, !.tries = 0]
  IN CASE "ACK" \in g.fl /\ g.ack # k.snd_nxt -> Refuse(x, h, g)
       [] "ACK" \in g.fl /\ g.ack = k.snd_nxt /\ "SYN" \in g.fl -> Push(With(x, h, s, up), h, s, TRUE)
       [] OTHER -> x

Input(x, h, g) ==
  LET s == TcpFind(x, h, g)
      k == Sock(x, h, s)
      rst == "RST" \in g.fl
  IN CASE s = 0 -> IF rst THEN x ELSE Refuse(x, h, g)
       [] s # 0 /\ k.state = "LISTEN" ->
            IF rst THEN x ELSE IF "ACK" \in g.fl THEN Refuse(x, h, g)
            ELSE IF "SYN" \in g.fl THEN Offer(x, h, s, g) ELSE x
       [] s # 0 /\ k.state # "LISTEN" /\ rst ->
            IF k.state # "SYN_SENT" THEN Closed(x, h, s, "ECONNRESET")
            ELSE IF "ACK" \in g.fl /\ g.ack = k.snd_nxt THEN Closed(x, h, s, "ECONNREFUSED") ELSE x
       [] s # 0 /\ k.state = "SYN_SENT" /\ ~rst -> Answer(x, h, s, g)
       [] s # 0 /\ k.state \in Synchronised /\ ~rst ->
            IF "SYN" \in g.fl
            THEN IF k.state = "SYN_RCVD" THEN TcpSend(x, h, s, {"SYN", "ACK"}, k.snd_una, <<>>) ELSE Ack(x, h, s)
            ELSE Segment(x, h, s, g)

----------------------------------------------------------------------------
(* The stack's calls                                                       *)

\* op_drop, of the last descriptor.  What no program holds any more stays until the far
\* end has seen it closed.
Dropped(x, h, s) ==
  LET k == Sock(x, h, s)
      alone == With(x, h, s, [k EXCEPT !.refs = 0])
      aborted == FoldLeft(LAMBDA y, c : Abort(y, h, c, ""), alone, SetToSortSeq(Waiting(x, h, s), <))
      left == CASE k.state = "LISTEN" -> With(aborted, h, s, NoSock)
                [] k.state \in {"ESTABLISHED", "CLOSE_WAIT"} ->
                     IF k.in # <<>> THEN Abort(alone, h, s, "")
                     ELSE Push(With(x, h, s, [k EXCEPT !.refs = 0, !.fin_out = TRUE]), h, s, FALSE)
                [] k.state \in {"SYN_SENT", "CLOSED"} -> With(x, h, s, NoSock)
                [] OTHER -> alone
  IN IF Sock(left, h, s).state # "FIN_WAIT2" THEN left
     ELSE With(left, h, s, [Sock(left, h, s) EXCEPT !.timer = TRUE])
Drop(x, h, s) ==
  LET k == Sock(x, h, s)
  IN IF k.refs > 1 THEN With(x, h, s, [k EXCEPT !.refs = @ - 1]) ELSE Dropped(x, h, s)

\* op_ready
Ready(x, h, s) ==
  LET k == Sock(x, h, s)
      flag(name, b) == IF b THEN {name} ELSE {}
  IN IF k.state = "LISTEN"
     THEN flag("IN", \E c \in Waiting(x, h, s) : Sock(x, h, c).state # "SYN_RCVD")
     ELSE flag("IN", k.in # <<>> \/ k.fin_in \/ k.error # "" \/ k.state = "CLOSED")
          \union flag("OUT", k.state \in {"ESTABLISHED", "CLOSE_WAIT"} /\ Len(k.out) < SBUF /\ ~k.fin_out)
          \union flag("ERR", k.error # "") \union flag("HUP", k.state = "CLOSED")

\* tcp_write: how many of data's bytes it took, or the error.
TcpWrite(x, h, s, data) ==
  LET k == Sock(x, h, s)
      n == Min({SBUF - Len(k.out), Len(data)})
      fails(err) == [m |-> With(x, h, s, [k EXCEPT !.error = ""]), n |-> 0, err |-> err]
  IN CASE k.state \notin {"ESTABLISHED", "CLOSE_WAIT"} ->
            fails(CASE k.error # "" -> k.error [] k.error = "" /\ k.state = "SYN_SENT" -> "EAGAIN" [] OTHER -> "EPIPE")
       [] k.state \in {"ESTABLISHED", "CLOSE_WAIT"} /\ k.fin_out -> [m |-> x, n |-> 0, err |-> "EPIPE"]
       [] OTHER -> IF n = 0 THEN [m |-> x, n |-> 0, err |-> "EAGAIN"]
                   ELSE [m |-> Push(With(x, h, s, [k EXCEPT !.out = @ \o SubSeq(data, 1, n)]), h, s, FALSE), n |-> n, err |-> ""]

\* Mutant: it is not said.
SaysNot(was, n) == FALSE
\* Room made where there was little: said, or the far end waits on a window it thinks
\* is shut.
Says(was, n) == (was < MSS /\ was + n >= MSS) \/ (was < RBUF \div 2 /\ was + n >= RBUF \div 2)

\* tcp_read of up to size bytes.
TcpRead(x, h, s, size) ==
  LET k == Sock(x, h, s)
      n == Min({size, Len(k.in)})
      y == With(x, h, s, [k EXCEPT !.in = SubSeq(@, n + 1, Len(@))])
  IN CASE n > 0 -> [m |-> IF Says(RBUF - Len(k.in), n) THEN Ack(y, h, s) ELSE y, data |-> SubSeq(k.in, 1, n), err |-> ""]
       [] n = 0 /\ k.error # "" -> [m |-> With(x, h, s, [k EXCEPT !.error = ""]), data |-> <<>>, err |-> k.error]
       [] n = 0 /\ k.error = "" -> [m |-> x, data |-> <<>>,
            err |-> CASE k.fin_in \/ (k.state = "CLOSED" /\ k.peer # Nobody) -> "eof"
                      [] ~k.fin_in /\ k.state = "CLOSED" /\ k.peer = Nobody -> "ENOTCONN" [] OTHER -> "EAGAIN"]

----------------------------------------------------------------------------
(* Programs                                                                *)

NoCall == [at |-> "", fd |-> 0, lfd |-> 0, left |-> 0, some |-> FALSE, wrote |-> 0, got |-> <<>>, told |-> "", sig |-> FALSE, ended |-> FALSE]

\* A send or an accept goes round again after a wait that a signal has ended, and so
\* does not wait: its thread does not yield, and nothing else there runs.
Spins(c) == calls[c].sig /\ calls[c].at \in {"accept", "send"}
Runs(c) == \A d \in Programs \ {c} : Spins(d) => HostOf(d) # HostOf(c)
Free(c) == calls[c].at = "" /\ Runs(c)
Mine(c) == Sock(m, HostOf(c), calls[c].fd)
Server == 1 \* the port served

Told(c, told) == [calls[c] EXCEPT !.told = IF @ = "" THEN told ELSE @]

Socket(c) ==
  LET s == FreeSlot(m, HostOf(c))
  IN /\ Free(c) /\ calls[c].fd = 0 /\ calls[c].lfd = 0 /\ ~calls[c].ended /\ s # 0
     /\ m' = With(m, HostOf(c), s, [NoSock EXCEPT !.used = TRUE, !.refs = 1])
     /\ calls' = [calls EXCEPT ![c] = IF Serves(c) THEN [@ EXCEPT !.lfd = s] ELSE [@ EXCEPT !.fd = s]]
     /\ UNCHANGED budget

Bind(c) ==
  LET k == Sock(m, HostOf(c), calls[c].lfd)
  IN /\ Free(c) /\ calls[c].lfd # 0 /\ k.port = 0 /\ ~PortTaken(m, HostOf(c), Server)
     /\ m' = With(m, HostOf(c), calls[c].lfd, [k EXCEPT !.port = Server])
     /\ UNCHANGED <<calls, budget>>

Listen(c) ==
  LET k == Sock(m, HostOf(c), calls[c].lfd)
  IN /\ Free(c) /\ calls[c].lfd # 0 /\ k.port # 0 /\ k.state = "CLOSED"
     /\ m' = With(m, HostOf(c), calls[c].lfd, [k EXCEPT !.state = "LISTEN", !.backlog = setup.BACKLOG])
     /\ UNCHANGED <<calls, budget>>

Connect(c) ==
  LET h == HostOf(c)
      to == setup.programs[c].to
      k == [Mine(c) EXCEPT !.loop = to = h, !.peer = [host |-> to, port |-> Server], !.error = "", !.state = "SYN_SENT",
                           !.snd_una = setup.ISS, !.snd_nxt = Plus(setup.ISS, 1), !.timer = TRUE, !.by = c]
      x == Autobind(With(m, h, calls[c].fd, k), h, calls[c].fd)
  IN /\ Free(c) /\ ~Serves(c) /\ calls[c].fd # 0 /\ Mine(c).state = "CLOSED" /\ Mine(c).peer = Nobody
     /\ m' = TcpSend(x, h, calls[c].fd, {"SYN"}, setup.ISS, <<>>)
     /\ calls' = [calls EXCEPT ![c].at = "connect"]
     /\ UNCHANGED budget

\* connect's wait is over: it answers with the error there is, and clears it.
ConnectTurn(c) ==
  LET h == HostOf(c)
      s == calls[c].fd
  IN /\ calls[c].at = "connect" /\ Runs(c)
     /\ Ready(m, h, s) \intersect {"OUT", "ERR", "HUP"} # {} \/ calls[c].sig
     /\ m' = With(m, h, s, [Mine(c) EXCEPT !.error = ""])
     /\ calls' = [calls EXCEPT ![c] = [Told(c, Mine(c).error) EXCEPT !.at = "", !.sig = FALSE]]
     /\ UNCHANGED budget

Accept(c) ==
  /\ Free(c) /\ calls[c].lfd # 0 /\ Sock(m, HostOf(c), calls[c].lfd).state = "LISTEN" /\ calls[c].fd = 0 /\ ~calls[c].ended
  /\ calls' = [calls EXCEPT ![c].at = "accept"]
  /\ UNCHANGED <<m, budget>>

\* op_accept: the first that is past its handshake.
AcceptTurn(c) ==
  LET h == HostOf(c)
      there == {s \in Waiting(m, h, calls[c].lfd) : Sock(m, h, s).state # "SYN_RCVD"}
      s == Min(there)
  IN /\ calls[c].at = "accept" /\ Runs(c) /\ there # {}
     /\ m' = With(m, h, s, [Sock(m, h, s) EXCEPT !.parent = 0, !.refs = 1, !.by = c])
     /\ calls' = [calls EXCEPT ![c].at = "", ![c].fd = s, ![c].sig = FALSE]
     /\ UNCHANGED budget

Send(c, n) ==
  /\ Free(c) /\ calls[c].fd # 0 /\ Mine(c).peer # Nobody /\ calls[c].wrote + n <= setup.programs[c].bytes /\ calls[c].told = ""
  /\ calls' = [calls EXCEPT ![c].at = "send", ![c].left = n]
  /\ UNCHANGED <<m, budget>>

\* A stream goes a piece at a time, waiting for room between, until all of it has; an
\* error after some has gone is not told, and is forgotten.
SendTurn(c) ==
  LET call == calls[c]
      r == TcpWrite(m, HostOf(c), call.fd, [i \in 1 .. call.left |-> <<c, call.wrote + i>>])
      over == r.n = call.left \/ r.err # ""
  IN /\ call.at = "send" /\ Runs(c) /\ r.err # "EAGAIN"
     /\ m' = r.m
     /\ calls' = [calls EXCEPT ![c] = [Told(c, IF call.some THEN "" ELSE r.err) EXCEPT !.wrote = @ + r.n, !.some = ~over,
                    !.left = IF over THEN 0 ELSE @ - r.n, !.at = IF over THEN "" ELSE @, !.sig = @ /\ ~over]]
     /\ UNCHANGED budget

Recv(c) ==
  /\ Free(c) /\ setup.programs[c].reads /\ calls[c].fd # 0 /\ Mine(c).peer # Nobody /\ calls[c].told = ""
  /\ calls' = [calls EXCEPT ![c].at = "recv"]
  /\ UNCHANGED <<m, budget>>

RecvTurn(c, size) ==
  LET h == HostOf(c)
      r == TcpRead(m, h, calls[c].fd, size)
  IN /\ calls[c].at = "recv" /\ Runs(c)
     /\ Ready(m, h, calls[c].fd) \intersect {"IN", "ERR", "HUP"} # {} \/ calls[c].sig
     /\ m' = r.m
     /\ calls' = [calls EXCEPT ![c] = [Told(c, IF r.err = "EAGAIN" THEN "" ELSE r.err) EXCEPT
                    !.at = "", !.got = @ \o r.data, !.sig = FALSE]]
     /\ UNCHANGED budget

Shutdown(c) ==
  /\ "shutdown" \in Does /\ Free(c) /\ calls[c].fd # 0 /\ Mine(c).state \in {"ESTABLISHED", "CLOSE_WAIT"} /\ ~Mine(c).fin_out
  /\ m' = Push(With(m, HostOf(c), calls[c].fd, [Mine(c) EXCEPT !.fin_out = TRUE]), HostOf(c), calls[c].fd, FALSE)
  /\ UNCHANGED <<calls, budget>>

\* dup or fork: one descriptor more, which a close then is of.
Hold(c) ==
  /\ "hold" \in Does /\ Free(c) /\ calls[c].fd # 0 /\ Mine(c).refs = 1
  /\ m' = With(m, HostOf(c), calls[c].fd, [Mine(c) EXCEPT !.refs = @ + 1])
  /\ UNCHANGED <<calls, budget>>

Close(c) ==
  /\ "close" \in Does /\ Free(c) /\ calls[c].fd # 0
  /\ m' = Drop(m, HostOf(c), calls[c].fd)
  /\ calls' = IF Mine(c).refs > 1 THEN calls ELSE [calls EXCEPT ![c].fd = 0, ![c].ended = TRUE]
  /\ UNCHANGED budget

CloseListener(c) ==
  /\ "relisten" \in Does /\ Free(c) /\ calls[c].lfd # 0
  /\ m' = Drop(m, HostOf(c), calls[c].lfd)
  /\ calls' = [calls EXCEPT ![c].lfd = 0]
  /\ UNCHANGED budget

\* A signal with a handler comes while it waits.
Signal(c) ==
  /\ "signal" \in Does /\ calls[c].at # "" /\ ~calls[c].sig
  /\ calls' = [calls EXCEPT ![c].sig = TRUE]
  /\ UNCHANGED <<m, budget>>

----------------------------------------------------------------------------
(* The card and the clock                                                  *)

\* There is no interrupt and no thread: a card and the timers are looked at only in
\* net_poll, which the waits of this module's programs call, and those of others there
\* (setup.looks: hosts where some program goes on asking after a socket of its own).
\* Besides, a call may look once, and a close does for a moment: so both may happen at
\* any time, but nothing says they do on a host where nobody looks.
Looks(h) == h \in setup.looks \/ \E c \in Programs : HostOf(c) = h /\ calls[c].at # ""

\* net_poll: the next segment is taken in.
Deliver(h) ==
  /\ m.net[h] # <<>>
  /\ m' = Input([m EXCEPT !.net[h] = Tail(@)], h, Head(m.net[h]))
  /\ UNCHANGED <<calls, budget>>

Lose(h) ==
  /\ m.net[h] # <<>> /\ budget.lose > 0
  /\ m' = [m EXCEPT !.net[h] = Tail(@)]
  /\ budget' = [budget EXCEPT !.lose = @ - 1]
  /\ UNCHANGED calls

\* It comes again behind what has been sent since, and at once; or is overtaken.
Repeat(h) ==
  /\ m.net[h] # <<>> /\ budget.repeat > 0
  /\ m' = [m EXCEPT !.net[h] = Append(@, Head(@))]
  /\ budget' = [budget EXCEPT !.repeat = @ - 1]
  /\ UNCHANGED calls

Overtaken(h) ==
  /\ Len(m.net[h]) > 1 /\ budget.overtake > 0
  /\ m' = [m EXCEPT !.net[h] = Append(Tail(@), Head(@))]
  /\ budget' = [budget EXCEPT !.overtake = @ - 1]
  /\ UNCHANGED calls

\* tcp_timers: one runs out when nothing is on its way any more, other than to a card
\* nobody looks at, or, so often, before.
Quiet == \A h \in Hosts : Looks(h) => m.net[h] = <<>>
Timer(h, s) ==
  /\ Sock(m, h, s).used /\ Sock(m, h, s).timer /\ (Quiet \/ budget.early > 0)
  /\ m' = Timeout(m, h, s)
  /\ budget' = IF Quiet THEN budget ELSE [budget EXCEPT !.early = @ - 1]
  /\ UNCHANGED calls

----------------------------------------------------------------------------
Init ==
  /\ setup \in Setups
  /\ m = [socks |-> [h \in Hosts |-> [s \in Slots |-> NoSock]], net |-> [h \in Hosts |-> <<>>], next |-> [h \in Hosts |-> Server + 1]]
  /\ calls = [c \in Programs |-> NoCall]
  /\ budget = setup.budget

Steps ==
  \/ \E c \in Programs :
       \/ Socket(c) \/ Bind(c) \/ Listen(c) \/ Connect(c) \/ Accept(c) \/ Recv(c)
       \/ Shutdown(c) \/ Hold(c) \/ Close(c) \/ CloseListener(c) \/ Signal(c)
       \/ ConnectTurn(c) \/ AcceptTurn(c) \/ SendTurn(c)
       \/ \E n \in setup.sizes : Send(c, n) \/ RecvTurn(c, n)
  \/ \E h \in Hosts : Deliver(h) \/ Lose(h) \/ Repeat(h) \/ Overtaken(h) \/ \E s \in Slots : Timer(h, s)

Next == Steps /\ UNCHANGED setup
Spec == Init /\ [][Next]_vars

\* When a wait can end: each of these is ENABLED of the step below it, which is dear to
\* work out, so weak fairness is written out as what it stands for.
CanTurn(c) ==
  /\ c \in Programs /\ calls[c].at # "" /\ Runs(c)
  /\ LET want == CASE calls[c].at \in {"connect", "send"} -> "OUT" [] OTHER -> "IN"
         s == IF calls[c].at = "accept" THEN calls[c].lfd ELSE calls[c].fd
     IN \/ Ready(m, HostOf(c), s) \intersect {want, "ERR", "HUP"} # {}
        \/ calls[c].sig /\ calls[c].at \in {"connect", "recv"}
        \/ calls[c].at = "send" /\ (Mine(c).fin_out \/ Mine(c).state \notin {"SYN_SENT", "ESTABLISHED", "CLOSE_WAIT"})
CanDeliver(h) == h \in Hosts /\ Looks(h) /\ m.net[h] # <<>>
CanTime(h, s) ==
  h \in Hosts /\ s \in Slots /\ Looks(h) /\ Sock(m, h, s).used /\ Sock(m, h, s).timer /\ (Quiet \/ budget.early > 0)

\* A step of each kind, told by what it alone changes.
Turned(c) == c \in Programs /\ calls[c].at # "" /\ <<calls'[c].at, calls'[c].left>> # <<calls[c].at, calls[c].left>>
Delivered(h) == h \in Hosts /\ Len(m'.net[h]) < Len(m.net[h]) /\ budget' = budget
Timed(h, s) ==
  /\ h \in Hosts /\ s \in Slots /\ Sock(m, h, s).timer /\ calls' = calls /\ \A g \in Hosts : Len(m'.net[g]) >= Len(m.net[g])
  /\ LET k == m'.socks[h][s] IN k.tries # Sock(m, h, s).tries \/ ~k.timer

\* A program that waits is given turns, and each turn polls its own host's card and
\* timers: no others are.
FairSpec ==
  /\ Spec
  /\ \A c \in 1 .. 3 : []<>(~CanTurn(c)) \/ []<><<Turned(c)>>_vars
  /\ \A h \in 1 .. 2 : []<>(~CanDeliver(h)) \/ []<><<Delivered(h)>>_vars
  /\ \A h \in 1 .. 2, s \in 1 .. 3 : []<>(~CanTime(h, s)) \/ []<><<Timed(h, s)>>_vars

----------------------------------------------------------------------------
(* Properties.                                                             *)

\* The far end of a connection, by its address; 0 if it has none any more.
FarEnd(h, s) ==
  LET k == Sock(m, h, s)
      ends == {t \in Taken(m, k.peer.host) :
                 LET f == Sock(m, k.peer.host, t) IN f.port = k.peer.port /\ f.peer = [host |-> h, port |-> k.port]}
  IN IF k.peer = Nobody \/ ends = {} THEN 0 ELSE Min(ends)

Wrote(c) == IF c = 0 THEN <<>> ELSE [i \in 1 .. calls[c].wrote |-> <<c, i>>]

\* No byte is lost, repeated or out of order, whatever happens to segments: what was
\* read, what waits to be read and what the far end still keeps past that make up what
\* was written there; and nothing is let go of before it is had.
StreamTrue ==
  \A c \in Programs : calls[c].fd # 0 /\ FarEnd(HostOf(c), calls[c].fd) # 0 /\ Mine(c).state \in Synchronised \ {"SYN_RCVD"} =>
    LET far == Sock(m, Mine(c).peer.host, FarEnd(HostOf(c), calls[c].fd))
        ahead == Diff(Mine(c).rcv_nxt, far.snd_una)
    IN far.state \in Synchronised /\ far.state # "SYN_RCVD" =>
         calls[c].got \o Mine(c).in \o SubSeq(far.out, ahead + 1, Len(far.out)) = Wrote(far.by)

Partner(c) == setup.programs[c].with
\* A program told its stream has ended was given all that was written to it.
EndTrue == \A c \in Programs : calls[c].told = "eof" => calls[c].got = Wrote(Partner(c))

\* What tcp_input takes in, acknowledges and hands to tcp_read is the far program's
\* stream, to its end.
BytesTrue == StreamTrue /\ EndTrue

\* No more connections wait at a listener than it said may, each with that listener
\* there; and a socket no program has is one the stack still has use for.
SocketsTrue ==
  \A h \in Hosts : \A s \in Taken(m, h) :
    LET k == Sock(m, h, s)
    IN /\ k.state = "LISTEN" => Cardinality(Waiting(m, h, s)) <= k.backlog
       /\ k.parent # 0 => k.refs = 0 /\ Sock(m, h, k.parent).state = "LISTEN"
       /\ k.refs = 0 => k.state \in Synchronised
       /\ k.refs > 0 => \E c \in Programs : HostOf(c) = h /\ s \in {calls[c].fd, calls[c].lfd}
       /\ Diff(k.snd_nxt, k.snd_una) <= Len(k.out) + 1

\* A reader whose far end has something for it, or has closed, is told: as long as
\* something looks at the far end's card, without which it sends nothing again and has
\* no acknowledgement.  Its own card the reader looks at itself.
Due(c) ==
  /\ calls[c].at = "recv" /\ setup.fair /\ Looks(Mine(c).peer.host)
  /\ LET t == FarEnd(HostOf(c), calls[c].fd)
         far == Sock(m, Mine(c).peer.host, t)
     IN t # 0 /\ (far.out # <<>> \/ far.fin_out)
ReaderIsTold == \A c \in 1 .. 3 : c \in Programs /\ Due(c) ~> ~(c \in Programs /\ Due(c))

\* A socket that no program holds any more is freed, whether or not anybody looks at the
\* far end's card, as long as something looks at its own, where its timers are, and no
\* window is ever shut (setup.roomy: nothing has a timer while it waits for a window).
Orphan(h, s) ==
  h \in Hosts /\ s \in Slots /\ setup.roomy /\ Looks(h) /\ Sock(m, h, s).used /\ Sock(m, h, s).refs = 0 /\ Sock(m, h, s).parent = 0
OrphansGo == \A h \in 1 .. 2, s \in 1 .. 3 : Orphan(h, s) ~> ~Orphan(h, s)
=============================================================================
