------------------------------- MODULE TcpMC --------------------------------
(* The networks TLC goes through.                                          *)
EXTENDS Tcp

Client(host, to, bytes) == [host |-> host, serves |-> FALSE, to |-> to, bytes |-> bytes, with |-> 1, reads |-> FALSE]
Service(host, bytes, with) == [host |-> host, serves |-> TRUE, to |-> 0, bytes |-> bytes, with |-> with, reads |-> TRUE]

Setup ==
  [hosts |-> 2, SOCKETS |-> 2, RBUF |-> 4, SBUF |-> 4, WINDOW |-> 4, MSS |-> 2, TRIES |-> 3, BACKLOG |-> 1, MOD |-> 32,
   ISS |-> 31, sizes |-> {2}, looks |-> {1, 2}, fair |-> TRUE, roomy |-> TRUE, Does |-> {"close"},
   budget |-> [lose |-> 0, repeat |-> 0, overtake |-> 0, early |-> 0],
   programs |-> <<Service(2, 0, 2), Client(1, 2, 2)>>]

Reader(p) == [p EXCEPT !.reads = TRUE]

\* Segments lost, as many as the far end asks again for.
Losing == [Setup EXCEPT !.budget.lose = 2]
\* Nobody but the programs looks, at one host or at either: once a program has closed, or
\* goes on without waiting, its card and its timers are left alone.
Left == [Setup EXCEPT !.TRIES = 1, !.looks = {2}]
Alone == [Setup EXCEPT !.TRIES = 1, !.looks = {}, !.Does = {}, !.budget.lose = 1]
\* Repeated, overtaken, and sent again too early, over sequence numbers that wrap.
Mixed == [Setup EXCEPT !.MSS = 1, !.TRIES = 2, !.budget.repeat = 1, !.budget.overtake = 1]
Early == [Setup EXCEPT !.MSS = 1, !.TRIES = 2, !.budget.early = 2]
\* Little room at either end, and a reader that makes some.
Narrow == [Setup EXCEPT !.RBUF = 2, !.WINDOW = 2, !.SBUF = 2, !.MSS = 1, !.sizes = {1, 2}, !.roomy = FALSE,
                        !.programs = <<Service(2, 0, 2), Client(1, 2, 4)>>]
\* Both ends write, shut down and close.
Both == [Setup EXCEPT !.sizes = {1}, !.Does = {"close", "shutdown"}, !.programs = <<Service(2, 1, 2), Reader(Client(1, 2, 1))>>]
\* On one host, looping back.
Looped == [Setup EXCEPT !.hosts = 1, !.looks = {}, !.SOCKETS = 3, !.RBUF = 2, !.sizes = {1, 2}, !.Does = {"close", "shutdown", "hold"}, !.roomy = FALSE,
                        !.programs = <<Service(1, 1, 2), Reader(Client(1, 1, 3))>>]
\* Two that ask for a listener that lets one wait, and goes.
Queued == [Setup EXCEPT !.SOCKETS = 3, !.TRIES = 1, !.Does = {"close", "relisten"}, !.fair = FALSE,
                        !.programs = <<[Service(2, 0, 2) EXCEPT !.reads = FALSE], Client(1, 2, 0), Client(1, 2, 0)>>]
\* A signal comes while one waits.
Signalled == [Setup EXCEPT !.hosts = 1, !.looks = {}, !.SOCKETS = 3, !.Does = {"close", "signal"}, !.fair = FALSE, !.roomy = FALSE,
                           !.programs = <<Service(1, 0, 2), Client(1, 1, 2)>>]
Some == {Signalled, Losing, Left, Alone, Mixed, Early, Narrow, Both, Looped, Queued}
=============================================================================
