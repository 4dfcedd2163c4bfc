----------------------------- MODULE ChannelsMC -----------------------------
(* The tables of pipes and sockets TLC goes through.                       *)
EXTENDS Channels

Setup == [NPipes |-> 2, NSocks |-> 0, CAP |-> 1, callers |-> 2, Sizes |-> {1}, NFds |-> 2, MaxTag |-> 0,
          fair |-> FALSE, Does |-> {}]

\* Pipes and FIFOs made, copied and closed; descriptors sent; messages of several
\* sizes; sockets that meet; ends that go away under whoever waits.
Some ==
  {[Setup EXCEPT !.NPipes = 1, !.NFds = 3, !.Does = {"pipe", "fifo", "dup", "fork", "close"}],
   [Setup EXCEPT !.NPipes = 3, !.NFds = 3, !.MaxTag = 2, !.callers = 1,
                 !.Does = {"event", "pair", "packets", "close", "write", "pass"}],
   [Setup EXCEPT !.NPipes = 3, !.NFds = 3, !.CAP = 3, !.callers = 1, !.Sizes = {1, 2}, !.MaxTag = 3,
                 !.Does = {"pair", "packets", "write", "pass", "nonblock", "lastslot"}],
   [Setup EXCEPT !.NPipes = 4, !.NSocks = 2, !.Does = {"socket", "dup", "fork", "close", "exec", "die"}],
   [Setup EXCEPT !.NPipes = 1, !.Sizes = {1, 2}, !.MaxTag = 2, !.fair = TRUE,
                 !.Does = {"pipe", "event", "fork", "close", "write", "signal"}],
   [Setup EXCEPT !.MaxTag = 2, !.Sizes = {0, 1}, !.Does = {"pair", "packets", "fork", "close", "write", "pass"}]}
=============================================================================
