------------------------------- MODULE PtyMC -------------------------------
(* The terminals TLC goes through.                                         *)
EXTENDS Pty

Setup == [NPtys |-> 1, LINE |-> 3, QUEUE |-> 4, callers |-> 2, Keys |-> {}, Written |-> {},
          Counts |-> {2}, Terms |-> {}, MaxText |-> 0, MaxTyped |-> 0, MaxSent |-> 0, Does |-> {}]

\* Descriptors made and closed; a line edited; settings changed as keys come;
\* writers that fill the queue; groups signalled; ends that go away under a wait.
Some ==
  {[Setup EXCEPT !.NPtys = 2, !.Does = {"dup", "fork", "close", "unload"}],
   [Setup EXCEPT !.LINE = 4, !.QUEUE = 16, !.callers = 1, !.Counts = {16}, !.MaxTyped = 5,
                 !.Keys = {"a", "sp", "nl", "erase", "kill", "werase", "intr", "eof"}, !.Does = {"type"}],
   [Setup EXCEPT !.Keys = {"a", "cr", "intr"}, !.Counts = {4}, !.MaxTyped = 4, !.callers = 1,
                 !.Terms = {{"isig", "icanon", "echo", "icrnl"}, {"isig", "vmin0"}},
                 !.Does = {"type", "setattr", "flood"}],
   [Setup EXCEPT !.QUEUE = 2, !.Written = {"a", "sp"}, !.MaxText = 2, !.Counts = {1}, !.MaxSent = 2,
                 !.Does = {"write", "fork", "nonblock"}],
   [Setup EXCEPT !.Keys = {"a", "intr"}, !.Counts = {4}, !.MaxTyped = 2,
                 !.Does = {"type", "fork", "pgrp", "flood"}],
   [Setup EXCEPT !.QUEUE = 1, !.Keys = {"eof"}, !.Written = {"a"}, !.MaxText = 2, !.Counts = {1},
                 !.MaxTyped = 1, !.MaxSent = 1, !.Does = {"type", "flood", "write", "fork", "close"}]}
=============================================================================
