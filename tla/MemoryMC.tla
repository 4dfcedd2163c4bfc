------------------------------ MODULE MemoryMC ------------------------------
(* The machines TLC goes through.                                          *)
EXTENDS Memory

Machine == [Top |-> 7, RUNS |-> 3, FLOOR |-> 3, LOOSE_FILL |-> 2, LINE_PAGES |-> 2,
            Sizes |-> {1, 2}, Limits |-> {}, Does |-> {"pages", "free"}]

\* A list that overflows as a program's low pages come and go; a cache that is lent
\* pages and asked for them; buffers below a limit, with room for what is cut.
Some ==
  {[Machine EXCEPT !.Top = 8, !.RUNS = 2, !.FLOOR = 6, !.Sizes = {1, 2, 3}, !.Does = @ \union {"page"}],
   [Machine EXCEPT !.Top = 8, !.Sizes = {1, 3}, !.Does = @ \union {"lent", "table"}],
   [Machine EXCEPT !.RUNS = 3, !.Limits = {3, 6}, !.Does = @ \union {"below", "lent"}]}
=============================================================================
