---------------------------- MODULE DiskCacheMC ----------------------------
(* The disks TLC goes through.                                             *)
EXTENDS DiskCache

Setup == [DiskSectors |-> 3, LINE_SECTORS |-> 2, FIRST_ROOM |-> 1, MaxRoom |-> 2, RECENT |-> 2,
          CLOCK |-> 3, Limits |-> {0, 1, 2}, MaxRead |-> 2, TABLE_LBA |-> 1, TABLE_SECTORS |-> 2,
          Vals |-> {1, 2}, Does |-> {"cache"}]

\* A table of lines that grows and shrinks; what lines hold among writes and disk
\* errors; the filesystem's sectors over a cache; and straight on a disk that fails.
Some ==
  {[Setup EXCEPT !.DiskSectors = 7, !.RECENT = 1, !.Vals = {1}, !.Does = {"cache", "cmd", "module", "readfails"}],
   [Setup EXCEPT !.DiskSectors = 5, !.RECENT = 1, !.CLOCK = 2, !.Does = {"cache", "readfails"}],
   [Setup EXCEPT !.LINE_SECTORS = 1, !.MaxRoom = 1, !.CLOCK = 2, !.Does = {"cache", "fs"}],
   [Setup EXCEPT !.Does = {"fs", "readfails", "writefails"}]}
=============================================================================
