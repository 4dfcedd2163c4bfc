-------------------------------- MODULE FsMC --------------------------------
(* The disks TLC goes through.                                             *)
EXTENDS Fs

Setup == [Sectors |-> 12, SECTOR |-> 2, PER_SECTOR |-> 2, RECORDS |-> 4, TABLE_FIRST |-> 2, TABLE_STEP |-> 2,
          INDEX_FIRST |-> 1, CHUNK |-> 1, MOVE_RUN |-> 1, FS_LINKS |-> 1, Names |-> {"a", "b"},
          hash |-> [n \in {"a", "b", ""} |-> 1], Sizes |-> {1}, Offsets |-> {0}, Vals |-> {1},
          links |-> <<>>, Frees |-> {}, Does |-> {}, MaxPuts |-> 0]

\* A table and an index that need not grow; sectors of one byte on a disk that fills up.
Roomy == [Setup EXCEPT !.PER_SECTOR = 4, !.TABLE_FIRST = 4, !.RECORDS = 8]
Small == [Roomy EXCEPT !.SECTOR = 1, !.Sectors = 10]

\* A folder and names of which some share a hash.
Folder(base, names) ==
  [base EXCEPT !.Names = names, !.hash = [n \in names \union {""} |-> IF n \in {"a", "d/"} THEN 1 ELSE 2]]

Some ==
  {\* parts of sectors, whole ones, and gaps, in a file that moves
   [Folder(Roomy, {"a"}) EXCEPT !.Sizes = {0, 1, 3}, !.Offsets = {0, 1, 3, 5}, !.Does = {"write", "writeat"}],
   \* links, round in a circle too, and names changed
   [Roomy EXCEPT !.Sectors = 8, !.links = <<"a", "b">>, !.Does = {"write", "rename", "symlink", "remove"}],
   \* the gaps of a full disk
   [Small EXCEPT !.Sizes = {2}, !.Offsets = {2}, !.Vals = {1, 2}, !.Does = {"write", "writeat", "remove"}],
   \* modes, and a disk made smaller and larger
   [Folder(Roomy, {"a", "d/"}) EXCEPT !.Sizes = {0, 1}, !.Sectors = 6, !.Frees = {1},
      !.Does = {"write", "mkdir", "mode", "remove", "resize"}],
   \* the table and the index moved
   [Folder(Setup, {"a", "b", "d/"}) EXCEPT !.Sizes = {0}, !.Does = {"write", "remove", "mkdir"}],
   [Folder(Setup, {"a", "d/", "d/a"}) EXCEPT !.Sizes = {0}, !.Does = {"write", "remove", "mkdir", "rename"}],
   \* a write that fails, or the power going, in each place
   [Folder(Setup, {"a", "d/", "d/a"}) EXCEPT !.MaxPuts = 8, !.Does = {"write", "mkdir", "rename", "fail", "crash"}],
   [Folder(Setup, {"a", "d/", "d/a"}) EXCEPT !.Sizes = {0}, !.MaxPuts = 8,
      !.Does = {"write", "mkdir", "remove", "fail", "crash"}]}
=============================================================================
