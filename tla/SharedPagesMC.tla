--------------------------- MODULE SharedPagesMC ----------------------------
(* The programs TLC goes through; frames, and spaces, are any of their kind. *)
EXTENDS SharedPages, TLC

Alike == Permutations(Frames) \union Permutations(Spaces)

Setup == [FilePages |-> 1, Indexes |-> {}, used |-> 1, processes |-> 3, memory |-> 3, Does |-> {}]

\* Forks of forks, failing half way; a file's pages in several processes; mappings
\* laid over one another and filled a chunk at a time; a memory file.
Some ==
  {[Setup EXCEPT !.used = 2, !.Does = {"fork", "forkfails", "anon", "exec"}],
   [Setup EXCEPT !.Does = {"file", "filewrite", "fork", "unmap", "madvise"}],
   [Setup EXCEPT !.FilePages = 2, !.used = 2, !.processes = 1,
                 !.Does = {"file", "filewrite", "readfails", "unmap", "dev"}],
   [Setup EXCEPT !.Indexes = {1}, !.used = 2, !.processes = 2, !.Does = {"shm", "fork", "unmap"}]}
=============================================================================
