---------------------------- MODULE OpenFilesMC ----------------------------
EXTENDS OpenFiles

Base == [Procs |-> {"p", "q"}, first |-> "p", PROGRAM_FILES |-> 3, FIRST_FILES |-> 2, OFDS |-> 2, Mems |-> {1, 2},
         PAGE |-> 2, Names |-> {"a"}, begin |-> [n \in {"a"} |-> <<1, 1, 1>>], Sizes |-> {2}, Vals |-> {2}, MaxSize |-> 4,
         Hows |-> {"there"}, Ats |-> {1}, Seeks |-> {0, 1}, Does |-> {}, MaxCalls |-> 6]

\* Positions shared by dup, fork and passing.
Shared == [Base EXCEPT !.Does = {"openread", "dup", "fork", "send", "read", "lseek"}, !.Seeks = {1}]
\* By dup2, and through execs, closes and ends.
Marked == [Base EXCEPT !.Does = {"openread", "openwrite", "dupto", "close", "cloexec", "fork", "exec", "end", "closerange", "read"},
                       !.MaxCalls = 5, !.Hows = {"append"}]
\* A file whose name goes while it is open.
Gone == [Base EXCEPT !.Does = {"openread", "openwrite", "read", "write", "unlink", "close", "pwrite"},
                     !.Hows = {"excl", "there"}, !.OFDS = 3]
\* Memory files, opened again and passed.
InMemory == [Base EXCEPT !.Does = {"memfd", "reopen", "write", "pwrite", "lseek", "ftruncate", "send", "close", "pread"}]
\* Lengths, and names that change.
Lengths == [Base EXCEPT !.Does = {"openwrite", "write", "vectors", "lseek", "ftruncate", "pread"}, !.Sizes = {0, 1, 3},
                        !.Hows = {"trunc", "append"}]
Renamed == [Base EXCEPT !.Does = {"openwrite", "write", "truncate", "rename", "unlink", "reopen"}, !.Names = {"a", "b"},
                        !.Hows = {"create"}, !.Mems = {1}]
\* Calls that wait, and threads.
Waited == [Base EXCEPT !.Does = {"openwrite", "fork", "write", "select", "dup"}]
Threads == [Base EXCEPT !.Does = {"openwrite", "openread", "read", "select", "close", "threads", "exec", "cloexec", "wait", "openother"}]

Some == {Shared, Marked, Gone, InMemory, Lengths, Renamed, Waited, Threads}
=============================================================================
