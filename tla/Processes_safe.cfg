SPECIFICATION Spec
CONSTANTS
  NThreads = 3
  NProcs = 3
  MaxPid = 3
  CallsPerYield = 2
  Cases = {{"fork", "vfork", "exec", "kill", "keys", "nospace", "noload"},
           {"fork", "thread", "exec", "kill", "keys"},
           {"fork", "vfork", "tsh", "nofiles"},
           {"fork", "sigaction"},
           {"fork", "thread", "exec", "mtexec"},
           {"sigaction", "sigmask", "keys"}}
INVARIANTS
  TypeOK
  RunsInLive
  MemoryTrue
  ParentsTrue
  NoIgnoredDeath
CHECK_DEADLOCK FALSE
