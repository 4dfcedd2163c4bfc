SPECIFICATION FairSpec
CONSTANTS
  NThreads = 3
  NProcs = 3
  MaxPid = 2
  CallsPerYield = 2
  Cases = {{"fork", "thread", "kill", "sleep"},
           {"vfork", "exec", "kill"},
           {"fork", "thread", "exec", "keys"}}
INVARIANTS
  CarriedOn
PROPERTIES
  KillEnds
  WaitEnds
  VforkEnds
CHECK_DEADLOCK FALSE
