SPECIFICATION FairSpec
CONSTANTS
  NFds = 2
  NCallers = 2
  Setups <- Some
INVARIANTS HandlesCounted NothingLost
PROPERTIES PromptKept HangupEnds
