SPECIFICATION FairSpec
CONSTANTS
  Setups <- Some
INVARIANTS BytesTrue SocketsTrue
PROPERTIES ReaderIsTold OrphansGo
CHECK_DEADLOCK FALSE
