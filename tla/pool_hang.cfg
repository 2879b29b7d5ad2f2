SPECIFICATION IpcSpec
CONSTANTS
  N = 3
  Times = 1
  ForkMayFail = TRUE
  Hosts = {"h1"}
  Talkers = {"t1"}
  MaxLines = 1
  Letters = 1
  MaxStarts = 1
  CACHESIZE = 4
  Modes = {"w"}
  Pieces <- SmallPieces
  MaxWritten = 4
  MaxTyped = 1
  Capacity = 1
  MaxSent = 1
  Programs = {"pool"}
PROPERTIES ChildrenAllQuit
CHECK_DEADLOCK FALSE
