SPECIFICATION OSSpec
CONSTANTS
  N = 4
  Times = 2
  ForkMayFail = TRUE
  Hosts = {"h1", "h2"}
  Talkers = {"t1", "t2"}
  MaxLines = 2
  Letters = 3
  MaxStarts = 2
  CACHESIZE = 4
  Modes = {"r", "w", "a"}
  Pieces <- SmallPieces
  MaxWritten = 7
  MaxTyped = 3
  Capacity = 2
  MaxSent = 4
  Programs = {"pool", "fifo", "shm", "stdio", "keys", "pipe", "none"}
  Sons = {c1, c2, c3, c4, c5}
  Immortal = {c5}
  Passes = 2
  MaxSignals = 3
  MaxLate = 4
  Codes = {0, 1, 2}
  Errnos = {2, 13}
  Openers = {"p1", "p2"}
  Demonstrations = {"sigchld", "signals", "forks", "files", "none"}
INVARIANTS NoTaskLost PipesDeliver BytesKept NoZombieForgotten SignalsKept ToldRight
PROPERTIES ReclaimEnds OrphansQuit FatherGoesOn
CHECK_DEADLOCK FALSE
