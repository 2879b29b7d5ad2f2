\* Descriptors enough for the clients and some commands, so that numbers are
\* used again and popen can fail.
SPECIFICATION CommandFairSpec
CONSTANTS
  Clients = {c1, c2, c3}
  MaxRequests = 1
  Askers = {c1, c2}
  Torn = {c1}
  FdLimit = 7
INVARIANTS EndedEarlyOnlyByRace OnlyPipesLeak
PROPERTIES CommandsServed
CHECK_DEADLOCK FALSE
