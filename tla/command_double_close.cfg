\* Two clients that compete for a number closed twice.
SPECIFICATION CommandSpec
CONSTANTS
  Clients = {c1, c2}
  MaxRequests = 1
  Askers = {c1, c2}
  Torn = {}
  FdLimit = 6
INVARIANT EndedOnlyAfterQuit
CHECK_DEADLOCK FALSE
