SPECIFICATION FairSpec
CONSTANTS
  c1 = c1
  c2 = c2
  c3 = c3
  Clients <- ThreeClients
  MaxRequests = 1
  Askers = {c1, c2}
  Torn = {c1}
  FdLimit = 7
  gnum = 7
  PollSize = 3
  Inherited = {6}
  MuxMayFail = TRUE
INVARIANTS ReadyStaysReady EveryOpenOneWatched Survives
PROPERTIES EventsHandled
CHECK_DEADLOCK FALSE
