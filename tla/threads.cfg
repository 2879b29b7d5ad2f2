SPECIFICATION ThreadsSpec
CONSTANTS
  Producers = {p1, p2}
  Consumers = {c1, c2}
  Items = {a, b}
  NoItem = none
  MaxCap = 2
  First = p1
  Total = 3
  Seconds = 2
  MaxClock = 3
  MaxPval = 103
  Words = {"hi", "QUIT"}
  MaxTyped = 2
  MaxMail = 2
  MaxEmpty = 2
  Programs = {"queue", "tickets", "cond", "log", "demo", "chatclient"}
INVARIANTS NoLostWakeup SoldAndJoined LinesTruthful
PROPERTIES RefinesFifo NeitherSideSleepsOn EveryWaiterWakes
CHECK_DEADLOCK FALSE
