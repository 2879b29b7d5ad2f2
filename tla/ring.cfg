\* A ring of three slots that two producers and two consumers keep filling
\* and emptying: every thread waits for each reason it can wait for.
CONSTANTS
  Producers = {p1, p2}
  Consumers = {c1, c2}
  Items = {a, b}
  NoItem = none
  MaxCap = 3
SPECIFICATION FairSpec
INVARIANTS PositionsAgree NoSlotRace
PROPERTIES RefinesFifo BothSidesProgress
