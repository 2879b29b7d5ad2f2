\* Two clients race for the first GetInstance, and one of them stops the pool
\* that two workers serve.
CONSTANTS
  Workers = {w1, w2}
  Clients = {c1, c2}
  Stoppers = {c1}
  Tasks = {t1, t2, t3}
  NoTask = none
SPECIFICATION FairSpec
INVARIANTS WorkKeepsAWorkerAwake OneInstance
PROPERTIES RefinesTaskPool EveryPushRuns StopEndsWorkers
CHECK_DEADLOCK FALSE
