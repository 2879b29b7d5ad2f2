\* Two clients race for the first GetInstance, and nobody stops the pool.
CONSTANTS
  Workers = {w1}
  Clients = {c1, c2}
  Stoppers = {}
  Tasks = {t1, t2}
  NoTask = none
SPECIFICATION Spec
INVARIANTS RefusedOnlyWhenStopped
CHECK_DEADLOCK FALSE
