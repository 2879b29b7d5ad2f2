SPECIFICATION FairSpec
CONSTANTS
  u1 = u1
  u2 = u2
  u3 = u3
  m1 = m1
  m2 = m2
  m3 = m3
  m4 = m4
  q1 = q1
  Users = {u1, u2, u3}
  Messages <- Five
  From <- Sender
  Quits = {q1}
  Workers = 2

INVARIANTS AtMostOnce
PROPERTIES ListStandsStill Delivered
CHECK_DEADLOCK FALSE
