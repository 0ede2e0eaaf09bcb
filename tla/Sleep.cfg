SPECIFICATION MCSpec
CONSTANTS
  t1 = t1
  t2 = t2
  t3 = t3
  accepting = accepting
  receiving = receiving
  locking = locking
  b0 = b0
  b4 = b4
  s1 = s1
  r1 = r1
  r2 = r2
  NULL = NULL
  Threads = {t1, t2, t3}
  Channels = {accepting, receiving, locking}
  Buckets = {b0, b4}
  CHASH <- Colliding
INVARIANTS TypeOK TimersMatchSleepers
PROPERTIES TimedSleepEnds ProtocolTimersRecur  ClosedIsFreed ReadsEnd
