SPECIFICATION MCSpec
CONSTANTS
  t1 = t1
  t2 = t2
  t3 = t3
  pkt1 = pkt1
  pkt2 = pkt2
  mcl1 = mcl1
  NULL = NULL
  Threads = {t1, t2, t3}
  Kinds = {"rw", "ioctl", "alloc", "close", "socket"}
  Errors = {0, 9, 35}
  Periodic = {"pffasttimo"}
  OneShot = {t1, t2, t3}
  Period <- FastPeriod
  Boot <- FastBoot
  Delays = {1, 3}
  CanCancel = {t1, t2, t3}
  MaxLag = 2
  MaxTicks = 4
INVARIANTS OutcomeOwn NoMissedSignal NeverEarly PacketsIntact ChecksumExact HeadersSurvive
PROPERTIES ImplementsService ArmedExactly
SYMMETRY Symmetric
CHECK_DEADLOCK FALSE
