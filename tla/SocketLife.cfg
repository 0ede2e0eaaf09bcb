SPECIFICATION MCSpec
CONSTANTS
  t1 = t1
  t2 = t2
  s1 = s1
  s2 = s2
  s3 = s3
  NULL = NULL
  Threads = {t1, t2}
  Socks = {s1, s2, s3}
  MAXFDS = 3
  Backlogs = {0, 1}
  Programs <- Both
  CloseShared = FALSE
  Members = {1, 2}
  Ifs = {"sl", "lo"}
  LOIF = "lo"
  Groups = {"all", "a", "b"}
  ALLHOSTS = "all"
  IP_MAX_MEMBERSHIPS = 2
  MaxDelay = 3
INVARIANTS QueuesConsistent References NoLostWakeup GroupsReported
SYMMETRY Symmetric
