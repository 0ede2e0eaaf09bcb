SPECIFICATION MCSpec
CONSTANTS
  Main = main
  Clock = clock
  Callout = callout
  SwIntr = sw_intr
  Users = {u1}
  IFQ_MAXLEN = 1
  MaxHops = 0
INVARIANT LockExcludes
