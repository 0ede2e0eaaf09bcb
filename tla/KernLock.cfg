SPECIFICATION FairMCSpec
CONSTANTS
  Main = main
  Clock = clock
  Callout = callout
  SwIntr = sw_intr
  Users = {u1, u2}
  IFQ_MAXLEN = 2
  MaxHops = 1
INVARIANTS TypeOK HoldersExclude NoStrandedPacket DatagramsWhole LineDelivers RoutesFound
PROPERTY LateDrained
