CONSTANTS
  A = a
  B = b
  Plans <- MCPlans
  HIWAT = 2
  MSS = 1
  TCP_MAXWIN = 4
  SEQ = 16
  ISS <- MCISS
  MAXRXTSHIFT = 2
  tcprexmtthresh = 1
SPECIFICATION FairMCSpec
INVARIANTS InWindow NoSilentStall DatagramsFindSockets
PROPERTIES ImplementsByteStream Settles
CHECK_DEADLOCK FALSE
