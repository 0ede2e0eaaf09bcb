CONSTANTS
  A = a
  B = b
  Plans <- StallPlans
  HIWAT = 2
  MSS = 1
  TCP_MAXWIN = 4
  SEQ = 16
  ISS <- MCISS
  MAXRXTSHIFT = 2
  tcprexmtthresh = 1
SPECIFICATION MCSpec
INVARIANT NoSilentStall
CHECK_DEADLOCK FALSE
