SPECIFICATION Spec
CONSTANTS
  Writers = {w1}
  Sizes = {2, 4}
  Sndbufs = {4}
  Lowats = {1}
  MSIZE = 2
  MHLEN = 1
  MLEN = 2
  MCLBYTES = 4
  max_hdr = 1
  MaxCalls = 1
  MaxOpts = 0
INVARIANT DatagramsGoWhole
CHECK_DEADLOCK FALSE
