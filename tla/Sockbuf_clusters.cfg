SPECIFICATION FairSpec
CONSTANTS
  Readers = {r1}
  Calls = {"none", "waitall"}
  Sizes = {3}
  Segments = {1, 2}
  Clusters = {TRUE}
  HIWAT = 3
  MSIZE = 1
  MLEN = 3
  MCLBYTES = 2
  Timed = FALSE
  MaxBytes = 6
PROPERTY WaitallEnds
