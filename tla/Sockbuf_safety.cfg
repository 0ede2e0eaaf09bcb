SPECIFICATION MCSpec
CONSTANTS
  r1 = r1
  r2 = r2
  r3 = r3
  w1 = w1
  w2 = w2
  Readers = {r1, r2, r3}
  Calls = {"none", "waitall", "flush"}
  Sizes = {1, 3}
  Segments = {1, 2}
  Clusters = {FALSE, TRUE}
  HIWAT = 2
  MSIZE = 1
  MLEN = 3
  MCLBYTES = 2
  Timed = TRUE
  MaxBytes = 4
INVARIANTS SbCheck StreamIntact NoOverrun WaitallExclusive NoLostWakeup SendsExact RoutesCounted
SYMMETRY Symmetric
