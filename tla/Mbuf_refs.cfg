CONSTANTS
  Packets = {p, q}
  Clusters = {c}
  NULL = NULL
  MLEN = 3
  MHLEN = 2
  MCLBYTES = 6
  max_linkhdr = 1
  max_protohdr = 2
  MaxLength = 5
  MaxAllocs = 2
  MaxOps = 4
SPECIFICATION Spec
INVARIANT ClustersCounted
CHECK_DEADLOCK FALSE
