\* Two requests, StartInstance among them; Incus and Postgres calls may fail and
\* the server may crash while it holds the Redis lock.  No symmetry.
CONSTANTS
  RangeStart = 1
  RangeEnd = 2
  BlockSize = 2
  NoOp = NoOp
  Inst = {i1}
  Op = {o1, o2}
  Existing = {i1}
  Kinds = {"add", "start", "remove"}
  Failures = {"incus", "dbRead", "addRow", "delRow"}
  MaxCrashes = 1
SPECIFICATION FairSpec
PROPERTY RequestReturns
CHECK_DEADLOCK FALSE
