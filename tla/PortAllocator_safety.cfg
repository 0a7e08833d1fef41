\* An instance being provisioned while mappings of it are added and removed, and
\* it is started and deleted; calls may fail and the server may crash.
CONSTANTS
  RangeStart = 1
  RangeEnd = 2
  BlockSize = 2
  NoOp = NoOp
  Inst = {i1}
  Op = {o1, o2, o3}
  Existing = {}
  Kinds = {"provision", "add", "start", "remove", "delete"}
  Failures = {"redis", "incus", "addRow", "releaseList", "delRow"}
  MaxCrashes = 1
SPECIFICATION Spec
SYMMETRY Symmetry
INVARIANTS TypeOK HeldExclusive ReservationKept ServedOnce NoLeakedMark
PROPERTY PoolSpec
CHECK_DEADLOCK FALSE
