\* Three requests at once on a block of two ports; any call may fail.
CONSTANTS
  Port = {1, 2}
  Block = {1, 2}
  Addr = {a1, a2}
  NoAddr = noAddr
  Request = {r1, r2, r3}
  Plain = plain
  Kinds = {"add", "remove", "update", "policy", "start"}
  Failures = {"incus", "dbRead", "addRow", "delRow", "setRow", "reserve", "guest"}
SPECIFICATION Spec
SYMMETRY Symmetry
INVARIANTS
  TypeOK
  MappingServed
  GuestAddressed
PROPERTY NoLostEdit
CHECK_DEADLOCK FALSE
