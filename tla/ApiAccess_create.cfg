\* A client and any other callers on two connections; two failures per window.
CONSTANTS
  Conn = {q1, q2}
  Client = {c1}
  NoOne = noOne
  MaxFails = 2
  Window = 2
  MaxPolls = 1
SPECIFICATION Spec
INVARIANTS
  TypeOK
  GuessesBounded
  ReportedWhenOver
PROPERTIES
  BlockEnds
  CreateEnds
