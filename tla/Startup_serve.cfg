\* Two containers are created; two calls fail or the server crashes.
\* No symmetry: liveness.
CONSTANTS
  Server = server
  Request = {r1, r2}
  Fallback <- PoolNames
  Default = "default"
  Net = {1, 2, 3}
  Bridge = {2, 3}
  Configured = 3
  Versions = 2
  Failures = {"connect", "isolate", "migrate", "lookup", "install", "createPool", "createNet", "profile", "save", "sync", "listen", "create", "crash"}
  MaxFaults = 2
SPECIFICATION FairSpec
INVARIANTS
  TypeOK
  MigratedInOrder
  WellPlaced
PROPERTY ComesUp
CHECK_DEADLOCK FALSE
