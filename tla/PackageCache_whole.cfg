\* Three guests, of the default distribution or not; two failures or crashes.
CONSTANTS
  Warm = warm
  Installer = {i1, i2, i3}
  Name <- Names
  Server = "server"
  Required = {"server", "client"}
  Roots <- RootNames
  Base = {"libc"}
  Depends <- Needs
  Suites <- Indexes
  Failures = {"detect", "index", "fetch", "copy", "push", "crash"}
  MaxFaults = 2
SPECIFICATION Spec
INVARIANTS
  TypeOK
  PackagesWhole
  ResolvedClosed
  CompleteWhenCalm
SYMMETRY Installers
CHECK_DEADLOCK FALSE
