\* One guest of the default distribution; one download of the warm-up fails.
CONSTANTS
  Warm = warm
  Installer = {i1}
  Name <- Names
  Server = "server"
  Required = {"server", "client"}
  Roots <- RootNames
  Base = {"libc"}
  Depends <- Needs
  Suites <- Indexes
  Failures = {"fetch", "copy"}
  MaxFaults = 1
SPECIFICATION Spec
INVARIANT
  PushedComplete
CHECK_DEADLOCK FALSE
