\* The guest is switched off once; any call fails or the server crashes, once;
\* starts race the loop.
CONSTANTS
  Quota = 2
  DaysPerMonth = 2
  RetentionDays = 1
  Failures = {"probe", "count", "policy", "save", "daily", "limits", "crash"}
  MaxDay = 2
  MaxBytes = 3
  MaxCycles = 1
  MaxFaults = 1
SPECIFICATION FairSpec
INVARIANTS
  TypeOK
  ChargedAtMost
  ChartWithinMeter
  ThrottleHolds
PROPERTY QuotaEnforced
CHECK_DEADLOCK FALSE
