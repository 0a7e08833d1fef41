\* What a new period does to a throttled NIC; nothing fails.
CONSTANTS
  Quota = 2
  DaysPerMonth = 2
  RetentionDays = 3
  Failures = {}
  MaxDay = 2
  MaxBytes = 3
  MaxCycles = 0
  MaxFaults = 0
SPECIFICATION FairSpec
PROPERTY ThrottleLifted
CHECK_DEADLOCK FALSE
