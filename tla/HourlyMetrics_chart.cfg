\* Two samples an hour are due, for one and a half cores; the guest restarts once, and
\* once a call fails, a reading lacks a counter, or the server crashes.
CONSTANTS
  TicksPerHour = 2
  Interval = 1
  RetentionHours = 1
  Cores = 3
  CoreParts = 2
  Loads = {0, 3}
  MaxTick = 4
  MaxRate = 1
  MaxRestarts = 1
  MaxFailed = 1
SPECIFICATION HourlySpec
INVARIANTS
  MetricsTypeOK
  ChartConserves
  CpuWithinAllocation
CHECK_DEADLOCK FALSE
