\* Any host, two failures or interruptions.
CONSTANTS
  Candidate <- PoolNames
  NoPass = noPass
  Down = down
  Absent = absent
  Torn = torn
  MaxFaults = 2
SPECIFICATION Spec
INVARIANTS
  TypeOK
  ConfigOpens
PROPERTY SetUpEnds
CHECK_DEADLOCK FALSE
