\* Any two requests during and after provisioning; any call may fail and the
\* server may crash.  A stop whose power call fails stands for a read; a
\* restart is a stop that writes the status running, as start does.  No symmetry:
\* liveness.
CONSTANTS
  Request = {r1, r2}
  Provisioner = provisioner
  Initial = initial
  Kinds = {"start", "stop", "reset", "delete"}
  Failures = {"allocate", "create", "boot", "ssh", "attach", "probe", "power", "passwd", "store", "status", "unmap", "destroy", "crash"}
SPECIFICATION FairSpec
INVARIANTS
  TypeOK
  NeverPromoted
  NothingLeft
  PasswordAgrees
PROPERTY ProvisionEnds
CHECK_DEADLOCK FALSE
