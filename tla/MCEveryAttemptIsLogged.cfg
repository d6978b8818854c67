SPECIFICATION Spec
CONSTANTS
  Orders = {o1}
  Events = {"confirm"}
  Processes = {p1}
  NoClaim = NoClaim
  MaxRetries = 5
  BackoffSteps = 4
  Lease = 2
  Window = 4
  BatchLimit = 1
  MaxFaults = 0
INVARIANTS
  EveryAttemptIsLogged
CHECK_DEADLOCK FALSE
