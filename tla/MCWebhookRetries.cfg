SPECIFICATION FairSpec
CONSTANTS
  Orders = {o1}
  Events = {"confirm"}
  Processes = {p1, p2}
  NoClaim = NoClaim
  MaxRetries = 3
  BackoffSteps = 2
  Lease = 2
  Window = 8
  BatchLimit = 1
  MaxFaults = 2
INVARIANTS
  TypeOK
  OneRowPerAttempt
  LeaseIsExclusive
  FailuresStayScheduled
PROPERTIES
  AcknowledgedIsSettled
  FailuresAreFollowedUp
  ImplementsNotificationLog
CHECK_DEADLOCK FALSE
