SPECIFICATION Spec
CONSTANTS
  Orders = {o1, o2}
  Transfers = {}
  Registrars = {r1, r2}
  SharedLock = TRUE
  Spellings = {USDT, usdt}
  Upper = USDT
  Amounts = {10, 11}
  Bases = {90, 94}
  MinTail = 1
  MaxTail = 1
  TailStep = 1
  NoTransfer = NoTransfer
  NoKey = NoKey
  NoOrder = NoOrder
  NotRecorded = NotRecorded
  NotMined = NotMined
  Timeout = 1
  Cooldown = 0
  LateWindow = 1
  Tolerance = 0
  MaxNow = 1
  MaxRestarts = 1
SYMMETRY Symmetry
INVARIANTS
  WatchersHaveDistinctAmounts
PROPERTIES
  QuarantineRespected
  WatchedTermsAreFixed
CHECK_DEADLOCK FALSE
