SPECIFICATION Spec
CONSTANTS
  Orders = {o1, o2}
  Transfers = {x1}
  Registrars = {r1}
  SharedLock = TRUE
  Spellings = {USDT}
  Upper = USDT
  Amounts = {10}
  Bases = {90}
  MinTail = 1
  MaxTail = 1
  TailStep = 1
  NoTransfer = NoTransfer
  NoKey = NoKey
  NoOrder = NoOrder
  NotRecorded = NotRecorded
  NotMined = NotMined
  Timeout = 1
  Cooldown = 0
  LateWindow = 1
  Tolerance = 0
  MaxNow = 2
  MaxRestarts = 0
INVARIANTS
  OneTransferOneOrder
CHECK_DEADLOCK FALSE
