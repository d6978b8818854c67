SPECIFICATION Spec
CONSTANTS
  Configs <- SolOnly
  Capacity = 1
  ReplayLimit = 2
  MaxStops = 0
  MaxFaults = 1
  NumNodes = 2
  EvmCount = 2
  Delay = 1
  Batch = 1
  WideBatch = 2
  StartBlock = 0
  Word = 16
  FirstHeight = 1
  MaxHeight = 3
  MaxLag = 1
  SolCount = 4
  SolFailing = {2}
  SolHistory = 1
  SolPage = 1
  SolMost = 3
  TronCount = 3
  Stamp <- Pairs
  TronPage = 1
  TronPages = 2
INVARIANT SolErrorsAreRetried
CHECK_DEADLOCK FALSE
