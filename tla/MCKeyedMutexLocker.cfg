SPECIFICATION FairSpec
CONSTANTS
  Threads = {t1, t2, t3}
  Keys = {k1, k2}
  Entries = {e1, e2, e3}
  NoEntry = NoEntry
  NoKey = NoKey
INVARIANTS
  TypeOK
  MutualExclusion
  EntryOwnership
  TokenConservation
PROPERTIES
  EveryWaiterLeaves
  ImplementsMutex
