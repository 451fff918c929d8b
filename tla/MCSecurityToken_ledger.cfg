\* The ledger, and its lazy checkpoints against full copies: two accounts, two
\* checkpoints, one of them possibly taken in the middle of a transfer or batch.
SPECIFICATION LedgerSpec
CONSTANTS
  a1 = a1
  a2 = a2
  Account = {a1, a2}
  Zero = zero
  UintMax = 3
  Store = {s1}
  FirstStore = s1
  BurnModule = {a1, a2}
  Controller = {}
  Granularity = {1}
  MaxCheckpoint = 2
  MaxDue = 1
  Approvable <- NoPairs
SYMMETRY AllSymmetric
INVARIANTS
  TypeOK
  HolderCountExact
  SupplyIsBacked
  SnapshotsAddUp
PROPERTIES
  HistoryImmutable
  ImplementsSnapshots
