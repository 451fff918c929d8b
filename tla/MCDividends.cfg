\* One dividend in Ether while tokens of the ledger keep moving, with pausing and
\* the owner's emptying of the purse; or two ERC20 dividends that share a purse.
\* The shares of three tokens in a dividend of two do not come out even, batches
\* have up to two payees, the rate 3 is refused.
SPECIFICATION FamiliesSpec
CONSTANTS
  a1 = a1
  a2 = a2
  Account = {a1, a2}
  UintMax = 3
  MaxTaken = 0
  Currency = {c1}
  Rate = 2
  RateChoice = {0, 1, 3}
  Deposit = {2}
  MaxCheckpoint = 1
  MaxDividend = 2
  MaxBatch = 2
  MaxTime = 2
SYMMETRY AllSymmetric
INVARIANTS
  OnlyDustRemains
  PaidExactly
  PurseCoversAll
PROPERTIES
  ExpiredIsFinal
