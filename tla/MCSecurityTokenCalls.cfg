\* Every call, two stores and two granularities: a1 authorises a2, which may be
\* a BURN module and the controller.
SPECIFICATION SpecC
CONSTANTS
  a1 = a1
  a2 = a2
  a3 = a3
  Account = {a1, a2}
  Zero = zero
  Issuer = issuer
  UintMax = 3
  Store = {s1, s2}
  FirstStore = s1
  BurnModule = {a2}
  Controller = {a2}
  Granularity = {1, 2}
  MaxCheckpoint = 0
  MaxDue = 0
  Approvable <- Rights
INVARIANTS
  HoldersListed
PROPERTIES
  HaltedForAll
  OnlyByConsent
  AllowanceIsSpent
