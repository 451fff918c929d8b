\* Two beneficiaries share deposits of up to two grains; templates without
\* periods, or with periods of half a grain, are refused.
SPECIFICATION Spec
CONSTANTS
  alice = alice
  bob = bob
  t1 = t1
  t2 = t2
  Beneficiary = {alice, bob}
  TemplateName = {t1, t2}
  Parameters <- GrainParameters
  Granularity = 2
  MaxTokens = 4
  MaxTime = 4
  MaxSchedules = 2
SYMMETRY SameRoles
INVARIANTS
  WalletIsBacked
  ArraysAgree
PROPERTY
  ReleasedIsKept
