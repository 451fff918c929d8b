\* The comment on the order of the discounted and the other tokens of a tier.
SPECIFICATION SaleSpec
CONSTANTS
  alice = alice
  bob = bob
  dai = dai
  usdc = usdc
  Investor = {alice, bob}
  UsdToken = {dai}
  Unit = 4
  Granularity = 2
  TierChoices <- OnlyOddTiers
  Limit = {1, 9}
  Value = {3, 7}
  Price <- SomePrices
  MaxTime = 2
INVARIANT
  TiersSoldInOrder
CHECK_DEADLOCK FALSE
