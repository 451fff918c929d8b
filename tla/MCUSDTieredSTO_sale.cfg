\* A sale in grains to an accredited and another investor, with every setting
\* changed at some time.
SPECIFICATION ChangesSpec
CONSTANTS
  alice = alice
  bob = bob
  dai = dai
  usdc = usdc
  Investor = {alice, bob}
  UsdToken = {dai}
  Unit = 4
  Granularity = 2
  TierChoices <- TierOptions
  Limit = {1, 9}
  Value = {3, 7}
  Price <- SomePrices
  MaxTime = 2
INVARIANTS
  BooksAgree
  TiersAgree
