\* Prices of less and more than a unit, grains that divide neither the cap nor
\* what the amounts buy.
SPECIFICATION Spec
CONSTANTS
  Investor = {alice, bob}
  Unit = 4
  Granularity = 2
  Cap = {0, 7, 8}
  Rate = {0, 3, 6, 9}
  Value = {0, 2, 5}
  MaxTime = 2
INVARIANTS
  SaleAdds
  PriceKept
