----------------------------- MODULE MCUSDTieredSTO -----------------------------
(* Instances of USDTieredSTO for TLC.                                      *)
EXTENDS USDTieredSTO

CONSTANTS alice, bob, dai, usdc

Tier(rate, rateDiscountPoly, tokenTotal, tokensDiscountPoly) ==
  [rate |-> rate, rateDiscountPoly |-> rateDiscountPoly,
   tokenTotal |-> tokenTotal, tokensDiscountPoly |-> tokensDiscountPoly]

\* Four units are one token, or one dollar; tokens have grains of two units, of
\* which the first tier and its discount are no multiples.
OddTiers == <<Tier(4, 3, 7, 3), Tier(6, 6, 4, 0)>>
FreeTier == <<Tier(4, 0, 4, 1)>>
TierOptions == {OddTiers, FreeTier}
OnlyOddTiers == {OddTiers}

SomePrices == [type \in FundRaiseType |->
  IF type = "ETH" THEN {4, 10} ELSE IF type = "POLY" THEN {3} ELSE {4}]

StartTerms ==
  [fundRaiseTypes |-> FundRaiseType, usdTokens |-> UsdToken,
   nonAccreditedLimitUSD |-> 9, minimumInvestmentUSD |-> 1,
   nonAccreditedLimitUSDOverride |-> [b \in Investor |-> 0],
   allowBeneficialInvestments |-> FALSE]

InitSale ==
  /\ Init
  /\ startTime = 1 /\ endTime = 2
  /\ terms = StartTerms
  /\ accredited = {alice}
  /\ barred = {}

\* How far the settings, flags and switches are from those.
Departures ==
  LET departs == {f \in DOMAIN terms : terms[f] # StartTerms[f]}
      flagged == (accredited \ {alice}) \cup ({alice} \ accredited) \cup barred
      times == {t \in {<<startTime, endTime>>} : t # <<1, 2>>}
  IN  Cardinality(departs) + Cardinality(flagged) + Cardinality(times)
      + (IF paused THEN 1 ELSE 0)

\* All actions, with one departure at a time.
ChangesNext == Next /\ (Departures <= 1)'
ChangesSpec == InitSale /\ [][ChangesNext]_vars

\* The sale alone.
SaleNext == Purchase \/ Finalize \/ Tick
SaleSpec == InitSale /\ [][SaleNext]_vars
=============================================================================
