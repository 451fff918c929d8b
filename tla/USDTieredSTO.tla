------------------------------ MODULE USDTieredSTO ------------------------------
(***************************************************************************)
(* modules/STO/USDTiered/USDTieredSTO.sol: tokens sold in tiers at prices  *)
(* in USD, for ether, POLY (some at a discount) and stable coins.  Amounts *)
(* are decimals: Unit stands for 10 ** 18.  A call the token, a currency   *)
(* or the buyer's own minimum refuses reverts: it is a step not taken.     *)
(***************************************************************************)
EXTENDS Integers, SequencesExt, FiniteSetsExt

CONSTANTS
  Investor,
  UsdToken,          \* stable coins
  Unit, Granularity,
  TierChoices,       \* sequences of tiers the issuer may set
  Limit,             \* USD limits and minima the issuer may set
  Value,             \* amounts of a currency offered by a call
  Price,             \* what the oracles answer, of each currency
  MaxTime

ASSUME InvestorAssumption == IsFiniteSet(Investor) /\ IsFiniteSet(UsdToken)
ASSUME UnitAssumption == Unit \in Nat \ {0} /\ Granularity \in Nat \ {0}

FundRaiseType == {"ETH", "POLY", "SC"}
ASSUME PriceAssumption ==
  Price \in [FundRaiseType -> SUBSET (Nat \ {0})] /\ Price["SC"] = {Unit}

ASSUME ChoiceAssumption ==
  /\ TierChoices \subseteq Seq([rate : Nat, rateDiscountPoly : Nat,
                              tokenTotal : Nat, tokensDiscountPoly : Nat])
  /\ Limit \subseteq Nat /\ Value \subseteq Nat /\ MaxTime \in Nat

VARIABLES
  now, startTime, endTime, paused, isFinalized,
  terms,                          \* currencies and coins taken, limits, see Init
  tiers, currentTier,             \* the latter counts from 1 here
  accredited, barred,             \* flags of investors in the data store
  investorInvestedUSD, investorInvested, investorCount,
  fundsRaisedUSD, fundsRaised, stableCoinsRaised,
  finalAmountReturned, totalTokensSold,
  issued                          \* auxiliary: tokens each investor got

clock == <<now, startTime, endTime>>
flags == <<accredited, barred>>
books == <<investorInvestedUSD, investorInvested, investorCount, fundsRaisedUSD,
           fundsRaised, stableCoinsRaised, issued>>
final == <<isFinalized, finalAmountReturned, totalTokensSold>>
vars == <<clock, paused, terms, flags, tiers, currentTier, books, final>>

NewTiers(choice) ==
  [i \in DOMAIN choice |->
     [rate |-> choice[i].rate, rateDiscountPoly |-> choice[i].rateDiscountPoly,
      tokenTotal |-> choice[i].tokenTotal,
      tokensDiscountPoly |-> choice[i].tokensDiscountPoly,
      mintedTotal |-> 0, mintedDiscountPoly |-> 0,
      minted |-> [type \in FundRaiseType |-> 0]]]

ValidTiers(choice) ==
  /\ choice # <<>>
  /\ \A i \in DOMAIN choice :
       /\ choice[i].rate > 0 /\ choice[i].tokenTotal > 0
       /\ choice[i].tokensDiscountPoly <= choice[i].tokenTotal
       /\ choice[i].rateDiscountPoly <= choice[i].rate

\* After configure.
Init ==
  /\ now = 0
  /\ startTime \in 1..MaxTime /\ endTime \in (startTime + 1)..MaxTime
  /\ paused = FALSE
  /\ terms \in [fundRaiseTypes : (SUBSET FundRaiseType) \ {{}},
                usdTokens : SUBSET UsdToken,
                nonAccreditedLimitUSD : Limit, minimumInvestmentUSD : Limit,
                nonAccreditedLimitUSDOverride : [Investor -> {0}],
                allowBeneficialInvestments : {FALSE}]
  /\ \E choice \in TierChoices : ValidTiers(choice) /\ tiers = NewTiers(choice)
  /\ currentTier = 1
  /\ accredited \in SUBSET Investor /\ barred \in SUBSET Investor
  /\ investorInvestedUSD = [b \in Investor |-> 0]
  /\ investorInvested = [b \in Investor |-> [type \in FundRaiseType |-> 0]]
  /\ investorCount = 0
  /\ fundsRaisedUSD = 0
  /\ fundsRaised = [type \in FundRaiseType |-> 0]
  /\ stableCoinsRaised = [coin \in UsdToken |-> 0]
  /\ issued = [b \in Investor |-> 0]
  /\ isFinalized = FALSE
  /\ finalAmountReturned = 0
  /\ totalTokensSold = 0

-----------------------------------------------------------------------------
(* Settings, before the start or at any time.                              *)

NotStarted == now < startTime

ModifyTimes(from, to) ==
  /\ NotStarted
  /\ to > from /\ from > now
  /\ startTime' = from
  /\ endTime' = to
  /\ UNCHANGED <<now, paused, terms, flags, tiers, currentTier, books, final>>

ModifyTiers(choice) ==
  /\ NotStarted
  /\ ValidTiers(choice)
  /\ tiers' = NewTiers(choice)
  /\ UNCHANGED <<clock, paused, terms, flags, currentTier, books, final>>

TermsChanged(new) ==
  /\ terms' = new
  /\ UNCHANGED <<clock, paused, flags, tiers, currentTier, books, final>>

ModifyFunding(types) ==
  NotStarted /\ TermsChanged([terms EXCEPT !.fundRaiseTypes = types])

ModifyLimits(limit, minimum) ==
  /\ NotStarted
  /\ TermsChanged([terms EXCEPT !.nonAccreditedLimitUSD = limit,
                                !.minimumInvestmentUSD = minimum])

\* modifyAddresses, of which the stable coins matter here
ModifyUSDTokens(coins) == TermsChanged([terms EXCEPT !.usdTokens = coins])

ChangeNonAccreditedLimit(b, limit) ==
  TermsChanged([terms EXCEPT !.nonAccreditedLimitUSDOverride[b] = limit])

ChangeAllowBeneficialInvestments(allow) ==
  /\ allow # terms.allowBeneficialInvestments
  /\ TermsChanged([terms EXCEPT !.allowBeneficialInvestments = allow])

\* Investor flags, kept by the general transfer manager.
ModifyInvestorFlags(b, isAccredited, cannotBuy) ==
  /\ accredited' = IF isAccredited THEN accredited \cup {b} ELSE accredited \ {b}
  /\ barred' = IF cannotBuy THEN barred \cup {b} ELSE barred \ {b}
  /\ UNCHANGED <<clock, paused, terms, tiers, currentTier, books, final>>

SetPaused(value) ==
  /\ paused = ~value
  /\ value => now < endTime
  /\ paused' = value
  /\ UNCHANGED <<clock, terms, flags, tiers, currentTier, books, final>>

Tick ==
  /\ now < MaxTime
  /\ now' = now + 1
  /\ UNCHANGED <<startTime, endTime, paused, terms, flags, tiers, currentTier, books, final>>

-----------------------------------------------------------------------------
(* The price of a purchase: DecimalMath rounds halves up.                  *)

DecimalMul(x, y) == (x * y + Unit \div 2) \div Unit
DecimalDiv(x, y) == (x * Unit + y \div 2) \div y

Nothing == [tokens |-> 0, spentUSD |-> 0, gotoNextTier |-> FALSE]

PurchaseTier(price, remaining, investedUSD) ==
  LET wanted == DecimalDiv(investedUSD, price)
      tokens == (Min({wanted, remaining}) \div Granularity) * Granularity
  IN [tokens |-> tokens,
      spentUSD |-> Min({DecimalMul(tokens, price), investedUSD}),
      gotoNextTier |-> wanted > remaining]

\* The tier after a sale, part of it at the discount.
Sold(tier, type, tokens, discounted) ==
  [tier EXCEPT !.mintedTotal = @ + tokens, !.minted[type] = @ + tokens,
               !.mintedDiscountPoly = @ + discounted]

AtDiscount(tier, type) ==
  type = "POLY" /\ tier.tokensDiscountPoly > tier.mintedDiscountPoly

\* CalculateTier that does not look at what is left of the tier.
CalculateTierOversold(tier, type, investedUSD) ==
  LET discount == tier.tokensDiscountPoly - tier.mintedDiscountPoly
      first == IF AtDiscount(tier, type)
               THEN PurchaseTier(tier.rateDiscountPoly, discount, investedUSD)
               ELSE Nothing
      tier1 == Sold(tier, type, first.tokens, first.tokens)
      left == investedUSD - first.spentUSD
      second == IF left > 0 /\ tier1.mintedTotal < tier1.tokenTotal
                        /\ ~AtDiscount(tier1, type)
                THEN PurchaseTier(tier.rate, tier1.tokenTotal - tier1.mintedTotal, left)
                ELSE [Nothing EXCEPT !.gotoNextTier = first.gotoNextTier]
  IN [tier |-> Sold(tier1, type, second.tokens, 0),
      tokens |-> first.tokens + second.tokens,
      spentUSD |-> first.spentUSD + second.spentUSD,
      gotoNextTier |-> second.gotoNextTier]

CalculateTier(tier, type, investedUSD) ==
  LET discount == Min({tier.tokensDiscountPoly - tier.mintedDiscountPoly,
                       tier.tokenTotal - tier.mintedTotal})
      first == IF AtDiscount(tier, type)
               THEN PurchaseTier(tier.rateDiscountPoly, discount, investedUSD)
               ELSE Nothing
      tier1 == Sold(tier, type, first.tokens, first.tokens)
      left == investedUSD - first.spentUSD
      second == IF left > 0 /\ tier1.mintedTotal < tier1.tokenTotal
                        /\ ~AtDiscount(tier1, type)
                THEN PurchaseTier(tier.rate, tier1.tokenTotal - tier1.mintedTotal, left)
                ELSE [Nothing EXCEPT !.gotoNextTier = first.gotoNextTier]
  IN [tier |-> Sold(tier1, type, second.tokens, 0),
      tokens |-> first.tokens + second.tokens,
      spentUSD |-> first.spentUSD + second.spentUSD,
      gotoNextTier |-> second.gotoNextTier]

\* A discount of everything is a division by zero once a purchase gets to it.
Reverts(tier, type) == AtDiscount(tier, type) /\ tier.rateDiscountPoly = 0

\* One turn of the loop over the tiers.
BuyFromTier(S, i, type, allowedUSD) ==
  LET c == CalculateTier(S.tiers[i], type, allowedUSD - S.spentUSD) IN
  IF S.done THEN S
  ELSE IF S.tiers[i].mintedTotal >= S.tiers[i].tokenTotal
  THEN [S EXCEPT !.currentTier = i]
  ELSE IF Reverts(S.tiers[i], type) THEN [S EXCEPT !.reverted = TRUE, !.done = TRUE]
  ELSE [S EXCEPT !.tiers[i] = c.tier, !.currentTier = i,
                 !.spentUSD = @ + c.spentUSD, !.tokens = @ + c.tokens,
                 !.done = ~c.gotoNextTier]

\* The loop of _buyTokens, from the current tier to the last one.
BuyFromTiers(type, allowedUSD) ==
  LET before == [tiers |-> tiers, currentTier |-> currentTier, spentUSD |-> 0,
                 tokens |-> 0, done |-> FALSE, reverted |-> FALSE]
      turns == Len(tiers) - currentTier + 1
      after[k \in 0..turns] ==
        IF k = 0 THEN before
        ELSE BuyFromTier(after[k - 1], currentTier + k - 1, type, allowedUSD)
  IN  after[turns]

-----------------------------------------------------------------------------
(* Purchases and the end.                                                  *)

CapReached ==
  IF isFinalized THEN finalAmountReturned = 0
  ELSE Last(tiers).mintedTotal = Last(tiers).tokenTotal

IsOpen == ~isFinalized /\ startTime <= now /\ now < endTime /\ ~CapReached

InvestorLimit(b) ==
  IF terms.nonAccreditedLimitUSDOverride[b] = 0 THEN terms.nonAccreditedLimitUSD
  ELSE terms.nonAccreditedLimitUSDOverride[b]

\* What _buyTokensChecks leaves of an investment.
AllowedUSD(b, usd) ==
  IF b \in accredited THEN usd
  ELSE Min({usd, InvestorLimit(b) - investorInvestedUSD[b]})

MayBuy(b, value, usd) ==
  /\ b \notin barred
  /\ IsOpen
  /\ value > 0
  /\ usd + investorInvestedUSD[b] >= terms.minimumInvestmentUSD
  /\ b \in accredited \/ investorInvestedUSD[b] < InvestorLimit(b)

\* BookSale that counts an investor at each investment.
BookSaleRecounted(b, type, coin, S, spentValue) ==
  /\ tiers' = S.tiers
  /\ currentTier' = S.currentTier
  /\ investorInvestedUSD' = [investorInvestedUSD EXCEPT ![b] = @ + S.spentUSD]
  /\ investorCount' = IF S.spentUSD > 0 THEN investorCount + 1 ELSE investorCount
  /\ fundsRaisedUSD' = fundsRaisedUSD + S.spentUSD
  /\ investorInvested' = [investorInvested EXCEPT ![b][type] = @ + spentValue]
  /\ fundsRaised' = [fundsRaised EXCEPT ![type] = @ + spentValue]
  /\ stableCoinsRaised' = IF type = "SC"
                          THEN [stableCoinsRaised EXCEPT ![coin] = @ + spentValue]
                          ELSE stableCoinsRaised
  /\ issued' = [issued EXCEPT ![b] = @ + S.tokens]

\* What a purchase records.
BookSale(b, type, coin, S, spentValue) ==
  /\ tiers' = S.tiers
  /\ currentTier' = S.currentTier
  /\ investorInvestedUSD' = [investorInvestedUSD EXCEPT ![b] = @ + S.spentUSD]
  /\ investorCount' = IF S.spentUSD > 0 /\ investorInvestedUSD[b] = 0
                      THEN investorCount + 1 ELSE investorCount
  /\ fundsRaisedUSD' = fundsRaisedUSD + S.spentUSD
  /\ investorInvested' = [investorInvested EXCEPT ![b][type] = @ + spentValue]
  /\ fundsRaised' = [fundsRaised EXCEPT ![type] = @ + spentValue]
  /\ stableCoinsRaised' = IF type = "SC"
                          THEN [stableCoinsRaised EXCEPT ![coin] = @ + spentValue]
                          ELSE stableCoinsRaised
  /\ issued' = [issued EXCEPT ![b] = @ + S.tokens]

\* buyWithETHRateLimited, buyWithPOLYRateLimited, buyWithUSDRateLimited.  With
\* ether what is not spent is sent back, so that it cannot be more.
Buy(funder, b, value, type, coin, rate) ==
  LET usd == DecimalMul(rate, value)
      S == BuyFromTiers(type, AllowedUSD(b, usd))
      spentValue == DecimalDiv(S.spentUSD, rate)
  IN
  /\ ~paused
  /\ type \in terms.fundRaiseTypes
  /\ type = "SC" => coin \in terms.usdTokens
  /\ terms.allowBeneficialInvestments \/ funder = b
  /\ MayBuy(b, value, usd)
  /\ ~S.reverted
  /\ type = "ETH" => spentValue <= value
  /\ BookSale(b, type, coin, S, spentValue)
  /\ UNCHANGED <<clock, paused, terms, flags, final>>

\* finalize: what was not sold is issued to the treasury, in whole grains
Finalize ==
  LET unsold == SumFunction([i \in DOMAIN tiers |->
                              tiers[i].tokenTotal - tiers[i].mintedTotal])
  IN
  /\ ~isFinalized
  /\ isFinalized' = TRUE
  /\ finalAmountReturned' = (unsold \div Granularity) * Granularity
  /\ totalTokensSold' = SumFunction([i \in DOMAIN tiers |-> tiers[i].mintedTotal])
  /\ tiers' = [i \in DOMAIN tiers |-> [tiers[i] EXCEPT !.mintedTotal = tiers[i].tokenTotal]]
  /\ UNCHANGED <<clock, paused, terms, flags, currentTier, books>>

Settings ==
  \/ \E from, to \in 1..MaxTime : ModifyTimes(from, to)
  \/ \E choice \in TierChoices : ModifyTiers(choice)
  \/ \E types \in (SUBSET FundRaiseType) \ {{}} : ModifyFunding(types)
  \/ \E limit, minimum \in Limit : ModifyLimits(limit, minimum)
  \/ \E coins \in SUBSET UsdToken : ModifyUSDTokens(coins)
  \/ \E allow \in BOOLEAN : ChangeAllowBeneficialInvestments(allow)
  \/ \E b \in Investor :
       \/ \E limit \in Limit \cup {0} : ChangeNonAccreditedLimit(b, limit)
       \/ \E isAccredited, cannotBuy \in BOOLEAN :
            ModifyInvestorFlags(b, isAccredited, cannotBuy)

Purchase ==
  \E funder, b \in Investor, value \in Value, type \in FundRaiseType, coin \in UsdToken :
    \E rate \in Price[type] : Buy(funder, b, value, type, coin, rate)

Next ==
  \/ Settings
  \/ Purchase
  \/ \E value \in BOOLEAN : SetPaused(value)
  \/ Finalize
  \/ Tick

Spec == Init /\ [][Next]_vars

-----------------------------------------------------------------------------
\* The totals of the sale are the sums over its investors, in dollars and in
\* every currency and coin, and the investors counted are those who paid.
BooksAgree ==
  /\ fundsRaisedUSD = SumFunction(investorInvestedUSD)
  /\ investorCount = Cardinality({b \in Investor : investorInvestedUSD[b] > 0})
  /\ \A type \in FundRaiseType :
       fundsRaised[type] = SumFunction([b \in Investor |-> investorInvested[b][type]])
  /\ fundsRaised["SC"] = SumFunction(stableCoinsRaised)

\* No tier sells more tokens than it has, nor more at the discount than it may,
\* whichever currencies buy in which order; and investors and treasury together
\* get, in whole grains, the tokens of the tiers and never more (unless the owner
\* finalized before the start and then entered tiers anew).
TiersAgree ==
  LET Tiers == DOMAIN tiers
      total == SumFunction([i \in Tiers |-> tiers[i].tokenTotal])
      minted == SumFunction([i \in Tiers |-> SumFunction(tiers[i].minted)])
  IN
  /\ \A i \in Tiers :
       /\ tiers[i].mintedTotal <= tiers[i].tokenTotal
       /\ tiers[i].mintedDiscountPoly <= tiers[i].tokensDiscountPoly
       /\ tiers[i].mintedDiscountPoly <= tiers[i].minted["POLY"]
       /\ isFinalized \/ tiers[i].mintedTotal = SumFunction(tiers[i].minted)
  /\ SumFunction(issued) = minted
  /\ isFinalized /\ (\A i \in Tiers : tiers[i].mintedTotal = tiers[i].tokenTotal)
       => /\ totalTokensSold = minted
          /\ totalTokensSold + finalAmountReturned <= total
          /\ total - totalTokensSold - finalAmountReturned < Granularity
          /\ finalAmountReturned % Granularity = 0
  /\ \A b \in Investor : issued[b] % Granularity = 0

\* "Now, if there is any remaining USD to be invested, purchase at
\* non-discounted rate": a sale leaves a tier for the next one only when it has
\* no whole grain left.
TiersSoldInOrder ==
  \A i \in 1..(currentTier - 1) :
    tiers[i].tokenTotal - tiers[i].mintedTotal < Granularity
=============================================================================
