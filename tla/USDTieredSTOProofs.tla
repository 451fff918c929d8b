--------------------------- MODULE USDTieredSTOProofs ---------------------------
(***************************************************************************)
(* Theorems about the tiered offering, for any tiers, prices, units,       *)
(* grains, limits and investors: its books are the sums over its investors *)
(* and no tier sells more than it has.  The loop over the tiers is followed *)
(* by what every turn of it keeps.                                         *)
(***************************************************************************)
EXTENDS USDTieredSTO, SharedLemmas

Tier == [rate : Nat \ {0}, rateDiscountPoly : Nat,
         tokenTotal : Nat \ {0}, tokensDiscountPoly : Nat,
         mintedTotal : Nat, mintedDiscountPoly : Nat,
         minted : [FundRaiseType -> Nat]]

\* No more is sold than there is.
InBounds(tier) ==
  /\ tier.mintedTotal <= tier.tokenTotal
  /\ tier.mintedDiscountPoly <= tier.tokensDiscountPoly
  /\ tier.mintedDiscountPoly <= tier.minted["POLY"]

OpenTier == {tier \in Tier : /\ InBounds(tier)
                             /\ tier.mintedTotal = SumFunction(tier.minted)}

Minted(ts) == SumFunction([i \in DOMAIN ts |-> SumFunction(ts[i].minted)])

-----------------------------------------------------------------------------
(* The price of a purchase.                                                *)

LEMMA Numbers ==
  /\ Unit \in Nat \ {0} /\ Granularity \in Nat \ {0}
  /\ IsFiniteSet(Investor) /\ IsFiniteSet(UsdToken) /\ IsFiniteSet(FundRaiseType)
  /\ Limit \subseteq Nat /\ Value \subseteq Nat /\ MaxTime \in Nat
<1>1. FundRaiseType = (({} \cup {"ETH"}) \cup {"POLY"}) \cup {"SC"}
  BY DEF FundRaiseType
<1>2. IsFiniteSet(FundRaiseType) BY <1>1, FS_EmptySet, FS_AddElement
<1>3. Limit \subseteq Nat /\ Value \subseteq Nat /\ MaxTime \in Nat
  BY ChoiceAssumption
<1>4. QED BY <1>2, <1>3, UnitAssumption, InvestorAssumption

LEMMA DecimalsAreNumbers ==
  ASSUME NEW x \in Nat, NEW y \in Nat
  PROVE  /\ DecimalMul(x, y) \in Nat
         /\ y # 0 => DecimalDiv(x, y) \in Nat
<1>1. x * y \in Nat /\ x * Unit \in Nat BY Numbers
<1>2. Unit \div 2 \in Nat /\ y \div 2 \in Nat BY Numbers
<1> DEFINE a == x * y + Unit \div 2
           b == x * Unit + y \div 2
<1>3. a \in Nat /\ b \in Nat BY <1>1, <1>2
<1> HIDE DEF a, b
<1>4. a \div Unit \in Nat BY <1>3, Numbers, DivisionBelow
<1>5. y # 0 => b \div y \in Nat BY <1>3, DivisionBelow
<1>6. QED BY <1>4, <1>5 DEF DecimalMul, DecimalDiv, a, b

\* A purchase is in whole grains, of what remains, for what is invested.
LEMMA PurchaseInBounds ==
  ASSUME NEW price \in Nat \ {0}, NEW remaining \in Nat, NEW investedUSD \in Nat
  PROVE  LET p == PurchaseTier(price, remaining, investedUSD) IN
         /\ p.tokens \in Nat /\ p.tokens <= remaining
         /\ p.tokens % Granularity = 0
         /\ p.spentUSD \in Nat /\ p.spentUSD <= investedUSD
         /\ p.gotoNextTier \in BOOLEAN
<1> DEFINE wanted == DecimalDiv(investedUSD, price)
           least == Min({wanted, remaining})
           tokens == (least \div Granularity) * Granularity
           cost == DecimalMul(tokens, price)
           p == PurchaseTier(price, remaining, investedUSD)
<1>1. wanted \in Nat BY DecimalsAreNumbers
<1> HIDE DEF wanted
<1>2. least \in Nat /\ least <= remaining BY <1>1, MinBelow
<1> HIDE DEF least
<1>3. /\ least \div Granularity \in Nat
      /\ tokens <= least
  BY <1>2, Numbers, DivisionBelow
<1>4. tokens \in Nat BY <1>3, Numbers
<1>5. tokens % Granularity = 0 BY <1>3, Numbers, WholeGrains
<1> HIDE DEF tokens
<1>6. cost \in Nat BY <1>4, DecimalsAreNumbers
<1> HIDE DEF cost
<1>7. Min({cost, investedUSD}) \in Nat /\ Min({cost, investedUSD}) <= investedUSD
  BY <1>6, MinBelow
<1>8. /\ p.tokens = tokens
      /\ p.spentUSD = Min({cost, investedUSD})
      /\ p.gotoNextTier \in BOOLEAN
  BY DEF PurchaseTier, cost, tokens, least, wanted
<1>9. QED BY <1>2, <1>3, <1>4, <1>5, <1>7, <1>8

\* A sale adds its tokens to the tier.
LEMMA SoldAdds ==
  ASSUME NEW tier \in Tier, NEW type \in FundRaiseType,
         NEW tokens \in Nat, NEW discounted \in Nat
  PROVE  LET sold == Sold(tier, type, tokens, discounted) IN
         /\ sold \in Tier
         /\ sold.mintedTotal = tier.mintedTotal + tokens
         /\ sold.mintedDiscountPoly = tier.mintedDiscountPoly + discounted
         /\ sold.minted["POLY"] = IF type = "POLY" THEN tier.minted["POLY"] + tokens
                                  ELSE tier.minted["POLY"]
         /\ sold.rate = tier.rate /\ sold.rateDiscountPoly = tier.rateDiscountPoly
         /\ sold.tokenTotal = tier.tokenTotal
         /\ sold.tokensDiscountPoly = tier.tokensDiscountPoly
         /\ SumFunction(sold.minted) = SumFunction(tier.minted) + tokens
<1> DEFINE sold == Sold(tier, type, tokens, discounted)
<1>1. tier.minted \in [FundRaiseType -> Nat] /\ tier.mintedTotal \in Nat
      /\ tier.mintedDiscountPoly \in Nat
  BY DEF Tier
<1>2. "POLY" \in FundRaiseType BY DEF FundRaiseType
<1>3. sold.minted = [tier.minted EXCEPT ![type] = @ + tokens]
  BY DEF Sold, Tier
<1>4. sold.minted \in [FundRaiseType -> Nat] BY <1>1, <1>3
<1>5. /\ sold.mintedTotal = tier.mintedTotal + tokens
      /\ sold.mintedDiscountPoly = tier.mintedDiscountPoly + discounted
      /\ sold.rate = tier.rate /\ sold.rateDiscountPoly = tier.rateDiscountPoly
      /\ sold.tokenTotal = tier.tokenTotal
      /\ sold.tokensDiscountPoly = tier.tokensDiscountPoly
  BY DEF Sold, Tier
<1>6. sold \in Tier
  <2>1. /\ tier.mintedTotal + tokens \in Nat
        /\ tier.mintedDiscountPoly + discounted \in Nat
        /\ [tier.minted EXCEPT ![type] = @ + tokens] \in [FundRaiseType -> Nat]
    BY <1>1, <1>3, <1>4
  <2>2. QED BY <2>1 DEF Sold, Tier
<1>7. SumFunction(sold.minted) = SumFunction(tier.minted) + tokens
  <2>1. /\ sold.minted[type] = tier.minted[type] + tokens
        /\ \A x \in FundRaiseType \ {type} : sold.minted[x] = tier.minted[x]
        /\ \A x \in FundRaiseType : tier.minted[x] \in Int
    BY <1>1, <1>3
  <2>2. DOMAIN sold.minted = FundRaiseType /\ DOMAIN tier.minted = FundRaiseType
    BY <1>1, <1>4
  <2> HIDE DEF sold
  <2>3. QED BY <2>1, <2>2, Numbers, SumChange DEF SumFunction
<1>8. sold.minted["POLY"] = IF type = "POLY" THEN tier.minted["POLY"] + tokens
                            ELSE tier.minted["POLY"]
  BY <1>1, <1>2, <1>3
<1> HIDE DEF sold
<1>9. QED BY <1>5, <1>6, <1>7, <1>8 DEF sold

\* What a purchase takes of a tier keeps the tier within its bounds.
LEMMA TierIsKept ==
  ASSUME NEW tier \in OpenTier, NEW type \in FundRaiseType,
         NEW investedUSD \in Nat, ~Reverts(tier, type)
  PROVE  LET c == CalculateTier(tier, type, investedUSD) IN
         /\ c.tier \in OpenTier
         /\ c.tokens \in Nat /\ c.tokens % Granularity = 0
         /\ SumFunction(c.tier.minted) = SumFunction(tier.minted) + c.tokens
         /\ c.spentUSD \in Nat /\ c.spentUSD <= investedUSD
         /\ c.gotoNextTier \in BOOLEAN
         /\ c.tier.tokenTotal = tier.tokenTotal
<1> DEFINE discount == Min({tier.tokensDiscountPoly - tier.mintedDiscountPoly,
                            tier.tokenTotal - tier.mintedTotal})
           first == IF AtDiscount(tier, type)
                    THEN PurchaseTier(tier.rateDiscountPoly, discount, investedUSD)
                    ELSE Nothing
           tier1 == Sold(tier, type, first.tokens, first.tokens)
           left == investedUSD - first.spentUSD
           buysMore == left > 0 /\ tier1.mintedTotal < tier1.tokenTotal
                         /\ ~AtDiscount(tier1, type)
           second == IF buysMore
                     THEN PurchaseTier(tier.rate, tier1.tokenTotal - tier1.mintedTotal,
                                       left)
                     ELSE [Nothing EXCEPT !.gotoNextTier = first.gotoNextTier]
           tier2 == Sold(tier1, type, second.tokens, 0)
           c == CalculateTier(tier, type, investedUSD)
<1>1. /\ tier \in Tier /\ InBounds(tier)
      /\ tier.mintedTotal = SumFunction(tier.minted)
      /\ tier.rate \in Nat \ {0} /\ tier.rateDiscountPoly \in Nat
      /\ tier.tokenTotal \in Nat /\ tier.tokensDiscountPoly \in Nat
      /\ tier.mintedTotal \in Nat /\ tier.mintedDiscountPoly \in Nat
      /\ tier.minted["POLY"] \in Nat
  <2>1. "POLY" \in FundRaiseType BY DEF FundRaiseType
  <2>2. QED BY <2>1 DEF OpenTier, Tier
<1>2. 0 % Granularity = 0 BY Numbers
<1>3. /\ discount \in Nat
      /\ discount <= tier.tokensDiscountPoly - tier.mintedDiscountPoly
      /\ discount <= tier.tokenTotal - tier.mintedTotal
  <2>1. /\ tier.tokensDiscountPoly - tier.mintedDiscountPoly \in Nat
        /\ tier.tokenTotal - tier.mintedTotal \in Nat
    BY <1>1 DEF InBounds
  <2>2. QED BY <2>1, MinBelow
<1> HIDE DEF discount
<1>4. /\ first.tokens \in Nat /\ first.tokens <= discount
      /\ first.tokens % Granularity = 0
      /\ first.spentUSD \in Nat /\ first.spentUSD <= investedUSD
      /\ first.gotoNextTier \in BOOLEAN
      /\ type # "POLY" => first.tokens = 0
  <2>1. CASE AtDiscount(tier, type)
    <3>1. tier.rateDiscountPoly \in Nat \ {0} BY <1>1, <2>1 DEF Reverts
    <3>2. type = "POLY" BY <2>1 DEF AtDiscount
    <3>3. first = PurchaseTier(tier.rateDiscountPoly, discount, investedUSD)
      BY <2>1
    <3> HIDE DEF first
    <3>4. QED BY <1>3, <3>1, <3>2, <3>3, PurchaseInBounds
  <2>2. CASE ~AtDiscount(tier, type)
    BY <1>2, <1>3, <2>2 DEF Nothing
  <2>3. QED BY <2>1, <2>2
<1> HIDE DEF first
<1>5. /\ tier1 \in Tier
      /\ tier1.mintedTotal = tier.mintedTotal + first.tokens
      /\ tier1.mintedDiscountPoly = tier.mintedDiscountPoly + first.tokens
      /\ tier1.minted["POLY"] = IF type = "POLY"
                                THEN tier.minted["POLY"] + first.tokens
                                ELSE tier.minted["POLY"]
      /\ tier1.tokenTotal = tier.tokenTotal
      /\ tier1.tokensDiscountPoly = tier.tokensDiscountPoly
      /\ SumFunction(tier1.minted) = SumFunction(tier.minted) + first.tokens
  <2>1. tier \in Tier /\ first.tokens \in Nat BY <1>1, <1>4
  <2>2. QED BY <2>1, SoldAdds
<1> HIDE DEF tier1
<1>6. left \in Nat /\ left <= investedUSD /\ first.spentUSD + left = investedUSD
  BY <1>4
<1> HIDE DEF left
<1>7. tier1.tokenTotal - tier1.mintedTotal \in Nat
  BY <1>1, <1>3, <1>4, <1>5
<1>8. /\ second.tokens \in Nat
      /\ second.tokens <= tier1.tokenTotal - tier1.mintedTotal
      /\ second.tokens % Granularity = 0
      /\ second.spentUSD \in Nat /\ second.spentUSD <= left
      /\ second.gotoNextTier \in BOOLEAN
  <2>1. CASE buysMore
    <3>1. second = PurchaseTier(tier.rate, tier1.tokenTotal - tier1.mintedTotal, left)
      BY <2>1
    <3> HIDE DEF second
    <3>2. QED BY <1>1, <1>6, <1>7, <3>1, PurchaseInBounds, ZenonT(60)
  <2>2. CASE ~buysMore
    <3>1. second = [Nothing EXCEPT !.gotoNextTier = first.gotoNextTier] BY <2>2
    <3> HIDE DEF second
    <3>2. second.tokens = 0 /\ second.spentUSD = 0
          /\ second.gotoNextTier = first.gotoNextTier
      BY <3>1 DEF Nothing
    <3>3. QED BY <1>2, <1>4, <1>6, <1>7, <3>2
  <2>3. QED BY <2>1, <2>2
<1> HIDE DEF second
<1>9. /\ tier2 \in Tier
      /\ tier2.mintedTotal = tier1.mintedTotal + second.tokens
      /\ tier2.mintedDiscountPoly = tier1.mintedDiscountPoly + 0
      /\ tier2.minted["POLY"] = IF type = "POLY"
                                THEN tier1.minted["POLY"] + second.tokens
                                ELSE tier1.minted["POLY"]
      /\ tier2.tokenTotal = tier1.tokenTotal
      /\ tier2.tokensDiscountPoly = tier1.tokensDiscountPoly
      /\ SumFunction(tier2.minted) = SumFunction(tier1.minted) + second.tokens
  BY <1>5, <1>8, SoldAdds
<1> HIDE DEF tier2
<1>10. /\ c.tier = tier2
       /\ c.tokens = first.tokens + second.tokens
       /\ c.spentUSD = first.spentUSD + second.spentUSD
       /\ c.gotoNextTier = second.gotoNextTier
  BY DEF CalculateTier, tier2, second, left, tier1, first, discount
<1> HIDE DEF c
<1>11. InBounds(tier2)
  BY <1>1, <1>3, <1>4, <1>5, <1>7, <1>8, <1>9 DEF InBounds
<1>12. tier2.mintedTotal = SumFunction(tier2.minted)
  BY <1>1, <1>4, <1>5, <1>8, <1>9
<1>13. c.tier \in OpenTier BY <1>9, <1>10, <1>11, <1>12 DEF OpenTier
<1>14. SumFunction(c.tier.minted) = SumFunction(tier.minted) + c.tokens
  BY <1>1, <1>4, <1>5, <1>8, <1>9, <1>10
<1>15. c.tokens \in Nat /\ c.tokens % Granularity = 0
  BY <1>4, <1>8, <1>10, Numbers, GrainsAdd
<1>16. c.spentUSD \in Nat /\ c.spentUSD <= investedUSD
  BY <1>4, <1>6, <1>8, <1>10
<1>17. QED
  BY <1>5, <1>8, <1>9, <1>10, <1>13, <1>14, <1>15, <1>16 DEF c

-----------------------------------------------------------------------------
(* The loop over the tiers.                                                *)

\* What a loop on the tiers that allows to spend so much may have got to.
Selling(allowedUSD) ==
  {S \in [tiers : [1..Len(tiers) -> OpenTier], currentTier : 1..Len(tiers),
          spentUSD : Nat, tokens : Nat, done : BOOLEAN, reverted : BOOLEAN] :
     /\ S.spentUSD <= allowedUSD
     /\ S.tokens % Granularity = 0
     /\ Minted(S.tiers) = Minted(tiers) + S.tokens}

OpenTiers ==
  /\ Len(tiers) \in Nat \ {0}
  /\ tiers \in [1..Len(tiers) -> OpenTier]
  /\ currentTier \in 1..Len(tiers)

\* The sum of a tier's tokens by currency.
LEMMA MintedIsNumber ==
  ASSUME NEW tier \in Tier
  PROVE  SumFunction(tier.minted) \in Nat
<1>1. tier.minted \in [FundRaiseType -> Nat] BY DEF Tier
<1>2. DOMAIN tier.minted = FundRaiseType /\ \A x \in FundRaiseType : tier.minted[x] \in Nat
  BY <1>1
<1>3. QED BY <1>2, Numbers, SumIsNat DEF SumFunction

LEMMA TurnKeeps ==
  ASSUME OpenTiers, NEW allowedUSD \in Nat, NEW type \in FundRaiseType,
         NEW S \in Selling(allowedUSD), NEW i \in 1..Len(tiers)
  PROVE  BuyFromTier(S, i, type, allowedUSD) \in Selling(allowedUSD)
<1> DEFINE n == Len(tiers)
           c == CalculateTier(S.tiers[i], type, allowedUSD - S.spentUSD)
           T == [S EXCEPT !.tiers[i] = c.tier, !.currentTier = i,
                          !.spentUSD = @ + c.spentUSD, !.tokens = @ + c.tokens,
                          !.done = ~c.gotoNextTier]
<1>1. /\ S.tiers \in [1..n -> OpenTier] /\ S.currentTier \in 1..n
      /\ S.spentUSD \in Nat /\ S.tokens \in Nat
      /\ S.done \in BOOLEAN /\ S.reverted \in BOOLEAN
      /\ S.spentUSD <= allowedUSD /\ S.tokens % Granularity = 0
      /\ Minted(S.tiers) = Minted(tiers) + S.tokens
  BY DEF Selling
<1>2. n \in Nat /\ i \in 1..n BY DEF OpenTiers
<1> HIDE DEF n
<1>3. CASE S.done
  BY <1>3 DEF BuyFromTier
<1>4. CASE ~S.done /\ S.tiers[i].mintedTotal >= S.tiers[i].tokenTotal
  <2>1. BuyFromTier(S, i, type, allowedUSD) = [S EXCEPT !.currentTier = i]
    BY <1>4 DEF BuyFromTier
  <2>2. QED BY <1>2, <2>1 DEF Selling, n
<1>5. CASE /\ ~S.done /\ ~(S.tiers[i].mintedTotal >= S.tiers[i].tokenTotal)
           /\ Reverts(S.tiers[i], type)
  <2>1. BuyFromTier(S, i, type, allowedUSD)
          = [S EXCEPT !.reverted = TRUE, !.done = TRUE]
    BY <1>5 DEF BuyFromTier
  <2>2. QED BY <2>1 DEF Selling
<1>6. CASE /\ ~S.done /\ ~(S.tiers[i].mintedTotal >= S.tiers[i].tokenTotal)
           /\ ~Reverts(S.tiers[i], type)
  <2>1. BuyFromTier(S, i, type, allowedUSD) = T
    BY <1>6 DEF BuyFromTier
  <2>2. S.tiers[i] \in OpenTier /\ allowedUSD - S.spentUSD \in Nat
    BY <1>1, <1>2
  <2>3. /\ c.tier \in OpenTier
        /\ c.tokens \in Nat /\ c.tokens % Granularity = 0
        /\ SumFunction(c.tier.minted) = SumFunction(S.tiers[i].minted) + c.tokens
        /\ c.spentUSD \in Nat /\ c.spentUSD <= allowedUSD - S.spentUSD
        /\ c.gotoNextTier \in BOOLEAN
    BY <1>6, <2>2, TierIsKept
  <2> HIDE DEF c
  <2> DEFINE after == [S.tiers EXCEPT ![i] = c.tier]
  <2>4. after \in [1..n -> OpenTier] BY <1>1, <2>3
  <2>5. Minted(after) = Minted(S.tiers) + c.tokens
    <3> DEFINE f == [j \in DOMAIN S.tiers |-> SumFunction(S.tiers[j].minted)]
               g == [j \in DOMAIN after |-> SumFunction(after[j].minted)]
    <3>1. DOMAIN S.tiers = 1..n /\ DOMAIN after = 1..n BY <1>1, <2>4
    <3>2. DOMAIN f = 1..n /\ DOMAIN g = 1..n BY <3>1
    <3>3. \A j \in 1..n : f[j] \in Int
      <4>1. \A j \in 1..n : S.tiers[j] \in Tier BY <1>1 DEF OpenTier
      <4>2. \A j \in 1..n : SumFunction(S.tiers[j].minted) \in Nat
        BY <4>1, MintedIsNumber
      <4>3. QED BY <3>1, <4>2
    <3>4. \A j \in 1..n \ {i} : g[j] = f[j]
      <4>1. \A j \in 1..n \ {i} : after[j] = S.tiers[j] BY <1>1
      <4>2. QED BY <3>1, <4>1
    <3>5. g[i] = f[i] + c.tokens
      <4>1. after[i] = c.tier BY <1>1, <1>2
      <4>2. QED BY <1>2, <2>3, <3>1, <4>1
    <3>6. IsFiniteSet(1..n) BY <1>2, FS_Interval
    <3> HIDE DEF f, g
    <3>7. SumFunctionOnSet(g, 1..n) = SumFunctionOnSet(f, 1..n) + c.tokens
      <4> DEFINE I == 1..n
      <4>1. /\ IsFiniteSet(I) /\ i \in I /\ c.tokens \in Int
            /\ \A j \in I : f[j] \in Int
            /\ \A j \in I \ {i} : g[j] = f[j]
        BY <1>2, <2>3, <3>3, <3>4, <3>6
      <4> HIDE DEF I, after
      <4>2. QED BY <3>5, <4>1, SumChange DEF I
    <3>8. SumFunction(g) = SumFunction(f) + c.tokens BY <3>2, <3>7 DEF SumFunction
    <3>9. QED BY <3>8 DEF Minted, f, g
  <2>6. /\ T.tiers = after /\ T.currentTier = i
        /\ T.spentUSD = S.spentUSD + c.spentUSD /\ T.tokens = S.tokens + c.tokens
        /\ T.done = ~c.gotoNextTier /\ T.reverted = S.reverted
    BY DEF Selling
  <2>7. T \in [tiers : [1..n -> OpenTier], currentTier : 1..n, spentUSD : Nat,
               tokens : Nat, done : BOOLEAN, reverted : BOOLEAN]
    <3>1. S.spentUSD + c.spentUSD \in Nat /\ S.tokens + c.tokens \in Nat
      BY <1>1, <2>3
    <3>2. S \in [tiers : [1..n -> OpenTier], currentTier : 1..n, spentUSD : Nat,
                 tokens : Nat, done : BOOLEAN, reverted : BOOLEAN]
      BY DEF Selling, n
    <3>3. QED BY <1>2, <2>4, <3>1, <3>2
  <2>8. T.spentUSD <= allowedUSD BY <1>1, <2>3, <2>6
  <2>9. T.tokens % Granularity = 0 BY <1>1, <2>3, <2>6, Numbers, GrainsAdd
  <2>10. Minted(T.tiers) = Minted(tiers) + T.tokens
    <3>1. Minted(tiers) \in Nat
      <4> DEFINE f == [j \in DOMAIN tiers |-> SumFunction(tiers[j].minted)]
      <4>1. DOMAIN tiers = 1..n /\ \A j \in 1..n : tiers[j] \in Tier
        BY DEF OpenTiers, OpenTier, n
      <4>2. DOMAIN f = 1..n /\ \A j \in 1..n : f[j] \in Nat
        BY <4>1, MintedIsNumber
      <4>3. IsFiniteSet(1..n) BY <1>2, FS_Interval
      <4> HIDE DEF f
      <4>4. SumFunction(f) \in Nat BY <4>2, <4>3, SumIsNat DEF SumFunction
      <4>5. QED BY <4>4 DEF Minted, f
    <3>2. QED BY <1>1, <2>3, <2>5, <2>6, <3>1
  <2> HIDE DEF T
  <2>11. QED BY <2>1, <2>7, <2>8, <2>9, <2>10 DEF Selling, n
<1>7. QED BY <1>3, <1>4, <1>5, <1>6

\* The loop over the tiers ends in a state that its turns keep.
LEMMA TiersAreKept ==
  ASSUME OpenTiers, NEW allowedUSD \in Nat, NEW type \in FundRaiseType
  PROVE  BuyFromTiers(type, allowedUSD) \in Selling(allowedUSD)
<1> DEFINE State == Selling(allowedUSD)
           turns == Len(tiers) - currentTier + 1
           before == [tiers |-> tiers, currentTier |-> currentTier, spentUSD |-> 0,
                      tokens |-> 0, done |-> FALSE, reverted |-> FALSE]
           next(S, k) == BuyFromTier(S, currentTier + k - 1, type, allowedUSD)
           Is(f) == f = [k \in 0..turns |-> IF k = 0 THEN before ELSE next(f[k - 1], k)]
           after == CHOOSE f : Is(f)
           turn == [k \in 1..turns |-> [S \in State |-> next(S, k)]]
<1>1. turns \in Nat /\ \A k \in 1..turns : currentTier + k - 1 \in 1..Len(tiers)
  BY DEF OpenTiers
<1>2. before \in State
  <2>1. 0 % Granularity = 0 BY Numbers
  <2>2. Minted(tiers) \in Int
    <3> DEFINE n == Len(tiers)
               f == [j \in DOMAIN tiers |-> SumFunction(tiers[j].minted)]
    <3>1. DOMAIN tiers = 1..n /\ \A j \in 1..n : tiers[j] \in Tier
      BY DEF OpenTiers, OpenTier
    <3>2. DOMAIN f = 1..n /\ \A j \in 1..n : f[j] \in Int
      BY <3>1, MintedIsNumber
    <3>3. IsFiniteSet(1..n) BY FS_Interval DEF OpenTiers
    <3> HIDE DEF f
    <3>4. SumFunction(f) \in Int BY <3>2, <3>3, SumIsInt DEF SumFunction
    <3>5. QED BY <3>4 DEF Minted, f
  <2>3. Minted(tiers) = Minted(tiers) + 0 BY <2>2
  <2>4. QED BY <2>1, <2>3 DEF Selling, OpenTiers
<1>3. \A S \in State, k \in 1..turns : next(S, k) \in State
  BY <1>1, TurnKeeps
<1>4. BuyFromTiers(type, allowedUSD) = after[turns]
  BY DEF BuyFromTiers
<1> HIDE DEF State, before, turns, next
<1>5. turn \in [1..turns -> [State -> State]] BY <1>3
<1>6. PICK f : IsLoop(f, turns, State, before, turn)
  <2> HIDE DEF turn, Is
  <2>1. turns \in Nat BY <1>1
  <2>2. QED BY <1>2, <1>5, <2>1, LoopExists
<1>7. Is(f)
  <2>0. /\ f \in [0..turns -> State]
        /\ f[0] = before
        /\ \A k \in 1..turns : f[k] = turn[k][f[k - 1]]
    BY <1>6 DEF IsLoop
  <2>1. ASSUME NEW k \in 1..turns PROVE f[k] = next(f[k - 1], k)
    <3>1. k - 1 \in 0..turns BY <1>1
    <3>2. f[k - 1] \in State BY <2>0, <3>1
    <3>3. f[k] = turn[k][f[k - 1]] BY <2>0
    <3>4. QED BY <3>2, <3>3
  <2>2. ASSUME NEW k \in 0..turns
        PROVE  f[k] = IF k = 0 THEN before ELSE next(f[k - 1], k)
    <3>1. k # 0 => k \in 1..turns BY <1>1
    <3>2. QED BY <2>0, <2>1, <3>1
  <2>3. f = [k \in 0..turns |-> f[k]] BY <2>0
  <2>4. QED BY <2>2, <2>3
<1>8. Is(after) BY <1>7
<1> HIDE DEF after
<1>9. after[0] \in State BY <1>1, <1>2, <1>8
<1>10. \A k \in 1..turns : after[k - 1] \in State => after[k] \in State
  <2>1. \A k \in 1..turns : k \in 0..turns /\ k # 0 BY <1>1
  <2>2. QED BY <1>3, <1>8, <2>1
<1>11. \A k \in 0..turns : after[k] \in State
  <2> HIDE DEF Is
  <2>1. QED BY <1>1, <1>9, <1>10, LoopKeeps
<1>12. QED BY <1>1, <1>4, <1>11 DEF State

-----------------------------------------------------------------------------
(* The invariant.                                                          *)

Terms == [fundRaiseTypes : SUBSET FundRaiseType, usdTokens : SUBSET UsdToken,
          nonAccreditedLimitUSD : Nat, minimumInvestmentUSD : Nat,
          nonAccreditedLimitUSDOverride : [Investor -> Nat],
          allowBeneficialInvestments : BOOLEAN]

SettingsTypes ==
  /\ now \in Nat /\ startTime \in Nat
  /\ terms \in Terms
  /\ isFinalized \in BOOLEAN

BooksTypes ==
  /\ investorInvestedUSD \in [Investor -> Nat]
  /\ investorInvested \in [Investor -> [FundRaiseType -> Nat]]
  /\ fundsRaisedUSD \in Nat
  /\ fundsRaised \in [FundRaiseType -> Nat]
  /\ stableCoinsRaised \in [UsdToken -> Nat]
  /\ issued \in [Investor -> Nat]

TiersTypes ==
  /\ Len(tiers) \in Nat \ {0}
  /\ tiers \in [1..Len(tiers) -> Tier]
  /\ currentTier \in 1..Len(tiers)

\* modifyTiers may start over, because nothing was sold yet.
NothingBeforeStart ==
  NotStarted => currentTier = 1 /\ \A b \in Investor : issued[b] = 0

SInv ==
  /\ SettingsTypes /\ BooksTypes /\ TiersTypes
  /\ NothingBeforeStart /\ BooksAgree /\ TiersAgree

-----------------------------------------------------------------------------
LEMMA NewTiersAreOpen ==
  ASSUME NEW choice \in TierChoices, ValidTiers(choice)
  PROVE  /\ Len(NewTiers(choice)) \in Nat \ {0}
         /\ NewTiers(choice) \in [1..Len(NewTiers(choice)) -> Tier]
         /\ \A i \in 1..Len(NewTiers(choice)) :
              /\ NewTiers(choice)[i].mintedTotal = 0
              /\ NewTiers(choice)[i].mintedDiscountPoly = 0
              /\ NewTiers(choice)[i].minted = [type \in FundRaiseType |-> 0]
         /\ Minted(NewTiers(choice)) = 0
<1> DEFINE Choice == [rate : Nat, rateDiscountPoly : Nat,
                      tokenTotal : Nat, tokensDiscountPoly : Nat]
           n == Len(choice)
           new == NewTiers(choice)
           none == [type \in FundRaiseType |-> 0]
<1>1. choice \in Seq(Choice) /\ choice # <<>>
  BY ChoiceAssumption DEF ValidTiers
<1>2. n \in Nat \ {0} /\ DOMAIN choice = 1..n
  BY <1>1
<1>3. \A i \in 1..n : choice[i] \in Choice /\ choice[i].rate > 0 /\ choice[i].tokenTotal > 0
  <2>1. \A i \in 1..n : choice[i].rate > 0 /\ choice[i].tokenTotal > 0
    BY <1>2 DEF ValidTiers
  <2> HIDE DEF Choice
  <2>2. \A i \in 1..n : choice[i] \in Choice BY <1>1, <1>2
  <2>3. QED BY <2>1, <2>2
<1> HIDE DEF n
<1>4. ASSUME NEW i \in 1..n
      PROVE  /\ new[i] \in Tier
             /\ new[i].mintedTotal = 0 /\ new[i].mintedDiscountPoly = 0
             /\ new[i].minted = none
  <2>1. new[i] = [rate |-> choice[i].rate,
                  rateDiscountPoly |-> choice[i].rateDiscountPoly,
                  tokenTotal |-> choice[i].tokenTotal,
                  tokensDiscountPoly |-> choice[i].tokensDiscountPoly,
                  mintedTotal |-> 0, mintedDiscountPoly |-> 0,
                  minted |-> none]
    BY <1>2 DEF NewTiers
  <2>2. /\ choice[i].rate \in Nat \ {0} /\ choice[i].rateDiscountPoly \in Nat
        /\ choice[i].tokenTotal \in Nat \ {0} /\ choice[i].tokensDiscountPoly \in Nat
    BY <1>3
  <2>3. none \in [FundRaiseType -> Nat] OBVIOUS
  <2> HIDE DEF new, none
  <2>4. QED BY <2>1, <2>2, <2>3 DEF Tier
<1>5. new = [i \in 1..n |-> new[i]] BY <1>2 DEF NewTiers
<1>6. DOMAIN new = 1..n BY <1>2 DEF NewTiers
<1> HIDE DEF new
<1>7. Len(new) = n BY <1>2, <1>5
<1>8. new \in [1..n -> Tier] BY <1>4, <1>5
<1>9. Minted(new) = 0
  <2> DEFINE f == [i \in DOMAIN new |-> SumFunction(new[i].minted)]
  <2>1. SumFunction(none) = 0 BY Numbers, SumZero DEF SumFunction
  <2>2. \A i \in 1..n : f[i] = 0 BY <1>4, <1>6, <2>1
  <2>3. DOMAIN f = 1..n /\ IsFiniteSet(1..n) BY <1>2, <1>6, FS_Interval
  <2> HIDE DEF f
  <2>4. SumFunction(f) = 0 BY <2>2, <2>3, SumZero DEF SumFunction
  <2>5. QED BY <2>4 DEF Minted, f
<1>10. QED BY <1>2, <1>4, <1>7, <1>8, <1>9 DEF new

\* Tiers that nothing was sold of agree with investors who have nothing.
LEMMA NewTiersAgree ==
  ASSUME NEW choice \in TierChoices, ValidTiers(choice), tiers = NewTiers(choice),
         DOMAIN issued = Investor, \A b \in Investor : issued[b] = 0
  PROVE  TiersAgree
<1> DEFINE n == Len(tiers)
<1>1. /\ n \in Nat \ {0} /\ tiers \in [1..n -> Tier]
      /\ \A i \in 1..n : /\ tiers[i].mintedTotal = 0
                         /\ tiers[i].mintedDiscountPoly = 0
                         /\ tiers[i].minted = [type \in FundRaiseType |-> 0]
      /\ Minted(tiers) = 0
  BY NewTiersAreOpen
<1> HIDE DEF n
<1>2. DOMAIN tiers = 1..n BY <1>1
<1>3. /\ "POLY" \in FundRaiseType
      /\ SumFunction([type \in FundRaiseType |-> 0]) = 0
  BY Numbers, SumZero DEF FundRaiseType, SumFunction
<1>4. ASSUME NEW i \in 1..n
      PROVE  /\ tiers[i].mintedTotal <= tiers[i].tokenTotal
             /\ tiers[i].mintedDiscountPoly <= tiers[i].tokensDiscountPoly
             /\ tiers[i].mintedDiscountPoly <= tiers[i].minted["POLY"]
             /\ tiers[i].mintedTotal = SumFunction(tiers[i].minted)
             /\ tiers[i].mintedTotal # tiers[i].tokenTotal
  <2>1. /\ tiers[i].tokenTotal \in Nat \ {0} /\ tiers[i].tokensDiscountPoly \in Nat
    BY <1>1 DEF Tier
  <2>2. QED BY <1>1, <1>3, <2>1
<1>5. SumFunction(issued) = 0 BY Numbers, SumZero DEF SumFunction
<1>6. \A b \in Investor : issued[b] % Granularity = 0 BY Numbers
<1>7. 1 \in 1..n BY <1>1
<1>8. QED BY <1>1, <1>2, <1>4, <1>5, <1>6, <1>7 DEF TiersAgree, Minted

LEMMA InitCorrect == Init => SInv
<1> SUFFICES ASSUME Init PROVE SInv
  OBVIOUS
<1>1. SettingsTypes
  <2>1. now \in Nat /\ startTime \in Nat /\ isFinalized \in BOOLEAN
    <3>1. now = 0 /\ startTime \in 1..MaxTime /\ isFinalized = FALSE BY DEF Init
    <3>2. now \in Nat /\ startTime \in Nat BY <3>1, Numbers
    <3>3. isFinalized \in BOOLEAN BY <3>1
    <3>4. QED BY <3>2, <3>3
  <2>2. terms \in Terms
    <3>1. terms \in [fundRaiseTypes : (SUBSET FundRaiseType) \ {{}},
                     usdTokens : SUBSET UsdToken,
                     nonAccreditedLimitUSD : Limit, minimumInvestmentUSD : Limit,
                     nonAccreditedLimitUSDOverride : [Investor -> {0}],
                     allowBeneficialInvestments : {FALSE}]
      BY DEF Init
    <3>2. Limit \subseteq Nat /\ [Investor -> {0}] \subseteq [Investor -> Nat]
      BY Numbers
    <3>3. QED BY <3>1, <3>2 DEF Terms
  <2>3. QED BY <2>1, <2>2 DEF SettingsTypes
<1>2. BooksTypes BY DEF Init, BooksTypes
<1>3. PICK choice \in TierChoices : ValidTiers(choice) /\ tiers = NewTiers(choice)
  BY DEF Init
<1>4. TiersTypes BY <1>3, NewTiersAreOpen DEF Init, TiersTypes
<1>5. NothingBeforeStart BY DEF Init, NothingBeforeStart
<1>6. TiersAgree BY <1>3, NewTiersAgree DEF Init
<1>7. BooksAgree
  <2>1. SumFunction(investorInvestedUSD) = 0
    BY Numbers, SumZero DEF Init, SumFunction
  <2>2. {b \in Investor : investorInvestedUSD[b] > 0} = {} BY DEF Init
  <2>3. Cardinality({}) = 0 BY FS_EmptySet
  <2>4. ASSUME NEW type \in FundRaiseType
        PROVE  SumFunction([b \in Investor |-> investorInvested[b][type]]) = 0
    <3> DEFINE f == [b \in Investor |-> investorInvested[b][type]]
    <3>1. DOMAIN f = Investor /\ \A b \in Investor : f[b] = 0 BY DEF Init
    <3> HIDE DEF f
    <3>2. SumFunction(f) = 0 BY <3>1, Numbers, SumZero DEF SumFunction
    <3>3. QED BY <3>2 DEF f
  <2>5. SumFunction(stableCoinsRaised) = 0
    BY Numbers, SumZero DEF Init, SumFunction
  <2>6. "SC" \in FundRaiseType BY DEF FundRaiseType
  <2>7. \A type \in FundRaiseType : fundsRaised[type] = 0 BY DEF Init
  <2>8. QED BY <2>1, <2>2, <2>3, <2>4, <2>5, <2>6, <2>7 DEF Init, BooksAgree
<1>8. QED BY <1>1, <1>2, <1>4, <1>5, <1>6, <1>7 DEF SInv

-----------------------------------------------------------------------------
(* A purchase.                                                             *)

LEMMA TiersAreOpen ==
  ASSUME SInv, ~isFinalized
  PROVE  OpenTiers
<1>1. DOMAIN tiers = 1..Len(tiers) BY DEF SInv, TiersTypes
<1>2. ASSUME NEW i \in 1..Len(tiers) PROVE tiers[i] \in OpenTier
  <2>1. tiers[i] \in Tier BY DEF SInv, TiersTypes
  <2>2. /\ InBounds(tiers[i])
        /\ tiers[i].mintedTotal = SumFunction(tiers[i].minted)
    BY <1>1 DEF SInv, TiersAgree, InBounds
  <2>3. QED BY <2>1, <2>2 DEF OpenTier
<1>3. tiers = [i \in 1..Len(tiers) |-> tiers[i]] BY DEF SInv, TiersTypes
<1>4. tiers \in [1..Len(tiers) -> OpenTier] BY <1>2, <1>3
<1>5. QED BY <1>4 DEF SInv, TiersTypes, OpenTiers

\* What may be invested is a number.
LEMMA AllowedIsNumber ==
  ASSUME SInv, NEW b \in Investor, NEW value, NEW usd \in Nat, MayBuy(b, value, usd)
  PROVE  AllowedUSD(b, usd) \in Nat
<1>1. CASE b \in accredited
  BY <1>1 DEF AllowedUSD
<1>2. CASE b \notin accredited
  <2>1. InvestorLimit(b) \in Nat
    BY DEF SInv, SettingsTypes, Terms, InvestorLimit
  <2>2. investorInvestedUSD[b] \in Nat BY DEF SInv, BooksTypes
  <2>3. investorInvestedUSD[b] < InvestorLimit(b) BY <1>2 DEF MayBuy
  <2>4. InvestorLimit(b) - investorInvestedUSD[b] \in Nat BY <2>1, <2>2, <2>3
  <2>5. QED BY <1>2, <2>4, MinBelow DEF AllowedUSD
<1>3. QED BY <1>1, <1>2

LEMMA BooksAreKept ==
  ASSUME BooksTypes, BooksAgree, NEW b \in Investor, NEW type \in FundRaiseType,
         NEW coin \in UsdToken, NEW S, S.spentUSD \in Nat, S.tokens \in Nat,
         NEW spentValue \in Nat, BookSale(b, type, coin, S, spentValue)
  PROVE  BooksTypes' /\ BooksAgree'
<1>1. BooksTypes'
  <2>1. investorInvestedUSD' \in [Investor -> Nat] /\ fundsRaisedUSD' \in Nat
        /\ issued' \in [Investor -> Nat]
    BY DEF BooksTypes, BookSale
  <2>2. investorInvested' \in [Investor -> [FundRaiseType -> Nat]]
    BY DEF BooksTypes, BookSale
  <2>3. fundsRaised' \in [FundRaiseType -> Nat] BY DEF BooksTypes, BookSale
  <2>4. stableCoinsRaised' \in [UsdToken -> Nat] BY DEF BooksTypes, BookSale
  <2>5. QED BY <2>1, <2>2, <2>3, <2>4 DEF BooksTypes
<1>2. fundsRaisedUSD' = SumFunction(investorInvestedUSD')
  <2>1. /\ DOMAIN investorInvestedUSD = Investor
        /\ DOMAIN investorInvestedUSD' = Investor
        /\ \A x \in Investor : investorInvestedUSD[x] \in Int
        /\ \A x \in Investor \ {b} : investorInvestedUSD'[x] = investorInvestedUSD[x]
        /\ investorInvestedUSD'[b] = investorInvestedUSD[b] + S.spentUSD
    BY DEF BooksTypes, BookSale
  <2>2. SumFunction(investorInvestedUSD') = SumFunction(investorInvestedUSD) + S.spentUSD
    BY <2>1, Numbers, SumChange DEF SumFunction
  <2>3. QED BY <2>2 DEF BooksAgree, BookSale
<1>3. investorCount' = Cardinality({x \in Investor : investorInvestedUSD'[x] > 0})
  <2> DEFINE paid == {x \in Investor : investorInvestedUSD[x] > 0}
             paying == {x \in Investor : investorInvestedUSD'[x] > 0}
  <2>1. /\ \A x \in Investor : investorInvestedUSD[x] \in Nat
        /\ \A x \in Investor \ {b} : investorInvestedUSD'[x] = investorInvestedUSD[x]
        /\ investorInvestedUSD'[b] = investorInvestedUSD[b] + S.spentUSD
    BY DEF BooksTypes, BookSale
  <2>2. IsFiniteSet(paid) BY Numbers, FS_Subset
  <2>3. CASE S.spentUSD > 0 /\ investorInvestedUSD[b] = 0
    <3>1. paying = paid \cup {b} /\ b \notin paid BY <2>1, <2>3
    <3>2. Cardinality(paying) = Cardinality(paid) + 1
      BY <2>2, <3>1, FS_AddElement
    <3>3. QED BY <2>3, <3>2 DEF BooksAgree, BookSale
  <2>4. CASE ~(S.spentUSD > 0 /\ investorInvestedUSD[b] = 0)
    <3>1. paying = paid BY <2>1, <2>4
    <3>2. QED BY <2>4, <3>1 DEF BooksAgree, BookSale
  <2>5. QED BY <2>3, <2>4
<1>4. ASSUME NEW t \in FundRaiseType
      PROVE  fundsRaised'[t] = SumFunction([x \in Investor |-> investorInvested'[x][t]])
  <2> DEFINE f == [x \in Investor |-> investorInvested[x][t]]
             g == [x \in Investor |-> investorInvested'[x][t]]
             d == IF t = type THEN spentValue ELSE 0
  <2>1. DOMAIN f = Investor /\ DOMAIN g = Investor OBVIOUS
  <2>2. \A x \in Investor : f[x] \in Int BY DEF BooksTypes
  <2>3. \A x \in Investor \ {b} : g[x] = f[x] BY DEF BooksTypes, BookSale
  <2>4. g[b] = f[b] + d
    <3>1. investorInvested'[b] = [investorInvested[b] EXCEPT ![type] = @ + spentValue]
      BY DEF BooksTypes, BookSale
    <3>2. investorInvested[b] \in [FundRaiseType -> Nat] BY DEF BooksTypes
    <3>3. QED BY <3>1, <3>2
  <2>5. d \in Int OBVIOUS
  <2>6. fundsRaised'[t] = fundsRaised[t] + d BY DEF BooksTypes, BookSale
  <2>7. fundsRaised[t] = SumFunction(f) BY DEF BooksAgree
  <2> HIDE DEF f, g, d
  <2>8. SumFunction(g) = SumFunction(f) + d
    BY <2>1, <2>2, <2>3, <2>4, <2>5, Numbers, SumChange DEF SumFunction
  <2>9. QED BY <2>6, <2>7, <2>8 DEF g
<1>5. fundsRaised'["SC"] = SumFunction(stableCoinsRaised')
  <2>1. "SC" \in FundRaiseType BY DEF FundRaiseType
  <2>2. CASE type = "SC"
    <3>1. /\ DOMAIN stableCoinsRaised = UsdToken
          /\ DOMAIN stableCoinsRaised' = UsdToken
          /\ \A x \in UsdToken : stableCoinsRaised[x] \in Int
          /\ \A x \in UsdToken \ {coin} : stableCoinsRaised'[x] = stableCoinsRaised[x]
          /\ stableCoinsRaised'[coin] = stableCoinsRaised[coin] + spentValue
      BY <2>2 DEF BooksTypes, BookSale
    <3>2. SumFunction(stableCoinsRaised') = SumFunction(stableCoinsRaised) + spentValue
      BY <3>1, Numbers, SumChange DEF SumFunction
    <3>3. fundsRaised'["SC"] = fundsRaised["SC"] + spentValue
      BY <2>1, <2>2 DEF BooksTypes, BookSale
    <3>4. QED BY <3>2, <3>3 DEF BooksAgree
  <2>3. CASE type # "SC"
    <3>1. fundsRaised'["SC"] = fundsRaised["SC"] /\ stableCoinsRaised' = stableCoinsRaised
      BY <2>1, <2>3 DEF BooksTypes, BookSale
    <3>2. QED BY <3>1 DEF BooksAgree
  <2>4. QED BY <2>2, <2>3
<1>6. QED BY <1>1, <1>2, <1>3, <1>4, <1>5 DEF BooksAgree

LEMMA BuyKeeps ==
  ASSUME SInv, NEW funder \in Investor, NEW b \in Investor, NEW value \in Value,
         NEW type \in FundRaiseType, NEW coin \in UsdToken, NEW rate \in Price[type],
         Buy(funder, b, value, type, coin, rate)
  PROVE  SInv'
<1> DEFINE usd == DecimalMul(rate, value)
           allowed == AllowedUSD(b, usd)
           S == BuyFromTiers(type, allowed)
           spentValue == DecimalDiv(S.spentUSD, rate)
           n == Len(tiers)
<1>1. rate \in Nat \ {0} /\ value \in Nat
  BY Numbers, PriceAssumption
<1>2. usd \in Nat BY <1>1, DecimalsAreNumbers
<1>3. MayBuy(b, value, usd) /\ BookSale(b, type, coin, S, spentValue)
      /\ UNCHANGED <<clock, paused, terms, flags, final>>
  BY DEF Buy
<1>4. ~isFinalized /\ ~NotStarted
  BY <1>3 DEF SInv, SettingsTypes, MayBuy, IsOpen, NotStarted
<1>5. allowed \in Nat
  <2> HIDE DEF usd
  <2>1. QED BY <1>2, <1>3, AllowedIsNumber
<1> HIDE DEF usd, allowed
<1>6. S \in Selling(allowed)
  BY <1>4, <1>5, TiersAreOpen, TiersAreKept
<1> HIDE DEF S
<1>7. /\ S.tiers \in [1..n -> OpenTier] /\ S.currentTier \in 1..n
      /\ S.spentUSD \in Nat /\ S.tokens \in Nat /\ S.tokens % Granularity = 0
      /\ Minted(S.tiers) = Minted(tiers) + S.tokens
  BY <1>6 DEF Selling
<1>8. spentValue \in Nat BY <1>1, <1>7, DecimalsAreNumbers
<1> HIDE DEF spentValue
<1>9. BooksTypes' /\ BooksAgree'
  BY <1>3, <1>7, <1>8, BooksAreKept DEF SInv
<1>10. SettingsTypes'
  BY <1>3 DEF SInv, SettingsTypes, clock, final
<1>11. tiers' = S.tiers /\ currentTier' = S.currentTier
       /\ issued' = [issued EXCEPT ![b] = @ + S.tokens]
       /\ isFinalized' = isFinalized
  BY <1>3 DEF BookSale, final
<1>12. n \in Nat \ {0} BY DEF SInv, TiersTypes
<1>13. Len(tiers') = n
  <2> HIDE DEF n
  <2>1. tiers' \in Seq(OpenTier) BY <1>7, <1>11, <1>12
  <2>2. DOMAIN tiers' = 1..n BY <1>7, <1>11
  <2>3. QED BY <1>12, <2>1, <2>2
<1>14. TiersTypes'
  <2>1. tiers' \in [1..n -> Tier]
    <3>1. OpenTier \subseteq Tier BY DEF OpenTier
    <3> HIDE DEF n
    <3>2. QED BY <1>7, <1>11, <3>1
  <2>2. QED BY <1>7, <1>11, <1>12, <1>13, <2>1 DEF TiersTypes
<1>15. NothingBeforeStart'
  BY <1>3, <1>4 DEF NothingBeforeStart, NotStarted, clock
<1>16. TiersAgree'
  <2>1. DOMAIN tiers' = 1..n BY <1>7, <1>11
  <2>2. ASSUME NEW i \in 1..n
        PROVE  /\ tiers'[i].mintedTotal <= tiers'[i].tokenTotal
               /\ tiers'[i].mintedDiscountPoly <= tiers'[i].tokensDiscountPoly
               /\ tiers'[i].mintedDiscountPoly <= tiers'[i].minted["POLY"]
               /\ tiers'[i].mintedTotal = SumFunction(tiers'[i].minted)
    <3>1. tiers'[i] \in OpenTier BY <1>7, <1>11
    <3>2. QED BY <3>1 DEF OpenTier, InBounds
  <2>3. SumFunction(issued') = Minted(tiers')
    <3>1. /\ DOMAIN issued = Investor /\ DOMAIN issued' = Investor
          /\ \A x \in Investor : issued[x] \in Int
          /\ \A x \in Investor \ {b} : issued'[x] = issued[x]
          /\ issued'[b] = issued[b] + S.tokens
      BY <1>11 DEF SInv, BooksTypes
    <3>2. SumFunction(issued') = SumFunction(issued) + S.tokens
      <4>1. IsFiniteSet(Investor) BY Numbers
      <4>2. S.tokens \in Int /\ b \in Investor BY <1>7
      <4> HIDE DEF S
      <4>3. SumFunctionOnSet(issued', Investor)
              = SumFunctionOnSet(issued, Investor) + S.tokens
        BY <3>1, <4>1, <4>2, SumChange
      <4>4. QED BY <3>1, <4>3 DEF SumFunction
    <3>3. SumFunction(issued) = Minted(tiers)
      BY DEF SInv, TiersAgree, Minted
    <3>4. QED BY <1>7, <1>11, <3>2, <3>3
  <2>4. \A x \in Investor : issued'[x] % Granularity = 0
    <3>1. issued \in [Investor -> Nat] /\ \A x \in Investor : issued[x] % Granularity = 0
      BY DEF SInv, BooksTypes, TiersAgree
    <3>2. (issued[b] + S.tokens) % Granularity = 0
      BY <1>7, <3>1, Numbers, GrainsAdd
    <3>3. QED BY <1>11, <3>1, <3>2
  <2>5. ~isFinalized' BY <1>4, <1>11
  <2>6. QED BY <2>1, <2>2, <2>3, <2>4, <2>5 DEF TiersAgree, Minted
<1>17. QED BY <1>9, <1>10, <1>14, <1>15, <1>16 DEF SInv

-----------------------------------------------------------------------------
(* The end, and what the issuer changes.                                   *)

LEMMA FinalizeKeeps ==
  ASSUME SInv, Finalize
  PROVE  SInv'
<1> DEFINE n == Len(tiers)
           Tiers == 1..n
           left == [i \in Tiers |-> tiers[i].tokenTotal - tiers[i].mintedTotal]
           sold == [i \in Tiers |-> tiers[i].mintedTotal]
           all == [i \in Tiers |-> tiers[i].tokenTotal]
           minted == [i \in Tiers |-> SumFunction(tiers[i].minted)]
           unsold == SumFunction(left)
           rest == (unsold \div Granularity) * Granularity
<1>1. n \in Nat \ {0} /\ DOMAIN tiers = Tiers /\ IsFiniteSet(Tiers)
  BY FS_Interval DEF SInv, TiersTypes
<1>2. /\ ~isFinalized /\ isFinalized' = TRUE
      /\ finalAmountReturned' = rest
      /\ totalTokensSold' = SumFunction(sold)
      /\ tiers' = [i \in Tiers |-> [tiers[i] EXCEPT !.mintedTotal = tiers[i].tokenTotal]]
      /\ UNCHANGED <<clock, paused, terms, flags, currentTier, books>>
  BY <1>1 DEF Finalize
<1>3. ASSUME NEW i \in Tiers
      PROVE  /\ tiers[i] \in Tier
             /\ tiers[i].tokenTotal \in Nat /\ tiers[i].mintedTotal \in Nat
             /\ tiers[i].mintedTotal <= tiers[i].tokenTotal
             /\ tiers[i].mintedDiscountPoly <= tiers[i].tokensDiscountPoly
             /\ tiers[i].mintedDiscountPoly <= tiers[i].minted["POLY"]
             /\ tiers[i].mintedTotal = SumFunction(tiers[i].minted)
  <2>1. tiers[i] \in Tier BY DEF SInv, TiersTypes
  <2>2. tiers[i].tokenTotal \in Nat /\ tiers[i].mintedTotal \in Nat
    BY <2>1 DEF Tier
  <2>3. QED BY <1>1, <1>2, <2>1, <2>2 DEF SInv, TiersAgree
<1>4. ASSUME NEW i \in Tiers
      PROVE  /\ tiers'[i] \in Tier
             /\ tiers'[i].mintedTotal = tiers[i].tokenTotal
             /\ tiers'[i].tokenTotal = tiers[i].tokenTotal
             /\ tiers'[i].mintedDiscountPoly = tiers[i].mintedDiscountPoly
             /\ tiers'[i].tokensDiscountPoly = tiers[i].tokensDiscountPoly
             /\ tiers'[i].minted = tiers[i].minted
  <2>1. tiers'[i] = [tiers[i] EXCEPT !.mintedTotal = tiers[i].tokenTotal]
    BY <1>2
  <2>2. tiers[i] \in Tier BY <1>3
  <2> HIDE DEF Tiers
  <2>3. QED BY <2>1, <2>2 DEF Tier
<1>5. DOMAIN tiers' = Tiers BY <1>2
<1>6. Len(tiers') = n
  <2> HIDE DEF n
  <2>1. tiers' \in Seq(Tier)
    <3>1. tiers' = [i \in Tiers |-> tiers'[i]] BY <1>2
    <3>2. tiers' \in [Tiers -> Tier] BY <1>4, <3>1
    <3>3. QED BY <1>1, <3>2
  <2>2. QED BY <1>1, <1>5, <2>1
<1>7. TiersTypes'
  <2>1. tiers' = [i \in Tiers |-> tiers'[i]] BY <1>2
  <2>2. tiers' \in [Tiers -> Tier] BY <1>4, <2>1
  <2>3. currentTier' \in Tiers BY <1>2 DEF SInv, TiersTypes
  <2>4. QED BY <1>1, <1>6, <2>2, <2>3 DEF TiersTypes
<1> HIDE DEF n, Tiers
<1>8. /\ DOMAIN left = Tiers /\ DOMAIN sold = Tiers
      /\ DOMAIN all = Tiers /\ DOMAIN minted = Tiers
  OBVIOUS
<1>9. \A i \in Tiers : /\ sold[i] \in Nat /\ left[i] \in Nat
                       /\ all[i] = sold[i] + left[i]
                       /\ minted[i] = sold[i]
  BY <1>3
<1>10. Minted(tiers) = SumFunction(minted) BY <1>1 DEF Minted
<1>11. SumFunction(all) = SumFunction([i \in Tiers |-> tiers[i].tokenTotal])
  OBVIOUS
<1> HIDE DEF left, sold, all, minted
<1>12. SumFunction(all) = SumFunction(sold) + unsold
  BY <1>1, <1>8, <1>9, SumPlus DEF SumFunction
<1>13. SumFunction(minted) = SumFunction(sold)
  BY <1>1, <1>8, <1>9, SumSame DEF SumFunction
<1>14. unsold \in Nat /\ SumFunction(sold) \in Nat
  BY <1>1, <1>8, <1>9, SumIsNat DEF SumFunction
<1> HIDE DEF unsold
<1>15. rest \in Nat /\ rest <= unsold /\ unsold < rest + Granularity
       /\ rest % Granularity = 0
  <2>1. unsold \div Granularity \in Nat BY <1>14, Numbers, DivisionBelow
  <2>2. rest \in Nat BY <2>1, Numbers
  <2>3. rest <= unsold /\ unsold < rest + Granularity
    BY <1>14, Numbers, DivisionBelow
  <2>4. rest % Granularity = 0 BY <2>1, Numbers, WholeGrains
  <2>5. QED BY <2>2, <2>3, <2>4
<1> HIDE DEF rest
<1>16. TiersAgree'
  <2>1. ASSUME NEW i \in Tiers
        PROVE  /\ tiers'[i].mintedTotal <= tiers'[i].tokenTotal
               /\ tiers'[i].mintedDiscountPoly <= tiers'[i].tokensDiscountPoly
               /\ tiers'[i].mintedDiscountPoly <= tiers'[i].minted["POLY"]
    BY <1>3, <1>4
  <2> DEFINE minted1 == [i \in Tiers |-> SumFunction(tiers'[i].minted)]
             all1 == [i \in Tiers |-> tiers'[i].tokenTotal]
  <2>2. minted1 = minted BY <1>4 DEF minted
  <2>3. all1 = all BY <1>4 DEF all
  <2>4. SumFunction(issued') = SumFunction(minted)
    <3>1. issued' = issued BY <1>2 DEF books
    <3>2. SumFunction(issued) = Minted(tiers) BY DEF SInv, TiersAgree, Minted
    <3>3. QED BY <1>10, <3>1, <3>2
  <2>5. /\ totalTokensSold' = SumFunction(minted)
        /\ totalTokensSold' + finalAmountReturned' <= SumFunction(all)
        /\ SumFunction(all) - totalTokensSold' - finalAmountReturned' < Granularity
        /\ finalAmountReturned' % Granularity = 0
    BY <1>2, <1>12, <1>13, <1>14, <1>15, Numbers
  <2>6. \A b \in Investor : issued'[b] % Granularity = 0
    BY <1>2 DEF SInv, TiersAgree, books
  <2> HIDE DEF minted1, all1
  <2>7. /\ SumFunction([i \in DOMAIN tiers' |-> SumFunction(tiers'[i].minted)])
             = SumFunction(minted)
        /\ SumFunction([i \in DOMAIN tiers' |-> tiers'[i].tokenTotal])
             = SumFunction(all)
    BY <1>5, <2>2, <2>3 DEF minted1, all1
  <2>8. isFinalized' BY <1>2
  <2>9. QED BY <1>5, <2>1, <2>4, <2>5, <2>6, <2>7, <2>8 DEF TiersAgree
<1>17. SettingsTypes' /\ BooksTypes' /\ NothingBeforeStart' /\ BooksAgree'
  BY <1>2 DEF SInv, SettingsTypes, BooksTypes, NothingBeforeStart, NotStarted,
              BooksAgree, clock, books
<1>18. QED BY <1>7, <1>16, <1>17 DEF SInv

LEMMA ModifyTiersKeeps ==
  ASSUME SInv, NEW choice \in TierChoices, ModifyTiers(choice)
  PROVE  SInv'
<1>1. /\ NotStarted /\ ValidTiers(choice) /\ tiers' = NewTiers(choice)
      /\ UNCHANGED <<clock, paused, terms, flags, currentTier, books, final>>
  BY DEF ModifyTiers
<1>2. currentTier = 1 /\ \A b \in Investor : issued[b] = 0
  BY <1>1 DEF SInv, NothingBeforeStart
<1>3. TiersTypes' BY <1>1, <1>2, NewTiersAreOpen DEF TiersTypes
<1>4. DOMAIN issued' = Investor /\ \A b \in Investor : issued'[b] = 0
  BY <1>1, <1>2 DEF SInv, BooksTypes, books
<1>5. TiersAgree'
  <2> DEFINE n == Len(tiers')
  <2>1. /\ n \in Nat \ {0} /\ tiers' \in [1..n -> Tier]
        /\ \A i \in 1..n : /\ tiers'[i].mintedTotal = 0
                           /\ tiers'[i].mintedDiscountPoly = 0
                           /\ tiers'[i].minted = [type \in FundRaiseType |-> 0]
        /\ Minted(tiers') = 0
    BY <1>1, NewTiersAreOpen
  <2> HIDE DEF n
  <2>2. DOMAIN tiers' = 1..n BY <2>1
  <2>3. /\ "POLY" \in FundRaiseType
        /\ SumFunction([type \in FundRaiseType |-> 0]) = 0
    BY Numbers, SumZero DEF FundRaiseType, SumFunction
  <2>4. ASSUME NEW i \in 1..n
        PROVE  /\ tiers'[i].mintedTotal <= tiers'[i].tokenTotal
               /\ tiers'[i].mintedDiscountPoly <= tiers'[i].tokensDiscountPoly
               /\ tiers'[i].mintedDiscountPoly <= tiers'[i].minted["POLY"]
               /\ tiers'[i].mintedTotal = SumFunction(tiers'[i].minted)
               /\ tiers'[i].mintedTotal # tiers'[i].tokenTotal
    <3>1. tiers'[i].tokenTotal \in Nat \ {0} /\ tiers'[i].tokensDiscountPoly \in Nat
      BY <2>1 DEF Tier
    <3>2. QED BY <2>1, <2>3, <3>1
  <2>5. SumFunction(issued') = 0 BY <1>4, Numbers, SumZero DEF SumFunction
  <2>6. \A b \in Investor : issued'[b] % Granularity = 0 BY <1>4, Numbers
  <2>7. 1 \in 1..n BY <2>1
  <2>8. QED BY <2>1, <2>2, <2>4, <2>5, <2>6, <2>7 DEF TiersAgree, Minted
<1>6. SettingsTypes' /\ BooksTypes' /\ NothingBeforeStart' /\ BooksAgree'
  BY <1>1 DEF SInv, SettingsTypes, BooksTypes, NothingBeforeStart, NotStarted,
              BooksAgree, clock, books, final
<1>7. QED BY <1>3, <1>5, <1>6 DEF SInv

\* What neither sells nor ends the sale changes settings only.
LEMMA OthersKeep ==
  ASSUME SInv, SettingsTypes', NotStarted' => NotStarted,
         UNCHANGED <<tiers, currentTier, books, final>>
  PROVE  SInv'
BY DEF SInv, BooksTypes, TiersTypes, NothingBeforeStart, BooksAgree, TiersAgree,
       books, final

LEMMA TermsKeep ==
  ASSUME SInv, NEW new \in Terms, TermsChanged(new)
  PROVE  SInv'
<1>1. /\ terms' = new
      /\ UNCHANGED <<clock, paused, flags, tiers, currentTier, books, final>>
  BY DEF TermsChanged
<1>2. SettingsTypes' BY <1>1 DEF SInv, SettingsTypes, clock, final
<1>3. NotStarted' => NotStarted BY <1>1 DEF NotStarted, clock
<1>4. QED BY <1>1, <1>2, <1>3, OthersKeep

LEMMA SettingsKeep ==
  ASSUME SInv, Settings
  PROVE  SInv'
<1>0. terms \in Terms BY DEF SInv, SettingsTypes
<1>1. ASSUME NEW from \in 1..MaxTime, NEW to \in 1..MaxTime, ModifyTimes(from, to)
      PROVE  SInv'
  <2>1. from \in Nat BY <1>1, Numbers
  <2>2. SettingsTypes' BY <1>1, <2>1 DEF SInv, SettingsTypes, ModifyTimes, final
  <2>3. QED BY <1>1, <2>2, OthersKeep DEF ModifyTimes
<1>2. ASSUME NEW choice \in TierChoices, ModifyTiers(choice) PROVE SInv'
  BY <1>2, ModifyTiersKeeps
<1>3. ASSUME NEW types \in (SUBSET FundRaiseType) \ {{}}, ModifyFunding(types)
      PROVE  SInv'
  <2>1. [terms EXCEPT !.fundRaiseTypes = types] \in Terms BY <1>0 DEF Terms
  <2>2. QED BY <1>3, <2>1, TermsKeep DEF ModifyFunding
<1>4. ASSUME NEW limit \in Limit, NEW minimum \in Limit, ModifyLimits(limit, minimum)
      PROVE  SInv'
  <2>1. limit \in Nat /\ minimum \in Nat BY Numbers
  <2>2. [terms EXCEPT !.nonAccreditedLimitUSD = limit,
                      !.minimumInvestmentUSD = minimum] \in Terms
    BY <1>0, <2>1 DEF Terms
  <2>3. QED BY <1>4, <2>2, TermsKeep DEF ModifyLimits
<1>5. ASSUME NEW coins \in SUBSET UsdToken, ModifyUSDTokens(coins) PROVE SInv'
  <2>1. [terms EXCEPT !.usdTokens = coins] \in Terms BY <1>0 DEF Terms
  <2>2. QED BY <1>5, <2>1, TermsKeep DEF ModifyUSDTokens
<1>6. ASSUME NEW allow \in BOOLEAN, ChangeAllowBeneficialInvestments(allow)
      PROVE  SInv'
  <2>1. [terms EXCEPT !.allowBeneficialInvestments = allow] \in Terms
    BY <1>0 DEF Terms
  <2>2. QED BY <1>6, <2>1, TermsKeep DEF ChangeAllowBeneficialInvestments
<1>7. ASSUME NEW b \in Investor, NEW limit \in Limit \cup {0},
             ChangeNonAccreditedLimit(b, limit)
      PROVE  SInv'
  <2>1. limit \in Nat BY Numbers
  <2>2. [terms EXCEPT !.nonAccreditedLimitUSDOverride[b] = limit] \in Terms
    BY <1>0, <2>1 DEF Terms
  <2>3. QED BY <1>7, <2>2, TermsKeep DEF ChangeNonAccreditedLimit
<1>8. ASSUME NEW b \in Investor, NEW isAccredited \in BOOLEAN,
             NEW cannotBuy \in BOOLEAN, ModifyInvestorFlags(b, isAccredited, cannotBuy)
      PROVE  SInv'
  <2>1. UNCHANGED <<clock, paused, terms, tiers, currentTier, books, final>>
    BY <1>8 DEF ModifyInvestorFlags
  <2>2. SettingsTypes' /\ (NotStarted' => NotStarted)
    BY <2>1 DEF SInv, SettingsTypes, NotStarted, clock, final
  <2>3. QED BY <2>1, <2>2, OthersKeep
<1>9. QED BY <1>1, <1>2, <1>3, <1>4, <1>5, <1>6, <1>7, <1>8 DEF Settings

LEMMA StepKeeps == SInv /\ [Next]_vars => SInv'
<1> SUFFICES ASSUME SInv, [Next]_vars PROVE SInv'
  OBVIOUS
<1>1. CASE Settings
  BY <1>1, SettingsKeep
<1>2. CASE Purchase
  <2>1. PICK funder \in Investor, b \in Investor, value \in Value,
             type \in FundRaiseType, coin \in UsdToken :
               \E rate \in Price[type] : Buy(funder, b, value, type, coin, rate)
    BY <1>2 DEF Purchase
  <2>2. QED BY <2>1, BuyKeeps
<1>3. ASSUME NEW value \in BOOLEAN, SetPaused(value) PROVE SInv'
  <2>1. UNCHANGED <<clock, terms, flags, tiers, currentTier, books, final>>
    BY <1>3 DEF SetPaused
  <2>2. SettingsTypes' /\ (NotStarted' => NotStarted)
    BY <2>1 DEF SInv, SettingsTypes, NotStarted, clock, final
  <2>3. QED BY <2>1, <2>2, OthersKeep
<1>4. CASE Finalize
  BY <1>4, FinalizeKeeps
<1>5. CASE Tick
  <2>1. /\ now' = now + 1
        /\ UNCHANGED <<startTime, endTime, paused, terms, flags, tiers, currentTier,
                       books, final>>
    BY <1>5 DEF Tick
  <2>2. SettingsTypes' /\ (NotStarted' => NotStarted)
    BY <2>1 DEF SInv, SettingsTypes, NotStarted, final
  <2>3. QED BY <2>1, <2>2, OthersKeep
<1>6. CASE UNCHANGED vars
  <2>1. UNCHANGED <<clock, terms, tiers, currentTier, books, final>>
    BY <1>6 DEF vars
  <2>2. SettingsTypes' /\ (NotStarted' => NotStarted)
    BY <2>1 DEF SInv, SettingsTypes, NotStarted, clock, final
  <2>3. QED BY <2>1, <2>2, OthersKeep
<1>7. QED BY <1>1, <1>2, <1>3, <1>4, <1>5, <1>6 DEF Next

LEMMA SInvAlways == Spec => []SInv
BY InitCorrect, StepKeeps, PTL DEF Spec

\* Whoever buys with which currency: the dollars, currencies and coins raised are
\* the sums over the investors, and those counted as investors are who paid.
THEOREM BooksAlwaysAgree == Spec => []BooksAgree
<1>1. SInv => BooksAgree BY DEF SInv
<1>2. QED BY <1>1, SInvAlways, PTL

\* However a purchase is spread over the tiers and their discounts: no tier sells
\* more than it has, and investors and treasury together get the tokens of the
\* tiers, in whole grains and never more.
THEOREM TiersAlwaysAgree == Spec => []TiersAgree
<1>1. SInv => TiersAgree BY DEF SInv
<1>2. QED BY <1>1, SInvAlways, PTL
=============================================================================
