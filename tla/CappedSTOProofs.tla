---------------------------- MODULE CappedSTOProofs ----------------------------
(***************************************************************************)
(* Theorems about the capped offering, for any investors, unit, rate, cap, *)
(* grains and amounts: what it sold is what the investors have, below its  *)
(* cap, and what it raised is the price of that, up to the divisions.      *)
(***************************************************************************)
EXTENDS CappedSTO, SharedLemmas

SInv == TypeOK /\ PriceKept /\ SaleAdds

-----------------------------------------------------------------------------
(* The arithmetic of a purchase.                                           *)

LEMMA TermsAreNumbers ==
  ASSUME TypeOK
  PROVE  /\ cap \in Nat /\ rate \in Nat \ {0}
         /\ totalTokensSold \in Nat /\ fundsRaised \in Nat
         /\ investorCount \in Nat /\ purchases \in Nat
         /\ Unit \in Nat \ {0} /\ Granularity \in Nat \ {0}
BY SaleAssumption DEF TypeOK

\* A purchase is cut to what the cap leaves.
LEMMA AmountFitsCap ==
  ASSUME TypeOK, SaleAdds, NEW value \in Nat
  PROVE  /\ TokenAmount(value) \in Nat
         /\ TokenAmount(value) % Granularity = 0
         /\ totalTokensSold + TokenAmount(value) <= cap
<1> DEFINE wanted == (value * rate) \div Unit
           left == cap - totalTokensSold
           least == Min({wanted, left})
<1>1. value * rate \in Nat BY TermsAreNumbers
<1>2. wanted \in Nat BY <1>1, TermsAreNumbers, DivisionBelow
<1>3. left \in Nat BY TermsAreNumbers DEF SaleAdds
<1> HIDE DEF wanted, left
<1>4. least \in Nat /\ least <= left BY <1>2, <1>3, MinBelow
<1> HIDE DEF least
<1>5. /\ least \div Granularity \in Nat
      /\ (least \div Granularity) * Granularity <= least
  BY <1>4, TermsAreNumbers, DivisionBelow
<1>6. TokenAmount(value) = (least \div Granularity) * Granularity
  BY DEF TokenAmount, least, wanted, left
<1>7. TokenAmount(value) \in Nat
  BY <1>5, <1>6, TermsAreNumbers
<1>8. TokenAmount(value) <= left BY <1>3, <1>4, <1>5, <1>6, <1>7
<1>9. TokenAmount(value) % Granularity = 0
  BY <1>5, <1>6, TermsAreNumbers, WholeGrains
<1>10. QED BY <1>7, <1>8, <1>9, TermsAreNumbers DEF left

\* The cost is the price rounded down.
LEMMA CostBounds ==
  ASSUME TypeOK, NEW t \in Nat
  PROVE  /\ Cost(t) \in Nat
         /\ Cost(t) * rate <= t * Unit
         /\ t * Unit < Cost(t) * rate + rate
<1>1. t * Unit \in Nat BY TermsAreNumbers
<1>2. rate \in Nat /\ rate > 0 BY TermsAreNumbers
<1>3. QED BY <1>1, <1>2, DivisionBelow DEF Cost

\* Bounds of sums of prices: one purchase more.
LEMMA PriceOfSum ==
  ASSUME NEW funds \in Nat, NEW cost \in Nat, NEW sold \in Nat, NEW t \in Nat,
         NEW n \in Nat, NEW r \in Nat, NEW u \in Nat,
         funds * r <= sold * u, cost * r <= t * u,
         sold * u <= (funds + n) * r, t * u < cost * r + r
  PROVE  /\ (funds + cost) * r <= (sold + t) * u
         /\ (sold + t) * u < (funds + cost + (n + 1)) * r
<1>1. (funds + cost) * r = funds * r + cost * r BY SMT
<1>2. (sold + t) * u = sold * u + t * u BY SMT
<1>3. (funds + cost + (n + 1)) * r = (funds + n) * r + (cost * r + r) BY SMT
<1>4. /\ funds * r \in Nat /\ cost * r \in Nat /\ sold * u \in Nat
      /\ t * u \in Nat /\ (funds + n) * r \in Nat
  BY SMT
<1>5. QED BY <1>1, <1>2, <1>3, <1>4

-----------------------------------------------------------------------------
LEMMA InitCorrect == Init => SInv
<1> SUFFICES ASSUME Init PROVE SInv
  OBVIOUS
<1>1. TypeOK
  <2>1. now \in 0..MaxTime /\ startTime \in 0..MaxTime
    BY SaleAssumption DEF Init
  <2>2. endTime \in 0..MaxTime BY <2>1, SaleAssumption DEF Init
  <2>3. investors \in [Investor -> Nat] BY DEF Init
  <2>4. {investorCount, totalTokensSold, fundsRaised, purchases} \subseteq Nat
    BY DEF Init
  <2>5. QED BY <2>1, <2>2, <2>3, <2>4 DEF Init, TypeOK
<1>2. PriceKept BY <1>1, TermsAreNumbers DEF Init, PriceKept
<1>3. SaleAdds
  <2>1. /\ IsFiniteSet(Investor) /\ DOMAIN investors = Investor
        /\ \A b \in Investor : investors[b] = 0
    BY SaleAssumption DEF Init
  <2>2. SumFunction(investors) = 0 BY <2>1, SumZero DEF SumFunction
  <2>3. {b \in Investor : investors[b] > 0} = {} BY <2>1
  <2>4. Cardinality({}) = 0 BY FS_EmptySet
  <2>5. totalTokensSold <= cap BY <1>1, TermsAreNumbers DEF Init
  <2>6. 0 % Granularity = 0 BY SaleAssumption
  <2>7. QED BY <2>1, <2>2, <2>3, <2>4, <2>5, <2>6 DEF Init, SaleAdds
<1>4. QED BY <1>1, <1>2, <1>3 DEF SInv

LEMMA BuyKeeps ==
  ASSUME SInv, NEW funder, NEW b \in Investor, NEW value \in Value,
         Buy(funder, b, value)
  PROVE  SInv'
<1> DEFINE t == TokenAmount(value)
<1>1. value \in Nat BY SaleAssumption
<1>2. t \in Nat /\ t % Granularity = 0 /\ totalTokensSold + t <= cap
  BY <1>1, AmountFitsCap DEF SInv
<1>3. /\ Cost(t) \in Nat
      /\ Cost(t) * rate <= t * Unit /\ t * Unit < Cost(t) * rate + rate
  BY <1>2, CostBounds DEF SInv
<1>4. /\ fundsRaised' = fundsRaised + Cost(t)
      /\ totalTokensSold' = totalTokensSold + t
      /\ purchases' = purchases + 1
      /\ t > 0
      /\ ProcessPurchase(b, t)
      /\ UNCHANGED <<now, terms, paused, allowBeneficialInvestments, barred>>
  BY DEF Buy
<1> HIDE DEF t
<1>5. TypeOK'
  <2>1. /\ investors' \in [Investor -> Nat]
        /\ investorCount' \in Nat
    BY <1>2, <1>4 DEF SInv, TypeOK, ProcessPurchase
  <2>2. /\ fundsRaised' \in Nat /\ totalTokensSold' \in Nat /\ purchases' \in Nat
    BY <1>2, <1>3, <1>4, TermsAreNumbers DEF SInv
  <2>3. QED BY <1>4, <2>1, <2>2 DEF SInv, TypeOK, terms
<1>6. PriceKept'
  <2>1. /\ fundsRaised * rate <= totalTokensSold * Unit
        /\ totalTokensSold * Unit <= (fundsRaised + purchases) * rate
    BY DEF SInv, PriceKept
  <2>2. /\ (fundsRaised + Cost(t)) * rate <= (totalTokensSold + t) * Unit
        /\ (totalTokensSold + t) * Unit
             < (fundsRaised + Cost(t) + (purchases + 1)) * rate
    BY <1>2, <1>3, <2>1, TermsAreNumbers, PriceOfSum DEF SInv
  <2>3. rate' = rate BY <1>4 DEF terms
  <2>4. /\ fundsRaised' * rate' <= totalTokensSold' * Unit
        /\ totalTokensSold' * Unit < (fundsRaised' + purchases') * rate'
    BY <1>4, <2>2, <2>3
  <2>5. /\ totalTokensSold' * Unit \in Nat
        /\ (fundsRaised' + purchases') * rate' \in Nat
    BY <1>5, <2>3, TermsAreNumbers DEF TypeOK, SInv
  <2>6. QED BY <2>4, <2>5 DEF PriceKept
<1>7. SaleAdds'
  <2>1. /\ investors \in [Investor -> Nat] /\ investors' \in [Investor -> Nat]
        /\ \A x \in Investor \ {b} : investors'[x] = investors[x]
        /\ investors'[b] = investors[b] + t
    BY <1>2, <1>4, <1>5 DEF SInv, TypeOK, ProcessPurchase
  <2>2. SumFunction(investors') = SumFunction(investors) + t
    BY <1>2, <2>1, SaleAssumption, SumChange DEF SumFunction
  <2>3. totalTokensSold' = SumFunction(investors')
    BY <1>4, <2>2 DEF SInv, SaleAdds
  <2>4. totalTokensSold' <= cap' BY <1>2, <1>4 DEF terms
  <2>5. \A x \in Investor : investors'[x] % Granularity = 0
    BY <1>2, <2>1, GrainsAdd, SaleAssumption, SMTT(30) DEF SInv, SaleAdds
  <2> DEFINE holders == {x \in Investor : investors[x] > 0}
  <2>6. {x \in Investor : investors'[x] > 0} = holders \cup {b}
    BY <1>2, <1>4, <2>1
  <2>7. IsFiniteSet(holders) BY SaleAssumption, FS_Subset
  <2>8. Cardinality(holders \cup {b}) =
          IF b \in holders THEN Cardinality(holders) ELSE Cardinality(holders) + 1
    BY <2>7, FS_AddElement
  <2>9. investorCount' = IF b \in holders THEN investorCount ELSE investorCount + 1
    BY <1>4, <2>1 DEF ProcessPurchase
  <2>10. investorCount' = Cardinality({x \in Investor : investors'[x] > 0})
    BY <2>6, <2>8, <2>9 DEF SInv, SaleAdds
  <2>11. QED BY <2>3, <2>4, <2>5, <2>10 DEF SaleAdds
<1>8. QED BY <1>5, <1>6, <1>7 DEF SInv

LEMMA StepKeeps == SInv /\ [Next]_vars => SInv'
<1> SUFFICES ASSUME SInv, [Next]_vars PROVE SInv'
  OBVIOUS
<1>1. ASSUME NEW funder \in Investor, NEW b \in Investor, NEW value \in Value,
             Buy(funder, b, value)
      PROVE  SInv'
  BY <1>1, BuyKeeps
<1>2. ASSUME UNCHANGED <<terms, books>>, TypeOK' PROVE SInv'
  BY <1>2 DEF SInv, PriceKept, SaleAdds, terms, books
<1>3. CASE ChangeAllowBeneficialInvestments
  <2>1. TypeOK' BY <1>3
    DEF SInv, TypeOK, ChangeAllowBeneficialInvestments, terms, books
  <2>2. QED BY <1>2, <1>3, <2>1 DEF ChangeAllowBeneficialInvestments
<1>4. ASSUME NEW value \in BOOLEAN, SetPaused(value) PROVE SInv'
  <2>1. TypeOK' BY <1>4 DEF SInv, TypeOK, SetPaused, terms, books
  <2>2. QED BY <1>2, <1>4, <2>1 DEF SetPaused
<1>5. ASSUME NEW b \in Investor, ModifyInvestorFlag(b) PROVE SInv'
  <2>1. TypeOK' BY <1>5 DEF SInv, TypeOK, ModifyInvestorFlag, terms, books
  <2>2. QED BY <1>2, <1>5, <2>1 DEF ModifyInvestorFlag
<1>6. CASE Tick
  <2>1. now' \in 0..MaxTime BY <1>6, SaleAssumption DEF SInv, TypeOK, Tick
  <2>2. TypeOK' BY <1>6, <2>1 DEF SInv, TypeOK, Tick, terms, books
  <2>3. QED BY <1>2, <1>6, <2>2 DEF Tick
<1>7. CASE UNCHANGED vars
  <2>1. TypeOK' BY <1>7 DEF SInv, TypeOK, vars, terms, books
  <2>2. QED BY <1>2, <1>7, <2>1 DEF vars
<1>8. QED BY <1>1, <1>3, <1>4, <1>5, <1>6, <1>7 DEF Next

LEMMA SInvAlways == Spec => []SInv
BY InitCorrect, StepKeeps, PTL DEF Spec

\* buyTokens and buyTokensWithPoly never raise more than the price of the tokens
\* sold, and lose less than a unit of currency with each purchase.
THEOREM PriceIsKept == Spec => []PriceKept
<1>1. SInv => PriceKept BY DEF SInv
<1>2. QED BY <1>1, SInvAlways, PTL

\* Every purchase that _getTokenAmount cuts to the cap and to whole grains leaves
\* the tokens sold equal to those of the investors, within the cap and in whole
\* grains, and counts who bought once.
THEOREM SaleAlwaysAdds == Spec => []SaleAdds
<1>1. SInv => SaleAdds BY DEF SInv
<1>2. QED BY <1>1, SInvAlways, PTL
=============================================================================
