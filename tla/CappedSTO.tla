------------------------------- MODULE CappedSTO -------------------------------
(***************************************************************************)
(* modules/STO/Capped/CappedSTO.sol: up to cap tokens sold at one rate for *)
(* one currency, with what the cap or the grains of the token leave over   *)
(* sent back.  Unit stands for 10 ** 18.                                   *)
(***************************************************************************)
EXTENDS Naturals, FiniteSets, FiniteSetsExt, Functions

CONSTANTS
  Investor, Unit, Granularity,
  Cap, Rate,      \* the choices of the issuer
  Value,          \* amounts offered
  MaxTime

ASSUME SaleAssumption ==
  /\ Unit \in Nat \ {0} /\ Granularity \in Nat \ {0}
  /\ MaxTime \in Nat
  /\ IsFiniteSet(Investor)
  /\ Cap \subseteq Nat /\ Rate \subseteq Nat /\ Value \subseteq Nat

VARIABLES
  now, startTime, endTime, paused, cap, rate,
  fundRaiseType,
  allowBeneficialInvestments,
  barred,               \* investors the data store flags as unable to buy
  investors,            \* tokens each investor bought
  investorCount, totalTokensSold, fundsRaised,
  purchases             \* auxiliary: the number of purchases

terms == <<startTime, endTime, cap, rate, fundRaiseType>>
books == <<investors, investorCount, totalTokensSold, fundsRaised, purchases>>
vars == <<now, terms, paused, allowBeneficialInvestments, barred, books>>

\* After configure.
Init ==
  /\ now = 0
  /\ startTime \in 0..MaxTime /\ endTime \in (startTime + 1)..MaxTime
  /\ paused = FALSE
  /\ cap \in Cap \ {0} /\ rate \in Rate \ {0}
  /\ fundRaiseType \in {"ETH", "POLY"}
  /\ allowBeneficialInvestments = FALSE
  /\ barred \in SUBSET Investor
  /\ investors = [b \in Investor |-> 0]
  /\ investorCount = 0
  /\ totalTokensSold = 0
  /\ fundsRaised = 0
  /\ purchases = 0

ChangeAllowBeneficialInvestments ==
  /\ allowBeneficialInvestments' = ~allowBeneficialInvestments
  /\ UNCHANGED <<now, terms, paused, barred, books>>

SetPaused(value) ==
  /\ paused = ~value
  /\ value => now < endTime
  /\ paused' = value
  /\ UNCHANGED <<now, terms, allowBeneficialInvestments, barred, books>>

\* The flag is kept by the general transfer manager.
ModifyInvestorFlag(b) ==
  /\ barred' = IF b \in barred THEN barred \ {b} ELSE barred \cup {b}
  /\ UNCHANGED <<now, terms, paused, allowBeneficialInvestments, books>>

Tick ==
  /\ now < MaxTime
  /\ now' = now + 1
  /\ UNCHANGED <<terms, paused, allowBeneficialInvestments, barred, books>>

-----------------------------------------------------------------------------
\* TokenAmount that rounds to grains before the cut to the cap.
TokenAmountCutLast(investedAmount) ==
  Min({(((investedAmount * rate) \div Unit) \div Granularity) * Granularity,
       cap - totalTokensSold})

\* _getTokenAmount
TokenAmount(investedAmount) ==
  (Min({(investedAmount * rate) \div Unit, cap - totalTokensSold})
     \div Granularity) * Granularity

\* Cost rounded up.
CostAbove(tokens) == (tokens * Unit + rate - 1) \div rate

\* What remains of the investment after the refund.
Cost(tokens) == (tokens * Unit) \div rate

ProcessPurchase(b, tokens) ==
  /\ investorCount' = IF investors[b] = 0 THEN investorCount + 1 ELSE investorCount
  /\ investors' = [investors EXCEPT ![b] = @ + tokens]

PreValidatePurchase(b, investedAmount) ==
  /\ investedAmount # 0
  /\ b \notin barred
  /\ startTime <= now /\ now <= endTime

\* buyTokens and buyTokensWithPoly, in which the buyer is the beneficiary
Buy(funder, b, investedAmount) ==
  LET tokens == TokenAmount(investedAmount) IN
  /\ ~paused
  /\ funder = b \/ (allowBeneficialInvestments /\ fundRaiseType = "ETH")
  /\ PreValidatePurchase(b, investedAmount)
  /\ tokens > 0
  /\ Cost(tokens) <= investedAmount
  /\ fundsRaised' = fundsRaised + Cost(tokens)
  /\ totalTokensSold' = totalTokensSold + tokens
  /\ ProcessPurchase(b, tokens)
  /\ purchases' = purchases + 1
  /\ UNCHANGED <<now, terms, paused, allowBeneficialInvestments, barred>>

Next ==
  \/ ChangeAllowBeneficialInvestments
  \/ \E value \in BOOLEAN : SetPaused(value)
  \/ \E b \in Investor : ModifyInvestorFlag(b)
  \/ \E funder, b \in Investor, value \in Value : Buy(funder, b, value)
  \/ Tick

Spec == Init /\ [][Next]_vars

-----------------------------------------------------------------------------
TypeOK ==
  /\ now \in 0..MaxTime /\ startTime \in 0..MaxTime /\ endTime \in 0..MaxTime
  /\ paused \in BOOLEAN /\ allowBeneficialInvestments \in BOOLEAN
  /\ cap \in Cap \ {0} /\ rate \in Rate \ {0} /\ fundRaiseType \in {"ETH", "POLY"}
  /\ barred \subseteq Investor
  /\ investors \in [Investor -> Nat]
  /\ {investorCount, totalTokensSold, fundsRaised, purchases} \subseteq Nat

\* Tokens sold are those of the investors and fit the cap, in whole grains for
\* everybody, whatever purchases the cap and the grains have cut; and those who
\* bought are counted once.
SaleAdds ==
  /\ totalTokensSold = SumFunction(investors)
  /\ totalTokensSold <= cap
  /\ \A b \in Investor : investors[b] % Granularity = 0
  /\ investorCount = Cardinality({b \in Investor : investors[b] > 0})

\* The funds are the price of the tokens sold: nobody paid more than the rate
\* asks for, and each purchase lost the sale less than one unit of currency.
PriceKept ==
  /\ fundsRaised * rate <= totalTokensSold * Unit
  /\ totalTokensSold * Unit <= (fundsRaised + purchases) * rate
  /\ purchases > 0 => totalTokensSold * Unit < (fundsRaised + purchases) * rate
=============================================================================
