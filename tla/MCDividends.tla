------------------------------ MODULE MCDividends ------------------------------
(* Instances of Dividends for TLC.                                         *)
EXTENDS Dividends, TLC

CONSTANTS a1, a2

AllSymmetric == Permutations(Account)

\* All tokens issued, in any distribution, and one checkpoint taken.
InitSettled ==
  /\ \E balances \in [Account -> Amount] :
       LET supply == SumFunctionOnSet(balances, Account)
           issued == [balances |-> balances, supply |-> supply, history |-> <<>>]
       IN  supply = UintMax /\ book = Take(issued, 1)
  /\ InitModule

\* One dividend in Ether, of a token whose ledger is filled from nothing and
\* keeps moving; or several in ERC20, which share a purse, of a token that does
\* not move after its checkpoint.
InitFamilies == (InitD /\ ether) \/ (InitSettled /\ ~ether)

MovingNext == ether /\ NextD /\ Len(dividends') <= 1

PayoutNext ==
  /\ ~ether
  /\ \/ Tick \/ PayNext \/ TreasuryNext
     \/ \E a \in Account, rate \in RateChoice : SetWithholding(a, rate)
     \/ \E i \in Index, maturity, expiry \in Time :
          UpdateDividendDates(i, maturity, expiry)
     \/ \E maturity, expiry \in Time, amount \in Deposit,
           excluded \in SUBSET Account, currency \in Currency :
          CreateDividendWithCheckpoint(1, maturity, expiry, amount, excluded,
                                       currency)

FamiliesSpec == InitFamilies /\ [][MovingNext \/ PayoutNext]_varsD
=============================================================================
