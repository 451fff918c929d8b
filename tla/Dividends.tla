------------------------------- MODULE Dividends -------------------------------
(***************************************************************************)
(* modules/Checkpoint/Dividend: money paid out in proportion to balances   *)
(* of the past.  DividendCheckpoint has the common part; the two contracts *)
(* built on it pay in an ERC20 currency or in Ether, which differ in what  *)
(* becomes of a payment that fails.  The token is the ledger with full     *)
(* copies of SnapshotLedger, which SecurityToken implements.               *)
(***************************************************************************)
EXTENDS SnapshotLedger, FiniteSets, Functions

CONSTANTS
  Currency,       \* the ERC20 tokens dividends are paid in, or Ether alone
  Rate,           \* e18: the rate at which all of a claim is withheld
  RateChoice,     \* rates the issuer may set
  Deposit,        \* amounts the issuer may deposit for a dividend
  MaxCheckpoint,  \* bound on the number of checkpoints
  MaxDividend,    \* bound on the number of dividends
  MaxBatch,       \* bound on the number of payees of a batch
  MaxTime         \* bound on the clock

ASSUME AccountAssumption == IsFiniteSet(Account) /\ UintMax \in Nat /\ MaxTaken \in Nat
ASSUME RateAssumption == Rate \in Nat \ {0} /\ RateChoice \subseteq Nat
ASSUME DepositAssumption == Deposit \subseteq Nat \ {0}
ASSUME BoundsAssumption ==
  MaxCheckpoint \in Nat /\ MaxDividend \in Nat /\ MaxBatch \in Nat /\ MaxTime \in Nat

VARIABLES
  ether,           \* TRUE: EtherDividendCheckpoint, FALSE: ERC20...
  dividends,       \* the array of dividends
  withholdingTax,  \* the rate of each account, of Rate
  funds,           \* what the contract holds of each currency
  received,        \* what each account was paid of each currency
  drained,         \* currencies the owner took out by reclaimERC20 or reclaimETH
  paused,
  now

money == <<funds, received>>
moduleVars == <<dividends, withholdingTax, money, drained, paused, ether>>
varsD == <<book, moduleVars, now>>

Time == 0..MaxTime
Index == DOMAIN dividends

InitModule ==
  /\ dividends = <<>>
  /\ withholdingTax = [a \in Account |-> 0]
  /\ funds = [c \in Currency |-> 0]
  /\ received = [c \in Currency |-> [a \in Account |-> 0]]
  /\ drained = {}
  /\ ether \in BOOLEAN /\ (ether => Cardinality(Currency) = 1)
  /\ paused = FALSE
  /\ now = 0

InitD == Init /\ InitModule

-----------------------------------------------------------------------------
(* Reading the past of the token.                                          *)

BalanceOfAt(a, id) == book.history[id].balances[a]

\* Share of the balance of today, and Share that rounds up.
ShareOfToday(d, a) == (book.balances[a] * d.amount) \div d.totalSupply

\* calculateDividend: what a gets of dividend d before tax, and what of it is
\* withheld at the rate of the moment
Share(d, a) == (BalanceOfAt(a, d.checkpointId) * d.amount) \div d.totalSupply

ToWithhold(d, a) == (Share(d, a) * withholdingTax[a]) \div Rate

-----------------------------------------------------------------------------
(* Creating a dividend.                                                    *)

\* NewDividend that divides by the supply with the excluded accounts.
NewDividendOfAll(id, maturity, expiry, amount, excluded, currency) ==
  [checkpointId |-> id, maturity |-> maturity, expiry |-> expiry,
   amount |-> amount, claimedAmount |-> 0,
   totalSupply |-> book'.history[id].supply,
   reclaimed |-> FALSE, totalWithheld |-> 0, totalWithheldWithdrawn |-> 0,
   claimed |-> {}, dividendExcluded |-> excluded,
   withheld |-> [a \in Account |-> 0], token |-> currency]

NewDividend(id, maturity, expiry, amount, excluded, currency) ==
  [checkpointId |-> id, maturity |-> maturity, expiry |-> expiry,
   amount |-> amount, claimedAmount |-> 0,
   totalSupply |-> book'.history[id].supply
                     - SumFunctionOnSet(book'.history[id].balances, excluded),
   reclaimed |-> FALSE, totalWithheld |-> 0, totalWithheldWithdrawn |-> 0,
   claimed |-> {}, dividendExcluded |-> excluded,
   withheld |-> [a \in Account |-> 0], token |-> currency]

\* _createDividendWithCheckpointAndExclusions on a checkpoint of book'.  The
\* variants without exclusions pass the default list of setDefaultExcluded,
\* which is any list, too.
Create(id, maturity, expiry, amount, excluded, currency) ==
  /\ Len(dividends) < MaxDividend
  /\ expiry > maturity /\ expiry > now
  /\ book'.history[id].supply > SumFunctionOnSet(book'.history[id].balances, excluded)
  /\ dividends' = Append(dividends,
       NewDividend(id, maturity, expiry, amount, excluded, currency))
  /\ funds' = [funds EXCEPT ![currency] = @ + amount]
  /\ UNCHANGED <<withholdingTax, received, drained, paused, ether, now>>

\* createDividendWithCheckpoint, createDividendWithCheckpointAndExclusions.
\* Checkpoint 0 has no supply, so that it is refused.
CreateDividendWithCheckpoint(id, maturity, expiry, amount, excluded, currency) ==
  /\ id \in DOMAIN book.history
  /\ UNCHANGED book
  /\ Create(id, maturity, expiry, amount, excluded, currency)

\* createDividend, createDividendWithExclusions
CreateDividend(maturity, expiry, amount, excluded, currency) ==
  /\ Len(book.history) < MaxCheckpoint
  /\ book' = Take(book, 1)
  /\ Create(Len(book.history) + 1, maturity, expiry, amount, excluded, currency)

-----------------------------------------------------------------------------
(* Paying it.  A state of payment P has the dividend, what the contract     *)
(* holds of its currency and what each account received of it.             *)

IsDue(d, a) == a \notin d.claimed /\ a \notin d.dividendExcluded

Paid(P, a) ==
  LET share == Share(P.dividend, a)
      withheld == ToWithhold(P.dividend, a)
  IN  [dividend |-> [P.dividend EXCEPT
         !.claimed = @ \cup {a},
         !.claimedAmount = @ + share,
         !.totalWithheld = @ + withheld,
         !.withheld[a] = withheld],
       funds |-> P.funds - (share - withheld),
       received |-> [P.received EXCEPT ![a] = @ + (share - withheld)]]

\* _payDividend of Ether: if send fails the account stays unpaid and its claim
\* remains open.  accepts are the accounts that accept a payment.
PayEther(P, a, accepts) ==
  IF /\ a \in accepts
     /\ Share(P.dividend, a) - ToWithhold(P.dividend, a) <= P.funds
  THEN Paid(P, a)
  ELSE P

\* _payDividend of ERC20: a transfer that fails reverts the whole call, see
\* NothingReverts.
PayOne(P, a, accepts) == IF ether THEN PayEther(P, a, accepts) ELSE Paid(P, a)

\* PayAll that asks who is due before it pays anyone.
PayAllAskingFirst(P, payees, accepts) ==
  LET after[k \in 0..Len(payees)] ==
        IF k = 0 THEN P
        ELSE IF IsDue(P.dividend, payees[k])
             THEN PayOne(after[k - 1], payees[k], accepts)
             ELSE after[k - 1]
  IN  after[Len(payees)]

\* The loops of pushDividendPayment and pushDividendPaymentToAddresses skip who
\* was paid already, earlier in the same batch, too, and who is excluded.
PayAll(P, payees, accepts) ==
  LET after[k \in 0..Len(payees)] ==
        IF k = 0 THEN P
        ELSE IF IsDue(after[k - 1].dividend, payees[k])
             THEN PayOne(after[k - 1], payees[k], accepts)
             ELSE after[k - 1]
  IN  after[Len(payees)]

\* Nothing to transfer is no transfer for ERC20.
NothingReverts(P, payees, accepts) ==
  ether \/ /\ PayAll(P, payees, accepts).funds >= 0
           /\ \A i \in DOMAIN payees :
                \/ ~IsDue(P.dividend, payees[i])
                \/ payees[i] \in accepts
                \/ Share(P.dividend, payees[i]) = ToWithhold(P.dividend, payees[i])

ValidDividendIndex(i) ==
  /\ i \in Index
  /\ ~dividends[i].reclaimed
  /\ dividends[i].maturity <= now /\ now < dividends[i].expiry

PaymentOf(i) ==
  [dividend |-> dividends[i], funds |-> funds[dividends[i].token],
   received |-> received[dividends[i].token]]

\* pushDividendPayment, for investors at the checkpoint, and
\* pushDividendPaymentToAddresses, for anyone
Push(i, payees, accepts) ==
  LET after == PayAll(PaymentOf(i), payees, accepts) IN
  /\ ValidDividendIndex(i)
  /\ NothingReverts(PaymentOf(i), payees, accepts)
  /\ dividends' = [dividends EXCEPT ![i] = after.dividend]
  /\ funds' = [funds EXCEPT ![dividends[i].token] = after.funds]
  /\ received' = [received EXCEPT ![dividends[i].token] = after.received]
  /\ UNCHANGED <<book, withholdingTax, drained, paused, ether, now>>

PullDividendPayment(i, a, accepts) ==
  /\ ~paused
  /\ i \in Index /\ IsDue(dividends[i], a)
  /\ Push(i, <<a>>, accepts)

-----------------------------------------------------------------------------
(* What is left, and what is withheld, goes to the treasury wallet.        *)

\* ReclaimDividend that may be repeated.
ReclaimDividendAgain(i) ==
  LET remaining == dividends[i].amount - dividends[i].claimedAmount IN
  /\ i \in Index
  /\ now >= dividends[i].expiry
  /\ remaining \in 0..funds[dividends[i].token]
  /\ dividends' = [dividends EXCEPT ![i].reclaimed = TRUE]
  /\ funds' = [funds EXCEPT ![dividends[i].token] = @ - remaining]
  /\ UNCHANGED <<book, withholdingTax, received, drained, paused, ether, now>>

ReclaimDividend(i) ==
  LET remaining == dividends[i].amount - dividends[i].claimedAmount IN
  /\ i \in Index
  /\ now >= dividends[i].expiry
  /\ ~dividends[i].reclaimed
  /\ remaining \in 0..funds[dividends[i].token]
  /\ dividends' = [dividends EXCEPT ![i].reclaimed = TRUE]
  /\ funds' = [funds EXCEPT ![dividends[i].token] = @ - remaining]
  /\ UNCHANGED <<book, withholdingTax, received, drained, paused, ether, now>>

WithdrawWithholding(i) ==
  LET remaining ==
        dividends[i].totalWithheld - dividends[i].totalWithheldWithdrawn IN
  /\ i \in Index
  /\ remaining \in 0..funds[dividends[i].token]
  /\ dividends' = [dividends EXCEPT
       ![i].totalWithheldWithdrawn = dividends[i].totalWithheld]
  /\ funds' = [funds EXCEPT ![dividends[i].token] = @ - remaining]
  /\ UNCHANGED <<book, withholdingTax, received, drained, paused, ether, now>>

\* Module.reclaimERC20 and reclaimETH: the owner takes all there is.
Reclaim(c) ==
  /\ funds' = [funds EXCEPT ![c] = 0]
  /\ drained' = drained \cup {c}
  /\ UNCHANGED <<book, dividends, withholdingTax, received, paused, ether, now>>

-----------------------------------------------------------------------------
(* Settings.                                                               *)

\* setWithholding and setWithholdingFixed, one account at a time
SetWithholding(a, rate) ==
  /\ rate <= Rate
  /\ withholdingTax' = [withholdingTax EXCEPT ![a] = rate]
  /\ UNCHANGED <<book, dividends, money, drained, paused, ether, now>>

\* UpdateDividendDates of a dividend that has expired.
UpdateDividendDatesLate(i, maturity, expiry) ==
  /\ i \in Index
  /\ expiry > maturity
  /\ dividends' = [dividends EXCEPT ![i].maturity = maturity, ![i].expiry = expiry]
  /\ UNCHANGED <<book, withholdingTax, money, drained, paused, ether, now>>

UpdateDividendDates(i, maturity, expiry) ==
  /\ i \in Index
  /\ expiry > maturity
  /\ dividends[i].expiry > now
  /\ dividends' = [dividends EXCEPT ![i].maturity = maturity, ![i].expiry = expiry]
  /\ UNCHANGED <<book, withholdingTax, money, drained, paused, ether, now>>

PauseOrUnpause ==
  /\ paused' = ~paused
  /\ UNCHANGED <<book, dividends, withholdingTax, money, drained, ether, now>>

-----------------------------------------------------------------------------
TokenStep ==
  /\ Next
  /\ Len(book'.history) <= MaxCheckpoint
  /\ UNCHANGED <<moduleVars, now>>

Tick ==
  /\ now < MaxTime
  /\ now' = now + 1
  /\ UNCHANGED <<book, moduleVars>>

Payees == UNION {[1..n -> Account] : n \in 1..MaxBatch}

CreateNext ==
  \E maturity, expiry \in Time, amount \in Deposit,
     excluded \in SUBSET Account, currency \in Currency :
    \/ CreateDividend(maturity, expiry, amount, excluded, currency)
    \/ \E id \in 1..MaxCheckpoint :
         CreateDividendWithCheckpoint(id, maturity, expiry, amount, excluded,
                                      currency)

PayNext ==
  \E i \in Index, accepts \in SUBSET Account :
    \/ \E payees \in Payees : Push(i, payees, accepts)
    \/ \E a \in Account : PullDividendPayment(i, a, accepts)

TreasuryNext == \E i \in Index : ReclaimDividend(i) \/ WithdrawWithholding(i)

SettingNext ==
  \/ \E a \in Account, rate \in RateChoice : SetWithholding(a, rate)
  \/ \E i \in Index, maturity, expiry \in Time :
       UpdateDividendDates(i, maturity, expiry)
  \/ PauseOrUnpause

NextD ==
  \/ TokenStep \/ Tick \/ CreateNext \/ PayNext
  \/ TreasuryNext \/ SettingNext \/ \E c \in Currency : Reclaim(c)

SpecD == InitD /\ [][NextD]_varsD

-----------------------------------------------------------------------------
Shares(d) == [a \in Account |-> Share(d, a)]

DueTo(d) == {a \in Account : IsDue(d, a)}

\* What is left of a dividend once everyone has claimed is never negative, so
\* that it suffices for everyone, and is less than one unit for each holder: the
\* issuer cannot reclaim a part that was meant for investors.  Whatever is
\* transferred after the checkpoint.
OnlyDustRemains ==
  \A i \in Index :
    LET d == dividends[i]
        holders == {a \in Account \ d.dividendExcluded :
                      BalanceOfAt(a, d.checkpointId) > 0}
        rest == d.amount - d.claimedAmount - SumFunctionOnSet(Shares(d), DueTo(d))
    IN  rest >= 0 /\ rest < Cardinality(holders)

\* Whoever counts as paid was paid his share once, less what is on record as
\* withheld, over all dividends in a currency, batches that name someone twice,
\* rates that change in between and payments that fail.
PaidExactly ==
  \A c \in Currency, a \in Account :
    LET net == [i \in Index |->
                  IF dividends[i].token = c /\ a \in dividends[i].claimed
                  THEN Share(dividends[i], a) - dividends[i].withheld[a]
                  ELSE 0]
    IN  received[c][a] = SumFunction(net)

\* What the contract owes for a dividend: the unclaimed rest until it is
\* reclaimed, and the tax until it is withdrawn.
Owed(d) ==
  (IF d.reclaimed THEN 0 ELSE d.amount - d.claimedAmount)
    + d.totalWithheld - d.totalWithheldWithdrawn

\* All dividends of a currency share one purse: unless the owner emptied it, it
\* holds exactly what is owed, so that no dividend is paid from another one's
\* money and every claim can be paid.
PurseCoversAll ==
  \A c \in Currency \ drained :
    funds[c] = SumFunction([i \in Index |-> IF dividends[i].token = c
                                            THEN Owed(dividends[i]) ELSE 0])

\* A dividend that has expired stays so: nobody is paid from it again, and
\* what the issuer finds to reclaim is final.
ExpiredIsFinal ==
  [][\A i \in Index : now >= dividends[i].expiry =>
       /\ now' >= dividends'[i].expiry
       /\ dividends'[i].claimed = dividends[i].claimed]_varsD
=============================================================================
