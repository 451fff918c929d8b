------------------------------ MODULE HolderLimits ------------------------------
(***************************************************************************)
(* CTM/CountTransferManager.sol and PTM/PercentageTransferManager.sol on a *)
(* token: how many holders it may have, and which share of the supply a    *)
(* holder may get.  The token counts its holders before it asks, and moves *)
(* the balances after.                                                     *)
(***************************************************************************)
EXTENDS Batches, Functions

CONSTANTS
  TokenHolder,     \* accounts
  NoAccount        \* the zero address, from which tokens are issued

Party == TokenHolder \cup {NoAccount}

NoLimits(maxCount, maxPercentage) ==
  [balance   |-> [p \in Party |-> 0],
   count     |-> 0,                  \* holderCount of the token
   maxCount  |-> maxCount,
   maxShare  |-> maxPercentage,      \* maxHolderPercentage
   whitelist |-> {},
   primary   |-> FALSE]              \* allowPrimaryIssuance

SupplyOf(b) == SumFunction(b.balance)

\* TokenLib.adjustInvestorCount
AdjustedCount(b, from, to, amount) ==
  IF amount = 0 \/ from = to THEN b.count
  ELSE b.count + (IF to # NoAccount /\ b.balance[to] = 0 THEN 1 ELSE 0)
               - (IF amount = b.balance[from] THEN 1 ELSE 0)

CountForbids(b, from, to, amount, count) ==
  /\ b.maxCount < count
  /\ b.balance[to] = 0
  /\ b.balance[from] # amount

\* Mutant: a transfer to oneself counts as one to somebody else.
CountVerifySelf(b, from, to, amount) ==
  LET joins == to # NoAccount /\ b.balance[to] = 0
      leaves == amount = b.balance[from]
  IN  ~CountForbids(b, from, to, amount,
                    IF amount # 0 THEN b.count + (IF joins THEN 1 ELSE 0)
                                               - (IF leaves THEN 1 ELSE 0)
                                  ELSE b.count)

\* CountTransferManager.verifyTransfer does not get the count after the transfer
\* and works it out itself; executeTransfer reads it from the token.
CountVerify(b, from, to, amount) ==
  LET joins == to # NoAccount /\ b.balance[to] = 0
      leaves == amount = b.balance[from]
      count == IF amount # 0 /\ from # to
                 THEN b.count + (IF joins THEN 1 ELSE 0) - (IF leaves THEN 1 ELSE 0)
                 ELSE b.count
  IN  ~CountForbids(b, from, to, amount, count)

CountExecute(b, from, to, amount) ==
  ~CountForbids(b, from, to, amount, AdjustedCount(b, from, to, amount))

\* Mutant: the share before the transfer is compared.
ShareAllowsBefore(b, from, to, amount) ==
  \/ from = NoAccount /\ b.primary
  \/ to \in b.whitelist
  \/ SupplyOf(b) > 0 /\ (b.balance[to] * 100) \div SupplyOf(b) <= b.maxShare

\* Without any supply the share is a division by zero, which reverts.
ShareAllows(b, from, to, amount) ==
  \/ from = NoAccount /\ b.primary
  \/ to \in b.whitelist
  \/ SupplyOf(b) > 0 /\ ((b.balance[to] + amount) * 100) \div SupplyOf(b) <= b.maxShare

\* transfer, issue (from the zero address) and redeem (to it) of the token.
TransferTokens(b, from, to, amount) ==
  LET count == AdjustedCount(b, from, to, amount)
      after == [b EXCEPT !.count = count]
      moved == IF from = NoAccount THEN b.balance
               ELSE [b.balance EXCEPT ![from] = @ - amount]
  IN  IF /\ from # NoAccount => amount <= b.balance[from]
         /\ CountExecute(b, from, to, amount)
         /\ ShareAllows(b, from, to, amount)
        THEN {[after EXCEPT !.balance =
                 IF to = NoAccount THEN moved ELSE [moved EXCEPT ![to] = @ + amount]]}
        ELSE {}

-----------------------------------------------------------------------------

\* The same value again reverts.
SetAllowPrimaryIssuance(b, allow) ==
  IF allow # b.primary THEN {[b EXCEPT !.primary = allow]} ELSE {}

ModifyWhitelist(b, p, valid) ==
  {[b EXCEPT !.whitelist = IF valid THEN @ \cup {p} ELSE @ \ {p}]}

\* What one record of a call does.
LimitsChange(b, op, row) ==
  CASE op = "changeHolderCount" -> {[b EXCEPT !.maxCount = row[1]]}
    [] op = "changeHolderPercentage" -> {[b EXCEPT !.maxShare = row[1]]}
    [] op = "modifyWhitelist" -> ModifyWhitelist(b, row[1], row[2])
    [] op = "setAllowPrimaryIssuance" -> SetAllowPrimaryIssuance(b, row[1])
    [] op = "transfer" -> TransferTokens(b, row[1], row[2], row[3])

LimitsAfter(b, call) ==
  InTurn(b, call.rows, LAMBDA book, row : LimitsChange(book, call.op, row))

=============================================================================
