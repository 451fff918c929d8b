----------------------------- MODULE TokenLedger -----------------------------
(***************************************************************************)
(* The bookkeeping of tokens/SecurityToken.sol as operators on a ledger    *)
(* record: the ERC20 balances, the count of holders, the investor lists of *)
(* the data stores and the per-investor checkpoints of libraries/TokenLib. *)
(* Every operator is one function of the source; the state machine that    *)
(* applies them is SecurityToken.tla.                                      *)
(***************************************************************************)
EXTENDS Checkpoints, FiniteSets

CONSTANTS
  Account,   \* the addresses that may hold tokens
  Zero,      \* address(0)
  UintMax,   \* uint(-1): the largest value of a uint256
  Store      \* the DataStore contracts deployed for this token

ASSUME AccountAssumption == IsFiniteSet(Account) /\ Zero \notin Account
ASSUME UintMaxAssumption == UintMax \in Nat \ {0}

Address == Account \cup {Zero}
Amount == 0..UintMax
Checkpoint == [checkpointId : Nat \ {0}, value : Amount]

Ledger ==
  [balances : [Address -> Amount],
   totalSupply : Amount,
   holderCount : Nat,
   currentCheckpointId : Nat,
   checkpointTotalSupply : Seq(Amount),
   checkpointBalances : [Address -> Seq(Checkpoint)],
   dataStore : Store,
   investors : [Store -> Seq(Account)],    \* the array INVESTORSKEY
   added : [Store -> SUBSET Account]]      \* WHITELIST data with `added' set

EmptyLedger(store) ==
  [balances |-> [a \in Address |-> 0],
   totalSupply |-> 0,
   holderCount |-> 0,
   currentCheckpointId |-> 0,
   checkpointTotalSupply |-> <<>>,
   checkpointBalances |-> [a \in Address |-> <<>>],
   dataStore |-> store,
   investors |-> [s \in Store |-> <<>>],
   added |-> [s \in Store |-> {}]]

-----------------------------------------------------------------------------
(* The getters of STGetter.                                                *)

BalanceOfAt(L, a, id) == ValueAt(L.checkpointBalances[a], id, L.balances[a])

TotalSupplyAt(L, id) == IF id = 0 THEN 0 ELSE L.checkpointTotalSupply[id]

BalancesAt(L, id) == [a \in Account |-> BalanceOfAt(L, a, id)]

\* getInvestors, with the token's data store set to store
Listed(L, store) ==
  {L.investors[store][i] : i \in DOMAIN L.investors[store]}

Holders(balances) == {a \in Account : balances[a] > 0}

\* The tokens of a distribution, one element for each unit held: its
\* cardinality is the sum of the balances.
TokenUnits(balances) ==
  {u \in Account \X (1..UintMax) : u[2] <= balances[u[1]]}

-----------------------------------------------------------------------------
(* What a movement of value from from to to does before the balances move. *)

Joins(L, from, to, value) ==
  value # 0 /\ from # to /\ to # Zero /\ L.balances[to] = 0

\* Leaves for a transfer to oneself, too.
LeavesToSelf(L, from, to, value) == value # 0 /\ value = L.balances[from]

Leaves(L, from, to, value) ==
  value # 0 /\ from # to /\ value = L.balances[from]

IsExistingInvestor(L, a) == a \in L.added[L.dataStore]

\* The data store lists a the first time it is seen, here and in
\* GeneralTransferManager._modifyKYCData.
ListInvestor(L, a) ==
  IF IsExistingInvestor(L, a) THEN L
  ELSE [L EXCEPT !.investors[L.dataStore] = Append(@, a),
                 !.added[L.dataStore] = @ \cup {a}]

\* AdjustInvestorCount that counts a new holder and does not list it.
AdjustInvestorCountOnly(L, from, to, value) ==
  [L EXCEPT
     !.holderCount = @ + (IF Joins(L, from, to, value) THEN 1 ELSE 0)
                       - (IF Leaves(L, from, to, value) THEN 1 ELSE 0)]

AdjustInvestorCount(L, from, to, value) ==
  LET joined == IF Joins(L, from, to, value) THEN ListInvestor(L, to) ELSE L
  IN  [joined EXCEPT
         !.holderCount = @ + (IF Joins(L, from, to, value) THEN 1 ELSE 0)
                           - (IF Leaves(L, from, to, value) THEN 1 ELSE 0)]

\* CreateCheckpoints that records a total supply only if there is one.
CreateCheckpointsOfTokens(L, k) ==
  [L EXCEPT !.currentCheckpointId = @ + k,
            !.checkpointTotalSupply =
              IF L.totalSupply = 0 THEN @ ELSE @ \o [i \in 1..k |-> L.totalSupply]]

\* k calls of createCheckpoint: each takes the total supply of the moment.
CreateCheckpoints(L, k) ==
  [L EXCEPT !.currentCheckpointId = @ + k,
            !.checkpointTotalSupply = @ \o [i \in 1..k |-> L.totalSupply]]

AdjustBalanceCheckpoints(L, a) ==
  [L EXCEPT !.checkpointBalances[a] =
              AdjustCheckpoints(@, L.balances[a], L.currentCheckpointId)]

\* UpdateTransfer that adjusts the checkpoints of the sender only.
UpdateTransferOfSender(L, from, to, value, due) ==
  AdjustBalanceCheckpoints(
    CreateCheckpoints(AdjustInvestorCount(L, from, to, value), due), from)

\* UpdateTransfer that runs the transfer managers last.
UpdateTransferThenExecute(L, from, to, value, due) ==
  CreateCheckpoints(
    AdjustBalanceCheckpoints(
      AdjustBalanceCheckpoints(AdjustInvestorCount(L, from, to, value), from),
      to),
    due)

\* _updateTransfer.  due is the number of checkpoints that transfer managers
\* with scheduled checkpoints create while they execute the transfer.
UpdateTransfer(L, from, to, value, due) ==
  AdjustBalanceCheckpoints(
    AdjustBalanceCheckpoints(
      CreateCheckpoints(AdjustInvestorCount(L, from, to, value), due),
      from),
    to)

\* The SafeMath subtraction of adjustInvestorCount does not revert.
CountCanAdjust(L, from, to, value) ==
  Leaves(L, from, to, value) =>
    L.holderCount > 0 \/ Joins(L, from, to, value)

-----------------------------------------------------------------------------
(* The ERC20 movements of openzeppelin-solidity that follow.               *)

CanMove(L, from, to, value) == to # Zero /\ value <= L.balances[from]

Moved(L, from, to, value) ==
  LET paid == [L.balances EXCEPT ![from] = @ - value]
  IN  [L EXCEPT !.balances = [paid EXCEPT ![to] = @ + value]]

CanMint(L, to, value) == to # Zero /\ L.totalSupply + value <= UintMax

Minted(L, to, value) ==
  [L EXCEPT !.totalSupply = @ + value, !.balances[to] = @ + value]

CanBurn(L, from, value) == from # Zero /\ value <= L.balances[from]

Burned(L, from, value) ==
  [L EXCEPT !.totalSupply = @ - value, !.balances[from] = @ - value]

-----------------------------------------------------------------------------
(* The three ways tokens change hands, as whole handlers.                  *)

\* AfterTransfer that moves the tokens before the bookkeeping.
AfterTransferFirst(L, from, to, value, due) ==
  UpdateTransfer(Moved(L, from, to, value), from, to, value, due)

AfterTransfer(L, from, to, value, due) ==
  Moved(UpdateTransfer(L, from, to, value, due), from, to, value)

AfterIssue(L, to, value, due) ==
  Minted(UpdateTransfer(L, Zero, to, value, due), to, value)

\* AfterRedeem that sends the tokens to address(0).
AfterRedeemToZero(L, from, value, due) ==
  Moved(UpdateTransfer(L, from, Zero, value, due), from, Zero, value)

AfterRedeem(L, from, value, due) ==
  Burned(UpdateTransfer(L, from, Zero, value, due), from, value)
=============================================================================
