---------------------------- MODULE SecurityToken ----------------------------
(***************************************************************************)
(* tokens/SecurityToken.sol: the calls that move, mint and burn tokens,    *)
(* the rights to do so and the switches of the issuer.  One action is one  *)
(* external call; a call that reverts leaves no trace and is no step.  The *)
(* verdict of the attached transfer managers is any verdict.               *)
(***************************************************************************)
EXTENDS TokenLedger

CONSTANTS
  BurnModule,     \* the attached BURN modules (they are accounts, too)
  Controller,     \* accounts the issuer may make controller
  Granularity,    \* granularities the issuer may choose
  FirstStore,     \* the DataStore the token is deployed with
  MaxCheckpoint,  \* bound on the number of checkpoints
  MaxDue,         \* most checkpoints transfer managers create in one transfer
  Approvable      \* pairs <<holder, spender>> that use approvals

ASSUME ModuleAssumption ==
  BurnModule \subseteq Account /\ Controller \subseteq Account
ASSUME GranularityAssumption ==
  Granularity \subseteq Nat \ {0} /\ Granularity # {}
ASSUME StoreAssumption == FirstStore \in Store
ASSUME BoundAssumption == MaxCheckpoint \in Nat /\ MaxDue \in Nat
ASSUME ApprovableAssumption == Approvable \subseteq Account \X Account

VARIABLES
  ledger,              \* balances, counters, checkpoints and investor lists
  allowances,          \* ERC20 allowances: holder -> spender -> amount
  partitionApprovals,  \* operators of a holder for the UNLOCKED partition
  transfersFrozen,
  issuance,            \* FALSE once issuance is frozen for good
  controller,          \* Zero when there is none
  controllerDisabled,
  granularity

rights == <<allowances, partitionApprovals>>
control == <<controller, controllerDisabled>>
vars == <<ledger, rights, transfersFrozen, issuance, control, granularity>>

TypeOK ==
  /\ ledger \in Ledger
  /\ Len(ledger.checkpointTotalSupply) = ledger.currentCheckpointId
  /\ allowances \in [Account -> [Account -> Amount]]
  /\ partitionApprovals \in [Account -> SUBSET Account]
  /\ transfersFrozen \in BOOLEAN
  /\ issuance \in BOOLEAN
  /\ controller \in Address
  /\ controllerDisabled \in BOOLEAN
  /\ granularity \in Nat \ {0}

Init ==
  /\ ledger = EmptyLedger(FirstStore)
  /\ allowances = [o \in Account |-> [s \in Account |-> 0]]
  /\ partitionApprovals = [o \in Account |-> {}]
  /\ transfersFrozen = FALSE
  /\ issuance = TRUE
  /\ controller = Zero
  /\ controllerDisabled = FALSE
  /\ granularity \in Granularity

-----------------------------------------------------------------------------
(* The verdict on a transfer.                                              *)

TMResult == {"INVALID", "VALID", "FORCE_VALID"}

\* results: what the transfer managers that are not archived return (NA adds
\* nothing).  FORCE_VALID overrides INVALID, which overrides VALID.
Verdict(results) ==
  "FORCE_VALID" \in results \/ ("VALID" \in results /\ "INVALID" \notin results)

Verdicts == {Verdict(results) : results \in SUBSET TMResult}

\* ExecuteTransfer with the test of transfersFrozen left out.
ExecuteTransferThawed(verified) == verified \in Verdicts

\* _executeTransfer asks nobody while transfers are frozen.
ExecuteTransfer(verified) ==
  IF transfersFrozen THEN ~verified ELSE verified \in Verdicts

\* What _updateTransfer needs in order not to revert.  With transfers frozen no
\* transfer manager runs, so none creates a checkpoint either.
CanUpdate(from, to, value, due) ==
  /\ value % granularity = 0
  /\ transfersFrozen => due = 0
  /\ ledger.currentCheckpointId + due <= MaxCheckpoint
  /\ CountCanAdjust(ledger, from, to, value)

IsControllable == ~controllerDisabled

OnlyController == controller # Zero /\ IsControllable

-----------------------------------------------------------------------------
(* Transfers.                                                              *)

CanTransfer(from, to, value, due, verified) ==
  /\ CanUpdate(from, to, value, due)
  /\ ExecuteTransfer(verified)
  /\ CanMove(ledger, from, to, value)

\* transfer, transferWithData and transferByPartition(UNLOCKED, ...)
Transfer(from, to, value, due) ==
  /\ CanTransfer(from, to, value, due, TRUE)
  /\ ledger' = AfterTransfer(ledger, from, to, value, due)
  /\ UNCHANGED <<rights, transfersFrozen, issuance, control, granularity>>

\* transferFrom and transferFromWithData: ERC20 debits the allowance, the
\* allowance uint(-1) included.
TransferFrom(spender, from, to, value, due) ==
  /\ value <= allowances[from][spender]
  /\ CanTransfer(from, to, value, due, TRUE)
  /\ ledger' = AfterTransfer(ledger, from, to, value, due)
  /\ allowances' = [allowances EXCEPT ![from][spender] = @ - value]
  /\ UNCHANGED <<partitionApprovals, transfersFrozen, issuance, control,
                 granularity>>

\* IsOperator for a spender with any allowance.
IsOperatorOrSpender(from, operator) ==
  allowances[from][operator] > 0 \/ operator \in partitionApprovals[from]

IsOperator(from, operator) ==
  allowances[from][operator] = UintMax \/ operator \in partitionApprovals[from]

OperatorTransferByPartition(operator, from, to, value, due) ==
  /\ IsOperator(from, operator)
  /\ CanTransfer(from, to, value, due, TRUE)
  /\ ledger' = AfterTransfer(ledger, from, to, value, due)
  /\ UNCHANGED <<rights, transfersFrozen, issuance, control, granularity>>

\* controllerTransfer drops the verdict that _updateTransfer returns.
ControllerTransfer(from, to, value, due) ==
  /\ OnlyController
  /\ \E verified \in BOOLEAN : CanTransfer(from, to, value, due, verified)
  /\ ledger' = AfterTransfer(ledger, from, to, value, due)
  /\ UNCHANGED <<rights, transfersFrozen, issuance, control, granularity>>

-----------------------------------------------------------------------------
(* Issuance, by the owner or a MINT module.                                *)

CanIssue(to, value, due) ==
  /\ issuance
  /\ CanUpdate(Zero, to, value, due)
  /\ ExecuteTransfer(TRUE)
  /\ CanMint(ledger, to, value)

\* issue and issueByPartition
Issue(to, value, due) ==
  /\ CanIssue(to, value, due)
  /\ ledger' = AfterIssue(ledger, to, value, due)
  /\ UNCHANGED <<rights, transfersFrozen, issuance, control, granularity>>

\* issueMulti with two entries: the second starts from where the first ends,
\* and if it fails the whole batch reverts.
IssueMulti(to, value, due, to2, value2, due2) ==
  LET first == AfterIssue(ledger, to, value, due) IN
  /\ CanIssue(to, value, due)
  /\ value2 % granularity = 0
  /\ first.currentCheckpointId + due2 <= MaxCheckpoint
  /\ CountCanAdjust(first, Zero, to2, value2)
  /\ CanMint(first, to2, value2)
  /\ ledger' = AfterIssue(first, to2, value2, due2)
  /\ UNCHANGED <<rights, transfersFrozen, issuance, control, granularity>>

\* freezeIssuance, acknowledged by the owner's signature
FreezeIssuance ==
  /\ issuance
  /\ issuance' = FALSE
  /\ UNCHANGED <<ledger, rights, transfersFrozen, control, granularity>>

-----------------------------------------------------------------------------
(* Redemption.                                                             *)

CanRedeem(from, value, due, verified) ==
  /\ CanUpdate(from, Zero, value, due)
  /\ ExecuteTransfer(verified)
  /\ CanBurn(ledger, from, value)

\* redeem and redeemByPartition: a BURN module redeems tokens of its own
Redeem(module, value, due) ==
  /\ module \in BurnModule
  /\ CanRedeem(module, value, due, TRUE)
  /\ ledger' = AfterRedeem(ledger, module, value, due)
  /\ UNCHANGED <<rights, transfersFrozen, issuance, control, granularity>>

\* RedeemFrom that leaves the allowance as it was.
RedeemFromUnspent(module, from, value, due) ==
  /\ module \in BurnModule
  /\ value <= allowances[from][module]
  /\ CanRedeem(from, value, due, TRUE)
  /\ ledger' = AfterRedeem(ledger, from, value, due)
  /\ UNCHANGED <<rights, transfersFrozen, issuance, control, granularity>>

RedeemFrom(module, from, value, due) ==
  /\ module \in BurnModule
  /\ value <= allowances[from][module]
  /\ CanRedeem(from, value, due, TRUE)
  /\ ledger' = AfterRedeem(ledger, from, value, due)
  /\ allowances' = [allowances EXCEPT ![from][module] = @ - value]
  /\ UNCHANGED <<partitionApprovals, transfersFrozen, issuance, control,
                 granularity>>

OperatorRedeemByPartition(module, from, value, due) ==
  /\ module \in BurnModule
  /\ IsOperator(from, module)
  /\ CanRedeem(from, value, due, TRUE)
  /\ ledger' = AfterRedeem(ledger, from, value, due)
  /\ UNCHANGED <<rights, transfersFrozen, issuance, control, granularity>>

ControllerRedeem(from, value, due) ==
  /\ OnlyController
  /\ \E verified \in BOOLEAN : CanRedeem(from, value, due, verified)
  /\ ledger' = AfterRedeem(ledger, from, value, due)
  /\ UNCHANGED <<rights, transfersFrozen, issuance, control, granularity>>

-----------------------------------------------------------------------------
(* Rights given by a holder.                                               *)

\* approve, increaseAllowance and decreaseAllowance of ERC20, and
\* authorizeOperator (uint(-1)) and revokeOperator (0), all set an allowance.
Approve(holder, spender, value) ==
  /\ <<holder, spender>> \in Approvable
  /\ allowances' = [allowances EXCEPT ![holder][spender] = value]
  /\ UNCHANGED <<ledger, partitionApprovals, transfersFrozen, issuance, control,
                 granularity>>

AuthorizeOperatorByPartition(holder, operator) ==
  /\ <<holder, operator>> \in Approvable
  /\ partitionApprovals' = [partitionApprovals EXCEPT ![holder] = @ \cup {operator}]
  /\ UNCHANGED <<ledger, allowances, transfersFrozen, issuance, control,
                 granularity>>

RevokeOperatorByPartition(holder, operator) ==
  /\ <<holder, operator>> \in Approvable
  /\ partitionApprovals' = [partitionApprovals EXCEPT ![holder] = @ \ {operator}]
  /\ UNCHANGED <<ledger, allowances, transfersFrozen, issuance, control,
                 granularity>>

-----------------------------------------------------------------------------
(* The issuer's calls.                                                     *)

\* createCheckpoint, by the owner or a CHECKPOINT module
CreateCheckpoint ==
  /\ ledger.currentCheckpointId < MaxCheckpoint
  /\ ledger' = CreateCheckpoints(ledger, 1)
  /\ UNCHANGED <<rights, transfersFrozen, issuance, control, granularity>>

FreezeTransfers ==
  /\ ~transfersFrozen
  /\ transfersFrozen' = TRUE
  /\ UNCHANGED <<ledger, rights, issuance, control, granularity>>

UnfreezeTransfers ==
  /\ transfersFrozen
  /\ transfersFrozen' = FALSE
  /\ UNCHANGED <<ledger, rights, issuance, control, granularity>>

SetController(c) ==
  /\ IsControllable
  /\ controller' = c
  /\ UNCHANGED <<ledger, rights, transfersFrozen, issuance, controllerDisabled,
                 granularity>>

\* disableController, acknowledged by the owner's signature
DisableController ==
  /\ IsControllable
  /\ controllerDisabled' = TRUE
  /\ controller' = Zero
  /\ UNCHANGED <<ledger, rights, transfersFrozen, issuance, granularity>>

ChangeGranularity(g) ==
  /\ g # 0
  /\ granularity' = g
  /\ UNCHANGED <<ledger, rights, transfersFrozen, issuance, control>>

ChangeDataStore(store) ==
  /\ ledger' = [ledger EXCEPT !.dataStore = store]
  /\ UNCHANGED <<rights, transfersFrozen, issuance, control, granularity>>

\* GeneralTransferManager._modifyKYCData writes to the token's data store
ModifyKYCData(investor) ==
  /\ ledger' = ListInvestor(ledger, investor)
  /\ UNCHANGED <<rights, transfersFrozen, issuance, control, granularity>>

-----------------------------------------------------------------------------
Due == 0..MaxDue

MoveNext ==
  \E value \in Amount, due \in Due, from \in Account :
    \/ \E to \in Account : Transfer(from, to, value, due)
    \/ \E to, spender \in Account :
         \/ TransferFrom(spender, from, to, value, due)
         \/ OperatorTransferByPartition(spender, from, to, value, due)

IssueNext ==
  \E to \in Account, value \in Amount, due \in Due :
    \/ Issue(to, value, due)
    \/ \E to2 \in Account, value2 \in Amount, due2 \in Due :
         IssueMulti(to, value, due, to2, value2, due2)

RedeemNext ==
  \E value \in Amount, due \in Due, from \in Account :
    \/ Redeem(from, value, due)
    \/ \E module \in BurnModule :
         \/ RedeemFrom(module, from, value, due)
         \/ OperatorRedeemByPartition(module, from, value, due)

ControllerNext ==
  \E value \in Amount, due \in Due :
    \/ \E from, to \in Address : ControllerTransfer(from, to, value, due)
    \/ \E from \in Account : ControllerRedeem(from, value, due)

ApprovalNext ==
  \E holder, other \in Account :
    \/ \E value \in Amount : Approve(holder, other, value)
    \/ AuthorizeOperatorByPartition(holder, other)
    \/ RevokeOperatorByPartition(holder, other)

IssuerNext ==
  \/ FreezeIssuance
  \/ CreateCheckpoint
  \/ FreezeTransfers
  \/ UnfreezeTransfers
  \/ \E c \in Controller \cup {Zero} : SetController(c)
  \/ DisableController
  \/ \E g \in Granularity \cup {0} : ChangeGranularity(g)
  \/ \E store \in Store : ChangeDataStore(store)
  \/ \E investor \in Account : ModifyKYCData(investor)

Next ==
  \/ MoveNext \/ IssueNext \/ RedeemNext
  \/ ControllerNext \/ ApprovalNext \/ IssuerNext

Spec == Init /\ [][Next]_vars

-----------------------------------------------------------------------------
(* Safety.                                                                 *)

\* holderCount, which the count restrictions of transfer managers rely on, is
\* the number of accounts with a balance after any sequence of transfers to
\* oneself, of nothing, of everything, to and from the zero address.
HolderCountExact == ledger.holderCount = Cardinality(Holders(ledger.balances))

\* The total supply is the sum of the balances, and address zero holds none.
SupplyIsBacked ==
  /\ ledger.balances[Zero] = 0
  /\ ledger.totalSupply = Cardinality(TokenUnits(ledger.balances))

\* The entries of an account have increasing ids that exist: what getValueAt
\* needs to search them, with checkpoints taken in the middle of a transfer.
CheckpointsInOrder ==
  \A a \in Address :
    InOrder(ledger.checkpointBalances[a], ledger.currentCheckpointId)

\* The balances of every checkpoint add up to its recorded total supply, so
\* that dividends in proportion to the two never pay more than the dividend.
SnapshotsAddUp ==
  \A id \in 1..ledger.currentCheckpointId :
    TotalSupplyAt(ledger, id) = Cardinality(TokenUnits(BalancesAt(ledger, id)))

\* What was true at a checkpoint stays true: no later call changes
\* balanceOfAt or totalSupplyAt of a checkpoint that exists.
HistoryImmutable ==
  [][\A id \in 1..ledger.currentCheckpointId :
       /\ TotalSupplyAt(ledger', id) = TotalSupplyAt(ledger, id)
       /\ \A a \in Account :
            BalanceOfAt(ledger', a, id) = BalanceOfAt(ledger, a, id)]_vars

\* A data store lists an investor at most once, and exactly when the `added'
\* bit of its WHITELIST data says so, although the token and the general
\* transfer manager both insert.
InvestorsListedOnce ==
  \A s \in Store :
    /\ Listed(ledger, s) = ledger.added[s]
    /\ \A i, j \in DOMAIN ledger.investors[s] :
         ledger.investors[s][i] = ledger.investors[s][j] => i = j

\* Everyone with a balance, now or at a checkpoint, is in the list of some
\* data store of the token: with one data store, in the list that
\* getInvestorsAt and the dividends go through.
HoldersListed ==
  \A a \in Account :
    \/ \E s \in Store : a \in Listed(ledger, s)
    \/ /\ ledger.balances[a] = 0
       /\ \A id \in 1..ledger.currentCheckpointId : BalanceOfAt(ledger, a, id) = 0

\* With transfers frozen and the controller disabled no token moves at all,
\* whatever transfer managers, operators and modules do.
HaltedForAll ==
  [][transfersFrozen /\ controllerDisabled
       => ledger'.balances = ledger.balances]_vars

\* Frozen issuance is final: it is never allowed again, and no call, module or
\* controller included, raises the total supply.
IssuanceClosedForGood ==
  [][~issuance => ~issuance' /\ ledger'.totalSupply <= ledger.totalSupply]_vars

\* Once disabled there is no controller again.
ControllerGoneForGood ==
  [][controllerDisabled => controllerDisabled' /\ controller' = Zero]_vars

-----------------------------------------------------------------------------
(* The abstract ledger that the token implements.                          *)

Book ==
  [balances |-> [a \in Account |-> ledger.balances[a]],
   supply |-> ledger.totalSupply,
   history |-> [id \in 1..ledger.currentCheckpointId |->
                  [balances |-> BalancesAt(ledger, id),
                   supply |-> TotalSupplyAt(ledger, id)]]]

Abstract == INSTANCE SnapshotLedger WITH book <- Book, MaxTaken <- MaxDue

\* Balances written down lazily, one account at a time, give the same answers
\* as a full copy taken at each checkpoint.
ImplementsSnapshots == Abstract!Spec
=============================================================================
