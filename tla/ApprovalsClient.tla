---------------------------- MODULE ApprovalsClient ----------------------------
(***************************************************************************)
(* CLI/commands/transfer_manager.js, the menu of the manual approval       *)
(* transfer manager, at work on the book of ManualApprovals while tokens   *)
(* are transferred and other administrators work on it.  An increase or a  *)
(* decrease sends the expiry time that was shown with it.                  *)
(***************************************************************************)
EXTENDS ClientSession, ManualApprovals

CONSTANTS
  Amount,           \* allowances, changes and amounts of transfers
  Expiry,           \* expiry times an operator may enter
  ApprovalFile,     \* files of an operator, by the records they hold
  ApprovalBatch     \* batch sizes an operator may enter

\* A record of a file, valid or not.
ApprovalRecord == [pair : Pair, expiry : Nat, allowance : Nat, increase : BOOLEAN]

ASSUME ApprovalsAssumption ==
  /\ IsFiniteSet(Pair)
  /\ Amount \subseteq Nat /\ Expiry \subseteq Nat
  /\ ApprovalFile \subseteq Seq(ApprovalRecord)
  /\ ApprovalBatch \subseteq Nat \ {0}

ApprovalsInit == current = "manual" /\ contract = NoApprovals

\* getManualApproval compares the expiry, in seconds, with a date, in
\* milliseconds, and never finds an approval: the call is always sent.
MatmAdd(c) ==
  \E p \in Pair, allowance \in Amount, expiry \in Expiry :
    Begin(c, One("approve", <<p, allowance, expiry>>), {})

\* getApprovalsArray: the list of all approvals, or of those with one account.
ReadApprovals == ToSet(contract.approvals)

\* 'Manage existing approvals': one approval is chosen from the list.
MatmManage(c) == \E approval \in ReadApprovals : Show(c, "manage", {approval})

ModifyShown(c, expiry, change, increase) ==
  Begin(c, One("modifyApproval", <<Shown(c).pair, expiry, change, increase>>),
        session[c].about)

\* The expiry time that was shown, unless the operator wants to modify it.
ReadExpiryTime(c) == Expiry \cup {Shown(c).expiry}

MatmManageIncrese(c) ==
  \E change \in Amount \ {0}, expiry \in ReadExpiryTime(c) :
    ModifyShown(c, expiry, change, TRUE)

MatmManageDecrease(c) ==
  \E change \in Amount \ {0}, expiry \in ReadExpiryTime(c) :
    ModifyShown(c, expiry, change, FALSE)

MatmManageTimeOrDescription(c) ==
  \E expiry \in ReadExpiryTime(c) : ModifyShown(c, expiry, 0, TRUE)

MatmManageRevoke(c) == Begin(c, One("revoke", <<Shown(c).pair>>), session[c].about)

\* matmGenericCsv: the valid records of a file, in batches.
MatmGenericCsv(c, op, columns, files) ==
  \E rows \in files, size \in ApprovalBatch :
    Begin(c, CallsOf(op, [k \in DOMAIN rows |->
                            [x \in DOMAIN columns |-> rows[k][columns[x]]]], size), {})

WithAllowance ==
  {RowsIn(f, {row \in ToSet(f) : row.allowance > 0}) : f \in ApprovalFile}

AddManualApproveInBatch(c) ==
  MatmGenericCsv(c, "approve", <<"pair", "allowance", "expiry">>, WithAllowance)

RevokeManualApproveInBatch(c) ==
  MatmGenericCsv(c, "revoke", <<"pair">>, ApprovalFile)

ModifyManualApproveInBatch(c) ==
  MatmGenericCsv(c, "modifyApproval", <<"pair", "expiry", "allowance", "increase">>,
                 WithAllowance)

MatmOperate(c) ==
  \/ AddManualApproveInBatch(c)
  \/ ModifyManualApproveInBatch(c)
  \/ RevokeManualApproveInBatch(c)

ManualApprovalTransferManager(c) ==
  \/ At(c, "menu") /\ (MatmAdd(c) \/ MatmManage(c) \/ MatmOperate(c))
  \/ /\ At(c, "manage")
     /\ \/ MatmManageIncrese(c)
        \/ MatmManageDecrease(c)
        \/ MatmManageTimeOrDescription(c)
        \/ MatmManageRevoke(c)

ApprovalsCallAfter(call) == ApprovalsAfter(contract, call, now)

ApprovalsStep(c) ==
  /\ current = "manual"
  /\ \/ ManualApprovalTransferManager(c)
     \/ Send(c, ApprovalsCallAfter(ToSend(c)))
     \/ \E call \in mempool[c] : Mine(c, ApprovalsCallAfter(call))

\* The holders of the token transfer.
ApprovedTransfer ==
  /\ current = "manual"
  /\ \E p \in Pair, amount \in Amount : contract' = Use(contract, p, amount, now)
  /\ UNCHANGED <<now, current, session, mempool, begun>>

-----------------------------------------------------------------------------
(* Properties.                                                             *)

\* The array of approvals and its index describe the same approvals.
ApprovalsAgree ==
  current = "manual" =>
    \A p \in Pair, k \in 1 .. Cardinality(Pair) :
      (contract.index[p] = k) <=>
        (k <= Len(contract.approvals) /\ contract.approvals[k].pair = p)

\* The two numbers an operator is shown tell what was transferred under the
\* approval, however often it was increased and decreased in between, unless a
\* decrease cleared both.
UsedIsShown ==
  current = "manual" =>
    \A k \in DOMAIN contract.approvals :
      LET approval == contract.approvals[k]
      IN  \/ approval.initial - approval.allowance = contract.used[approval.pair]
          \/ approval.initial = 0 /\ approval.allowance = 0

=============================================================================
