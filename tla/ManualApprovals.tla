---------------------------- MODULE ManualApprovals ----------------------------
(***************************************************************************)
(* MATM/ManualApprovalTransferManager.sol: approvals of transfers between  *)
(* two accounts, in an array with an index.  An operation is the set of    *)
(* books it leads to.  Descriptions are left out: they are written exactly *)
(* when expiry times are.                                                  *)
(***************************************************************************)
EXTENDS Batches

CONSTANT Pair     \* a sender and a recipient

\* The index counts from one.  `used` is history: what was transferred under
\* the approval of the pair since it was given.
NoApprovals ==
  [approvals |-> << >>,
   index     |-> [p \in Pair |-> 0],
   used      |-> [p \in Pair |-> 0]]

Approved(b, p) == b.index[p] # 0
ApprovalOf(b, p) == b.approvals[b.index[p]]

\* executeTransfer: an approval that is valid and large enough is used; the
\* transfer is left to the other modules otherwise.
Use(b, p, amount, now) ==
  IF /\ Approved(b, p)
     /\ ApprovalOf(b, p).expiry >= now
     /\ ApprovalOf(b, p).allowance >= amount
    THEN [b EXCEPT !.approvals[b.index[p]].allowance = @ - amount,
                   !.used[p] = @ + amount]
    ELSE b

\* Mutant: the approval that is moved keeps its index.
RevokeMovedNotIndexed(b, p) ==
  IF Approved(b, p)
    THEN {[b EXCEPT !.approvals = Front([@ EXCEPT ![b.index[p]] = Last(b.approvals)]),
                    !.index[p] = 0]}
    ELSE {}

Revoke(b, p) ==
  LET k == b.index[p]
      last == Last(b.approvals)
  IN  IF Approved(b, p)
        THEN {[b EXCEPT !.approvals = Front([@ EXCEPT ![k] = last]),
                        !.index = [[@ EXCEPT ![last.pair] = k] EXCEPT ![p] = 0]]}
        ELSE {}

Approve(b, row, now) ==
  LET p == row[1]
      allowance == row[2]
      expiry == row[3]
      Push(book) ==
        [approvals |-> Append(book.approvals,
                              [pair |-> p, allowance |-> allowance,
                               initial |-> allowance, expiry |-> expiry]),
         index     |-> [book.index EXCEPT ![p] = Len(book.approvals) + 1],
         used      |-> [book.used EXCEPT ![p] = 0]]
  IN  IF expiry <= now \/ allowance = 0 THEN {}
      ELSE IF ~Approved(b, p) THEN {Push(b)}
      ELSE IF ApprovalOf(b, p).expiry < now \/ ApprovalOf(b, p).allowance = 0
        THEN {Push(book) : book \in Revoke(b, p)}
        ELSE {}

\* Less than the whole allowance is taken from both numbers.  Otherwise nothing
\* is left, and the initial allowance becomes what was used, or zero.
Decreased(approval, change) ==
  IF change < approval.allowance
    THEN [approval EXCEPT !.allowance = @ - change, !.initial = @ - change]
    ELSE [approval EXCEPT !.allowance = 0,
            !.initial = IF change >= @ THEN 0 ELSE @ - approval.allowance]

\* Mutant: the initial allowance is left.
IncreasedAllowanceOnly(approval, change) == [approval EXCEPT !.allowance = @ + change]

Increased(approval, change) ==
  [approval EXCEPT !.allowance = @ + change, !.initial = @ + change]

ModifyApproval(b, row, now) ==
  LET p == row[1]
      expiry == row[2]
      change == row[3]
      increase == row[4]
      k == b.index[p]
      Changed(approval) ==
        IF change = 0 THEN approval
        ELSE IF increase THEN Increased(approval, change)
                         ELSE Decreased(approval, change)
  IN  IF /\ expiry > now
         /\ Approved(b, p)
         /\ b.approvals[k].allowance # 0
         /\ b.approvals[k].expiry > now
        THEN {[b EXCEPT !.approvals[k] = [Changed(@) EXCEPT !.expiry = expiry]]}
        ELSE {}

\* What one record of a call does.
ApprovalsChange(b, op, row, now) ==
  CASE op = "approve" -> Approve(b, row, now)
    [] op = "modifyApproval" -> ModifyApproval(b, row, now)
    [] op = "revoke" -> Revoke(b, row[1])

ApprovalsAfter(b, call, now) ==
  InTurn(b, call.rows, LAMBDA book, row : ApprovalsChange(book, call.op, row, now))

=============================================================================
