-------------------------- MODULE SecurityTokenCalls --------------------------
(***************************************************************************)
(* SecurityToken with the msg.sender of each call made visible, to say who *)
(* may take tokens from whom.                                              *)
(***************************************************************************)
EXTENDS SecurityToken

CONSTANT Issuer   \* the owner, and the MINT and CHECKPOINT modules

ASSUME IssuerAssumption == Issuer \notin Address

VARIABLE caller   \* msg.sender of the last call

CallBy(who) == caller' = who

HolderCall(who) ==
  \E value \in Amount, due \in Due, other \in Account :
    \/ Transfer(who, other, value, due)
    \/ Redeem(who, value, due)
    \/ Approve(who, other, value)
    \/ AuthorizeOperatorByPartition(who, other)
    \/ RevokeOperatorByPartition(who, other)

DelegateCall(who) ==
  \E from \in Account, value \in Amount, due \in Due :
    \/ RedeemFrom(who, from, value, due)
    \/ OperatorRedeemByPartition(who, from, value, due)
    \/ \E to \in Account :
         \/ TransferFrom(who, from, to, value, due)
         \/ OperatorTransferByPartition(who, from, to, value, due)

InitC == Init /\ caller = Issuer

NextC ==
  \/ \E who \in Account : CallBy(who) /\ (HolderCall(who) \/ DelegateCall(who))
  \/ ControllerNext /\ CallBy(controller)
  \/ (IssueNext \/ IssuerNext) /\ CallBy(Issuer)

SpecC == InitC /\ [][NextC]_<<vars, caller>>

Loss(a) == ledger.balances[a] - ledger'.balances[a]

\* A balance only falls by a call of the holder itself, of a spender within
\* its allowance, of an operator the holder authorised (for all partitions or
\* for UNLOCKED), or of a controller that is not disabled.  It covers transfers
\* and redemptions, and approvals that were reset or spent in between.
OnlyByConsent ==
  [][\A a \in Account : Loss(a) > 0 =>
       \/ caller' = a
       \/ /\ caller' \in Account
          /\ \/ Loss(a) <= allowances[a][caller']
             \/ caller' \in partitionApprovals[a]
       \/ caller' = controller /\ ~controllerDisabled]_<<vars, caller>>

\* No delegate can move more over time than it was allowed to: each unit an
\* ordinary spender takes comes off its allowance, so that repeated calls of
\* transferFrom and redeemFrom cannot exceed it.
AllowanceIsSpent ==
  [][\A a \in Account :
       (/\ Loss(a) > 0
        /\ caller' \in Account \ {a, controller}
        /\ caller' \notin partitionApprovals[a]
        /\ allowances[a][caller'] # UintMax)
       => allowances'[a][caller'] = allowances[a][caller'] - Loss(a)]_<<vars, caller>>
=============================================================================
