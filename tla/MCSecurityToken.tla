--------------------------- MODULE MCSecurityToken ---------------------------
(* Instances of SecurityToken for TLC.                                     *)
EXTENDS SecurityToken, TLC

CONSTANTS a1, a2

NoPairs == {}
AllSymmetric == Permutations(Account)

\* The behaviours in which tokens are issued, moved and redeemed and
\* checkpoints are taken, and the issuer throws no switch.
LedgerNext ==
  \/ \E from, to \in Account, value \in Amount, due \in Due :
       Transfer(from, to, value, due)
  \/ \E from \in Account, value \in Amount, due \in Due :
       Redeem(from, value, due)
  \/ IssueNext
  \/ CreateCheckpoint
LedgerSpec == Init /\ [][LedgerNext]_vars
=============================================================================
