------------------------------ MODULE LimitsClient ------------------------------
(***************************************************************************)
(* CLI/commands/transfer_manager.js, the menus of the count and of the     *)
(* percentage transfer manager, while the holders of the token of          *)
(* HolderLimits transfer, issue and redeem.                                *)
(***************************************************************************)
EXTENDS ClientSession, HolderLimits

CONSTANTS
  HolderCount,       \* numbers of holders an operator may enter
  Percentage,        \* percentages an operator may enter
  TransferAmount,    \* amounts of tokens
  MaxSupply,         \* bound on the supply of the token
  WhitelistFile,     \* files of an operator, by the records they hold
  WhitelistBatch     \* batch sizes an operator may enter

ASSUME LimitsAssumption ==
  /\ IsFiniteSet(TokenHolder) /\ NoAccount \notin TokenHolder
  /\ HolderCount \subseteq Nat /\ Percentage \subseteq Nat /\ TransferAmount \subseteq Nat
  /\ WhitelistFile \subseteq Seq(TokenHolder \X BOOLEAN)
  /\ WhitelistBatch \subseteq Nat \ {0}

LimitsInit ==
  /\ current = "limits"
  /\ \E count \in HolderCount, share \in Percentage : contract = NoLimits(count, share)

CountTransferManager(c) ==
  \E count \in HolderCount : Begin(c, One("changeHolderCount", <<count>>), {})

ModifyWhitelistFromCSV(c) ==
  \E f \in WhitelistFile, size \in WhitelistBatch :
    Begin(c, CallsOf("modifyWhitelist", f, size), {})

\* 'Allow' or 'Disallow primary issuance': the opposite of what was shown.
ShowPrimaryIssuance(c) == Show(c, "percentage", {[primary |-> contract.primary]})

PercentageTransferManager(c) ==
  \/ /\ At(c, "menu")
     /\ \/ \E share \in Percentage : Begin(c, One("changeHolderPercentage", <<share>>), {})
        \/ \E p \in TokenHolder, valid \in BOOLEAN :
             Begin(c, One("modifyWhitelist", <<p, valid>>), {})
        \/ ModifyWhitelistFromCSV(c)
        \/ ShowPrimaryIssuance(c)
  \/ /\ At(c, "percentage")
     /\ Begin(c, One("setAllowPrimaryIssuance", <<~Shown(c).primary>>), {})

LimitsCallAfter(call) == LimitsAfter(contract, call)

LimitsStep(c) ==
  /\ current = "limits"
  /\ \/ At(c, "menu") /\ CountTransferManager(c)
     \/ PercentageTransferManager(c)
     \/ Send(c, LimitsCallAfter(ToSend(c)))
     \/ \E call \in mempool[c] : Mine(c, LimitsCallAfter(call))

\* A holder, the issuer or an offering moves tokens.
HolderTransfer ==
  /\ current = "limits"
  /\ \E from, to \in Party, amount \in TransferAmount :
       /\ ~(from = NoAccount /\ to = NoAccount)
       /\ from = NoAccount => SupplyOf(contract) + amount <= MaxSupply
       /\ contract' \in TransferTokens(contract, from, to, amount)
  /\ UNCHANGED <<now, current, session, mempool, begun>>

-----------------------------------------------------------------------------
(* Properties.                                                             *)

\* CountTransferManager.sol:54: verifyTransfer, which mimics the token, answers
\* what executeTransfer will, for every transfer in every state.
VerifyAgrees ==
  current = "limits" =>
    \A from, to \in Party, amount \in TransferAmount :
      CountVerify(contract, from, to, amount) <=> CountExecute(contract, from, to, amount)

\* A transfer that adds a holder stays within the limit on holders, and nobody
\* but the whitelisted, or a buyer of a primary issuance that is allowed, is
\* brought over the limit on shares; limits that are lowered later move nothing.
LimitsKept ==
  [][current = "limits" =>
       LET holders == {p \in TokenHolder : contract.balance[p] > 0}
           after == {p \in TokenHolder : contract'.balance[p] > 0}
       IN  /\ Cardinality(after) > Cardinality(holders)
                => Cardinality(after) <= contract.maxCount
           /\ \A p \in TokenHolder :
                (/\ contract'.balance[p] > contract.balance[p]
                 /\ p \notin contract.whitelist
                 /\ ~(contract.primary /\ SupplyOf(contract') > SupplyOf(contract)))
                => contract'.balance[p] * 100 <= (contract.maxShare + 1) * SupplyOf(contract')
    ]_sessionVars

=============================================================================
