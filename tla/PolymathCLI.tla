------------------------------ MODULE PolymathCLI ------------------------------
(***************************************************************************)
(* CLI/polymath-cli.js: operators run the program side by side, each with  *)
(* his own account, on one of the contracts it can work on.  Every         *)
(* interleaving is possible of what they are shown, what they send, what   *)
(* is mined, what others do to the contract, and programs that are stopped *)
(* and started again.                                                      *)
(***************************************************************************)
EXTENDS NamedListsClient, ApprovalsClient, RestrictionsClient, GeneralClient,
        LimitsClient, RegistryClient, PermissionClient, WalletClient,
        ModulesClient, IssuanceClient

CONSTANT Module     \* the contracts that the programs work on

-----------------------------------------------------------------------------
(* transfer_manager.js: 'Config existing modules' picks one of the transfer *)
(* managers of a token.                                                    *)

ConfigExistingModules ==
  \/ ListsInit
  \/ ApprovalsInit
  \/ RestrictionsInit
  \/ GeneralInit
  \/ LimitsInit

TransferManagerStep(c) ==
  \/ ListsStep(c)
  \/ ApprovalsStep(c)
  \/ RestrictionsStep(c)
  \/ GeneralStep(c)
  \/ LimitsStep(c)

\* What the holders of the token do meanwhile.
Transfers == ApprovedTransfer \/ HolderTransfer

-----------------------------------------------------------------------------
Init ==
  /\ SessionInit
  /\ current \in Module
  /\ \/ ConfigExistingModules
     \/ RegistryInit
     \/ PermissionsInit
     \/ WalletInit
     \/ ModulesInit
     \/ IssuanceInit

\* A command of the program.
Program(c) ==
  \/ TransferManagerStep(c)
  \/ RegistryStep(c)
  \/ PermissionStep(c)
  \/ WalletStep(c)
  \/ ModulesStep(c)
  \/ IssuanceStep(c)
  \/ Kill(c)

\* Only these contracts, or their programs, look at the time.
TimePasses ==
  /\ current \in {"blacklist", "lockup", "manual", "volume", "registry", "wallet"}
  /\ Tick

Next ==
  \/ \E c \in Client : Program(c)
  \/ Transfers
  \/ RegistryMoves
  \/ FactoryStep
  \/ VerificationStep
  \/ TimePasses
  \/ AllAtRest

Spec == Init /\ [][Next]_sessionVars

=============================================================================
