----------------------------- MODULE GeneralClient -----------------------------
(***************************************************************************)
(* What GTM/GeneralTransferManager.sol keeps, and the menu for it of       *)
(* CLI/commands/transfer_manager.js: in the data store of the token the    *)
(* list of the investors, their KYC data and their flags, and in the       *)
(* module its settings: the requirements of each type of transfer, the     *)
(* default times and the issuance address.                                 *)
(***************************************************************************)
EXTENDS ClientSession

CONSTANTS
  KnownInvestor,    \* accounts that may become investors
  KYC,              \* packed times and expiry that may be entered
  Flag,             \* numbers of flags
  Setting           \* values of a setting

TransferType == {"general", "issuance", "redemption"}

\* KYC data of an investor who was only flagged: all zero, but `added`.
OnlyAdded == "added"
Absent == "absent"

NoInvestors(initial) ==
  [investors |-> << >>,
   kyc       |-> [i \in KnownInvestor |-> Absent],
   flags     |-> [i \in KnownInvestor |-> {}],
   settings  |-> [s \in TransferType \cup {"defaults", "issuanceAddress"} |-> initial]]

\* Mutant: an investor who was only flagged is taken for a new one.
InsertUnlessKYC(b, i, data) ==
  IF b.kyc[i] \in {Absent, OnlyAdded}
    THEN [b EXCEPT !.investors = Append(@, i), !.kyc[i] = data]
    ELSE b

\* _isExistingInvestor looks at the `added` byte of the KYC data.
Insert(b, i, data) ==
  IF b.kyc[i] = Absent
    THEN [b EXCEPT !.investors = Append(@, i), !.kyc[i] = data]
    ELSE b

ModifyKYCData(b, i, data) ==
  IF i \in KnownInvestor THEN {[Insert(b, i, data) EXCEPT !.kyc[i] = data]} ELSE {}

ModifyInvestorFlag(b, i, flag, value) ==
  IF i \in KnownInvestor
    THEN {[Insert(b, i, OnlyAdded) EXCEPT
             !.flags[i] = IF value THEN @ \cup {flag} ELSE @ \ {flag}]}
    ELSE {}

\* modifyTransferRequirements, changeDefaults, changeIssuanceAddress
ChangeSetting(b, s, value) == {[b EXCEPT !.settings[s] = value]}

\* What one record of a call does.
InvestorDataChange(b, op, row) ==
  CASE op = "kyc" -> ModifyKYCData(b, row[1], row[2])
    [] op = "flag" -> ModifyInvestorFlag(b, row[1], row[2], row[3])
    [] op = "setting" -> ChangeSetting(b, row[1], row[2])

InvestorDataAfter(b, call) ==
  InTurn(b, call.rows, LAMBDA book, row : InvestorDataChange(book, call.op, row))

-----------------------------------------------------------------------------
(* The program.                                                            *)

CONSTANTS
  Zero,            \* the zero address, which an operator may enter too
  Initial,         \* the settings the module starts with
  InvestorFile,    \* files of an operator, by the records they hold
  InvestorBatch    \* batch sizes an operator may enter

\* The records of all files, valid or not.
InvestorRecord == UNION {ToSet(f) : f \in InvestorFile}

ASSUME GeneralAssumption ==
  /\ InvestorFile \subseteq Seq(InvestorRecord)
  /\ \A r \in InvestorRecord : r.kyc # Absent /\ r.value \in BOOLEAN
  /\ Absent \notin KYC
  /\ InvestorBatch \subseteq Nat \ {0}

GeneralInit == current = "general" /\ contract = NoInvestors(Initial)

\* 'Modify whitelist': common.queryModifyWhiteList
QueryModifyWhiteList(c) ==
  \E i \in KnownInvestor \cup {Zero}, data \in KYC : Begin(c, One("kyc", <<i, data>>), {})

\* 'Modify investor flag'
QueryModifyFlag(c) ==
  \E i \in KnownInvestor, flag \in Flag, value \in BOOLEAN :
    Begin(c, One("flag", <<i, flag, value>>), {})

InvestorsInBatch(c, op, rows, columns, size) ==
  Begin(c, CallsOf(op, [k \in DOMAIN rows |-> [x \in DOMAIN columns |-> rows[k][columns[x]]]],
                   size), {})

\* An address that is not one is left out; the zero address is one.
Valid(f) == RowsIn(f, {row \in ToSet(f) : row.investor # "invalid"})

ModifyWhitelistInBatch(c) ==
  \E f \in InvestorFile, size \in InvestorBatch :
    InvestorsInBatch(c, "kyc", Valid(f), <<"investor", "kyc">>, size)

\* When records are invalid the operator is asked whether to process the others.
ModifyFlagsInBatch(c) ==
  \E f \in InvestorFile, size \in InvestorBatch :
    LET rows == Valid(f)
    IN  InvestorsInBatch(c, "flag", rows, <<"investor", "flag", "value">>, size)

\* 'Modify ... Transfer Requirements' of one type, or of all three in one call,
\* or back to what the module started with.
ModifyTransferRequirements(c) ==
  \E type \in TransferType, value \in Setting : Begin(c, One("setting", <<type, value>>), {})

ModifyAllTransferRequirements(c, value) ==
  Begin(c, <<[op |-> "setting", rows |-> <<<<"general", value>>, <<"issuance", value>>,
                                          <<"redemption", value>>>>]>>, {})

TransferRequirements(c) ==
  \/ ModifyTransferRequirements(c)
  \/ \E value \in Setting : ModifyAllTransferRequirements(c, value)
  \/ ModifyAllTransferRequirements(c, Initial)

ChangeModuleSetting(c) ==
  \E s \in {"defaults", "issuanceAddress"}, value \in Setting :
    Begin(c, One("setting", <<s, value>>), {})

GeneralTransferManager(c) ==
  /\ At(c, "menu")
  /\ \/ QueryModifyWhiteList(c)
     \/ ModifyWhitelistInBatch(c)
     \/ QueryModifyFlag(c)
     \/ ModifyFlagsInBatch(c)
     \/ TransferRequirements(c)
     \/ ChangeModuleSetting(c)

GeneralCallAfter(call) == InvestorDataAfter(contract, call)

GeneralStep(c) ==
  /\ current = "general"
  /\ \/ GeneralTransferManager(c)
     \/ Send(c, GeneralCallAfter(ToSend(c)))
     \/ \E call \in mempool[c] : Mine(c, GeneralCallAfter(call))

-----------------------------------------------------------------------------
(* Properties.                                                             *)

\* The data that was ever entered for an investor, one by one or in a file.
EnteredFor(i) ==
  KYC \cup {r.kyc : r \in {x \in InvestorRecord : x.investor = i}}

\* Every investor with data or a flag is listed once, whichever of the two came
\* first, and however a file is cut he never gets the data of another record.
InvestorsListed ==
  current = "general" =>
    /\ IsInjective(contract.investors)
    /\ \A i \in KnownInvestor :
         /\ i \in ToSet(contract.investors) <=> contract.kyc[i] # Absent
         /\ contract.flags[i] # {} => i \in ToSet(contract.investors)
         /\ contract.kyc[i] \in EnteredFor(i) \cup {Absent, OnlyAdded}

=============================================================================
