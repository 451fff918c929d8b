----------------------------- MODULE ModulesClient -----------------------------
(***************************************************************************)
(* A token's modules as its owner's program sees them, with the POLY that  *)
(* pays for them: addModuleWithLabel to changeModuleBudget of              *)
(* tokens/SecurityToken.sol and modules/ModuleFactory.sol, for one         *)
(* factory (TokenModules has the arrays behind getModule); and the module  *)
(* menu of CLI/commands/token_manager.js with addModule of                 *)
(* common/common_functions.js: the owner adds, pauses, archives and        *)
(* removes modules chosen from a list that is read before each menu.       *)
(* Programs of other accounts only read: the first call they make reverts. *)
(* They are left out.                                                      *)
(***************************************************************************)
EXTENDS ClientSession

CONSTANTS
  MaxModules,     \* bound on the modules ever deployed
  ModuleFee,      \* what the factory may cost
  Purse           \* POLY of the token's owner at first

NewModule(type, archived) ==
  [type |-> type, attached |-> TRUE, archived |-> archived, paused |-> FALSE,
   budget |-> 0]

\* The modules in the order of their deployment, those that were removed as well.
\* The token has no POLY yet; a module of another type may be attached to it.
NewToken(owner, before, fee) ==
  [modules |-> before, poly |-> 0, purse |-> Purse, fee |-> fee, usable |-> TRUE,
   owner |-> owner]

\* transfer of the POLY token, from the owner to the token.
PayIn(x, amount) ==
  IF amount > x.purse THEN {}
  ELSE {[x EXCEPT !.purse = @ - amount, !.poly = @ + amount]}

\* withdrawERC20
PayOut(x, value) ==
  IF value > x.poly THEN {}
  ELSE {[x EXCEPT !.purse = @ + value, !.poly = @ - value]}

\* addModuleWithLabel; the factory takes its fee when it deploys.
AddModuleWithLabel(x, type, maxCost, archived) ==
  IF ~x.usable \/ x.fee > maxCost \/ x.fee > x.poly \/ Len(x.modules) = MaxModules
    THEN {}
    ELSE {[x EXCEPT !.poly = @ - x.fee, !.modules = Append(@, NewModule(type, archived))]}

ArchiveModule(x, m) ==
  IF ~x.modules[m].attached \/ x.modules[m].archived THEN {}
  ELSE {[x EXCEPT !.modules[m].archived = TRUE]}

UnarchiveModule(x, m) ==
  IF ~x.modules[m].attached \/ ~x.modules[m].archived \/ ~x.usable THEN {}
  ELSE {[x EXCEPT !.modules[m].archived = FALSE]}

RemoveModule(x, m) ==
  IF ~x.modules[m].attached \/ ~x.modules[m].archived THEN {}
  ELSE {[x EXCEPT !.modules[m].attached = FALSE]}

\* pause and unpause of the module itself, attached or not.
SetPaused(x, m, paused) ==
  IF x.modules[m].paused = paused THEN {}
  ELSE {[x EXCEPT !.modules[m].paused = paused]}

\* changeModuleBudget
ChangeModuleBudget(x, m, change, increase) ==
  IF ~x.modules[m].attached \/ (~increase /\ change > x.modules[m].budget) THEN {}
  ELSE {[x EXCEPT !.modules[m].budget = IF increase THEN @ + change ELSE @ - change]}

\* The owner of the factory, or the price of POLY, changes what it costs; the
\* registry verifies it, or no longer does.
FactoryMoves(x) ==
  {[x EXCEPT !.fee = fee] : fee \in ModuleFee} \cup {[x EXCEPT !.usable = ~@]}

-----------------------------------------------------------------------------
(* The program.                                                            *)

CONSTANT PolyTyped     \* amounts that may be typed

ASSUME ModulesAssumption ==
  /\ Purse \in Nat /\ PolyTyped \subseteq Nat /\ ModuleFee \subseteq Nat
  /\ \E fee \in ModuleFee : \A other \in ModuleFee : other <= fee

ModulesInit ==
  /\ current = "modules"
  /\ \E c \in Client, fee \in ModuleFee,
        before \in {<< >>, <<NewModule("permission", FALSE)>>} :
       contract = NewToken(c, before, fee)

\* What one record of a call does.
ModulesChange(x, op, row) ==
  CASE op = "transfer" -> PayIn(x, row[1])
    [] op = "addModuleWithLabel" -> AddModuleWithLabel(x, row[1], row[2], row[3])
    [] op = "archiveModule" -> ArchiveModule(x, row[1])
    [] op = "unarchiveModule" -> UnarchiveModule(x, row[1])
    [] op = "removeModule" -> RemoveModule(x, row[1])
    [] op = "pause" -> SetPaused(x, row[1], TRUE)
    [] op = "unpause" -> SetPaused(x, row[1], FALSE)
    [] op = "changeModuleBudget" -> ChangeModuleBudget(x, row[1], row[2], row[3])
    [] op = "withdrawERC20" -> PayOut(x, row[1])

ModuleCallAfter(call) ==
  InTurn(contract, call.rows, LAMBDA x, row : ModulesChange(x, call.op, row))

-----------------------------------------------------------------------------
(* Adding a module.                                                        *)

\* The mutant: the whole fee is sent, whatever the token has.
MissingPolyUnread == contract.fee

\* What the token lacks of the fee, both read before the operator is asked for
\* the parameters of the module.
MissingPoly == IF contract.poly < contract.fee THEN contract.fee - contract.poly ELSE 0

PolyFirst(amount) == IF amount > 0 THEN One("transfer", <<amount>>) ELSE << >>

\* addModule of common_functions.js; the fee it read is the most it agrees to.
AddModule(c, type) ==
  LET missing == MissingPoly IN
  /\ missing <= contract.purse
  /\ \E archived \in BOOLEAN :
       Begin(c, PolyFirst(missing)
                  \o One("addModuleWithLabel", <<type, contract.fee, archived>>), {})

\* Both choose from the factories that the registry has for this token.
AddTransferManagerModule(c) == contract.usable /\ AddModule(c, "transfer")
AddSTOModule(c) == contract.usable /\ AddModule(c, "sto")

AddModuleOfType(c) == AddTransferManagerModule(c) \/ AddSTOModule(c)

-----------------------------------------------------------------------------
(* The modules of the list.                                                *)

GetAllModules ==
  {[address |-> m, data |-> contract.modules[m]] :
     m \in {a \in DOMAIN contract.modules : contract.modules[a].attached}}

ShownWhere(c, Test(_)) == {m.address : m \in {x \in Shown(c).modules : Test(x.data)}}

\* The program exits for modules of other types.
Pausable(data) == data.type \in {"sto", "transfer", "dividends"}

PauseShown(c) ==
  \E m \in ShownWhere(c, LAMBDA data : Pausable(data) /\ ~data.paused) :
    Begin(c, One("pause", <<m>>), {})

UnpauseShown(c) ==
  \E m \in ShownWhere(c, LAMBDA data : Pausable(data) /\ data.paused) :
    Begin(c, One("unpause", <<m>>), {})

ArchiveShown(c) ==
  \E m \in ShownWhere(c, LAMBDA data : ~data.archived) :
    Begin(c, One("archiveModule", <<m>>), {})

UnarchiveShown(c) ==
  \E m \in ShownWhere(c, LAMBDA data : data.archived) :
    Begin(c, One("unarchiveModule", <<m>>), {})

RemoveShown(c) ==
  \E m \in ShownWhere(c, LAMBDA data : data.archived) :
    Begin(c, One("removeModule", <<m>>), {})

ChangeBudget(c) ==
  \E m \in ShownWhere(c, LAMBDA data : TRUE), amount \in PolyTyped, increase \in BOOLEAN :
    Begin(c, One("changeModuleBudget", <<m, amount, increase>>), {})

ListModuleOptions(c) ==
  \/ AddModuleOfType(c)
  \/ PauseShown(c)
  \/ UnpauseShown(c)
  \/ ArchiveShown(c)
  \/ UnarchiveShown(c)
  \/ RemoveShown(c)
  \/ ChangeBudget(c)

WithdrawFromContract(c) ==
  \E value \in PolyTyped : Begin(c, One("withdrawERC20", <<value>>), {})

ModulesManager(c) ==
  \/ At(c, "menu") /\ Show(c, "token", {[modules |-> GetAllModules]})
  \/ At(c, "token") /\ (ListModuleOptions(c) \/ WithdrawFromContract(c))

ModulesStep(c) ==
  /\ current = "modules"
  /\ c = contract.owner
  /\ \/ ModulesManager(c)
     \/ Send(c, ModuleCallAfter(ToSend(c)))
     \/ \E call \in mempool[c] : Mine(c, ModuleCallAfter(call))

\* What others do.
FactoryStep ==
  /\ current = "modules"
  /\ contract' \in FactoryMoves(contract)
  /\ UNCHANGED <<now, current, session, mempool, begun>>

-----------------------------------------------------------------------------
(* Properties.                                                             *)

MaxFee == CHOOSE fee \in ModuleFee : \A other \in ModuleFee : other <= fee

\* POLY that programs left in the token, when they were stopped between the
\* payment and the module it was for, is what the next one uses first: it does
\* not add up over any number of restarts, although a payment of the program
\* before may still wait to be mined when the next one reads the balance, and
\* the fee changes.
LeftoverIsUsed == current = "modules" => contract.poly <= 2 * MaxFee

=============================================================================
