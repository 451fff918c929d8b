------------------------------ MODULE WalletClient ------------------------------
(***************************************************************************)
(* CLI/commands/wallet_manager.js: the issuers of a token fill a vesting   *)
(* escrow wallet and manage its templates and schedules, chosen from lists *)
(* that are read before each menu.  The treasury wallet is not modelled.   *)
(***************************************************************************)
EXTENDS ClientSession, EscrowWallet

CONSTANTS
  TemplateData,     \* what may be typed for a template
  TypedStart,       \* and as a start time, when it is in the future
  ScheduleFile,     \* sequences of <<beneficiary, template, data, start>>
  ScheduleBatch

ScheduleRecord == Beneficiary \X TemplateName \X TemplateData \X Nat

ASSUME WalletAssumption ==
  ScheduleFile \subseteq Seq(ScheduleRecord) /\ ScheduleBatch \subseteq Nat \ {0}

\* With the approvals of the wallet to take tokens, and the events of templates.
WalletInit ==
  /\ current = "wallet"
  /\ \E w \in Deposit(NewWallet, MaxTokens) :
       contract = [wallet |-> w, allowance |-> [c \in Client |-> 0], added |-> {}]

-----------------------------------------------------------------------------
(* The calls.                                                              *)

\* The wallet takes what is missing from the sender, within his approval.
Taking(x, sender, wallets) ==
  LET taken(w) == w.balance - x.wallet.balance
  IN  {[x EXCEPT !.wallet = w, !.allowance[sender] = @ - taken(w)] :
         w \in {v \in wallets : taken(v) <= x.allowance[sender]}}

With(x, wallets) == {[x EXCEPT !.wallet = w] : w \in wallets}

\* AddTemplate, an event that stays when the template is removed.
Noted(states, t, data) ==
  {[x EXCEPT !.added = @ \cup {[name |-> t, amount |-> data.numberOfTokens]}] :
     x \in states}

OneAfter(x, op, row) ==
  LET w == x.wallet
      b == row[2]
      t == row[3]
  IN  CASE op = "approve" -> {[x EXCEPT !.allowance[row[1]] = row[2]]}
        [] op = "depositTokens" -> Taking(x, row[1], DepositTokens(w, row[2]))
        [] op = "sendToTreasury" -> With(x, SendToTreasury(w, row[2]))
        [] op = "addTemplate" -> Noted(With(x, AddTemplate(w, row[2], row[3])), row[2], row[3])
        [] op = "removeTemplate" -> With(x, RemoveTemplate(w, row[2]))
        [] op = "addSchedule" ->
             Noted(Taking(x, row[1], AddSchedule(w, b, t, row[4], row[5], now)), t, row[4])
        [] op = "addScheduleFromTemplate" ->
             Taking(x, row[1], AddScheduleFromTemplate(w, b, t, row[4], now))
        [] op = "modifySchedule" -> With(x, ModifySchedule(w, b, t, row[4], now))
        [] op = "revokeSchedule" -> With(x, RevokeSchedule(w, b, t, now))
        [] op = "revokeAllSchedules" -> With(x, RevokeAllSchedules(w, b, now))
        [] op = "pushAvailableTokens" -> With(x, SendTokens(w, b, now))
        [] op = "pullAvailableTokens" -> With(x, PullAvailableTokens(w, row[1], now))

WalletCallAfter(call) ==
  InTurn(contract, call.rows, LAMBDA x, row : OneAfter(x, call.op, row))

-----------------------------------------------------------------------------
(* What the program shows.                                                 *)

\* A date in the future, at least when it is typed.
StartDate == {start \in TypedStart : start > now}

\* The templates of all events: those that are gone as well.
GetTemplates == contract.added

\* For each template of the beneficiary: whether its schedule has not started.
GetSchedules(b) ==
  LET names == contract.wallet.userToTemplates[b]
  IN  [k \in DOMAIN names |->
         [templateName |-> names[k],
          created |-> now < ScheduleOf(contract.wallet, b, names[k]).startTime]]

\* The name sent is at the chosen place of the whole list, whatever was shown.
SelectSchedule(schedules, onlyCreated) ==
  LET toShow == RowsIn(schedules, {s \in ToSet(schedules) : onlyCreated => s.created})
  IN  {[selected |-> toShow[k].templateName, sent |-> schedules[k].templateName] :
         k \in DOMAIN toShow}

-----------------------------------------------------------------------------
(* Deposits and templates.                                                 *)

ApproveTokens(c, amount) == One("approve", <<c, amount>>)

DepositFrom(c) ==
  \E amount \in 1 .. MaxTokens :
    Begin(c, ApproveTokens(c, amount) \o One("depositTokens", <<c, amount>>), {})

\* What the options depend on, as it was when the menu was shown.
ReadMenu(c) ==
  LET w == contract.wallet
  IN  Show(c, "options", {[unassigned |-> w.unassignedTokens,
                           hasTemplates |-> w.templateNames # << >>,
                           hasSchedules |-> w.schedules[c] # << >>]})

SendShownToTreasury(c) ==
  /\ Shown(c).unassigned > 0
  /\ \E amount \in 0 .. Shown(c).unassigned :
       Begin(c, One("sendToTreasury", <<c, amount>>), {})

PullFor(c) ==
  Shown(c).hasSchedules /\ Begin(c, One("pullAvailableTokens", <<c>>), {})

AddTemplateTyped(c) ==
  \E t \in TemplateName, data \in TemplateData :
    Begin(c, One("addTemplate", <<c, t, data>>), {})

RemoveTemplateSelected(c) ==
  \E template \in GetTemplates :
    Begin(c, One("removeTemplate", <<c, template.name>>), {})

\* Removal is offered by the names read with the menu; the templates to choose
\* from are those of the events.
ManageTemplates(c) ==
  \/ AddTemplateTyped(c)
  \/ Shown(c).hasTemplates /\ RemoveTemplateSelected(c)

-----------------------------------------------------------------------------
(* The schedules of one beneficiary.                                       *)

ReadSchedules(c) ==
  \E b \in Beneficiary :
    Show(c, "schedules", {[beneficiary |-> b, schedules |-> GetSchedules(b)]})

\* The whole amount is approved, and only what is missing is taken; the sender
\* has it.
AddVestingSchedule(c, b) ==
  \E start \in StartDate :
    \/ \E template \in GetTemplates :
         Begin(c, ApproveTokens(c, template.amount)
                    \o One("addScheduleFromTemplate", <<c, b, template.name, start>>), {})
    \/ \E t \in TemplateName, data \in TemplateData :
         Begin(c, ApproveTokens(c, data.numberOfTokens)
                    \o One("addSchedule", <<c, b, t, data, start>>), {})

\* What the operator chose, for what is sent on his behalf.
Chosen(b, choice) == {[beneficiary |-> b, templateName |-> choice.selected]}

ModifySelected(c, b) ==
  \E choice \in SelectSchedule(Shown(c).schedules, TRUE), start \in StartDate :
    Begin(c, One("modifySchedule", <<c, b, choice.sent, start>>), Chosen(b, choice))

\* Mutant: the place of the list as it is when the call is made.
RevokeSelectedReadAgain(c, b) ==
  \E k \in DOMAIN Shown(c).schedules \cap DOMAIN GetSchedules(b) :
    Begin(c, One("revokeSchedule", <<c, b, GetSchedules(b)[k].templateName>>),
          Chosen(b, [selected |-> Shown(c).schedules[k].templateName]))

RevokeSelected(c, b) ==
  \E choice \in SelectSchedule(Shown(c).schedules, FALSE) :
    Begin(c, One("revokeSchedule", <<c, b, choice.sent>>), Chosen(b, choice))

RevokeAllOf(c, b) == Begin(c, One("revokeAllSchedules", <<c, b>>), {})

PushTo(c, b) == Begin(c, One("pushAvailableTokens", <<c, b>>), {})

ManageSchedules(c) ==
  LET b == Shown(c).beneficiary
  IN  \/ AddVestingSchedule(c, b)
      \/ ModifySelected(c, b)
      \/ RevokeSelected(c, b)
      \/ Shown(c).schedules # << >> /\ (RevokeAllOf(c, b) \/ PushTo(c, b))

-----------------------------------------------------------------------------
(* Files of schedules.  Nothing is approved for these.                     *)

\* Each record after its sender.
SchedulesInBatch(c, op, files) ==
  \E data \in files, size \in ScheduleBatch :
    Begin(c, CallsOf(op, [k \in DOMAIN data |-> <<c>> \o data[k]], size), {})

\* The columns of a file that a function takes.
Columns(columns) ==
  {[k \in DOMAIN f |-> [x \in DOMAIN columns |-> f[k][columns[x]]]] : f \in ScheduleFile}

AddSchedulesInBatch(c) == SchedulesInBatch(c, "addSchedule", ScheduleFile)

AddSchedulesFromTemplateInBatch(c) ==
  SchedulesInBatch(c, "addScheduleFromTemplate", Columns(<<1, 2, 4>>))

ModifySchedulesInBatch(c) ==
  SchedulesInBatch(c, "modifySchedule", Columns(<<1, 2, 4>>))

RevokeSchedulesInBatch(c) ==
  SchedulesInBatch(c, "revokeAllSchedules", Columns(<<1>>))

MultipleSchedules(c) ==
  \/ AddSchedulesInBatch(c)
  \/ AddSchedulesFromTemplateInBatch(c)
  \/ ModifySchedulesInBatch(c)
  \/ RevokeSchedulesInBatch(c)

-----------------------------------------------------------------------------

WalletManager(c) ==
  \/ At(c, "menu") /\ ReadMenu(c)
  \/ /\ At(c, "options")
     /\ \/ DepositFrom(c)
        \/ PullFor(c)
        \/ ManageTemplates(c)
        \/ ReadSchedules(c)
        \/ MultipleSchedules(c)
        \/ SendShownToTreasury(c)
  \/ At(c, "schedules") /\ ManageSchedules(c)

WalletStep(c) ==
  /\ current = "wallet"
  /\ \/ WalletManager(c)
     \/ Send(c, WalletCallAfter(ToSend(c)))
     \/ \E call \in mempool[c] : Mine(c, WalletCallAfter(call))

-----------------------------------------------------------------------------
(* Properties.                                                             *)

\* The call of a chosen schedule that waits to be mined, if its program waits.
ChosenCalls(op) == {c \in Client : At(c, "waiting") /\ \E call \in mempool[c] : call.op = op}

IsChosen(c, b, t) == session[c].about = {[beneficiary |-> b, templateName |-> t]}

\* A program that waits for a revocation makes nobody lose a schedule but the
\* one its operator chose, although others add and revoke meanwhile and the
\* arrays of the wallet are moved about.
OnlySelectedIsRevoked ==
  [][current = "wallet" =>
       \A c \in ChosenCalls("revokeSchedule") :
         mempool'[c] = {} =>
           \A b \in Beneficiary, t \in TemplateName :
             (HasSchedule(contract.wallet, b, t) /\ ~HasSchedule(contract'.wallet, b, t))
               => IsChosen(c, b, t)]_sessionVars

\* The same for the schedule that selectSchedule returns for modification: start
\* times change of the chosen schedule only.
SelectedIsModified ==
  [][current = "wallet" =>
       \A c \in ChosenCalls("modifySchedule") :
         (mempool'[c] = {} /\ session[c].about # {}) =>
           \A b \in Beneficiary :
             \A k \in DOMAIN contract.wallet.schedules[b] :
               LET s == contract.wallet.schedules[b][k]
               IN  contract'.wallet.schedules[b][k] # s => IsChosen(c, b, s.templateName)]_sessionVars

=============================================================================
