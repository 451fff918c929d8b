------------------------------ MODULE EscrowWallet ------------------------------
(***************************************************************************)
(* modules/Wallet/VestingEscrowWallet.sol: tokens deposited by the issuer  *)
(* are assigned to schedules, made from templates, and leave period by     *)
(* period to beneficiaries.  An operation on a wallet is the set of        *)
(* wallets it leads to, empty when it reverts; a transfer the token        *)
(* refuses is one of the reasons.                                          *)
(***************************************************************************)
EXTENDS Batches, FiniteSetsExt, Functions

CONSTANTS
  Beneficiary,
  TemplateName,
  Granularity,     \* of the token
  MaxTokens,       \* bound on the tokens deposited
  MaxSchedules     \* bound on the schedules of a beneficiary

ASSUME GranularityAssumption == Granularity \in Nat \ {0}
ASSUME BeneficiaryAssumption == IsFiniteSet(Beneficiary)
ASSUME MaxAssumption == MaxTokens \in Nat /\ MaxSchedules \in Nat

NewWallet ==
  [paused              |-> FALSE,
   balance             |-> 0,      \* tokens of the wallet
   received            |-> [b \in Beneficiary |-> 0],    \* history: paid to each
   reclaimed           |-> 0,      \* history: taken out by the owner of the token
   unassignedTokens    |-> 0,
   templates           |-> << >>,  \* with the index in templateNames
   templateNames       |-> << >>,
   beneficiaries       |-> << >>,
   schedules           |-> [b \in Beneficiary |-> << >>],
   userToTemplates     |-> [b \in Beneficiary |-> << >>],
   userToTemplateIndex |-> [b \in Beneficiary |-> [t \in TemplateName |-> 0]],
   templateToUsers     |-> [t \in TemplateName |-> << >>],
   templateToUserIndex |-> [t \in TemplateName |-> [b \in Beneficiary |-> 0]]]

TemplateExists(w, t) == t \in DOMAIN w.templates

-----------------------------------------------------------------------------
(* Amounts of a schedule s at the time now.                                *)

Period(w, s) == w.templates[s.templateName].frequency
PeriodCount(w, s) == w.templates[s.templateName].duration \div Period(w, s)
NumberOfTokens(w, s) == w.templates[s.templateName].numberOfTokens

GetReleasedTokens(w, s, now) ==
  IF now > s.startTime
  THEN (NumberOfTokens(w, s) *
          Min({(now - s.startTime) \div Period(w, s), PeriodCount(w, s)}))
         \div PeriodCount(w, s)
  ELSE 0

GetAvailableTokens(w, s, now) == GetReleasedTokens(w, s, now) - s.claimedTokens

AvailableOf(w, b, now) ==
  SumFunction([i \in DOMAIN w.schedules[b] |->
                 GetAvailableTokens(w, w.schedules[b][i], now)])

UnclaimedOf(w, b) ==
  SumFunction([i \in DOMAIN w.schedules[b] |->
                 NumberOfTokens(w, w.schedules[b][i]) - w.schedules[b][i].claimedTokens])

Claimed(w, s, now) == [s EXCEPT !.claimedTokens = GetReleasedTokens(w, s, now)]

-----------------------------------------------------------------------------
(* Deposits and withdrawals of the issuer.                                 *)

Deposited(w) ==
  w.balance + SumFunction(w.received) + w.reclaimed

\* _depositTokens; the caller has the tokens.
Deposit(w, amount) ==
  IF Deposited(w) + amount > MaxTokens THEN {}
  ELSE {[w EXCEPT !.balance = @ + amount, !.unassignedTokens = @ + amount]}

DepositTokens(w, amount) == IF amount > 0 THEN Deposit(w, amount) ELSE {}

SendToTreasury(w, amount) ==
  IF amount > 0 /\ amount <= w.unassignedTokens /\ amount <= w.balance
    THEN {[w EXCEPT !.unassignedTokens = @ - amount, !.balance = @ - amount]}
    ELSE {}

\* reclaimERC20 of the module, for the token itself: what the wallet has, and
\* nothing is recorded.
ReclaimERC20(w) == {[w EXCEPT !.reclaimed = @ + w.balance, !.balance = 0]}

-----------------------------------------------------------------------------
(* Payments.                                                               *)

\* _sendTokensPerSchedule of all schedules of b: SafeMath refuses a schedule that
\* claimed more than it released.
SendTokens(w, b, now) ==
  LET amount == AvailableOf(w, b, now)
  IN  IF /\ \A i \in DOMAIN w.schedules[b] :
              GetAvailableTokens(w, w.schedules[b][i], now) >= 0
         /\ amount <= w.balance
        THEN {[w EXCEPT !.balance = @ - amount,
                        !.received[b] = @ + amount,
                        !.schedules[b] = [i \in DOMAIN @ |-> Claimed(w, @[i], now)]]}
        ELSE {}

PullAvailableTokens(w, b, now) == IF w.paused THEN {} ELSE SendTokens(w, b, now)

\* From the one index to the other, both included; 0 is the first.
PushAvailableTokensMulti(w, fromIndex, toIndex, now) ==
  IF toIndex >= Len(w.beneficiaries) THEN {}
  ELSE InTurn(w, SubSeq(w.beneficiaries, fromIndex + 1, toIndex + 1),
              LAMBDA v, b : SendTokens(v, b, now))

-----------------------------------------------------------------------------
(* Templates.                                                              *)

\* _validateTemplate.  A zero frequency or duration is a division by zero.
ValidTemplate(p) ==
  /\ p.numberOfTokens > 0
  /\ p.frequency > 0 /\ p.duration % p.frequency = 0
  /\ p.duration > 0
  /\ LET periodCount == p.duration \div p.frequency IN
     /\ p.numberOfTokens % periodCount = 0
     /\ (p.numberOfTokens \div periodCount) % Granularity = 0

AddTemplate(w, t, p) ==
  IF TemplateExists(w, t) \/ ~ValidTemplate(p) THEN {}
  ELSE {[w EXCEPT
           !.templateNames = Append(@, t),
           !.templates = [x \in DOMAIN @ \cup {t} |->
             IF x # t THEN @[x]
             ELSE [numberOfTokens |-> p.numberOfTokens, duration |-> p.duration,
                   frequency |-> p.frequency, index |-> Len(w.templateNames)]]]}

\* An array without the entry of this index: the last one takes its place.
Without(array, index) ==
  SubSeq([array EXCEPT ![index + 1] = array[Len(array)]], 1, Len(array) - 1)

RemoveTemplate(w, t) ==
  IF ~TemplateExists(w, t) \/ w.templateToUsers[t] # << >> THEN {}
  ELSE LET index == w.templates[t].index
           moved == Last(w.templateNames)
       IN  {[w EXCEPT
               !.templateNames = Without(@, index),
               !.templates = [x \in DOMAIN @ \ {t} |->
                 IF x = moved THEN [@[x] EXCEPT !.index = index] ELSE @[x]]]}

-----------------------------------------------------------------------------
(* Schedules.                                                              *)

\* What is not at hand is deposited by the caller.
Missing(w, t) ==
  LET n == w.templates[t].numberOfTokens
  IN  IF n > w.unassignedTokens THEN n - w.unassignedTokens ELSE 0

\* Storage outside the array reads as zero only when the array is empty.
AlreadyAdded(w, b, t) ==
  /\ w.schedules[b] # << >>
  /\ w.schedules[b][w.userToTemplateIndex[b][t] + 1].templateName = t

Scheduled(w, b, t, startTime) ==
  [w EXCEPT
     !.unassignedTokens = @ - w.templates[t].numberOfTokens,
     !.beneficiaries = IF b \in ToSet(@) THEN @ ELSE Append(@, b),
     !.schedules[b] = Append(@, [templateName |-> t, claimedTokens |-> 0,
                                 startTime |-> startTime]),
     !.userToTemplates[b] = Append(@, t),
     !.userToTemplateIndex[b][t] = Len(w.schedules[b]),
     !.templateToUsers[t] = Append(@, b),
     !.templateToUserIndex[t][b] = Len(w.templateToUsers[t])]

AddScheduleFromTemplate(w, b, t, startTime, now) ==
  IF /\ TemplateExists(w, t)
     /\ ~AlreadyAdded(w, b, t)
     /\ startTime >= now
     /\ Len(w.schedules[b]) < MaxSchedules
    THEN {Scheduled(v, b, t, startTime) : v \in Deposit(w, Missing(w, t))}
    ELSE {}

AddSchedule(w, b, t, p, startTime, now) ==
  UNION {AddScheduleFromTemplate(v, b, t, startTime, now) : v \in AddTemplate(w, t, p)}

\* _checkSchedule
HasSchedule(w, b, t) ==
  LET index == w.userToTemplateIndex[b][t] IN
  /\ index < Len(w.schedules[b])
  /\ w.schedules[b][index + 1].templateName = t

ScheduleOf(w, b, t) == w.schedules[b][w.userToTemplateIndex[b][t] + 1]

ModifySchedule(w, b, t, startTime, now) ==
  IF /\ HasSchedule(w, b, t)
     /\ startTime > now
     /\ now < ScheduleOf(w, b, t).startTime
    THEN {[w EXCEPT !.schedules[b][w.userToTemplateIndex[b][t] + 1].startTime = startTime]}
    ELSE {}

\* Mutant: the moved user keeps the index he had.
DeleteTemplateToUsersUnmoved(w, b, t) ==
  [w EXCEPT !.templateToUsers[t] = Without(@, w.templateToUserIndex[t][b]),
            !.templateToUserIndex[t][b] = 0]

\* _deleteTemplateToUsers
DeleteTemplateToUsers(w, b, t) ==
  LET index == w.templateToUserIndex[t][b] IN
  [w EXCEPT !.templateToUsers[t] = Without(@, index),
            !.templateToUserIndex[t] =
              [@ EXCEPT ![Last(w.templateToUsers[t])] = index, ![b] = 0]]

\* _deleteUserToTemplates
DeleteUserToTemplates(w, b, t) ==
  LET index == w.userToTemplateIndex[b][t] IN
  [w EXCEPT !.schedules[b] = Without(@, index),
            !.userToTemplates[b] = Without(@, index),
            !.userToTemplateIndex[b] =
              [@ EXCEPT ![Last(w.schedules[b]).templateName] = index, ![t] = 0]]

\* Mutant: takes back what was not claimed before the call.
RevokeScheduleUnclaimed(w, b, t, now) ==
  LET s == ScheduleOf(w, b, t)
      amount == GetAvailableTokens(w, s, now)
      paid == [w EXCEPT !.balance = @ - amount,
                        !.received[b] = @ + amount,
                        !.unassignedTokens = @ + NumberOfTokens(w, s) - s.claimedTokens]
  IN  IF HasSchedule(w, b, t) /\ amount \in 0 .. w.balance
        THEN {DeleteTemplateToUsers(DeleteUserToTemplates(paid, b, t), b, t)}
        ELSE {}

\* What is available is paid, what is not released is unassigned again.
RevokeSchedule(w, b, t, now) ==
  LET s == ScheduleOf(w, b, t)
      amount == GetAvailableTokens(w, s, now)
      paid == [w EXCEPT !.balance = @ - amount,
                        !.received[b] = @ + amount,
                        !.unassignedTokens =
                          @ + NumberOfTokens(w, s) - GetReleasedTokens(w, s, now)]
  IN  IF HasSchedule(w, b, t) /\ amount \in 0 .. w.balance
        THEN {DeleteTemplateToUsers(DeleteUserToTemplates(paid, b, t), b, t)}
        ELSE {}

\* What revokeAllSchedules does after the payment.
DropSchedules(w, b) ==
  LET names == [i \in DOMAIN w.schedules[b] |-> w.schedules[b][i].templateName]
      dropped == [w EXCEPT
                    !.unassignedTokens = @ + UnclaimedOf(w, b),
                    !.schedules[b] = << >>,
                    !.userToTemplates[b] = << >>,
                    !.userToTemplateIndex[b] =
                      [t \in TemplateName |-> IF t \in ToSet(names) THEN 0 ELSE @[t]]]
      left[k \in 0 .. Len(names)] ==
        IF k = 0 THEN dropped ELSE DeleteTemplateToUsers(left[k - 1], b, names[k])
  IN  left[Len(names)]

\* Mutant: the payment is left to a later call.
RevokeAllSchedulesUnpaid(w, b, now) ==
  {[DropSchedules(w, b) EXCEPT
      !.unassignedTokens = @ - AvailableOf(w, b, now)]}

RevokeAllSchedules(w, b, now) == {DropSchedules(v, b) : v \in SendTokens(w, b, now)}

=============================================================================
