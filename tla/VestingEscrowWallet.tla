--------------------------- MODULE VestingEscrowWallet ---------------------------
(***************************************************************************)
(* The wallet of EscrowWallet under every sequence of calls.  A ...Multi   *)
(* call is its single calls in a row.                                      *)
(***************************************************************************)
EXTENDS EscrowWallet

CONSTANTS
  Parameters,      \* of templates: number of tokens, duration and frequency
  MaxTime          \* bound on the clock

ASSUME ParametersAssumption ==
  /\ Parameters \subseteq [numberOfTokens : Nat, duration : Nat, frequency : Nat]
  /\ MaxTime \in Nat

VARIABLES
  now,             \* time of the block
  wallet

vars == <<now, wallet>>

Init == now = 0 /\ wallet = NewWallet

OfIssuer ==
  \/ wallet' \in ReclaimERC20(wallet)
  \/ \E amount \in 1 .. MaxTokens :
       wallet' \in DepositTokens(wallet, amount) \cup SendToTreasury(wallet, amount)

Payment ==
  \/ \E b \in Beneficiary :
       \/ wallet' \in SendTokens(wallet, b, now)      \* pushAvailableTokens
       \/ wallet' \in PullAvailableTokens(wallet, b, now)
  \/ \E fromIndex, toIndex \in 0 .. Len(wallet.beneficiaries) - 1 :
       wallet' \in PushAvailableTokensMulti(wallet, fromIndex, toIndex, now)

OfTemplate ==
  \E t \in TemplateName :
    \/ wallet' \in RemoveTemplate(wallet, t)
    \/ \E p \in Parameters : wallet' \in AddTemplate(wallet, t, p)

OfSchedule ==
  \E b \in Beneficiary, t \in TemplateName :
    \/ wallet' \in RevokeSchedule(wallet, b, t, now)
    \/ wallet' \in RevokeAllSchedules(wallet, b, now)
    \/ \E startTime \in 0 .. MaxTime :
         \/ wallet' \in AddScheduleFromTemplate(wallet, b, t, startTime, now)
         \/ wallet' \in ModifySchedule(wallet, b, t, startTime, now)
         \/ \E p \in Parameters :
              wallet' \in AddSchedule(wallet, b, t, p, startTime, now)

SetPaused == wallet' = [wallet EXCEPT !.paused = ~@]

Call ==
  /\ \/ OfIssuer
     \/ Payment
     \/ OfTemplate
     \/ OfSchedule
     \/ SetPaused
  /\ UNCHANGED now

Tick ==
  /\ now < MaxTime
  /\ now' = now + 1
  /\ UNCHANGED wallet

Next == Tick \/ Call

Spec == Init /\ [][Next]_vars

-----------------------------------------------------------------------------
(* Properties.                                                             *)

\* The tokens of the wallet are those that nobody was promised and those that
\* beneficiaries have not claimed yet, so that every payment can be made: after
\* any deposits, payments, revocations and withdrawals by the treasury.  Only
\* what the owner reclaimed is missing.
WalletIsBacked ==
  wallet.balance + wallet.reclaimed =
    wallet.unassignedTokens
      + SumFunction([b \in Beneficiary |-> UnclaimedOf(wallet, b)])

\* No call takes back from a beneficiary what was released: payments and
\* revocations in any order, of one schedule or of all, leave what the
\* beneficiary got and may still claim together no smaller.
ReleasedIsKept ==
  [][\A b \in Beneficiary :
       wallet.received[b] + AvailableOf(wallet, b, now)
         <= wallet'.received[b] + AvailableOf(wallet', b, now')]_vars

\* The schedules of each user, the users of each template, the names of the
\* templates and the indexes kept of each entry agree, so that every removal by
\* moving the last entry takes out the entry it means to.
ArraysAgree ==
  LET w == wallet IN
  /\ \A b \in Beneficiary :
       /\ Len(w.userToTemplates[b]) = Len(w.schedules[b])
       /\ \A i \in DOMAIN w.schedules[b] :
            LET t == w.schedules[b][i].templateName IN
            /\ w.userToTemplates[b][i] = t
            /\ w.userToTemplateIndex[b][t] = i - 1
            /\ b \in ToSet(w.templateToUsers[t])
            /\ b \in ToSet(w.beneficiaries)
  /\ \A t \in TemplateName : \A i \in DOMAIN w.templateToUsers[t] :
       LET b == w.templateToUsers[t][i] IN
       /\ w.templateToUserIndex[t][b] = i - 1
       /\ HasSchedule(w, b, t)
  /\ Len(w.templateNames) = Cardinality(DOMAIN w.templates)
  /\ \A t \in DOMAIN w.templates : w.templateNames[w.templates[t].index + 1] = t

=============================================================================
