--------------------------- MODULE RestrictionsClient ---------------------------
(***************************************************************************)
(* CLI/commands/transfer_manager.js, the menu of the volume restriction    *)
(* transfer manager, at work on the book of Restrictions.  Whether a       *)
(* restriction may be added, or modified and removed, is decided by what   *)
(* was read before the operator answered.                                  *)
(***************************************************************************)
EXTENDS ClientSession, Restrictions

CONSTANTS
  RestrictionStart,    \* start times an operator may enter; zero is "now"
  RestrictionFile,     \* files of an operator, by the records they hold
  RestrictionBatch     \* batch sizes an operator may enter

RestrictionRecord == [holder : Holder, start : Nat]

ASSUME RestrictionsAssumption ==
  /\ IsFiniteSet(Holder) /\ Default \notin Holder
  /\ RestrictionStart \subseteq Nat
  /\ RestrictionFile \subseteq Seq(RestrictionRecord)
  /\ RestrictionBatch \subseteq Nat \ {0}

RestrictionsInit == current = "volume" /\ contract = NoRestrictions

ChangeExemptWallet(c) ==
  \E h \in Holder, exempted \in BOOLEAN : Begin(c, One("exempt", <<h, exempted>>), {})

\* The restrictions of a holder, or the default ones with the main menu, are
\* read, and decide what is offered.
ReadRestrictions(c, s) ==
  Show(c, "restrictions",
       {[subject |-> s, daily |-> OneDay(contract, s), custom |-> MultipleDays(contract, s)]})

\* inputRestrictionData
Enter(c, op) ==
  \E start \in RestrictionStart :
    Begin(c, One(op, <<Shown(c).subject, start>>), session[c].about)

ChangeShown(c, has, add, modify, remove) ==
  \/ ~has /\ Enter(c, add)
  \/ has /\ Enter(c, modify)
  \/ has /\ Begin(c, One(remove, <<Shown(c).subject>>), session[c].about)

ChangeRestrictions(c) ==
  \/ ChangeShown(c, Shown(c).daily, "addDaily", "modifyDaily", "removeDaily")
  \/ ChangeShown(c, Shown(c).custom, "addCustom", "modifyCustom", "removeCustom")

ChangeDefaultRestrictions(c) == Shown(c).subject = Default /\ ChangeRestrictions(c)
ChangeIndividualRestrictions(c) == Shown(c).subject # Default /\ ChangeRestrictions(c)

RestrictionsInBatch(c, op, columns) ==
  \E f \in RestrictionFile, size \in RestrictionBatch :
    Begin(c, CallsOf(op, [k \in DOMAIN f |-> [x \in DOMAIN columns |-> f[k][columns[x]]]],
                     size), {})

AddDailyRestrictionsInBatch(c) == RestrictionsInBatch(c, "addDaily", <<"holder", "start">>)
ModifyDailyRestrictionsInBatch(c) ==
  RestrictionsInBatch(c, "modifyDaily", <<"holder", "start">>)
RemoveDailyRestrictionsInBatch(c) == RestrictionsInBatch(c, "removeDaily", <<"holder">>)
AddCustomRestrictionsInBatch(c) == RestrictionsInBatch(c, "addCustom", <<"holder", "start">>)
ModifyCustomRestrictionsInBatch(c) ==
  RestrictionsInBatch(c, "modifyCustom", <<"holder", "start">>)
RemoveCustomRestrictionsInBatch(c) == RestrictionsInBatch(c, "removeCustom", <<"holder">>)

OperateWithMultipleRestrictions(c) ==
  \/ AddDailyRestrictionsInBatch(c)
  \/ ModifyDailyRestrictionsInBatch(c)
  \/ RemoveDailyRestrictionsInBatch(c)
  \/ AddCustomRestrictionsInBatch(c)
  \/ ModifyCustomRestrictionsInBatch(c)
  \/ RemoveCustomRestrictionsInBatch(c)

VolumeRestrictionTM(c) ==
  \/ /\ At(c, "menu")
     /\ \/ ChangeExemptWallet(c)
        \/ \E s \in Subject : ReadRestrictions(c, s)
        \/ OperateWithMultipleRestrictions(c)
  \/ /\ At(c, "restrictions")
     /\ ChangeDefaultRestrictions(c) \/ ChangeIndividualRestrictions(c)

RestrictionsCallAfter(call) == RestrictionsAfter(contract, call, now)

RestrictionsStep(c) ==
  /\ current = "volume"
  /\ \/ VolumeRestrictionTM(c)
     \/ Send(c, RestrictionsCallAfter(ToSend(c)))
     \/ \E call \in mempool[c] : Mine(c, RestrictionsCallAfter(call))

-----------------------------------------------------------------------------
(* Properties.                                                             *)

\* Unless a modification made his daily restriction, the list that is shown has
\* every restriction of a holder, and the removal of one leaves the other one
\* listed; the exempted wallets are listed once each and found by their index.
RestrictionsShown ==
  current = "volume" =>
    /\ \A h \in Holder \ contract.patched :
         ({contract.daily[h], contract.custom[h]} \ {0})
           \subseteq RestrictionData(contract, h)
    /\ \A h \in Holder, k \in 1 .. Cardinality(Holder) :
         (contract.exemptIndex[h] = k) <=>
           (k <= Len(contract.exempt) /\ contract.exempt[k] = h)

=============================================================================
