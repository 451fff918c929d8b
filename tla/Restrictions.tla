------------------------------ MODULE Restrictions ------------------------------
(***************************************************************************)
(* VRTM/VolumeRestrictionTM.sol and libraries/VolumeRestrictionLib.sol:    *)
(* the daily and the custom restriction of each holder and of everybody    *)
(* (the default), the list of the restricted holders, which is a flag in   *)
(* the data store and a type of period, and the exempted wallets.          *)
(*                                                                         *)
(* A restriction is its start time, zero when there is none: amounts,      *)
(* periods and end times are checked and stored with it.  An operation is  *)
(* the set of books it leads to.                                           *)
(***************************************************************************)
EXTENDS Batches, FiniteSets

CONSTANT Holder

Default == "default"
Subject == Holder \cup {Default}

NoRestrictions ==
  [daily       |-> [s \in Subject |-> 0],
   custom      |-> [s \in Subject |-> 0],
   periods     |-> [h \in Holder |-> "MultipleDays"],   \* holderToRestrictionType
   listed      |-> {},                                  \* holders with the flag
   exempt      |-> << >>,
   exemptIndex |-> [h \in Holder |-> 0],                \* from one
   patched     |-> {}]   \* history: a modification made the daily restriction

OneDay(b, s) == b.daily[s] # 0
MultipleDays(b, s) == b.custom[s] # 0

ValidStartTime(start, now) == IF start = 0 THEN now + 1 ELSE start

\* Mutant: the holder leaves the list with one of two restrictions.
DeleteHolderAnyway(b, h, left) == [b EXCEPT !.listed = @ \ {h}]

\* deleteHolderFromList: the holder leaves the list, unless he has both kinds;
\* then the other one is left to him.
DeleteHolderFromList(b, h, left) ==
  IF b.periods[h] # "Both" THEN [b EXCEPT !.listed = @ \ {h}]
                           ELSE [b EXCEPT !.periods[h] = left]

\* addRestrictionData: the custom restriction is looked at for both kinds.
AddRestrictionData(b, h, kind) ==
  [b EXCEPT !.listed = @ \cup {h},
            !.periods[h] = IF @ # kind /\ MultipleDays(b, h) THEN "Both" ELSE kind]

-----------------------------------------------------------------------------

RemoveDaily(b, s) ==
  IF ~OneDay(b, s) THEN {}
  ELSE LET removed == [b EXCEPT !.daily[s] = 0]
       IN  {IF s = Default THEN removed
            ELSE DeleteHolderFromList(removed, s, "MultipleDays")}

RemoveCustom(b, s) ==
  IF ~MultipleDays(b, s) THEN {}
  ELSE LET removed == [b EXCEPT !.custom[s] = 0]
       IN  {IF s = Default THEN removed ELSE DeleteHolderFromList(removed, s, "OneDay")}

\* A default is overwritten; a holder's restriction is removed first.
AddDaily(b, s, start, now) ==
  LET at == ValidStartTime(start, now)
      Added(book) == [book EXCEPT !.daily[s] = at]
  IN  IF at <= now THEN {}
      ELSE IF s = Default THEN {Added(b)}
      ELSE {AddRestrictionData(Added(book), s, "OneDay") :
              book \in IF OneDay(b, s) THEN RemoveDaily(b, s) ELSE {b}}

AddCustom(b, s, start, now) ==
  LET at == ValidStartTime(start, now)
      Added(book) == [book EXCEPT !.custom[s] = at]
  IN  IF at <= now THEN {}
      ELSE IF s = Default THEN {Added(b)}
      ELSE IF b.exemptIndex[s] # 0 THEN {}
      ELSE {AddRestrictionData(Added(book), s, "MultipleDays") :
              book \in IF MultipleDays(b, s) THEN RemoveCustom(b, s) ELSE {b}}

\* A daily restriction in force starts no earlier than it did.  One that does
\* not exist may be modified too, and then exists without being listed.
ModifyDaily(b, s, start, now) ==
  LET at == ValidStartTime(start, now)
      earliest == IF b.daily[s] <= now THEN b.daily[s] ELSE now
  IN  IF at < earliest THEN {}
      ELSE {[b EXCEPT !.daily[s] = at,
                      !.patched = IF OneDay(b, s) THEN @ ELSE @ \cup {s}]}

ModifyCustom(b, s, start, now) ==
  LET at == ValidStartTime(start, now)
  IN  IF b.custom[s] > now /\ at > now THEN {[b EXCEPT !.custom[s] = at]} ELSE {}

\* The last wallet is moved to the place of the one that leaves.
ChangeExemptWalletList(b, h, exempted) ==
  LET k == b.exemptIndex[h]
      last == Last(b.exempt)
  IN  IF (k = 0) # exempted THEN {}
      ELSE IF exempted
        THEN {[b EXCEPT !.exempt = Append(@, h), !.exemptIndex[h] = Len(b.exempt) + 1]}
        ELSE {[b EXCEPT !.exempt = Front([@ EXCEPT ![k] = last]),
                        !.exemptIndex = [[@ EXCEPT ![last] = k] EXCEPT ![h] = 0]]}

\* What one record of a call does.
RestrictionsChange(b, op, row, now) ==
  CASE op = "addDaily" -> AddDaily(b, row[1], row[2], now)
    [] op = "addCustom" -> AddCustom(b, row[1], row[2], now)
    [] op = "modifyDaily" -> ModifyDaily(b, row[1], row[2], now)
    [] op = "modifyCustom" -> ModifyCustom(b, row[1], row[2], now)
    [] op = "removeDaily" -> RemoveDaily(b, row[1])
    [] op = "removeCustom" -> RemoveCustom(b, row[1])
    [] op = "exempt" -> ChangeExemptWalletList(b, row[1], row[2])

RestrictionsAfter(b, call, now) ==
  InTurn(b, call.rows, LAMBDA book, row : RestrictionsChange(book, call.op, row, now))

\* getRestrictionData: the restrictions it gives of a listed holder.
RestrictionData(b, h) ==
  IF h \notin b.listed THEN {}
  ELSE (IF b.periods[h] # "OneDay" THEN {b.custom[h]} ELSE {})
         \cup (IF b.periods[h] # "MultipleDays" THEN {b.daily[h]} ELSE {})

=============================================================================
