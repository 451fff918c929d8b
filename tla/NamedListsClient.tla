---------------------------- MODULE NamedListsClient ----------------------------
(***************************************************************************)
(* CLI/commands/transfer_manager.js, the menus of the blacklist and of the *)
(* lockup transfer manager, at work on the book of NamedLists while other  *)
(* administrators work on it too.  What a menu shows and what it makes of  *)
(* it (the investors to remove before a type is deleted) was read before   *)
(* the calls are mined.                                                    *)
(***************************************************************************)
EXTENDS ClientSession, NamedLists

CONSTANTS
  StartTime,      \* start times an operator may enter
  File,           \* files of an operator, by the records they hold
  DefaultBatch,   \* gbl.constants.DEFAULT_BATCH_SIZE
  BatchSize       \* sizes an operator may enter

ListRecord == [name : Name, start : Nat, investor : Investor]

ASSUME ListsAssumption ==
  /\ StartTime \subseteq Nat /\ File \subseteq Seq(ListRecord)
  /\ DefaultBatch \in Nat \ {0} /\ BatchSize \subseteq Nat \ {0}

Lists == {"blacklist", "lockup"}

ListsInit == current \in Lists /\ contract = EmptyBook

-----------------------------------------------------------------------------
(* The main menus.                                                         *)

AddNewType(c) ==
  \E n \in Name, start \in StartTime :
    \/ Begin(c, One("addType", <<start, n>>), {})
    \/ \E i \in Investor : Begin(c, One("addTypeAndInvestor", <<start, n, i>>), {})

\* 'Add new blacklist'
AddNewBlacklist(c) == current = "blacklist" /\ AddNewType(c)

\* 'Add new lockup'
AddNewLockup(c) == current = "lockup" /\ AddNewType(c)

\* 'Delete investors from all blacklists': one investor or several.
DeleteInvestorsFromAllBlacklists(c) ==
  /\ current = "blacklist"
  /\ \E i \in Investor, more \in {<< >>} \cup {<<<<j>>>> : j \in Investor} :
       Begin(c, <<[op |-> "deleteFromAll", rows |-> <<<<i>>>> \o more]>>, {})

\* 'Manage existing ...': the type, chosen from the list read with the menu, and
\* the investors under it; both are read again after every command.  The reading
\* reverts when the type is gone since, which ends the program.
ReadType(c) ==
  \E n \in Name :
    /\ Exists(contract, n)
    /\ Show(c, "manage", {[name |-> n, investors |-> contract.investorsOf[n]]})

ManageExistingBlacklist(c) == current = "blacklist" /\ At(c, "menu") /\ ReadType(c)

ManageExistingLockup(c) == current = "lockup" /\ At(c, "menu") /\ ReadType(c)

-----------------------------------------------------------------------------
(* The menus of one type.                                                  *)

ModifyProperties(c) ==
  \E start \in StartTime :
    Begin(c, One("modifyType", <<start, Shown(c).name>>), session[c].about)

\* Mutant: the investors are read again after the operator agreed.
DeleteThisTypeReadAgain(c) ==
  LET n == Shown(c).name
      present == contract.investorsOf[n]
  IN  Begin(c, CallsOf("deleteInvestor", [k \in DOMAIN present |-> <<present[k], n>>], DefaultBatch)
                 \o One("deleteType", <<n>>), session[c].about)

\* 'Delete this ... type': the investors that were shown, in batches, when the
\* operator agrees to remove them, and then the type; nothing when he does not.
DeleteThisType(c) ==
  LET m == Shown(c)
      data == [k \in DOMAIN m.investors |-> <<m.investors[k], m.name>>]
  IN  \/ Begin(c, CallsOf("deleteInvestor", data, DefaultBatch)
                    \o One("deleteType", <<m.name>>), session[c].about)
      \/ m.investors # << >> /\ Begin(c, << >>, {})

\* The blacklists offer 'Add investors' and 'Remove investor'.
AddInvestorsToThis(c) ==
  \E i \in Investor, more \in {{}} \cup {{j} : j \in Investor} :
    LET n == Shown(c).name
    IN  Begin(c, <<[op |-> "addInvestor",
                    rows |-> <<<<i, n>>>> \o SetToSeq({<<j, n>> : j \in more})]>>,
              session[c].about)

RemoveInvestorFromThis(c) ==
  \E i \in Investor :
    Begin(c, One("deleteInvestor", <<i, Shown(c).name>>), session[c].about)

ManageBlacklist(c) ==
  /\ current = "blacklist" /\ At(c, "manage")
  /\ \/ ModifyProperties(c)
     \/ AddInvestorsToThis(c)
     \/ RemoveInvestorFromThis(c)
     \/ DeleteThisType(c)

\* The lockups show 'Add investors to this lockup' and 'Remove investors from
\* this lockup', but the cases are named 'Add this lockup to investors' and
\* 'Remove this lockup from investors': choosing them only shows the menu again.
ManageLockup(c) ==
  /\ current = "lockup" /\ At(c, "manage")
  /\ \/ ModifyProperties(c)
     \/ DeleteThisType(c)

-----------------------------------------------------------------------------
(* The menus for files.  Each file is a sequence of records; the columns of *)
(* a call are those of the file.                                           *)

InBatch(c, op, columns) ==
  \E f \in File, size \in BatchSize :
    Begin(c, CallsOf(op, [k \in DOMAIN f |-> [x \in DOMAIN columns |-> f[k][columns[x]]]],
                     size), {})

AddBlacklistsInBatch(c) == current = "blacklist" /\ InBatch(c, "addType", <<"start", "name">>)
AddLockupsInBatch(c) == current = "lockup" /\ InBatch(c, "addType", <<"start", "name">>)

\* Modification is only offered when there are types.
ModifyLockupsInBatch(c) ==
  /\ current = "lockup" /\ contract.types # << >>
  /\ InBatch(c, "modifyType", <<"start", "name">>)

DeleteLockupsInBatch(c) == current = "lockup" /\ InBatch(c, "deleteType", <<"name">>)

AddLockupsToInvestorsInBatch(c) ==
  current = "lockup" /\ InBatch(c, "addInvestor", <<"investor", "name">>)

RemoveLockupsFromInvestorsInBatch(c) ==
  current = "lockup" /\ InBatch(c, "deleteInvestor", <<"investor", "name">>)

RemoveInvestorsFromBlacklistsInBatch(c) ==
  current = "blacklist" /\ InBatch(c, "deleteInvestor", <<"investor", "name">>)

\* readNumberGreaterThan gets the text of the question for the least value, and
\* no answer is greater than a text: the program asks until it is killed.
AskForever(c) ==
  /\ current = "blacklist"
  /\ Show(c, "asking", {})

ModifyBlacklistsInBatch(c) == contract.types # << >> /\ AskForever(c)
DeleteBlacklistsInBatch(c) == AskForever(c)
AddInvestorsToBlacklistsInBatch(c) == AskForever(c)

OperateWithMultipleBlacklists(c) ==
  /\ At(c, "menu")
  /\ \/ AddBlacklistsInBatch(c)
     \/ ModifyBlacklistsInBatch(c)
     \/ DeleteBlacklistsInBatch(c)
     \/ AddInvestorsToBlacklistsInBatch(c)
     \/ RemoveInvestorsFromBlacklistsInBatch(c)

OperateWithMultipleLockups(c) ==
  /\ At(c, "menu")
  /\ \/ AddLockupsInBatch(c)
     \/ ModifyLockupsInBatch(c)
     \/ DeleteLockupsInBatch(c)
     \/ AddLockupsToInvestorsInBatch(c)
     \/ RemoveLockupsFromInvestorsInBatch(c)

-----------------------------------------------------------------------------

BlacklistTransferManager(c) ==
  /\ At(c, "menu")
  /\ AddNewBlacklist(c) \/ DeleteInvestorsFromAllBlacklists(c)

LockUpTransferManager(c) == At(c, "menu") /\ AddNewLockup(c)

ListsCallAfter(call) == ListsAfter(contract, current, call, now)

ListsStep(c) ==
  /\ current \in Lists
  /\ \/ BlacklistTransferManager(c)
     \/ LockUpTransferManager(c)
     \/ ManageExistingBlacklist(c)
     \/ ManageExistingLockup(c)
     \/ ManageBlacklist(c)
     \/ ManageLockup(c)
     \/ OperateWithMultipleBlacklists(c)
     \/ OperateWithMultipleLockups(c)
     \/ Send(c, ListsCallAfter(ToSend(c)))
     \/ \E call \in mempool[c] : Mine(c, ListsCallAfter(call))

-----------------------------------------------------------------------------
(* Properties.                                                             *)

NamesOf(i) == ToSet(contract.namesOf[i])
InvestorsOf(n) == ToSet(contract.investorsOf[n])

\* The types are listed once each, and in a lockup manager a name is only held
\* with its type, and the two directions of a membership agree with each other
\* and with their indexes, whatever calls of two administrators came in between.
MembershipAgrees ==
  current \in Lists =>
    /\ IsInjective(contract.types)
    /\ ToSet(contract.types) = {n \in Name : Exists(contract, n)}
    /\ current = "lockup" =>
         \A i \in Investor, n \in Name :
           /\ n \in NamesOf(i) => Exists(contract, n)
           /\ n \in NamesOf(i) <=> i \in InvestorsOf(n)
           /\ n \in NamesOf(i) =>
                /\ EntryIs(contract.namesOf[i], contract.nameIndex[i][n], n)
                /\ EntryIs(contract.investorsOf[n], contract.investorIndex[n][i], i)

\* BlacklistTransferManager.sol:263, "Blacklist already added to investor": an
\* investor is added to a blacklist once.
AddedOnce ==
  current = "blacklist" => \A i \in Investor : IsInjective(contract.namesOf[i])

\* Deleting a type removes the investors that were shown to the operator, never
\* one that somebody else added since: then the type stays.
OnlyShownAreRemoved ==
  [][\A c \in Client :
       (/\ current = "lockup"
        /\ session[c].at = "waiting"
        /\ session[c].about # {}
        /\ Last(session[c].calls).op = "deleteType"
        /\ mempool[c] # mempool'[c]) =>
          \A n \in Name :
            (InvestorsOf(n) \ InvestorsOf(n)') \subseteq
              (IF n = Shown(c).name THEN ToSet(Shown(c).investors) ELSE {})]_sessionVars

=============================================================================
