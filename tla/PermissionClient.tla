--------------------------- MODULE PermissionClient ----------------------------
(***************************************************************************)
(* The delegates of a token and what they may do, in                       *)
(* modules/PermissionManager/GeneralPermissionManager.sol, and             *)
(* CLI/commands/permission_manager.js, with which administrators manage    *)
(* them, chosen from a list that is read for each choice.  A permission is *)
(* one of one module.  An operation is the set of books it leads to.       *)
(***************************************************************************)
EXTENDS ClientSession

CONSTANTS Delegate, Permission

NoDelegates ==
  [allDelegates |-> << >>,
   hasDetails   |-> [d \in Delegate |-> FALSE],
   perms        |-> [d \in Delegate |-> {}]]

CheckPermission(b, d, perm) == b.hasDetails[d] /\ perm \in b.perms[d]

AddDelegate(b, d) ==
  IF b.hasDetails[d] THEN {}
  ELSE {[b EXCEPT !.hasDetails[d] = TRUE, !.allDelegates = Append(@, d)]}

\* The array without its first d, the last one moved into that place.
WithoutDelegate(s, d) ==
  LET k == SelectInSeq(s, LAMBDA x : x = d)
  IN  IF k = 0 THEN s ELSE Front([s EXCEPT ![k] = Last(s)])

\* Mutant: the details are left.
DeleteDelegateKeepingDetails(b, d) ==
  IF b.hasDetails[d] THEN {[b EXCEPT !.allDelegates = WithoutDelegate(@, d)]} ELSE {}

\* What the delegate may do is left for when he is added again.
DeleteDelegate(b, d) ==
  IF b.hasDetails[d]
    THEN {[b EXCEPT !.allDelegates = WithoutDelegate(@, d), !.hasDetails[d] = FALSE]}
    ELSE {}

\* Of anybody, delegate or not.
ChangePermission(b, d, perm, valid) ==
  {[b EXCEPT !.perms[d] = IF valid THEN @ \cup {perm} ELSE @ \ {perm}]}

\* What one record of a call does.
PermissionsChange(b, op, row) ==
  CASE op = "addDelegate" -> AddDelegate(b, row[1])
    [] op = "deleteDelegate" -> DeleteDelegate(b, row[1])
    [] op = "changePermission" ->
         ChangePermission(b, row[1], row[2], row[3])

PermissionsAfter(b, call) ==
  InTurn(b, call.rows, LAMBDA book, row : PermissionsChange(book, call.op, row))

-----------------------------------------------------------------------------
(* The program.                                                            *)

PermissionsInit == current = "permission" /\ contract = NoDelegates

-----------------------------------------------------------------------------
(* What the program shows.                                                 *)

GetDelegates == ToSet(contract.allDelegates)

\* Of the modules the token has at the moment.
GetPermissionsByDelegate(d) == contract.perms[d]

GetDelegatesAndPermissions ==
  {[delegate |-> d, permissions |-> GetPermissionsByDelegate(d)] : d \in GetDelegates}

\* The choice is of a list that may have changed since the menu offered it.
SelectDelegate(c, place) ==
  \E shown \in GetDelegatesAndPermissions : Show(c, place, {shown})

-----------------------------------------------------------------------------

AddNewDelegate(c) == \E d \in Delegate : Begin(c, One("addDelegate", <<d>>), {})

DeleteShownDelegate(c) ==
  Begin(c, One("deleteDelegate", <<Shown(c).delegate>>), session[c].about)

ManageDelegates(c) == AddNewDelegate(c) \/ SelectDelegate(c, "delete delegate")

\* A module that has permissions, one of them, and to grant or to revoke it.
ChangeShownPermission(c) ==
  \E perm \in Permission, valid \in BOOLEAN :
    Begin(c, One("changePermission", <<Shown(c).delegate, perm, valid>>),
          session[c].about)

PermissionManager(c) ==
  \/ At(c, "menu") /\ (ManageDelegates(c) \/ SelectDelegate(c, "change permission"))
  \/ At(c, "delete delegate") /\ DeleteShownDelegate(c)
  \/ At(c, "change permission") /\ ChangeShownPermission(c)

PermissionCallAfter(call) == PermissionsAfter(contract, call)

PermissionStep(c) ==
  /\ current = "permission"
  /\ \/ PermissionManager(c)
     \/ Send(c, PermissionCallAfter(ToSend(c)))
     \/ \E call \in mempool[c] : Mine(c, PermissionCallAfter(call))

-----------------------------------------------------------------------------
(* Properties.                                                             *)

\* Nobody may do anything who is not in the list that the administrators choose
\* from, with all he may do, whatever they add, delete and change at a time.
WhoMayIsShown ==
  current = "permission" =>
    /\ IsInjective(contract.allDelegates)
    /\ \A d \in Delegate :
         {perm \in Permission : CheckPermission(contract, d, perm)} =
           UNION {shown.permissions :
                    shown \in {x \in GetDelegatesAndPermissions : x.delegate = d}}

=============================================================================
