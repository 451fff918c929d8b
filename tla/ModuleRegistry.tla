----------------------------- MODULE ModuleRegistry -----------------------------
(***************************************************************************)
(* ModuleRegistry.sol: the factories whose modules tokens may use, and     *)
(* modules/UpgradableModuleFactory.sol: the logic contracts of a factory.  *)
(* A factory announces each change of its logic to the registry, which     *)
(* then wants it verified again.                                           *)
(***************************************************************************)
EXTENDS Integers, Sequences, FiniteSets

CONSTANTS
  Factory,     \* module factories
  Type,        \* module types
  TypesOf,     \* [Factory -> Seq(Type)]: getTypes
  Party,       \* owners of factories and tokens
  Curator,     \* owner of the registry
  Nobody,      \* address(0)
  Logic,       \* logic contracts, with their version strings
  MaxUpgrade   \* bound on latestUpgrade

ASSUME TypesAssumption == TypesOf \in [Factory -> Seq(Type)] /\ Type \subseteq 1..255
ASSUME PartyAssumption == Curator \in Party /\ Nobody \notin Party

VARIABLES
  registry,        \* first type of each registered factory, or 0
  verified,
  factoryOwner,    \* as recorded at registration
  moduleList,      \* registered factories of each first type
  moduleListIndex, \* from 0
  customModules,   \* the feature switch customModulesAllowed
  paused,
  ownerOf,         \* the owner the factory itself reports
  logicContracts,  \* of each factory, latestUpgrade + 1 of them
  reviewed         \* auxiliary: the logic contracts when it was verified

lists == <<registry, factoryOwner, moduleList, moduleListIndex>>
switches == <<customModules, paused>>
registryVars == <<lists, switches, verified, ownerOf, logicContracts, reviewed>>

Registered(f) == registry[f] # 0
LogicsOf(f) == {logicContracts[f][i] : i \in DOMAIN logicContracts[f]}

InitRegistry ==
  /\ registry = [f \in Factory |-> 0]
  /\ verified = [f \in Factory |-> FALSE]
  /\ factoryOwner = [f \in Factory |-> Nobody]
  /\ moduleList = [t \in Type |-> <<>>]
  /\ moduleListIndex = [f \in Factory |-> 0]
  /\ customModules \in BOOLEAN
  /\ paused = FALSE
  /\ ownerOf \in [Factory -> Party]
  /\ logicContracts \in [Factory -> [1..1 -> Logic]]
  /\ reviewed = [f \in Factory |-> {}]

-----------------------------------------------------------------------------
(* The registry.                                                           *)

NotPausedOrOwner(who) == who = Curator \/ ~paused

HasDistinctTypes(f) ==
  /\ TypesOf[f] # <<>>
  /\ \A i, j \in DOMAIN TypesOf[f] : TypesOf[f][i] = TypesOf[f][j] => i = j

RegisterModule(who, f) ==
  LET type == TypesOf[f][1] IN
  /\ NotPausedOrOwner(who)
  /\ who = Curator \/ (customModules /\ who = ownerOf[f])
  /\ ~Registered(f)
  /\ HasDistinctTypes(f)
  /\ factoryOwner' = [factoryOwner EXCEPT ![f] = ownerOf[f]]
  /\ registry' = [registry EXCEPT ![f] = type]
  /\ moduleListIndex' = [moduleListIndex EXCEPT ![f] = Len(moduleList[type])]
  /\ moduleList' = [moduleList EXCEPT ![type] = Append(@, f)]
  /\ UNCHANGED <<switches, verified, ownerOf, logicContracts, reviewed>>

MayRemove(who, f) ==
  /\ NotPausedOrOwner(who)
  /\ Registered(f)
  /\ who \in {Curator, factoryOwner[f]}

\* The list of f's type without f, the last factory moved to its place.
ListWithout(f) ==
  LET list == moduleList[registry[f]]
      moved == [list EXCEPT ![moduleListIndex[f] + 1] = list[Len(list)]]
  IN  SubSeq(moved, 1, Len(list) - 1)

RemoveModule(who, f) ==
  LET list == moduleList[registry[f]] IN
  /\ MayRemove(who, f)
  /\ moduleList' = [moduleList EXCEPT ![registry[f]] = ListWithout(f)]
  /\ moduleListIndex' = [moduleListIndex EXCEPT
       ![list[Len(list)]] = moduleListIndex[f], ![f] = 0]
  /\ registry' = [registry EXCEPT ![f] = 0]
  /\ verified' = [verified EXCEPT ![f] = FALSE]
  /\ factoryOwner' = [factoryOwner EXCEPT ![f] = Nobody]
  /\ UNCHANGED <<switches, ownerOf, logicContracts, reviewed>>

\* verifyModule, by the owner of the registry, who knows the logic of the moment
VerifyModule(f) ==
  /\ Registered(f)
  /\ verified' = [verified EXCEPT ![f] = TRUE]
  /\ reviewed' = [reviewed EXCEPT ![f] = LogicsOf(f)]
  /\ UNCHANGED <<lists, switches, ownerOf, logicContracts>>

\* unverifyModule, by the owner of the registry or of the factory
UnverifyModule(f) ==
  /\ Registered(f)
  /\ verified' = [verified EXCEPT ![f] = FALSE]
  /\ UNCHANGED <<lists, switches, ownerOf, logicContracts, reviewed>>

\* useModule for a token of the given owner, without the test of versions
MayUse(f, tokenOwner) ==
  verified[f] \/ (customModules /\ factoryOwner[f] = tokenOwner)

SetSwitch ==
  /\ \/ customModules' = ~customModules /\ UNCHANGED paused
     \/ paused' = ~paused /\ UNCHANGED customModules
  /\ UNCHANGED <<lists, verified, ownerOf, logicContracts, reviewed>>

-----------------------------------------------------------------------------
(* The factories.                                                          *)

\* _modifyLogicContract calls unverifyModule, which reverts for a factory that
\* is not registered.
ModifyLogicContractQuietly(f, contracts) ==
  /\ Registered(f)
  /\ logicContracts' = [logicContracts EXCEPT ![f] = contracts]
  /\ UNCHANGED <<lists, switches, verified, ownerOf, reviewed>>

ModifyLogicContract(f, contracts) ==
  /\ Registered(f)
  /\ logicContracts' = [logicContracts EXCEPT ![f] = contracts]
  /\ verified' = [verified EXCEPT ![f] = FALSE]
  /\ UNCHANGED <<lists, switches, ownerOf, reviewed>>

LatestUpgrade(f) == Len(logicContracts[f]) - 1

SetLogicContract(f, logic) ==
  /\ LatestUpgrade(f) < MaxUpgrade
  /\ logic # logicContracts[f][LatestUpgrade(f) + 1]
  /\ ModifyLogicContract(f, Append(logicContracts[f], logic))

UpdateLogicContract(f, upgrade, logic) ==
  /\ upgrade \in 0..LatestUpgrade(f)
  /\ upgrade > 0 => logic # logicContracts[f][upgrade]
  /\ ModifyLogicContract(f, [logicContracts[f] EXCEPT ![upgrade + 1] = logic])

\* Ownable.transferOwnership: the registry keeps the owner it recorded.
TransferOwnership(f, to) ==
  /\ ownerOf' = [ownerOf EXCEPT ![f] = to]
  /\ UNCHANGED <<lists, switches, verified, logicContracts, reviewed>>

-----------------------------------------------------------------------------
RegistryNext ==
  \/ \E f \in Factory :
       \/ \E who \in Party : RegisterModule(who, f) \/ RemoveModule(who, f)
       \/ VerifyModule(f)
       \/ UnverifyModule(f)
       \/ \E to \in Party : TransferOwnership(f, to)
       \/ \E logic \in Logic :
            \/ SetLogicContract(f, logic)
            \/ \E upgrade \in 0..MaxUpgrade : UpdateLogicContract(f, upgrade, logic)
  \/ SetSwitch

RegistrySpec == InitRegistry /\ [][RegistryNext]_registryVars

-----------------------------------------------------------------------------
RegistryTypeOK ==
  /\ registry \in [Factory -> Type \cup {0}]
  /\ verified \in [Factory -> BOOLEAN]
  /\ factoryOwner \in [Factory -> Party \cup {Nobody}]
  /\ moduleList \in [Type -> Seq(Factory)]
  /\ moduleListIndex \in [Factory -> Nat]
  /\ customModules \in BOOLEAN /\ paused \in BOOLEAN
  /\ ownerOf \in [Factory -> Party]
  /\ logicContracts \in [Factory -> Seq(Logic)]
  /\ reviewed \in [Factory -> SUBSET Logic]

\* The lists by type, the indexes and the types of the registered factories say
\* the same after any order of registrations and removals by several owners.
FactoryListsAgree ==
  /\ \A f \in Factory : Registered(f) =>
       /\ moduleListIndex[f] + 1 \in DOMAIN moduleList[registry[f]]
       /\ moduleList[registry[f]][moduleListIndex[f] + 1] = f
  /\ \A t \in Type : \A i \in DOMAIN moduleList[t] :
       LET f == moduleList[t][i] IN registry[f] = t /\ moduleListIndex[f] = i - 1

\* Only what is registered is verified, and only with the logic contracts that
\* the owner of the registry saw: neither a new version, nor a removal and a
\* new registration, keeps the old verdict.
VerifiedAsReviewed ==
  \A f \in Factory : verified[f] => Registered(f) /\ LogicsOf(f) = reviewed[f]
=============================================================================
