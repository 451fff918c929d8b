------------------------------ MODULE TokenModules ------------------------------
(***************************************************************************)
(* The modules attached to a token: tokens/SecurityToken.sol and           *)
(* libraries/TokenLib.sol, addModule to removeModule, with upgradeToken of *)
(* tokens/STFactory.sol.  Together with the registry that allows them and  *)
(* the factories that deploy and upgrade them.                             *)
(***************************************************************************)
EXTENDS ModuleRegistry, SequencesExt

CONSTANTS
  Module,      \* addresses of modules
  Name,        \* names a factory may have
  TokenOwner,
  Version,     \* versions of the token; 0 is the version that is not set
  FirstVersion

ASSUME VersionAssumption ==
  Version \subseteq Nat /\ FirstVersion \in Version \ {0}
ASSUME TokenOwnerAssumption == TokenOwner \in Party

VARIABLES
  nameOf,         \* of each factory
  bounds,         \* of each factory: token versions its modules can serve
  modules,        \* of each type
  names,          \* modules of each name
  modulesToData,  \* of each module attached
  tokenVersion

tokenVars == <<modules, names, modulesToData, tokenVersion>>
allVars == <<registryVars, nameOf, bounds, tokenVars>>

Attached == DOMAIN modulesToData

InitM ==
  /\ InitRegistry
  /\ nameOf \in [Factory -> Name]
  /\ bounds \in [Factory -> [lower : Version \ {0}, upper : Version \ {0}]]
  /\ modules = [t \in Type |-> <<>>]
  /\ names = [n \in Name |-> <<>>]
  /\ modulesToData = <<>>
  /\ tokenVersion = FirstVersion

-----------------------------------------------------------------------------
IsCompatibleModule(f, version) ==
  bounds[f].lower <= version /\ version <= bounds[f].upper

\* useModule, with the test for a registered token
CanUse(f) == MayUse(f, TokenOwner) /\ IsCompatibleModule(f, tokenVersion)

\* Where _addModuleData pushes a module of these types.
NextIndexes(types) == [i \in DOMAIN types |-> Len(modules[types[i]])]

\* addModuleWithLabel.  The module gets the latest logic of its factory.
AddModule(f, m, archived) ==
  LET types == TypesOf[f] IN
  /\ CanUse(f)
  /\ m \notin Attached
  /\ modules' = [t \in Type |-> IF \E i \in DOMAIN types : types[i] = t
                                THEN Append(modules[t], m) ELSE modules[t]]
  /\ names' = [names EXCEPT ![nameOf[f]] = Append(@, m)]
  /\ modulesToData' = [x \in Attached \cup {m} |->
       IF x # m THEN modulesToData[x]
       ELSE [name |-> nameOf[f], moduleFactory |-> f, isArchived |-> archived,
             moduleTypes |-> types,
             moduleIndexes |-> NextIndexes(types),
             nameIndex |-> Len(names[nameOf[f]]),
             version |-> LatestUpgrade(f),
             logic |-> logicContracts[f][LatestUpgrade(f) + 1]]]
  /\ UNCHANGED <<registryVars, nameOf, bounds, tokenVersion>>

ArchiveModule(m) ==
  /\ m \in Attached
  /\ ~modulesToData[m].isArchived
  /\ modulesToData' = [modulesToData EXCEPT ![m].isArchived = TRUE]
  /\ UNCHANGED <<registryVars, nameOf, bounds, modules, names, tokenVersion>>

\* UnarchiveModule that does not ask the registry.
UnarchiveModuleUnasked(m) ==
  /\ m \in Attached
  /\ modulesToData[m].isArchived
  /\ modulesToData' = [modulesToData EXCEPT ![m].isArchived = FALSE]
  /\ UNCHANGED <<registryVars, nameOf, bounds, modules, names, tokenVersion>>

UnarchiveModule(m) ==
  /\ m \in Attached
  /\ modulesToData[m].isArchived
  /\ CanUse(modulesToData[m].moduleFactory)
  /\ modulesToData' = [modulesToData EXCEPT ![m].isArchived = FALSE]
  /\ UNCHANGED <<registryVars, nameOf, bounds, modules, names, tokenVersion>>

\* upgradeModule: one version at a time, and the proxy refuses the logic it has
UpgradeModule(m) ==
  LET data == modulesToData[m]
      logic == logicContracts[data.moduleFactory][data.version + 2]
  IN
  /\ m \in Attached
  /\ CanUse(data.moduleFactory)
  /\ data.version < LatestUpgrade(data.moduleFactory)
  /\ logic # data.logic
  /\ modulesToData' = [modulesToData EXCEPT
       ![m].version = @ + 1, ![m].logic = logic]
  /\ UNCHANGED <<registryVars, nameOf, bounds, modules, names, tokenVersion>>

-----------------------------------------------------------------------------
(* Removal, by moving the last entry of an array to the place that is free. *)

Without(array, index) ==
  SubSeq([array EXCEPT ![index + 1] = array[Len(array)]], 1, Len(array) - 1)

HasType(data, type) == type \in Range(data.moduleTypes)

\* Where a module with this data is in the array of a type it has.
IndexIn(data, type) ==
  data.moduleIndexes[CHOOSE i \in DOMAIN data.moduleTypes : data.moduleTypes[i] = type]

\* _removeModuleWithIndex for each type of the module, which the registry has
\* seen to be distinct: the last module of an array moves to the free place ...
ArraysWithout(data) ==
  [t \in Type |-> IF HasType(data, t) THEN Without(modules[t], IndexIn(data, t))
                                      ELSE modules[t]]

\* Mutant of IndexesWithout: the moved module is not told its index.
IndexesUnmoved(data, x) == modulesToData[x].moduleIndexes

\* ... and gets the index of that place.
IndexesWithout(data, x) ==
  LET types == modulesToData[x].moduleTypes IN
  [i \in DOMAIN types |->
     IF HasType(data, types[i]) /\ Last(modules[types[i]]) = x
       THEN IndexIn(data, types[i])
       ELSE modulesToData[x].moduleIndexes[i]]

\* removeModule of TokenLib
RemoveAttached(m) ==
  LET data == modulesToData[m] IN
  /\ m \in Attached
  /\ data.isArchived
  /\ modules' = ArraysWithout(data)
  /\ names' = [names EXCEPT ![data.name] = Without(@, data.nameIndex)]
  /\ modulesToData' = [x \in Attached \ {m} |->
       [modulesToData[x] EXCEPT
          !.moduleIndexes = IndexesWithout(data, x),
          !.nameIndex = IF x = Last(names[data.name]) THEN data.nameIndex ELSE @]]
  /\ UNCHANGED <<registryVars, nameOf, bounds, tokenVersion>>

-----------------------------------------------------------------------------
\* changeSTVersionBounds widens the range, unless the bound is 0.0.0, which is
\* stored as if it were not set.
ChangeSTVersionBounds(f, type, version) ==
  /\ \/ bounds[f][type] = 0
     \/ type = "lower" /\ version <= bounds[f].lower
     \/ type = "upper" /\ version >= bounds[f].upper
  /\ bounds' = [bounds EXCEPT ![f][type] = version]
  /\ UNCHANGED <<registryVars, nameOf, tokenVars>>

ChangeName(f, name) ==
  /\ nameOf' = [nameOf EXCEPT ![f] = name]
  /\ UNCHANGED <<registryVars, bounds, tokenVars>>

\* The bound that the token gives its factory: types from here on are not asked.
MaxModuleType == 10

\* upgradeToken of the token and of its factory
UpgradeToken ==
  /\ tokenVersion + 1 \in Version
  /\ tokenVersion' = tokenVersion + 1
  /\ \A t \in {u \in Type : u < MaxModuleType} : \A i \in DOMAIN modules[t] :
       LET data == modulesToData[modules[t][i]] IN
       data.isArchived \/ IsCompatibleModule(data.moduleFactory, tokenVersion')
  /\ UNCHANGED <<registryVars, nameOf, bounds, modules, names, modulesToData>>

RegistryStep == RegistryNext /\ UNCHANGED <<nameOf, bounds, tokenVars>>

NextM ==
  \/ RegistryStep
  \/ \E m \in Module :
       \/ \E f \in Factory, archived \in BOOLEAN : AddModule(f, m, archived)
       \/ ArchiveModule(m) \/ UnarchiveModule(m)
       \/ UpgradeModule(m) \/ RemoveAttached(m)
  \/ \E f \in Factory :
       \/ \E type \in {"lower", "upper"}, version \in Version :
            ChangeSTVersionBounds(f, type, version)
       \/ \E name \in Name : ChangeName(f, name)
  \/ UpgradeToken

SpecM == InitM /\ [][NextM]_allVars

-----------------------------------------------------------------------------
\* The arrays by type and by name and the indexes kept with each module agree,
\* so that the next removal takes out the right module, for modules of several
\* types that share arrays, and although the factory's name changed meanwhile.
ModuleArraysAgree ==
  /\ \A m \in Attached :
       LET data == modulesToData[m] IN
       /\ \A i \in DOMAIN data.moduleTypes :
            /\ data.moduleIndexes[i] + 1 \in DOMAIN modules[data.moduleTypes[i]]
            /\ modules[data.moduleTypes[i]][data.moduleIndexes[i] + 1] = m
       /\ data.nameIndex + 1 \in DOMAIN names[data.name]
       /\ names[data.name][data.nameIndex + 1] = m
  /\ \A t \in Type : \A i \in DOMAIN modules[t] :
       /\ modules[t][i] \in Attached
       /\ \A j \in DOMAIN modules[t] : modules[t][i] = modules[t][j] => i = j

\* upgradeToken asks for the modules of some type of this one.
IsAsked(data) ==
  \E i \in DOMAIN data.moduleTypes : data.moduleTypes[i] < MaxModuleType

\* Every module that is not archived and has a type below 10 can serve the
\* version of the token, while tokens, bounds and modules change in any order and
\* archived modules fall behind.  A module with none of the types 1 to 9 need not:
\* an upgrade of the token does not ask it.  (Bounds here are never 0.0.0.)
ActiveAreCompatible ==
  \A m \in Attached :
    \/ modulesToData[m].isArchived
    \/ ~IsAsked(modulesToData[m])
    \/ IsCompatibleModule(modulesToData[m].moduleFactory, tokenVersion)

\* A token never starts to run logic that was not verified as it is: when a
\* module gets a logic contract, at its deployment or by an upgrade, the owner
\* of the registry has seen it, or the token's owner wrote the factory.
RunsReviewedLogic ==
  [][\A m \in DOMAIN modulesToData' :
       LET f == modulesToData'[m].moduleFactory IN
       \/ m \in Attached /\ modulesToData[m].logic = modulesToData'[m].logic
       \/ modulesToData'[m].logic \in reviewed[f]
       \/ customModules /\ factoryOwner[f] = TokenOwner]_allVars
=============================================================================
