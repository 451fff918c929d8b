\* Three modules of two factories that share a type, and a name at times, while
\* the factories leave the registry and come back; or one factory, of types 1 and
\* 10 or of type 10 only, with one module, three versions of the token and two
\* logic contracts.
SPECIFICATION FamiliesSpec
CONSTANTS
  f1 = f1
  f2 = f2
  m1 = m1
  m2 = m2
  m3 = m3
  n1 = n1
  n2 = n2
  curator = curator
  issuer = issuer
  l1 = l1
  Factory = {f1, f2}
  Type = {1, 10}
  TypesOf <- SharedType
  Party = {curator, issuer}
  Curator = curator
  Nobody = nobody
  Logic = {l1, l2}
  MaxUpgrade = 1
  Module = {m1, m2, m3}
  Name = {n1, n2}
  TokenOwner = issuer
  Version = {1, 2, 3}
  FirstVersion = 1
INVARIANTS
  ModuleArraysAgree
  ActiveAreCompatible
PROPERTIES
  RunsReviewedLogic
