----------------------------- MODULE MCTokenModules -----------------------------
(* Instances of TokenModules for TLC.                                      *)
EXTENDS TokenModules

CONSTANTS f1, f2, m1, m2, m3, curator, issuer, n1, n2, l1

SharedType == [f \in Factory |-> IF f = f1 THEN <<1, 10>> ELSE <<10>>]

\* The family of this behaviour: "arrays", or the factory whose versions change.
\* The modules of f2 have type 10 only, which an upgrade of the token does not ask.
VARIABLE family

\* Both factories are of one owner, one version and one logic contract, and are
\* verified before they are used; modules come and go.
InitArrays ==
  /\ family = "arrays"
  /\ InitM
  /\ ~customModules
  /\ \A f \in Factory :
       /\ ownerOf[f] = curator
       /\ bounds[f] = [lower |-> 1, upper |-> 1]
       /\ logicContracts[f] = <<l1>>

ArraysNext ==
  /\ family = "arrays" /\ family' = family
  /\ \/ \E m \in Module :
          \/ \E f \in Factory : AddModule(f, m, TRUE)
          \/ RemoveAttached(m)
     \/ \E f \in Factory :
          \/ VerifyModule(f) /\ ~verified[f] /\ UNCHANGED <<nameOf, bounds, tokenVars>>
          \/ (RegisterModule(curator, f) \/ RemoveModule(curator, f))
             /\ UNCHANGED <<nameOf, bounds, tokenVars>>
          \/ \E name \in Name : ChangeName(f, name)

\* Factory f and one module, with everything that can change about them.
OfFactory(f) ==
  <<registry[f], verified[f], ownerOf[f], logicContracts[f], bounds[f], nameOf[f]>>

InitVersions(f) ==
  /\ family = f
  /\ InitM
  /\ \A g \in Factory \ {f} : /\ ownerOf[g] = curator /\ logicContracts[g] = <<l1>>
                              /\ bounds[g] = [lower |-> 1, upper |-> 1]
  /\ nameOf = [g \in Factory |-> n1]

VersionsNext(f) ==
  /\ family = f /\ family' = family
  /\ NextM
  /\ \A g \in Factory \ {f} : OfFactory(g)' = OfFactory(g)
  /\ nameOf' = nameOf
  /\ DOMAIN modulesToData' \subseteq {m1}

FamiliesInit == InitArrays \/ \E f \in Factory : InitVersions(f)
FamiliesNext == ArraysNext \/ \E f \in Factory : VersionsNext(f)

FamiliesSpec == FamiliesInit /\ [][FamiliesNext]_<<allVars, family>>
=============================================================================
