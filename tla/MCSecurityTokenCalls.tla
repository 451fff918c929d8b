------------------------- MODULE MCSecurityTokenCalls -------------------------
(* Instances of SecurityTokenCalls for TLC.                                *)
EXTENDS SecurityTokenCalls

CONSTANTS a1, a2, a3

\* a1 gives rights to a2, a BURN module.
Rights == {<<a1, a2>>}
=============================================================================
