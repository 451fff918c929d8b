-------------------------- MODULE MCVestingEscrowWallet --------------------------
(* Instances of VestingEscrowWallet for TLC.                               *)
EXTENDS VestingEscrowWallet, TLC

CONSTANTS alice, bob, t1, t2

Tokens(n, duration, frequency) ==
  [numberOfTokens |-> n, duration |-> duration, frequency |-> frequency]

\* One grain of two at once, two grains in two periods, and a refused one of no
\* period; one grain in two periods, which grains do not allow either.
GrainParameters ==
  {Tokens(2, 1, 1), Tokens(4, 2, 1), Tokens(2, 0, 1), Tokens(2, 2, 1)}

SameRoles == Permutations({alice, bob}) \cup Permutations({t1, t2})
=============================================================================
