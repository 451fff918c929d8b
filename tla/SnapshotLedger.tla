---------------------------- MODULE SnapshotLedger ----------------------------
(***************************************************************************)
(* What the token promises to the modules that read its past (dividends,   *)
(* votes): a ledger that, each time a checkpoint is taken, keeps a copy of *)
(* all balances and of the total supply.  The token itself copies nothing: *)
(* it writes a balance down when it is about to change for the first time  *)
(* after a checkpoint.  SecurityToken implements this specification.       *)
(***************************************************************************)
EXTENDS Integers, Sequences

CONSTANTS
  Account,   \* the addresses that may hold tokens
  UintMax,   \* largest amount
  MaxTaken   \* most checkpoints taken while tokens change hands

VARIABLE book   \* balances, supply, and the copies taken so far

Amount == 0..UintMax
Taken == 0..MaxTaken

Copy(B) == [balances |-> B.balances, supply |-> B.supply]

Take(B, k) == [B EXCEPT !.history = @ \o [i \in 1..k |-> Copy(B)]]

Move(B, from, to, value) ==
  LET paid == [B.balances EXCEPT ![from] = @ - value]
  IN  [B EXCEPT !.balances = [paid EXCEPT ![to] = @ + value]]

Mint(B, to, value) ==
  [B EXCEPT !.balances[to] = @ + value, !.supply = @ + value]

Burn(B, from, value) ==
  [B EXCEPT !.balances[from] = @ - value, !.supply = @ - value]

Init ==
  book = [balances |-> [a \in Account |-> 0], supply |-> 0, history |-> <<>>]

\* Checkpoints taken during a step copy what the step is about to change.
TakeCheckpoint == \E k \in Taken \cup {1} : book' = Take(book, k)

MoveTokens ==
  \E k \in Taken, from, to \in Account, value \in Amount :
    /\ value <= book.balances[from]
    /\ book' = Move(Take(book, k), from, to, value)

MintTokens ==
  \E k \in Taken, to \in Account, value \in Amount :
    /\ book.supply + value <= UintMax
    /\ book' = Mint(Take(book, k), to, value)

MintTwice ==
  \E k, k2 \in Taken, to, to2 \in Account, value, value2 \in Amount :
    /\ book.supply + value + value2 <= UintMax
    /\ book' = Mint(Take(Mint(Take(book, k), to, value), k2), to2, value2)

BurnTokens ==
  \E k \in Taken, from \in Account, value \in Amount :
    /\ value <= book.balances[from]
    /\ book' = Burn(Take(book, k), from, value)

Next == TakeCheckpoint \/ MoveTokens \/ MintTokens \/ MintTwice \/ BurnTokens

Spec == Init /\ [][Next]_book
=============================================================================
