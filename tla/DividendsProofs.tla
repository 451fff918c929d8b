----------------------------- MODULE DividendsProofs -----------------------------
(***************************************************************************)
(* Theorems about dividends, for any accounts, currencies, rates, deposits *)
(* and bounds, and whatever the token's ledger does after a checkpoint:    *)
(* everyone is paid once, from a purse that covers all claims, and what is *)
(* left of a dividend is less than a unit for each holder.                 *)
(***************************************************************************)
EXTENDS Dividends, SharedLemmas

-----------------------------------------------------------------------------
(* The ledger: the supply is the sum of the balances, now and in each copy. *)

Copied == [balances : [Account -> Nat], supply : Nat]
Book == [balances : [Account -> Nat], supply : Nat, history : Seq(Copied)]

Sound(B) == B.supply = SumFunctionOnSet(B.balances, Account)

SoundBook(B) ==
  /\ B \in Book /\ Sound(B)
  /\ \A id \in DOMAIN B.history : Sound(B.history[id])

\* No copy is lost or changed.
Keeps(C, B) ==
  \A id \in DOMAIN B.history :
    id \in DOMAIN C.history /\ C.history[id] = B.history[id]

LEMMA TakeKeeps ==
  ASSUME NEW B, SoundBook(B), NEW k \in Nat
  PROVE  /\ SoundBook(Take(B, k)) /\ Keeps(Take(B, k), B)
         /\ Take(B, k).balances = B.balances /\ Take(B, k).supply = B.supply
         /\ Len(Take(B, k).history) = Len(B.history) + k
<1> DEFINE C == Take(B, k)
           n == Len(B.history)
           more == [i \in 1..k |-> Copy(B)]
<1>1. /\ B.balances \in [Account -> Nat] /\ B.supply \in Nat
      /\ B.history \in Seq(Copied) /\ Sound(B)
  BY DEF SoundBook, Book
<1>2. Copy(B) \in Copied /\ Sound(Copy(B))
  BY <1>1 DEF Copy, Copied, Sound
<1>3. more \in Seq(Copied) /\ Len(more) = k /\ \A i \in 1..k : more[i] = Copy(B)
  BY <1>2
<1>4. /\ C.balances = B.balances /\ C.supply = B.supply
      /\ C.history = B.history \o more
  BY DEF SoundBook, Book, Take
<1> HIDE DEF more
<1>5. n \in Nat BY <1>1
<1>6. /\ C.history \in Seq(Copied) /\ Len(C.history) = n + k
      /\ \A i \in 1..n : C.history[i] = B.history[i]
      /\ \A i \in 1..(n + k) : i > n => C.history[i] = more[i - n]
  <2> DEFINE old == B.history
             new == C.history
  <2>1. old \in Seq(Copied) /\ new = old \o more BY <1>1, <1>4
  <2> HIDE DEF C, old, new
  <2>2. /\ new \in Seq(Copied) /\ Len(new) = Len(old) + Len(more)
        /\ \A i \in 1..Len(old) : new[i] = old[i]
        /\ \A i \in 1..(Len(old) + Len(more)) :
             i > Len(old) => new[i] = more[i - Len(old)]
    BY <1>3, <2>1, Joined
  <2>3. QED BY <1>3, <2>2 DEF old, new
<1>7. C \in Book
  <2>1. B \in Book BY DEF SoundBook
  <2>2. C = [B EXCEPT !.history = C.history] BY <1>4, <2>1 DEF Take, more, Book
  <2> HIDE DEF C
  <2>3. QED BY <1>6, <2>1, <2>2 DEF Book
<1> HIDE DEF C, n
<1>8. DOMAIN B.history = 1..n /\ DOMAIN C.history = 1..(n + k)
  BY <1>1, <1>6 DEF n
<1>9. ASSUME NEW id \in 1..(n + k) PROVE Sound(C.history[id])
  <2>1. CASE id \in 1..n
    BY <1>6, <1>8, <2>1 DEF SoundBook
  <2>2. CASE id > n
    <3>1. id - n \in 1..k BY <1>5, <2>2
    <3>2. C.history[id] = Copy(B) BY <1>3, <1>6, <2>2, <3>1
    <3>3. QED BY <1>2, <3>2
  <2>3. QED BY <1>5, <2>1, <2>2
<1>10. Keeps(C, B) BY <1>5, <1>6, <1>8 DEF Keeps
<1>11. Sound(C) BY <1>1, <1>4 DEF Sound
<1>12. SoundBook(C) BY <1>7, <1>8, <1>9, <1>11 DEF SoundBook
<1>13. QED BY <1>4, <1>6, <1>10, <1>12 DEF C, n

\* A change of balances and supply that leaves the copies.
LEMMA ChangeKeeps ==
  ASSUME NEW B, SoundBook(B), NEW C \in Book, C.history = B.history, Sound(C)
  PROVE  SoundBook(C) /\ Keeps(C, B) /\ Len(C.history) = Len(B.history)
BY DEF SoundBook, Keeps

LEMMA MoveKeeps ==
  ASSUME NEW B, SoundBook(B), NEW from \in Account, NEW to \in Account,
         NEW value \in Nat, value <= B.balances[from]
  PROVE  SoundBook(Move(B, from, to, value)) /\ Keeps(Move(B, from, to, value), B)
         /\ Len(Move(B, from, to, value).history) = Len(B.history)
<1> DEFINE old == B.balances
           paid == [old EXCEPT ![from] = @ + (-value)]
           moved == [paid EXCEPT ![to] = @ + value]
           C == Move(B, from, to, value)
<1>1. /\ B \in Book /\ old \in [Account -> Nat] /\ B.supply \in Nat
      /\ B.supply = SumFunctionOnSet(old, Account) /\ -value \in Int
  BY DEF SoundBook, Book, Sound
<1>2. paid \in [Account -> Nat] BY <1>1
<1>3. moved \in [Account -> Nat] BY <1>2
<1>4. C.balances = moved /\ C.supply = B.supply /\ C.history = B.history /\ C \in Book
  <2>1. [old EXCEPT ![from] = @ - value] = paid BY <1>1
  <2> HIDE DEF paid
  <2>2. C = [B EXCEPT !.balances = moved] BY <2>1 DEF Move
  <2> HIDE DEF moved, C
  <2>3. QED BY <1>1, <1>3, <2>2 DEF Book
<1> HIDE DEF old
<1>5. SumFunctionOnSet(paid, Account) = SumFunctionOnSet(old, Account) + (-value)
  <2>1. /\ \A x \in Account : old[x] \in Int
        /\ \A x \in Account \ {from} : paid[x] = old[x]
        /\ paid[from] = old[from] + (-value)
        /\ -value \in Int
    BY <1>1
  <2> HIDE DEF paid
  <2>2. QED BY <2>1, AccountAssumption, SumChange
<1>6. SumFunctionOnSet(moved, Account) = SumFunctionOnSet(paid, Account) + value
  <2>1. /\ \A x \in Account : paid[x] \in Int
        /\ \A x \in Account \ {to} : moved[x] = paid[x]
        /\ moved[to] = paid[to] + value
    BY <1>2
  <2> HIDE DEF paid, moved
  <2>2. QED BY <2>1, AccountAssumption, SumChange, SMTT(30)
<1>7. Sound(C) BY <1>1, <1>4, <1>5, <1>6 DEF Sound
<1> HIDE DEF C
<1>8. SoundBook(C) /\ Keeps(C, B) /\ Len(C.history) = Len(B.history)
  BY <1>4, <1>7, ChangeKeeps
<1>9. QED BY <1>8 DEF C

LEMMA MintKeeps ==
  ASSUME NEW B, SoundBook(B), NEW to \in Account, NEW value \in Nat
  PROVE  SoundBook(Mint(B, to, value)) /\ Keeps(Mint(B, to, value), B)
         /\ Len(Mint(B, to, value).history) = Len(B.history)
<1> DEFINE old == B.balances
           minted == [old EXCEPT ![to] = @ + value]
           C == Mint(B, to, value)
<1>1. /\ B \in Book /\ old \in [Account -> Nat] /\ B.supply \in Nat
      /\ B.supply = SumFunctionOnSet(old, Account)
  BY DEF SoundBook, Book, Sound
<1>2. minted \in [Account -> Nat] BY <1>1
<1>3. /\ C.balances = minted /\ C.supply = B.supply + value
      /\ C.history = B.history /\ C \in Book
  <2>1. C = [B EXCEPT !.balances = minted, !.supply = B.supply + value]
    BY <1>1 DEF Mint, Book
  <2>2. B.supply + value \in Nat BY <1>1
  <2> HIDE DEF minted, C
  <2>3. QED BY <1>1, <1>2, <2>1, <2>2 DEF Book
<1> HIDE DEF old
<1>4. SumFunctionOnSet(minted, Account) = SumFunctionOnSet(old, Account) + value
  <2>1. /\ \A x \in Account : old[x] \in Int
        /\ \A x \in Account \ {to} : minted[x] = old[x]
        /\ minted[to] = old[to] + value
        /\ value \in Int
    BY <1>1
  <2> HIDE DEF minted
  <2>2. QED BY <2>1, AccountAssumption, SumChange
<1>5. Sound(C) BY <1>1, <1>3, <1>4 DEF Sound
<1> HIDE DEF C
<1>6. SoundBook(C) /\ Keeps(C, B) /\ Len(C.history) = Len(B.history)
  BY <1>3, <1>5, ChangeKeeps
<1>7. QED BY <1>6 DEF C

LEMMA BurnKeeps ==
  ASSUME NEW B, SoundBook(B), NEW from \in Account, NEW value \in Nat,
         value <= B.balances[from]
  PROVE  SoundBook(Burn(B, from, value)) /\ Keeps(Burn(B, from, value), B)
         /\ Len(Burn(B, from, value).history) = Len(B.history)
<1> DEFINE old == B.balances
           burned == [old EXCEPT ![from] = @ + (-value)]
           C == Burn(B, from, value)
<1>1. /\ B \in Book /\ old \in [Account -> Nat] /\ B.supply \in Nat
      /\ B.supply = SumFunctionOnSet(old, Account) /\ -value \in Int
  BY DEF SoundBook, Book, Sound
<1>2. burned \in [Account -> Nat] BY <1>1
<1>3. SumFunctionOnSet(burned, Account) = SumFunctionOnSet(old, Account) + (-value)
  <2>1. /\ \A x \in Account : old[x] \in Int
        /\ \A x \in Account \ {from} : burned[x] = old[x]
        /\ burned[from] = old[from] + (-value)
    BY <1>1
  <2> HIDE DEF old, burned
  <2>2. QED BY <1>1, <2>1, AccountAssumption, SumChange, ZenonT(60)
<1>4. SumFunctionOnSet(burned, Account) \in Nat
  BY <1>2, AccountAssumption, SumIsNat
<1>5. /\ C.balances = burned /\ C.supply = B.supply - value
      /\ C.history = B.history /\ C \in Book
  <2>1. [old EXCEPT ![from] = @ - value] = burned BY <1>1
  <2>2. C = [B EXCEPT !.balances = burned, !.supply = B.supply - value]
    BY <1>1, <2>1 DEF Burn, Book
  <2>3. B.supply - value \in Nat BY <1>1, <1>3, <1>4
  <2> HIDE DEF burned, C
  <2>4. QED BY <1>1, <1>2, <2>2, <2>3 DEF Book
<1> HIDE DEF old, burned
<1>6. Sound(C) BY <1>1, <1>3, <1>5 DEF Sound
<1> HIDE DEF C
<1>7. SoundBook(C) /\ Keeps(C, B) /\ Len(C.history) = Len(B.history)
  BY <1>5, <1>6, ChangeKeeps
<1>8. QED BY <1>7 DEF C

\* Every step of the token.
LEMMA LedgerKeeps ==
  ASSUME SoundBook(book), Next
  PROVE  SoundBook(book') /\ Keeps(book', book)
<1>1. \A B, C, D : Keeps(C, B) /\ Keeps(D, C) => Keeps(D, B) BY DEF Keeps
<1>2. Taken \subseteq Nat /\ Amount \subseteq Nat
  BY AccountAssumption DEF Taken, Amount
<1>3. CASE TakeCheckpoint
  <2>1. PICK k \in Taken \cup {1} : book' = Take(book, k)
    BY <1>3 DEF TakeCheckpoint
  <2>2. k \in Nat BY <1>2
  <2>3. QED BY <2>1, <2>2, TakeKeeps
<1>4. CASE MoveTokens
  <2>1. PICK k \in Taken, from \in Account, to \in Account, value \in Amount :
          /\ value <= book.balances[from]
          /\ book' = Move(Take(book, k), from, to, value)
    BY <1>4 DEF MoveTokens
  <2>2. /\ SoundBook(Take(book, k)) /\ Keeps(Take(book, k), book)
        /\ Take(book, k).balances = book.balances
    BY <1>2, TakeKeeps
  <2>3. QED BY <1>1, <1>2, <2>1, <2>2, MoveKeeps
<1>5. CASE MintTokens
  <2>1. PICK k \in Taken, to \in Account, value \in Amount :
          book' = Mint(Take(book, k), to, value)
    BY <1>5 DEF MintTokens
  <2>2. SoundBook(Take(book, k)) /\ Keeps(Take(book, k), book)
    BY <1>2, TakeKeeps
  <2>3. QED BY <1>1, <1>2, <2>1, <2>2, MintKeeps
<1>6. CASE MintTwice
  <2>1. PICK k \in Taken, k2 \in Taken, to \in Account, to2 \in Account,
             value \in Amount, value2 \in Amount :
          book' = Mint(Take(Mint(Take(book, k), to, value), k2), to2, value2)
    BY <1>6 DEF MintTwice
  <2> DEFINE B1 == Take(book, k)
             B2 == Mint(B1, to, value)
             B3 == Take(B2, k2)
  <2>2. SoundBook(B1) /\ Keeps(B1, book) BY <1>2, TakeKeeps
  <2> HIDE DEF B1
  <2>3. SoundBook(B2) /\ Keeps(B2, B1) BY <1>2, <2>2, MintKeeps
  <2> HIDE DEF B2
  <2>4. SoundBook(B3) /\ Keeps(B3, B2) BY <1>2, <2>3, TakeKeeps
  <2>5. book' = Mint(B3, to2, value2) BY <2>1 DEF B1, B2
  <2> HIDE DEF B3
  <2>6. SoundBook(book') /\ Keeps(book', B3) BY <1>2, <2>4, <2>5, MintKeeps
  <2>7. Keeps(B2, book) BY <1>1, <2>2, <2>3
  <2>8. Keeps(B3, book) BY <1>1, <2>4, <2>7
  <2>9. QED BY <1>1, <2>6, <2>8
<1>7. CASE BurnTokens
  <2>1. PICK k \in Taken, from \in Account, value \in Amount :
          /\ value <= book.balances[from]
          /\ book' = Burn(Take(book, k), from, value)
    BY <1>7 DEF BurnTokens
  <2>2. /\ SoundBook(Take(book, k)) /\ Keeps(Take(book, k), book)
        /\ Take(book, k).balances = book.balances
    BY <1>2, TakeKeeps
  <2>3. QED BY <1>1, <1>2, <2>1, <2>2, BurnKeeps
<1>8. QED BY <1>3, <1>4, <1>5, <1>6, <1>7 DEF Next

-----------------------------------------------------------------------------
(* A dividend, in a history of copies.                                     *)

Dividend ==
  [checkpointId : Nat \ {0}, maturity : Int, expiry : Int,
   amount : Nat, claimedAmount : Int, totalSupply : Nat \ {0},
   reclaimed : BOOLEAN, totalWithheld : Int, totalWithheldWithdrawn : Int,
   claimed : SUBSET Account, dividendExcluded : SUBSET Account,
   withheld : [Account -> Int], token : Currency]

ShareIn(h, d, a) == (h[d.checkpointId].balances[a] * d.amount) \div d.totalSupply

SharesIn(h, d) == [a \in Account |-> ShareIn(h, d, a)]

\* What a was paid of d.
NetIn(h, d, a) == IF a \in d.claimed THEN ShareIn(h, d, a) - d.withheld[a] ELSE 0

\* Its supply is that of the accounts not excluded, and what it records as claimed
\* are the shares of those who claimed.
WellKept(h, d) ==
  /\ d \in Dividend
  /\ d.checkpointId \in DOMAIN h
  /\ d.totalSupply = h[d.checkpointId].supply
                       - SumFunctionOnSet(h[d.checkpointId].balances, d.dividendExcluded)
  /\ d.claimed \cap d.dividendExcluded = {}
  /\ d.claimedAmount = SumFunctionOnSet(SharesIn(h, d), d.claimed)

LEMMA SharesAreNumbers ==
  ASSUME NEW B, SoundBook(B), NEW d, WellKept(B.history, d)
  PROVE  LET copy == B.history[d.checkpointId] IN
         /\ copy.balances \in [Account -> Nat] /\ copy.supply \in Nat
         /\ copy.supply = SumFunctionOnSet(copy.balances, Account)
         /\ \A a \in Account :
              LET share == ShareIn(B.history, d, a) IN
              /\ share \in Nat
              /\ share * d.totalSupply <= copy.balances[a] * d.amount
              /\ copy.balances[a] * d.amount < share * d.totalSupply + d.totalSupply
<1> DEFINE copy == B.history[d.checkpointId]
<1>1. copy \in Copied /\ Sound(copy)
  <2>1. B.history \in Seq(Copied) /\ d.checkpointId \in DOMAIN B.history
    BY DEF SoundBook, Book, WellKept
  <2>2. copy \in Copied BY <2>1
  <2>3. QED BY <2>1, <2>2 DEF SoundBook
<1>2. /\ copy.balances \in [Account -> Nat] /\ copy.supply \in Nat
      /\ copy.supply = SumFunctionOnSet(copy.balances, Account)
  BY <1>1 DEF Copied, Sound
<1> HIDE DEF copy
<1>3. ASSUME NEW a \in Account
      PROVE  LET share == ShareIn(B.history, d, a) IN
             /\ share \in Nat
             /\ share * d.totalSupply <= copy.balances[a] * d.amount
             /\ copy.balances[a] * d.amount < share * d.totalSupply + d.totalSupply
  <2> DEFINE all == copy.balances[a] * d.amount
  <2>1. d.amount \in Nat /\ d.totalSupply \in Nat /\ d.totalSupply > 0
    BY DEF WellKept, Dividend
  <2>2. all \in Nat BY <1>2, <2>1
  <2>3. ShareIn(B.history, d, a) = all \div d.totalSupply BY DEF ShareIn, copy
  <2> HIDE DEF all
  <2>4. /\ all \div d.totalSupply \in Nat
        /\ (all \div d.totalSupply) * d.totalSupply <= all
        /\ all < (all \div d.totalSupply) * d.totalSupply + d.totalSupply
    BY <2>1, <2>2, DivisionBelow
  <2>5. QED BY <2>3, <2>4 DEF all
<1>4. QED BY <1>2, <1>3 DEF copy

LEMMA SmallerFactor ==
  ASSUME NEW s \in Nat \ {0}, NEW x \in Int, NEW y \in Int
  PROVE  /\ s * x <= s * y => x <= y
         /\ s * x < s * y => x < y
<1>1. CASE x <= y /\ x # y
  BY <1>1
<1>2. CASE x = y
  BY <1>2
<1>3. CASE x >= y + 1
  <2>1. s * x >= s * (y + 1) BY <1>3
  <2>2. s * (y + 1) = s * y + s BY SMT
  <2>3. s * x \in Int /\ s * y \in Int BY SMT
  <2>4. s * x > s * y BY <2>1, <2>2, <2>3
  <2>5. QED BY <2>3, <2>4
<1>4. QED BY <1>1, <1>2, <1>3

\* The rest of a dividend once everyone has claimed.
LEMMA RestIsDust ==
  ASSUME NEW B, SoundBook(B), NEW d, WellKept(B.history, d)
  PROVE  LET entitled == Account \ d.dividendExcluded
             holders == {a \in entitled : B.history[d.checkpointId].balances[a] > 0}
             rest == d.amount - SumFunctionOnSet(SharesIn(B.history, d), entitled)
         IN  rest >= 0 /\ rest < Cardinality(holders)
<1> DEFINE entitled == Account \ d.dividendExcluded
           balances == B.history[d.checkpointId].balances
           holders == {a \in entitled : balances[a] > 0}
           shares == SharesIn(B.history, d)
           S == d.totalSupply
           sum == SumFunctionOnSet(shares, entitled)
           ones == [a \in Account |-> IF a \in holders THEN 1 ELSE 0]
           bought == [a \in Account |-> d.amount * balances[a]]
           paid == [a \in Account |-> S * shares[a]]
           spare == [a \in Account |-> (S - 1) * ones[a]]
           upTo == [a \in Account |-> paid[a] + spare[a]]
<1>1. /\ S \in Nat \ {0} /\ d.amount \in Nat
      /\ d.dividendExcluded \in SUBSET Account
  BY DEF WellKept, Dividend
<1>2. /\ balances \in [Account -> Nat]
      /\ S = SumFunctionOnSet(balances, Account)
               - SumFunctionOnSet(balances, d.dividendExcluded)
  BY SharesAreNumbers DEF WellKept
<1>3. \A a \in Account : /\ shares[a] \in Nat
                         /\ shares[a] * S <= balances[a] * d.amount
                         /\ balances[a] * d.amount < shares[a] * S + S
  BY SharesAreNumbers DEF SharesIn
<1> HIDE DEF shares, balances, S
<1>4. IsFiniteSet(entitled) /\ IsFiniteSet(holders)
      /\ IsFiniteSet(Account) /\ entitled \subseteq Account
      /\ Cardinality(holders) \in Nat
  BY AccountAssumption, FS_Subset, FS_CardinalityType
<1>5. S = SumFunctionOnSet(balances, entitled)
  <2> DEFINE x == SumFunctionOnSet(balances, d.dividendExcluded)
             y == SumFunctionOnSet(balances, entitled)
  <2>1. SumFunctionOnSet(balances, Account) = x + y
    BY <1>1, <1>2, <1>4, SumSplit
  <2>2. x \in Int /\ y \in Int
    <3> DEFINE excluded == d.dividendExcluded
    <3>1. /\ IsFiniteSet(excluded) /\ IsFiniteSet(entitled)
          /\ \A a \in excluded : balances[a] \in Int
          /\ \A a \in entitled : balances[a] \in Int
      <4>1. excluded \subseteq Account BY <1>1
      <4>2. IsFiniteSet(excluded) BY <1>4, <4>1, FS_Subset
      <4>3. QED BY <1>2, <1>4, <4>1, <4>2
    <3> HIDE DEF excluded, entitled
    <3>2. /\ SumFunctionOnSet(balances, excluded) \in Int
          /\ SumFunctionOnSet(balances, entitled) \in Int
      BY <3>1, SumIsInt
    <3>3. QED BY <3>2 DEF excluded
  <2> HIDE DEF x, y
  <2>3. y = (x + y) - x BY <2>2
  <2>4. QED BY <1>2, <2>1, <2>3 DEF x, y
<1>6. ASSUME NEW a \in entitled
      PROVE  /\ shares[a] \in Int /\ balances[a] \in Int /\ ones[a] \in Int
             /\ bought[a] \in Int /\ paid[a] \in Int /\ spare[a] \in Int
             /\ upTo[a] = paid[a] + spare[a]
             /\ paid[a] <= bought[a] /\ bought[a] <= upTo[a]
  <2>1. /\ shares[a] \in Nat /\ balances[a] \in Nat /\ S \in Nat \ {0}
        /\ d.amount \in Nat /\ a \in Account
    BY <1>1, <1>2, <1>3
  <2>2. ones[a] \in {0, 1} BY <2>1
  <2>3. /\ bought[a] = balances[a] * d.amount /\ paid[a] = shares[a] * S
        /\ spare[a] = (S - 1) * ones[a] /\ upTo[a] = paid[a] + spare[a]
    BY <2>1
  <2> HIDE DEF ones, bought, paid, spare, upTo
  <2>4. /\ bought[a] \in Int /\ paid[a] \in Int /\ spare[a] \in Int
    BY <2>1, <2>2, <2>3
  <2>5. paid[a] <= bought[a] BY <1>3, <2>1, <2>3
  <2>6. bought[a] <= paid[a] + spare[a]
    <3>1. CASE balances[a] > 0
      <4>1. ones[a] = 1 BY <2>1, <3>1 DEF ones
      <4>2. spare[a] = S - 1 BY <2>1, <2>3, <4>1
      <4>3. bought[a] < paid[a] + S BY <1>3, <2>1, <2>3
      <4>4. QED BY <2>1, <2>4, <4>2, <4>3
    <3>2. CASE balances[a] = 0
      <4>1. ones[a] = 0 BY <2>1, <3>2 DEF ones
      <4>2. spare[a] = 0 BY <2>1, <2>3, <4>1
      <4>3. bought[a] = 0 BY <2>1, <2>3, <3>2
      <4>4. paid[a] >= 0 BY <2>1, <2>3
      <4>5. QED BY <2>4, <4>2, <4>3, <4>4
    <3>3. QED BY <2>1, <3>1, <3>2
  <2>7. QED BY <2>1, <2>2, <2>3, <2>4, <2>5, <2>6
<1>7. /\ \A a \in entitled : bought[a] = d.amount * balances[a]
      /\ \A a \in entitled : paid[a] = S * shares[a]
      /\ \A a \in entitled : spare[a] = (S - 1) * ones[a]
      /\ \A a \in holders : ones[a] = 1
      /\ \A a \in entitled \ holders : ones[a] = 0
  BY <1>4
<1>8. holders \subseteq entitled OBVIOUS
<1> HIDE DEF entitled, holders, ones, bought, paid, spare, upTo
<1>9. SumFunctionOnSet(bought, entitled) = d.amount * S
  <2>1. d.amount \in Int BY <1>1
  <2>2. QED BY <1>4, <1>5, <1>6, <1>7, <2>1, SumTimes
<1>10. SumFunctionOnSet(paid, entitled) = S * sum
  <2>1. S \in Int BY <1>1
  <2>2. QED BY <1>4, <1>6, <1>7, <2>1, SumTimes
<1>11. SumFunctionOnSet(ones, entitled) = Cardinality(holders)
  <2>1. SumFunctionOnSet(ones, entitled) = SumFunctionOnSet(ones, holders)
    BY <1>4, <1>6, <1>7, <1>8, SumWhere
  <2>2. QED BY <1>4, <1>7, <2>1, SumCounts
<1>12. SumFunctionOnSet(spare, entitled) = (S - 1) * Cardinality(holders)
  <2>1. S - 1 \in Int BY <1>1
  <2>2. SumFunctionOnSet(spare, entitled) = (S - 1) * SumFunctionOnSet(ones, entitled)
    BY <1>4, <1>6, <1>7, <2>1, SumTimes
  <2>3. QED BY <1>11, <2>2
<1>13. SumFunctionOnSet(upTo, entitled)
         = SumFunctionOnSet(paid, entitled) + SumFunctionOnSet(spare, entitled)
  BY <1>4, <1>6, SumPlus
<1>14. SumFunctionOnSet(paid, entitled) <= SumFunctionOnSet(bought, entitled)
  BY <1>4, <1>6, SumAtMost
<1>15. SumFunctionOnSet(bought, entitled) <= SumFunctionOnSet(upTo, entitled)
  <2>1. \A a \in entitled : bought[a] \in Int /\ upTo[a] \in Int /\ bought[a] <= upTo[a]
    BY <1>6
  <2>2. QED BY <1>4, <2>1, SumAtMost
<1>16. sum \in Int BY <1>4, <1>6, SumIsInt
<1>17. Cardinality(holders) > 0
  <2> SUFFICES ASSUME holders = {} PROVE FALSE
    BY <1>4, FS_EmptySet
  <2>1. \A a \in entitled : balances[a] = 0
    BY <1>2, <1>4 DEF holders
  <2>2. S = 0 BY <1>4, <1>5, <2>1, SumZero
  <2>3. QED BY <1>1, <2>2
<1> HIDE DEF sum
<1> DEFINE n == Cardinality(holders)
<1>18. n \in Nat /\ n > 0 BY <1>4, <1>17
<1> HIDE DEF n
<1>19. S * sum <= S * d.amount
  <2>1. d.amount * S = S * d.amount BY <1>1
  <2>2. QED BY <1>9, <1>10, <1>14, <2>1
<1>20. sum <= d.amount BY <1>1, <1>16, <1>19, SmallerFactor
<1>21. S * (d.amount - sum) < S * n
  <2>1. d.amount * S <= S * sum + (S - 1) * n
    BY <1>9, <1>10, <1>12, <1>13, <1>15 DEF n
  <2>2. S * (d.amount - sum) = d.amount * S - S * sum BY <1>1, <1>16
  <2>3. (S - 1) * n = S * n - n BY <1>1, <1>18
  <2>4. /\ d.amount * S \in Int /\ S * sum \in Int /\ S * n \in Int
    BY <1>1, <1>16, <1>18
  <2>5. QED BY <1>18, <2>1, <2>2, <2>3, <2>4
<1>22. d.amount - sum < n
  <2>1. d.amount - sum \in Int BY <1>1, <1>16
  <2>2. QED BY <1>1, <1>18, <1>21, <2>1, SmallerFactor
<1>23. d.amount - sum >= 0 BY <1>1, <1>16, <1>20
<1>24. QED BY <1>22, <1>23 DEF n, sum, shares, balances, holders, entitled

-----------------------------------------------------------------------------
(* The inductive invariant.                                                *)

TypeD ==
  /\ dividends \in Seq(Dividend)
  /\ funds \in [Currency -> Int]
  /\ received \in [Currency -> [Account -> Int]]
  /\ withholdingTax \in [Account -> Nat]
  /\ now \in Nat

AllWellKept == \A i \in Index : WellKept(book.history, dividends[i])

DInv == TypeD /\ SoundBook(book) /\ AllWellKept /\ PaidExactly /\ PurseCoversAll

\* What dividend d contributes to the two sums.
NetOf(h, d, c, a) == IF d.token = c THEN NetIn(h, d, a) ELSE 0
OwedIn(d, c) == IF d.token = c THEN Owed(d) ELSE 0

LEMMA SumsOfDividends ==
  ASSUME NEW c, NEW a, DInv
  PROVE  /\ \A i \in Index : /\ dividends[i] \in Dividend
                             /\ OwedIn(dividends[i], c) \in Int
         /\ a \in Account =>
              \A i \in Index : NetOf(book.history, dividends[i], c, a) \in Int
         /\ (c \in Currency /\ a \in Account) =>
              received[c][a]
                = SumFunction([i \in Index |-> NetOf(book.history, dividends[i], c, a)])
         /\ (c \in Currency \ drained) =>
              funds[c] = SumFunction([i \in Index |-> OwedIn(dividends[i], c)])
<1>1. ASSUME NEW i \in Index PROVE dividends[i] \in Dividend
  BY <1>1 DEF DInv, TypeD, Index
<1>2. ASSUME NEW i \in Index PROVE OwedIn(dividends[i], c) \in Int
  BY <1>1 DEF OwedIn, Owed, Dividend
<1>3. ASSUME NEW i \in Index, a \in Account
      PROVE  NetOf(book.history, dividends[i], c, a) \in Int
  <2> DEFINE d == dividends[i]
             share == ShareIn(book.history, d, a)
  <2>1. share \in Int /\ d \in Dividend
    <3>1. SoundBook(book) /\ WellKept(book.history, d) BY DEF DInv, AllWellKept
    <3> HIDE DEF d
    <3>2. share \in Nat BY <1>3, <3>1, SharesAreNumbers
    <3>3. QED BY <3>1, <3>2 DEF WellKept
  <2>2. d.withheld[a] \in Int BY <1>3, <2>1 DEF Dividend
  <2>3. QED BY <2>1, <2>2 DEF NetOf, NetIn
<1>4. ASSUME c \in Currency, a \in Account
      PROVE  received[c][a]
               = SumFunction([i \in Index |-> NetOf(book.history, dividends[i], c, a)])
  <2> DEFINE net == [i \in Index |->
                  IF dividends[i].token = c /\ a \in dividends[i].claimed
                  THEN Share(dividends[i], a) - dividends[i].withheld[a]
                  ELSE 0]
  <2>1. received[c][a] = SumFunction(net) BY <1>4 DEF DInv, PaidExactly
  <2>2. net = [i \in Index |-> NetOf(book.history, dividends[i], c, a)]
    BY DEF NetOf, NetIn, Share, ShareIn, BalanceOfAt
  <2>3. QED BY <2>1, <2>2
<1>5. ASSUME c \in Currency \ drained
      PROVE  funds[c] = SumFunction([i \in Index |-> OwedIn(dividends[i], c)])
  BY <1>5 DEF DInv, PurseCoversAll, OwedIn
<1>6. QED BY <1>1, <1>2, <1>3, <1>4, <1>5

\* The two properties, as sums of those contributions, after a step.
LEMMA FromSums ==
  ASSUME \A c \in Currency, a \in Account :
           received'[c][a]
             = SumFunction([i \in Index' |-> NetOf(book'.history, dividends'[i], c, a)]),
         \A c \in Currency \ drained' :
           funds'[c] = SumFunction([i \in Index' |-> OwedIn(dividends'[i], c)])
  PROVE  PaidExactly' /\ PurseCoversAll'
<1>1. PurseCoversAll' BY DEF PurseCoversAll, OwedIn
<1>2. ASSUME NEW c \in Currency, NEW a \in Account
      PROVE  LET net == [i \in Index' |->
                  IF dividends'[i].token = c /\ a \in dividends'[i].claimed
                  THEN Share(dividends[i], a)' - dividends'[i].withheld[a]
                  ELSE 0]
             IN  received'[c][a] = SumFunction(net)
  <2> DEFINE net == [i \in Index' |->
                  IF dividends'[i].token = c /\ a \in dividends'[i].claimed
                  THEN Share(dividends[i], a)' - dividends'[i].withheld[a]
                  ELSE 0]
             f == [i \in Index' |-> NetOf(book'.history, dividends'[i], c, a)]
  <2>1. net = f
    BY DEF NetOf, NetIn, Share, ShareIn, BalanceOfAt
  <2>2. received'[c][a] = SumFunction(f) OBVIOUS
  <2>3. QED BY <2>1, <2>2
<1>3. PaidExactly' BY <1>2 DEF PaidExactly
<1>4. QED BY <1>1, <1>3

\* A longer history does not change a dividend.
LEMMA WellKeptLater ==
  ASSUME NEW B, NEW C, Keeps(C, B), NEW d, WellKept(B.history, d)
  PROVE  /\ WellKept(C.history, d)
         /\ SharesIn(C.history, d) = SharesIn(B.history, d)
         /\ \A a : NetIn(C.history, d, a) = NetIn(B.history, d, a)
<1>1. /\ d.checkpointId \in DOMAIN C.history
      /\ C.history[d.checkpointId] = B.history[d.checkpointId]
  BY DEF WellKept, Keeps
<1>2. \A a : ShareIn(C.history, d, a) = ShareIn(B.history, d, a)
  BY <1>1 DEF ShareIn
<1>3. SharesIn(C.history, d) = SharesIn(B.history, d) BY <1>2 DEF SharesIn
<1>4. \A a : NetIn(C.history, d, a) = NetIn(B.history, d, a) BY <1>2 DEF NetIn
<1>5. QED BY <1>1, <1>3, <1>4 DEF WellKept

LEMMA NetLater ==
  ASSUME AllWellKept, Keeps(book', book), NEW i \in Index
  PROVE  /\ WellKept(book'.history, dividends[i])
         /\ \A a : NetIn(book'.history, dividends[i], a)
                     = NetIn(book.history, dividends[i], a)
<1> DEFINE d == dividends[i]
<1>1. WellKept(book.history, d) BY DEF AllWellKept
<1> HIDE DEF d
<1>2. WellKept(book'.history, d) BY <1>1, WellKeptLater
<1>3. \A a : NetIn(book'.history, d, a) = NetIn(book.history, d, a)
  BY <1>1, WellKeptLater
<1>4. QED BY <1>2, <1>3 DEF d

\* A step that leaves the dividends and the money.
LEMMA OthersKeep ==
  ASSUME DInv, SoundBook(book'), Keeps(book', book),
         UNCHANGED <<dividends, received>>,
         funds' \in [Currency -> Int], drained \subseteq drained',
         \A c \in Currency \ drained' : funds'[c] = funds[c],
         withholdingTax' \in [Account -> Nat], now' \in Nat
  PROVE  DInv'
<1>1. Index' = Index BY DEF Index
<1>2. TypeD' BY DEF DInv, TypeD
<1>3. AllWellKept'
  BY <1>1, WellKeptLater DEF DInv, AllWellKept
<1>4. ASSUME NEW c \in Currency, NEW a \in Account
      PROVE  received'[c][a]
               = SumFunction([i \in Index' |-> NetOf(book'.history, dividends'[i], c, a)])
  <2> DEFINE f == [i \in Index |-> NetOf(book.history, dividends[i], c, a)]
             g == [i \in Index' |-> NetOf(book'.history, dividends'[i], c, a)]
  <2>1. \A i \in Index : NetOf(book'.history, dividends'[i], c, a)
                           = NetOf(book.history, dividends[i], c, a)
    <3> SUFFICES ASSUME NEW i \in Index
                 PROVE  NetOf(book'.history, dividends'[i], c, a)
                          = NetOf(book.history, dividends[i], c, a)
      OBVIOUS
    <3> QED BY NetLater DEF NetOf, DInv
  <2>2. g = f BY <1>1, <2>1
  <2>3. received[c][a] = SumFunction(f) BY SumsOfDividends
  <2>4. QED BY <2>2, <2>3
<1>5. ASSUME NEW c \in Currency \ drained'
      PROVE  funds'[c] = SumFunction([i \in Index' |-> OwedIn(dividends'[i], c)])
  <2> DEFINE f == [i \in Index |-> OwedIn(dividends[i], c)]
             g == [i \in Index' |-> OwedIn(dividends'[i], c)]
  <2>1. g = f BY <1>1
  <2>2. funds[c] = SumFunction(f) BY SumsOfDividends
  <2>3. QED BY <2>1, <2>2
<1>6. (PaidExactly /\ PurseCoversAll)' BY <1>4, <1>5, FromSums
<1>7. QED BY <1>2, <1>3, <1>6 DEF DInv

\* A step that replaces dividend i by e, of the same currency, and pays for the
\* difference.
LEMMA ChangeDividend ==
  ASSUME DInv, NEW i \in Index, NEW e, WellKept(book.history, e),
         e.token = dividends[i].token,
         dividends' = [dividends EXCEPT ![i] = e],
         funds' \in [Currency -> Int],
         funds'[e.token] = funds[e.token] + (Owed(e) - Owed(dividends[i])),
         \A c \in Currency \ {e.token} : funds'[c] = funds[c],
         received' \in [Currency -> [Account -> Int]],
         \A c \in Currency \ {e.token} : received'[c] = received[c],
         \A a \in Account :
           received'[e.token][a]
             = received[e.token][a] + (NetIn(book.history, e, a)
                                        - NetIn(book.history, dividends[i], a)),
         UNCHANGED <<book, withholdingTax, drained, now>>
  PROVE  DInv'
<1> DEFINE d == dividends[i]
           n == Len(dividends)
<1>1. /\ dividends \in Seq(Dividend) /\ n \in Nat /\ Index = 1..n
      /\ e \in Dividend /\ d \in Dividend /\ i \in 1..n
  BY DEF DInv, TypeD, Index, WellKept
<1>2. /\ dividends' \in Seq(Dividend) /\ Index' = 1..n
      /\ dividends'[i] = e
      /\ \A j \in (1..n) \ {i} : dividends'[j] = dividends[j]
  BY <1>1 DEF Index
<1>3. TypeD' BY <1>2 DEF DInv, TypeD
<1>4. AllWellKept'
  BY <1>1, <1>2 DEF DInv, AllWellKept
<1>5. SoundBook(book') BY DEF DInv
<1>6. ASSUME NEW c \in Currency, NEW a \in Account
      PROVE  received'[c][a]
               = SumFunction([j \in Index' |-> NetOf(book'.history, dividends'[j], c, a)])
  <2> DEFINE f == [j \in Index |-> NetOf(book.history, dividends[j], c, a)]
             g == [j \in Index' |-> NetOf(book'.history, dividends'[j], c, a)]
             more == NetOf(book.history, e, c, a) - NetOf(book.history, d, c, a)
  <2>1. \A j \in 1..n : f[j] = NetOf(book.history, dividends[j], c, a) /\ f[j] \in Int
    BY <1>1, SumsOfDividends
  <2>2. DOMAIN f = 1..n /\ DOMAIN g = 1..n BY <1>1, <1>2
  <2>3. received[c][a] = SumFunction(f) BY SumsOfDividends, ZenonT(60)
  <2>4. NetOf(book.history, e, c, a) \in Int
    <3>1. ShareIn(book.history, e, a) \in Int
      <4>1. SoundBook(book) BY DEF DInv
      <4>2. ShareIn(book.history, e, a) \in Nat BY <4>1, SharesAreNumbers
      <4>3. QED BY <4>2
    <3>2. e.withheld[a] \in Int BY <1>1 DEF Dividend
    <3>3. QED BY <3>1, <3>2 DEF NetOf, NetIn
  <2>5. g[i] = NetOf(book.history, e, c, a)
    BY <1>1, <1>2
  <2>6. \A j \in (1..n) \ {i} : g[j] = f[j] BY <1>1, <1>2
  <2>7. f[i] = NetOf(book.history, d, c, a) /\ f[i] \in Int BY <1>1, <2>1
  <2>8. received'[c][a] = received[c][a] + more
    <3>1. CASE c = e.token
      BY <2>4, <2>7, <3>1 DEF NetOf
    <3>2. CASE c # e.token
      <4>1. more = 0 BY <3>2 DEF NetOf
      <4>2. received'[c] = received[c] BY <3>2
      <4>3. received[c][a] \in Int BY DEF DInv, TypeD
      <4>4. QED BY <4>1, <4>2, <4>3
    <3>3. QED BY <3>1, <3>2
  <2>9. g[i] = f[i] + more /\ more \in Int BY <2>4, <2>5, <2>7
  <2> DEFINE I == 1..n
  <2>10. /\ IsFiniteSet(I) /\ i \in I /\ DOMAIN f = I /\ DOMAIN g = I
         /\ \A j \in I : f[j] \in Int
         /\ \A j \in I \ {i} : g[j] = f[j]
    BY <1>1, <2>1, <2>2, <2>6, FS_Interval
  <2> HIDE DEF f, g, more, I, d
  <2>11. SumFunction(g) = SumFunction(f) + more
    BY <2>9, <2>10, SumFunctionChange
  <2>12. QED BY <2>3, <2>8, <2>11 DEF g
<1>7. ASSUME NEW c \in Currency \ drained'
      PROVE  funds'[c] = SumFunction([j \in Index' |-> OwedIn(dividends'[j], c)])
  <2> DEFINE f == [j \in Index |-> OwedIn(dividends[j], c)]
             g == [j \in Index' |-> OwedIn(dividends'[j], c)]
             more == OwedIn(e, c) - OwedIn(d, c)
  <2>1. \A j \in 1..n : f[j] = OwedIn(dividends[j], c) /\ f[j] \in Int
    BY <1>1, SumsOfDividends
  <2>2. DOMAIN f = 1..n /\ DOMAIN g = 1..n BY <1>1, <1>2
  <2>3. funds[c] = SumFunction(f) BY SumsOfDividends
  <2>4. OwedIn(e, c) \in Int
    <3>1. e \in Dividend BY DEF WellKept
    <3>2. Owed(e) \in Int BY <3>1 DEF Owed, Dividend
    <3>3. QED BY <3>2 DEF OwedIn
  <2>5. g[i] = OwedIn(e, c) BY <1>1, <1>2
  <2>6. \A j \in (1..n) \ {i} : g[j] = f[j] BY <1>1, <1>2
  <2>7. f[i] = OwedIn(d, c) /\ f[i] \in Int BY <1>1, <2>1
  <2>8. funds'[c] = funds[c] + more
    <3>1. CASE c = e.token
      BY <3>1 DEF OwedIn
    <3>2. CASE c # e.token
      <4>1. more = 0 BY <3>2 DEF OwedIn
      <4>2. funds'[c] = funds[c] BY <3>2
      <4>3. funds[c] \in Int BY DEF DInv, TypeD
      <4>4. QED BY <4>1, <4>2, <4>3
    <3>3. QED BY <3>1, <3>2
  <2>9. g[i] = f[i] + more /\ more \in Int BY <2>4, <2>5, <2>7
  <2> DEFINE I == 1..n
  <2>10. /\ IsFiniteSet(I) /\ i \in I /\ DOMAIN f = I /\ DOMAIN g = I
         /\ \A j \in I : f[j] \in Int
         /\ \A j \in I \ {i} : g[j] = f[j]
    BY <1>1, <2>1, <2>2, <2>6, FS_Interval
  <2> HIDE DEF f, g, more, I, d
  <2>11. SumFunction(g) = SumFunction(f) + more
    BY <2>9, <2>10, SumFunctionChange
  <2>12. QED BY <2>3, <2>8, <2>11 DEF g
<1>8. PaidExactly' /\ PurseCoversAll' BY <1>6, <1>7, FromSums
<1>9. QED BY <1>3, <1>4, <1>5, <1>8 DEF DInv

\* A step that adds a dividend that nobody claimed yet, and its money.
LEMMA AddDividend ==
  ASSUME DInv, SoundBook(book'), Keeps(book', book),
         NEW e, WellKept(book'.history, e), e.claimed = {},
         dividends' = Append(dividends, e),
         funds' = [funds EXCEPT ![e.token] = @ + Owed(e)],
         UNCHANGED <<received, withholdingTax, drained, now>>
  PROVE  DInv'
<1> DEFINE n == Len(dividends)
<1>1. /\ dividends \in Seq(Dividend) /\ n \in Nat /\ Index = 1..n
      /\ e \in Dividend
  BY DEF DInv, TypeD, Index, WellKept
<1>2. /\ dividends' \in Seq(Dividend) /\ Index' = 1..(n + 1)
      /\ dividends'[n + 1] = e
      /\ \A j \in 1..n : dividends'[j] = dividends[j]
  BY <1>1 DEF Index
<1>3. Owed(e) \in Int /\ e.token \in Currency BY <1>1 DEF Owed, Dividend
<1>4. /\ funds' \in [Currency -> Int]
      /\ funds'[e.token] = funds[e.token] + Owed(e)
      /\ \A c \in Currency \ {e.token} : funds'[c] = funds[c]
  BY <1>3 DEF DInv, TypeD
<1>5. TypeD' BY <1>2, <1>4 DEF DInv, TypeD
<1>6. AllWellKept'
  <2> SUFFICES ASSUME NEW j \in 1..(n + 1)
               PROVE  WellKept(book'.history, dividends'[j])
    BY <1>2 DEF AllWellKept
  <2>1. CASE j \in 1..n
    BY <1>1, <1>2, <2>1, WellKeptLater DEF DInv, AllWellKept
  <2>2. CASE j = n + 1
    BY <1>2, <2>2
  <2>3. QED BY <1>1, <2>1, <2>2
<1>7. ASSUME NEW c \in Currency, NEW a \in Account
      PROVE  received'[c][a]
               = SumFunction([j \in Index' |-> NetOf(book'.history, dividends'[j], c, a)])
  <2> DEFINE f == [j \in Index |-> NetOf(book.history, dividends[j], c, a)]
             g == [j \in Index' |-> NetOf(book'.history, dividends'[j], c, a)]
  <2>1. \A j \in 1..n : f[j] = NetOf(book.history, dividends[j], c, a) /\ f[j] \in Int
    BY <1>1, SumsOfDividends
  <2>2. DOMAIN f = 1..n /\ DOMAIN g = 1..(n + 1) BY <1>1, <1>2
  <2>3. received[c][a] = SumFunction(f) BY SumsOfDividends, ZenonT(60)
  <2>4. \A j \in 1..n : g[j] = f[j]
    <3> SUFFICES ASSUME NEW j \in 1..n PROVE g[j] = f[j]
      OBVIOUS
    <3>1. dividends'[j] = dividends[j] /\ j \in 1..(n + 1) /\ j \in Index
      BY <1>1, <1>2
    <3>2. g[j] = NetOf(book'.history, dividends[j], c, a) BY <1>2, <3>1
    <3>3. f[j] = NetOf(book.history, dividends[j], c, a) BY <2>1
    <3>4. NetOf(book'.history, dividends[j], c, a)
            = NetOf(book.history, dividends[j], c, a)
      BY <3>1, NetLater DEF NetOf, DInv
    <3>5. QED BY <3>2, <3>3, <3>4
  <2>5. g[n + 1] = 0
    <3>1. NetOf(book'.history, e, c, a) = 0 BY DEF NetOf, NetIn
    <3>2. n + 1 \in 1..(n + 1) BY <1>1
    <3>3. QED BY <1>2, <3>1, <3>2
  <2>6. received'[c][a] = received[c][a] /\ received[c][a] \in Int
    BY DEF DInv, TypeD
  <2>7. n \in Nat /\ (\A j \in 1..n : f[j] \in Int) /\ g[n + 1] \in Int
    <3>1. n \in Nat /\ \A j \in 1..n : f[j] \in Int BY <1>1, <2>1
    <3> HIDE DEF f, g, n
    <3>2. QED BY <2>5, <3>1
  <2> HIDE DEF f, g, n
  <2>8. SumFunction(g) = SumFunction(f) + g[n + 1]
    BY <2>2, <2>4, <2>7, ListSumAppend
  <2>9. SumFunction(g) = received[c][a]
    BY <2>3, <2>5, <2>6, <2>8
  <2>10. QED BY <2>6, <2>9 DEF g
<1>8. ASSUME NEW c \in Currency \ drained'
      PROVE  funds'[c] = SumFunction([j \in Index' |-> OwedIn(dividends'[j], c)])
  <2> DEFINE f == [j \in Index |-> OwedIn(dividends[j], c)]
             g == [j \in Index' |-> OwedIn(dividends'[j], c)]
             more == OwedIn(e, c)
  <2>1. \A j \in 1..n : f[j] = OwedIn(dividends[j], c) /\ f[j] \in Int
    BY <1>1, SumsOfDividends
  <2>2. DOMAIN f = 1..n /\ DOMAIN g = 1..(n + 1) BY <1>1, <1>2
  <2>3. funds[c] = SumFunction(f) BY SumsOfDividends
  <2>4. \A j \in 1..n : g[j] = f[j] BY <1>1, <1>2
  <2>5. g[n + 1] = more BY <1>1, <1>2
  <2>6. more \in Int BY <1>3 DEF OwedIn
  <2>7. funds'[c] = funds[c] + more
    <3>1. CASE c = e.token
      BY <1>4, <3>1 DEF OwedIn
    <3>2. CASE c # e.token
      <4>1. more = 0 BY <3>2 DEF OwedIn
      <4>2. funds'[c] = funds[c] BY <1>4, <3>2
      <4>3. funds[c] \in Int BY DEF DInv, TypeD
      <4>4. QED BY <4>1, <4>2, <4>3
    <3>3. QED BY <3>1, <3>2
  <2> HIDE DEF f, g, n, more
  <2>8. SumFunction(g) = SumFunction(f) + more
    BY <1>1, <2>1, <2>2, <2>4, <2>5, <2>6, ListSumAppend
  <2>9. QED BY <2>3, <2>7, <2>8 DEF g
<1>9. PaidExactly' /\ PurseCoversAll' BY <1>7, <1>8, FromSums
<1>10. QED BY <1>5, <1>6, <1>9 DEF DInv

-----------------------------------------------------------------------------
(* Paying.                                                                 *)

\* The states of a payment of dividend i: what left the purse is what is no longer
\* owed, and each account received what counts as paid to it.
Paying(i) ==
  {P \in [dividend : Dividend, funds : Int, received : [Account -> Int]] :
     /\ WellKept(book.history, P.dividend)
     /\ P.dividend.token = dividends[i].token
     /\ P.dividend.reclaimed = dividends[i].reclaimed
     /\ P.funds = funds[dividends[i].token] + (Owed(P.dividend) - Owed(dividends[i]))
     /\ \A a \in Account :
          P.received[a] = received[dividends[i].token][a]
                            + (NetIn(book.history, P.dividend, a)
                                - NetIn(book.history, dividends[i], a))}

\* Dividend d once a has claimed its share and w of it is withheld.
Claimed(h, d, a, w) ==
  [d EXCEPT !.claimed = @ \cup {a}, !.claimedAmount = @ + ShareIn(h, d, a),
            !.totalWithheld = @ + w, !.withheld[a] = w]

LEMMA PaidDividend ==
  ASSUME NEW h, NEW d, WellKept(h, d), NEW a \in Account, IsDue(d, a),
         \A x \in Account : ShareIn(h, d, x) \in Int,
         NEW w \in Int, NEW e, e = Claimed(h, d, a, w)
  PROVE  /\ WellKept(h, e) /\ e.token = d.token /\ e.reclaimed = d.reclaimed
         /\ ~d.reclaimed => Owed(e) - Owed(d) = w - ShareIn(h, d, a)
         /\ \A x \in Account :
              NetIn(h, e, x) = NetIn(h, d, x)
                                 + (IF x = a THEN ShareIn(h, d, a) - w ELSE 0)
<1> DEFINE share == ShareIn(h, d, a)
           shares == SharesIn(h, d)
           claimed == d.claimed
<1>1. d \in Dividend /\ share \in Int BY DEF WellKept
<1>2. /\ e \in Dividend
      /\ e.checkpointId = d.checkpointId /\ e.amount = d.amount
      /\ e.totalSupply = d.totalSupply /\ e.token = d.token
      /\ e.dividendExcluded = d.dividendExcluded /\ e.reclaimed = d.reclaimed
      /\ e.claimed = claimed \cup {a} /\ e.claimedAmount = d.claimedAmount + share
      /\ e.totalWithheld = d.totalWithheld + w
      /\ e.totalWithheldWithdrawn = d.totalWithheldWithdrawn
      /\ e.withheld[a] = w /\ \A x \in Account \ {a} : e.withheld[x] = d.withheld[x]
  <2> DEFINE amount == d.claimedAmount + share
             tax == d.totalWithheld + w
             taxes == [d.withheld EXCEPT ![a] = w]
  <2>1. /\ claimed \cup {a} \in SUBSET Account /\ amount \in Int /\ tax \in Int
        /\ taxes \in [Account -> Int]
        /\ taxes[a] = w /\ \A x \in Account \ {a} : taxes[x] = d.withheld[x]
    <3>1. /\ claimed \in SUBSET Account /\ d.claimedAmount \in Int
          /\ d.totalWithheld \in Int /\ d.withheld \in [Account -> Int]
      BY <1>1 DEF Dividend
    <3> HIDE DEF share, claimed
    <3>2. QED BY <1>1, <3>1
  <2>2. e = [d EXCEPT !.claimed = claimed \cup {a}, !.claimedAmount = amount,
                      !.totalWithheld = tax, !.withheld = taxes]
    BY DEF Claimed
  <2> HIDE DEF amount, tax, taxes
  <2>3. e \in Dividend /\ e.withheld = taxes
    <3> DEFINE C == claimed \cup {a}
    <3>1. C \in SUBSET Account BY <2>1
    <3>2. e = [d EXCEPT !.claimed = C, !.claimedAmount = amount,
                        !.totalWithheld = tax, !.withheld = taxes]
      BY <2>2
    <3> HIDE DEF C
    <3>3. QED BY ONLY <1>1, <2>1, <3>1, <3>2 DEF Dividend
  <2>4. /\ e.checkpointId = d.checkpointId /\ e.amount = d.amount
        /\ e.totalSupply = d.totalSupply /\ e.token = d.token
        /\ e.dividendExcluded = d.dividendExcluded /\ e.reclaimed = d.reclaimed
        /\ e.claimed = claimed \cup {a} /\ e.claimedAmount = amount
        /\ e.totalWithheld = tax
        /\ e.totalWithheldWithdrawn = d.totalWithheldWithdrawn
    BY ONLY <1>1, <2>2 DEF Dividend
  <2>5. QED BY <2>1, <2>3, <2>4 DEF amount, tax
<1>3. \A x : ShareIn(h, e, x) = ShareIn(h, d, x) BY <1>2 DEF ShareIn
<1>4. SharesIn(h, e) = shares BY <1>3 DEF SharesIn
<1>5. a \notin claimed /\ a \notin d.dividendExcluded /\ claimed \subseteq Account
  BY <1>1 DEF IsDue, Dividend
<1>6. SumFunctionOnSet(shares, claimed \cup {a})
        = share + SumFunctionOnSet(shares, claimed)
  <2> DEFINE C == claimed \cup {a}
  <2>1. C \subseteq Account BY <1>5
  <2>2. IsFiniteSet(C) /\ \A x \in C : shares[x] \in Int
    <3>1. IsFiniteSet(C) BY <2>1, AccountAssumption, FS_Subset
    <3>2. QED BY <2>1, <3>1 DEF SharesIn
  <2>3. a \in C /\ C \ {a} = claimed /\ shares[a] = share BY <1>5 DEF SharesIn
  <2> HIDE DEF C, shares, share, claimed
  <2>4. SumFunctionOnSet(shares, C) = shares[a] + SumFunctionOnSet(shares, C \ {a})
    BY <2>2, <2>3, SumAny
  <2>5. QED BY <2>3, <2>4 DEF C
<1>7. e.claimedAmount = SumFunctionOnSet(SharesIn(h, e), e.claimed)
  <2>1. d.claimedAmount = SumFunctionOnSet(shares, claimed) BY DEF WellKept
  <2>2. d.claimedAmount \in Int BY <1>1 DEF Dividend
  <2>3. e.claimedAmount = d.claimedAmount + share BY <1>2
  <2>4. SumFunctionOnSet(SharesIn(h, e), e.claimed)
          = SumFunctionOnSet(shares, claimed \cup {a})
    <3>1. e.claimed = claimed \cup {a} BY <1>2
    <3> HIDE DEF shares, claimed
    <3>2. QED BY <1>4, <3>1
  <2>5. share \in Int BY <1>1
  <2> HIDE DEF shares, share, claimed
  <2>6. QED BY ONLY <1>6, <2>1, <2>2, <2>3, <2>4, <2>5
<1>8. WellKept(h, e)
  <2>1. e.claimed \cap e.dividendExcluded = {} BY <1>2, <1>5 DEF WellKept
  <2>2. QED BY <1>2, <1>7, <2>1 DEF WellKept
<1>9. ASSUME ~d.reclaimed PROVE Owed(e) - Owed(d) = w - share
  <2>1. /\ d.amount \in Int /\ d.claimedAmount \in Int
        /\ d.totalWithheld \in Int /\ d.totalWithheldWithdrawn \in Int
    BY <1>1 DEF Dividend
  <2> HIDE DEF share
  <2>2. Owed(e) = d.amount - (d.claimedAmount + share)
                    + (d.totalWithheld + w) - d.totalWithheldWithdrawn
    BY <1>2, <1>9 DEF Owed
  <2>3. Owed(d) = d.amount - d.claimedAmount
                    + d.totalWithheld - d.totalWithheldWithdrawn
    BY <1>9 DEF Owed
  <2>4. QED BY <1>1, <2>1, <2>2, <2>3
<1>10. ASSUME NEW x \in Account
       PROVE  NetIn(h, e, x) = NetIn(h, d, x) + (IF x = a THEN share - w ELSE 0)
  <2>1. CASE x = a
    <3>1. NetIn(h, e, x) = share - w BY <1>2, <1>3, <2>1 DEF NetIn
    <3>2. NetIn(h, d, x) = 0 BY <1>5, <2>1 DEF NetIn
    <3> HIDE DEF share
    <3>3. QED BY <1>1, <2>1, <3>1, <3>2
  <2>2. CASE x # a
    <3>1. NetIn(h, e, x) = NetIn(h, d, x) BY <1>2, <1>3, <2>2 DEF NetIn
    <3>2. NetIn(h, d, x) \in Int
      <4>1. d.withheld[x] \in Int BY <1>1 DEF Dividend
      <4>2. ShareIn(h, d, x) \in Int OBVIOUS
      <4>3. QED BY <4>1, <4>2 DEF NetIn
    <3>3. QED BY <2>2, <3>1, <3>2
  <2>3. QED BY <2>1, <2>2
<1>11. QED BY <1>2, <1>8, <1>9, <1>10

\* One payment.
LEMMA PaidKeeps ==
  ASSUME DInv, NEW i \in Index, ~dividends[i].reclaimed, NEW P \in Paying(i),
         NEW a \in Account, IsDue(P.dividend, a)
  PROVE  Paid(P, a) \in Paying(i)
<1> DEFINE d == P.dividend
           share == Share(d, a)
           w == ToWithhold(d, a)
           e == [d EXCEPT !.claimed = @ \cup {a}, !.claimedAmount = @ + share,
                          !.totalWithheld = @ + w, !.withheld[a] = w]
           more == [P.received EXCEPT ![a] = @ + (share - w)]
           c == dividends[i].token
<1>1. /\ WellKept(book.history, d) /\ d \in Dividend /\ P.funds \in Int
      /\ P.received \in [Account -> Int]
      /\ d.token = c /\ d.reclaimed = dividends[i].reclaimed
      /\ P.funds = funds[c] + (Owed(d) - Owed(dividends[i]))
      /\ \A x \in Account :
           P.received[x] = received[c][x] + (NetIn(book.history, d, x)
                                              - NetIn(book.history, dividends[i], x))
  BY DEF Paying
<1>2. Paid(P, a) = [dividend |-> e, funds |-> P.funds - (share - w), received |-> more]
  BY DEF Paid, Paying
<1>3. /\ \A x \in Account : ShareIn(book.history, d, x) \in Int
      /\ share = ShareIn(book.history, d, a) /\ share \in Nat
  <2>1. SoundBook(book) BY DEF DInv
  <2>2. share = ShareIn(book.history, d, a) BY DEF ShareIn, Share, BalanceOfAt
  <2>3. \A x \in Account : ShareIn(book.history, d, x) \in Nat
    <3> HIDE DEF d
    <3>1. QED BY <1>1, <2>1, SharesAreNumbers
  <2> HIDE DEF d, share
  <2>4. ASSUME NEW x \in Account PROVE ShareIn(book.history, d, x) \in Int
    <3>1. ShareIn(book.history, d, x) \in Nat BY <2>3
    <3>2. QED BY <3>1
  <2>5. QED BY <2>2, <2>3, <2>4
<1>4. share \in Int BY <1>3
<1>5. w \in Int
  <2>1. withholdingTax[a] \in Nat /\ share \in Nat BY <1>3 DEF DInv, TypeD
  <2>2. Rate \in Nat /\ Rate > 0 BY RateAssumption
  <2> DEFINE product == share * withholdingTax[a]
  <2>3. product \in Nat BY <2>1
  <2>4. w = product \div Rate BY DEF ToWithhold
  <2> HIDE DEF product, w
  <2>5. product \div Rate \in Nat BY <2>2, <2>3, DivisionBelow
  <2>6. QED BY <2>4, <2>5
<1>6. e = Claimed(book.history, d, a, w)
  BY <1>3 DEF Claimed
<1> HIDE DEF w, share, e
<1>7. /\ WellKept(book.history, e) /\ e.token = d.token /\ e.reclaimed = d.reclaimed
      /\ ~d.reclaimed => Owed(e) - Owed(d) = w - ShareIn(book.history, d, a)
      /\ \A x \in Account :
           NetIn(book.history, e, x)
             = NetIn(book.history, d, x)
                 + (IF x = a THEN ShareIn(book.history, d, a) - w ELSE 0)
  <2> HIDE DEF d
  <2>1. WellKept(book.history, d) /\ IsDue(d, a) BY <1>1 DEF d
  <2>2. QED BY <1>3, <1>5, <1>6, <2>1, PaidDividend
<1>8. e \in Dividend BY <1>7 DEF WellKept
<1>9. more \in [Account -> Int] BY <1>1, <1>4, <1>5
<1>10. P.funds - (share - w) = funds[c] + (Owed(e) - Owed(dividends[i]))
  <2>1. Owed(e) \in Int /\ Owed(d) \in Int /\ Owed(dividends[i]) \in Int
    <3>1. \A x \in Dividend : Owed(x) \in Int BY DEF Owed, Dividend
    <3>2. dividends[i] \in Dividend BY DEF DInv, TypeD, Index
    <3>3. QED BY <1>1, <1>8, <3>1, <3>2
  <2>2. Owed(e) - Owed(d) = w - share BY <1>1, <1>3, <1>7
  <2>3. funds[c] \in Int
    <3>1. c \in Currency BY <1>1 DEF Dividend
    <3>2. QED BY <3>1 DEF DInv, TypeD
  <2> HIDE DEF d, c
  <2>4. QED BY <1>1, <1>4, <1>5, <2>1, <2>2, <2>3
<1>11. ASSUME NEW x \in Account
       PROVE  more[x] = received[c][x] + (NetIn(book.history, e, x)
                                           - NetIn(book.history, dividends[i], x))
  <2>1. /\ received[c][x] \in Int /\ NetIn(book.history, d, x) \in Int
        /\ NetIn(book.history, dividends[i], x) \in Int
    <3>1. c \in Currency BY <1>1 DEF Dividend
    <3>2. received[c][x] \in Int BY <3>1 DEF DInv, TypeD
    <3>3. NetIn(book.history, d, x) \in Int
      <4>1. d.withheld[x] \in Int BY <1>1 DEF Dividend
      <4>2. ShareIn(book.history, d, x) \in Int BY <1>3
      <4>3. QED BY <4>1, <4>2 DEF NetIn
    <3>4. NetOf(book.history, dividends[i], c, x) \in Int BY SumsOfDividends
    <3>5. QED BY <3>2, <3>3, <3>4 DEF NetOf
  <2>2. NetIn(book.history, e, x) = NetIn(book.history, d, x)
                                      + (IF x = a THEN share - w ELSE 0)
    BY <1>3, <1>7
  <2>3. more[x] = P.received[x] + (IF x = a THEN share - w ELSE 0)
    BY <1>1, <1>4, <1>5
  <2>4. P.received[x] = received[c][x] + (NetIn(book.history, d, x)
                                           - NetIn(book.history, dividends[i], x))
    BY <1>1
  <2> HIDE DEF more, d, c
  <2>5. QED BY <1>4, <1>5, <2>1, <2>2, <2>3, <2>4
<1> HIDE DEF more
<1>12. /\ Paid(P, a) \in [dividend : Dividend, funds : Int, received : [Account -> Int]]
       /\ Paid(P, a).dividend = e /\ Paid(P, a).funds = P.funds - (share - w)
       /\ Paid(P, a).received = more
  BY <1>1, <1>2, <1>4, <1>5, <1>8, <1>9
<1>13. QED BY <1>1, <1>7, <1>10, <1>11, <1>12 DEF Paying

LEMMA PayOneKeeps ==
  ASSUME DInv, NEW i \in Index, ~dividends[i].reclaimed, NEW P \in Paying(i),
         NEW a \in Account, IsDue(P.dividend, a), NEW accepts
  PROVE  PayOne(P, a, accepts) \in Paying(i)
BY PaidKeeps DEF PayOne, PayEther

\* All payments of a batch.
LEMMA PayAllKeeps ==
  ASSUME DInv, NEW i \in Index, ~dividends[i].reclaimed,
         NEW turns \in Nat, NEW payees \in [1..turns -> Account], NEW accepts
  PROVE  PayAll(PaymentOf(i), payees, accepts) \in Paying(i)
<1> DEFINE State == Paying(i)
           before == PaymentOf(i)
           next(S, k) == IF IsDue(S.dividend, payees[k])
                         THEN PayOne(S, payees[k], accepts) ELSE S
           Is(f) == f = [k \in 0..turns |-> IF k = 0 THEN before
                                            ELSE IF IsDue(f[k - 1].dividend, payees[k])
                                            THEN PayOne(f[k - 1], payees[k], accepts)
                                            ELSE f[k - 1]]
           after == CHOOSE f : Is(f)
           turn == [k \in 1..turns |-> [S \in State |-> next(S, k)]]
<1>1. before \in State
  <2> DEFINE d == dividends[i]
  <2>1. d \in Dividend /\ WellKept(book.history, d)
    BY DEF DInv, TypeD, AllWellKept, Index
  <2>2. funds[d.token] \in Int /\ received[d.token] \in [Account -> Int]
    BY <2>1 DEF DInv, TypeD, Dividend
  <2>3. Owed(d) \in Int BY <2>1 DEF Owed, Dividend
  <2>4. \A a \in Account : NetIn(book.history, d, a) \in Int
    <3>1. \A a \in Account : NetOf(book.history, d, d.token, a) \in Int
      BY SumsOfDividends
    <3>2. QED BY <3>1 DEF NetOf
  <2>5. before = [dividend |-> d, funds |-> funds[d.token], received |-> received[d.token]]
    BY DEF PaymentOf
  <2>6. funds[d.token] = funds[d.token] + (Owed(d) - Owed(d)) BY <2>2, <2>3
  <2>7. \A a \in Account :
          received[d.token][a] = received[d.token][a]
            + (NetIn(book.history, d, a) - NetIn(book.history, d, a))
    <3> SUFFICES ASSUME NEW a \in Account
                 PROVE  received[d.token][a] = received[d.token][a]
                          + (NetIn(book.history, d, a) - NetIn(book.history, d, a))
      OBVIOUS
    <3> DEFINE x == received[d.token][a]
               y == NetIn(book.history, d, a)
    <3>1. x \in Int /\ y \in Int BY <2>2, <2>4
    <3> HIDE DEF x, y
    <3>2. x = x + (y - y) BY <3>1
    <3>3. QED BY <3>2 DEF x, y
  <2> HIDE DEF before
  <2>8. QED BY <2>1, <2>2, <2>5, <2>6, <2>7 DEF Paying
<1>2. \A S \in State, k \in 1..turns : next(S, k) \in State
  BY PayOneKeeps
<1>3. Len(payees) = turns
  <2>1. payees \in Seq(Account) OBVIOUS
  <2>2. Len(payees) \in Nat /\ DOMAIN payees = 1..Len(payees) BY <2>1
  <2>3. 1..Len(payees) = 1..turns BY <2>2
  <2>4. QED BY <2>2, <2>3
<1>4. PayAll(before, payees, accepts) = after[turns]
  BY <1>3 DEF PayAll
<1> HIDE DEF State, before, next
<1>5. turn \in [1..turns -> [State -> State]] BY <1>2
<1>6. PICK f : IsLoop(f, turns, State, before, turn)
  <2> HIDE DEF turn, Is
  <2>1. QED BY <1>1, <1>5, LoopExists
<1>7. Is(f)
  <2>1. /\ f \in [0..turns -> State] /\ f[0] = before
        /\ \A k \in 1..turns : f[k] = turn[k][f[k - 1]]
    BY <1>6 DEF IsLoop
  <2>2. ASSUME NEW k \in 1..turns PROVE f[k] = next(f[k - 1], k)
    <3>1. k - 1 \in 0..turns OBVIOUS
    <3>2. f[k - 1] \in State BY <2>1, <3>1
    <3>3. f[k] = turn[k][f[k - 1]] BY <2>1
    <3>4. QED BY <3>2, <3>3
  <2>3. ASSUME NEW k \in 0..turns
        PROVE  f[k] = IF k = 0 THEN before
                      ELSE IF IsDue(f[k - 1].dividend, payees[k])
                      THEN PayOne(f[k - 1], payees[k], accepts)
                      ELSE f[k - 1]
    <3>1. k # 0 => k \in 1..turns OBVIOUS
    <3>2. QED BY <2>1, <2>2, <3>1 DEF next
  <2>4. f = [k \in 0..turns |-> f[k]] BY <2>1
  <2>5. QED BY <2>3, <2>4
<1>8. Is(after) BY <1>7
<1>9. \A k \in 0..turns : after[k] \in State
  <2>1. after[0] \in State
    <3>1. 0 \in 0..turns OBVIOUS
    <3> HIDE DEF after
    <3>2. after[0] = before BY <1>8, <3>1
    <3>3. QED BY <1>1, <3>2
  <2>2. ASSUME NEW k \in 1..turns, after[k - 1] \in State
        PROVE  after[k] \in State
    <3>1. k \in 0..turns /\ k # 0 OBVIOUS
    <3>2. after[k] = next(after[k - 1], k) BY <1>8, <3>1 DEF next
    <3>3. QED BY <1>2, <2>2, <3>2
  <2> HIDE DEF after, Is
  <2>3. QED BY <2>1, <2>2, LoopKeeps
<1>10. turns \in 0..turns OBVIOUS
<1>11. QED BY <1>4, <1>9, <1>10 DEF before, State

-----------------------------------------------------------------------------
(* The steps.                                                              *)

LEMMA InitCorrect == InitD => DInv
<1> SUFFICES ASSUME InitD PROVE DInv
  OBVIOUS
<1> USE DEF InitD, Init, InitModule
<1>1. SoundBook(book)
  <2> DEFINE none == [a \in Account |-> 0]
  <2>1. book = [balances |-> none, supply |-> 0, history |-> <<>>] OBVIOUS
  <2>2. none \in [Account -> Nat] /\ \A a \in Account : none[a] = 0 OBVIOUS
  <2> HIDE DEF none
  <2>3. SumFunctionOnSet(none, Account) = 0 BY <2>2, AccountAssumption, SumZero
  <2>4. <<>> \in Seq(Copied) /\ DOMAIN <<>> = {} OBVIOUS
  <2>5. QED BY <2>1, <2>2, <2>3, <2>4 DEF SoundBook, Book, Sound
<1>2. Index = {} BY DEF Index
<1>3. TypeD BY DEF TypeD
<1>4. AllWellKept BY <1>2 DEF AllWellKept
<1>5. \A f : DOMAIN f = {} => SumFunction(f) = 0 BY SumEmpty DEF SumFunction
<1>6. PaidExactly
  <2> SUFFICES ASSUME NEW c \in Currency, NEW a \in Account
               PROVE  LET net == [i \in Index |->
                            IF dividends[i].token = c /\ a \in dividends[i].claimed
                            THEN Share(dividends[i], a) - dividends[i].withheld[a]
                            ELSE 0]
                      IN  received[c][a] = SumFunction(net)
    BY DEF PaidExactly
  <2>1. received[c][a] = 0 OBVIOUS
  <2>2. QED BY <1>2, <1>5, <2>1
<1>7. PurseCoversAll
  <2> SUFFICES ASSUME NEW c \in Currency \ drained
               PROVE  funds[c] = SumFunction([i \in Index |->
                          IF dividends[i].token = c THEN Owed(dividends[i]) ELSE 0])
    BY DEF PurseCoversAll
  <2>1. funds[c] = 0 OBVIOUS
  <2>2. QED BY <1>2, <1>5, <2>1
<1>8. QED BY <1>1, <1>3, <1>4, <1>6, <1>7 DEF DInv

LEMMA CreateKeeps ==
  ASSUME DInv, SoundBook(book'), Keeps(book', book),
         NEW id \in DOMAIN book'.history, NEW maturity \in Time, NEW expiry \in Time,
         NEW amount \in Deposit, NEW excluded \in SUBSET Account,
         NEW currency \in Currency,
         Create(id, maturity, expiry, amount, excluded, currency)
  PROVE  DInv'
<1> DEFINE e == NewDividend(id, maturity, expiry, amount, excluded, currency)
           copy == book'.history[id]
           supply == copy.supply - SumFunctionOnSet(copy.balances, excluded)
           none == [a \in Account |-> 0]
<1>1. /\ copy.supply > SumFunctionOnSet(copy.balances, excluded)
      /\ dividends' = Append(dividends, e)
      /\ funds' = [funds EXCEPT ![currency] = @ + amount]
      /\ UNCHANGED <<received, withholdingTax, drained, now>>
  BY DEF Create
<1>2. copy \in Copied /\ id \in Nat \ {0}
  <2>1. book'.history \in Seq(Copied) BY DEF SoundBook, Book
  <2>2. QED BY <2>1
<1>3. SumFunctionOnSet(copy.balances, excluded) \in Nat
  <2> DEFINE balances == copy.balances
  <2>1. balances \in [Account -> Nat] BY <1>2 DEF Copied
  <2>2. IsFiniteSet(excluded) /\ \A a \in excluded : balances[a] \in Nat
    BY <2>1, AccountAssumption, FS_Subset
  <2> HIDE DEF balances
  <2>3. SumFunctionOnSet(balances, excluded) \in Nat BY <2>2, SumIsNat
  <2>4. QED BY <2>3 DEF balances
<1>4. supply \in Nat \ {0} BY <1>1, <1>2, <1>3 DEF Copied
<1>5. /\ maturity \in Int /\ expiry \in Int /\ amount \in Nat
  BY BoundsAssumption, DepositAssumption DEF Time
<1>6. e = [checkpointId |-> id, maturity |-> maturity, expiry |-> expiry,
           amount |-> amount, claimedAmount |-> 0, totalSupply |-> supply,
           reclaimed |-> FALSE, totalWithheld |-> 0, totalWithheldWithdrawn |-> 0,
           claimed |-> {}, dividendExcluded |-> excluded,
           withheld |-> none, token |-> currency]
  BY DEF NewDividend
<1>7. none \in [Account -> Int] OBVIOUS
<1> HIDE DEF e, supply, none
<1>8. e \in Dividend BY <1>2, <1>4, <1>5, <1>6, <1>7 DEF Dividend
<1>9. Owed(e) = amount /\ e.claimed = {} /\ e.token = currency
  BY <1>5, <1>6 DEF Owed
<1>10. WellKept(book'.history, e)
  <2>1. SumFunctionOnSet(SharesIn(book'.history, e), {}) = 0 BY SumEmpty
  <2>2. QED BY <1>6, <1>8, <2>1 DEF WellKept, supply
<1>11. QED BY <1>1, <1>9, <1>10, AddDividend

LEMMA PushKeeps ==
  ASSUME DInv, NEW i \in Index, NEW n \in Nat, NEW payees \in [1..n -> Account],
         NEW accepts, Push(i, payees, accepts)
  PROVE  DInv'
<1> DEFINE after == PayAll(PaymentOf(i), payees, accepts)
           c == dividends[i].token
<1>1. /\ ~dividends[i].reclaimed
      /\ dividends' = [dividends EXCEPT ![i] = after.dividend]
      /\ funds' = [funds EXCEPT ![c] = after.funds]
      /\ received' = [received EXCEPT ![c] = after.received]
      /\ UNCHANGED <<book, withholdingTax, drained, now>>
  BY DEF Push, ValidDividendIndex
<1>2. after \in Paying(i) BY <1>1, PayAllKeeps
<1> HIDE DEF after
<1>3. /\ WellKept(book.history, after.dividend)
      /\ after.dividend.token = c
      /\ after.funds \in Int /\ after.received \in [Account -> Int]
      /\ after.funds = funds[c] + (Owed(after.dividend) - Owed(dividends[i]))
      /\ \A a \in Account :
           after.received[a] = received[c][a]
             + (NetIn(book.history, after.dividend, a)
                 - NetIn(book.history, dividends[i], a))
  BY <1>2 DEF Paying
<1>4. c \in Currency BY SumsOfDividends DEF Dividend
<1>5. /\ funds \in [Currency -> Int] /\ received \in [Currency -> [Account -> Int]]
  BY DEF DInv, TypeD
<1> HIDE DEF c
<1>6. /\ funds' \in [Currency -> Int] /\ funds'[c] = after.funds
      /\ \A x \in Currency \ {c} : funds'[x] = funds[x]
      /\ received' \in [Currency -> [Account -> Int]] /\ received'[c] = after.received
      /\ \A x \in Currency \ {c} : received'[x] = received[x]
  BY <1>1, <1>3, <1>4, <1>5
<1> DEFINE e == after.dividend
<1>7. /\ WellKept(book.history, e) /\ e.token = dividends[i].token
      /\ dividends' = [dividends EXCEPT ![i] = e]
  BY <1>1, <1>3 DEF c
<1>8. /\ funds' \in [Currency -> Int]
      /\ funds'[e.token] = funds[e.token] + (Owed(e) - Owed(dividends[i]))
      /\ \A x \in Currency \ {e.token} : funds'[x] = funds[x]
  BY <1>3, <1>6
<1>9. /\ received' \in [Currency -> [Account -> Int]]
      /\ \A x \in Currency \ {e.token} : received'[x] = received[x]
      /\ \A a \in Account :
           received'[e.token][a] = received[e.token][a]
             + (NetIn(book.history, e, a) - NetIn(book.history, dividends[i], a))
  BY <1>3, <1>6
<1>10. UNCHANGED <<book, withholdingTax, drained, now>> BY <1>1
<1> HIDE DEF e
<1>11. QED BY <1>7, <1>8, <1>9, <1>10, ChangeDividend

\* A change of dividend i that concerns neither shares nor claims.
LEMMA TermsKeep ==
  ASSUME DInv, NEW i \in Index, NEW e \in Dividend,
         dividends' = [dividends EXCEPT ![i] = e],
         e.checkpointId = dividends[i].checkpointId,
         e.amount = dividends[i].amount, e.claimedAmount = dividends[i].claimedAmount,
         e.totalSupply = dividends[i].totalSupply, e.claimed = dividends[i].claimed,
         e.dividendExcluded = dividends[i].dividendExcluded,
         e.withheld = dividends[i].withheld, e.token = dividends[i].token,
         funds' = [funds EXCEPT ![e.token] = @ + (Owed(e) - Owed(dividends[i]))],
         UNCHANGED <<book, received, withholdingTax, drained, now>>
  PROVE  DInv'
<1> DEFINE d == dividends[i]
<1>1. WellKept(book.history, d) /\ d \in Dividend
  BY DEF DInv, AllWellKept, WellKept
<1>2. \A a : ShareIn(book.history, e, a) = ShareIn(book.history, d, a)
  BY DEF ShareIn
<1>3. SharesIn(book.history, e) = SharesIn(book.history, d) BY <1>2 DEF SharesIn
<1>4. WellKept(book.history, e) BY <1>1, <1>3 DEF WellKept
<1>5. \A a : NetIn(book.history, e, a) = NetIn(book.history, d, a)
  BY <1>2 DEF NetIn
<1>6. /\ funds \in [Currency -> Int] /\ received \in [Currency -> [Account -> Int]]
      /\ e.token \in Currency
  BY DEF DInv, TypeD, Dividend
<1>7. Owed(e) \in Int /\ Owed(d) \in Int
  <2>1. \A x \in Dividend : Owed(x) \in Int BY DEF Owed, Dividend
  <2>2. QED BY <1>1, <2>1
<1>8. /\ funds' \in [Currency -> Int]
      /\ funds'[e.token] = funds[e.token] + (Owed(e) - Owed(d))
      /\ \A x \in Currency \ {e.token} : funds'[x] = funds[x]
  BY <1>6, <1>7
<1>9. ASSUME NEW a \in Account
      PROVE  received'[e.token][a] = received[e.token][a]
               + (NetIn(book.history, e, a) - NetIn(book.history, d, a))
  <2> DEFINE x == received[e.token][a]
             y == NetIn(book.history, d, a)
  <2>1. NetOf(book.history, d, d.token, a) \in Int BY SumsOfDividends
  <2>2. x \in Int /\ y \in Int BY <1>6, <2>1 DEF NetOf
  <2>3. received'[e.token][a] = x /\ NetIn(book.history, e, a) = y BY <1>5
  <2> HIDE DEF x, y, d
  <2>4. x = x + (y - y) BY <2>2
  <2>5. QED BY <2>3, <2>4 DEF x, y
<1>10. /\ received' \in [Currency -> [Account -> Int]]
       /\ \A x \in Currency \ {e.token} : received'[x] = received[x]
       /\ UNCHANGED <<book, withholdingTax, drained, now>>
  BY <1>6
<1>11. /\ DInv /\ i \in Index /\ dividends' = [dividends EXCEPT ![i] = e]
       /\ e.token = d.token
  OBVIOUS
<1>12. QED BY ONLY <1>4, <1>8, <1>9, <1>10, <1>11, ChangeDividend

LEMMA ReclaimDividendKeeps ==
  ASSUME DInv, NEW i \in Index, ReclaimDividend(i)
  PROVE  DInv'
<1> DEFINE d == dividends[i]
           e == [d EXCEPT !.reclaimed = TRUE]
           c == d.token
           remaining == d.amount - d.claimedAmount
<1>1. /\ ~d.reclaimed
      /\ dividends' = [dividends EXCEPT ![i] = e]
      /\ funds' = [funds EXCEPT ![c] = @ - remaining]
      /\ UNCHANGED <<book, received, withholdingTax, drained, now>>
  BY DEF ReclaimDividend
<1>2. d \in Dividend BY SumsOfDividends
<1> HIDE DEF d
<1>3. e \in Dividend BY <1>2 DEF Dividend
<1>4. /\ e.checkpointId = d.checkpointId /\ e.amount = d.amount
      /\ e.claimedAmount = d.claimedAmount /\ e.totalSupply = d.totalSupply
      /\ e.claimed = d.claimed /\ e.dividendExcluded = d.dividendExcluded
      /\ e.withheld = d.withheld /\ e.token = c
      /\ e.reclaimed /\ e.totalWithheld = d.totalWithheld
      /\ e.totalWithheldWithdrawn = d.totalWithheldWithdrawn
  BY <1>2 DEF Dividend
<1>5. remaining \in Int /\ Owed(e) - Owed(d) = -remaining
  <2>1. /\ d.amount \in Int /\ d.claimedAmount \in Int
        /\ d.totalWithheld \in Int /\ d.totalWithheldWithdrawn \in Int
    BY <1>2 DEF Dividend
  <2> HIDE DEF e
  <2>2. Owed(e) = 0 + d.totalWithheld - d.totalWithheldWithdrawn BY <1>4 DEF Owed
  <2>3. Owed(d) = remaining + d.totalWithheld - d.totalWithheldWithdrawn
    BY <1>1 DEF Owed
  <2>4. QED BY <2>1, <2>2, <2>3
<1>6. funds' = [funds EXCEPT ![e.token] = @ + (Owed(e) - Owed(d))]
  <2>1. funds \in [Currency -> Int] BY DEF DInv, TypeD
  <2>2. c \in Currency BY <1>2 DEF Dividend
  <2>3. funds[c] - remaining = funds[c] + (Owed(e) - Owed(d))
    <3>1. funds[c] \in Int BY <2>1, <2>2
    <3> HIDE DEF remaining, e, c
    <3>2. QED BY <1>5, <3>1
  <2>4. QED BY <1>1, <1>4, <2>3
<1>7. /\ dividends' = [dividends EXCEPT ![i] = e]
      /\ UNCHANGED <<book, received, withholdingTax, drained, now>>
  BY <1>1
<1>8. /\ e.checkpointId = d.checkpointId /\ e.amount = d.amount
      /\ e.claimedAmount = d.claimedAmount /\ e.totalSupply = d.totalSupply
      /\ e.claimed = d.claimed /\ e.dividendExcluded = d.dividendExcluded
      /\ e.withheld = d.withheld /\ e.token = d.token
  BY <1>4
<1> HIDE DEF e, remaining, c
<1>9. QED BY <1>3, <1>6, <1>7, <1>8, TermsKeep DEF d

LEMMA WithdrawWithholdingKeeps ==
  ASSUME DInv, NEW i \in Index, WithdrawWithholding(i)
  PROVE  DInv'
<1> DEFINE d == dividends[i]
           e == [d EXCEPT !.totalWithheldWithdrawn = d.totalWithheld]
           c == d.token
           remaining == d.totalWithheld - d.totalWithheldWithdrawn
<1>1. /\ dividends' = [dividends EXCEPT ![i] = e]
      /\ funds' = [funds EXCEPT ![c] = @ - remaining]
      /\ UNCHANGED <<book, received, withholdingTax, drained, now>>
  BY DEF WithdrawWithholding
<1>2. d \in Dividend BY SumsOfDividends
<1> HIDE DEF d
<1>3. e \in Dividend
  <2>1. d.totalWithheld \in Int BY <1>2 DEF Dividend
  <2>2. QED BY <1>2, <2>1 DEF Dividend
<1>4. /\ e.checkpointId = d.checkpointId /\ e.amount = d.amount
      /\ e.claimedAmount = d.claimedAmount /\ e.totalSupply = d.totalSupply
      /\ e.claimed = d.claimed /\ e.dividendExcluded = d.dividendExcluded
      /\ e.withheld = d.withheld /\ e.token = c
      /\ e.reclaimed = d.reclaimed /\ e.totalWithheld = d.totalWithheld
      /\ e.totalWithheldWithdrawn = d.totalWithheld
  BY <1>2 DEF Dividend
<1>5. remaining \in Int /\ Owed(e) - Owed(d) = -remaining
  <2> DEFINE claims == IF d.reclaimed THEN 0 ELSE d.amount - d.claimedAmount
  <2>1. /\ claims \in Int /\ d.totalWithheld \in Int
        /\ d.totalWithheldWithdrawn \in Int
    BY <1>2 DEF Dividend
  <2>2. Owed(d) = claims + d.totalWithheld - d.totalWithheldWithdrawn BY DEF Owed
  <2> HIDE DEF e
  <2>3. Owed(e) = claims + d.totalWithheld - d.totalWithheld BY <1>4 DEF Owed
  <2> HIDE DEF claims
  <2>4. QED BY <2>1, <2>2, <2>3
<1>6. funds' = [funds EXCEPT ![e.token] = @ + (Owed(e) - Owed(d))]
  <2>1. funds \in [Currency -> Int] BY DEF DInv, TypeD
  <2>2. c \in Currency BY <1>2 DEF Dividend
  <2>3. funds[c] - remaining = funds[c] + (Owed(e) - Owed(d))
    <3>1. funds[c] \in Int BY <2>1, <2>2
    <3> HIDE DEF remaining, e, c
    <3>2. QED BY <1>5, <3>1
  <2>4. QED BY <1>1, <1>4, <2>3
<1>7. /\ dividends' = [dividends EXCEPT ![i] = e]
      /\ UNCHANGED <<book, received, withholdingTax, drained, now>>
  BY <1>1
<1>8. /\ e.checkpointId = d.checkpointId /\ e.amount = d.amount
      /\ e.claimedAmount = d.claimedAmount /\ e.totalSupply = d.totalSupply
      /\ e.claimed = d.claimed /\ e.dividendExcluded = d.dividendExcluded
      /\ e.withheld = d.withheld /\ e.token = d.token
  BY <1>4
<1> HIDE DEF e, remaining, c
<1>9. QED BY <1>3, <1>6, <1>7, <1>8, TermsKeep DEF d

LEMMA UpdateDatesKeeps ==
  ASSUME DInv, NEW i \in Index, NEW maturity \in Time, NEW expiry \in Time,
         UpdateDividendDates(i, maturity, expiry)
  PROVE  DInv'
<1> DEFINE d == dividends[i]
           e == [d EXCEPT !.maturity = maturity, !.expiry = expiry]
<1>1. /\ dividends' = [dividends EXCEPT ![i] = e]
      /\ UNCHANGED <<book, funds, received, withholdingTax, drained, now>>
  BY DEF UpdateDividendDates, money
<1>2. d \in Dividend BY SumsOfDividends
<1>3. maturity \in Int /\ expiry \in Int BY BoundsAssumption DEF Time
<1> HIDE DEF d
<1>4. e \in Dividend BY <1>2, <1>3 DEF Dividend
<1>5. /\ e.checkpointId = d.checkpointId /\ e.amount = d.amount
      /\ e.claimedAmount = d.claimedAmount /\ e.totalSupply = d.totalSupply
      /\ e.claimed = d.claimed /\ e.dividendExcluded = d.dividendExcluded
      /\ e.withheld = d.withheld /\ e.token = d.token
      /\ e.reclaimed = d.reclaimed /\ e.totalWithheld = d.totalWithheld
      /\ e.totalWithheldWithdrawn = d.totalWithheldWithdrawn
  BY <1>2 DEF Dividend
<1> HIDE DEF e
<1>6. Owed(e) = Owed(d) /\ Owed(d) \in Int BY <1>2, <1>5 DEF Owed, Dividend
<1>7. funds' = [funds EXCEPT ![e.token] = @ + (Owed(e) - Owed(d))]
  <2>1. funds \in [Currency -> Int] BY DEF DInv, TypeD
  <2>2. d.token \in Currency BY <1>2 DEF Dividend
  <2>3. funds[d.token] = funds[d.token] + (Owed(e) - Owed(d)) BY <1>6, <2>1, <2>2
  <2>4. QED BY <1>1, <1>5, <2>1, <2>3
<1>8. QED BY <1>1, <1>4, <1>5, <1>7, TermsKeep DEF d

LEMMA StepKeeps == DInv /\ [NextD]_varsD => DInv'
<1> SUFFICES ASSUME DInv, [NextD]_varsD PROVE DInv'
  OBVIOUS
<1>1. SoundBook(book) /\ Keeps(book, book) /\ TypeD
  BY DEF DInv, Keeps
<1>2. /\ \A c \in Currency : funds[c] \in Int
      /\ funds \in [Currency -> Int] /\ withholdingTax \in [Account -> Nat]
      /\ now \in Nat
  BY <1>1 DEF TypeD
<1>3. CASE TokenStep
  <2>1. SoundBook(book') /\ Keeps(book', book)
    BY <1>1, <1>3, LedgerKeeps DEF TokenStep
  <2>2. UNCHANGED <<dividends, withholdingTax, funds, received, drained, now>>
    BY <1>3 DEF TokenStep, moduleVars, money
  <2>3. QED BY <1>2, <2>1, <2>2, OthersKeep
<1>4. CASE Tick
  <2>1. UNCHANGED <<book, dividends, withholdingTax, funds, received, drained>>
    BY <1>4 DEF Tick, moduleVars, money
  <2>2. now' \in Nat BY <1>2, <1>4 DEF Tick
  <2>3. QED BY <1>1, <1>2, <2>1, <2>2, OthersKeep
<1>5. CASE CreateNext
  <2>1. PICK maturity \in Time, expiry \in Time, amount \in Deposit,
             excluded \in SUBSET Account, currency \in Currency :
          \/ CreateDividend(maturity, expiry, amount, excluded, currency)
          \/ \E id \in 1..MaxCheckpoint :
               CreateDividendWithCheckpoint(id, maturity, expiry, amount, excluded,
                                            currency)
    BY <1>5 DEF CreateNext
  <2>2. CASE CreateDividend(maturity, expiry, amount, excluded, currency)
    <3> DEFINE id == Len(book.history) + 1
    <3>1. book' = Take(book, 1)
          /\ Create(id, maturity, expiry, amount, excluded, currency)
      BY <2>2 DEF CreateDividend
    <3>2. /\ SoundBook(book') /\ Keeps(book', book)
          /\ Len(book'.history) = Len(book.history) + 1
      BY <1>1, <3>1, TakeKeeps
    <3>3. id \in DOMAIN book'.history
      <4>1. /\ book.history \in Seq(Copied) /\ book'.history \in Seq(Copied)
        BY <1>1, <3>2 DEF SoundBook, Book
      <4>2. QED BY <3>2, <4>1
    <3> HIDE DEF id
    <3>4. QED BY <3>1, <3>2, <3>3, CreateKeeps
  <2>3. ASSUME NEW id \in 1..MaxCheckpoint,
               CreateDividendWithCheckpoint(id, maturity, expiry, amount, excluded,
                                            currency)
        PROVE  DInv'
    <3>1. /\ book' = book /\ id \in DOMAIN book'.history
          /\ Create(id, maturity, expiry, amount, excluded, currency)
      BY <2>3 DEF CreateDividendWithCheckpoint
    <3>2. SoundBook(book') /\ Keeps(book', book) BY <1>1, <3>1
    <3>3. QED BY <3>1, <3>2, CreateKeeps
  <2>4. QED BY <2>1, <2>2, <2>3
<1>6. CASE PayNext
  <2>1. PICK i \in Index, accepts \in SUBSET Account :
          \/ \E payees \in Payees : Push(i, payees, accepts)
          \/ \E a \in Account : PullDividendPayment(i, a, accepts)
    BY <1>6 DEF PayNext
  <2>2. ASSUME NEW payees \in Payees, Push(i, payees, accepts)
        PROVE  DInv'
    <3>1. PICK n \in 1..MaxBatch : payees \in [1..n -> Account] BY DEF Payees
    <3>2. n \in Nat OBVIOUS
    <3>3. QED BY <2>2, <3>1, <3>2, PushKeeps
  <2>3. ASSUME NEW a \in Account, PullDividendPayment(i, a, accepts)
        PROVE  DInv'
    <3>1. Push(i, <<a>>, accepts) BY <2>3 DEF PullDividendPayment
    <3>2. <<a>> \in [1..1 -> Account] OBVIOUS
    <3>3. QED BY <3>1, <3>2, PushKeeps
  <2>4. QED BY <2>1, <2>2, <2>3
<1>7. CASE TreasuryNext
  BY <1>7, ReclaimDividendKeeps, WithdrawWithholdingKeeps DEF TreasuryNext
<1>8. CASE SettingNext
  <2>1. ASSUME NEW a \in Account, NEW rate \in RateChoice, SetWithholding(a, rate)
        PROVE  DInv'
    <3>1. UNCHANGED <<book, dividends, funds, received, drained, now>>
      BY <2>1 DEF SetWithholding, money
    <3>2. withholdingTax' \in [Account -> Nat]
      BY <1>2, <2>1, RateAssumption DEF SetWithholding
    <3>3. QED BY <1>1, <1>2, <3>1, <3>2, OthersKeep
  <2>2. ASSUME PauseOrUnpause PROVE DInv'
    <3>1. UNCHANGED <<book, dividends, withholdingTax, funds, received, drained, now>>
      BY <2>2 DEF PauseOrUnpause, money
    <3>2. QED BY <1>1, <1>2, <3>1, OthersKeep
  <2>3. QED BY <1>8, <2>1, <2>2, UpdateDatesKeeps DEF SettingNext
<1>9. ASSUME NEW c \in Currency, Reclaim(c) PROVE DInv'
  <2>1. UNCHANGED <<book, dividends, withholdingTax, received, now>>
    BY <1>9 DEF Reclaim
  <2>2. funds' \in [Currency -> Int] /\ drained \subseteq drained'
    BY <1>2, <1>9 DEF Reclaim
  <2>3. \A x \in Currency \ drained' : funds'[x] = funds[x]
    BY <1>2, <1>9 DEF Reclaim
  <2>4. QED BY <1>1, <1>2, <2>1, <2>2, <2>3, OthersKeep
<1>10. CASE UNCHANGED varsD
  <2>1. UNCHANGED <<book, dividends, withholdingTax, funds, received, drained, now>>
    BY <1>10 DEF varsD, moduleVars, money
  <2>2. QED BY <1>1, <1>2, <2>1, OthersKeep
<1>11. QED BY <1>3, <1>4, <1>5, <1>6, <1>7, <1>8, <1>9, <1>10 DEF NextD

LEMMA DInvAlways == SpecD => []DInv
<1>1. QED BY InitCorrect, StepKeeps, PTL DEF SpecD

-----------------------------------------------------------------------------
(* The theorems.                                                           *)

\* Whoever counts as paid was paid his share once, less what is on record as
\* withheld, whatever batches, rates and failures there were: the loops of
\* pushDividendPayment and _payDividend.
THEOREM EveryoneIsPaidExactly == SpecD => []PaidExactly
<1>1. DInv => PaidExactly BY DEF DInv
<1>2. QED BY <1>1, DInvAlways, PTL

\* The purse of a currency the owner did not empty holds what all dividends in
\* that currency owe, to investors and to the treasury.
THEOREM PurseAlwaysCovers == SpecD => []PurseCoversAll
<1>1. DInv => PurseCoversAll BY DEF DInv
<1>2. QED BY <1>1, DInvAlways, PTL

\* Rounding leaves less than a unit for each holder, and never too little for
\* those who have not claimed: calculateDividend against the balances that the
\* token kept for the checkpoint.
THEOREM OnlyDustEverRemains == SpecD => []OnlyDustRemains
<1>1. DInv => OnlyDustRemains
  <2> SUFFICES ASSUME DInv, NEW i \in Index
               PROVE  LET d == dividends[i]
                          holders == {a \in Account \ d.dividendExcluded :
                                        BalanceOfAt(a, d.checkpointId) > 0}
                          rest == d.amount - d.claimedAmount
                                    - SumFunctionOnSet(Shares(d), DueTo(d))
                      IN  rest >= 0 /\ rest < Cardinality(holders)
    BY DEF OnlyDustRemains
  <2> DEFINE d == dividends[i]
             holders == {a \in Account \ d.dividendExcluded :
                           BalanceOfAt(a, d.checkpointId) > 0}
             entitled == Account \ d.dividendExcluded
             claimed == d.claimed
             shares == SharesIn(book.history, d)
             all == SumFunctionOnSet(shares, entitled)
             open == SumFunctionOnSet(shares, DueTo(d))
  <2>1. SoundBook(book) /\ WellKept(book.history, d) /\ d \in Dividend
    BY DEF DInv, AllWellKept, WellKept
  <2>2. Shares(d) = shares
    BY DEF Shares, SharesIn, Share, ShareIn, BalanceOfAt
  <2>3. d.amount - all >= 0 /\ d.amount - all < Cardinality(holders)
    <3>1. holders = {a \in entitled : book.history[d.checkpointId].balances[a] > 0}
      BY DEF BalanceOfAt
    <3> HIDE DEF d
    <3>2. QED BY <2>1, <3>1, RestIsDust
  <2>4. DueTo(d) = entitled \ claimed /\ claimed \subseteq entitled
    <3>1. claimed \subseteq Account BY <2>1 DEF Dividend
    <3>2. claimed \cap d.dividendExcluded = {} BY <2>1 DEF WellKept
    <3>3. QED BY <3>1, <3>2 DEF DueTo, IsDue
  <2>5. IsFiniteSet(entitled) /\ \A a \in entitled : shares[a] \in Int
    <3>1. IsFiniteSet(entitled) BY AccountAssumption, FS_Subset
    <3>2. \A a \in Account : ShareIn(book.history, d, a) \in Nat
      <4> HIDE DEF d
      <4>1. QED BY <2>1, SharesAreNumbers
    <3>3. \A a \in Account : shares[a] \in Int
      <4> SUFFICES ASSUME NEW a \in Account PROVE shares[a] \in Int
        OBVIOUS
      <4>1. ShareIn(book.history, d, a) \in Nat BY <3>2
      <4>2. QED BY <4>1 DEF SharesIn
    <3>4. QED BY <3>1, <3>3
  <2>6. d.claimedAmount = SumFunctionOnSet(shares, claimed) BY <2>1 DEF WellKept
  <2>7. d.amount \in Int /\ d.claimedAmount \in Int BY <2>1 DEF Dividend
  <2>8. all = d.claimedAmount + open /\ open \in Int
    <3> DEFINE due == DueTo(d)
    <3>1. IsFiniteSet(due) /\ \A a \in due : shares[a] \in Int
      <4>1. due \subseteq entitled BY <2>4
      <4>2. IsFiniteSet(due) BY <2>5, <4>1, FS_Subset
      <4>3. QED BY <2>5, <4>1, <4>2
    <3>2. due = entitled \ claimed BY <2>4
    <3> HIDE DEF shares, entitled, claimed, due, d
    <3>3. SumFunctionOnSet(shares, due) \in Int BY <3>1, SumIsInt
    <3>4. SumFunctionOnSet(shares, entitled)
            = SumFunctionOnSet(shares, claimed) + SumFunctionOnSet(shares, due)
      BY <2>4, <2>5, <3>2, SumSplit
    <3>5. QED BY <2>6, <3>3, <3>4 DEF due
  <2>9. Cardinality(holders) \in Nat
    BY AccountAssumption, FS_Subset, FS_CardinalityType
  <2> DEFINE count == Cardinality(holders)
             amount == d.amount
             claimedAmount == d.claimedAmount
             rest == amount - claimedAmount - open
  <2>10. rest >= 0 /\ rest < count
    <3>1. all \in Int BY <2>7, <2>8
    <3>2. /\ amount \in Int /\ claimedAmount \in Int /\ count \in Nat
          /\ all = claimedAmount + open /\ open \in Int
          /\ amount - all >= 0 /\ amount - all < count
      BY <2>3, <2>7, <2>8, <2>9
    <3> HIDE DEF all, open, amount, claimedAmount, count
    <3>3. QED BY <3>2
  <2>11. QED BY <2>2, <2>10
<1>2. QED BY <1>1, DInvAlways, PTL

\* A dividend that has expired stays so, and nobody is paid from it again: what
\* reclaimDividend takes is final, as updateDividendDates cannot revive it.
THEOREM ExpiryIsFinal == SpecD => ExpiredIsFinal
<1>1. DInv /\ [NextD]_varsD =>
        [\A i \in Index : now >= dividends[i].expiry =>
           /\ now' >= dividends'[i].expiry
           /\ dividends'[i].claimed = dividends[i].claimed]_varsD
  <2> SUFFICES ASSUME DInv, NextD, NEW i \in Index, now >= dividends[i].expiry
               PROVE  /\ now' >= dividends'[i].expiry
                      /\ dividends'[i].claimed = dividends[i].claimed
    OBVIOUS
  <2>1. /\ dividends \in Seq(Dividend) /\ i \in 1..Len(dividends)
        /\ dividends[i] \in Dividend /\ dividends[i].expiry \in Int /\ now \in Nat
    <3>1. dividends \in Seq(Dividend) /\ i \in 1..Len(dividends) /\ now \in Nat
      BY DEF DInv, TypeD, Index
    <3>2. dividends[i] \in Dividend BY <3>1
    <3>3. QED BY <3>1, <3>2 DEF Dividend
  <2>2. ASSUME dividends' = dividends, now' \in {now, now + 1}
        PROVE  /\ now' >= dividends'[i].expiry
               /\ dividends'[i].claimed = dividends[i].claimed
    BY <2>1, <2>2
  <2>3. ASSUME NEW j \in Index, NEW e, dividends' = [dividends EXCEPT ![j] = e],
               now' = now,
               j = i => e.expiry <= now /\ e.claimed = dividends[i].claimed
        PROVE  /\ now' >= dividends'[i].expiry
               /\ dividends'[i].claimed = dividends[i].claimed
    <3>1. CASE j = i BY <2>1, <2>3, <3>1
    <3>2. CASE j # i BY <2>1, <2>3, <3>2
    <3>3. QED BY <3>1, <3>2
  <2>4. CASE TokenStep BY <2>2, <2>4 DEF TokenStep, moduleVars
  <2>5. CASE Tick BY <2>2, <2>5 DEF Tick, moduleVars
  <2>6. CASE CreateNext
    <3>1. PICK e : dividends' = Append(dividends, e) /\ now' = now
      BY <2>6 DEF CreateNext, CreateDividend, CreateDividendWithCheckpoint, Create
    <3>2. dividends'[i] = dividends[i] BY <2>1, <3>1
    <3>3. QED BY <2>1, <3>1, <3>2
  <2>7. CASE PayNext
    <3>0. PICK j \in Index : \E payees, accepts : Push(j, payees, accepts)
      BY <2>7 DEF PayNext, PullDividendPayment
    <3>1. PICK payees, accepts : Push(j, payees, accepts) BY <3>0
    <3> DEFINE e == PayAll(PaymentOf(j), payees, accepts).dividend
    <3>2. /\ dividends' = [dividends EXCEPT ![j] = e] /\ now' = now
          /\ now < dividends[j].expiry
      BY <3>1 DEF Push, ValidDividendIndex
    <3>3. j # i BY <2>1, <3>2
    <3> HIDE DEF e
    <3>4. QED BY <2>3, <3>2, <3>3
  <2>8. CASE TreasuryNext
    <3>1. PICK j \in Index : ReclaimDividend(j) \/ WithdrawWithholding(j)
      BY <2>8 DEF TreasuryNext
    <3>2. dividends[j] \in Dividend BY SumsOfDividends
    <3>3. CASE ReclaimDividend(j)
      <4> DEFINE e == [dividends[j] EXCEPT !.reclaimed = TRUE]
      <4>1. dividends' = [dividends EXCEPT ![j] = e] /\ now' = now
        BY <3>3 DEF ReclaimDividend
      <4>2. e.expiry = dividends[j].expiry /\ e.claimed = dividends[j].claimed
        BY <3>2 DEF Dividend
      <4> HIDE DEF e
      <4>3. QED BY <2>1, <2>3, <4>1, <4>2
    <3>4. CASE WithdrawWithholding(j)
      <4> DEFINE e == [dividends[j] EXCEPT
                         !.totalWithheldWithdrawn = dividends[j].totalWithheld]
      <4>1. dividends' = [dividends EXCEPT ![j] = e] /\ now' = now
        BY <3>4 DEF WithdrawWithholding
      <4>2. e.expiry = dividends[j].expiry /\ e.claimed = dividends[j].claimed
        BY <3>2 DEF Dividend
      <4> HIDE DEF e
      <4>3. QED BY <2>1, <2>3, <4>1, <4>2
    <3>5. QED BY <3>1, <3>3, <3>4
  <2>9. CASE SettingNext
    <3>1. ASSUME NEW a, NEW rate, SetWithholding(a, rate)
          PROVE  dividends' = dividends /\ now' = now
      BY <3>1 DEF SetWithholding
    <3>2. ASSUME PauseOrUnpause PROVE dividends' = dividends /\ now' = now
      BY <3>2 DEF PauseOrUnpause
    <3>3. ASSUME NEW j \in Index, NEW maturity, NEW expiry,
                 UpdateDividendDates(j, maturity, expiry)
          PROVE  /\ now' >= dividends'[i].expiry
                 /\ dividends'[i].claimed = dividends[i].claimed
      <4> DEFINE e == [dividends[j] EXCEPT !.maturity = maturity, !.expiry = expiry]
      <4>1. /\ dividends' = [dividends EXCEPT ![j] = e] /\ now' = now
            /\ dividends[j].expiry > now
        BY <3>3 DEF UpdateDividendDates
      <4>2. j # i BY <2>1, <4>1
      <4> HIDE DEF e
      <4>3. QED BY <2>3, <4>1, <4>2
    <3>4. QED BY <2>2, <2>9, <3>1, <3>2, <3>3 DEF SettingNext
  <2>10. ASSUME NEW c \in Currency, Reclaim(c)
         PROVE  dividends' = dividends /\ now' = now
    BY <2>10 DEF Reclaim
  <2>11. QED BY <2>2, <2>4, <2>5, <2>6, <2>7, <2>8, <2>9, <2>10 DEF NextD
<1>2. QED BY <1>1, DInvAlways, PTL DEF SpecD, ExpiredIsFinal
=============================================================================
