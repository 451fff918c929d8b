-------------------------- MODULE SecurityTokenProofs --------------------------
(***************************************************************************)
(* Theorems about SecurityToken, for all accounts, amounts, data stores    *)
(* and numbers of checkpoints.  First what each handler does to a ledger;  *)
(* then every call is one of a few kinds of step on the ledger, and each   *)
(* kind keeps the invariant; then who can have made the call, and that the *)
(* token implements SnapshotLedger.  At the end the modules of a token and *)
(* the registry they come from, for any modules, factories, types, names   *)
(* and versions.                                                           *)
(***************************************************************************)
EXTENDS SecurityTokenCalls, CheckpointSearch, TokenModules, SequenceTheorems,
        SharedLemmas

-----------------------------------------------------------------------------
(* What the operators of TokenLedger do to a ledger.                       *)

Distribution(b) == \A a \in Account : b[a] \in Amount

-----------------------------------------------------------------------------
(* Counting tokens and holders.                                            *)

\* A distribution has finitely many units, and no account holds more of them
\* than there are.
LEMMA UnitsFinite ==
  ASSUME NEW b, Distribution(b)
  PROVE  /\ IsFiniteSet(TokenUnits(b))
         /\ Cardinality(TokenUnits(b)) \in Nat
         /\ \A a \in Account : b[a] <= Cardinality(TokenUnits(b))
<1>1. IsFiniteSet(1..UintMax)
  BY UintMaxAssumption, FS_Interval
<1>2. IsFiniteSet(Account \X (1..UintMax))
  BY <1>1, AccountAssumption, FS_Product
<1>3. IsFiniteSet(TokenUnits(b))
  BY <1>2, FS_Subset DEF TokenUnits
<1>4. ASSUME NEW a \in Account
      PROVE  b[a] <= Cardinality(TokenUnits(b))
  <2> DEFINE mine == {a} \X (1..b[a])
  <2>1. b[a] \in Nat /\ b[a] <= UintMax
    BY UintMaxAssumption DEF Distribution, Amount
  <2>2. mine \subseteq TokenUnits(b)
    <3> SUFFICES ASSUME NEW u \in mine
                 PROVE  u \in Account \X (1..UintMax) /\ u[2] <= b[u[1]]
      BY DEF TokenUnits
    <3>1. u = <<u[1], u[2]>> /\ u[1] = a /\ u[2] \in 1..b[a]
      OBVIOUS
    <3>2. u[2] \in 1..UintMax
      BY <3>1, <2>1, UintMaxAssumption
    <3> QED  BY <3>1, <3>2, <2>1
  <2>3. IsFiniteSet(1..b[a]) /\ Cardinality(1..b[a]) = b[a]
    BY <2>1, FS_Interval, SMTT(30)
  <2>4. IsFiniteSet({a}) /\ Cardinality({a}) = 1
    BY FS_Singleton
  <2>5. Cardinality(mine) = 1 * b[a]
    BY <2>3, <2>4, FS_Product, ZenonT(60)
  <2>6. Cardinality(mine) <= Cardinality(TokenUnits(b))
    BY <1>3, <2>2, FS_Subset
  <2> QED  BY <2>1, <2>5, <2>6
<1> QED  BY <1>3, <1>4, FS_CardinalityType

\* Raising one balance by value raises the number of units by value.
LEMMA UnitsAdded ==
  ASSUME NEW b, NEW c, Distribution(b), Distribution(c),
         NEW x \in Account, NEW value \in Nat,
         c[x] = b[x] + value,
         \A a \in Account \ {x} : c[a] = b[a]
  PROVE  Cardinality(TokenUnits(c)) = Cardinality(TokenUnits(b)) + value
<1> DEFINE fresh == {x} \X ((b[x] + 1)..c[x])
<1>1. b[x] \in Nat /\ c[x] \in Nat /\ c[x] <= UintMax
  BY UintMaxAssumption DEF Distribution, Amount
<1>2. ASSUME NEW a \in Account, NEW i \in 1..UintMax
      PROVE  /\ i <= c[a] <=> i <= b[a] \/ (a = x /\ i \in (b[x] + 1)..c[x])
             /\ ~(i <= b[a] /\ a = x /\ i \in (b[x] + 1)..c[x])
  <2>1. CASE a = x
    BY <1>1, <2>1, UintMaxAssumption
  <2>2. CASE a # x
    BY <2>2
  <2> QED  BY <2>1, <2>2
<1>3. ASSUME NEW u
      PROVE  /\ u \in TokenUnits(c) <=> u \in TokenUnits(b) \cup fresh
             /\ ~(u \in TokenUnits(b) /\ u \in fresh)
  <2>1. CASE u \notin Account \X (1..UintMax)
    <3>1. u \notin fresh
      <4> SUFFICES ASSUME u \in fresh PROVE FALSE
        OBVIOUS
      <4>1. u = <<u[1], u[2]>> /\ u[1] = x /\ u[2] \in (b[x] + 1)..c[x]
        OBVIOUS
      <4>2. u[2] \in 1..UintMax
        BY <4>1, <1>1, UintMaxAssumption
      <4> QED  BY <4>1, <4>2, <2>1
    <3> QED  BY <2>1, <3>1 DEF TokenUnits
  <2>2. CASE u \in Account \X (1..UintMax)
    <3>1. PICK a \in Account, i \in 1..UintMax : u = <<a, i>>
      BY <2>2
    <3>2. u \in fresh <=> a = x /\ i \in (b[x] + 1)..c[x]
      BY <3>1
    <3>3. /\ u \in TokenUnits(c) <=> i <= c[a]
          /\ u \in TokenUnits(b) <=> i <= b[a]
      BY <3>1, <2>2 DEF TokenUnits
    <3> HIDE DEF fresh
    <3> QED  BY <3>2, <3>3, <1>2
  <2> QED  BY <2>1, <2>2
<1>4. IsFiniteSet((b[x] + 1)..c[x]) /\ Cardinality((b[x] + 1)..c[x]) = value
  <2> DEFINE low == b[x] + 1
  <2>1. low \in Int /\ c[x] \in Int /\ c[x] = (low - 1) + value
    BY <1>1
  <2> HIDE DEF low
  <2>2. /\ IsFiniteSet(low..c[x])
        /\ Cardinality(low..c[x]) = IF low > c[x] THEN 0 ELSE c[x] - low + 1
    BY <2>1, FS_Interval
  <2>3. Cardinality(low..c[x]) = value
    BY <2>1, <2>2
  <2> QED  BY <2>2, <2>3 DEF low
<1>5. IsFiniteSet({x}) /\ Cardinality({x}) = 1
  BY FS_Singleton
<1>6. IsFiniteSet(fresh) /\ Cardinality(fresh) = value
  <2>1. IsFiniteSet(fresh) /\ Cardinality(fresh) = 1 * value
    BY <1>4, <1>5, FS_Product
  <2> QED  BY <2>1
<1>7. Cardinality(TokenUnits(b) \cap fresh) = 0
  <2> HIDE DEF fresh
  <2>1. TokenUnits(b) \cap fresh = {}
    BY <1>3
  <2> QED  BY <2>1, FS_EmptySet
<1> HIDE DEF fresh
<1>8. TokenUnits(c) = TokenUnits(b) \cup fresh
  BY <1>3
<1>9. IsFiniteSet(TokenUnits(b)) /\ Cardinality(TokenUnits(b)) \in Nat
  BY UnitsFinite
<1>10. Cardinality(TokenUnits(b) \cup fresh) =
         Cardinality(TokenUnits(b)) + Cardinality(fresh)
           - Cardinality(TokenUnits(b) \cap fresh)
  BY <1>6, <1>9, FS_Union
<1> QED  BY <1>6, <1>7, <1>8, <1>9, <1>10

\* Two distributions that agree on the accounts have the same units and the
\* same holders.
LEMMA SameUnits ==
  ASSUME NEW b, NEW c, \A a \in Account : c[a] = b[a]
  PROVE  TokenUnits(c) = TokenUnits(b) /\ Holders(c) = Holders(b)
<1>1. \A u \in Account \X (1..UintMax) : c[u[1]] = b[u[1]]
  OBVIOUS
<1> QED  BY <1>1 DEF TokenUnits, Holders

\* No tokens at all.
LEMMA NoUnits ==
  ASSUME NEW b, \A a \in Account : b[a] = 0
  PROVE  /\ Cardinality(TokenUnits(b)) = 0
         /\ Cardinality(Holders(b)) = 0
<1>1. \A u \in Account \X (1..UintMax) : ~(u[2] <= b[u[1]])
  BY UintMaxAssumption
<1> QED  BY <1>1, FS_EmptySet DEF TokenUnits, Holders

LEMMA HoldersFinite ==
  ASSUME NEW b
  PROVE  IsFiniteSet(Holders(b)) /\ Cardinality(Holders(b)) \in Nat
<1>1. IsFiniteSet(Holders(b))
  BY AccountAssumption, FS_Subset DEF Holders
<1> QED  BY <1>1, FS_CardinalityType

-----------------------------------------------------------------------------
(* The invariant of a ledger, in parts.                                    *)

TypeInv(L) ==
  /\ L \in Ledger
  /\ Len(L.checkpointTotalSupply) = L.currentCheckpointId

Backed(L) ==
  /\ L.balances[Zero] = 0
  /\ L.totalSupply = Cardinality(TokenUnits(L.balances))

Counted(L) == L.holderCount = Cardinality(Holders(L.balances))

Ordered(L) ==
  \A a \in Address : InOrder(L.checkpointBalances[a], L.currentCheckpointId)

AddsUp(L) ==
  \A id \in 1..L.currentCheckpointId :
    TotalSupplyAt(L, id) = Cardinality(TokenUnits(BalancesAt(L, id)))

ListedOnce(L) ==
  \A s \in Store :
    /\ Listed(L, s) = L.added[s]
    /\ \A i, j \in DOMAIN L.investors[s] :
         L.investors[s][i] = L.investors[s][j] => i = j

HoldersIn(L) ==
  \A a \in Account :
    \/ \E s \in Store : a \in Listed(L, s)
    \/ /\ L.balances[a] = 0
       /\ \A id \in 1..L.currentCheckpointId : BalanceOfAt(L, a, id) = 0

\* What is known when a handler starts.
LedgerInv(L) == TypeInv(L) /\ Backed(L) /\ Counted(L) /\ Ordered(L)

\* The past of M extends that of L: what L says of the checkpoints of M,
\* taking its current balances for those it does not have yet.
PastKept(L, M) ==
  /\ M.currentCheckpointId >= L.currentCheckpointId
  /\ \A id \in 1..M.currentCheckpointId :
       /\ TotalSupplyAt(M, id) =
            IF id <= L.currentCheckpointId THEN TotalSupplyAt(L, id)
                                           ELSE L.totalSupply
       /\ \A a \in Address : BalanceOfAt(M, a, id) = BalanceOfAt(L, a, id)

-----------------------------------------------------------------------------
(* The steps of _updateTransfer.                                           *)

LEMMA LedgerFields ==
  ASSUME NEW L \in Ledger
  PROVE  /\ L.balances \in [Address -> Amount]
         /\ L.totalSupply \in Amount
         /\ L.holderCount \in Nat
         /\ L.currentCheckpointId \in Nat
         /\ L.checkpointTotalSupply \in Seq(Amount)
         /\ L.checkpointBalances \in [Address -> Seq(CheckpointOf(Amount))]
         /\ L.dataStore \in Store
         /\ L.investors \in [Store -> Seq(Account)]
         /\ L.added \in [Store -> SUBSET Account]
BY DEF Ledger, Checkpoint, CheckpointOf

\* What listing an investor changes and what it leaves alone.
LEMMA ListInvestorFields ==
  ASSUME NEW L \in Ledger, NEW x \in Account
  PROVE  LET M == ListInvestor(L, x) IN
         /\ M \in Ledger
         /\ M.balances = L.balances
         /\ M.totalSupply = L.totalSupply
         /\ M.holderCount = L.holderCount
         /\ M.currentCheckpointId = L.currentCheckpointId
         /\ M.checkpointTotalSupply = L.checkpointTotalSupply
         /\ M.checkpointBalances = L.checkpointBalances
         /\ M.dataStore = L.dataStore
         /\ M.investors = IF x \in L.added[L.dataStore] THEN L.investors
                          ELSE [L.investors EXCEPT ![L.dataStore] = Append(@, x)]
         /\ M.added = [L.added EXCEPT ![L.dataStore] = @ \cup {x}]
<1> DEFINE M == ListInvestor(L, x)
<1>1. CASE x \in L.added[L.dataStore]
  <2>1. M = L
    BY <1>1 DEF ListInvestor, IsExistingInvestor
  <2>2. L.added = [L.added EXCEPT ![L.dataStore] = @ \cup {x}]
    BY <1>1, LedgerFields
  <2> QED  BY <1>1, <2>1, <2>2
<1>2. CASE x \notin L.added[L.dataStore]
  <2> DEFINE inv == [L.investors EXCEPT ![L.dataStore] = Append(@, x)]
             add == [L.added EXCEPT ![L.dataStore] = @ \cup {x}]
  <2>1. M = [[L EXCEPT !.investors = inv] EXCEPT !.added = add]
    BY <1>2 DEF ListInvestor, IsExistingInvestor, Ledger
  <2>2. inv \in [Store -> Seq(Account)] /\ add \in [Store -> SUBSET Account]
    BY LedgerFields
  <2> HIDE DEF inv, add, M
  <2>3. M \in Ledger
    BY <2>1, <2>2 DEF Ledger
  <2>4. /\ M.balances = L.balances
        /\ M.totalSupply = L.totalSupply
        /\ M.holderCount = L.holderCount
        /\ M.currentCheckpointId = L.currentCheckpointId
        /\ M.checkpointTotalSupply = L.checkpointTotalSupply
        /\ M.checkpointBalances = L.checkpointBalances
        /\ M.dataStore = L.dataStore
        /\ M.investors = inv
        /\ M.added = add
    BY <2>1 DEF Ledger
  <2> QED  BY <1>2, <2>3, <2>4 DEF M, inv, add
<1> QED  BY <1>1, <1>2

\* Fields a step of the bookkeeping leaves alone.
SameTokens(L, M) ==
  /\ M.balances = L.balances
  /\ M.totalSupply = L.totalSupply
  /\ M.dataStore = L.dataStore

SameLists(L, M) == M.investors = L.investors /\ M.added = L.added

SameClock(L, M) ==
  /\ M.currentCheckpointId = L.currentCheckpointId
  /\ M.checkpointTotalSupply = L.checkpointTotalSupply

LEMMA AdjustInvestorCountFields ==
  ASSUME NEW L \in Ledger, NEW from \in Address, NEW to \in Address,
         NEW value \in Amount, CountCanAdjust(L, from, to, value)
  PROVE  LET M == AdjustInvestorCount(L, from, to, value)
             K == IF Joins(L, from, to, value) THEN ListInvestor(L, to) ELSE L
         IN  /\ M \in Ledger
             /\ SameTokens(L, M) /\ SameClock(L, M) /\ SameLists(K, M)
             /\ M.checkpointBalances = L.checkpointBalances
             /\ M.holderCount =
                  L.holderCount + (IF Joins(L, from, to, value) THEN 1 ELSE 0)
                                - (IF Leaves(L, from, to, value) THEN 1 ELSE 0)
<1> DEFINE K == IF Joins(L, from, to, value) THEN ListInvestor(L, to) ELSE L
           count == L.holderCount
                      + (IF Joins(L, from, to, value) THEN 1 ELSE 0)
                      - (IF Leaves(L, from, to, value) THEN 1 ELSE 0)
           M == AdjustInvestorCount(L, from, to, value)
<1>1. /\ K \in Ledger /\ SameTokens(L, K) /\ SameClock(L, K)
      /\ K.checkpointBalances = L.checkpointBalances
      /\ K.holderCount = L.holderCount
  <2>1. CASE Joins(L, from, to, value)
    <3>1. to \in Account
      BY <2>1 DEF Joins, Address
    <3> QED  BY <2>1, <3>1, ListInvestorFields DEF SameTokens, SameClock
  <2>2. CASE ~Joins(L, from, to, value)
    BY <2>2 DEF SameTokens, SameClock
  <2> QED  BY <2>1, <2>2
<1>2. count \in Nat
  <2>1. L.holderCount \in Nat
    BY LedgerFields
  <2> QED  BY <2>1 DEF CountCanAdjust
<1>3. M = [K EXCEPT !.holderCount = count]
  <2>1. M = [K EXCEPT !.holderCount = K.holderCount
                      + (IF Joins(L, from, to, value) THEN 1 ELSE 0)
                      - (IF Leaves(L, from, to, value) THEN 1 ELSE 0)]
    BY DEF AdjustInvestorCount
  <2> QED  BY <2>1, <1>1
<1> HIDE DEF K, count, M
<1>4. M \in Ledger /\ M.holderCount = count
  BY <1>1, <1>2, <1>3 DEF Ledger
<1>5. /\ SameTokens(K, M) /\ SameClock(K, M) /\ SameLists(K, M)
      /\ M.checkpointBalances = K.checkpointBalances
  BY <1>1, <1>3 DEF Ledger, SameTokens, SameClock, SameLists
<1>6. /\ SameTokens(L, M) /\ SameClock(L, M)
      /\ M.checkpointBalances = L.checkpointBalances
  BY <1>1, <1>5 DEF SameTokens, SameClock
<1> QED  BY <1>4, <1>5, <1>6 DEF K, count, M

LEMMA CreateCheckpointsFields ==
  ASSUME NEW L \in Ledger, NEW k \in Nat
  PROVE  LET M == CreateCheckpoints(L, k) IN
         /\ M \in Ledger
         /\ SameTokens(L, M) /\ SameLists(L, M)
         /\ M.checkpointBalances = L.checkpointBalances
         /\ M.holderCount = L.holderCount
         /\ M.currentCheckpointId = L.currentCheckpointId + k
         /\ M.checkpointTotalSupply =
              L.checkpointTotalSupply \o [i \in 1..k |-> L.totalSupply]
<1> DEFINE M == CreateCheckpoints(L, k)
           id == L.currentCheckpointId + k
           cts == L.checkpointTotalSupply \o [i \in 1..k |-> L.totalSupply]
<1>1. id \in Nat
  BY LedgerFields
<1>2. cts \in Seq(Amount)
  <2>1. [i \in 1..k |-> L.totalSupply] \in Seq(Amount)
    BY LedgerFields
  <2> HIDE DEF Amount
  <2> QED  BY <2>1, LedgerFields
<1>3. M = [[L EXCEPT !.currentCheckpointId = id]
             EXCEPT !.checkpointTotalSupply = cts]
  BY DEF CreateCheckpoints, Ledger
<1> HIDE DEF M, id, cts
<1>4. M \in Ledger /\ M.currentCheckpointId = id /\ M.checkpointTotalSupply = cts
  BY <1>1, <1>2, <1>3 DEF Ledger
<1>5. /\ SameTokens(L, M) /\ SameLists(L, M)
      /\ M.checkpointBalances = L.checkpointBalances
      /\ M.holderCount = L.holderCount
  BY <1>3 DEF Ledger, SameTokens, SameLists
<1> QED  BY <1>4, <1>5 DEF M, id, cts

LEMMA AdjustBalanceCheckpointsFields ==
  ASSUME NEW L \in Ledger, NEW a \in Address
  PROVE  LET M == AdjustBalanceCheckpoints(L, a) IN
         /\ M \in Ledger
         /\ SameTokens(L, M) /\ SameLists(L, M) /\ SameClock(L, M)
         /\ M.holderCount = L.holderCount
         /\ M.checkpointBalances =
              [L.checkpointBalances EXCEPT
                 ![a] = AdjustCheckpoints(@, L.balances[a], L.currentCheckpointId)]
<1> DEFINE M == AdjustBalanceCheckpoints(L, a)
           cps == [L.checkpointBalances EXCEPT
                     ![a] = AdjustCheckpoints(@, L.balances[a], L.currentCheckpointId)]
<1>1. cps \in [Address -> Seq(CheckpointOf(Amount))]
  <2>1. AdjustCheckpoints(L.checkpointBalances[a], L.balances[a],
                          L.currentCheckpointId) \in Seq(CheckpointOf(Amount))
    BY LedgerFields, AdjustType
  <2> QED  BY <2>1, LedgerFields
<1>2. M = [L EXCEPT !.checkpointBalances = cps]
  BY DEF AdjustBalanceCheckpoints, Ledger
<1> HIDE DEF M, cps
<1>3. M \in Ledger /\ M.checkpointBalances = cps
  <2>1. CheckpointOf(Amount) = Checkpoint
    BY DEF CheckpointOf, Checkpoint
  <2> QED  BY <1>1, <1>2, <2>1 DEF Ledger
<1>4. /\ SameTokens(L, M) /\ SameLists(L, M) /\ SameClock(L, M)
      /\ M.holderCount = L.holderCount
  BY <1>2 DEF Ledger, SameTokens, SameLists, SameClock
<1> QED  BY <1>3, <1>4 DEF M, cps

\* The ledger in whose lists the receiver of a movement is entered.
ListedIn(L, from, to, value) ==
  IF Joins(L, from, to, value) THEN ListInvestor(L, to) ELSE L

\* What a ledger U is after _updateTransfer on L.
Updates(L, U, from, to, value, due) ==
  /\ TypeInv(U) /\ Ordered(U)
  /\ SameTokens(L, U) /\ SameLists(ListedIn(L, from, to, value), U)
  /\ U.holderCount =
       L.holderCount + (IF Joins(L, from, to, value) THEN 1 ELSE 0)
                     - (IF Leaves(L, from, to, value) THEN 1 ELSE 0)
  /\ U.currentCheckpointId = L.currentCheckpointId + due
  /\ U.checkpointTotalSupply =
       L.checkpointTotalSupply \o [i \in 1..due |-> L.totalSupply]
  /\ \A a \in Address, id \in 1..U.currentCheckpointId, later \in Amount :
       a \in {from, to} \/ later = L.balances[a]
       => ValueAt(U.checkpointBalances[a], id, later) = BalanceOfAt(L, a, id)

\* _updateTransfer as a whole: it moves no token, the checkpoints it creates
\* take the present supply, and afterwards the two parties' series answer for
\* every checkpoint without their balances, which may then change.
LEMMA UpdateTransferFields ==
  ASSUME NEW L, TypeInv(L), Ordered(L),
         NEW from \in Address, NEW to \in Address,
         NEW value \in Amount, NEW due \in Nat,
         CountCanAdjust(L, from, to, value)
  PROVE  Updates(L, UpdateTransfer(L, from, to, value, due), from, to, value, due)
<1> DEFINE K == IF Joins(L, from, to, value) THEN ListInvestor(L, to) ELSE L
           D == AdjustInvestorCount(L, from, to, value)
           C == CreateCheckpoints(D, due)
           F == AdjustBalanceCheckpoints(C, from)
           U == AdjustBalanceCheckpoints(F, to)
           N == L.currentCheckpointId + due
           cps == L.checkpointBalances
           adj(a) == AdjustCheckpoints(cps[a], L.balances[a], N)
<1>0. U = UpdateTransfer(L, from, to, value, due)
  BY DEF UpdateTransfer
<1>1. L \in Ledger
  BY DEF TypeInv
<1>2. /\ D \in Ledger
      /\ SameTokens(L, D) /\ SameClock(L, D) /\ SameLists(K, D)
      /\ D.checkpointBalances = cps
      /\ D.holderCount =
                  L.holderCount + (IF Joins(L, from, to, value) THEN 1 ELSE 0)
                                - (IF Leaves(L, from, to, value) THEN 1 ELSE 0)
  BY <1>1, AdjustInvestorCountFields
<1> HIDE DEF D
<1>3. /\ C \in Ledger
      /\ SameTokens(D, C) /\ SameLists(D, C)
      /\ C.checkpointBalances = D.checkpointBalances
      /\ C.holderCount = D.holderCount
      /\ C.currentCheckpointId = D.currentCheckpointId + due
      /\ C.checkpointTotalSupply =
           D.checkpointTotalSupply \o [i \in 1..due |-> D.totalSupply]
  BY <1>2, CreateCheckpointsFields
<1> HIDE DEF C
<1>4. /\ F \in Ledger
      /\ SameTokens(C, F) /\ SameLists(C, F) /\ SameClock(C, F)
      /\ F.holderCount = C.holderCount
      /\ F.checkpointBalances =
           [C.checkpointBalances EXCEPT
              ![from] = AdjustCheckpoints(@, C.balances[from], C.currentCheckpointId)]
  BY <1>3, AdjustBalanceCheckpointsFields
<1> HIDE DEF F
<1>5. /\ U \in Ledger
      /\ SameTokens(F, U) /\ SameLists(F, U) /\ SameClock(F, U)
      /\ U.holderCount = F.holderCount
      /\ U.checkpointBalances =
           [F.checkpointBalances EXCEPT
              ![to] = AdjustCheckpoints(@, F.balances[to], F.currentCheckpointId)]
  BY <1>4, AdjustBalanceCheckpointsFields
<1> HIDE DEF U, K
<1>6. /\ SameTokens(L, U) /\ SameLists(K, U)
      /\ U.holderCount = D.holderCount
      /\ U.currentCheckpointId = N
      /\ U.checkpointTotalSupply =
           L.checkpointTotalSupply \o [i \in 1..due |-> L.totalSupply]
      /\ U.checkpointBalances =
           [[cps EXCEPT ![from] = AdjustCheckpoints(@, L.balances[from], N)]
                 EXCEPT ![to] = AdjustCheckpoints(@, L.balances[to], N)]
  BY <1>2, <1>3, <1>4, <1>5 DEF SameTokens, SameLists, SameClock
<1>7. N \in Nat /\ L.currentCheckpointId \in Nat
  BY <1>1, LedgerFields
<1>8. Len(U.checkpointTotalSupply) = N
  <2>1. [i \in 1..due |-> L.totalSupply] \in Seq(Amount)
    BY <1>1, LedgerFields
  <2>2. Len([i \in 1..due |-> L.totalSupply]) = due
    OBVIOUS
  <2>3. L.checkpointTotalSupply \in Seq(Amount)
    BY <1>1, LedgerFields
  <2> HIDE DEF Amount
  <2> QED  BY <2>1, <2>2, <2>3, <1>6 DEF TypeInv
<1>9. ASSUME NEW a \in Address
      PROVE  /\ cps[a] \in Seq(CheckpointOf(Amount))
             /\ InOrder(cps[a], N)
             /\ adj(a) \in Seq(CheckpointOf(Amount))
             /\ InOrder(adj(a), N)
             /\ AdjustCheckpoints(adj(a), L.balances[a], N) = adj(a)
             /\ \A id \in 1..N, later \in Amount :
                  ValueAt(adj(a), id, later) = BalanceOfAt(L, a, id)
  <2>1. cps[a] \in Seq(CheckpointOf(Amount)) /\ L.balances[a] \in Amount
    BY <1>1, LedgerFields
  <2>2. InOrder(cps[a], N)
    BY <2>1, <1>7, InOrderLater DEF Ordered
  <2> QED  BY <2>1, <2>2, <1>7, AdjustKeepsValues DEF BalanceOfAt
<1> HIDE DEF adj, cps, N
<1>10. cps \in [Address -> Seq(CheckpointOf(Amount))]
  BY <1>1, LedgerFields DEF cps
<1>11. ASSUME NEW a \in Address
       PROVE  U.checkpointBalances[a] = IF a \in {from, to} THEN adj(a) ELSE cps[a]
  <2>1. AdjustCheckpoints(adj(a), L.balances[a], N) = adj(a)
    BY <1>9
  <2> QED  BY <2>1, <1>6, <1>10 DEF adj
<1>12. Ordered(U)
  BY <1>6, <1>9, <1>11 DEF Ordered
<1>13. ASSUME NEW a \in Address, NEW id \in 1..N, NEW later \in Amount,
              a \in {from, to} \/ later = L.balances[a]
       PROVE  ValueAt(U.checkpointBalances[a], id, later) = BalanceOfAt(L, a, id)
  BY <1>9, <1>11, <1>13 DEF BalanceOfAt, cps
<1>14. TypeInv(U)
  BY <1>5, <1>6, <1>8 DEF TypeInv
<1>15. Updates(L, U, from, to, value, due)
  BY <1>2, <1>6, <1>12, <1>13, <1>14 DEF Updates, ListedIn, K, N
<1> QED  BY <1>0, <1>15

-----------------------------------------------------------------------------
(* The movements that follow.                                              *)

\* c is b after value went from from to to; the zero address keeps no account.
Shifted(b, c, from, to, value) ==
  \A a \in Account :
    c[a] = IF from = to THEN b[a]
           ELSE IF a = from THEN b[a] - value
           ELSE IF a = to THEN b[a] + value
           ELSE b[a]

\* The number of holders changes by what adjustInvestorCount says, computed
\* before the balances change.
LEMMA HoldersShifted ==
  ASSUME NEW L \in Ledger, L.balances[Zero] = 0, NEW c,
         NEW from \in Address, NEW to \in Address, NEW value \in Amount,
         from \in Account => value <= L.balances[from],
         Shifted(L.balances, c, from, to, value)
  PROVE  Cardinality(Holders(c)) =
           Cardinality(Holders(L.balances))
             + (IF Joins(L, from, to, value) THEN 1 ELSE 0)
             - (IF Leaves(L, from, to, value) THEN 1 ELSE 0)
<1> DEFINE b == L.balances
           H == Holders(b)
           J == IF to = Zero THEN H ELSE H \cup {to}
<1>0. /\ \A a \in Address : b[a] \in Nat
      /\ value \in Nat
      /\ \A a \in Address : a \in Account \/ a = Zero
  BY LedgerFields, UintMaxAssumption DEF Amount, Address
<1>1. IsFiniteSet(H) /\ Cardinality(H) \in Nat
  BY HoldersFinite
<1>2. CASE value = 0 \/ from = to
  <2>1. \A a \in Account : c[a] = b[a]
    BY <1>2, <1>0 DEF Shifted, Address
  <2>2. ~Joins(L, from, to, value) /\ ~Leaves(L, from, to, value)
    BY <1>2 DEF Joins, Leaves
  <2> QED  BY <2>1, <2>2, <1>1, SameUnits
<1>3. CASE value # 0 /\ from # to
  <2>1. IsFiniteSet(J) /\ Cardinality(J) =
          Cardinality(H) + (IF Joins(L, from, to, value) THEN 1 ELSE 0)
    <3>1. CASE to = Zero
      BY <3>1, <1>1 DEF Joins
    <3>2. CASE to # Zero
      <4>1. to \in Account
        BY <3>2, <1>0
      <4>2. to \notin H <=> Joins(L, from, to, value)
        BY <4>1, <3>2, <1>0, <1>3 DEF Joins, Holders
      <4> HIDE DEF H
      <4> QED  BY <4>2, <3>2, <1>1, FS_AddElement
    <3> QED  BY <3>1, <3>2
  <2>2. CASE Leaves(L, from, to, value)
    <3>1. from \in Account /\ value = b[from]
      BY <2>2, <1>0, <1>3 DEF Leaves
    <3>2. from \in J
      BY <3>1, <1>0, <1>3 DEF Holders
    <3>3. Holders(c) = J \ {from}
      BY <3>1, <1>0, <1>3, AccountAssumption DEF Holders, Shifted
    <3>4. Cardinality(Holders(c)) = Cardinality(J) - 1
      <4> HIDE DEF J
      <4> QED  BY <3>2, <3>3, <2>1, FS_RemoveElement
    <3> QED  BY <3>4, <2>1, <2>2, <1>1
  <2>3. CASE ~Leaves(L, from, to, value)
    <3>1. value # b[from]
      BY <2>3, <1>3 DEF Leaves
    <3>2. Holders(c) = J
      BY <3>1, <1>0, <1>3, AccountAssumption DEF Holders, Shifted
    <3> QED  BY <3>2, <2>1, <2>3, <1>1
  <2> QED  BY <2>2, <2>3
<1> QED  BY <1>2, <1>3

\* Only the balances and the total supply change.
OnlyTokens(L, M) ==
  /\ M \in Ledger
  /\ M.holderCount = L.holderCount
  /\ M.dataStore = L.dataStore
  /\ SameLists(L, M) /\ SameClock(L, M)
  /\ M.checkpointBalances = L.checkpointBalances

LEMMA MovedFields ==
  ASSUME NEW L \in Ledger, Backed(L),
         NEW from \in Address, NEW to \in Address, NEW value \in Amount,
         CanMove(L, from, to, value)
  PROVE  LET M == Moved(L, from, to, value) IN
         /\ OnlyTokens(L, M) /\ Backed(M)
         /\ M.totalSupply = L.totalSupply
         /\ Shifted(L.balances, M.balances, from, to, value)
<1> DEFINE b == L.balances
           d == [b EXCEPT ![from] = @ - value]
           c == [d EXCEPT ![to] = @ + value]
           M == Moved(L, from, to, value)
<1>0. /\ b \in [Address -> Amount] /\ L.totalSupply \in Amount
      /\ UintMax \in Nat /\ value \in Nat
      /\ to \in Account /\ Account \subseteq Address /\ Zero \notin Account
      /\ value <= b[from]
      /\ \A a \in Address : a \in Account \/ a = Zero
  <2>1. b \in [Address -> Amount] /\ L.totalSupply \in Amount
    BY LedgerFields
  <2>2. UintMax \in Nat /\ value \in Nat
    BY UintMaxAssumption DEF Amount
  <2>3. value <= b[from] /\ to # Zero
    BY DEF CanMove
  <2> QED  BY <2>1, <2>2, <2>3, AccountAssumption DEF Address
<1>1. /\ c \in [Address -> Amount] /\ c[Zero] = 0
      /\ Cardinality(TokenUnits(c)) = Cardinality(TokenUnits(b))
      /\ Shifted(b, c, from, to, value)
  <2>1. CASE from = Zero
    <3>1. value = 0
      BY <2>1, <1>0 DEF Backed
    <3>2. c = b
      BY <3>1, <1>0 DEF Amount
    <3> QED  BY <3>1, <3>2, <1>0 DEF Backed, Shifted, Amount
  <2>2. CASE from # Zero
    <3>1. from \in Account
      BY <2>2, <1>0
    <3>2. Distribution(b) /\ Distribution(d) /\ d \in [Address -> Amount]
      BY <1>0 DEF Distribution, Amount
    <3>3. b[from] = d[from] + value /\ \A a \in Account \ {from} : b[a] = d[a]
      BY <1>0, <3>1 DEF Amount
    <3>4. Cardinality(TokenUnits(b)) = Cardinality(TokenUnits(d)) + value
      <4> HIDE DEF b, d
      <4> QED  BY <3>1, <3>2, <3>3, <1>0, UnitsAdded
    <3>5. d[to] \in Nat /\ d[to] + value <= UintMax
      <4>1. d[to] <= Cardinality(TokenUnits(d)) /\ Cardinality(TokenUnits(d)) \in Nat
        <5> HIDE DEF d
        <5> QED  BY <3>2, <1>0, UnitsFinite
      <4>2. Cardinality(TokenUnits(b)) <= UintMax
        BY <1>0 DEF Backed, Amount
      <4>3. d[to] \in Nat
        BY <3>2, <1>0 DEF Amount
      <4> HIDE DEF d, b
      <4> QED  BY <4>1, <4>2, <4>3, <3>4, <1>0
    <3>6. c \in [Address -> Amount] /\ Distribution(c)
      <4>1. d[to] + value \in Amount
        BY <3>5, <1>0 DEF Amount
      <4> HIDE DEF d
      <4> QED  BY <4>1, <3>2, <1>0 DEF Distribution
    <3>7. c[to] = d[to] + value /\ \A a \in Account \ {to} : c[a] = d[a]
      BY <3>2, <1>0
    <3>8. Cardinality(TokenUnits(c)) = Cardinality(TokenUnits(d)) + value
      <4> HIDE DEF c, d
      <4> QED  BY <3>2, <3>6, <3>7, <1>0, UnitsAdded
    <3>9. c[Zero] = 0 /\ Shifted(b, c, from, to, value)
      <4>1. b[Zero] = 0 /\ \A a \in Account : b[a] \in Nat
        BY <1>0 DEF Backed, Amount
      <4>2. \A a \in Address :
              c[a] = IF a = to THEN (IF to = from THEN b[to] - value ELSE b[to]) + value
                     ELSE IF a = from THEN b[from] - value ELSE b[a]
        BY <1>0
      <4>3. c[Zero] = 0
        BY <1>0, <3>1, <4>1, <4>2 DEF Address
      <4> HIDE DEF b, c, d
      <4> QED  BY <1>0, <3>1, <4>1, <4>2, <4>3 DEF Shifted
    <3> QED  BY <3>4, <3>6, <3>8, <3>9
  <2> QED  BY <2>1, <2>2
<1>2. M = [L EXCEPT !.balances = c]
  BY DEF Moved
<1> HIDE DEF M, c
<1>3. /\ OnlyTokens(L, M) /\ M.balances = c /\ M.totalSupply = L.totalSupply
  BY <1>1, <1>2 DEF Ledger, OnlyTokens, SameLists, SameClock
<1> QED  BY <1>1, <1>3 DEF M, Backed

LEMMA MintedFields ==
  ASSUME NEW L \in Ledger, Backed(L), NEW to \in Address, NEW value \in Amount,
         CanMint(L, to, value)
  PROVE  LET M == Minted(L, to, value) IN
         /\ OnlyTokens(L, M) /\ Backed(M)
         /\ M.totalSupply = L.totalSupply + value
         /\ Shifted(L.balances, M.balances, Zero, to, value)
<1> DEFINE b == L.balances
           c == [b EXCEPT ![to] = @ + value]
           supply == L.totalSupply + value
           M == Minted(L, to, value)
<1>0. /\ b \in [Address -> Amount] /\ L.totalSupply \in Amount
      /\ UintMax \in Nat /\ value \in Nat
      /\ to \in Account /\ to # Zero /\ to \in Address
      /\ Account \subseteq Address /\ Zero \notin Account
      /\ supply \in Amount
  <2>1. b \in [Address -> Amount] /\ L.totalSupply \in Amount
    BY LedgerFields
  <2>2. UintMax \in Nat /\ value \in Nat
    BY UintMaxAssumption DEF Amount
  <2>3. to # Zero /\ supply \in Amount
    BY <2>1, <2>2 DEF CanMint, Amount
  <2> QED  BY <2>1, <2>2, <2>3, AccountAssumption DEF Address
<1>1. Distribution(b)
  BY <1>0 DEF Distribution
<1>2. b[to] \in Nat /\ b[to] + value <= UintMax
  <2>1. b[to] <= L.totalSupply
    BY <1>0, <1>1, UnitsFinite DEF Backed
  <2>2. b[to] \in Nat /\ supply <= UintMax /\ L.totalSupply \in Nat
    BY <1>0 DEF Amount
  <2> QED  BY <2>1, <2>2, <1>0
<1>3. /\ c \in [Address -> Amount] /\ Distribution(c)
      /\ c[to] = b[to] + value /\ \A a \in Address \ {to} : c[a] = b[a]
  <2>1. b[to] + value \in Amount
    BY <1>0, <1>2 DEF Amount
  <2> QED  BY <2>1, <1>0 DEF Distribution
<1>4. Cardinality(TokenUnits(c)) = supply
  <2> HIDE DEF c, b
  <2>1. Cardinality(TokenUnits(c)) = Cardinality(TokenUnits(b)) + value
    BY <1>0, <1>1, <1>3, UnitsAdded
  <2> QED  BY <2>1 DEF Backed, b
<1>5. c[Zero] = 0 /\ Shifted(b, c, Zero, to, value)
  <2> HIDE DEF c
  <2> QED  BY <1>0, <1>3 DEF Backed, Shifted, Address
<1>6. M = [[L EXCEPT !.totalSupply = supply] EXCEPT !.balances = c]
  BY DEF Minted, Ledger
<1> HIDE DEF M, c, supply
<1>7. OnlyTokens(L, M) /\ M.balances = c /\ M.totalSupply = supply
  BY <1>0, <1>3, <1>6 DEF Ledger, OnlyTokens, SameLists, SameClock
<1> QED  BY <1>4, <1>5, <1>7 DEF M, supply, Backed

LEMMA BurnedFields ==
  ASSUME NEW L \in Ledger, Backed(L), NEW from \in Address, NEW value \in Amount,
         CanBurn(L, from, value)
  PROVE  LET M == Burned(L, from, value) IN
         /\ OnlyTokens(L, M) /\ Backed(M)
         /\ M.totalSupply = L.totalSupply - value
         /\ Shifted(L.balances, M.balances, from, Zero, value)
<1> DEFINE b == L.balances
           c == [b EXCEPT ![from] = @ - value]
           supply == L.totalSupply - value
           M == Burned(L, from, value)
<1>0. /\ b \in [Address -> Amount] /\ L.totalSupply \in Amount
      /\ UintMax \in Nat /\ value \in Nat
      /\ from \in Account /\ from # Zero /\ value <= b[from]
      /\ Account \subseteq Address /\ Zero \notin Account
  <2>1. b \in [Address -> Amount] /\ L.totalSupply \in Amount
    BY LedgerFields
  <2>2. UintMax \in Nat /\ value \in Nat
    BY UintMaxAssumption DEF Amount
  <2>3. from # Zero /\ value <= b[from]
    BY DEF CanBurn
  <2> QED  BY <2>1, <2>2, <2>3, AccountAssumption DEF Address
<1>1. Distribution(b)
  BY <1>0 DEF Distribution
<1>2. b[from] \in Nat /\ b[from] <= L.totalSupply /\ supply \in Amount
  <2>1. b[from] <= L.totalSupply
    BY <1>0, <1>1, UnitsFinite DEF Backed
  <2>2. b[from] \in Nat
    BY <1>0 DEF Amount
  <2> QED  BY <2>1, <2>2, <1>0 DEF Amount
<1>3. /\ c \in [Address -> Amount] /\ Distribution(c)
      /\ c[from] = b[from] - value /\ \A a \in Address \ {from} : c[a] = b[a]
  <2>1. b[from] - value \in Amount
    BY <1>0, <1>2 DEF Amount
  <2> QED  BY <2>1, <1>0 DEF Distribution
<1>4. Cardinality(TokenUnits(c)) = supply
  <2>1. b[from] = c[from] + value /\ \A a \in Account \ {from} : b[a] = c[a]
    <3> HIDE DEF c
    <3> QED  BY <1>0, <1>2, <1>3
  <2> HIDE DEF c, b
  <2>2. Cardinality(TokenUnits(b)) = Cardinality(TokenUnits(c)) + value
    <3>1. from \in Account /\ value \in Nat
      BY <1>0
    <3>2. Distribution(b) /\ Distribution(c)
      BY <1>1, <1>3
    <3> QED  BY <3>1, <3>2, <2>1, UnitsAdded
  <2>3. Cardinality(TokenUnits(c)) \in Nat
    BY <1>3, UnitsFinite
  <2> QED  BY <2>2, <2>3, <1>0 DEF Backed, b
<1>5. c[Zero] = 0 /\ Shifted(b, c, from, Zero, value)
  <2> HIDE DEF c
  <2> QED  BY <1>0, <1>3 DEF Backed, Shifted, Address
<1>6. M = [[L EXCEPT !.totalSupply = supply] EXCEPT !.balances = c]
  BY DEF Burned, Ledger
<1> HIDE DEF M, c, supply
<1>7. OnlyTokens(L, M) /\ M.balances = c /\ M.totalSupply = supply
  BY <1>2, <1>3, <1>6 DEF Ledger, OnlyTokens, SameLists, SameClock
<1> QED  BY <1>4, <1>5, <1>7 DEF M, supply, Backed

-----------------------------------------------------------------------------
(* The handlers.                                                           *)

\* A movement after _updateTransfer preserves the invariant and the past.
LEMMA HandlerKeepsInv ==
  ASSUME NEW L, LedgerInv(L),
         NEW from \in Address, NEW to \in Address,
         NEW value \in Amount, NEW due \in Nat,
         CountCanAdjust(L, from, to, value),
         from \in Account => value <= L.balances[from],
         NEW M,
         OnlyTokens(UpdateTransfer(L, from, to, value, due), M), Backed(M),
         Shifted(L.balances, M.balances, from, to, value)
  PROVE  /\ LedgerInv(M) /\ PastKept(L, M)
         /\ M.currentCheckpointId = L.currentCheckpointId + due
         /\ SameLists(ListedIn(L, from, to, value), M)
         /\ M.dataStore = L.dataStore
<1> DEFINE U == UpdateTransfer(L, from, to, value, due)
           K == ListedIn(L, from, to, value)
<1>0. Updates(L, U, from, to, value, due)
  BY UpdateTransferFields DEF LedgerInv
<1> HIDE DEF U, K
<1>1. /\ TypeInv(U) /\ Ordered(U)
      /\ SameTokens(L, U) /\ SameLists(K, U)
      /\ U.holderCount =
           L.holderCount + (IF Joins(L, from, to, value) THEN 1 ELSE 0)
                         - (IF Leaves(L, from, to, value) THEN 1 ELSE 0)
      /\ U.currentCheckpointId = L.currentCheckpointId + due
      /\ U.checkpointTotalSupply =
           L.checkpointTotalSupply \o [i \in 1..due |-> L.totalSupply]
      /\ \A a \in Address, id \in 1..U.currentCheckpointId, later \in Amount :
           a \in {from, to} \/ later = L.balances[a]
           => ValueAt(U.checkpointBalances[a], id, later) = BalanceOfAt(L, a, id)
  BY <1>0 DEF Updates, K
<1>2. OnlyTokens(U, M)
  BY DEF U
<1>3. TypeInv(M) /\ Ordered(M)
  BY <1>1, <1>2 DEF TypeInv, Ordered, OnlyTokens, SameClock
<1>4. SameLists(K, M) /\ M.dataStore = L.dataStore
      /\ M.currentCheckpointId = L.currentCheckpointId + due
  BY <1>1, <1>2 DEF OnlyTokens, SameLists, SameClock, SameTokens
<1>5. L \in Ledger /\ L.balances[Zero] = 0
  BY DEF LedgerInv, TypeInv, Backed
<1>6. Counted(M)
  <2>1. Cardinality(Holders(M.balances)) =
           Cardinality(Holders(L.balances))
             + (IF Joins(L, from, to, value) THEN 1 ELSE 0)
             - (IF Leaves(L, from, to, value) THEN 1 ELSE 0)
    BY <1>5, HoldersShifted
  <2>2. M.holderCount = U.holderCount
    BY <1>2 DEF OnlyTokens
  <2> QED  BY <2>1, <2>2, <1>1 DEF LedgerInv, Counted
<1>7. PastKept(L, M)
  <2>0. L.currentCheckpointId \in Nat /\ M.currentCheckpointId \in Nat
    BY <1>3, <1>5, LedgerFields DEF TypeInv
  <2>1. ASSUME NEW id \in 1..M.currentCheckpointId
        PROVE  TotalSupplyAt(M, id) =
                 IF id <= L.currentCheckpointId THEN TotalSupplyAt(L, id)
                                                ELSE L.totalSupply
    <3> DEFINE old == L.checkpointTotalSupply
               new == [i \in 1..due |-> L.totalSupply]
    <3>1. M.checkpointTotalSupply = old \o new
      BY <1>1, <1>2 DEF OnlyTokens, SameClock
    <3>2. old \in Seq(Amount) /\ Len(old) = L.currentCheckpointId
      BY <1>5, LedgerFields DEF LedgerInv, TypeInv
    <3>3. new \in Seq(Amount) /\ Len(new) = due /\ \A i \in 1..due : new[i] = L.totalSupply
      BY <1>5, LedgerFields
    <3> HIDE DEF old, new
    <3>4. (old \o new)[id] = IF id <= Len(old) THEN old[id] ELSE new[id - Len(old)]
      BY <3>2, <3>3, <1>4, <2>0
    <3> QED  BY <3>1, <3>2, <3>3, <3>4, <1>4, <2>0 DEF TotalSupplyAt, old
  <2>2. ASSUME NEW id \in 1..M.currentCheckpointId, NEW a \in Address
        PROVE  BalanceOfAt(M, a, id) = BalanceOfAt(L, a, id)
    <3>1. M.balances[a] \in Amount
      BY <1>3, LedgerFields DEF TypeInv
    <3>2. a \in {from, to} \/ M.balances[a] = L.balances[a]
      BY <1>5 DEF Shifted, Address, Backed
    <3>3. /\ M.checkpointBalances = U.checkpointBalances
          /\ M.currentCheckpointId = U.currentCheckpointId
      BY <1>2 DEF OnlyTokens, SameClock
    <3> QED  BY <3>1, <3>2, <3>3, <1>1 DEF BalanceOfAt
  <2> QED  BY <2>0, <2>1, <2>2, <1>4 DEF PastKept
<1>8. LedgerInv(M)
  BY <1>3, <1>6 DEF LedgerInv
<1> QED  BY <1>4, <1>7, <1>8 DEF K

\* The three handlers.
LEMMA TransferKeepsInv ==
  ASSUME NEW L, LedgerInv(L),
         NEW from \in Address, NEW to \in Address,
         NEW value \in Amount, NEW due \in Nat,
         CountCanAdjust(L, from, to, value), CanMove(L, from, to, value)
  PROVE  LET M == AfterTransfer(L, from, to, value, due) IN
         /\ LedgerInv(M) /\ PastKept(L, M)
         /\ M.currentCheckpointId = L.currentCheckpointId + due
         /\ SameLists(ListedIn(L, from, to, value), M)
         /\ M.dataStore = L.dataStore
         /\ Shifted(L.balances, M.balances, from, to, value)
         /\ M.totalSupply = L.totalSupply
<1> DEFINE U == UpdateTransfer(L, from, to, value, due)
           M == Moved(U, from, to, value)
<1>1. TypeInv(U) /\ SameTokens(L, U)
  BY UpdateTransferFields DEF LedgerInv, Updates
<1> HIDE DEF U
<1>2. U \in Ledger /\ Backed(U) /\ CanMove(U, from, to, value)
  BY <1>1 DEF TypeInv, SameTokens, Backed, CanMove, LedgerInv
<1>3. /\ OnlyTokens(U, M) /\ Backed(M)
      /\ M.totalSupply = U.totalSupply
      /\ Shifted(U.balances, M.balances, from, to, value)
  BY <1>2, MovedFields
<1> HIDE DEF M
<1>4. /\ Shifted(L.balances, M.balances, from, to, value)
      /\ M.totalSupply = L.totalSupply
  BY <1>1, <1>3 DEF SameTokens
<1>5. value <= L.balances[from]
  BY DEF CanMove
<1>6. OnlyTokens(UpdateTransfer(L, from, to, value, due), M)
  BY <1>3 DEF U
<1>7. /\ LedgerInv(M) /\ PastKept(L, M)
      /\ M.currentCheckpointId = L.currentCheckpointId + due
      /\ SameLists(ListedIn(L, from, to, value), M)
      /\ M.dataStore = L.dataStore
  BY <1>3, <1>4, <1>5, <1>6, HandlerKeepsInv
<1> QED  BY <1>4, <1>7 DEF AfterTransfer, M, U

LEMMA IssueKeepsInv ==
  ASSUME NEW L, LedgerInv(L),
         NEW to \in Address, NEW value \in Amount, NEW due \in Nat,
         CountCanAdjust(L, Zero, to, value), CanMint(L, to, value)
  PROVE  LET M == AfterIssue(L, to, value, due) IN
         /\ LedgerInv(M) /\ PastKept(L, M)
         /\ M.currentCheckpointId = L.currentCheckpointId + due
         /\ SameLists(ListedIn(L, Zero, to, value), M)
         /\ M.dataStore = L.dataStore
         /\ Shifted(L.balances, M.balances, Zero, to, value)
         /\ M.totalSupply = L.totalSupply + value
<1> DEFINE U == UpdateTransfer(L, Zero, to, value, due)
           M == Minted(U, to, value)
<1>0. Zero \in Address /\ Zero \notin Account
  BY AccountAssumption DEF Address
<1>1. TypeInv(U) /\ SameTokens(L, U)
  BY <1>0, UpdateTransferFields DEF LedgerInv, Updates
<1> HIDE DEF U
<1>2. U \in Ledger /\ Backed(U) /\ CanMint(U, to, value)
  BY <1>1 DEF TypeInv, SameTokens, Backed, CanMint, LedgerInv
<1>3. /\ OnlyTokens(U, M) /\ Backed(M)
      /\ M.totalSupply = U.totalSupply + value
      /\ Shifted(U.balances, M.balances, Zero, to, value)
  BY <1>2, MintedFields
<1> HIDE DEF M
<1>4. /\ Shifted(L.balances, M.balances, Zero, to, value)
      /\ M.totalSupply = L.totalSupply + value
  BY <1>1, <1>3 DEF SameTokens
<1>6. OnlyTokens(UpdateTransfer(L, Zero, to, value, due), M)
  BY <1>3 DEF U
<1>7. /\ LedgerInv(M) /\ PastKept(L, M)
      /\ M.currentCheckpointId = L.currentCheckpointId + due
      /\ SameLists(ListedIn(L, Zero, to, value), M)
      /\ M.dataStore = L.dataStore
  BY <1>0, <1>3, <1>4, <1>6, HandlerKeepsInv
<1> QED  BY <1>4, <1>7 DEF AfterIssue, M, U

LEMMA RedeemKeepsInv ==
  ASSUME NEW L, LedgerInv(L),
         NEW from \in Address, NEW value \in Amount, NEW due \in Nat,
         CountCanAdjust(L, from, Zero, value), CanBurn(L, from, value)
  PROVE  LET M == AfterRedeem(L, from, value, due) IN
         /\ LedgerInv(M) /\ PastKept(L, M)
         /\ M.currentCheckpointId = L.currentCheckpointId + due
         /\ SameLists(L, M)
         /\ M.dataStore = L.dataStore
         /\ Shifted(L.balances, M.balances, from, Zero, value)
         /\ M.totalSupply = L.totalSupply - value
<1> DEFINE U == UpdateTransfer(L, from, Zero, value, due)
           M == Burned(U, from, value)
<1>0. Zero \in Address /\ Zero \notin Account
  BY AccountAssumption DEF Address
<1>1. TypeInv(U) /\ SameTokens(L, U)
  BY <1>0, UpdateTransferFields DEF LedgerInv, Updates
<1> HIDE DEF U
<1>2. U \in Ledger /\ Backed(U) /\ CanBurn(U, from, value)
  BY <1>1 DEF TypeInv, SameTokens, Backed, CanBurn, LedgerInv
<1>3. /\ OnlyTokens(U, M) /\ Backed(M)
      /\ M.totalSupply = U.totalSupply - value
      /\ Shifted(U.balances, M.balances, from, Zero, value)
  BY <1>2, BurnedFields
<1> HIDE DEF M
<1>4. /\ Shifted(L.balances, M.balances, from, Zero, value)
      /\ M.totalSupply = L.totalSupply - value
  BY <1>1, <1>3 DEF SameTokens
<1>5. value <= L.balances[from]
  BY DEF CanBurn
<1>6. OnlyTokens(UpdateTransfer(L, from, Zero, value, due), M)
  BY <1>3 DEF U
<1>7. /\ LedgerInv(M) /\ PastKept(L, M)
      /\ M.currentCheckpointId = L.currentCheckpointId + due
      /\ SameLists(ListedIn(L, from, Zero, value), M)
      /\ M.dataStore = L.dataStore
  BY <1>0, <1>3, <1>4, <1>5, <1>6, HandlerKeepsInv
<1>8. ~Joins(L, from, Zero, value)
  BY DEF Joins
<1> QED  BY <1>4, <1>7, <1>8 DEF AfterRedeem, M, U, ListedIn

\* Checkpoints taken alone: nothing moves.
LEMMA CheckpointKeepsInv ==
  ASSUME NEW L, LedgerInv(L), NEW k \in Nat
  PROVE  LET M == CreateCheckpoints(L, k) IN
         /\ LedgerInv(M) /\ PastKept(L, M)
         /\ M.currentCheckpointId = L.currentCheckpointId + k
         /\ SameTokens(L, M) /\ SameLists(L, M)
<1> DEFINE M == CreateCheckpoints(L, k)
           old == L.checkpointTotalSupply
           new == [i \in 1..k |-> L.totalSupply]
<1>1. L \in Ledger /\ Len(old) = L.currentCheckpointId
  BY DEF LedgerInv, TypeInv
<1>2. /\ M \in Ledger
      /\ SameTokens(L, M) /\ SameLists(L, M)
      /\ M.checkpointBalances = L.checkpointBalances
      /\ M.holderCount = L.holderCount
      /\ M.currentCheckpointId = L.currentCheckpointId + k
      /\ M.checkpointTotalSupply = old \o new
  BY <1>1, CreateCheckpointsFields
<1> HIDE DEF M
<1>3. /\ old \in Seq(Amount) /\ L.currentCheckpointId \in Nat
      /\ new \in Seq(Amount) /\ Len(new) = k
      /\ \A i \in 1..k : new[i] = L.totalSupply
  BY <1>1, LedgerFields
<1> HIDE DEF old, new
<1>4. /\ Len(old \o new) = L.currentCheckpointId + k
      /\ \A id \in 1..(L.currentCheckpointId + k) :
           (old \o new)[id] = IF id <= L.currentCheckpointId THEN old[id]
                                                            ELSE L.totalSupply
  BY <1>1, <1>3
<1>5. TypeInv(M)
  BY <1>2, <1>4 DEF TypeInv
<1>6. Ordered(M)
  <2> SUFFICES ASSUME NEW a \in Address
               PROVE  InOrder(L.checkpointBalances[a], L.currentCheckpointId + k)
    BY <1>2 DEF Ordered
  <2>1. L.checkpointBalances[a] \in Seq(CheckpointOf(Amount))
    BY <1>1, LedgerFields
  <2>2. InOrder(L.checkpointBalances[a], L.currentCheckpointId)
    BY DEF LedgerInv, Ordered
  <2> QED  BY <2>1, <2>2, <1>3, InOrderLater
<1>7. Backed(M) /\ Counted(M)
  BY <1>2 DEF SameTokens, Backed, Counted, LedgerInv
<1>8. PastKept(L, M)
  <2>1. \A a \in Address, id \in 1..M.currentCheckpointId :
          BalanceOfAt(M, a, id) = BalanceOfAt(L, a, id)
    BY <1>2 DEF BalanceOfAt, SameTokens
  <2>2. \A id \in 1..M.currentCheckpointId :
          TotalSupplyAt(M, id) =
            IF id <= L.currentCheckpointId THEN TotalSupplyAt(L, id)
                                           ELSE L.totalSupply
    BY <1>2, <1>3, <1>4 DEF TotalSupplyAt, old
  <2> QED  BY <2>1, <2>2, <1>2, <1>3 DEF PastKept
<1> QED  BY <1>2, <1>5, <1>6, <1>7, <1>8 DEF LedgerInv, M

\* A ledger says of a checkpoint it does not have yet what is true now.
LEMMA FutureIsNow ==
  ASSUME NEW L, LedgerInv(L), NEW id \in Nat, id > L.currentCheckpointId,
         NEW a \in Address
  PROVE  BalanceOfAt(L, a, id) = L.balances[a]
<1>1. /\ L.checkpointBalances[a] \in Seq(CheckpointOf(Amount))
      /\ L.currentCheckpointId \in Nat
  BY LedgerFields DEF LedgerInv, TypeInv
<1>2. InOrder(L.checkpointBalances[a], L.currentCheckpointId)
  BY DEF LedgerInv, Ordered
<1> QED  BY <1>1, <1>2, ValueAtNew DEF BalanceOfAt

\* If the past is kept, the balances of all checkpoints add up: of the old ones
\* as before, of the new ones because the supply is backed now.
LEMMA AddsUpKept ==
  ASSUME NEW L, LedgerInv(L), AddsUp(L), NEW M, LedgerInv(M), PastKept(L, M)
  PROVE  AddsUp(M)
<1>0. L.currentCheckpointId \in Nat /\ M.currentCheckpointId \in Nat
  BY LedgerFields DEF LedgerInv, TypeInv
<1> SUFFICES ASSUME NEW id \in 1..M.currentCheckpointId
             PROVE  TotalSupplyAt(M, id) = Cardinality(TokenUnits(BalancesAt(M, id)))
  BY DEF AddsUp
<1>1. Account \subseteq Address
  BY DEF Address
<1>2. BalancesAt(M, id) = BalancesAt(L, id)
  BY <1>1 DEF BalancesAt, PastKept
<1>3. CASE id <= L.currentCheckpointId
  <2>1. id \in 1..L.currentCheckpointId
    BY <1>0, <1>3
  <2>2. TotalSupplyAt(M, id) = TotalSupplyAt(L, id)
    BY <1>3 DEF PastKept
  <2> QED  BY <2>1, <2>2, <1>2 DEF AddsUp
<1>4. CASE id > L.currentCheckpointId
  <2>1. TotalSupplyAt(M, id) = L.totalSupply
    BY <1>0, <1>4 DEF PastKept
  <2>2. \A a \in Account : BalancesAt(L, id)[a] = L.balances[a]
    BY <1>0, <1>1, <1>4, FutureIsNow DEF BalancesAt
  <2>3. TokenUnits(BalancesAt(L, id)) = TokenUnits(L.balances)
    BY <2>2, SameUnits
  <2> QED  BY <2>1, <2>3, <1>2 DEF LedgerInv, Backed
<1> QED  BY <1>0, <1>3, <1>4

-----------------------------------------------------------------------------
(* The investor lists.                                                     *)

\* Listing an investor keeps the lists free of duplicates and loses nobody.
LEMMA ListInvestorKeepsLists ==
  ASSUME NEW L \in Ledger, ListedOnce(L), NEW x \in Account
  PROVE  LET M == ListInvestor(L, x) IN
         /\ ListedOnce(M)
         /\ x \in Listed(M, L.dataStore)
         /\ \A s \in Store : Listed(L, s) \subseteq Listed(M, s)
<1> DEFINE M == ListInvestor(L, x)
           ds == L.dataStore
<1>0. /\ ds \in Store
      /\ L.investors \in [Store -> Seq(Account)]
      /\ L.added \in [Store -> SUBSET Account]
  BY LedgerFields
<1>1. /\ M.investors = IF x \in L.added[ds] THEN L.investors
                       ELSE [L.investors EXCEPT ![ds] = Append(@, x)]
      /\ M.added = [L.added EXCEPT ![ds] = @ \cup {x}]
  BY ListInvestorFields
<1> HIDE DEF M, ds
<1>2. CASE x \in L.added[ds]
  <2>1. M.investors = L.investors /\ M.added = L.added
    BY <1>0, <1>1, <1>2
  <2>2. x \in Listed(L, ds)
    BY <1>0, <1>2 DEF ListedOnce
  <2> QED  BY <2>1, <2>2 DEF ListedOnce, Listed, M, ds
<1>3. CASE x \notin L.added[ds]
  <2> DEFINE old == L.investors[ds]
             new == M.investors[ds]
  <2>1. /\ old \in Seq(Account)
        /\ new = Append(old, x)
        /\ \A s \in Store \ {ds} : M.investors[s] = L.investors[s] /\ M.added[s] = L.added[s]
        /\ M.added[ds] = L.added[ds] \cup {x}
    BY <1>0, <1>1, <1>3
  <2> HIDE DEF old, new
  <2>2. /\ DOMAIN old = 1..Len(old) /\ Len(old) \in Nat
        /\ DOMAIN new = 1..(Len(old) + 1)
        /\ \A i \in 1..Len(old) : new[i] = old[i]
        /\ new[Len(old) + 1] = x
    BY <2>1
  <2>3. Listed(M, ds) = Listed(L, ds) \cup {x}
    <3>1. /\ Listed(M, ds) = {new[i] : i \in DOMAIN new}
          /\ Listed(L, ds) = {old[i] : i \in DOMAIN old}
      BY DEF Listed, old, new
    <3>2. {old[i] : i \in 1..Len(old)} = {new[i] : i \in 1..Len(old)}
      BY <2>2
    <3>3. {new[i] : i \in 1..(Len(old) + 1)}
            = {new[i] : i \in 1..Len(old)} \cup {new[Len(old) + 1]}
      BY <2>2
    <3> QED  BY <3>1, <3>2, <3>3, <2>2
  <2>4. \A s \in Store \ {ds} : Listed(M, s) = Listed(L, s)
    BY <2>1 DEF Listed
  <2>5. \A i \in DOMAIN old : old[i] # x
    BY <1>0, <1>3 DEF ListedOnce, Listed, old
  <2>6. \A i, j \in DOMAIN new : new[i] = new[j] => i = j
    <3>1. \A i, j \in DOMAIN old : old[i] = old[j] => i = j
      BY <1>0 DEF ListedOnce, old
    <3> QED  BY <3>1, <2>2, <2>5
  <2>7. ListedOnce(M)
    <3> SUFFICES ASSUME NEW s \in Store
                 PROVE  /\ Listed(M, s) = M.added[s]
                        /\ \A i, j \in DOMAIN M.investors[s] :
                             M.investors[s][i] = M.investors[s][j] => i = j
      BY DEF ListedOnce
    <3>1. CASE s = ds
      BY <3>1, <2>1, <2>3, <2>6, <1>0 DEF ListedOnce, new
    <3>2. CASE s # ds
      BY <3>2, <2>1, <2>4 DEF ListedOnce
    <3> QED  BY <3>1, <3>2
  <2> QED  BY <2>3, <2>4, <2>7, <1>0 DEF M, ds
<1> QED  BY <1>2, <1>3

\* The lists after a movement: in order, and complete if the past is kept and
\* every balance that became positive belongs to the receiver.
LEMMA ListsKept ==
  ASSUME NEW L, LedgerInv(L), ListedOnce(L), HoldersIn(L),
         NEW from \in Address, NEW to \in Address, NEW value \in Amount,
         from \in Account => value <= L.balances[from],
         NEW M, LedgerInv(M), PastKept(L, M),
         SameLists(ListedIn(L, from, to, value), M),
         Shifted(L.balances, M.balances, from, to, value)
  PROVE  ListedOnce(M) /\ HoldersIn(M)
<1> DEFINE K == ListedIn(L, from, to, value)
<1>0. /\ L \in Ledger /\ L.currentCheckpointId \in Nat
      /\ M.currentCheckpointId \in Nat
      /\ \A a \in Address : L.balances[a] \in Nat
      /\ value \in Nat
      /\ Account \subseteq Address
  BY LedgerFields, UintMaxAssumption DEF LedgerInv, TypeInv, Amount, Address
<1>1. /\ ListedOnce(K)
      /\ \A s \in Store : Listed(L, s) \subseteq Listed(K, s)
      /\ Joins(L, from, to, value) => \E s \in Store : to \in Listed(K, s)
  <2>1. CASE Joins(L, from, to, value)
    <3>1. to \in Account
      BY <2>1 DEF Joins, Address
    <3>2. L.dataStore \in Store
      BY <1>0, LedgerFields
    <3> QED  BY <2>1, <3>1, <3>2, <1>0, ListInvestorKeepsLists DEF ListedIn
  <2>2. CASE ~Joins(L, from, to, value)
    BY <2>2 DEF ListedIn
  <2> QED  BY <2>1, <2>2
<1> HIDE DEF K
<1>2. /\ ListedOnce(M)
      /\ \A s \in Store : Listed(L, s) \subseteq Listed(M, s)
      /\ Joins(L, from, to, value) => \E s \in Store : to \in Listed(M, s)
  <2>1. M.investors = K.investors /\ M.added = K.added
    BY DEF SameLists, K
  <2>2. \A s \in Store : Listed(M, s) = Listed(K, s)
    BY <2>1 DEF Listed
  <2>3. ListedOnce(M)
    BY <1>1, <2>1, <2>2 DEF ListedOnce
  <2> QED  BY <1>1, <2>2, <2>3
<1>3. HoldersIn(M)
  <2> SUFFICES ASSUME NEW a \in Account, \A s \in Store : a \notin Listed(M, s)
               PROVE  /\ M.balances[a] = 0
                      /\ \A id \in 1..M.currentCheckpointId : BalanceOfAt(M, a, id) = 0
    BY DEF HoldersIn
  <2>1. /\ L.balances[a] = 0
        /\ \A id \in 1..L.currentCheckpointId : BalanceOfAt(L, a, id) = 0
    BY <1>2 DEF HoldersIn
  <2>2. M.balances[a] = 0
    <3>1. ~(a = to /\ Joins(L, from, to, value))
      BY <1>2
    <3>2. to # Zero \/ a # to
      BY AccountAssumption
    <3> QED  BY <3>1, <3>2, <2>1, <1>0 DEF Shifted, Joins
  <2>3. ASSUME NEW id \in 1..M.currentCheckpointId
        PROVE  BalanceOfAt(M, a, id) = 0
    <3>1. BalanceOfAt(M, a, id) = BalanceOfAt(L, a, id)
      BY <1>0 DEF PastKept
    <3>2. CASE id <= L.currentCheckpointId
      BY <3>1, <3>2, <2>1, <1>0
    <3>3. CASE id > L.currentCheckpointId
      BY <3>1, <3>3, <2>1, <1>0, FutureIsNow
    <3> QED  BY <3>2, <3>3, <1>0
  <2> QED  BY <2>2, <2>3
<1> QED  BY <1>2, <1>3

-----------------------------------------------------------------------------
(* The kinds of step on the ledger.                                        *)

TransferStep(L, M) ==
  \E from, to \in Address, value \in Amount, due \in Due :
    /\ CountCanAdjust(L, from, to, value) /\ CanMove(L, from, to, value)
    /\ M = AfterTransfer(L, from, to, value, due)

IssueStep(L, M) ==
  \E to \in Account, value \in Amount, due \in Due :
    /\ CountCanAdjust(L, Zero, to, value) /\ CanMint(L, to, value)
    /\ M = AfterIssue(L, to, value, due)

IssueTwice(L, M) == \E K : IssueStep(L, K) /\ IssueStep(K, M)

RedeemStep(L, M) ==
  \E from \in Account, value \in Amount, due \in Due :
    /\ CountCanAdjust(L, from, Zero, value) /\ CanBurn(L, from, value)
    /\ M = AfterRedeem(L, from, value, due)

ListStep(L, M) == \E x \in Account : M = ListInvestor(L, x)

StoreStep(L, M) == \E store \in Store : M = [L EXCEPT !.dataStore = store]

\* A ledger all of whose parts agree.
Good(L) == LedgerInv(L) /\ AddsUp(L) /\ ListedOnce(L) /\ HoldersIn(L)

\* M says of the checkpoints of L what L says of them.
HistoryKept(L, M) ==
  /\ M.currentCheckpointId >= L.currentCheckpointId
  /\ \A id \in 1..L.currentCheckpointId :
       /\ TotalSupplyAt(M, id) = TotalSupplyAt(L, id)
       /\ \A a \in Account : BalanceOfAt(M, a, id) = BalanceOfAt(L, a, id)

\* A handler whose first half keeps the past and the lists keeps the ledger good.
LEMMA GoodAfter ==
  ASSUME NEW L, Good(L), NEW from \in Address, NEW to \in Address,
         NEW value \in Amount, from \in Account => value <= L.balances[from],
         NEW M, LedgerInv(M), PastKept(L, M),
         SameLists(ListedIn(L, from, to, value), M),
         Shifted(L.balances, M.balances, from, to, value)
  PROVE  Good(M) /\ HistoryKept(L, M)
<1>1. LedgerInv(L) /\ AddsUp(L) /\ ListedOnce(L) /\ HoldersIn(L)
  BY DEF Good
<1>2. AddsUp(M)
  BY <1>1, AddsUpKept
<1>3. ListedOnce(M) /\ HoldersIn(M)
  BY <1>1, ListsKept
<1>4. HistoryKept(L, M)
  <2>1. L.currentCheckpointId \in Nat /\ M.currentCheckpointId \in Nat
    BY <1>1, LedgerFields DEF LedgerInv, TypeInv
  <2> QED  BY <2>1 DEF PastKept, HistoryKept, Address
<1> QED  BY <1>1, <1>2, <1>3, <1>4 DEF Good

LEMMA DueIsNat == Due \subseteq Nat
BY BoundAssumption DEF Due

LEMMA TransferGood ==
  ASSUME NEW L, Good(L), NEW M, TransferStep(L, M)
  PROVE  /\ Good(M) /\ HistoryKept(L, M) /\ M.totalSupply = L.totalSupply
<1>1. PICK from \in Address, to \in Address, value \in Amount, due \in Due :
        /\ CountCanAdjust(L, from, to, value) /\ CanMove(L, from, to, value)
        /\ M = AfterTransfer(L, from, to, value, due)
  BY DEF TransferStep
<1>2. /\ LedgerInv(M) /\ PastKept(L, M)
      /\ SameLists(ListedIn(L, from, to, value), M)
      /\ Shifted(L.balances, M.balances, from, to, value)
      /\ M.totalSupply = L.totalSupply
  BY <1>1, TransferKeepsInv, DueIsNat DEF Good
<1>3. value <= L.balances[from]
  BY <1>1 DEF CanMove
<1> QED  BY <1>2, <1>3, GoodAfter

LEMMA IssueGood ==
  ASSUME NEW L, Good(L), NEW M, IssueStep(L, M)
  PROVE  Good(M) /\ HistoryKept(L, M)
<1>1. PICK to \in Account, value \in Amount, due \in Due :
        /\ CountCanAdjust(L, Zero, to, value) /\ CanMint(L, to, value)
        /\ M = AfterIssue(L, to, value, due)
  BY DEF IssueStep
<1>2. to \in Address /\ Zero \in Address /\ Zero \notin Account
  BY AccountAssumption DEF Address
<1>3. /\ LedgerInv(M) /\ PastKept(L, M)
      /\ SameLists(ListedIn(L, Zero, to, value), M)
      /\ Shifted(L.balances, M.balances, Zero, to, value)
  BY <1>1, <1>2, IssueKeepsInv, DueIsNat DEF Good
<1> QED  BY <1>2, <1>3, GoodAfter

LEMMA RedeemGood ==
  ASSUME NEW L, Good(L), NEW M, RedeemStep(L, M)
  PROVE  /\ Good(M) /\ HistoryKept(L, M) /\ M.totalSupply <= L.totalSupply
<1>1. PICK from \in Account, value \in Amount, due \in Due :
        /\ CountCanAdjust(L, from, Zero, value) /\ CanBurn(L, from, value)
        /\ M = AfterRedeem(L, from, value, due)
  BY DEF RedeemStep
<1>2. from \in Address /\ Zero \in Address
  BY DEF Address
<1>3. /\ LedgerInv(M) /\ PastKept(L, M) /\ SameLists(L, M)
      /\ Shifted(L.balances, M.balances, from, Zero, value)
      /\ M.totalSupply = L.totalSupply - value
  BY <1>1, <1>2, RedeemKeepsInv, DueIsNat DEF Good
<1>4. ListedIn(L, from, Zero, value) = L
  BY DEF ListedIn, Joins
<1>5. value <= L.balances[from]
  BY <1>1 DEF CanBurn
<1>6. Good(M) /\ HistoryKept(L, M)
  BY <1>2, <1>3, <1>4, <1>5, GoodAfter
<1>7. L.totalSupply \in Nat /\ value \in Nat
  BY LedgerFields, UintMaxAssumption DEF Good, LedgerInv, TypeInv, Amount
<1> QED  BY <1>3, <1>6, <1>7

LEMMA HistoryTransitive ==
  ASSUME NEW L, NEW K, NEW M, Good(L), Good(K), Good(M),
         HistoryKept(L, K), HistoryKept(K, M)
  PROVE  HistoryKept(L, M)
<1>1. /\ L.currentCheckpointId \in Nat /\ K.currentCheckpointId \in Nat
      /\ M.currentCheckpointId \in Nat
  BY LedgerFields DEF Good, LedgerInv, TypeInv
<1> QED  BY <1>1 DEF HistoryKept

LEMMA CheckpointGood ==
  ASSUME NEW L, Good(L)
  PROVE  LET M == CreateCheckpoints(L, 1) IN
         /\ Good(M) /\ HistoryKept(L, M) /\ M.totalSupply = L.totalSupply
<1> DEFINE M == CreateCheckpoints(L, 1)
<1>1. /\ LedgerInv(M) /\ PastKept(L, M) /\ SameTokens(L, M) /\ SameLists(L, M)
  BY CheckpointKeepsInv DEF Good
<1> HIDE DEF M
<1>2. Zero \in Address /\ 0 \in Amount /\ ListedIn(L, Zero, Zero, 0) = L
  BY UintMaxAssumption DEF Address, Amount, ListedIn, Joins
<1>3. Shifted(L.balances, M.balances, Zero, Zero, 0)
  BY <1>1 DEF SameTokens, Shifted
<1>4. Zero \notin Account
  BY AccountAssumption
<1>5. Good(M) /\ HistoryKept(L, M)
  BY <1>1, <1>2, <1>3, <1>4, GoodAfter
<1> QED  BY <1>1, <1>5 DEF SameTokens, M

\* Fields that listing an investor or replacing the data store leaves alone.
SameBooks(L, M) ==
  /\ M.balances = L.balances
  /\ M.totalSupply = L.totalSupply
  /\ M.holderCount = L.holderCount
  /\ M.currentCheckpointId = L.currentCheckpointId
  /\ M.checkpointTotalSupply = L.checkpointTotalSupply
  /\ M.checkpointBalances = L.checkpointBalances

LEMMA SameBooksGood ==
  ASSUME NEW L, Good(L), NEW M \in Ledger, SameBooks(L, M), ListedOnce(M),
         \A s \in Store : Listed(L, s) \subseteq Listed(M, s)
  PROVE  Good(M) /\ HistoryKept(L, M)
<1>1. LedgerInv(M)
  BY DEF Good, LedgerInv, TypeInv, Backed, Counted, Ordered, SameBooks
<1>2. /\ \A id : TotalSupplyAt(M, id) = TotalSupplyAt(L, id)
      /\ \A a, id : BalanceOfAt(M, a, id) = BalanceOfAt(L, a, id)
      /\ \A id : BalancesAt(M, id) = BalancesAt(L, id)
  BY DEF TotalSupplyAt, BalanceOfAt, BalancesAt, SameBooks
<1>3. L.currentCheckpointId \in Nat
  BY LedgerFields DEF Good, LedgerInv, TypeInv
<1>4. HistoryKept(L, M)
  BY <1>2, <1>3 DEF HistoryKept, SameBooks
<1>5. AddsUp(M)
  BY <1>2 DEF Good, AddsUp, SameBooks
<1>6. HoldersIn(M)
  BY <1>2 DEF Good, HoldersIn, SameBooks
<1> QED  BY <1>1, <1>4, <1>5, <1>6 DEF Good

LEMMA ListGood ==
  ASSUME NEW L, Good(L), NEW M, ListStep(L, M)
  PROVE  Good(M) /\ HistoryKept(L, M) /\ SameBooks(L, M)
<1>1. PICK x \in Account : M = ListInvestor(L, x)
  BY DEF ListStep
<1>2. L \in Ledger /\ ListedOnce(L)
  BY DEF Good, LedgerInv, TypeInv
<1>3. M \in Ledger /\ SameBooks(L, M)
  BY <1>1, <1>2, ListInvestorFields DEF SameBooks
<1>4. ListedOnce(M) /\ \A s \in Store : Listed(L, s) \subseteq Listed(M, s)
  BY <1>1, <1>2, ListInvestorKeepsLists
<1> QED  BY <1>3, <1>4, SameBooksGood

LEMMA StoreGood ==
  ASSUME NEW L, Good(L), NEW M, StoreStep(L, M)
  PROVE  Good(M) /\ HistoryKept(L, M) /\ SameBooks(L, M)
<1>1. PICK store \in Store : M = [L EXCEPT !.dataStore = store]
  BY DEF StoreStep
<1>2. L \in Ledger /\ ListedOnce(L)
  BY DEF Good, LedgerInv, TypeInv
<1>3. M \in Ledger /\ SameBooks(L, M)
  BY <1>1, <1>2 DEF SameBooks, Ledger
<1>4. M.investors = L.investors /\ M.added = L.added
  BY <1>1, <1>2 DEF Ledger
<1>5. \A s \in Store : Listed(M, s) = Listed(L, s)
  BY <1>4 DEF Listed
<1>6. ListedOnce(M)
  BY <1>2, <1>4, <1>5 DEF ListedOnce
<1> QED  BY <1>3, <1>5, <1>6, SameBooksGood

LEMMA EmptyGood ==
  ASSUME NEW store \in Store PROVE Good(EmptyLedger(store))
<1> DEFINE L == EmptyLedger(store)
<1>1. /\ L.balances = [a \in Address |-> 0]
      /\ L.totalSupply = 0 /\ L.holderCount = 0 /\ L.currentCheckpointId = 0
      /\ L.checkpointTotalSupply = <<>>
      /\ L.checkpointBalances = [a \in Address |-> <<>>]
      /\ L.investors = [s \in Store |-> <<>>]
      /\ L.added = [s \in Store |-> {}]
  BY DEF EmptyLedger
<1>2. 0 \in Amount /\ Zero \in Address /\ Account \subseteq Address
  BY UintMaxAssumption DEF Amount, Address
<1>3. L \in Ledger
  BY <1>2 DEF EmptyLedger, Ledger, Checkpoint
<1> HIDE DEF L
<1>4. TypeInv(L)
  BY <1>1, <1>3 DEF TypeInv
<1>5. Backed(L)
  <2>1. TokenUnits(L.balances) = {}
    BY <1>1, <1>2, UintMaxAssumption DEF TokenUnits, Address
  <2> QED  BY <1>1, <1>2, <2>1, FS_EmptySet DEF Backed
<1>6. Counted(L)
  <2>1. Holders(L.balances) = {}
    BY <1>1, <1>2 DEF Holders
  <2> QED  BY <1>1, <2>1, FS_EmptySet DEF Counted
<1>7. Ordered(L)
  BY <1>1 DEF Ordered, InOrder
<1>8. AddsUp(L)
  BY <1>1 DEF AddsUp
<1>9. ListedOnce(L)
  BY <1>1 DEF ListedOnce, Listed
<1>10. HoldersIn(L)
  BY <1>1, <1>2 DEF HoldersIn
<1> QED  BY <1>4, <1>5, <1>6, <1>7, <1>8, <1>9, <1>10 DEF Good, LedgerInv, L

-----------------------------------------------------------------------------
(* Every call is a step of one of these kinds.                             *)

LedgerStep(L, M) ==
  \/ M = L \/ TransferStep(L, M) \/ IssueStep(L, M) \/ IssueTwice(L, M)
  \/ RedeemStep(L, M) \/ M = CreateCheckpoints(L, 1)
  \/ ListStep(L, M) \/ StoreStep(L, M)

LEMMA MoveSteps ==
  ASSUME MoveNext PROVE TransferStep(ledger, ledger')
<1>1. \E value \in Amount, due \in Due, from, to \in Account :
        /\ CanTransfer(from, to, value, due, TRUE)
        /\ ledger' = AfterTransfer(ledger, from, to, value, due)
  <2>1. PICK value \in Amount, due \in Due, from \in Account, to \in Account,
             spender \in Account :
          \/ Transfer(from, to, value, due)
          \/ TransferFrom(spender, from, to, value, due)
          \/ OperatorTransferByPartition(spender, from, to, value, due)
    BY DEF MoveNext
  <2>2. /\ CanTransfer(from, to, value, due, TRUE)
        /\ ledger' = AfterTransfer(ledger, from, to, value, due)
    BY <2>1 DEF Transfer, TransferFrom, OperatorTransferByPartition
  <2> QED  BY <2>2
<1>2. PICK value \in Amount, due \in Due, from \in Account, to \in Account :
        /\ CanTransfer(from, to, value, due, TRUE)
        /\ ledger' = AfterTransfer(ledger, from, to, value, due)
  BY <1>1
<1>3. CountCanAdjust(ledger, from, to, value) /\ CanMove(ledger, from, to, value)
  BY <1>2 DEF CanTransfer, CanUpdate
<1>4. from \in Address /\ to \in Address
  BY DEF Address
<1> QED  BY <1>2, <1>3, <1>4 DEF TransferStep

LEMMA IssueSteps ==
  ASSUME IssueNext
  PROVE  issuance /\ (IssueStep(ledger, ledger') \/ IssueTwice(ledger, ledger'))
<1>1. ASSUME NEW to \in Account, NEW value \in Amount, NEW due \in Due,
             Issue(to, value, due)
      PROVE  issuance /\ IssueStep(ledger, ledger')
  BY <1>1 DEF Issue, CanIssue, CanUpdate, IssueStep
<1>2. ASSUME NEW to \in Account, NEW value \in Amount, NEW due \in Due,
             NEW to2 \in Account, NEW value2 \in Amount, NEW due2 \in Due,
             IssueMulti(to, value, due, to2, value2, due2)
      PROVE  issuance /\ IssueTwice(ledger, ledger')
  <2> DEFINE first == AfterIssue(ledger, to, value, due)
  <2>1. /\ CanIssue(to, value, due)
        /\ CountCanAdjust(first, Zero, to2, value2) /\ CanMint(first, to2, value2)
        /\ ledger' = AfterIssue(first, to2, value2, due2)
    BY <1>2 DEF IssueMulti
  <2>2. issuance /\ IssueStep(ledger, first)
    BY <2>1 DEF CanIssue, CanUpdate, IssueStep
  <2> HIDE DEF first
  <2>3. IssueStep(first, ledger')
    BY <2>1 DEF IssueStep
  <2> QED  BY <2>2, <2>3 DEF IssueTwice
<1> QED  BY <1>1, <1>2 DEF IssueNext

LEMMA RedeemSteps ==
  ASSUME RedeemNext PROVE RedeemStep(ledger, ledger')
<1>1. BurnModule \subseteq Account
  BY ModuleAssumption
<1>2. PICK value \in Amount, due \in Due, from \in Account :
        /\ CanRedeem(from, value, due, TRUE)
        /\ ledger' = AfterRedeem(ledger, from, value, due)
  BY <1>1, ZenonT(60) DEF RedeemNext, Redeem, RedeemFrom, OperatorRedeemByPartition
<1>3. CountCanAdjust(ledger, from, Zero, value) /\ CanBurn(ledger, from, value)
  BY <1>2 DEF CanRedeem, CanUpdate
<1> QED  BY <1>2, <1>3 DEF RedeemStep

LEMMA ControllerSteps ==
  ASSUME ControllerNext
  PROVE  /\ OnlyController
         /\ TransferStep(ledger, ledger') \/ RedeemStep(ledger, ledger')
<1>1. ASSUME NEW value \in Amount, NEW due \in Due,
             NEW from \in Address, NEW to \in Address,
             ControllerTransfer(from, to, value, due)
      PROVE  OnlyController /\ TransferStep(ledger, ledger')
  <2>1. CountCanAdjust(ledger, from, to, value) /\ CanMove(ledger, from, to, value)
    BY <1>1 DEF ControllerTransfer, CanTransfer, CanUpdate
  <2> QED  BY <1>1, <2>1 DEF ControllerTransfer, TransferStep
<1>2. ASSUME NEW value \in Amount, NEW due \in Due, NEW from \in Account,
             ControllerRedeem(from, value, due)
      PROVE  OnlyController /\ RedeemStep(ledger, ledger')
  <2>1. CountCanAdjust(ledger, from, Zero, value) /\ CanBurn(ledger, from, value)
    BY <1>2 DEF ControllerRedeem, CanRedeem, CanUpdate
  <2> QED  BY <1>2, <2>1 DEF ControllerRedeem, RedeemStep
<1> QED  BY <1>1, <1>2 DEF ControllerNext

LEMMA ApprovalSteps ==
  ASSUME ApprovalNext
  PROVE  UNCHANGED <<ledger, transfersFrozen, issuance, control, granularity>>
BY DEF ApprovalNext, Approve, AuthorizeOperatorByPartition,
       RevokeOperatorByPartition, control

LEMMA IssuerSteps ==
  ASSUME IssuerNext
  PROVE  \/ ledger' = ledger \/ ledger' = CreateCheckpoints(ledger, 1)
         \/ ListStep(ledger, ledger') \/ StoreStep(ledger, ledger')
BY DEF IssuerNext, FreezeIssuance, CreateCheckpoint, FreezeTransfers,
       UnfreezeTransfers, SetController, DisableController, ChangeGranularity,
       ChangeDataStore, ModifyKYCData, ListStep, StoreStep

LEMMA Steps ==
  ASSUME [Next]_vars PROVE LedgerStep(ledger, ledger')
BY MoveSteps, IssueSteps, RedeemSteps, ControllerSteps, ApprovalSteps, IssuerSteps
   DEF Next, LedgerStep, vars

LEMMA StepGood ==
  ASSUME Good(ledger), [Next]_vars
  PROVE  Good(ledger') /\ HistoryKept(ledger, ledger')
<1>1. LedgerStep(ledger, ledger')
  BY Steps
<1>2. CASE ledger' = ledger
  <2>1. ledger.currentCheckpointId \in Nat
    BY LedgerFields DEF Good, LedgerInv, TypeInv
  <2> QED  BY <1>2, <2>1 DEF HistoryKept
<1>3. CASE TransferStep(ledger, ledger')
  BY <1>3, TransferGood
<1>4. CASE IssueStep(ledger, ledger')
  BY <1>4, IssueGood
<1>5. CASE IssueTwice(ledger, ledger')
  <2>1. PICK K : IssueStep(ledger, K) /\ IssueStep(K, ledger')
    BY <1>5 DEF IssueTwice
  <2>2. Good(K) /\ HistoryKept(ledger, K)
    BY <2>1, IssueGood
  <2>3. Good(ledger') /\ HistoryKept(K, ledger')
    BY <2>1, <2>2, IssueGood
  <2> QED  BY <2>2, <2>3, HistoryTransitive
<1>6. CASE RedeemStep(ledger, ledger')
  BY <1>6, RedeemGood
<1>7. CASE ledger' = CreateCheckpoints(ledger, 1)
  BY <1>7, CheckpointGood
<1>8. CASE ListStep(ledger, ledger')
  BY <1>8, ListGood
<1>9. CASE StoreStep(ledger, ledger')
  BY <1>9, StoreGood
<1> QED  BY <1>1, <1>2, <1>3, <1>4, <1>5, <1>6, <1>7, <1>8, <1>9 DEF LedgerStep

-----------------------------------------------------------------------------
(* The rights and the switches.                                            *)

RightsOK ==
  /\ allowances \in [Account -> [Account -> Amount]]
  /\ partitionApprovals \in [Account -> SUBSET Account]

SwitchesOK ==
  /\ transfersFrozen \in BOOLEAN
  /\ issuance \in BOOLEAN
  /\ controller \in Address
  /\ controllerDisabled \in BOOLEAN
  /\ granularity \in Nat \ {0}

LEMMA SpentIsAmount ==
  ASSUME RightsOK, NEW holder \in Account, NEW spender \in Account,
         NEW value \in Amount, value <= allowances[holder][spender]
  PROVE  [allowances EXCEPT ![holder][spender] = @ - value]
           \in [Account -> [Account -> Amount]]
<1>1. allowances[holder][spender] - value \in Amount
  BY UintMaxAssumption DEF RightsOK, Amount
<1> QED  BY <1>1 DEF RightsOK

LEMMA RightsStep ==
  ASSUME RightsOK, [Next]_vars PROVE RightsOK'
<1>1. ASSUME MoveNext PROVE RightsOK'
  <2>1. PICK value \in Amount, due \in Due, from \in Account, to \in Account,
             spender \in Account :
          \/ Transfer(from, to, value, due)
          \/ TransferFrom(spender, from, to, value, due)
          \/ OperatorTransferByPartition(spender, from, to, value, due)
    BY <1>1 DEF MoveNext
  <2>2. CASE TransferFrom(spender, from, to, value, due)
    BY <2>2, SpentIsAmount DEF TransferFrom, RightsOK
  <2>3. CASE \/ Transfer(from, to, value, due)
             \/ OperatorTransferByPartition(spender, from, to, value, due)
    BY <2>3 DEF Transfer, OperatorTransferByPartition, rights, RightsOK
  <2> QED  BY <2>1, <2>2, <2>3
<1>2. ASSUME IssueNext PROVE RightsOK'
  BY <1>2 DEF IssueNext, Issue, IssueMulti, rights, RightsOK
<1>3. ASSUME RedeemNext PROVE RightsOK'
  <2>1. ASSUME NEW value \in Amount, NEW due \in Due, NEW from \in Account,
               NEW module \in BurnModule, RedeemFrom(module, from, value, due)
        PROVE  RightsOK'
    <3>1. module \in Account
      BY ModuleAssumption
    <3> QED  BY <2>1, <3>1, SpentIsAmount DEF RedeemFrom, RightsOK
  <2>2. ASSUME NEW value \in Amount, NEW due \in Due, NEW from \in Account,
               Redeem(from, value, due)
        PROVE  RightsOK'
    BY <2>2 DEF Redeem, rights, RightsOK
  <2>3. ASSUME NEW value \in Amount, NEW due \in Due, NEW from \in Account,
               NEW module \in BurnModule,
               OperatorRedeemByPartition(module, from, value, due)
        PROVE  RightsOK'
    BY <2>3 DEF OperatorRedeemByPartition, rights, RightsOK
  <2> QED  BY <1>3, <2>1, <2>2, <2>3 DEF RedeemNext
<1>4. ASSUME ControllerNext PROVE RightsOK'
  BY <1>4 DEF ControllerNext, ControllerTransfer, ControllerRedeem, rights, RightsOK
<1>5. ASSUME ApprovalNext PROVE RightsOK'
  <2>1. PICK holder \in Account, other \in Account, value \in Amount :
          \/ Approve(holder, other, value)
          \/ AuthorizeOperatorByPartition(holder, other)
          \/ RevokeOperatorByPartition(holder, other)
    <3>1. 0 \in Amount
      BY UintMaxAssumption DEF Amount
    <3> QED  BY <1>5, <3>1 DEF ApprovalNext
  <2>2. CASE Approve(holder, other, value)
    BY <2>2 DEF Approve, RightsOK
  <2>3. CASE AuthorizeOperatorByPartition(holder, other)
    BY <2>3 DEF AuthorizeOperatorByPartition, RightsOK
  <2>4. CASE RevokeOperatorByPartition(holder, other)
    BY <2>4 DEF RevokeOperatorByPartition, RightsOK
  <2> QED  BY <2>1, <2>2, <2>3, <2>4
<1>6. ASSUME IssuerNext PROVE RightsOK'
  BY <1>6 DEF IssuerNext, FreezeIssuance, CreateCheckpoint, FreezeTransfers,
              UnfreezeTransfers, SetController, DisableController,
              ChangeGranularity, ChangeDataStore, ModifyKYCData, rights, RightsOK
<1>7. CASE UNCHANGED vars
  BY <1>7 DEF vars, rights, RightsOK
<1> QED  BY <1>1, <1>2, <1>3, <1>4, <1>5, <1>6, <1>7 DEF Next

\* Tokens move, and holders give rights, without touching a switch.
LEMMA SwitchesKept ==
  ASSUME MoveNext \/ IssueNext \/ RedeemNext \/ ControllerNext \/ ApprovalNext
  PROVE  UNCHANGED <<transfersFrozen, issuance, controller, controllerDisabled,
                     granularity>>
<1>1. ASSUME MoveNext
      PROVE  UNCHANGED <<transfersFrozen, issuance, control, granularity>>
  <2>1. PICK value \in Amount, due \in Due, from \in Account, to \in Account,
             spender \in Account :
          \/ Transfer(from, to, value, due)
          \/ TransferFrom(spender, from, to, value, due)
          \/ OperatorTransferByPartition(spender, from, to, value, due)
    BY <1>1 DEF MoveNext
  <2> QED  BY <2>1 DEF Transfer, TransferFrom, OperatorTransferByPartition
<1>2. ASSUME IssueNext
      PROVE  UNCHANGED <<transfersFrozen, issuance, control, granularity>>
  BY <1>2 DEF IssueNext, Issue, IssueMulti
<1>3. ASSUME RedeemNext
      PROVE  UNCHANGED <<transfersFrozen, issuance, control, granularity>>
  BY <1>3, ZenonT(60) DEF RedeemNext, Redeem, RedeemFrom, OperatorRedeemByPartition
<1>4. ASSUME ControllerNext
      PROVE  UNCHANGED <<transfersFrozen, issuance, control, granularity>>
  BY <1>4 DEF ControllerNext, ControllerTransfer, ControllerRedeem
<1> QED  BY <1>1, <1>2, <1>3, <1>4, ApprovalSteps DEF control

\* What a step does to the switches.
LEMMA SwitchesStep ==
  ASSUME SwitchesOK, controllerDisabled => controller = Zero, [Next]_vars
  PROVE  /\ SwitchesOK'
         /\ controllerDisabled => controllerDisabled'
         /\ controllerDisabled' => controller' = Zero
         /\ ~issuance => ~issuance'
<1>1. ASSUME IssuerNext
      PROVE  /\ SwitchesOK'
             /\ controllerDisabled => controllerDisabled'
             /\ controllerDisabled' => controller' = Zero
             /\ ~issuance => ~issuance'
  <2> USE DEF SwitchesOK, control
  <2>1. CASE FreezeIssuance
    BY <2>1 DEF FreezeIssuance
  <2>2. CASE CreateCheckpoint
    BY <2>2 DEF CreateCheckpoint
  <2>3. CASE FreezeTransfers \/ UnfreezeTransfers
    <3>1. transfersFrozen' \in BOOLEAN
      BY <2>3 DEF FreezeTransfers, UnfreezeTransfers
    <3>2. UNCHANGED <<issuance, controller, controllerDisabled, granularity>>
      BY <2>3 DEF FreezeTransfers, UnfreezeTransfers
    <3> QED  BY <3>1, <3>2
  <2>4. ASSUME NEW c \in Controller \cup {Zero}, SetController(c)
        PROVE  /\ SwitchesOK' /\ ~controllerDisabled /\ ~controllerDisabled'
               /\ issuance' = issuance
    BY <2>4, ModuleAssumption DEF SetController, IsControllable, Address
  <2>5. CASE DisableController
    BY <2>5 DEF DisableController, IsControllable, Address
  <2>6. ASSUME NEW g \in Granularity \cup {0}, ChangeGranularity(g)
        PROVE  /\ SwitchesOK'
               /\ controllerDisabled' = controllerDisabled
               /\ controller' = controller /\ issuance' = issuance
    BY <2>6, GranularityAssumption DEF ChangeGranularity
  <2>7. ASSUME NEW store \in Store, ChangeDataStore(store)
        PROVE  /\ SwitchesOK'
               /\ controllerDisabled' = controllerDisabled
               /\ controller' = controller /\ issuance' = issuance
    BY <2>7 DEF ChangeDataStore
  <2>8. ASSUME NEW investor \in Account, ModifyKYCData(investor)
        PROVE  /\ SwitchesOK'
               /\ controllerDisabled' = controllerDisabled
               /\ controller' = controller /\ issuance' = issuance
    BY <2>8 DEF ModifyKYCData
  <2> HIDE DEF SwitchesOK, control
  <2> QED  BY <1>1, <2>1, <2>2, <2>3, <2>4, <2>5, <2>6, <2>7, <2>8 DEF IssuerNext
<1>2. CASE MoveNext \/ IssueNext \/ RedeemNext \/ ControllerNext \/ ApprovalNext
  BY <1>2, SwitchesKept DEF SwitchesOK
<1>3. CASE UNCHANGED vars
  BY <1>3 DEF vars, control, SwitchesOK
<1> QED  BY <1>1, <1>2, <1>3 DEF Next

-----------------------------------------------------------------------------
(* The inductive invariant, and the theorems.                              *)

\* The ledger's parts agree with each other, and a disabled controller is gone.
IInv ==
  /\ Good(ledger)
  /\ RightsOK
  /\ SwitchesOK
  /\ controllerDisabled => controller = Zero

LEMMA InitIInv == Init => IInv
<1> SUFFICES ASSUME Init PROVE IInv
  OBVIOUS
<1>1. Good(ledger)
  BY EmptyGood, StoreAssumption DEF Init
<1>2. RightsOK
  BY UintMaxAssumption DEF Init, RightsOK, Amount
<1>3. SwitchesOK
  BY GranularityAssumption DEF Init, SwitchesOK, Address
<1> QED  BY <1>1, <1>2, <1>3 DEF Init, IInv

LEMMA NextIInv == IInv /\ [Next]_vars => IInv'
<1> SUFFICES ASSUME IInv, [Next]_vars PROVE IInv'
  OBVIOUS
<1>1. Good(ledger)'
  BY StepGood DEF IInv
<1>2. RightsOK'
  BY RightsStep DEF IInv
<1>3. SwitchesOK' /\ (controllerDisabled' => controller' = Zero)
  BY SwitchesStep DEF IInv
<1> QED  BY <1>1, <1>2, <1>3 DEF IInv

\* The inductive invariant holds in every reachable state.
THEOREM Invariance == Spec => []IInv
BY InitIInv, NextIInv, PTL DEF Spec

\* Every variable keeps its type, and the array of total supplies has one
\* entry for each checkpoint: createCheckpoint never leaves one without.
THEOREM TypeCorrect == Spec => []TypeOK
<1>1. IInv => TypeOK
  BY DEF IInv, Good, LedgerInv, TypeInv, RightsOK, SwitchesOK, TypeOK
<1> QED  BY <1>1, Invariance, PTL

\* adjustInvestorCount keeps holderCount equal to the number of accounts with
\* a balance, over all calls that move, mint, burn or force tokens.
THEOREM HolderCountIsExact == Spec => []HolderCountExact
<1>1. IInv => HolderCountExact
  BY DEF IInv, Good, LedgerInv, Counted, HolderCountExact
<1> QED  BY <1>1, Invariance, PTL

\* The total supply is the sum of the balances, and address zero holds none.
THEOREM SupplyIsAlwaysBacked == Spec => []SupplyIsBacked
<1>1. IInv => SupplyIsBacked
  BY DEF IInv, Good, LedgerInv, Backed, SupplyIsBacked
<1> QED  BY <1>1, Invariance, PTL

\* The precondition of the search in getValueAt holds for every account,
\* whatever checkpoints transfer managers take during transfers.
THEOREM CheckpointsStayInOrder == Spec => []CheckpointsInOrder
<1>1. IInv => CheckpointsInOrder
  BY DEF IInv, Good, LedgerInv, Ordered, CheckpointsInOrder
<1> QED  BY <1>1, Invariance, PTL

\* The balances of each checkpoint add up to the total supply recorded for it.
THEOREM SnapshotsAlwaysAddUp == Spec => []SnapshotsAddUp
<1>1. IInv => SnapshotsAddUp
  BY DEF IInv, Good, AddsUp, SnapshotsAddUp
<1> QED  BY <1>1, Invariance, PTL

\* The token and the general transfer manager never enter an investor twice.
THEOREM InvestorsAreListedOnce == Spec => []InvestorsListedOnce
<1>1. IInv => InvestorsListedOnce
  BY DEF IInv, Good, ListedOnce, InvestorsListedOnce
<1> QED  BY <1>1, Invariance, PTL

\* Nobody who holds tokens, or held some at a checkpoint, is missing from all
\* the data stores.
THEOREM HoldersAreListed == Spec => []HoldersListed
<1>1. IInv => HoldersListed
  BY DEF IInv, Good, HoldersIn, HoldersListed
<1> QED  BY <1>1, Invariance, PTL

\* No call changes what balanceOfAt and totalSupplyAt say of a checkpoint.
THEOREM HistoryIsImmutable == Spec => HistoryImmutable
<1>1. IInv /\ [Next]_vars =>
        [\A id \in 1..ledger.currentCheckpointId :
           /\ TotalSupplyAt(ledger', id) = TotalSupplyAt(ledger, id)
           /\ \A a \in Account :
                BalanceOfAt(ledger', a, id) = BalanceOfAt(ledger, a, id)]_vars
  BY StepGood DEF IInv, HistoryKept
<1> QED  BY <1>1, Invariance, PTL DEF Spec, HistoryImmutable

\* Only issuing, by an issuer still allowed to, raises the total supply.
LEMMA SupplyGrowsByIssue ==
  ASSUME Good(ledger), [Next]_vars, ~issuance
  PROVE  ledger'.totalSupply <= ledger.totalSupply
<1>0. ledger.totalSupply \in Nat
  BY LedgerFields, UintMaxAssumption DEF Good, LedgerInv, TypeInv, Amount
<1>1. CASE ledger' = ledger
  BY <1>0, <1>1
<1>2. CASE TransferStep(ledger, ledger')
  BY <1>0, <1>2, TransferGood
<1>3. CASE RedeemStep(ledger, ledger')
  BY <1>3, RedeemGood
<1>4. CASE ledger' = CreateCheckpoints(ledger, 1)
  BY <1>0, <1>4, CheckpointGood
<1>5. CASE ListStep(ledger, ledger') \/ StoreStep(ledger, ledger')
  BY <1>0, <1>5, ListGood, StoreGood DEF SameBooks
<1> QED  BY <1>1, <1>2, <1>3, <1>4, <1>5, MoveSteps, IssueSteps, RedeemSteps,
            ControllerSteps, ApprovalSteps, IssuerSteps DEF Next, vars

\* Once issuance is frozen it stays so, and the total supply never rises.
THEOREM IssuanceStaysClosed == Spec => IssuanceClosedForGood
<1>1. IInv /\ [Next]_vars =>
        [~issuance => ~issuance' /\ ledger'.totalSupply <= ledger.totalSupply]_vars
  BY SwitchesStep, SupplyGrowsByIssue DEF IInv
<1> QED  BY <1>1, Invariance, PTL DEF Spec, IssuanceClosedForGood

\* Once the controller is disabled there is none, and it is never enabled.
THEOREM ControllerStaysGone == Spec => ControllerGoneForGood
<1>1. IInv /\ [Next]_vars =>
        [controllerDisabled => controllerDisabled' /\ controller' = Zero]_vars
  BY SwitchesStep DEF IInv
<1> QED  BY <1>1, Invariance, PTL DEF Spec, ControllerGoneForGood

\* With transfers frozen only the controller gets past _executeTransfer.
LEMMA FrozenStops ==
  ASSUME transfersFrozen PROVE ~MoveNext /\ ~IssueNext /\ ~RedeemNext
<1>1. ~ExecuteTransfer(TRUE)
  BY DEF ExecuteTransfer
<1>2. ~MoveNext
  <2>1. \A from, to, value, due : ~CanTransfer(from, to, value, due, TRUE)
    BY <1>1 DEF CanTransfer
  <2>2. \A spender, from, to, value, due :
          /\ ~Transfer(from, to, value, due)
          /\ ~TransferFrom(spender, from, to, value, due)
          /\ ~OperatorTransferByPartition(spender, from, to, value, due)
    <3> SUFFICES ASSUME NEW spender, NEW from, NEW to, NEW value, NEW due
                 PROVE  /\ ~Transfer(from, to, value, due)
                        /\ ~TransferFrom(spender, from, to, value, due)
                        /\ ~OperatorTransferByPartition(spender, from, to, value, due)
      OBVIOUS
    <3> QED  BY <2>1, Zenon DEF Transfer, TransferFrom, OperatorTransferByPartition
  <2> QED  BY <2>2 DEF MoveNext
<1>3. ~IssueNext
  <2>1. \A to, value, due : ~CanIssue(to, value, due)
    BY <1>1 DEF CanIssue
  <2>2. \A to, value, due, to2, value2, due2 :
          ~Issue(to, value, due) /\ ~IssueMulti(to, value, due, to2, value2, due2)
    <3> SUFFICES ASSUME NEW to, NEW value, NEW due, NEW to2, NEW value2, NEW due2
                 PROVE  /\ ~Issue(to, value, due)
                        /\ ~IssueMulti(to, value, due, to2, value2, due2)
      OBVIOUS
    <3> QED  BY <2>1, Zenon DEF Issue, IssueMulti
  <2> QED  BY <2>2 DEF IssueNext
<1>4. ~RedeemNext
  BY <1>1, ZenonT(60) DEF RedeemNext, Redeem, RedeemFrom, OperatorRedeemByPartition,
              CanRedeem
<1> QED  BY <1>2, <1>3, <1>4

\* With transfers frozen and the controller disabled every balance stands still.
THEOREM FreezeHaltsAll == Spec => HaltedForAll
<1>1. ASSUME IInv, [Next]_vars, transfersFrozen, controllerDisabled
      PROVE  ledger'.balances = ledger.balances
  <2>1. ~ControllerNext
    BY <1>1, ControllerSteps DEF OnlyController, IsControllable
  <2>2. CASE IssuerNext
    <3>1. Good(ledger)
      BY <1>1 DEF IInv
    <3>2. CASE ledger' = CreateCheckpoints(ledger, 1)
      BY <3>1, <3>2, CheckpointKeepsInv DEF Good, SameTokens
    <3>3. CASE ListStep(ledger, ledger') \/ StoreStep(ledger, ledger')
      BY <3>1, <3>3, ListGood, StoreGood DEF SameBooks
    <3> QED  BY <2>2, <3>2, <3>3, IssuerSteps
  <2>3. CASE ApprovalNext \/ UNCHANGED vars
    BY <2>3, ApprovalSteps DEF vars
  <2> QED  BY <1>1, <2>1, <2>2, <2>3, FrozenStops DEF Next
<1>2. IInv /\ [Next]_vars =>
        [transfersFrozen /\ controllerDisabled
           => ledger'.balances = ledger.balances]_vars
  BY <1>1
<1> QED  BY <1>2, Invariance, PTL DEF Spec, HaltedForAll

-----------------------------------------------------------------------------
(* Who can take tokens from whom: the steps of SecurityTokenCalls.         *)

\* Nobody loses tokens from L to M.
NoLoss(L, M) == \A a \in Account : M.balances[a] >= L.balances[a]

\* Only from loses tokens from L to M: value of them.
LossOnlyOf(L, M, from, value) ==
  \A a \in Account :
    L.balances[a] - M.balances[a] > 0 =>
      a = from /\ L.balances[a] - M.balances[a] = value

LEMMA ShiftedLoss ==
  ASSUME NEW L, LedgerInv(L), NEW M, LedgerInv(M),
         NEW from \in Address, NEW to \in Address, NEW value \in Amount,
         Shifted(L.balances, M.balances, from, to, value)
  PROVE  LossOnlyOf(L, M, from, value)
<1> SUFFICES ASSUME NEW a \in Account, L.balances[a] - M.balances[a] > 0
             PROVE  a = from /\ L.balances[a] - M.balances[a] = value
  BY DEF LossOnlyOf
<1> DEFINE b == L.balances
           c == M.balances
<1>1. b[a] \in Nat /\ c[a] \in Nat /\ value \in Nat
  BY LedgerFields, UintMaxAssumption DEF LedgerInv, TypeInv, Amount, Address
<1>2. c[a] = IF from = to THEN b[a]
             ELSE IF a = from THEN b[a] - value
             ELSE IF a = to THEN b[a] + value
             ELSE b[a]
  BY DEF Shifted
<1> HIDE DEF b, c
<1>3. b[a] - c[a] > 0
  BY DEF b, c
<1>4. a = from /\ b[a] - c[a] = value
  BY <1>1, <1>2, <1>3
<1> QED  BY <1>4 DEF b, c

LEMMA TransferLoss ==
  ASSUME Good(ledger), NEW from \in Address, NEW to \in Address,
         NEW value \in Amount, NEW due \in Due, NEW known,
         CanTransfer(from, to, value, due, known),
         ledger' = AfterTransfer(ledger, from, to, value, due)
  PROVE  LossOnlyOf(ledger, ledger', from, value)
<1>1. CountCanAdjust(ledger, from, to, value) /\ CanMove(ledger, from, to, value)
  BY DEF CanTransfer, CanUpdate
<1>2. /\ LedgerInv(ledger) /\ LedgerInv(ledger')
      /\ Shifted(ledger.balances, ledger'.balances, from, to, value)
  BY <1>1, TransferKeepsInv, DueIsNat DEF Good
<1> QED  BY <1>2, ShiftedLoss

LEMMA RedeemLoss ==
  ASSUME Good(ledger), NEW from \in Account,
         NEW value \in Amount, NEW due \in Due, NEW known,
         CanRedeem(from, value, due, known),
         ledger' = AfterRedeem(ledger, from, value, due)
  PROVE  LossOnlyOf(ledger, ledger', from, value)
<1>1. CountCanAdjust(ledger, from, Zero, value) /\ CanBurn(ledger, from, value)
  BY DEF CanRedeem, CanUpdate
<1>2. from \in Address /\ Zero \in Address
  BY DEF Address
<1>3. /\ LedgerInv(ledger) /\ LedgerInv(ledger')
      /\ Shifted(ledger.balances, ledger'.balances, from, Zero, value)
  BY <1>1, <1>2, RedeemKeepsInv, DueIsNat DEF Good
<1> QED  BY <1>2, <1>3, ShiftedLoss

LEMMA IssueNoLoss ==
  ASSUME NEW L, Good(L), NEW M, IssueStep(L, M)
  PROVE  NoLoss(L, M)
<1>1. PICK to \in Account, value \in Amount, due \in Due :
        /\ CountCanAdjust(L, Zero, to, value) /\ CanMint(L, to, value)
        /\ M = AfterIssue(L, to, value, due)
  BY DEF IssueStep
<1>2. to \in Address /\ Zero \notin Account
  BY AccountAssumption DEF Address
<1>3. LedgerInv(M) /\ Shifted(L.balances, M.balances, Zero, to, value)
  BY <1>1, <1>2, IssueKeepsInv, DueIsNat DEF Good
<1> SUFFICES ASSUME NEW a \in Account PROVE M.balances[a] >= L.balances[a]
  BY DEF NoLoss
<1>4. M.balances[a] = IF a = to THEN L.balances[a] + value ELSE L.balances[a]
  BY <1>2, <1>3 DEF Shifted
<1>5. L.balances[a] \in Nat /\ value \in Nat
  BY LedgerFields, UintMaxAssumption DEF Good, LedgerInv, TypeInv, Amount, Address
<1> QED  BY <1>4, <1>5

LEMMA BalancesNat ==
  ASSUME NEW L, Good(L) PROVE \A a \in Account : L.balances[a] \in Nat
BY LedgerFields, UintMaxAssumption DEF Good, LedgerInv, TypeInv, Amount, Address

\* Issuing and the issuer's own calls take nothing from anybody.
LEMMA OthersNoLoss ==
  ASSUME Good(ledger), IssueNext \/ IssuerNext \/ ledger' = ledger
  PROVE  NoLoss(ledger, ledger')
<1>1. \A a \in Account : ledger.balances[a] \in Nat
  BY BalancesNat
<1>2. CASE ledger'.balances = ledger.balances
  BY <1>1, <1>2 DEF NoLoss
<1>3. CASE IssueStep(ledger, ledger')
  BY <1>3, IssueNoLoss
<1>4. CASE IssueTwice(ledger, ledger')
  <2>1. PICK K : IssueStep(ledger, K) /\ IssueStep(K, ledger')
    BY <1>4 DEF IssueTwice
  <2>2. Good(K) /\ Good(ledger')
    BY <2>1, IssueGood
  <2>3. \A a \in Account : K.balances[a] \in Nat /\ ledger'.balances[a] \in Nat
    BY <2>2, BalancesNat
  <2>4. NoLoss(ledger, K) /\ NoLoss(K, ledger')
    BY <2>1, <2>2, IssueNoLoss
  <2> SUFFICES ASSUME NEW a \in Account
               PROVE  ledger'.balances[a] >= ledger.balances[a]
    BY DEF NoLoss
  <2>5. K.balances[a] >= ledger.balances[a] /\ ledger'.balances[a] >= K.balances[a]
    BY <2>4 DEF NoLoss
  <2> QED  BY <1>1, <2>3, <2>5
<1>5. CASE IssuerNext
  <2>1. CASE ledger' = CreateCheckpoints(ledger, 1)
    <3>1. ledger'.balances = ledger.balances
      BY <2>1, CheckpointKeepsInv DEF Good, SameTokens
    <3> QED  BY <1>2, <3>1
  <2>2. CASE ListStep(ledger, ledger') \/ StoreStep(ledger, ledger')
    BY <1>2, <2>2, ListGood, StoreGood DEF SameBooks
  <2> QED  BY <1>2, <1>5, <2>1, <2>2, IssuerSteps
<1> QED  BY <1>2, <1>3, <1>4, <1>5, IssueSteps

\* The ways in which a call can have taken Loss(a) tokens from a.
LossExplained(a) ==
  \/ caller' = a
  \/ caller' \in Account /\ caller' \in partitionApprovals[a]
  \/ /\ caller' \in Account
     /\ Loss(a) <= allowances[a][caller']
     /\ \/ allowances[a][caller'] = UintMax
        \/ allowances'[a][caller'] = allowances[a][caller'] - Loss(a)
  \/ caller' = controller /\ ~controllerDisabled

\* A call that spends an allowance.
LEMMA SpendExplained ==
  ASSUME RightsOK, NEW a \in Account, NEW who \in Account, caller' = who,
         NEW from \in Account, NEW value \in Amount,
         value <= allowances[from][who],
         allowances' = [allowances EXCEPT ![from][who] = @ - value],
         LossOnlyOf(ledger, ledger', from, value), Loss(a) > 0
  PROVE  LossExplained(a)
<1>1. a = from /\ Loss(a) = value
  BY DEF LossOnlyOf, Loss
<1>2. allowances'[from][who] = allowances[from][who] - value
  BY DEF RightsOK
<1> QED  BY <1>1, <1>2 DEF LossExplained

\* A call of an operator of the holder.
LEMMA OperatorExplained ==
  ASSUME NEW a \in Account, NEW who \in Account, caller' = who,
         NEW from \in Account, NEW value \in Amount, IsOperator(from, who),
         LossOnlyOf(ledger, ledger', from, value), Loss(a) > 0
  PROVE  LossExplained(a)
<1>1. a = from /\ Loss(a) = value
  BY DEF LossOnlyOf, Loss
<1>2. value <= UintMax
  BY UintMaxAssumption DEF Amount
<1> QED  BY <1>1, <1>2 DEF LossExplained, IsOperator

LEMMA HolderExplained ==
  ASSUME IInv, NEW a \in Account, NEW who \in Account, caller' = who,
         HolderCall(who), Loss(a) > 0
  PROVE  LossExplained(a)
<1>0. Good(ledger) /\ who \in Address
  BY DEF IInv, Address
<1>1. PICK value \in Amount, due \in Due, other \in Account :
        \/ Transfer(who, other, value, due)
        \/ Redeem(who, value, due)
        \/ Approve(who, other, value)
        \/ AuthorizeOperatorByPartition(who, other)
        \/ RevokeOperatorByPartition(who, other)
  BY DEF HolderCall
<1>2. CASE Transfer(who, other, value, due)
  <2>1. /\ CanTransfer(who, other, value, due, TRUE)
        /\ ledger' = AfterTransfer(ledger, who, other, value, due)
    BY <1>2 DEF Transfer
  <2>2. other \in Address
    BY DEF Address
  <2>3. LossOnlyOf(ledger, ledger', who, value)
    BY <1>0, <2>1, <2>2, TransferLoss
  <2> QED  BY <2>3 DEF LossOnlyOf, Loss, LossExplained
<1>3. CASE Redeem(who, value, due)
  <2>1. /\ CanRedeem(who, value, due, TRUE)
        /\ ledger' = AfterRedeem(ledger, who, value, due)
    BY <1>3 DEF Redeem
  <2>2. LossOnlyOf(ledger, ledger', who, value)
    BY <1>0, <2>1, RedeemLoss
  <2> QED  BY <2>2 DEF LossOnlyOf, Loss, LossExplained
<1>4. CASE \/ Approve(who, other, value)
           \/ AuthorizeOperatorByPartition(who, other)
           \/ RevokeOperatorByPartition(who, other)
  <2>1. ledger' = ledger
    BY <1>4 DEF Approve, AuthorizeOperatorByPartition, RevokeOperatorByPartition
  <2>2. ledger.balances[a] \in Nat
    BY <1>0, BalancesNat
  <2>3. ~(Loss(a) > 0)
    BY <2>1, <2>2 DEF Loss
  <2> QED  BY <2>3
<1> QED  BY <1>1, <1>2, <1>3, <1>4

LEMMA DelegateExplained ==
  ASSUME IInv, NEW a \in Account, NEW who \in Account, caller' = who,
         DelegateCall(who), Loss(a) > 0
  PROVE  LossExplained(a)
<1>0. Good(ledger) /\ RightsOK
  BY DEF IInv
<1>1. PICK from \in Account, value \in Amount, due \in Due :
        \/ RedeemFrom(who, from, value, due)
        \/ OperatorRedeemByPartition(who, from, value, due)
        \/ \E to \in Account :
             \/ TransferFrom(who, from, to, value, due)
             \/ OperatorTransferByPartition(who, from, to, value, due)
  BY DEF DelegateCall
<1>2. CASE RedeemFrom(who, from, value, due)
  <2>1. /\ value <= allowances[from][who]
        /\ CanRedeem(from, value, due, TRUE)
        /\ ledger' = AfterRedeem(ledger, from, value, due)
        /\ allowances' = [allowances EXCEPT ![from][who] = @ - value]
    BY <1>2 DEF RedeemFrom
  <2>2. LossOnlyOf(ledger, ledger', from, value)
    BY <1>0, <2>1, RedeemLoss
  <2> QED  BY <1>0, <2>1, <2>2, SpendExplained
<1>3. CASE OperatorRedeemByPartition(who, from, value, due)
  <2>1. /\ IsOperator(from, who)
        /\ CanRedeem(from, value, due, TRUE)
        /\ ledger' = AfterRedeem(ledger, from, value, due)
    BY <1>3 DEF OperatorRedeemByPartition
  <2>2. LossOnlyOf(ledger, ledger', from, value)
    BY <1>0, <2>1, RedeemLoss
  <2> QED  BY <2>1, <2>2, OperatorExplained
<1>4. ASSUME NEW to \in Account, TransferFrom(who, from, to, value, due)
      PROVE  LossExplained(a)
  <2>1. /\ value <= allowances[from][who]
        /\ CanTransfer(from, to, value, due, TRUE)
        /\ ledger' = AfterTransfer(ledger, from, to, value, due)
        /\ allowances' = [allowances EXCEPT ![from][who] = @ - value]
    BY <1>4 DEF TransferFrom
  <2>2. from \in Address /\ to \in Address
    BY DEF Address
  <2>3. LossOnlyOf(ledger, ledger', from, value)
    BY <1>0, <2>1, <2>2, TransferLoss
  <2> QED  BY <1>0, <2>1, <2>3, SpendExplained
<1>5. ASSUME NEW to \in Account,
             OperatorTransferByPartition(who, from, to, value, due)
      PROVE  LossExplained(a)
  <2>1. /\ IsOperator(from, who)
        /\ CanTransfer(from, to, value, due, TRUE)
        /\ ledger' = AfterTransfer(ledger, from, to, value, due)
    BY <1>5 DEF OperatorTransferByPartition
  <2>2. from \in Address /\ to \in Address
    BY DEF Address
  <2>3. LossOnlyOf(ledger, ledger', from, value)
    BY <1>0, <2>1, <2>2, TransferLoss
  <2> QED  BY <2>1, <2>3, OperatorExplained
<1> QED  BY <1>1, <1>2, <1>3, <1>4, <1>5

LEMMA CallsAreSteps == ASSUME [NextC]_<<vars, caller>> PROVE [Next]_vars
<1>1. ASSUME NEW who \in Account, HolderCall(who)
      PROVE  MoveNext \/ RedeemNext \/ ApprovalNext
  BY <1>1 DEF HolderCall, MoveNext, RedeemNext, ApprovalNext
<1>2. ASSUME NEW who \in Account, DelegateCall(who)
      PROVE  MoveNext \/ RedeemNext
  <2>1. PICK from \in Account, value \in Amount, due \in Due :
          \/ RedeemFrom(who, from, value, due)
          \/ OperatorRedeemByPartition(who, from, value, due)
          \/ \E to \in Account :
               \/ TransferFrom(who, from, to, value, due)
               \/ OperatorTransferByPartition(who, from, to, value, due)
    BY <1>2 DEF DelegateCall
  <2>2. CASE RedeemFrom(who, from, value, due)
    <3>1. who \in BurnModule
      BY <2>2 DEF RedeemFrom
    <3> QED  BY <2>2, <3>1 DEF RedeemNext
  <2>3. CASE OperatorRedeemByPartition(who, from, value, due)
    <3>1. who \in BurnModule
      BY <2>3 DEF OperatorRedeemByPartition
    <3> QED  BY <2>3, <3>1 DEF RedeemNext
  <2>4. CASE \E to \in Account :
               \/ TransferFrom(who, from, to, value, due)
               \/ OperatorTransferByPartition(who, from, to, value, due)
    BY <2>4 DEF MoveNext
  <2> QED  BY <2>1, <2>2, <2>3, <2>4
<1>3. ASSUME NextC PROVE Next
  BY <1>3, <1>1, <1>2 DEF NextC, Next
<1> QED  BY <1>3

\* No call takes tokens in any other way.
LEMMA CallsExplained ==
  ASSUME IInv, [NextC]_<<vars, caller>>, NEW a \in Account, Loss(a) > 0
  PROVE  LossExplained(a)
<1>0. Good(ledger) /\ Good(ledger')
  BY CallsAreSteps, StepGood DEF IInv
<1>1. ledger.balances[a] \in Nat /\ ledger'.balances[a] \in Nat
  BY <1>0, BalancesNat
<1>2. ASSUME NEW who \in Account, CallBy(who), HolderCall(who) \/ DelegateCall(who)
      PROVE  LossExplained(a)
  BY <1>2, HolderExplained, DelegateExplained DEF CallBy
<1>3. ASSUME ControllerNext, CallBy(controller) PROVE LossExplained(a)
  BY <1>3, ControllerSteps DEF OnlyController, IsControllable, CallBy, LossExplained
<1>4. ~(IssueNext \/ IssuerNext \/ ledger' = ledger)
  BY <1>0, <1>1, OthersNoLoss DEF NoLoss, Loss
<1> QED  BY <1>2, <1>3, <1>4 DEF NextC, vars

LEMMA InvarianceC == SpecC => []IInv
<1>1. InitC => IInv
  BY InitIInv DEF InitC
<1>2. IInv /\ [NextC]_<<vars, caller>> => IInv'
  BY CallsAreSteps, NextIInv
<1> QED  BY <1>1, <1>2, PTL DEF SpecC

\* A balance falls only by a call of its holder, of a spender within its
\* allowance, of an operator it authorised or of a controller not disabled.
THEOREM BalancesFallByConsent == SpecC => OnlyByConsent
<1>1. IInv /\ [NextC]_<<vars, caller>> =>
        [\A a \in Account : Loss(a) > 0 =>
           \/ caller' = a
           \/ /\ caller' \in Account
              /\ \/ Loss(a) <= allowances[a][caller']
                 \/ caller' \in partitionApprovals[a]
           \/ caller' = controller /\ ~controllerDisabled]_<<vars, caller>>
  BY CallsExplained DEF LossExplained
<1> QED  BY <1>1, InvarianceC, PTL DEF SpecC, OnlyByConsent

\* What an ordinary spender takes comes off its allowance.
THEOREM AllowancesAreSpent == SpecC => AllowanceIsSpent
<1>1. IInv /\ [NextC]_<<vars, caller>> =>
        [\A a \in Account :
           (/\ Loss(a) > 0
            /\ caller' \in Account \ {a, controller}
            /\ caller' \notin partitionApprovals[a]
            /\ allowances[a][caller'] # UintMax)
           => allowances'[a][caller'] = allowances[a][caller'] - Loss(a)]_<<vars, caller>>
  BY CallsExplained DEF LossExplained
<1> QED  BY <1>1, InvarianceC, PTL DEF SpecC, AllowanceIsSpent

-----------------------------------------------------------------------------
(* The refinement of SnapshotLedger: the getters, computed from balances   *)
(* written down lazily, answer as if every checkpoint had copied them all. *)

\* The history that the getters show for a ledger.
PastOf(L) ==
  [id \in 1..L.currentCheckpointId |->
     [balances |-> BalancesAt(L, id), supply |-> TotalSupplyAt(L, id)]]

BalancesOf(L) == [a \in Account |-> L.balances[a]]

BookOf(L) ==
  [balances |-> BalancesOf(L), supply |-> L.totalSupply, history |-> PastOf(L)]

LEMMA BookIsBookOf == Book = BookOf(ledger) /\ Book' = BookOf(ledger')
BY DEF Book, BookOf, BalancesOf, PastOf, BalancesAt, BalanceOfAt, TotalSupplyAt

\* A sequence that ends with k copies of c.
LEMMA CopiesAtTheEnd ==
  ASSUME NEW S, NEW n \in Nat, NEW k \in Nat, NEW f \in [1..(n + k) -> S],
         NEW c \in S, \A i \in (n + 1)..(n + k) : f[i] = c
  PROVE  f = [i \in 1..n |-> f[i]] \o [i \in 1..k |-> c]
<1> DEFINE s == [i \in 1..n |-> f[i]]
           t == [i \in 1..k |-> c]
<1>1. s \in Seq(S) /\ Len(s) = n
  BY IsASeq
<1>2. t \in Seq(S) /\ Len(t) = k
  BY IsASeq
<1>3. f \in Seq(S) /\ Len(f) = n + k
  BY IsASeq, LenProperties
<1>4. /\ \A i \in 1..n : s[i] = f[i]
      /\ \A i \in 1..k : t[i] = c
  OBVIOUS
<1> HIDE DEF s, t
<1>5. /\ s \o t \in Seq(S) /\ Len(s \o t) = n + k
      /\ \A i \in 1..(n + k) : (s \o t)[i] = IF i <= n THEN s[i] ELSE t[i - n]
  BY <1>1, <1>2, ConcatProperties
<1>6. ASSUME NEW i \in 1..(n + k) PROVE (s \o t)[i] = f[i]
  <2>1. CASE i <= n
    <3>1. i \in 1..n
      BY <2>1
    <3> QED  BY <2>1, <3>1, <1>4, <1>5
  <2>2. CASE ~(i <= n)
    <3>1. i \in (n + 1)..(n + k) /\ i - n \in 1..k
      BY <2>2
    <3> QED  BY <2>2, <3>1, <1>4, <1>5
  <2> QED  BY <2>1, <2>2
<1>7. s \o t = f
  BY <1>3, <1>5, <1>6, SeqEqual
<1> QED  BY <1>7 DEF s, t

\* A handler that keeps the past and takes k checkpoints extends the history
\* by k copies of the ledger it starts from.
LEMMA PastTaken ==
  ASSUME NEW L, Good(L), NEW M, LedgerInv(M), PastKept(L, M), NEW k \in Nat,
         M.currentCheckpointId = L.currentCheckpointId + k
  PROVE  PastOf(M) = PastOf(L) \o [i \in 1..k |-> Abstract!Copy(BookOf(L))]
<1> DEFINE n == L.currentCheckpointId
           f == PastOf(M)
           c == [balances |-> BalancesOf(L), supply |-> L.totalSupply]
<1>1. n \in Nat /\ Account \subseteq Address
  BY LedgerFields DEF Good, LedgerInv, TypeInv, Address
<1>2. Abstract!Copy(BookOf(L)) = c
  BY DEF Abstract!Copy, BookOf
<1>3. ASSUME NEW id \in 1..n PROVE f[id] = PastOf(L)[id]
  <2>1. id \in 1..M.currentCheckpointId /\ id <= n
    BY <1>1, <1>3
  <2>2. TotalSupplyAt(M, id) = TotalSupplyAt(L, id)
    BY <2>1 DEF PastKept
  <2>3. BalancesAt(M, id) = BalancesAt(L, id)
    BY <1>1, <2>1 DEF PastKept, BalancesAt
  <2> QED  BY <2>1, <2>2, <2>3 DEF PastOf
<1>4. ASSUME NEW id \in (n + 1)..(n + k) PROVE f[id] = c
  <2>1. /\ id \in 1..M.currentCheckpointId /\ id \in Nat
        /\ ~(id <= L.currentCheckpointId) /\ id > L.currentCheckpointId
    BY <1>1, <1>4
  <2>2. TotalSupplyAt(M, id) = L.totalSupply
    BY <2>1 DEF PastKept
  <2>3. \A a \in Account : BalanceOfAt(M, a, id) = L.balances[a]
    BY <1>1, <2>1, FutureIsNow DEF PastKept, Good
  <2>4. BalancesAt(M, id) = BalancesOf(L)
    BY <2>3 DEF BalancesAt, BalancesOf
  <2> QED  BY <2>1, <2>2, <2>4 DEF PastOf
<1>5. f = [i \in 1..n |-> f[i]] \o [i \in 1..k |-> c]
  <2> DEFINE S == {f[i] : i \in 1..(n + k)} \cup {c}
  <2>1. DOMAIN f = 1..(n + k) /\ f = [i \in 1..(n + k) |-> f[i]]
    BY DEF PastOf
  <2> HIDE DEF n, f, c
  <2>2. f \in [1..(n + k) -> S] /\ c \in S
    BY <2>1
  <2> HIDE DEF S
  <2> QED  BY <1>1, <1>4, <2>2, CopiesAtTheEnd
<1>6. [i \in 1..n |-> f[i]] = PastOf(L)
  <2>1. PastOf(L) = [i \in 1..n |-> PastOf(L)[i]]
    BY DEF PastOf
  <2> HIDE DEF f, n
  <2> QED  BY <1>3, <2>1
<1> QED  BY <1>2, <1>5, <1>6

-----------------------------------------------------------------------------
(* Each kind of step on the ledger, seen in the abstract one.              *)

LEMMA BookTaken ==
  ASSUME NEW L, Good(L), NEW M, LedgerInv(M), PastKept(L, M), NEW k \in Nat,
         M.currentCheckpointId = L.currentCheckpointId + k
  PROVE  Abstract!Take(BookOf(L), k) =
           [balances |-> BalancesOf(L), supply |-> L.totalSupply,
            history |-> PastOf(M)]
<1> DEFINE B == BookOf(L)
           copies == [i \in 1..k |-> Abstract!Copy(B)]
<1>1. PastOf(M) = PastOf(L) \o copies
  BY PastTaken
<1>2. Abstract!Take(B, k) = [B EXCEPT !.history = @ \o copies]
  BY DEF Abstract!Take
<1>3. B = [balances |-> BalancesOf(L), supply |-> L.totalSupply,
           history |-> PastOf(L)]
  BY DEF BookOf
<1> HIDE DEF B, copies
<1>4. [B EXCEPT !.history = @ \o copies]
        = [balances |-> BalancesOf(L), supply |-> L.totalSupply,
           history |-> PastOf(L) \o copies]
  <2> DEFINE b == BalancesOf(L)
             p == PastOf(L)
             q == p \o copies
  <2> HIDE DEF b, p
  <2>1. B.history \o copies = q
    BY <1>3 DEF p
  <2> HIDE DEF q
  <2>2. [B EXCEPT !.history = q]
          = [balances |-> b, supply |-> L.totalSupply, history |-> q]
    BY <1>3 DEF b, p
  <2> QED  BY <2>1, <2>2 DEF b, p, q
<1> QED  BY <1>1, <1>2, <1>4 DEF B

LEMMA NatBalances ==
  ASSUME NEW L, Good(L)
  PROVE  /\ \A a \in Address : L.balances[a] \in Nat
         /\ L.totalSupply \in Nat
         /\ L.balances[Zero] = 0
         /\ \A value \in Amount : value \in Nat
         /\ Account \subseteq Address
BY LedgerFields, UintMaxAssumption DEF Good, LedgerInv, TypeInv, Backed, Amount, Address

LEMMA TransferBook ==
  ASSUME NEW L, Good(L), NEW M, TransferStep(L, M)
  PROVE  \/ \E k \in Due : BookOf(M) = Abstract!Take(BookOf(L), k)
         \/ \E k \in Due, from, to \in Account, value \in Amount :
              /\ value <= L.balances[from]
              /\ BookOf(M) =
                   Abstract!Move(Abstract!Take(BookOf(L), k), from, to, value)
<1>1. PICK from \in Address, to \in Address, value \in Amount, due \in Due :
        /\ CountCanAdjust(L, from, to, value) /\ CanMove(L, from, to, value)
        /\ M = AfterTransfer(L, from, to, value, due)
  BY DEF TransferStep
<1>2. /\ LedgerInv(M) /\ PastKept(L, M)
      /\ M.currentCheckpointId = L.currentCheckpointId + due
      /\ Shifted(L.balances, M.balances, from, to, value)
      /\ M.totalSupply = L.totalSupply
  BY <1>1, TransferKeepsInv, DueIsNat DEF Good
<1>3. value <= L.balances[from] /\ to \in Account
  BY <1>1 DEF CanMove, Address
<1> DEFINE T == Abstract!Take(BookOf(L), due)
           b == BalancesOf(L)
<1>4. T = [balances |-> b, supply |-> L.totalSupply, history |-> PastOf(M)]
  BY <1>2, BookTaken, DueIsNat
<1>5. BookOf(M) = [balances |-> BalancesOf(M), supply |-> L.totalSupply,
                   history |-> PastOf(M)]
  BY <1>2 DEF BookOf
<1>6. CASE from = Zero
  <2>1. value = 0 /\ Zero \notin Account
    BY <1>3, <1>6, NatBalances, AccountAssumption
  <2>2. BalancesOf(M) = b
    BY <1>2, <1>6, <2>1, NatBalances DEF Shifted, BalancesOf
  <2> QED  BY <1>4, <1>5, <2>2
<1>7. CASE from \in Account
  <2> DEFINE paid == [b EXCEPT ![from] = @ - value]
             moved == [paid EXCEPT ![to] = @ + value]
  <2>1. BalancesOf(M) = moved
    BY <1>2, <1>3, <1>7, NatBalances DEF Shifted, BalancesOf
  <2> HIDE DEF b
  <2>2. Abstract!Move(T, from, to, value) = [T EXCEPT !.balances = moved]
    BY <1>4 DEF Abstract!Move
  <2> HIDE DEF T, moved
  <2>3. BookOf(M) = Abstract!Move(T, from, to, value)
    BY <1>4, <1>5, <2>1, <2>2
  <2> QED  BY <1>1, <1>3, <1>7, <2>3 DEF T
<1> QED  BY <1>6, <1>7 DEF Address

LEMMA IssueBook ==
  ASSUME NEW L, Good(L), NEW M, IssueStep(L, M)
  PROVE  \E k \in Due, to \in Account, value \in Amount :
           /\ M.totalSupply = L.totalSupply + value /\ M.totalSupply <= UintMax
           /\ BookOf(M) = Abstract!Mint(Abstract!Take(BookOf(L), k), to, value)
<1>1. PICK to \in Account, value \in Amount, due \in Due :
        /\ CountCanAdjust(L, Zero, to, value) /\ CanMint(L, to, value)
        /\ M = AfterIssue(L, to, value, due)
  BY DEF IssueStep
<1>2. to \in Address /\ Zero \notin Account
  BY AccountAssumption DEF Address
<1>3. /\ LedgerInv(M) /\ PastKept(L, M)
      /\ M.currentCheckpointId = L.currentCheckpointId + due
      /\ Shifted(L.balances, M.balances, Zero, to, value)
      /\ M.totalSupply = L.totalSupply + value
  BY <1>1, <1>2, IssueKeepsInv, DueIsNat DEF Good
<1> DEFINE T == Abstract!Take(BookOf(L), due)
           b == BalancesOf(L)
           minted == [b EXCEPT ![to] = @ + value]
<1>4. T = [balances |-> b, supply |-> L.totalSupply, history |-> PastOf(M)]
  BY <1>3, BookTaken, DueIsNat
<1>5. BookOf(M) = [balances |-> BalancesOf(M), supply |-> L.totalSupply + value,
                   history |-> PastOf(M)]
  BY <1>3 DEF BookOf
<1>6. BalancesOf(M) = minted
  BY <1>2, <1>3, NatBalances DEF Shifted, BalancesOf
<1>7. M.totalSupply <= UintMax
  BY <1>1, <1>3 DEF CanMint
<1> HIDE DEF b
<1>8. Abstract!Mint(T, to, value) =
        [[T EXCEPT !.balances = minted] EXCEPT !.supply = @ + value]
  BY <1>4 DEF Abstract!Mint
<1> HIDE DEF T, minted
<1>9. BookOf(M) = Abstract!Mint(T, to, value)
  BY <1>4, <1>5, <1>6, <1>8
<1> QED  BY <1>1, <1>3, <1>7, <1>9 DEF T

LEMMA RedeemBook ==
  ASSUME NEW L, Good(L), NEW M, RedeemStep(L, M)
  PROVE  \E k \in Due, from \in Account, value \in Amount :
           /\ value <= L.balances[from]
           /\ BookOf(M) = Abstract!Burn(Abstract!Take(BookOf(L), k), from, value)
<1>1. PICK from \in Account, value \in Amount, due \in Due :
        /\ CountCanAdjust(L, from, Zero, value) /\ CanBurn(L, from, value)
        /\ M = AfterRedeem(L, from, value, due)
  BY DEF RedeemStep
<1>2. from \in Address /\ Zero \notin Account
  BY AccountAssumption DEF Address
<1>3. /\ LedgerInv(M) /\ PastKept(L, M)
      /\ M.currentCheckpointId = L.currentCheckpointId + due
      /\ Shifted(L.balances, M.balances, from, Zero, value)
      /\ M.totalSupply = L.totalSupply - value
  BY <1>1, <1>2, RedeemKeepsInv, DueIsNat DEF Good
<1> DEFINE T == Abstract!Take(BookOf(L), due)
           b == BalancesOf(L)
           burned == [b EXCEPT ![from] = @ - value]
<1>4. T = [balances |-> b, supply |-> L.totalSupply, history |-> PastOf(M)]
  BY <1>3, BookTaken, DueIsNat
<1>5. BookOf(M) = [balances |-> BalancesOf(M), supply |-> L.totalSupply - value,
                   history |-> PastOf(M)]
  BY <1>3 DEF BookOf
<1>6. BalancesOf(M) = burned
  BY <1>2, <1>3, NatBalances DEF Shifted, BalancesOf
<1>7. value <= L.balances[from]
  BY <1>1 DEF CanBurn
<1> HIDE DEF b
<1>8. Abstract!Burn(T, from, value) =
        [[T EXCEPT !.balances = burned] EXCEPT !.supply = @ - value]
  BY <1>4 DEF Abstract!Burn
<1> HIDE DEF T, burned
<1>9. BookOf(M) = Abstract!Burn(T, from, value)
  BY <1>4, <1>5, <1>6, <1>8
<1> QED  BY <1>1, <1>7, <1>9 DEF T

-----------------------------------------------------------------------------
(* The step simulation.                                                    *)

LEMMA BookParts ==
  ASSUME NEW L
  PROVE  /\ \A a \in Account : BookOf(L).balances[a] = L.balances[a]
         /\ BookOf(L).supply = L.totalSupply
BY DEF BookOf, BalancesOf

LEMMA AbstractTransfer ==
  ASSUME Good(ledger), TransferStep(ledger, ledger')
  PROVE  Abstract!TakeCheckpoint \/ Abstract!MoveTokens
<1>1. CASE \E k \in Due : BookOf(ledger') = Abstract!Take(BookOf(ledger), k)
  BY <1>1, BookIsBookOf DEF Abstract!TakeCheckpoint, Abstract!Taken, Due
<1>2. CASE \E k \in Due, from, to \in Account, value \in Amount :
             /\ value <= ledger.balances[from]
             /\ BookOf(ledger') =
                  Abstract!Move(Abstract!Take(BookOf(ledger), k), from, to, value)
  <2>1. PICK k \in Due, from \in Account, to \in Account, value \in Amount :
             /\ value <= ledger.balances[from]
             /\ BookOf(ledger') =
                  Abstract!Move(Abstract!Take(BookOf(ledger), k), from, to, value)
    BY <1>2
  <2>2. /\ value <= Book.balances[from]
        /\ Book' = Abstract!Move(Abstract!Take(Book, k), from, to, value)
    BY <2>1, BookIsBookOf, BookParts
  <2>3. k \in Abstract!Taken /\ value \in Abstract!Amount
    BY DEF Abstract!Taken, Due, Abstract!Amount, Amount
  <2> QED  BY <2>2, <2>3 DEF Abstract!MoveTokens
<1> QED  BY <1>1, <1>2, TransferBook

LEMMA AbstractIssue ==
  ASSUME Good(ledger), IssueStep(ledger, ledger')
  PROVE  Abstract!MintTokens
<1>1. PICK k \in Due, to \in Account, value \in Amount :
        /\ ledger'.totalSupply = ledger.totalSupply + value
        /\ ledger'.totalSupply <= UintMax
        /\ BookOf(ledger') =
             Abstract!Mint(Abstract!Take(BookOf(ledger), k), to, value)
  BY IssueBook
<1>2. /\ Book.supply + value <= UintMax
      /\ Book' = Abstract!Mint(Abstract!Take(Book, k), to, value)
  BY <1>1, BookIsBookOf, BookParts
<1>3. k \in Abstract!Taken /\ value \in Abstract!Amount
  BY DEF Abstract!Taken, Due, Abstract!Amount, Amount
<1> QED  BY <1>2, <1>3 DEF Abstract!MintTokens

LEMMA AbstractIssueTwice ==
  ASSUME Good(ledger), IssueTwice(ledger, ledger')
  PROVE  Abstract!MintTwice
<1>1. PICK K : IssueStep(ledger, K) /\ IssueStep(K, ledger')
  BY DEF IssueTwice
<1>2. Good(K)
  BY <1>1, IssueGood
<1>3. PICK k \in Due, to \in Account, value \in Amount :
        /\ K.totalSupply = ledger.totalSupply + value
        /\ BookOf(K) = Abstract!Mint(Abstract!Take(BookOf(ledger), k), to, value)
  BY <1>1, IssueBook
<1>4. PICK k2 \in Due, to2 \in Account, value2 \in Amount :
        /\ ledger'.totalSupply = K.totalSupply + value2
        /\ ledger'.totalSupply <= UintMax
        /\ BookOf(ledger') =
             Abstract!Mint(Abstract!Take(BookOf(K), k2), to2, value2)
  BY <1>1, <1>2, IssueBook
<1>5. /\ Book.supply + value + value2 <= UintMax
      /\ Book' = Abstract!Mint(
                   Abstract!Take(
                     Abstract!Mint(Abstract!Take(Book, k), to, value), k2),
                   to2, value2)
  BY <1>3, <1>4, BookIsBookOf, BookParts
<1>6. /\ k \in Abstract!Taken /\ k2 \in Abstract!Taken
      /\ value \in Abstract!Amount /\ value2 \in Abstract!Amount
  BY DEF Abstract!Taken, Due, Abstract!Amount, Amount
<1> QED  BY <1>5, <1>6 DEF Abstract!MintTwice

LEMMA AbstractRedeem ==
  ASSUME Good(ledger), RedeemStep(ledger, ledger')
  PROVE  Abstract!BurnTokens
<1>1. PICK k \in Due, from \in Account, value \in Amount :
        /\ value <= ledger.balances[from]
        /\ BookOf(ledger') =
             Abstract!Burn(Abstract!Take(BookOf(ledger), k), from, value)
  BY RedeemBook
<1>2. /\ value <= Book.balances[from]
      /\ Book' = Abstract!Burn(Abstract!Take(Book, k), from, value)
  BY <1>1, BookIsBookOf, BookParts
<1>3. k \in Abstract!Taken /\ value \in Abstract!Amount
  BY DEF Abstract!Taken, Due, Abstract!Amount, Amount
<1> QED  BY <1>2, <1>3 DEF Abstract!BurnTokens

LEMMA AbstractCheckpoint ==
  ASSUME Good(ledger), ledger' = CreateCheckpoints(ledger, 1)
  PROVE  Abstract!TakeCheckpoint
<1>1. /\ LedgerInv(ledger') /\ PastKept(ledger, ledger')
      /\ ledger'.currentCheckpointId = ledger.currentCheckpointId + 1
      /\ SameTokens(ledger, ledger')
  BY CheckpointKeepsInv DEF Good
<1>2. Abstract!Take(BookOf(ledger), 1) =
        [balances |-> BalancesOf(ledger), supply |-> ledger.totalSupply,
         history |-> PastOf(ledger')]
  BY <1>1, BookTaken
<1>3. BookOf(ledger') = Abstract!Take(BookOf(ledger), 1)
  BY <1>1, <1>2 DEF BookOf, BalancesOf, SameTokens
<1> QED  BY <1>3, BookIsBookOf DEF Abstract!TakeCheckpoint

LEMMA SameBook ==
  ASSUME SameBooks(ledger, ledger') PROVE Book' = Book
<1>1. /\ \A id : TotalSupplyAt(ledger', id) = TotalSupplyAt(ledger, id)
      /\ \A id : BalancesAt(ledger', id) = BalancesAt(ledger, id)
  BY DEF TotalSupplyAt, BalanceOfAt, BalancesAt, SameBooks
<1>2. PastOf(ledger') = PastOf(ledger) /\ BalancesOf(ledger') = BalancesOf(ledger)
  BY <1>1 DEF PastOf, BalancesOf, SameBooks
<1> QED  BY <1>2, BookIsBookOf DEF BookOf, SameBooks

\* The token implements the ledger that copies all balances at each checkpoint:
\* with the getters as refinement mapping every call is a step of SnapshotLedger
\* or leaves its book alone.
THEOREM TokenImplementsSnapshots == Spec => ImplementsSnapshots
<1>1. Init => Abstract!Init
  <2> SUFFICES ASSUME Init
               PROVE  Book = [balances |-> [a \in Account |-> 0], supply |-> 0,
                              history |-> <<>>]
    BY DEF Abstract!Init
  <2>1. /\ ledger.balances = [a \in Address |-> 0]
        /\ ledger.totalSupply = 0 /\ ledger.currentCheckpointId = 0
    BY DEF Init, EmptyLedger
  <2>2. PastOf(ledger) = <<>>
    BY <2>1 DEF PastOf
  <2>3. BalancesOf(ledger) = [a \in Account |-> 0]
    BY <2>1 DEF BalancesOf, Address
  <2> QED  BY <2>1, <2>2, <2>3, BookIsBookOf DEF BookOf
<1>2. ASSUME IInv, [Next]_vars
      PROVE  [Abstract!Next]_Book
  <2>1. Good(ledger) /\ LedgerStep(ledger, ledger')
    BY <1>2, Steps DEF IInv
  <2>2. CASE ledger' = ledger
    BY <2>2, BookIsBookOf
  <2>3. CASE TransferStep(ledger, ledger')
    BY <2>1, <2>3, AbstractTransfer DEF Abstract!Next
  <2>4. CASE IssueStep(ledger, ledger')
    BY <2>1, <2>4, AbstractIssue DEF Abstract!Next
  <2>5. CASE IssueTwice(ledger, ledger')
    BY <2>1, <2>5, AbstractIssueTwice DEF Abstract!Next
  <2>6. CASE RedeemStep(ledger, ledger')
    BY <2>1, <2>6, AbstractRedeem DEF Abstract!Next
  <2>7. CASE ledger' = CreateCheckpoints(ledger, 1)
    BY <2>1, <2>7, AbstractCheckpoint DEF Abstract!Next
  <2>8. CASE ListStep(ledger, ledger') \/ StoreStep(ledger, ledger')
    BY <2>1, <2>8, ListGood, StoreGood, SameBook
  <2> QED  BY <2>1, <2>2, <2>3, <2>4, <2>5, <2>6, <2>7, <2>8 DEF LedgerStep
<1>3. IInv /\ [Next]_vars => [Abstract!Next]_Book
  BY <1>2
<1> QED  BY <1>1, <1>3, Invariance, PTL DEF Spec, ImplementsSnapshots, Abstract!Spec

-----------------------------------------------------------------------------
(* The binary search of getValueAt is correct for every series.            *)

\* What holds at each step: the types, an ordered series, the invariant of the
\* loop with the ends that the shortcuts left out, and the value at the end.
SearchInv ==
  /\ checkpoints \in Seq(CheckpointOf(Value))
  /\ InOrder(checkpoints, MaxId)
  /\ checkpointId \in Nat
  /\ currentValue \in Value
  /\ min \in Nat /\ max \in Nat
  /\ pc \in {"start", "loop", "found", "done"}
  /\ SearchInside
  /\ pc \in {"loop", "found"} => checkpointId # 0
  /\ pc = "found" => At(max).checkpointId = checkpointId
  /\ SearchCorrect

LEMMA SeriesIsSeq == Series \subseteq Seq(CheckpointOf(Value))
<1> SUFFICES ASSUME NEW n \in 0..MaxLength, NEW s \in [1..n -> Entry]
             PROVE  s \in Seq(CheckpointOf(Value))
  BY DEF Series
<1>1. Entry \subseteq CheckpointOf(Value)
  BY SearchAssumption DEF Entry, CheckpointOf
<1>2. s \in [1..n -> CheckpointOf(Value)] /\ n \in Nat
  BY <1>1, SearchAssumption
<1> HIDE DEF CheckpointOf
<1> QED  BY <1>2

LEMMA SearchInvAtFirst == SearchInit => SearchInv
BY SeriesIsSeq, SearchAssumption DEF SearchInit, SearchInv, SearchInside, SearchCorrect

\* The entry at position i, counted from 0, answers if it is late enough
\* and everything before it is too early.
LEMMA AnswerAt ==
  ASSUME checkpoints \in Seq(CheckpointOf(Value)), checkpointId \in Nat \ {0},
         NEW i \in 0..(Length - 1), At(i).checkpointId >= checkpointId,
         \A j \in 0..(i - 1) : At(j).checkpointId < checkpointId
  PROVE  ValueAt(checkpoints, checkpointId, currentValue) = At(i).value
<1>1. FirstAtOrAfter(checkpoints, checkpointId, i + 1)
  <2> SUFFICES ASSUME NEW j \in 1..i
               PROVE  checkpoints[j].checkpointId < checkpointId
    BY DEF FirstAtOrAfter, At, Length
  <2>1. j - 1 \in 0..(i - 1) /\ (j - 1) + 1 = j OBVIOUS
  <2>2. At(j - 1).checkpointId < checkpointId BY <2>1
  <2>3. QED BY ONLY <2>1, <2>2 DEF At
<1> QED  BY <1>1, ValueAtFirst DEF At

LEMMA SearchInvKept == SearchInv /\ [SearchNext]_searchVars => SearchInv'
<1> SUFFICES ASSUME SearchInv, [SearchNext]_searchVars
             PROVE  SearchInv'
  OBVIOUS
<1> USE DEF SearchInv
<1>0. Length \in Nat /\ \A i \in 0..(Length - 1) : At(i).checkpointId \in Nat
  BY EntryTypes DEF At, Length
<1>o. \A i, j \in 0..(Length - 1) : j < i => At(j).checkpointId < At(i).checkpointId
  <2> SUFFICES ASSUME NEW i \in 0..(Length - 1), NEW j \in 0..(Length - 1), j < i
               PROVE  checkpoints[j + 1].checkpointId < checkpoints[i + 1].checkpointId
    BY DEF At
  <2>1. i + 1 \in 1..Len(checkpoints) /\ j + 1 \in 1..((i + 1) - 1)
    BY <1>0 DEF Length
  <2> QED  BY <2>1 DEF InOrder
<1>1. CASE Shortcut
  <2> USE DEF SearchInside, SearchCorrect
  <2>0. /\ pc = "start" /\ pc' = "done"
        /\ UNCHANGED <<checkpoints, checkpointId, currentValue, min, max>>
    BY <1>1 DEF Shortcut, Return, arguments
  <2>1. result' = ValueAt(checkpoints, checkpointId, currentValue)
    <3>1. CASE checkpointId = 0 /\ Return(0)
      BY <3>1 DEF Return, ValueAt
    <3>2. CASE checkpointId # 0 /\ Length = 0 /\ Return(currentValue)
      <4>1. 1..Len(checkpoints) = {}
        BY <3>2 DEF Length
      <4> QED  BY <4>1, <3>2 DEF Return, ValueAt
    <3>3. CASE /\ checkpointId # 0 /\ Length # 0 /\ At(0).checkpointId >= checkpointId
               /\ Return(At(0).value)
      BY <3>3, <1>0, AnswerAt DEF Return
    <3>4. CASE /\ checkpointId # 0 /\ Length # 0
               /\ At(Length - 1).checkpointId < checkpointId /\ Return(currentValue)
      <4>1. \A i \in 1..Len(checkpoints) : checkpoints[i].checkpointId < checkpointId
        <5> SUFFICES ASSUME NEW i \in 1..Len(checkpoints)
                     PROVE  At(i - 1).checkpointId < checkpointId
          BY DEF At
        <5>1. i - 1 \in 0..(Length - 1) /\ Length - 1 \in 0..(Length - 1)
          BY <1>0 DEF Length
        <5> QED  BY <5>1, <3>4, <1>0, <1>o
      <4> QED  BY <4>1, <3>4, ValueAtNone DEF Return
    <3>5. CASE checkpointId # 0 /\ Length # 0 /\ At(Length - 1).checkpointId = checkpointId
               /\ Return(At(Length - 1).value)
      <4>1. \A j \in 0..((Length - 1) - 1) : At(j).checkpointId < checkpointId
        BY <3>5, <1>0, <1>o
      <4> QED  BY <4>1, <3>5, <1>0, AnswerAt DEF Return
    <3> QED  BY <1>1, <3>1, <3>2, <3>3, <3>4, <3>5 DEF Shortcut
  <2> QED  BY <2>0, <2>1
<1>2. CASE StartSearch
  <2>1. /\ pc = "start" /\ checkpointId # 0 /\ Length # 0
        /\ At(Length - 1).checkpointId > checkpointId
        /\ min' = 0 /\ max' = Length - 1 /\ pc' = "loop"
        /\ UNCHANGED <<checkpoints, checkpointId, currentValue, result>>
    BY <1>2 DEF StartSearch, arguments
  <2>2. Length' = Length /\ \A i : At(i)' = At(i)
    BY <2>1 DEF Length, At
  <2> QED  BY <2>1, <2>2, <1>0 DEF SearchInside, SearchCorrect
<1>3. CASE Halve
  <2> DEFINE mid == (max + min) \div 2
  <2>1. /\ pc = "loop" /\ max > min
        /\ UNCHANGED <<checkpoints, checkpointId, currentValue, result>>
    BY <1>3 DEF Halve, arguments
  <2>2. Length' = Length /\ \A i : At(i)' = At(i)
    BY <2>1 DEF Length, At
  <2>3. mid \in Nat /\ min <= mid /\ mid < max
    BY <2>1
  <2>4. mid \in 0..(Length - 1) /\ At(mid).checkpointId \in Nat
    BY <1>0, <2>1, <2>3 DEF SearchInside
  <2> HIDE DEF mid
  <2>5. CASE /\ At(mid).checkpointId = checkpointId
             /\ max' = mid /\ pc' = "found" /\ UNCHANGED min
    BY <2>1, <2>2, <2>3, <2>4, <2>5, <1>0 DEF SearchInside, SearchCorrect
  <2>6. CASE At(mid).checkpointId < checkpointId /\ min' = mid + 1 /\ UNCHANGED <<max, pc>>
    <3>1. \A i \in 0..mid : At(i).checkpointId < checkpointId
      BY <2>4, <2>6, <1>0, <1>o
    <3> QED  BY <3>1, <2>1, <2>2, <2>3, <2>6 DEF SearchInside, SearchCorrect
  <2>7. CASE At(mid).checkpointId > checkpointId /\ max' = mid /\ UNCHANGED <<min, pc>>
    BY <2>1, <2>2, <2>3, <2>4, <2>7, <1>0 DEF SearchInside, SearchCorrect
  <2> QED  BY <1>3, <2>5, <2>6, <2>7 DEF Halve, mid
<1>4. CASE Finish
  <2>1. /\ pc' = "done" /\ result' = At(max).value
        /\ UNCHANGED <<checkpoints, checkpointId, currentValue, min, max>>
    BY <1>4 DEF Finish, Return, arguments
  <2>2. /\ max \in 0..(Length - 1) /\ checkpointId \in Nat \ {0}
        /\ At(max).checkpointId >= checkpointId
    BY <1>4, <1>0 DEF Finish, SearchInside
  <2>3. \A j \in 0..(max - 1) : At(j).checkpointId < checkpointId
    <3>1. CASE pc = "found"
      BY <3>1, <2>2, <1>0, <1>o
    <3>2. CASE pc = "loop" /\ max <= min
      BY <3>2, <2>2 DEF SearchInside
    <3> QED  BY <3>1, <3>2, <1>4 DEF Finish
  <2>4. result' = ValueAt(checkpoints, checkpointId, currentValue)
    BY <2>1, <2>2, <2>3, AnswerAt
  <2> QED  BY <2>1, <2>4 DEF SearchInside, SearchCorrect
<1>5. CASE UNCHANGED searchVars
  BY <1>5 DEF searchVars, arguments, SearchInside, SearchCorrect, At, Length
<1> QED  BY <1>1, <1>2, <1>3, <1>4, <1>5 DEF SearchNext

\* The value getValueAt returns is the value of the first entry at or after the
\* checkpoint, or the currentValue balance: for every ordered series of any length.
THEOREM SearchIsCorrect == SearchSpec => []SearchCorrect
<1>1. SearchSpec => []SearchInv
  BY SearchInvAtFirst, SearchInvKept, PTL DEF SearchSpec
<1>2. SearchInv => SearchCorrect
  BY DEF SearchInv
<1> QED  BY <1>1, <1>2, PTL

\* No access of the search is outside the array, and the entry it looks for is
\* never lost.
THEOREM SearchStaysInside == SearchSpec => []SearchInside
<1>1. SearchSpec => []SearchInv
  BY SearchInvAtFirst, SearchInvKept, PTL DEF SearchSpec
<1>2. SearchInv => SearchInside
  BY DEF SearchInv
<1> QED  BY <1>1, <1>2, PTL

\* How many more steps the search may take.
Remaining ==
  CASE pc = "start" -> Length + 3
    [] pc = "loop" -> (max - min) + 2
    [] pc = "found" -> 1
    [] pc = "done" -> 0

FewerRemain == Remaining \in Nat /\ Remaining' \in 0..(Remaining - 1)

\* Every step of getValueAt leaves fewer: however long the series is, the search takes
\* no more steps than it has entries, and three.
THEOREM SearchShrinks == SearchSpec => [][FewerRemain]_searchVars
<1>1. SearchSpec => []SearchInv
  BY SearchInvAtFirst, SearchInvKept, PTL DEF SearchSpec
<1>2. ASSUME SearchInv, SearchNext
      PROVE  Remaining \in Nat /\ Remaining' \in 0..(Remaining - 1)
  <2>0. Length \in Nat /\ min \in Nat /\ max \in Nat BY <1>2 DEF SearchInv, Length
  <2>1. CASE Shortcut
    <3>1. pc = "start" /\ pc' = "done" BY <2>1 DEF Shortcut, Return
    <3>2. Remaining = Length + 3 /\ Remaining' = 0 BY <3>1 DEF Remaining
    <3>3. QED BY <2>0, <3>2
  <2>2. CASE StartSearch
    <3>1. /\ pc = "start" /\ pc' = "loop" /\ min' = 0 /\ max' = Length - 1 /\ Length # 0
      BY <2>2 DEF StartSearch
    <3>2. Remaining = Length + 3 /\ Remaining' = (max' - min') + 2 BY <3>1 DEF Remaining
    <3>3. QED BY <2>0, <3>1, <3>2
  <2>3. CASE Halve
    <3> DEFINE mid == (max + min) \div 2
    <3>1. pc = "loop" /\ max > min BY <2>3 DEF Halve
    <3>2. mid \in Nat /\ min <= mid /\ mid < max BY <2>0, <3>1
    <3>3. Remaining = (max - min) + 2 BY <3>1 DEF Remaining
    <3>4. \/ pc' = "found"
          \/ pc' = "loop" /\ min' = mid + 1 /\ max' = max
          \/ pc' = "loop" /\ min' = min /\ max' = mid
      BY <2>3, <3>1 DEF Halve
    <3> HIDE DEF mid
    <3>5. CASE pc' = "found"
      <4>1. Remaining' = 1 BY <3>5 DEF Remaining
      <4>2. QED BY <2>0, <3>1, <3>3, <4>1
    <3>6. CASE pc' = "loop" /\ min' = mid + 1 /\ max' = max
      <4>1. Remaining' = (max' - min') + 2 BY <3>6 DEF Remaining
      <4>2. QED BY <2>0, <3>2, <3>3, <3>6, <4>1
    <3>7. CASE pc' = "loop" /\ min' = min /\ max' = mid
      <4>1. Remaining' = (max' - min') + 2 BY <3>7 DEF Remaining
      <4>2. QED BY <2>0, <3>2, <3>3, <3>7, <4>1
    <3>8. QED BY <3>4, <3>5, <3>6, <3>7
  <2>4. CASE Finish
    <3>1. /\ pc' = "done" /\ pc \in {"loop", "found"}
      BY <2>4 DEF Finish, Return
    <3>2. Remaining' = 0 BY <3>1 DEF Remaining
    <3>3. min <= max BY <1>2, <3>1 DEF SearchInv, SearchInside
    <3>4. Remaining \in {1, (max - min) + 2} BY <3>1 DEF Remaining
    <3>5. QED BY <2>0, <3>2, <3>3, <3>4
  <2>5. QED BY <1>2, <2>1, <2>2, <2>3, <2>4 DEF SearchNext
<1>3. SearchInv /\ [SearchNext]_searchVars => [FewerRemain]_searchVars
  BY <1>2 DEF FewerRemain
<1> QED  BY <1>1, <1>3, PTL DEF SearchSpec

-----------------------------------------------------------------------------
(* Modules of a token: the registry.                                       *)

RInv == RegistryTypeOK /\ FactoryListsAgree /\ VerifiedAsReviewed

-----------------------------------------------------------------------------
(* The lists.                                                              *)

\* The list of a registered factory has its index, and some last element.
LEMMA PlaceOfFactory ==
  ASSUME RegistryTypeOK, FactoryListsAgree, NEW f \in Factory, Registered(f)
  PROVE  LET list == moduleList[registry[f]] IN
         /\ registry[f] \in Type
         /\ list \in Seq(Factory)
         /\ moduleListIndex[f] + 1 \in 1..Len(list)
         /\ list[moduleListIndex[f] + 1] = f
         /\ Len(list) \in 1..Len(list)
         /\ list[Len(list)] \in Factory
         /\ registry[list[Len(list)]] = registry[f]
         /\ moduleListIndex[list[Len(list)]] = Len(list) - 1
<1> DEFINE list == moduleList[registry[f]]
<1>1. registry[f] \in Type BY DEF RegistryTypeOK, Registered
<1>2. list \in Seq(Factory) BY <1>1 DEF RegistryTypeOK
<1>3. Len(list) \in Nat /\ DOMAIN list = 1..Len(list) BY <1>2, LenProperties
<1>4. /\ moduleListIndex[f] + 1 \in 1..Len(list)
      /\ list[moduleListIndex[f] + 1] = f
  BY <1>3 DEF FactoryListsAgree
<1>5. moduleListIndex[f] \in Nat BY DEF RegistryTypeOK
<1>6. Len(list) \in 1..Len(list) BY <1>3, <1>4, <1>5
<1>7. list[Len(list)] \in Factory BY <1>2, <1>6, ElementOfSeq
<1>8. /\ registry[list[Len(list)]] = registry[f]
      /\ moduleListIndex[list[Len(list)]] = Len(list) - 1
  BY <1>1, <1>3, <1>6 DEF FactoryListsAgree
<1>9. QED BY <1>1, <1>2, <1>4, <1>6, <1>7, <1>8

\* The list without a factory: the last one stands in its place.
LEMMA ShorterList ==
  ASSUME RegistryTypeOK, FactoryListsAgree, NEW f \in Factory, Registered(f)
  PROVE  LET list == moduleList[registry[f]] IN
         /\ ListWithout(f) \in Seq(Factory)
         /\ Len(ListWithout(f)) = Len(list) - 1
         /\ \A i \in 1..(Len(list) - 1) :
              ListWithout(f)[i] = IF i = moduleListIndex[f] + 1
                                  THEN list[Len(list)] ELSE list[i]
<1> DEFINE list == moduleList[registry[f]]
           last == list[Len(list)]
           moved == [list EXCEPT ![moduleListIndex[f] + 1] = last]
<1>1. /\ list \in Seq(Factory)
      /\ moduleListIndex[f] + 1 \in 1..Len(list)
      /\ Len(list) \in 1..Len(list)
      /\ last \in Factory
  BY PlaceOfFactory
<1>2. Len(list) \in Nat BY <1>1, LenProperties
<1>3. /\ moved \in Seq(Factory)
      /\ Len(moved) = Len(list)
      /\ \A i \in 1..Len(list) :
           moved[i] = IF i = moduleListIndex[f] + 1 THEN last ELSE list[i]
  <2> HIDE DEF list, last
  <2> QED BY <1>1, ExceptSeq
<1>4. ListWithout(f) = SubSeq(moved, 1, Len(list) - 1) BY DEF ListWithout
<1> HIDE DEF list, last, moved
<1>5. \A i \in 1..(Len(list) - 1) : moved[i] \in Factory
  BY <1>2, <1>3, ElementOfSeq
<1>6. /\ SubSeq(moved, 1, Len(list) - 1) \in Seq(Factory)
      /\ Len(SubSeq(moved, 1, Len(list) - 1)) = Len(list) - 1
      /\ \A i \in 1..(Len(list) - 1) :
           SubSeq(moved, 1, Len(list) - 1)[i] = moved[i]
  <2>1. 1 \in Int /\ Len(list) - 1 \in Int BY <1>2
  <2>2. /\ SubSeq(moved, 1, Len(list) - 1) \in Seq(Factory)
        /\ Len(SubSeq(moved, 1, Len(list) - 1)) =
             IF 1 <= Len(list) - 1 THEN Len(list) - 1 - 1 + 1 ELSE 0
        /\ \A i \in 1..(Len(list) - 1 - 1 + 1) :
             SubSeq(moved, 1, Len(list) - 1)[i] = moved[1 + i - 1]
    BY <2>1, <1>5, SubSeqProperties
  <2> DEFINE n == Len(list) - 1
             short == SubSeq(moved, 1, n)
  <2>3. n \in Nat /\ n - 1 + 1 = n /\ (1 <= n \/ n = 0) BY <1>1, <1>2, SMTT(30)
  <2>4. Len(short) = n BY <2>2, <2>3
  <2>5. ASSUME NEW i \in 1..n PROVE short[i] = moved[i]
    <3>1. 1 + i - 1 = i /\ i \in 1..(n - 1 + 1) BY <2>3
    <3>2. short[i] = moved[1 + i - 1] BY <2>2, <3>1
    <3>3. QED BY <3>1, <3>2
  <2>6. QED BY <2>2, <2>4, <2>5
<1>7. QED BY <1>2, <1>3, <1>4, <1>6 DEF list, last

-----------------------------------------------------------------------------
(* Registration and removal.                                               *)

LEMMA RegisterKeepsTypes ==
  ASSUME RegistryTypeOK, NEW who, NEW f \in Factory, RegisterModule(who, f)
  PROVE  /\ TypesOf[f][1] \in Type
         /\ RegistryTypeOK'
<1> DEFINE type == TypesOf[f][1]
<1>1. type \in Type
  <2>1. TypesOf[f] \in Seq(Type) /\ TypesOf[f] # <<>>
    BY TypesAssumption DEF RegisterModule, HasDistinctTypes
  <2>2. 1 \in 1..Len(TypesOf[f]) BY <2>1, EmptySeq
  <2>3. QED BY <2>1, <2>2, ElementOfSeq
<1>2. moduleList[type] \in Seq(Factory) BY <1>1 DEF RegistryTypeOK
<1>3. /\ Len(moduleList[type]) \in Nat
      /\ Append(moduleList[type], f) \in Seq(Factory)
  BY <1>2, LenProperties, AppendProperties
<1>4. ownerOf[f] \in Party BY DEF RegistryTypeOK
<1>5. /\ factoryOwner' \in [Factory -> Party \cup {Nobody}]
      /\ registry' \in [Factory -> Type \cup {0}]
      /\ moduleListIndex' \in [Factory -> Nat]
      /\ moduleList' \in [Type -> Seq(Factory)]
  BY <1>1, <1>3, <1>4 DEF RegistryTypeOK, RegisterModule
<1>6. UNCHANGED <<switches, verified, ownerOf, logicContracts, reviewed>>
  BY DEF RegisterModule
<1>7. QED BY <1>1, <1>5, <1>6 DEF RegistryTypeOK, switches

LEMMA RegisterKeepsLists ==
  ASSUME RegistryTypeOK, FactoryListsAgree,
         NEW who, NEW f \in Factory, RegisterModule(who, f)
  PROVE  FactoryListsAgree'
<1> DEFINE type == TypesOf[f][1]
           n == Len(moduleList[type])
<1>1. type \in Type /\ type # 0 BY RegisterKeepsTypes, TypesAssumption
<1>2. moduleList[type] \in Seq(Factory) BY <1>1 DEF RegistryTypeOK
<1>3. n \in Nat /\ DOMAIN moduleList[type] = 1..n BY <1>2, LenProperties
<1>4. /\ Append(moduleList[type], f) \in Seq(Factory)
      /\ Len(Append(moduleList[type], f)) = n + 1
      /\ \A i \in 1..(n + 1) : Append(moduleList[type], f)[i] =
            IF i <= n THEN moduleList[type][i] ELSE f
  BY <1>2, <1>3, AppendProperties
<1>5. /\ registry[f] = 0
      /\ registry' = [registry EXCEPT ![f] = type]
      /\ moduleListIndex' = [moduleListIndex EXCEPT ![f] = n]
      /\ moduleList' = [moduleList EXCEPT ![type] = Append(moduleList[type], f)]
  BY DEF RegisterModule, Registered
<1> HIDE DEF type, n
<1>6. /\ moduleList'[type] = Append(moduleList[type], f)
      /\ DOMAIN moduleList'[type] = 1..(n + 1)
      /\ \A t \in Type : t # type => moduleList'[t] = moduleList[t]
  BY <1>1, <1>4, <1>5, LenProperties DEF RegistryTypeOK
<1>7. /\ registry'[f] = type /\ moduleListIndex'[f] = n
      /\ \A g \in Factory : g # f => /\ registry'[g] = registry[g]
                                     /\ moduleListIndex'[g] = moduleListIndex[g]
  BY <1>5 DEF RegistryTypeOK
<1>8. ASSUME NEW g \in Factory, registry'[g] # 0
      PROVE  /\ moduleListIndex'[g] + 1 \in DOMAIN moduleList'[registry'[g]]
             /\ moduleList'[registry'[g]][moduleListIndex'[g] + 1] = g
  <2>1. CASE g = f
    BY <1>3, <1>4, <1>6, <1>7, <2>1
  <2>2. CASE g # f
    <3>1. /\ registry[g] \in Type
          /\ moduleListIndex[g] + 1 \in DOMAIN moduleList[registry[g]]
          /\ moduleList[registry[g]][moduleListIndex[g] + 1] = g
      BY <1>7, <1>8, <2>2 DEF FactoryListsAgree, Registered, RegistryTypeOK
    <3>2. CASE registry[g] = type
      <4>1. moduleListIndex[g] + 1 \in 1..n BY <1>3, <3>1, <3>2
      <4>2. moduleListIndex[g] + 1 \in 1..(n + 1) /\ moduleListIndex[g] + 1 <= n
        BY <1>3, <4>1
      <4>3. QED BY <1>4, <1>6, <1>7, <2>2, <3>1, <3>2, <4>2
    <3>3. CASE registry[g] # type
      BY <1>6, <1>7, <2>2, <3>1, <3>3
    <3>4. QED BY <3>2, <3>3
  <2>3. QED BY <2>1, <2>2
<1>9. ASSUME NEW t \in Type, NEW i \in DOMAIN moduleList'[t]
      PROVE  /\ registry'[moduleList'[t][i]] = t
             /\ moduleListIndex'[moduleList'[t][i]] = i - 1
  <2>1. CASE t = type /\ i = n + 1
    BY <1>3, <1>4, <1>6, <1>7, <2>1
  <2>2. CASE ~(t = type /\ i = n + 1)
    <3>1. i \in DOMAIN moduleList[t] /\ moduleList'[t][i] = moduleList[t][i]
      <4>1. CASE t = type
        <5>1. i \in 1..(n + 1) /\ i # n + 1 BY <1>6, <1>9, <2>2, <4>1
        <5>2. i \in 1..n /\ i <= n BY <5>1, <1>3
        <5>3. QED BY <1>3, <1>4, <1>6, <4>1, <5>1, <5>2
      <4>2. CASE t # type BY <1>6, <1>9, <4>2
      <4>3. QED BY <4>1, <4>2
    <3>2. /\ moduleList[t] \in Seq(Factory)
          /\ registry[moduleList[t][i]] = t
          /\ moduleListIndex[moduleList[t][i]] = i - 1
      BY <3>1 DEF RegistryTypeOK, FactoryListsAgree
    <3>3. moduleList[t][i] \in Factory
      BY <3>1, <3>2, LenProperties, ElementOfSeq
    <3>4. moduleList[t][i] # f
      BY <1>5, <3>2, TypesAssumption
    <3>5. QED BY <1>7, <3>1, <3>2, <3>3, <3>4
  <2>3. QED BY <2>1, <2>2
<1>10. QED BY <1>8, <1>9 DEF FactoryListsAgree, Registered

LEMMA RemoveKeepsTypes ==
  ASSUME RegistryTypeOK, FactoryListsAgree,
         NEW who, NEW f \in Factory, RemoveModule(who, f)
  PROVE  RegistryTypeOK'
<1> DEFINE list == moduleList[registry[f]]
           last == list[Len(list)]
<1>1. Registered(f) BY DEF RemoveModule, MayRemove
<1>2. /\ registry[f] \in Type /\ last \in Factory
      /\ ListWithout(f) \in Seq(Factory)
  BY <1>1, PlaceOfFactory, ShorterList
<1> HIDE DEF list, last
<1>3. /\ registry' = [registry EXCEPT ![f] = 0]
      /\ verified' = [verified EXCEPT ![f] = FALSE]
      /\ factoryOwner' = [factoryOwner EXCEPT ![f] = Nobody]
      /\ moduleList' = [moduleList EXCEPT ![registry[f]] = ListWithout(f)]
      /\ moduleListIndex' = [moduleListIndex EXCEPT
           ![last] = moduleListIndex[f], ![f] = 0]
      /\ UNCHANGED <<switches, ownerOf, logicContracts, reviewed>>
  BY DEF RemoveModule, list, last
<1>4. /\ registry' \in [Factory -> Type \cup {0}]
      /\ factoryOwner' \in [Factory -> Party \cup {Nobody}]
      /\ moduleList' \in [Type -> Seq(Factory)]
      /\ moduleListIndex' \in [Factory -> Nat]
  BY <1>2, <1>3 DEF RegistryTypeOK
<1>5. verified' \in [Factory -> BOOLEAN] BY <1>3 DEF RegistryTypeOK
<1>6. QED BY <1>3, <1>4, <1>5 DEF RegistryTypeOK, switches

LEMMA RemoveKeepsLists ==
  ASSUME RegistryTypeOK, FactoryListsAgree,
         NEW who, NEW f \in Factory, RemoveModule(who, f)
  PROVE  FactoryListsAgree'
<1> DEFINE type == registry[f]
           list == moduleList[type]
           n == Len(list)
           last == list[n]
           p == moduleListIndex[f] + 1
           short == ListWithout(f)
<1>1. Registered(f) BY DEF RemoveModule, MayRemove
<1>2. /\ type \in Type
      /\ list \in Seq(Factory)
      /\ p \in 1..n /\ list[p] = f
      /\ n \in 1..n
      /\ last \in Factory /\ registry[last] = type
      /\ moduleListIndex[last] = n - 1
  BY <1>1, PlaceOfFactory
<1>3. /\ short \in Seq(Factory)
      /\ Len(short) = n - 1
      /\ \A i \in 1..(n - 1) : short[i] = IF i = p THEN last ELSE list[i]
  BY <1>1, ShorterList
<1>4. n \in Nat /\ DOMAIN list = 1..n BY <1>2, LenProperties
<1>5. /\ registry' = [registry EXCEPT ![f] = 0]
      /\ moduleListIndex' = [moduleListIndex EXCEPT ![last] = p - 1, ![f] = 0]
      /\ moduleList' = [moduleList EXCEPT ![type] = short]
  <2>1. p - 1 = moduleListIndex[f] BY DEF RegistryTypeOK
  <2>2. QED BY <2>1 DEF RemoveModule
<1>6. DOMAIN short = 1..(n - 1) BY <1>3, LenProperties
<1> HIDE DEF short
<1>7. /\ moduleList'[type] = short
      /\ \A t \in Type : t # type => moduleList'[t] = moduleList[t]
  BY <1>2, <1>5 DEF RegistryTypeOK
<1>8. /\ registry'[f] = 0
      /\ \A g \in Factory : g # f => registry'[g] = registry[g]
      /\ last # f => moduleListIndex'[last] = p - 1
      /\ \A g \in Factory : g # f /\ g # last =>
           moduleListIndex'[g] = moduleListIndex[g]
  BY <1>2, <1>5 DEF RegistryTypeOK
<1>9. moduleListIndex[f] = p - 1 /\ moduleListIndex \in [Factory -> Nat]
  BY DEF RegistryTypeOK
<1>10. ASSUME NEW i \in 1..n
       PROVE  /\ list[i] \in Factory
              /\ registry[list[i]] = type
              /\ moduleListIndex[list[i]] = i - 1
  BY <1>2, <1>4, ElementOfSeq DEF FactoryListsAgree
<1>11. ASSUME NEW g \in Factory, registry'[g] # 0
       PROVE  /\ moduleListIndex'[g] + 1 \in DOMAIN moduleList'[registry'[g]]
              /\ moduleList'[registry'[g]][moduleListIndex'[g] + 1] = g
  <2>1. g # f /\ registry'[g] = registry[g] /\ registry[g] # 0
    BY <1>8, <1>11
  <2>2. /\ registry[g] \in Type
        /\ moduleListIndex[g] + 1 \in DOMAIN moduleList[registry[g]]
        /\ moduleList[registry[g]][moduleListIndex[g] + 1] = g
    BY <2>1 DEF FactoryListsAgree, Registered, RegistryTypeOK
  <2>3. CASE g = last
    <3>1. p # n BY <1>2, <2>1, <2>3
    <3>2. p \in 1..(n - 1) BY <1>2, <1>4, <3>1
    <3>3. moduleListIndex'[g] + 1 = p BY <1>2, <1>4, <1>8, <2>1, <2>3
    <3>4. short[p] = g BY <1>3, <2>3, <3>2
    <3>5. QED BY <1>2, <1>6, <1>7, <2>1, <2>3, <3>2, <3>3, <3>4
  <2>4. CASE g # last /\ registry[g] = type
    <3> DEFINE q == moduleListIndex[g] + 1
    <3>1. q \in 1..n /\ list[q] = g BY <1>4, <2>2, <2>4
    <3>2. q # p /\ q # n BY <1>2, <2>1, <2>4, <3>1
    <3>3. q \in 1..(n - 1) BY <1>4, <3>1, <3>2
    <3>4. short[q] = g BY <1>3, <3>1, <3>2, <3>3
    <3>5. moduleListIndex'[g] + 1 = q BY <1>8, <2>1, <2>4
    <3>6. QED BY <1>6, <1>7, <2>1, <2>4, <3>3, <3>4, <3>5
  <2>5. CASE registry[g] # type
    <3>1. g # last BY <1>2, <2>5
    <3>2. QED BY <1>7, <1>8, <2>1, <2>2, <2>5, <3>1
  <2>6. QED BY <2>3, <2>4, <2>5
<1>12. ASSUME NEW t \in Type, NEW i \in DOMAIN moduleList'[t]
       PROVE  /\ registry'[moduleList'[t][i]] = t
              /\ moduleListIndex'[moduleList'[t][i]] = i - 1
  <2>1. CASE t = type /\ i = p
    <3>1. p \in 1..(n - 1) BY <1>6, <1>7, <1>12, <2>1
    <3>2. moduleList'[t][i] = last BY <1>3, <1>7, <2>1, <3>1
    <3>3. last # f BY <1>2, <1>4, <1>9, <3>1
    <3>4. QED BY <1>2, <1>8, <2>1, <3>2, <3>3
  <2>2. CASE t = type /\ i # p
    <3>1. i \in 1..(n - 1) BY <1>6, <1>7, <1>12, <2>2
    <3>2. moduleList'[t][i] = list[i] BY <1>3, <1>7, <2>2, <3>1
    <3>3. i \in 1..n /\ i # n BY <1>4, <3>1
    <3>4. /\ list[i] \in Factory /\ registry[list[i]] = type
          /\ moduleListIndex[list[i]] = i - 1
      BY <1>10, <3>3
    <3>5. list[i] # f
      <4>1. i - 1 # p - 1 BY <1>2, <1>4, <2>2, <3>3
      <4>2. QED BY <1>9, <3>4, <4>1
    <3>6. list[i] # last
      <4>1. i - 1 # n - 1 BY <1>4, <3>3
      <4>2. QED BY <1>2, <3>4, <4>1
    <3>7. QED BY <1>8, <2>2, <3>2, <3>4, <3>5, <3>6
  <2>3. CASE t # type
    <3>1. i \in DOMAIN moduleList[t] /\ moduleList'[t][i] = moduleList[t][i]
      BY <1>7, <1>12, <2>3
    <3>2. /\ moduleList[t] \in Seq(Factory)
          /\ registry[moduleList[t][i]] = t
          /\ moduleListIndex[moduleList[t][i]] = i - 1
      BY <3>1 DEF RegistryTypeOK, FactoryListsAgree
    <3>3. moduleList[t][i] \in Factory BY <3>1, <3>2, LenProperties, ElementOfSeq
    <3>4. moduleList[t][i] # f /\ moduleList[t][i] # last
      BY <1>2, <2>3, <3>2
    <3>5. QED BY <1>8, <3>1, <3>2, <3>3, <3>4
  <2>4. QED BY <2>1, <2>2, <2>3
<1> HIDE DEF type, list, n, last, p
<1>13. QED BY <1>11, <1>12 DEF FactoryListsAgree, Registered

-----------------------------------------------------------------------------
(* The other actions leave the lists alone.                                *)

LEMMA ListsUntouched ==
  ASSUME FactoryListsAgree, UNCHANGED lists
  PROVE  FactoryListsAgree'
BY DEF FactoryListsAgree, Registered, lists

LEMMA InitCorrect == InitRegistry => RInv
<1> SUFFICES ASSUME InitRegistry PROVE RInv
  OBVIOUS
<1>1. <<>> \in Seq(Factory) BY EmptySeq
<1>2. logicContracts \in [Factory -> Seq(Logic)]
  <2>1. ASSUME NEW s \in [1..1 -> Logic] PROVE s \in Seq(Logic) OBVIOUS
  <2>2. QED BY <2>1 DEF InitRegistry
<1>3. RegistryTypeOK BY <1>1, <1>2 DEF InitRegistry, RegistryTypeOK
<1>4. FactoryListsAgree BY EmptySeq DEF InitRegistry, FactoryListsAgree, Registered
<1>5. VerifiedAsReviewed BY DEF InitRegistry, VerifiedAsReviewed
<1>6. QED BY <1>3, <1>4, <1>5 DEF RInv

LEMMA RegisterKeeps ==
  ASSUME RInv, NEW who, NEW f \in Factory, RegisterModule(who, f)
  PROVE  RInv'
<1>1. RegistryTypeOK' /\ FactoryListsAgree'
  BY RegisterKeepsTypes, RegisterKeepsLists DEF RInv
<1>2. VerifiedAsReviewed'
  <2>1. /\ registry' = [registry EXCEPT ![f] = TypesOf[f][1]]
        /\ UNCHANGED <<verified, logicContracts, reviewed>>
    BY DEF RegisterModule
  <2>2. TypesOf[f][1] # 0 BY RegisterKeepsTypes, TypesAssumption DEF RInv
  <2>3. ASSUME NEW g \in Factory, registry[g] # 0 PROVE registry'[g] # 0
    BY <2>1, <2>2, <2>3 DEF RInv, RegistryTypeOK
  <2>4. QED BY <2>1, <2>3 DEF RInv, VerifiedAsReviewed, Registered, LogicsOf
<1>3. QED BY <1>1, <1>2 DEF RInv

LEMMA RemoveKeeps ==
  ASSUME RInv, NEW who, NEW f \in Factory, RemoveModule(who, f)
  PROVE  RInv'
<1>1. RegistryTypeOK' /\ FactoryListsAgree'
  BY RemoveKeepsTypes, RemoveKeepsLists DEF RInv
<1>2. VerifiedAsReviewed'
  <2>1. /\ registry' = [registry EXCEPT ![f] = 0]
        /\ verified' = [verified EXCEPT ![f] = FALSE]
        /\ UNCHANGED <<logicContracts, reviewed>>
    BY DEF RemoveModule
  <2>2. ASSUME NEW g \in Factory, verified'[g]
        PROVE  verified[g] /\ registry'[g] = registry[g]
    BY <2>1, <2>2 DEF RInv, RegistryTypeOK
  <2>3. QED BY <2>1, <2>2 DEF RInv, VerifiedAsReviewed, Registered, LogicsOf
<1>3. QED BY <1>1, <1>2 DEF RInv

LEMMA VerifyKeeps ==
  ASSUME RInv, NEW f \in Factory, VerifyModule(f)
  PROVE  RInv'
<1>1. /\ Registered(f)
      /\ verified' = [verified EXCEPT ![f] = TRUE]
      /\ reviewed' = [reviewed EXCEPT ![f] = LogicsOf(f)]
      /\ UNCHANGED <<lists, switches, ownerOf, logicContracts>>
  BY DEF VerifyModule
<1>2. LogicsOf(f) \in SUBSET Logic
  <2>1. logicContracts[f] \in Seq(Logic) BY DEF RInv, RegistryTypeOK
  <2>2. QED BY <2>1, LenProperties, ElementOfSeq DEF LogicsOf
<1>3. RegistryTypeOK'
  BY <1>1, <1>2 DEF RInv, RegistryTypeOK, lists, switches
<1>4. FactoryListsAgree' BY <1>1, ListsUntouched DEF RInv
<1>5. VerifiedAsReviewed'
  <2>1. ASSUME NEW g \in Factory, verified'[g]
        PROVE  Registered(g)' /\ LogicsOf(g)' = reviewed'[g]
    <3>1. Registered(g)' = Registered(g) /\ LogicsOf(g)' = LogicsOf(g)
      BY <1>1 DEF Registered, LogicsOf, lists
    <3>2. CASE g = f
      BY <1>1, <3>1, <3>2 DEF RInv, RegistryTypeOK
    <3>3. CASE g # f
      <4>1. verified[g] /\ reviewed'[g] = reviewed[g]
        BY <1>1, <2>1, <3>3 DEF RInv, RegistryTypeOK
      <4>2. QED BY <3>1, <4>1 DEF RInv, VerifiedAsReviewed
    <3>4. QED BY <3>2, <3>3
  <2>2. QED BY <2>1 DEF VerifiedAsReviewed
<1>6. QED BY <1>3, <1>4, <1>5 DEF RInv

LEMMA UnverifyKeeps ==
  ASSUME RInv, NEW f \in Factory, UnverifyModule(f)
  PROVE  RInv'
<1>1. /\ verified' = [verified EXCEPT ![f] = FALSE]
      /\ UNCHANGED <<lists, switches, ownerOf, logicContracts, reviewed>>
  BY DEF UnverifyModule
<1>2. RegistryTypeOK' BY <1>1 DEF RInv, RegistryTypeOK, lists, switches
<1>3. FactoryListsAgree' BY <1>1, ListsUntouched DEF RInv
<1>4. VerifiedAsReviewed'
  <2>1. ASSUME NEW g \in Factory, verified'[g] PROVE verified[g]
    BY <1>1, <2>1 DEF RInv, RegistryTypeOK
  <2>2. QED
    BY <1>1, <2>1 DEF RInv, VerifiedAsReviewed, Registered, LogicsOf, lists
<1>5. QED BY <1>2, <1>3, <1>4 DEF RInv

\* New logic takes the verification away.
LEMMA ModifyKeeps ==
  ASSUME RInv, NEW f \in Factory, NEW contracts \in Seq(Logic),
         ModifyLogicContract(f, contracts)
  PROVE  RInv'
<1>1. /\ logicContracts' = [logicContracts EXCEPT ![f] = contracts]
      /\ verified' = [verified EXCEPT ![f] = FALSE]
      /\ UNCHANGED <<lists, switches, ownerOf, reviewed>>
  BY DEF ModifyLogicContract
<1>2. RegistryTypeOK' BY <1>1 DEF RInv, RegistryTypeOK, lists, switches
<1>3. FactoryListsAgree' BY <1>1, ListsUntouched DEF RInv
<1>4. VerifiedAsReviewed'
  <2>1. ASSUME NEW g \in Factory, verified'[g]
        PROVE  verified[g] /\ logicContracts'[g] = logicContracts[g]
    BY <1>1, <2>1 DEF RInv, RegistryTypeOK
  <2>2. QED
    BY <1>1, <2>1 DEF RInv, VerifiedAsReviewed, Registered, LogicsOf, lists
<1>5. QED BY <1>2, <1>3, <1>4 DEF RInv

LEMMA SetLogicKeeps ==
  ASSUME RInv, NEW f \in Factory, NEW logic \in Logic, SetLogicContract(f, logic)
  PROVE  RInv'
<1>1. logicContracts[f] \in Seq(Logic) BY DEF RInv, RegistryTypeOK
<1>2. Append(logicContracts[f], logic) \in Seq(Logic) BY <1>1, AppendProperties
<1>3. QED BY <1>2, ModifyKeeps DEF SetLogicContract

LEMMA UpdateLogicKeeps ==
  ASSUME RInv, NEW f \in Factory, NEW upgrade, NEW logic \in Logic,
         UpdateLogicContract(f, upgrade, logic)
  PROVE  RInv'
<1>1. logicContracts[f] \in Seq(Logic) BY DEF RInv, RegistryTypeOK
<1>2. upgrade + 1 \in 1..Len(logicContracts[f])
  BY <1>1, LenProperties DEF UpdateLogicContract, LatestUpgrade
<1>3. [logicContracts[f] EXCEPT ![upgrade + 1] = logic] \in Seq(Logic)
  BY <1>1, <1>2, ExceptSeq
<1>4. QED BY <1>3, ModifyKeeps DEF UpdateLogicContract

LEMMA OtherStepsKeep ==
  ASSUME RInv,
         \/ SetSwitch
         \/ \E f \in Factory, to \in Party : TransferOwnership(f, to)
         \/ UNCHANGED registryVars
  PROVE  RInv'
<1>1. /\ UNCHANGED <<lists, verified, logicContracts, reviewed>>
      /\ customModules' \in BOOLEAN /\ paused' \in BOOLEAN
      /\ ownerOf' \in [Factory -> Party]
  <2>1. CASE SetSwitch BY <2>1 DEF RInv, RegistryTypeOK, SetSwitch
  <2>2. ASSUME NEW f \in Factory, NEW to \in Party, TransferOwnership(f, to)
        PROVE <1>1
    BY <2>2 DEF RInv, RegistryTypeOK, TransferOwnership, switches
  <2>3. CASE UNCHANGED registryVars
    BY <2>3 DEF RInv, RegistryTypeOK, registryVars, switches
  <2>4. QED BY <2>1, <2>2, <2>3
<1>2. RegistryTypeOK' BY <1>1 DEF RInv, RegistryTypeOK, lists
<1>3. FactoryListsAgree' BY <1>1, ListsUntouched DEF RInv
<1>4. VerifiedAsReviewed'
  BY <1>1 DEF RInv, VerifiedAsReviewed, Registered, LogicsOf, lists
<1>5. QED BY <1>2, <1>3, <1>4 DEF RInv

LEMMA StepsKeep == RInv /\ [RegistryNext]_registryVars => RInv'
<1> SUFFICES ASSUME RInv, [RegistryNext]_registryVars PROVE RInv'
  OBVIOUS
<1>1. ASSUME NEW f \in Factory, NEW who \in Party, RegisterModule(who, f) PROVE RInv'
  BY <1>1, RegisterKeeps
<1>2. ASSUME NEW f \in Factory, NEW who \in Party, RemoveModule(who, f) PROVE RInv'
  BY <1>2, RemoveKeeps
<1>3. ASSUME NEW f \in Factory, VerifyModule(f) PROVE RInv'
  BY <1>3, VerifyKeeps
<1>4. ASSUME NEW f \in Factory, UnverifyModule(f) PROVE RInv'
  BY <1>4, UnverifyKeeps
<1>5. ASSUME NEW f \in Factory, NEW logic \in Logic, SetLogicContract(f, logic)
      PROVE  RInv'
  BY <1>5, SetLogicKeeps
<1>6. ASSUME NEW f \in Factory, NEW logic \in Logic, NEW upgrade \in 0..MaxUpgrade,
             UpdateLogicContract(f, upgrade, logic)
      PROVE  RInv'
  BY <1>6, UpdateLogicKeeps
<1>7. ASSUME NEW f \in Factory, NEW to \in Party, TransferOwnership(f, to) PROVE RInv'
  BY <1>7, OtherStepsKeep
<1>8. CASE SetSwitch \/ UNCHANGED registryVars BY <1>8, OtherStepsKeep
<1>9. QED
  BY <1>1, <1>2, <1>3, <1>4, <1>5, <1>6, <1>7, <1>8 DEF RegistryNext

-----------------------------------------------------------------------------
LEMMA RInvAlways == RegistrySpec => []RInv
BY InitCorrect, StepsKeep, PTL DEF RegistrySpec

\* registerModule and removeModule keep moduleList, moduleListIndex and registry
\* in agreement, whoever calls them in whatever order.
THEOREM FactoryListsAlwaysAgree == RegistrySpec => []FactoryListsAgree
<1>1. RInv => FactoryListsAgree BY DEF RInv
<1>2. QED BY <1>1, RInvAlways, PTL

\* verifyModule, unverifyModule, removeModule and the changes of logic contracts
\* never leave a factory verified with logic that was not there to be seen.
THEOREM VerifiedLogicWasReviewed == RegistrySpec => []VerifiedAsReviewed
<1>1. RInv => VerifiedAsReviewed BY DEF RInv
<1>2. QED BY <1>1, RInvAlways, PTL

-----------------------------------------------------------------------------
(* An array and the index of each of its members: what the arrays by type  *)
(* and those by name have in common.                                       *)

Indexed(array, S, index) ==
  /\ array \in Seq(S)
  /\ \A x \in S : /\ index[x] \in Nat
                  /\ index[x] + 1 \in 1..Len(array)
                  /\ array[index[x] + 1] = x
  /\ \A k \in 1..Len(array) : index[array[k]] = k - 1

\* A new member is pushed.
LEMMA PushIndexed ==
  ASSUME NEW S, NEW array, NEW index, NEW after, NEW m, m \notin S,
         Indexed(array, S, index),
         \A x \in S : after[x] = index[x],
         after[m] = Len(array)
  PROVE  Indexed(Append(array, m), S \cup {m}, after)
<1> DEFINE longer == Append(array, m)
           n == Len(array)
<1>1. array \in Seq(S) /\ n \in Nat BY LenProperties DEF Indexed
<1>2. /\ longer \in Seq(S \cup {m})
      /\ Len(longer) = n + 1
      /\ \A k \in 1..n : longer[k] = array[k]
      /\ longer[n + 1] = m
  <2>1. array \in Seq(S \cup {m})
    <3>1. \A k \in 1..n : array[k] \in S \cup {m} BY <1>1, ElementOfSeq
    <3>2. array = [k \in 1..n |-> array[k]] BY <1>1, SeqDef
    <3>3. QED BY <1>1, <3>1, <3>2, SeqDef
  <2>2. QED BY <1>1, <2>1, AppendProperties
<1> HIDE DEF longer, n
<1>3. ASSUME NEW x \in S \cup {m}
      PROVE  after[x] \in Nat /\ after[x] + 1 \in 1..(n + 1) /\ longer[after[x] + 1] = x
  <2>1. CASE x = m BY <1>1, <1>2, <2>1 DEF n
  <2>2. CASE x \in S
    <3>1. index[x] \in Nat /\ index[x] + 1 \in 1..n /\ array[index[x] + 1] = x
      BY <2>2 DEF Indexed, n
    <3>2. QED BY <1>1, <1>2, <2>2, <3>1
  <2>3. QED BY <2>1, <2>2
<1>4. ASSUME NEW k \in 1..(n + 1) PROVE after[longer[k]] = k - 1
  <2>1. CASE k = n + 1 BY <1>1, <1>2, <2>1 DEF n
  <2>2. CASE k # n + 1
    <3>1. k \in 1..n BY <1>1, <2>2
    <3>2. array[k] \in S BY <1>1, <3>1, ElementOfSeq DEF n
    <3>3. QED BY <1>2, <3>1, <3>2 DEF Indexed, n
  <2>3. QED BY <2>1, <2>2
<1>5. QED BY <1>2, <1>3, <1>4 DEF Indexed, longer

\* A member is taken out: the last one stands in its place.
LEMMA WithoutIndexed ==
  ASSUME NEW S, NEW array, NEW index, NEW after, NEW m \in S,
         Indexed(array, S, index),
         \A x \in S \ {m} :
           after[x] = IF x = Last(array) THEN index[m] ELSE index[x]
  PROVE  Indexed(Without(array, index[m]), S \ {m}, after)
<1> DEFINE n == Len(array)
           p == index[m] + 1
           last == array[n]
           moved == [array EXCEPT ![p] = last]
           short == SubSeq(moved, 1, n - 1)
<1>1. /\ array \in Seq(S) /\ n \in Nat
      /\ index[m] \in Nat /\ p \in 1..n /\ array[p] = m
  BY LenProperties DEF Indexed
<1>2. n \in 1..n /\ last \in S
  <2>1. n \in 1..n BY <1>1
  <2>2. QED BY <1>1, <2>1, ElementOfSeq
<1>3. Last(array) = last BY DEF Last
<1>4. /\ moved \in Seq(S)
      /\ Len(moved) = n
      /\ \A k \in 1..n : moved[k] = IF k = p THEN last ELSE array[k]
  <2> HIDE DEF last, p
  <2> QED BY <1>1, <1>2, ExceptSeq
<1>5. Without(array, index[m]) = short BY DEF Without
<1>6. index[last] = n - 1 BY <1>2 DEF Indexed
<1>7. \A k \in 1..n : array[k] \in S /\ index[array[k]] = k - 1
  BY <1>1, ElementOfSeq DEF Indexed
<1> HIDE DEF moved, last
<1>8. /\ Len(short) = n - 1
      /\ \A k \in 1..(n - 1) : short[k] = moved[k]
      /\ short \in Seq(S)
  <2>1. \A k \in 1..(n - 1) : moved[k] \in S BY <1>1, <1>4, ElementOfSeq
  <2>2. 1 \in Int /\ n - 1 \in Int BY <1>1
  <2>3. /\ short \in Seq(S)
        /\ Len(short) = IF 1 <= n - 1 THEN n - 1 - 1 + 1 ELSE 0
        /\ \A k \in 1..(n - 1 - 1 + 1) : short[k] = moved[1 + k - 1]
    BY <2>1, <2>2, SubSeqProperties
  <2>4. n - 1 \in Nat /\ n - 1 - 1 + 1 = n - 1 /\ (1 <= n - 1 \/ n - 1 = 0)
    <3> HIDE DEF n
    <3> QED BY <1>1, <1>2
  <2> HIDE DEF short, n
  <2>5. Len(short) = n - 1 BY <2>3, <2>4
  <2>6. ASSUME NEW k \in 1..(n - 1) PROVE short[k] = moved[k]
    <3>1. 1 + k - 1 = k /\ k \in 1..(n - 1 - 1 + 1) BY <2>4
    <3>2. QED BY <2>3, <3>1
  <2>7. QED BY <2>3, <2>5, <2>6
<1> HIDE DEF short, n, p
\* Every place but p keeps its member, and p gets the last one.
<1>9. ASSUME NEW k \in 1..(n - 1)
      PROVE  /\ short[k] \in S \ {m}
             /\ after[short[k]] = k - 1
  <2>1. k \in 1..n /\ k # n BY <1>1
  <2>2. CASE k = p
    <3>1. short[k] = last BY <1>4, <1>8, <2>1, <2>2
    <3>2. last # m BY <1>1, <1>6, <2>1, <2>2 DEF p
    <3>3. QED BY <1>1, <1>2, <1>3, <2>2, <3>1, <3>2 DEF p
  <2>3. CASE k # p
    <3>1. short[k] = array[k] BY <1>4, <1>8, <2>1, <2>3
    <3>2. array[k] \in S /\ index[array[k]] = k - 1 BY <1>7, <2>1
    <3>3. array[k] # m BY <1>1, <2>3, <3>2 DEF p
    <3>4. array[k] # last BY <1>1, <1>6, <2>1, <3>2
    <3>5. QED BY <1>3, <3>1, <3>2, <3>3, <3>4
  <2>4. QED BY <2>2, <2>3
<1>10. short \in Seq(S \ {m})
  <2>1. short = [k \in 1..(n - 1) |-> short[k]] BY <1>8, SeqDef
  <2>2. n - 1 \in Nat BY <1>1
  <2>3. QED BY <1>9, <2>1, <2>2, SeqDef
<1>11. ASSUME NEW x \in S \ {m}
       PROVE  after[x] \in Nat /\ after[x] + 1 \in 1..(n - 1) /\ short[after[x] + 1] = x
  <2>1. index[x] \in Nat /\ index[x] + 1 \in 1..n /\ array[index[x] + 1] = x
    BY <1>11 DEF Indexed, n
  <2>2. index[x] + 1 # p BY <1>1, <1>11, <2>1
  <2>3. CASE x = last
    <3>1. after[x] = index[m] BY <1>3, <2>3
    <3>2. p \in 1..(n - 1) BY <1>1, <1>6, <2>1, <2>2, <2>3
    <3>3. QED BY <1>1, <1>4, <1>8, <2>3, <3>1, <3>2 DEF p
  <2>4. CASE x # last
    <3>1. after[x] = index[x] BY <1>3, <2>4
    <3>2. index[x] + 1 # n BY <2>1, <2>4 DEF last
    <3>3. index[x] + 1 \in 1..(n - 1) BY <1>1, <2>1, <3>2
    <3>4. QED BY <1>4, <1>8, <2>1, <2>2, <3>1, <3>3
  <2>5. QED BY <2>3, <2>4
<1>12. QED BY <1>5, <1>8, <1>9, <1>10, <1>11 DEF Indexed

-----------------------------------------------------------------------------
(* The invariant.                                                          *)

ModuleData ==
  [name : Name, moduleFactory : Factory, isArchived : BOOLEAN,
   moduleTypes : Seq(Type), moduleIndexes : Seq(Nat), nameIndex : Nat,
   version : Nat, logic : Logic]

\* The types of a module are those of its factory, one index for each.
DataFits(data) ==
  /\ data \in ModuleData
  /\ data.moduleTypes = TypesOf[data.moduleFactory]
  /\ DOMAIN data.moduleIndexes = DOMAIN data.moduleTypes
  /\ HasDistinctTypes(data.moduleFactory)

ModulesTypeOK ==
  /\ nameOf \in [Factory -> Name]
  /\ DOMAIN modules = Type
  /\ DOMAIN names = Name
  /\ \A m \in Attached : DataFits(modulesToData[m])

OfType(t) == {m \in Attached : HasType(modulesToData[m], t)}
TypeIndex(t) == [m \in Attached |-> IndexIn(modulesToData[m], t)]
Named(n) == {m \in Attached : modulesToData[m].name = n}
NameIndex == [m \in Attached |-> modulesToData[m].nameIndex]

ArraysIndexed ==
  /\ \A t \in Type : Indexed(modules[t], OfType(t), TypeIndex(t))
  /\ \A n \in Name : Indexed(names[n], Named(n), NameIndex)

\* What a factory was registered with, and an owner it has only while it is.
FactoryFacts ==
  \A f \in Factory :
    /\ Registered(f) => HasDistinctTypes(f)
    /\ factoryOwner[f] # Nobody => Registered(f)
    /\ logicContracts[f] # <<>>

MInv == RInv /\ FactoryFacts /\ ModulesTypeOK /\ ArraysIndexed

-----------------------------------------------------------------------------
(* Indexes by type.                                                        *)

\* The types of a factory are distinct, so each has one index.
LEMMA IndexInIs ==
  ASSUME NEW data, DataFits(data), NEW i \in DOMAIN data.moduleTypes
  PROVE  IndexIn(data, data.moduleTypes[i]) = data.moduleIndexes[i]
<1> DEFINE j == CHOOSE k \in DOMAIN data.moduleTypes :
                  data.moduleTypes[k] = data.moduleTypes[i]
<1>1. j \in DOMAIN data.moduleTypes /\ data.moduleTypes[j] = data.moduleTypes[i]
  OBVIOUS
<1> HIDE DEF j
<1>2. j = i BY <1>1 DEF DataFits, HasDistinctTypes
<1>3. QED BY <1>2 DEF IndexIn, j

LEMMA HasTypeAt ==
  ASSUME NEW data, NEW t
  PROVE  HasType(data, t) <=>
           \E i \in DOMAIN data.moduleTypes : data.moduleTypes[i] = t
BY DEF HasType, Range

\* What useModule lets pass is registered.
LEMMA UsedIsRegistered ==
  ASSUME MInv, NEW f \in Factory, CanUse(f)
  PROVE  HasDistinctTypes(f)
<1>1. CASE verified[f]
  BY <1>1 DEF MInv, RInv, VerifiedAsReviewed, FactoryFacts
<1>2. CASE factoryOwner[f] = TokenOwner
  <2>1. factoryOwner[f] # Nobody BY <1>2, PartyAssumption, TokenOwnerAssumption
  <2>2. QED BY <2>1 DEF MInv, FactoryFacts
<1>3. QED BY <1>1, <1>2 DEF CanUse, MayUse

\* The latest logic contract of a factory is one of them.
LEMMA LogicsAreThere ==
  ASSUME MInv, NEW f \in Factory
  PROVE  /\ LatestUpgrade(f) \in Nat
         /\ \A k \in 0..LatestUpgrade(f) :
              logicContracts[f][k + 1] \in Logic /\ logicContracts[f][k + 1] \in LogicsOf(f)
<1>1. logicContracts[f] \in Seq(Logic) /\ logicContracts[f] # <<>>
  BY DEF MInv, RInv, RegistryTypeOK, FactoryFacts
<1>2. Len(logicContracts[f]) \in Nat /\ Len(logicContracts[f]) # 0
  BY <1>1, LenProperties, EmptySeq
<1>3. DOMAIN logicContracts[f] = 1..Len(logicContracts[f]) BY <1>1, LenProperties
<1>4. ASSUME NEW k \in 0..(Len(logicContracts[f]) - 1)
      PROVE  logicContracts[f][k + 1] \in Logic /\ logicContracts[f][k + 1] \in LogicsOf(f)
  <2>1. k + 1 \in 1..Len(logicContracts[f]) BY <1>2
  <2>2. QED BY <1>1, <1>3, <2>1, ElementOfSeq DEF LogicsOf
<1>5. QED BY <1>2, <1>4 DEF LatestUpgrade

-----------------------------------------------------------------------------
(* The registry and the factories.                                         *)

LEMMA InitM_MInv == InitM => MInv
<1> SUFFICES ASSUME InitM PROVE MInv OBVIOUS
<1>1. RInv BY InitCorrect DEF InitM
<1>2. FactoryFacts
  <2>1. ASSUME NEW f \in Factory
        PROVE  registry[f] = 0 /\ factoryOwner[f] = Nobody /\ logicContracts[f] # <<>>
    <3>1. logicContracts[f] \in [1..1 -> Logic] BY DEF InitM, InitRegistry
    <3>2. 1 \in DOMAIN logicContracts[f] BY <3>1
    <3>3. QED BY <3>2 DEF InitM, InitRegistry
  <2>2. QED BY <2>1 DEF FactoryFacts, Registered
<1>3. Attached = {} BY DEF InitM, Attached
<1>4. ModulesTypeOK BY <1>3 DEF InitM, ModulesTypeOK
<1>5. Indexed(<<>>, {}, TypeIndex(0)) /\ \A index : Indexed(<<>>, {}, index)
  BY EmptySeq DEF Indexed
<1>6. ArraysIndexed
  <2>1. \A t : OfType(t) = {} /\ Named(t) = {} BY <1>3 DEF OfType, Named
  <2>2. /\ \A t \in Type : modules[t] = <<>>
        /\ \A n \in Name : names[n] = <<>>
    BY DEF InitM
  <2>3. QED BY <1>5, <2>1, <2>2 DEF ArraysIndexed
<1>7. QED BY <1>1, <1>2, <1>4, <1>6 DEF MInv

\* Steps of the registry keep what is known of the factories.
LEMMA RegistryKeepsFacts ==
  ASSUME RInv, FactoryFacts, [RegistryNext]_registryVars
  PROVE  FactoryFacts'
<1>1. ASSUME NEW f \in Factory, NEW who \in Party, RegisterModule(who, f)
      PROVE  FactoryFacts'
  <2>1. /\ registry' = [registry EXCEPT ![f] = TypesOf[f][1]]
        /\ factoryOwner' = [factoryOwner EXCEPT ![f] = ownerOf[f]]
        /\ HasDistinctTypes(f)
        /\ logicContracts' = logicContracts
    BY <1>1 DEF RegisterModule
  <2>2. TypesOf[f][1] # 0 BY <1>1, RegisterKeepsTypes, TypesAssumption DEF RInv
  <2>3. QED
    BY <2>1, <2>2 DEF RInv, RegistryTypeOK, FactoryFacts, Registered, HasDistinctTypes
<1>2. ASSUME NEW f \in Factory, NEW who \in Party, RemoveModule(who, f)
      PROVE  FactoryFacts'
  BY <1>2 DEF RInv, RegistryTypeOK, FactoryFacts, Registered, HasDistinctTypes, RemoveModule
<1>3. ASSUME NEW f \in Factory, NEW contracts \in Seq(Logic), contracts # <<>>,
             ModifyLogicContract(f, contracts)
      PROVE  FactoryFacts'
  BY <1>3 DEF RInv, RegistryTypeOK, FactoryFacts, Registered, HasDistinctTypes,
              ModifyLogicContract, lists
<1>4. ASSUME NEW f \in Factory, NEW logic \in Logic, SetLogicContract(f, logic)
      PROVE  FactoryFacts'
  <2>1. logicContracts[f] \in Seq(Logic) BY DEF RInv, RegistryTypeOK
  <2>2. Append(logicContracts[f], logic) \in Seq(Logic)
        /\ Append(logicContracts[f], logic) # <<>>
    BY <2>1, AppendProperties
  <2>3. QED BY <1>3, <1>4, <2>2 DEF SetLogicContract
<1>5. ASSUME NEW f \in Factory, NEW logic \in Logic, NEW upgrade \in 0..MaxUpgrade,
             UpdateLogicContract(f, upgrade, logic)
      PROVE  FactoryFacts'
  <2> DEFINE contracts == [logicContracts[f] EXCEPT ![upgrade + 1] = logic]
  <2>1. logicContracts[f] \in Seq(Logic) BY DEF RInv, RegistryTypeOK
  <2>2. upgrade + 1 \in 1..Len(logicContracts[f])
    BY <1>5, <2>1, LenProperties DEF UpdateLogicContract, LatestUpgrade
  <2>3. contracts \in Seq(Logic) /\ Len(contracts) = Len(logicContracts[f])
    BY <2>1, <2>2, ExceptSeq
  <2>4. contracts # <<>>
    BY <2>1, <2>2, <2>3, EmptySeq, LenProperties
  <2>5. QED BY <1>3, <1>5, <2>3, <2>4 DEF UpdateLogicContract
<1>6. CASE UNCHANGED <<registry, factoryOwner, logicContracts>>
  BY <1>6 DEF FactoryFacts, Registered, HasDistinctTypes
<1>7. ASSUME NEW f \in Factory, VerifyModule(f) PROVE FactoryFacts'
  BY <1>6, <1>7 DEF VerifyModule, lists
<1>8. ASSUME NEW f \in Factory, UnverifyModule(f) PROVE FactoryFacts'
  BY <1>6, <1>8 DEF UnverifyModule, lists
<1>9. ASSUME NEW f \in Factory, NEW to \in Party, TransferOwnership(f, to)
      PROVE  FactoryFacts'
  BY <1>6, <1>9 DEF TransferOwnership, lists
<1>10. CASE SetSwitch BY <1>6, <1>10 DEF SetSwitch, lists
<1>11. CASE UNCHANGED registryVars BY <1>6, <1>11 DEF registryVars, lists
<1>12. QED
  BY <1>1, <1>2, <1>4, <1>5, <1>7, <1>8, <1>9, <1>10, <1>11 DEF RegistryNext

-----------------------------------------------------------------------------
(* The modules.                                                            *)

LEMMA SameIndexed ==
  ASSUME NEW S, NEW array, NEW index, NEW after,
         Indexed(array, S, index), \A x \in S : after[x] = index[x]
  PROVE  Indexed(array, S, after)
<1>1. \A k \in 1..Len(array) : array[k] \in S BY ElementOfSeq DEF Indexed
<1>2. QED BY <1>1 DEF Indexed

\* Steps that change nothing of a module but its switch, its version and its
\* logic.
LEMMA PlacesUntouched ==
  ASSUME MInv, RInv', FactoryFacts',
         nameOf' \in [Factory -> Name],
         UNCHANGED <<modules, names>>,
         Attached' = Attached,
         \A x \in Attached :
           /\ modulesToData'[x] \in ModuleData
           /\ modulesToData'[x].name = modulesToData[x].name
           /\ modulesToData'[x].moduleFactory = modulesToData[x].moduleFactory
           /\ modulesToData'[x].moduleTypes = modulesToData[x].moduleTypes
           /\ modulesToData'[x].moduleIndexes = modulesToData[x].moduleIndexes
           /\ modulesToData'[x].nameIndex = modulesToData[x].nameIndex
  PROVE  MInv'
<1>1. ASSUME NEW x \in Attached PROVE DataFits(modulesToData'[x])
  <2>1. DataFits(modulesToData[x]) BY DEF MInv, ModulesTypeOK
  <2>2. QED BY <2>1 DEF DataFits
<1>2. ModulesTypeOK' BY <1>1 DEF MInv, ModulesTypeOK, DataFits, HasDistinctTypes
<1>3. ASSUME NEW t
      PROVE  /\ OfType(t)' = OfType(t)
             /\ \A x \in OfType(t) : TypeIndex(t)'[x] = TypeIndex(t)[x]
  <2>1. ASSUME NEW x \in Attached
        PROVE  /\ HasType(modulesToData'[x], t) <=> HasType(modulesToData[x], t)
               /\ IndexIn(modulesToData'[x], t) = IndexIn(modulesToData[x], t)
    <3>1. /\ modulesToData'[x].moduleTypes = modulesToData[x].moduleTypes
          /\ modulesToData'[x].moduleIndexes = modulesToData[x].moduleIndexes
      OBVIOUS
    <3>2. QED BY <3>1 DEF HasType, IndexIn
  <2>2. OfType(t)' = OfType(t) BY <2>1 DEF OfType
  <2>3. QED BY <2>1, <2>2 DEF OfType, TypeIndex
<1>4. ASSUME NEW n
      PROVE  /\ Named(n)' = Named(n)
             /\ \A x \in Named(n) : NameIndex'[x] = NameIndex[x]
  BY DEF Named, NameIndex
<1>5. ASSUME NEW t \in Type PROVE Indexed(modules[t], OfType(t), TypeIndex(t)')
  BY <1>3, SameIndexed DEF MInv, ArraysIndexed
<1>6. ASSUME NEW n \in Name PROVE Indexed(names[n], Named(n), NameIndex')
  BY <1>4, SameIndexed DEF MInv, ArraysIndexed
<1>7. ArraysIndexed' BY <1>3, <1>4, <1>5, <1>6 DEF ArraysIndexed
<1>8. QED BY <1>2, <1>7 DEF MInv

\* Steps of the registry and of the factories, and new versions of the token.
LEMMA ModulesUntouched ==
  ASSUME MInv, [RegistryNext]_registryVars,
         nameOf' \in [Factory -> Name],
         UNCHANGED <<modules, names, modulesToData>>
  PROVE  MInv'
<1>1. RInv' BY StepsKeep DEF MInv
<1>2. FactoryFacts' BY RegistryKeepsFacts DEF MInv
<1>3. Attached' = Attached BY DEF Attached
<1>4. QED BY <1>1, <1>2, <1>3, PlacesUntouched DEF MInv, ModulesTypeOK, DataFits

LEMMA FactoriesUntouched ==
  ASSUME MInv, UNCHANGED <<registryVars, nameOf>>
  PROVE  RInv' /\ FactoryFacts' /\ nameOf' \in [Factory -> Name]
<1>1. [RegistryNext]_registryVars OBVIOUS
<1>2. QED BY <1>1, StepsKeep, RegistryKeepsFacts DEF MInv, ModulesTypeOK

LEMMA SwitchKeeps ==
  ASSUME MInv, NEW m, ArchiveModule(m) \/ UnarchiveModule(m)
  PROVE  MInv'
<1>1. PICK archived \in BOOLEAN :
        modulesToData' = [modulesToData EXCEPT ![m].isArchived = archived]
  BY DEF ArchiveModule, UnarchiveModule
<1>2. m \in Attached /\ UNCHANGED <<registryVars, nameOf, modules, names>>
  BY DEF ArchiveModule, UnarchiveModule
<1>3. Attached' = Attached BY <1>1 DEF Attached
<1>4. ASSUME NEW x \in Attached
      PROVE  modulesToData'[x] =
               IF x = m THEN [modulesToData[x] EXCEPT !.isArchived = archived]
                        ELSE modulesToData[x]
  BY <1>1 DEF Attached
<1>5. \A x \in Attached : modulesToData[x] \in ModuleData
  BY DEF MInv, ModulesTypeOK, DataFits
<1>6. ASSUME NEW x \in Attached
      PROVE  /\ modulesToData'[x] \in ModuleData
             /\ modulesToData'[x].name = modulesToData[x].name
             /\ modulesToData'[x].moduleFactory = modulesToData[x].moduleFactory
             /\ modulesToData'[x].moduleTypes = modulesToData[x].moduleTypes
             /\ modulesToData'[x].moduleIndexes = modulesToData[x].moduleIndexes
             /\ modulesToData'[x].nameIndex = modulesToData[x].nameIndex
  BY <1>4, <1>5 DEF ModuleData
<1>7. QED BY <1>2, <1>3, <1>6, FactoriesUntouched, PlacesUntouched

LEMMA UpgradeKeeps ==
  ASSUME MInv, NEW m, UpgradeModule(m)
  PROVE  MInv'
<1> DEFINE data == modulesToData[m]
           f == data.moduleFactory
           logic == logicContracts[f][data.version + 2]
<1>1. /\ m \in Attached
      /\ modulesToData' = [modulesToData EXCEPT ![m].version = @ + 1, ![m].logic = logic]
      /\ UNCHANGED <<registryVars, nameOf, modules, names>>
      /\ data.version < LatestUpgrade(f)
  BY DEF UpgradeModule
<1>2. \A x \in Attached : modulesToData[x] \in ModuleData
  BY DEF MInv, ModulesTypeOK, DataFits
<1>3. f \in Factory /\ data.version \in Nat BY <1>1, <1>2 DEF ModuleData
<1>4. LatestUpgrade(f) \in Nat
      /\ \A k \in 0..LatestUpgrade(f) : logicContracts[f][k + 1] \in Logic
  BY <1>3, LogicsAreThere
<1>5. logic \in Logic
  <2>1. data.version + 1 \in 0..LatestUpgrade(f) BY <1>1, <1>3, <1>4
  <2>2. (data.version + 1) + 1 = data.version + 2 BY <1>3
  <2>3. QED BY <1>4, <2>1, <2>2
<1>6. Attached' = Attached BY <1>1 DEF Attached
<1> HIDE DEF logic
<1>7. ASSUME NEW x \in Attached
      PROVE  modulesToData'[x] =
               IF x = m THEN [data EXCEPT !.version = @ + 1, !.logic = logic]
                        ELSE modulesToData[x]
  BY <1>1 DEF Attached
<1>8. ASSUME NEW x \in Attached
      PROVE  /\ modulesToData'[x] \in ModuleData
             /\ modulesToData'[x].name = modulesToData[x].name
             /\ modulesToData'[x].moduleFactory = modulesToData[x].moduleFactory
             /\ modulesToData'[x].moduleTypes = modulesToData[x].moduleTypes
             /\ modulesToData'[x].moduleIndexes = modulesToData[x].moduleIndexes
             /\ modulesToData'[x].nameIndex = modulesToData[x].nameIndex
  <2>1. CASE x # m BY <1>2, <1>7, <2>1
  <2>2. CASE x = m
    <3>1. modulesToData'[m] = [data EXCEPT !.version = @ + 1, !.logic = logic]
      BY <1>1, <1>7
    <3>2. data \in ModuleData /\ data.version + 1 \in Nat BY <1>1, <1>2, <1>3
    <3> HIDE DEF data
    <3>3. QED BY <1>5, <2>2, <3>1, <3>2 DEF ModuleData, data
  <2>3. QED BY <2>1, <2>2
<1>9. QED BY <1>1, <1>6, <1>8, FactoriesUntouched, PlacesUntouched

\* A new module is pushed to the array of each of its types, and of its name.
LEMMA AddKeeps ==
  ASSUME MInv, NEW f \in Factory, NEW m, NEW archived \in BOOLEAN,
         AddModule(f, m, archived)
  PROVE  MInv'
<1> DEFINE types == TypesOf[f]
           data == modulesToData'[m]
<1>1. /\ m \notin Attached
      /\ CanUse(f)
      /\ UNCHANGED <<registryVars, nameOf>>
      /\ Attached' = Attached \cup {m}
      /\ \A x \in Attached : modulesToData'[x] = modulesToData[x]
      /\ data = [name |-> nameOf[f], moduleFactory |-> f, isArchived |-> archived,
                 moduleTypes |-> types, moduleIndexes |-> NextIndexes(types),
                 nameIndex |-> Len(names[nameOf[f]]),
                 version |-> LatestUpgrade(f),
                 logic |-> logicContracts[f][LatestUpgrade(f) + 1]]
  BY DEF AddModule, Attached
<1>2. nameOf[f] \in Name BY DEF MInv, ModulesTypeOK
<1>3. types \in Seq(Type) /\ DOMAIN types = 1..Len(types) /\ Len(types) \in Nat
  BY TypesAssumption, LenProperties
<1>4. \A t \in Type : Len(modules[t]) \in Nat
  BY LenProperties DEF MInv, ArraysIndexed, Indexed
<1>5. NextIndexes(types) \in Seq(Nat) /\ DOMAIN NextIndexes(types) = DOMAIN types
  <2>1. \A i \in 1..Len(types) : Len(modules[types[i]]) \in Nat
    BY <1>3, <1>4, ElementOfSeq
  <2>2. NextIndexes(types) = [i \in 1..Len(types) |-> Len(modules[types[i]])]
    BY <1>3 DEF NextIndexes
  <2>3. QED BY <1>3, <2>1, <2>2, SeqDef
<1>6. Len(names[nameOf[f]]) \in Nat
  BY <1>2, LenProperties DEF MInv, ArraysIndexed, Indexed
<1>7. LatestUpgrade(f) \in Nat /\ logicContracts[f][LatestUpgrade(f) + 1] \in Logic
  <2>1. LatestUpgrade(f) \in Nat BY LogicsAreThere
  <2>2. LatestUpgrade(f) \in 0..LatestUpgrade(f) BY <2>1
  <2>3. QED BY <2>1, <2>2, LogicsAreThere
<1> HIDE DEF types
<1>8. DataFits(data)
  <2>1. HasDistinctTypes(f) BY <1>1, UsedIsRegistered
  <2>2. data \in ModuleData
    BY <1>1, <1>2, <1>3, <1>5, <1>6, <1>7 DEF ModuleData
  <2>3. /\ data.moduleFactory = f /\ data.moduleTypes = types
        /\ data.moduleIndexes = NextIndexes(types)
    BY <1>1
  <2>4. QED BY <1>5, <2>1, <2>2, <2>3 DEF DataFits, types
<1>9. /\ data.moduleTypes = types /\ data.moduleIndexes = NextIndexes(types)
      /\ data.name = nameOf[f] /\ data.nameIndex = Len(names[nameOf[f]])
  BY <1>1
<1> HIDE DEF data
<1>10. ModulesTypeOK'
  <2>1. HasDistinctTypes(f)' <=> HasDistinctTypes(f) BY DEF HasDistinctTypes
  <2>2. \A x \in Attached' : DataFits(modulesToData'[x])
    BY <1>1, <1>8 DEF data, MInv, ModulesTypeOK
  <2>3. DOMAIN modules' = Type /\ DOMAIN names' = Name
    BY DEF AddModule, MInv, ModulesTypeOK
  <2>4. nameOf' \in [Factory -> Name] BY <1>1 DEF MInv, ModulesTypeOK
  <2>5. QED BY <2>2, <2>3, <2>4 DEF ModulesTypeOK, DataFits, HasDistinctTypes
<1>11. ASSUME NEW t \in Type PROVE Indexed(modules'[t], OfType(t)', TypeIndex(t)')
  <2>1. Indexed(modules[t], OfType(t), TypeIndex(t)) BY DEF MInv, ArraysIndexed
  <2>2. m \notin OfType(t) BY <1>1 DEF OfType
  <2>3. \A x \in OfType(t) : TypeIndex(t)'[x] = TypeIndex(t)[x]
    BY <1>1 DEF OfType, TypeIndex
  <2>4. modules'[t] = IF \E i \in DOMAIN types : types[i] = t
                      THEN Append(modules[t], m) ELSE modules[t]
    BY DEF AddModule, types
  <2>5. HasType(data, t) <=> \E i \in DOMAIN types : types[i] = t
    BY <1>9, HasTypeAt
  <2>6. OfType(t)' = IF HasType(data, t) THEN OfType(t) \cup {m} ELSE OfType(t)
    BY <1>1 DEF OfType, data
  <2>7. CASE ~HasType(data, t) BY <2>1, <2>3, <2>4, <2>5, <2>6, <2>7, SameIndexed
  <2>8. CASE HasType(data, t)
    <3>1. PICK i \in DOMAIN types : types[i] = t BY <2>5, <2>8
    <3>2. IndexIn(data, t) = NextIndexes(types)[i]
      BY <1>8, <1>9, <3>1, IndexInIs
    <3>3. NextIndexes(types)[i] = Len(modules[t]) BY <3>1 DEF NextIndexes
    <3>4. TypeIndex(t)'[m] = Len(modules[t]) BY <1>1, <3>2, <3>3 DEF TypeIndex, data
    <3>5. Indexed(Append(modules[t], m), OfType(t) \cup {m}, TypeIndex(t)')
      BY <2>1, <2>2, <2>3, <3>4, PushIndexed
    <3>6. QED BY <2>4, <2>5, <2>6, <2>8, <3>5
  <2>9. QED BY <2>7, <2>8
<1>12. ASSUME NEW n \in Name PROVE Indexed(names'[n], Named(n)', NameIndex')
  <2>1. Indexed(names[n], Named(n), NameIndex) BY DEF MInv, ArraysIndexed
  <2>2. m \notin Named(n) BY <1>1 DEF Named
  <2>3. \A x \in Named(n) : NameIndex'[x] = NameIndex[x]
    BY <1>1 DEF Named, NameIndex
  <2>4. names'[n] = IF n = nameOf[f] THEN Append(names[n], m) ELSE names[n]
    BY DEF AddModule, MInv, ModulesTypeOK
  <2>5. Named(n)' = IF n = nameOf[f] THEN Named(n) \cup {m} ELSE Named(n)
    BY <1>1, <1>9 DEF Named, data
  <2>6. CASE n # nameOf[f] BY <2>1, <2>3, <2>4, <2>5, <2>6, SameIndexed
  <2>7. CASE n = nameOf[f]
    <3>1. NameIndex'[m] = Len(names[n]) BY <1>1, <1>9, <2>7 DEF NameIndex, data
    <3>2. Indexed(Append(names[n], m), Named(n) \cup {m}, NameIndex')
      BY <2>1, <2>2, <2>3, <3>1, PushIndexed
    <3>3. QED BY <2>4, <2>5, <2>7, <3>2
  <2>8. QED BY <2>6, <2>7
<1>13. ArraysIndexed' BY <1>11, <1>12 DEF ArraysIndexed
<1>14. RInv' /\ FactoryFacts' BY <1>1, FactoriesUntouched
<1>15. QED BY <1>10, <1>13, <1>14 DEF MInv

\* A module leaves the array of each of its types, and that of its name.
LEMMA RemovalKeeps ==
  ASSUME MInv, NEW m, RemoveAttached(m)
  PROVE  MInv'
<1> DEFINE data == modulesToData[m]
<1>1. /\ m \in Attached
      /\ modules' = ArraysWithout(data)
      /\ names' = [names EXCEPT ![data.name] = Without(names[data.name], data.nameIndex)]
      /\ UNCHANGED <<registryVars, nameOf>>
  BY DEF RemoveAttached
<1>2. /\ Attached' = Attached \ {m}
      /\ \A x \in Attached \ {m} :
           modulesToData'[x] =
             [modulesToData[x] EXCEPT
                !.moduleIndexes = IndexesWithout(data, x),
                !.nameIndex = IF x = Last(names[data.name]) THEN data.nameIndex
                                                            ELSE @]
  BY DEF RemoveAttached, Attached
<1>3. \A x \in Attached : DataFits(modulesToData[x]) BY DEF MInv, ModulesTypeOK
<1>4. data \in ModuleData BY <1>1, <1>3 DEF DataFits
<1>5. data.name \in Name /\ data.nameIndex \in Nat BY <1>4 DEF ModuleData
<1> HIDE DEF data
\* What is left of the others.
<1>6. ASSUME NEW x \in Attached \ {m}
      PROVE  /\ modulesToData'[x].moduleIndexes = IndexesWithout(data, x)
             /\ modulesToData'[x].nameIndex =
                  IF x = Last(names[data.name]) THEN data.nameIndex
                                                ELSE modulesToData[x].nameIndex
             /\ modulesToData'[x].name = modulesToData[x].name
             /\ modulesToData'[x].moduleFactory = modulesToData[x].moduleFactory
             /\ modulesToData'[x].moduleTypes = modulesToData[x].moduleTypes
             /\ IndexesWithout(data, x) \in Seq(Nat) => modulesToData'[x] \in ModuleData
  <2> DEFINE before == modulesToData[x]
             index == IF x = Last(names[data.name]) THEN data.nameIndex
                                                    ELSE before.nameIndex
  <2>1. before \in ModuleData BY <1>3 DEF DataFits
  <2>2. index \in Nat BY <1>5, <2>1 DEF ModuleData
  <2>3. modulesToData'[x] =
          [before EXCEPT !.moduleIndexes = IndexesWithout(data, x), !.nameIndex = index]
    BY <1>2
  <2> HIDE DEF before, index
  <2>4. /\ modulesToData'[x].moduleIndexes = IndexesWithout(data, x)
        /\ modulesToData'[x].nameIndex = index
        /\ modulesToData'[x].name = before.name
        /\ modulesToData'[x].moduleFactory = before.moduleFactory
        /\ modulesToData'[x].moduleTypes = before.moduleTypes
        /\ IndexesWithout(data, x) \in Seq(Nat) => modulesToData'[x] \in ModuleData
    BY <2>1, <2>2, <2>3 DEF ModuleData
  <2>5. QED BY <2>4 DEF before, index
\* The index of a type that m has.
<1>7. ASSUME NEW t, HasType(data, t)
      PROVE  IndexIn(data, t) \in Nat
  <2>1. PICK i \in DOMAIN data.moduleTypes : data.moduleTypes[i] = t
    BY <1>7, HasTypeAt
  <2>2. DataFits(data) BY <1>1, <1>3 DEF data
  <2>3. IndexIn(data, t) = data.moduleIndexes[i] BY <2>1, <2>2, IndexInIs
  <2>4. data.moduleIndexes \in Seq(Nat) /\ i \in DOMAIN data.moduleIndexes
    BY <1>4, <2>1, <2>2 DEF ModuleData, DataFits
  <2>5. QED BY <2>3, <2>4, LenProperties, ElementOfSeq
<1>8. ASSUME NEW x \in Attached \ {m}
      PROVE  DataFits(modulesToData'[x])
  <2> DEFINE types == modulesToData[x].moduleTypes
             indexes == modulesToData[x].moduleIndexes
  <2>1. DataFits(modulesToData[x]) BY <1>3
  <2>2. types \in Seq(Type) /\ indexes \in Seq(Nat) /\ DOMAIN indexes = DOMAIN types
    BY <2>1 DEF DataFits, ModuleData
  <2>3. DOMAIN types = 1..Len(types) /\ Len(types) \in Nat BY <2>2, LenProperties
  <2>4. ASSUME NEW i \in 1..Len(types) PROVE IndexesWithout(data, x)[i] \in Nat
    <3>1. indexes[i] \in Nat BY <2>2, <2>3, LenProperties, ElementOfSeq
    <3>2. HasType(data, types[i]) => IndexIn(data, types[i]) \in Nat BY <1>7
    <3>3. IndexesWithout(data, x)[i] =
            IF HasType(data, types[i]) /\ Last(modules[types[i]]) = x
              THEN IndexIn(data, types[i]) ELSE indexes[i]
      BY <2>3 DEF IndexesWithout
    <3>4. QED BY <3>1, <3>2, <3>3
  <2>5. IndexesWithout(data, x) = [i \in 1..Len(types) |-> IndexesWithout(data, x)[i]]
    BY <2>3 DEF IndexesWithout
  <2>6. IndexesWithout(data, x) \in Seq(Nat)
    <3> HIDE DEF types
    <3>1. IndexesWithout(data, x) \in [1..Len(types) -> Nat] BY <2>4, <2>5
    <3>2. QED BY <2>3, <3>1, SeqDef
  <2>7. DOMAIN IndexesWithout(data, x) = DOMAIN types BY DEF IndexesWithout
  <2>8. QED BY <1>6, <2>1, <2>6, <2>7 DEF DataFits
<1>9. ModulesTypeOK'
  <2>1. DOMAIN modules' = Type BY <1>1 DEF ArraysWithout
  <2>2. DOMAIN names' = Name BY <1>1 DEF MInv, ModulesTypeOK
  <2>3. nameOf' \in [Factory -> Name] BY <1>1 DEF MInv, ModulesTypeOK
  <2>4. QED BY <1>2, <1>8, <2>1, <2>2, <2>3 DEF ModulesTypeOK, DataFits, HasDistinctTypes
<1>10. ASSUME NEW t \in Type PROVE Indexed(modules'[t], OfType(t)', TypeIndex(t)')
  <2>1. Indexed(modules[t], OfType(t), TypeIndex(t)) BY DEF MInv, ArraysIndexed
  <2>2. modules'[t] = IF HasType(data, t) THEN Without(modules[t], IndexIn(data, t))
                                          ELSE modules[t]
    BY <1>1 DEF ArraysWithout
  <2>3. OfType(t)' = OfType(t) \ {m}
    BY <1>2, <1>6 DEF OfType, HasType
  <2>4. ASSUME NEW x \in OfType(t) \ {m}
        PROVE  TypeIndex(t)'[x] =
                 IF HasType(data, t) /\ x = Last(modules[t]) THEN IndexIn(data, t)
                                                             ELSE TypeIndex(t)[x]
    <3> DEFINE types == modulesToData[x].moduleTypes
    <3>1. x \in Attached \ {m} /\ HasType(modulesToData[x], t) BY DEF OfType
    <3>2. PICK i \in DOMAIN types : types[i] = t BY <3>1, HasTypeAt
    <3>3. modulesToData'[x].moduleTypes = types BY <1>6, <3>1
    <3>4. IndexIn(modulesToData'[x], t) = IndexesWithout(data, x)[i]
      BY <1>6, <1>8, <3>1, <3>2, <3>3, IndexInIs
    <3>5. IndexIn(modulesToData[x], t) = modulesToData[x].moduleIndexes[i]
      BY <1>3, <3>1, <3>2, IndexInIs
    <3>6. IndexesWithout(data, x)[i] =
            IF HasType(data, t) /\ Last(modules[t]) = x
              THEN IndexIn(data, t) ELSE modulesToData[x].moduleIndexes[i]
      BY <3>2 DEF IndexesWithout
    <3>7. /\ TypeIndex(t)'[x] = IndexIn(modulesToData'[x], t)
          /\ TypeIndex(t)[x] = IndexIn(modulesToData[x], t)
      BY <1>2, <3>1 DEF TypeIndex
    <3>8. QED BY <3>4, <3>5, <3>6, <3>7
  <2>5. CASE HasType(data, t)
    <3>1. m \in OfType(t) BY <1>1, <2>5 DEF OfType, data
    <3>2. TypeIndex(t)[m] = IndexIn(data, t) BY <1>1 DEF TypeIndex, data
    <3>3. \A x \in OfType(t) \ {m} :
            TypeIndex(t)'[x] = IF x = Last(modules[t]) THEN TypeIndex(t)[m]
                                                       ELSE TypeIndex(t)[x]
      BY <2>4, <2>5, <3>2
    <3>4. Indexed(Without(modules[t], TypeIndex(t)[m]), OfType(t) \ {m}, TypeIndex(t)')
      BY <2>1, <3>1, <3>3, WithoutIndexed
    <3>5. QED BY <2>2, <2>3, <2>5, <3>2, <3>4
  <2>6. CASE ~HasType(data, t)
    <3>1. OfType(t) \ {m} = OfType(t) BY <2>6 DEF OfType, data
    <3>2. QED BY <2>1, <2>2, <2>3, <2>4, <2>6, <3>1, SameIndexed
  <2>7. QED BY <2>5, <2>6
<1>11. ASSUME NEW n \in Name PROVE Indexed(names'[n], Named(n)', NameIndex')
  <2>1. Indexed(names[n], Named(n), NameIndex) BY DEF MInv, ArraysIndexed
  <2>2. names'[n] = IF n = data.name THEN Without(names[n], data.nameIndex)
                                     ELSE names[n]
    BY <1>1 DEF MInv, ModulesTypeOK
  <2>3. Named(n)' = Named(n) \ {m} BY <1>2, <1>6 DEF Named
  <2>4. ASSUME NEW x \in Named(n) \ {m}
        PROVE  NameIndex'[x] = IF x = Last(names[data.name]) THEN data.nameIndex
                                                             ELSE NameIndex[x]
    BY <1>2, <1>6 DEF NameIndex, Named
  <2>5. CASE n = data.name
    <3>1. m \in Named(n) /\ NameIndex[m] = data.nameIndex
      BY <1>1, <2>5 DEF Named, NameIndex, data
    <3>2. Indexed(Without(names[n], NameIndex[m]), Named(n) \ {m}, NameIndex')
      BY <2>1, <2>4, <2>5, <3>1, WithoutIndexed
    <3>3. QED BY <2>2, <2>3, <2>5, <3>1, <3>2
  <2>6. CASE n # data.name
    <3>1. Named(n) \ {m} = Named(n) BY <2>6 DEF Named, data
    <3>2. ASSUME NEW x \in Named(n) PROVE x # Last(names[data.name])
      <4>1. Indexed(names[data.name], Named(data.name), NameIndex)
        BY <1>5 DEF MInv, ArraysIndexed
      <4>2. m \in Named(data.name) BY <1>1 DEF Named, data
      <4>3. Len(names[data.name]) \in 1..Len(names[data.name])
        BY <4>1, <4>2, LenProperties DEF Indexed
      <4>4. Last(names[data.name]) \in Named(data.name)
        BY <4>1, <4>3, ElementOfSeq DEF Indexed, Last
      <4>5. QED BY <2>6, <4>4 DEF Named
    <3>3. QED BY <2>1, <2>2, <2>3, <2>4, <2>6, <3>1, <3>2, SameIndexed
  <2>7. QED BY <2>5, <2>6
<1>12. ArraysIndexed' BY <1>10, <1>11 DEF ArraysIndexed
<1>13. RInv' /\ FactoryFacts' BY <1>1, FactoriesUntouched
<1>14. QED BY <1>9, <1>12, <1>13 DEF MInv

-----------------------------------------------------------------------------
LEMMA StepsKeepM == MInv /\ [NextM]_allVars => MInv'
<1> SUFFICES ASSUME MInv, [NextM]_allVars PROVE MInv' OBVIOUS
<1>1. nameOf \in [Factory -> Name] BY DEF MInv, ModulesTypeOK
<1>2. CASE RegistryStep
  BY <1>1, <1>2, ModulesUntouched DEF RegistryStep, tokenVars
<1>3. ASSUME NEW m \in Module, NEW f \in Factory, NEW archived \in BOOLEAN,
             AddModule(f, m, archived)
      PROVE  MInv'
  BY <1>3, AddKeeps
<1>4. ASSUME NEW m \in Module, ArchiveModule(m) \/ UnarchiveModule(m) PROVE MInv'
  BY <1>4, SwitchKeeps
<1>5. ASSUME NEW m \in Module, UpgradeModule(m) PROVE MInv'
  BY <1>5, UpgradeKeeps
<1>6. ASSUME NEW m \in Module, RemoveAttached(m) PROVE MInv'
  BY <1>6, RemovalKeeps
<1>7. ASSUME NEW f \in Factory, NEW type, NEW version, ChangeSTVersionBounds(f, type, version)
      PROVE  MInv'
  BY <1>1, <1>7, ModulesUntouched DEF ChangeSTVersionBounds, tokenVars
<1>8. ASSUME NEW f \in Factory, NEW name \in Name, ChangeName(f, name) PROVE MInv'
  <2>1. nameOf' \in [Factory -> Name] BY <1>1, <1>8 DEF ChangeName
  <2>2. QED BY <1>8, <2>1, ModulesUntouched DEF ChangeName, tokenVars
<1>9. CASE UpgradeToken BY <1>1, <1>9, ModulesUntouched DEF UpgradeToken
<1>10. CASE UNCHANGED allVars BY <1>1, <1>10, ModulesUntouched DEF allVars, tokenVars
<1>11. QED
  BY <1>2, <1>3, <1>4, <1>5, <1>6, <1>7, <1>8, <1>9, <1>10 DEF NextM

LEMMA MInvAlways == SpecM => []MInv
BY InitM_MInv, StepsKeepM, PTL DEF SpecM

\* Every module of the token is in the array of each of its types.
LEMMA Placed ==
  ASSUME MInv, NEW m \in Attached
  PROVE  LET data == modulesToData[m] IN
         /\ DataFits(data)
         /\ data.name \in Name
         /\ \A i \in DOMAIN data.moduleTypes :
              /\ data.moduleTypes[i] \in Type
              /\ data.moduleIndexes[i] + 1 \in DOMAIN modules[data.moduleTypes[i]]
              /\ modules[data.moduleTypes[i]][data.moduleIndexes[i] + 1] = m
<1> DEFINE data == modulesToData[m]
<1>1. DataFits(data) BY DEF MInv, ModulesTypeOK
<1>2. data.name \in Name /\ data.moduleTypes \in Seq(Type)
  BY <1>1 DEF DataFits, ModuleData
<1>3. ASSUME NEW i \in DOMAIN data.moduleTypes
      PROVE  /\ data.moduleTypes[i] \in Type
             /\ data.moduleIndexes[i] + 1 \in DOMAIN modules[data.moduleTypes[i]]
             /\ modules[data.moduleTypes[i]][data.moduleIndexes[i] + 1] = m
  <2> DEFINE t == data.moduleTypes[i]
  <2>1. t \in Type BY <1>2, LenProperties, ElementOfSeq
  <2>2. m \in OfType(t) BY HasTypeAt DEF OfType
  <2>3. TypeIndex(t)[m] = data.moduleIndexes[i] BY <1>1, IndexInIs DEF TypeIndex
  <2>4. Indexed(modules[t], OfType(t), TypeIndex(t)) BY <2>1 DEF MInv, ArraysIndexed
  <2>5. DOMAIN modules[t] = 1..Len(modules[t]) BY <2>4, LenProperties DEF Indexed
  <2>6. QED BY <2>1, <2>2, <2>3, <2>4, <2>5 DEF Indexed
<1>4. QED BY <1>1, <1>2, <1>3

\* addModule and removeModule keep modules, names and the indexes in
\* modulesToData in agreement, whatever types modules share and whatever names
\* their factories have meanwhile.
THEOREM ModuleArraysAlwaysAgree == SpecM => []ModuleArraysAgree
<1>1. MInv => ModuleArraysAgree
  <2> SUFFICES ASSUME MInv PROVE ModuleArraysAgree OBVIOUS
  <2>1. ASSUME NEW m \in Attached
        PROVE  LET data == modulesToData[m] IN
               /\ data.nameIndex + 1 \in DOMAIN names[data.name]
               /\ names[data.name][data.nameIndex + 1] = m
    <3> DEFINE n == modulesToData[m].name
    <3>1. n \in Name BY Placed
    <3>2. Indexed(names[n], Named(n), NameIndex) BY <3>1 DEF MInv, ArraysIndexed
    <3>3. m \in Named(n) /\ NameIndex[m] = modulesToData[m].nameIndex
      BY DEF Named, NameIndex
    <3>4. DOMAIN names[n] = 1..Len(names[n]) BY <3>2, LenProperties DEF Indexed
    <3>5. QED BY <3>2, <3>3, <3>4 DEF Indexed
  <2>2. ASSUME NEW t \in Type, NEW i \in DOMAIN modules[t]
        PROVE  /\ modules[t][i] \in Attached
               /\ \A j \in DOMAIN modules[t] : modules[t][i] = modules[t][j] => i = j
    <3>1. Indexed(modules[t], OfType(t), TypeIndex(t)) BY DEF MInv, ArraysIndexed
    <3>2. DOMAIN modules[t] = 1..Len(modules[t]) /\ Len(modules[t]) \in Nat
      BY <3>1, LenProperties DEF Indexed
    <3>3. modules[t][i] \in OfType(t) BY <3>1, <3>2, ElementOfSeq DEF Indexed
    <3>4. ASSUME NEW j \in DOMAIN modules[t], modules[t][i] = modules[t][j] PROVE i = j
      <4>1. i - 1 = j - 1 BY <3>1, <3>2, <3>4 DEF Indexed
      <4>2. QED BY <3>2, <4>1
    <3>5. QED BY <3>3, <3>4 DEF OfType
  <2>3. QED BY <2>1, <2>2, Placed DEF ModuleArraysAgree
<1>2. QED BY <1>1, MInvAlways, PTL

-----------------------------------------------------------------------------
(* Versions.                                                               *)

VersionsOK ==
  /\ bounds \in [Factory -> [lower : Nat \ {0}, upper : Nat \ {0}]]
  /\ tokenVersion \in Nat

Serves(range, version) == range.lower <= version /\ version <= range.upper

LEMMA CompatibleServes ==
  ActiveAreCompatible <=>
    \A m \in Attached :
      \/ modulesToData[m].isArchived
      \/ ~IsAsked(modulesToData[m])
      \/ Serves(bounds[modulesToData[m].moduleFactory], tokenVersion)
BY DEF ActiveAreCompatible, IsCompatibleModule, Serves

\* Steps that let no module become active, nor its factory's range shrink.
LEMMA StayCompatible ==
  ASSUME MInv, ActiveAreCompatible,
         \A f \in Factory :
           Serves(bounds[f], tokenVersion) => Serves(bounds'[f], tokenVersion'),
         \A m \in Attached' :
           \/ /\ m \in Attached
              /\ modulesToData'[m].moduleFactory = modulesToData[m].moduleFactory
              /\ modulesToData'[m].isArchived = modulesToData[m].isArchived
              /\ modulesToData'[m].moduleTypes = modulesToData[m].moduleTypes
           \/ modulesToData'[m].isArchived
           \/ ~IsAsked(modulesToData'[m])
           \/ Serves(bounds'[modulesToData'[m].moduleFactory], tokenVersion')
  PROVE  ActiveAreCompatible'
<1>1. ASSUME NEW m \in Attached'
      PROVE  \/ modulesToData'[m].isArchived
             \/ ~IsAsked(modulesToData'[m])
             \/ Serves(bounds'[modulesToData'[m].moduleFactory], tokenVersion')
  <2>1. CASE /\ m \in Attached
             /\ modulesToData'[m].moduleFactory = modulesToData[m].moduleFactory
             /\ modulesToData'[m].isArchived = modulesToData[m].isArchived
             /\ modulesToData'[m].moduleTypes = modulesToData[m].moduleTypes
    <3>1. modulesToData[m].moduleFactory \in Factory
      BY <2>1 DEF MInv, ModulesTypeOK, DataFits, ModuleData
    <3>2. \/ modulesToData[m].isArchived
          \/ ~IsAsked(modulesToData[m])
          \/ Serves(bounds[modulesToData[m].moduleFactory], tokenVersion)
      BY <2>1, CompatibleServes
    <3>3. IsAsked(modulesToData'[m]) = IsAsked(modulesToData[m]) BY <2>1 DEF IsAsked
    <3>4. QED BY <2>1, <3>1, <3>2, <3>3
  <2>2. QED BY <2>1
<1>2. QED BY <1>1 DEF ActiveAreCompatible, IsCompatibleModule, Serves

LEMMA VersionsStayOK ==
  ASSUME 0 \notin Version, VersionsOK, [NextM]_allVars
  PROVE  VersionsOK'
<1>1. CASE UNCHANGED <<bounds, tokenVersion>> BY <1>1 DEF VersionsOK
<1>2. ASSUME NEW f \in Factory, NEW type \in {"lower", "upper"}, NEW version \in Version,
             ChangeSTVersionBounds(f, type, version)
      PROVE  VersionsOK'
  <2>1. version \in Nat \ {0} BY VersionAssumption
  <2>2. bounds[f] \in [lower : Nat \ {0}, upper : Nat \ {0}] BY DEF VersionsOK
  <2>3. [bounds[f] EXCEPT ![type] = version] \in [lower : Nat \ {0}, upper : Nat \ {0}]
    BY <2>1, <2>2
  <2>4. bounds' = [bounds EXCEPT ![f] = [bounds[f] EXCEPT ![type] = version]]
    BY <1>2 DEF ChangeSTVersionBounds
  <2>5. QED BY <1>2, <2>3, <2>4 DEF VersionsOK, ChangeSTVersionBounds, tokenVars
<1>3. CASE UpgradeToken BY <1>3, VersionAssumption DEF UpgradeToken, VersionsOK
<1>4. CASE RegistryStep BY <1>1, <1>4 DEF RegistryStep, tokenVars
<1>5. ASSUME NEW m, \/ \E f \in Factory, archived \in BOOLEAN : AddModule(f, m, archived)
                    \/ ArchiveModule(m) \/ UnarchiveModule(m)
                    \/ UpgradeModule(m) \/ RemoveAttached(m)
      PROVE  VersionsOK'
  BY <1>1, <1>5 DEF AddModule, ArchiveModule, UnarchiveModule, UpgradeModule, RemoveAttached
<1>6. ASSUME NEW f, NEW name, ChangeName(f, name) PROVE VersionsOK'
  BY <1>1, <1>6 DEF ChangeName, tokenVars
<1>7. CASE UNCHANGED allVars BY <1>1, <1>7 DEF allVars, tokenVars
<1>8. QED BY <1>2, <1>3, <1>4, <1>5, <1>6, <1>7 DEF NextM

LEMMA StepsKeepCompatible ==
  ASSUME 0 \notin Version, MInv, VersionsOK, ActiveAreCompatible, [NextM]_allVars
  PROVE  ActiveAreCompatible'
<1>1. CASE UNCHANGED <<bounds, tokenVersion, modulesToData>>
  BY <1>1 DEF ActiveAreCompatible, IsCompatibleModule, IsAsked, Attached
<1>2. CASE RegistryStep BY <1>1, <1>2 DEF RegistryStep, tokenVars
<1>3. ASSUME NEW m \in Module, NEW f \in Factory, NEW archived \in BOOLEAN,
             AddModule(f, m, archived)
      PROVE  ActiveAreCompatible'
  <2>1. /\ UNCHANGED <<bounds, tokenVersion>>
        /\ m \notin Attached
        /\ Attached' = Attached \cup {m}
        /\ \A x \in Attached : modulesToData'[x] = modulesToData[x]
        /\ modulesToData'[m].moduleFactory = f
    BY <1>3 DEF AddModule, Attached
  <2>2. Serves(bounds[f], tokenVersion)
    BY <1>3 DEF AddModule, CanUse, IsCompatibleModule, Serves
  <2>3. QED BY <2>1, <2>2, StayCompatible
<1>4. ASSUME NEW m \in Module, ArchiveModule(m) PROVE ActiveAreCompatible'
  <2>1. /\ UNCHANGED <<bounds, tokenVersion>>
        /\ m \in Attached
        /\ modulesToData' = [modulesToData EXCEPT ![m].isArchived = TRUE]
    BY <1>4 DEF ArchiveModule
  <2>2. Attached' = Attached BY <2>1 DEF Attached
  <2>3. ASSUME NEW x \in Attached
        PROVE  x # m => modulesToData'[x] = modulesToData[x]
    BY <2>1 DEF Attached
  <2>4. modulesToData'[m].isArchived
    <3>1. modulesToData'[m] = [modulesToData[m] EXCEPT !.isArchived = TRUE]
      BY <2>1 DEF Attached
    <3>2. modulesToData[m] \in ModuleData BY <2>1 DEF MInv, ModulesTypeOK, DataFits
    <3>3. QED BY <3>1, <3>2 DEF ModuleData
  <2>5. QED BY <2>1, <2>2, <2>3, <2>4, StayCompatible
<1>5. ASSUME NEW m \in Module, UnarchiveModule(m) PROVE ActiveAreCompatible'
  <2>1. /\ UNCHANGED <<bounds, tokenVersion>>
        /\ m \in Attached
        /\ modulesToData' = [modulesToData EXCEPT ![m].isArchived = FALSE]
    BY <1>5 DEF UnarchiveModule
  <2>2. Attached' = Attached BY <2>1 DEF Attached
  <2>3. ASSUME NEW x \in Attached
        PROVE  x # m => modulesToData'[x] = modulesToData[x]
    BY <2>1 DEF Attached
  <2>4. modulesToData'[m].moduleFactory = modulesToData[m].moduleFactory
    <3>1. modulesToData'[m] = [modulesToData[m] EXCEPT !.isArchived = FALSE]
      BY <2>1 DEF Attached
    <3>2. modulesToData[m] \in ModuleData BY <2>1 DEF MInv, ModulesTypeOK, DataFits
    <3>3. QED BY <3>1, <3>2 DEF ModuleData
  <2>5. Serves(bounds[modulesToData[m].moduleFactory], tokenVersion)
    BY <1>5 DEF UnarchiveModule, CanUse, IsCompatibleModule, Serves
  <2>6. QED BY <2>1, <2>2, <2>3, <2>4, <2>5, StayCompatible
<1>6. ASSUME NEW m \in Module, UpgradeModule(m) PROVE ActiveAreCompatible'
  <2> DEFINE data == modulesToData[m]
             logic == logicContracts[data.moduleFactory][data.version + 2]
  <2>1. /\ UNCHANGED <<bounds, tokenVersion>>
        /\ m \in Attached
        /\ modulesToData' = [modulesToData EXCEPT ![m].version = @ + 1, ![m].logic = logic]
    BY <1>6 DEF UpgradeModule
  <2>2. Attached' = Attached BY <2>1 DEF Attached
  <2> HIDE DEF logic
  <2>3. ASSUME NEW x \in Attached
        PROVE  x # m => modulesToData'[x] = modulesToData[x]
    BY <2>1 DEF Attached
  <2>4. /\ modulesToData'[m].moduleFactory = data.moduleFactory
        /\ modulesToData'[m].isArchived = data.isArchived
        /\ modulesToData'[m].moduleTypes = data.moduleTypes
    <3>1. modulesToData'[m] = [data EXCEPT !.version = @ + 1, !.logic = logic]
      BY <2>1 DEF Attached
    <3>2. data \in ModuleData BY <2>1 DEF MInv, ModulesTypeOK, DataFits
    <3> HIDE DEF data
    <3>3. QED BY <3>1, <3>2 DEF ModuleData
  <2>5. QED BY <2>1, <2>2, <2>3, <2>4, StayCompatible
<1>7. ASSUME NEW m \in Module, RemoveAttached(m) PROVE ActiveAreCompatible'
  <2>1. UNCHANGED <<bounds, tokenVersion>> BY <1>7 DEF RemoveAttached
  <2>2. ASSUME NEW x \in Attached'
        PROVE  /\ x \in Attached
               /\ modulesToData'[x].moduleFactory = modulesToData[x].moduleFactory
               /\ modulesToData'[x].isArchived = modulesToData[x].isArchived
               /\ modulesToData'[x].moduleTypes = modulesToData[x].moduleTypes
    <3> DEFINE data == modulesToData[m]
               index == IF x = Last(names[data.name]) THEN data.nameIndex
                                                      ELSE modulesToData[x].nameIndex
    <3>1. /\ x \in Attached
          /\ modulesToData'[x] =
               [modulesToData[x] EXCEPT !.moduleIndexes = IndexesWithout(data, x),
                                        !.nameIndex = index]
      BY <1>7 DEF RemoveAttached, Attached
    <3>2. modulesToData[x] \in ModuleData BY <3>1 DEF MInv, ModulesTypeOK, DataFits
    <3> HIDE DEF data, index
    <3>3. QED BY <3>1, <3>2 DEF ModuleData
  <2>3. QED BY <2>1, <2>2, StayCompatible
<1>8. ASSUME NEW f \in Factory, NEW type \in {"lower", "upper"}, NEW version \in Version,
             ChangeSTVersionBounds(f, type, version)
      PROVE  ActiveAreCompatible'
  <2>1. UNCHANGED <<tokenVersion, modulesToData>>
    BY <1>8 DEF ChangeSTVersionBounds, tokenVars
  <2>2. /\ bounds' = [bounds EXCEPT ![f] = [bounds[f] EXCEPT ![type] = version]]
        /\ \/ bounds[f][type] = 0
           \/ type = "lower" /\ version <= bounds[f].lower
           \/ type = "upper" /\ version >= bounds[f].upper
    BY <1>8 DEF ChangeSTVersionBounds
  <2>3. /\ version \in Nat /\ tokenVersion \in Nat
        /\ \A g \in Factory : bounds[g] \in [lower : Nat \ {0}, upper : Nat \ {0}]
    BY VersionAssumption DEF VersionsOK
  <2>4. bounds'[f] = [bounds[f] EXCEPT ![type] = version]
        /\ \A g \in Factory : g # f => bounds'[g] = bounds[g]
    BY <2>2 DEF VersionsOK
  <2>5. Serves(bounds[f], tokenVersion) => Serves(bounds'[f], tokenVersion)
    <3>1. CASE type = "lower" BY <2>2, <2>3, <2>4, <3>1 DEF Serves
    <3>2. CASE type = "upper" BY <2>2, <2>3, <2>4, <3>2 DEF Serves
    <3>3. QED BY <3>1, <3>2
  <2>6. \A g \in Factory : Serves(bounds[g], tokenVersion) => Serves(bounds'[g], tokenVersion')
    BY <2>1, <2>4, <2>5
  <2>7. Attached' = Attached BY <2>1 DEF Attached
  <2>8. QED BY <2>1, <2>6, <2>7, StayCompatible
<1>9. ASSUME NEW f, NEW name, ChangeName(f, name) PROVE ActiveAreCompatible'
  BY <1>1, <1>9 DEF ChangeName, tokenVars
\* upgradeToken asks the modules of the arrays of the types below 10: a module
\* with such a type is in its array.
<1>10. CASE UpgradeToken
  <2>1. UNCHANGED <<bounds, modules, modulesToData>> BY <1>10 DEF UpgradeToken
  <2>2. ASSUME NEW m \in Attached, IsAsked(modulesToData[m])
        PROVE  \/ modulesToData[m].isArchived
               \/ Serves(bounds[modulesToData[m].moduleFactory], tokenVersion')
    <3> DEFINE data == modulesToData[m]
    <3>1. PICK i \in DOMAIN data.moduleTypes : data.moduleTypes[i] < MaxModuleType
      BY <2>2 DEF IsAsked
    <3>2. /\ data.moduleTypes[i] \in Type
          /\ data.moduleIndexes[i] + 1 \in DOMAIN modules[data.moduleTypes[i]]
          /\ modules[data.moduleTypes[i]][data.moduleIndexes[i] + 1] = m
      BY Placed
    <3>3. QED BY <1>10, <3>1, <3>2 DEF UpgradeToken, IsCompatibleModule, Serves
  <2>3. UNCHANGED Attached BY <2>1 DEF Attached
  <2>4. \A m \in Attached : IsAsked(modulesToData'[m]) = IsAsked(modulesToData[m])
    BY <2>1
  <2>5. QED BY <2>1, <2>2, <2>3, <2>4 DEF ActiveAreCompatible, IsCompatibleModule, Serves
<1>11. CASE UNCHANGED allVars BY <1>1, <1>11 DEF allVars, tokenVars
<1>12. QED
  BY <1>2, <1>3, <1>4, <1>5, <1>6, <1>7, <1>8, <1>9, <1>10, <1>11 DEF NextM

\* addModule, unarchiveModule, changeSTVersionBounds and upgradeToken leave no
\* active module with one of the types 1 to 9 on a token that its factory cannot
\* serve, as long as nobody uses version 0.0.0, which a bound takes for not set.
THEOREM ActiveStayCompatible ==
  ASSUME 0 \notin Version
  PROVE  SpecM => []ActiveAreCompatible
<1>1. InitM => MInv /\ VersionsOK /\ ActiveAreCompatible
  <2> SUFFICES ASSUME InitM PROVE VersionsOK /\ ActiveAreCompatible BY InitM_MInv
  <2>1. VersionsOK BY VersionAssumption DEF InitM, VersionsOK
  <2>2. Attached = {} BY DEF InitM, Attached
  <2>3. QED BY <2>1, <2>2 DEF ActiveAreCompatible
<1>2. /\ MInv /\ VersionsOK /\ ActiveAreCompatible
      /\ [NextM]_allVars
      => (MInv /\ VersionsOK /\ ActiveAreCompatible)'
  BY StepsKeepM, VersionsStayOK, StepsKeepCompatible
<1>3. QED BY <1>1, <1>2, PTL DEF SpecM

-----------------------------------------------------------------------------
(* Logic.                                                                  *)

Reviewed(m) ==
  LET f == modulesToData'[m].moduleFactory IN
  \/ m \in Attached /\ modulesToData[m].logic = modulesToData'[m].logic
  \/ modulesToData'[m].logic \in reviewed[f]
  \/ customModules /\ factoryOwner[f] = TokenOwner

\* A logic contract of a factory whose modules may be used was reviewed.
LEMMA UsedLogicWasReviewed ==
  ASSUME MInv, NEW f \in Factory, CanUse(f), NEW k \in 0..LatestUpgrade(f)
  PROVE  \/ logicContracts[f][k + 1] \in reviewed[f]
         \/ customModules /\ factoryOwner[f] = TokenOwner
<1>1. CASE verified[f]
  <2>1. LogicsOf(f) = reviewed[f] BY <1>1 DEF MInv, RInv, VerifiedAsReviewed
  <2>2. QED BY <2>1, LogicsAreThere
<1>2. CASE customModules /\ factoryOwner[f] = TokenOwner BY <1>2
<1>3. QED BY <1>1, <1>2 DEF CanUse, MayUse

LEMMA StepsRunReviewed ==
  ASSUME MInv, [NextM]_allVars
  PROVE  \A m \in Attached' : Reviewed(m)
<1>1. CASE UNCHANGED modulesToData
  BY <1>1 DEF Reviewed, Attached
<1>2. CASE RegistryStep BY <1>1, <1>2 DEF RegistryStep, tokenVars
<1>3. ASSUME NEW m \in Module, NEW f \in Factory, NEW archived \in BOOLEAN,
             AddModule(f, m, archived), NEW x \in Attached'
      PROVE  Reviewed(x)
  <2>1. CASE x = m
    <3>1. /\ modulesToData'[m].moduleFactory = f
          /\ modulesToData'[m].logic = logicContracts[f][LatestUpgrade(f) + 1]
          /\ CanUse(f)
      BY <1>3 DEF AddModule, Attached
    <3>2. LatestUpgrade(f) \in Nat BY LogicsAreThere
    <3>3. LatestUpgrade(f) \in 0..LatestUpgrade(f) BY <3>2
    <3>4. QED BY <2>1, <3>1, <3>3, UsedLogicWasReviewed DEF Reviewed
  <2>2. CASE x # m BY <1>3, <2>2 DEF AddModule, Attached, Reviewed
  <2>3. QED BY <2>1, <2>2
<1>4. ASSUME NEW m \in Module, ArchiveModule(m) \/ UnarchiveModule(m), NEW x \in Attached'
      PROVE  Reviewed(x)
  <2>1. PICK archived :
          modulesToData' = [modulesToData EXCEPT ![m].isArchived = archived]
    BY <1>4 DEF ArchiveModule, UnarchiveModule
  <2>2. /\ x \in Attached
        /\ modulesToData'[x] = IF x = m THEN [modulesToData[m] EXCEPT !.isArchived = archived]
                                        ELSE modulesToData[x]
    BY <1>4, <2>1 DEF Attached
  <2>3. modulesToData[x] \in ModuleData BY <2>2 DEF MInv, ModulesTypeOK, DataFits
  <2>4. modulesToData'[x].logic = modulesToData[x].logic
    BY <2>2, <2>3 DEF ModuleData
  <2>5. QED BY <2>2, <2>4 DEF Reviewed
<1>5. ASSUME NEW m \in Module, UpgradeModule(m), NEW x \in Attached'
      PROVE  Reviewed(x)
  <2> DEFINE data == modulesToData[m]
             f == data.moduleFactory
             logic == logicContracts[f][data.version + 2]
  <2>1. /\ m \in Attached
        /\ modulesToData' = [modulesToData EXCEPT ![m].version = @ + 1, ![m].logic = logic]
        /\ data.version < LatestUpgrade(f)
        /\ CanUse(f)
    BY <1>5 DEF UpgradeModule
  <2>2. data \in ModuleData BY <2>1 DEF MInv, ModulesTypeOK, DataFits
  <2>3. f \in Factory /\ data.version \in Nat BY <2>2 DEF ModuleData
  <2>4. \/ logic \in reviewed[f]
        \/ customModules /\ factoryOwner[f] = TokenOwner
    <3>1. LatestUpgrade(f) \in Nat BY <2>3, LogicsAreThere
    <3>2. data.version + 1 \in 0..LatestUpgrade(f) BY <2>1, <2>3, <3>1
    <3>3. (data.version + 1) + 1 = data.version + 2 BY <2>3
    <3>4. QED BY <2>1, <2>3, <3>2, <3>3, UsedLogicWasReviewed
  <2> HIDE DEF logic
  <2>5. CASE x # m BY <1>5, <2>1, <2>5 DEF Attached, Reviewed
  <2>6. CASE x = m
    <3>1. modulesToData'[m] = [data EXCEPT !.version = @ + 1, !.logic = logic]
      BY <2>1 DEF Attached
    <3>2. modulesToData'[m].logic = logic /\ modulesToData'[m].moduleFactory = f
      <4> HIDE DEF data
      <4> QED BY <2>2, <3>1 DEF ModuleData
    <3>3. QED BY <2>4, <2>6, <3>2 DEF Reviewed
  <2>7. QED BY <2>5, <2>6
<1>6. ASSUME NEW m \in Module, RemoveAttached(m), NEW x \in Attached'
      PROVE  Reviewed(x)
  <2> DEFINE data == modulesToData[m]
             index == IF x = Last(names[data.name]) THEN data.nameIndex
                                                    ELSE modulesToData[x].nameIndex
  <2>1. /\ x \in Attached
        /\ modulesToData'[x] =
             [modulesToData[x] EXCEPT !.moduleIndexes = IndexesWithout(data, x),
                                      !.nameIndex = index]
    BY <1>6 DEF RemoveAttached, Attached
  <2>2. modulesToData[x] \in ModuleData BY <2>1 DEF MInv, ModulesTypeOK, DataFits
  <2> HIDE DEF data, index
  <2>3. modulesToData'[x].logic = modulesToData[x].logic BY <2>1, <2>2 DEF ModuleData
  <2>4. QED BY <2>1, <2>3 DEF Reviewed
<1>7. ASSUME NEW f, NEW type, NEW version, ChangeSTVersionBounds(f, type, version)
      PROVE  \A m \in Attached' : Reviewed(m)
  BY <1>1, <1>7 DEF ChangeSTVersionBounds, tokenVars
<1>8. ASSUME NEW f, NEW name, ChangeName(f, name)
      PROVE  \A m \in Attached' : Reviewed(m)
  BY <1>1, <1>8 DEF ChangeName, tokenVars
<1>9. CASE UpgradeToken BY <1>1, <1>9 DEF UpgradeToken
<1>10. CASE UNCHANGED allVars BY <1>1, <1>10 DEF allVars, tokenVars
<1>11. QED
  BY <1>2, <1>3, <1>4, <1>5, <1>6, <1>7, <1>8, <1>9, <1>10 DEF NextM

\* addModule and upgradeModule give a module only logic that the owner of the
\* registry has seen, unless the token's owner wrote the factory himself.
THEOREM OnlyReviewedLogicRuns == SpecM => RunsReviewedLogic
<1>1. MInv /\ [NextM]_allVars =>
        [\A m \in DOMAIN modulesToData' :
           LET f == modulesToData'[m].moduleFactory IN
           \/ m \in Attached /\ modulesToData[m].logic = modulesToData'[m].logic
           \/ modulesToData'[m].logic \in reviewed[f]
           \/ customModules /\ factoryOwner[f] = TokenOwner]_allVars
  BY StepsRunReviewed DEF Reviewed, Attached
<1>2. QED BY <1>1, MInvAlways, PTL DEF SpecM, RunsReviewedLogic

=============================================================================
