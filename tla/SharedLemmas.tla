------------------------------ MODULE SharedLemmas ------------------------------
(***************************************************************************)
(* Lemmas that the proofs about several components use: sums over finite   *)
(* sets, whole grains, and the checkpoint series of one investor.  A fold  *)
(* is reasoned about by its least counterexample.                          *)
(***************************************************************************)
EXTENDS Checkpoints, Functions, FiniteSetsExt, FiniteSetTheorems,
        WellFoundedInduction, TLAPS

-----------------------------------------------------------------------------
(* The sum of the community modules is the sum: an element after the other, *)
(* in any order.                                                           *)

\* Among finite sets there is one of the fewest elements.
LEMMA FewestElements ==
  ASSUME NEW Sets, Sets # {}, \A T \in Sets : IsFiniteSet(T)
  PROVE  \E T \in Sets : \A U \in Sets : Cardinality(T) <= Cardinality(U)
<1> DEFINE Sizes == {Cardinality(T) : T \in Sets}
<1>1. \A T \in Sets : Cardinality(T) \in Nat BY FS_CardinalityType
<1>2. Sizes \subseteq Nat /\ Sizes # {} BY <1>1
<1>3. PICK n \in Sizes : \A m \in Sizes : ~(<<m, n>> \in OpToRel(<, Nat))
  BY <1>2, WFMin, NatLessThanWellFounded
<1>4. \A m \in Sizes : ~(m < n) BY <1>2, <1>3 DEF OpToRel
<1>5. \A m \in Sizes : n <= m BY <1>2, <1>4
<1>6. QED BY <1>5

\* A function that adds up f over the subsets of S, an element after the other.
Adds(g, f, S) ==
  g = [s \in SUBSET S |->
         IF s = {} THEN 0
         ELSE LET x == CHOOSE x \in s : TRUE IN f[x] + g[s \ {x}]]

LEMMA SumIsAdded ==
  ASSUME NEW f, NEW S
  PROVE  SumFunctionOnSet(f, S) = (CHOOSE g : Adds(g, f, S))[S]
BY DEF SumFunctionOnSet, FoldFunctionOnSet, MapThenFoldSet, Adds

LEMMA AddsOnce ==
  ASSUME NEW f, NEW S, IsFiniteSet(S), NEW R \in SUBSET S,
         NEW g, Adds(g, f, S), NEW h, Adds(h, f, R)
  PROVE  g[R] = h[R]
<1> DEFINE Wrong == {s \in SUBSET R : g[s] # h[s]}
<1> SUFFICES ASSUME Wrong # {} PROVE FALSE
  OBVIOUS
<1>1. \A s \in Wrong : IsFiniteSet(s) BY FS_Subset
<1>2. PICK s \in Wrong : \A u \in Wrong : Cardinality(s) <= Cardinality(u)
  <2> HIDE DEF Wrong
  <2> QED BY <1>1, FewestElements
<1>3. s # {} BY <1>2 DEF Adds
<1> DEFINE x == CHOOSE x \in s : TRUE
<1>4. x \in s BY <1>3
<1> HIDE DEF x
<1>5. IsFiniteSet(s) /\ Cardinality(s) \in Nat
  BY <1>1, <1>2, FS_CardinalityType
<1>6. Cardinality(s \ {x}) = Cardinality(s) - 1 BY <1>4, <1>5, FS_RemoveElement
<1>7. s \ {x} \notin Wrong BY <1>2, <1>5, <1>6
<1>8. g[s \ {x}] = h[s \ {x}] BY <1>2, <1>7
<1>9. g[s] = f[x] + g[s \ {x}] BY <1>2, <1>3 DEF Adds, x
<1>10. h[s] = f[x] + h[s \ {x}] BY <1>2, <1>3 DEF Adds, x
<1>11. QED BY <1>2, <1>8, <1>9, <1>10

LEMMA AddsOnLess ==
  ASSUME NEW f, NEW S, NEW R \in SUBSET S, NEW g, Adds(g, f, S)
  PROVE  Adds([s \in SUBSET R |-> g[s]], f, R)
<1> DEFINE h == [s \in SUBSET R |-> g[s]]
<1>1. ASSUME NEW s \in SUBSET R
      PROVE  h[s] = IF s = {} THEN 0
                    ELSE LET x == CHOOSE x \in s : TRUE IN f[x] + h[s \ {x}]
  BY DEF Adds
<1>2. QED BY <1>1 DEF Adds

LEMMA AddsExists ==
  ASSUME NEW f, NEW S, IsFiniteSet(S)
  PROVE  Adds(CHOOSE g : Adds(g, f, S), f, S)
<1> DEFINE Wrong == {T \in SUBSET S : \A g : ~Adds(g, f, T)}
<1> SUFFICES ASSUME Wrong # {} PROVE FALSE
  OBVIOUS
<1>1. \A T \in SUBSET S : IsFiniteSet(T) /\ Cardinality(T) \in Nat
  BY FS_Subset, FS_CardinalityType
<1>2. PICK T \in Wrong : \A U \in Wrong : Cardinality(T) <= Cardinality(U)
  <2>1. \A U \in Wrong : IsFiniteSet(U) BY <1>1
  <2> HIDE DEF Wrong
  <2> QED BY <2>1, FewestElements
<1> DEFINE part(R) == CHOOSE h : Adds(h, f, R)
           first(s) == CHOOSE x \in s : TRUE
           rest(s) == s \ {first(s)}
           g == [s \in SUBSET T |->
                   IF s = {} THEN 0 ELSE f[first(s)] + part(rest(s))[rest(s)]]
<1>3. ASSUME NEW s \in SUBSET T, s # {}
      PROVE  /\ first(s) \in s
             /\ rest(s) \in SUBSET S
             /\ Adds(part(rest(s)), f, rest(s))
  <2>1. first(s) \in s BY <1>3
  <2> HIDE DEF first
  <2>2. rest(s) \in SUBSET T BY <1>3
  <2>3. rest(s) # T BY <2>1, <1>3
  <2>4. Cardinality(rest(s)) < Cardinality(T)
    <3>1. Cardinality(rest(s)) = Cardinality(s) - 1
      BY <1>1, <2>1, FS_RemoveElement
    <3>2. Cardinality(s) <= Cardinality(T)
      BY <1>1, FS_Subset
    <3>3. QED BY <1>1, <3>1, <3>2
  <2>5. rest(s) \notin Wrong BY <1>1, <1>2, <2>2, <2>4
  <2>6. \E h : Adds(h, f, rest(s)) BY <2>2, <2>5
  <2>7. QED BY <2>1, <2>2, <2>6
<1>4. ASSUME NEW s \in SUBSET T, s # {}
      PROVE  g[rest(s)] = part(rest(s))[rest(s)]
  <2> DEFINE R == rest(s)
             h == part(R)
  <2>1. Adds(h, f, R) /\ R \in SUBSET T /\ R \in SUBSET S BY <1>3, <1>4
  <2>2. CASE R = {}
    BY <2>1, <2>2 DEF Adds
  <2>3. CASE R # {}
    <3>1. /\ Adds(part(rest(R)), f, rest(R))
          /\ rest(R) \in SUBSET R
      BY <1>3, <2>1, <2>3
    <3>2. IsFiniteSet(R) BY <1>1, <2>1
    <3> HIDE DEF part, R, first
    <3>3. h[rest(R)] = part(rest(R))[rest(R)]
      BY <2>1, <3>1, <3>2, AddsOnce
    <3>4. h[R] = f[first(R)] + h[rest(R)]
      BY <2>1, <2>3 DEF Adds, first
    <3>5. g[R] = f[first(R)] + part(rest(R))[rest(R)]
      BY <2>1, <2>3
    <3>6. QED BY <3>3, <3>4, <3>5 DEF R
  <2>4. QED BY <2>2, <2>3
<1>5. Adds(g, f, T)
  <2>1. \A s \in SUBSET T :
          g[s] = IF s = {} THEN 0 ELSE f[first(s)] + g[rest(s)]
    <3> HIDE DEF part, first
    <3> QED BY <1>4
  <2>2. g = [s \in SUBSET T |-> g[s]] OBVIOUS
  <2> HIDE DEF g
  <2>3. QED BY <2>1, <2>2 DEF Adds
<1>6. QED BY <1>2, <1>5

\* SumFunctionOnSet adds an element after the other.
LEMMA SumEmpty == ASSUME NEW f PROVE SumFunctionOnSet(f, {}) = 0
<1>1. IsFiniteSet({}) BY FS_EmptySet
<1>2. QED BY <1>1, SumIsAdded, AddsExists DEF Adds

LEMMA SumFirst ==
  ASSUME NEW f, NEW S, IsFiniteSet(S), S # {}
  PROVE  \E x \in S : SumFunctionOnSet(f, S) = f[x] + SumFunctionOnSet(f, S \ {x})
<1> DEFINE x == CHOOSE x \in S : TRUE
           g == CHOOSE g : Adds(g, f, S)
           h == CHOOSE h : Adds(h, f, S \ {x})
<1>1. x \in S OBVIOUS
<1>2. Adds(g, f, S) BY AddsExists
<1>3. Adds(h, f, S \ {x}) BY FS_Subset, AddsExists
<1>4. g[S] = f[x] + g[S \ {x}] BY <1>2 DEF Adds
<1>5. g[S \ {x}] = h[S \ {x}]
  <2> HIDE DEF g, h, x
  <2> QED BY <1>2, <1>3, AddsOnce
<1>6. SumFunctionOnSet(f, S) = g[S] /\ SumFunctionOnSet(f, S \ {x}) = h[S \ {x}]
  BY SumIsAdded
<1>7. QED BY <1>1, <1>4, <1>5, <1>6

-----------------------------------------------------------------------------
(* The laws of sums.                                                       *)

\* Of some subsets of a finite set, one has no other one an element less.
LEMMA LeastSubset ==
  ASSUME NEW S, IsFiniteSet(S), NEW Sets \in SUBSET SUBSET S, Sets # {}
  PROVE  \E T \in Sets : \A x \in T : T \ {x} \notin Sets
<1>1. \A T \in Sets : IsFiniteSet(T) /\ Cardinality(T) \in Nat
  BY FS_Subset, FS_CardinalityType
<1>2. PICK T \in Sets : \A U \in Sets : Cardinality(T) <= Cardinality(U)
  BY <1>1, FewestElements
<1>3. \A x \in T : Cardinality(T \ {x}) = Cardinality(T) - 1
  BY <1>1, FS_RemoveElement
<1>4. \A x \in T : T \ {x} \notin Sets BY <1>1, <1>2, <1>3
<1>5. QED BY <1>2, <1>4

LEMMA SumIsInt ==
  ASSUME NEW S, IsFiniteSet(S), NEW f, \A x \in S : f[x] \in Int
  PROVE  SumFunctionOnSet(f, S) \in Int
<1> DEFINE Wrong == {T \in SUBSET S : SumFunctionOnSet(f, T) \notin Int}
<1> SUFFICES ASSUME Wrong # {} PROVE FALSE
  OBVIOUS
<1>1. PICK T \in Wrong : \A x \in T : T \ {x} \notin Wrong
  <2> HIDE DEF Wrong
  <2>1. Wrong \subseteq SUBSET S BY DEF Wrong
  <2> QED BY <2>1, LeastSubset
<1>2. T # {} BY <1>1, SumEmpty
<1>3. IsFiniteSet(T) BY <1>1, FS_Subset
<1>4. PICK x \in T : SumFunctionOnSet(f, T) = f[x] + SumFunctionOnSet(f, T \ {x})
  BY <1>2, <1>3, SumFirst
<1>5. SumFunctionOnSet(f, T \ {x}) \in Int /\ f[x] \in Int BY <1>1, <1>4
<1>6. QED BY <1>1, <1>4, <1>5

\* Any element may be the first one.
LEMMA SumAny ==
  ASSUME NEW S, IsFiniteSet(S), NEW f, \A x \in S : f[x] \in Int, NEW a \in S
  PROVE  SumFunctionOnSet(f, S) = f[a] + SumFunctionOnSet(f, S \ {a})
<1> DEFINE Wrong ==
      {T \in SUBSET S :
         \E x \in T : SumFunctionOnSet(f, T) # f[x] + SumFunctionOnSet(f, T \ {x})}
<1> SUFFICES ASSUME Wrong # {} PROVE FALSE
  OBVIOUS
<1>1. PICK T \in Wrong : \A x \in T : T \ {x} \notin Wrong
  <2> HIDE DEF Wrong
  <2>1. Wrong \subseteq SUBSET S BY DEF Wrong
  <2> QED BY <2>1, LeastSubset
<1>2. PICK x \in T : SumFunctionOnSet(f, T) # f[x] + SumFunctionOnSet(f, T \ {x})
  BY <1>1
<1>3. IsFiniteSet(T) BY <1>1, FS_Subset
<1>4. PICK y \in T : SumFunctionOnSet(f, T) = f[y] + SumFunctionOnSet(f, T \ {y})
  BY <1>2, <1>3, SumFirst
<1>5. x # y BY <1>2, <1>4
<1> DEFINE both == SumFunctionOnSet(f, T \ {x, y})
<1>6. (T \ {x}) \ {y} = T \ {x, y} /\ (T \ {y}) \ {x} = T \ {x, y}
  OBVIOUS
<1>7. SumFunctionOnSet(f, T \ {x}) = f[y] + both
  BY <1>1, <1>2, <1>4, <1>5, <1>6
<1>8. SumFunctionOnSet(f, T \ {y}) = f[x] + both
  BY <1>1, <1>2, <1>4, <1>5, <1>6
<1>9. both \in Int /\ f[x] \in Int /\ f[y] \in Int
  <2>1. IsFiniteSet(T \ {x, y}) /\ \A z \in T \ {x, y} : f[z] \in Int
    BY <1>1, <1>3, FS_Subset
  <2>2. QED BY <1>1, <1>2, <1>4, <2>1, SumIsInt
<1> HIDE DEF both
<1>10. QED BY <1>2, <1>4, <1>7, <1>8, <1>9

\* The sum of f and g, added one by one.
LEMMA SumPlus ==
  ASSUME NEW S, IsFiniteSet(S), NEW f, NEW g, NEW h,
         \A x \in S : f[x] \in Int /\ g[x] \in Int /\ h[x] = f[x] + g[x]
  PROVE  SumFunctionOnSet(h, S) = SumFunctionOnSet(f, S) + SumFunctionOnSet(g, S)
<1> DEFINE Wrong ==
      {T \in SUBSET S : SumFunctionOnSet(h, T)
                          # SumFunctionOnSet(f, T) + SumFunctionOnSet(g, T)}
<1> SUFFICES ASSUME Wrong # {} PROVE FALSE
  OBVIOUS
<1>1. PICK T \in Wrong : \A x \in T : T \ {x} \notin Wrong
  <2> HIDE DEF Wrong
  <2>1. Wrong \subseteq SUBSET S BY DEF Wrong
  <2> QED BY <2>1, LeastSubset
<1>2. T # {}
  <2>1. /\ SumFunctionOnSet(f, {}) = 0 /\ SumFunctionOnSet(g, {}) = 0
        /\ SumFunctionOnSet(h, {}) = 0
    BY SumEmpty
  <2>2. QED BY <1>1, <2>1
<1>3. PICK x : x \in T BY <1>2
<1>4. IsFiniteSet(T) /\ IsFiniteSet(T \ {x}) BY <1>1, FS_Subset
<1>5. \A y \in T : f[y] \in Int /\ g[y] \in Int /\ h[y] \in Int BY <1>1
<1>6. /\ SumFunctionOnSet(f, T) = f[x] + SumFunctionOnSet(f, T \ {x})
      /\ SumFunctionOnSet(g, T) = g[x] + SumFunctionOnSet(g, T \ {x})
      /\ SumFunctionOnSet(h, T) = h[x] + SumFunctionOnSet(h, T \ {x})
  BY <1>3, <1>4, <1>5, SumAny
<1>7. /\ SumFunctionOnSet(f, T \ {x}) \in Int
      /\ SumFunctionOnSet(g, T \ {x}) \in Int
  BY <1>4, <1>5, SumIsInt
<1>8. SumFunctionOnSet(h, T \ {x})
        = SumFunctionOnSet(f, T \ {x}) + SumFunctionOnSet(g, T \ {x})
  BY <1>1, <1>3
<1>9. f[x] \in Int /\ g[x] \in Int /\ h[x] = f[x] + g[x] BY <1>1, <1>3
<1>10. QED BY <1>1, <1>6, <1>7, <1>8, <1>9

\* A sum of larger numbers is larger.
LEMMA SumAtMost ==
  ASSUME NEW S, IsFiniteSet(S), NEW f, NEW g,
         \A x \in S : f[x] \in Int /\ g[x] \in Int /\ f[x] <= g[x]
  PROVE  SumFunctionOnSet(f, S) <= SumFunctionOnSet(g, S)
<1> DEFINE Wrong ==
      {T \in SUBSET S : ~(SumFunctionOnSet(f, T) <= SumFunctionOnSet(g, T))}
<1> SUFFICES ASSUME Wrong # {} PROVE FALSE
  OBVIOUS
<1>1. PICK T \in Wrong : \A x \in T : T \ {x} \notin Wrong
  <2> HIDE DEF Wrong
  <2>1. Wrong \subseteq SUBSET S BY DEF Wrong
  <2> QED BY <2>1, LeastSubset
<1>2. T # {} BY <1>1, SumEmpty
<1>3. PICK x : x \in T BY <1>2
<1>4. IsFiniteSet(T) /\ IsFiniteSet(T \ {x}) BY <1>1, FS_Subset
<1>5. \A y \in T : f[y] \in Int /\ g[y] \in Int BY <1>1
<1>6. /\ SumFunctionOnSet(f, T) = f[x] + SumFunctionOnSet(f, T \ {x})
      /\ SumFunctionOnSet(g, T) = g[x] + SumFunctionOnSet(g, T \ {x})
  BY <1>3, <1>4, <1>5, SumAny
<1>7. /\ SumFunctionOnSet(f, T \ {x}) \in Int
      /\ SumFunctionOnSet(g, T \ {x}) \in Int
  BY <1>4, <1>5, SumIsInt
<1>8. SumFunctionOnSet(f, T \ {x}) <= SumFunctionOnSet(g, T \ {x})
  BY <1>1, <1>3
<1>9. f[x] \in Int /\ g[x] \in Int /\ f[x] <= g[x] BY <1>1, <1>3
<1>10. QED BY <1>1, <1>6, <1>7, <1>8, <1>9

\* Only the values on the set count.
LEMMA SumSame ==
  ASSUME NEW S, IsFiniteSet(S), NEW f, NEW g,
         \A x \in S : f[x] \in Int /\ g[x] = f[x]
  PROVE  SumFunctionOnSet(g, S) = SumFunctionOnSet(f, S)
<1>1. \A x \in S : /\ f[x] \in Int /\ g[x] \in Int
                   /\ f[x] <= g[x] /\ g[x] <= f[x]
  OBVIOUS
<1>2. SumFunctionOnSet(f, S) <= SumFunctionOnSet(g, S) BY <1>1, SumAtMost
<1>3. SumFunctionOnSet(g, S) <= SumFunctionOnSet(f, S) BY <1>1, SumAtMost
<1>4. SumFunctionOnSet(f, S) \in Int /\ SumFunctionOnSet(g, S) \in Int
  BY <1>1, SumIsInt
<1>5. QED BY <1>2, <1>3, <1>4

\* What a change of one value does to the sum.
LEMMA SumChange ==
  ASSUME NEW S, IsFiniteSet(S), NEW f, NEW g, NEW a \in S, NEW d \in Int,
         \A x \in S : f[x] \in Int,
         \A x \in S \ {a} : g[x] = f[x],
         g[a] = f[a] + d
  PROVE  SumFunctionOnSet(g, S) = SumFunctionOnSet(f, S) + d
<1> DEFINE T == S \ {a}
<1>1. IsFiniteSet(T) BY FS_Subset
<1>2. \A x \in S : g[x] \in Int OBVIOUS
<1>3. SumFunctionOnSet(g, S) = g[a] + SumFunctionOnSet(g, T) BY <1>2, SumAny
<1>4. SumFunctionOnSet(f, S) = f[a] + SumFunctionOnSet(f, T) BY SumAny
<1>5. SumFunctionOnSet(g, T) = SumFunctionOnSet(f, T) BY <1>1, SumSame
<1>6. SumFunctionOnSet(f, T) \in Int BY <1>1, SumIsInt
<1>7. QED BY <1>3, <1>4, <1>5, <1>6

LEMMA SumZero ==
  ASSUME NEW S, IsFiniteSet(S), NEW f, \A x \in S : f[x] = 0
  PROVE  SumFunctionOnSet(f, S) = 0
<1> DEFINE sum == SumFunctionOnSet(f, S)
<1>1. \A x \in S : f[x] \in Int /\ f[x] = f[x] + f[x] OBVIOUS
<1>2. sum = sum + sum BY <1>1, SumPlus
<1>3. sum \in Int BY <1>1, SumIsInt
<1> HIDE DEF sum
<1>4. sum = 0 BY <1>2, <1>3
<1>5. QED BY <1>4 DEF sum

LEMMA SumIsNat ==
  ASSUME NEW S, IsFiniteSet(S), NEW f, \A x \in S : f[x] \in Nat
  PROVE  /\ SumFunctionOnSet(f, S) \in Nat
         /\ \A x \in S : f[x] <= SumFunctionOnSet(f, S)
<1>1. SumFunctionOnSet(f, S) \in Int BY SumIsInt
<1> DEFINE zero == [x \in S |-> 0]
<1>2. SumFunctionOnSet(zero, S) = 0 BY SumZero
<1>3. SumFunctionOnSet(zero, S) <= SumFunctionOnSet(f, S)
  <2>1. \A x \in S : zero[x] \in Int /\ f[x] \in Int /\ zero[x] <= f[x] OBVIOUS
  <2> HIDE DEF zero
  <2>2. QED BY <2>1, SumAtMost
<1>4. ASSUME NEW a \in S PROVE f[a] <= SumFunctionOnSet(f, S)
  <2> DEFINE only == [x \in S |-> IF x = a THEN f[a] ELSE 0]
  <2>1. SumFunctionOnSet(only, S) = SumFunctionOnSet(zero, S) + f[a]
    <3>1. /\ \A x \in S : zero[x] \in Int
          /\ \A x \in S \ {a} : only[x] = zero[x]
          /\ only[a] = zero[a] + f[a]
          /\ f[a] \in Int
      OBVIOUS
    <3> HIDE DEF only, zero
    <3>2. QED BY <3>1, SumChange
  <2>2. \A x \in S : only[x] \in Int /\ f[x] \in Int /\ only[x] <= f[x] OBVIOUS
  <2> HIDE DEF only, zero
  <2>3. SumFunctionOnSet(only, S) <= SumFunctionOnSet(f, S) BY <2>2, SumAtMost
  <2>4. QED BY <1>2, <2>1, <2>3
<1>5. QED BY <1>1, <1>2, <1>3, <1>4

\* Elements outside of T that count nothing may be left out.
LEMMA SumWhere ==
  ASSUME NEW S, IsFiniteSet(S), NEW f, \A x \in S : f[x] \in Int,
         NEW T \in SUBSET S, \A x \in S \ T : f[x] = 0
  PROVE  SumFunctionOnSet(f, S) = SumFunctionOnSet(f, T)
<1> DEFINE Wrong ==
      {U \in SUBSET S : T \subseteq U /\ SumFunctionOnSet(f, U) # SumFunctionOnSet(f, T)}
<1> SUFFICES ASSUME Wrong # {} PROVE FALSE
  OBVIOUS
<1>1. PICK U \in Wrong : \A x \in U : U \ {x} \notin Wrong
  <2> HIDE DEF Wrong
  <2>1. Wrong \subseteq SUBSET S BY DEF Wrong
  <2> QED BY <2>1, LeastSubset
<1>2. PICK x \in U : x \notin T BY <1>1
<1>3. IsFiniteSet(U) /\ \A y \in U : f[y] \in Int BY <1>1, FS_Subset
<1>4. SumFunctionOnSet(f, U) = f[x] + SumFunctionOnSet(f, U \ {x})
  BY <1>2, <1>3, SumAny
<1>5. SumFunctionOnSet(f, U \ {x}) \in Int BY <1>3, FS_Subset, SumIsInt
<1>6. f[x] = 0 BY <1>1, <1>2
<1>7. SumFunctionOnSet(f, U \ {x}) = SumFunctionOnSet(f, T) BY <1>1, <1>2
<1>8. QED BY <1>1, <1>4, <1>5, <1>6, <1>7

\* A sum in two parts.
LEMMA SumSplit ==
  ASSUME NEW S, IsFiniteSet(S), NEW T \in SUBSET S, NEW f, \A x \in S : f[x] \in Int
  PROVE  SumFunctionOnSet(f, S) = SumFunctionOnSet(f, T) + SumFunctionOnSet(f, S \ T)
<1> DEFINE g == [x \in S |-> IF x \in T THEN f[x] ELSE 0]
           h == [x \in S |-> IF x \in T THEN 0 ELSE f[x]]
<1>1. IsFiniteSet(T) /\ IsFiniteSet(S \ T) BY FS_Subset
<1>2. \A x \in S : g[x] \in Int /\ h[x] \in Int /\ f[x] = g[x] + h[x] OBVIOUS
<1>3. /\ \A x \in T : f[x] \in Int /\ g[x] = f[x]
      /\ \A x \in S \ T : g[x] = 0
      /\ \A x \in S \ T : f[x] \in Int /\ h[x] = f[x]
      /\ \A x \in S \ (S \ T) : h[x] = 0
  OBVIOUS
<1> HIDE DEF g, h
<1>4. SumFunctionOnSet(f, S) = SumFunctionOnSet(g, S) + SumFunctionOnSet(h, S)
  BY <1>2, SumPlus
<1>5. SumFunctionOnSet(g, S) = SumFunctionOnSet(g, T) BY <1>2, <1>3, SumWhere
<1>6. SumFunctionOnSet(h, S) = SumFunctionOnSet(h, S \ T) BY <1>2, <1>3, SumWhere
<1>7. SumFunctionOnSet(g, T) = SumFunctionOnSet(f, T) BY <1>1, <1>3, SumSame
<1>8. SumFunctionOnSet(h, S \ T) = SumFunctionOnSet(f, S \ T)
  BY <1>1, <1>3, SumSame
<1>9. QED BY <1>4, <1>5, <1>6, <1>7, <1>8

\* A sum of ones.
LEMMA SumCounts ==
  ASSUME NEW S, IsFiniteSet(S), NEW f, \A x \in S : f[x] = 1
  PROVE  SumFunctionOnSet(f, S) = Cardinality(S)
<1> DEFINE Wrong == {T \in SUBSET S : SumFunctionOnSet(f, T) # Cardinality(T)}
<1> SUFFICES ASSUME Wrong # {} PROVE FALSE
  OBVIOUS
<1>1. PICK T \in Wrong : \A x \in T : T \ {x} \notin Wrong
  <2> HIDE DEF Wrong
  <2>1. Wrong \subseteq SUBSET S BY DEF Wrong
  <2> QED BY <2>1, LeastSubset
<1>2. T # {} BY <1>1, SumEmpty, FS_EmptySet
<1>3. PICK x : x \in T BY <1>2
<1>4. IsFiniteSet(T) /\ Cardinality(T) \in Nat BY <1>1, FS_Subset, FS_CardinalityType
<1>5. SumFunctionOnSet(f, T) = f[x] + SumFunctionOnSet(f, T \ {x})
  BY <1>1, <1>3, <1>4, SumAny
<1>6. Cardinality(T \ {x}) = Cardinality(T) - 1 BY <1>3, <1>4, FS_RemoveElement
<1>7. SumFunctionOnSet(f, T \ {x}) = Cardinality(T \ {x}) BY <1>1, <1>3
<1>8. f[x] = 1 BY <1>1, <1>3
<1>9. QED BY <1>1, <1>4, <1>5, <1>6, <1>7, <1>8

\* A sum of multiples.
LEMMA SumTimes ==
  ASSUME NEW S, IsFiniteSet(S), NEW f, NEW g, NEW k \in Int,
         \A x \in S : f[x] \in Int /\ g[x] = k * f[x]
  PROVE  SumFunctionOnSet(g, S) = k * SumFunctionOnSet(f, S)
<1> DEFINE Wrong ==
      {T \in SUBSET S : SumFunctionOnSet(g, T) # k * SumFunctionOnSet(f, T)}
<1> SUFFICES ASSUME Wrong # {} PROVE FALSE
  OBVIOUS
<1>1. PICK T \in Wrong : \A x \in T : T \ {x} \notin Wrong
  <2> HIDE DEF Wrong
  <2>1. Wrong \subseteq SUBSET S BY DEF Wrong
  <2> QED BY <2>1, LeastSubset
<1>2. T # {}
  <2>1. SumFunctionOnSet(f, {}) = 0 /\ SumFunctionOnSet(g, {}) = 0 BY SumEmpty
  <2>2. k * 0 = 0 OBVIOUS
  <2>3. QED BY <1>1, <2>1, <2>2
<1>3. PICK x : x \in T BY <1>2
<1>4. IsFiniteSet(T) /\ IsFiniteSet(T \ {x}) BY <1>1, FS_Subset
<1>5. \A y \in T : f[y] \in Int /\ g[y] \in Int BY <1>1
<1>6. /\ SumFunctionOnSet(f, T) = f[x] + SumFunctionOnSet(f, T \ {x})
      /\ SumFunctionOnSet(g, T) = g[x] + SumFunctionOnSet(g, T \ {x})
  BY <1>3, <1>4, <1>5, SumAny
<1>7. SumFunctionOnSet(f, T \ {x}) \in Int BY <1>4, <1>5, SumIsInt
<1>8. SumFunctionOnSet(g, T \ {x}) = k * SumFunctionOnSet(f, T \ {x})
  BY <1>1, <1>3
<1>9. f[x] \in Int /\ g[x] = k * f[x] BY <1>1, <1>3
<1>10. k * (f[x] + SumFunctionOnSet(f, T \ {x}))
         = k * f[x] + k * SumFunctionOnSet(f, T \ {x})
  BY <1>7, <1>9
<1>11. QED BY <1>1, <1>6, <1>8, <1>9, <1>10

\* The sum of a function, when its value at i changes by d.
LEMMA SumFunctionChange ==
  ASSUME NEW I, IsFiniteSet(I), NEW f, DOMAIN f = I, NEW g, DOMAIN g = I,
         NEW i \in I, NEW d \in Int,
         \A j \in I : f[j] \in Int,
         \A j \in I \ {i} : g[j] = f[j],
         g[i] = f[i] + d
  PROVE  SumFunction(g) = SumFunction(f) + d
<1>1. SumFunction(g) = SumFunctionOnSet(g, I) /\ SumFunction(f) = SumFunctionOnSet(f, I)
  BY DEF SumFunction
<1>2. SumFunctionOnSet(g, I) = SumFunctionOnSet(f, I) + d
  BY SumChange
<1>3. QED BY <1>1, <1>2

\* The sum of a list with one more element.
LEMMA ListSumAppend ==
  ASSUME NEW n \in Nat, NEW f, DOMAIN f = 1..n, NEW g, DOMAIN g = 1..(n + 1),
         \A j \in 1..n : f[j] \in Int,
         \A j \in 1..n : g[j] = f[j],
         g[n + 1] \in Int
  PROVE  SumFunction(g) = SumFunction(f) + g[n + 1]
<1> DEFINE I == 1..n
           J == 1..(n + 1)
           last == n + 1
<1>1. IsFiniteSet(I) /\ IsFiniteSet(J) BY FS_Interval
<1>2. /\ \A j \in I : f[j] \in Int /\ g[j] = f[j]
      /\ \A j \in J : g[j] \in Int
      /\ last \in J /\ J \ {last} = I
  OBVIOUS
<1>3. SumFunction(g) = SumFunctionOnSet(g, J) /\ SumFunction(f) = SumFunctionOnSet(f, I)
  BY DEF SumFunction
<1> HIDE DEF I, J
<1>4. SumFunctionOnSet(g, J) = g[last] + SumFunctionOnSet(g, I)
  <2> HIDE DEF last
  <2>1. SumFunctionOnSet(g, J) = g[last] + SumFunctionOnSet(g, J \ {last})
    BY <1>1, <1>2, SumAny
  <2>2. QED BY <1>2, <2>1
<1>5. SumFunctionOnSet(g, I) = SumFunctionOnSet(f, I) BY <1>1, <1>2, SumSame
<1>6. SumFunctionOnSet(f, I) \in Int BY <1>1, <1>2, SumIsInt
<1>7. QED BY <1>3, <1>4, <1>5, <1>6

-----------------------------------------------------------------------------
(* Whole grains.                                                           *)

LEMMA WholeGrains ==
  ASSUME NEW n \in Nat, NEW g \in Nat \ {0}
  PROVE  (n * g) % g = 0
<1>1. n * g \in Nat OBVIOUS
<1> DEFINE q == (n * g) \div g
           r == (n * g) % g
<1>2. /\ q \in Nat /\ r \in Nat /\ r < g
      /\ n * g = g * q + r
  BY <1>1
<1> HIDE DEF q, r
<1>3. CASE q <= n - 1
  <2>1. g * q <= g * (n - 1) BY <1>2, <1>3
  <2>2. g * (n - 1) = n * g - g OBVIOUS
  <2>3. QED BY <1>2, <2>1, <2>2
<1>4. CASE q >= n + 1
  <2>1. g * q >= g * (n + 1) BY <1>2, <1>4
  <2>2. g * (n + 1) = n * g + g OBVIOUS
  <2>3. QED BY <1>2, <2>1, <2>2
<1>5. CASE q = n
  <2>1. g * q = n * g BY <1>5
  <2>2. r = 0 BY <1>1, <1>2, <2>1
  <2>3. QED BY <2>2 DEF r
<1>6. QED BY <1>2, <1>3, <1>4, <1>5

LEMMA InGrains ==
  ASSUME NEW m \in Nat, NEW g \in Nat \ {0}, m % g = 0
  PROVE  m \div g \in Nat /\ m = (m \div g) * g
OBVIOUS

LEMMA GrainsAdd ==
  ASSUME NEW m \in Nat, NEW n \in Nat, NEW g \in Nat \ {0}, m % g = 0, n % g = 0
  PROVE  (m + n) % g = 0
<1>1. PICK j \in Nat : m = j * g BY InGrains
<1>2. PICK k \in Nat : n = k * g BY InGrains
<1>3. m + n = (j + k) * g BY <1>1, <1>2
<1>4. j + k \in Nat OBVIOUS
<1>5. QED BY <1>3, <1>4, WholeGrains

LEMMA DivisionBelow ==
  ASSUME NEW a \in Nat, NEW d \in Nat, d > 0
  PROVE  /\ a \div d \in Nat
         /\ (a \div d) * d <= a
         /\ a < (a \div d) * d + d
BY SMT

LEMMA MinBelow ==
  ASSUME NEW a \in Nat, NEW b \in Nat
  PROVE  /\ Min({a, b}) \in {a, b}
         /\ Min({a, b}) \in Nat /\ Min({a, b}) <= a /\ Min({a, b}) <= b
BY SMT DEF Min

-----------------------------------------------------------------------------
(* Sequences.                                                              *)

LEMMA Joined ==
  ASSUME NEW S, NEW a \in Seq(S), NEW b \in Seq(S)
  PROVE  /\ a \o b \in Seq(S)
         /\ Len(a \o b) = Len(a) + Len(b)
         /\ \A i \in 1..Len(a) : (a \o b)[i] = a[i]
         /\ \A i \in 1..(Len(a) + Len(b)) : i > Len(a) => (a \o b)[i] = b[i - Len(a)]
<1>1. Len(a \o b) = Len(a) + Len(b) OBVIOUS
<1>2. \A i \in 1..Len(a) : (a \o b)[i] = a[i] OBVIOUS
<1>3. \A i \in 1..(Len(a) + Len(b)) : i > Len(a) => (a \o b)[i] = b[i - Len(a)]
  OBVIOUS
<1>4. QED BY <1>1, <1>2, <1>3

-----------------------------------------------------------------------------
(* A loop of n turns, as a recursive function on 0..n.                      *)

\* What holds before the first turn and is kept by each holds after every one.
LEMMA LoopKeeps ==
  ASSUME NEW n \in Nat, NEW after, NEW Good, after[0] \in Good,
         \A k \in 1..n : after[k - 1] \in Good => after[k] \in Good
  PROVE  \A k \in 0..n : after[k] \in Good
<1> DEFINE Wrong == {k \in 0..n : after[k] \notin Good}
<1> SUFFICES ASSUME Wrong # {} PROVE FALSE
  OBVIOUS
<1>1. PICK k \in Wrong : \A j \in Wrong : ~(<<j, k>> \in OpToRel(<, Nat))
  <2>1. Wrong \subseteq Nat OBVIOUS
  <2> HIDE DEF Wrong
  <2>2. QED BY <2>1, WFMin, NatLessThanWellFounded
<1>2. k # 0 BY <1>1
<1>3. k \in 1..n /\ k - 1 \in 0..n
  <2>1. k \in 0..n OBVIOUS
  <2> HIDE DEF Wrong
  <2>2. QED BY <1>2, <2>1
<1>4. <<k - 1, k>> \in OpToRel(<, Nat) BY <1>3 DEF OpToRel
<1>5. k - 1 \notin Wrong BY <1>1, <1>4
<1>6. QED BY <1>1, <1>3, <1>5

\* The states after each turn.
IsLoop(after, n, State, before, turn) ==
  /\ after \in [0..n -> State]
  /\ after[0] = before
  /\ \A k \in 1..n : after[k] = turn[k][after[k - 1]]

\* A loop on a set of states that no turn leaves is a function.
LEMMA LoopExists ==
  ASSUME NEW n \in Nat, NEW State, NEW before \in State,
         NEW turn \in [1..n -> [State -> State]]
  PROVE  \E after : IsLoop(after, n, State, before, turn)
<1> DEFINE Is(g, m) == g = [k \in 0..m |-> IF k = 0 THEN before ELSE turn[k][g[k - 1]]]
           Wrong == {m \in 0..n : \A g \in [0..m -> State] : ~Is(g, m)}
<1>1. Wrong = {}
  <2> SUFFICES ASSUME Wrong # {} PROVE FALSE
    OBVIOUS
  <2>1. PICK m \in Wrong : \A j \in Wrong : ~(<<j, m>> \in OpToRel(<, Nat))
    <3>1. Wrong \subseteq Nat OBVIOUS
    <3> HIDE DEF Wrong
    <3>2. QED BY <3>1, WFMin, NatLessThanWellFounded
  <2>2. m # 0
    <3> SUFFICES ASSUME m = 0 PROVE FALSE
      OBVIOUS
    <3> DEFINE g == [k \in 0..0 |-> before]
    <3>1. g \in [0..0 -> State] OBVIOUS
    <3>2. Is(g, 0) OBVIOUS
    <3>3. QED BY <2>1, <3>1, <3>2
  <2>3. m \in 1..n /\ m - 1 \in 0..n
    <3>1. m \in 0..n OBVIOUS
    <3> HIDE DEF Wrong
    <3>2. QED BY <2>2, <3>1
  <2>4. <<m - 1, m>> \in OpToRel(<, Nat) BY <2>3 DEF OpToRel
  <2>5. m - 1 \notin Wrong BY <2>1, <2>4
  <2>6. PICK g \in [0..(m - 1) -> State] : Is(g, m - 1) BY <2>3, <2>5
  <2> DEFINE h == [k \in 0..m |-> IF k = m THEN turn[m][g[m - 1]] ELSE g[k]]
  <2>7. turn[m][g[m - 1]] \in State
    <3>1. g[m - 1] \in State BY <2>3, <2>6
    <3>2. QED BY <2>3, <3>1
  <2>8. h \in [0..m -> State]
    <3>1. \A k \in 0..m : k # m => k \in 0..(m - 1) BY <2>3
    <3>2. QED BY <2>6, <2>7, <3>1
  <2>9. ASSUME NEW k \in 0..m
        PROVE  h[k] = IF k = 0 THEN before ELSE turn[k][h[k - 1]]
    <3>1. CASE k = m
      <4>1. h[m] = turn[m][g[m - 1]] /\ h[m - 1] = g[m - 1] BY <2>3
      <4> HIDE DEF h
      <4>2. QED BY <2>3, <3>1, <4>1
    <3>2. CASE k # m
      <4>1. k \in 0..(m - 1) BY <2>3, <3>2
      <4>2. h[k] = g[k] BY <3>2
      <4>3. g[k] = IF k = 0 THEN before ELSE turn[k][g[k - 1]] BY <2>6, <4>1
      <4>4. k # 0 => h[k - 1] = g[k - 1] BY <2>3, <4>1
      <4>5. QED BY <4>2, <4>3, <4>4
    <3>3. QED BY <3>1, <3>2
  <2>10. h = [k \in 0..m |-> h[k]] OBVIOUS
  <2> HIDE DEF h
  <2>11. Is(h, m) BY <2>9, <2>10
  <2>12. QED BY <2>1, <2>8, <2>11
<1>2. n \notin Wrong BY <1>1
<1>3. PICK g \in [0..n -> State] : Is(g, n) BY <1>2
<1>4. g[0] = before BY <1>3
<1>5. \A k \in 1..n : g[k] = turn[k][g[k - 1]]
  <2>1. \A k \in 1..n : k \in 0..n /\ k # 0 OBVIOUS
  <2>2. QED BY <1>3, <2>1
<1>6. QED BY <1>3, <1>4, <1>5 DEF IsLoop

-----------------------------------------------------------------------------
(* The checkpoint series of one investor.                                  *)

CheckpointOf(Val) == [checkpointId : Nat \ {0}, value : Val]

\* The fields of the entries of a series.
LEMMA EntryTypes ==
  ASSUME NEW Val, NEW cps \in Seq(CheckpointOf(Val)), NEW i \in 1..Len(cps)
  PROVE  cps[i].checkpointId \in Nat /\ cps[i].value \in Val
<1>1. cps[i] \in CheckpointOf(Val)
  OBVIOUS
<1> QED  BY <1>1 DEF CheckpointOf

\* If some entry is at or after id, there is a first one, no later than it.
LEMMA FirstExists ==
  ASSUME NEW Val, NEW cps \in Seq(CheckpointOf(Val)), NEW id \in Nat,
         NEW k \in 1..Len(cps), cps[k].checkpointId >= id
  PROVE  \E i \in 1..k : FirstAtOrAfter(cps, id, i)
<1> DEFINE Late == {i \in 1..k : cps[i].checkpointId >= id}
<1>1. Late \subseteq Nat /\ Late # {}
  OBVIOUS
<1>2. PICK i \in Late : \A j \in Late : ~(<<j, i>> \in OpToRel(<, Nat))
  BY <1>1, WFMin, NatLessThanWellFounded
<1>3. \A j \in Late : ~(j < i)
  BY <1>1, <1>2 DEF OpToRel
<1>4. \A j \in 1..Len(cps) : cps[j].checkpointId \in Nat
  BY EntryTypes
<1>5. FirstAtOrAfter(cps, id, i)
  BY <1>3, <1>4, SMTT(30) DEF FirstAtOrAfter
<1> QED  BY <1>5

\* ValueAt is the value of the first entry at or after id.
LEMMA ValueAtFirst ==
  ASSUME NEW Val, NEW cps \in Seq(CheckpointOf(Val)), NEW id \in Nat \ {0},
         NEW current, NEW i, FirstAtOrAfter(cps, id, i)
  PROVE  ValueAt(cps, id, current) = cps[i].value
<1>1. \A j \in 1..Len(cps) : cps[j].checkpointId \in Nat
  BY EntryTypes
<1>2. \A j \in 1..Len(cps) : FirstAtOrAfter(cps, id, j) => j = i
  BY <1>1 DEF FirstAtOrAfter
<1>3. i \in 1..Len(cps)
  BY DEF FirstAtOrAfter
<1>4. (CHOOSE j \in 1..Len(cps) : FirstAtOrAfter(cps, id, j)) = i
  BY <1>2, <1>3
<1> QED  BY <1>3, <1>4 DEF ValueAt

\* ValueAt is the current value if every entry is before id.
LEMMA ValueAtNone ==
  ASSUME NEW Val, NEW cps \in Seq(CheckpointOf(Val)), NEW id \in Nat \ {0},
         NEW current, \A i \in 1..Len(cps) : cps[i].checkpointId < id
  PROVE  ValueAt(cps, id, current) = current
<1>1. \A i \in 1..Len(cps) : cps[i].checkpointId \in Nat
  BY EntryTypes
<1>2. \A i \in 1..Len(cps) : ~FirstAtOrAfter(cps, id, i)
  BY <1>1 DEF FirstAtOrAfter
<1> QED  BY <1>2 DEF ValueAt

\* The value at a checkpoint is a value.
LEMMA ValueAtType ==
  ASSUME NEW Val, NEW cps \in Seq(CheckpointOf(Val)), NEW id \in Nat \ {0},
         NEW current \in Val
  PROVE  ValueAt(cps, id, current) \in Val
<1>1. CASE \E i \in 1..Len(cps) : FirstAtOrAfter(cps, id, i)
  <2>1. PICK i \in 1..Len(cps) : FirstAtOrAfter(cps, id, i)
    BY <1>1
  <2>2. cps[i].value \in Val
    BY EntryTypes
  <2> QED  BY <2>1, <2>2, ValueAtFirst
<1>2. CASE ~\E i \in 1..Len(cps) : FirstAtOrAfter(cps, id, i)
  BY <1>2 DEF ValueAt
<1> QED  BY <1>1, <1>2

\* Adjusting a series gives a series.
LEMMA AdjustType ==
  ASSUME NEW Val, NEW cps \in Seq(CheckpointOf(Val)), NEW currentId \in Nat,
         NEW balance \in Val
  PROVE  AdjustCheckpoints(cps, balance, currentId) \in Seq(CheckpointOf(Val))
<1>1. CASE currentId = 0
  BY <1>1 DEF AdjustCheckpoints
<1>2. CASE currentId # 0
  <2> DEFINE entry == [checkpointId |-> currentId, value |-> balance]
  <2>1. entry \in CheckpointOf(Val)
    BY <1>2 DEF CheckpointOf
  <2> HIDE DEF entry
  <2>2. Append(cps, entry) \in Seq(CheckpointOf(Val))
    BY <2>1
  <2> QED  BY <2>2 DEF AdjustCheckpoints, entry
<1> QED  BY <1>1, <1>2

\* Once a series is adjusted to the current checkpoint, its answers for all
\* checkpoints no longer depend on the balance, and are the ones it gave for
\* the balance it was adjusted with.
LEMMA AdjustKeepsValues ==
  ASSUME NEW Val, NEW cps \in Seq(CheckpointOf(Val)), NEW currentId \in Nat,
         InOrder(cps, currentId), NEW balance \in Val
  PROVE  LET adjusted == AdjustCheckpoints(cps, balance, currentId) IN
         /\ adjusted \in Seq(CheckpointOf(Val))
         /\ InOrder(adjusted, currentId)
         /\ AdjustCheckpoints(adjusted, balance, currentId) = adjusted
         /\ \A id \in 1..currentId, later \in Val :
              ValueAt(adjusted, id, later) = ValueAt(cps, id, balance)
<1> DEFINE entry == [checkpointId |-> currentId, value |-> balance]
           pushed == Append(cps, entry)
           n == Len(cps)
<1>0. \A j \in 1..n : cps[j].checkpointId \in Nat
  BY EntryTypes
<1>1. CASE currentId = 0
  BY <1>1 DEF AdjustCheckpoints
<1>2. CASE currentId # 0 /\ n > 0 /\ cps[n].checkpointId = currentId
  <2>1. AdjustCheckpoints(cps, balance, currentId) = cps
    BY <1>2 DEF AdjustCheckpoints
  <2>2. ASSUME NEW id \in 1..currentId, NEW later \in Val
        PROVE  ValueAt(cps, id, later) = ValueAt(cps, id, balance)
    <3>1. n \in 1..Len(cps) /\ cps[n].checkpointId >= id
      BY <1>2
    <3>2. PICK i \in 1..n : FirstAtOrAfter(cps, id, i)
      BY <3>1, FirstExists
    <3> QED  BY <3>2, ValueAtFirst
  <2> QED  BY <2>1, <2>2
<1>3. CASE currentId # 0 /\ ~(n > 0 /\ cps[n].checkpointId = currentId)
  <2>1. AdjustCheckpoints(cps, balance, currentId) = pushed
    BY <1>3 DEF AdjustCheckpoints
  <2>2. entry \in CheckpointOf(Val)
    BY <1>3 DEF CheckpointOf
  <2>3. /\ pushed \in Seq(CheckpointOf(Val))
        /\ Len(pushed) = n + 1
        /\ pushed[n + 1] = entry
        /\ \A i \in 1..n : pushed[i] = cps[i]
    BY <2>2
  <2>4. \A i \in 1..n : cps[i].checkpointId < currentId
    <3>1. n > 0 => cps[n].checkpointId < currentId
      BY <1>0, <1>3 DEF InOrder
    <3> QED  BY <1>0, <3>1 DEF InOrder
  <2>5. InOrder(pushed, currentId)
    <3> SUFFICES ASSUME NEW i \in 1..(n + 1)
                 PROVE  /\ pushed[i].checkpointId <= currentId
                        /\ \A j \in 1..(i - 1) :
                             pushed[j].checkpointId < pushed[i].checkpointId
      BY <2>3 DEF InOrder
    <3>1. CASE i = n + 1
      BY <3>1, <2>3, <2>4
    <3>2. CASE i \in 1..n
      BY <3>2, <2>3 DEF InOrder
    <3> QED  BY <3>1, <3>2
  <2>6. AdjustCheckpoints(pushed, balance, currentId) = pushed
    BY <2>3 DEF AdjustCheckpoints
  <2>7. ASSUME NEW id \in 1..currentId, NEW later \in Val
        PROVE  ValueAt(pushed, id, later) = ValueAt(cps, id, balance)
    <3>0. entry.value = balance /\ entry.checkpointId = currentId
      OBVIOUS
    <3> HIDE DEF pushed, entry
    <3>1. CASE \E k \in 1..n : cps[k].checkpointId >= id
      <4>1. PICK i \in 1..n : FirstAtOrAfter(cps, id, i)
        BY <3>1, FirstExists
      <4>2. FirstAtOrAfter(pushed, id, i)
        BY <4>1, <2>3, SMTT(30) DEF FirstAtOrAfter
      <4> QED  BY <4>1, <4>2, <2>3, ValueAtFirst
    <3>2. CASE \A k \in 1..n : cps[k].checkpointId < id
      <4>1. FirstAtOrAfter(pushed, id, n + 1)
        BY <3>2, <2>3, <3>0 DEF FirstAtOrAfter
      <4>2. ValueAt(pushed, id, later) = balance
        BY <4>1, <2>3, <3>0, ValueAtFirst
      <4> QED  BY <4>2, <3>2, ValueAtNone
    <3> QED  BY <3>1, <3>2, <1>0
  <2> QED  BY <2>1, <2>3, <2>5, <2>6, <2>7
<1> QED  BY <1>1, <1>2, <1>3

\* A series says nothing of a checkpoint created after its last entry: the
\* answer is the current value.
LEMMA ValueAtNew ==
  ASSUME NEW Val, NEW cps \in Seq(CheckpointOf(Val)), NEW currentId \in Nat,
         InOrder(cps, currentId), NEW id \in Nat, id > currentId, NEW current
  PROVE  ValueAt(cps, id, current) = current
<1>1. \A i \in 1..Len(cps) : cps[i].checkpointId \in Nat
  BY EntryTypes
<1>2. \A i \in 1..Len(cps) : cps[i].checkpointId < id
  BY <1>1 DEF InOrder
<1> QED  BY <1>2, ValueAtNone

\* A series stays ordered when further checkpoints are created.
LEMMA InOrderLater ==
  ASSUME NEW Val, NEW cps \in Seq(CheckpointOf(Val)), NEW currentId \in Nat,
         InOrder(cps, currentId), NEW k \in Nat
  PROVE  InOrder(cps, currentId + k)
<1>1. \A i \in 1..Len(cps) : cps[i].checkpointId \in Nat
  BY EntryTypes
<1> QED  BY <1>1 DEF InOrder
=============================================================================
