----------------------------- MODULE VestingProofs -----------------------------
(***************************************************************************)
(* Theorems about the vesting escrow wallet, for any beneficiaries,        *)
(* templates, granularity and bounds, under every sequence of calls: the   *)
(* wallet can pay what it promised, its arrays and the indexes kept of     *)
(* them agree, and nothing that was released is taken back.                *)
(***************************************************************************)
EXTENDS VestingEscrowWallet, SharedLemmas

-----------------------------------------------------------------------------
(* Lists from which the last entry is moved to the place of a removed one. *)

LEMMA WithoutIs ==
  ASSUME NEW X, NEW list \in Seq(X), NEW k \in 0 .. Len(list) - 1
  PROVE  /\ Without(list, k) \in Seq(X)
         /\ Len(Without(list, k)) = Len(list) - 1
         /\ \A j \in 1 .. Len(list) - 1 :
              Without(list, k)[j] = IF j = k + 1 THEN list[Len(list)] ELSE list[j]
<1> DEFINE n == Len(list)
           moved == [list EXCEPT ![k + 1] = list[n]]
<1>1. n \in Nat /\ k \in Nat /\ k + 1 \in 1 .. n /\ n \in 1 .. n OBVIOUS
<1>2. moved \in Seq(X) /\ Len(moved) = n BY <1>1
<1>3. \A j \in 1 .. n : moved[j] = IF j = k + 1 THEN list[n] ELSE list[j]
  BY <1>1
<1>4. Without(list, k) = SubSeq(moved, 1, n - 1) BY DEF Without
<1> HIDE DEF moved
<1>5. SubSeq(moved, 1, n - 1) \in Seq(X) /\ Len(SubSeq(moved, 1, n - 1)) = n - 1
  BY <1>1, <1>2
<1>6. \A j \in 1 .. n - 1 : SubSeq(moved, 1, n - 1)[j] = moved[j]
  BY <1>1, <1>2
<1>7. \A j \in 1 .. n - 1 : j \in 1 .. n BY <1>1
<1> HIDE DEF n
<1>8. QED BY <1>3, <1>4, <1>5, <1>6, <1>7 DEF n

\* Every entry is where its index says, counted from 0.
Indexed(list, index) == \A i \in 1 .. Len(list) : index[list[i]] = i - 1

IsIn(x, list) == \E i \in 1 .. Len(list) : list[i] = x

\* The list without x and the index after it, as all removals compute them.
LEMMA RemovalKeeps ==
  ASSUME NEW X, NEW list \in Seq(X), NEW index \in [X -> Nat], Indexed(list, index),
         NEW x \in X, IsIn(x, list)
  PROVE  LET new == Without(list, index[x])
             newIndex == [index EXCEPT ![list[Len(list)]] = index[x], ![x] = 0]
         IN  /\ index[x] \in 0 .. Len(list) - 1 /\ list[index[x] + 1] = x
             /\ new \in Seq(X) /\ Len(new) = Len(list) - 1
             /\ newIndex \in [X -> Nat]
             /\ Indexed(new, newIndex)
             /\ \A y : IsIn(y, new) <=> IsIn(y, list) /\ y # x
<1> DEFINE n == Len(list)
           k == index[x]
           last == list[n]
           new == Without(list, k)
           newIndex == [index EXCEPT ![last] = k, ![x] = 0]
<1>1. PICK i \in 1 .. n : list[i] = x BY DEF IsIn
<1>2. n \in Nat /\ n > 0 /\ k = i - 1 BY <1>1 DEF Indexed
<1>3. k \in 0 .. n - 1 /\ list[k + 1] = x BY <1>1, <1>2
<1>4. last \in X /\ n \in 1 .. n BY <1>2
<1>5. /\ new \in Seq(X) /\ Len(new) = n - 1
      /\ \A j \in 1 .. n - 1 : new[j] = IF j = k + 1 THEN last ELSE list[j]
  BY <1>3, WithoutIs
<1>6. newIndex \in [X -> Nat] BY <1>3, <1>4
<1>7. \A y \in X : newIndex[y] = IF y = x THEN 0 ELSE IF y = last THEN k ELSE index[y]
  BY <1>4
<1>8. \A j \in 1 .. n : list[j] \in X /\ index[list[j]] = j - 1
  BY DEF Indexed
<1> HIDE DEF new, newIndex, k, last, n
<1>9. \A j \in 1 .. n, l \in 1 .. n : list[j] = list[l] => j = l
  BY <1>2, <1>8
<1>10. ASSUME NEW j \in 1 .. n - 1
       PROVE  new[j] # x /\ newIndex[new[j]] = j - 1 /\ IsIn(new[j], list)
  <2>0. j \in 1 .. n /\ n \in 1 .. n /\ k + 1 \in 1 .. n BY <1>2, <1>3
  <2>1. CASE j = k + 1
    <3>1. new[j] = last /\ last = list[n] BY <1>5, <2>1 DEF last, n
    <3>2. last # x BY <1>2, <1>3, <1>9, <2>0, <2>1, <3>1
    <3>3. newIndex[last] = k BY <1>4, <1>7, <3>2
    <3>4. IsIn(last, list) BY <2>0, <3>1 DEF IsIn, n
    <3>5. QED BY <1>2, <1>3, <2>1, <3>1, <3>2, <3>3, <3>4
  <2>2. CASE j # k + 1
    <3>1. new[j] = list[j] BY <1>5, <2>2
    <3>2. list[j] # x BY <1>3, <1>9, <2>0, <2>2
    <3>3. list[j] # last
      <4>1. last = list[n] BY DEF last, n
      <4>2. j # n BY <1>2
      <4>3. QED BY <1>9, <2>0, <4>1, <4>2
    <3>4. newIndex[list[j]] = j - 1 BY <1>7, <1>8, <2>0, <3>2, <3>3
    <3>5. IsIn(list[j], list) BY <2>0 DEF IsIn, n
    <3>6. QED BY <3>1, <3>2, <3>4, <3>5
  <2>3. QED BY <2>1, <2>2
<1>11. Indexed(new, newIndex) BY <1>5, <1>10 DEF Indexed
<1>12. ASSUME NEW y PROVE IsIn(y, new) <=> IsIn(y, list) /\ y # x
  <2>1. ASSUME IsIn(y, new) PROVE IsIn(y, list) /\ y # x
    BY <1>5, <1>10, <2>1 DEF IsIn
  <2>2. ASSUME IsIn(y, list), y # x PROVE IsIn(y, new)
    <3>1. PICK j \in 1 .. n : list[j] = y BY <2>2 DEF IsIn, n
    <3>2. j # k + 1 BY <1>3, <2>2, <3>1
    <3>3. CASE j = n
      <4>1. k + 1 \in 1 .. n - 1 /\ new[k + 1] = last
        BY <1>2, <1>3, <1>5, <3>2, <3>3
      <4>2. last = y BY <3>1, <3>3 DEF last
      <4>3. QED BY <1>5, <4>1, <4>2 DEF IsIn
    <3>4. CASE j # n
      <4>1. j \in 1 .. n - 1 BY <1>2, <3>4
      <4>2. new[j] = y BY <1>5, <3>1, <3>2, <4>1
      <4>3. QED BY <1>5, <4>1, <4>2 DEF IsIn
    <3>5. QED BY <3>3, <3>4
  <2>3. QED BY <2>1, <2>2
<1>13. QED BY <1>3, <1>5, <1>6, <1>11, <1>12 DEF new, newIndex, k, last, n

\* The list with x, and its index after it.
LEMMA AppendKeeps ==
  ASSUME NEW X, NEW list \in Seq(X), NEW index \in [X -> Nat], Indexed(list, index),
         NEW x \in X, ~IsIn(x, list)
  PROVE  LET new == Append(list, x)
             newIndex == [index EXCEPT ![x] = Len(list)]
         IN  /\ new \in Seq(X) /\ Len(new) = Len(list) + 1
             /\ newIndex \in [X -> Nat]
             /\ Indexed(new, newIndex)
             /\ \A y : IsIn(y, new) <=> IsIn(y, list) \/ y = x
<1> DEFINE n == Len(list)
           new == Append(list, x)
           newIndex == [index EXCEPT ![x] = n]
<1>1. n \in Nat OBVIOUS
<1>2. /\ new \in Seq(X) /\ Len(new) = n + 1 /\ new[n + 1] = x
      /\ \A j \in 1 .. n : new[j] = list[j]
  OBVIOUS
<1>3. newIndex \in [X -> Nat] /\ newIndex[x] = n
      /\ \A y \in X \ {x} : newIndex[y] = index[y]
  BY <1>1
<1>4. \A j \in 1 .. n : list[j] \in X /\ list[j] # x /\ index[list[j]] = j - 1
  BY DEF Indexed, IsIn
<1> HIDE DEF new, newIndex, n
<1>5. \A j \in 1 .. n + 1 : j = n + 1 \/ j \in 1 .. n BY <1>1
<1>6. Indexed(new, newIndex)
  <2>1. ASSUME NEW j \in 1 .. n + 1 PROVE newIndex[new[j]] = j - 1
    <3>1. CASE j = n + 1 BY <1>1, <1>2, <1>3, <3>1
    <3>2. CASE j \in 1 .. n BY <1>2, <1>3, <1>4, <3>2
    <3>3. QED BY <1>5, <3>1, <3>2
  <2>2. QED BY <1>2, <2>1 DEF Indexed
<1>7. \A j \in 1 .. n : j \in 1 .. n + 1 BY <1>1
<1>8. n + 1 \in 1 .. n + 1 BY <1>1
<1>9. ASSUME NEW y PROVE IsIn(y, new) <=> IsIn(y, list) \/ y = x
  BY <1>2, <1>5, <1>7, <1>8 DEF IsIn, n
<1>10. QED BY <1>2, <1>3, <1>6, <1>9 DEF new, newIndex, n

\* The sum of such a list loses the removed entry.
LEMMA ListSumWithout ==
  ASSUME NEW n \in Nat, NEW f, DOMAIN f = 1 .. n, NEW g, DOMAIN g = 1 .. n - 1,
         NEW k \in 1 .. n, \A j \in 1 .. n : f[j] \in Int,
         \A j \in 1 .. n - 1 : g[j] = IF j = k THEN f[n] ELSE f[j]
  PROVE  SumFunction(g) = SumFunction(f) - f[k]
<1> DEFINE m == n - 1
           h == [j \in 1 .. m |-> f[j]]
<1>1. m \in Nat /\ n = m + 1 /\ n \in 1 .. n /\ 1 .. m \subseteq 1 .. n OBVIOUS
<1>2. /\ DOMAIN h = 1 .. m /\ \A j \in 1 .. m : f[j] = h[j] /\ h[j] \in Int
      /\ f[n] \in Int /\ f[k] \in Int
  BY <1>1
<1> HIDE DEF h, m
<1>3. SumFunction(f) = SumFunction(h) + f[n]
  <2>1. f[m + 1] \in Int /\ DOMAIN f = 1 .. m + 1 BY <1>1, <1>2
  <2>2. SumFunction(f) = SumFunction(h) + f[m + 1]
    BY <1>1, <1>2, <2>1, ListSumAppend
  <2>3. QED BY <1>1, <2>2
<1>4. SumFunction(h) \in Int
  <2>1. IsFiniteSet(1 .. m) BY <1>1, FS_Interval
  <2> DEFINE I == 1 .. m
  <2>2. IsFiniteSet(I) /\ DOMAIN h = I /\ \A j \in I : h[j] \in Int BY <1>2, <2>1
  <2> HIDE DEF I
  <2>3. QED BY <2>2, SumIsInt DEF SumFunction
<1>5. DOMAIN g = 1 .. m /\ \A j \in 1 .. m : g[j] = IF j = k THEN f[n] ELSE h[j]
  BY <1>2 DEF m
<1>6. CASE k = n
  <2> DEFINE I == 1 .. m
  <2>1. \A j \in I : h[j] \in Int /\ g[j] = h[j] BY <1>1, <1>2, <1>5, <1>6
  <2>2. IsFiniteSet(I) BY <1>1, FS_Interval
  <2>3. DOMAIN h = I /\ DOMAIN g = I BY <1>2, <1>5
  <2> HIDE DEF I
  <2>4. SumFunctionOnSet(g, I) = SumFunctionOnSet(h, I) BY <2>1, <2>2, SumSame
  <2>5. SumFunction(g) = SumFunction(h) BY <2>3, <2>4 DEF SumFunction
  <2>6. QED BY <1>2, <1>3, <1>4, <1>6, <2>5
<1>7. CASE k # n
  <2> DEFINE I == 1 .. m
             d == f[n] - f[k]
  <2>1. /\ IsFiniteSet(I) /\ k \in I /\ DOMAIN h = I /\ DOMAIN g = I
        /\ \A j \in I : h[j] \in Int
        /\ \A j \in I \ {k} : g[j] = h[j]
    <3>1. IsFiniteSet(I) BY <1>1, FS_Interval
    <3>2. k \in I BY <1>1, <1>7
    <3>3. QED BY <1>2, <1>5, <3>1, <3>2
  <2>2. g[k] = h[k] + d /\ d \in Int
    <3>1. g[k] = f[n] /\ h[k] = f[k] BY <1>2, <1>5, <2>1
    <3>2. QED BY <1>2, <3>1
  <2> HIDE DEF I, d
  <2>3. SumFunction(g) = SumFunction(h) + d BY <2>1, <2>2, SumFunctionChange, SMTT(30)
  <2>4. QED BY <1>2, <1>3, <1>4, <2>3 DEF d
<1>8. QED BY <1>6, <1>7

-----------------------------------------------------------------------------
(* The invariant of a wallet.                                              *)

Template == [numberOfTokens : Nat, duration : Nat, frequency : Nat, index : Nat]
Schedule == [templateName : TemplateName, claimedTokens : Int, startTime : Int]

Wallet ==
  [paused              : BOOLEAN,
   balance             : Int,
   received            : [Beneficiary -> Int],
   reclaimed           : Int,
   unassignedTokens    : Int,
   templates           : UNION {[names -> Template] : names \in SUBSET TemplateName},
   templateNames       : Seq(TemplateName),
   beneficiaries       : Seq(Beneficiary),
   schedules           : [Beneficiary -> Seq(Schedule)],
   userToTemplates     : [Beneficiary -> Seq(TemplateName)],
   userToTemplateIndex : [Beneficiary -> [TemplateName -> Nat]],
   templateToUsers     : [TemplateName -> Seq(Beneficiary)],
   templateToUserIndex : [TemplateName -> [Beneficiary -> Nat]]]

\* Templates have periods, and a list of their names.
TemplatesKept(w) ==
  /\ IsFiniteSet(DOMAIN w.templates)
  /\ \A t \in DOMAIN w.templates :
       /\ w.templates[t].frequency > 0
       /\ w.templates[t].duration \div w.templates[t].frequency > 0
  /\ Len(w.templateNames) = Cardinality(DOMAIN w.templates)
  /\ Indexed(w.templateNames, [t \in DOMAIN w.templates |-> w.templates[t].index])
  /\ \A t : IsIn(t, w.templateNames) <=> t \in DOMAIN w.templates

\* The lists of each user and of each template say the same.
ArraysKept(w) ==
  /\ \A b \in Beneficiary :
       /\ Len(w.userToTemplates[b]) = Len(w.schedules[b])
       /\ \A i \in 1 .. Len(w.schedules[b]) :
            w.schedules[b][i].templateName = w.userToTemplates[b][i]
       /\ Indexed(w.userToTemplates[b], w.userToTemplateIndex[b])
       /\ \A t : IsIn(t, w.userToTemplates[b]) =>
            IsIn(b, w.beneficiaries) /\ t \in DOMAIN w.templates
  /\ \A t \in TemplateName :
       /\ Indexed(w.templateToUsers[t], w.templateToUserIndex[t])
       /\ \A b \in Beneficiary :
            IsIn(b, w.templateToUsers[t]) <=> IsIn(t, w.userToTemplates[b])

Backed(w) ==
  w.balance + w.reclaimed =
    w.unassignedTokens + SumFunction([b \in Beneficiary |-> UnclaimedOf(w, b)])

WInv(w) == w \in Wallet /\ TemplatesKept(w) /\ ArraysKept(w) /\ Backed(w)

\* What a beneficiary got and may still claim.
HasGot(w, b, time) == w.received[b] + AvailableOf(w, b, time)

\* What a call does to a wallet.
KeepsPromises(v, w, time) ==
  /\ WInv(v)
  /\ \A b \in Beneficiary : HasGot(w, b, time) <= HasGot(v, b, time)

-----------------------------------------------------------------------------
(* Amounts.                                                                *)

LEMMA DivisionGrows ==
  ASSUME NEW a \in Nat, NEW b \in Nat, a <= b, NEW d \in Nat, d > 0
  PROVE  a \div d <= b \div d
<1> DEFINE x == a \div d
           y == b \div d
<1>1. /\ x \in Nat /\ x * d <= a
      /\ y \in Nat /\ b < y * d + d
  BY DivisionBelow
<1> HIDE DEF x, y
<1> SUFFICES ASSUME x >= y + 1 PROVE FALSE
  BY <1>1 DEF x, y
<1>2. x * d >= (y + 1) * d BY <1>1
<1>3. (y + 1) * d = y * d + d BY <1>1
<1>4. x * d \in Int /\ y * d \in Int BY <1>1
<1>5. QED BY <1>1, <1>2, <1>3, <1>4

LEMMA ProductGrows ==
  ASSUME NEW n \in Nat, NEW x \in Nat, NEW y \in Nat, x <= y
  PROVE  n * x \in Nat /\ n * x <= n * y
OBVIOUS

\* The terms of a schedule.
LEMMA TermsAreNumbers ==
  ASSUME NEW w, w \in Wallet, TemplatesKept(w),
         NEW s \in Schedule, s.templateName \in DOMAIN w.templates
  PROVE  /\ NumberOfTokens(w, s) \in Nat
         /\ Period(w, s) \in Nat /\ Period(w, s) > 0
         /\ PeriodCount(w, s) \in Nat /\ PeriodCount(w, s) > 0
<1> DEFINE p == w.templates[s.templateName]
<1>1. p \in Template
  <2>1. w.templates \in UNION {[names -> Template] : names \in SUBSET TemplateName}
    BY DEF Wallet
  <2>2. PICK names \in SUBSET TemplateName : w.templates \in [names -> Template]
    BY <2>1
  <2>3. QED BY <2>2
<1>2. /\ p.frequency > 0 /\ p.duration \div p.frequency > 0 BY DEF TemplatesKept
<1>3. /\ p.numberOfTokens \in Nat /\ p.duration \in Nat /\ p.frequency \in Nat
  BY <1>1 DEF Template
<1>4. p.duration \div p.frequency \in Nat BY <1>2, <1>3, DivisionBelow
<1>5. QED BY <1>2, <1>3, <1>4 DEF NumberOfTokens, Period, PeriodCount

\* What is released is a number that only grows with time.
LEMMA ReleasedGrows ==
  ASSUME NEW w, w \in Wallet, TemplatesKept(w),
         NEW s \in Schedule, s.templateName \in DOMAIN w.templates,
         NEW time \in Int, NEW later \in Int, time <= later
  PROVE  /\ GetReleasedTokens(w, s, time) \in Nat
         /\ GetReleasedTokens(w, s, later) \in Nat
         /\ GetReleasedTokens(w, s, time) <= GetReleasedTokens(w, s, later)
<1> DEFINE n == NumberOfTokens(w, s)
           p == Period(w, s)
           c == PeriodCount(w, s)
           start == s.startTime
           turns(x) == Min({(x - start) \div p, c})
<1>1. /\ n \in Nat /\ p \in Nat /\ p > 0 /\ c \in Nat /\ c > 0
      /\ start \in Int
  BY TermsAreNumbers DEF Schedule
<1>2. /\ GetReleasedTokens(w, s, time)
           = IF time > start THEN (n * turns(time)) \div c ELSE 0
      /\ GetReleasedTokens(w, s, later)
           = IF later > start THEN (n * turns(later)) \div c ELSE 0
  BY DEF GetReleasedTokens
<1> HIDE DEF n, p, c, start
<1>3. ASSUME NEW x \in Int, x > start
      PROVE  /\ (x - start) \div p \in Nat
             /\ turns(x) \in {(x - start) \div p, c} /\ turns(x) \in Nat
             /\ turns(x) <= (x - start) \div p /\ turns(x) <= c
             /\ (n * turns(x)) \div c \in Nat
  <2>1. x - start \in Nat BY <1>1, <1>3
  <2>2. (x - start) \div p \in Nat BY <1>1, <2>1, DivisionBelow
  <2>3. /\ turns(x) \in {(x - start) \div p, c} /\ turns(x) \in Nat
        /\ turns(x) <= (x - start) \div p /\ turns(x) <= c
    BY <1>1, <2>2, MinBelow
  <2> HIDE DEF turns
  <2>4. n * turns(x) \in Nat BY <1>1, <2>3
  <2>5. (n * turns(x)) \div c \in Nat BY <1>1, <2>4, DivisionBelow
  <2>6. QED BY <2>2, <2>3, <2>5
<1>4. ASSUME time > start
      PROVE  (n * turns(time)) \div c <= (n * turns(later)) \div c
  <2>1. later > start BY <1>1, <1>4
  <2>2. /\ time - start \in Nat /\ later - start \in Nat
        /\ time - start <= later - start
    BY <1>1, <1>4
  <2>3. (time - start) \div p <= (later - start) \div p
    BY <1>1, <2>2, DivisionGrows
  <2>4. /\ turns(time) \in Nat /\ turns(later) \in Nat
        /\ turns(later) \in {(later - start) \div p, c}
        /\ turns(time) <= (time - start) \div p /\ turns(time) <= c
        /\ (time - start) \div p \in Nat /\ (later - start) \div p \in Nat
    BY <1>3, <1>4, <2>1
  <2> HIDE DEF turns
  <2>5. turns(time) <= turns(later) BY <1>1, <2>3, <2>4
  <2>6. /\ n * turns(time) \in Nat /\ n * turns(later) \in Nat
        /\ n * turns(time) <= n * turns(later)
    BY <1>1, <2>4, <2>5, ProductGrows
  <2>7. QED BY <1>1, <2>6, DivisionGrows
<1> HIDE DEF turns
<1>5. QED BY <1>1, <1>2, <1>3, <1>4

\* All amounts of all schedules.
LEMMA AmountsAreNumbers ==
  ASSUME NEW w, w \in Wallet, TemplatesKept(w), ArraysKept(w),
         NEW b \in Beneficiary, NEW time \in Int
  PROVE  /\ w.schedules[b] \in Seq(Schedule)
         /\ IsFiniteSet(DOMAIN w.schedules[b])
         /\ \A i \in DOMAIN w.schedules[b] :
              LET s == w.schedules[b][i] IN
              /\ s \in Schedule /\ s.templateName \in DOMAIN w.templates
              /\ GetReleasedTokens(w, s, time) \in Int
              /\ GetAvailableTokens(w, s, time) \in Int
              /\ NumberOfTokens(w, s) - s.claimedTokens \in Int
         /\ AvailableOf(w, b, time) \in Int
         /\ UnclaimedOf(w, b) \in Int
         /\ w.received[b] \in Int
<1> DEFINE list == w.schedules[b]
<1>1. list \in Seq(Schedule) /\ w.received[b] \in Int BY DEF Wallet
<1>2. IsFiniteSet(DOMAIN list)
  <2>1. DOMAIN list = 1 .. Len(list) /\ Len(list) \in Nat BY <1>1
  <2>2. QED BY <2>1, FS_Interval
<1>3. ASSUME NEW i \in DOMAIN list
      PROVE  LET s == list[i] IN
             /\ s \in Schedule /\ s.templateName \in DOMAIN w.templates
             /\ GetReleasedTokens(w, s, time) \in Int
             /\ GetAvailableTokens(w, s, time) \in Int
             /\ NumberOfTokens(w, s) - s.claimedTokens \in Int
  <2> DEFINE s == list[i]
  <2>1. s \in Schedule /\ i \in 1 .. Len(list) BY <1>1
  <2>2. s.templateName \in DOMAIN w.templates
    <3>1. s.templateName = w.userToTemplates[b][i] BY <2>1 DEF ArraysKept
    <3>2. Len(w.userToTemplates[b]) = Len(list) BY DEF ArraysKept
    <3>3. IsIn(s.templateName, w.userToTemplates[b]) BY <2>1, <3>1, <3>2 DEF IsIn
    <3>4. QED BY <3>3 DEF ArraysKept
  <2> HIDE DEF s
  <2>3. GetReleasedTokens(w, s, time) \in Nat BY <2>1, <2>2, ReleasedGrows
  <2>4. NumberOfTokens(w, s) \in Nat BY <2>1, <2>2, TermsAreNumbers
  <2>5. s.claimedTokens \in Int BY <2>1 DEF Schedule
  <2>6. QED BY <2>1, <2>2, <2>3, <2>4, <2>5 DEF s, GetAvailableTokens
<1>4. AvailableOf(w, b, time) \in Int
  <2> DEFINE f == [i \in DOMAIN list |-> GetAvailableTokens(w, list[i], time)]
             S == DOMAIN list
  <2>1. \A i \in S : f[i] \in Int BY <1>3
  <2>2. IsFiniteSet(S) /\ DOMAIN f = S /\ AvailableOf(w, b, time) = SumFunction(f)
    BY <1>2 DEF AvailableOf
  <2> HIDE DEF f, S
  <2>3. QED BY <2>1, <2>2, SumIsInt DEF SumFunction
<1>5. UnclaimedOf(w, b) \in Int
  <2> DEFINE f == [i \in DOMAIN list |-> NumberOfTokens(w, list[i]) - list[i].claimedTokens]
             S == DOMAIN list
  <2>1. \A i \in S : f[i] \in Int BY <1>3
  <2>2. IsFiniteSet(S) /\ DOMAIN f = S /\ UnclaimedOf(w, b) = SumFunction(f)
    BY <1>2 DEF UnclaimedOf
  <2> HIDE DEF f, S
  <2>3. QED BY <2>1, <2>2, SumIsInt DEF SumFunction
<1>6. QED BY <1>1, <1>2, <1>3, <1>4, <1>5

\* Amounts depend on the schedules and on the terms of their templates.
SameTerms(v, w, t) ==
  /\ v.templates[t].numberOfTokens = w.templates[t].numberOfTokens
  /\ v.templates[t].duration = w.templates[t].duration
  /\ v.templates[t].frequency = w.templates[t].frequency

LEMMA SameAmount ==
  ASSUME NEW v, NEW w, NEW s, SameTerms(v, w, s.templateName), NEW time
  PROVE  /\ NumberOfTokens(v, s) = NumberOfTokens(w, s)
         /\ GetReleasedTokens(v, s, time) = GetReleasedTokens(w, s, time)
         /\ GetAvailableTokens(v, s, time) = GetAvailableTokens(w, s, time)
<1>1. /\ NumberOfTokens(v, s) = NumberOfTokens(w, s)
      /\ Period(v, s) = Period(w, s) /\ PeriodCount(v, s) = PeriodCount(w, s)
  BY DEF SameTerms, NumberOfTokens, Period, PeriodCount
<1>2. GetReleasedTokens(v, s, time) = GetReleasedTokens(w, s, time)
  BY <1>1 DEF GetReleasedTokens
<1>3. QED BY <1>1, <1>2 DEF GetAvailableTokens

LEMMA SameAmounts ==
  ASSUME NEW v, NEW w, NEW b, NEW time, v.schedules[b] = w.schedules[b],
         \A i \in DOMAIN w.schedules[b] :
           SameTerms(v, w, w.schedules[b][i].templateName)
  PROVE  /\ UnclaimedOf(v, b) = UnclaimedOf(w, b)
         /\ AvailableOf(v, b, time) = AvailableOf(w, b, time)
<1> DEFINE list == w.schedules[b]
<1>1. \A i \in DOMAIN list :
        /\ NumberOfTokens(v, list[i]) = NumberOfTokens(w, list[i])
        /\ GetAvailableTokens(v, list[i], time) = GetAvailableTokens(w, list[i], time)
  BY SameAmount
<1>2. [i \in DOMAIN list |-> NumberOfTokens(v, list[i]) - list[i].claimedTokens]
        = [i \in DOMAIN list |-> NumberOfTokens(w, list[i]) - list[i].claimedTokens]
  BY <1>1
<1>3. [i \in DOMAIN list |-> GetAvailableTokens(v, list[i], time)]
        = [i \in DOMAIN list |-> GetAvailableTokens(w, list[i], time)]
  BY <1>1
<1>4. v.schedules[b] = list OBVIOUS
<1>5. QED BY <1>2, <1>3, <1>4 DEF UnclaimedOf, AvailableOf

LEMMA SameTemplates ==
  ASSUME NEW v, NEW w, v.templates = w.templates
  PROVE  \A t : SameTerms(v, w, t)
BY DEF SameTerms

\* A call that changes what is unclaimed of one beneficiary only.
LEMMA BackedAfter ==
  ASSUME NEW w, WInv(w), NEW v, v \in Wallet, NEW b \in Beneficiary, NEW d \in Int,
         UnclaimedOf(v, b) = UnclaimedOf(w, b) + d,
         \A x \in Beneficiary \ {b} : UnclaimedOf(v, x) = UnclaimedOf(w, x),
         (v.balance + v.reclaimed) - v.unassignedTokens
           = ((w.balance + w.reclaimed) - w.unassignedTokens) + d
  PROVE  Backed(v)
<1> DEFINE f == [x \in Beneficiary |-> UnclaimedOf(w, x)]
           g == [x \in Beneficiary |-> UnclaimedOf(v, x)]
<1>1. \A x \in Beneficiary : UnclaimedOf(w, x) \in Int
  <2>1. 0 \in Int OBVIOUS
  <2>2. QED BY <2>1, AmountsAreNumbers DEF WInv
<1>2. /\ IsFiniteSet(Beneficiary) /\ DOMAIN f = Beneficiary /\ DOMAIN g = Beneficiary
      /\ \A x \in Beneficiary : f[x] \in Int
      /\ \A x \in Beneficiary \ {b} : g[x] = f[x]
      /\ g[b] = f[b] + d
  BY <1>1, BeneficiaryAssumption
<1>3. /\ w.balance \in Int /\ w.reclaimed \in Int /\ w.unassignedTokens \in Int
      /\ v.balance \in Int /\ v.reclaimed \in Int /\ v.unassignedTokens \in Int
  BY DEF WInv, Wallet
<1>4. w.balance + w.reclaimed = w.unassignedTokens + SumFunction(f)
  BY DEF WInv, Backed
<1> DEFINE x == SumFunction(f)
           y == SumFunction(g)
<1> HIDE DEF f, g
<1>5. y = x + d
  BY <1>2, SumFunctionChange
<1>6. x \in Int BY <1>2, SumIsInt DEF SumFunction
<1> HIDE DEF x, y
<1>7. v.balance + v.reclaimed = v.unassignedTokens + y
  <2> DEFINE vr == v.balance + v.reclaimed
             wr == w.balance + w.reclaimed
             vu == v.unassignedTokens
             wu == w.unassignedTokens
  <2>1. /\ vr \in Int /\ wr \in Int /\ vu \in Int /\ wu \in Int
        /\ wr = wu + x /\ vr - vu = (wr - wu) + d
    BY <1>3, <1>4 DEF x
  <2> HIDE DEF vr, wr, vu, wu
  <2>2. vr = vu + y BY <1>5, <1>6, <2>1
  <2>3. QED BY <2>2 DEF vr, vu
<1>8. QED BY <1>7 DEF Backed, y, g

\* A call that leaves the schedules and the terms of their templates.
LEMMA TermsKeep ==
  ASSUME NEW w, WInv(w), NEW v, v \in Wallet, TemplatesKept(v), ArraysKept(v),
         NEW time \in Int,
         v.received = w.received, v.schedules = w.schedules,
         \A b \in Beneficiary : \A i \in DOMAIN w.schedules[b] :
           SameTerms(v, w, w.schedules[b][i].templateName),
         (v.balance + v.reclaimed) - v.unassignedTokens
           = (w.balance + w.reclaimed) - w.unassignedTokens
  PROVE  KeepsPromises(v, w, time)
<1>1. \A b \in Beneficiary : /\ UnclaimedOf(v, b) = UnclaimedOf(w, b)
                             /\ AvailableOf(v, b, time) = AvailableOf(w, b, time)
  BY SameAmounts
<1>2. Backed(v)
  <2>1. [b \in Beneficiary |-> UnclaimedOf(v, b)]
          = [b \in Beneficiary |-> UnclaimedOf(w, b)]
    BY <1>1
  <2> DEFINE x == SumFunction([b \in Beneficiary |-> UnclaimedOf(w, b)])
  <2>2. /\ w.balance \in Int /\ w.reclaimed \in Int /\ w.unassignedTokens \in Int
        /\ v.balance \in Int /\ v.reclaimed \in Int /\ v.unassignedTokens \in Int
    BY DEF WInv, Wallet
  <2>3. w.balance + w.reclaimed = w.unassignedTokens + x
    BY DEF WInv, Backed
  <2>4. x \in Int
    <3> DEFINE f == [b \in Beneficiary |-> UnclaimedOf(w, b)]
    <3>1. \A b \in Beneficiary : f[b] \in Int
      BY AmountsAreNumbers DEF WInv
    <3>2. DOMAIN f = Beneficiary OBVIOUS
    <3> HIDE DEF f
    <3>3. SumFunction(f) \in Int
      BY <3>1, <3>2, BeneficiaryAssumption, SumIsInt DEF SumFunction
    <3>4. QED BY <3>3 DEF f
  <2> HIDE DEF x
  <2>5. v.balance + v.reclaimed = v.unassignedTokens + x BY <2>2, <2>3, <2>4
  <2>6. QED BY <2>1, <2>5 DEF Backed, x
<1>3. ASSUME NEW b \in Beneficiary PROVE HasGot(w, b, time) <= HasGot(v, b, time)
  <2>1. w.received[b] \in Int /\ AvailableOf(w, b, time) \in Int
    BY AmountsAreNumbers DEF WInv
  <2>2. HasGot(v, b, time) = HasGot(w, b, time) BY <1>1 DEF HasGot
  <2>3. HasGot(w, b, time) \in Int BY <2>1 DEF HasGot
  <2>4. QED BY <2>2, <2>3
<1>4. QED BY <1>2, <1>3 DEF KeepsPromises, WInv

\* A call that moves money and leaves the lists.
LEMMA MoneyKeeps ==
  ASSUME NEW w, WInv(w), NEW v, v \in Wallet, NEW time \in Int,
         v.received = w.received, v.templates = w.templates,
         v.templateNames = w.templateNames, v.beneficiaries = w.beneficiaries,
         v.schedules = w.schedules, v.userToTemplates = w.userToTemplates,
         v.userToTemplateIndex = w.userToTemplateIndex,
         v.templateToUsers = w.templateToUsers,
         v.templateToUserIndex = w.templateToUserIndex,
         (v.balance + v.reclaimed) - v.unassignedTokens
           = (w.balance + w.reclaimed) - w.unassignedTokens
  PROVE  KeepsPromises(v, w, time)
<1>1. TemplatesKept(v) BY DEF WInv, TemplatesKept
<1>2. ArraysKept(v) BY DEF WInv, ArraysKept
<1>3. \A b \in Beneficiary : \A i \in DOMAIN w.schedules[b] :
         SameTerms(v, w, w.schedules[b][i].templateName)
  BY SameTemplates
<1>4. QED BY <1>1, <1>2, <1>3, TermsKeep

LEMMA KeepsOfKept ==
  ASSUME NEW w, NEW v, NEW u, NEW time \in Int, WInv(w),
         KeepsPromises(v, w, time), KeepsPromises(u, v, time)
  PROVE  KeepsPromises(u, w, time)
<1>1. ASSUME NEW b \in Beneficiary PROVE HasGot(w, b, time) <= HasGot(u, b, time)
  <2>1. ASSUME NEW x, WInv(x) PROVE HasGot(x, b, time) \in Int
    <3>1. x \in Wallet /\ TemplatesKept(x) /\ ArraysKept(x) BY <2>1 DEF WInv
    <3>2. AvailableOf(x, b, time) \in Int BY <3>1, AmountsAreNumbers
    <3>3. x.received[b] \in Int BY <3>1 DEF Wallet
    <3>4. QED BY <3>2, <3>3 DEF HasGot
  <2>2. /\ HasGot(w, b, time) \in Int /\ HasGot(v, b, time) \in Int
        /\ HasGot(u, b, time) \in Int
    BY <2>1 DEF KeepsPromises
  <2>3. HasGot(w, b, time) <= HasGot(v, b, time) /\ HasGot(v, b, time) <= HasGot(u, b, time)
    BY DEF KeepsPromises
  <2>4. QED BY <2>2, <2>3
<1>2. QED BY <1>1 DEF KeepsPromises

LEMMA KeptByNothing ==
  ASSUME NEW w, WInv(w), NEW time \in Int
  PROVE  KeepsPromises(w, w, time)
<1>1. w \in Wallet BY DEF WInv
<1>2. (w.balance + w.reclaimed) - w.unassignedTokens
         = (w.balance + w.reclaimed) - w.unassignedTokens
  OBVIOUS
<1>3. QED BY <1>1, <1>2, MoneyKeeps

-----------------------------------------------------------------------------
(* Deposits and withdrawals.                                               *)

LEMMA DepositKeeps ==
  ASSUME NEW w, WInv(w), NEW amount \in Int, NEW v \in Deposit(w, amount),
         NEW time \in Int
  PROVE  KeepsPromises(v, w, time)
<1>1. w \in Wallet BY DEF WInv
<1>2. v = [w EXCEPT !.balance = @ + amount, !.unassignedTokens = @ + amount]
  BY DEF Deposit
<1>3. w.balance \in Int /\ w.unassignedTokens \in Int /\ w.reclaimed \in Int
  BY <1>1 DEF Wallet
<1>4. /\ v.balance = w.balance + amount
      /\ v.unassignedTokens = w.unassignedTokens + amount
      /\ v.reclaimed = w.reclaimed
      /\ v.received = w.received /\ v.templates = w.templates
      /\ v.templateNames = w.templateNames /\ v.beneficiaries = w.beneficiaries
      /\ v.schedules = w.schedules /\ v.userToTemplates = w.userToTemplates
      /\ v.userToTemplateIndex = w.userToTemplateIndex
      /\ v.templateToUsers = w.templateToUsers
      /\ v.templateToUserIndex = w.templateToUserIndex
  BY <1>1, <1>2 DEF Wallet
<1>5. v \in Wallet
  <2> DEFINE x == w.balance + amount
             y == w.unassignedTokens + amount
  <2>1. x \in Int /\ y \in Int BY <1>3
  <2>2. v = [w EXCEPT !.balance = x, !.unassignedTokens = y] BY <1>2
  <2> HIDE DEF x, y
  <2>3. QED BY <1>1, <2>1, <2>2 DEF Wallet
<1>6. (v.balance + v.reclaimed) - v.unassignedTokens
         = (w.balance + w.reclaimed) - w.unassignedTokens
  BY <1>3, <1>4
<1>7. QED BY <1>4, <1>5, <1>6, MoneyKeeps

LEMMA SendToTreasuryKeeps ==
  ASSUME NEW w, WInv(w), NEW amount \in Int, NEW v \in SendToTreasury(w, amount),
         NEW time \in Int
  PROVE  KeepsPromises(v, w, time)
<1>1. w \in Wallet BY DEF WInv
<1>2. v = [w EXCEPT !.unassignedTokens = @ - amount, !.balance = @ - amount]
  BY DEF SendToTreasury
<1>3. w.balance \in Int /\ w.unassignedTokens \in Int /\ w.reclaimed \in Int
  BY <1>1 DEF Wallet
<1>4. /\ v.balance = w.balance - amount
      /\ v.unassignedTokens = w.unassignedTokens - amount
      /\ v.reclaimed = w.reclaimed
      /\ v.received = w.received /\ v.templates = w.templates
      /\ v.templateNames = w.templateNames /\ v.beneficiaries = w.beneficiaries
      /\ v.schedules = w.schedules /\ v.userToTemplates = w.userToTemplates
      /\ v.userToTemplateIndex = w.userToTemplateIndex
      /\ v.templateToUsers = w.templateToUsers
      /\ v.templateToUserIndex = w.templateToUserIndex
  BY <1>1, <1>2 DEF Wallet
<1>5. v \in Wallet
  <2> DEFINE x == w.balance - amount
             y == w.unassignedTokens - amount
  <2>1. x \in Int /\ y \in Int BY <1>3
  <2>2. v = [w EXCEPT !.unassignedTokens = y, !.balance = x] BY <1>2
  <2> HIDE DEF x, y
  <2>3. QED BY <1>1, <2>1, <2>2 DEF Wallet
<1>6. (v.balance + v.reclaimed) - v.unassignedTokens
         = (w.balance + w.reclaimed) - w.unassignedTokens
  BY <1>3, <1>4
<1>7. QED BY <1>4, <1>5, <1>6, MoneyKeeps

LEMMA ReclaimKeeps ==
  ASSUME NEW w, WInv(w), NEW v \in ReclaimERC20(w), NEW time \in Int
  PROVE  KeepsPromises(v, w, time)
<1>1. w \in Wallet BY DEF WInv
<1>2. v = [w EXCEPT !.reclaimed = @ + w.balance, !.balance = 0]
  BY DEF ReclaimERC20
<1>3. w.balance \in Int /\ w.unassignedTokens \in Int /\ w.reclaimed \in Int
  BY <1>1 DEF Wallet
<1>4. /\ v.balance = 0 /\ v.reclaimed = w.reclaimed + w.balance
      /\ v.unassignedTokens = w.unassignedTokens
      /\ v.received = w.received /\ v.templates = w.templates
      /\ v.templateNames = w.templateNames /\ v.beneficiaries = w.beneficiaries
      /\ v.schedules = w.schedules /\ v.userToTemplates = w.userToTemplates
      /\ v.userToTemplateIndex = w.userToTemplateIndex
      /\ v.templateToUsers = w.templateToUsers
      /\ v.templateToUserIndex = w.templateToUserIndex
  BY <1>1, <1>2 DEF Wallet
<1>5. v \in Wallet
  <2> DEFINE x == w.reclaimed + w.balance
             y == 0
  <2>1. x \in Int /\ y \in Int BY <1>3
  <2>2. v = [w EXCEPT !.reclaimed = x, !.balance = y] BY <1>2
  <2> HIDE DEF x, y
  <2>3. QED BY <1>1, <2>1, <2>2 DEF Wallet
<1>6. (v.balance + v.reclaimed) - v.unassignedTokens
         = (w.balance + w.reclaimed) - w.unassignedTokens
  BY <1>3, <1>4
<1>7. QED BY <1>4, <1>5, <1>6, MoneyKeeps

LEMMA PauseKeeps ==
  ASSUME NEW w, WInv(w), NEW v, v = [w EXCEPT !.paused = ~@], NEW time \in Int
  PROVE  KeepsPromises(v, w, time)
<1>1. w \in Wallet BY DEF WInv
<1>2. /\ v.balance = w.balance /\ v.reclaimed = w.reclaimed
      /\ v.unassignedTokens = w.unassignedTokens
      /\ v.received = w.received /\ v.templates = w.templates
      /\ v.templateNames = w.templateNames /\ v.beneficiaries = w.beneficiaries
      /\ v.schedules = w.schedules /\ v.userToTemplates = w.userToTemplates
      /\ v.userToTemplateIndex = w.userToTemplateIndex
      /\ v.templateToUsers = w.templateToUsers
      /\ v.templateToUserIndex = w.templateToUserIndex
  BY <1>1 DEF Wallet
<1>3. v \in Wallet
  <2> DEFINE p == ~w.paused
  <2>1. p \in BOOLEAN OBVIOUS
  <2>2. v = [w EXCEPT !.paused = p] OBVIOUS
  <2> HIDE DEF p
  <2>3. QED BY ONLY <1>1, <2>1, <2>2 DEF Wallet
<1>4. (v.balance + v.reclaimed) - v.unassignedTokens
         = (w.balance + w.reclaimed) - w.unassignedTokens
  BY <1>2
<1>5. QED BY <1>2, <1>3, <1>4, MoneyKeeps

-----------------------------------------------------------------------------
(* Payments.                                                               *)

\* A call that changes the schedules of one beneficiary only.
LEMMA KeepsAfter ==
  ASSUME NEW w, WInv(w), NEW v, v \in Wallet, TemplatesKept(v), ArraysKept(v),
         NEW time \in Int, NEW b \in Beneficiary, NEW d \in Int,
         UnclaimedOf(v, b) = UnclaimedOf(w, b) + d,
         HasGot(w, b, time) <= HasGot(v, b, time),
         \A x \in Beneficiary \ {b} :
           /\ v.schedules[x] = w.schedules[x] /\ v.received[x] = w.received[x]
           /\ \A i \in DOMAIN w.schedules[x] :
                SameTerms(v, w, w.schedules[x][i].templateName),
         (v.balance + v.reclaimed) - v.unassignedTokens
           = ((w.balance + w.reclaimed) - w.unassignedTokens) + d
  PROVE  KeepsPromises(v, w, time)
<1>1. ASSUME NEW x \in Beneficiary \ {b}
      PROVE  /\ UnclaimedOf(v, x) = UnclaimedOf(w, x)
             /\ HasGot(v, x, time) = HasGot(w, x, time)
  BY SameAmounts DEF HasGot
<1>2. Backed(v) BY <1>1, BackedAfter
<1>3. ASSUME NEW x \in Beneficiary PROVE HasGot(w, x, time) <= HasGot(v, x, time)
  <2>1. HasGot(w, x, time) \in Int
    <3>1. w.received[x] \in Int /\ AvailableOf(w, x, time) \in Int
      BY AmountsAreNumbers DEF WInv
    <3>2. QED BY <3>1 DEF HasGot
  <2>2. CASE x = b BY <2>2
  <2>3. CASE x # b BY <1>1, <2>1, <2>3
  <2>4. QED BY <2>2, <2>3
<1>4. QED BY <1>2, <1>3 DEF KeepsPromises, WInv

\* Nothing is available of a schedule that claimed all that is released.
LEMMA ClaimedIs ==
  ASSUME NEW w, NEW s \in Schedule, NEW time, GetReleasedTokens(w, s, time) \in Int
  PROVE  LET c == Claimed(w, s, time) IN
         /\ c \in Schedule /\ c.templateName = s.templateName
         /\ c.startTime = s.startTime
         /\ c.claimedTokens = GetReleasedTokens(w, s, time)
         /\ GetReleasedTokens(w, c, time) = GetReleasedTokens(w, s, time)
         /\ NumberOfTokens(w, c) = NumberOfTokens(w, s)
<1> DEFINE c == Claimed(w, s, time)
           r == GetReleasedTokens(w, s, time)
<1>1. c = [s EXCEPT !.claimedTokens = r] BY DEF Claimed
<1>2. r \in Int OBVIOUS
<1> HIDE DEF c, r
<1>3. /\ c \in Schedule /\ c.templateName = s.templateName
      /\ c.startTime = s.startTime /\ c.claimedTokens = r
  BY <1>1, <1>2 DEF Schedule
<1>4. /\ GetReleasedTokens(w, c, time) = GetReleasedTokens(w, s, time)
      /\ NumberOfTokens(w, c) = NumberOfTokens(w, s)
  BY <1>3 DEF GetReleasedTokens, NumberOfTokens, Period, PeriodCount
<1>5. QED BY <1>3, <1>4 DEF c, r

\* What a payment changes.
LEMMA SendTokensDoes ==
  ASSUME NEW w, WInv(w), NEW b \in Beneficiary, NEW time \in Int,
         NEW v \in SendTokens(w, b, time)
  PROVE  /\ v \in Wallet /\ v.templates = w.templates
         /\ v.schedules = [w.schedules EXCEPT ![b] =
              [i \in DOMAIN w.schedules[b] |-> Claimed(w, w.schedules[b][i], time)]]
         /\ v.received = [w.received EXCEPT ![b] = @ + AvailableOf(w, b, time)]
         /\ v.balance = w.balance - AvailableOf(w, b, time)
         /\ v.reclaimed = w.reclaimed /\ v.unassignedTokens = w.unassignedTokens
         /\ v.templateNames = w.templateNames /\ v.beneficiaries = w.beneficiaries
         /\ v.userToTemplates = w.userToTemplates
         /\ v.userToTemplateIndex = w.userToTemplateIndex
         /\ v.templateToUsers = w.templateToUsers
         /\ v.templateToUserIndex = w.templateToUserIndex
<1> DEFINE amount == AvailableOf(w, b, time)
           list == w.schedules[b]
           new == [i \in DOMAIN list |-> Claimed(w, list[i], time)]
           x == w.balance - amount
           y == [w.received EXCEPT ![b] = @ + amount]
           z == [w.schedules EXCEPT ![b] = new]
<1>1. w \in Wallet /\ TemplatesKept(w) /\ ArraysKept(w) BY DEF WInv
<1>2. v = [w EXCEPT !.balance = @ - amount, !.received[b] = @ + amount,
                    !.schedules[b] = [i \in DOMAIN @ |-> Claimed(w, @[i], time)]]
  BY DEF SendTokens
<1>3. v = [w EXCEPT !.balance = x, !.received = y, !.schedules = z]
  BY <1>2
<1>4. /\ amount \in Int /\ w.balance \in Int
      /\ w.received \in [Beneficiary -> Int]
      /\ w.schedules \in [Beneficiary -> Seq(Schedule)]
      /\ list \in Seq(Schedule)
      /\ \A i \in DOMAIN list :
           list[i] \in Schedule /\ GetReleasedTokens(w, list[i], time) \in Int
  BY <1>1, AmountsAreNumbers DEF Wallet
<1>5. new \in Seq(Schedule)
  <2>1. \A i \in DOMAIN list : Claimed(w, list[i], time) \in Schedule
    BY <1>4, ClaimedIs
  <2>2. DOMAIN list = 1 .. Len(list) /\ Len(list) \in Nat BY <1>4
  <2>3. QED BY <2>1, <2>2
<1> HIDE DEF amount, list, new
<1>6. x \in Int /\ y \in [Beneficiary -> Int] /\ z \in [Beneficiary -> Seq(Schedule)]
  BY <1>4, <1>5
<1> HIDE DEF x, y, z
<1>7. v \in Wallet BY ONLY <1>1, <1>3, <1>6 DEF Wallet
<1>8. /\ v.balance = x /\ v.received = y /\ v.schedules = z
      /\ v.reclaimed = w.reclaimed /\ v.unassignedTokens = w.unassignedTokens
      /\ v.templates = w.templates
      /\ v.templateNames = w.templateNames /\ v.beneficiaries = w.beneficiaries
      /\ v.userToTemplates = w.userToTemplates
      /\ v.userToTemplateIndex = w.userToTemplateIndex
      /\ v.templateToUsers = w.templateToUsers
      /\ v.templateToUserIndex = w.templateToUserIndex
  BY ONLY <1>1, <1>3 DEF Wallet
<1>9. QED BY <1>7, <1>8 DEF x, y, z, new, list, amount

LEMMA SendTokensKeeps ==
  ASSUME NEW w, WInv(w), NEW b \in Beneficiary, NEW time \in Int,
         NEW v \in SendTokens(w, b, time)
  PROVE  KeepsPromises(v, w, time) /\ AvailableOf(v, b, time) = 0
<1> DEFINE amount == AvailableOf(w, b, time)
           list == w.schedules[b]
           new == [i \in DOMAIN list |-> Claimed(w, list[i], time)]
           S == DOMAIN list
<1>1. w \in Wallet /\ TemplatesKept(w) /\ ArraysKept(w) BY DEF WInv
<1>2. /\ v \in Wallet /\ v.templates = w.templates
      /\ v.schedules = [w.schedules EXCEPT ![b] = new]
      /\ v.received = [w.received EXCEPT ![b] = @ + amount]
      /\ v.balance = w.balance - amount
      /\ v.reclaimed = w.reclaimed /\ v.unassignedTokens = w.unassignedTokens
      /\ v.templateNames = w.templateNames /\ v.beneficiaries = w.beneficiaries
      /\ v.userToTemplates = w.userToTemplates
      /\ v.userToTemplateIndex = w.userToTemplateIndex
      /\ v.templateToUsers = w.templateToUsers
      /\ v.templateToUserIndex = w.templateToUserIndex
  BY SendTokensDoes
<1>3. /\ list \in Seq(Schedule) /\ IsFiniteSet(S) /\ amount \in Int
      /\ w.received[b] \in Int
      /\ \A i \in S : /\ list[i] \in Schedule
                      /\ GetReleasedTokens(w, list[i], time) \in Int
                      /\ GetAvailableTokens(w, list[i], time) \in Int
                      /\ NumberOfTokens(w, list[i]) - list[i].claimedTokens \in Int
  BY <1>1, AmountsAreNumbers
<1>4. v.schedules[b] = new /\ v.received[b] = w.received[b] + amount
      /\ DOMAIN new = S
      /\ \A x \in Beneficiary \ {b} : /\ v.schedules[x] = w.schedules[x]
                                      /\ v.received[x] = w.received[x]
  BY <1>1, <1>2 DEF Wallet
<1>5. ASSUME NEW i \in S
      PROVE  /\ new[i].templateName = list[i].templateName
             /\ GetAvailableTokens(v, new[i], time) = 0
             /\ NumberOfTokens(v, new[i]) - new[i].claimedTokens
                  = (NumberOfTokens(w, list[i]) - list[i].claimedTokens)
                      - GetAvailableTokens(w, list[i], time)
  <2> DEFINE s == list[i]
             c == Claimed(w, s, time)
             r == GetReleasedTokens(w, s, time)
  <2>1. c \in Schedule /\ c.templateName = s.templateName
        /\ c.claimedTokens = r
        /\ GetReleasedTokens(w, c, time) = r
        /\ NumberOfTokens(w, c) = NumberOfTokens(w, s)
    BY <1>3, ClaimedIs
  <2>2. /\ NumberOfTokens(v, c) = NumberOfTokens(w, c)
        /\ GetAvailableTokens(v, c, time) = GetAvailableTokens(w, c, time)
    BY <1>2, SameTemplates, SameAmount
  <2>3. NumberOfTokens(w, s) \in Int /\ s.claimedTokens \in Int /\ r \in Int
    <3>1. s \in Schedule /\ s.templateName \in DOMAIN w.templates /\ r \in Int
      BY <1>1, AmountsAreNumbers
    <3>2. QED BY <1>1, <3>1, TermsAreNumbers DEF Schedule
  <2>4. /\ GetAvailableTokens(w, c, time) = r - r
        /\ GetAvailableTokens(w, s, time) = r - s.claimedTokens
    BY <2>1 DEF GetAvailableTokens
  <2>5. new[i] = c OBVIOUS
  <2> HIDE DEF s, c, r, new
  <2>6. QED BY <2>1, <2>2, <2>3, <2>4, <2>5 DEF s
<1>6. AvailableOf(v, b, time) = 0
  <2> DEFINE f == [i \in S |-> GetAvailableTokens(v, new[i], time)]
  <2>1. AvailableOf(v, b, time) = SumFunction(f) BY <1>4 DEF AvailableOf
  <2>2. \A i \in S : f[i] = 0 BY <1>5
  <2>3. DOMAIN f = S OBVIOUS
  <2> HIDE DEF f, S, new
  <2>4. QED BY <1>3, <2>1, <2>2, <2>3, SumZero DEF SumFunction
<1>7. UnclaimedOf(v, b) = UnclaimedOf(w, b) + (0 - amount)
  <2> DEFINE f == [i \in S |-> NumberOfTokens(v, new[i]) - new[i].claimedTokens]
             g == [i \in S |-> GetAvailableTokens(w, list[i], time)]
             h == [i \in S |-> NumberOfTokens(w, list[i]) - list[i].claimedTokens]
  <2>1. /\ UnclaimedOf(v, b) = SumFunction(f) /\ UnclaimedOf(w, b) = SumFunction(h)
        /\ amount = SumFunction(g)
    BY <1>4 DEF UnclaimedOf, AvailableOf
  <2>2. \A i \in S : f[i] = h[i] - g[i] /\ g[i] \in Int /\ h[i] \in Int
    BY <1>3, <1>5
  <2>3. DOMAIN f = S /\ DOMAIN g = S /\ DOMAIN h = S OBVIOUS
  <2> HIDE DEF f, g, h, S, new, list, amount
  <2>4. \A i \in S : f[i] \in Int /\ g[i] \in Int /\ h[i] = f[i] + g[i]
    BY <2>2
  <2>5. SumFunctionOnSet(h, S) = SumFunctionOnSet(f, S) + SumFunctionOnSet(g, S)
    BY <1>3, <2>4, SumPlus
  <2>6. SumFunctionOnSet(f, S) \in Int BY <1>3, <2>4, SumIsInt
  <2>7. /\ UnclaimedOf(v, b) = SumFunctionOnSet(f, S)
        /\ UnclaimedOf(w, b) = SumFunctionOnSet(h, S)
        /\ amount = SumFunctionOnSet(g, S)
    BY <2>1, <2>3 DEF SumFunction
  <2>8. QED BY <1>3, <2>5, <2>6, <2>7
<1>8. TemplatesKept(v) BY <1>1, <1>2 DEF TemplatesKept
<1>9. ArraysKept(v)
  <2>1. ASSUME NEW x \in Beneficiary
        PROVE  /\ Len(v.userToTemplates[x]) = Len(v.schedules[x])
               /\ \A i \in 1 .. Len(v.schedules[x]) :
                    v.schedules[x][i].templateName = v.userToTemplates[x][i]
    <3>1. /\ Len(w.userToTemplates[x]) = Len(w.schedules[x])
          /\ \A i \in 1 .. Len(w.schedules[x]) :
               w.schedules[x][i].templateName = w.userToTemplates[x][i]
      BY <1>1 DEF ArraysKept
    <3>2. CASE x = b
      <4>1. v.schedules[b] \in Seq(Schedule) BY <1>2 DEF Wallet
      <4>2. 1 .. Len(new) = 1 .. Len(list) /\ Len(new) = Len(list)
        <5>1. new \in Seq(Schedule) BY <1>4, <4>1
        <5> HIDE DEF new, list
        <5>2. Len(new) \in Nat /\ Len(list) \in Nat
              /\ DOMAIN new = 1 .. Len(new) /\ DOMAIN list = 1 .. Len(list)
          BY <1>3, <5>1
        <5>3. 1 .. Len(new) = 1 .. Len(list) BY <1>4, <5>2
        <5> DEFINE m == Len(new)
                   n == Len(list)
        <5>4. m \in Nat /\ n \in Nat /\ 1 .. m = 1 .. n BY <5>2, <5>3
        <5> HIDE DEF m, n
        <5>5. m = n
          <6>1. m > 0 => m \in 1 .. n BY <5>4
          <6>2. n > 0 => n \in 1 .. m BY <5>4
          <6>3. QED BY <5>4, <6>1, <6>2
        <5>6. QED BY <5>3, <5>5 DEF m, n
      <4>3. S = 1 .. Len(list) BY <1>3
      <4>4. \A i \in 1 .. Len(new) : new[i].templateName = list[i].templateName
        BY <1>5, <4>2, <4>3
      <4>5. v.schedules[x] = new /\ v.userToTemplates[x] = w.userToTemplates[x]
            /\ w.schedules[x] = list
        BY <1>2, <1>4, <3>2
      <4> HIDE DEF new, list, S
      <4>6. QED BY <3>1, <4>2, <4>4, <4>5
    <3>3. CASE x # b
      <4>1. v.schedules[x] = w.schedules[x] /\ v.userToTemplates[x] = w.userToTemplates[x]
        BY <1>2, <1>4, <3>3
      <4>2. QED BY <3>1, <4>1
    <3>4. QED BY <3>2, <3>3
  <2>2. \A x \in Beneficiary :
          /\ Indexed(v.userToTemplates[x], v.userToTemplateIndex[x])
          /\ \A t : IsIn(t, v.userToTemplates[x]) =>
               IsIn(x, v.beneficiaries) /\ t \in DOMAIN v.templates
    BY <1>1, <1>2 DEF ArraysKept
  <2>3. \A t \in TemplateName :
          /\ Indexed(v.templateToUsers[t], v.templateToUserIndex[t])
          /\ \A x \in Beneficiary :
               IsIn(x, v.templateToUsers[t]) <=> IsIn(t, v.userToTemplates[x])
    BY <1>1, <1>2 DEF ArraysKept
  <2>4. QED BY <2>1, <2>2, <2>3 DEF ArraysKept
<1>10. HasGot(w, b, time) <= HasGot(v, b, time)
  <2>1. HasGot(w, b, time) = w.received[b] + amount BY DEF HasGot
  <2>2. HasGot(v, b, time) = (w.received[b] + amount) + 0
    BY <1>4, <1>6 DEF HasGot
  <2> HIDE DEF amount
  <2>3. QED BY <1>3, <2>1, <2>2
<1>11. (v.balance + v.reclaimed) - v.unassignedTokens
          = ((w.balance + w.reclaimed) - w.unassignedTokens) + (0 - amount)
  <2>1. w.balance \in Int /\ w.reclaimed \in Int /\ w.unassignedTokens \in Int
    BY <1>1 DEF Wallet
  <2> HIDE DEF amount
  <2>2. QED BY <1>2, <1>3, <2>1
<1>12. \A x \in Beneficiary \ {b} : \A i \in DOMAIN w.schedules[x] :
          SameTerms(v, w, w.schedules[x][i].templateName)
  BY <1>2, SameTemplates
<1> DEFINE d == 0 - amount
<1>13. d \in Int BY <1>3
<1> HIDE DEF list, new, S, amount
<1>14. /\ UnclaimedOf(v, b) = UnclaimedOf(w, b) + d
       /\ (v.balance + v.reclaimed) - v.unassignedTokens
            = ((w.balance + w.reclaimed) - w.unassignedTokens) + d
  BY <1>7, <1>11
<1> HIDE DEF d
<1>15. /\ v \in Wallet
       /\ \A x \in Beneficiary \ {b} :
            /\ v.schedules[x] = w.schedules[x] /\ v.received[x] = w.received[x]
            /\ \A i \in DOMAIN w.schedules[x] :
                 SameTerms(v, w, w.schedules[x][i].templateName)
  BY <1>2, <1>4, <1>12
<1>16. KeepsPromises(v, w, time)
  BY <1>8, <1>9, <1>10, <1>13, <1>14, <1>15, KeepsAfter
<1>17. QED BY <1>6, <1>16

LEMMA PushKeeps ==
  ASSUME NEW w, WInv(w), NEW time \in Int,
         NEW fromIndex \in Nat, NEW toIndex \in Nat,
         NEW v \in PushAvailableTokensMulti(w, fromIndex, toIndex, time)
  PROVE  KeepsPromises(v, w, time)
<1> DEFINE payees == SubSeq(w.beneficiaries, fromIndex + 1, toIndex + 1)
           turns == Len(payees)
           State == SUBSET {u \in Wallet : KeepsPromises(u, w, time)}
           before == {w}
           next(Z, k) == UNION {SendTokens(u, payees[k], time) : u \in Z}
           Is(f) == f = [k \in 0 .. turns |-> IF k = 0 THEN before
                           ELSE UNION {SendTokens(u, payees[k], time) : u \in f[k - 1]}]
           after == CHOOSE f : Is(f)
           turn == [k \in 1 .. turns |-> [Z \in State |-> next(Z, k)]]
<1>1. w \in Wallet BY DEF WInv
<1>2. toIndex < Len(w.beneficiaries) /\ w.beneficiaries \in Seq(Beneficiary)
  <2>1. w.beneficiaries \in Seq(Beneficiary) BY <1>1 DEF Wallet
  <2>2. ~(toIndex >= Len(w.beneficiaries))
    <3> SUFFICES ASSUME toIndex >= Len(w.beneficiaries) PROVE FALSE
      OBVIOUS
    <3>1. PushAvailableTokensMulti(w, fromIndex, toIndex, time) = {}
      BY DEF PushAvailableTokensMulti
    <3>2. QED BY <3>1
  <2>3. Len(w.beneficiaries) \in Nat BY <2>1
  <2>4. QED BY <2>1, <2>2, <2>3
<1>3. payees \in Seq(Beneficiary)
  <2> DEFINE list == w.beneficiaries
  <2>1. /\ list \in Seq(Beneficiary) /\ Len(list) \in Nat
        /\ toIndex + 1 <= Len(list) /\ fromIndex + 1 \in Int /\ fromIndex + 1 >= 1
    BY <1>2
  <2> HIDE DEF list
  <2>2. SubSeq(list, fromIndex + 1, toIndex + 1) \in Seq(Beneficiary) BY <2>1
  <2>3. QED BY <2>2 DEF list
<1>4. v \in after[turns]
  BY <1>2 DEF PushAvailableTokensMulti, InTurn
<1> HIDE DEF payees
<1>5. turns \in Nat /\ \A k \in 1 .. turns : payees[k] \in Beneficiary
  BY <1>3
<1> HIDE DEF turns
<1>6. before \in State BY <1>1, KeptByNothing
<1>7. \A Z \in State, k \in 1 .. turns : next(Z, k) \in State
  <2> SUFFICES ASSUME NEW Z \in State, NEW k \in 1 .. turns, NEW u \in Z,
                      NEW x \in SendTokens(u, payees[k], time)
               PROVE  x \in Wallet /\ KeepsPromises(x, w, time)
    OBVIOUS
  <2>1. KeepsPromises(u, w, time) /\ WInv(u) BY DEF KeepsPromises
  <2>2. KeepsPromises(x, u, time) BY <1>5, <2>1, SendTokensKeeps
  <2>3. x \in Wallet BY <2>2 DEF KeepsPromises, WInv
  <2>4. QED BY <2>1, <2>2, <2>3, KeepsOfKept
<1> HIDE DEF State, before, next
<1>8. turn \in [1 .. turns -> [State -> State]] BY <1>7
<1>9. PICK f : IsLoop(f, turns, State, before, turn)
  <2> HIDE DEF turn, Is
  <2>1. QED BY <1>5, <1>6, <1>8, LoopExists
<1>10. Is(f)
  <2>1. /\ f \in [0 .. turns -> State] /\ f[0] = before
        /\ \A k \in 1 .. turns : f[k] = turn[k][f[k - 1]]
    BY <1>9 DEF IsLoop
  <2>2. ASSUME NEW k \in 1 .. turns PROVE f[k] = next(f[k - 1], k)
    <3>1. k - 1 \in 0 .. turns BY <1>5
    <3>2. f[k - 1] \in State BY <2>1, <3>1
    <3>3. f[k] = turn[k][f[k - 1]] BY <2>1
    <3>4. QED BY <3>2, <3>3
  <2>3. ASSUME NEW k \in 0 .. turns
        PROVE  f[k] = IF k = 0 THEN before
                      ELSE UNION {SendTokens(u, payees[k], time) : u \in f[k - 1]}
    <3>1. k # 0 => k \in 1 .. turns BY <1>5
    <3>2. QED BY <2>1, <2>2, <3>1 DEF next
  <2>4. f = [k \in 0 .. turns |-> f[k]] BY <2>1
  <2>5. QED BY <2>3, <2>4
<1>11. Is(after) BY <1>10
<1> HIDE DEF after
<1>12. after[0] = before
       /\ \A k \in 1 .. turns : after[k] = next(after[k - 1], k)
  <2>1. 0 \in 0 .. turns BY <1>5
  <2>2. \A k \in 1 .. turns : k \in 0 .. turns /\ k # 0 BY <1>5
  <2> HIDE DEF before
  <2>3. after[0] = before BY <1>11, <2>1
  <2>4. ASSUME NEW k \in 1 .. turns PROVE after[k] = next(after[k - 1], k)
    BY <1>11, <2>2, Zenon DEF next
  <2>5. QED BY <2>3, <2>4
<1>13. \A k \in 0 .. turns : after[k] \in State
  <2>1. after[0] \in State BY <1>6, <1>12
  <2>2. \A k \in 1 .. turns : after[k - 1] \in State => after[k] \in State
    BY <1>7, <1>12
  <2>3. QED BY <1>5, <2>1, <2>2, LoopKeeps
<1>14. after[turns] \in State BY <1>5, <1>13
<1>15. QED BY <1>4, <1>14 DEF State

-----------------------------------------------------------------------------
(* Templates.                                                              *)

LEMMA ScheduledIsTemplate ==
  ASSUME NEW w, WInv(w), NEW b \in Beneficiary, NEW i \in DOMAIN w.schedules[b]
  PROVE  /\ w.schedules[b][i].templateName \in DOMAIN w.templates
         /\ w.schedules[b][i].templateName \in TemplateName
         /\ IsIn(w.schedules[b][i].templateName, w.userToTemplates[b])
<1> DEFINE s == w.schedules[b][i]
<1>1. w \in Wallet /\ ArraysKept(w) BY DEF WInv
<1>2. w.schedules[b] \in Seq(Schedule) BY <1>1 DEF Wallet
<1>3. i \in 1 .. Len(w.schedules[b]) /\ s \in Schedule BY <1>2
<1>4. /\ s.templateName = w.userToTemplates[b][i]
      /\ Len(w.userToTemplates[b]) = Len(w.schedules[b])
  BY <1>1, <1>3 DEF ArraysKept
<1>5. IsIn(s.templateName, w.userToTemplates[b]) BY <1>3, <1>4 DEF IsIn
<1>6. QED BY <1>1, <1>3, <1>5 DEF ArraysKept, Schedule

\* A function of names to templates, and back.
LEMMA TemplatesAre ==
  ASSUME NEW w, w \in Wallet
  PROVE  /\ DOMAIN w.templates \in SUBSET TemplateName
         /\ w.templates \in [DOMAIN w.templates -> Template]
<1>1. w.templates \in UNION {[names -> Template] : names \in SUBSET TemplateName}
  BY DEF Wallet
<1>2. PICK names \in SUBSET TemplateName : w.templates \in [names -> Template]
  BY <1>1
<1>3. QED BY <1>2

LEMMA PositiveQuotient ==
  ASSUME NEW a \in Nat, NEW d \in Nat, a > 0, d > 0, a % d = 0
  PROVE  a \div d > 0
<1>1. a \div d \in Nat /\ a = (a \div d) * d BY InGrains
<1> DEFINE q == a \div d
<1> HIDE DEF q
<1>2. q # 0
  <2> SUFFICES ASSUME q = 0 PROVE FALSE OBVIOUS
  <2>1. a = q * d BY <1>1 DEF q
  <2>2. QED BY <2>1
<1>3. QED BY <1>1, <1>2 DEF q

LEMMA AddTemplateKeeps ==
  ASSUME NEW w, WInv(w), NEW t \in TemplateName, NEW p \in Parameters,
         NEW v \in AddTemplate(w, t, p), NEW time \in Int
  PROVE  /\ KeepsPromises(v, w, time)
         /\ t \in DOMAIN v.templates /\ v.schedules = w.schedules
<1> DEFINE names == DOMAIN w.templates
           more == names \cup {t}
           list == w.templateNames
           new == [numberOfTokens |-> p.numberOfTokens, duration |-> p.duration,
                   frequency |-> p.frequency, index |-> Len(list)]
           T == [x \in more |-> IF x # t THEN w.templates[x] ELSE new]
           L == Append(list, t)
<1>1. w \in Wallet /\ TemplatesKept(w) /\ ArraysKept(w) BY DEF WInv
<1>2. t \notin names /\ ValidTemplate(p) /\ v = [w EXCEPT !.templateNames = L, !.templates = T]
  BY DEF AddTemplate, TemplateExists
<1>3. names \in SUBSET TemplateName /\ w.templates \in [names -> Template]
  BY <1>1, TemplatesAre
<1>4. /\ p.numberOfTokens \in Nat /\ p.duration \in Nat /\ p.frequency \in Nat
      /\ p.frequency > 0 /\ p.duration \div p.frequency > 0
  <2>1. p \in [numberOfTokens : Nat, duration : Nat, frequency : Nat]
    BY ParametersAssumption
  <2>2. /\ p.numberOfTokens \in Nat /\ p.duration \in Nat /\ p.frequency \in Nat
    BY <2>1
  <2>3. p.frequency > 0 /\ p.duration % p.frequency = 0 /\ p.duration > 0
    BY <1>2 DEF ValidTemplate
  <2>4. QED BY <2>2, <2>3, PositiveQuotient
<1>5. list \in Seq(TemplateName) /\ Len(list) \in Nat BY <1>1 DEF Wallet
<1>6. new \in Template BY <1>4, <1>5 DEF Template
<1>7. /\ new.frequency = p.frequency /\ new.duration = p.duration
      /\ new.index = Len(list)
  OBVIOUS
<1> HIDE DEF new
<1>8. /\ T \in [more -> Template] /\ more \in SUBSET TemplateName /\ DOMAIN T = more
      /\ T[t] = new /\ \A x \in names : T[x] = w.templates[x]
  BY <1>2, <1>3, <1>6
<1>9. L \in Seq(TemplateName) /\ Len(L) = Len(list) + 1 BY <1>5
<1>10. T \in UNION {[n -> Template] : n \in SUBSET TemplateName} BY <1>8
<1> HIDE DEF T, L
<1>11. v \in Wallet BY ONLY <1>1, <1>2, <1>9, <1>10 DEF Wallet
<1>12. /\ v.templateNames = L /\ v.templates = T
       /\ v.balance = w.balance /\ v.reclaimed = w.reclaimed
       /\ v.unassignedTokens = w.unassignedTokens
       /\ v.received = w.received /\ v.beneficiaries = w.beneficiaries
       /\ v.schedules = w.schedules /\ v.userToTemplates = w.userToTemplates
       /\ v.userToTemplateIndex = w.userToTemplateIndex
       /\ v.templateToUsers = w.templateToUsers
       /\ v.templateToUserIndex = w.templateToUserIndex
  BY ONLY <1>1, <1>2 DEF Wallet
<1>13. /\ IsFiniteSet(names) /\ Len(list) = Cardinality(names)
       /\ \A x \in names : /\ w.templates[x].frequency > 0
                           /\ w.templates[x].duration \div w.templates[x].frequency > 0
       /\ Indexed(list, [x \in names |-> w.templates[x].index])
       /\ \A x : IsIn(x, list) <=> x \in names
  BY <1>1 DEF TemplatesKept
<1>14. TemplatesKept(v)
  <2> DEFINE index == [x \in more |-> IF x = t THEN 0 ELSE w.templates[x].index]
             newIndex == [index EXCEPT ![t] = Len(list)]
  <2>1. list \in Seq(more)
    <3>1. \A i \in 1 .. Len(list) : list[i] \in more BY <1>13 DEF IsIn
    <3>2. QED BY <1>5, <3>1
  <2>2. index \in [more -> Nat] BY <1>3 DEF Template
  <2>3. Indexed(list, index)
    <3>1. ASSUME NEW i \in 1 .. Len(list) PROVE index[list[i]] = i - 1
      <4>1. list[i] \in names BY <1>13 DEF IsIn
      <4>2. [x \in names |-> w.templates[x].index][list[i]] = i - 1
        BY <1>13 DEF Indexed
      <4>3. QED BY <1>2, <4>1, <4>2
    <3>2. QED BY <3>1 DEF Indexed
  <2>4. ~IsIn(t, list) BY <1>2, <1>13
  <2>5. t \in more OBVIOUS
  <2>6. newIndex = [x \in more |-> T[x].index]
    BY <1>2, <1>7, <1>8, <2>2
  <2> DEFINE M == more
  <2> HIDE DEF index, M
  <2>7. Indexed(L, newIndex) /\ \A x : IsIn(x, L) <=> IsIn(x, list) \/ x = t
    <3>1. list \in Seq(M) /\ index \in [M -> Nat] /\ t \in M
      BY <2>1, <2>2, <2>5 DEF M
    <3> HIDE DEF list
    <3>2. LET longer == Append(list, t)
              changed == [index EXCEPT ![t] = Len(list)]
          IN  Indexed(longer, changed) /\ \A x : IsIn(x, longer) <=> IsIn(x, list) \/ x = t
      BY ONLY <2>3, <2>4, <3>1, AppendKeeps, ZenonT(60)
    <3>3. QED BY <3>2 DEF L
  <2>8. Indexed(L, [x \in more |-> T[x].index]) BY <2>6, <2>7
  <2>9. IsFiniteSet(more) /\ Cardinality(more) = Cardinality(names) + 1
    BY <1>2, <1>13, FS_AddElement
  <2>10. \A x \in more : T[x].frequency > 0 /\ T[x].duration \div T[x].frequency > 0
    BY <1>4, <1>7, <1>8, <1>13
  <2>11. Len(L) = Cardinality(more) BY <1>9, <1>13, <2>9
  <2>12. \A x : IsIn(x, L) <=> x \in more BY <1>13, <2>7
  <2>13. QED
    BY <1>8, <1>12, <2>8, <2>9, <2>10, <2>11, <2>12 DEF TemplatesKept
<1>15. ArraysKept(v)
  <2>1. names \subseteq DOMAIN v.templates BY <1>8, <1>12
  <2>2. QED BY <1>1, <1>12, <2>1 DEF ArraysKept
<1>16. \A b \in Beneficiary : \A i \in DOMAIN w.schedules[b] :
          SameTerms(v, w, w.schedules[b][i].templateName)
  BY <1>8, <1>12, ScheduledIsTemplate DEF SameTerms
<1>17. (v.balance + v.reclaimed) - v.unassignedTokens
         = (w.balance + w.reclaimed) - w.unassignedTokens
  BY <1>12
<1>18. KeepsPromises(v, w, time)
  BY <1>11, <1>12, <1>14, <1>15, <1>16, <1>17, TermsKeep
<1>19. QED BY <1>8, <1>12, <1>18

LEMMA RemoveTemplateKeeps ==
  ASSUME NEW w, WInv(w), NEW t \in TemplateName,
         NEW v \in RemoveTemplate(w, t), NEW time \in Int
  PROVE  KeepsPromises(v, w, time)
<1> DEFINE names == DOMAIN w.templates
           fewer == names \ {t}
           list == w.templateNames
           k == w.templates[t].index
           moved == list[Len(list)]
           T == [x \in fewer |-> IF x = moved THEN [w.templates[x] EXCEPT !.index = k]
                                 ELSE w.templates[x]]
           L == Without(list, k)
           index == [x \in names |-> w.templates[x].index]
           newIndex == [index EXCEPT ![moved] = k, ![t] = 0]
<1>1. w \in Wallet /\ TemplatesKept(w) /\ ArraysKept(w) BY DEF WInv
<1>2. /\ t \in names /\ w.templateToUsers[t] = << >>
      /\ v = [w EXCEPT !.templateNames = L, !.templates = T]
  BY DEF RemoveTemplate, TemplateExists, Last
<1>3. names \in SUBSET TemplateName /\ w.templates \in [names -> Template]
  BY <1>1, TemplatesAre
<1>4. list \in Seq(TemplateName) /\ Len(list) \in Nat BY <1>1 DEF Wallet
<1>5. /\ IsFiniteSet(names) /\ Len(list) = Cardinality(names)
      /\ \A x \in names : /\ w.templates[x].frequency > 0
                          /\ w.templates[x].duration \div w.templates[x].frequency > 0
      /\ Indexed(list, index)
      /\ \A x : IsIn(x, list) <=> x \in names
  BY <1>1 DEF TemplatesKept
<1>6. index \in [names -> Nat] /\ index[t] = k BY <1>2, <1>3 DEF Template
<1>7. list \in Seq(names)
  <2>1. \A i \in 1 .. Len(list) : list[i] \in names BY <1>5 DEF IsIn
  <2>2. QED BY <1>4, <2>1
<1>8. /\ k \in 0 .. Len(list) - 1
      /\ L \in Seq(names) /\ Len(L) = Len(list) - 1
      /\ Indexed(L, newIndex)
      /\ \A x : IsIn(x, L) <=> IsIn(x, list) /\ x # t
  <2>1. IsIn(t, list) BY <1>2, <1>5
  <2> DEFINE M == names
  <2>2. list \in Seq(M) /\ index \in [M -> Nat] /\ t \in M BY <1>2, <1>6, <1>7
  <2> HIDE DEF M, index
  <2>3. LET new == Without(list, index[t])
            changed == [index EXCEPT ![list[Len(list)]] = index[t], ![t] = 0]
        IN  /\ index[t] \in 0 .. Len(list) - 1
            /\ new \in Seq(M) /\ Len(new) = Len(list) - 1
            /\ Indexed(new, changed)
            /\ \A x : IsIn(x, new) <=> IsIn(x, list) /\ x # t
    <3>1. Indexed(list, index) BY <1>5
    <3> HIDE DEF list
    <3>2. LET new == Without(list, index[t])
              changed == [index EXCEPT ![list[Len(list)]] = index[t], ![t] = 0]
          IN  /\ new \in Seq(M)
              /\ Indexed(new, changed)
              /\ \A x : IsIn(x, new) <=> IsIn(x, list) /\ x # t
      BY ONLY <2>1, <2>2, <3>1, RemovalKeeps, ZenonT(60)
    <3>3. index[t] \in 0 .. Len(list) - 1
      BY ONLY <2>1, <2>2, <3>1, RemovalKeeps
    <3>4. Len(Without(list, index[t])) = Len(list) - 1
      BY ONLY <2>2, <3>3, WithoutIs
    <3>5. QED BY ONLY <3>2, <3>3, <3>4
  <2>4. QED BY <1>6, <2>3 DEF M
<1>9. \A x \in fewer : T[x] \in Template
                       /\ T[x].index = newIndex[x]
                       /\ T[x].numberOfTokens = w.templates[x].numberOfTokens
                       /\ T[x].duration = w.templates[x].duration
                       /\ T[x].frequency = w.templates[x].frequency
  <2> SUFFICES ASSUME NEW x \in fewer
               PROVE  /\ T[x] \in Template /\ T[x].index = newIndex[x]
                      /\ T[x].numberOfTokens = w.templates[x].numberOfTokens
                      /\ T[x].duration = w.templates[x].duration
                      /\ T[x].frequency = w.templates[x].frequency
    OBVIOUS
  <2>1. w.templates[x] \in Template /\ index[x] = w.templates[x].index BY <1>3
  <2>2. k \in Nat BY <1>6, <1>2
  <2>3. CASE x = moved
    <3>1. T[x] = [w.templates[x] EXCEPT !.index = k] BY <2>3
    <3>2. newIndex[x] = k BY <1>6, <2>3
    <3> HIDE DEF T, newIndex, k
    <3>3. QED BY <2>1, <2>2, <3>1, <3>2 DEF Template
  <2>4. CASE x # moved
    <3>1. T[x] = w.templates[x] BY <2>4
    <3>2. newIndex[x] = index[x] BY <1>6, <2>4
    <3> HIDE DEF T, newIndex, index
    <3>3. QED BY <2>1, <3>1, <3>2
  <2>5. QED BY <2>3, <2>4
<1>10. T \in [fewer -> Template] /\ fewer \in SUBSET TemplateName /\ DOMAIN T = fewer
  <2>1. T = [x \in fewer |-> T[x]] OBVIOUS
  <2>2. fewer \in SUBSET TemplateName BY <1>3
  <2>3. DOMAIN T = fewer OBVIOUS
  <2> HIDE DEF T, fewer
  <2>4. QED BY <1>9, <2>1, <2>2, <2>3
<1>11. T \in UNION {[n -> Template] : n \in SUBSET TemplateName} BY <1>10
<1>12. L \in Seq(TemplateName)
  <2> HIDE DEF L
  <2>1. QED BY <1>3, <1>8
<1> HIDE DEF T, L, newIndex, index
<1>13. v \in Wallet BY ONLY <1>1, <1>2, <1>11, <1>12 DEF Wallet
<1>14. /\ v.templateNames = L /\ v.templates = T
       /\ v.balance = w.balance /\ v.reclaimed = w.reclaimed
       /\ v.unassignedTokens = w.unassignedTokens
       /\ v.received = w.received /\ v.beneficiaries = w.beneficiaries
       /\ v.schedules = w.schedules /\ v.userToTemplates = w.userToTemplates
       /\ v.userToTemplateIndex = w.userToTemplateIndex
       /\ v.templateToUsers = w.templateToUsers
       /\ v.templateToUserIndex = w.templateToUserIndex
  BY ONLY <1>1, <1>2 DEF Wallet
<1>15. TemplatesKept(v)
  <2>1. IsFiniteSet(fewer) /\ Cardinality(fewer) = Cardinality(names) - 1
    BY <1>2, <1>5, FS_RemoveElement
  <2>2. Len(L) = Cardinality(fewer) BY <1>5, <1>8, <2>1
  <2>3. \A x : IsIn(x, L) <=> x \in fewer BY <1>5, <1>8
  <2>4. Indexed(L, [x \in fewer |-> T[x].index])
    <3>1. ASSUME NEW i \in 1 .. Len(L) PROVE [x \in fewer |-> T[x].index][L[i]] = i - 1
      <4>1. L[i] \in fewer BY <2>3 DEF IsIn
      <4>2. newIndex[L[i]] = i - 1 BY <1>8 DEF Indexed
      <4>3. T[L[i]].index = newIndex[L[i]] BY <1>9, <4>1
      <4>4. QED BY <4>1, <4>2, <4>3
    <3>2. QED BY <3>1 DEF Indexed
  <2>5. \A x \in fewer : T[x].frequency > 0 /\ T[x].duration \div T[x].frequency > 0
    BY <1>5, <1>9
  <2>6. DOMAIN v.templates = fewer BY <1>10, <1>14
  <2> HIDE DEF fewer
  <2>7. QED BY <1>14, <2>1, <2>2, <2>3, <2>4, <2>5, <2>6 DEF TemplatesKept
<1>16. \A b \in Beneficiary : ~IsIn(t, w.userToTemplates[b])
  <2>1. ASSUME NEW b \in Beneficiary, IsIn(t, w.userToTemplates[b]) PROVE FALSE
    <3>1. IsIn(b, w.templateToUsers[t]) BY <1>1, <2>1 DEF ArraysKept
    <3>2. QED BY <1>2, <3>1 DEF IsIn
  <2>2. QED BY <2>1
<1>17. ArraysKept(v)
  <2>1. \A b \in Beneficiary : \A x : IsIn(x, w.userToTemplates[b]) => x \in fewer
    BY <1>1, <1>16 DEF ArraysKept
  <2>2. DOMAIN v.templates = fewer BY <1>10, <1>14
  <2> HIDE DEF fewer
  <2>3. QED BY <1>1, <1>14, <2>1, <2>2 DEF ArraysKept
<1>18. \A b \in Beneficiary : \A i \in DOMAIN w.schedules[b] :
          SameTerms(v, w, w.schedules[b][i].templateName)
  <2> SUFFICES ASSUME NEW b \in Beneficiary, NEW i \in DOMAIN w.schedules[b]
               PROVE  SameTerms(v, w, w.schedules[b][i].templateName)
    OBVIOUS
  <2> DEFINE x == w.schedules[b][i].templateName
  <2>1. x \in names /\ IsIn(x, w.userToTemplates[b]) BY ScheduledIsTemplate
  <2>2. x \in fewer BY <1>16, <2>1
  <2> HIDE DEF x
  <2>3. QED BY <1>9, <1>14, <2>2 DEF SameTerms, x
<1>19. (v.balance + v.reclaimed) - v.unassignedTokens
         = (w.balance + w.reclaimed) - w.unassignedTokens
  BY <1>14
<1>20. QED BY <1>13, <1>14, <1>15, <1>17, <1>18, <1>19, TermsKeep

-----------------------------------------------------------------------------
(* New schedules.                                                          *)

\* A user has a schedule of a template if and only if his list names it.
LEMMA HasScheduleIs ==
  ASSUME NEW w, WInv(w), NEW b \in Beneficiary, NEW t \in TemplateName
  PROVE  /\ HasSchedule(w, b, t) <=> IsIn(t, w.userToTemplates[b])
         /\ HasSchedule(w, b, t) =>
              /\ w.userToTemplateIndex[b][t] + 1 \in 1 .. Len(w.schedules[b])
              /\ w.userToTemplates[b][w.userToTemplateIndex[b][t] + 1] = t
              /\ AlreadyAdded(w, b, t)
<1> DEFINE k == w.userToTemplateIndex[b][t]
           list == w.userToTemplates[b]
           n == Len(list)
<1>1. w \in Wallet /\ ArraysKept(w) BY DEF WInv
<1>2. /\ w.schedules[b] \in Seq(Schedule) /\ list \in Seq(TemplateName) /\ k \in Nat
  BY <1>1 DEF Wallet
<1>3. /\ n = Len(w.schedules[b]) /\ n \in Nat
      /\ \A i \in 1 .. n : w.schedules[b][i].templateName = list[i]
      /\ \A i \in 1 .. n : w.userToTemplateIndex[b][list[i]] = i - 1
  BY <1>1, <1>2 DEF ArraysKept, Indexed
<1>4. ASSUME HasSchedule(w, b, t)
      PROVE  k + 1 \in 1 .. n /\ list[k + 1] = t /\ IsIn(t, list) /\ AlreadyAdded(w, b, t)
  <2>1. k < n /\ w.schedules[b][k + 1].templateName = t
    BY <1>3, <1>4 DEF HasSchedule
  <2>2. k + 1 \in 1 .. n BY <1>2, <1>3, <2>1
  <2>3. list[k + 1] = t BY <1>3, <2>1, <2>2
  <2>4. w.schedules[b] # << >> BY <1>2, <1>3, <2>2
  <2>5. QED BY <2>1, <2>2, <2>3, <2>4 DEF IsIn, AlreadyAdded
<1>5. ASSUME IsIn(t, list) PROVE HasSchedule(w, b, t)
  <2>1. PICK i \in 1 .. n : list[i] = t BY <1>5 DEF IsIn
  <2>2. k = i - 1 BY <1>3, <2>1
  <2>3. k < n /\ k + 1 = i BY <1>2, <1>3, <2>2
  <2>4. QED BY <1>3, <2>1, <2>3 DEF HasSchedule
<1>6. QED BY <1>3, <1>4, <1>5

\* What a new schedule changes.
ScheduledFields(v, w, b, t, startTime) ==
  LET new == [templateName |-> t, claimedTokens |-> 0, startTime |-> startTime] IN
  /\ new \in Schedule
  /\ v.balance = w.balance /\ v.reclaimed = w.reclaimed
  /\ v.received = w.received
  /\ v.templates = w.templates /\ v.templateNames = w.templateNames
  /\ v.unassignedTokens = w.unassignedTokens - w.templates[t].numberOfTokens
  /\ \A x : IsIn(x, w.beneficiaries) \/ x = b => IsIn(x, v.beneficiaries)
  /\ v.schedules = [w.schedules EXCEPT ![b] = Append(w.schedules[b], new)]
  /\ v.userToTemplates
       = [w.userToTemplates EXCEPT ![b] = Append(w.userToTemplates[b], t)]
  /\ v.userToTemplateIndex = [w.userToTemplateIndex EXCEPT ![b] =
       [w.userToTemplateIndex[b] EXCEPT ![t] = Len(w.schedules[b])]]
  /\ v.templateToUsers
       = [w.templateToUsers EXCEPT ![t] = Append(w.templateToUsers[t], b)]
  /\ v.templateToUserIndex = [w.templateToUserIndex EXCEPT ![t] =
       [w.templateToUserIndex[t] EXCEPT ![b] = Len(w.templateToUsers[t])]]

LEMMA ScheduledDoes ==
  ASSUME NEW w, w \in Wallet, NEW b \in Beneficiary, NEW t, t \in DOMAIN w.templates,
         NEW startTime \in Int
  PROVE  /\ Scheduled(w, b, t, startTime) \in Wallet
         /\ ScheduledFields(Scheduled(w, b, t, startTime), w, b, t, startTime)
<1> DEFINE v == Scheduled(w, b, t, startTime)
           new == [templateName |-> t, claimedTokens |-> 0, startTime |-> startTime]
           u == w.unassignedTokens - w.templates[t].numberOfTokens
           list == w.beneficiaries
           bs == IF b \in ToSet(list) THEN list ELSE Append(list, b)
           s == [w.schedules EXCEPT ![b] = Append(w.schedules[b], new)]
           ut == [w.userToTemplates EXCEPT ![b] = Append(w.userToTemplates[b], t)]
           uti == [w.userToTemplateIndex EXCEPT ![b] =
                     [w.userToTemplateIndex[b] EXCEPT ![t] = Len(w.schedules[b])]]
           tu == [w.templateToUsers EXCEPT ![t] = Append(w.templateToUsers[t], b)]
           tui == [w.templateToUserIndex EXCEPT ![t] =
                     [w.templateToUserIndex[t] EXCEPT ![b] = Len(w.templateToUsers[t])]]
<1>1. t \in TemplateName /\ w.templates[t] \in Template BY TemplatesAre
<1>2. /\ w.unassignedTokens \in Int /\ w.templates[t].numberOfTokens \in Int
      /\ list \in Seq(Beneficiary)
      /\ w.schedules \in [Beneficiary -> Seq(Schedule)]
      /\ w.userToTemplates \in [Beneficiary -> Seq(TemplateName)]
      /\ w.userToTemplateIndex \in [Beneficiary -> [TemplateName -> Nat]]
      /\ w.templateToUsers \in [TemplateName -> Seq(Beneficiary)]
      /\ w.templateToUserIndex \in [TemplateName -> [Beneficiary -> Nat]]
  BY <1>1, SMTT(30) DEF Wallet, Template
<1>3. new \in Schedule BY <1>1 DEF Schedule
<1>4. v = [w EXCEPT !.unassignedTokens = u, !.beneficiaries = bs, !.schedules = s,
                    !.userToTemplates = ut, !.userToTemplateIndex = uti,
                    !.templateToUsers = tu, !.templateToUserIndex = tui]
  BY DEF Scheduled
<1> HIDE DEF v, new
<1>5. u \in Int /\ bs \in Seq(Beneficiary) BY <1>2
<1>6. /\ s \in [Beneficiary -> Seq(Schedule)]
      /\ ut \in [Beneficiary -> Seq(TemplateName)]
  BY <1>1, <1>2, <1>3
<1>7. uti \in [Beneficiary -> [TemplateName -> Nat]]
  <2>1. Len(w.schedules[b]) \in Nat BY <1>2
  <2>2. QED BY <1>1, <1>2, <2>1
<1>8. tu \in [TemplateName -> Seq(Beneficiary)] BY <1>1, <1>2
<1>9. tui \in [TemplateName -> [Beneficiary -> Nat]]
  <2>1. Len(w.templateToUsers[t]) \in Nat BY <1>1, <1>2
  <2>2. QED BY <1>1, <1>2, <2>1
<1>10. \A x : IsIn(x, list) \/ x = b => IsIn(x, bs)
  <2>1. CASE b \in ToSet(list)
    <3>1. PICK i \in DOMAIN list : list[i] = b BY <2>1 DEF ToSet
    <3>2. i \in 1 .. Len(list) BY <1>2
    <3>3. IsIn(b, list) BY <3>1, <3>2 DEF IsIn
    <3>4. bs = list BY <2>1
    <3>5. QED BY <3>3, <3>4
  <2>2. CASE b \notin ToSet(list)
    <3>1. bs = Append(list, b) BY <2>2
    <3>2. /\ Len(list) \in Nat /\ Len(bs) = Len(list) + 1 /\ bs[Len(list) + 1] = b
          /\ \A i \in 1 .. Len(list) : bs[i] = list[i]
      BY <1>2, <3>1
    <3>3. /\ Len(list) + 1 \in 1 .. Len(bs)
          /\ \A i \in 1 .. Len(list) : i \in 1 .. Len(bs)
      BY <3>2
    <3> HIDE DEF bs, list
    <3>4. QED BY <3>2, <3>3 DEF IsIn
  <2>3. QED BY <2>1, <2>2
<1> HIDE DEF u, bs, s, ut, uti, tu, tui
<1>11. v \in Wallet BY ONLY w \in Wallet, <1>4, <1>5, <1>6, <1>7, <1>8, <1>9 DEF Wallet
<1>12. /\ v.unassignedTokens = u /\ v.beneficiaries = bs /\ v.schedules = s
       /\ v.userToTemplates = ut /\ v.userToTemplateIndex = uti
       /\ v.templateToUsers = tu /\ v.templateToUserIndex = tui
       /\ v.balance = w.balance /\ v.reclaimed = w.reclaimed
       /\ v.received = w.received
       /\ v.templates = w.templates /\ v.templateNames = w.templateNames
  BY ONLY w \in Wallet, <1>4 DEF Wallet
<1>13. QED
  BY <1>3, <1>10, <1>11, <1>12 DEF v, new, u, s, ut, uti, tu, tui, ScheduledFields

\* The arrays after a schedule is added.
LEMMA ScheduledKeepsArrays ==
  ASSUME NEW w, WInv(w), NEW b \in Beneficiary, NEW t \in DOMAIN w.templates,
         ~IsIn(t, w.userToTemplates[b]), NEW startTime \in Int
  PROVE  ArraysKept(Scheduled(w, b, t, startTime))
<1> DEFINE v == Scheduled(w, b, t, startTime)
           new == [templateName |-> t, claimedTokens |-> 0, startTime |-> startTime]
           list == w.userToTemplates[b]
           index == w.userToTemplateIndex[b]
           users == w.templateToUsers[t]
           userIndex == w.templateToUserIndex[t]
           scheds == w.schedules[b]
<1>1. w \in Wallet /\ ArraysKept(w) BY DEF WInv
<1>2. t \in TemplateName BY <1>1, TemplatesAre
<1>3. /\ new \in Schedule /\ v.templates = w.templates
      /\ \A x : IsIn(x, w.beneficiaries) \/ x = b => IsIn(x, v.beneficiaries)
      /\ v.schedules = [w.schedules EXCEPT ![b] = Append(scheds, new)]
      /\ v.userToTemplates = [w.userToTemplates EXCEPT ![b] = Append(list, t)]
      /\ v.userToTemplateIndex = [w.userToTemplateIndex EXCEPT ![b] =
           [index EXCEPT ![t] = Len(scheds)]]
      /\ v.templateToUsers = [w.templateToUsers EXCEPT ![t] = Append(users, b)]
      /\ v.templateToUserIndex = [w.templateToUserIndex EXCEPT ![t] =
           [userIndex EXCEPT ![b] = Len(users)]]
  <2>1. /\ Scheduled(w, b, t, startTime) \in Wallet
        /\ ScheduledFields(Scheduled(w, b, t, startTime), w, b, t, startTime)
    BY <1>1, ScheduledDoes
  <2>2. QED BY <2>1 DEF ScheduledFields
<1>4. /\ scheds \in Seq(Schedule) /\ list \in Seq(TemplateName)
      /\ index \in [TemplateName -> Nat]
      /\ users \in Seq(Beneficiary) /\ userIndex \in [Beneficiary -> Nat]
      /\ DOMAIN w.schedules = Beneficiary /\ DOMAIN w.userToTemplates = Beneficiary
      /\ DOMAIN w.userToTemplateIndex = Beneficiary
      /\ DOMAIN w.templateToUsers = TemplateName
      /\ DOMAIN w.templateToUserIndex = TemplateName
  BY <1>1, <1>2 DEF Wallet
<1>5. /\ Len(list) = Len(scheds) /\ Indexed(list, index) /\ Indexed(users, userIndex)
      /\ \A i \in 1 .. Len(scheds) : scheds[i].templateName = list[i]
      /\ \A x \in Beneficiary : IsIn(x, users) <=> IsIn(t, w.userToTemplates[x])
  BY <1>1, <1>2 DEF ArraysKept
<1>6. new.templateName = t OBVIOUS
<1> HIDE DEF v, new, list, index, users, userIndex, scheds
<1>7. /\ v.schedules[b] = Append(scheds, new) /\ v.userToTemplates[b] = Append(list, t)
      /\ v.userToTemplateIndex[b] = [index EXCEPT ![t] = Len(scheds)]
      /\ v.templateToUsers[t] = Append(users, b)
      /\ v.templateToUserIndex[t] = [userIndex EXCEPT ![b] = Len(users)]
      /\ \A x \in Beneficiary \ {b} :
           /\ v.schedules[x] = w.schedules[x]
           /\ v.userToTemplates[x] = w.userToTemplates[x]
           /\ v.userToTemplateIndex[x] = w.userToTemplateIndex[x]
      /\ \A y \in TemplateName \ {t} :
           /\ v.templateToUsers[y] = w.templateToUsers[y]
           /\ v.templateToUserIndex[y] = w.templateToUserIndex[y]
  BY <1>2, <1>3, <1>4
<1>8. LET L == Append(list, t)
          J == [index EXCEPT ![t] = Len(list)]
      IN  /\ L \in Seq(TemplateName) /\ Len(L) = Len(list) + 1 /\ Indexed(L, J)
          /\ \A y : IsIn(y, L) <=> IsIn(y, list) \/ y = t
  <2>1. ~IsIn(t, list) BY DEF list
  <2>2. QED BY ONLY <1>2, <1>4, <1>5, <2>1, AppendKeeps
<1>9. LET L == Append(users, b)
          J == [userIndex EXCEPT ![b] = Len(users)]
      IN  /\ L \in Seq(Beneficiary) /\ Len(L) = Len(users) + 1 /\ Indexed(L, J)
          /\ \A y : IsIn(y, L) <=> IsIn(y, users) \/ y = b
  <2>1. ~IsIn(b, users) BY <1>5 DEF list
  <2>2. QED BY ONLY b \in Beneficiary, <1>4, <1>5, <2>1, AppendKeeps
<1>10. ASSUME NEW x \in Beneficiary
       PROVE  /\ Len(v.userToTemplates[x]) = Len(v.schedules[x])
              /\ \A i \in 1 .. Len(v.schedules[x]) :
                   v.schedules[x][i].templateName = v.userToTemplates[x][i]
              /\ Indexed(v.userToTemplates[x], v.userToTemplateIndex[x])
              /\ \A y : IsIn(y, v.userToTemplates[x]) =>
                   IsIn(x, v.beneficiaries) /\ y \in DOMAIN v.templates
  <2>1. CASE x = b
    <3> DEFINE n == Len(scheds)
               L == Append(list, t)
               S == Append(scheds, new)
    <3>1. /\ n \in Nat /\ Len(S) = n + 1 /\ Len(L) = n + 1
          /\ L[n + 1] = t /\ S[n + 1] = new
          /\ \A i \in 1 .. n : L[i] = list[i] /\ S[i] = scheds[i]
      BY <1>2, <1>3, <1>4, <1>5
    <3>2. \A i \in 1 .. n + 1 : i \in 1 .. n \/ i = n + 1 BY <3>1
    <3>3. \A i \in 1 .. n : scheds[i].templateName = list[i] BY <1>5
    <3> HIDE DEF n, L, S
    <3>4. \A i \in 1 .. n + 1 : S[i].templateName = L[i]
      BY <1>6, <3>1, <3>2, <3>3
    <3>5. Indexed(L, v.userToTemplateIndex[b]) BY <1>5, <1>7, <1>8 DEF L
    <3>6. \A y : IsIn(y, L) => IsIn(b, v.beneficiaries) /\ y \in DOMAIN v.templates
      <4>1. \A y : IsIn(y, L) => IsIn(y, list) \/ y = t BY <1>8 DEF L
      <4>2. \A y : IsIn(y, list) => y \in DOMAIN w.templates
        BY <1>1 DEF ArraysKept, list
      <4>3. QED BY <1>3, <4>1, <4>2
    <3>7. v.schedules[b] = S /\ v.userToTemplates[b] = L BY <1>7 DEF S, L
    <3>8. QED BY <2>1, <3>1, <3>4, <3>5, <3>6, <3>7
  <2>2. CASE x # b
    <3>1. /\ v.schedules[x] = w.schedules[x]
          /\ v.userToTemplates[x] = w.userToTemplates[x]
          /\ v.userToTemplateIndex[x] = w.userToTemplateIndex[x]
      BY <1>7, <2>2
    <3>2. \A y : IsIn(y, w.userToTemplates[x]) =>
            IsIn(x, w.beneficiaries) /\ y \in DOMAIN w.templates
      BY <1>1 DEF ArraysKept
    <3>3. /\ Len(w.userToTemplates[x]) = Len(w.schedules[x])
          /\ \A i \in 1 .. Len(w.schedules[x]) :
               w.schedules[x][i].templateName = w.userToTemplates[x][i]
          /\ Indexed(w.userToTemplates[x], w.userToTemplateIndex[x])
      BY <1>1 DEF ArraysKept
    <3>4. QED BY <1>3, <3>1, <3>2, <3>3
  <2>3. QED BY <2>1, <2>2
<1>11. \A x \in Beneficiary, y \in TemplateName :
         IsIn(y, v.userToTemplates[x])
           <=> IsIn(y, w.userToTemplates[x]) \/ (x = b /\ y = t)
  BY <1>7, <1>8, ZenonT(60) DEF list
<1>12. ASSUME NEW y \in TemplateName
       PROVE  /\ Indexed(v.templateToUsers[y], v.templateToUserIndex[y])
              /\ \A x \in Beneficiary :
                   IsIn(x, v.templateToUsers[y]) <=> IsIn(y, v.userToTemplates[x])
  <2>1. CASE y = t BY <1>5, <1>7, <1>9, <1>11, <2>1
  <2>2. CASE y # t
    <3>1. /\ Indexed(w.templateToUsers[y], w.templateToUserIndex[y])
          /\ \A x \in Beneficiary :
               IsIn(x, w.templateToUsers[y]) <=> IsIn(y, w.userToTemplates[x])
      BY <1>1 DEF ArraysKept
    <3>2. QED BY <1>7, <1>11, <2>2, <3>1
  <2>3. QED BY <2>1, <2>2
<1>13. ArraysKept(v) BY <1>10, <1>12 DEF ArraysKept
<1>14. QED BY <1>13 DEF v

LEMMA ScheduledKeeps ==
  ASSUME NEW w, WInv(w), NEW b \in Beneficiary, NEW t \in DOMAIN w.templates,
         ~IsIn(t, w.userToTemplates[b]), NEW startTime \in Int,
         NEW time \in Int, startTime >= time
  PROVE  KeepsPromises(Scheduled(w, b, t, startTime), w, time)
<1> DEFINE v == Scheduled(w, b, t, startTime)
           new == [templateName |-> t, claimedTokens |-> 0, startTime |-> startTime]
           scheds == w.schedules[b]
           n == Len(scheds)
           d == w.templates[t].numberOfTokens
<1>1. w \in Wallet /\ TemplatesKept(w) /\ ArraysKept(w) BY DEF WInv
<1>2. /\ v \in Wallet /\ new \in Schedule
      /\ v.balance = w.balance /\ v.reclaimed = w.reclaimed
      /\ v.received = w.received
      /\ v.templates = w.templates /\ v.templateNames = w.templateNames
      /\ v.unassignedTokens = w.unassignedTokens - d
      /\ v.schedules = [w.schedules EXCEPT ![b] = Append(scheds, new)]
  <2>1. /\ Scheduled(w, b, t, startTime) \in Wallet
        /\ ScheduledFields(Scheduled(w, b, t, startTime), w, b, t, startTime)
    BY <1>1, ScheduledDoes
  <2>2. QED BY <2>1 DEF ScheduledFields
<1>3. ArraysKept(v) BY ScheduledKeepsArrays
<1>4. TemplatesKept(v) BY <1>1, <1>2 DEF TemplatesKept
<1>5. /\ scheds \in Seq(Schedule) /\ n \in Nat
      /\ DOMAIN scheds = 1 .. n
      /\ w.schedules \in [Beneficiary -> Seq(Schedule)]
      /\ w.received[b] \in Int
      /\ AvailableOf(w, b, time) \in Int /\ UnclaimedOf(w, b) \in Int
      /\ \A i \in 1 .. n : /\ GetAvailableTokens(w, scheds[i], time) \in Int
                           /\ NumberOfTokens(w, scheds[i]) - scheds[i].claimedTokens \in Int
  <2>1. w.schedules \in [Beneficiary -> Seq(Schedule)] BY <1>1 DEF Wallet
  <2>2. scheds \in Seq(Schedule) /\ n \in Nat /\ DOMAIN scheds = 1 .. n BY <2>1
  <2>3. QED BY <1>1, <2>1, <2>2, AmountsAreNumbers
<1>6. /\ new.templateName = t /\ new.startTime = startTime /\ new.claimedTokens = 0
  OBVIOUS
<1>7. d \in Int BY <1>1, TemplatesAre DEF Template
<1>8. /\ GetAvailableTokens(v, new, time) = 0
      /\ NumberOfTokens(v, new) - new.claimedTokens = d
  <2>1. GetReleasedTokens(v, new, time) = 0
    BY <1>6 DEF GetReleasedTokens
  <2>2. NumberOfTokens(v, new) = d BY <1>2, <1>6 DEF NumberOfTokens
  <2> HIDE DEF new, d, v
  <2>3. QED BY <1>6, <1>7, <2>1, <2>2 DEF GetAvailableTokens
<1> HIDE DEF v, new, scheds
<1>9. v.schedules[b] = Append(scheds, new)
      /\ \A x \in Beneficiary \ {b} : v.schedules[x] = w.schedules[x]
  BY <1>2, <1>5
<1> DEFINE S == Append(scheds, new)
<1>10. /\ DOMAIN S = 1 .. n + 1 /\ S[n + 1] = new
       /\ \A i \in 1 .. n : S[i] = scheds[i]
  BY <1>2, <1>5
<1> HIDE DEF S, n, d
<1>11. \A i \in 1 .. n :
         /\ GetAvailableTokens(v, S[i], time) = GetAvailableTokens(w, scheds[i], time)
         /\ NumberOfTokens(v, S[i]) = NumberOfTokens(w, scheds[i])
         /\ S[i].claimedTokens = scheds[i].claimedTokens
  <2>1. \A x : SameTerms(v, w, x) BY <1>2, SameTemplates
  <2>2. \A y : /\ GetAvailableTokens(v, y, time) = GetAvailableTokens(w, y, time)
               /\ NumberOfTokens(v, y) = NumberOfTokens(w, y)
    BY <2>1, SameAmount
  <2>3. QED BY <1>10, <2>2
<1>12. n + 1 \in 1 .. n + 1 /\ 1 .. n \subseteq 1 .. n + 1 BY <1>5
<1>13. AvailableOf(v, b, time) = AvailableOf(w, b, time)
  <2> DEFINE f == [i \in 1 .. n |-> GetAvailableTokens(w, scheds[i], time)]
             g == [i \in 1 .. n + 1 |-> GetAvailableTokens(v, S[i], time)]
  <2>1. /\ DOMAIN f = 1 .. n /\ DOMAIN g = 1 .. n + 1
        /\ \A i \in 1 .. n : f[i] \in Int /\ g[i] = f[i]
        /\ g[n + 1] = 0
    BY <1>5, <1>8, <1>10, <1>11, <1>12
  <2>2. AvailableOf(w, b, time) = SumFunction(f) BY <1>5 DEF AvailableOf, scheds
  <2>3. AvailableOf(v, b, time) = SumFunction(g)
    BY <1>9, <1>10 DEF AvailableOf, S
  <2> HIDE DEF f, g
  <2>4. g[n + 1] \in Int BY <2>1
  <2>5. SumFunction(g) = SumFunction(f) + g[n + 1]
    BY <1>5, <2>1, <2>4, ListSumAppend
  <2>6. QED BY <1>5, <2>1, <2>2, <2>3, <2>5
<1>14. UnclaimedOf(v, b) = UnclaimedOf(w, b) + d
  <2> DEFINE f == [i \in 1 .. n |-> NumberOfTokens(w, scheds[i]) - scheds[i].claimedTokens]
             g == [i \in 1 .. n + 1 |-> NumberOfTokens(v, S[i]) - S[i].claimedTokens]
  <2>1. /\ DOMAIN f = 1 .. n /\ DOMAIN g = 1 .. n + 1
        /\ \A i \in 1 .. n : f[i] \in Int /\ g[i] = f[i]
        /\ g[n + 1] = d
    BY <1>5, <1>8, <1>10, <1>11, <1>12
  <2>2. UnclaimedOf(w, b) = SumFunction(f) BY <1>5 DEF UnclaimedOf, scheds
  <2>3. UnclaimedOf(v, b) = SumFunction(g)
    BY <1>9, <1>10 DEF UnclaimedOf, S
  <2> HIDE DEF f, g
  <2>4. g[n + 1] \in Int BY <1>7, <2>1
  <2>5. SumFunction(g) = SumFunction(f) + g[n + 1]
    BY <1>5, <2>1, <2>4, ListSumAppend
  <2>6. QED BY <2>1, <2>2, <2>3, <2>5
<1>15. HasGot(w, b, time) <= HasGot(v, b, time)
  BY <1>2, <1>5, <1>13 DEF HasGot
<1>16. (v.balance + v.reclaimed) - v.unassignedTokens
          = ((w.balance + w.reclaimed) - w.unassignedTokens) + d
  <2>1. w.balance \in Int /\ w.reclaimed \in Int /\ w.unassignedTokens \in Int
    BY <1>1 DEF Wallet
  <2>2. QED BY <1>2, <1>7, <2>1
<1>17. \A x \in Beneficiary \ {b} :
         /\ v.schedules[x] = w.schedules[x] /\ v.received[x] = w.received[x]
         /\ \A i \in DOMAIN w.schedules[x] :
              SameTerms(v, w, w.schedules[x][i].templateName)
  BY <1>2, <1>9, SameTemplates
<1>18. KeepsPromises(v, w, time)
  BY <1>2, <1>3, <1>4, <1>7, <1>14, <1>15, <1>16, <1>17, KeepsAfter
<1>19. QED BY <1>18 DEF v

LEMMA AddFromTemplateKeeps ==
  ASSUME NEW w, WInv(w), NEW b \in Beneficiary, NEW t \in TemplateName,
         NEW startTime \in Int, NEW time \in Int,
         NEW v \in AddScheduleFromTemplate(w, b, t, startTime, time)
  PROVE  KeepsPromises(v, w, time)
<1>1. /\ t \in DOMAIN w.templates /\ ~AlreadyAdded(w, b, t) /\ startTime >= time
      /\ v \in {Scheduled(u, b, t, startTime) : u \in Deposit(w, Missing(w, t))}
  BY DEF AddScheduleFromTemplate, TemplateExists
<1>2. PICK u \in Deposit(w, Missing(w, t)) : v = Scheduled(u, b, t, startTime)
  BY <1>1
<1>3. Missing(w, t) \in Int
  <2> DEFINE n == w.templates[t].numberOfTokens
             m == w.unassignedTokens
  <2>1. n \in Int BY <1>1, TemplatesAre DEF WInv, Template
  <2>2. m \in Int BY DEF WInv, Wallet
  <2>3. Missing(w, t) = IF n > m THEN n - m ELSE 0 BY DEF Missing
  <2> HIDE DEF n, m
  <2>4. QED BY <2>1, <2>2, <2>3
<1>4. KeepsPromises(u, w, time) BY <1>3, DepositKeeps
<1>5. WInv(u) BY <1>4 DEF KeepsPromises
<1>6. u.templates = w.templates /\ u.userToTemplates = w.userToTemplates
  <2>1. u = [w EXCEPT !.balance = @ + Missing(w, t), !.unassignedTokens = @ + Missing(w, t)]
    BY DEF Deposit
  <2>2. w \in Wallet BY DEF WInv
  <2>3. QED BY <2>1, <2>2 DEF Wallet
<1>7. ~IsIn(t, w.userToTemplates[b]) BY <1>1, HasScheduleIs
<1>8. KeepsPromises(v, u, time) BY <1>1, <1>2, <1>5, <1>6, <1>7, ScheduledKeeps
<1>9. QED BY <1>4, <1>8, KeepsOfKept

LEMMA AddScheduleKeeps ==
  ASSUME NEW w, WInv(w), NEW b \in Beneficiary, NEW t \in TemplateName,
         NEW p \in Parameters, NEW startTime \in Int, NEW time \in Int,
         NEW v \in AddSchedule(w, b, t, p, startTime, time)
  PROVE  KeepsPromises(v, w, time)
<1>1. PICK u \in AddTemplate(w, t, p) :
         v \in AddScheduleFromTemplate(u, b, t, startTime, time)
  BY DEF AddSchedule
<1>2. KeepsPromises(u, w, time) BY AddTemplateKeeps
<1>3. WInv(u) BY <1>2 DEF KeepsPromises
<1>4. KeepsPromises(v, u, time) BY <1>1, <1>3, AddFromTemplateKeeps
<1>5. QED BY <1>2, <1>4, KeepsOfKept

\* A new time for a schedule that has not started: nothing is released of it, at
\* the old time or at the new one.
LEMMA ModifyScheduleKeeps ==
  ASSUME NEW w, WInv(w), NEW b \in Beneficiary, NEW t \in TemplateName,
         NEW startTime \in Int, NEW time \in Int,
         NEW v \in ModifySchedule(w, b, t, startTime, time)
  PROVE  KeepsPromises(v, w, time)
<1> DEFINE scheds == w.schedules[b]
           n == Len(scheds)
           j == w.userToTemplateIndex[b][t] + 1
           old == scheds[j]
           new == [old EXCEPT !.startTime = startTime]
           S == [scheds EXCEPT ![j] = new]
           z == [w.schedules EXCEPT ![b] = S]
<1>1. w \in Wallet /\ TemplatesKept(w) /\ ArraysKept(w) BY DEF WInv
<1>2. /\ HasSchedule(w, b, t) /\ startTime > time /\ time < old.startTime
      /\ v = [w EXCEPT !.schedules = z]
  BY DEF ModifySchedule, ScheduleOf
<1>3. j \in 1 .. n BY <1>2, HasScheduleIs
<1>4. /\ w.schedules \in [Beneficiary -> Seq(Schedule)]
      /\ scheds \in Seq(Schedule) /\ n \in Nat /\ DOMAIN scheds = 1 .. n
      /\ w.received[b] \in Int
      /\ AvailableOf(w, b, time) \in Int /\ UnclaimedOf(w, b) \in Int
  <2>1. w.schedules \in [Beneficiary -> Seq(Schedule)] BY <1>1 DEF Wallet
  <2>2. scheds \in Seq(Schedule) /\ n \in Nat /\ DOMAIN scheds = 1 .. n BY <2>1
  <2>3. QED BY <1>1, <2>1, <2>2, AmountsAreNumbers
<1>5. old \in Schedule BY <1>3, <1>4
<1>6. /\ new \in Schedule /\ new.templateName = old.templateName
      /\ new.claimedTokens = old.claimedTokens /\ new.startTime = startTime
  <2> HIDE DEF old
  <2>1. QED BY <1>5 DEF Schedule
<1> HIDE DEF new, old, j
<1>7. S \in Seq(Schedule) /\ Len(S) = n /\ DOMAIN S = 1 .. n
      /\ S[j] = new /\ \A i \in 1 .. n : i # j => S[i] = scheds[i]
  BY <1>3, <1>4, <1>6
<1> HIDE DEF S
<1>8. z \in [Beneficiary -> Seq(Schedule)] /\ z[b] = S
      /\ \A x \in Beneficiary \ {b} : z[x] = w.schedules[x]
  BY <1>4, <1>7
<1> HIDE DEF z
<1>9. v \in Wallet BY ONLY <1>1, <1>2, <1>8 DEF Wallet
<1>10. /\ v.schedules = z
       /\ v.balance = w.balance /\ v.reclaimed = w.reclaimed
       /\ v.unassignedTokens = w.unassignedTokens /\ v.received = w.received
       /\ v.templates = w.templates /\ v.templateNames = w.templateNames
       /\ v.beneficiaries = w.beneficiaries
       /\ v.userToTemplates = w.userToTemplates
       /\ v.userToTemplateIndex = w.userToTemplateIndex
       /\ v.templateToUsers = w.templateToUsers
       /\ v.templateToUserIndex = w.templateToUserIndex
  BY ONLY <1>1, <1>2 DEF Wallet
<1>11. ASSUME NEW i \in 1 .. n
       PROVE  /\ S[i].templateName = scheds[i].templateName
              /\ NumberOfTokens(v, S[i]) = NumberOfTokens(w, scheds[i])
              /\ S[i].claimedTokens = scheds[i].claimedTokens
              /\ GetAvailableTokens(v, S[i], time) = GetAvailableTokens(w, scheds[i], time)
  <2>1. CASE i = j
    <3>1. S[i] = new /\ scheds[i] = old BY <1>7, <2>1 DEF old
    <3>2. time \in Int /\ old.startTime \in Int /\ startTime \in Int BY <1>5 DEF Schedule
    <3>3. /\ GetReleasedTokens(v, new, time) = 0 /\ GetReleasedTokens(w, old, time) = 0
      BY <1>2, <1>6, <3>2 DEF GetReleasedTokens
    <3>4. NumberOfTokens(v, new) = NumberOfTokens(w, old)
      BY <1>6, <1>10 DEF NumberOfTokens
    <3>5. GetAvailableTokens(v, new, time) = GetAvailableTokens(w, old, time)
      BY <1>6, <3>3 DEF GetAvailableTokens
    <3>6. QED BY <1>6, <3>1, <3>4, <3>5
  <2>2. CASE i # j
    <3>1. S[i] = scheds[i] BY <1>7, <2>2
    <3>2. \A y : SameTerms(v, w, y) BY <1>10, SameTemplates
    <3>3. \A y : /\ NumberOfTokens(v, y) = NumberOfTokens(w, y)
                 /\ GetAvailableTokens(v, y, time) = GetAvailableTokens(w, y, time)
      BY <3>2, SameAmount
    <3>4. QED BY <3>1, <3>3
  <2>3. QED BY <2>1, <2>2
<1>12. v.schedules[b] = S /\ DOMAIN v.schedules[b] = 1 .. n BY <1>7, <1>8, <1>10
<1>13. /\ AvailableOf(v, b, time) = AvailableOf(w, b, time)
       /\ UnclaimedOf(v, b) = UnclaimedOf(w, b)
  <2>1. [i \in 1 .. n |-> GetAvailableTokens(v, S[i], time)]
          = [i \in 1 .. n |-> GetAvailableTokens(w, scheds[i], time)]
    BY <1>11
  <2>2. [i \in 1 .. n |-> NumberOfTokens(v, S[i]) - S[i].claimedTokens]
          = [i \in 1 .. n |-> NumberOfTokens(w, scheds[i]) - scheds[i].claimedTokens]
    BY <1>11
  <2>3. /\ AvailableOf(v, b, time)
             = SumFunction([i \in 1 .. n |-> GetAvailableTokens(v, S[i], time)])
        /\ AvailableOf(w, b, time)
             = SumFunction([i \in 1 .. n |-> GetAvailableTokens(w, scheds[i], time)])
    BY <1>4, <1>12 DEF AvailableOf
  <2>4. /\ UnclaimedOf(v, b)
             = SumFunction([i \in 1 .. n |-> NumberOfTokens(v, S[i]) - S[i].claimedTokens])
        /\ UnclaimedOf(w, b)
             = SumFunction([i \in 1 .. n |-> NumberOfTokens(w, scheds[i]) - scheds[i].claimedTokens])
    BY <1>4, <1>12 DEF UnclaimedOf
  <2>5. QED BY <2>1, <2>2, <2>3, <2>4
<1>14. TemplatesKept(v) BY <1>1, <1>10 DEF TemplatesKept
<1>15. ArraysKept(v)
  <2>1. ASSUME NEW x \in Beneficiary
        PROVE  /\ Len(v.userToTemplates[x]) = Len(v.schedules[x])
               /\ \A i \in 1 .. Len(v.schedules[x]) :
                    v.schedules[x][i].templateName = v.userToTemplates[x][i]
    <3>1. /\ Len(w.userToTemplates[x]) = Len(w.schedules[x])
          /\ \A i \in 1 .. Len(w.schedules[x]) :
               w.schedules[x][i].templateName = w.userToTemplates[x][i]
      BY <1>1 DEF ArraysKept
    <3>2. CASE x = b BY <1>7, <1>10, <1>11, <1>12, <3>1, <3>2
    <3>3. CASE x # b BY <1>8, <1>10, <3>1, <3>3
    <3>4. QED BY <3>2, <3>3
  <2>2. \A x \in Beneficiary :
          /\ Indexed(v.userToTemplates[x], v.userToTemplateIndex[x])
          /\ \A y : IsIn(y, v.userToTemplates[x]) =>
               IsIn(x, v.beneficiaries) /\ y \in DOMAIN v.templates
    BY <1>1, <1>10 DEF ArraysKept
  <2>3. \A y \in TemplateName :
          /\ Indexed(v.templateToUsers[y], v.templateToUserIndex[y])
          /\ \A x \in Beneficiary :
               IsIn(x, v.templateToUsers[y]) <=> IsIn(y, v.userToTemplates[x])
    BY <1>1, <1>10 DEF ArraysKept
  <2>4. QED BY <2>1, <2>2, <2>3 DEF ArraysKept
<1> DEFINE d == 0
<1>16. /\ d \in Int /\ UnclaimedOf(v, b) = UnclaimedOf(w, b) + d
       /\ (v.balance + v.reclaimed) - v.unassignedTokens
            = ((w.balance + w.reclaimed) - w.unassignedTokens) + d
  <2>1. w.balance \in Int /\ w.reclaimed \in Int /\ w.unassignedTokens \in Int
    BY <1>1 DEF Wallet
  <2>2. QED BY <1>4, <1>10, <1>13, <2>1
<1>17. HasGot(w, b, time) <= HasGot(v, b, time)
  BY <1>4, <1>10, <1>13 DEF HasGot
<1>18. \A x \in Beneficiary \ {b} :
         /\ v.schedules[x] = w.schedules[x] /\ v.received[x] = w.received[x]
         /\ \A i \in DOMAIN w.schedules[x] :
              SameTerms(v, w, w.schedules[x][i].templateName)
  BY <1>8, <1>10, SameTemplates
<1> HIDE DEF d
<1>19. QED BY <1>9, <1>14, <1>15, <1>16, <1>17, <1>18, KeepsAfter

-----------------------------------------------------------------------------
(* Revocations.  A removal takes b off the lists of his templates one by   *)
(* one, when his own list does not name them any more.                     *)

\* The lists agree, but for the templates of which b is still to be removed.
ArraysBut(w, b, removed) ==
  /\ \A x \in Beneficiary :
       /\ Len(w.userToTemplates[x]) = Len(w.schedules[x])
       /\ \A i \in 1 .. Len(w.schedules[x]) :
            w.schedules[x][i].templateName = w.userToTemplates[x][i]
       /\ Indexed(w.userToTemplates[x], w.userToTemplateIndex[x])
       /\ \A y : IsIn(y, w.userToTemplates[x]) =>
            IsIn(x, w.beneficiaries) /\ y \in DOMAIN w.templates
  /\ \A y \in TemplateName :
       /\ Indexed(w.templateToUsers[y], w.templateToUserIndex[y])
       /\ \A x \in Beneficiary :
            IsIn(x, w.templateToUsers[y])
              <=> IsIn(y, w.userToTemplates[x]) \/ (x = b /\ y \in removed)

LEMMA ArraysButNone ==
  ASSUME NEW w, NEW b PROVE ArraysKept(w) <=> ArraysBut(w, b, {})
BY DEF ArraysKept, ArraysBut

\* What stays the same when lists of users are changed.
SameButUsers(v, w) ==
  /\ v.balance = w.balance /\ v.reclaimed = w.reclaimed
  /\ v.unassignedTokens = w.unassignedTokens /\ v.received = w.received
  /\ v.templates = w.templates /\ v.templateNames = w.templateNames
  /\ v.beneficiaries = w.beneficiaries /\ v.schedules = w.schedules
  /\ v.userToTemplates = w.userToTemplates
  /\ v.userToTemplateIndex = w.userToTemplateIndex

LEMMA DeleteUserKeeps ==
  ASSUME NEW w, w \in Wallet, NEW b \in Beneficiary, NEW removed,
         ArraysBut(w, b, removed), NEW t \in TemplateName, t \in removed,
         ~IsIn(t, w.userToTemplates[b])
  PROVE  LET v == DeleteTemplateToUsers(w, b, t) IN
         /\ v \in Wallet /\ SameButUsers(v, w)
         /\ ArraysBut(v, b, removed \ {t})
<1> DEFINE v == DeleteTemplateToUsers(w, b, t)
           users == w.templateToUsers[t]
           index == w.templateToUserIndex[t]
           k == index[b]
           L == Without(users, k)
           J == [index EXCEPT ![users[Len(users)]] = k, ![b] = 0]
           tu == [w.templateToUsers EXCEPT ![t] = L]
           tui == [w.templateToUserIndex EXCEPT ![t] = J]
<1>1. v = [w EXCEPT !.templateToUsers = tu, !.templateToUserIndex = tui]
  BY DEF DeleteTemplateToUsers, Last
<1>2. /\ w.templateToUsers \in [TemplateName -> Seq(Beneficiary)]
      /\ w.templateToUserIndex \in [TemplateName -> [Beneficiary -> Nat]]
      /\ users \in Seq(Beneficiary) /\ index \in [Beneficiary -> Nat]
  BY DEF Wallet
<1>3. Indexed(users, index) /\ IsIn(b, users) BY DEF ArraysBut
<1> HIDE DEF users, index, v
<1>4. /\ L \in Seq(Beneficiary) /\ J \in [Beneficiary -> Nat] /\ Indexed(L, J)
      /\ \A x : IsIn(x, L) <=> IsIn(x, users) /\ x # b
  BY ONLY b \in Beneficiary, <1>2, <1>3, RemovalKeeps, ZenonT(120)
<1> HIDE DEF L, J
<1>5. /\ tu \in [TemplateName -> Seq(Beneficiary)] /\ tu[t] = L
      /\ tui \in [TemplateName -> [Beneficiary -> Nat]] /\ tui[t] = J
      /\ \A y \in TemplateName \ {t} : /\ tu[y] = w.templateToUsers[y]
                                       /\ tui[y] = w.templateToUserIndex[y]
  BY <1>2, <1>4
<1> HIDE DEF tu, tui
<1>6. v \in Wallet BY ONLY w \in Wallet, <1>1, <1>5 DEF Wallet
<1>7. v.templateToUsers = tu /\ v.templateToUserIndex = tui /\ SameButUsers(v, w)
  BY ONLY w \in Wallet, <1>1 DEF Wallet, SameButUsers
<1>8. ASSUME NEW y \in TemplateName
      PROVE  /\ Indexed(v.templateToUsers[y], v.templateToUserIndex[y])
             /\ \A x \in Beneficiary :
                  IsIn(x, v.templateToUsers[y])
                    <=> IsIn(y, v.userToTemplates[x]) \/ (x = b /\ y \in removed \ {t})
  <2>1. /\ Indexed(w.templateToUsers[y], w.templateToUserIndex[y])
        /\ \A x \in Beneficiary :
             IsIn(x, w.templateToUsers[y])
               <=> IsIn(y, w.userToTemplates[x]) \/ (x = b /\ y \in removed)
    BY DEF ArraysBut
  <2>2. v.userToTemplates = w.userToTemplates BY <1>7 DEF SameButUsers
  <2>3. CASE y = t
    <3>1. \A x \in Beneficiary : IsIn(x, L)
            <=> IsIn(t, w.userToTemplates[x]) \/ (x = b /\ t \in removed \ {t})
      BY <1>4, <2>1, <2>3 DEF users
    <3>2. QED BY <1>4, <1>5, <1>7, <2>2, <2>3, <3>1
  <2>4. CASE y # t BY <1>5, <1>7, <2>1, <2>2, <2>4
  <2>5. QED BY <2>3, <2>4
<1>9. \A x \in Beneficiary :
        /\ Len(v.userToTemplates[x]) = Len(v.schedules[x])
        /\ \A i \in 1 .. Len(v.schedules[x]) :
             v.schedules[x][i].templateName = v.userToTemplates[x][i]
        /\ Indexed(v.userToTemplates[x], v.userToTemplateIndex[x])
        /\ \A y : IsIn(y, v.userToTemplates[x]) =>
             IsIn(x, v.beneficiaries) /\ y \in DOMAIN v.templates
  BY <1>7 DEF ArraysBut, SameButUsers
<1>10. ArraysBut(v, b, removed \ {t}) BY <1>8, <1>9 DEF ArraysBut
<1>11. QED BY <1>6, <1>7, <1>10 DEF v

\* A schedule taken off the list of its user.
LEMMA DeleteScheduleKeeps ==
  ASSUME NEW w, w \in Wallet, NEW b \in Beneficiary, ArraysKept(w),
         NEW t \in TemplateName, IsIn(t, w.userToTemplates[b])
  PROVE  LET v == DeleteUserToTemplates(w, b, t)
             k == w.userToTemplateIndex[b][t]
         IN  /\ v \in Wallet /\ ArraysBut(v, b, {t})
             /\ k \in 0 .. Len(w.schedules[b]) - 1
             /\ v.schedules = [w.schedules EXCEPT ![b] = Without(w.schedules[b], k)]
             /\ ~IsIn(t, v.userToTemplates[b])
             /\ v.balance = w.balance /\ v.reclaimed = w.reclaimed
             /\ v.unassignedTokens = w.unassignedTokens /\ v.received = w.received
             /\ v.templates = w.templates /\ v.templateNames = w.templateNames
<1> DEFINE v == DeleteUserToTemplates(w, b, t)
           scheds == w.schedules[b]
           list == w.userToTemplates[b]
           index == w.userToTemplateIndex[b]
           k == index[t]
           S == Without(scheds, k)
           L == Without(list, k)
           J == [index EXCEPT ![list[Len(list)]] = k, ![t] = 0]
           s == [w.schedules EXCEPT ![b] = S]
           ut == [w.userToTemplates EXCEPT ![b] = L]
           uti == [w.userToTemplateIndex EXCEPT ![b] = J]
<1>1. /\ w.schedules \in [Beneficiary -> Seq(Schedule)]
      /\ w.userToTemplates \in [Beneficiary -> Seq(TemplateName)]
      /\ w.userToTemplateIndex \in [Beneficiary -> [TemplateName -> Nat]]
      /\ scheds \in Seq(Schedule) /\ list \in Seq(TemplateName)
      /\ index \in [TemplateName -> Nat]
  BY DEF Wallet
<1>2. /\ Len(list) = Len(scheds) /\ Indexed(list, index) /\ IsIn(t, list)
      /\ \A i \in 1 .. Len(scheds) : scheds[i].templateName = list[i]
  BY DEF ArraysKept
<1>3. Len(scheds) \in 1 .. Len(scheds)
  <2>1. PICK i \in 1 .. Len(scheds) : list[i] = t BY <1>2 DEF IsIn
  <2>2. Len(scheds) \in Nat BY <1>1
  <2>3. QED BY <2>1, <2>2
<1>4. Last(scheds).templateName = list[Len(list)]
  <2>1. Last(scheds) = scheds[Len(scheds)] BY DEF Last
  <2> HIDE DEF scheds, list
  <2>2. QED BY <1>2, <1>3, <2>1
<1>5. v = [w EXCEPT !.schedules = s, !.userToTemplates = ut, !.userToTemplateIndex = uti]
  BY <1>4 DEF DeleteUserToTemplates
<1> HIDE DEF v, scheds, list, index
<1>6. /\ k \in 0 .. Len(list) - 1
      /\ L \in Seq(TemplateName) /\ Len(L) = Len(list) - 1
      /\ J \in [TemplateName -> Nat] /\ Indexed(L, J)
      /\ \A y : IsIn(y, L) <=> IsIn(y, list) /\ y # t
  <2>1. /\ list \in Seq(TemplateName) /\ index \in [TemplateName -> Nat]
        /\ Indexed(list, index) /\ IsIn(t, list)
    BY <1>1, <1>2
  <2>2. /\ L \in Seq(TemplateName)
        /\ J \in [TemplateName -> Nat] /\ Indexed(L, J)
        /\ \A y : IsIn(y, L) <=> IsIn(y, list) /\ y # t
    BY ONLY t \in TemplateName, <2>1, RemovalKeeps, ZenonT(60)
  <2>3. k \in 0 .. Len(list) - 1
    BY ONLY t \in TemplateName, <2>1, RemovalKeeps
  <2>4. Len(L) = Len(list) - 1 BY ONLY <2>1, <2>3, WithoutIs
  <2> HIDE DEF k, L, J
  <2>5. QED BY <2>2, <2>3, <2>4
<1>7. /\ S \in Seq(Schedule) /\ Len(S) = Len(scheds) - 1
      /\ \A i \in 1 .. Len(scheds) - 1 :
           S[i] = IF i = k + 1 THEN scheds[Len(scheds)] ELSE scheds[i]
      /\ \A i \in 1 .. Len(scheds) - 1 :
           L[i] = IF i = k + 1 THEN list[Len(scheds)] ELSE list[i]
  <2>1. k \in 0 .. Len(scheds) - 1 BY <1>2, <1>6
  <2>2. Len(list) = Len(scheds) /\ k \in 0 .. Len(list) - 1 BY <1>2, <1>6
  <2>3. scheds \in Seq(Schedule) /\ list \in Seq(TemplateName) BY <1>1
  <2> HIDE DEF k
  <2>4. /\ S \in Seq(Schedule) /\ Len(S) = Len(scheds) - 1
        /\ \A i \in 1 .. Len(scheds) - 1 :
             S[i] = IF i = k + 1 THEN scheds[Len(scheds)] ELSE scheds[i]
    BY ONLY <2>1, <2>3, WithoutIs DEF S
  <2>5. \A i \in 1 .. Len(list) - 1 :
          L[i] = IF i = k + 1 THEN list[Len(list)] ELSE list[i]
    BY ONLY <2>2, <2>3, WithoutIs DEF L
  <2>6. QED BY <2>2, <2>4, <2>5
<1>8. \A i \in 1 .. Len(S) : S[i].templateName = L[i]
  <2>1. \A i \in 1 .. Len(scheds) - 1 : i \in 1 .. Len(scheds) BY <1>1
  <2> HIDE DEF S, L
  <2>2. QED BY <1>2, <1>3, <1>7, <2>1
<1> HIDE DEF S, L, J, k
<1>9. /\ s \in [Beneficiary -> Seq(Schedule)] /\ s[b] = S
      /\ ut \in [Beneficiary -> Seq(TemplateName)] /\ ut[b] = L
      /\ uti \in [Beneficiary -> [TemplateName -> Nat]] /\ uti[b] = J
      /\ \A x \in Beneficiary \ {b} : /\ s[x] = w.schedules[x]
                                      /\ ut[x] = w.userToTemplates[x]
                                      /\ uti[x] = w.userToTemplateIndex[x]
  BY <1>1, <1>6, <1>7
<1> HIDE DEF s, ut, uti
<1>10. v \in Wallet BY ONLY w \in Wallet, <1>5, <1>9 DEF Wallet
<1>11. /\ v.schedules = s /\ v.userToTemplates = ut /\ v.userToTemplateIndex = uti
       /\ v.balance = w.balance /\ v.reclaimed = w.reclaimed
       /\ v.unassignedTokens = w.unassignedTokens /\ v.received = w.received
       /\ v.templates = w.templates /\ v.templateNames = w.templateNames
       /\ v.beneficiaries = w.beneficiaries
       /\ v.templateToUsers = w.templateToUsers
       /\ v.templateToUserIndex = w.templateToUserIndex
  BY ONLY w \in Wallet, <1>5 DEF Wallet
<1>12. ASSUME NEW x \in Beneficiary
       PROVE  /\ Len(v.userToTemplates[x]) = Len(v.schedules[x])
              /\ \A i \in 1 .. Len(v.schedules[x]) :
                   v.schedules[x][i].templateName = v.userToTemplates[x][i]
              /\ Indexed(v.userToTemplates[x], v.userToTemplateIndex[x])
              /\ \A y : IsIn(y, v.userToTemplates[x]) =>
                   IsIn(x, v.beneficiaries) /\ y \in DOMAIN v.templates
  <2>1. /\ Len(w.userToTemplates[x]) = Len(w.schedules[x])
        /\ \A i \in 1 .. Len(w.schedules[x]) :
             w.schedules[x][i].templateName = w.userToTemplates[x][i]
        /\ Indexed(w.userToTemplates[x], w.userToTemplateIndex[x])
        /\ \A y : IsIn(y, w.userToTemplates[x]) =>
             IsIn(x, w.beneficiaries) /\ y \in DOMAIN w.templates
    BY DEF ArraysKept
  <2>2. CASE x = b
    <3>1. Len(L) = Len(S) BY <1>2, <1>6, <1>7
    <3>2. \A y : IsIn(y, L) => IsIn(x, w.beneficiaries) /\ y \in DOMAIN w.templates
      BY <1>6, <2>1, <2>2 DEF list
    <3>3. QED BY <1>6, <1>8, <1>9, <1>11, <2>2, <3>1, <3>2
  <2>3. CASE x # b BY <1>9, <1>11, <2>1, <2>3, ZenonT(60)
  <2>4. QED BY <2>2, <2>3
<1>13. ASSUME NEW y \in TemplateName
       PROVE  /\ Indexed(v.templateToUsers[y], v.templateToUserIndex[y])
              /\ \A x \in Beneficiary :
                   IsIn(x, v.templateToUsers[y])
                     <=> IsIn(y, v.userToTemplates[x]) \/ (x = b /\ y \in {t})
  <2>1. /\ Indexed(w.templateToUsers[y], w.templateToUserIndex[y])
        /\ \A x \in Beneficiary :
             IsIn(x, w.templateToUsers[y]) <=> IsIn(y, w.userToTemplates[x])
    BY DEF ArraysKept
  <2>2. ASSUME NEW x \in Beneficiary
        PROVE  IsIn(y, w.userToTemplates[x])
                 <=> IsIn(y, ut[x]) \/ (x = b /\ y \in {t})
    <3>1. CASE x = b BY <1>2, <1>6, <1>9, <3>1 DEF list
    <3>2. CASE x # b BY <1>9, <3>2
    <3>3. QED BY <3>1, <3>2
  <2>3. QED BY <1>11, <2>1, <2>2
<1>14. ArraysBut(v, b, {t}) BY <1>12, <1>13 DEF ArraysBut
<1>15. ~IsIn(t, v.userToTemplates[b]) BY <1>6, <1>9, <1>11
<1>16. QED
  BY <1>2, <1>6, <1>10, <1>11, <1>14, <1>15 DEF v, k, s, S, scheds, index, list

LEMMA RevokeScheduleKeeps ==
  ASSUME NEW w, WInv(w), NEW b \in Beneficiary, NEW t \in TemplateName,
         NEW time \in Int, NEW v \in RevokeSchedule(w, b, t, time)
  PROVE  KeepsPromises(v, w, time)
<1> DEFINE scheds == w.schedules[b]
           n == Len(scheds)
           k == w.userToTemplateIndex[b][t]
           s == scheds[k + 1]
           amount == GetAvailableTokens(w, s, time)
           left == NumberOfTokens(w, s) - GetReleasedTokens(w, s, time)
           unclaimed == NumberOfTokens(w, s) - s.claimedTokens
           x1 == w.balance - amount
           x2 == [w.received EXCEPT ![b] = @ + amount]
           x3 == w.unassignedTokens + left
           paid == [w EXCEPT !.balance = x1, !.received = x2, !.unassignedTokens = x3]
           u == DeleteUserToTemplates(paid, b, t)
           S == Without(scheds, k)
<1>1. w \in Wallet /\ TemplatesKept(w) /\ ArraysKept(w) BY DEF WInv
<1>2. HasSchedule(w, b, t) BY DEF RevokeSchedule
<1>3. /\ IsIn(t, w.userToTemplates[b]) /\ k + 1 \in 1 .. n
  BY <1>2, HasScheduleIs
<1>4. /\ w.schedules \in [Beneficiary -> Seq(Schedule)]
      /\ w.received \in [Beneficiary -> Int]
      /\ w.balance \in Int /\ w.unassignedTokens \in Int /\ w.reclaimed \in Int
      /\ scheds \in Seq(Schedule) /\ n \in Nat /\ DOMAIN scheds = 1 .. n
  <2>1. /\ w.schedules \in [Beneficiary -> Seq(Schedule)]
        /\ w.received \in [Beneficiary -> Int]
        /\ w.balance \in Int /\ w.unassignedTokens \in Int /\ w.reclaimed \in Int
    BY <1>1 DEF Wallet
  <2>2. scheds \in Seq(Schedule) /\ n \in Nat /\ DOMAIN scheds = 1 .. n BY <2>1
  <2>3. QED BY <2>1, <2>2
<1>5. /\ AvailableOf(w, b, time) \in Int /\ UnclaimedOf(w, b) \in Int
      /\ \A i \in 1 .. n :
           /\ GetReleasedTokens(w, scheds[i], time) \in Int
           /\ GetAvailableTokens(w, scheds[i], time) \in Int
           /\ NumberOfTokens(w, scheds[i]) - scheds[i].claimedTokens \in Int
           /\ scheds[i] \in Schedule /\ scheds[i].templateName \in DOMAIN w.templates
  BY <1>1, <1>4, AmountsAreNumbers
<1>6. /\ amount \in Int /\ unclaimed \in Int /\ left \in Int
      /\ amount = unclaimed - left
  <2> DEFINE r == GetReleasedTokens(w, s, time)
             m == NumberOfTokens(w, s)
             c == s.claimedTokens
  <2>1. s \in Schedule /\ s.templateName \in DOMAIN w.templates /\ r \in Int
    BY <1>3, <1>5
  <2>2. m \in Int /\ c \in Int
    BY <1>1, <2>1, TermsAreNumbers DEF Schedule
  <2>3. amount = r - c BY DEF GetAvailableTokens
  <2> HIDE DEF r, m, c, amount
  <2>4. r \in Int BY <2>1 DEF r
  <2>5. left = m - r /\ unclaimed = m - c BY DEF m, r, c
  <2> HIDE DEF left, unclaimed
  <2>6. QED BY <2>2, <2>3, <2>4, <2>5
<1>7. v = DeleteTemplateToUsers(u, b, t)
  <2>1. k + 1 \in 1 .. n /\ s = ScheduleOf(w, b, t) BY <1>3 DEF ScheduleOf
  <2> DEFINE m == NumberOfTokens(w, s)
             r == GetReleasedTokens(w, s, time)
             p == [w EXCEPT !.balance = @ - amount, !.received[b] = @ + amount,
                            !.unassignedTokens = @ + m - r]
  <2>2. m \in Int /\ r \in Int
    <3>1. s \in Schedule /\ s.templateName \in DOMAIN w.templates /\ r \in Int
      BY <1>3, <1>5
    <3> HIDE DEF s
    <3>2. QED BY <1>1, <3>1, TermsAreNumbers
  <2>3. w.unassignedTokens + m - r = x3
    <3> HIDE DEF m, r
    <3>1. w.unassignedTokens + m - r = w.unassignedTokens + (m - r) BY <1>4, <2>2
    <3>2. QED BY <3>1 DEF m, r
  <2>4. v = DeleteTemplateToUsers(DeleteUserToTemplates(p, b, t), b, t)
    BY <2>1 DEF RevokeSchedule
  <2> HIDE DEF m, r, amount
  <2>5. p = paid BY <2>3
  <2>6. QED BY <2>4, <2>5
<1> HIDE DEF amount, left, unclaimed, s
<1>8. x1 \in Int /\ x2 \in [Beneficiary -> Int] /\ x3 \in Int BY <1>4, <1>6
<1>9. x2[b] = w.received[b] + amount /\ \A x \in Beneficiary \ {b} : x2[x] = w.received[x]
  BY <1>4
<1> HIDE DEF x1, x2, x3
<1>10. paid \in Wallet BY ONLY <1>1, <1>8 DEF Wallet
<1>11. /\ paid.balance = x1 /\ paid.received = x2 /\ paid.unassignedTokens = x3
       /\ paid.reclaimed = w.reclaimed
       /\ paid.templates = w.templates /\ paid.templateNames = w.templateNames
       /\ paid.beneficiaries = w.beneficiaries /\ paid.schedules = w.schedules
       /\ paid.userToTemplates = w.userToTemplates
       /\ paid.userToTemplateIndex = w.userToTemplateIndex
       /\ paid.templateToUsers = w.templateToUsers
       /\ paid.templateToUserIndex = w.templateToUserIndex
  BY ONLY <1>1 DEF Wallet
<1> HIDE DEF paid
<1>12. ArraysKept(paid) BY <1>1, <1>11 DEF ArraysKept
<1>13. /\ u \in Wallet /\ ArraysBut(u, b, {t})
       /\ k \in 0 .. n - 1
       /\ u.schedules = [w.schedules EXCEPT ![b] = S]
       /\ ~IsIn(t, u.userToTemplates[b])
       /\ u.balance = x1 /\ u.reclaimed = w.reclaimed
       /\ u.unassignedTokens = x3 /\ u.received = x2
       /\ u.templates = w.templates /\ u.templateNames = w.templateNames
  <2>1. IsIn(t, paid.userToTemplates[b]) BY <1>3, <1>11
  <2>2. LET q == DeleteUserToTemplates(paid, b, t)
            j == paid.userToTemplateIndex[b][t]
        IN  /\ q \in Wallet /\ ArraysBut(q, b, {t})
            /\ j \in 0 .. Len(paid.schedules[b]) - 1
            /\ q.schedules = [paid.schedules EXCEPT ![b] = Without(paid.schedules[b], j)]
            /\ ~IsIn(t, q.userToTemplates[b])
            /\ q.balance = paid.balance /\ q.reclaimed = paid.reclaimed
            /\ q.unassignedTokens = paid.unassignedTokens /\ q.received = paid.received
            /\ q.templates = paid.templates /\ q.templateNames = paid.templateNames
    BY <1>10, <1>12, <2>1, DeleteScheduleKeeps
  <2>3. QED BY <1>11, <2>2
<1> HIDE DEF u
<1>14. v \in Wallet /\ SameButUsers(v, u) /\ ArraysKept(v)
  <2>1. LET q == DeleteTemplateToUsers(u, b, t) IN
        /\ q \in Wallet /\ SameButUsers(q, u) /\ ArraysBut(q, b, {t} \ {t})
    BY <1>13, DeleteUserKeeps
  <2>2. {t} \ {t} = {} OBVIOUS
  <2>3. QED BY <1>7, <2>1, <2>2, ArraysButNone
<1>15. /\ v.schedules = [w.schedules EXCEPT ![b] = S]
       /\ v.balance = x1 /\ v.reclaimed = w.reclaimed
       /\ v.unassignedTokens = x3 /\ v.received = x2
       /\ v.templates = w.templates /\ v.templateNames = w.templateNames
  BY <1>13, <1>14 DEF SameButUsers
<1>16. TemplatesKept(v) BY <1>1, <1>15 DEF TemplatesKept
<1>17. /\ v.schedules[b] = S
       /\ \A x \in Beneficiary \ {b} : v.schedules[x] = w.schedules[x]
  BY <1>4, <1>15
<1>18. /\ DOMAIN S = 1 .. n - 1
       /\ \A i \in 1 .. n - 1 : S[i] = IF i = k + 1 THEN scheds[n] ELSE scheds[i]
  <2>1. S \in Seq(Schedule) /\ Len(S) = n - 1
        /\ \A i \in 1 .. n - 1 : S[i] = IF i = k + 1 THEN scheds[n] ELSE scheds[i]
    <3>1. scheds \in Seq(Schedule) /\ k \in 0 .. Len(scheds) - 1 BY <1>4, <1>13
    <3> HIDE DEF scheds, k
    <3>2. QED BY ONLY <3>1, WithoutIs
  <2> HIDE DEF S
  <2>2. DOMAIN S = 1 .. n - 1 BY <2>1
  <2>3. QED BY <2>1, <2>2
<1> HIDE DEF S, scheds, n, k
<1> DEFINE j == k + 1
<1>19. j \in 1 .. n BY <1>3
<1>20. /\ s = scheds[j] /\ amount = GetAvailableTokens(w, scheds[j], time)
       /\ unclaimed = NumberOfTokens(w, scheds[j]) - scheds[j].claimedTokens
  BY DEF s, amount, unclaimed
<1>21. \A y : /\ GetAvailableTokens(v, y, time) = GetAvailableTokens(w, y, time)
              /\ NumberOfTokens(v, y) = NumberOfTokens(w, y)
  BY <1>15, SameTemplates, SameAmount
<1>22. \A i \in 1 .. n - 1 : S[i] = IF i = j THEN scheds[n] ELSE scheds[i]
  BY <1>18
<1> HIDE DEF j
<1>23. AvailableOf(v, b, time) = AvailableOf(w, b, time) - amount
  <2> DEFINE f == [i \in 1 .. n |-> GetAvailableTokens(w, scheds[i], time)]
             g == [i \in 1 .. n - 1 |-> GetAvailableTokens(v, S[i], time)]
  <2>1. /\ AvailableOf(w, b, time) = SumFunction(f)
        /\ AvailableOf(v, b, time) = SumFunction(g)
    BY <1>4, <1>17, <1>18 DEF AvailableOf, scheds
  <2>2. /\ DOMAIN f = 1 .. n /\ DOMAIN g = 1 .. n - 1
        /\ \A i \in 1 .. n : f[i] \in Int
        /\ f[j] = amount
    BY <1>5, <1>19, <1>20
  <2>3. \A i \in 1 .. n - 1 : g[i] = IF i = j THEN f[n] ELSE f[i]
    <3>1. \A i \in 1 .. n - 1 : i \in 1 .. n /\ n \in 1 .. n BY <1>4
    <3>2. QED BY <1>21, <1>22, <3>1
  <2> HIDE DEF f, g
  <2>4. SumFunction(g) = SumFunction(f) - f[j]
    <3>1. n \in Nat BY <1>4
    <3>2. QED BY ONLY <1>19, <2>2, <2>3, <3>1, ListSumWithout
  <2>5. QED BY <2>1, <2>2, <2>4
<1>24. UnclaimedOf(v, b) = UnclaimedOf(w, b) - unclaimed
  <2> DEFINE f == [i \in 1 .. n |-> NumberOfTokens(w, scheds[i]) - scheds[i].claimedTokens]
             g == [i \in 1 .. n - 1 |-> NumberOfTokens(v, S[i]) - S[i].claimedTokens]
  <2>1. /\ UnclaimedOf(w, b) = SumFunction(f)
        /\ UnclaimedOf(v, b) = SumFunction(g)
    BY <1>4, <1>17, <1>18 DEF UnclaimedOf, scheds
  <2>2. /\ DOMAIN f = 1 .. n /\ DOMAIN g = 1 .. n - 1
        /\ \A i \in 1 .. n : f[i] \in Int
        /\ f[j] = unclaimed
    BY <1>5, <1>19, <1>20
  <2>3. \A i \in 1 .. n - 1 : g[i] = IF i = j THEN f[n] ELSE f[i]
    <3>1. \A i \in 1 .. n - 1 : i \in 1 .. n /\ n \in 1 .. n BY <1>4
    <3>2. QED BY <1>21, <1>22, <3>1
  <2> HIDE DEF f, g
  <2>4. SumFunction(g) = SumFunction(f) - f[j]
    <3>1. n \in Nat BY <1>4
    <3>2. QED BY ONLY <1>19, <2>2, <2>3, <3>1, ListSumWithout
  <2>5. QED BY <2>1, <2>2, <2>4
<1>25. HasGot(w, b, time) <= HasGot(v, b, time)
  <2> DEFINE a == AvailableOf(w, b, time)
             r == w.received[b]
  <2>1. /\ HasGot(w, b, time) = r + a
        /\ HasGot(v, b, time) = (r + amount) + (a - amount)
    BY <1>9, <1>15, <1>23 DEF HasGot
  <2>2. r \in Int /\ a \in Int BY <1>4, <1>5
  <2> HIDE DEF a, r
  <2>3. QED BY <1>6, <2>1, <2>2
<1> DEFINE d == 0 - unclaimed
<1>26. /\ d \in Int /\ UnclaimedOf(v, b) = UnclaimedOf(w, b) + d
       /\ (v.balance + v.reclaimed) - v.unassignedTokens
            = ((w.balance + w.reclaimed) - w.unassignedTokens) + d
  <2> DEFINE c == UnclaimedOf(w, b)
  <2>1. c \in Int BY <1>5
  <2> HIDE DEF c
  <2>2. c - unclaimed = c + d BY <1>6, <2>1
  <2>3. /\ v.balance = w.balance - amount /\ v.reclaimed = w.reclaimed
        /\ v.unassignedTokens = w.unassignedTokens + left
    BY <1>15 DEF x1, x3
  <2>4. (v.balance + v.reclaimed) - v.unassignedTokens
          = ((w.balance + w.reclaimed) - w.unassignedTokens) + d
    BY <1>4, <1>6, <2>3
  <2>5. QED BY <1>6, <1>24, <2>2, <2>4 DEF c
<1>27. \A x \in Beneficiary \ {b} :
         /\ v.schedules[x] = w.schedules[x] /\ v.received[x] = w.received[x]
         /\ \A i \in DOMAIN w.schedules[x] :
              SameTerms(v, w, w.schedules[x][i].templateName)
  BY <1>9, <1>15, <1>17, SameTemplates
<1> HIDE DEF d
<1>28. QED BY <1>14, <1>16, <1>25, <1>26, <1>27, KeepsAfter

\* The user taken off the lists of all his templates, one after the other.
LEMMA DeleteUsersKeeps ==
  ASSUME NEW w, w \in Wallet, NEW b \in Beneficiary, NEW n \in Nat,
         NEW names, names \in [1 .. n -> TemplateName],
         \A i, j \in 1 .. n : names[i] = names[j] => i = j,
         ArraysBut(w, b, {names[i] : i \in 1 .. n}),
         \A t : ~IsIn(t, w.userToTemplates[b])
  PROVE  LET left[k \in 0 .. n] ==
               IF k = 0 THEN w ELSE DeleteTemplateToUsers(left[k - 1], b, names[k])
             v == left[n]
         IN  v \in Wallet /\ SameButUsers(v, w) /\ ArraysKept(v)
<1> DEFINE Is(f) == f = [k \in 0 .. n |->
                       IF k = 0 THEN w ELSE DeleteTemplateToUsers(f[k - 1], b, names[k])]
           left == CHOOSE f : Is(f)
           Rest(k) == {names[i] : i \in k + 1 .. n}
           Fine(u, k) == u \in Wallet /\ SameButUsers(u, w) /\ ArraysBut(u, b, Rest(k))
           turn == [k \in 1 .. n |-> [u \in Wallet |->
                      IF Fine(u, k - 1) THEN DeleteTemplateToUsers(u, b, names[k]) ELSE u]]
           Good == {p \in (0 .. n) \X Wallet : Fine(p[2], p[1])}
<1>1. ASSUME NEW k \in 1 .. n, NEW u, Fine(u, k - 1)
      PROVE  Fine(DeleteTemplateToUsers(u, b, names[k]), k)
  <2> DEFINE t == names[k]
             q == DeleteTemplateToUsers(u, b, t)
  <2>1. t \in TemplateName OBVIOUS
  <2>2. k - 1 + 1 = k /\ k \in k .. n OBVIOUS
  <2>3. t \in Rest(k - 1) BY <2>2
  <2>4. Rest(k - 1) \ {t} = Rest(k)
    <3>1. \A i \in 1 .. n : i \in k - 1 + 1 .. n <=> i = k \/ i \in k + 1 .. n
      OBVIOUS
    <3>2. k - 1 + 1 .. n \subseteq 1 .. n /\ k + 1 .. n \subseteq 1 .. n /\ k \notin k + 1 .. n
      OBVIOUS
    <3>3. \A i \in k + 1 .. n : names[i] # t BY <3>2
    <3>4. QED BY <3>1, <3>2, <3>3
  <2>5. ~IsIn(t, u.userToTemplates[b]) BY <1>1 DEF SameButUsers
  <2> HIDE DEF t, q, Rest
  <2>6. q \in Wallet /\ SameButUsers(q, u) /\ ArraysBut(q, b, Rest(k - 1) \ {t})
    BY <1>1, <2>1, <2>3, <2>5, DeleteUserKeeps DEF q
  <2>7. SameButUsers(q, w) BY <1>1, <2>6 DEF SameButUsers
  <2>8. QED BY <2>4, <2>6, <2>7 DEF q, t
<1>2. Fine(w, 0)
  <2>1. 0 + 1 .. n = 1 .. n OBVIOUS
  <2>2. SameButUsers(w, w) BY DEF SameButUsers
  <2>3. QED BY <2>1, <2>2
<1> HIDE DEF Rest
<1>3. turn \in [1 .. n -> [Wallet -> Wallet]] BY <1>1
<1> HIDE DEF Fine
<1>4. PICK f : IsLoop(f, n, Wallet, w, turn)
  <2> HIDE DEF turn, Is
  <2>1. QED BY <1>3, LoopExists
<1>5. /\ f \in [0 .. n -> Wallet] /\ f[0] = w
      /\ \A k \in 1 .. n : f[k] = turn[k][f[k - 1]]
  BY <1>4 DEF IsLoop
<1>6. ASSUME NEW k \in 1 .. n, Fine(f[k - 1], k - 1)
      PROVE  /\ f[k] = DeleteTemplateToUsers(f[k - 1], b, names[k])
             /\ Fine(f[k], k)
  <2>1. f[k - 1] \in Wallet BY <1>6 DEF Fine
  <2>2. f[k] = DeleteTemplateToUsers(f[k - 1], b, names[k])
    BY <1>5, <1>6, <2>1
  <2>3. QED BY <1>1, <1>6, <2>2
<1>7. \A k \in 0 .. n : Fine(f[k], k)
  <2> DEFINE h == [k \in 0 .. n |-> <<k, f[k]>>]
  <2>1. \A k \in 0 .. n : h[k] \in Good <=> Fine(f[k], k) BY <1>5
  <2>2. \A k \in 1 .. n : k \in 0 .. n /\ k - 1 \in 0 .. n OBVIOUS
  <2>3. 0 \in 0 .. n OBVIOUS
  <2>4. h[0] \in Good BY <1>2, <1>5, <2>1, <2>3
  <2>5. \A k \in 1 .. n : h[k - 1] \in Good => h[k] \in Good
    BY <1>6, <2>1, <2>2
  <2> HIDE DEF h, Good
  <2>6. \A k \in 0 .. n : h[k] \in Good BY <2>4, <2>5, LoopKeeps
  <2>7. QED BY <2>1, <2>6
<1>8. Is(f)
  <2>1. ASSUME NEW k \in 0 .. n
        PROVE  f[k] = IF k = 0 THEN w ELSE DeleteTemplateToUsers(f[k - 1], b, names[k])
    <3>1. k # 0 => k \in 1 .. n /\ k - 1 \in 0 .. n OBVIOUS
    <3>2. QED BY <1>5, <1>6, <1>7, <3>1
  <2>2. f = [k \in 0 .. n |-> f[k]] BY <1>5
  <2>3. QED BY <2>1, <2>2
<1>9. Is(left) BY <1>8
<1> HIDE DEF left
<1>10. /\ left[0] = w
       /\ \A k \in 1 .. n : left[k] = DeleteTemplateToUsers(left[k - 1], b, names[k])
  <2>1. 0 \in 0 .. n OBVIOUS
  <2>2. \A k \in 1 .. n : k \in 0 .. n /\ k # 0 OBVIOUS
  <2>3. left[0] = w BY <1>9, <2>1
  <2>4. ASSUME NEW k \in 1 .. n
        PROVE  left[k] = DeleteTemplateToUsers(left[k - 1], b, names[k])
    BY <1>9, <2>2
  <2>5. QED BY <2>3, <2>4
<1>11. \A k \in 0 .. n : Fine(left[k], k)
  <2> DEFINE h == [k \in 0 .. n |-> <<k, left[k]>>]
  <2>1. \A k \in 0 .. n : h[k] \in Good <=> Fine(left[k], k) BY DEF Fine
  <2>2. \A k \in 1 .. n : k \in 0 .. n /\ k - 1 \in 0 .. n OBVIOUS
  <2>3. 0 \in 0 .. n OBVIOUS
  <2>4. h[0] \in Good BY <1>2, <1>10, <2>1, <2>3
  <2>5. \A k \in 1 .. n : h[k - 1] \in Good => h[k] \in Good
    BY <1>1, <1>10, <2>1, <2>2
  <2> HIDE DEF h, Good
  <2>6. \A k \in 0 .. n : h[k] \in Good BY <2>4, <2>5, LoopKeeps
  <2>7. QED BY <2>1, <2>6
<1>12. Fine(left[n], n) BY <1>11
<1>13. Rest(n) = {}
  <2>1. n + 1 .. n = {} OBVIOUS
  <2>2. QED BY <2>1 DEF Rest
<1>14. left[n] \in Wallet /\ SameButUsers(left[n], w) /\ ArraysKept(left[n])
  BY <1>12, <1>13, ArraysButNone DEF Fine
<1>15. QED BY <1>14 DEF left

\* Dropping schedules of which nothing is available.
LEMMA DropKeeps ==
  ASSUME NEW w, WInv(w), NEW b \in Beneficiary, NEW time \in Int,
         AvailableOf(w, b, time) = 0
  PROVE  KeepsPromises(DropSchedules(w, b), w, time)
<1> DEFINE scheds == w.schedules[b]
           list == w.userToTemplates[b]
           names == [i \in DOMAIN scheds |-> scheds[i].templateName]
           n == Len(names)
           unclaimed == UnclaimedOf(w, b)
           x1 == w.unassignedTokens + unclaimed
           x2 == [w.schedules EXCEPT ![b] = << >>]
           x3 == [w.userToTemplates EXCEPT ![b] = << >>]
           J == [t \in TemplateName |->
                   IF t \in ToSet(names) THEN 0 ELSE w.userToTemplateIndex[b][t]]
           x4 == [w.userToTemplateIndex EXCEPT ![b] = J]
           u == [w EXCEPT !.unassignedTokens = x1, !.schedules = x2,
                          !.userToTemplates = x3, !.userToTemplateIndex = x4]
           v == DropSchedules(w, b)
<1>1. w \in Wallet /\ TemplatesKept(w) /\ ArraysKept(w) BY DEF WInv
<1>2. v = LET left[k \in 0 .. n] ==
                IF k = 0 THEN u ELSE DeleteTemplateToUsers(left[k - 1], b, names[k])
          IN  left[n]
  <2> DEFINE e == [w EXCEPT
                    !.unassignedTokens = @ + unclaimed,
                    !.schedules[b] = << >>,
                    !.userToTemplates[b] = << >>,
                    !.userToTemplateIndex[b] =
                      [t \in TemplateName |-> IF t \in ToSet(names) THEN 0 ELSE @[t]]]
  <2>1. v = LET left[k \in 0 .. n] ==
                  IF k = 0 THEN e ELSE DeleteTemplateToUsers(left[k - 1], b, names[k])
            IN  left[n]
    BY DEF DropSchedules
  <2> HIDE DEF names, unclaimed
  <2>2. e = u OBVIOUS
  <2> HIDE DEF e, u, v, n
  <2>3. QED BY <2>1, <2>2
<1>3. /\ w.schedules \in [Beneficiary -> Seq(Schedule)]
      /\ w.userToTemplates \in [Beneficiary -> Seq(TemplateName)]
      /\ w.userToTemplateIndex \in [Beneficiary -> [TemplateName -> Nat]]
      /\ w.balance \in Int /\ w.unassignedTokens \in Int /\ w.reclaimed \in Int
      /\ w.received[b] \in Int
      /\ scheds \in Seq(Schedule) /\ list \in Seq(TemplateName)
  BY <1>1 DEF Wallet
<1>4. unclaimed \in Int BY <1>1, AmountsAreNumbers
<1>5. /\ n \in Nat /\ names \in [1 .. n -> TemplateName] /\ Len(list) = n
      /\ \A i \in 1 .. n : names[i] = list[i]
  <2>1. DOMAIN scheds = 1 .. Len(scheds) /\ Len(scheds) \in Nat BY <1>3
  <2>2. \A i \in DOMAIN scheds : scheds[i].templateName \in TemplateName
    BY <1>1, ScheduledIsTemplate
  <2>3. names \in [1 .. Len(scheds) -> TemplateName] BY <2>1, <2>2
  <2>4. names \in Seq(TemplateName) /\ n = Len(scheds)
    <3> HIDE DEF names, scheds
    <3>1. names \in Seq(TemplateName) /\ Len(names) = Len(scheds) BY <2>1, <2>3
    <3>2. QED BY <3>1
  <2>5. Len(list) = Len(scheds) /\ \A i \in 1 .. Len(scheds) : scheds[i].templateName = list[i]
    BY <1>1 DEF ArraysKept
  <2>6. QED BY <2>1, <2>3, <2>4, <2>5
<1>6. \A i, j \in 1 .. n : names[i] = names[j] => i = j
  <2>1. Indexed(list, w.userToTemplateIndex[b]) BY <1>1 DEF ArraysKept
  <2>2. \A i \in 1 .. n : w.userToTemplateIndex[b][names[i]] = i - 1
    BY <1>5, <2>1 DEF Indexed
  <2> HIDE DEF names, n
  <2>3. ASSUME NEW i \in 1 .. n, NEW j \in 1 .. n, names[i] = names[j] PROVE i = j
    <3>1. i - 1 = j - 1 BY <2>2, <2>3
    <3>2. QED BY <3>1
  <2>4. QED BY <2>3
<1> HIDE DEF names
<1>7. J \in [TemplateName -> Nat]
  <2>1. w.userToTemplateIndex[b] \in [TemplateName -> Nat] BY <1>3
  <2>2. QED BY <2>1
<1> HIDE DEF J, unclaimed
<1>8. /\ x1 \in Int
      /\ x2 \in [Beneficiary -> Seq(Schedule)] /\ x2[b] = << >>
      /\ x3 \in [Beneficiary -> Seq(TemplateName)] /\ x3[b] = << >>
      /\ x4 \in [Beneficiary -> [TemplateName -> Nat]]
      /\ \A x \in Beneficiary \ {b} : /\ x2[x] = w.schedules[x]
                                      /\ x3[x] = w.userToTemplates[x]
                                      /\ x4[x] = w.userToTemplateIndex[x]
  <2>1. x1 \in Int BY <1>3, <1>4
  <2>2. << >> \in Seq(Schedule) /\ << >> \in Seq(TemplateName) OBVIOUS
  <2>3. QED BY <1>3, <1>7, <2>1, <2>2
<1> HIDE DEF x1, x2, x3, x4
<1>9. u \in Wallet BY ONLY <1>1, <1>8 DEF Wallet
<1>10. /\ u.unassignedTokens = x1 /\ u.schedules = x2
       /\ u.userToTemplates = x3 /\ u.userToTemplateIndex = x4
       /\ u.balance = w.balance /\ u.reclaimed = w.reclaimed
       /\ u.received = w.received
       /\ u.templates = w.templates /\ u.templateNames = w.templateNames
       /\ u.beneficiaries = w.beneficiaries
       /\ u.templateToUsers = w.templateToUsers
       /\ u.templateToUserIndex = w.templateToUserIndex
  BY ONLY <1>1 DEF Wallet
<1> HIDE DEF u
<1>11. \A t : ~IsIn(t, << >>) BY DEF IsIn
<1>12. \A t : ~IsIn(t, u.userToTemplates[b]) BY <1>8, <1>10, <1>11
<1> DEFINE all == {names[i] : i \in 1 .. n}
<1>13. ArraysBut(u, b, all)
  <2>1. ASSUME NEW x \in Beneficiary
        PROVE  /\ Len(u.userToTemplates[x]) = Len(u.schedules[x])
               /\ \A i \in 1 .. Len(u.schedules[x]) :
                    u.schedules[x][i].templateName = u.userToTemplates[x][i]
               /\ Indexed(u.userToTemplates[x], u.userToTemplateIndex[x])
               /\ \A y : IsIn(y, u.userToTemplates[x]) =>
                    IsIn(x, u.beneficiaries) /\ y \in DOMAIN u.templates
    <3>1. CASE x = b
      <4>1. u.userToTemplates[x] = << >> /\ u.schedules[x] = << >>
        BY <1>8, <1>10, <3>1
      <4>2. Indexed(<< >>, u.userToTemplateIndex[x]) BY DEF Indexed
      <4>3. QED BY <1>11, <4>1, <4>2
    <3>2. CASE x # b
      <4>1. /\ Len(w.userToTemplates[x]) = Len(w.schedules[x])
            /\ \A i \in 1 .. Len(w.schedules[x]) :
                 w.schedules[x][i].templateName = w.userToTemplates[x][i]
            /\ Indexed(w.userToTemplates[x], w.userToTemplateIndex[x])
            /\ \A y : IsIn(y, w.userToTemplates[x]) =>
                 IsIn(x, w.beneficiaries) /\ y \in DOMAIN w.templates
        BY <1>1 DEF ArraysKept
      <4>2. /\ u.schedules[x] = w.schedules[x]
            /\ u.userToTemplates[x] = w.userToTemplates[x]
            /\ u.userToTemplateIndex[x] = w.userToTemplateIndex[x]
            /\ u.beneficiaries = w.beneficiaries /\ u.templates = w.templates
        BY <1>8, <1>10, <3>2
      <4>3. QED BY <4>1, <4>2
    <3>3. QED BY <3>1, <3>2
  <2>2. ASSUME NEW y \in TemplateName
        PROVE  /\ Indexed(u.templateToUsers[y], u.templateToUserIndex[y])
               /\ \A x \in Beneficiary :
                    IsIn(x, u.templateToUsers[y])
                      <=> IsIn(y, u.userToTemplates[x]) \/ (x = b /\ y \in all)
    <3>1. /\ Indexed(w.templateToUsers[y], w.templateToUserIndex[y])
          /\ \A x \in Beneficiary :
               IsIn(x, w.templateToUsers[y]) <=> IsIn(y, w.userToTemplates[x])
      BY <1>1 DEF ArraysKept
    <3>2. IsIn(y, list) <=> y \in all BY <1>5 DEF IsIn
    <3> HIDE DEF all
    <3>3. ASSUME NEW x \in Beneficiary
          PROVE  IsIn(y, w.userToTemplates[x])
                   <=> IsIn(y, u.userToTemplates[x]) \/ (x = b /\ y \in all)
      <4>1. CASE x = b BY <1>12, <3>2, <4>1
      <4>2. CASE x # b BY <1>8, <1>10, <4>2
      <4>3. QED BY <4>1, <4>2
    <3>4. QED BY <1>10, <3>1, <3>3
  <2> HIDE DEF all
  <2>3. QED BY <2>1, <2>2 DEF ArraysBut
<1> HIDE DEF v, n
<1>14. v \in Wallet /\ SameButUsers(v, u) /\ ArraysKept(v)
  BY <1>2, <1>5, <1>6, <1>9, <1>12, <1>13, DeleteUsersKeeps
<1>15. /\ v.unassignedTokens = x1 /\ v.schedules = x2
       /\ v.balance = w.balance /\ v.reclaimed = w.reclaimed
       /\ v.received = w.received
       /\ v.templates = w.templates /\ v.templateNames = w.templateNames
  BY <1>10, <1>14 DEF SameButUsers
<1>16. TemplatesKept(v) BY <1>1, <1>15 DEF TemplatesKept
<1>17. AvailableOf(v, b, time) = 0 /\ UnclaimedOf(v, b) = 0
  <2>1. v.schedules[b] = << >> BY <1>8, <1>15
  <2> DEFINE f == [i \in DOMAIN v.schedules[b] |->
                     GetAvailableTokens(v, v.schedules[b][i], time)]
             g == [i \in DOMAIN v.schedules[b] |->
                     NumberOfTokens(v, v.schedules[b][i]) - v.schedules[b][i].claimedTokens]
  <2>2. DOMAIN v.schedules[b] = {} BY <2>1
  <2>3. DOMAIN f = {} /\ DOMAIN g = {} BY <2>2
  <2>4. AvailableOf(v, b, time) = SumFunction(f) /\ UnclaimedOf(v, b) = SumFunction(g)
    BY DEF AvailableOf, UnclaimedOf
  <2> HIDE DEF f, g
  <2>5. SumFunction(f) = SumFunctionOnSet(f, {}) /\ SumFunction(g) = SumFunctionOnSet(g, {})
    BY <2>3 DEF SumFunction
  <2>6. QED BY <2>4, <2>5, SumEmpty
<1>18. HasGot(w, b, time) <= HasGot(v, b, time)
  BY <1>3, <1>15, <1>17 DEF HasGot
<1> DEFINE d == 0 - unclaimed
<1>19. /\ d \in Int /\ UnclaimedOf(v, b) = UnclaimedOf(w, b) + d
       /\ (v.balance + v.reclaimed) - v.unassignedTokens
            = ((w.balance + w.reclaimed) - w.unassignedTokens) + d
  <2>1. UnclaimedOf(w, b) = unclaimed BY DEF unclaimed
  <2>2. v.unassignedTokens = w.unassignedTokens + unclaimed BY <1>15 DEF x1
  <2>3. QED BY <1>3, <1>4, <1>15, <1>17, <2>1, <2>2
<1>20. \A x \in Beneficiary \ {b} :
         /\ v.schedules[x] = w.schedules[x] /\ v.received[x] = w.received[x]
         /\ \A i \in DOMAIN w.schedules[x] :
              SameTerms(v, w, w.schedules[x][i].templateName)
  BY <1>8, <1>15, SameTemplates
<1> HIDE DEF d
<1>21. KeepsPromises(v, w, time)
  BY <1>14, <1>16, <1>18, <1>19, <1>20, KeepsAfter
<1>22. QED BY <1>21 DEF v

LEMMA RevokeAllKeeps ==
  ASSUME NEW w, WInv(w), NEW b \in Beneficiary, NEW time \in Int,
         NEW v \in RevokeAllSchedules(w, b, time)
  PROVE  KeepsPromises(v, w, time)
<1>1. PICK u \in SendTokens(w, b, time) : v = DropSchedules(u, b)
  BY DEF RevokeAllSchedules
<1>2. KeepsPromises(u, w, time) /\ AvailableOf(u, b, time) = 0
  BY SendTokensKeeps
<1>3. WInv(u) BY <1>2 DEF KeepsPromises
<1>4. KeepsPromises(v, u, time) BY <1>1, <1>2, <1>3, DropKeeps
<1>5. QED BY <1>2, <1>4, KeepsOfKept

-----------------------------------------------------------------------------
(* Every sequence of calls.                                                *)

\* The inductive invariant.
VInv == WInv(wallet) /\ now \in Int

LEMMA NewWalletIsGood == WInv(NewWallet)
<1> DEFINE w == NewWallet
<1>1. << >> \in UNION {[names -> Template] : names \in SUBSET TemplateName}
  <2>1. << >> \in [{} -> Template]
    <3>1. << >> \in Seq(Template) /\ Len(<< >>) = 0 OBVIOUS
    <3>2. << >> \in [1 .. 0 -> Template] BY <3>1
    <3>3. 1 .. 0 = {} OBVIOUS
    <3>4. QED BY <3>2, <3>3
  <2>2. QED BY <2>1
<1>2. << >> \in Seq(TemplateName) /\ << >> \in Seq(Beneficiary) /\ << >> \in Seq(Schedule)
  OBVIOUS
<1>3. /\ w.balance = 0 /\ w.reclaimed = 0 /\ w.unassignedTokens = 0
      /\ w.received = [b \in Beneficiary |-> 0]
      /\ w.templates = << >> /\ w.templateNames = << >> /\ w.beneficiaries = << >>
      /\ w.schedules = [b \in Beneficiary |-> << >>]
      /\ w.userToTemplates = [b \in Beneficiary |-> << >>]
      /\ w.userToTemplateIndex = [b \in Beneficiary |-> [t \in TemplateName |-> 0]]
      /\ w.templateToUsers = [t \in TemplateName |-> << >>]
      /\ w.templateToUserIndex = [t \in TemplateName |-> [b \in Beneficiary |-> 0]]
  BY DEF NewWallet
<1>4. w \in Wallet
  <2> DEFINE n == << >>
             x1 == [b \in Beneficiary |-> 0]
             x2 == [b \in Beneficiary |-> n]
             x3 == [b \in Beneficiary |-> [t \in TemplateName |-> 0]]
             x4 == [t \in TemplateName |-> n]
             x5 == [t \in TemplateName |-> [b \in Beneficiary |-> 0]]
             z == 0
             p == FALSE
  <2>1. /\ x1 \in [Beneficiary -> Int]
        /\ x2 \in [Beneficiary -> Seq(Schedule)]
        /\ x2 \in [Beneficiary -> Seq(TemplateName)]
        /\ x3 \in [Beneficiary -> [TemplateName -> Nat]]
        /\ x4 \in [TemplateName -> Seq(Beneficiary)]
        /\ x5 \in [TemplateName -> [Beneficiary -> Nat]]
        /\ z \in Int /\ p \in BOOLEAN
    BY <1>2
  <2>2. w = [paused |-> p, balance |-> z, received |-> x1, reclaimed |-> z,
             unassignedTokens |-> z, templates |-> n, templateNames |-> n,
             beneficiaries |-> n, schedules |-> x2, userToTemplates |-> x2,
             userToTemplateIndex |-> x3, templateToUsers |-> x4,
             templateToUserIndex |-> x5]
    BY DEF NewWallet
  <2> HIDE DEF x1, x2, x3, x4, x5, n, z, p, w
  <2>3. QED BY <1>1, <1>2, <2>1, <2>2 DEF Wallet, n
<1> HIDE DEF w
<1>5. DOMAIN << >> = {} /\ Len(<< >>) = 0 /\ 1 .. 0 = {} OBVIOUS
<1>6. TemplatesKept(w)
  <2>1. IsFiniteSet({}) /\ Cardinality({}) = 0 BY FS_EmptySet
  <2>2. \A x : ~IsIn(x, << >>) BY <1>5 DEF IsIn
  <2>3. \A f : Indexed(<< >>, f) BY <1>5 DEF Indexed
  <2>4. w.templates = << >> /\ w.templateNames = << >> BY <1>3
  <2>5. QED BY <1>5, <2>1, <2>2, <2>3, <2>4 DEF TemplatesKept
<1>7. ArraysKept(w) BY <1>3, <1>5 DEF ArraysKept, Indexed, IsIn
<1>8. Backed(w)
  <2> DEFINE f == [b \in Beneficiary |-> UnclaimedOf(w, b)]
  <2>1. ASSUME NEW b \in Beneficiary PROVE f[b] = 0
    <3> DEFINE g == [i \in DOMAIN w.schedules[b] |->
                       NumberOfTokens(w, w.schedules[b][i]) - w.schedules[b][i].claimedTokens]
    <3>1. DOMAIN g = {} BY <1>3, <1>5
    <3>2. f[b] = SumFunction(g) BY DEF UnclaimedOf
    <3> HIDE DEF g
    <3>3. SumFunction(g) = SumFunctionOnSet(g, {}) BY <3>1 DEF SumFunction
    <3>4. QED BY <3>2, <3>3, SumEmpty
  <2>2. DOMAIN f = Beneficiary OBVIOUS
  <2> DEFINE x == SumFunction(f)
  <2> HIDE DEF f
  <2>3. x = 0 BY <2>1, <2>2, BeneficiaryAssumption, SumZero DEF SumFunction
  <2> HIDE DEF x
  <2>4. w.balance + w.reclaimed = w.unassignedTokens + x BY <1>3, <2>3
  <2>5. QED BY <2>4 DEF Backed, x, f
<1>9. QED BY <1>4, <1>6, <1>7, <1>8 DEF WInv, w

LEMMA VInvAtFirst == Init => VInv
BY NewWalletIsGood DEF Init, VInv

\* What a call or a tick of the clock does.
LEMMA CallKeeps ==
  ASSUME VInv, Call
  PROVE  KeepsPromises(wallet', wallet, now)
<1>1. WInv(wallet) /\ now \in Int BY DEF VInv
<1>2. MaxTokens \in Nat /\ MaxTime \in Nat BY MaxAssumption, ParametersAssumption
<1>3. CASE OfIssuer
  <2>1. CASE wallet' \in ReclaimERC20(wallet) BY <1>1, <2>1, ReclaimKeeps
  <2>2. ASSUME NEW amount \in 1 .. MaxTokens, wallet' \in DepositTokens(wallet, amount)
        PROVE  KeepsPromises(wallet', wallet, now)
    <3>1. amount \in Int /\ wallet' \in Deposit(wallet, amount)
      BY <2>2 DEF DepositTokens
    <3>2. QED BY <1>1, <3>1, DepositKeeps
  <2>3. ASSUME NEW amount \in 1 .. MaxTokens, wallet' \in SendToTreasury(wallet, amount)
        PROVE  KeepsPromises(wallet', wallet, now)
    <3>1. amount \in Int OBVIOUS
    <3>2. QED BY <1>1, <2>3, <3>1, SendToTreasuryKeeps
  <2>4. QED BY <1>3, <2>1, <2>2, <2>3 DEF OfIssuer
<1>4. CASE Payment
  <2>1. ASSUME NEW b \in Beneficiary, wallet' \in SendTokens(wallet, b, now)
        PROVE  KeepsPromises(wallet', wallet, now)
    BY <1>1, <2>1, SendTokensKeeps
  <2>2. \A b : PullAvailableTokens(wallet, b, now) \subseteq SendTokens(wallet, b, now)
    BY DEF PullAvailableTokens
  <2>3. ASSUME NEW fromIndex \in 0 .. Len(wallet.beneficiaries) - 1,
               NEW toIndex \in 0 .. Len(wallet.beneficiaries) - 1,
               wallet' \in PushAvailableTokensMulti(wallet, fromIndex, toIndex, now)
        PROVE  KeepsPromises(wallet', wallet, now)
    <3>1. fromIndex \in Nat /\ toIndex \in Nat OBVIOUS
    <3>2. QED BY <1>1, <2>3, <3>1, PushKeeps
  <2>4. QED BY <1>4, <2>1, <2>2, <2>3 DEF Payment
<1>5. CASE OfTemplate
  <2>1. PICK t \in TemplateName :
          \/ wallet' \in RemoveTemplate(wallet, t)
          \/ \E p \in Parameters : wallet' \in AddTemplate(wallet, t, p)
    BY <1>5 DEF OfTemplate
  <2>2. QED BY <1>1, <2>1, RemoveTemplateKeeps, AddTemplateKeeps
<1>6. CASE OfSchedule
  <2>1. PICK b \in Beneficiary, t \in TemplateName :
          \/ wallet' \in RevokeSchedule(wallet, b, t, now)
          \/ wallet' \in RevokeAllSchedules(wallet, b, now)
          \/ \E startTime \in 0 .. MaxTime :
               \/ wallet' \in AddScheduleFromTemplate(wallet, b, t, startTime, now)
               \/ wallet' \in ModifySchedule(wallet, b, t, startTime, now)
               \/ \E p \in Parameters :
                    wallet' \in AddSchedule(wallet, b, t, p, startTime, now)
    BY <1>6 DEF OfSchedule
  <2>2. CASE wallet' \in RevokeSchedule(wallet, b, t, now)
    BY <1>1, <2>2, RevokeScheduleKeeps
  <2>3. CASE wallet' \in RevokeAllSchedules(wallet, b, now)
    BY <1>1, <2>3, RevokeAllKeeps
  <2>4. ASSUME NEW startTime \in 0 .. MaxTime,
               \/ wallet' \in AddScheduleFromTemplate(wallet, b, t, startTime, now)
               \/ wallet' \in ModifySchedule(wallet, b, t, startTime, now)
               \/ \E p \in Parameters :
                    wallet' \in AddSchedule(wallet, b, t, p, startTime, now)
        PROVE  KeepsPromises(wallet', wallet, now)
    <3>1. startTime \in Int OBVIOUS
    <3>2. CASE wallet' \in AddScheduleFromTemplate(wallet, b, t, startTime, now)
      BY <1>1, <3>1, <3>2, AddFromTemplateKeeps
    <3>3. CASE wallet' \in ModifySchedule(wallet, b, t, startTime, now)
      BY <1>1, <3>1, <3>3, ModifyScheduleKeeps
    <3>4. ASSUME NEW p \in Parameters,
                 wallet' \in AddSchedule(wallet, b, t, p, startTime, now)
          PROVE  KeepsPromises(wallet', wallet, now)
      BY <1>1, <3>1, <3>4, AddScheduleKeeps
    <3>5. QED BY <2>4, <3>2, <3>3, <3>4
  <2>5. QED BY <2>1, <2>2, <2>3, <2>4
<1>7. CASE SetPaused BY <1>1, <1>7, PauseKeeps DEF SetPaused
<1>8. QED BY <1>3, <1>4, <1>5, <1>6, <1>7 DEF Call

\* Time only makes more available.
LEMMA TickKeeps ==
  ASSUME NEW w, WInv(w), NEW b \in Beneficiary, NEW time \in Int
  PROVE  HasGot(w, b, time) <= HasGot(w, b, time + 1)
<1> DEFINE list == w.schedules[b]
           S == DOMAIN list
           later == time + 1
           f == [i \in S |-> GetAvailableTokens(w, list[i], time)]
           g == [i \in S |-> GetAvailableTokens(w, list[i], later)]
<1>1. w \in Wallet /\ TemplatesKept(w) /\ ArraysKept(w) BY DEF WInv
<1>2. later \in Int /\ time <= later OBVIOUS
<1> HIDE DEF later
<1>3. IsFiniteSet(S) /\ w.received[b] \in Int
      /\ AvailableOf(w, b, time) \in Int /\ AvailableOf(w, b, later) \in Int
  BY <1>1, <1>2, AmountsAreNumbers
<1>4. ASSUME NEW i \in S PROVE f[i] \in Int /\ g[i] \in Int /\ f[i] <= g[i]
  <2> DEFINE s == list[i]
  <2>1. s \in Schedule /\ s.templateName \in DOMAIN w.templates
    BY <1>1, <1>2, AmountsAreNumbers
  <2>2. /\ GetReleasedTokens(w, s, time) \in Nat
        /\ GetReleasedTokens(w, s, later) \in Nat
        /\ GetReleasedTokens(w, s, time) <= GetReleasedTokens(w, s, later)
    BY <1>1, <1>2, <2>1, ReleasedGrows
  <2>3. s.claimedTokens \in Int BY <2>1 DEF Schedule
  <2>4. /\ f[i] = GetReleasedTokens(w, s, time) - s.claimedTokens
        /\ g[i] = GetReleasedTokens(w, s, later) - s.claimedTokens
    BY DEF GetAvailableTokens
  <2> HIDE DEF s, f, g
  <2>5. QED BY <2>2, <2>3, <2>4
<1>5. AvailableOf(w, b, time) = SumFunction(f) /\ AvailableOf(w, b, later) = SumFunction(g)
  BY DEF AvailableOf
<1>6. DOMAIN f = S /\ DOMAIN g = S OBVIOUS
<1> HIDE DEF f, g, S
<1>7. SumFunctionOnSet(f, S) <= SumFunctionOnSet(g, S) BY <1>3, <1>4, SumAtMost
<1>8. AvailableOf(w, b, time) = SumFunctionOnSet(f, S) /\ AvailableOf(w, b, later) = SumFunctionOnSet(g, S)
  BY <1>5, <1>6 DEF SumFunction
<1>9. AvailableOf(w, b, time) <= AvailableOf(w, b, later) BY <1>7, <1>8
<1>10. HasGot(w, b, time) <= HasGot(w, b, later) BY <1>3, <1>9 DEF HasGot
<1>11. QED BY <1>10 DEF later

LEMMA VInvKept ==
  ASSUME VInv, [Next]_vars
  PROVE  /\ VInv'
         /\ \A b \in Beneficiary : HasGot(wallet, b, now) <= HasGot(wallet', b, now')
<1>1. WInv(wallet) /\ now \in Int BY DEF VInv
<1>2. CASE Call
  <2>1. KeepsPromises(wallet', wallet, now) /\ now' = now
    BY <1>2, CallKeeps DEF Call
  <2>2. QED BY <1>1, <2>1 DEF KeepsPromises, VInv
<1>3. CASE Tick
  <2>1. wallet' = wallet /\ now' = now + 1 BY <1>3 DEF Tick
  <2>2. now' \in Int BY <1>1, <2>1
  <2>3. \A b \in Beneficiary : HasGot(wallet, b, now) <= HasGot(wallet', b, now')
    BY <1>1, <2>1, TickKeeps
  <2>4. QED BY <1>1, <2>1, <2>2, <2>3 DEF VInv
<1>4. CASE UNCHANGED vars
  <2>1. wallet' = wallet /\ now' = now BY <1>4 DEF vars
  <2>2. KeepsPromises(wallet, wallet, now) BY <1>1, KeptByNothing
  <2>3. QED BY <1>1, <2>1, <2>2 DEF KeepsPromises, VInv
<1>5. QED BY <1>2, <1>3, <1>4 DEF Next

LEMMA VInvAlways == Spec => []VInv
<1>1. VInv /\ [Next]_vars => VInv' BY VInvKept
<1>2. QED BY VInvAtFirst, <1>1, PTL DEF Spec

\* What the wallet holds, with what the owner reclaimed, is what nobody was
\* promised and what beneficiaries have not claimed: in every state, whatever the
\* deposits, payments, revocations and withdrawals.
THEOREM WalletAlwaysBacked == Spec => []WalletIsBacked
<1>1. VInv => WalletIsBacked BY DEF VInv, WInv, Backed, WalletIsBacked
<1>2. QED BY VInvAlways, <1>1, PTL

\* The schedules of each user, the users of each template, the names of the
\* templates and the indexes of all of them agree, so that no removal takes out
\* the wrong entry.
THEOREM ArraysAlwaysAgree == Spec => []ArraysAgree
<1>1. ASSUME VInv PROVE ArraysAgree
  <2> DEFINE w == wallet
  <2>1. WInv(w) /\ w \in Wallet /\ TemplatesKept(w) /\ ArraysKept(w)
    BY <1>1 DEF VInv, WInv
  <2> HIDE DEF w
  <2>2. \A X : \A list \in Seq(X) : \A x : IsIn(x, list) => x \in ToSet(list)
    <3> SUFFICES ASSUME NEW X, NEW list \in Seq(X), NEW x, IsIn(x, list)
                 PROVE  x \in ToSet(list)
      OBVIOUS
    <3>1. PICK i \in 1 .. Len(list) : list[i] = x BY DEF IsIn
    <3>2. i \in DOMAIN list OBVIOUS
    <3>3. QED BY <3>1, <3>2 DEF ToSet
  <2>3. /\ w.beneficiaries \in Seq(Beneficiary)
        /\ w.templateNames \in Seq(TemplateName)
        /\ \A t \in TemplateName : w.templateToUsers[t] \in Seq(Beneficiary)
        /\ \A b \in Beneficiary : w.schedules[b] \in Seq(Schedule)
    BY <2>1 DEF Wallet
  <2>4. ASSUME NEW b \in Beneficiary
        PROVE  /\ Len(w.userToTemplates[b]) = Len(w.schedules[b])
               /\ \A i \in DOMAIN w.schedules[b] :
                    LET t == w.schedules[b][i].templateName IN
                    /\ w.userToTemplates[b][i] = t
                    /\ w.userToTemplateIndex[b][t] = i - 1
                    /\ b \in ToSet(w.templateToUsers[t])
                    /\ b \in ToSet(w.beneficiaries)
    <3>1. Len(w.userToTemplates[b]) = Len(w.schedules[b]) BY <2>1 DEF ArraysKept
    <3>2. ASSUME NEW i \in DOMAIN w.schedules[b]
          PROVE  LET t == w.schedules[b][i].templateName IN
                 /\ w.userToTemplates[b][i] = t
                 /\ w.userToTemplateIndex[b][t] = i - 1
                 /\ b \in ToSet(w.templateToUsers[t])
                 /\ b \in ToSet(w.beneficiaries)
      <4> DEFINE t == w.schedules[b][i].templateName
      <4>1. i \in 1 .. Len(w.schedules[b]) BY <2>3
      <4>2. t \in TemplateName /\ IsIn(t, w.userToTemplates[b])
        BY <2>1, ScheduledIsTemplate
      <4>3. w.userToTemplates[b][i] = t BY <2>1, <4>1 DEF ArraysKept
      <4>4. Indexed(w.userToTemplates[b], w.userToTemplateIndex[b])
        BY <2>1 DEF ArraysKept
      <4>5. i \in 1 .. Len(w.userToTemplates[b]) BY <3>1, <4>1
      <4> HIDE DEF t
      <4>6. w.userToTemplateIndex[b][t] = i - 1 BY <4>3, <4>4, <4>5 DEF Indexed
      <4>7. IsIn(b, w.templateToUsers[t]) /\ IsIn(b, w.beneficiaries)
        BY <2>1, <4>2 DEF ArraysKept
      <4>8. b \in ToSet(w.templateToUsers[t]) /\ b \in ToSet(w.beneficiaries)
        BY <2>2, <2>3, <4>2, <4>7
      <4>9. QED BY <4>3, <4>6, <4>8 DEF t
    <3>3. QED BY <3>1, <3>2
  <2>5. ASSUME NEW t \in TemplateName, NEW i \in DOMAIN w.templateToUsers[t]
        PROVE  LET b == w.templateToUsers[t][i] IN
               /\ w.templateToUserIndex[t][b] = i - 1
               /\ HasSchedule(w, b, t)
    <3> DEFINE b == w.templateToUsers[t][i]
    <3>1. i \in 1 .. Len(w.templateToUsers[t]) /\ b \in Beneficiary BY <2>3
    <3>2. Indexed(w.templateToUsers[t], w.templateToUserIndex[t])
      BY <2>1 DEF ArraysKept
    <3>3. w.templateToUserIndex[t][b] = i - 1 BY <3>1, <3>2 DEF Indexed
    <3>4. IsIn(b, w.templateToUsers[t]) BY <3>1 DEF IsIn
    <3>5. IsIn(t, w.userToTemplates[b]) BY <2>1, <3>1, <3>4 DEF ArraysKept
    <3>6. HasSchedule(w, b, t) BY <2>1, <3>1, <3>5, HasScheduleIs
    <3>7. QED BY <3>3, <3>6
  <2>6. Len(w.templateNames) = Cardinality(DOMAIN w.templates)
    BY <2>1 DEF TemplatesKept
  <2>7. ASSUME NEW t \in DOMAIN w.templates
        PROVE  w.templateNames[w.templates[t].index + 1] = t
    <3>1. PICK i \in 1 .. Len(w.templateNames) : w.templateNames[i] = t
      BY <2>1 DEF TemplatesKept, IsIn
    <3>2. [x \in DOMAIN w.templates |-> w.templates[x].index][w.templateNames[i]] = i - 1
      BY <2>1 DEF TemplatesKept, Indexed
    <3>3. w.templates[t].index = i - 1 BY <3>1, <3>2
    <3>4. w.templates[t].index + 1 = i BY <3>3
    <3>5. QED BY <3>1, <3>4
  <2>8. QED BY <2>4, <2>5, <2>6, <2>7 DEF ArraysAgree, w
<1>2. VInv => ArraysAgree BY <1>1
<1>3. QED BY VInvAlways, <1>2, PTL

\* No call and no tick of the clock takes back what was released to somebody: what
\* he got and may still claim never shrinks.
THEOREM ReleasedAlwaysKept == Spec => ReleasedIsKept
<1> DEFINE Kept == \A b \in Beneficiary :
                     wallet.received[b] + AvailableOf(wallet, b, now)
                       <= wallet'.received[b] + AvailableOf(wallet', b, now')
<1>1. VInv /\ [Next]_vars => [Kept]_vars
  <2>1. ASSUME VInv, [Next]_vars PROVE Kept BY <2>1, VInvKept DEF HasGot
  <2>2. QED BY <2>1
<1>2. Spec => [][Kept]_vars BY VInvAlways, <1>1, PTL DEF Spec
<1>3. QED BY <1>2 DEF ReleasedIsKept
=============================================================================
