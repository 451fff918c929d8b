--------------------------- MODULE PolymathCLIProofs ---------------------------
(***************************************************************************)
(* The books of the contracts under the command line, for any number of    *)
(* operators, programs, files and batch sizes.  First what the loops over  *)
(* records and the batches of a file do, then where a program may be and   *)
(* what its calls may hold, and then one contract after the other: what    *)
(* every record keeps, every call does, whatever came before it.           *)
(***************************************************************************)
EXTENDS PolymathCLI, SharedLemmas

-----------------------------------------------------------------------------
(* Loops over records.                                                     *)

\* The set of states after each record, when no record leads out of Good.
AreTurns(f, n, Good, b, step) ==
  /\ f \in [0..n -> SUBSET Good]
  /\ f[0] = {b}
  /\ \A k \in 1..n : f[k] = UNION {step[k][s] : s \in f[k - 1]}

LEMMA TurnsExist ==
  ASSUME NEW n \in Nat, NEW Good, NEW b \in Good,
         NEW step \in [1..n -> [Good -> SUBSET Good]]
  PROVE  \E f : AreTurns(f, n, Good, b, step)
<1> DEFINE State == SUBSET Good
           turn == [k \in 1..n |-> [X \in State |-> UNION {step[k][s] : s \in X}]]
<1>1. {b} \in State OBVIOUS
<1>2. turn \in [1..n -> [State -> State]]
  <2> SUFFICES ASSUME NEW k \in 1..n, NEW X \in State
               PROVE  UNION {step[k][s] : s \in X} \in State
    OBVIOUS
  <2>1. \A s \in X : step[k][s] \subseteq Good OBVIOUS
  <2>2. QED BY <2>1
<1> HIDE DEF turn, State
<1>3. PICK f : IsLoop(f, n, State, {b}, turn) BY <1>1, <1>2, LoopExists
<1>4. f \in [0..n -> State] /\ f[0] = {b} /\ \A k \in 1..n : f[k] = turn[k][f[k - 1]]
  BY <1>3 DEF IsLoop
<1>5. ASSUME NEW k \in 1..n PROVE f[k] = UNION {step[k][s] : s \in f[k - 1]}
  <2>1. f[k - 1] \in State BY <1>4
  <2>2. f[k] = turn[k][f[k - 1]] BY <1>4
  <2>3. QED BY <2>1, <2>2 DEF turn
<1>6. QED BY <1>4, <1>5 DEF State, AreTurns

-----------------------------------------------------------------------------
(* Files.                                                                  *)

CallOf(op, Row) == [op : {op}, rows : Seq(Row)]

\* One call, with one record.
LEMMA OneIsCall ==
  ASSUME NEW Calls, NEW op, NEW Row, NEW row \in Row, CallOf(op, Row) \subseteq Calls
  PROVE  One(op, row) \in Seq(Calls)
<1>1. <<row>> \in Seq(Row) OBVIOUS
<1>2. [op |-> op, rows |-> <<row>>] \in Calls BY <1>1 DEF CallOf
<1>3. QED BY <1>2 DEF One

LEMMA BatchBounds ==
  ASSUME NEW n \in Nat, NEW size \in Nat \ {0}
  PROVE  /\ BatchCount(n, size) \in Nat
         /\ \A k \in 1..BatchCount(n, size) :
              /\ (k - 1) * size + 1 \in 1..n
              /\ BatchEnd(n, size, k) \in (k - 1) * size + 1 .. n
<1> DEFINE a == n + size - 1
           q == a \div size
<1>1. a \in Nat OBVIOUS
<1>2. q \in Nat /\ q * size <= a BY <1>1, DivisionBelow
<1>3. q = BatchCount(n, size) BY DEF BatchCount
<1> HIDE DEF q
<1>4. ASSUME NEW k \in 1..q
      PROVE  /\ (k - 1) * size + 1 \in 1..n
             /\ BatchEnd(n, size, k) \in (k - 1) * size + 1 .. n
  <2>1. k * size <= q * size
    <3>1. q - k \in Nat BY <1>2
    <3>2. (q - k) * size \in Nat BY <3>1
    <3>3. (q - k) * size = q * size - k * size BY <1>2
    <3>4. QED BY <1>2, <3>2, <3>3
  <2>2. (k - 1) * size = k * size - size BY SMT
  <2>3. (k - 1) * size \in Nat
    <3>1. k - 1 \in Nat OBVIOUS
    <3>2. QED BY <3>1
  <2> DEFINE m == k * size
  <2>4. m \in Nat /\ q * size \in Nat BY <1>2
  <2>5. BatchEnd(n, size, k) = IF m <= n THEN m ELSE n BY DEF BatchEnd
  <2> HIDE DEF m
  <2>6. (k - 1) * size = m - size BY <2>2 DEF m
  <2>7. m <= a BY <1>1, <1>2, <2>1, <2>4 DEF m
  <2>8. m - size >= 0 BY <2>3, <2>6
  <2>9. m - size + 1 \in 1..n BY <2>4, <2>7, <2>8
  <2>10. (IF m <= n THEN m ELSE n) \in m - size + 1 .. n BY <2>4, <2>7, <2>8, <2>9
  <2>11. QED BY <2>5, <2>6, <2>9, <2>10
<1>5. QED BY <1>2, <1>3, <1>4

\* The call of batch k.
PartOf(op, data, size, k) ==
  [op |-> op,
   rows |-> SubSeq(data, (k - 1) * size + 1, BatchEnd(Len(data), size, k))]

\* Cutting, turning into columns and walking these makes each call a part of the file.
LEMMA CallsOfFile ==
  ASSUME NEW op, NEW Row,
         NEW width \in Nat \ {0}, NEW Entry, Row \subseteq [1..width -> Entry],
         NEW data \in Seq(Row), NEW size \in Nat \ {0}
  PROVE  /\ CallsOf(op, data, size) \in Seq(CallOf(op, Row))
         /\ Len(CallsOf(op, data, size)) = BatchCount(Len(data), size)
         /\ \A k \in 1..BatchCount(Len(data), size) :
              CallsOf(op, data, size)[k] = PartOf(op, data, size, k)
<1> DEFINE n == Len(data)
           count == BatchCount(n, size)
           first(k) == (k - 1) * size + 1
           last(k) == BatchEnd(n, size, k)
           batches == SplitIntoBatches(data, size)
           columns == TransposeBatches(batches)
<1>1. n \in Nat OBVIOUS
<1>2. /\ count \in Nat
      /\ \A k \in 1..count : first(k) \in 1..n /\ last(k) \in first(k)..n
  BY <1>1, BatchBounds
<1>3. batches = [k \in 1..count |-> SubSeq(data, first(k), last(k))]
  BY DEF SplitIntoBatches
<1> HIDE DEF count, first, last, n
<1>4. ASSUME NEW k \in 1..count
      PROVE  /\ batches[k] \in Seq(Row) /\ Len(batches[k]) \in Nat \ {0}
             /\ \A r \in 1..Len(batches[k]) : batches[k][r] \in Row
  <2>1. batches[k] = SubSeq(data, first(k), last(k)) BY <1>3
  <2>2. first(k) \in 1..Len(data) /\ last(k) \in first(k)..Len(data) BY <1>2 DEF n
  <2>3. SubSeq(data, first(k), last(k)) \in Seq(Row)
        /\ Len(SubSeq(data, first(k), last(k))) = last(k) - first(k) + 1
    BY <2>2
  <2> HIDE DEF batches
  <2>4. Len(batches[k]) \in Nat \ {0} BY <2>1, <2>2, <2>3
  <2>5. batches[k] \in Seq(Row) BY <2>1, <2>3
  <2>6. \A r \in 1..Len(batches[k]) : batches[k][r] \in Row BY <2>5
  <2>7. QED BY <2>4, <2>5, <2>6
<1>5. Len(batches) = count
  <2>1. DOMAIN batches = 1..count /\ batches \in Seq(Seq(Row))
    <3>1. batches \in [1..count -> Seq(Row)]
      <4>1. \A k \in 1..count : batches[k] \in Seq(Row) BY <1>4
      <4> HIDE DEF batches
      <4>2. batches = [k \in 1..count |-> batches[k]] BY <1>3 DEF batches
      <4>3. QED BY <4>1, <4>2
    <3> HIDE DEF batches
    <3>2. QED BY <1>2, <3>1
  <2> HIDE DEF batches
  <2>2. QED BY <1>2, <2>1
<1>6. CallsOf(op, data, size)
        = [k \in 1..count |-> [op |-> op, rows |-> RowsOfCall(columns, k)]]
  BY <1>5 DEF CallsOf
<1>7. ASSUME NEW k \in 1..count PROVE RowsOfCall(columns, k) = batches[k]
  <2>1. 1 \in 1..count BY <1>2
  <2>2. batches[1][1] \in Row
    <3>1. 1 \in 1..Len(batches[1]) BY <1>4, <2>1
    <3>2. QED BY <1>4, <2>1, <3>1
  <2>3. Len(batches[1][1]) = width
    <3>1. batches[1][1] \in [1..width -> Entry] BY <2>2
    <3> HIDE DEF batches
    <3>2. batches[1][1] \in Seq(Entry) BY <3>1
    <3>3. QED BY <3>1, <3>2
  <2>4. columns = [c \in 1..width |-> [j \in 1..count |->
                    [r \in 1..Len(batches[j]) |-> batches[j][r][c]]]]
    <3>1. Len(batches) > 0 /\ Len(batches[1]) > 0
      BY <1>2, <1>4, <1>5, <2>1
    <3>2. QED BY <1>5, <2>3, <3>1 DEF TransposeBatches
  <2> HIDE DEF batches, columns
  <2>5. \A c \in 1..width : columns[c][k] = [r \in 1..Len(batches[k]) |-> batches[k][r][c]]
    BY <2>4
  <2>6. Len(columns) = width
    <3> DEFINE U == {columns[c] : c \in 1..width}
    <3>1. columns \in [1..width -> U] BY <2>4
    <3> HIDE DEF U
    <3>2. columns \in Seq(U) BY <3>1
    <3>3. QED BY <3>1, <3>2
  <2>7. Len(columns[1][k]) = Len(batches[k])
    <3> DEFINE m == Len(batches[k])
               col == [r \in 1..m |-> batches[k][r][1]]
               U == {batches[k][r][1] : r \in 1..m}
    <3>1. m \in Nat BY <1>4
    <3>2. columns[1][k] = col BY <2>5
    <3>3. col \in [1..m -> U] OBVIOUS
    <3> HIDE DEF m, U, col
    <3>4. col \in Seq(U) BY <3>1, <3>3
    <3>5. Len(col) = m BY <3>1, <3>3, <3>4
    <3>6. QED BY <3>2, <3>5 DEF m
  <2> DEFINE m == Len(batches[k])
             rows == RowsOfCall(columns, k)
  <2>8. rows = [r \in 1..m |-> [c \in 1..width |-> columns[c][k][r]]]
    BY <2>6, <2>7 DEF RowsOfCall
  <2>9. ASSUME NEW r \in 1..m PROVE rows[r] = batches[k][r]
    <3>1. rows[r] = [c \in 1..width |-> columns[c][k][r]] BY <2>8
    <3>2. batches[k][r] \in [1..width -> Entry] BY <1>4
    <3>3. \A c \in 1..width : columns[c][k][r] = batches[k][r][c] BY <2>5
    <3> HIDE DEF rows, m
    <3>4. batches[k][r] = [c \in 1..width |-> batches[k][r][c]] BY <3>2
    <3>5. QED BY <3>1, <3>3, <3>4
  <2>10. m \in Nat BY <1>4
  <2>11. rows \in [1..m -> Row]
    <3>1. \A r \in 1..m : rows[r] \in Row BY <1>4, <2>9
    <3>2. rows = [r \in 1..m |-> rows[r]] BY <2>8
    <3> HIDE DEF rows, m
    <3>3. QED BY <3>1, <3>2
  <2>12. batches[k] \in Seq(Row) BY <1>4
  <2> HIDE DEF rows, batches
  <2>13. batches[k] \in [1..m -> Row] BY <2>12
  <2>14. \A r \in 1..m : rows[r] = batches[k][r] BY <2>9
  <2> DEFINE b == batches[k]
  <2>15. rows = b
    <3>1. rows \in [1..m -> Row] /\ b \in [1..m -> Row] BY <2>11, <2>13
    <3>2. \A r \in 1..m : rows[r] = b[r] BY <2>14
    <3>3. rows = [r \in 1..m |-> rows[r]] /\ b = [r \in 1..m |-> b[r]] BY <3>1
    <3> HIDE DEF m, b
    <3>4. QED BY ONLY <3>2, <3>3
  <2>16. QED BY <2>15 DEF rows
<1>8. \A k \in 1..count : RowsOfCall(columns, k) = SubSeq(data, first(k), last(k))
  <2> HIDE DEF batches, columns
  <2>1. \A k \in 1..count : batches[k] = SubSeq(data, first(k), last(k)) BY <1>3
  <2>2. QED BY <1>7, <2>1
<1> HIDE DEF batches, columns
<1>9. CallsOf(op, data, size)
        = [k \in 1..count |-> [op |-> op, rows |-> SubSeq(data, first(k), last(k))]]
  BY <1>6, <1>8
<1> DEFINE calls == CallsOf(op, data, size)
<1>10. \A k \in 1..count : calls[k] = PartOf(op, data, size, k)
  BY <1>9 DEF PartOf, first, last, n
<1>11. \A k \in 1..count : calls[k] \in CallOf(op, Row)
  <2> SUFFICES ASSUME NEW k \in 1..count PROVE calls[k] \in CallOf(op, Row)
    OBVIOUS
  <2>1. first(k) \in 1..Len(data) /\ last(k) \in first(k)..Len(data) BY <1>2 DEF n
  <2> DEFINE p == first(k)
             q == last(k)
             part == SubSeq(data, p, q)
  <2>2. calls[k] = [op |-> op, rows |-> part] BY <1>9
  <2>3. p \in 1..Len(data) /\ q \in p..Len(data) BY <2>1
  <2> HIDE DEF p, q
  <2>4. part \in Seq(Row) BY <2>3
  <2> HIDE DEF part, calls
  <2>5. QED BY <2>2, <2>4 DEF CallOf
<1>12. calls = [k \in 1..count |-> calls[k]] BY <1>9
<1> HIDE DEF calls, count
<1>13. calls \in [1..count -> CallOf(op, Row)] BY <1>11, <1>12
<1>14. calls \in Seq(CallOf(op, Row)) /\ Len(calls) = count BY <1>2, <1>13
<1>15. QED BY <1>10, <1>14 DEF calls, count, n

\* Whatever the size of the batches, a call holds records of the file.
LEMMA CallsHoldRecords ==
  ASSUME NEW Calls, NEW op, NEW Row, CallOf(op, Row) \subseteq Calls,
         NEW width \in Nat \ {0}, NEW Entry, Row \subseteq [1..width -> Entry],
         NEW data \in Seq(Row), NEW size \in Nat \ {0}
  PROVE  CallsOf(op, data, size) \in Seq(Calls)
<1> DEFINE calls == CallsOf(op, data, size)
<1>1. calls \in Seq(CallOf(op, Row)) BY CallsOfFile
<1> HIDE DEF calls
<1>2. calls \in Seq(Calls)
  <2>1. calls \in [1..Len(calls) -> CallOf(op, Row)] /\ Len(calls) \in Nat BY <1>1
  <2>2. calls \in [1..Len(calls) -> Calls] BY <2>1
  <2>3. QED BY <2>1, <2>2
<1>3. QED BY <1>2 DEF calls

\* The records that are wanted are records of the file.
LEMMA WantedRecords ==
  ASSUME NEW R, NEW rows \in Seq(R), NEW wanted
  PROVE  RowsIn(rows, wanted) \in Seq(R \cap wanted)
<1> DEFINE n == Len(rows)
           State == Seq(R \cap wanted)
           turn == [k \in 1..n |-> [s \in State |->
                      IF rows[k] \in wanted THEN Append(s, rows[k]) ELSE s]]
           Is(g) == g = [k \in 0..n |->
                           IF k = 0 THEN << >>
                           ELSE IF rows[k] \in wanted THEN Append(g[k - 1], rows[k])
                           ELSE g[k - 1]]
           kept == CHOOSE g : Is(g)
<1>1. n \in Nat /\ \A k \in 1..n : rows[k] \in R OBVIOUS
<1>2. RowsIn(rows, wanted) = kept[n] BY DEF RowsIn
<1>3. << >> \in State OBVIOUS
<1>4. ASSUME NEW k \in 1..n, NEW s \in State, rows[k] \in wanted
      PROVE  Append(s, rows[k]) \in State
  <2>1. rows[k] \in R \cap wanted BY <1>1, <1>4
  <2>2. QED BY <2>1
<1> HIDE DEF n, State
<1>5. turn \in [1..n -> [State -> State]] BY <1>4
<1>6. PICK f : IsLoop(f, n, State, << >>, turn)
  <2> HIDE DEF turn
  <2> QED BY <1>1, <1>3, <1>5, LoopExists
<1>7. f \in [0..n -> State] /\ f[0] = << >> /\ \A k \in 1..n : f[k] = turn[k][f[k - 1]]
  BY <1>6 DEF IsLoop
<1>8. Is(f)
  <2>1. ASSUME NEW k \in 1..n
        PROVE  f[k] = IF rows[k] \in wanted THEN Append(f[k - 1], rows[k]) ELSE f[k - 1]
    <3>1. k - 1 \in 0..n BY <1>1
    <3>2. f[k - 1] \in State BY <1>7, <3>1
    <3>3. QED BY <1>7, <3>2
  <2>2. \A k \in 0..n : k # 0 => k \in 1..n BY <1>1
  <2> HIDE DEF turn
  <2>3. QED BY <1>7, <2>1, <2>2
<1>9. Is(kept)
  <2> HIDE DEF Is
  <2> QED BY <1>8 DEF kept
<1> HIDE DEF kept
<1>10. \A k \in 1..n : kept[k - 1] \in State => kept[k] \in State
  <2> SUFFICES ASSUME NEW k \in 1..n, kept[k - 1] \in State PROVE kept[k] \in State
    OBVIOUS
  <2>1. k \in 0..n /\ k # 0 BY <1>1
  <2>2. kept[k] = IF rows[k] \in wanted THEN Append(kept[k - 1], rows[k]) ELSE kept[k - 1]
    BY <1>9, <2>1
  <2>3. QED BY <1>4, <2>2
<1>11. kept[0] \in State BY <1>1, <1>3, <1>9
<1>12. \A k \in 0..n : kept[k] \in State BY <1>1, <1>10, <1>11, LoopKeeps
<1>13. QED BY <1>1, <1>2, <1>12 DEF State

-----------------------------------------------------------------------------
(* Sessions.                                                               *)

\* A program that has shown something of what may be asked at this place.
Ready(s, place, shown) ==
  place \in DOMAIN shown /\ s.about # {} /\ s.about \subseteq shown[place]

\* What holds of a program wherever it is: the calls are those it may have, there
\* is one when it sends or waits, and it knows what the next place asks about.
IsSession(s, calls, shown) ==
  /\ {"at", "calls", "about", "then"} \subseteq DOMAIN s
  /\ s.calls \in Seq(calls)
  /\ s.at \in {"sending", "waiting"} =>
       s.calls # << >> /\ (s.then = "menu" \/ Ready(s, s.then, shown))
  /\ s.at \in DOMAIN shown => Ready(s, s.at, shown)

\* Calls of each account, and what is shown at each place that asks.
Sessions(calls, shown) ==
  /\ DOMAIN shown \cap {"menu", "sending", "waiting"} = {}
  /\ session = [c \in Client |-> session[c]]
  /\ \A c \in Client : IsSession(session[c], calls[c], shown)
  /\ mempool = [c \in Client |-> mempool[c]]
  /\ \A c \in Client : mempool[c] \subseteq calls[c]

SameContract == UNCHANGED <<now, current, contract>>

\* A session of one account changes.
LEMMA OneSession ==
  ASSUME NEW calls, NEW shown, Sessions(calls, shown), NEW c \in Client,
         NEW s, IsSession(s, calls[c], shown),
         session' = [session EXCEPT ![c] = s],
         mempool' = mempool
  PROVE  Sessions(calls, shown)'
<1>1. \A d \in Client : session'[d] = IF d = c THEN s ELSE session[d]
  BY DEF Sessions
<1>2. session' = [d \in Client |-> session'[d]] BY DEF Sessions
<1>3. QED BY <1>1, <1>2 DEF Sessions

LEMMA MenuIsSession ==
  ASSUME NEW calls, NEW shown, DOMAIN shown \cap {"menu", "sending", "waiting"} = {}
  PROVE  IsSession(AtMenu, calls, shown)
BY DEF IsSession, AtMenu, Place

\* A program comes to a place that asks, or throws.
LEMMA Shows ==
  ASSUME NEW calls, NEW shown, Sessions(calls, shown), NEW c \in Client,
         NEW place, NEW about, Show(c, place, about),
         place \notin {"sending", "waiting"},
         place \in DOMAIN shown => about # {} /\ about \subseteq shown[place]
  PROVE  Sessions(calls, shown)' /\ SameContract
<1>1. IsSession(Place(place, about), calls[c], shown)
  BY DEF IsSession, Ready, Place
<1>2. QED BY <1>1, OneSession DEF Show, SameContract

LEMMA Throws ==
  ASSUME NEW calls, NEW shown, Sessions(calls, shown), NEW c \in Client, Throw(c)
  PROVE  Sessions(calls, shown)' /\ SameContract
<1>1. IsSession(AtMenu, calls[c], shown) BY MenuIsSession DEF Sessions
<1>2. QED BY <1>1, OneSession DEF Throw, Leave, SameContract

LEMMA StartsCommand ==
  ASSUME NEW calls, NEW shown, Sessions(calls, shown), NEW c \in Client,
         NEW s, IsSession(s, calls[c], shown) \/ s.calls = << >>,
         StartCommand(c, s)
  PROVE  Sessions(calls, shown)' /\ SameContract
<1> DEFINE new == IF s.calls = << >> THEN AtMenu ELSE s
<1>1. IsSession(new, calls[c], shown) BY MenuIsSession DEF Sessions
<1>2. session' = [session EXCEPT ![c] = new] BY DEF StartCommand
<1> HIDE DEF new
<1>3. QED BY <1>1, <1>2, OneSession DEF StartCommand, SameContract

LEMMA Begins ==
  ASSUME NEW calls, NEW shown, Sessions(calls, shown), NEW c \in Client,
         NEW list \in Seq(calls[c]), NEW about, Begin(c, list, about)
  PROVE  Sessions(calls, shown)' /\ SameContract
<1> DEFINE s == Sending(list, about)
<1>0. /\ {"at", "calls", "about", "then"} \subseteq DOMAIN s
      /\ s.at = "sending" /\ s.calls = list /\ s.about = about /\ s.then = "menu"
  BY DEF Sending, Place
<1>1. IsSession(s, calls[c], shown) \/ s.calls = << >>
  <2> HIDE DEF s
  <2> QED BY <1>0 DEF Sessions, IsSession
<1>2. StartCommand(c, s) BY DEF Begin
<1> HIDE DEF s
<1>3. QED BY <1>1, <1>2, StartsCommand

LEMMA BeginsAll ==
  ASSUME NEW calls, NEW shown, Sessions(calls, shown), NEW c \in Client,
         NEW list \in Seq(calls[c]), BeginAll(c, list)
  PROVE  Sessions(calls, shown)' /\ SameContract
<1> DEFINE s == [Sending(list, {}) EXCEPT !.goesOn = TRUE]
<1>0. /\ {"at", "calls", "about", "then"} \subseteq DOMAIN s
      /\ s.at = "sending" /\ s.calls = list /\ s.about = {} /\ s.then = "menu"
  BY DEF Sending, Place
<1>1. IsSession(s, calls[c], shown) \/ s.calls = << >>
  <2> HIDE DEF s
  <2> QED BY <1>0 DEF Sessions, IsSession
<1>2. StartCommand(c, s) BY DEF BeginAll
<1> HIDE DEF s
<1>3. QED BY <1>1, <1>2, StartsCommand

LEMMA BeginsThen ==
  ASSUME NEW calls, NEW shown, Sessions(calls, shown), NEW c \in Client,
         NEW list \in Seq(calls[c]), NEW about, NEW place \in DOMAIN shown,
         about # {}, about \subseteq shown[place], BeginThen(c, list, about, place)
  PROVE  Sessions(calls, shown)' /\ SameContract
<1> DEFINE s == [Sending(list, about) EXCEPT !.then = place]
<1>0. /\ {"at", "calls", "about", "then"} \subseteq DOMAIN s
      /\ s.at = "sending" /\ s.calls = list /\ s.about = about /\ s.then = place
  BY DEF Sending, Place
<1>1. IsSession(s, calls[c], shown) \/ s.calls = << >>
  <2> HIDE DEF s
  <2> QED BY <1>0 DEF Sessions, IsSession, Ready
<1>2. StartCommand(c, s) BY DEF BeginThen
<1> HIDE DEF s
<1>3. QED BY <1>1, <1>2, StartsCommand

LEMMA NotEmpty ==
  ASSUME NEW S, NEW list \in Seq(S), Len(list) # 0 PROVE list # << >>
OBVIOUS

\* A call that succeeded or failed.
LEMMA NextIsSession ==
  ASSUME NEW calls, NEW shown, DOMAIN shown \cap {"menu", "sending", "waiting"} = {},
         NEW s, IsSession(s, calls, shown), s.at \in {"sending", "waiting"},
         NEW succeeded
  PROVE  IsSession(NextCall(s, succeeded), calls, shown)
<1>1. CASE ~succeeded /\ ~s.goesOn BY <1>1, MenuIsSession DEF NextCall
<1>2. CASE ~(~succeeded /\ ~s.goesOn) /\ Len(s.calls) = 1
  <2> DEFINE p == Place(s.then, IF s.then = "menu" THEN {} ELSE s.about)
  <2>1. IsSession(p, calls, shown) BY DEF IsSession, Ready, Place
  <2>2. QED BY <1>2, <2>1 DEF NextCall
<1>3. CASE ~(~succeeded /\ ~s.goesOn) /\ Len(s.calls) # 1
  <2> DEFINE t == [s EXCEPT !.at = "sending", !.calls = Tail(@)]
  <2>1. /\ {"at", "calls", "about", "then"} \subseteq DOMAIN s
        /\ s.calls \in Seq(calls) /\ s.calls # << >>
        /\ s.then = "menu" \/ Ready(s, s.then, shown)
    BY DEF IsSession
  <2>2. Tail(s.calls) \in Seq(calls) /\ Tail(s.calls) # << >>
    <3>1. PICK list \in Seq(calls) : list = s.calls BY <2>1
    <3>2. Len(list) \in Nat /\ Len(list) # 0 /\ Len(list) # 1 BY <1>3, <2>1, <3>1
    <3>3. Tail(list) \in Seq(calls) /\ Len(Tail(list)) = Len(list) - 1 BY <3>2
    <3>4. Len(Tail(list)) # 0 BY <3>2, <3>3
    <3>5. Tail(list) # << >> BY <3>3, <3>4, NotEmpty
    <3>6. QED BY <3>1, <3>3, <3>5
  <2>3. /\ {"at", "calls", "about", "then"} \subseteq DOMAIN t
        /\ t.at = "sending" /\ t.calls = Tail(s.calls) /\ t.about = s.about
        /\ t.then = s.then
    BY <2>1
  <2> HIDE DEF t
  <2>4. IsSession(t, calls, shown) BY <2>1, <2>2, <2>3 DEF IsSession, Ready
  <2>5. QED BY <1>3, <2>4 DEF NextCall, t
<1>4. QED BY <1>1, <1>2, <1>3

LEMMA ToSendIsCall ==
  ASSUME NEW calls, NEW shown, Sessions(calls, shown), NEW c \in Client,
         session[c].at = "sending"
  PROVE  ToSend(c) \in calls[c]
BY DEF Sessions, IsSession, ToSend

LEMMA Sends ==
  ASSUME NEW calls, NEW shown, Sessions(calls, shown), NEW c \in Client,
         NEW outcomes, Send(c, outcomes)
  PROVE  Sessions(calls, shown)' /\ SameContract
<1>1. session[c].at = "sending" /\ IsSession(session[c], calls[c], shown)
      /\ DOMAIN shown \cap {"menu", "sending", "waiting"} = {}
  BY DEF Send, Sessions
<1>2. CASE Leave(c, NextCall(session[c], FALSE))
  <2>1. IsSession(NextCall(session[c], FALSE), calls[c], shown)
    BY <1>1, NextIsSession
  <2>2. QED BY <1>2, <2>1, OneSession DEF Leave, SameContract
<1>3. CASE /\ mempool' = [mempool EXCEPT ![c] = {ToSend(c)}]
           /\ session' = [session EXCEPT ![c].at = "waiting"]
           /\ UNCHANGED <<now, current, contract, begun>>
  <2> DEFINE s == [session[c] EXCEPT !.at = "waiting"]
  <2>1. IsSession(s, calls[c], shown) BY <1>1 DEF IsSession, Ready
  <2>2. session' = [session EXCEPT ![c] = s] BY <1>3
  <2> HIDE DEF s
  <2>3. ToSend(c) \in calls[c] BY <1>1, ToSendIsCall
  <2>4. \A d \in Client : session'[d] = IF d = c THEN s ELSE session[d]
    BY <2>2 DEF Sessions
  <2>5. \A d \in Client : mempool'[d] = IF d = c THEN {ToSend(c)} ELSE mempool[d]
    BY <1>3 DEF Sessions
  <2>6. /\ session' = [d \in Client |-> session'[d]]
        /\ mempool' = [d \in Client |-> mempool'[d]]
    BY <1>3, <2>2 DEF Sessions
  <2>7. Sessions(calls, shown)' BY <2>1, <2>3, <2>4, <2>5, <2>6 DEF Sessions
  <2>8. QED BY <1>3, <2>7 DEF SameContract
<1>4. QED BY <1>2, <1>3 DEF Send

LEMMA Mines ==
  ASSUME NEW calls, NEW shown, Sessions(calls, shown), NEW c \in Client,
         NEW outcomes, Mine(c, outcomes)
  PROVE  /\ Sessions(calls, shown)'
         /\ UNCHANGED <<now, current>>
         /\ contract' \in outcomes \/ contract' = contract
         /\ mempool' = [mempool EXCEPT ![c] = {}]
<1>1. /\ IsSession(session[c], calls[c], shown)
      /\ DOMAIN shown \cap {"menu", "sending", "waiting"} = {}
  BY DEF Sessions
<1>2. ASSUME NEW succeeded
      PROVE  IsSession(AfterReceipt(session[c], succeeded), calls[c], shown)
  BY <1>1, NextIsSession DEF AfterReceipt
<1>3. PICK succeeded \in BOOLEAN :
        session' = [session EXCEPT ![c] = AfterReceipt(@, succeeded)]
  BY DEF Mine
<1> DEFINE s == AfterReceipt(session[c], succeeded)
<1>4. session' = [session EXCEPT ![c] = s] BY <1>3
<1>5. IsSession(s, calls[c], shown) BY <1>2
<1> HIDE DEF s
<1>6. \A d \in Client : session'[d] = IF d = c THEN s ELSE session[d]
  BY <1>4 DEF Sessions
<1>7. \A d \in Client : mempool'[d] = IF d = c THEN {} ELSE mempool[d]
  BY DEF Mine, Sessions
<1>8. /\ session' = [d \in Client |-> session'[d]]
      /\ mempool' = [d \in Client |-> mempool'[d]]
  BY <1>4 DEF Mine, Sessions
<1>9. Sessions(calls, shown)' BY <1>5, <1>6, <1>7, <1>8 DEF Sessions
<1>10. QED BY <1>9 DEF Mine

\* What a program was shown is something it may be shown there.
LEMMA ShownIsShown ==
  ASSUME NEW calls, NEW shown, Sessions(calls, shown), NEW c \in Client,
         NEW place \in DOMAIN shown, At(c, place)
  PROVE  Shown(c) \in shown[place]
BY DEF Sessions, IsSession, Ready, At, Shown

LEMMA SessionsAtFirst ==
  ASSUME SessionInit, NEW calls, NEW shown,
         DOMAIN shown \cap {"menu", "sending", "waiting"} = {}
  PROVE  Sessions(calls, shown)
<1>1. \A c \in Client : IsSession(AtMenu, calls[c], shown) BY MenuIsSession
<1>2. QED BY <1>1 DEF SessionInit, Sessions

-----------------------------------------------------------------------------
(* The contract stays the one the programs are at work on.                 *)

LEMMA SessionStepsStay ==
  ASSUME NEW c, NEW x, NEW y, NEW z
  PROVE  /\ Begin(c, x, y) => UNCHANGED <<now, current>>
         /\ BeginThen(c, x, y, z) => UNCHANGED <<now, current>>
         /\ BeginAll(c, x) => UNCHANGED <<now, current>>
         /\ BeginAllThen(c, x, y, z) => UNCHANGED <<now, current>>
         /\ Show(c, x, y) => UNCHANGED <<now, current>>
         /\ Throw(c) => UNCHANGED <<now, current>>
         /\ Send(c, x) => UNCHANGED <<now, current>>
         /\ Mine(c, x) => UNCHANGED <<now, current>>
         /\ Kill(c) => UNCHANGED <<now, current>>
         /\ Tick => now' = now + 1 /\ current' = current
         /\ AllAtRest => UNCHANGED <<now, current>>
BY DEF Begin, BeginThen, BeginAll, BeginAllThen, StartCommand, Show, Throw, Leave, Send,
       Mine, Kill, Tick, AllAtRest, sessionVars

LEMMA PermissionStays == ASSUME NEW c, PermissionStep(c) PROVE UNCHANGED <<now, current>>
BY SessionStepsStay DEF PermissionStep, PermissionManager, ManageDelegates, AddNewDelegate,
   SelectDelegate, DeleteShownDelegate, ChangeShownPermission

LEMMA ApprovalsStay == ASSUME NEW c, ApprovalsStep(c) PROVE UNCHANGED <<now, current>>
BY SessionStepsStay DEF ApprovalsStep, ManualApprovalTransferManager, MatmAdd, MatmManage,
   MatmOperate, MatmManageIncrese, MatmManageDecrease, MatmManageTimeOrDescription,
   MatmManageRevoke, ModifyShown, MatmGenericCsv, AddManualApproveInBatch,
   RevokeManualApproveInBatch, ModifyManualApproveInBatch

LEMMA RestrictionsStay == ASSUME NEW c, RestrictionsStep(c) PROVE UNCHANGED <<now, current>>
BY SessionStepsStay DEF RestrictionsStep, VolumeRestrictionTM, ChangeExemptWallet,
   ReadRestrictions, OperateWithMultipleRestrictions, ChangeDefaultRestrictions,
   ChangeIndividualRestrictions, ChangeRestrictions, ChangeShown, Enter,
   RestrictionsInBatch, AddDailyRestrictionsInBatch, ModifyDailyRestrictionsInBatch,
   RemoveDailyRestrictionsInBatch, AddCustomRestrictionsInBatch,
   ModifyCustomRestrictionsInBatch, RemoveCustomRestrictionsInBatch

LEMMA GeneralStays == ASSUME NEW c, GeneralStep(c) PROVE UNCHANGED <<now, current>>
BY SessionStepsStay DEF GeneralStep, GeneralTransferManager, QueryModifyWhiteList,
   QueryModifyFlag, InvestorsInBatch, ModifyWhitelistInBatch, ModifyFlagsInBatch,
   ModifyTransferRequirements, ModifyAllTransferRequirements, TransferRequirements,
   ChangeModuleSetting

LEMMA LimitsStay == ASSUME NEW c, LimitsStep(c) PROVE UNCHANGED <<now, current>>
BY SessionStepsStay DEF LimitsStep, CountTransferManager, ModifyWhitelistFromCSV,
   ShowPrimaryIssuance, PercentageTransferManager

LEMMA ListsStay == ASSUME NEW c, ListsStep(c) PROVE UNCHANGED <<now, current>>
BY SessionStepsStay DEF ListsStep, BlacklistTransferManager, LockUpTransferManager,
   AddNewBlacklist, AddNewLockup, AddNewType, DeleteInvestorsFromAllBlacklists,
   ManageExistingBlacklist, ManageExistingLockup, ReadType, ManageBlacklist, ManageLockup,
   ModifyProperties, AddInvestorsToThis, RemoveInvestorFromThis, DeleteThisType,
   OperateWithMultipleBlacklists, OperateWithMultipleLockups, InBatch, AskForever,
   AddBlacklistsInBatch, ModifyBlacklistsInBatch, DeleteBlacklistsInBatch,
   AddInvestorsToBlacklistsInBatch, RemoveInvestorsFromBlacklistsInBatch,
   AddLockupsInBatch, ModifyLockupsInBatch, DeleteLockupsInBatch,
   AddLockupsToInvestorsInBatch, RemoveLockupsFromInvestorsInBatch

LEMMA RegistryStays == ASSUME NEW c, RegistryStep(c) PROVE UNCHANGED <<now, current>>
BY SessionStepsStay DEF RegistryStep, ST20Generator, ReadRegistrationFee,
   StepTickerRegistration, StepTransferTickerOwnership, ReadLaunchFee, StepTokenDeploy,
   SendPoly, TransferOwnershipTo, StepRegisterTickers, StrActions, ModifyOrRemoveTicker,
   ModifyTokenOf, ChangeExpiryLimit, ChangeFeesTo

LEMMA WalletStays == ASSUME NEW c, WalletStep(c) PROVE UNCHANGED <<now, current>>
BY SessionStepsStay DEF WalletStep, WalletManager, ReadMenu, DepositFrom, PullFor, ManageTemplates,
   AddTemplateTyped, RemoveTemplateSelected, ReadSchedules, MultipleSchedules,
   SchedulesInBatch, AddSchedulesInBatch, AddSchedulesFromTemplateInBatch,
   ModifySchedulesInBatch, RevokeSchedulesInBatch, SendShownToTreasury, ManageSchedules,
   AddVestingSchedule, ModifySelected, RevokeSelected, RevokeAllOf, PushTo

LEMMA ModulesStay == ASSUME NEW c, ModulesStep(c) PROVE UNCHANGED <<now, current>>
BY SessionStepsStay DEF ModulesStep, ModulesManager, ListModuleOptions, AddModuleOfType,
   AddTransferManagerModule, AddSTOModule, AddModule, PauseShown, UnpauseShown,
   ArchiveShown, UnarchiveShown, RemoveShown, ChangeBudget, WithdrawFromContract

LEMMA IssuanceStays == ASSUME NEW c, IssuanceStep(c) PROVE UNCHANGED <<now, current>>
BY SessionStepsStay DEF IssuanceStep, TokenManager, SelectToken, SelectAction, Selected,
   IssueTokens, IssueToSingleAddress, MultiIssue, OnToken, OnTokenAnyway, ChangeFreeze,
   FreezeIssuanceShown, Refresh

LEMMA ModuleStays ==
  ASSUME [Next]_sessionVars
  PROVE  current' = current /\ (now' = now \/ now' = now + 1)
<1>1. CASE \E c \in Client : Program(c)
  <2>1. PICK c \in Client : Program(c) BY <1>1
  <2>2. QED
    BY <2>1, SessionStepsStay, PermissionStays, ApprovalsStay, RestrictionsStay,
       GeneralStays, LimitsStay, ListsStay, RegistryStays, WalletStays, ModulesStay,
       IssuanceStays
    DEF Program, TransferManagerStep
<1>2. CASE Transfers \/ RegistryMoves \/ FactoryStep \/ VerificationStep
  BY <1>2 DEF Transfers, ApprovedTransfer, HolderTransfer, RegistryMoves, FactoryStep,
     VerificationStep
<1>3. CASE TimePasses \/ AllAtRest \/ UNCHANGED sessionVars
  BY <1>3 DEF TimePasses, Tick, AllAtRest, sessionVars
<1>4. QED BY <1>1, <1>2, <1>3 DEF Next

\* A program of another contract does nothing.
LEMMA OwnSteps ==
  ASSUME NEW c
  PROVE  /\ ListsStep(c) => current \in {"blacklist", "lockup"}
         /\ ApprovalsStep(c) => current = "manual"
         /\ RestrictionsStep(c) => current = "volume"
         /\ GeneralStep(c) => current = "general"
         /\ LimitsStep(c) => current = "limits"
         /\ RegistryStep(c) => current = "registry"
         /\ PermissionStep(c) => current = "permission"
         /\ WalletStep(c) => current = "wallet"
         /\ ModulesStep(c) => current = "modules"
         /\ IssuanceStep(c) => current = "issuance"
BY DEF ListsStep, Lists, ApprovalsStep, RestrictionsStep, GeneralStep, LimitsStep,
       RegistryStep, PermissionStep, WalletStep, ModulesStep, IssuanceStep

\* What happens to any contract, and what to one only.
LEMMA StepsOf ==
  ASSUME [Next]_sessionVars
  PROVE  \/ \E c \in Client : Kill(c)
         \/ UNCHANGED sessionVars
         \/ Tick
         \/ /\ current \in {"blacklist", "lockup"}
            /\ \E c \in Client : ListsStep(c)
         \/ /\ current = "manual"
            /\ ApprovedTransfer \/ \E c \in Client : ApprovalsStep(c)
         \/ current = "volume" /\ \E c \in Client : RestrictionsStep(c)
         \/ current = "general" /\ \E c \in Client : GeneralStep(c)
         \/ /\ current = "limits"
            /\ HolderTransfer \/ \E c \in Client : LimitsStep(c)
         \/ /\ current = "registry"
            /\ RegistryMoves \/ \E c \in Client : RegistryStep(c)
         \/ current = "permission" /\ \E c \in Client : PermissionStep(c)
         \/ current = "wallet" /\ \E c \in Client : WalletStep(c)
         \/ /\ current = "modules"
            /\ FactoryStep \/ \E c \in Client : ModulesStep(c)
         \/ /\ current = "issuance"
            /\ VerificationStep \/ \E c \in Client : IssuanceStep(c)
<1>1. CASE \E c \in Client : Program(c)
  BY <1>1, OwnSteps DEF Program, TransferManagerStep
<1>2. CASE Transfers BY <1>2 DEF Transfers, ApprovedTransfer, HolderTransfer
<1>3. CASE RegistryMoves BY <1>3 DEF RegistryMoves
<1>4. CASE FactoryStep BY <1>4 DEF FactoryStep
<1>5. CASE VerificationStep BY <1>5 DEF VerificationStep
<1>6. CASE TimePasses BY <1>6 DEF TimePasses
<1>7. CASE AllAtRest BY <1>7 DEF AllAtRest
<1>8. QED BY <1>1, <1>2, <1>3, <1>4, <1>5, <1>6, <1>7 DEF Next

\* A program that is stopped, time that passes, and nothing at all.
LEMMA CommonSteps ==
  ASSUME NEW calls, NEW shown, Sessions(calls, shown),
         (\E c \in Client : Kill(c)) \/ UNCHANGED sessionVars \/ Tick
  PROVE  Sessions(calls, shown)' /\ UNCHANGED <<current, contract>>
<1>1. ASSUME NEW c \in Client, Kill(c)
      PROVE  Sessions(calls, shown)' /\ UNCHANGED <<current, contract>>
  BY <1>1, Throws DEF Kill, SameContract
<1>2. CASE UNCHANGED sessionVars BY <1>2 DEF sessionVars, Sessions
<1>3. CASE Tick BY <1>3 DEF Tick, Sessions
<1>4. QED BY <1>1, <1>2, <1>3

-----------------------------------------------------------------------------
(* Arrays.                                                                 *)

\* SelectInSeq, of one entry.
FirstPlace(s, d) ==
  LET places == {i \in 1..Len(s) : s[i] = d}
  IN  IF places # {} THEN Min(places) ELSE 0

LEMMA FirstPlaceIs ==
  ASSUME NEW S, NEW s \in Seq(S), NEW d
  PROVE  /\ FirstPlace(s, d) \in 0..Len(s)
         /\ FirstPlace(s, d) = 0 => d \notin ToSet(s)
         /\ FirstPlace(s, d) # 0 => s[FirstPlace(s, d)] = d
<1> DEFINE I == {i \in 1..Len(s) : s[i] = d}
           k == FirstPlace(s, d)
<1>1. k = IF I # {} THEN Min(I) ELSE 0 BY DEF FirstPlace
<1>2. ASSUME I # {} PROVE Min(I) \in I
  <2>1. PICK i \in I : \A j \in I : ~(<<j, i>> \in OpToRel(<, Nat))
    <3>1. I \subseteq Nat OBVIOUS
    <3> HIDE DEF I
    <3>2. QED BY <1>2, <3>1, WFMin, NatLessThanWellFounded
  <2>2. \A j \in I : j \in Nat OBVIOUS
  <2> HIDE DEF I
  <2>3. \A j \in I : ~(j < i) BY <2>1, <2>2 DEF OpToRel
  <2>4. ASSUME NEW j \in I PROVE i <= j
    <3>1. i \in Nat /\ j \in Nat /\ ~(j < i) BY <2>1, <2>2, <2>3
    <3>2. QED BY ONLY <3>1
  <2>5. QED BY <2>1, <2>4 DEF Min
<1> HIDE DEF k
<1>3. QED BY <1>1, <1>2 DEF k, ToSet

\* An entry leaves, and the last one takes its place.
LEMMA LastTakesPlace ==
  ASSUME NEW S, NEW s \in Seq(S), NEW p \in 1..Len(s)
  PROVE  LET t == Front([s EXCEPT ![p] = Last(s)])
         IN  /\ t \in Seq(S) /\ Len(t) = Len(s) - 1
             /\ \A k \in 1..Len(s) - 1 : t[k] = IF k = p THEN s[Len(s)] ELSE s[k]
             /\ DOMAIN t = 1..Len(s) - 1
<1> DEFINE n == Len(s)
           moved == [s EXCEPT ![p] = Last(s)]
<1>1. n \in Nat /\ n \in 1..n /\ s[n] \in S OBVIOUS
<1>2. /\ moved \in Seq(S) /\ Len(moved) = n
      /\ \A k \in 1..n : moved[k] = IF k = p THEN s[n] ELSE s[k]
  BY <1>1 DEF Last
<1> HIDE DEF moved
<1>3. Front(moved) = SubSeq(moved, 1, n - 1) BY <1>2 DEF Front
<1>4. /\ SubSeq(moved, 1, n - 1) \in Seq(S)
      /\ Len(SubSeq(moved, 1, n - 1)) = n - 1
      /\ \A k \in 1..n - 1 : SubSeq(moved, 1, n - 1)[k] = moved[k]
      /\ DOMAIN SubSeq(moved, 1, n - 1) = 1..n - 1
  BY <1>1, <1>2
<1> DEFINE t == Front(moved)
<1>5. /\ t \in Seq(S) /\ Len(t) = n - 1 /\ DOMAIN t = 1..n - 1
      /\ \A k \in 1..n - 1 : t[k] = IF k = p THEN s[n] ELSE s[k]
  <2>1. \A k \in 1..n - 1 : k \in 1..n BY <1>1
  <2> HIDE DEF n
  <2>2. QED BY <1>2, <1>3, <1>4, <2>1
<1>6. QED BY <1>5 DEF moved

\* Of entries that are there once.
LEMMA LeavesTheOthers ==
  ASSUME NEW S, NEW s \in Seq(S), IsInjective(s), NEW p \in 1..Len(s)
  PROVE  LET t == Front([s EXCEPT ![p] = Last(s)])
         IN  t \in Seq(S) /\ IsInjective(t) /\ ToSet(t) = ToSet(s) \ {s[p]}
<1> DEFINE n == Len(s)
           t == Front([s EXCEPT ![p] = Last(s)])
<1>1. /\ t \in Seq(S) /\ Len(t) = n - 1 /\ DOMAIN t = 1..n - 1
      /\ \A k \in 1..n - 1 : t[k] = IF k = p THEN s[n] ELSE s[k]
  BY LastTakesPlace
<1>2. n \in Nat /\ DOMAIN s = 1..n OBVIOUS
<1>3. \A i, j \in 1..n : s[i] = s[j] => i = j BY <1>2 DEF IsInjective
<1> HIDE DEF t, n
<1>4. IsInjective(t) BY <1>1, <1>2, <1>3 DEF IsInjective
<1>5. ASSUME NEW x PROVE x \in ToSet(t) <=> x \in ToSet(s) \ {s[p]}
  <2>1. p \in 1..n BY DEF n
  <2>2. ASSUME NEW k \in 1..n - 1, x = t[k] PROVE x \in ToSet(s) \ {s[p]}
    BY <1>1, <1>2, <1>3, <2>1, <2>2 DEF ToSet
  <2>3. ASSUME NEW k \in 1..n, x = s[k], x # s[p] PROVE x \in ToSet(t)
    <3>1. k # p BY <2>3
    <3>2. CASE k = n
      <4>1. p \in 1..n - 1 BY <1>2, <2>1, <3>1, <3>2
      <4>2. QED BY <1>1, <2>3, <3>2, <4>1 DEF ToSet
    <3>3. CASE k # n
      <4>1. k \in 1..n - 1 BY <1>2, <3>3
      <4>2. QED BY <1>1, <2>3, <3>1, <4>1 DEF ToSet
    <3>4. QED BY <3>2, <3>3
  <2>4. QED BY <1>1, <1>2, <2>2, <2>3 DEF ToSet
<1>6. QED BY <1>1, <1>4, <1>5 DEF t

\* A new entry.
LEMMA OneMore ==
  ASSUME NEW S, NEW s \in Seq(S), IsInjective(s), NEW d \in S, d \notin ToSet(s)
  PROVE  /\ Append(s, d) \in Seq(S) /\ IsInjective(Append(s, d))
         /\ ToSet(Append(s, d)) = ToSet(s) \cup {d}
<1> DEFINE n == Len(s)
           t == Append(s, d)
<1>1. n \in Nat /\ DOMAIN s = 1..n OBVIOUS
<1>2. /\ t \in Seq(S) /\ DOMAIN t = 1..n + 1 /\ t[n + 1] = d
      /\ \A k \in 1..n : t[k] = s[k]
  OBVIOUS
<1>3. \A i \in 1..n : s[i] # d BY <1>1 DEF ToSet
<1>4. \A i, j \in 1..n : s[i] = s[j] => i = j BY <1>1 DEF IsInjective
<1> HIDE DEF t, n
<1>5. \A k \in 1..n + 1 : k \in 1..n \/ k = n + 1 BY <1>1
<1>6. IsInjective(t) BY <1>1, <1>2, <1>3, <1>4, <1>5 DEF IsInjective
<1>7. ASSUME NEW x PROVE x \in ToSet(t) <=> x \in ToSet(s) \cup {d}
  BY <1>1, <1>2, <1>5 DEF ToSet
<1>8. QED BY <1>2, <1>6, <1>7 DEF t

-----------------------------------------------------------------------------
(* Delegates and their permissions.                                        *)

DelegateRows(op) ==
  CASE op \in {"addDelegate", "deleteDelegate"} -> {<<d>> : d \in Delegate}
    [] op = "changePermission" -> Delegate \X Permission \X BOOLEAN

DelegateOps == {"addDelegate", "deleteDelegate", "changePermission"}

DelegateCalls == UNION {CallOf(op, DelegateRows(op)) : op \in DelegateOps}

\* A delegate is in the array, once, exactly when he has details.
DelegateBooks ==
  {b \in [allDelegates : Seq(Delegate), hasDetails : [Delegate -> BOOLEAN],
          perms : [Delegate -> SUBSET Permission]] :
     /\ IsInjective(b.allDelegates)
     /\ ToSet(b.allDelegates) = {d \in Delegate : b.hasDetails[d]}}

LEMMA DelegateLeaves ==
  ASSUME NEW S, NEW s \in Seq(S), IsInjective(s), NEW d
  PROVE  LET t == WithoutDelegate(s, d)
         IN  t \in Seq(S) /\ IsInjective(t) /\ ToSet(t) = ToSet(s) \ {d}
<1> DEFINE k == FirstPlace(s, d)
<1>1. k \in 0..Len(s) /\ (k = 0 => d \notin ToSet(s)) /\ (k # 0 => s[k] = d)
  BY FirstPlaceIs
<1>2. WithoutDelegate(s, d) = IF k = 0 THEN s ELSE Front([s EXCEPT ![k] = Last(s)])
  BY DEF WithoutDelegate, SelectInSeq, FirstPlace
<1> HIDE DEF k
<1>3. CASE k = 0 BY <1>1, <1>2, <1>3
<1>4. CASE k # 0
  <2>1. k \in 1..Len(s) BY <1>1, <1>4
  <2> DEFINE t == Front([s EXCEPT ![k] = Last(s)])
  <2>2. t \in Seq(S) /\ IsInjective(t) /\ ToSet(t) = ToSet(s) \ {s[k]}
    BY <2>1, LeavesTheOthers, Zenon
  <2>3. WithoutDelegate(s, d) = t /\ s[k] = d BY <1>1, <1>2, <1>4
  <2> HIDE DEF t
  <2>4. QED BY <2>2, <2>3
<1>5. QED BY <1>3, <1>4

LEMMA DelegateRecordKeeps ==
  ASSUME NEW b \in DelegateBooks, NEW op \in DelegateOps, NEW row \in DelegateRows(op)
  PROVE  PermissionsChange(b, op, row) \subseteq DelegateBooks
<1>1. /\ b \in [allDelegates : Seq(Delegate), hasDetails : [Delegate -> BOOLEAN],
                perms : [Delegate -> SUBSET Permission]]
      /\ IsInjective(b.allDelegates)
      /\ ToSet(b.allDelegates) = {d \in Delegate : b.hasDetails[d]}
  BY DEF DelegateBooks
<1>2. CASE op = "addDelegate"
  <2>1. PICK d \in Delegate : row = <<d>> BY <1>2 DEF DelegateRows
  <2> DEFINE new == [b EXCEPT !.hasDetails[d] = TRUE, !.allDelegates = Append(@, d)]
  <2>2. PermissionsChange(b, op, row) = IF b.hasDetails[d] THEN {} ELSE {new}
    BY <1>2, <2>1 DEF PermissionsChange, AddDelegate
  <2>3. ASSUME ~b.hasDetails[d] PROVE new \in DelegateBooks
    <3>1. d \notin ToSet(b.allDelegates) BY <1>1, <2>3
    <3>2. /\ Append(b.allDelegates, d) \in Seq(Delegate)
          /\ IsInjective(Append(b.allDelegates, d))
          /\ ToSet(Append(b.allDelegates, d)) = ToSet(b.allDelegates) \cup {d}
      BY <1>1, <3>1, OneMore
    <3>3. /\ new \in [allDelegates : Seq(Delegate), hasDetails : [Delegate -> BOOLEAN],
                      perms : [Delegate -> SUBSET Permission]]
          /\ new.allDelegates = Append(b.allDelegates, d)
          /\ \A e \in Delegate : new.hasDetails[e] = IF e = d THEN TRUE ELSE b.hasDetails[e]
      BY <1>1, <3>2
    <3> HIDE DEF new
    <3>4. QED BY <1>1, <3>2, <3>3 DEF DelegateBooks
  <2> HIDE DEF new
  <2>4. QED BY <2>2, <2>3
<1>3. CASE op = "deleteDelegate"
  <2>1. PICK d \in Delegate : row = <<d>> BY <1>3 DEF DelegateRows
  <2> DEFINE rest == WithoutDelegate(b.allDelegates, d)
             new == [b EXCEPT !.allDelegates = rest, !.hasDetails[d] = FALSE]
  <2>2. PermissionsChange(b, op, row) = IF b.hasDetails[d] THEN {new} ELSE {}
    BY <1>3, <2>1 DEF PermissionsChange, DeleteDelegate
  <2>3. /\ rest \in Seq(Delegate) /\ IsInjective(rest)
        /\ ToSet(rest) = ToSet(b.allDelegates) \ {d}
    BY <1>1, DelegateLeaves
  <2> HIDE DEF rest
  <2>4. new \in DelegateBooks
    <3>1. /\ new \in [allDelegates : Seq(Delegate), hasDetails : [Delegate -> BOOLEAN],
                      perms : [Delegate -> SUBSET Permission]]
          /\ new.allDelegates = rest
          /\ \A e \in Delegate : new.hasDetails[e] = IF e = d THEN FALSE ELSE b.hasDetails[e]
      BY <1>1, <2>3
    <3> HIDE DEF new
    <3>2. QED BY <1>1, <2>3, <3>1 DEF DelegateBooks
  <2> HIDE DEF new
  <2>5. QED BY <2>2, <2>4
<1>4. CASE op = "changePermission"
  <2>1. PICK d \in Delegate, perm \in Permission, valid \in BOOLEAN :
          row = <<d, perm, valid>>
    BY <1>4 DEF DelegateRows
  <2> DEFINE new == [b EXCEPT !.perms[d] = IF valid THEN @ \cup {perm} ELSE @ \ {perm}]
  <2>2. PermissionsChange(b, op, row) = {new}
    BY <1>4, <2>1 DEF PermissionsChange, ChangePermission
  <2>3. /\ new \in [allDelegates : Seq(Delegate), hasDetails : [Delegate -> BOOLEAN],
                    perms : [Delegate -> SUBSET Permission]]
        /\ new.allDelegates = b.allDelegates /\ new.hasDetails = b.hasDetails
    BY <1>1
  <2> HIDE DEF new
  <2>4. new \in DelegateBooks BY <1>1, <2>3 DEF DelegateBooks
  <2>5. QED BY <2>2, <2>4
<1>5. QED BY <1>2, <1>3, <1>4 DEF DelegateOps

\* A call leads from such a book to such a book, if it leads anywhere.
LEMMA DelegateCallKeeps ==
  ASSUME NEW b \in DelegateBooks, NEW call \in DelegateCalls
  PROVE  PermissionsAfter(b, call) \subseteq DelegateBooks
<1> DEFINE rows == call.rows
           op == call.op
           n == Len(rows)
           step == [k \in 1..n |-> [s \in DelegateBooks |-> PermissionsChange(s, op, rows[k])]]
           Is(g) == g = [k \in 0..n |->
                           IF k = 0 THEN {b}
                           ELSE UNION {PermissionsChange(s, op, rows[k]) : s \in g[k - 1]}]
           after == CHOOSE g : Is(g)
<1>1. op \in DelegateOps /\ rows \in Seq(DelegateRows(op)) BY DEF DelegateCalls, CallOf
<1>2. n \in Nat /\ \A k \in 1..n : rows[k] \in DelegateRows(op) BY <1>1
<1>3. PermissionsAfter(b, call) = after[n] BY DEF PermissionsAfter, InTurn
<1> HIDE DEF rows, op, n, after
<1>4. \A k \in 1..n : \A s \in DelegateBooks :
        PermissionsChange(s, op, rows[k]) \subseteq DelegateBooks
  BY <1>1, <1>2, DelegateRecordKeeps
<1>5. step \in [1..n -> [DelegateBooks -> SUBSET DelegateBooks]] BY <1>4
<1>6. PICK f : AreTurns(f, n, DelegateBooks, b, step)
  <2> HIDE DEF step
  <2> QED BY <1>2, <1>5, TurnsExist
<1>7. Is(f)
  <2>1. ASSUME NEW k \in 1..n
        PROVE  f[k] = UNION {PermissionsChange(s, op, rows[k]) : s \in f[k - 1]}
    <3>1. k - 1 \in 0..n BY <1>2
    <3>2. f[k - 1] \subseteq DelegateBooks BY <1>6, <3>1 DEF AreTurns
    <3>3. \A s \in f[k - 1] : step[k][s] = PermissionsChange(s, op, rows[k]) BY <3>2
    <3> HIDE DEF step
    <3>4. QED BY <1>6, <3>3 DEF AreTurns
  <2>2. \A k \in 0..n : k # 0 => k \in 1..n BY <1>2
  <2>3. QED BY <1>6, <2>1, <2>2 DEF AreTurns
<1>8. Is(after)
  <2> HIDE DEF Is
  <2> QED BY <1>7 DEF after
<1>9. \A k \in 1..n : after[k - 1] \in SUBSET DelegateBooks => after[k] \in SUBSET DelegateBooks
  <2> SUFFICES ASSUME NEW k \in 1..n, after[k - 1] \in SUBSET DelegateBooks
               PROVE  after[k] \in SUBSET DelegateBooks
    OBVIOUS
  <2>1. after[k] = UNION {PermissionsChange(s, op, rows[k]) : s \in after[k - 1]}
    <3>1. k \in 0..n /\ k # 0 BY <1>2
    <3>2. QED BY <1>8, <3>1
  <2>2. QED BY <1>4, <2>1
<1>10. after[0] \in SUBSET DelegateBooks BY <1>2, <1>8
<1>11. \A k \in 0..n : after[k] \in SUBSET DelegateBooks BY <1>2, <1>9, <1>10, LoopKeeps
<1>12. QED BY <1>2, <1>3, <1>11

DelegatesShown ==
  [place \in {"delete delegate", "change permission"} |->
     [delegate : Delegate, permissions : SUBSET Permission]]

PermissionInv ==
  current = "permission" =>
    /\ contract \in DelegateBooks
    /\ Sessions([c \in Client |-> DelegateCalls], DelegatesShown)

LEMMA OneDelegateCall ==
  ASSUME NEW op \in DelegateOps, NEW row \in DelegateRows(op)
  PROVE  One(op, row) \in Seq(DelegateCalls)
<1>1. CallOf(op, DelegateRows(op)) \subseteq DelegateCalls BY DEF DelegateCalls
<1>2. QED BY <1>1, OneIsCall

\* What a program does that manages delegates.
LEMMA PermissionStepKeeps ==
  ASSUME PermissionInv, NEW c \in Client, PermissionStep(c)
  PROVE  PermissionInv'
<1> DEFINE calls == [d \in Client |-> DelegateCalls]
           Kept == contract' \in DelegateBooks /\ Sessions(calls, DelegatesShown)'
<1>1. /\ current = "permission" /\ contract \in DelegateBooks
      /\ Sessions(calls, DelegatesShown) /\ calls[c] = DelegateCalls
  BY DEF PermissionStep, PermissionInv
<1> HIDE DEF calls
<1>2. SUFFICES Kept
  <2>1. calls' = calls BY DEF calls
  <2>2. QED BY <2>1 DEF PermissionInv, calls
<1>3. ASSUME NEW list \in Seq(DelegateCalls), NEW about, Begin(c, list, about) PROVE Kept
  BY <1>1, <1>3, Begins DEF SameContract
<1>4. ASSUME NEW place \in DOMAIN DelegatesShown, At(c, place)
      PROVE  Shown(c).delegate \in Delegate
  <2>1. Shown(c) \in DelegatesShown[place] BY <1>1, <1>4, ShownIsShown
  <2>2. QED BY <2>1 DEF DelegatesShown
<1>5. CASE AddNewDelegate(c)
  <2>1. PICK d \in Delegate : Begin(c, One("addDelegate", <<d>>), {})
    BY <1>5 DEF AddNewDelegate
  <2>2. One("addDelegate", <<d>>) \in Seq(DelegateCalls)
    BY OneDelegateCall DEF DelegateOps, DelegateRows
  <2>3. QED BY <1>3, <2>1, <2>2
<1>6. ASSUME NEW place \in DOMAIN DelegatesShown, SelectDelegate(c, place) PROVE Kept
  <2>1. PICK shown \in GetDelegatesAndPermissions : Show(c, place, {shown})
    BY <1>6 DEF SelectDelegate
  <2>2. shown \in [delegate : Delegate, permissions : SUBSET Permission]
    BY <1>1 DEF GetDelegatesAndPermissions, GetDelegates, GetPermissionsByDelegate,
       DelegateBooks
  <2>3. {shown} # {} /\ {shown} \subseteq DelegatesShown[place]
        /\ place \notin {"sending", "waiting"}
    BY <2>2 DEF DelegatesShown
  <2>4. QED BY <1>1, <2>1, <2>3, Shows DEF SameContract
<1>7. CASE At(c, "delete delegate") /\ DeleteShownDelegate(c)
  <2>1. Shown(c).delegate \in Delegate BY <1>4, <1>7 DEF DelegatesShown
  <2>2. One("deleteDelegate", <<Shown(c).delegate>>) \in Seq(DelegateCalls)
    BY <2>1, OneDelegateCall DEF DelegateOps, DelegateRows
  <2>3. QED BY <1>3, <1>7, <2>2 DEF DeleteShownDelegate
<1>8. CASE At(c, "change permission") /\ ChangeShownPermission(c)
  <2>1. Shown(c).delegate \in Delegate BY <1>4, <1>8 DEF DelegatesShown
  <2>2. PICK perm \in Permission, valid \in BOOLEAN :
          Begin(c, One("changePermission", <<Shown(c).delegate, perm, valid>>),
                session[c].about)
    BY <1>8 DEF ChangeShownPermission
  <2>3. One("changePermission", <<Shown(c).delegate, perm, valid>>) \in Seq(DelegateCalls)
    BY <2>1, OneDelegateCall DEF DelegateOps, DelegateRows
  <2>4. QED BY <1>3, <2>2, <2>3
<1>9. CASE Send(c, PermissionCallAfter(ToSend(c)))
  BY <1>1, <1>9, Sends DEF SameContract
<1>10. ASSUME NEW call \in mempool[c], Mine(c, PermissionCallAfter(call)) PROVE Kept
  <2>1. call \in DelegateCalls BY <1>1 DEF Sessions
  <2>2. PermissionCallAfter(call) \subseteq DelegateBooks
    BY <1>1, <2>1, DelegateCallKeeps DEF PermissionCallAfter
  <2>3. QED BY <1>1, <1>10, <2>2, Mines
<1>11. QED
  <2>1. "delete delegate" \in DOMAIN DelegatesShown
        /\ "change permission" \in DOMAIN DelegatesShown
    BY DEF DelegatesShown
  <2>2. CASE PermissionManager(c)
    BY <1>5, <1>6, <1>7, <1>8, <2>1, <2>2 DEF PermissionManager, ManageDelegates
  <2>3. QED BY <1>9, <1>10, <2>2 DEF PermissionStep

LEMMA PermissionAtFirst == Init => PermissionInv
<1> SUFFICES ASSUME Init, current = "permission"
             PROVE  /\ contract \in DelegateBooks
                    /\ Sessions([c \in Client |-> DelegateCalls], DelegatesShown)
  BY DEF PermissionInv
<1>1. contract = NoDelegates
  BY DEF Init, ConfigExistingModules, ListsInit, Lists, ApprovalsInit, RestrictionsInit,
     GeneralInit, LimitsInit, RegistryInit, PermissionsInit, WalletInit, ModulesInit,
     IssuanceInit
<1>2. NoDelegates \in DelegateBooks
  <2>1. IsInjective(<< >>) /\ ToSet(<< >>) = {} BY DEF IsInjective, ToSet
  <2>2. QED BY <2>1 DEF NoDelegates, DelegateBooks
<1>3. SessionInit BY DEF Init
<1>4. DOMAIN DelegatesShown \cap {"menu", "sending", "waiting"} = {} BY DEF DelegatesShown
<1>5. Sessions([c \in Client |-> DelegateCalls], DelegatesShown)
  BY <1>3, <1>4, SessionsAtFirst
<1>6. QED BY <1>1, <1>2, <1>5

LEMMA PermissionKept == PermissionInv /\ [Next]_sessionVars => PermissionInv'
<1> SUFFICES ASSUME PermissionInv, [Next]_sessionVars PROVE PermissionInv'
  OBVIOUS
<1>1. CASE current = "permission"
  <2>1. CASE \E c \in Client : PermissionStep(c) BY <2>1, PermissionStepKeeps
  <2>2. CASE (\E c \in Client : Kill(c)) \/ UNCHANGED sessionVars \/ Tick
    BY <1>1, <2>2, CommonSteps DEF PermissionInv
  <2>3. QED BY <1>1, <2>1, <2>2, StepsOf
<1>2. CASE current # "permission" BY <1>2, ModuleStays DEF PermissionInv
<1>3. QED BY <1>1, <1>2

\* GeneralPermissionManager keeps its array of delegates and their details in
\* agreement, so that permission_manager.js shows everybody who may do something.
THEOREM WhoMayIsAlwaysShown == Spec => []WhoMayIsShown
<1>1. PermissionInv => WhoMayIsShown
  <2> SUFFICES ASSUME current = "permission", contract \in DelegateBooks
               PROVE  WhoMayIsShown
    BY DEF PermissionInv, WhoMayIsShown
  <2>1. IsInjective(contract.allDelegates) BY DEF DelegateBooks
  <2>2. ASSUME NEW d \in Delegate
        PROVE  {perm \in Permission : CheckPermission(contract, d, perm)} =
                 UNION {shown.permissions :
                          shown \in {x \in GetDelegatesAndPermissions : x.delegate = d}}
    <3>1. contract.perms[d] \subseteq Permission BY DEF DelegateBooks
    <3>2. {x \in GetDelegatesAndPermissions : x.delegate = d} =
            IF contract.hasDetails[d]
              THEN {[delegate |-> d, permissions |-> contract.perms[d]]} ELSE {}
      BY DEF DelegateBooks, GetDelegatesAndPermissions, GetDelegates,
         GetPermissionsByDelegate
    <3>3. CASE contract.hasDetails[d]
      <4>1. UNION {shown.permissions :
                     shown \in {x \in GetDelegatesAndPermissions : x.delegate = d}}
              = contract.perms[d]
        <5> DEFINE one == [delegate |-> d, permissions |-> contract.perms[d]]
                   those == {x \in GetDelegatesAndPermissions : x.delegate = d}
        <5>1. those = {one} BY <3>2, <3>3
        <5>2. one.permissions = contract.perms[d] OBVIOUS
        <5> HIDE DEF those, one
        <5>3. UNION {shown.permissions : shown \in those} = contract.perms[d]
          BY <5>1, <5>2
        <5>4. QED BY <5>3 DEF those
      <4>2. QED BY <3>1, <3>3, <4>1 DEF CheckPermission
    <3>4. CASE ~contract.hasDetails[d]
      <4>1. {x \in GetDelegatesAndPermissions : x.delegate = d} = {} BY <3>2, <3>4
      <4>2. QED BY <3>4, <4>1 DEF CheckPermission
    <3>5. QED BY <3>3, <3>4
  <2>3. QED BY <2>1, <2>2 DEF WhoMayIsShown
<1>2. QED BY <1>1, PermissionAtFirst, PermissionKept, PTL DEF Spec

-----------------------------------------------------------------------------
(* Manual approvals.                                                       *)

\* An array of which every key has its place, from one, and zero when it is not
\* there.
Numbered(key, n, index, S) ==
  /\ index \in [S -> Nat]
  /\ \A x \in S : index[x] \in 0..n
  /\ \A k \in 1..n : key[k] \in S
  /\ \A x \in S, k \in 1..n : (index[x] = k) <=> (key[k] = x)

\* A key is pushed, or leaves and the last one takes its place.
Pushed(key, n, index, m, key2, index2) ==
  /\ \A k \in 1..n : key2[k] = key[k]
  /\ key2[n + 1] = m
  /\ index2 = [index EXCEPT ![m] = n + 1]

Left(key, n, index, m, key2, index2) ==
  /\ \A k \in 1..n - 1 : key2[k] = IF k = index[m] THEN key[n] ELSE key[k]
  /\ index2 = [[index EXCEPT ![key[n]] = index[m]] EXCEPT ![m] = 0]

LEMMA NumberedPush ==
  ASSUME NEW S, NEW n \in Nat, NEW key, NEW index, Numbered(key, n, index, S),
         NEW m \in S, index[m] = 0,
         NEW key2, NEW index2, Pushed(key, n, index, m, key2, index2)
  PROVE  Numbered(key2, n + 1, index2, S)
<1>0. /\ \A k \in 1..n : key2[k] = key[k]
      /\ key2[n + 1] = m /\ index2 = [index EXCEPT ![m] = n + 1]
  BY DEF Pushed
<1>1. index2 \in [S -> Nat] /\ \A x \in S : index2[x] = IF x = m THEN n + 1 ELSE index[x]
  BY <1>0 DEF Numbered
<1>2. \A x \in S : index[x] \in 0..n BY DEF Numbered
<1>3. \A k \in 1..n + 1 : k \in 1..n \/ k = n + 1 OBVIOUS
<1>4. \A x \in S : index2[x] \in 0..n + 1 BY <1>1, <1>2
<1>5. \A k \in 1..n + 1 : key2[k] \in S BY <1>0, <1>3 DEF Numbered
<1>6. ASSUME NEW x \in S, NEW k \in 1..n + 1 PROVE (index2[x] = k) <=> (key2[k] = x)
  <2>1. CASE k = n + 1
    <3>1. index[x] # n + 1 BY <1>2
    <3>2. QED BY <1>0, <1>1, <2>1, <3>1
  <2>2. CASE k \in 1..n
    <3>1. key2[k] = key[k] /\ k # n + 1 /\ k # 0 BY <1>0, <2>2
    <3>2. (index[x] = k) <=> (key[k] = x) BY <2>2 DEF Numbered
    <3>3. QED BY <1>1, <3>1, <3>2
  <2>3. QED BY <1>3, <2>1, <2>2
<1>7. QED BY <1>1, <1>4, <1>5, <1>6 DEF Numbered

LEMMA NumberedWithout ==
  ASSUME NEW S, NEW n \in Nat, NEW key, NEW index, Numbered(key, n, index, S),
         NEW m \in S, index[m] # 0,
         NEW key2, NEW index2, Left(key, n, index, m, key2, index2)
  PROVE  /\ index[m] \in 1..n /\ n - 1 \in Nat
         /\ Numbered(key2, n - 1, index2, S)
<1>0. /\ \A k \in 1..n - 1 : key2[k] = IF k = index[m] THEN key[n] ELSE key[k]
      /\ index2 = [[index EXCEPT ![key[n]] = index[m]] EXCEPT ![m] = 0]
  BY DEF Left
<1> DEFINE p == index[m]
<1>1. p \in 1..n /\ n \in 1..n /\ n - 1 \in Nat /\ \A k \in 1..n - 1 : k \in 1..n /\ k # n
  BY DEF Numbered
<1>2. index \in [S -> Nat] /\ key[n] \in S /\ key[p] = m
  BY <1>1 DEF Numbered
<1>3. /\ index2 \in [S -> Nat]
      /\ \A x \in S : index2[x] = IF x = m THEN 0 ELSE IF x = key[n] THEN p ELSE index[x]
  BY <1>0, <1>1, <1>2
<1> HIDE DEF p
<1>4. \A k \in 1..n - 1 : key2[k] = IF k = p THEN key[n] ELSE key[k] BY <1>0 DEF p
<1>5. \A k \in 1..n - 1 : key2[k] \in S BY <1>1, <1>4 DEF Numbered
<1>6. \A x \in S : index[x] \in 0..n BY DEF Numbered
<1>7. \A x \in S, k \in 1..n : (index[x] = k) <=> (key[k] = x) BY DEF Numbered
<1>8. ASSUME NEW x \in S PROVE index2[x] \in 0..n - 1
  <2>1. CASE x = m BY <1>1, <1>3, <2>1
  <2>2. CASE x # m /\ x = key[n]
    <3>1. p # n BY <1>2, <2>2
    <3>2. QED BY <1>1, <1>3, <2>2, <3>1
  <2>3. CASE x # m /\ x # key[n]
    <3>1. index[x] # n BY <1>1, <1>7, <2>3
    <3>2. QED BY <1>1, <1>3, <1>6, <2>3, <3>1
  <2>4. QED BY <2>1, <2>2, <2>3
<1>9. ASSUME NEW x \in S, NEW k \in 1..n - 1 PROVE (index2[x] = k) <=> (key2[k] = x)
  <2>1. k \in 1..n /\ k # n /\ k # 0 BY <1>1
  <2>2. (index[x] = k) <=> (key[k] = x) BY <1>7, <2>1
  <2>3. CASE x = m
    <3>1. key2[k] # m
      <4>1. CASE k = p
        <5>1. key[n] # m BY <1>1, <1>2, <1>7, <2>1, <4>1
        <5>2. QED BY <1>4, <4>1, <5>1
      <4>2. CASE k # p
        <5>1. key[k] # m BY <1>7, <2>1, <4>2 DEF p
        <5>2. QED BY <1>4, <4>2, <5>1
      <4>3. QED BY <4>1, <4>2
    <3>2. QED BY <1>3, <2>1, <2>3, <3>1
  <2>4. CASE x # m /\ x = key[n]
    <3>1. k # p => key[k] # x BY <1>1, <1>7, <2>1, <2>4
    <3>2. QED BY <1>3, <1>4, <2>4, <3>1
  <2>5. CASE x # m /\ x # key[n]
    <3>1. index[x] # p BY <1>1, <1>2, <1>7, <2>5
    <3>2. QED BY <1>3, <1>4, <2>2, <2>5, <3>1
  <2>6. QED BY <2>3, <2>4, <2>5
<1>10. QED BY <1>1, <1>3, <1>5, <1>8, <1>9 DEF Numbered, p

Approval == [pair : Pair, allowance : Nat, initial : Nat, expiry : Nat]

PairsOf(b) == [k \in 1..Len(b.approvals) |-> b.approvals[k].pair]

\* What was used of an approval, as its two numbers tell it.
Explains(approval, used) ==
  \/ approval.initial - approval.allowance = used[approval.pair]
  \/ approval.initial = 0 /\ approval.allowance = 0

BooksOfApprovals ==
  [approvals : Seq(Approval), index : [Pair -> Nat], used : [Pair -> Nat]]

ApprovalBooks ==
  {b \in BooksOfApprovals :
     /\ Numbered(PairsOf(b), Len(b.approvals), b.index, Pair)
     /\ \A k \in 1..Len(b.approvals) : Explains(b.approvals[k], b.used)}

ApprovalRows(op) ==
  CASE op = "approve" -> Pair \X Nat \X Nat
    [] op = "modifyApproval" -> Pair \X Nat \X Nat \X BOOLEAN
    [] op = "revoke" -> {<<p>> : p \in Pair}

ApprovalOps == {"approve", "modifyApproval", "revoke"}

ApprovalCalls == UNION {CallOf(op, ApprovalRows(op)) : op \in ApprovalOps}

\* The approval that a pair has.
LEMMA ApprovalFound ==
  ASSUME NEW b \in ApprovalBooks, NEW p \in Pair, Approved(b, p)
  PROVE  /\ b.index[p] \in 1..Len(b.approvals) /\ Len(b.approvals) \in Nat
         /\ ApprovalOf(b, p) \in Approval /\ ApprovalOf(b, p).pair = p
         /\ Explains(ApprovalOf(b, p), b.used)
<1>1. b \in BooksOfApprovals /\ Numbered(PairsOf(b), Len(b.approvals), b.index, Pair)
  BY DEF ApprovalBooks
<1>2. Len(b.approvals) \in Nat /\ b.index[p] \in 0..Len(b.approvals) /\ b.index[p] # 0
  BY <1>1 DEF BooksOfApprovals, Numbered, Approved
<1>3. b.index[p] \in 1..Len(b.approvals) BY <1>2
<1>4. PairsOf(b)[b.index[p]] = p BY <1>1, <1>3 DEF Numbered
<1>5. b.approvals[b.index[p]] \in Approval BY <1>1, <1>3 DEF BooksOfApprovals
<1>6. QED BY <1>3, <1>4, <1>5, <1>2 DEF ApprovalOf, PairsOf, ApprovalBooks

\* An approval is replaced by one of the same pair.
LEMMA ApprovalChanges ==
  ASSUME NEW b \in ApprovalBooks, NEW p \in Pair, Approved(b, p),
         NEW approval \in Approval, approval.pair = p,
         NEW new \in BooksOfApprovals,
         new.approvals = [b.approvals EXCEPT ![b.index[p]] = approval],
         new.index = b.index,
         \A q \in Pair : q # p => new.used[q] = b.used[q],
         Explains(approval, new.used)
  PROVE  new \in ApprovalBooks
<1> DEFINE n == Len(b.approvals)
           k == b.index[p]
<1>1. k \in 1..n /\ n \in Nat BY ApprovalFound
<1>2. /\ b \in BooksOfApprovals /\ Numbered(PairsOf(b), n, b.index, Pair)
      /\ \A j \in 1..n : Explains(b.approvals[j], b.used) /\ b.approvals[j] \in Approval
  BY DEF ApprovalBooks, BooksOfApprovals
<1>3. Len(new.approvals) = n
      /\ \A j \in 1..n : new.approvals[j] = IF j = k THEN approval ELSE b.approvals[j]
  BY <1>1, <1>2 DEF BooksOfApprovals
<1>4. PairsOf(b)[k] = p BY <1>1, <1>2 DEF Numbered
<1>5. \A j \in 1..n : PairsOf(new)[j] = PairsOf(b)[j]
  BY <1>3, <1>4 DEF PairsOf
<1>6. Numbered(PairsOf(new), n, new.index, Pair) BY <1>2, <1>5 DEF Numbered
<1>7. ASSUME NEW j \in 1..n PROVE Explains(new.approvals[j], new.used)
  <2>1. CASE j = k BY <1>3, <2>1
  <2>2. CASE j # k
    <3>1. PairsOf(b)[j] # p BY <1>2, <2>2 DEF Numbered
    <3>2. b.approvals[j].pair \in Pair /\ b.approvals[j].pair # p
      BY <1>2, <3>1 DEF PairsOf, Approval
    <3>3. QED BY <1>2, <1>3, <2>2, <3>2 DEF Explains
  <2>3. QED BY <2>1, <2>2
<1>8. QED BY <1>3, <1>6, <1>7 DEF ApprovalBooks

LEMMA RevokeKeeps ==
  ASSUME NEW b \in ApprovalBooks, NEW p \in Pair
  PROVE  \A new \in Revoke(b, p) : new \in ApprovalBooks /\ ~Approved(new, p)
<1> SUFFICES ASSUME Approved(b, p), NEW new \in Revoke(b, p)
             PROVE  new \in ApprovalBooks /\ ~Approved(new, p)
  BY DEF Revoke
<1> DEFINE n == Len(b.approvals)
           k == b.index[p]
           last == Last(b.approvals)
           t == Front([b.approvals EXCEPT ![k] = last])
<1>1. k \in 1..n /\ n \in Nat BY ApprovalFound
<1>2. /\ b \in BooksOfApprovals /\ Numbered(PairsOf(b), n, b.index, Pair)
      /\ \A j \in 1..n : Explains(b.approvals[j], b.used) /\ b.approvals[j] \in Approval
  BY DEF ApprovalBooks, BooksOfApprovals
<1>3. last = b.approvals[n] /\ last.pair = PairsOf(b)[n] /\ last.pair \in Pair /\ n \in 1..n
  BY <1>1, <1>2 DEF Last, PairsOf, Approval
<1>4. new = [b EXCEPT !.approvals = t, !.index = [[@ EXCEPT ![last.pair] = k] EXCEPT ![p] = 0]]
  BY DEF Revoke
<1>5. /\ t \in Seq(Approval) /\ Len(t) = n - 1
      /\ \A j \in 1..n - 1 : t[j] = IF j = k THEN b.approvals[n] ELSE b.approvals[j]
  <2>1. b.approvals \in Seq(Approval) BY <1>2 DEF BooksOfApprovals
  <2>2. QED BY <1>1, <2>1, LastTakesPlace
<1> HIDE DEF t, last
<1>6. /\ new \in BooksOfApprovals /\ new.approvals = t
      /\ new.index = [[b.index EXCEPT ![last.pair] = k] EXCEPT ![p] = 0]
      /\ new.used = b.used
  BY <1>1, <1>2, <1>3, <1>4, <1>5 DEF BooksOfApprovals
<1>7. \A j \in 1..n - 1 :
        PairsOf(new)[j] = IF j = k THEN PairsOf(b)[n] ELSE PairsOf(b)[j]
  <2>1. \A j \in 1..n - 1 : j \in 1..n BY <1>1
  <2>2. QED BY <1>3, <1>5, <1>6, <2>1 DEF PairsOf
<1>8. n - 1 \in Nat /\ Numbered(PairsOf(new), n - 1, new.index, Pair)
  <2>1. new.index = [[b.index EXCEPT ![PairsOf(b)[n]] = k] EXCEPT ![p] = 0]
    BY <1>3, <1>6
  <2>2. b.index[p] # 0 BY DEF Approved
  <2>3. Left(PairsOf(b), n, b.index, p, PairsOf(new), new.index)
    BY <1>7, <2>1 DEF Left
  <2> HIDE DEF n, k
  <2>4. QED BY <1>1, <1>2, <2>2, <2>3, NumberedWithout
<1>9. \A j \in 1..n - 1 : Explains(new.approvals[j], new.used)
  <2>1. \A j \in 1..n - 1 : j \in 1..n BY <1>1
  <2>2. QED BY <1>2, <1>3, <1>5, <1>6, <2>1
<1>10. new \in ApprovalBooks BY <1>5, <1>6, <1>8, <1>9 DEF ApprovalBooks
<1>11. new.index[p] = 0 BY <1>2, <1>6 DEF BooksOfApprovals
<1>12. QED BY <1>10, <1>11 DEF Approved

\* A pair that has no approval gets one.
LEMMA ApprovalGiven ==
  ASSUME NEW b \in ApprovalBooks, NEW p \in Pair, ~Approved(b, p),
         NEW approval \in Approval, approval.pair = p,
         approval.initial = approval.allowance,
         NEW new \in BooksOfApprovals,
         new.approvals = Append(b.approvals, approval),
         new.index = [b.index EXCEPT ![p] = Len(b.approvals) + 1],
         new.used = [b.used EXCEPT ![p] = 0]
  PROVE  new \in ApprovalBooks
<1> DEFINE n == Len(b.approvals)
<1>1. /\ b \in BooksOfApprovals /\ Numbered(PairsOf(b), n, b.index, Pair)
      /\ \A j \in 1..n : Explains(b.approvals[j], b.used) /\ b.approvals[j] \in Approval
      /\ n \in Nat /\ b.index[p] = 0
  BY DEF ApprovalBooks, BooksOfApprovals, Approved
<1>2. /\ Len(new.approvals) = n + 1 /\ new.approvals[n + 1] = approval
      /\ \A j \in 1..n : new.approvals[j] = b.approvals[j]
  BY <1>1 DEF BooksOfApprovals
<1>3. \A j \in 1..n + 1 : j \in 1..n \/ j = n + 1 BY <1>1
<1>4. \A j \in 1..n : j \in 1..n + 1 BY <1>1
<1>5. Pushed(PairsOf(b), n, b.index, p, PairsOf(new), new.index)
  <2>1. \A j \in 1..n : PairsOf(new)[j] = PairsOf(b)[j] BY <1>2, <1>4 DEF PairsOf
  <2>2. PairsOf(new)[n + 1] = p BY <1>1, <1>2 DEF PairsOf
  <2>3. QED BY <2>1, <2>2 DEF Pushed
<1> HIDE DEF n
<1>6. Numbered(PairsOf(new), n + 1, new.index, Pair) BY <1>1, <1>5, NumberedPush
<1>7. ASSUME NEW j \in 1..n + 1 PROVE Explains(new.approvals[j], new.used)
  <2>1. CASE j = n + 1
    <3>1. new.used[p] = 0 BY <1>1 DEF BooksOfApprovals
    <3>2. approval.initial - approval.allowance = 0 BY DEF Approval
    <3>3. QED BY <1>2, <2>1, <3>1, <3>2 DEF Explains
  <2>2. CASE j \in 1..n
    <3>1. b.index[p] # j BY <1>1, <2>2
    <3>2. PairsOf(b)[j] # p BY <1>1, <2>2, <3>1 DEF Numbered
    <3>3. b.approvals[j].pair \in Pair /\ b.approvals[j].pair # p
      BY <1>1, <2>2, <3>2 DEF PairsOf, Approval, n
    <3>4. new.used[b.approvals[j].pair] = b.used[b.approvals[j].pair]
      BY <1>1, <3>3 DEF BooksOfApprovals
    <3>5. QED BY <1>1, <1>2, <2>2, <3>4 DEF Explains
  <2>3. QED BY <1>3, <2>1, <2>2
<1>8. QED BY <1>2, <1>6, <1>7 DEF ApprovalBooks

LEMMA ApproveKeeps ==
  ASSUME NEW b \in ApprovalBooks, NEW p \in Pair, NEW allowance \in Nat,
         NEW expiry \in Nat, NEW time
  PROVE  Approve(b, <<p, allowance, expiry>>, time) \subseteq ApprovalBooks
<1> DEFINE approval == [pair |-> p, allowance |-> allowance,
                        initial |-> allowance, expiry |-> expiry]
           Push(book) == [approvals |-> Append(book.approvals, approval),
                          index |-> [book.index EXCEPT ![p] = Len(book.approvals) + 1],
                          used |-> [book.used EXCEPT ![p] = 0]]
<1>1. ASSUME NEW book \in ApprovalBooks, ~Approved(book, p)
      PROVE  Push(book) \in ApprovalBooks
  <2>1. approval \in Approval BY DEF Approval
  <2>2. book \in BooksOfApprovals BY DEF ApprovalBooks
  <2>3. Push(book) \in BooksOfApprovals BY <2>1, <2>2 DEF BooksOfApprovals
  <2>4. /\ Push(book).approvals = Append(book.approvals, approval)
        /\ Push(book).index = [book.index EXCEPT ![p] = Len(book.approvals) + 1]
        /\ Push(book).used = [book.used EXCEPT ![p] = 0]
        /\ approval.pair = p /\ approval.initial = approval.allowance
    OBVIOUS
  <2> HIDE DEF Push, approval
  <2>5. QED BY <1>1, <2>1, <2>3, <2>4, ApprovalGiven
<1>2. \/ Approve(b, <<p, allowance, expiry>>, time) = {}
      \/ ~Approved(b, p) /\ Approve(b, <<p, allowance, expiry>>, time) = {Push(b)}
      \/ Approve(b, <<p, allowance, expiry>>, time) = {Push(book) : book \in Revoke(b, p)}
  BY DEF Approve
<1> HIDE DEF Push
<1>3. \A book \in Revoke(b, p) : book \in ApprovalBooks /\ ~Approved(book, p)
  BY RevokeKeeps
<1>4. QED BY <1>1, <1>2, <1>3

LEMMA ModifyKeeps ==
  ASSUME NEW b \in ApprovalBooks, NEW p \in Pair, NEW expiry \in Nat,
         NEW change \in Nat, NEW increase \in BOOLEAN, NEW time
  PROVE  ModifyApproval(b, <<p, expiry, change, increase>>, time) \subseteq ApprovalBooks
<1> DEFINE k == b.index[p]
           old == ApprovalOf(b, p)
           changed == IF change = 0 THEN old
                      ELSE IF increase THEN Increased(old, change)
                      ELSE Decreased(old, change)
           approval == [changed EXCEPT !.expiry = expiry]
           new == [b EXCEPT !.approvals[k] = approval]
<1> SUFFICES ASSUME Approved(b, p), old.allowance # 0 PROVE new \in ApprovalBooks
  <2>1. ModifyApproval(b, <<p, expiry, change, increase>>, time) \subseteq {new}
        /\ (ModifyApproval(b, <<p, expiry, change, increase>>, time) # {} =>
              Approved(b, p) /\ old.allowance # 0)
    BY DEF ModifyApproval, ApprovalOf
  <2>2. QED BY <2>1
<1>1. /\ k \in 1..Len(b.approvals) /\ old \in Approval /\ old.pair = p
      /\ Explains(old, b.used) /\ b \in BooksOfApprovals
  BY ApprovalFound DEF ApprovalBooks
<1>2. /\ changed \in Approval /\ changed.pair = p /\ Explains(changed, b.used)
  <2> DEFINE al == old.allowance
             in == old.initial
             us == b.used[p]
  <2>1. al \in Nat /\ in \in Nat /\ us \in Nat /\ in - al = us /\ al # 0
    BY <1>1 DEF Approval, BooksOfApprovals, Explains
  <2>2. CASE change = 0 BY <1>1, <2>2
  <2>3. CASE change # 0 /\ increase
    <3>1. /\ changed = [old EXCEPT !.allowance = al + change, !.initial = in + change]
      BY <2>3 DEF Increased
    <3> HIDE DEF changed, al, in
    <3>2. /\ al + change \in Nat /\ in + change \in Nat
          /\ (in + change) - (al + change) = us
      BY <2>1
    <3>3. /\ changed \in Approval /\ changed.pair = p /\ changed.allowance = al + change
          /\ changed.initial = in + change
      BY <1>1, <3>1, <3>2 DEF Approval
    <3> HIDE DEF us
    <3>4. QED BY <3>2, <3>3 DEF Explains, us
  <2>4. CASE change # 0 /\ ~increase /\ change < al
    <3>1. /\ changed = [old EXCEPT !.allowance = al - change, !.initial = in - change]
      BY <2>4 DEF Decreased
    <3>2. al - change \in Nat /\ in - change \in Nat /\ (in - change) - (al - change) = us
      <4> HIDE DEF al, in, us
      <4> QED BY <2>1, <2>4
    <3>3. /\ changed \in Approval /\ changed.pair = p /\ changed.allowance = al - change
          /\ changed.initial = in - change
      BY <1>1, <3>1, <3>2 DEF Approval
    <3> HIDE DEF changed, al, in, us
    <3>4. QED BY <3>2, <3>3 DEF Explains, us
  <2>5. CASE change # 0 /\ ~increase /\ ~(change < al)
    <3> DEFINE left == IF change >= in THEN 0 ELSE in - al
    <3>1. changed = [old EXCEPT !.allowance = 0, !.initial = left]
      BY <2>5 DEF Decreased
    <3>2. left \in Nat /\ (left = 0 \/ left - 0 = us)
      <4> HIDE DEF al, in, us
      <4> QED BY <2>1, <2>5
    <3> HIDE DEF left, changed, al, in
    <3>3. /\ changed \in Approval /\ changed.pair = p /\ changed.allowance = 0
          /\ changed.initial = left
      BY <1>1, <3>1, <3>2 DEF Approval
    <3> HIDE DEF us
    <3>4. QED BY <3>2, <3>3 DEF Explains, us
  <2>6. QED BY <2>2, <2>3, <2>4, <2>5
<1> HIDE DEF changed
<1>3. /\ approval \in Approval /\ approval.pair = p /\ Explains(approval, b.used)
  BY <1>2 DEF Approval, Explains
<1> HIDE DEF approval, old
<1>4. /\ new \in BooksOfApprovals
      /\ new.approvals = [b.approvals EXCEPT ![k] = approval]
      /\ new.index = b.index /\ new.used = b.used
  <2> DEFINE list == [b.approvals EXCEPT ![k] = approval]
  <2>1. b.approvals \in Seq(Approval) BY <1>1 DEF BooksOfApprovals
  <2>2. list \in Seq(Approval) BY <1>1, <1>3, <2>1
  <2>3. new = [b EXCEPT !.approvals = list] OBVIOUS
  <2> HIDE DEF list, new
  <2>4. new \in BooksOfApprovals /\ new.approvals = list /\ new.index = b.index
        /\ new.used = b.used
    BY <1>1, <2>2, <2>3 DEF BooksOfApprovals
  <2>5. QED BY <2>4 DEF list
<1> HIDE DEF new
<1>5. QED BY <1>3, <1>4, ApprovalChanges DEF k

LEMMA UseKeeps ==
  ASSUME NEW b \in ApprovalBooks, NEW p \in Pair, NEW amount \in Nat, NEW time
  PROVE  Use(b, p, amount, time) \in ApprovalBooks
<1> DEFINE k == b.index[p]
           old == ApprovalOf(b, p)
           al == old.allowance
           in == old.initial
           us == b.used[p]
           approval == [old EXCEPT !.allowance = al - amount]
           new == [b EXCEPT !.approvals[k] = approval, !.used[p] = us + amount]
<1> SUFFICES ASSUME Approved(b, p), al >= amount PROVE new \in ApprovalBooks
  <2>1. Use(b, p, amount, time) = b \/ (Approved(b, p) /\ al >= amount)
    BY DEF Use
  <2>2. Use(b, p, amount, time) = b \/ Use(b, p, amount, time) = new
    BY DEF Use, ApprovalOf
  <2>3. QED BY <2>1, <2>2
<1>1. /\ k \in 1..Len(b.approvals) /\ old \in Approval /\ old.pair = p
      /\ Explains(old, b.used) /\ b \in BooksOfApprovals
  BY ApprovalFound DEF ApprovalBooks
<1>2. /\ al \in Nat /\ in \in Nat /\ us \in Nat
      /\ in - al = us \/ (in = 0 /\ al = 0)
  BY <1>1 DEF Approval, BooksOfApprovals, Explains
<1>3. /\ al - amount \in Nat
      /\ in - (al - amount) = us + amount \/ (in = 0 /\ al - amount = 0)
  <2> HIDE DEF al, in, us
  <2> QED BY <1>2
<1>4. /\ approval \in Approval /\ approval.pair = p /\ approval.allowance = al - amount
      /\ approval.initial = in
  BY <1>1, <1>3 DEF Approval
<1> HIDE DEF approval, old
<1>5. /\ new \in BooksOfApprovals
      /\ new.approvals = [b.approvals EXCEPT ![k] = approval]
      /\ new.index = b.index
      /\ new.used = [b.used EXCEPT ![p] = us + amount]
  <2> DEFINE list == [b.approvals EXCEPT ![k] = approval]
             sum == us + amount
  <2>1. b.approvals \in Seq(Approval) BY <1>1 DEF BooksOfApprovals
  <2>2. list \in Seq(Approval) BY <1>1, <1>4, <2>1
  <2>3. sum \in Nat BY <1>2
  <2>4. new = [b EXCEPT !.approvals = list, !.used[p] = sum] OBVIOUS
  <2> HIDE DEF list, sum, new
  <2>5. /\ new \in BooksOfApprovals /\ new.approvals = list /\ new.index = b.index
        /\ new.used = [b.used EXCEPT ![p] = sum]
    BY <1>1, <2>2, <2>3, <2>4 DEF BooksOfApprovals
  <2>6. QED BY <2>5 DEF list, sum
<1> HIDE DEF new
<1>6. new.used[p] = us + amount /\ \A q \in Pair : q # p => new.used[q] = b.used[q]
  BY <1>1, <1>5 DEF BooksOfApprovals
<1>7. Explains(approval, new.used)
  <2> HIDE DEF al, in, us
  <2> QED BY <1>3, <1>4, <1>6 DEF Explains
<1>8. QED BY <1>4, <1>5, <1>6, <1>7, ApprovalChanges DEF k

LEMMA ApprovalRecordKeeps ==
  ASSUME NEW b \in ApprovalBooks, NEW op \in ApprovalOps, NEW row \in ApprovalRows(op),
         NEW time
  PROVE  ApprovalsChange(b, op, row, time) \subseteq ApprovalBooks
<1>1. CASE op = "approve"
  <2>1. PICK p \in Pair, allowance \in Nat, expiry \in Nat : row = <<p, allowance, expiry>>
    BY <1>1 DEF ApprovalRows
  <2>2. QED BY <1>1, <2>1, ApproveKeeps DEF ApprovalsChange
<1>2. CASE op = "modifyApproval"
  <2>1. PICK p \in Pair, expiry \in Nat, change \in Nat, increase \in BOOLEAN :
          row = <<p, expiry, change, increase>>
    BY <1>2 DEF ApprovalRows
  <2>2. QED BY <1>2, <2>1, ModifyKeeps DEF ApprovalsChange
<1>3. CASE op = "revoke"
  <2>1. PICK p \in Pair : row = <<p>> BY <1>3 DEF ApprovalRows
  <2>2. QED BY <1>3, <2>1, RevokeKeeps DEF ApprovalsChange
<1>4. QED BY <1>1, <1>2, <1>3 DEF ApprovalOps

\* Any call, whenever it is mined.
LEMMA ApprovalCallKeeps ==
  ASSUME NEW b \in ApprovalBooks, NEW call \in ApprovalCalls, NEW time
  PROVE  ApprovalsAfter(b, call, time) \subseteq ApprovalBooks
<1> DEFINE rows == call.rows
           op == call.op
           n == Len(rows)
           step == [k \in 1..n |-> [s \in ApprovalBooks |->
                                     ApprovalsChange(s, op, rows[k], time)]]
           Is(g) == g = [k \in 0..n |->
                           IF k = 0 THEN {b}
                           ELSE UNION {ApprovalsChange(s, op, rows[k], time) : s \in g[k - 1]}]
           after == CHOOSE g : Is(g)
<1>1. op \in ApprovalOps /\ rows \in Seq(ApprovalRows(op))
  BY DEF ApprovalCalls, CallOf
<1>2. n \in Nat /\ \A k \in 1..n : rows[k] \in ApprovalRows(op) BY <1>1
<1>3. ApprovalsAfter(b, call, time) = after[n] BY DEF ApprovalsAfter, InTurn
<1> HIDE DEF rows, op, n, after
<1>4. \A k \in 1..n : \A s \in ApprovalBooks :
        ApprovalsChange(s, op, rows[k], time) \subseteq ApprovalBooks
  BY <1>1, <1>2, ApprovalRecordKeeps
<1>5. step \in [1..n -> [ApprovalBooks -> SUBSET ApprovalBooks]] BY <1>4
<1>6. PICK f : AreTurns(f, n, ApprovalBooks, b, step)
  <2> HIDE DEF step
  <2> QED BY <1>2, <1>5, TurnsExist
<1>7. Is(f)
  <2>1. ASSUME NEW k \in 1..n
        PROVE  f[k] = UNION {ApprovalsChange(s, op, rows[k], time) : s \in f[k - 1]}
    <3>1. k - 1 \in 0..n BY <1>2
    <3>2. f[k - 1] \subseteq ApprovalBooks BY <1>6, <3>1 DEF AreTurns
    <3>3. \A s \in f[k - 1] : step[k][s] = ApprovalsChange(s, op, rows[k], time) BY <3>2
    <3> HIDE DEF step
    <3>4. QED BY <1>6, <3>3 DEF AreTurns
  <2>2. \A k \in 0..n : k # 0 => k \in 1..n BY <1>2
  <2>3. QED BY <1>6, <2>1, <2>2 DEF AreTurns
<1>8. Is(after)
  <2> HIDE DEF Is
  <2> QED BY <1>7 DEF after
<1>9. \A k \in 1..n :
        after[k - 1] \in SUBSET ApprovalBooks => after[k] \in SUBSET ApprovalBooks
  <2> SUFFICES ASSUME NEW k \in 1..n, after[k - 1] \in SUBSET ApprovalBooks
               PROVE  after[k] \in SUBSET ApprovalBooks
    OBVIOUS
  <2>1. after[k] = UNION {ApprovalsChange(s, op, rows[k], time) : s \in after[k - 1]}
    <3>1. k \in 0..n /\ k # 0 BY <1>2
    <3>2. QED BY <1>8, <3>1
  <2>2. QED BY <1>4, <2>1
<1>10. after[0] \in SUBSET ApprovalBooks BY <1>2, <1>8
<1>11. \A k \in 0..n : after[k] \in SUBSET ApprovalBooks BY <1>2, <1>9, <1>10, LoopKeeps
<1>12. QED BY <1>2, <1>3, <1>11


\* What the program has shown, and the files it reads.
ApprovalsShown == [place \in {"manage"} |-> Approval]

ApprovalsInv ==
  current = "manual" =>
    /\ contract \in ApprovalBooks
    /\ Sessions([c \in Client |-> ApprovalCalls], ApprovalsShown)

LEMMA OneApprovalCall ==
  ASSUME NEW op \in ApprovalOps, NEW row \in ApprovalRows(op)
  PROVE  One(op, row) \in Seq(ApprovalCalls)
<1>1. CallOf(op, ApprovalRows(op)) \subseteq ApprovalCalls BY DEF ApprovalCalls
<1>2. QED BY <1>1, OneIsCall

LEMMA ApprovalFileCalls ==
  ASSUME NEW op \in ApprovalOps, NEW data \in Seq(ApprovalRows(op)),
         NEW size \in ApprovalBatch
  PROVE  CallsOf(op, data, size) \in Seq(ApprovalCalls)
<1> DEFINE Entry == Pair \cup Nat \cup BOOLEAN
<1>1. CallOf(op, ApprovalRows(op)) \subseteq ApprovalCalls BY DEF ApprovalCalls
<1>2. size \in Nat \ {0} BY ApprovalsAssumption
<1>3. /\ op = "approve" => ApprovalRows(op) \subseteq [1..3 -> Entry]
      /\ op = "modifyApproval" => ApprovalRows(op) \subseteq [1..4 -> Entry]
      /\ op = "revoke" => ApprovalRows(op) \subseteq [1..1 -> Entry]
  BY DEF ApprovalRows
<1> HIDE DEF Entry
<1>4. PICK width \in Nat \ {0} : ApprovalRows(op) \subseteq [1..width -> Entry]
  <2>1. 1 \in Nat \ {0} /\ 3 \in Nat \ {0} /\ 4 \in Nat \ {0} OBVIOUS
  <2>2. op = "approve" \/ op = "modifyApproval" \/ op = "revoke" BY DEF ApprovalOps
  <2>3. QED BY ONLY <1>3, <2>1, <2>2, Zenon
<1>5. QED BY <1>1, <1>2, <1>4, CallsHoldRecords

\* The operator enters what no other module needs: numbers, and files of records.
LEMMA MatmGenericCsvKeeps ==
  ASSUME Sessions([d \in Client |-> ApprovalCalls], ApprovalsShown),
         NEW c \in Client, NEW op \in ApprovalOps, NEW columns, NEW files,
         MatmGenericCsv(c, op, columns, files),
         files \subseteq Seq(ApprovalRecord),
         \A r \in ApprovalRecord : [x \in DOMAIN columns |-> r[columns[x]]] \in ApprovalRows(op)
  PROVE  Sessions([d \in Client |-> ApprovalCalls], ApprovalsShown)' /\ SameContract
<1> DEFINE all == [d \in Client |-> ApprovalCalls]
           fields(r) == [x \in DOMAIN columns |-> r[columns[x]]]
<1>1. PICK rows \in files, size \in ApprovalBatch :
        Begin(c, CallsOf(op, [k \in DOMAIN rows |-> fields(rows[k])], size), {})
  BY DEF MatmGenericCsv
<1>2. rows \in Seq(ApprovalRecord) OBVIOUS
<1>3. \A r \in ApprovalRecord : fields(r) \in ApprovalRows(op) OBVIOUS
<1> HIDE DEF fields
<1> DEFINE data == [k \in DOMAIN rows |-> fields(rows[k])]
           list == CallsOf(op, data, size)
<1>4. data \in Seq(ApprovalRows(op)) BY <1>2, <1>3
<1> HIDE DEF data
<1>5. list \in Seq(ApprovalCalls) BY <1>4, ApprovalFileCalls
<1>6. Begin(c, list, {}) BY <1>1 DEF data
<1> HIDE DEF list
<1>7. Sessions(all, ApprovalsShown) /\ all[c] = ApprovalCalls OBVIOUS
<1> HIDE DEF all
<1>8. Sessions(all, ApprovalsShown)' /\ SameContract BY <1>5, <1>6, <1>7, Begins
<1>9. all' = all BY DEF all
<1>10. QED BY <1>8 DEF all

\* What a program does that manages approvals.
LEMMA ApprovalsStepKeeps ==
  ASSUME ApprovalsInv, NEW c \in Client, ApprovalsStep(c)
  PROVE  ApprovalsInv'
<1> DEFINE calls == [d \in Client |-> ApprovalCalls]
           Kept == contract' \in ApprovalBooks /\ Sessions(calls, ApprovalsShown)'
<1>1. /\ current = "manual" /\ contract \in ApprovalBooks
      /\ Sessions(calls, ApprovalsShown) /\ calls[c] = ApprovalCalls
  BY DEF ApprovalsStep, ApprovalsInv
<1>2. SUFFICES Kept
  <2>1. calls' = calls OBVIOUS
  <2>2. QED BY <2>1 DEF ApprovalsInv
<1>3. /\ Amount \subseteq Nat /\ Expiry \subseteq Nat
      /\ ApprovalFile \subseteq Seq(ApprovalRecord)
  BY ApprovalsAssumption
<1>4. ASSUME NEW op \in ApprovalOps, NEW columns, NEW files,
             MatmGenericCsv(c, op, columns, files), files \subseteq Seq(ApprovalRecord),
             \A r \in ApprovalRecord :
               [x \in DOMAIN columns |-> r[columns[x]]] \in ApprovalRows(op)
      PROVE  Kept
  BY <1>1, <1>4, MatmGenericCsvKeeps DEF SameContract
<1> HIDE DEF calls
<1>5. ASSUME NEW list \in Seq(ApprovalCalls), NEW about, Begin(c, list, about) PROVE Kept
  BY <1>1, <1>5, Begins DEF SameContract
<1>6. CASE MatmAdd(c)
  <2>1. PICK p \in Pair, allowance \in Amount, expiry \in Expiry :
          Begin(c, One("approve", <<p, allowance, expiry>>), {})
    BY <1>6 DEF MatmAdd
  <2>2. One("approve", <<p, allowance, expiry>>) \in Seq(ApprovalCalls)
    BY <1>3, OneApprovalCall DEF ApprovalOps, ApprovalRows
  <2>3. QED BY <1>5, <2>1, <2>2
<1>7. CASE MatmManage(c)
  <2>1. PICK approval \in ReadApprovals : Show(c, "manage", {approval})
    BY <1>7 DEF MatmManage
  <2>2. approval \in Approval
    BY <1>1 DEF ReadApprovals, ApprovalBooks, BooksOfApprovals, ToSet
  <2>3. {approval} # {} /\ {approval} \subseteq ApprovalsShown["manage"]
    BY <2>2 DEF ApprovalsShown
  <2>4. QED BY <1>1, <2>1, <2>3, Shows DEF SameContract
<1>8. CASE MatmOperate(c)
  <2>1. WithAllowance \subseteq Seq(ApprovalRecord)
    <3>1. ASSUME NEW f \in ApprovalFile, NEW wanted \in SUBSET ApprovalRecord
          PROVE  RowsIn(f, wanted) \in Seq(ApprovalRecord)
      <4>1. RowsIn(f, wanted) \in Seq(ApprovalRecord \cap wanted)
        BY <1>3, WantedRecords
      <4>2. QED BY <4>1
    <3>2. \A f \in ApprovalFile : ToSet(f) \subseteq ApprovalRecord BY <1>3 DEF ToSet
    <3>3. QED BY <3>1, <3>2 DEF WithAllowance
  <2>2. ASSUME NEW r \in ApprovalRecord
        PROVE  /\ LET columns == <<"pair", "allowance", "expiry">>
                  IN  [x \in DOMAIN columns |-> r[columns[x]]] \in ApprovalRows("approve")
               /\ LET columns == <<"pair", "expiry", "allowance", "increase">>
                  IN  [x \in DOMAIN columns |-> r[columns[x]]]
                        \in ApprovalRows("modifyApproval")
               /\ LET columns == <<"pair">>
                  IN  [x \in DOMAIN columns |-> r[columns[x]]] \in ApprovalRows("revoke")
    BY DEF ApprovalRecord, ApprovalRows
  <2>3. CASE AddManualApproveInBatch(c)
    BY <1>4, <2>1, <2>2, <2>3 DEF AddManualApproveInBatch, ApprovalOps
  <2>4. CASE ModifyManualApproveInBatch(c)
    BY <1>4, <2>1, <2>2, <2>4 DEF ModifyManualApproveInBatch, ApprovalOps
  <2>5. CASE RevokeManualApproveInBatch(c)
    BY <1>3, <1>4, <2>2, <2>5 DEF RevokeManualApproveInBatch, ApprovalOps
  <2>6. QED BY <1>8, <2>3, <2>4, <2>5 DEF MatmOperate
<1>9. ASSUME At(c, "manage") PROVE Shown(c) \in Approval
  <2>1. "manage" \in DOMAIN ApprovalsShown BY DEF ApprovalsShown
  <2>2. Shown(c) \in ApprovalsShown["manage"] BY <1>1, <1>9, <2>1, ShownIsShown
  <2>3. QED BY <2>2 DEF ApprovalsShown
<1>10. ASSUME At(c, "manage"), NEW expiry \in ReadExpiryTime(c), NEW change \in Nat,
              NEW increase \in BOOLEAN, ModifyShown(c, expiry, change, increase)
       PROVE  Kept
  <2>1. Shown(c).pair \in Pair /\ expiry \in Nat
    BY <1>3, <1>9, <1>10 DEF ReadExpiryTime, Approval
  <2> DEFINE row == <<Shown(c).pair, expiry, change, increase>>
  <2>2. One("modifyApproval", row) \in Seq(ApprovalCalls)
    BY <2>1, OneApprovalCall DEF ApprovalOps, ApprovalRows
  <2>3. Begin(c, One("modifyApproval", row), session[c].about) BY <1>10 DEF ModifyShown
  <2>4. QED BY <1>5, <2>2, <2>3
<1>11. CASE At(c, "manage") /\ (MatmManageIncrese(c) \/ MatmManageDecrease(c)
                                  \/ MatmManageTimeOrDescription(c))
  <2>1. PICK change \in Nat, expiry \in ReadExpiryTime(c), increase \in BOOLEAN :
          ModifyShown(c, expiry, change, increase)
    BY <1>3, <1>11 DEF MatmManageIncrese, MatmManageDecrease, MatmManageTimeOrDescription
  <2>2. QED BY <1>10, <1>11, <2>1
<1>12. CASE At(c, "manage") /\ MatmManageRevoke(c)
  <2>1. Shown(c).pair \in Pair BY <1>9, <1>12 DEF Approval
  <2>2. One("revoke", <<Shown(c).pair>>) \in Seq(ApprovalCalls)
    BY <2>1, OneApprovalCall DEF ApprovalOps, ApprovalRows
  <2>3. QED BY <1>5, <1>12, <2>2 DEF MatmManageRevoke
<1>13. CASE Send(c, ApprovalsCallAfter(ToSend(c)))
  BY <1>1, <1>13, Sends DEF SameContract
<1>14. ASSUME NEW call \in mempool[c], Mine(c, ApprovalsCallAfter(call)) PROVE Kept
  <2>1. call \in ApprovalCalls BY <1>1 DEF Sessions
  <2>2. ApprovalsCallAfter(call) \subseteq ApprovalBooks
    BY <1>1, <2>1, ApprovalCallKeeps DEF ApprovalsCallAfter
  <2>3. QED BY <1>1, <1>14, <2>2, Mines
<1>15. QED
  BY <1>6, <1>7, <1>8, <1>11, <1>12, <1>13, <1>14
  DEF ApprovalsStep, ManualApprovalTransferManager

LEMMA ApprovalsAtFirst == Init => ApprovalsInv
<1> SUFFICES ASSUME Init, current = "manual"
             PROVE  /\ contract \in ApprovalBooks
                    /\ Sessions([c \in Client |-> ApprovalCalls], ApprovalsShown)
  BY DEF ApprovalsInv
<1>1. contract = NoApprovals
  BY DEF Init, ConfigExistingModules, ListsInit, Lists, ApprovalsInit, RestrictionsInit,
     GeneralInit, LimitsInit, RegistryInit, PermissionsInit, WalletInit, ModulesInit,
     IssuanceInit
<1>2. NoApprovals \in ApprovalBooks
  <2>1. NoApprovals \in BooksOfApprovals BY DEF NoApprovals, BooksOfApprovals
  <2>2. NoApprovals.approvals = << >> /\ \A p \in Pair : NoApprovals.index[p] = 0
    BY DEF NoApprovals
  <2>3. Numbered(PairsOf(NoApprovals), 0, NoApprovals.index, Pair)
    BY <2>1, <2>2 DEF Numbered, BooksOfApprovals
  <2>4. Len(NoApprovals.approvals) = 0 BY <2>2
  <2>5. QED BY <2>1, <2>3, <2>4 DEF ApprovalBooks
<1>3. SessionInit BY DEF Init
<1>4. DOMAIN ApprovalsShown \cap {"menu", "sending", "waiting"} = {} BY DEF ApprovalsShown
<1>5. Sessions([c \in Client |-> ApprovalCalls], ApprovalsShown)
  BY <1>3, <1>4, SessionsAtFirst
<1>6. QED BY <1>1, <1>2, <1>5

LEMMA ApprovalsKept == ApprovalsInv /\ [Next]_sessionVars => ApprovalsInv'
<1> SUFFICES ASSUME ApprovalsInv, [Next]_sessionVars PROVE ApprovalsInv'
  OBVIOUS
<1>1. CASE current = "manual"
  <2>1. CASE \E c \in Client : ApprovalsStep(c) BY <2>1, ApprovalsStepKeeps
  <2>2. CASE ApprovedTransfer
    <3>1. PICK p \in Pair, amount \in Amount : contract' = Use(contract, p, amount, now)
      BY <2>2 DEF ApprovedTransfer
    <3>2. contract \in ApprovalBooks /\ amount \in Nat
      BY <1>1, ApprovalsAssumption DEF ApprovalsInv
    <3>3. contract' \in ApprovalBooks BY <3>1, <3>2, UseKeeps
    <3>4. UNCHANGED <<session, mempool>> BY <2>2 DEF ApprovedTransfer
    <3>5. QED BY <1>1, <3>3, <3>4 DEF ApprovalsInv, Sessions
  <2>3. CASE (\E c \in Client : Kill(c)) \/ UNCHANGED sessionVars \/ Tick
    BY <1>1, <2>3, CommonSteps DEF ApprovalsInv
  <2>4. QED BY <1>1, <2>1, <2>2, <2>3, StepsOf
<1>2. CASE current # "manual" BY <1>2, ModuleStays DEF ApprovalsInv
<1>3. QED BY <1>1, <1>2

\* ManualApprovalTransferManager keeps the array of approvals and its index in
\* agreement, whatever two operators approve and revoke side by side.
THEOREM ApprovalsAlwaysAgree == Spec => []ApprovalsAgree
<1>1. ApprovalsInv => ApprovalsAgree
  <2> SUFFICES ASSUME contract \in ApprovalBooks, NEW p \in Pair,
                      NEW k \in 1..Cardinality(Pair)
               PROVE  (contract.index[p] = k) <=>
                        (k <= Len(contract.approvals) /\ contract.approvals[k].pair = p)
    BY DEF ApprovalsInv, ApprovalsAgree
  <2> DEFINE n == Len(contract.approvals)
  <2>1. Numbered(PairsOf(contract), n, contract.index, Pair) /\ n \in Nat
    BY DEF ApprovalBooks, BooksOfApprovals
  <2>2. k \in Nat \ {0}
    <3>1. Cardinality(Pair) \in Nat BY ApprovalsAssumption, FS_CardinalityType
    <3>2. QED BY <3>1
  <2>3. CASE k <= n
    <3>1. k \in 1..n BY <2>1, <2>2, <2>3
    <3>2. QED BY <2>1, <2>3, <3>1 DEF Numbered, PairsOf
  <2>4. CASE ~(k <= n)
    <3>1. contract.index[p] \in 0..n BY <2>1 DEF Numbered
    <3>2. contract.index[p] # k BY <2>1, <2>2, <2>4, <3>1
    <3>3. QED BY <2>4, <3>2
  <2>5. QED BY <2>3, <2>4
<1>2. QED BY <1>1, ApprovalsAtFirst, ApprovalsKept, PTL DEF Spec

\* And what the program shows of an approval tells what was used of it, however
\* often it was increased and decreased while tokens were transferred.
THEOREM UsedIsAlwaysShown == Spec => []UsedIsShown
<1>1. ApprovalsInv => UsedIsShown
  <2> SUFFICES ASSUME contract \in ApprovalBooks, NEW k \in DOMAIN contract.approvals
               PROVE  Explains(contract.approvals[k], contract.used)
    BY DEF ApprovalsInv, UsedIsShown, Explains
  <2>1. k \in 1..Len(contract.approvals) BY DEF ApprovalBooks, BooksOfApprovals
  <2>2. QED BY <2>1 DEF ApprovalBooks
<1>2. QED BY <1>1, ApprovalsAtFirst, ApprovalsKept, PTL DEF Spec

-----------------------------------------------------------------------------
(* Volume restrictions.                                                    *)

BooksOfRestrictions ==
  [daily : [Subject -> Nat], custom : [Subject -> Nat],
   periods : [Holder -> {"OneDay", "MultipleDays", "Both"}], listed : SUBSET Holder,
   exempt : Seq(Holder), exemptIndex : [Holder -> Nat], patched : SUBSET Subject]

\* A holder with a restriction is listed, with a type of period that has it.
Told(b, h) ==
  h \notin b.patched =>
    /\ b.daily[h] # 0 => h \in b.listed /\ b.periods[h] # "MultipleDays"
    /\ b.custom[h] # 0 => h \in b.listed /\ b.periods[h] # "OneDay"

RestrictionBooks ==
  {b \in BooksOfRestrictions :
     /\ Numbered(b.exempt, Len(b.exempt), b.exemptIndex, Holder)
     /\ \A h \in Holder : Told(b, h)}

RestrictionRows(op) ==
  CASE op \in {"addDaily", "addCustom", "modifyDaily", "modifyCustom"} -> Subject \X Nat
    [] op \in {"removeDaily", "removeCustom"} -> {<<s>> : s \in Subject}
    [] op = "exempt" -> Holder \X BOOLEAN

RestrictionOps ==
  {"addDaily", "addCustom", "modifyDaily", "modifyCustom", "removeDaily", "removeCustom",
   "exempt"}

RestrictionCalls == UNION {CallOf(op, RestrictionRows(op)) : op \in RestrictionOps}

\* Only what is known of one subject changes.
OfOne(b, new, s) ==
  /\ new \in BooksOfRestrictions
  /\ new.exempt = b.exempt /\ new.exemptIndex = b.exemptIndex
  /\ \A h \in Holder \ {s} :
       /\ new.daily[h] = b.daily[h] /\ new.custom[h] = b.custom[h]
       /\ new.periods[h] = b.periods[h] /\ (h \in new.listed <=> h \in b.listed)
       /\ h \in new.patched <=> h \in b.patched

LEMMA RestrictionChanges ==
  ASSUME NEW b \in RestrictionBooks, NEW s, NEW new, OfOne(b, new, s),
         s \in Holder => Told(new, s)
  PROVE  new \in RestrictionBooks
<1>1. /\ new \in BooksOfRestrictions
      /\ Numbered(new.exempt, Len(new.exempt), new.exemptIndex, Holder)
  BY DEF OfOne, RestrictionBooks
<1>2. ASSUME NEW h \in Holder PROVE Told(new, h)
  <2>1. CASE h = s BY <2>1
  <2>2. CASE h # s
    <3>1. Told(b, h) BY DEF RestrictionBooks
    <3>2. QED BY <2>2, <3>1 DEF OfOne, Told
  <2>3. QED BY <2>1, <2>2
<1>3. QED BY <1>1, <1>2 DEF RestrictionBooks

\* The default ones are nobody's.
LEMMA DefaultChanges ==
  ASSUME NEW b \in RestrictionBooks, NEW at \in Nat
  PROVE  /\ [b EXCEPT !.daily[Default] = at] \in RestrictionBooks
         /\ [b EXCEPT !.custom[Default] = at] \in RestrictionBooks
<1>1. Default \notin Holder /\ Default \in Subject /\ b \in BooksOfRestrictions
  BY RestrictionsAssumption DEF Subject, RestrictionBooks
<1>2. \A h \in Holder : h \in Subject /\ h # Default BY <1>1 DEF Subject
<1>3. OfOne(b, [b EXCEPT !.daily[Default] = at], Default)
  BY <1>1, <1>2 DEF OfOne, BooksOfRestrictions
<1>4. OfOne(b, [b EXCEPT !.custom[Default] = at], Default)
  BY <1>1, <1>2 DEF OfOne, BooksOfRestrictions
<1>5. QED BY <1>1, <1>3, <1>4, RestrictionChanges

\* A restriction of a holder is removed, and the other one is left to him.
LEMMA RemoveKeeps ==
  ASSUME NEW b \in RestrictionBooks, NEW s \in Subject
  PROVE  RemoveDaily(b, s) \subseteq RestrictionBooks
         /\ RemoveCustom(b, s) \subseteq RestrictionBooks
<1>1. b \in BooksOfRestrictions BY DEF RestrictionBooks
<1>2. CASE s = Default
  BY <1>2, DefaultChanges DEF RemoveDaily, RemoveCustom
<1>3. CASE s # Default
  <2>1. s \in Holder /\ Told(b, s) BY <1>3 DEF Subject, RestrictionBooks
  <2>2. \A h \in Holder : h \in Subject BY DEF Subject
  <2>3. ASSUME OneDay(b, s) PROVE RemoveDaily(b, s) \subseteq RestrictionBooks
    <3> DEFINE removed == [b EXCEPT !.daily[s] = 0]
               new == DeleteHolderFromList(removed, s, "MultipleDays")
    <3>1. RemoveDaily(b, s) = {new} BY <1>3, <2>3 DEF RemoveDaily
    <3>2. /\ removed \in BooksOfRestrictions
          /\ removed.daily = [b.daily EXCEPT ![s] = 0] /\ removed.custom = b.custom
          /\ removed.periods = b.periods /\ removed.listed = b.listed
          /\ removed.exempt = b.exempt /\ removed.exemptIndex = b.exemptIndex
          /\ removed.patched = b.patched
      BY <1>1 DEF BooksOfRestrictions
    <3> HIDE DEF removed
    <3>3. CASE b.periods[s] # "Both"
      <4>1. new = [removed EXCEPT !.listed = @ \ {s}]
        BY <3>2, <3>3 DEF DeleteHolderFromList
      <4> HIDE DEF new
      <4>2. /\ new \in BooksOfRestrictions /\ new.listed = b.listed \ {s}
            /\ new.daily = removed.daily /\ new.custom = removed.custom
            /\ new.periods = b.periods /\ new.patched = b.patched
            /\ new.exempt = b.exempt /\ new.exemptIndex = b.exemptIndex
        BY <3>2, <4>1 DEF BooksOfRestrictions
      <4>3. OfOne(b, new, s) /\ new.daily[s] = 0 /\ new.custom[s] = b.custom[s]
        BY <1>1, <2>1, <2>2, <3>2, <4>2 DEF OfOne, BooksOfRestrictions
      <4>4. b.periods[s] = "OneDay" \/ b.periods[s] = "MultipleDays"
        BY <1>1, <2>1, <3>3 DEF BooksOfRestrictions
      <4>5. Told(new, s) BY <2>1, <2>3, <4>2, <4>3, <4>4 DEF Told, OneDay
      <4>6. QED BY <3>1, <4>3, <4>5, RestrictionChanges
    <3>4. CASE b.periods[s] = "Both"
      <4>1. new = [removed EXCEPT !.periods[s] = "MultipleDays"]
        BY <3>2, <3>4 DEF DeleteHolderFromList
      <4> HIDE DEF new
      <4>2. /\ new \in BooksOfRestrictions /\ new.listed = b.listed
            /\ new.daily = removed.daily /\ new.custom = removed.custom
            /\ new.periods = [b.periods EXCEPT ![s] = "MultipleDays"]
            /\ new.patched = b.patched
            /\ new.exempt = b.exempt /\ new.exemptIndex = b.exemptIndex
        BY <3>2, <4>1 DEF BooksOfRestrictions
      <4>3. /\ OfOne(b, new, s) /\ new.daily[s] = 0 /\ new.custom[s] = b.custom[s]
            /\ new.periods[s] = "MultipleDays"
        BY <1>1, <2>1, <2>2, <3>2, <4>2 DEF OfOne, BooksOfRestrictions
      <4>4. Told(new, s) BY <2>1, <4>2, <4>3 DEF Told
      <4>5. QED BY <3>1, <4>3, <4>4, RestrictionChanges
    <3>5. QED BY <3>3, <3>4
  <2>4. ASSUME MultipleDays(b, s) PROVE RemoveCustom(b, s) \subseteq RestrictionBooks
    <3> DEFINE removed == [b EXCEPT !.custom[s] = 0]
               new == DeleteHolderFromList(removed, s, "OneDay")
    <3>1. RemoveCustom(b, s) = {new} BY <1>3, <2>4 DEF RemoveCustom
    <3>2. /\ removed \in BooksOfRestrictions
          /\ removed.custom = [b.custom EXCEPT ![s] = 0] /\ removed.daily = b.daily
          /\ removed.periods = b.periods /\ removed.listed = b.listed
          /\ removed.exempt = b.exempt /\ removed.exemptIndex = b.exemptIndex
          /\ removed.patched = b.patched
      BY <1>1 DEF BooksOfRestrictions
    <3> HIDE DEF removed
    <3>3. CASE b.periods[s] # "Both"
      <4>1. new = [removed EXCEPT !.listed = @ \ {s}]
        BY <3>2, <3>3 DEF DeleteHolderFromList
      <4> HIDE DEF new
      <4>2. /\ new \in BooksOfRestrictions /\ new.listed = b.listed \ {s}
            /\ new.daily = removed.daily /\ new.custom = removed.custom
            /\ new.periods = b.periods /\ new.patched = b.patched
            /\ new.exempt = b.exempt /\ new.exemptIndex = b.exemptIndex
        BY <3>2, <4>1 DEF BooksOfRestrictions
      <4>3. OfOne(b, new, s) /\ new.custom[s] = 0 /\ new.daily[s] = b.daily[s]
        BY <1>1, <2>1, <2>2, <3>2, <4>2 DEF OfOne, BooksOfRestrictions
      <4>4. b.periods[s] = "OneDay" \/ b.periods[s] = "MultipleDays"
        BY <1>1, <2>1, <3>3 DEF BooksOfRestrictions
      <4>5. Told(new, s) BY <2>1, <2>4, <4>2, <4>3, <4>4 DEF Told, MultipleDays
      <4>6. QED BY <3>1, <4>3, <4>5, RestrictionChanges
    <3>4. CASE b.periods[s] = "Both"
      <4>1. new = [removed EXCEPT !.periods[s] = "OneDay"]
        BY <3>2, <3>4 DEF DeleteHolderFromList
      <4> HIDE DEF new
      <4>2. /\ new \in BooksOfRestrictions /\ new.listed = b.listed
            /\ new.daily = removed.daily /\ new.custom = removed.custom
            /\ new.periods = [b.periods EXCEPT ![s] = "OneDay"]
            /\ new.patched = b.patched
            /\ new.exempt = b.exempt /\ new.exemptIndex = b.exemptIndex
        BY <3>2, <4>1 DEF BooksOfRestrictions
      <4>3. /\ OfOne(b, new, s) /\ new.custom[s] = 0 /\ new.daily[s] = b.daily[s]
            /\ new.periods[s] = "OneDay"
        BY <1>1, <2>1, <2>2, <3>2, <4>2 DEF OfOne, BooksOfRestrictions
      <4>4. Told(new, s) BY <2>1, <4>2, <4>3 DEF Told
      <4>5. QED BY <3>1, <4>3, <4>4, RestrictionChanges
    <3>5. QED BY <3>3, <3>4
  <2>5. QED BY <2>3, <2>4 DEF RemoveDaily, RemoveCustom
<1>4. QED BY <1>2, <1>3

\* A holder gets a restriction of one kind, with the other one or without it.
LEMMA AddedIsTold ==
  ASSUME NEW b \in RestrictionBooks, NEW h \in Holder, NEW at \in Nat \ {0}
  PROVE  /\ AddRestrictionData([b EXCEPT !.daily[h] = at], h, "OneDay")
              \in RestrictionBooks
         /\ AddRestrictionData([b EXCEPT !.custom[h] = at], h, "MultipleDays")
              \in RestrictionBooks
<1>1. b \in BooksOfRestrictions /\ Told(b, h) BY DEF RestrictionBooks
<1>2. \A x \in Holder : x \in Subject BY DEF Subject
<1>3. AddRestrictionData([b EXCEPT !.daily[h] = at], h, "OneDay") \in RestrictionBooks
  <2> DEFINE added == [b EXCEPT !.daily[h] = at]
             new == AddRestrictionData(added, h, "OneDay")
             type == IF b.periods[h] # "OneDay" /\ b.custom[h] # 0 THEN "Both" ELSE "OneDay"
  <2>1. /\ added \in BooksOfRestrictions /\ added.daily = [b.daily EXCEPT ![h] = at]
        /\ added.custom = b.custom /\ added.periods = b.periods
        /\ added.listed = b.listed /\ added.exempt = b.exempt
        /\ added.exemptIndex = b.exemptIndex /\ added.patched = b.patched
    BY <1>1, <1>2 DEF BooksOfRestrictions
  <2> HIDE DEF added
  <2>2. new = [added EXCEPT !.listed = @ \cup {h}, !.periods[h] = type]
    BY <2>1 DEF AddRestrictionData, MultipleDays
  <2>3. type \in {"OneDay", "MultipleDays", "Both"} OBVIOUS
  <2> HIDE DEF new, type
  <2>4. /\ new \in BooksOfRestrictions /\ new.listed = b.listed \cup {h}
        /\ new.daily = added.daily /\ new.custom = b.custom
        /\ new.periods = [b.periods EXCEPT ![h] = type] /\ new.patched = b.patched
        /\ new.exempt = b.exempt /\ new.exemptIndex = b.exemptIndex
    BY <2>1, <2>2, <2>3 DEF BooksOfRestrictions
  <2>5. OfOne(b, new, h) /\ h \in new.listed /\ new.custom[h] = b.custom[h]
        /\ new.periods[h] = type
    BY <1>1, <1>2, <2>1, <2>4 DEF OfOne, BooksOfRestrictions
  <2>6. type # "MultipleDays" /\ (b.custom[h] # 0 /\ h \notin b.patched => type # "OneDay")
    BY <1>1 DEF type, Told
  <2>7. Told(new, h) BY <2>4, <2>5, <2>6 DEF Told
  <2>8. new \in RestrictionBooks BY <2>5, <2>7, RestrictionChanges
  <2>9. QED BY <2>8 DEF new, added
<1>4. AddRestrictionData([b EXCEPT !.custom[h] = at], h, "MultipleDays")
        \in RestrictionBooks
  <2> DEFINE added == [b EXCEPT !.custom[h] = at]
             new == AddRestrictionData(added, h, "MultipleDays")
             type == IF b.periods[h] # "MultipleDays" THEN "Both" ELSE "MultipleDays"
  <2>1. /\ added \in BooksOfRestrictions /\ added.custom = [b.custom EXCEPT ![h] = at]
        /\ added.daily = b.daily /\ added.periods = b.periods
        /\ added.listed = b.listed /\ added.exempt = b.exempt
        /\ added.exemptIndex = b.exemptIndex /\ added.patched = b.patched
        /\ added.custom[h] = at
    BY <1>1, <1>2 DEF BooksOfRestrictions
  <2> HIDE DEF added
  <2>2. new = [added EXCEPT !.listed = @ \cup {h}, !.periods[h] = type]
    BY <2>1 DEF AddRestrictionData, MultipleDays
  <2>3. type \in {"OneDay", "MultipleDays", "Both"} OBVIOUS
  <2> HIDE DEF new, type
  <2>4. /\ new \in BooksOfRestrictions /\ new.listed = b.listed \cup {h}
        /\ new.custom = added.custom /\ new.daily = b.daily
        /\ new.periods = [b.periods EXCEPT ![h] = type] /\ new.patched = b.patched
        /\ new.exempt = b.exempt /\ new.exemptIndex = b.exemptIndex
    BY <2>1, <2>2, <2>3 DEF BooksOfRestrictions
  <2>5. OfOne(b, new, h) /\ h \in new.listed /\ new.daily[h] = b.daily[h]
        /\ new.periods[h] = type
    BY <1>1, <1>2, <2>1, <2>4 DEF OfOne, BooksOfRestrictions
  <2>6. type # "OneDay" /\ (b.daily[h] # 0 /\ h \notin b.patched => type # "MultipleDays")
    BY <1>1 DEF type, Told
  <2>7. Told(new, h) BY <2>4, <2>5, <2>6 DEF Told
  <2>8. new \in RestrictionBooks BY <2>5, <2>7, RestrictionChanges
  <2>9. QED BY <2>8 DEF new, added
<1>5. QED BY <1>3, <1>4

LEMMA AddKeeps ==
  ASSUME NEW b \in RestrictionBooks, NEW s \in Subject, NEW start \in Nat, NEW time \in Nat
  PROVE  AddDaily(b, s, start, time) \subseteq RestrictionBooks
         /\ AddCustom(b, s, start, time) \subseteq RestrictionBooks
<1> DEFINE at == ValidStartTime(start, time)
<1>1. at \in Nat /\ (at > time => at \in Nat \ {0}) BY DEF ValidStartTime
<1>2. CASE at <= time BY <1>2 DEF AddDaily, AddCustom
<1>3. CASE ~(at <= time) /\ s = Default
  <2>1. /\ AddDaily(b, s, start, time) = {[b EXCEPT !.daily[Default] = at]}
        /\ AddCustom(b, s, start, time) = {[b EXCEPT !.custom[Default] = at]}
    BY <1>3 DEF AddDaily, AddCustom
  <2> HIDE DEF at
  <2>2. QED BY <1>1, <2>1, DefaultChanges
<1>4. CASE ~(at <= time) /\ s # Default
  <2>1. s \in Holder /\ at \in Nat \ {0} BY <1>1, <1>4 DEF Subject
  <2> DEFINE Daily(book) == AddRestrictionData([book EXCEPT !.daily[s] = at], s, "OneDay")
             Custom(book) ==
               AddRestrictionData([book EXCEPT !.custom[s] = at], s, "MultipleDays")
             before == IF OneDay(b, s) THEN RemoveDaily(b, s) ELSE {b}
             first == IF MultipleDays(b, s) THEN RemoveCustom(b, s) ELSE {b}
  <2>2. before \subseteq RestrictionBooks /\ first \subseteq RestrictionBooks
    BY RemoveKeeps
  <2>3. /\ AddDaily(b, s, start, time) = {Daily(book) : book \in before}
        /\ AddCustom(b, s, start, time) \in {{}, {Custom(book) : book \in first}}
    BY <1>4 DEF AddDaily, AddCustom
  <2> HIDE DEF at
  <2>4. \A book \in RestrictionBooks :
          Daily(book) \in RestrictionBooks /\ Custom(book) \in RestrictionBooks
    BY <2>1, AddedIsTold
  <2> HIDE DEF Daily, Custom, before, first
  <2>5. QED BY <2>2, <2>3, <2>4
<1>5. QED BY <1>2, <1>3, <1>4

LEMMA ModifyRestrictionKeeps ==
  ASSUME NEW b \in RestrictionBooks, NEW s \in Subject, NEW start \in Nat, NEW time \in Nat
  PROVE  ModifyDaily(b, s, start, time) \subseteq RestrictionBooks
         /\ ModifyCustom(b, s, start, time) \subseteq RestrictionBooks
<1> DEFINE at == ValidStartTime(start, time)
<1>1. at \in Nat BY DEF ValidStartTime
<1>2. b \in BooksOfRestrictions /\ \A h \in Holder : Told(b, h) /\ h \in Subject
  BY DEF RestrictionBooks, Subject
<1>3. ModifyDaily(b, s, start, time) \subseteq RestrictionBooks
  <2> DEFINE history == IF OneDay(b, s) THEN b.patched ELSE b.patched \cup {s}
             new == [b EXCEPT !.daily[s] = at, !.patched = history]
  <2>1. ModifyDaily(b, s, start, time) \subseteq {new} BY DEF ModifyDaily
  <2>2. history \subseteq Subject /\ \A h \in Holder \ {s} : h \in history <=> h \in b.patched
    BY <1>2 DEF BooksOfRestrictions
  <2>3. s \notin history => s \notin b.patched /\ b.daily[s] # 0 BY DEF OneDay
  <2> HIDE DEF at, history
  <2>4. /\ new \in BooksOfRestrictions /\ new.daily = [b.daily EXCEPT ![s] = at]
        /\ new.custom = b.custom /\ new.periods = b.periods /\ new.listed = b.listed
        /\ new.exempt = b.exempt /\ new.exemptIndex = b.exemptIndex
        /\ new.patched = history
    BY <1>1, <1>2, <2>2 DEF BooksOfRestrictions
  <2> HIDE DEF new
  <2>5. OfOne(b, new, s) BY <1>2, <2>2, <2>4 DEF OfOne, BooksOfRestrictions
  <2>6. s \in Holder => Told(new, s) BY <1>2, <2>3, <2>4 DEF Told
  <2>7. QED BY <2>1, <2>5, <2>6, RestrictionChanges
<1>4. ModifyCustom(b, s, start, time) \subseteq RestrictionBooks
  <2> DEFINE new == [b EXCEPT !.custom[s] = at]
  <2>1. ModifyCustom(b, s, start, time) = IF b.custom[s] > time /\ at > time THEN {new} ELSE {}
    BY DEF ModifyCustom
  <2> HIDE DEF at
  <2>2. /\ new \in BooksOfRestrictions /\ new.custom = [b.custom EXCEPT ![s] = at]
        /\ new.daily = b.daily /\ new.periods = b.periods /\ new.listed = b.listed
        /\ new.exempt = b.exempt /\ new.exemptIndex = b.exemptIndex
        /\ new.patched = b.patched
    BY <1>1, <1>2 DEF BooksOfRestrictions
  <2> HIDE DEF new
  <2>3. OfOne(b, new, s) BY <1>2, <2>2 DEF OfOne, BooksOfRestrictions
  <2>4. ASSUME b.custom[s] > time, s \in Holder PROVE Told(new, s)
    <3>1. b.custom[s] # 0 BY <1>2, <2>4 DEF BooksOfRestrictions
    <3>2. QED BY <1>2, <2>2, <2>4, <3>1 DEF Told
  <2>5. QED BY <2>1, <2>3, <2>4, RestrictionChanges
<1>5. QED BY <1>3, <1>4

LEMMA ExemptKeeps ==
  ASSUME NEW b \in RestrictionBooks, NEW h \in Holder, NEW exempted \in BOOLEAN
  PROVE  ChangeExemptWalletList(b, h, exempted) \subseteq RestrictionBooks
<1> DEFINE k == b.exemptIndex[h]
           n == Len(b.exempt)
           last == Last(b.exempt)
           more == [b EXCEPT !.exempt = Append(@, h), !.exemptIndex[h] = n + 1]
           t == Front([b.exempt EXCEPT ![k] = last])
           index == [[b.exemptIndex EXCEPT ![last] = k] EXCEPT ![h] = 0]
           less == [b EXCEPT !.exempt = t, !.exemptIndex = index]
<1>1. /\ b \in BooksOfRestrictions /\ Numbered(b.exempt, n, b.exemptIndex, Holder)
      /\ b.exempt \in Seq(Holder) /\ n \in Nat /\ b.exemptIndex \in [Holder -> Nat]
      /\ \A x \in Holder : Told(b, x)
  BY DEF RestrictionBooks, BooksOfRestrictions
<1>2. ChangeExemptWalletList(b, h, exempted) \subseteq
        IF k = 0 THEN {more} ELSE {less}
  BY DEF ChangeExemptWalletList
<1>3. ASSUME NEW new \in BooksOfRestrictions, new.daily = b.daily, new.custom = b.custom,
             new.periods = b.periods, new.listed = b.listed, new.patched = b.patched,
             Numbered(new.exempt, Len(new.exempt), new.exemptIndex, Holder)
      PROVE  new \in RestrictionBooks
  <2>1. \A x \in Holder : Told(new, x) BY <1>1, <1>3 DEF Told
  <2>2. QED BY <1>3, <2>1 DEF RestrictionBooks
<1>4. CASE k = 0
  <2> DEFINE list == Append(b.exempt, h)
             places == [b.exemptIndex EXCEPT ![h] = n + 1]
  <2>1. /\ list \in Seq(Holder) /\ Len(list) = n + 1
        /\ \A j \in 1..n : list[j] = b.exempt[j]
        /\ list[n + 1] = h
    BY <1>1
  <2>2. Pushed(b.exempt, n, b.exemptIndex, h, list, places)
    <3> HIDE DEF list, n
    <3> QED BY <2>1 DEF Pushed
  <2> HIDE DEF n
  <2>3. Numbered(list, n + 1, places, Holder) BY <1>1, <1>4, <2>2, NumberedPush
  <2>4. places \in [Holder -> Nat] BY <2>3 DEF Numbered
  <2> HIDE DEF list, places
  <2>5. more = [b EXCEPT !.exempt = list, !.exemptIndex = places] BY DEF list, places
  <2> HIDE DEF more
  <2>6. /\ more \in BooksOfRestrictions /\ more.daily = b.daily /\ more.custom = b.custom
        /\ more.periods = b.periods /\ more.listed = b.listed /\ more.patched = b.patched
        /\ more.exempt = list /\ more.exemptIndex = places
    BY <1>1, <2>1, <2>4, <2>5 DEF BooksOfRestrictions
  <2>7. more \in RestrictionBooks BY <1>3, <2>1, <2>3, <2>6
  <2>8. QED BY <1>2, <1>4, <2>7
<1>5. CASE k # 0
  <2>1. k \in 1..n /\ n \in 1..n BY <1>1, <1>5 DEF Numbered
  <2>2. last = b.exempt[n] BY <1>1, <2>1 DEF Last
  <2>3. /\ t \in Seq(Holder) /\ Len(t) = n - 1
        /\ \A j \in 1..n - 1 : t[j] = IF j = k THEN b.exempt[n] ELSE b.exempt[j]
    BY <1>1, <2>1, LastTakesPlace
  <2> HIDE DEF t, last
  <2>4. Left(b.exempt, n, b.exemptIndex, h, t, index) BY <2>2, <2>3 DEF Left
  <2> HIDE DEF index, n
  <2>5. n - 1 \in Nat /\ Numbered(t, n - 1, index, Holder)
    BY <1>1, <1>5, <2>4, NumberedWithout
  <2>6. index \in [Holder -> Nat] BY <2>5 DEF Numbered
  <2>7. /\ less \in BooksOfRestrictions /\ less.daily = b.daily /\ less.custom = b.custom
        /\ less.periods = b.periods /\ less.listed = b.listed /\ less.patched = b.patched
        /\ less.exempt = t /\ less.exemptIndex = index
    BY <1>1, <2>3, <2>6 DEF BooksOfRestrictions
  <2> HIDE DEF less
  <2>8. less \in RestrictionBooks BY <1>3, <2>3, <2>5, <2>7
  <2>9. QED BY <1>2, <1>5, <2>8
<1>6. QED BY <1>4, <1>5

LEMMA RestrictionRecordKeeps ==
  ASSUME NEW b \in RestrictionBooks, NEW op \in RestrictionOps,
         NEW row \in RestrictionRows(op), NEW time \in Nat
  PROVE  RestrictionsChange(b, op, row, time) \subseteq RestrictionBooks
<1>1. CASE op \in {"addDaily", "addCustom", "modifyDaily", "modifyCustom"}
  <2>1. PICK s \in Subject, start \in Nat : row = <<s, start>> BY <1>1 DEF RestrictionRows
  <2>2. /\ AddDaily(b, s, start, time) \subseteq RestrictionBooks
        /\ AddCustom(b, s, start, time) \subseteq RestrictionBooks
        /\ ModifyDaily(b, s, start, time) \subseteq RestrictionBooks
        /\ ModifyCustom(b, s, start, time) \subseteq RestrictionBooks
    BY AddKeeps, ModifyRestrictionKeeps
  <2>3. QED BY <1>1, <2>1, <2>2 DEF RestrictionsChange
<1>2. CASE op \in {"removeDaily", "removeCustom"}
  <2>1. PICK s \in Subject : row = <<s>> BY <1>2 DEF RestrictionRows
  <2>2. QED BY <1>2, <2>1, RemoveKeeps DEF RestrictionsChange
<1>3. CASE op = "exempt"
  <2>1. PICK h \in Holder, exempted \in BOOLEAN : row = <<h, exempted>>
    BY <1>3 DEF RestrictionRows
  <2>2. QED BY <1>3, <2>1, ExemptKeeps DEF RestrictionsChange
<1>4. QED BY <1>1, <1>2, <1>3 DEF RestrictionOps

\* Any call, whenever it is mined.
LEMMA RestrictionCallKeeps ==
  ASSUME NEW b \in RestrictionBooks, NEW call \in RestrictionCalls, NEW time \in Nat
  PROVE  RestrictionsAfter(b, call, time) \subseteq RestrictionBooks
<1> DEFINE rows == call.rows
           op == call.op
           n == Len(rows)
           step == [k \in 1..n |-> [s \in RestrictionBooks |->
                                     RestrictionsChange(s, op, rows[k], time)]]
           Is(g) == g = [k \in 0..n |->
                           IF k = 0 THEN {b}
                           ELSE UNION {RestrictionsChange(s, op, rows[k], time) : s \in g[k - 1]}]
           after == CHOOSE g : Is(g)
<1>1. op \in RestrictionOps /\ rows \in Seq(RestrictionRows(op))
  BY DEF RestrictionCalls, CallOf
<1>2. n \in Nat /\ \A k \in 1..n : rows[k] \in RestrictionRows(op) BY <1>1
<1>3. RestrictionsAfter(b, call, time) = after[n] BY DEF RestrictionsAfter, InTurn
<1> HIDE DEF rows, op, n, after
<1>4. \A k \in 1..n : \A s \in RestrictionBooks :
        RestrictionsChange(s, op, rows[k], time) \subseteq RestrictionBooks
  BY <1>1, <1>2, RestrictionRecordKeeps
<1>5. step \in [1..n -> [RestrictionBooks -> SUBSET RestrictionBooks]] BY <1>4
<1>6. PICK f : AreTurns(f, n, RestrictionBooks, b, step)
  <2> HIDE DEF step
  <2> QED BY <1>2, <1>5, TurnsExist
<1>7. Is(f)
  <2>1. ASSUME NEW k \in 1..n
        PROVE  f[k] = UNION {RestrictionsChange(s, op, rows[k], time) : s \in f[k - 1]}
    <3>1. k - 1 \in 0..n BY <1>2
    <3>2. f[k - 1] \subseteq RestrictionBooks BY <1>6, <3>1 DEF AreTurns
    <3>3. \A s \in f[k - 1] : step[k][s] = RestrictionsChange(s, op, rows[k], time) BY <3>2
    <3> HIDE DEF step
    <3>4. QED BY <1>6, <3>3 DEF AreTurns
  <2>2. \A k \in 0..n : k # 0 => k \in 1..n BY <1>2
  <2>3. QED BY <1>6, <2>1, <2>2 DEF AreTurns
<1>8. Is(after)
  <2> HIDE DEF Is
  <2> QED BY <1>7 DEF after
<1>9. \A k \in 1..n :
        after[k - 1] \in SUBSET RestrictionBooks => after[k] \in SUBSET RestrictionBooks
  <2> SUFFICES ASSUME NEW k \in 1..n, after[k - 1] \in SUBSET RestrictionBooks
               PROVE  after[k] \in SUBSET RestrictionBooks
    OBVIOUS
  <2>1. after[k] = UNION {RestrictionsChange(s, op, rows[k], time) : s \in after[k - 1]}
    <3>1. k \in 0..n /\ k # 0 BY <1>2
    <3>2. QED BY <1>8, <3>1
  <2>2. QED BY <1>4, <2>1
<1>10. after[0] \in SUBSET RestrictionBooks BY <1>2, <1>8
<1>11. \A k \in 0..n : after[k] \in SUBSET RestrictionBooks BY <1>2, <1>9, <1>10, LoopKeeps
<1>12. QED BY <1>2, <1>3, <1>11


RestrictionsShownToo ==
  [place \in {"restrictions"} |-> [subject : Subject, daily : BOOLEAN, custom : BOOLEAN]]

RestrictionsInv ==
  current = "volume" =>
    /\ contract \in RestrictionBooks /\ now \in Nat
    /\ Sessions([c \in Client |-> RestrictionCalls], RestrictionsShownToo)

LEMMA OneRestrictionCall ==
  ASSUME NEW op \in RestrictionOps, NEW row \in RestrictionRows(op)
  PROVE  One(op, row) \in Seq(RestrictionCalls)
<1>1. CallOf(op, RestrictionRows(op)) \subseteq RestrictionCalls BY DEF RestrictionCalls
<1>2. QED BY <1>1, OneIsCall

LEMMA RestrictionFileCalls ==
  ASSUME NEW op \in RestrictionOps, NEW data \in Seq(RestrictionRows(op)),
         NEW size \in RestrictionBatch
  PROVE  CallsOf(op, data, size) \in Seq(RestrictionCalls)
<1> DEFINE Entry == Subject \cup Nat \cup BOOLEAN
<1>1. CallOf(op, RestrictionRows(op)) \subseteq RestrictionCalls BY DEF RestrictionCalls
<1>2. size \in Nat \ {0} BY RestrictionsAssumption
<1>3. \/ RestrictionRows(op) \subseteq [1..1 -> Entry]
      \/ RestrictionRows(op) \subseteq [1..2 -> Entry]
  <2>1. Holder \subseteq Subject BY DEF Subject
  <2>2. QED BY <2>1 DEF RestrictionRows, RestrictionOps
<1> HIDE DEF Entry
<1>4. PICK width \in Nat \ {0} : RestrictionRows(op) \subseteq [1..width -> Entry]
  <2>1. 1 \in Nat \ {0} /\ 2 \in Nat \ {0} OBVIOUS
  <2>2. QED BY ONLY <1>3, <2>1, Zenon
<1>5. QED BY <1>1, <1>2, <1>4, CallsHoldRecords

\* What a program does that manages restrictions.
LEMMA RestrictionsStepKeeps ==
  ASSUME RestrictionsInv, NEW c \in Client, RestrictionsStep(c)
  PROVE  RestrictionsInv'
<1> DEFINE calls == [d \in Client |-> RestrictionCalls]
           Kept == /\ contract' \in RestrictionBooks /\ now' \in Nat
                   /\ Sessions(calls, RestrictionsShownToo)'
<1>1. /\ current = "volume" /\ contract \in RestrictionBooks /\ now \in Nat
      /\ Sessions(calls, RestrictionsShownToo) /\ calls[c] = RestrictionCalls
  BY DEF RestrictionsStep, RestrictionsInv
<1>2. SUFFICES Kept
  <2>1. calls' = calls OBVIOUS
  <2>2. QED BY <2>1 DEF RestrictionsInv
<1> HIDE DEF calls
<1>3. /\ RestrictionStart \subseteq Nat
      /\ RestrictionFile \subseteq Seq(RestrictionRecord)
      /\ Holder \subseteq Subject
  BY RestrictionsAssumption DEF Subject
<1>4. ASSUME NEW list \in Seq(RestrictionCalls), NEW about, Begin(c, list, about) PROVE Kept
  BY <1>1, <1>4, Begins DEF SameContract
<1>5. ASSUME NEW op \in RestrictionOps, NEW row \in RestrictionRows(op), NEW about,
             Begin(c, One(op, row), about)
      PROVE  Kept
  BY <1>4, <1>5, OneRestrictionCall
<1>6. CASE ChangeExemptWallet(c)
  <2>1. PICK h \in Holder, exempted \in BOOLEAN :
          Begin(c, One("exempt", <<h, exempted>>), {})
    BY <1>6 DEF ChangeExemptWallet
  <2>2. "exempt" \in RestrictionOps /\ <<h, exempted>> \in RestrictionRows("exempt")
    BY DEF RestrictionOps, RestrictionRows
  <2>3. QED BY <1>5, <2>1, <2>2
<1>7. ASSUME NEW s \in Subject, ReadRestrictions(c, s) PROVE Kept
  <2> DEFINE about == {[subject |-> s, daily |-> OneDay(contract, s),
                        custom |-> MultipleDays(contract, s)]}
  <2>1. about # {} /\ about \subseteq RestrictionsShownToo["restrictions"]
    BY DEF RestrictionsShownToo, OneDay, MultipleDays
  <2>2. Show(c, "restrictions", about) BY <1>7 DEF ReadRestrictions
  <2> HIDE DEF about
  <2>3. QED BY <1>1, <2>1, <2>2, Shows DEF SameContract
<1>8. ASSUME NEW op \in RestrictionOps, NEW columns, RestrictionsInBatch(c, op, columns),
             \A r \in RestrictionRecord :
               [x \in DOMAIN columns |-> r[columns[x]]] \in RestrictionRows(op)
      PROVE  Kept
  <2> DEFINE fields(r) == [x \in DOMAIN columns |-> r[columns[x]]]
  <2>1. PICK f \in RestrictionFile, size \in RestrictionBatch :
          Begin(c, CallsOf(op, [k \in DOMAIN f |-> fields(f[k])], size), {})
    BY <1>8 DEF RestrictionsInBatch
  <2>2. f \in Seq(RestrictionRecord) BY <1>3
  <2>3. \A r \in RestrictionRecord : fields(r) \in RestrictionRows(op)
    BY <1>8
  <2> HIDE DEF fields
  <2> DEFINE data == [k \in DOMAIN f |-> fields(f[k])]
             list == CallsOf(op, data, size)
  <2>4. data \in Seq(RestrictionRows(op)) BY <2>2, <2>3
  <2> HIDE DEF data
  <2>5. list \in Seq(RestrictionCalls) BY <2>4, RestrictionFileCalls
  <2>6. Begin(c, list, {}) BY <2>1 DEF data
  <2> HIDE DEF list
  <2>7. QED BY <1>4, <2>5, <2>6
<1>9. CASE OperateWithMultipleRestrictions(c)
  <2>1. ASSUME NEW r \in RestrictionRecord
        PROVE  /\ LET columns == <<"holder", "start">>
                  IN  [x \in DOMAIN columns |-> r[columns[x]]] \in Subject \X Nat
               /\ LET columns == <<"holder">>
                  IN  [x \in DOMAIN columns |-> r[columns[x]]] \in {<<s>> : s \in Subject}
    BY <1>3 DEF RestrictionRecord
  <2>2. ASSUME NEW op \in {"addDaily", "addCustom", "modifyDaily", "modifyCustom"},
               RestrictionsInBatch(c, op, <<"holder", "start">>)
        PROVE  Kept
    <3>1. op \in RestrictionOps /\ RestrictionRows(op) = Subject \X Nat
      BY DEF RestrictionRows, RestrictionOps
    <3>2. QED BY <1>8, <2>1, <2>2, <3>1
  <2>3. ASSUME NEW op \in {"removeDaily", "removeCustom"},
               RestrictionsInBatch(c, op, <<"holder">>)
        PROVE  Kept
    <3>1. op \in RestrictionOps /\ RestrictionRows(op) = {<<s>> : s \in Subject}
      BY DEF RestrictionRows, RestrictionOps
    <3>2. QED BY <1>8, <2>1, <2>3, <3>1
  <2>4. QED
    BY <1>9, <2>2, <2>3
    DEF OperateWithMultipleRestrictions, AddDailyRestrictionsInBatch,
        ModifyDailyRestrictionsInBatch, RemoveDailyRestrictionsInBatch,
        AddCustomRestrictionsInBatch, ModifyCustomRestrictionsInBatch,
        RemoveCustomRestrictionsInBatch
<1>10. CASE At(c, "restrictions") /\ ChangeRestrictions(c)
  <2>1. Shown(c).subject \in Subject
    <3>1. "restrictions" \in DOMAIN RestrictionsShownToo BY DEF RestrictionsShownToo
    <3>2. Shown(c) \in RestrictionsShownToo["restrictions"]
      BY <1>1, <1>10, <3>1, ShownIsShown
    <3>3. QED BY <3>2 DEF RestrictionsShownToo
  <2>2. ASSUME NEW op \in {"addDaily", "addCustom", "modifyDaily", "modifyCustom"},
               Enter(c, op)
        PROVE  Kept
    <3>1. PICK start \in RestrictionStart :
            Begin(c, One(op, <<Shown(c).subject, start>>), session[c].about)
      BY <2>2 DEF Enter
    <3>2. op \in RestrictionOps /\ <<Shown(c).subject, start>> \in RestrictionRows(op)
      BY <1>3, <2>1 DEF RestrictionOps, RestrictionRows
    <3>3. QED BY <1>5, <3>1, <3>2
  <2>3. ASSUME NEW op \in {"removeDaily", "removeCustom"},
               Begin(c, One(op, <<Shown(c).subject>>), session[c].about)
        PROVE  Kept
    <3>1. op \in RestrictionOps /\ <<Shown(c).subject>> \in RestrictionRows(op)
      BY <2>1 DEF RestrictionOps, RestrictionRows
    <3>2. QED BY <1>5, <2>3, <3>1
  <2>4. QED BY <1>10, <2>2, <2>3 DEF ChangeRestrictions, ChangeShown
<1>11. CASE Send(c, RestrictionsCallAfter(ToSend(c)))
  BY <1>1, <1>11, Sends DEF SameContract
<1>12. ASSUME NEW call \in mempool[c], Mine(c, RestrictionsCallAfter(call)) PROVE Kept
  <2>1. call \in RestrictionCalls BY <1>1 DEF Sessions
  <2>2. RestrictionsCallAfter(call) \subseteq RestrictionBooks
    BY <1>1, <2>1, RestrictionCallKeeps DEF RestrictionsCallAfter
  <2>3. QED BY <1>1, <1>12, <2>2, Mines
<1>13. QED
  BY <1>6, <1>7, <1>9, <1>10, <1>11, <1>12
  DEF RestrictionsStep, VolumeRestrictionTM, ChangeDefaultRestrictions,
      ChangeIndividualRestrictions

LEMMA RestrictionsAtFirst == Init => RestrictionsInv
<1> SUFFICES ASSUME Init, current = "volume"
             PROVE  /\ contract \in RestrictionBooks /\ now \in Nat
                    /\ Sessions([c \in Client |-> RestrictionCalls], RestrictionsShownToo)
  BY DEF RestrictionsInv
<1>1. contract = NoRestrictions
  BY DEF Init, ConfigExistingModules, ListsInit, Lists, ApprovalsInit, RestrictionsInit,
     GeneralInit, LimitsInit, RegistryInit, PermissionsInit, WalletInit, ModulesInit,
     IssuanceInit
<1>2. NoRestrictions \in RestrictionBooks
  <2>1. NoRestrictions \in BooksOfRestrictions BY DEF NoRestrictions, BooksOfRestrictions
  <2>2. /\ NoRestrictions.exempt = << >> /\ Len(NoRestrictions.exempt) = 0
        /\ \A h \in Holder : NoRestrictions.exemptIndex[h] = 0
        /\ \A h \in Holder : NoRestrictions.daily[h] = 0 /\ NoRestrictions.custom[h] = 0
    BY DEF NoRestrictions, Subject
  <2>3. Numbered(NoRestrictions.exempt, 0, NoRestrictions.exemptIndex, Holder)
    BY <2>1, <2>2 DEF Numbered, BooksOfRestrictions
  <2>4. \A h \in Holder : Told(NoRestrictions, h) BY <2>2 DEF Told
  <2>5. QED BY <2>1, <2>2, <2>3, <2>4 DEF RestrictionBooks
<1>3. SessionInit /\ now \in Nat BY DEF Init, SessionInit
<1>4. DOMAIN RestrictionsShownToo \cap {"menu", "sending", "waiting"} = {}
  BY DEF RestrictionsShownToo
<1>5. Sessions([c \in Client |-> RestrictionCalls], RestrictionsShownToo)
  BY <1>3, <1>4, SessionsAtFirst
<1>6. QED BY <1>1, <1>2, <1>3, <1>5

LEMMA RestrictionsKept == RestrictionsInv /\ [Next]_sessionVars => RestrictionsInv'
<1> SUFFICES ASSUME RestrictionsInv, [Next]_sessionVars PROVE RestrictionsInv'
  OBVIOUS
<1>1. CASE current = "volume"
  <2>1. CASE \E c \in Client : RestrictionsStep(c) BY <2>1, RestrictionsStepKeeps
  <2>2. CASE (\E c \in Client : Kill(c)) \/ UNCHANGED sessionVars \/ Tick
    <3>1. now' \in Nat BY <1>1, ModuleStays DEF RestrictionsInv
    <3>2. QED BY <1>1, <2>2, <3>1, CommonSteps DEF RestrictionsInv
  <2>3. QED BY <1>1, <2>1, <2>2, StepsOf
<1>2. CASE current # "volume" BY <1>2, ModuleStays DEF RestrictionsInv
<1>3. QED BY <1>1, <1>2

\* VolumeRestrictionTM keeps every restriction of a holder in the list that
\* transfer_manager.js shows, unless a modification made it, and its exempted
\* wallets in agreement with their index.
THEOREM RestrictionsAlwaysShown == Spec => []RestrictionsShown
<1>1. RestrictionsInv => RestrictionsShown
  <2> SUFFICES ASSUME contract \in RestrictionBooks
               PROVE  /\ \A h \in Holder \ contract.patched :
                           ({contract.daily[h], contract.custom[h]} \ {0})
                             \subseteq RestrictionData(contract, h)
                      /\ \A h \in Holder, k \in 1..Cardinality(Holder) :
                           (contract.exemptIndex[h] = k) <=>
                             (k <= Len(contract.exempt) /\ contract.exempt[k] = h)
    BY DEF RestrictionsInv, RestrictionsShown
  <2>1. ASSUME NEW h \in Holder \ contract.patched
        PROVE  ({contract.daily[h], contract.custom[h]} \ {0})
                 \subseteq RestrictionData(contract, h)
    <3>1. Told(contract, h) BY DEF RestrictionBooks
    <3>2. QED BY <3>1 DEF Told, RestrictionData
  <2>2. ASSUME NEW h \in Holder, NEW k \in 1..Cardinality(Holder)
        PROVE  (contract.exemptIndex[h] = k) <=>
                 (k <= Len(contract.exempt) /\ contract.exempt[k] = h)
    <3> DEFINE n == Len(contract.exempt)
    <3>1. Numbered(contract.exempt, n, contract.exemptIndex, Holder) /\ n \in Nat
      BY DEF RestrictionBooks, BooksOfRestrictions
    <3>2. k \in Nat \ {0}
      <4>1. Cardinality(Holder) \in Nat BY RestrictionsAssumption, FS_CardinalityType
      <4>2. QED BY <4>1
    <3>3. CASE k <= n
      <4>1. k \in 1..n BY <3>1, <3>2, <3>3
      <4>2. QED BY <3>1, <3>3, <4>1 DEF Numbered
    <3>4. CASE ~(k <= n)
      <4>1. contract.exemptIndex[h] \in 0..n BY <3>1 DEF Numbered
      <4>2. contract.exemptIndex[h] # k BY <3>1, <3>2, <3>4, <4>1
      <4>3. QED BY <3>4, <4>2
    <3>5. QED BY <3>3, <3>4
  <2>3. QED BY <2>1, <2>2
<1>2. QED BY <1>1, RestrictionsAtFirst, RestrictionsKept, PTL DEF Spec

-----------------------------------------------------------------------------
(* Investors.                                                              *)

\* What may be entered, typed or in a file.
SomeInvestor == KnownInvestor \cup {Zero} \cup {r.investor : r \in InvestorRecord}
SomeData == KYC \cup {r.kyc : r \in InvestorRecord}
SomeFlag == Flag \cup {r.flag : r \in InvestorRecord}
SettingName == TransferType \cup {"defaults", "issuanceAddress"}
SomeSetting == Setting \cup {Initial}

BooksOfInvestors ==
  [investors : Seq(KnownInvestor),
   kyc       : [KnownInvestor -> SomeData \cup {Absent, OnlyAdded}],
   flags     : [KnownInvestor -> SUBSET SomeFlag],
   settings  : [SettingName -> SomeSetting]]

\* The list and the data in agreement, and the data everybody's own.
InvestorBooks ==
  {b \in BooksOfInvestors :
     /\ IsInjective(b.investors)
     /\ ToSet(b.investors) = {i \in KnownInvestor : b.kyc[i] # Absent}
     /\ \A i \in KnownInvestor :
          /\ b.flags[i] # {} => b.kyc[i] # Absent
          /\ b.kyc[i] \in EnteredFor(i) \cup {Absent, OnlyAdded}}

\* A record of data has the data of its investor.
InvestorRows(op) ==
  CASE op = "kyc" -> {r \in SomeInvestor \X SomeData : r[2] \in EnteredFor(r[1])}
    [] op = "flag" -> SomeInvestor \X SomeFlag \X BOOLEAN
    [] op = "setting" -> SettingName \X SomeSetting

InvestorOps == {"kyc", "flag", "setting"}

InvestorCalls == UNION {CallOf(op, InvestorRows(op)) : op \in InvestorOps}

LEMMA InsertKeeps ==
  ASSUME NEW b \in InvestorBooks, NEW i \in KnownInvestor,
         NEW data \in EnteredFor(i) \cup {OnlyAdded}, data \in SomeData \cup {OnlyAdded}
  PROVE  LET new == Insert(b, i, data)
         IN  new \in InvestorBooks /\ new.kyc[i] # Absent
<1> DEFINE new == Insert(b, i, data)
<1>1. /\ b \in BooksOfInvestors /\ IsInjective(b.investors)
      /\ ToSet(b.investors) = {x \in KnownInvestor : b.kyc[x] # Absent}
  BY DEF InvestorBooks
<1>2. CASE b.kyc[i] = Absent
  <2>1. data # Absent
    BY GeneralAssumption DEF SomeData, Absent, OnlyAdded
  <2>2. i \notin ToSet(b.investors) BY <1>1, <1>2
  <2> DEFINE list == Append(b.investors, i)
  <2>3. list \in Seq(KnownInvestor) /\ IsInjective(list)
        /\ ToSet(list) = ToSet(b.investors) \cup {i}
    BY <1>1, <2>2, OneMore DEF BooksOfInvestors
  <2>4. new = [b EXCEPT !.investors = list, !.kyc[i] = data] BY <1>2 DEF Insert
  <2> HIDE DEF list, new
  <2>5. /\ new \in BooksOfInvestors /\ new.investors = list
        /\ new.kyc = [b.kyc EXCEPT ![i] = data] /\ new.flags = b.flags
    BY <1>1, <2>3, <2>4 DEF BooksOfInvestors
  <2>6. \A x \in KnownInvestor : new.kyc[x] = IF x = i THEN data ELSE b.kyc[x]
    BY <1>1, <2>5 DEF BooksOfInvestors
  <2>7. ToSet(new.investors) = {x \in KnownInvestor : new.kyc[x] # Absent}
    BY <1>1, <2>1, <2>3, <2>5, <2>6
  <2>8. \A x \in KnownInvestor :
          /\ new.flags[x] # {} => new.kyc[x] # Absent
          /\ new.kyc[x] \in EnteredFor(x) \cup {Absent, OnlyAdded}
    BY <2>1, <2>5, <2>6 DEF InvestorBooks
  <2>9. new \in InvestorBooks BY <2>3, <2>5, <2>7, <2>8 DEF InvestorBooks
  <2>10. QED BY <2>1, <2>6, <2>9 DEF new
<1>3. CASE b.kyc[i] # Absent BY <1>3 DEF Insert
<1>4. QED BY <1>2, <1>3

LEMMA DataKeeps ==
  ASSUME NEW b \in InvestorBooks, NEW i \in KnownInvestor, NEW data \in EnteredFor(i),
         data \in SomeData
  PROVE  ModifyKYCData(b, i, data) \subseteq InvestorBooks
<1> DEFINE first == Insert(b, i, data)
           new == [first EXCEPT !.kyc[i] = data]
<1>1. first \in InvestorBooks /\ first.kyc[i] # Absent BY InsertKeeps
<1>2. ModifyKYCData(b, i, data) = {new} BY DEF ModifyKYCData
<1> HIDE DEF first
<1>3. /\ first \in BooksOfInvestors /\ IsInjective(first.investors)
      /\ ToSet(first.investors) = {x \in KnownInvestor : first.kyc[x] # Absent}
  BY <1>1 DEF InvestorBooks
<1>4. data # Absent BY GeneralAssumption DEF SomeData
<1> HIDE DEF new
<1>5. /\ new \in BooksOfInvestors /\ new.investors = first.investors
      /\ new.kyc = [first.kyc EXCEPT ![i] = data] /\ new.flags = first.flags
  BY <1>3 DEF BooksOfInvestors, new
<1>6. \A x \in KnownInvestor : new.kyc[x] = IF x = i THEN data ELSE first.kyc[x]
  BY <1>3, <1>5 DEF BooksOfInvestors
<1>7. ToSet(new.investors) = {x \in KnownInvestor : new.kyc[x] # Absent}
  BY <1>1, <1>3, <1>4, <1>5, <1>6
<1>8. \A x \in KnownInvestor :
        /\ new.flags[x] # {} => new.kyc[x] # Absent
        /\ new.kyc[x] \in EnteredFor(x) \cup {Absent, OnlyAdded}
  BY <1>1, <1>4, <1>5, <1>6 DEF InvestorBooks
<1>9. new \in InvestorBooks BY <1>3, <1>5, <1>7, <1>8 DEF InvestorBooks
<1>10. QED BY <1>2, <1>9

LEMMA FlagKeeps ==
  ASSUME NEW b \in InvestorBooks, NEW i \in KnownInvestor, NEW flag \in SomeFlag,
         NEW value \in BOOLEAN
  PROVE  ModifyInvestorFlag(b, i, flag, value) \subseteq InvestorBooks
<1> DEFINE first == Insert(b, i, OnlyAdded)
           flags == IF value THEN first.flags[i] \cup {flag} ELSE first.flags[i] \ {flag}
           new == [first EXCEPT !.flags[i] = flags]
<1>1. first \in InvestorBooks /\ first.kyc[i] # Absent BY InsertKeeps
<1>2. ModifyInvestorFlag(b, i, flag, value) = {new} BY DEF ModifyInvestorFlag
<1> HIDE DEF first
<1>3. /\ first \in BooksOfInvestors /\ IsInjective(first.investors)
      /\ ToSet(first.investors) = {x \in KnownInvestor : first.kyc[x] # Absent}
  BY <1>1 DEF InvestorBooks
<1>4. flags \subseteq SomeFlag BY <1>3 DEF BooksOfInvestors
<1> HIDE DEF new, flags
<1>5. /\ new \in BooksOfInvestors /\ new.investors = first.investors
      /\ new.kyc = first.kyc /\ new.flags = [first.flags EXCEPT ![i] = flags]
  BY <1>3, <1>4 DEF BooksOfInvestors, new
<1>6. \A x \in KnownInvestor : new.flags[x] = IF x = i THEN flags ELSE first.flags[x]
  BY <1>3, <1>5 DEF BooksOfInvestors
<1>7. \A x \in KnownInvestor :
        /\ new.flags[x] # {} => new.kyc[x] # Absent
        /\ new.kyc[x] \in EnteredFor(x) \cup {Absent, OnlyAdded}
  BY <1>1, <1>5, <1>6 DEF InvestorBooks
<1>8. new \in InvestorBooks BY <1>3, <1>5, <1>7 DEF InvestorBooks
<1>9. QED BY <1>2, <1>8

LEMMA InvestorRecordKeeps ==
  ASSUME NEW b \in InvestorBooks, NEW op \in InvestorOps, NEW row \in InvestorRows(op)
  PROVE  InvestorDataChange(b, op, row) \subseteq InvestorBooks
<1>1. CASE op = "kyc"
  <2>1. row \in SomeInvestor \X SomeData /\ row[2] \in EnteredFor(row[1])
    BY <1>1 DEF InvestorRows
  <2>2. InvestorDataChange(b, op, row) = ModifyKYCData(b, row[1], row[2])
    BY <1>1 DEF InvestorDataChange
  <2>3. CASE row[1] \in KnownInvestor BY <2>1, <2>2, <2>3, DataKeeps
  <2>4. CASE row[1] \notin KnownInvestor BY <2>2, <2>4 DEF ModifyKYCData
  <2>5. QED BY <2>3, <2>4
<1>2. CASE op = "flag"
  <2>1. row \in SomeInvestor \X SomeFlag \X BOOLEAN BY <1>2 DEF InvestorRows
  <2>2. InvestorDataChange(b, op, row) = ModifyInvestorFlag(b, row[1], row[2], row[3])
    BY <1>2 DEF InvestorDataChange
  <2>3. CASE row[1] \in KnownInvestor BY <2>1, <2>2, <2>3, FlagKeeps
  <2>4. CASE row[1] \notin KnownInvestor BY <2>2, <2>4 DEF ModifyInvestorFlag
  <2>5. QED BY <2>3, <2>4
<1>3. CASE op = "setting"
  <2>1. row \in SettingName \X SomeSetting BY <1>3 DEF InvestorRows
  <2> DEFINE new == [b EXCEPT !.settings[row[1]] = row[2]]
  <2>2. InvestorDataChange(b, op, row) = {new}
    BY <1>3 DEF InvestorDataChange, ChangeSetting
  <2>3. /\ b \in BooksOfInvestors /\ IsInjective(b.investors)
        /\ ToSet(b.investors) = {i \in KnownInvestor : b.kyc[i] # Absent}
        /\ \A i \in KnownInvestor :
             /\ b.flags[i] # {} => b.kyc[i] # Absent
             /\ b.kyc[i] \in EnteredFor(i) \cup {Absent, OnlyAdded}
    BY DEF InvestorBooks
  <2>4. /\ new \in BooksOfInvestors /\ new.investors = b.investors
        /\ new.kyc = b.kyc /\ new.flags = b.flags
    BY <2>1, <2>3 DEF BooksOfInvestors
  <2> HIDE DEF new
  <2>5. new \in InvestorBooks BY <2>3, <2>4 DEF InvestorBooks
  <2>6. QED BY <2>2, <2>5
<1>4. QED BY <1>1, <1>2, <1>3 DEF InvestorOps

\* Any call.
LEMMA InvestorCallKeeps ==
  ASSUME NEW b \in InvestorBooks, NEW call \in InvestorCalls
  PROVE  InvestorDataAfter(b, call) \subseteq InvestorBooks
<1> DEFINE rows == call.rows
           op == call.op
           n == Len(rows)
           step == [k \in 1..n |-> [s \in InvestorBooks |->
                                     InvestorDataChange(s, op, rows[k])]]
           Is(g) == g = [k \in 0..n |->
                           IF k = 0 THEN {b}
                           ELSE UNION {InvestorDataChange(s, op, rows[k]) : s \in g[k - 1]}]
           after == CHOOSE g : Is(g)
<1>1. op \in InvestorOps /\ rows \in Seq(InvestorRows(op))
  BY DEF InvestorCalls, CallOf
<1>2. n \in Nat /\ \A k \in 1..n : rows[k] \in InvestorRows(op) BY <1>1
<1>3. InvestorDataAfter(b, call) = after[n] BY DEF InvestorDataAfter, InTurn
<1> HIDE DEF rows, op, n, after
<1>4. \A k \in 1..n : \A s \in InvestorBooks :
        InvestorDataChange(s, op, rows[k]) \subseteq InvestorBooks
  BY <1>1, <1>2, InvestorRecordKeeps
<1>5. step \in [1..n -> [InvestorBooks -> SUBSET InvestorBooks]] BY <1>4
<1>6. PICK f : AreTurns(f, n, InvestorBooks, b, step)
  <2> HIDE DEF step
  <2> QED BY <1>2, <1>5, TurnsExist
<1>7. Is(f)
  <2>1. ASSUME NEW k \in 1..n
        PROVE  f[k] = UNION {InvestorDataChange(s, op, rows[k]) : s \in f[k - 1]}
    <3>1. k - 1 \in 0..n BY <1>2
    <3>2. f[k - 1] \subseteq InvestorBooks BY <1>6, <3>1 DEF AreTurns
    <3>3. \A s \in f[k - 1] : step[k][s] = InvestorDataChange(s, op, rows[k]) BY <3>2
    <3> HIDE DEF step
    <3>4. QED BY <1>6, <3>3 DEF AreTurns
  <2>2. \A k \in 0..n : k # 0 => k \in 1..n BY <1>2
  <2>3. QED BY <1>6, <2>1, <2>2 DEF AreTurns
<1>8. Is(after)
  <2> HIDE DEF Is
  <2> QED BY <1>7 DEF after
<1>9. \A k \in 1..n :
        after[k - 1] \in SUBSET InvestorBooks => after[k] \in SUBSET InvestorBooks
  <2> SUFFICES ASSUME NEW k \in 1..n, after[k - 1] \in SUBSET InvestorBooks
               PROVE  after[k] \in SUBSET InvestorBooks
    OBVIOUS
  <2>1. after[k] = UNION {InvestorDataChange(s, op, rows[k]) : s \in after[k - 1]}
    <3>1. k \in 0..n /\ k # 0 BY <1>2
    <3>2. QED BY <1>8, <3>1
  <2>2. QED BY <1>4, <2>1
<1>10. after[0] \in SUBSET InvestorBooks BY <1>2, <1>8
<1>11. \A k \in 0..n : after[k] \in SUBSET InvestorBooks BY <1>2, <1>9, <1>10, LoopKeeps
<1>12. QED BY <1>2, <1>3, <1>11

\* The program asks nothing about what it has shown.
NothingShown == [place \in {} |-> {}]

GeneralInv ==
  current = "general" =>
    contract \in InvestorBooks /\ Sessions([c \in Client |-> InvestorCalls], NothingShown)

LEMMA OneInvestorCall ==
  ASSUME NEW op \in InvestorOps, NEW row \in InvestorRows(op)
  PROVE  One(op, row) \in Seq(InvestorCalls)
<1>1. CallOf(op, InvestorRows(op)) \subseteq InvestorCalls BY DEF InvestorCalls
<1>2. QED BY <1>1, OneIsCall

LEMMA InvestorFileCalls ==
  ASSUME NEW op \in {"kyc", "flag"}, NEW data \in Seq(InvestorRows(op)),
         NEW size \in InvestorBatch
  PROVE  CallsOf(op, data, size) \in Seq(InvestorCalls)
<1> DEFINE Entry == SomeInvestor \cup SomeData \cup SomeFlag \cup BOOLEAN
<1>1. CallOf(op, InvestorRows(op)) \subseteq InvestorCalls
  BY DEF InvestorCalls, InvestorOps
<1>2. size \in Nat \ {0} BY GeneralAssumption
<1>3. \/ InvestorRows(op) \subseteq [1..2 -> Entry]
      \/ InvestorRows(op) \subseteq [1..3 -> Entry]
  BY DEF InvestorRows
<1> HIDE DEF Entry
<1>4. PICK width \in Nat \ {0} : InvestorRows(op) \subseteq [1..width -> Entry]
  <2>1. 2 \in Nat \ {0} /\ 3 \in Nat \ {0} OBVIOUS
  <2>2. QED BY ONLY <1>3, <2>1, Zenon
<1>5. QED BY <1>1, <1>2, <1>4, CallsHoldRecords

\* What a program does that manages investors.
LEMMA GeneralStepKeeps ==
  ASSUME GeneralInv, NEW c \in Client, GeneralStep(c)
  PROVE  GeneralInv'
<1> DEFINE calls == [d \in Client |-> InvestorCalls]
           Kept == contract' \in InvestorBooks /\ Sessions(calls, NothingShown)'
<1>1. /\ current = "general" /\ contract \in InvestorBooks
      /\ Sessions(calls, NothingShown) /\ calls[c] = InvestorCalls
  BY DEF GeneralStep, GeneralInv
<1>2. SUFFICES Kept
  <2>1. calls' = calls OBVIOUS
  <2>2. QED BY <2>1 DEF GeneralInv
<1> HIDE DEF calls
<1>3. ASSUME NEW list \in Seq(InvestorCalls), NEW about, Begin(c, list, about) PROVE Kept
  BY <1>1, <1>3, Begins DEF SameContract
<1>4. ASSUME NEW op \in InvestorOps, NEW row \in InvestorRows(op), NEW about,
             Begin(c, One(op, row), about)
      PROVE  Kept
  BY <1>3, <1>4, OneInvestorCall
<1>5. CASE QueryModifyWhiteList(c)
  <2>1. PICK i \in KnownInvestor \cup {Zero}, data \in KYC :
          Begin(c, One("kyc", <<i, data>>), {})
    BY <1>5 DEF QueryModifyWhiteList
  <2>2. "kyc" \in InvestorOps /\ <<i, data>> \in InvestorRows("kyc")
    BY DEF InvestorOps, InvestorRows, SomeInvestor, SomeData, EnteredFor
  <2>3. QED BY <1>4, <2>1, <2>2
<1>6. CASE QueryModifyFlag(c)
  <2>1. PICK i \in KnownInvestor, flag \in Flag, value \in BOOLEAN :
          Begin(c, One("flag", <<i, flag, value>>), {})
    BY <1>6 DEF QueryModifyFlag
  <2>2. "flag" \in InvestorOps /\ <<i, flag, value>> \in InvestorRows("flag")
    BY DEF InvestorOps, InvestorRows, SomeInvestor, SomeFlag
  <2>3. QED BY <1>4, <2>1, <2>2
<1>7. ASSUME NEW op \in {"kyc", "flag"}, NEW f \in InvestorFile, NEW size \in InvestorBatch,
             NEW columns, InvestorsInBatch(c, op, Valid(f), columns, size),
             \A r \in InvestorRecord :
               [x \in DOMAIN columns |-> r[columns[x]]] \in InvestorRows(op)
      PROVE  Kept
  <2> DEFINE rows == Valid(f)
             fields(r) == [x \in DOMAIN columns |-> r[columns[x]]]
  <2>1. rows \in Seq(InvestorRecord)
    <3>1. f \in Seq(InvestorRecord) BY GeneralAssumption
    <3> DEFINE wanted == {row \in ToSet(f) : row.investor # "invalid"}
    <3>2. RowsIn(f, wanted) \in Seq(InvestorRecord \cap wanted) BY <3>1, WantedRecords
    <3>3. RowsIn(f, wanted) \in Seq(InvestorRecord)
      <4> HIDE DEF wanted
      <4> QED BY <3>2
    <3>4. QED BY <3>3 DEF Valid
  <2>2. Begin(c, CallsOf(op, [k \in DOMAIN rows |-> fields(rows[k])], size), {})
    BY <1>7 DEF InvestorsInBatch
  <2>3. \A r \in InvestorRecord : fields(r) \in InvestorRows(op) BY <1>7
  <2> HIDE DEF rows, fields
  <2> DEFINE data == [k \in DOMAIN rows |-> fields(rows[k])]
             list == CallsOf(op, data, size)
  <2>4. data \in Seq(InvestorRows(op)) BY <2>1, <2>3
  <2> HIDE DEF data
  <2>5. list \in Seq(InvestorCalls) BY <2>4, InvestorFileCalls
  <2>6. Begin(c, list, {}) BY <2>2 DEF data
  <2> HIDE DEF list
  <2>7. QED BY <1>3, <2>5, <2>6
<1>8. CASE ModifyWhitelistInBatch(c)
  <2>1. PICK f \in InvestorFile, size \in InvestorBatch :
          InvestorsInBatch(c, "kyc", Valid(f), <<"investor", "kyc">>, size)
    BY <1>8 DEF ModifyWhitelistInBatch
  <2>2. \A r \in InvestorRecord :
          LET columns == <<"investor", "kyc">>
          IN  [x \in DOMAIN columns |-> r[columns[x]]] \in InvestorRows("kyc")
    BY DEF InvestorRows, SomeInvestor, SomeData, EnteredFor
  <2>3. QED BY <1>7, <2>1, <2>2
<1>9. CASE ModifyFlagsInBatch(c)
  <2>1. PICK f \in InvestorFile, size \in InvestorBatch :
          InvestorsInBatch(c, "flag", Valid(f), <<"investor", "flag", "value">>, size)
    BY <1>9 DEF ModifyFlagsInBatch
  <2>2. \A r \in InvestorRecord :
          LET columns == <<"investor", "flag", "value">>
          IN  [x \in DOMAIN columns |-> r[columns[x]]] \in InvestorRows("flag")
    BY GeneralAssumption DEF InvestorRows, SomeInvestor, SomeFlag
  <2>3. QED BY <1>7, <2>1, <2>2
<1>10. ASSUME NEW name \in SettingName, NEW value \in SomeSetting
       PROVE  "setting" \in InvestorOps /\ <<name, value>> \in InvestorRows("setting")
  BY DEF InvestorOps, InvestorRows
<1>11. \A value \in Setting : value \in SomeSetting BY DEF SomeSetting
<1>12. \A type \in TransferType : type \in SettingName BY DEF SettingName
<1>13. CASE ModifyTransferRequirements(c)
  <2>1. PICK type \in TransferType, value \in Setting :
          Begin(c, One("setting", <<type, value>>), {})
    BY <1>13 DEF ModifyTransferRequirements
  <2>2. QED BY <1>4, <1>10, <1>11, <1>12, <2>1
<1>14. ASSUME NEW value \in SomeSetting, ModifyAllTransferRequirements(c, value) PROVE Kept
  <2> DEFINE rows == <<<<"general", value>>, <<"issuance", value>>, <<"redemption", value>>>>
             call == [op |-> "setting", rows |-> rows]
  <2>1. rows \in Seq(InvestorRows("setting")) BY <1>10, <1>12 DEF TransferType
  <2> HIDE DEF rows
  <2>2. call \in InvestorCalls BY <2>1 DEF InvestorCalls, CallOf, InvestorOps
  <2> HIDE DEF call
  <2>3. <<call>> \in Seq(InvestorCalls) BY <2>2
  <2>4. Begin(c, <<call>>, {}) BY <1>14 DEF ModifyAllTransferRequirements, rows, call
  <2>5. QED BY <1>3, <2>3, <2>4
<1>15. CASE TransferRequirements(c)
  BY <1>11, <1>13, <1>14, <1>15 DEF TransferRequirements, SomeSetting
<1>16. CASE ChangeModuleSetting(c)
  <2>1. PICK name \in {"defaults", "issuanceAddress"}, value \in Setting :
          Begin(c, One("setting", <<name, value>>), {})
    BY <1>16 DEF ChangeModuleSetting
  <2>2. name \in SettingName BY DEF SettingName
  <2>3. QED BY <1>4, <1>10, <1>11, <2>1, <2>2
<1>17. CASE Send(c, GeneralCallAfter(ToSend(c)))
  BY <1>1, <1>17, Sends DEF SameContract
<1>18. ASSUME NEW call \in mempool[c], Mine(c, GeneralCallAfter(call)) PROVE Kept
  <2>1. call \in InvestorCalls BY <1>1 DEF Sessions
  <2>2. GeneralCallAfter(call) \subseteq InvestorBooks
    BY <1>1, <2>1, InvestorCallKeeps DEF GeneralCallAfter
  <2>3. QED BY <1>1, <1>18, <2>2, Mines
<1>19. QED
  BY <1>5, <1>6, <1>8, <1>9, <1>15, <1>16, <1>17, <1>18
  DEF GeneralStep, GeneralTransferManager

LEMMA GeneralAtFirst == Init => GeneralInv
<1> SUFFICES ASSUME Init, current = "general"
             PROVE  /\ contract \in InvestorBooks
                    /\ Sessions([c \in Client |-> InvestorCalls], NothingShown)
  BY DEF GeneralInv
<1>1. contract = NoInvestors(Initial)
  BY DEF Init, ConfigExistingModules, ListsInit, Lists, ApprovalsInit, RestrictionsInit,
     GeneralInit, LimitsInit, RegistryInit, PermissionsInit, WalletInit, ModulesInit,
     IssuanceInit
<1>2. NoInvestors(Initial) \in InvestorBooks
  <2>1. IsInjective(<< >>) /\ ToSet(<< >>) = {} BY DEF IsInjective, ToSet
  <2> DEFINE new == NoInvestors(Initial)
  <2>2. /\ new \in BooksOfInvestors /\ new.investors = << >>
        /\ \A i \in KnownInvestor : new.kyc[i] = Absent /\ new.flags[i] = {}
    BY DEF NoInvestors, BooksOfInvestors, SettingName, SomeSetting
  <2> HIDE DEF new
  <2>3. new \in InvestorBooks BY <2>1, <2>2 DEF InvestorBooks
  <2>4. QED BY <2>3 DEF new
<1>3. SessionInit BY DEF Init
<1>4. DOMAIN NothingShown \cap {"menu", "sending", "waiting"} = {} BY DEF NothingShown
<1>5. Sessions([c \in Client |-> InvestorCalls], NothingShown)
  BY <1>3, <1>4, SessionsAtFirst
<1>6. QED BY <1>1, <1>2, <1>5

LEMMA GeneralKept == GeneralInv /\ [Next]_sessionVars => GeneralInv'
<1> SUFFICES ASSUME GeneralInv, [Next]_sessionVars PROVE GeneralInv'
  OBVIOUS
<1>1. CASE current = "general"
  <2>1. CASE \E c \in Client : GeneralStep(c) BY <2>1, GeneralStepKeeps
  <2>2. CASE (\E c \in Client : Kill(c)) \/ UNCHANGED sessionVars \/ Tick
    BY <1>1, <2>2, CommonSteps DEF GeneralInv
  <2>3. QED BY <1>1, <2>1, <2>2, StepsOf
<1>2. CASE current # "general" BY <1>2, ModuleStays DEF GeneralInv
<1>3. QED BY <1>1, <1>2

\* GeneralTransferManager lists everybody with data or a flag, once, and however
\* transfer_manager.js cuts a file nobody gets the data of another record.
THEOREM InvestorsAlwaysListed == Spec => []InvestorsListed
<1>1. GeneralInv => InvestorsListed
  BY DEF GeneralInv, InvestorsListed, InvestorBooks
<1>2. QED BY <1>1, GeneralAtFirst, GeneralKept, PTL DEF Spec

-----------------------------------------------------------------------------
(* Limits on holders and on their shares.                                  *)

HoldersOf(b) == {p \in TokenHolder : b.balance[p] > 0}

\* The token counts those who hold something, and nobody holds at no account.
LimitBooks ==
  {b \in [balance : [Party -> Nat], count : Nat, maxCount : Nat, maxShare : Nat,
          whitelist : SUBSET TokenHolder, primary : BOOLEAN] :
     b.balance[NoAccount] = 0 /\ b.count = Cardinality(HoldersOf(b))}

\* What the operators change: everything but the balances.
LimitBooksWith(balance) == {b \in LimitBooks : b.balance = balance}

LimitRows(op) ==
  CASE op \in {"changeHolderCount", "changeHolderPercentage"} -> {<<n>> : n \in Nat}
    [] op = "modifyWhitelist" -> TokenHolder \X BOOLEAN
    [] op = "setAllowPrimaryIssuance" -> {<<allow>> : allow \in BOOLEAN}

LimitOps ==
  {"changeHolderCount", "changeHolderPercentage", "modifyWhitelist",
   "setAllowPrimaryIssuance"}

LimitCalls == UNION {CallOf(op, LimitRows(op)) : op \in LimitOps}

LEMMA LimitRecordKeeps ==
  ASSUME NEW balance, NEW b \in LimitBooksWith(balance), NEW op \in LimitOps,
         NEW row \in LimitRows(op)
  PROVE  LimitsChange(b, op, row) \subseteq LimitBooksWith(balance)
<1> DEFINE Fields == [balance : [Party -> Nat], count : Nat, maxCount : Nat,
                      maxShare : Nat, whitelist : SUBSET TokenHolder, primary : BOOLEAN]
<1>1. /\ b \in Fields /\ b.balance[NoAccount] = 0 /\ b.balance = balance
      /\ b.count = Cardinality(HoldersOf(b))
  BY DEF LimitBooksWith, LimitBooks
<1>2. ASSUME NEW new \in Fields, new.balance = b.balance, new.count = b.count
      PROVE  new \in LimitBooksWith(balance)
  <2>1. HoldersOf(new) = HoldersOf(b) BY <1>2 DEF HoldersOf
  <2>2. QED BY <1>1, <1>2, <2>1 DEF LimitBooksWith, LimitBooks
<1>3. CASE op = "changeHolderCount"
  <2>1. PICK n \in Nat : row = <<n>> BY <1>3 DEF LimitRows
  <2> DEFINE new == [b EXCEPT !.maxCount = n]
  <2>2. LimitsChange(b, op, row) = {new} BY <1>3, <2>1 DEF LimitsChange
  <2>3. new \in Fields /\ new.balance = b.balance /\ new.count = b.count BY <1>1
  <2> HIDE DEF new, Fields
  <2>4. QED BY <1>2, <2>2, <2>3
<1>4. CASE op = "changeHolderPercentage"
  <2>1. PICK n \in Nat : row = <<n>> BY <1>4 DEF LimitRows
  <2> DEFINE new == [b EXCEPT !.maxShare = n]
  <2>2. LimitsChange(b, op, row) = {new} BY <1>4, <2>1 DEF LimitsChange
  <2>3. new \in Fields /\ new.balance = b.balance /\ new.count = b.count BY <1>1
  <2> HIDE DEF new, Fields
  <2>4. QED BY <1>2, <2>2, <2>3
<1>5. CASE op = "modifyWhitelist"
  <2>1. PICK p \in TokenHolder, valid \in BOOLEAN : row = <<p, valid>>
    BY <1>5 DEF LimitRows
  <2> DEFINE list == IF valid THEN b.whitelist \cup {p} ELSE b.whitelist \ {p}
             new == [b EXCEPT !.whitelist = list]
  <2>2. LimitsChange(b, op, row) = {new} BY <1>5, <2>1 DEF LimitsChange, ModifyWhitelist
  <2>3. list \subseteq TokenHolder BY <1>1
  <2> HIDE DEF list
  <2>4. new \in Fields /\ new.balance = b.balance /\ new.count = b.count BY <1>1, <2>3
  <2> HIDE DEF new, Fields
  <2>5. QED BY <1>2, <2>2, <2>4
<1>6. CASE op = "setAllowPrimaryIssuance"
  <2>1. PICK allow \in BOOLEAN : row = <<allow>> BY <1>6 DEF LimitRows
  <2> DEFINE new == [b EXCEPT !.primary = allow]
  <2>2. LimitsChange(b, op, row) \subseteq {new}
    BY <1>6, <2>1 DEF LimitsChange, SetAllowPrimaryIssuance
  <2>3. new \in Fields /\ new.balance = b.balance /\ new.count = b.count BY <1>1
  <2> HIDE DEF new, Fields
  <2>4. QED BY <1>2, <2>2, <2>3
<1>7. QED BY <1>3, <1>4, <1>5, <1>6 DEF LimitOps

\* Any call.
LEMMA LimitCallKeeps ==
  ASSUME NEW balance, NEW b \in LimitBooksWith(balance), NEW call \in LimitCalls
  PROVE  LimitsAfter(b, call) \subseteq LimitBooksWith(balance)
<1> DEFINE rows == call.rows
           op == call.op
           n == Len(rows)
           step == [k \in 1..n |-> [s \in LimitBooksWith(balance) |->
                                     LimitsChange(s, op, rows[k])]]
           Is(g) == g = [k \in 0..n |->
                           IF k = 0 THEN {b}
                           ELSE UNION {LimitsChange(s, op, rows[k]) : s \in g[k - 1]}]
           after == CHOOSE g : Is(g)
<1>1. op \in LimitOps /\ rows \in Seq(LimitRows(op))
  BY DEF LimitCalls, CallOf
<1>2. n \in Nat /\ \A k \in 1..n : rows[k] \in LimitRows(op) BY <1>1
<1>3. LimitsAfter(b, call) = after[n] BY DEF LimitsAfter, InTurn
<1> HIDE DEF rows, op, n, after
<1>4. \A k \in 1..n : \A s \in LimitBooksWith(balance) :
        LimitsChange(s, op, rows[k]) \subseteq LimitBooksWith(balance)
  BY <1>1, <1>2, LimitRecordKeeps
<1>5. step \in [1..n -> [LimitBooksWith(balance) -> SUBSET LimitBooksWith(balance)]] BY <1>4
<1>6. PICK f : AreTurns(f, n, LimitBooksWith(balance), b, step)
  <2> HIDE DEF step
  <2> QED BY <1>2, <1>5, TurnsExist
<1>7. Is(f)
  <2>1. ASSUME NEW k \in 1..n
        PROVE  f[k] = UNION {LimitsChange(s, op, rows[k]) : s \in f[k - 1]}
    <3>1. k - 1 \in 0..n BY <1>2
    <3>2. f[k - 1] \subseteq LimitBooksWith(balance) BY <1>6, <3>1 DEF AreTurns
    <3>3. \A s \in f[k - 1] : step[k][s] = LimitsChange(s, op, rows[k]) BY <3>2
    <3> HIDE DEF step
    <3>4. QED BY <1>6, <3>3 DEF AreTurns
  <2>2. \A k \in 0..n : k # 0 => k \in 1..n BY <1>2
  <2>3. QED BY <1>6, <2>1, <2>2 DEF AreTurns
<1>8. Is(after)
  <2> HIDE DEF Is
  <2> QED BY <1>7 DEF after
<1>9. \A k \in 1..n :
        after[k - 1] \in SUBSET LimitBooksWith(balance) => after[k] \in SUBSET LimitBooksWith(balance)
  <2> SUFFICES ASSUME NEW k \in 1..n, after[k - 1] \in SUBSET LimitBooksWith(balance)
               PROVE  after[k] \in SUBSET LimitBooksWith(balance)
    OBVIOUS
  <2>1. after[k] = UNION {LimitsChange(s, op, rows[k]) : s \in after[k - 1]}
    <3>1. k \in 0..n /\ k # 0 BY <1>2
    <3>2. QED BY <1>8, <3>1
  <2>2. QED BY <1>4, <2>1
<1>10. after[0] \in SUBSET LimitBooksWith(balance) BY <1>2, <1>8
<1>11. \A k \in 0..n : after[k] \in SUBSET LimitBooksWith(balance) BY <1>2, <1>9, <1>10, LoopKeeps
<1>12. QED BY <1>2, <1>3, <1>11


\* Who holds something after a transfer, and how many they are.
LEMMA HoldersAfter ==
  ASSUME NEW b \in LimitBooks, NEW from \in Party, NEW to \in Party, from # to,
         NEW amount \in Nat \ {0}, from # NoAccount => amount <= b.balance[from],
         NEW after \in [Party -> Nat],
         \A p \in Party :
           after[p] = IF p = from /\ p # NoAccount THEN b.balance[p] - amount
                      ELSE IF p = to /\ p # NoAccount THEN b.balance[p] + amount
                      ELSE b.balance[p]
  PROVE  LET holders == {p \in TokenHolder : after[p] > 0}
         IN  /\ IsFiniteSet(holders)
             /\ Cardinality(holders) = AdjustedCount(b, from, to, amount)
<1> DEFINE before == HoldersOf(b)
           holders == {p \in TokenHolder : after[p] > 0}
           joins == to # NoAccount /\ b.balance[to] = 0
           leaves == amount = b.balance[from]
<1>1. /\ IsFiniteSet(TokenHolder) /\ NoAccount \notin TokenHolder
      /\ Party = TokenHolder \cup {NoAccount}
  BY LimitsAssumption DEF Party
<1>2. /\ b.balance \in [Party -> Nat] /\ b.balance[NoAccount] = 0
      /\ b.count = Cardinality(before) /\ IsFiniteSet(before) /\ Cardinality(before) \in Nat
  BY <1>1, FS_Subset, FS_CardinalityType DEF LimitBooks, HoldersOf
<1>3. leaves => from # NoAccount /\ from \in before
  <2>1. \A p \in Party : b.balance[p] \in Nat BY <1>2
  <2>2. QED BY <1>1, <1>2, <2>1 DEF HoldersOf
<1>4. joins => to \in TokenHolder /\ to \notin before BY <1>1, <1>2 DEF HoldersOf
<1> DEFINE in == IF joins THEN {to} ELSE {}
           out == IF leaves THEN {from} ELSE {}
<1>5. holders = (before \cup in) \ out
  <2>1. ASSUME NEW p \in TokenHolder
        PROVE  p \in holders <=> p \in (before \cup in) \ out
    <3>1. p \in Party /\ p # NoAccount /\ b.balance[p] \in Nat /\ b.balance[from] \in Nat
      BY <1>1, <1>2
    <3>2. CASE p = from
      <4>1. after[p] = b.balance[p] - amount /\ amount <= b.balance[p] BY <3>1, <3>2
      <4>2. p \in holders <=> ~leaves BY <3>1, <3>2, <4>1
      <4>3. p \in before BY <3>1, <4>1 DEF HoldersOf
      <4>4. QED BY <3>2, <4>2, <4>3
    <3>3. CASE p = to
      <4>1. after[p] = b.balance[p] + amount BY <3>1, <3>3
      <4>2. p \in holders BY <3>1, <4>1
      <4>3. p \in before \/ joins BY <3>1, <3>3 DEF HoldersOf
      <4>4. QED BY <3>3, <4>2, <4>3
    <3>4. CASE p # from /\ p # to
      <4>1. after[p] = b.balance[p] BY <3>1, <3>4
      <4>2. QED BY <3>4, <4>1 DEF HoldersOf
    <3>5. QED BY <3>2, <3>3, <3>4
  <2>2. holders \subseteq TokenHolder /\ before \subseteq TokenHolder
        /\ in \subseteq TokenHolder
    BY <1>4 DEF HoldersOf
  <2> HIDE DEF holders, before, in, out
  <2>3. QED BY <2>1, <2>2
<1> DEFINE more == before \cup in
<1>6. /\ IsFiniteSet(more)
      /\ Cardinality(more) = b.count + (IF joins THEN 1 ELSE 0)
  <2>1. CASE joins
    <3>1. more = before \cup {to} /\ to \notin before BY <1>4, <2>1
    <3> HIDE DEF more, before
    <3>2. QED BY <1>2, <2>1, <3>1, FS_AddElement
  <2>2. CASE ~joins
    <3>1. more = before BY <2>2
    <3> HIDE DEF more, before
    <3>2. QED BY <1>2, <2>2, <3>1
  <2>3. QED BY <2>1, <2>2
<1> DEFINE i == IF joins THEN 1 ELSE 0
           o == IF leaves THEN 1 ELSE 0
<1>7. /\ IsFiniteSet(holders)
      /\ Cardinality(holders) = Cardinality(more) - o
  <2>1. holders = more \ out BY <1>5
  <2>2. IsFiniteSet(more) /\ Cardinality(more) \in Nat BY <1>6, FS_CardinalityType
  <2>3. CASE leaves
    <3>1. from \in more /\ out = {from} /\ o = 1 BY <1>3, <2>3
    <3> HIDE DEF more, holders, out, o
    <3>2. IsFiniteSet(more \ {from}) /\ Cardinality(more \ {from}) = Cardinality(more) - 1
      BY <2>2, <3>1, FS_RemoveElement
    <3>3. holders = more \ {from} BY <2>1, <3>1
    <3>4. QED BY ONLY <3>1, <3>2, <3>3
  <2>4. CASE ~leaves
    <3>1. holders = more /\ o = 0 BY <2>1, <2>4
    <3> HIDE DEF more, holders, out, o
    <3>2. QED BY ONLY <2>2, <3>1
  <2>5. QED BY <2>3, <2>4
<1>8. AdjustedCount(b, from, to, amount) = b.count + i - o
  BY DEF AdjustedCount
<1>9. Cardinality(more) = b.count + i BY <1>6
<1>10. i \in Nat /\ o \in Nat /\ b.count \in Nat BY <1>2
<1> DEFINE count == b.count
           size == Cardinality(more)
           left == Cardinality(holders)
           adjusted == AdjustedCount(b, from, to, amount)
<1> HIDE DEF holders, more, i, o, count, size, left, adjusted
<1>11. left = adjusted
  <2>1. left = size - o BY <1>7 DEF left, size
  <2>2. adjusted = count + i - o BY <1>8 DEF adjusted, count
  <2>3. size = count + i BY <1>9 DEF size, count
  <2>4. i \in Nat /\ o \in Nat /\ count \in Nat BY <1>10 DEF count
  <2>5. QED BY ONLY <2>1, <2>2, <2>3, <2>4
<1>12. QED BY <1>7, <1>11 DEF holders, left, adjusted

\* What a transfer does to the balances, and what it was checked for.
Transferred(b, new, from, to, amount) ==
  /\ new \in LimitBooks
  /\ \A p \in Party :
       new.balance[p] = IF from = to THEN b.balance[p]
                        ELSE IF p = from /\ p # NoAccount THEN b.balance[p] - amount
                        ELSE IF p = to /\ p # NoAccount THEN b.balance[p] + amount
                        ELSE b.balance[p]
  /\ new.count = AdjustedCount(b, from, to, amount)
  /\ CountExecute(b, from, to, amount) /\ ShareAllows(b, from, to, amount)

LEMMA TransferKeeps ==
  ASSUME NEW b \in LimitBooks, NEW from \in Party, NEW to \in Party,
         ~(from = NoAccount /\ to = NoAccount),
         NEW amount \in Nat, NEW new \in TransferTokens(b, from, to, amount)
  PROVE  Transferred(b, new, from, to, amount)
<1> DEFINE Fields == [balance : [Party -> Nat], count : Nat, maxCount : Nat,
                      maxShare : Nat, whitelist : SUBSET TokenHolder, primary : BOOLEAN]
           count == AdjustedCount(b, from, to, amount)
           moved == IF from = NoAccount THEN b.balance
                    ELSE [b.balance EXCEPT ![from] = @ - amount]
           after == IF to = NoAccount THEN moved ELSE [moved EXCEPT ![to] = @ + amount]
<1>1. /\ b \in Fields /\ b.balance \in [Party -> Nat] /\ b.balance[NoAccount] = 0
      /\ b.count = Cardinality(HoldersOf(b)) /\ b.count \in Nat
  BY DEF LimitBooks
<1>2. /\ from # NoAccount => amount <= b.balance[from]
      /\ CountExecute(b, from, to, amount) /\ ShareAllows(b, from, to, amount)
      /\ new = [[b EXCEPT !.count = count] EXCEPT !.balance = after]
  BY DEF TransferTokens
<1>3. new = [b EXCEPT !.count = count, !.balance = after] BY <1>2
<1>4. \A p \in Party : b.balance[p] \in Nat BY <1>1
<1>5. /\ moved \in [Party -> Nat]
      /\ \A p \in Party :
           moved[p] = IF p = from /\ p # NoAccount THEN b.balance[p] - amount
                      ELSE b.balance[p]
  <2>1. CASE from = NoAccount BY <1>1, <2>1
  <2>2. CASE from # NoAccount
    <3>1. b.balance[from] - amount \in Nat BY <1>2, <1>4, <2>2
    <3>2. QED BY <1>1, <2>2, <3>1
  <2>3. QED BY <2>1, <2>2
<1> HIDE DEF moved
<1>6. /\ after \in [Party -> Nat]
      /\ \A p \in Party :
           after[p] = IF p = to /\ p # NoAccount THEN moved[p] + amount ELSE moved[p]
  <2>1. CASE to = NoAccount BY <1>5, <2>1
  <2>2. CASE to # NoAccount
    <3>1. moved[to] + amount \in Nat BY <1>5
    <3>2. QED BY <1>5, <2>2, <3>1
  <2>3. QED BY <2>1, <2>2
<1> HIDE DEF after
<1>7. \A p \in Party :
        after[p] = IF from = to THEN b.balance[p]
                   ELSE IF p = from /\ p # NoAccount THEN b.balance[p] - amount
                   ELSE IF p = to /\ p # NoAccount THEN b.balance[p] + amount
                   ELSE b.balance[p]
  <2> SUFFICES ASSUME NEW p \in Party
               PROVE  after[p] = IF from = to THEN b.balance[p]
                                 ELSE IF p = from /\ p # NoAccount
                                   THEN b.balance[p] - amount
                                 ELSE IF p = to /\ p # NoAccount
                                   THEN b.balance[p] + amount
                                 ELSE b.balance[p]
    OBVIOUS
  <2>1. b.balance[p] \in Nat /\ (p = from /\ p # NoAccount => amount <= b.balance[p])
    BY <1>2, <1>4
  <2>2. /\ moved[p] = IF p = from /\ p # NoAccount THEN b.balance[p] - amount
                      ELSE b.balance[p]
        /\ after[p] = IF p = to /\ p # NoAccount THEN moved[p] + amount ELSE moved[p]
    BY <1>5, <1>6
  <2>3. QED BY <2>1, <2>2
<1>8. after[NoAccount] = 0
  BY <1>1, <1>7 DEF Party
<1>9. count = Cardinality({p \in TokenHolder : after[p] > 0})
  <2>1. CASE from # to /\ amount # 0
    <3>1. amount \in Nat \ {0} BY <2>1
    <3>2. \A p \in Party :
            after[p] = IF p = from /\ p # NoAccount THEN b.balance[p] - amount
                       ELSE IF p = to /\ p # NoAccount THEN b.balance[p] + amount
                       ELSE b.balance[p]
      BY <1>7, <2>1
    <3>3. QED BY <1>2, <1>6, <2>1, <3>1, <3>2, HoldersAfter
  <2>2. CASE from = to \/ amount = 0
    <3>1. \A p \in Party : after[p] = b.balance[p]
      <4>1. CASE from = to BY <1>7, <4>1
      <4>2. CASE amount = 0
        <5>1. \A p \in Party : b.balance[p] - amount = b.balance[p]
                               /\ b.balance[p] + amount = b.balance[p]
          BY <1>4, <4>2
        <5>2. QED BY <1>7, <5>1
      <4>3. QED BY <2>2, <4>1, <4>2
    <3>2. {p \in TokenHolder : after[p] > 0} = HoldersOf(b) BY <3>1 DEF HoldersOf, Party
    <3>3. count = b.count BY <2>2 DEF AdjustedCount
    <3>4. QED BY <1>1, <3>2, <3>3
  <2>3. QED BY <2>1, <2>2
<1>10. count \in Nat
  <2>1. IsFiniteSet({p \in TokenHolder : after[p] > 0})
    BY LimitsAssumption, FS_Subset
  <2>2. QED BY <1>9, <2>1, FS_CardinalityType
<1> HIDE DEF count
<1>11. /\ new \in Fields /\ new.balance = after /\ new.count = count
  BY <1>1, <1>3, <1>6, <1>10
<1>12. new \in LimitBooks
  BY <1>8, <1>9, <1>11 DEF LimitBooks, HoldersOf
<1>13. QED BY <1>2, <1>7, <1>11, <1>12 DEF Transferred, count

\* A transfer to somebody else adds to the supply what it issues.
LEMMA SupplyAfter ==
  ASSUME NEW b \in LimitBooks, NEW from \in Party, NEW to \in TokenHolder, from # to,
         NEW amount \in Nat, NEW new, Transferred(b, new, from, to, amount)
  PROVE  /\ SupplyOf(b) \in Nat
         /\ SupplyOf(new) = SupplyOf(b) + (IF from = NoAccount THEN amount ELSE 0)
<1> DEFINE f == b.balance
           g == new.balance
           h == [p \in Party |-> IF p = to THEN f[p] + amount ELSE f[p]]
           S == SumFunction(f)
<1>1. /\ IsFiniteSet(Party) /\ to \in Party /\ to # NoAccount
      /\ f \in [Party -> Nat] /\ g \in [Party -> Nat]
  <2>1. IsFiniteSet(Party) BY LimitsAssumption, FS_AddElement DEF Party
  <2>2. QED BY <2>1, LimitsAssumption DEF Transferred, LimitBooks, Party
<1>2. \A p \in Party :
        g[p] = IF p = from /\ p # NoAccount THEN f[p] - amount
               ELSE IF p = to /\ p # NoAccount THEN f[p] + amount ELSE f[p]
  BY DEF Transferred
<1> HIDE DEF f, g
<1>3. /\ DOMAIN f = Party /\ DOMAIN g = Party /\ DOMAIN h = Party
      /\ \A p \in Party : f[p] \in Int /\ g[p] \in Int
      /\ \A p \in Party \ {to} : h[p] = f[p]
      /\ h[to] = f[to] + amount /\ h[to] \in Int
  BY <1>1
<1>4. \A p \in Party : h[p] \in Int BY <1>3
<1>5. S \in Nat
  <2>1. SumFunction(f) = SumFunctionOnSet(f, Party) BY <1>3 DEF SumFunction
  <2>2. QED BY <1>1, <2>1, SumIsNat
<1> HIDE DEF h, S
<1>6. SumFunction(h) = S + amount
  BY <1>1, <1>3, SumFunctionChange DEF S
<1>7. CASE from = NoAccount
  <2>1. \A p \in Party : g[p] = h[p]
    BY <1>1, <1>2, <1>7 DEF h
  <2>2. g = h
    <3>1. g = [p \in Party |-> g[p]] BY <1>1
    <3>2. h = [p \in Party |-> h[p]] BY DEF h
    <3>3. QED BY <2>1, <3>1, <3>2
  <2>3. QED BY <1>5, <1>6, <1>7, <2>2 DEF SupplyOf, S, f, g
<1>8. CASE from # NoAccount
  <2>1. \A p \in Party \ {from} : g[p] = h[p]
    BY <1>1, <1>2 DEF h
  <2>2. g[from] = h[from] + (0 - amount)
    <3>1. g[from] = f[from] - amount /\ h[from] = f[from] BY <1>1, <1>2, <1>3, <1>8
    <3>2. QED BY <1>3, <3>1
  <2>3. SumFunction(g) = SumFunction(h) + (0 - amount)
    <3>1. 0 - amount \in Int OBVIOUS
    <3>2. QED BY <1>1, <1>3, <1>4, <2>1, <2>2, <3>1, SumFunctionChange
  <2>4. SumFunction(g) = S BY <1>5, <1>6, <2>3
  <2>5. QED BY <1>5, <1>8, <2>4 DEF SupplyOf, S, f, g
<1>9. QED BY <1>7, <1>8

\* A transfer stays within the limits that hold when it is made.
WithinLimits(b, new) ==
  /\ Cardinality(HoldersOf(new)) > Cardinality(HoldersOf(b))
       => Cardinality(HoldersOf(new)) <= b.maxCount
  /\ \A p \in TokenHolder :
       (/\ new.balance[p] > b.balance[p]
        /\ p \notin b.whitelist
        /\ ~(b.primary /\ SupplyOf(new) > SupplyOf(b)))
       => new.balance[p] * 100 <= (b.maxShare + 1) * SupplyOf(new)

LEMMA ShareBelow ==
  ASSUME NEW a \in Nat, NEW S \in Nat, S > 0, NEW T \in Nat, S <= T,
         NEW max \in Nat, a \div S <= max
  PROVE  a <= (max + 1) * T
<1> DEFINE q == a \div S
<1>1. q \in Nat /\ a < q * S + S BY DivisionBelow
<1>2. q <= max OBVIOUS
<1> HIDE DEF q
<1>3. q * S <= max * S BY <1>1, <1>2
<1>4. max * S <= max * T OBVIOUS
<1>5. (max + 1) * T = max * T + T OBVIOUS
<1>6. q * S \in Nat /\ max * S \in Nat /\ max * T \in Nat BY <1>1
<1>7. QED BY <1>1, <1>3, <1>4, <1>5, <1>6

LEMMA TransferStaysWithin ==
  ASSUME NEW b \in LimitBooks, NEW from \in Party, NEW to \in Party,
         ~(from = NoAccount /\ to = NoAccount),
         NEW amount \in Nat, NEW new, Transferred(b, new, from, to, amount)
  PROVE  WithinLimits(b, new)
<1> DEFINE n == Cardinality(HoldersOf(b))
           m == Cardinality(HoldersOf(new))
<1>1. /\ b.balance \in [Party -> Nat] /\ b.maxCount \in Nat /\ b.maxShare \in Nat
      /\ b.count = n /\ b.count \in Nat /\ new.count = m /\ new.count \in Nat
      /\ new.balance \in [Party -> Nat]
  BY DEF LimitBooks, Transferred
<1>2. new.count = AdjustedCount(b, from, to, amount) /\ CountExecute(b, from, to, amount)
  BY DEF Transferred
<1>3. m > n => m <= b.maxCount
  <2> SUFFICES ASSUME m > n PROVE m <= b.maxCount
    OBVIOUS
  <2> DEFINE joins == to # NoAccount /\ b.balance[to] = 0
             leaves == amount = b.balance[from]
             i == IF joins THEN 1 ELSE 0
             o == IF leaves THEN 1 ELSE 0
  <2>1. ~(amount = 0 \/ from = to) BY <1>1, <1>2 DEF AdjustedCount
  <2>2. m = n + i - o BY <1>1, <1>2, <2>1 DEF AdjustedCount
  <2>3. joins /\ ~leaves
    <3>1. /\ i \in {0, 1} /\ o \in {0, 1} /\ (i = 1 => joins) /\ (o = 0 => ~leaves)
      OBVIOUS
    <3>2. n \in Nat BY <1>1
    <3> HIDE DEF n, m, i, o, joins, leaves
    <3>3. i = 1 /\ o = 0 BY <2>2, <3>1, <3>2
    <3>4. QED BY <3>1, <3>3
  <2>4. ~(b.maxCount < m)
    BY <1>1, <1>2, <2>3 DEF CountExecute, CountForbids
  <2>5. QED BY <1>1, <2>4
<1>4. ASSUME NEW p \in TokenHolder,
             new.balance[p] > b.balance[p], p \notin b.whitelist,
             ~(b.primary /\ SupplyOf(new) > SupplyOf(b))
      PROVE  new.balance[p] * 100 <= (b.maxShare + 1) * SupplyOf(new)
  <2>1. p \in Party /\ b.balance[p] \in Nat BY <1>1 DEF Party
  <2>2. new.balance[p] = IF from = to THEN b.balance[p]
                         ELSE IF p = from /\ p # NoAccount THEN b.balance[p] - amount
                         ELSE IF p = to /\ p # NoAccount THEN b.balance[p] + amount
                         ELSE b.balance[p]
    BY <2>1 DEF Transferred
  <2>3. p = to /\ from # to /\ new.balance[p] = b.balance[p] + amount /\ amount > 0
    BY <1>4, <2>1, <2>2
  <2>4. /\ SupplyOf(b) \in Nat
        /\ SupplyOf(new) = SupplyOf(b) + (IF from = NoAccount THEN amount ELSE 0)
    BY <2>3, SupplyAfter
  <2> DEFINE S == SupplyOf(b)
             T == SupplyOf(new)
             a == new.balance[p] * 100
  <2>5. ~(from = NoAccount /\ b.primary)
    BY <1>4, <2>3, <2>4
  <2>6. S > 0 /\ a \div S <= b.maxShare
    BY <1>4, <2>3, <2>5 DEF Transferred, ShareAllows
  <2>7. T \in Nat /\ S <= T BY <2>4
  <2>8. a \in Nat BY <2>1, <2>3
  <2> HIDE DEF S, T, a
  <2>9. a <= (b.maxShare + 1) * T
    <3>1. S \in Nat BY <2>4 DEF S
    <3>2. QED BY <1>1, <2>6, <2>7, <2>8, <3>1, ShareBelow
  <2>10. QED BY <2>9 DEF a, T
<1>5. QED BY <1>3, <1>4 DEF WithinLimits

\* The program asks about the primary issuance it has shown.
LimitsShown == [place \in {"percentage"} |-> [primary : BOOLEAN]]

LimitsInv ==
  current = "limits" =>
    contract \in LimitBooks /\ Sessions([c \in Client |-> LimitCalls], LimitsShown)

LEMMA OneLimitCall ==
  ASSUME NEW op \in LimitOps, NEW row \in LimitRows(op)
  PROVE  One(op, row) \in Seq(LimitCalls)
<1>1. CallOf(op, LimitRows(op)) \subseteq LimitCalls BY DEF LimitCalls
<1>2. QED BY <1>1, OneIsCall

\* What a program does moves no tokens.
LEMMA LimitsStepKeeps ==
  ASSUME LimitsInv, NEW c \in Client, LimitsStep(c)
  PROVE  LimitsInv' /\ contract'.balance = contract.balance
<1> DEFINE calls == [d \in Client |-> LimitCalls]
           Kept == /\ contract' \in LimitBooksWith(contract.balance)
                   /\ Sessions(calls, LimitsShown)'
<1>1. /\ current = "limits" /\ contract \in LimitBooksWith(contract.balance)
      /\ Sessions(calls, LimitsShown) /\ calls[c] = LimitCalls
  BY DEF LimitsStep, LimitsInv, LimitBooksWith
<1>2. SUFFICES Kept
  <2>1. calls' = calls OBVIOUS
  <2>2. QED BY <2>1 DEF LimitsInv, LimitBooksWith
<1> HIDE DEF calls
<1>3. ASSUME NEW list \in Seq(LimitCalls), NEW about, Begin(c, list, about) PROVE Kept
  BY <1>1, <1>3, Begins DEF SameContract
<1>4. ASSUME NEW op \in LimitOps, NEW row \in LimitRows(op), NEW about,
             Begin(c, One(op, row), about)
      PROVE  Kept
  BY <1>3, <1>4, OneLimitCall
<1>5. CASE CountTransferManager(c)
  <2>1. PICK count \in HolderCount : Begin(c, One("changeHolderCount", <<count>>), {})
    BY <1>5 DEF CountTransferManager
  <2>2. "changeHolderCount" \in LimitOps /\ <<count>> \in LimitRows("changeHolderCount")
    BY LimitsAssumption DEF LimitOps, LimitRows
  <2>3. QED BY <1>4, <2>1, <2>2
<1>6. ASSUME NEW share \in Percentage,
             Begin(c, One("changeHolderPercentage", <<share>>), {})
      PROVE  Kept
  <2>1. /\ "changeHolderPercentage" \in LimitOps
        /\ <<share>> \in LimitRows("changeHolderPercentage")
    BY LimitsAssumption DEF LimitOps, LimitRows
  <2>2. QED BY <1>4, <1>6, <2>1
<1>7. ASSUME NEW p \in TokenHolder, NEW valid \in BOOLEAN,
             Begin(c, One("modifyWhitelist", <<p, valid>>), {})
      PROVE  Kept
  <2>1. "modifyWhitelist" \in LimitOps /\ <<p, valid>> \in LimitRows("modifyWhitelist")
    BY DEF LimitOps, LimitRows
  <2>2. QED BY <1>4, <1>7, <2>1
<1>8. CASE ModifyWhitelistFromCSV(c)
  <2>1. PICK f \in WhitelistFile, size \in WhitelistBatch :
          Begin(c, CallsOf("modifyWhitelist", f, size), {})
    BY <1>8 DEF ModifyWhitelistFromCSV
  <2> DEFINE Entry == TokenHolder \cup BOOLEAN
             rows == LimitRows("modifyWhitelist")
             list == CallsOf("modifyWhitelist", f, size)
  <2>2. /\ rows \subseteq [1..2 -> Entry] /\ f \in Seq(rows) /\ size \in Nat \ {0}
    BY LimitsAssumption DEF LimitRows
  <2>3. CallOf("modifyWhitelist", rows) \subseteq LimitCalls BY DEF LimitCalls, LimitOps
  <2>4. 2 \in Nat \ {0} OBVIOUS
  <2> HIDE DEF Entry, rows
  <2>5. list \in Seq(LimitCalls) BY <2>2, <2>3, <2>4, CallsHoldRecords
  <2> HIDE DEF list
  <2>6. Begin(c, list, {}) BY <2>1 DEF list
  <2>7. QED BY <1>3, <2>5, <2>6
<1>9. CASE ShowPrimaryIssuance(c)
  <2> DEFINE about == {[primary |-> contract.primary]}
  <2>1. contract.primary \in BOOLEAN BY <1>1 DEF LimitBooksWith, LimitBooks
  <2>2. about # {} /\ about \subseteq LimitsShown["percentage"]
    BY <2>1 DEF LimitsShown
  <2>3. Show(c, "percentage", about) BY <1>9 DEF ShowPrimaryIssuance
  <2> HIDE DEF about
  <2>4. QED BY <1>1, <2>2, <2>3, Shows DEF SameContract
<1>10. CASE At(c, "percentage")
            /\ Begin(c, One("setAllowPrimaryIssuance", <<~Shown(c).primary>>), {})
  <2>1. "percentage" \in DOMAIN LimitsShown BY DEF LimitsShown
  <2>2. Shown(c) \in LimitsShown["percentage"] BY <1>1, <1>10, <2>1, ShownIsShown
  <2>3. "setAllowPrimaryIssuance" \in LimitOps BY DEF LimitOps
  <2> DEFINE allow == ~Shown(c).primary
  <2>4. allow \in BOOLEAN OBVIOUS
  <2> HIDE DEF allow
  <2>5. <<allow>> \in LimitRows("setAllowPrimaryIssuance") BY <2>4 DEF LimitRows
  <2>6. Begin(c, One("setAllowPrimaryIssuance", <<allow>>), {}) BY <1>10 DEF allow
  <2>7. QED BY <1>4, <2>3, <2>5, <2>6
<1>11. CASE Send(c, LimitsCallAfter(ToSend(c)))
  BY <1>1, <1>11, Sends DEF SameContract
<1>12. ASSUME NEW call \in mempool[c], Mine(c, LimitsCallAfter(call)) PROVE Kept
  <2>1. call \in LimitCalls BY <1>1 DEF Sessions
  <2>2. LimitsCallAfter(call) \subseteq LimitBooksWith(contract.balance)
    BY <1>1, <2>1, LimitCallKeeps DEF LimitsCallAfter
  <2>3. QED BY <1>1, <1>12, <2>2, Mines
<1>13. CASE PercentageTransferManager(c)
  BY <1>6, <1>7, <1>8, <1>9, <1>10, <1>13 DEF PercentageTransferManager
<1>14. QED BY <1>5, <1>11, <1>12, <1>13 DEF LimitsStep

LEMMA HolderTransferKeeps ==
  ASSUME LimitsInv, HolderTransfer
  PROVE  LimitsInv' /\ WithinLimits(contract, contract')
<1>1. /\ current = "limits" /\ contract \in LimitBooks
      /\ Sessions([c \in Client |-> LimitCalls], LimitsShown)
  BY DEF HolderTransfer, LimitsInv
<1>2. PICK from \in Party, to \in Party, amount \in TransferAmount :
        /\ ~(from = NoAccount /\ to = NoAccount)
        /\ contract' \in TransferTokens(contract, from, to, amount)
  BY DEF HolderTransfer
<1>3. amount \in Nat BY LimitsAssumption
<1>4. Transferred(contract, contract', from, to, amount)
  BY <1>1, <1>2, <1>3, TransferKeeps
<1>5. WithinLimits(contract, contract') BY <1>1, <1>2, <1>3, <1>4, TransferStaysWithin
<1>6. contract' \in LimitBooks BY <1>4 DEF Transferred
<1>7. Sessions([c \in Client |-> LimitCalls], LimitsShown)'
  BY <1>1 DEF HolderTransfer, Sessions
<1>8. QED BY <1>5, <1>6, <1>7 DEF LimitsInv

LEMMA LimitsAtFirst == Init => LimitsInv
<1> SUFFICES ASSUME Init, current = "limits"
             PROVE  /\ contract \in LimitBooks
                    /\ Sessions([c \in Client |-> LimitCalls], LimitsShown)
  BY DEF LimitsInv
<1>1. PICK count \in HolderCount, share \in Percentage : contract = NoLimits(count, share)
  BY DEF Init, ConfigExistingModules, ListsInit, Lists, ApprovalsInit, RestrictionsInit,
     GeneralInit, LimitsInit, RegistryInit, PermissionsInit, WalletInit, ModulesInit,
     IssuanceInit
<1>2. NoLimits(count, share) \in LimitBooks
  <2> DEFINE new == NoLimits(count, share)
  <2>1. count \in Nat /\ share \in Nat BY LimitsAssumption
  <2>2. /\ new \in [balance : [Party -> Nat], count : Nat, maxCount : Nat, maxShare : Nat,
                    whitelist : SUBSET TokenHolder, primary : BOOLEAN]
        /\ new.count = 0 /\ \A p \in Party : new.balance[p] = 0
    BY <2>1 DEF NoLimits
  <2> HIDE DEF new
  <2>3. HoldersOf(new) = {} BY <2>2 DEF HoldersOf, Party
  <2>4. NoAccount \in Party BY DEF Party
  <2>5. new \in LimitBooks BY <2>2, <2>3, <2>4, FS_EmptySet DEF LimitBooks
  <2>6. QED BY <2>5 DEF new
<1>3. SessionInit BY DEF Init
<1>4. DOMAIN LimitsShown \cap {"menu", "sending", "waiting"} = {} BY DEF LimitsShown
<1>5. Sessions([c \in Client |-> LimitCalls], LimitsShown) BY <1>3, <1>4, SessionsAtFirst
<1>6. QED BY <1>1, <1>2, <1>5

LEMMA LimitsNext ==
  LimitsInv /\ [Next]_sessionVars =>
    LimitsInv' /\ (current = "limits" => WithinLimits(contract, contract'))
<1> SUFFICES ASSUME LimitsInv, [Next]_sessionVars
             PROVE  LimitsInv' /\ (current = "limits" => WithinLimits(contract, contract'))
  OBVIOUS
<1>1. CASE current = "limits"
  <2>1. contract \in LimitBooks BY <1>1 DEF LimitsInv
  <2>2. ASSUME contract'.balance = contract.balance
        PROVE  WithinLimits(contract, contract')
    <3>1. HoldersOf(contract') = HoldersOf(contract) BY <2>2 DEF HoldersOf
    <3>2. \A p \in TokenHolder : ~(contract'.balance[p] > contract.balance[p])
      BY <2>1, <2>2 DEF LimitBooks, Party
    <3>3. Cardinality(HoldersOf(contract)) \in Nat BY <2>1 DEF LimitBooks
    <3>4. QED BY <3>1, <3>2, <3>3 DEF WithinLimits
  <2>3. CASE \E c \in Client : LimitsStep(c) BY <2>2, <2>3, LimitsStepKeeps
  <2>4. CASE HolderTransfer BY <2>4, HolderTransferKeeps
  <2>5. CASE (\E c \in Client : Kill(c)) \/ UNCHANGED sessionVars \/ Tick
    <3>1. Sessions([c \in Client |-> LimitCalls], LimitsShown)'
          /\ UNCHANGED <<current, contract>>
      BY <1>1, <2>5, CommonSteps DEF LimitsInv
    <3>2. QED BY <2>1, <2>2, <3>1 DEF LimitsInv
  <2>6. QED BY <1>1, <2>3, <2>4, <2>5, StepsOf
<1>2. CASE current # "limits" BY <1>2, ModuleStays DEF LimitsInv
<1>3. QED BY <1>1, <1>2

LEMMA LimitsKeptBooks == LimitsInv /\ [Next]_sessionVars => LimitsInv'
BY LimitsNext

\* CountTransferManager foresees in verifyTransfer what executeTransfer answers.
THEOREM VerifyAlwaysAgrees == Spec => []VerifyAgrees
<1>1. VerifyAgrees
  BY DEF VerifyAgrees, CountVerify, CountExecute, AdjustedCount
<1>2. QED BY <1>1, PTL

\* A transfer brings nobody over the limits of the count and of the percentage
\* transfer manager that hold when it is made, whatever operators do meanwhile.
THEOREM LimitsAlwaysKept == Spec => LimitsKept
<1>1. LimitsInv /\ [Next]_sessionVars =>
        [current = "limits" =>
           LET holders == {p \in TokenHolder : contract.balance[p] > 0}
               after == {p \in TokenHolder : contract'.balance[p] > 0}
           IN  /\ Cardinality(after) > Cardinality(holders)
                    => Cardinality(after) <= contract.maxCount
               /\ \A p \in TokenHolder :
                    (/\ contract'.balance[p] > contract.balance[p]
                     /\ p \notin contract.whitelist
                     /\ ~(contract.primary /\ SupplyOf(contract') > SupplyOf(contract)))
                    => contract'.balance[p] * 100
                         <= (contract.maxShare + 1) * SupplyOf(contract')
        ]_sessionVars
  BY LimitsNext DEF WithinLimits, HoldersOf
<1>2. QED BY <1>1, LimitsAtFirst, LimitsKeptBooks, PTL DEF Spec, LimitsKept

-----------------------------------------------------------------------------
(* Blacklists and lockups.                                                 *)

\* Every entry of an array knows its place, counted from zero.
Indexed(s, index) == \A j \in 1..Len(s) : index[s[j]] = j - 1

LEMMA IndexedOnce ==
  ASSUME NEW T, NEW s \in Seq(T), NEW index \in [T -> Nat], Indexed(s, index),
         NEW x \in T
  PROVE  x \in ToSet(s) <=> EntryIs(s, index[x], x)
<1>1. ASSUME x \in ToSet(s) PROVE EntryIs(s, index[x], x)
  <2>1. PICK j \in 1..Len(s) : s[j] = x BY <1>1 DEF ToSet
  <2>2. index[x] = j - 1 BY <2>1 DEF Indexed
  <2>3. j - 1 < Len(s) /\ index[x] + 1 = j BY <2>2
  <2>4. QED BY <2>1, <2>3, <2>2 DEF EntryIs
<1>2. ASSUME EntryIs(s, index[x], x) PROVE x \in ToSet(s)
  <2>1. index[x] \in Nat /\ index[x] < Len(s) /\ s[index[x] + 1] = x BY <1>2 DEF EntryIs
  <2>2. index[x] + 1 \in 1..Len(s) BY <2>1
  <2>3. QED BY <2>1, <2>2 DEF ToSet
<1>3. QED BY <1>1, <1>2

JoinsIndexed(s, index, x) ==
  /\ ToSet(Append(s, x)) = ToSet(s) \cup {x}
  /\ Indexed(Append(s, x), [index EXCEPT ![x] = Len(s)])

LEMMA IndexedJoins ==
  ASSUME NEW T, NEW s \in Seq(T), NEW index \in [T -> Nat], Indexed(s, index),
         NEW x \in T, x \notin ToSet(s)
  PROVE  JoinsIndexed(s, index, x)
<1> DEFINE n == Len(s)
           t == Append(s, x)
           after == [index EXCEPT ![x] = n]
<1>1. n \in Nat /\ \A j \in 1..n : s[j] \in T OBVIOUS
<1>2. /\ t \in Seq(T) /\ DOMAIN t = 1..n + 1 /\ Len(t) = n + 1 /\ t[n + 1] = x
      /\ \A j \in 1..n : t[j] = s[j]
  OBVIOUS
<1>3. after \in [T -> Nat] /\ after[x] = n /\ \A y \in T \ {x} : after[y] = index[y]
  BY <1>1
<1>4. DOMAIN s = 1..n OBVIOUS
<1> HIDE DEF t, after, n
<1>5. \A j \in 1..n + 1 : j \in 1..n \/ j = n + 1 BY <1>1
<1>6. ToSet(t) = ToSet(s) \cup {x}
  <2>1. /\ ToSet(t) = {t[j] : j \in 1..n + 1}
        /\ ToSet(s) = {s[j] : j \in 1..n}
    BY ONLY <1>2, <1>4 DEF ToSet
  <2>2. {t[j] : j \in 1..n} = {s[j] : j \in 1..n} BY ONLY <1>2
  <2>3. {t[j] : j \in 1..n + 1} = {t[j] : j \in 1..n} \cup {x}
    BY ONLY <1>1, <1>2, <1>5
  <2>4. QED BY ONLY <2>1, <2>2, <2>3
<1>7. ASSUME NEW j \in 1..n + 1 PROVE after[t[j]] = j - 1
  <2>1. CASE j = n + 1 BY <1>1, <1>2, <1>3, <2>1
  <2>2. CASE j \in 1..n
    <3>1. s[j] \in T /\ s[j] # x BY <1>1, <1>4, <2>2 DEF ToSet
    <3>2. index[s[j]] = j - 1 BY <2>2 DEF Indexed, n
    <3>3. QED BY <1>2, <1>3, <2>2, <3>1, <3>2
  <2>3. QED BY <1>5, <2>1, <2>2
<1>8. Indexed(t, after) BY <1>2, <1>7 DEF Indexed
<1>9. QED BY <1>6, <1>8 DEF t, after, n, JoinsIndexed

\* An entry leaves, wherever it was.
LEMMA WithoutEntryIs ==
  ASSUME NEW T, NEW s \in Seq(T), s # << >>, NEW k \in Nat
  PROVE  LET t == WithoutEntry(s, k)
         IN  /\ t \in Seq(T) /\ Len(t) = Len(s) - 1 /\ DOMAIN t = 1..Len(s) - 1
             /\ \A j \in 1..Len(s) - 1 : t[j] = IF j = k + 1 /\ k < Len(s) - 1
                                                 THEN s[Len(s)] ELSE s[j]
<1> DEFINE n == Len(s)
           t == WithoutEntry(s, k)
<1>1. n \in Nat /\ n # 0 OBVIOUS
<1>2. CASE k < n - 1
  <2> DEFINE p == k + 1
  <2>1. p \in 1..n BY <1>1, <1>2
  <2>2. t = Front([s EXCEPT ![p] = Last(s)]) BY <1>2 DEF WithoutEntry
  <2> HIDE DEF p, t
  <2>3. /\ t \in Seq(T) /\ Len(t) = n - 1 /\ DOMAIN t = 1..n - 1
        /\ \A j \in 1..n - 1 : t[j] = IF j = p THEN s[n] ELSE s[j]
    BY <2>1, <2>2, LastTakesPlace
  <2> HIDE DEF n
  <2>4. \A j \in 1..n - 1 : t[j] = IF j = k + 1 /\ k < n - 1 THEN s[n] ELSE s[j]
    BY <1>2, <2>3 DEF p
  <2>5. QED BY <2>3, <2>4 DEF n, t
<1>3. CASE ~(k < n - 1)
  <2>1. t = SubSeq(s, 1, n - 1) BY <1>3 DEF WithoutEntry, Front
  <2> HIDE DEF t
  <2> DEFINE m == n - 1
  <2>2. m \in Nat /\ m <= Len(s) BY <1>1
  <2>3. t = SubSeq(s, 1, m) BY <2>1
  <2> HIDE DEF m
  <2>4. t = [j \in 1..m |-> s[j]] BY <2>2, <2>3
  <2>5. \A j \in 1..m : s[j] \in T BY <2>2
  <2>6. t \in Seq(T) /\ Len(t) = m
    <3>1. t \in [1..m -> T] BY <2>4, <2>5
    <3>2. t \in Seq(T) BY <2>2, <3>1
    <3>3. QED BY <2>2, <3>1, <3>2
  <2>7. DOMAIN t = 1..m /\ \A j \in 1..m : t[j] = s[j] BY <2>4
  <2>8. QED BY <1>3, <2>6, <2>7 DEF m, t
<1>4. QED BY <1>2, <1>3

LEMMA ReindexedIs ==
  ASSUME NEW T, NEW index \in [T -> Nat], NEW s \in Seq(T), NEW k \in Nat, NEW x \in T
  PROVE  LET after == Reindexed(index, s, k, x)
         IN  /\ after \in [T -> Nat]
             /\ \A y \in T : after[y] = IF y = x THEN 0
                                       ELSE IF k < Len(s) - 1 /\ y = s[Len(s)] THEN k
                                       ELSE index[y]
<1> DEFINE place(y) == IF y = x THEN 0
                       ELSE IF k < Len(s) - 1 /\ y = s[Len(s)] THEN k ELSE index[y]
           after == Reindexed(index, s, k, x)
<1> SUFFICES after \in [T -> Nat] /\ \A y \in T : after[y] = place(y)
  OBVIOUS
<1>1. after = [y \in T |-> place(y)] BY DEF Reindexed, Last
<1>2. \A y \in T : place(y) \in Nat OBVIOUS
<1> HIDE DEF place, after
<1>3. QED BY <1>1, <1>2

LeavesIndexed(s, index, x) ==
  /\ ToSet(WithoutEntry(s, index[x])) = ToSet(s) \ {x}
  /\ Indexed(WithoutEntry(s, index[x]), Reindexed(index, s, index[x], x))

LEMMA IndexedLeaves ==
  ASSUME NEW T, NEW s \in Seq(T), NEW index \in [T -> Nat], Indexed(s, index),
         NEW x \in T, x \in ToSet(s)
  PROVE  LeavesIndexed(s, index, x)
<1> DEFINE n == Len(s)
           k == index[x]
           t == WithoutEntry(s, k)
           after == Reindexed(index, s, k, x)
<1>1. n \in Nat /\ (\A j \in 1..n : s[j] \in T) /\ DOMAIN s = 1..n OBVIOUS
<1>2. k \in Nat /\ k < n /\ s[k + 1] = x BY IndexedOnce DEF EntryIs
<1>3. s # << >> BY <1>2
<1>4. /\ t \in Seq(T) /\ Len(t) = n - 1 /\ DOMAIN t = 1..n - 1
      /\ \A j \in 1..n - 1 : t[j] = IF j = k + 1 /\ k < n - 1 THEN s[n] ELSE s[j]
  <2> HIDE DEF k
  <2> QED BY <1>2, <1>3, WithoutEntryIs
<1>5. /\ after \in [T -> Nat]
      /\ \A y \in T : after[y] = IF y = x THEN 0
                                 ELSE IF k < n - 1 /\ y = s[n] THEN k ELSE index[y]
  <2> HIDE DEF k
  <2>1. k \in Nat BY <1>2
  <2>2. QED BY ONLY <2>1, ReindexedIs, x \in T, s \in Seq(T), index \in [T -> Nat]
<1>6. \A j \in 1..n : index[s[j]] = j - 1 BY DEF Indexed
<1> HIDE DEF n, k, t, after
<1>7. \A i, j \in 1..n : s[i] = s[j] => i = j
  <2> SUFFICES ASSUME NEW i \in 1..n, NEW j \in 1..n, s[i] = s[j] PROVE i = j
    OBVIOUS
  <2>1. i - 1 = j - 1 BY <1>6
  <2>2. QED BY <1>1, <2>1
<1>8. k + 1 \in 1..n /\ n \in 1..n BY <1>1, <1>2
<1>9. ASSUME NEW j \in 1..n - 1
      PROVE  t[j] \in ToSet(s) \ {x} /\ after[t[j]] = j - 1
  <2>1. j \in 1..n /\ j # n BY <1>1
  <2>2. CASE j = k + 1
    <3>1. k < n - 1 BY <1>1, <1>2, <2>1, <2>2
    <3>2. t[j] = s[n] BY <1>4, <2>2, <3>1
    <3>3. s[n] # x BY <1>2, <1>7, <1>8, <2>1, <2>2
    <3>4. s[n] \in T BY <1>1, <1>8
    <3>5. QED BY <1>1, <1>2, <1>5, <1>8, <2>2, <3>1, <3>2, <3>3, <3>4 DEF ToSet
  <2>3. CASE j # k + 1
    <3>1. t[j] = s[j] BY <1>4, <2>3
    <3>2. s[j] # x /\ s[j] # s[n] BY <1>2, <1>7, <1>8, <2>1, <2>3
    <3>3. s[j] \in T BY <1>1, <2>1
    <3>4. QED BY <1>1, <1>5, <1>6, <2>1, <3>1, <3>2, <3>3 DEF ToSet
  <2>4. QED BY <2>2, <2>3
<1>10. ASSUME NEW j \in 1..n, s[j] # x PROVE \E i \in 1..n - 1 : t[i] = s[j]
  <2>1. j # k + 1 BY <1>2, <1>10
  <2>2. CASE j = n
    <3>1. k < n - 1 /\ k + 1 \in 1..n - 1 BY <1>1, <1>2, <2>1, <2>2
    <3>2. QED BY <1>4, <2>2, <3>1
  <2>3. CASE j # n
    <3>1. j \in 1..n - 1 BY <1>1, <2>3
    <3>2. QED BY <1>4, <2>1, <3>1
  <2>4. QED BY <2>2, <2>3
<1>11. ToSet(t) = ToSet(s) \ {x}
  <2>1. ASSUME NEW y \in ToSet(t) PROVE y \in ToSet(s) \ {x}
    BY <1>4, <1>9 DEF ToSet
  <2>2. ASSUME NEW y \in ToSet(s), y # x PROVE y \in ToSet(t)
    <3>1. PICK j \in 1..n : s[j] = y BY <1>1 DEF ToSet
    <3>2. PICK i \in 1..n - 1 : t[i] = y BY <1>10, <2>2, <3>1
    <3>3. QED BY <1>4, <3>2 DEF ToSet
  <2>3. QED BY <2>1, <2>2
<1>12. Indexed(t, after) BY <1>4, <1>9 DEF Indexed
<1>13. QED BY <1>11, <1>12 DEF t, after, k, LeavesIndexed

BooksOfNames ==
  [types : Seq(Name), startTime : [Name -> Nat],
   namesOf : [Investor -> Seq(Name)], nameIndex : [Investor -> [Name -> Nat]],
   investorsOf : [Name -> Seq(Investor)], investorIndex : [Name -> [Investor -> Nat]]]

TypesListed(b) ==
  IsInjective(b.types) /\ ToSet(b.types) = {n \in Name : Exists(b, n)}

\* Both arrays know their places, hold the same memberships, and only of types
\* that there are.
MembersListed(b) ==
  /\ \A i \in Investor : Indexed(b.namesOf[i], b.nameIndex[i])
  /\ \A n \in Name : Indexed(b.investorsOf[n], b.investorIndex[n])
  /\ \A i \in Investor, n \in Name :
       /\ n \in ToSet(b.namesOf[i]) <=> i \in ToSet(b.investorsOf[n])
       /\ n \in ToSet(b.namesOf[i]) => Exists(b, n)

\* In a blacklist manager an investor may be under a name twice.
ListBooks(kind) ==
  {b \in BooksOfNames : TypesListed(b) /\ (kind = "lockup" => MembersListed(b))}

\* Other types, with their times, and a name that goes is nobody's.
TypesFit(b, list, starts) ==
  /\ list \in Seq(Name) /\ IsInjective(list) /\ starts \in [Name -> Nat]
  /\ ToSet(list) = {n \in Name : starts[n] # 0}
  /\ \A n \in Name : Exists(b, n) /\ starts[n] = 0 => b.investorsOf[n] = << >>

Retyped(b, list, starts) == [b EXCEPT !.types = list, !.startTime = starts]

LEMMA TypesChange ==
  ASSUME NEW kind, NEW b \in ListBooks(kind), NEW list, NEW starts,
         TypesFit(b, list, starts)
  PROVE  /\ Retyped(b, list, starts) \in ListBooks(kind)
         /\ Retyped(b, list, starts).investorsOf = b.investorsOf
<1> DEFINE new == Retyped(b, list, starts)
<1>0. /\ list \in Seq(Name) /\ IsInjective(list) /\ starts \in [Name -> Nat]
      /\ ToSet(list) = {n \in Name : starts[n] # 0}
      /\ \A n \in Name : Exists(b, n) /\ starts[n] = 0 => b.investorsOf[n] = << >>
  BY DEF TypesFit
<1>1. b \in BooksOfNames BY DEF ListBooks
<1>2. /\ new \in BooksOfNames /\ new.types = list /\ new.startTime = starts
      /\ new.namesOf = b.namesOf /\ new.nameIndex = b.nameIndex
      /\ new.investorsOf = b.investorsOf /\ new.investorIndex = b.investorIndex
  BY <1>0, <1>1 DEF BooksOfNames, Retyped
<1> HIDE DEF new
<1>3. TypesListed(new) BY <1>0, <1>2 DEF TypesListed, Exists
<1>4. ASSUME kind = "lockup" PROVE MembersListed(new)
  <2>1. MembersListed(b) BY <1>4 DEF ListBooks
  <2>2. ASSUME NEW i \in Investor, NEW n \in Name, n \in ToSet(b.namesOf[i])
        PROVE  Exists(new, n)
    <3>1. Exists(b, n) /\ i \in ToSet(b.investorsOf[n])
      BY <2>1, <2>2 DEF MembersListed
    <3>2. b.investorsOf[n] # << >> BY <3>1 DEF ToSet
    <3>3. QED BY <1>0, <1>2, <3>1, <3>2 DEF Exists
  <2>3. QED BY <1>2, <2>1, <2>2 DEF MembersListed
<1>5. new \in ListBooks(kind) BY <1>2, <1>3, <1>4 DEF ListBooks
<1>6. QED BY <1>2, <1>5 DEF new

\* The time a type gets is never zero.
LEMMA StartIsTime ==
  ASSUME NEW kind, NEW time \in Nat \ {0}, NEW start \in Nat
  PROVE  /\ StartOf(kind, start, time) \in Nat
         /\ StartOf(kind, start, time) >= time => StartOf(kind, start, time) # 0
BY DEF StartOf

LEMMA AddTypeKeeps ==
  ASSUME NEW kind, NEW b \in ListBooks(kind), NEW start \in Nat, NEW n \in Name,
         NEW time \in Nat \ {0}, NEW row, row[1] = start, row[2] = n,
         NEW new \in AddType(b, kind, row, time)
  PROVE  new \in ListBooks(kind) /\ new.investorsOf = b.investorsOf
<1> DEFINE from == StartOf(kind, start, time)
           list == Append(b.types, n)
           starts == [b.startTime EXCEPT ![n] = from]
<1>1. from \in Nat /\ (from >= time => from # 0) BY StartIsTime
<1>2. ~Exists(b, n) /\ from >= time
      /\ new = [b EXCEPT !.types = list, !.startTime[n] = from]
  BY DEF AddType
<1> HIDE DEF from
<1>3. b \in BooksOfNames /\ TypesListed(b) BY DEF ListBooks
<1>4. n \notin ToSet(b.types) BY <1>2, <1>3 DEF TypesListed
<1>5. /\ list \in Seq(Name) /\ IsInjective(list)
      /\ ToSet(list) = ToSet(b.types) \cup {n}
  BY <1>3, <1>4, OneMore DEF BooksOfNames, TypesListed
<1>6. starts \in [Name -> Nat]
      /\ \A m \in Name : starts[m] = IF m = n THEN from ELSE b.startTime[m]
  BY <1>1, <1>3 DEF BooksOfNames
<1>7. new = Retyped(b, list, starts) BY <1>2 DEF Retyped
<1> HIDE DEF list, starts
<1>8. ToSet(list) = {m \in Name : starts[m] # 0}
  BY <1>1, <1>2, <1>3, <1>5, <1>6 DEF TypesListed, Exists
<1>9. \A m \in Name : Exists(b, m) /\ starts[m] = 0 => b.investorsOf[m] = << >>
  BY <1>1, <1>2, <1>6 DEF Exists
<1>10. TypesFit(b, list, starts) BY <1>5, <1>6, <1>8, <1>9 DEF TypesFit
<1>11. QED BY <1>7, <1>10, TypesChange

LEMMA ModifyTypeKeeps ==
  ASSUME NEW kind, NEW b \in ListBooks(kind), NEW start \in Nat, NEW n \in Name,
         NEW time \in Nat \ {0}, NEW row, row[1] = start, row[2] = n,
         NEW new \in ModifyType(b, kind, row, time)
  PROVE  new \in ListBooks(kind) /\ new.investorsOf = b.investorsOf
<1> DEFINE from == StartOf(kind, start, time)
           list == b.types
           starts == [b.startTime EXCEPT ![n] = from]
<1>1. from \in Nat /\ (from >= time => from # 0) BY StartIsTime
<1>2. Exists(b, n) /\ from >= time /\ new = [b EXCEPT !.startTime[n] = from]
  BY DEF ModifyType
<1> HIDE DEF from
<1>3. b \in BooksOfNames /\ TypesListed(b) BY DEF ListBooks
<1>4. list \in Seq(Name) /\ IsInjective(list)
  BY <1>3 DEF BooksOfNames, TypesListed
<1>5. starts \in [Name -> Nat]
      /\ \A m \in Name : starts[m] = IF m = n THEN from ELSE b.startTime[m]
  BY <1>1, <1>3 DEF BooksOfNames
<1>6. new = Retyped(b, list, starts)
  BY <1>2, <1>3 DEF BooksOfNames, Retyped
<1>7. ToSet(list) = {m \in Name : b.startTime[m] # 0} BY <1>3 DEF TypesListed, Exists
<1> HIDE DEF list, starts
<1>8. ToSet(list) = {m \in Name : starts[m] # 0}
  BY <1>1, <1>2, <1>5, <1>7 DEF Exists
<1>9. \A m \in Name : Exists(b, m) /\ starts[m] = 0 => b.investorsOf[m] = << >>
  BY <1>1, <1>2, <1>5 DEF Exists
<1>10. TypesFit(b, list, starts) BY <1>4, <1>5, <1>8, <1>9 DEF TypesFit
<1>11. QED BY <1>6, <1>10, TypesChange

\* The entry found for a type leaves the array.
LEMMA TypeLeaves ==
  ASSUME NEW T, NEW s \in Seq(T), IsInjective(s), NEW x, x \in ToSet(s)
  PROVE  LET t == WithoutEntry(s, SelectInSeq(s, LAMBDA m : m = x) - 1)
         IN  t \in Seq(T) /\ IsInjective(t) /\ ToSet(t) = ToSet(s) \ {x}
<1> DEFINE p == FirstPlace(s, x)
           t == Front([s EXCEPT ![p] = Last(s)])
<1>1. p \in 1..Len(s) /\ s[p] = x BY FirstPlaceIs
<1>2. SelectInSeq(s, LAMBDA m : m = x) = p BY DEF SelectInSeq, FirstPlace
<1> HIDE DEF p
<1>3. WithoutEntry(s, p - 1) = t
  <2>1. CASE p - 1 < Len(s) - 1
    <3>1. p - 1 + 1 = p BY <1>1
    <3>2. QED BY <2>1, <3>1 DEF WithoutEntry
  <2>2. CASE ~(p - 1 < Len(s) - 1)
    <3>1. p = Len(s) BY <1>1, <2>2
    <3>2. [s EXCEPT ![p] = Last(s)] = s BY <3>1 DEF Last
    <3>3. WithoutEntry(s, p - 1) = Front(s) BY <2>2 DEF WithoutEntry
    <3>4. QED BY <3>2, <3>3
  <2>3. QED BY <2>1, <2>2
<1>4. t \in Seq(T) /\ IsInjective(t) /\ ToSet(t) = ToSet(s) \ {s[p]}
  BY <1>1, LeavesTheOthers, Zenon
<1> HIDE DEF t
<1>5. QED BY <1>1, <1>2, <1>3, <1>4

LEMMA DeleteTypeKeeps ==
  ASSUME NEW kind, NEW b \in ListBooks(kind), NEW n \in Name,
         NEW new \in DeleteType(b, n)
  PROVE  new \in ListBooks(kind) /\ new.investorsOf = b.investorsOf
<1> DEFINE list == WithoutEntry(b.types, SelectInSeq(b.types, LAMBDA m : m = n) - 1)
           starts == [b.startTime EXCEPT ![n] = 0]
<1>1. /\ Exists(b, n) /\ b.investorsOf[n] = << >>
      /\ new = [b EXCEPT !.startTime[n] = 0, !.types = list]
  BY DEF DeleteType
<1>2. b \in BooksOfNames /\ TypesListed(b) BY DEF ListBooks
<1>3. n \in ToSet(b.types) BY <1>1, <1>2 DEF TypesListed
<1>4. /\ list \in Seq(Name) /\ IsInjective(list)
      /\ ToSet(list) = ToSet(b.types) \ {n}
  BY <1>2, <1>3, TypeLeaves DEF BooksOfNames, TypesListed
<1> HIDE DEF list
<1>5. starts \in [Name -> Nat]
      /\ \A m \in Name : starts[m] = IF m = n THEN 0 ELSE b.startTime[m]
  BY <1>2 DEF BooksOfNames
<1>6. new = Retyped(b, list, starts)
  BY <1>1, <1>2 DEF BooksOfNames, Retyped
<1> HIDE DEF starts
<1>7. ToSet(list) = {m \in Name : starts[m] # 0}
  BY <1>1, <1>2, <1>4, <1>5 DEF TypesListed, Exists
<1>8. \A m \in Name : Exists(b, m) /\ starts[m] = 0 => b.investorsOf[m] = << >>
  BY <1>1, <1>5 DEF Exists
<1>9. TypesFit(b, list, starts) BY <1>4, <1>5, <1>7, <1>8 DEF TypesFit
<1>10. QED BY <1>6, <1>9, TypesChange

\* The names of an investor and the investors of a name are others.
Rejoined(b, i, n, names, nameAt, investors, investorAt) ==
  [b EXCEPT !.namesOf[i] = names, !.nameIndex[i] = nameAt,
            !.investorsOf[n] = investors, !.investorIndex[n] = investorAt]

MembersFit(b, i, n, names, nameAt, investors, investorAt) ==
  /\ Indexed(names, nameAt) /\ Indexed(investors, investorAt)
  /\ n \in ToSet(names) <=> i \in ToSet(investors)
  /\ n \in ToSet(names) => Exists(b, n)
  /\ \A m \in Name \ {n} : m \in ToSet(names) <=> m \in ToSet(b.namesOf[i])
  /\ \A j \in Investor \ {i} : j \in ToSet(investors) <=> j \in ToSet(b.investorsOf[n])

LEMMA MembersChange ==
  ASSUME NEW kind, NEW b \in ListBooks(kind), NEW i \in Investor, NEW n \in Name,
         NEW names \in Seq(Name), NEW nameAt \in [Name -> Nat],
         NEW investors \in Seq(Investor), NEW investorAt \in [Investor -> Nat],
         kind = "lockup" => MembersFit(b, i, n, names, nameAt, investors, investorAt)
  PROVE  /\ Rejoined(b, i, n, names, nameAt, investors, investorAt) \in ListBooks(kind)
         /\ Rejoined(b, i, n, names, nameAt, investors, investorAt).investorsOf
              = [b.investorsOf EXCEPT ![n] = investors]
<1> DEFINE new == Rejoined(b, i, n, names, nameAt, investors, investorAt)
<1>1. b \in BooksOfNames /\ TypesListed(b) BY DEF ListBooks
<1>2. /\ new \in BooksOfNames /\ new.types = b.types /\ new.startTime = b.startTime
      /\ new.namesOf = [b.namesOf EXCEPT ![i] = names]
      /\ new.nameIndex = [b.nameIndex EXCEPT ![i] = nameAt]
      /\ new.investorsOf = [b.investorsOf EXCEPT ![n] = investors]
      /\ new.investorIndex = [b.investorIndex EXCEPT ![n] = investorAt]
  BY <1>1 DEF BooksOfNames, Rejoined
<1> HIDE DEF new
<1>3. TypesListed(new) BY <1>1, <1>2 DEF TypesListed, Exists
<1>4. \A j \in Investor : /\ new.namesOf[j] = IF j = i THEN names ELSE b.namesOf[j]
                          /\ new.nameIndex[j] = IF j = i THEN nameAt ELSE b.nameIndex[j]
  BY <1>1, <1>2 DEF BooksOfNames
<1>5. \A m \in Name :
        /\ new.investorsOf[m] = IF m = n THEN investors ELSE b.investorsOf[m]
        /\ new.investorIndex[m] = IF m = n THEN investorAt ELSE b.investorIndex[m]
  BY <1>1, <1>2 DEF BooksOfNames
<1>6. ASSUME kind = "lockup" PROVE MembersListed(new)
  <2>1. MembersListed(b) /\ MembersFit(b, i, n, names, nameAt, investors, investorAt)
    BY <1>6 DEF ListBooks
  <2>2. \A j \in Investor : Indexed(new.namesOf[j], new.nameIndex[j])
    BY <1>4, <2>1 DEF MembersListed, MembersFit
  <2>3. \A m \in Name : Indexed(new.investorsOf[m], new.investorIndex[m])
    BY <1>5, <2>1 DEF MembersListed, MembersFit
  <2>4. ASSUME NEW j \in Investor, NEW m \in Name
        PROVE  /\ m \in ToSet(new.namesOf[j]) <=> j \in ToSet(new.investorsOf[m])
               /\ m \in ToSet(new.namesOf[j]) => Exists(new, m)
    <3>1. /\ m \in ToSet(b.namesOf[j]) <=> j \in ToSet(b.investorsOf[m])
          /\ m \in ToSet(b.namesOf[j]) => Exists(b, m)
      BY <2>1 DEF MembersListed
    <3>2. Exists(new, m) <=> Exists(b, m) BY <1>2 DEF Exists
    <3>3. CASE j = i /\ m = n BY <1>4, <1>5, <2>1, <3>2, <3>3 DEF MembersFit
    <3>4. CASE j = i /\ m # n
      <4>1. new.namesOf[j] = names /\ new.investorsOf[m] = b.investorsOf[m]
        BY <1>4, <1>5, <3>4
      <4>2. m \in ToSet(names) <=> m \in ToSet(b.namesOf[i])
        BY <2>1, <3>4 DEF MembersFit
      <4>3. QED BY <3>1, <3>2, <3>4, <4>1, <4>2
    <3>5. CASE j # i /\ m = n
      <4>1. new.namesOf[j] = b.namesOf[j] /\ new.investorsOf[m] = investors
        BY <1>4, <1>5, <3>5
      <4>2. j \in ToSet(investors) <=> j \in ToSet(b.investorsOf[n])
        BY <2>1, <3>5 DEF MembersFit
      <4>3. QED BY <3>1, <3>2, <3>5, <4>1, <4>2
    <3>6. CASE j # i /\ m # n
      <4>1. new.namesOf[j] = b.namesOf[j] /\ new.investorsOf[m] = b.investorsOf[m]
        BY <1>4, <1>5, <3>6
      <4>2. QED BY <3>1, <3>2, <4>1
    <3>7. QED BY <3>3, <3>4, <3>5, <3>6
  <2>5. QED BY <2>2, <2>3, <2>4 DEF MembersListed
<1>7. new \in ListBooks(kind) BY <1>2, <1>3, <1>6 DEF ListBooks
<1>8. QED BY <1>2, <1>7 DEF new

LEMMA AddInvestorKeeps ==
  ASSUME NEW kind, NEW b \in ListBooks(kind), NEW i \in Investor, NEW n \in Name,
         NEW time \in Nat \ {0}, NEW row, row[1] = i, row[2] = n,
         NEW new \in AddInvestor(b, kind, row, time)
  PROVE  new \in ListBooks(kind)
<1> DEFINE held == b.namesOf[i]
           heldAt == b.nameIndex[i]
           under == b.investorsOf[n]
           underAt == b.investorIndex[n]
           names == Append(held, n)
           investors == Append(under, i)
           nameAt == [heldAt EXCEPT ![n] = Len(held)]
           investorAt == [underAt EXCEPT ![i] = Len(under)]
<1>1. /\ MayJoin(b, kind, n, time) /\ ~AlreadyUnder(b, kind, i, n)
      /\ new = [b EXCEPT !.nameIndex[i][n] = Len(b.namesOf[i]),
                         !.investorIndex[n][i] = Len(b.investorsOf[n]),
                         !.namesOf[i] = names, !.investorsOf[n] = investors]
  BY DEF AddInvestor
<1>2. b \in BooksOfNames BY DEF ListBooks
<1>3. /\ b.namesOf[i] \in Seq(Name) /\ b.nameIndex[i] \in [Name -> Nat]
      /\ b.investorsOf[n] \in Seq(Investor) /\ b.investorIndex[n] \in [Investor -> Nat]
  BY <1>2 DEF BooksOfNames
<1>4. names \in Seq(Name) /\ investors \in Seq(Investor) BY <1>3
<1>5. nameAt \in [Name -> Nat] /\ investorAt \in [Investor -> Nat]
  <2>1. Len(b.namesOf[i]) \in Nat /\ Len(b.investorsOf[n]) \in Nat BY <1>3
  <2>2. QED BY <1>3, <2>1
<1>6. new = Rejoined(b, i, n, names, nameAt, investors, investorAt)
  BY <1>1, <1>2 DEF Rejoined, BooksOfNames
<1>7. ASSUME kind = "lockup"
      PROVE  MembersFit(b, i, n, names, nameAt, investors, investorAt)
  <2>1. /\ Indexed(b.namesOf[i], b.nameIndex[i])
        /\ Indexed(b.investorsOf[n], b.investorIndex[n])
        /\ n \in ToSet(b.namesOf[i]) <=> i \in ToSet(b.investorsOf[n])
    BY <1>7 DEF ListBooks, MembersListed
  <2>2. Exists(b, n) BY <1>1, <1>2, <1>7 DEF MayJoin, Exists, BooksOfNames
  <2>3. /\ held \in Seq(Name) /\ heldAt \in [Name -> Nat] /\ Indexed(held, heldAt)
        /\ under \in Seq(Investor) /\ underAt \in [Investor -> Nat]
        /\ Indexed(under, underAt) /\ (n \in ToSet(held) <=> i \in ToSet(under))
        /\ ~EntryIs(held, heldAt[n], n)
    BY <1>1, <1>3, <1>7, <2>1 DEF AlreadyUnder
  <2> HIDE DEF held, heldAt, under, underAt
  <2>4. n \notin ToSet(held) /\ i \notin ToSet(under) BY <2>3, IndexedOnce
  <2>5. ToSet(names) = ToSet(held) \cup {n} /\ Indexed(names, nameAt)
    <3>1. JoinsIndexed(held, heldAt, n) BY ONLY n \in Name, <2>3, <2>4, IndexedJoins
    <3>2. QED BY <3>1 DEF JoinsIndexed
  <2>6. ToSet(investors) = ToSet(under) \cup {i} /\ Indexed(investors, investorAt)
    <3>1. JoinsIndexed(under, underAt, i) BY ONLY i \in Investor, <2>3, <2>4, IndexedJoins
    <3>2. QED BY <3>1 DEF JoinsIndexed
  <2> HIDE DEF names, nameAt, investors, investorAt
  <2>7. QED BY <2>2, <2>5, <2>6 DEF MembersFit, held, under
<1> HIDE DEF names, nameAt, investors, investorAt
<1>8. kind = "lockup" => MembersFit(b, i, n, names, nameAt, investors, investorAt)
  BY <1>7
<1>9. QED
  BY ONLY b \in ListBooks(kind), i \in Investor, n \in Name, <1>4, <1>5, <1>6, <1>8,
          MembersChange

\* Only that investor, and only from under that name.
LeftFrom(b, new, i, n) ==
  \A m \in Name : ToSet(b.investorsOf[m]) \ ToSet(new.investorsOf[m])
                    \subseteq IF m = n THEN {i} ELSE {}

LEMMA DeleteInvestorKeeps ==
  ASSUME NEW kind, NEW b \in ListBooks(kind), NEW i \in Investor, NEW n \in Name,
         NEW row, row[1] = i, row[2] = n,
         NEW new \in DeleteInvestor(b, kind, row)
  PROVE  /\ new \in ListBooks(kind)
         /\ kind = "lockup" => LeftFrom(b, new, i, n)
<1> DEFINE held == b.namesOf[i]
           heldAt == b.nameIndex[i]
           under == b.investorsOf[n]
           underAt == b.investorIndex[n]
           atName == heldAt[n]
           atInvestor == underAt[i]
           names == WithoutEntry(held, atName)
           investors == WithoutEntry(under, atInvestor)
           nameAt == Reindexed(heldAt, held, atName, n)
           investorAt == Reindexed(underAt, under, atInvestor, i)
<1>1. /\ EntryIs(b.namesOf[i], atName, n) /\ b.investorsOf[n] # << >>
      /\ new = [b EXCEPT !.investorsOf[n] = investors, !.investorIndex[n] = investorAt,
                         !.namesOf[i] = names, !.nameIndex[i] = nameAt]
  BY DEF DeleteInvestor
<1>2. b \in BooksOfNames BY DEF ListBooks
<1>3. /\ b.namesOf[i] \in Seq(Name) /\ b.nameIndex[i] \in [Name -> Nat]
      /\ b.investorsOf[n] \in Seq(Investor) /\ b.investorIndex[n] \in [Investor -> Nat]
      /\ atName \in Nat /\ atInvestor \in Nat
  BY <1>2 DEF BooksOfNames
<1>4. names \in Seq(Name) /\ investors \in Seq(Investor)
  <2>1. b.namesOf[i] # << >> BY <1>1, <1>3 DEF EntryIs
  <2> HIDE DEF atName, atInvestor
  <2>2. QED BY <1>1, <1>3, <2>1, WithoutEntryIs
<1>5. nameAt \in [Name -> Nat] /\ investorAt \in [Investor -> Nat]
  <2> HIDE DEF atName, atInvestor
  <2>1. QED BY <1>3, ReindexedIs
<1>6. new = Rejoined(b, i, n, names, nameAt, investors, investorAt)
  <2> HIDE DEF names, nameAt, investors, investorAt
  <2>1. QED BY <1>1, <1>2 DEF Rejoined, BooksOfNames
<1>7. ASSUME kind = "lockup"
      PROVE  /\ MembersFit(b, i, n, names, nameAt, investors, investorAt)
             /\ ToSet(investors) = ToSet(b.investorsOf[n]) \ {i}
  <2>1. /\ Indexed(b.namesOf[i], b.nameIndex[i])
        /\ Indexed(b.investorsOf[n], b.investorIndex[n])
        /\ n \in ToSet(b.namesOf[i]) <=> i \in ToSet(b.investorsOf[n])
    BY <1>7 DEF ListBooks, MembersListed
  <2>2. /\ held \in Seq(Name) /\ heldAt \in [Name -> Nat] /\ Indexed(held, heldAt)
        /\ under \in Seq(Investor) /\ underAt \in [Investor -> Nat]
        /\ Indexed(under, underAt) /\ (n \in ToSet(held) <=> i \in ToSet(under))
        /\ EntryIs(held, heldAt[n], n)
    BY <1>1, <1>3, <2>1
  <2> HIDE DEF held, heldAt, under, underAt
  <2>3. n \in ToSet(held) /\ i \in ToSet(under) BY <2>2, IndexedOnce
  <2>4. ToSet(names) = ToSet(held) \ {n} /\ Indexed(names, nameAt)
    <3>1. LeavesIndexed(held, heldAt, n) BY ONLY n \in Name, <2>2, <2>3, IndexedLeaves
    <3>2. QED BY <3>1 DEF LeavesIndexed
  <2>5. ToSet(investors) = ToSet(under) \ {i} /\ Indexed(investors, investorAt)
    <3>1. LeavesIndexed(under, underAt, i) BY ONLY i \in Investor, <2>2, <2>3, IndexedLeaves
    <3>2. QED BY <3>1 DEF LeavesIndexed
  <2> HIDE DEF names, nameAt, investors, investorAt
  <2>6. QED BY <2>4, <2>5 DEF MembersFit, held, under
<1> HIDE DEF names, nameAt, investors, investorAt
<1>8. /\ new \in ListBooks(kind)
      /\ new.investorsOf = [b.investorsOf EXCEPT ![n] = investors]
  <2>1. kind = "lockup" => MembersFit(b, i, n, names, nameAt, investors, investorAt)
    BY <1>7
  <2>2. /\ Rejoined(b, i, n, names, nameAt, investors, investorAt) \in ListBooks(kind)
        /\ Rejoined(b, i, n, names, nameAt, investors, investorAt).investorsOf
             = [b.investorsOf EXCEPT ![n] = investors]
    BY ONLY b \in ListBooks(kind), i \in Investor, n \in Name, <1>4, <1>5, <2>1,
            MembersChange
  <2>3. QED BY ONLY <1>6, <2>2
<1>9. \A m \in Name :
        new.investorsOf[m] = IF m = n THEN investors ELSE b.investorsOf[m]
  BY <1>2, <1>8 DEF BooksOfNames
<1>10. ASSUME kind = "lockup" PROVE LeftFrom(b, new, i, n)
  BY <1>7, <1>9, <1>10 DEF LeftFrom
<1>11. QED BY <1>8, <1>10

LEMMA AddTypeAndInvestorKeeps ==
  ASSUME NEW kind, NEW b \in ListBooks(kind), NEW start \in Nat, NEW n \in Name,
         NEW i \in Investor, NEW time \in Nat \ {0}, NEW row,
         row[1] = start, row[2] = n, row[3] = i,
         NEW new \in AddTypeAndInvestor(b, kind, row, time)
  PROVE  new \in ListBooks(kind)
<1>1. PICK book \in AddType(b, kind, row, time) :
        new \in AddInvestor(book, kind, <<row[3], row[2]>>, time)
  BY DEF AddTypeAndInvestor
<1>2. book \in ListBooks(kind) BY <1>1, AddTypeKeeps
<1> DEFINE pair == <<row[3], row[2]>>
<1>3. pair[1] = i /\ pair[2] = n OBVIOUS
<1>4. new \in AddInvestor(book, kind, pair, time) BY <1>1
<1> HIDE DEF pair
<1>5. QED BY <1>2, <1>3, <1>4, AddInvestorKeeps

\* One name of an investor after the other.
LEMMA DeleteFromAllKeeps ==
  ASSUME NEW kind, NEW b \in ListBooks(kind), NEW i \in Investor
  PROVE  DeleteFromAll(b, kind, i) \subseteq ListBooks(kind)
<1> DEFINE Good == ListBooks(kind)
           list == b.namesOf[i]
           rows == Reverse(list)
           n == Len(rows)
           turned(s, k) == DeleteInvestor(s, kind, <<i, rows[k]>>)
           step == [k \in 1..n |-> [s \in Good |-> turned(s, k)]]
           Is(g) == g = [k \in 0..n |->
                           IF k = 0 THEN {b} ELSE UNION {turned(s, k) : s \in g[k - 1]}]
           after == CHOOSE g : Is(g)
<1>1. n \in Nat /\ \A k \in 1..n : rows[k] \in Name
  <2>1. list \in Seq(Name) BY DEF ListBooks, BooksOfNames
  <2>2. rows = [k \in 1..Len(list) |-> list[(Len(list) - k) + 1]] BY DEF Reverse
  <2> HIDE DEF list, rows
  <2>3. Len(list) \in Nat /\ \A k \in 1..Len(list) : list[(Len(list) - k) + 1] \in Name
    BY <2>1
  <2>4. rows \in [1..Len(list) -> Name] BY <2>2, <2>3
  <2>5. rows \in Seq(Name) BY <2>3, <2>4
  <2>6. QED BY <2>5
<1>2. DeleteFromAll(b, kind, i) = IF list = << >> THEN {} ELSE after[n]
  BY DEF DeleteFromAll, InTurn
<1> HIDE DEF list, rows, n, after
<1>3. \A k \in 1..n : \A s \in Good : turned(s, k) \subseteq Good
  <2> SUFFICES ASSUME NEW k \in 1..n, NEW s \in Good, NEW new \in turned(s, k)
               PROVE  new \in Good
    OBVIOUS
  <2> DEFINE pair == <<i, rows[k]>>
  <2>1. rows[k] \in Name /\ pair[1] = i /\ pair[2] = rows[k] BY <1>1
  <2>2. new \in DeleteInvestor(s, kind, pair) OBVIOUS
  <2> HIDE DEF pair
  <2>3. QED BY <2>1, <2>2, DeleteInvestorKeeps
<1> HIDE DEF turned, Good
<1>4. step \in [1..n -> [Good -> SUBSET Good]] BY <1>3
<1>5. PICK f : AreTurns(f, n, Good, b, step)
  <2>1. b \in Good BY DEF Good
  <2> HIDE DEF step
  <2>2. QED BY <1>1, <1>4, <2>1, TurnsExist
<1>6. Is(f)
  <2>1. ASSUME NEW k \in 1..n PROVE f[k] = UNION {turned(s, k) : s \in f[k - 1]}
    <3>1. k - 1 \in 0..n BY <1>1
    <3>2. f[k - 1] \subseteq Good BY <1>5, <3>1 DEF AreTurns
    <3>3. \A s \in f[k - 1] : step[k][s] = turned(s, k) BY <3>2
    <3> HIDE DEF step
    <3>4. {step[k][s] : s \in f[k - 1]} = {turned(s, k) : s \in f[k - 1]} BY <3>3
    <3>5. f[k] = UNION {step[k][s] : s \in f[k - 1]} BY <1>5 DEF AreTurns
    <3>6. QED BY <3>4, <3>5
  <2>2. \A k \in 0..n : k # 0 => k \in 1..n BY <1>1
  <2>3. QED BY <1>5, <2>1, <2>2 DEF AreTurns
<1>7. Is(after)
  <2> HIDE DEF Is
  <2> QED BY <1>6 DEF after
<1>8. \A k \in 1..n : after[k - 1] \in SUBSET Good => after[k] \in SUBSET Good
  <2> SUFFICES ASSUME NEW k \in 1..n, after[k - 1] \in SUBSET Good
               PROVE  after[k] \in SUBSET Good
    OBVIOUS
  <2>1. after[k] = UNION {turned(s, k) : s \in after[k - 1]}
    <3>1. k \in 0..n /\ k # 0 BY <1>1
    <3>2. QED BY <1>7, <3>1
  <2>2. QED BY <1>3, <2>1
<1>9. after[0] \in SUBSET Good BY <1>1, <1>7 DEF Good
<1>10. \A k \in 0..n : after[k] \in SUBSET Good BY <1>1, <1>8, <1>9, LoopKeeps
<1>11. QED BY <1>1, <1>2, <1>10 DEF Good

ListRows(op) ==
  CASE op \in {"addType", "modifyType"} -> Nat \X Name
    [] op = "addTypeAndInvestor" -> Nat \X Name \X Investor
    [] op = "deleteType" -> {<<n>> : n \in Name}
    [] op \in {"addInvestor", "deleteInvestor"} -> Investor \X Name
    [] op = "deleteFromAll" -> {<<i>> : i \in Investor}

ListOps == {"addType", "modifyType", "addTypeAndInvestor", "deleteType", "addInvestor",
            "deleteInvestor", "deleteFromAll"}

ListCalls == UNION {CallOf(op, ListRows(op)) : op \in ListOps}

LEMMA ListRecordKeeps ==
  ASSUME NEW kind, NEW b \in ListBooks(kind), NEW op \in ListOps,
         NEW row \in ListRows(op), NEW time \in Nat \ {0}
  PROVE  ListsChange(b, op, row, kind, time) \subseteq ListBooks(kind)
<1>1. CASE op \in {"addType", "modifyType"}
  <2>1. row \in Nat \X Name BY <1>1 DEF ListRows
  <2>2. row[1] \in Nat /\ row[2] \in Name BY <2>1
  <2>3. CASE op = "addType"
    <3>1. ListsChange(b, op, row, kind, time) = AddType(b, kind, row, time)
      BY <2>3 DEF ListsChange
    <3>2. QED BY <2>2, <3>1, AddTypeKeeps
  <2>4. CASE op = "modifyType"
    <3>1. ListsChange(b, op, row, kind, time) = ModifyType(b, kind, row, time)
      BY <2>4 DEF ListsChange
    <3>2. QED BY <2>2, <3>1, ModifyTypeKeeps
  <2>5. QED BY <1>1, <2>3, <2>4
<1>2. CASE op = "addTypeAndInvestor"
  <2>1. row \in Nat \X Name \X Investor BY <1>2 DEF ListRows
  <2>2. row[1] \in Nat /\ row[2] \in Name /\ row[3] \in Investor BY <2>1
  <2>3. ListsChange(b, op, row, kind, time) = AddTypeAndInvestor(b, kind, row, time)
    BY <1>2 DEF ListsChange
  <2>4. QED BY <2>2, <2>3, AddTypeAndInvestorKeeps
<1>3. CASE op = "deleteType"
  <2>1. row[1] \in Name BY <1>3 DEF ListRows
  <2>2. ListsChange(b, op, row, kind, time) = DeleteType(b, row[1])
    BY <1>3 DEF ListsChange
  <2>3. QED BY <2>1, <2>2, DeleteTypeKeeps
<1>4. CASE op \in {"addInvestor", "deleteInvestor"}
  <2>1. row \in Investor \X Name BY <1>4 DEF ListRows
  <2>2. row[1] \in Investor /\ row[2] \in Name BY <2>1
  <2>3. CASE op = "addInvestor"
    <3>1. ListsChange(b, op, row, kind, time) = AddInvestor(b, kind, row, time)
      BY <2>3 DEF ListsChange
    <3>2. QED BY <2>2, <3>1, AddInvestorKeeps
  <2>4. CASE op = "deleteInvestor"
    <3>1. ListsChange(b, op, row, kind, time) = DeleteInvestor(b, kind, row)
      BY <2>4 DEF ListsChange
    <3>2. QED BY <2>2, <3>1, DeleteInvestorKeeps
  <2>5. QED BY <1>4, <2>3, <2>4
<1>5. CASE op = "deleteFromAll"
  <2>1. row[1] \in Investor BY <1>5 DEF ListRows
  <2>2. ListsChange(b, op, row, kind, time) = DeleteFromAll(b, kind, row[1])
    BY <1>5 DEF ListsChange
  <2>3. QED BY <2>1, <2>2, DeleteFromAllKeeps
<1>6. QED BY <1>1, <1>2, <1>3, <1>4, <1>5 DEF ListOps

\* Record after record, no one leads out of a set of books.
LEMMA ListTurnsKeep ==
  ASSUME NEW kind, NEW op, NEW time, NEW Good, NEW b \in Good,
         NEW Row, NEW rows \in Seq(Row),
         \A s \in Good, row \in Row : ListsChange(s, op, row, kind, time) \subseteq Good
  PROVE  ListsAfter(b, kind, [op |-> op, rows |-> rows], time) \subseteq Good
<1> DEFINE n == Len(rows)
           turned(s, k) == ListsChange(s, op, rows[k], kind, time)
           step == [k \in 1..n |-> [s \in Good |-> turned(s, k)]]
           Is(g) == g = [k \in 0..n |->
                           IF k = 0 THEN {b} ELSE UNION {turned(s, k) : s \in g[k - 1]}]
           after == CHOOSE g : Is(g)
<1>1. n \in Nat /\ \A k \in 1..n : rows[k] \in Row OBVIOUS
<1>2. ListsAfter(b, kind, [op |-> op, rows |-> rows], time) = after[n]
  BY DEF ListsAfter, InTurn
<1>3. \A k \in 1..n : \A s \in Good : turned(s, k) \subseteq Good BY <1>1
<1> HIDE DEF n, turned, after
<1>4. step \in [1..n -> [Good -> SUBSET Good]] BY <1>3
<1>5. PICK f : AreTurns(f, n, Good, b, step)
  <2> HIDE DEF step
  <2> QED BY <1>1, <1>4, TurnsExist
<1>6. Is(f)
  <2>1. ASSUME NEW k \in 1..n PROVE f[k] = UNION {turned(s, k) : s \in f[k - 1]}
    <3>1. k - 1 \in 0..n BY <1>1
    <3>2. f[k - 1] \subseteq Good BY <1>5, <3>1 DEF AreTurns
    <3>3. \A s \in f[k - 1] : step[k][s] = turned(s, k) BY <3>2
    <3> HIDE DEF step
    <3>4. {step[k][s] : s \in f[k - 1]} = {turned(s, k) : s \in f[k - 1]} BY <3>3
    <3>5. f[k] = UNION {step[k][s] : s \in f[k - 1]} BY <1>5 DEF AreTurns
    <3>6. QED BY <3>4, <3>5
  <2>2. \A k \in 0..n : k # 0 => k \in 1..n BY <1>1
  <2>3. QED BY <1>5, <2>1, <2>2 DEF AreTurns
<1>7. Is(after)
  <2> HIDE DEF Is
  <2> QED BY <1>6 DEF after
<1>8. \A k \in 1..n : after[k - 1] \in SUBSET Good => after[k] \in SUBSET Good
  <2> SUFFICES ASSUME NEW k \in 1..n, after[k - 1] \in SUBSET Good
               PROVE  after[k] \in SUBSET Good
    OBVIOUS
  <2>1. after[k] = UNION {turned(s, k) : s \in after[k - 1]}
    <3>1. k \in 0..n /\ k # 0 BY <1>1
    <3>2. QED BY <1>7, <3>1
  <2>2. QED BY <1>3, <2>1
<1>9. after[0] \in SUBSET Good BY <1>1, <1>7
<1>10. \A k \in 0..n : after[k] \in SUBSET Good BY <1>1, <1>8, <1>9, LoopKeeps
<1>11. QED BY <1>1, <1>2, <1>10

\* Any call.
LEMMA ListCallKeeps ==
  ASSUME NEW kind, NEW b \in ListBooks(kind), NEW call \in ListCalls,
         NEW time \in Nat \ {0}
  PROVE  ListsAfter(b, kind, call, time) \subseteq ListBooks(kind)
<1>1. PICK op \in ListOps : call \in CallOf(op, ListRows(op)) BY DEF ListCalls
<1>2. PICK rows \in Seq(ListRows(op)) : call = [op |-> op, rows |-> rows]
  BY <1>1 DEF CallOf
<1>3. \A s \in ListBooks(kind), row \in ListRows(op) :
        ListsChange(s, op, row, kind, time) \subseteq ListBooks(kind)
  BY ListRecordKeeps
<1>4. QED BY <1>2, <1>3, ListTurnsKeep

\* A program asks about a type and the investors it has read under it.
ListsShown == [place \in {"manage"} |-> [name : Name, investors : Seq(Investor)]]

\* The calls that remove what was shown, and nothing else.
Removals(m) ==
  CallOf("deleteInvestor", {<<i, m.name>> : i \in ToSet(m.investors)})
    \cup CallOf("deleteType", {<<m.name>>})

RemovesShown(list, about) ==
  about # {} /\ list # << >> /\ Last(list).op = "deleteType" =>
    list \in Seq(Removals(CHOOSE m \in about : TRUE))

\* A command that ends with a type removes what was shown, and the call a program
\* waits for is the one that may still be mined.
OnlyShownIsAsked ==
  \A c \in Client :
    /\ RemovesShown(session[c].calls, session[c].about)
    /\ session[c].at = "waiting" =>
         session[c].calls # << >> /\ mempool[c] \subseteq {Head(session[c].calls)}

LEMMA AskedByOne ==
  ASSUME NEW calls, NEW shown, Sessions(calls, shown), OnlyShownIsAsked,
         NEW c \in Client, NEW s, session' = [session EXCEPT ![c] = s],
         RemovesShown(s.calls, s.about), s.at # "waiting",
         \A d \in Client : mempool'[d] \subseteq mempool[d]
  PROVE  OnlyShownIsAsked'
<1>1. \A d \in Client : session'[d] = IF d = c THEN s ELSE session[d]
  BY DEF Sessions
<1>2. QED BY <1>1 DEF OnlyShownIsAsked

\* Nothing is asked by a program that only shows something.
LEMMA AskedByNone ==
  ASSUME NEW place, place # "waiting", NEW about
  PROVE  /\ RemovesShown(Place(place, about).calls, Place(place, about).about)
         /\ Place(place, about).at # "waiting"
BY DEF RemovesShown, Place

LEMMA AskedByNext ==
  ASSUME NEW calls, NEW s, IsSession(s, calls, ListsShown), NEW succeeded,
         s.at \in {"sending", "waiting"}, RemovesShown(s.calls, s.about)
  PROVE  LET t == NextCall(s, succeeded)
         IN  RemovesShown(t.calls, t.about) /\ t.at # "waiting"
<1> DEFINE t == NextCall(s, succeeded)
<1>1. /\ {"at", "calls", "about", "then"} \subseteq DOMAIN s
      /\ s.calls \in Seq(calls) /\ s.calls # << >>
      /\ s.then = "menu" \/ Ready(s, s.then, ListsShown)
  BY DEF IsSession
<1>2. s.then # "waiting" BY <1>1 DEF Ready, ListsShown
<1>3. CASE ~succeeded /\ ~s.goesOn
  <2>1. t = Place("menu", {}) BY <1>3 DEF NextCall, AtMenu
  <2>2. QED BY <2>1, AskedByNone
<1>4. CASE ~(~succeeded /\ ~s.goesOn) /\ Len(s.calls) = 1
  <2> DEFINE about == IF s.then = "menu" THEN {} ELSE s.about
  <2>1. t = Place(s.then, about) BY <1>4 DEF NextCall
  <2> HIDE DEF about
  <2>2. QED BY <1>2, <2>1, AskedByNone
<1>5. CASE ~(~succeeded /\ ~s.goesOn) /\ Len(s.calls) # 1
  <2>1. t = [s EXCEPT !.at = "sending", !.calls = Tail(@)] BY <1>5 DEF NextCall
  <2>2. t.at = "sending" /\ t.calls = Tail(s.calls) /\ t.about = s.about
    BY <1>1, <2>1
  <2>3. PICK list \in Seq(calls) : list = s.calls BY <1>1
  <2>4. Len(list) \in Nat /\ Len(list) # 0 /\ Len(list) # 1 BY <1>1, <1>5, <2>3
  <2>5. Last(Tail(list)) = Last(list)
    <3> DEFINE n == Len(list)
               k == n - 1
    <3>1. k \in Nat /\ k \in 1..k /\ n = k + 1
      <4>1. n \in Nat /\ n # 0 /\ n # 1 BY <2>4
      <4> HIDE DEF n
      <4>2. QED BY <4>1
    <3>2. Len(Tail(list)) = k /\ Tail(list) = [j \in 1..k |-> list[j + 1]]
      BY <2>3, <2>4
    <3> HIDE DEF n, k
    <3>3. Tail(list)[k] = list[n] BY <3>1, <3>2
    <3>4. QED BY <3>2, <3>3 DEF Last, n
  <2>6. ASSUME NEW Rest, list \in Seq(Rest) PROVE Tail(list) \in Seq(Rest)
    BY <2>4, <2>6
  <2> HIDE DEF t
  <2>7. RemovesShown(t.calls, t.about)
    BY <1>1, <2>2, <2>3, <2>5, <2>6 DEF RemovesShown
  <2>8. QED BY <2>2, <2>7 DEF t
<1>6. QED BY <1>3, <1>4, <1>5

\* The actions of a program.
LEMMA AskedByBegin ==
  ASSUME NEW calls, NEW shown, Sessions(calls, shown), OnlyShownIsAsked,
         NEW c \in Client, NEW list, NEW about, RemovesShown(list, about),
         Begin(c, list, about)
  PROVE  OnlyShownIsAsked'
<1> DEFINE s == Sending(list, about)
           new == IF s.calls = << >> THEN AtMenu ELSE s
<1>1. session' = [session EXCEPT ![c] = new] /\ mempool' = mempool
  BY DEF Begin, StartCommand
<1>2. s.calls = list /\ s.about = about /\ s.at = "sending" BY DEF Sending, Place
<1>3. RemovesShown(AtMenu.calls, AtMenu.about) /\ AtMenu.at # "waiting"
  BY AskedByNone DEF AtMenu
<1>4. RemovesShown(new.calls, new.about) /\ new.at # "waiting" BY <1>2, <1>3
<1> HIDE DEF new
<1>5. QED BY <1>1, <1>4, AskedByOne

LEMMA AskedByShow ==
  ASSUME NEW calls, NEW shown, Sessions(calls, shown), OnlyShownIsAsked,
         NEW c \in Client, NEW place, place # "waiting", NEW about,
         Show(c, place, about) \/ Throw(c)
  PROVE  OnlyShownIsAsked'
<1>1. CASE Show(c, place, about)
  <2> DEFINE s == Place(place, about)
  <2>1. session' = [session EXCEPT ![c] = s] /\ mempool' = mempool BY <1>1 DEF Show
  <2>2. RemovesShown(s.calls, s.about) /\ s.at # "waiting" BY AskedByNone
  <2> HIDE DEF s
  <2>3. QED BY <2>1, <2>2, AskedByOne
<1>2. CASE Throw(c)
  <2> DEFINE s == Place("menu", {})
  <2>1. session' = [session EXCEPT ![c] = s] /\ mempool' = mempool
    BY <1>2 DEF Throw, Leave, AtMenu
  <2>2. RemovesShown(s.calls, s.about) /\ s.at # "waiting" BY AskedByNone
  <2> HIDE DEF s
  <2>3. QED BY <2>1, <2>2, AskedByOne
<1>3. QED BY <1>1, <1>2

LEMMA AskedBySend ==
  ASSUME NEW calls, Sessions(calls, ListsShown), OnlyShownIsAsked,
         NEW c \in Client, NEW outcomes, Send(c, outcomes)
  PROVE  /\ OnlyShownIsAsked'
         /\ \A d \in Client : session[d].at = "waiting" => mempool'[d] = mempool[d]
<1>1. /\ session[c].at = "sending" /\ IsSession(session[c], calls[c], ListsShown)
      /\ RemovesShown(session[c].calls, session[c].about)
  BY DEF Send, Sessions, OnlyShownIsAsked
<1>2. CASE Leave(c, NextCall(session[c], FALSE))
  <2> DEFINE failed == FALSE
             t == NextCall(session[c], failed)
  <2>1. session' = [session EXCEPT ![c] = t] /\ mempool' = mempool
    BY <1>2 DEF Leave
  <2> HIDE DEF failed
  <2>2. RemovesShown(t.calls, t.about) /\ t.at # "waiting" BY <1>1, AskedByNext
  <2> HIDE DEF t
  <2>3. QED BY <2>1, <2>2, AskedByOne
<1>3. CASE /\ mempool' = [mempool EXCEPT ![c] = {ToSend(c)}]
           /\ session' = [session EXCEPT ![c].at = "waiting"]
  <2> DEFINE s == [session[c] EXCEPT !.at = "waiting"]
  <2>1. session' = [session EXCEPT ![c] = s] BY <1>3
  <2>2. s.calls = session[c].calls /\ s.about = session[c].about
        /\ session[c].calls # << >>
    BY <1>1 DEF IsSession
  <2> HIDE DEF s
  <2>3. \A d \in Client : session'[d] = IF d = c THEN s ELSE session[d]
    BY <2>1 DEF Sessions
  <2>4. \A d \in Client :
          mempool'[d] = IF d = c THEN {Head(session[c].calls)} ELSE mempool[d]
    BY <1>3 DEF Sessions, ToSend
  <2>5. OnlyShownIsAsked' BY <1>1, <2>2, <2>3, <2>4 DEF OnlyShownIsAsked
  <2>6. QED BY <1>1, <2>4, <2>5
<1>4. QED BY <1>2, <1>3 DEF Send

LEMMA AskedByMine ==
  ASSUME NEW calls, Sessions(calls, ListsShown), OnlyShownIsAsked,
         NEW c \in Client, NEW outcomes, Mine(c, outcomes)
  PROVE  OnlyShownIsAsked' /\ \A d \in Client \ {c} : mempool'[d] = mempool[d]
<1>1. PICK succeeded \in BOOLEAN :
        session' = [session EXCEPT ![c] = AfterReceipt(@, succeeded)]
  BY DEF Mine
<1> DEFINE s == session[c]
           t == AfterReceipt(s, succeeded)
<1>2. session' = [session EXCEPT ![c] = t] BY <1>1
<1>3. \A d \in Client : mempool'[d] = IF d = c THEN {} ELSE mempool[d]
  BY DEF Mine, Sessions
<1>4. IsSession(s, calls[c], ListsShown) /\ RemovesShown(s.calls, s.about)
  BY DEF Sessions, OnlyShownIsAsked
<1> HIDE DEF s
<1>5. RemovesShown(t.calls, t.about) /\ t.at # "waiting"
  <2>1. CASE s.at = "waiting"
    <3>1. t = NextCall(s, succeeded) BY <2>1 DEF AfterReceipt
    <3> HIDE DEF t
    <3>2. QED BY <1>4, <2>1, <3>1, AskedByNext
  <2>2. CASE s.at # "waiting"
    <3>1. t = s BY <2>2 DEF AfterReceipt
    <3> HIDE DEF t
    <3>2. QED BY <1>4, <2>2, <3>1
  <2>3. QED BY <2>1, <2>2
<1> HIDE DEF t
<1>6. OnlyShownIsAsked' BY <1>2, <1>3, <1>5, AskedByOne
<1>7. QED BY <1>3, <1>6

\* What the investors of a name lost is what was shown of it.
LeftShown(b, new, m) ==
  \A n \in Name : ToSet(b.investorsOf[n]) \ ToSet(new.investorsOf[n])
                    \subseteq IF n = m.name THEN ToSet(m.investors) ELSE {}

LEMMA RemovalTakesShown ==
  ASSUME NEW b \in ListBooks("lockup"), NEW m, NEW call \in Removals(m),
         call \in ListCalls, NEW time \in Nat \ {0}
  PROVE  \A new \in ListsAfter(b, "lockup", call, time) : LeftShown(b, new, m)
<1> DEFINE Good == {s \in ListBooks("lockup") : LeftShown(b, s, m)}
           kind == "lockup"
<1>1. b \in Good BY DEF LeftShown
<1>2. ASSUME NEW op, NEW A, NEW B, NEW rows \in Seq(A), rows \in Seq(B),
             call = [op |-> op, rows |-> rows],
             \A s \in Good, row \in A \cap B :
               ListsChange(s, op, row, kind, time) \subseteq Good
      PROVE  ListsAfter(b, kind, call, time) \subseteq Good
  <2>1. rows \in Seq(A \cap B)
    <3>1. Len(rows) \in Nat /\ rows \in [1..Len(rows) -> A \cap B] BY <1>2
    <3> HIDE DEF Good
    <3>2. rows = [k \in 1..Len(rows) |-> rows[k]] BY <3>1
    <3>3. QED BY <3>1
  <2> HIDE DEF Good, kind
  <2>2. QED BY <1>1, <1>2, <2>1, ListTurnsKeep
<1>3. PICK op \in ListOps : call \in CallOf(op, ListRows(op)) BY DEF ListCalls
<1>4. PICK rows \in Seq(ListRows(op)) : call = [op |-> op, rows |-> rows]
  BY <1>3 DEF CallOf
<1>5. ASSUME call \in CallOf("deleteInvestor", {<<i, m.name>> : i \in ToSet(m.investors)})
      PROVE  ListsAfter(b, kind, call, time) \subseteq Good
  <2> DEFINE Shown2 == {<<i, m.name>> : i \in ToSet(m.investors)}
  <2>1. op = "deleteInvestor" /\ rows \in Seq(Shown2) BY <1>4, <1>5 DEF CallOf
  <2>2. ListRows(op) = Investor \X Name BY <2>1 DEF ListRows
  <2>3. ASSUME NEW s \in Good, NEW row \in ListRows(op) \cap Shown2,
               NEW new \in ListsChange(s, op, row, kind, time)
        PROVE  new \in Good
    <3>1. /\ row[1] \in Investor /\ row[2] \in Name
          /\ row[1] \in ToSet(m.investors) /\ row[2] = m.name
      BY <2>2
    <3>2. new \in DeleteInvestor(s, kind, row) BY <2>1 DEF ListsChange
    <3>3. s \in ListBooks(kind) /\ LeftShown(b, s, m) OBVIOUS
    <3>4. new \in ListBooks(kind) /\ LeftFrom(s, new, row[1], row[2])
      BY <3>1, <3>2, <3>3, DeleteInvestorKeeps
    <3>5. LeftShown(b, new, m)
      <4>1. SUFFICES ASSUME NEW n \in Name, NEW x \in ToSet(b.investorsOf[n]),
                            x \notin ToSet(new.investorsOf[n])
                     PROVE  n = m.name /\ x \in ToSet(m.investors)
        BY DEF LeftShown
      <4>2. CASE x \in ToSet(s.investorsOf[n])
        BY <3>1, <3>4, <4>1, <4>2 DEF LeftFrom
      <4>3. CASE x \notin ToSet(s.investorsOf[n])
        BY <3>3, <4>1, <4>3 DEF LeftShown
      <4>4. QED BY <4>2, <4>3
    <3>6. QED BY <3>4, <3>5
  <2> HIDE DEF Shown2, Good, kind
  <2>4. QED BY <1>2, <1>4, <2>1, <2>3
<1>6. ASSUME call \in CallOf("deleteType", {<<m.name>>})
      PROVE  ListsAfter(b, kind, call, time) \subseteq Good
  <2>1. op = "deleteType" BY <1>4, <1>6 DEF CallOf
  <2>2. ASSUME NEW s \in Good, NEW row \in ListRows(op),
               NEW new \in ListsChange(s, op, row, kind, time)
        PROVE  new \in Good
    <3>1. row[1] \in Name BY <2>1 DEF ListRows
    <3>2. new \in DeleteType(s, row[1]) BY <2>1 DEF ListsChange
    <3>3. s \in ListBooks(kind) /\ LeftShown(b, s, m) OBVIOUS
    <3>4. new \in ListBooks(kind) /\ new.investorsOf = s.investorsOf
      BY <3>1, <3>2, <3>3, DeleteTypeKeeps
    <3>5. QED BY <3>3, <3>4 DEF LeftShown
  <2> HIDE DEF Good, kind
  <2>3. QED BY <1>1, <1>4, <2>2, ListTurnsKeep
<1>7. ListsAfter(b, kind, call, time) \subseteq Good BY <1>5, <1>6 DEF Removals
<1>8. QED BY <1>7

ListsInv ==
  current \in Lists =>
    /\ now \in Nat \ {0} /\ contract \in ListBooks(current)
    /\ Sessions([c \in Client |-> ListCalls], ListsShown)
    /\ OnlyShownIsAsked

LEMMA OneListCall ==
  ASSUME NEW op \in ListOps, NEW row \in ListRows(op)
  PROVE  One(op, row) \in Seq(ListCalls)
<1>1. CallOf(op, ListRows(op)) \subseteq ListCalls BY DEF ListCalls
<1>2. QED BY <1>1, OneIsCall

\* Calls of anything but types remove nobody with a type.
LEMMA AskedForNothing ==
  ASSUME NEW op, op # "deleteType", NEW row, NEW rows, NEW about
  PROVE  /\ RemovesShown(One(op, row), about)
         /\ RemovesShown(<<[op |-> op, rows |-> rows]>>, about)
BY DEF RemovesShown, One, Last

LEMMA ListFileCalls ==
  ASSUME NEW op \in {"addType", "modifyType", "deleteType", "addInvestor", "deleteInvestor"},
         NEW data \in Seq(ListRows(op)), NEW size \in BatchSize
  PROVE  CallsOf(op, data, size) \in Seq(ListCalls)
<1> DEFINE Entry == Nat \cup Name \cup Investor
<1>1. CallOf(op, ListRows(op)) \subseteq ListCalls BY DEF ListCalls, ListOps
<1>2. size \in Nat \ {0} BY ListsAssumption
<1>3. \/ ListRows(op) \subseteq [1..1 -> Entry]
      \/ ListRows(op) \subseteq [1..2 -> Entry]
  BY DEF ListRows
<1> HIDE DEF Entry
<1>4. PICK width \in Nat \ {0} : ListRows(op) \subseteq [1..width -> Entry]
  <2>1. 1 \in Nat \ {0} /\ 2 \in Nat \ {0} OBVIOUS
  <2>2. QED BY ONLY <1>3, <2>1, Zenon
<1>5. QED BY <1>1, <1>2, <1>4, CallsHoldRecords

LEMMA FewInTurn ==
  ASSUME NEW S, NEW x, S = {} \/ S = {x}
  PROVE  SetToSeq(S) \in Seq(S)
<1> DEFINE n == Cardinality(S)
           order == [1..n -> S]
<1>1. CASE S = {}
  <2>1. n = 0 BY <1>1, FS_EmptySet
  <2>2. << >> \in order /\ IsInjective(<< >>) BY <1>1, <2>1 DEF IsInjective
  <2> HIDE DEF n
  <2>3. SetToSeq(S) \in order BY <2>2 DEF SetToSeq, n
  <2>4. QED BY <2>1, <2>3
<1>2. CASE S = {x}
  <2>1. n = 1 BY <1>2, FS_Singleton
  <2>2. <<x>> \in order /\ IsInjective(<<x>>) BY <1>2, <2>1 DEF IsInjective
  <2> HIDE DEF n
  <2> DEFINE f == SetToSeq(S)
  <2>3. f \in order BY <2>2 DEF SetToSeq, n
  <2> HIDE DEF f
  <2>4. n \in Nat /\ f \in [1..n -> S] BY <2>1, <2>3
  <2>5. f \in Seq(S) BY <2>4
  <2>6. QED BY <2>5 DEF f
<1>3. QED BY <1>1, <1>2

\* The calls of 'Delete this type'.
LEMMA DeleteThisCalls ==
  ASSUME NEW m \in [name : Name, investors : Seq(Investor)]
  PROVE  LET data == [k \in DOMAIN m.investors |-> <<m.investors[k], m.name>>]
             list == CallsOf("deleteInvestor", data, DefaultBatch)
                       \o One("deleteType", <<m.name>>)
         IN  list \in Seq(ListCalls) /\ list \in Seq(Removals(m))
<1> DEFINE Shown2 == {<<i, m.name>> : i \in ToSet(m.investors)}
           data == [k \in DOMAIN m.investors |-> <<m.investors[k], m.name>>]
           op == "deleteInvestor"
           first == CallsOf(op, data, DefaultBatch)
           last == One("deleteType", <<m.name>>)
           Calls == ListCalls \cap Removals(m)
<1>1. m.name \in Name /\ m.investors \in Seq(Investor) OBVIOUS
<1>2. Shown2 \subseteq Investor \X Name BY <1>1 DEF ToSet
<1>3. CallOf(op, Shown2) \subseteq Calls
  <2>1. CallOf(op, Shown2) \subseteq Removals(m) BY DEF Removals
  <2>2. ListRows(op) = Investor \X Name /\ op \in ListOps BY DEF ListRows, ListOps
  <2>3. Seq(Shown2) \subseteq Seq(ListRows(op)) BY <1>2, <2>2
  <2> HIDE DEF Shown2, op
  <2>4. CallOf(op, Shown2) \subseteq CallOf(op, ListRows(op)) BY <2>3 DEF CallOf
  <2>5. QED BY <2>1, <2>2, <2>4 DEF ListCalls
<1>4. data \in Seq(Shown2)
  <2> DEFINE n == Len(m.investors)
  <2>1. n \in Nat /\ DOMAIN m.investors = 1..n BY <1>1
  <2>2. data \in [1..n -> Shown2] BY <2>1 DEF ToSet
  <2> HIDE DEF n, data, Shown2
  <2>3. QED BY <2>1, <2>2
<1>5. Shown2 \subseteq [1..2 -> Investor \cup Name] BY <1>2
<1>6. 2 \in Nat \ {0} /\ DefaultBatch \in Nat \ {0} BY ListsAssumption
<1> HIDE DEF data, Shown2, op, Calls
<1>7. first \in Seq(Calls) BY <1>3, <1>4, <1>5, <1>6, CallsHoldRecords
<1>8. last \in Seq(Calls)
  <2> DEFINE call == [op |-> "deleteType", rows |-> <<<<m.name>>>>]
  <2>1. call \in CallOf("deleteType", {<<m.name>>}) BY DEF CallOf
  <2>2. call \in CallOf("deleteType", ListRows("deleteType"))
    BY <1>1 DEF CallOf, ListRows
  <2>3. call \in Calls BY <2>1, <2>2 DEF Removals, ListCalls, ListOps, Calls
  <2> HIDE DEF call
  <2>4. <<call>> \in Seq(Calls) BY <2>3
  <2>5. QED BY <2>4 DEF One, call
<1> HIDE DEF first, last
<1>9. first \o last \in Seq(Calls) BY <1>7, <1>8
<1>10. first \o last \in Seq(ListCalls) /\ first \o last \in Seq(Removals(m))
  <2>1. Calls \subseteq ListCalls /\ Calls \subseteq Removals(m) BY DEF Calls
  <2> DEFINE list == first \o last
  <2> HIDE DEF list
  <2>2. list \in Seq(Calls) BY <1>9 DEF list
  <2>3. QED BY <2>1, <2>2 DEF list
<1>11. QED BY <1>10 DEF first, last, data, op

\* What a step of a program may have taken from a type.
TookShown ==
  \A d \in Client :
    (/\ current = "lockup"
     /\ session[d].at = "waiting"
     /\ session[d].about # {}
     /\ Last(session[d].calls).op = "deleteType"
     /\ mempool[d] # mempool'[d]) => LeftShown(contract, contract', Shown(d))

\* What a program does that manages blacklists or lockups.
LEMMA ListsStepKeeps ==
  ASSUME ListsInv, NEW c \in Client, ListsStep(c)
  PROVE  ListsInv' /\ TookShown
<1> DEFINE calls == [d \in Client |-> ListCalls]
           Kept == /\ contract' \in ListBooks(current) /\ Sessions(calls, ListsShown)'
                   /\ OnlyShownIsAsked' /\ TookShown
<1>1. /\ current \in Lists /\ contract \in ListBooks(current) /\ now \in Nat \ {0}
      /\ Sessions(calls, ListsShown) /\ OnlyShownIsAsked /\ calls[c] = ListCalls
  BY DEF ListsStep, ListsInv
<1>2. UNCHANGED <<now, current>> BY ListsStay
<1>3. SUFFICES Kept
  <2>1. calls' = calls OBVIOUS
  <2>2. QED BY <1>1, <1>2, <2>1 DEF ListsInv
<1> HIDE DEF calls
<1>4. ASSUME mempool' = mempool PROVE TookShown BY <1>4 DEF TookShown
<1>5. ASSUME NEW list \in Seq(ListCalls), NEW about, RemovesShown(list, about),
             Begin(c, list, about)
      PROVE  Kept
  <2>1. mempool' = mempool BY <1>5 DEF Begin, StartCommand
  <2>2. Sessions(calls, ListsShown)' /\ SameContract BY <1>1, <1>5, Begins
  <2>3. OnlyShownIsAsked' BY <1>1, <1>5, AskedByBegin
  <2>4. QED BY <1>1, <1>4, <2>1, <2>2, <2>3 DEF SameContract
<1>6. ASSUME NEW op \in ListOps, op # "deleteType", NEW row \in ListRows(op), NEW about,
             Begin(c, One(op, row), about)
      PROVE  Kept
  BY <1>5, <1>6, OneListCall, AskedForNothing
<1>7. ASSUME NEW place, place \notin {"sending", "waiting"}, NEW about,
             place = "manage" => about # {} /\ about \subseteq ListsShown["manage"],
             Show(c, place, about)
      PROVE  Kept
  <2>1. mempool' = mempool BY <1>7 DEF Show
  <2>2. Sessions(calls, ListsShown)' /\ SameContract
    <3>1. place \in DOMAIN ListsShown => about # {} /\ about \subseteq ListsShown[place]
      BY <1>7 DEF ListsShown
    <3>2. QED BY <1>1, <1>7, <3>1, Shows
  <2>3. OnlyShownIsAsked' BY <1>1, <1>7, AskedByShow
  <2>4. QED BY <1>1, <1>4, <2>1, <2>2, <2>3 DEF SameContract
<1>8. ASSUME AddNewType(c) PROVE Kept
  <2>1. PICK n \in Name, start \in StartTime :
          \/ Begin(c, One("addType", <<start, n>>), {})
          \/ \E i \in Investor : Begin(c, One("addTypeAndInvestor", <<start, n, i>>), {})
    BY <1>8 DEF AddNewType
  <2>2. start \in Nat BY ListsAssumption
  <2>3. /\ "addType" \in ListOps /\ <<start, n>> \in ListRows("addType")
        /\ "addTypeAndInvestor" \in ListOps
        /\ \A i \in Investor : <<start, n, i>> \in ListRows("addTypeAndInvestor")
    BY <2>2 DEF ListOps, ListRows
  <2>4. QED BY <1>6, <2>1, <2>3
<1>9. CASE DeleteInvestorsFromAllBlacklists(c)
  <2>1. PICK i \in Investor, more \in {<< >>} \cup {<<<<j>>>> : j \in Investor} :
          Begin(c, <<[op |-> "deleteFromAll", rows |-> <<<<i>>>> \o more]>>, {})
    BY <1>9 DEF DeleteInvestorsFromAllBlacklists
  <2> DEFINE Row == {<<j>> : j \in Investor}
             rows == <<<<i>>>> \o more
             call == [op |-> "deleteFromAll", rows |-> rows]
             list == <<call>>
  <2>2. <<<<i>>>> \in Seq(Row) /\ more \in Seq(Row)
    <3>1. \A j \in Investor : <<j>> \in Row OBVIOUS
    <3> HIDE DEF Row
    <3>2. \A row \in Row : <<row>> \in Seq(Row) OBVIOUS
    <3>3. CASE more = << >> BY <3>1, <3>2, <3>3
    <3>4. CASE \E j \in Investor : more = <<<<j>>>> BY <3>1, <3>2, <3>4
    <3>5. QED BY <2>1, <3>3, <3>4
  <2>3. ListRows("deleteFromAll") = Row /\ "deleteFromAll" \in ListOps
    BY DEF ListRows, ListOps
  <2> HIDE DEF Row
  <2>4. rows \in Seq(Row) BY <2>2
  <2> HIDE DEF rows
  <2>5. call \in ListCalls BY <2>3, <2>4 DEF ListCalls, CallOf
  <2>6. RemovesShown(list, {}) BY DEF RemovesShown
  <2> HIDE DEF call
  <2>7. list \in Seq(ListCalls) BY <2>5
  <2>8. Begin(c, list, {}) BY <2>1 DEF call, rows
  <2> HIDE DEF list
  <2>9. QED BY <1>5, <2>6, <2>7, <2>8
<1>10. ASSUME ReadType(c) PROVE Kept
  <2>1. PICK n \in Name :
          Show(c, "manage", {[name |-> n, investors |-> contract.investorsOf[n]]})
    BY <1>10 DEF ReadType
  <2>2. contract.investorsOf[n] \in Seq(Investor) BY <1>1 DEF ListBooks, BooksOfNames
  <2> DEFINE about == {[name |-> n, investors |-> contract.investorsOf[n]]}
  <2>3. about # {} /\ about \subseteq ListsShown["manage"] BY <2>2 DEF ListsShown
  <2>4. Show(c, "manage", about) BY <2>1
  <2> HIDE DEF about
  <2>5. QED BY <1>7, <2>3, <2>4
<1>11. ASSUME At(c, "manage")
       PROVE  Shown(c) \in [name : Name, investors : Seq(Investor)]
  <2>1. "manage" \in DOMAIN ListsShown BY DEF ListsShown
  <2>2. Shown(c) \in ListsShown["manage"] BY <1>1, <1>11, <2>1, ShownIsShown
  <2>3. QED BY <2>2 DEF ListsShown
<1>12. ASSUME At(c, "manage"), ModifyProperties(c) PROVE Kept
  <2>1. PICK start \in StartTime :
          Begin(c, One("modifyType", <<start, Shown(c).name>>), session[c].about)
    BY <1>12 DEF ModifyProperties
  <2>2. start \in Nat /\ Shown(c).name \in Name BY <1>11, <1>12, ListsAssumption
  <2>3. "modifyType" \in ListOps /\ <<start, Shown(c).name>> \in ListRows("modifyType")
    BY <2>2 DEF ListOps, ListRows
  <2>4. QED BY <1>6, <2>1, <2>3
<1>13. ASSUME At(c, "manage"), AddInvestorsToThis(c) PROVE Kept
  <2> DEFINE n == Shown(c).name
  <2>1. PICK i \in Investor, more \in {{}} \cup {{j} : j \in Investor} :
          Begin(c, <<[op |-> "addInvestor",
                      rows |-> <<<<i, n>>>> \o SetToSeq({<<j, n>> : j \in more})]>>,
                session[c].about)
    BY <1>13 DEF AddInvestorsToThis
  <2>2. n \in Name BY <1>11, <1>13
  <2> HIDE DEF n
  <2> DEFINE Row == Investor \X Name
             others == {<<j, n>> : j \in more}
             rows == <<<<i, n>>>> \o SetToSeq(others)
             call == [op |-> "addInvestor", rows |-> rows]
             list == <<call>>
  <2>3. <<<<i, n>>>> \in Seq(Row) BY <2>2
  <2>4. SetToSeq(others) \in Seq(Row)
    <3>1. others \subseteq Row BY <2>2
    <3>2. PICK x : others = {} \/ others = {x}
      <4>1. CASE more = {} BY <4>1
      <4>2. CASE more # {}
        <5>1. PICK j \in Investor : more = {j} BY <2>1, <4>2
        <5>2. others = {<<j, n>>} BY <5>1
        <5>3. QED BY <5>2
      <4>3. QED BY <4>1, <4>2
    <3> HIDE DEF others, Row
    <3>3. SetToSeq(others) \in Seq(others) BY <3>2, FewInTurn
    <3>4. QED BY <3>1, <3>3
  <2>5. ListRows("addInvestor") = Row /\ "addInvestor" \in ListOps
    BY DEF ListRows, ListOps
  <2> HIDE DEF Row, others
  <2>6. rows \in Seq(Row) BY <2>3, <2>4
  <2> HIDE DEF rows
  <2>7. call \in ListCalls BY <2>5, <2>6 DEF ListCalls, CallOf
  <2>8. RemovesShown(list, session[c].about) BY AskedForNothing
  <2> HIDE DEF call
  <2>9. list \in Seq(ListCalls) BY <2>7
  <2>10. Begin(c, list, session[c].about) BY <2>1 DEF call, rows, others
  <2> HIDE DEF list
  <2>11. QED BY <1>5, <2>8, <2>9, <2>10
<1>14. ASSUME At(c, "manage"), RemoveInvestorFromThis(c) PROVE Kept
  <2>1. PICK i \in Investor :
          Begin(c, One("deleteInvestor", <<i, Shown(c).name>>), session[c].about)
    BY <1>14 DEF RemoveInvestorFromThis
  <2>2. Shown(c).name \in Name BY <1>11, <1>14
  <2>3. /\ "deleteInvestor" \in ListOps
        /\ <<i, Shown(c).name>> \in ListRows("deleteInvestor")
    BY <2>2 DEF ListOps, ListRows
  <2>4. QED BY <1>6, <2>1, <2>3
<1>15. ASSUME At(c, "manage"), DeleteThisType(c) PROVE Kept
  <2> DEFINE m == Shown(c)
             data == [k \in DOMAIN m.investors |-> <<m.investors[k], m.name>>]
             list == CallsOf("deleteInvestor", data, DefaultBatch)
                       \o One("deleteType", <<m.name>>)
  <2>1. Begin(c, list, session[c].about) \/ Begin(c, << >>, {})
    BY <1>15 DEF DeleteThisType
  <2>2. m \in [name : Name, investors : Seq(Investor)] BY <1>11, <1>15
  <2>3. list \in Seq(ListCalls) /\ list \in Seq(Removals(m)) BY <2>2, DeleteThisCalls
  <2> HIDE DEF data, list
  <2>4. RemovesShown(list, session[c].about) BY <2>3 DEF RemovesShown, Shown
  <2>5. << >> \in Seq(ListCalls) /\ RemovesShown(<< >>, {}) BY DEF RemovesShown
  <2>6. QED BY <1>5, <2>1, <2>3, <2>4, <2>5
<1>16. ASSUME NEW op \in {"addType", "modifyType", "deleteType", "addInvestor",
                          "deleteInvestor"},
              NEW columns, InBatch(c, op, columns),
              \A r \in ListRecord :
                [x \in DOMAIN columns |-> r[columns[x]]] \in ListRows(op)
       PROVE  Kept
  <2> DEFINE fields(r) == [x \in DOMAIN columns |-> r[columns[x]]]
  <2>1. PICK f \in File, size \in BatchSize :
          Begin(c, CallsOf(op, [k \in DOMAIN f |-> fields(f[k])], size), {})
    BY <1>16 DEF InBatch
  <2>2. f \in Seq(ListRecord) BY ListsAssumption
  <2>3. \A r \in ListRecord : fields(r) \in ListRows(op) BY <1>16
  <2> HIDE DEF fields
  <2> DEFINE data == [k \in DOMAIN f |-> fields(f[k])]
             list == CallsOf(op, data, size)
  <2>4. data \in Seq(ListRows(op)) BY <2>2, <2>3
  <2> HIDE DEF data
  <2>5. list \in Seq(ListCalls) BY <2>4, ListFileCalls
  <2>6. Begin(c, list, {}) BY <2>1 DEF data
  <2>7. RemovesShown(list, {}) BY DEF RemovesShown
  <2> HIDE DEF list
  <2>8. QED BY <1>5, <2>5, <2>6, <2>7
<1>17. \A r \in ListRecord :
         LET columns == <<"start", "name">>
         IN  /\ [x \in DOMAIN columns |-> r[columns[x]]] \in ListRows("addType")
             /\ [x \in DOMAIN columns |-> r[columns[x]]] \in ListRows("modifyType")
  BY DEF ListRecord, ListRows
<1>18. \A r \in ListRecord :
         LET columns == <<"investor", "name">>
         IN  /\ [x \in DOMAIN columns |-> r[columns[x]]] \in ListRows("addInvestor")
             /\ [x \in DOMAIN columns |-> r[columns[x]]] \in ListRows("deleteInvestor")
  BY DEF ListRecord, ListRows
<1>19. \A r \in ListRecord :
         LET columns == <<"name">>
         IN  [x \in DOMAIN columns |-> r[columns[x]]] \in ListRows("deleteType")
  BY DEF ListRecord, ListRows
<1>20. ASSUME AskForever(c) PROVE Kept
  BY <1>7, <1>20 DEF AskForever
<1>21. CASE OperateWithMultipleBlacklists(c)
  BY <1>16, <1>17, <1>18, <1>20, <1>21
  DEF OperateWithMultipleBlacklists, AddBlacklistsInBatch, ModifyBlacklistsInBatch,
      DeleteBlacklistsInBatch, AddInvestorsToBlacklistsInBatch,
      RemoveInvestorsFromBlacklistsInBatch
<1>22. CASE OperateWithMultipleLockups(c)
  BY <1>16, <1>17, <1>18, <1>19, <1>22
  DEF OperateWithMultipleLockups, AddLockupsInBatch, ModifyLockupsInBatch,
      DeleteLockupsInBatch, AddLockupsToInvestorsInBatch,
      RemoveLockupsFromInvestorsInBatch
<1>23. CASE Send(c, ListsCallAfter(ToSend(c)))
  <2>1. Sessions(calls, ListsShown)' /\ SameContract BY <1>1, <1>23, Sends
  <2>2. /\ OnlyShownIsAsked'
        /\ \A d \in Client : session[d].at = "waiting" => mempool'[d] = mempool[d]
    BY <1>1, <1>23, AskedBySend
  <2>3. TookShown BY <2>2 DEF TookShown
  <2>4. QED BY <1>1, <2>1, <2>2, <2>3 DEF SameContract
<1>24. ASSUME NEW call \in mempool[c], Mine(c, ListsCallAfter(call)) PROVE Kept
  <2>1. call \in ListCalls BY <1>1 DEF Sessions
  <2>2. ListsCallAfter(call) \subseteq ListBooks(current)
    BY <1>1, <2>1, ListCallKeeps DEF ListsCallAfter
  <2>3. /\ Sessions(calls, ListsShown)'
        /\ contract' \in ListsCallAfter(call) \/ contract' = contract
    BY <1>1, <1>24, Mines
  <2>4. OnlyShownIsAsked' /\ \A d \in Client \ {c} : mempool'[d] = mempool[d]
    BY <1>1, <1>24, AskedByMine
  <2>5. ASSUME current = "lockup", session[c].at = "waiting", session[c].about # {},
               Last(session[c].calls).op = "deleteType"
        PROVE  LeftShown(contract, contract', Shown(c))
    <3> DEFINE m == Shown(c)
               list == session[c].calls
    <3>1. list \in Seq(Removals(m)) /\ list # << >> /\ call = Head(list)
      BY <1>1, <1>24, <2>5 DEF OnlyShownIsAsked, RemovesShown, Shown
    <3> HIDE DEF list, m
    <3>2. call \in Removals(m) BY <3>1
    <3>3. CASE contract' = contract BY <3>3 DEF LeftShown
    <3>4. CASE contract' \in ListsCallAfter(call)
      <4>1. contract \in ListBooks("lockup")
            /\ contract' \in ListsAfter(contract, "lockup", call, now)
        BY <1>1, <2>5, <3>4 DEF ListsCallAfter
      <4>2. LeftShown(contract, contract', m)
        BY <1>1, <2>1, <3>2, <4>1, RemovalTakesShown
      <4>3. QED BY <4>2 DEF m
    <3>5. QED BY <2>3, <3>3, <3>4
  <2>6. TookShown BY <2>4, <2>5 DEF TookShown
  <2>7. QED BY <1>1, <2>2, <2>3, <2>4, <2>6
<1>25. QED
  BY <1>8, <1>9, <1>10, <1>12, <1>13, <1>14, <1>15, <1>21, <1>22, <1>23, <1>24
  DEF ListsStep, BlacklistTransferManager, LockUpTransferManager, AddNewBlacklist,
      AddNewLockup, ManageExistingBlacklist, ManageExistingLockup, ManageBlacklist,
      ManageLockup

LEMMA ListsAtFirst == Init => ListsInv
<1> SUFFICES ASSUME Init, current \in Lists
             PROVE  /\ now \in Nat \ {0} /\ contract \in ListBooks(current)
                    /\ Sessions([c \in Client |-> ListCalls], ListsShown)
                    /\ OnlyShownIsAsked
  BY DEF ListsInv
<1>1. contract = EmptyBook
  BY DEF Init, ConfigExistingModules, ListsInit, Lists, ApprovalsInit, RestrictionsInit,
     GeneralInit, LimitsInit, RegistryInit, PermissionsInit, WalletInit, ModulesInit,
     IssuanceInit
<1>2. EmptyBook \in ListBooks(current)
  <2> DEFINE b == EmptyBook
  <2>1. /\ b \in BooksOfNames /\ b.types = << >>
        /\ \A n \in Name : b.startTime[n] = 0 /\ b.investorsOf[n] = << >>
        /\ \A i \in Investor : b.namesOf[i] = << >>
    BY DEF EmptyBook, BooksOfNames
  <2>2. IsInjective(<< >>) /\ ToSet(<< >>) = {} BY DEF IsInjective, ToSet
  <2>3. ASSUME NEW index PROVE Indexed(<< >>, index) BY DEF Indexed
  <2> HIDE DEF b
  <2>4. TypesListed(b) BY <2>1, <2>2 DEF TypesListed, Exists
  <2>5. MembersListed(b) BY <2>1, <2>2, <2>3 DEF MembersListed
  <2>6. b \in ListBooks(current) BY <2>1, <2>4, <2>5 DEF ListBooks
  <2>7. QED BY <2>6 DEF b
<1>3. SessionInit BY DEF Init
<1>4. DOMAIN ListsShown \cap {"menu", "sending", "waiting"} = {} BY DEF ListsShown
<1>5. Sessions([c \in Client |-> ListCalls], ListsShown)
  BY <1>3, <1>4, SessionsAtFirst
<1>6. OnlyShownIsAsked
  BY <1>3 DEF SessionInit, OnlyShownIsAsked, RemovesShown, AtMenu, Place
<1>7. now \in Nat \ {0} BY <1>3 DEF SessionInit
<1>8. QED BY <1>1, <1>2, <1>5, <1>6, <1>7

LEMMA ListsNext == ListsInv /\ [Next]_sessionVars => ListsInv' /\ TookShown
<1> SUFFICES ASSUME ListsInv, [Next]_sessionVars PROVE ListsInv' /\ TookShown
  OBVIOUS
<1>1. CASE current \in Lists
  <2>1. CASE \E c \in Client : ListsStep(c) BY <2>1, ListsStepKeeps
  <2>2. CASE (\E c \in Client : Kill(c)) \/ UNCHANGED sessionVars \/ Tick
    <3> DEFINE calls == [c \in Client |-> ListCalls]
    <3>1. Sessions(calls, ListsShown) /\ OnlyShownIsAsked BY <1>1 DEF ListsInv
    <3>2. calls' = calls OBVIOUS
    <3> HIDE DEF calls
    <3>3. Sessions(calls, ListsShown)' /\ UNCHANGED <<current, contract>>
      BY <2>2, <3>1, CommonSteps
    <3>4. mempool' = mempool
      BY <2>2 DEF Kill, Throw, Leave, sessionVars, Tick
    <3>5. OnlyShownIsAsked'
      <4>1. ASSUME NEW c \in Client, Kill(c) PROVE OnlyShownIsAsked'
        <5>1. Throw(c) BY <4>1 DEF Kill
        <5>2. "menu" # "waiting" OBVIOUS
        <5>3. QED BY <3>1, <5>1, <5>2, AskedByShow
      <4>2. CASE UNCHANGED sessionVars BY <3>1, <4>2 DEF sessionVars, OnlyShownIsAsked
      <4>3. CASE Tick BY <3>1, <4>3 DEF Tick, OnlyShownIsAsked
      <4>4. QED BY <2>2, <4>1, <4>2, <4>3
    <3>6. now' \in Nat \ {0} BY <1>1, ModuleStays DEF ListsInv
    <3>7. ListsInv' BY <1>1, <3>2, <3>3, <3>5, <3>6 DEF ListsInv, calls
    <3>8. QED BY <3>4, <3>7 DEF TookShown
  <2>3. QED BY <1>1, <2>1, <2>2, StepsOf DEF Lists
<1>2. CASE current \notin Lists
  <2>1. current' = current BY ModuleStays
  <2>2. ListsInv' BY <1>2, <2>1 DEF ListsInv, Lists
  <2>3. TookShown BY <1>2 DEF TookShown, Lists
  <2>4. QED BY <2>2, <2>3
<1>3. QED BY <1>1, <1>2

\* Every entry of the arrays of a LockUpTransferManager has its index, however the
\* calls of administrators come in between: what one removes by its index is never
\* what another one has moved there.
THEOREM MembershipAlwaysAgrees == Spec => []MembershipAgrees
<1>1. ListsInv => MembershipAgrees
  <2> SUFFICES ASSUME ListsInv, current \in Lists
               PROVE  /\ TypesListed(contract)
                      /\ current = "lockup" =>
                           \A i \in Investor, n \in Name :
                             /\ n \in NamesOf(i) => Exists(contract, n)
                             /\ n \in NamesOf(i) <=> i \in InvestorsOf(n)
                             /\ n \in NamesOf(i) =>
                                  /\ EntryIs(contract.namesOf[i],
                                             contract.nameIndex[i][n], n)
                                  /\ EntryIs(contract.investorsOf[n],
                                             contract.investorIndex[n][i], i)
    BY DEF MembershipAgrees, TypesListed
  <2>1. contract \in BooksOfNames /\ TypesListed(contract) BY DEF ListsInv, ListBooks
  <2>2. ASSUME current = "lockup", NEW i \in Investor, NEW n \in Name
        PROVE  /\ n \in NamesOf(i) => Exists(contract, n)
               /\ n \in NamesOf(i) <=> i \in InvestorsOf(n)
               /\ n \in NamesOf(i) =>
                    /\ EntryIs(contract.namesOf[i], contract.nameIndex[i][n], n)
                    /\ EntryIs(contract.investorsOf[n], contract.investorIndex[n][i], i)
    <3> DEFINE held == contract.namesOf[i]
               heldAt == contract.nameIndex[i]
               under == contract.investorsOf[n]
               underAt == contract.investorIndex[n]
    <3>1. MembersListed(contract) BY <2>2 DEF ListsInv, ListBooks
    <3>2. /\ held \in Seq(Name) /\ heldAt \in [Name -> Nat] /\ Indexed(held, heldAt)
          /\ under \in Seq(Investor) /\ underAt \in [Investor -> Nat]
          /\ Indexed(under, underAt) /\ (n \in ToSet(held) <=> i \in ToSet(under))
          /\ n \in ToSet(held) => Exists(contract, n)
      BY <2>1, <3>1 DEF BooksOfNames, MembersListed
    <3> HIDE DEF held, heldAt, under, underAt
    <3>3. /\ n \in ToSet(held) => EntryIs(held, heldAt[n], n)
          /\ i \in ToSet(under) => EntryIs(under, underAt[i], i)
      BY <3>2, IndexedOnce
    <3>4. NamesOf(i) = ToSet(held) /\ InvestorsOf(n) = ToSet(under)
      BY DEF NamesOf, InvestorsOf, held, under
    <3>5. QED BY <3>2, <3>3, <3>4 DEF held, heldAt, under, underAt
  <2>3. QED BY <2>1, <2>2
<1>2. QED BY <1>1, ListsAtFirst, ListsNext, PTL DEF Spec

\* 'Delete this type' in transfer_manager.js: what the menu shows is what goes with
\* the type, and an investor somebody else adds meanwhile makes the call revert.
THEOREM OnlyShownAlwaysRemoved == Spec => OnlyShownAreRemoved
<1>1. ListsInv /\ [Next]_sessionVars =>
        [\A c \in Client :
           (/\ current = "lockup"
            /\ session[c].at = "waiting"
            /\ session[c].about # {}
            /\ Last(session[c].calls).op = "deleteType"
            /\ mempool[c] # mempool'[c]) =>
              \A n \in Name :
                (InvestorsOf(n) \ InvestorsOf(n)') \subseteq
                  (IF n = Shown(c).name THEN ToSet(Shown(c).investors) ELSE {})]_sessionVars
  BY ListsNext DEF TookShown, LeftShown, InvestorsOf
<1>2. QED BY <1>1, ListsAtFirst, ListsNext, PTL DEF Spec, OnlyShownAreRemoved
=============================================================================
