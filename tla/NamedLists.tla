------------------------------ MODULE NamedLists ------------------------------
(***************************************************************************)
(* BTM/BlacklistTransferManager.sol and LTM/LockUpTransferManager.sol keep *)
(* the same book: named types and, in arrays with an index each, the names *)
(* an investor is under and the investors under a name.  They differ in    *)
(* how they see that an investor is already under a name.                  *)
(*                                                                         *)
(* Every operation is a set of books: the one it leads to, or none when it *)
(* reverts.  Indexes count from zero, and an absent one reads as zero.     *)
(***************************************************************************)
EXTENDS Batches

CONSTANTS Investor, Name

EmptyBook ==
  [types         |-> << >>,                      \* allBlacklists, lockupArray
   startTime     |-> [n \in Name |-> 0],         \* zero: no such type
   namesOf       |-> [i \in Investor |-> << >>],
   nameIndex     |-> [i \in Investor |-> [n \in Name |-> 0]],
   investorsOf   |-> [n \in Name |-> << >>],
   investorIndex |-> [n \in Name |-> [i \in Investor |-> 0]]]

Exists(b, n) == b.startTime[n] # 0

\* Whether entry number k of an array is x; reading past the end reverts.
EntryIs(s, k, x) == k < Len(s) /\ s[k + 1] = x

\* An array without entry k, the last one moved into its place.
WithoutEntry(s, k) ==
  IF k < Len(s) - 1 THEN Front([s EXCEPT ![k + 1] = Last(s)]) ELSE Front(s)

\* Mutant: the moved entry keeps the index it had.
ReindexedRemovedOnly(index, s, k, removed) == [index EXCEPT ![removed] = 0]

\* The indexes after that: the moved entry's, and zero for the removed one.
Reindexed(index, s, k, removed) ==
  [x \in DOMAIN index |->
     IF x = removed THEN 0
     ELSE IF k < Len(s) - 1 /\ x = Last(s) THEN k ELSE index[x]]

-----------------------------------------------------------------------------

\* A lockup that starts at zero starts now; no type starts in the past.
StartOf(kind, start, now) == IF kind = "lockup" /\ start = 0 THEN now ELSE start

AddType(b, kind, row, now) ==
  LET start == StartOf(kind, row[1], now)
      n == row[2]
  IN  IF ~Exists(b, n) /\ start >= now
        THEN {[b EXCEPT !.types = Append(@, n), !.startTime[n] = start]}
        ELSE {}

ModifyType(b, kind, row, now) ==
  LET start == StartOf(kind, row[1], now)
      n == row[2]
  IN  IF Exists(b, n) /\ start >= now THEN {[b EXCEPT !.startTime[n] = start]} ELSE {}

DeleteType(b, n) ==
  IF Exists(b, n) /\ b.investorsOf[n] = << >>
    THEN {[b EXCEPT !.startTime[n] = 0,
                    !.types = WithoutEntry(@, SelectInSeq(@, LAMBDA m : m = n) - 1)]}
    ELSE {}

AlreadyUnder(b, kind, i, n) ==
  IF kind = "blacklist" THEN b.nameIndex[i][n] # 0
                        ELSE EntryIs(b.namesOf[i], b.nameIndex[i][n], n)

MayJoin(b, kind, n, now) ==
  IF kind = "blacklist" THEN Exists(b, n) ELSE b.startTime[n] >= now

AddInvestor(b, kind, row, now) ==
  LET i == row[1]
      n == row[2]
  IN  IF MayJoin(b, kind, n, now) /\ ~AlreadyUnder(b, kind, i, n)
        THEN {[b EXCEPT !.nameIndex[i][n] = Len(b.namesOf[i]),
                        !.investorIndex[n][i] = Len(b.investorsOf[n]),
                        !.namesOf[i] = Append(@, n),
                        !.investorsOf[n] = Append(@, i)]}
        ELSE {}

\* An index past the end reverts in the lockups, which write there; the
\* blacklists then only drop the last entry.
DeleteInvestor(b, kind, row) ==
  LET i == row[1]
      n == row[2]
      atName == b.nameIndex[i][n]
      atInvestor == b.investorIndex[n][i]
  IN  IF /\ EntryIs(b.namesOf[i], atName, n)
         /\ b.investorsOf[n] # << >>
         /\ kind = "lockup" => atInvestor < Len(b.investorsOf[n])
        THEN {[b EXCEPT
                !.investorsOf[n] = WithoutEntry(@, atInvestor),
                !.investorIndex[n] = Reindexed(@, b.investorsOf[n], atInvestor, i),
                !.namesOf[i] = WithoutEntry(@, atName),
                !.nameIndex[i] = Reindexed(@, b.namesOf[i], atName, n)]}
        ELSE {}

\* The names of the investor, from the last one back.
DeleteFromAll(b, kind, i) ==
  IF b.namesOf[i] = << >> THEN {}
  ELSE InTurn(b, Reverse(b.namesOf[i]),
              LAMBDA book, n : DeleteInvestor(book, kind, <<i, n>>))

AddTypeAndInvestor(b, kind, row, now) ==
  UNION {AddInvestor(book, kind, <<row[3], row[2]>>, now) :
           book \in AddType(b, kind, row, now)}

\* What one record of a call does.
ListsChange(b, op, row, kind, now) ==
  CASE op = "addType" -> AddType(b, kind, row, now)
    [] op = "addTypeAndInvestor" -> AddTypeAndInvestor(b, kind, row, now)
    [] op = "modifyType" -> ModifyType(b, kind, row, now)
    [] op = "deleteType" -> DeleteType(b, row[1])
    [] op = "addInvestor" -> AddInvestor(b, kind, row, now)
    [] op = "deleteInvestor" -> DeleteInvestor(b, kind, row)
    [] op = "deleteFromAll" -> DeleteFromAll(b, kind, row[1])

\* The call of a client, with one row when it is not a ...Multi function.
ListsAfter(b, kind, call, now) ==
  InTurn(b, call.rows, LAMBDA book, row : ListsChange(book, call.op, row, kind, now))

=============================================================================
