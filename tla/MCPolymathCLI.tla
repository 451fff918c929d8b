----------------------------- MODULE MCPolymathCLI -----------------------------
(***************************************************************************)
(* Two operators, two of everything they administer, a1 and a2, and for    *)
(* each kind of record a file that does not fit into one batch.            *)
(***************************************************************************)
EXTENDS PolymathCLI, TLC

CONSTANTS ann, ben, a1, a2, n1, n2, n3, zero, typed, data1, data2, data3

ListRow(n, i) == [start |-> 2, name |-> n, investor |-> i]
ApprovalRow(p, a, i) == [pair |-> p, expiry |-> 3, allowance |-> a, increase |-> i]
RestrictionRow(h, s) == [holder |-> h, start |-> s]
InvestorRow(i, k) == [investor |-> i, kyc |-> k, flag |-> 2, value |-> TRUE]

\* Every file in both orders of the two.
Orders == {<<a1, a2>>, <<a2, a1>>}

ListFiles == {<<ListRow(n1, a[1]), ListRow(n2, a[1]), ListRow(n2, a[2])>> : a \in Orders}

ApprovalFiles ==
  {<<ApprovalRow(a[1], 0, TRUE), ApprovalRow(a[2], 2, FALSE), ApprovalRow(a[1], 1, FALSE)>> :
     a \in Orders}

RestrictionFiles ==
  {<<RestrictionRow(a[1], 0), RestrictionRow(a[1], 2), RestrictionRow(a[2], 0)>> :
     a \in Orders}

InvestorFiles ==
  {<<InvestorRow(a[1], data1), InvestorRow("invalid", data2), InvestorRow(a[2], data2),
     InvestorRow(a[1], data3)>> : a \in Orders}

WhitelistFiles == {<<<<a[1], TRUE>>, <<a[2], TRUE>>, <<a[1], FALSE>>>> : a \in Orders}

LowFees == {[registration |-> 1, launch |-> 1]}
Fees == {[registration |-> fee, launch |-> 1] : fee \in {1, 2}}

OneToken == [numberOfTokens |-> 1, duration |-> 1, frequency |-> 1]
Templates == {OneToken}

ScheduleFiles ==
  {<<<<b, a[1], OneToken, 2>>, <<b, a[2], OneToken, 3>>>> : b \in Beneficiary, a \in Orders}

\* One beneficiary with a schedule that starts first, and two that start later.
ThreeSchedules ==
  {<<<<ann, n1, OneToken, 2>>, <<ann, a1, OneToken, 3>>, <<ann, a2, OneToken, 3>>>>}

\* The first may be issued more, on his own.
IssueFiles == {<<<<n1, 1>>, <<n2, 2>>, <<n3, 1>>>>}

Alike == Permutations({ann, ben}) \cup Permutations({a1, a2})

=============================================================================
