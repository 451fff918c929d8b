----------------------------- MODULE Checkpoints -----------------------------
(***************************************************************************)
(* The series of checkpoints of one investor, libraries/TokenLib.sol.  An  *)
(* entry [checkpointId, value] records the balance before its first change *)
(* after the checkpoint was created.                                       *)
(***************************************************************************)
EXTENDS Integers, Sequences

\* Position i holds the first entry at or after id.
FirstAtOrAfter(cps, id, i) ==
  /\ i \in 1..Len(cps)
  /\ cps[i].checkpointId >= id
  /\ \A j \in 1..(i - 1) : cps[j].checkpointId < id

\* getValueAt: the value of the first entry at or after id, or the current
\* value if there is none.  The code finds it by binary search, step by step
\* in CheckpointSearch.
ValueAt(cps, id, current) ==
  IF id = 0 THEN 0
  ELSE IF \E i \in 1..Len(cps) : FirstAtOrAfter(cps, id, i)
       THEN cps[CHOOSE i \in 1..Len(cps) : FirstAtOrAfter(cps, id, i)].value
       ELSE current

\* adjustCheckpoints
AdjustCheckpoints(cps, newValue, currentId) ==
  IF \/ currentId = 0
     \/ cps # <<>> /\ cps[Len(cps)].checkpointId = currentId
  THEN cps
  ELSE Append(cps, [checkpointId |-> currentId, value |-> newValue])

\* The ids of a series increase and have all been reached.
InOrder(cps, currentId) ==
  \A i \in 1..Len(cps) :
    /\ cps[i].checkpointId <= currentId
    /\ \A j \in 1..(i - 1) : cps[j].checkpointId < cps[i].checkpointId
=============================================================================
