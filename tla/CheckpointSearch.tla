--------------------------- MODULE CheckpointSearch ---------------------------
(***************************************************************************)
(* TokenLib.getValueAt, step by step: the shortcuts, then the binary       *)
(* search.  Positions are those of Solidity, from 0.                       *)
(***************************************************************************)
EXTENDS Checkpoints

CONSTANTS
  MaxId,      \* bound on the checkpoint ids
  MaxLength,  \* bound on the length of a series
  Value       \* balances

ASSUME SearchAssumption == MaxId \in Nat /\ MaxLength \in Nat /\ 0 \in Value

VARIABLES
  checkpoints, checkpointId, currentValue,  \* the arguments
  min, max,          \* the bounds of the search
  pc,
  result

arguments == <<checkpoints, checkpointId, currentValue>>
searchVars == <<arguments, min, max, pc, result>>

Entry == [checkpointId : 1..MaxId, value : Value]
Series == UNION {[1..n -> Entry] : n \in 0..MaxLength}

At(i) == checkpoints[i + 1]
Length == Len(checkpoints)

SearchInit ==
  /\ checkpoints \in Series
  /\ InOrder(checkpoints, MaxId)
  /\ checkpointId \in 0..MaxId
  /\ currentValue \in Value
  /\ min = 0 /\ max = 0
  /\ pc = "start"
  /\ result = 0

Return(v) ==
  /\ result' = v
  /\ pc' = "done"
  /\ UNCHANGED <<arguments, min, max>>

\* Lines 263 to 276: the checkpoint is the null one, the series is empty, or
\* one of its ends answers.
Shortcut ==
  /\ pc = "start"
  /\ \/ checkpointId = 0 /\ Return(0)
     \/ checkpointId # 0 /\ Length = 0 /\ Return(currentValue)
     \/ /\ checkpointId # 0 /\ Length # 0 /\ At(0).checkpointId >= checkpointId
        /\ Return(At(0).value)
     \/ /\ checkpointId # 0 /\ Length # 0 /\ At(0).checkpointId < checkpointId
        /\ \/ At(Length - 1).checkpointId < checkpointId /\ Return(currentValue)
           \/ At(Length - 1).checkpointId = checkpointId /\ Return(At(Length - 1).value)

StartSearch ==
  /\ pc = "start"
  /\ checkpointId # 0 /\ Length # 0
  /\ At(0).checkpointId < checkpointId
  /\ At(Length - 1).checkpointId > checkpointId
  /\ min' = 0
  /\ max' = Length - 1
  /\ pc' = "loop"
  /\ UNCHANGED <<arguments, result>>

\* Halve that keeps the middle in the upper half.
HalveWithMiddle ==
  /\ pc = "loop" /\ max > min
  /\ LET mid == (max + min) \div 2 IN
       \/ /\ At(mid).checkpointId = checkpointId
          /\ max' = mid /\ pc' = "found"
          /\ UNCHANGED min
       \/ /\ At(mid).checkpointId < checkpointId
          /\ min' = mid
          /\ UNCHANGED <<max, pc>>
       \/ /\ At(mid).checkpointId > checkpointId
          /\ max' = mid
          /\ UNCHANGED <<min, pc>>
  /\ UNCHANGED <<arguments, result>>

Halve ==
  /\ pc = "loop" /\ max > min
  /\ LET mid == (max + min) \div 2 IN
       \/ /\ At(mid).checkpointId = checkpointId
          /\ max' = mid /\ pc' = "found"
          /\ UNCHANGED min
       \/ /\ At(mid).checkpointId < checkpointId
          /\ min' = mid + 1
          /\ UNCHANGED <<max, pc>>
       \/ /\ At(mid).checkpointId > checkpointId
          /\ max' = mid
          /\ UNCHANGED <<min, pc>>
  /\ UNCHANGED <<arguments, result>>

\* Finish that answers with the lower bound.
FinishAtMin ==
  /\ pc = "found" \/ (pc = "loop" /\ max <= min)
  /\ Return(At(min).value)

Finish ==
  /\ pc = "found" \/ (pc = "loop" /\ max <= min)
  /\ Return(At(max).value)

SearchNext == Shortcut \/ StartSearch \/ Halve \/ Finish

SearchSpec == SearchInit /\ [][SearchNext]_searchVars /\ WF_searchVars(SearchNext)

-----------------------------------------------------------------------------
\* Every value the search returns is the balance at that checkpoint.
SearchCorrect == pc = "done" => result = ValueAt(checkpoints, checkpointId, currentValue)

\* The search stays inside the series and never loses the entry it looks for:
\* everything before min is too early and the entry at max is not.
SearchInside ==
  pc \in {"loop", "found"} =>
    /\ min <= max /\ max < Length
    /\ \A i \in 0..(min - 1) : At(i).checkpointId < checkpointId
    /\ At(max).checkpointId >= checkpointId

\* The loop ends for every series and every checkpoint.
SearchEnds == <>(pc = "done")
=============================================================================
