---------------------------- MODULE SnapshotFiles ----------------------------
(* What a retrace that takes snapshots promises (retrace/retrace_main.cpp, *)
(* with the plain Snapshotter): every snapshot taken is written to its     *)
(* file once, and none is missing when the trace is over.  What an exit    *)
(* after the last call of -S leaves is not promised here.                  *)
EXTENDS Naturals

CONSTANT Snapshots      \* snapshots a trace can have

VARIABLES
  last,     \* the one after which -S has no more, 0 if it has no end
  taken,    \* how many have been taken
  written,  \* those in their file
  over      \* the program has returned

vars == <<last, taken, written, over>>

Init == last \in 0..Snapshots /\ taken = 0 /\ written = {} /\ over = FALSE

Take ==
  /\ ~over
  /\ taken < Snapshots
  /\ taken # last \/ last = 0
  /\ taken' = taken + 1
  /\ UNCHANGED <<last, written, over>>

Write ==
  /\ ~over
  /\ \E n \in 1..taken \ written : written' = written \cup {n}
  /\ UNCHANGED <<last, taken, over>>

Finish ==
  /\ ~over
  /\ written = 1..taken
  /\ over' = TRUE
  /\ UNCHANGED <<last, taken, written>>

Exit ==
  /\ ~over
  /\ taken = last /\ last # 0
  /\ over' = TRUE
  /\ UNCHANGED <<last, taken, written>>

Next == Take \/ Write \/ Finish \/ Exit

Spec == Init /\ [][Next]_vars /\ WF_vars(Write)
=============================================================================
