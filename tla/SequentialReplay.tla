-------------------------- MODULE SequentialReplay --------------------------
(***************************************************************************)
(* What the replay of a trace promises, whatever the number of threads:    *)
(* the loop mainLoop runs with --singlethread.  Every call of the trace is *)
(* retraced once, in the order of the trace, and the process stops early   *)
(* only in retraceCall, after the last call to snapshot or to dump.        *)
(***************************************************************************)
EXTENDS Naturals, Sequences

CONSTANTS Leg,     \* the thread_ids calls may carry
          Traces   \* the traces replayed: thread_ids, one per call

VARIABLES trace,     \* the file open in the parser
          exitAt,    \* the call after which retraceCall exits, 0 for none
          replayed,  \* numbers of the calls retraced so far
          stage      \* "racing", "finished" (mainLoop's loop ended), "exited"

vars == <<trace, exitAt, replayed, stage>>

Init ==
  /\ trace \in Traces
  /\ exitAt \in 0..Len(trace)
  /\ replayed = << >>
  /\ stage = "racing"

(* parse_call returned a call: retrace it, and exit(0) if it is the last.  *)
Replay ==
  /\ stage = "racing"
  /\ Len(replayed) < Len(trace)
  /\ replayed' = Append(replayed, Len(replayed) + 1)
  /\ stage' = IF Len(replayed) + 1 = exitAt THEN "exited" ELSE stage
  /\ UNCHANGED <<trace, exitAt>>

(* parse_call returned NULL.                                               *)
Finish ==
  /\ stage = "racing"
  /\ Len(replayed) = Len(trace)
  /\ stage' = "finished"
  /\ UNCHANGED <<trace, exitAt, replayed>>

Next == Replay \/ Finish

Spec == Init /\ [][Next]_vars /\ WF_vars(Next)
=============================================================================
