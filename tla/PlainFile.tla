------------------------------ MODULE PlainFile ------------------------------
(* What trace::OutStream and trace::File promise their users: bytes come   *)
(* back in the order in which they were written.  If the writer dies the   *)
(* file may end early, but not before what has been flushed; a reader may  *)
(* go back to any place it has noted.                                      *)
EXTENDS Naturals, Sequences, SequencesExt

VARIABLES
  data,     \* the bytes of the file
  safe,     \* how many of them have been flushed
  writing,  \* whether the writer has it open
  pos,      \* the place of the reader
  got,      \* what it has read last
  marks     \* the places it has noted

vars == <<data, safe, writing, pos, got, marks>>

Init == /\ data = << >> /\ safe = 0 /\ writing = TRUE
        /\ pos = 0 /\ got = << >> /\ marks = << >>

Write ==
  /\ writing /\ IsPrefix(data, data')
  /\ UNCHANGED <<safe, writing, pos, got, marks>>

Flush ==
  /\ writing
  /\ safe' = Len(data)
  /\ UNCHANGED <<data, writing, pos, got, marks>>

Close ==
  /\ writing /\ writing' = FALSE
  /\ UNCHANGED <<data, safe, pos, got, marks>>

Crash ==
  /\ writing /\ writing' = FALSE
  /\ \E kept \in safe..Len(data) : data' = SubSeq(data, 1, kept)
  /\ UNCHANGED <<safe, pos, got, marks>>

Read ==
  /\ ~writing
  /\ pos' \in pos..Len(data)
  /\ got' = SubSeq(data, pos + 1, pos')
  /\ UNCHANGED <<data, safe, writing, marks>>

Skip ==
  /\ ~writing
  /\ pos' \in pos..Len(data)
  /\ UNCHANGED <<data, safe, writing, got, marks>>

Mark ==
  /\ ~writing
  /\ marks' = Append(marks, pos)
  /\ UNCHANGED <<data, safe, writing, pos, got>>

Seek ==
  /\ ~writing
  /\ \E i \in DOMAIN marks : pos' = marks[i]
  /\ UNCHANGED <<data, safe, writing, got, marks>>

Next == Write \/ Flush \/ Close \/ Crash \/ Read \/ Skip \/ Mark \/ Seek

Spec == Init /\ [][Next]_vars
==============================================================================
