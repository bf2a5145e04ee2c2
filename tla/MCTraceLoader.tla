---------------------------- MODULE MCTraceLoader ----------------------------
(* TraceLoader on traces of up to three frames.                          *)
EXTENDS TraceLoader, TLC

CONSTANTS t1, t2, draw, swap, clear

MCThread == {t1, t2}
MCFunction == {draw, swap, clear}

\* swap ends a frame.
MCEndFrame == {swap}

Enter(t, fn) == [kind |-> "enter", thread |-> t, fn |-> fn, frame |-> None]
Leave(no) == [kind |-> "leave", no |-> no, type |-> None]

\* The events with what is spelled out in them, where a function is new.
Written(events) ==
  [i \in DOMAIN events |->
     [whole |-> TRUE,
      spelled |-> IF events[i].kind = "enter" /\ ~ \E j \in 1..i - 1 :
                       events[j].kind = "enter" /\ events[j].fn = events[i].fn
                  THEN {events[i].fn} ELSE {}] @@ events[i]]

\* Calls one after the other.
Straightly(fns) ==
  Written([i \in 1..2 * Len(fns) |->
             IF i % 2 = 1 THEN Enter(t1, fns[(i + 1) \div 2]) ELSE Leave(i \div 2 - 1)])

Cut(trace) == [trace EXCEPT ![Len(trace)].whole = FALSE]

MCNumbers == {0, 4}

MCTexts == {draw, clear}

MCFiles ==
  { << >>,
    Straightly(<<draw, draw, swap, swap, clear>>),
    \* clear is left in the frame after its own, and draw never.
    Written(<<Enter(t1, clear), Enter(t2, swap), Leave(1), Leave(0), Enter(t1, draw)>>),
    \* Both threads end a frame.
    Written(<<Enter(t1, swap), Enter(t2, swap), Leave(0), Leave(1), Enter(t1, draw), Leave(2),
              Enter(t1, swap)>>),
    Cut(Written(<<Enter(t1, draw), Enter(t2, clear), Leave(0)>>)) }
=============================================================================
