----------------------------- MODULE ParserAccess -----------------------------
(* A client of trace::Parser that reads a trace in any order: it parses    *)
(* calls, takes bookmarks, goes back to them, and may open another trace   *)
(* with the same parser, as gui/traceloader.cpp and the replay of frames   *)
(* in retrace/daemon do.                                                   *)
EXTENDS Parser, FiniteSets

CONSTANTS Traces,      \* traces that may be opened
          Later,       \* those that may be opened after another
          AfterFrames  \* also after one whose stack frames have been read

(* What LocalWriter shows about traces: the enter events are the calls,    *)
(* numbered as they come; a call is left once, after it was entered; an id *)
(* is defined where it is first used; only the last event may be cut off.  *)
Enters(trace) == {i \in DOMAIN trace : trace[i].kind = "enter"}

NumberOf(trace, i) == Cardinality({j \in Enters(trace) : j < i})

Left(trace, no) == {i \in DOMAIN trace : trace[i].kind = "leave" /\ trace[i].no = no}

EnterEvent ==
  [kind : {"enter"}, thread : Thread, fn : Function, frame : Frame \cup {None},
   spelled : SUBSET Ids, whole : BOOLEAN]

LeaveEvent ==
  [kind : {"leave"}, no : Nat, type : Type \cup {None},
   spelled : SUBSET Ids, whole : BOOLEAN]

Uses(event) ==
  (IF event.kind = "enter" THEN {event.fn, event.frame} ELSE {event.type}) \ {None}

IsTrace(trace) ==
  /\ trace \in Seq(EnterEvent \cup LeaveEvent)
  /\ \A i \in DOMAIN trace :
       trace[i].spelled = {id \in Uses(trace[i]) : \A j \in 1..(i - 1) : id \notin Uses(trace[j])}
  /\ \A i \in DOMAIN trace : trace[i].kind = "leave" =>
       trace[i].no < NumberOf(trace, i) /\ Left(trace, trace[i].no) = {i}
  /\ \A i \in DOMAIN trace : ~trace[i].whole => i = Len(trace)

ASSUME IdsAssumption ==
  /\ None \notin Ids
  /\ Function \cap Frame = {} /\ Function \cap Type = {} /\ Frame \cap Type = {}
ASSUME TracesAssumption == \A trace \in Traces \cup Later : IsTrace(trace)

VARIABLES
  parser,    \* the state of the parser
  marks,     \* bookmarks taken in this trace
  start,     \* history: the bookmark reading began at
  returned   \* history: calls returned since

vars == <<parser, marks, start, returned>>

Beginning == [pos |-> 1, next |-> 0]

Init ==
  /\ \E trace \in Traces : parser = NewParser(trace)
  /\ marks = {}
  /\ start = Beginning
  /\ returned = << >>

Parse ==
  /\ parser.ok
  /\ parser.out # "end"
  /\ parser' = ParseCall(parser)
  /\ returned' = IF parser'.out = "end" THEN returned
                                            ELSE Append(returned, parser'.call)
  /\ UNCHANGED <<marks, start>>

Mark ==
  /\ marks' = marks \cup {GetBookmark(parser)}
  /\ UNCHANGED <<parser, start, returned>>

Seek ==
  \E mark \in marks :
    /\ parser.ok
    /\ parser' = SetBookmark(parser, mark)
    /\ start' = mark
    /\ returned' = << >>
    /\ UNCHANGED marks

Reopen ==
  \E trace \in Later :
    /\ parser.ok
    /\ AfterFrames \/ \A frame \in Frame : parser.known[frame] = 0
    /\ parser' = Open(Close(parser), trace)
    /\ marks' = {}
    /\ start' = Beginning
    /\ returned' = << >>

Next == Parse \/ Mark \/ Seek \/ Reopen

Spec == Init /\ [][Next]_vars

-----------------------------------------------------------------------------
TypeOK ==
  /\ parser.pos \in 1..Len(parser.trace) + 1
  /\ parser.next \in 0..Len(parser.trace)
  /\ DOMAIN parser.known = Ids
  /\ \A id \in Ids : parser.known[id] \in Nat
  /\ marks \subseteq [pos : Nat, next : Nat]

(* A definition is read or skipped exactly where the file has one,         *)
(* wherever reading began and whatever had been read before: the comment   *)
(* on fileOffset, trace_parser.hpp:83.                                     *)
NeverMisparses == parser.ok

CallOf(trace, i, complete) ==
  [no |-> NumberOf(trace, i), thread |-> trace[i].thread,
   fn |-> trace[i].fn, complete |-> complete]

Complete(trace, i) == \E j \in Left(trace, NumberOf(trace, i)) : trace[j].whole
CutOff(trace, i) == \E j \in Left(trace, NumberOf(trace, i)) : ~trace[j].whole

Whole(trace, i) == CallOf(trace, i, Complete(trace, i))

(* The calls a reader that begins at a bookmark gets: those entered from   *)
(* there on, but for one the file cuts off.                                *)
Calls(trace, mark) ==
  {i \in Enters(trace) : i >= mark.pos /\ trace[i].whole /\ ~CutOff(trace, i)}

(* It gets complete calls where they are left, the others at the end.      *)
Before(trace, i, j) ==
  IF Complete(trace, j)
    THEN \E k \in Left(trace, NumberOf(trace, i)), l \in Left(trace, NumberOf(trace, j)) : k < l
    ELSE Complete(trace, i) \/ i < j

(* Random access returns what sequential reading does: from a bookmark on, *)
(* each call once, after those that come before it and no other, with its  *)
(* own number, thread and function, and at the end none is missing; and it *)
(* never misparses: no definition is missed or read twice.                 *)
ReadsTheTrace ==
  LET trace == parser.trace
      calls == Calls(trace, start) IN
  /\ NeverMisparses
  /\ \A k \in DOMAIN returned : \E i \in calls :
       /\ returned[k] = Whole(trace, i)
       /\ \A j \in calls :
            Before(trace, j, i) <=> \E l \in 1..(k - 1) : returned[l] = Whole(trace, j)
  /\ parser.out = "end" =>
       \A i \in calls : \E k \in DOMAIN returned : returned[k] = Whole(trace, i)
=============================================================================
