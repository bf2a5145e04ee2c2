-------------------------------- MODULE Parser --------------------------------
(* trace::Parser (lib/trace/trace_parser.cpp) as operators on its state.   *)
(* parse_call reads events until a call is complete, remembering calls     *)
(* that were entered and not left, and every signature where it is first   *)
(* seen: reading again from a bookmark, it has to know whether a signature *)
(* is spelled out at that place in the file.                               *)
(*                                                                         *)
(* A trace is the sequence of events LocalWriter leaves, read back:        *)
(*   enter  thread, fn, and the stack frame of its backtrace, or None;     *)
(*   leave  no, the call, and the enum, bitmask or struct type of the      *)
(*          value returned, or None.                                       *)
(* spelled holds those of fn, frame and type that are defined in place.    *)
(* whole is FALSE in an event the end of the file cuts off, the last.      *)
(* Values are left out, and so is what differs only in them (the modes).   *)
(***************************************************************************)
EXTENDS Naturals, Sequences, SequencesExt

CONSTANTS Thread, Function, Frame, Type,
          None,      \* no frame, no type
          NoTrace    \* no file is open

Ids == Function \cup Frame \cup Type

(* Where in the file a definition would be: the first thing in an event is *)
(* its function or type, then its frame.  Only the order counts.           *)
FirstAt(pos) == 2 * pos
FrameAt(pos) == 2 * pos + 1

(* An open parser before its first call.  known keeps fileOffset, 0 for an *)
(* id whose definition has not been read; out is what parse_call is about: *)
(* still reading, or to return call, or NULL at the end.                   *)
NoCall == << >>

NewParser(trace) ==
  [ trace |-> trace, pos |-> 1, next |-> 0, calls |-> << >>,
    known |-> [id \in Ids |-> 0],
    out |-> "reading", call |-> NoCall, ok |-> TRUE ]

-----------------------------------------------------------------------------
NoBackwards(p, id, at) == FALSE         \* mutation: known is never spelled out

(* file->currentOffset() < sig->fileOffset                                 *)
Precedes(p, id, at) == at < p.known[id]

(* parse_function_sig and its like: read or skip a definition when one is  *)
(* due here.  ok is whether the file has one just then.                    *)
ParseSig(p, event, id, at) ==
  IF id = None THEN p ELSE
  LET due == p.known[id] = 0 \/ Precedes(p, id, at) IN
  [p EXCEPT !.known[id] = IF @ = 0 THEN at + 1 ELSE @,
            !.ok = @ /\ (due <=> id \in event.spelled)]

(* A call the file cuts off is dropped, but has its number.                *)
ParseEnter(p, event) ==
  LET q == ParseSig(ParseSig(p, event, event.fn, FirstAt(p.pos)),
                    event, event.frame, FrameAt(p.pos))
      call == [no |-> p.next, thread |-> event.thread, fn |-> event.fn,
               complete |-> TRUE] IN
  [q EXCEPT !.pos = @ + 1,
            !.next = @ + 1,
            !.calls = IF event.whole THEN Append(@, call) ELSE @]

(* The call may have been entered before the place reading began: then its *)
(* leave is skipped.  One the file cuts off in its leave is dropped.       *)
ParseLeave(p, event) ==
  LET q == [ParseSig(p, event, event.type, FirstAt(p.pos)) EXCEPT !.pos = @ + 1]
      own == {k \in DOMAIN p.calls : p.calls[k].no = event.no}
      it == CHOOSE k \in own : \A j \in own : k <= j IN
  IF own = {} THEN q
  ELSE IF event.whole
    THEN [q EXCEPT !.calls = RemoveAt(@, it), !.out = "call", !.call = p.calls[it]]
    ELSE [q EXCEPT !.calls = RemoveAt(@, it)]

(* At the end come the calls that were never left, then NULL.              *)
ParseEnd(p) ==
  IF p.calls = << >>
    THEN [p EXCEPT !.out = "end"]
    ELSE [p EXCEPT !.out = "call",
                   !.call = [Head(p.calls) EXCEPT !.complete = FALSE],
                   !.calls = Tail(@)]

(* One turn of the loop in parse_call; nothing once it has returned.       *)
ParseEvent(p) ==
  IF p.out # "reading" THEN p
  ELSE IF p.pos > Len(p.trace) THEN ParseEnd(p)
  ELSE IF p.trace[p.pos].kind = "enter" THEN ParseEnter(p, p.trace[p.pos])
  ELSE ParseLeave(p, p.trace[p.pos])

ParseCall(p) ==
  LET After[n \in 0..Len(p.trace) + 1] ==
        IF n = 0 THEN [p EXCEPT !.out = "reading"] ELSE ParseEvent(After[n - 1])
  IN After[Len(p.trace) + 1]

-----------------------------------------------------------------------------
GetBookmark(p) == [pos |-> p.pos, next |-> p.next]

KeptNumber(p, mark) ==                  \* mutation: next_call_no not restored
  [p EXCEPT !.pos = mark.pos, !.calls = << >>, !.out = "reading"]

SetBookmark(p, mark) ==
  [p EXCEPT !.pos = mark.pos, !.next = mark.next, !.calls = << >>, !.out = "reading"]

(* close deletes every table but that of the stack frames.                 *)
Close(p) ==
  [p EXCEPT !.trace = NoTrace, !.next = 0, !.calls = << >>, !.out = "reading",
            !.known = [id \in Ids |-> IF id \in Frame THEN @[id] ELSE 0]]

Open(p, trace) == [p EXCEPT !.trace = trace, !.pos = 1]
=============================================================================
