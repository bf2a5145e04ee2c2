----------------------------- MODULE LastFrameLoop -----------------------------
(* LastFrameLoopParser (lib/trace/trace_parser_loop.cpp), which the        *)
(* retracer puts around its parser for --loop: when the trace is over it   *)
(* goes back to the start of the last frame, a number of times or for      *)
(* ever.  Without it (asked = 0) the parser has the client ParserAccess.   *)
EXTENDS ParserAccess, Integers

CONSTANTS EndFrame,    \* functions that have CALL_FLAG_END_FRAME
          LoopCounts   \* how many loops may be asked for, -1 for no end

ASSUME EndFrameAssumption == EndFrame \subseteq Function
ASSUME LoopCountsAssumption == LoopCounts \subseteq Int

VARIABLES
  loopCount,
  frameStart, lastFrameStart,   \* bookmarks
  asked,                        \* the value of loopCount to begin with
  passes                        \* history: loops begun, up to the number asked

loop == <<loopCount, frameStart, lastFrameStart>>
loopVars == <<vars, loop, asked, passes>>

LoopInit ==
  /\ Init
  /\ asked \in LoopCounts
  /\ loopCount = asked /\ passes = 0
  /\ frameStart = Beginning /\ lastFrameStart = Beginning

EndsFrame(call) == call.fn \in EndFrame

(* Where the frame began that the call just returned is in.                *)
StartOfFrame(p) == IF EndsFrame(p.call) THEN GetBookmark(p) ELSE frameStart

StartAtOnce(p) == StartOfFrame(p)       \* mutation: not one call behind

StartOfLast(p) == frameStart

Forwards ==
  LET p == ParseCall(parser) IN
  /\ asked # 0 /\ parser.out # "end" /\ parser.ok
  /\ p.out = "call"
  /\ parser' = p
  /\ returned' = Append(returned, p.call)
  /\ lastFrameStart' = StartOfLast(p)
  /\ frameStart' = StartOfFrame(p)
  /\ UNCHANGED <<marks, start, loopCount, asked, passes>>

Pass(count) == IF count > 0 THEN count - 1 ELSE count

(* The call after the jump is returned as it comes.                        *)
Restart ==
  LET p == ParseCall(parser)
      q == ParseCall(SetBookmark(p, lastFrameStart)) IN
  /\ asked # 0 /\ parser.out # "end" /\ parser.ok
  /\ p.out = "end" /\ loopCount # 0
  /\ parser' = q
  /\ start' = lastFrameStart
  /\ returned' = IF q.out = "call" THEN <<q.call>> ELSE << >>
  /\ frameStart' = lastFrameStart
  /\ loopCount' = Pass(loopCount)
  /\ passes' = IF asked > 0 THEN passes + 1 ELSE 1
  /\ UNCHANGED <<marks, lastFrameStart, asked>>

Over ==
  LET p == ParseCall(parser) IN
  /\ asked # 0 /\ parser.out # "end" /\ parser.ok
  /\ p.out = "end" /\ loopCount = 0
  /\ parser' = p
  /\ UNCHANGED <<marks, start, returned, loop, asked, passes>>

LoopNext ==
  \/ asked = 0 /\ Next /\ UNCHANGED <<loop, asked, passes>>
  \/ Forwards \/ Restart \/ Over

LoopSpec == LoopInit /\ [][LoopNext]_loopVars

-----------------------------------------------------------------------------
(* Calls of one thread after another: none is entered before the last one  *)
(* is left.                                                                *)
Straight(trace) ==
  \A i \in DOMAIN trace : trace[i].kind = "enter" /\ i < Len(trace)
                            => trace[i + 1].kind = "leave"

(* The calls of a trace as they are read, from a bookmark on: complete ones *)
(* where they are left, the others at the end.                              *)
Expected(trace, mark) ==
  LET calls == Calls(trace, mark)
      EnterOf(i) == CHOOSE j \in Enters(trace) : NumberOf(trace, j) = trace[i].no
      leaves == SelectSeq([i \in DOMAIN trace |-> i], LAMBDA i :
                  trace[i].kind = "leave" /\ EnterOf(i) \in calls)
      pending == SelectSeq([i \in DOMAIN trace |-> i], LAMBDA i :
                  i \in calls /\ ~Complete(trace, i))
  IN [k \in DOMAIN leaves |-> Whole(trace, EnterOf(leaves[k]))]
       \o [k \in DOMAIN pending |-> Whole(trace, pending[k])]

LastOf(S) == CHOOSE k \in S : \A j \in S : j <= k

(* "loop N times (N<0 continuously) replaying final frame", the help text  *)
(* of --loop: of a trace whose calls do not overlap every pass returns the *)
(* calls after the last end of a frame that has calls behind it, be they a *)
(* frame or the beginning of one, and there are as many passes as asked.   *)
RepeatsTheLastFrame ==
  LET all == Expected(parser.trace, Beginning)
      ends == {k \in DOMAIN all : k < Len(all) /\ EndsFrame(all[k])}
      final == SubSeq(all, LastOf(ends \cup {0}) + 1, Len(all)) IN
  asked # 0 /\ Straight(parser.trace) /\ all # << >> =>
    /\ passes > 0 => returned = SubSeq(final, 1, Len(returned))
    /\ asked > 0 => passes <= asked
    /\ parser.out = "end" => passes = asked
=============================================================================
