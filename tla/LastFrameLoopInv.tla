--------------------------- MODULE LastFrameLoopInv ---------------------------
(* The inductive invariant of ParserAccess and LastFrameLoop: how the      *)
(* parser's place, tables and pending calls, the bookmarks, and the calls  *)
(* returned so far agree with the trace.                                   *)
EXTENDS LastFrameLoop

Call == [no : Nat, thread : Thread, fn : Function, complete : BOOLEAN]

Bookmark == [pos : Nat, next : Nat]

ParserState ==
  [trace : Seq(EnterEvent \cup LeaveEvent), pos : Nat, next : Nat, calls : Seq(Call),
   known : [Ids -> Nat], out : {"reading", "call", "end"}, call : Call \cup {NoCall},
   ok : BOOLEAN]

-----------------------------------------------------------------------------
(* No event before a place in the trace uses an id.                        *)
Unused(trace, id, pos) ==
  \A i \in DOMAIN trace : i < pos => id \notin Uses(trace[i])

Place(event, pos, id) ==
  IF event.kind = "enter" /\ id = event.frame THEN FrameAt(pos) ELSE FirstAt(pos)

(* The place that is noted for an id is the first at which it is used.     *)
Tables(p) ==
  \A id \in Ids : p.known[id] # 0 =>
    \E i \in DOMAIN p.trace :
      /\ id \in Uses(p.trace[i]) /\ Unused(p.trace, id, i)
      /\ p.known[id] = Place(p.trace[i], i, id) + 1

(* A place to read from: calls before it are counted, and all that is used *)
(* before it has been met.                                                 *)
Located(p, mark) ==
  /\ mark \in Bookmark /\ mark.pos \in 1..Len(p.trace) + 1
  /\ mark.next = NumberOf(p.trace, mark.pos)
  /\ \A id \in Ids : p.known[id] = 0 => Unused(p.trace, id, mark.pos)

-----------------------------------------------------------------------------
(* The calls a parser has entered since it was put at a bookmark.          *)
Entered(p, from) ==
  {i \in Enters(p.trace) : p.trace[i].whole /\ from.pos <= i /\ i < p.pos}

LeftBefore(trace, no, pos) == \E j \in Left(trace, no) : j < pos

Pending(p, from) ==
  /\ \A k \in DOMAIN p.calls :
       /\ \E i \in Entered(p, from) : p.calls[k] = CallOf(p.trace, i, TRUE)
       /\ ~LeftBefore(p.trace, p.calls[k].no, p.pos)
  /\ \A k, l \in DOMAIN p.calls : k < l => p.calls[k].no < p.calls[l].no

(* A call is returned complete where it is left, incomplete at the end.    *)
Returned(p, from, got) ==
  /\ \A k \in DOMAIN got :
       /\ \E i \in Entered(p, from) : got[k] = CallOf(p.trace, i, got[k].complete)
       /\ IF got[k].complete
            THEN \E j \in Left(p.trace, got[k].no) : j < p.pos /\ p.trace[j].whole
            ELSE p.pos > Len(p.trace) /\ Left(p.trace, got[k].no) = {}
  /\ \A k \in DOMAIN got, l \in DOMAIN p.calls :
       ~got[k].complete => got[k].no < p.calls[l].no

(* Complete calls come in the order they are left in, incomplete ones      *)
(* after them in the order they were entered in.                           *)
InOrder(trace, got) ==
  \A k, l \in DOMAIN got : k < l =>
    /\ got[l].complete =>
         /\ got[k].complete
         /\ \E i \in Left(trace, got[k].no), j \in Left(trace, got[l].no) : i < j
    /\ ~got[k].complete => got[k].no < got[l].no

(* Every call entered is pending, or has been returned, or was cut off     *)
(* where it is left.                                                       *)
Accounted(p, from, got) ==
  \A i \in Entered(p, from) :
    \/ \E k \in DOMAIN p.calls : p.calls[k].no = NumberOf(p.trace, i)
    \/ \E k \in DOMAIN got : got[k].no = NumberOf(p.trace, i)
    \/ \E j \in Left(p.trace, NumberOf(p.trace, i)) : ~p.trace[j].whole

Reading(p, from, got) ==
  /\ p \in ParserState /\ IsTrace(p.trace) /\ p.ok
  /\ Tables(p) /\ Located(p, GetBookmark(p)) /\ Located(p, from) /\ from.pos <= p.pos
  /\ Pending(p, from)
  /\ got \in Seq(Call) /\ Returned(p, from, got) /\ InOrder(p.trace, got)
  /\ Accounted(p, from, got)
  /\ p.out = "end" => p.pos > Len(p.trace) /\ p.calls = << >>

-----------------------------------------------------------------------------
ReaderInv ==
  /\ TypeOK
  /\ Reading(parser, start, returned)
  /\ \A mark \in marks : Located(parser, mark)
  /\ Located(parser, frameStart) /\ Located(parser, lastFrameStart)
  /\ asked = 0 => frameStart = Beginning /\ lastFrameStart = Beginning
=============================================================================
