-------------------------- MODULE LastFrameLoopProofs --------------------------
(* Reading a trace in any order returns each call once: proofs about       *)
(* Parser, ParserAccess and LastFrameLoop, for all traces that are well    *)
(* formed and any sequence of bookmarks, jumps and loops.                  *)
EXTENDS LastFrameLoopInv, FiniteSetTheorems, SequenceTheorems,
        WellFoundedInduction, TLAPS

(* Induction, for a set of natural numbers.                                *)
LEMMA NumbersByInduction ==
  ASSUME NEW S, 0 \in S, \A n \in Nat : n \in S => n + 1 \in S
  PROVE  Nat \subseteq S
<1> DEFINE missing == Nat \ S
           less == OpToRel(<, Nat)
<1>1. IsWellFoundedOn(less, Nat)
  BY NatLessThanWellFounded
<1>2. ASSUME missing # {} PROVE FALSE
  <2>1. PICK x \in missing : \A y \in missing : <<y, x>> \notin less
    <3> HIDE DEF less
    <3> QED BY <1>1, <1>2, WFMin
  <2>2. \A y \in missing : ~(y < x)
    BY <2>1 DEF OpToRel
  <2>3. x - 1 \in Nat /\ x - 1 < x /\ x - 1 + 1 = x
    OBVIOUS
  <2>4. QED
    BY <2>2, <2>3
<1>3. QED
  BY <1>2

-----------------------------------------------------------------------------
(* Numbers of calls.                                                       *)
Event == EnterEvent \cup LeaveEvent

LEMMA EntersBelow ==
  ASSUME NEW trace \in Seq(Event), NEW i \in Nat
  PROVE  LET S == {j \in Enters(trace) : j < i}
         IN  S \subseteq 1..Len(trace) /\ IsFiniteSet(S)
<1> DEFINE S == {j \in Enters(trace) : j < i}
<1>1. S \subseteq 1..Len(trace) /\ Len(trace) \in Nat
  BY DEF Enters
<1>2. IsFiniteSet(1..Len(trace))
  BY <1>1, FS_Interval
<1>3. IsFiniteSet(S)
  BY <1>1, <1>2, FS_Subset
<1>4. QED
  BY <1>1, <1>3

LEMMA NumberType ==
  ASSUME NEW trace \in Seq(Event), NEW i \in Nat
  PROVE  NumberOf(trace, i) \in 0..Len(trace)
<1> DEFINE S == {j \in Enters(trace) : j < i}
<1>1. S \subseteq 1..Len(trace) /\ IsFiniteSet(S) /\ Len(trace) \in Nat
  BY EntersBelow
<1> HIDE DEF S
<1>2. IsFiniteSet(1..Len(trace)) /\ Cardinality(1..Len(trace)) = Len(trace)
  <2>1. \A a, b \in Int : IsFiniteSet(a..b)
              /\ Cardinality(a..b) = IF a > b THEN 0 ELSE b - a + 1
    BY FS_Interval
  <2>2. QED
    BY <1>1, <2>1, SMTT(30)
<1>3. Cardinality(S) \in Nat /\ Cardinality(S) <= Len(trace)
  BY <1>1, <1>2, FS_Subset, FS_CardinalityType
<1>4. QED
  BY <1>1, <1>3 DEF S, NumberOf

LEMMA NumberFirst ==
  ASSUME NEW trace \in Seq(Event)
  PROVE  NumberOf(trace, 1) = 0
<1>1. {j \in Enters(trace) : j < 1} = {}
  BY DEF Enters
<1>2. QED
  BY <1>1, FS_EmptySet DEF NumberOf

LEMMA NumberNext ==
  ASSUME NEW trace \in Seq(Event), NEW i \in DOMAIN trace
  PROVE  NumberOf(trace, i + 1)
           = NumberOf(trace, i) + (IF trace[i].kind = "enter" THEN 1 ELSE 0)
<1> DEFINE S == {j \in Enters(trace) : j < i}
           T == {j \in Enters(trace) : j < i + 1}
<1>1. IsFiniteSet(S) /\ i \in Nat
  BY EntersBelow
<1>2. i \notin S
  BY <1>1
<1>3. CASE trace[i].kind = "enter"
  <2>1. T = S \cup {i}
    BY <1>1, <1>3 DEF Enters
  <2> HIDE DEF S, T
  <2>2. Cardinality(T) = Cardinality(S) + 1
    BY <1>1, <1>2, <2>1, FS_AddElement
  <2>3. QED
    BY <1>3, <2>2 DEF S, T, NumberOf
<1>4. CASE trace[i].kind # "enter"
  <2>1. T = S
    BY <1>1, <1>4 DEF Enters
  <2>2. NumberOf(trace, i) \in Nat
    BY <1>1, NumberType
  <2>3. NumberOf(trace, i + 1) = NumberOf(trace, i)
    BY <2>1 DEF NumberOf
  <2>4. QED
    BY <1>4, <2>2, <2>3
<1>5. QED
  BY <1>3, <1>4

LEMMA NumberGrows ==
  ASSUME NEW trace \in Seq(Event), NEW i \in Nat, NEW j \in Nat, i <= j
  PROVE  /\ NumberOf(trace, i) <= NumberOf(trace, j)
         /\ i \in Enters(trace) /\ i < j => NumberOf(trace, i) < NumberOf(trace, j)
<1> DEFINE S == {k \in Enters(trace) : k < i}
           T == {k \in Enters(trace) : k < j}
<1>1. IsFiniteSet(S) /\ IsFiniteSet(T) /\ S \subseteq T
  BY EntersBelow DEF Enters
<1>2. i \in Enters(trace) /\ i < j => i \in T /\ i \notin S
  OBVIOUS
<1> HIDE DEF S, T
<1>3. Cardinality(S) <= Cardinality(T) /\ (S # T => Cardinality(S) < Cardinality(T))
  BY <1>1, FS_Subset, FS_CardinalityType
<1>4. QED
  BY <1>2, <1>3 DEF S, T, NumberOf

(* No two calls have the same number.                                      *)
LEMMA NumberUnique ==
  ASSUME NEW trace \in Seq(Event), NEW i \in Enters(trace), NEW j \in Enters(trace),
         NumberOf(trace, i) = NumberOf(trace, j)
  PROVE  i = j
<1>1. i \in Nat /\ j \in Nat
  BY DEF Enters
<1>2. NumberOf(trace, i) \in Int /\ NumberOf(trace, j) \in Int
  BY <1>1, NumberType
<1>3. ~(i < j) /\ ~(j < i)
  BY <1>1, <1>2, NumberGrows
<1>4. QED
  BY <1>1, <1>3

-----------------------------------------------------------------------------
(* Tables of signatures.                                                   *)
LEMMA TraceTypes ==
  ASSUME NEW trace, IsTrace(trace)
  PROVE  /\ trace \in Seq(Event) /\ DOMAIN trace = 1..Len(trace) /\ Len(trace) \in Nat
         /\ \A i \in DOMAIN trace : trace[i] \in Event
  BY DEF IsTrace, Event

(* What an event uses, and where its definition would be.                  *)
LEMMA UsesOf ==
  ASSUME NEW event \in Event
  PROVE  /\ Uses(event) \subseteq Ids
         /\ event.kind = "enter" =>
              /\ event \in EnterEvent
              /\ Uses(event) = {event.fn, event.frame} \ {None}
              /\ event.fn \in Ids /\ event.fn # None /\ event.fn # event.frame
              /\ event.frame # None => event.frame \in Ids
         /\ event.kind # "enter" =>
              /\ event \in LeaveEvent /\ event.kind = "leave"
              /\ Uses(event) = {event.type} \ {None}
              /\ event.type # None => event.type \in Ids
<1>1. CASE event \in EnterEvent
  <2>1. event.kind = "enter" /\ event.fn \in Function /\ event.frame \in Frame \cup {None}
    BY <1>1 DEF EnterEvent
  <2>2. event.fn # event.frame
    BY <2>1, IdsAssumption DEF Ids
  <2>3. QED
    BY <1>1, <2>1, <2>2, IdsAssumption DEF Uses, Ids
<1>2. CASE event \in LeaveEvent
  <2>1. event.kind = "leave" /\ event.type \in Type \cup {None}
    BY <1>2 DEF LeaveEvent
  <2>2. QED
    BY <1>2, <2>1, IdsAssumption DEF Uses, Ids
<1>3. QED
  BY <1>1, <1>2 DEF Event

(* Nothing but the tables changes when a signature is read.                *)
OnlyKnown(p, q) ==
  /\ q.trace = p.trace /\ q.pos = p.pos /\ q.next = p.next /\ q.calls = p.calls
  /\ q.out = p.out /\ q.call = p.call
  /\ \A id \in Ids : p.known[id] # 0 => q.known[id] = p.known[id]

(* A definition is spelled out where, and only where, it is first used.    *)
LEMMA SpelledFirst ==
  ASSUME NEW trace, IsTrace(trace), NEW i \in DOMAIN trace,
         NEW id \in Uses(trace[i])
  PROVE  id \in trace[i].spelled <=> Unused(trace, id, i)
<1>1. trace[i].spelled
        = {x \in Uses(trace[i]) : \A j \in 1..(i - 1) : x \notin Uses(trace[j])}
  BY DEF IsTrace
<1>2. Unused(trace, id, i) <=> \A j \in 1..(i - 1) : id \notin Uses(trace[j])
  BY TraceTypes DEF Unused
<1>3. QED
  BY <1>1, <1>2

(* The first place that uses an id comes before any other.                 *)
LEMMA PlacesOrdered ==
  ASSUME NEW trace, IsTrace(trace), NEW i \in DOMAIN trace, NEW j \in DOMAIN trace,
         NEW id \in Uses(trace[i]), id \in Uses(trace[j]), Unused(trace, id, i)
  PROVE  /\ Place(trace[i], i, id) \in Nat /\ Place(trace[j], j, id) \in Nat
         /\ Place(trace[j], j, id) < Place(trace[i], i, id) + 1 <=> i = j
         /\ i = j <=> Unused(trace, id, j)
<1>1. i \in Nat /\ j \in Nat /\ ~(j < i)
  BY TraceTypes DEF Unused
<1>2. i = j <=> Unused(trace, id, j)
  BY <1>1 DEF Unused
<1>3. /\ Place(trace[i], i, id) \in {2 * i, 2 * i + 1}
      /\ Place(trace[j], j, id) \in {2 * j, 2 * j + 1}
  BY DEF Place, FirstAt, FrameAt
<1>4. QED
  BY <1>1, <1>2, <1>3

LEMMA SigEffect ==
  ASSUME NEW p \in ParserState, IsTrace(p.trace), p.ok, Tables(p),
         p.pos \in DOMAIN p.trace,
         \A id \in Ids : p.known[id] = 0 => Unused(p.trace, id, p.pos),
         NEW id \in Uses(p.trace[p.pos]), NEW at, at = Place(p.trace[p.pos], p.pos, id)
  PROVE  LET q == ParseSig(p, p.trace[p.pos], id, at) IN
         /\ q \in ParserState /\ OnlyKnown(p, q) /\ q.ok /\ Tables(q) /\ q.known[id] # 0
<1> DEFINE trace == p.trace
           event == trace[p.pos]
           q == ParseSig(p, event, id, at)
           due == p.known[id] = 0 \/ Precedes(p, id, at)
<1>1. /\ id \in Ids /\ id # None /\ p.pos \in Nat
      /\ p.known \in [Ids -> Nat] /\ p.ok \in BOOLEAN
  <2>1. event \in Event
    BY TraceTypes
  <2>2. QED
    BY <2>1, UsesOf, IdsAssumption DEF ParserState
<1>2. at \in Nat
  BY <1>1 DEF Place, FirstAt, FrameAt
<1>3. /\ id \in event.spelled <=> Unused(trace, id, p.pos)
  BY SpelledFirst
<1>4. due <=> Unused(trace, id, p.pos)
  <2>1. CASE p.known[id] = 0
    BY <1>1, <2>1
  <2>2. CASE p.known[id] # 0
    <3>1. PICK i \in DOMAIN trace :
            /\ id \in Uses(trace[i]) /\ Unused(trace, id, i)
            /\ p.known[id] = Place(trace[i], i, id) + 1
      BY <1>1, <2>2 DEF Tables
    <3>2. at < p.known[id] <=> Unused(trace, id, p.pos)
      BY <3>1, PlacesOrdered
    <3>3. QED
      BY <2>2, <3>2 DEF Precedes
  <2>3. QED
    BY <2>1, <2>2
<1>5. q = [p EXCEPT !.known[id] = IF @ = 0 THEN at + 1 ELSE @,
                    !.ok = @ /\ (due <=> id \in event.spelled)]
  BY <1>1 DEF ParseSig
<1> DEFINE known == [p.known EXCEPT ![id] = IF @ = 0 THEN at + 1 ELSE @]
<1>6. q = [p EXCEPT !.known = known, !.ok = TRUE]
  <2>1. (p.ok /\ (due <=> id \in event.spelled)) = TRUE
    BY <1>3, <1>4
  <2> HIDE DEF due
  <2>2. QED
    BY <1>5, <2>1
<1> HIDE DEF q
<1>7. /\ known \in [Ids -> Nat] /\ known[id] # 0
      /\ \A x \in Ids : x # id \/ p.known[id] # 0 => known[x] = p.known[x]
      /\ p.known[id] = 0 => known[id] = at + 1
  BY <1>1, <1>2
<1> HIDE DEF known
<1>8. /\ q \in ParserState /\ q.known = known /\ q.ok
      /\ q.trace = p.trace /\ q.pos = p.pos /\ q.next = p.next /\ q.calls = p.calls
      /\ q.out = p.out /\ q.call = p.call
  BY <1>6, <1>7 DEF ParserState
<1>9. OnlyKnown(p, q)
  BY <1>7, <1>8 DEF OnlyKnown
<1>10. Tables(q)
  <2>1. SUFFICES ASSUME NEW x \in Ids, known[x] # 0
                 PROVE  \E i \in DOMAIN trace :
                          /\ x \in Uses(trace[i]) /\ Unused(trace, x, i)
                          /\ known[x] = Place(trace[i], i, x) + 1
    BY <1>8 DEF Tables
  <2>2. CASE x # id \/ p.known[id] # 0
    BY <1>7, <2>1, <2>2 DEF Tables
  <2>3. CASE x = id /\ p.known[id] = 0
    BY <1>1, <1>7, <2>3
  <2>4. QED
    BY <2>2, <2>3
<1>11. QED
  BY <1>7, <1>8, <1>9, <1>10 DEF q

(* What was a place to read from stays one.                                *)
Knows(p, q) ==
  /\ q.trace = p.trace
  /\ \A id \in Ids : p.known[id] # 0 => q.known[id] = p.known[id]

LEMMA LocatedKept ==
  ASSUME NEW p, NEW q, Knows(p, q), NEW mark, Located(p, mark)
  PROVE  Located(q, mark)
<1>1. \A id \in Ids : q.known[id] = 0 => p.known[id] = 0
  BY DEF Knows
<1>2. QED
  BY <1>1 DEF Located, Knows

LEMMA KnowsTransitive ==
  ASSUME NEW p, NEW q, NEW r, Knows(p, q), Knows(q, r)
  PROVE  Knows(p, r)
<1>1. \A id \in Ids : p.known[id] # 0 => q.known[id] = p.known[id]
  BY DEF Knows
<1>2. \A id \in Ids : q.known[id] # 0 => r.known[id] = q.known[id]
  BY DEF Knows
<1>3. QED
  BY <1>1, <1>2 DEF Knows

(* A parser that is at an event, and has read what there is before it.     *)
AtEvent(p) ==
  /\ p \in ParserState /\ IsTrace(p.trace) /\ p.ok /\ Tables(p)
  /\ Located(p, GetBookmark(p)) /\ p.pos \in DOMAIN p.trace

(* The tables and the place behind an event that has been read.            *)
Behind(p, q) ==
  /\ q \in ParserState /\ q.ok /\ Tables(q) /\ Knows(p, q)
  /\ Located(q, GetBookmark(q)) /\ q.pos = p.pos + 1

LEMMA BehindEvent ==
  ASSUME NEW p, AtEvent(p), NEW q \in ParserState, q.ok, Tables(q), Knows(p, q),
         q.pos = p.pos + 1,
         q.next = p.next + (IF p.trace[p.pos].kind = "enter" THEN 1 ELSE 0),
         \A id \in Uses(p.trace[p.pos]) : q.known[id] # 0
  PROVE  Behind(p, q)
<1> DEFINE trace == p.trace
<1>1. /\ trace \in Seq(Event) /\ DOMAIN trace = 1..Len(trace) /\ Len(trace) \in Nat
      /\ p.pos \in 1..Len(trace) /\ q.trace = trace /\ q.pos \in Nat /\ q.next \in Nat
  BY TraceTypes DEF AtEvent, Knows, ParserState
<1>2. /\ p.next = NumberOf(trace, p.pos)
      /\ \A id \in Ids : p.known[id] = 0 => Unused(trace, id, p.pos)
  BY DEF AtEvent, Located, GetBookmark
<1>3. q.next = NumberOf(trace, q.pos)
  BY <1>1, <1>2, NumberNext
<1>4. ASSUME NEW id \in Ids, q.known[id] = 0
      PROVE  Unused(trace, id, q.pos)
  <2>1. p.known[id] = 0
    BY <1>4 DEF Knows
  <2>2. id \notin Uses(trace[p.pos])
    BY <1>4
  <2>3. \A i \in DOMAIN trace : i < q.pos => i < p.pos \/ i = p.pos
    BY <1>1
  <2>4. QED
    BY <1>2, <2>1, <2>2, <2>3 DEF Unused
<1>5. GetBookmark(q) \in Bookmark /\ q.pos \in 1..Len(trace) + 1
  BY <1>1 DEF GetBookmark, Bookmark
<1>6. Located(q, GetBookmark(q))
  BY <1>1, <1>3, <1>4, <1>5 DEF Located, GetBookmark
<1>7. QED
  BY <1>6 DEF Behind

LEMMA AtEventFacts ==
  ASSUME NEW p, AtEvent(p)
  PROVE  /\ p \in ParserState /\ IsTrace(p.trace) /\ p.ok /\ Tables(p)
         /\ p.pos \in DOMAIN p.trace /\ p.pos \in Nat /\ p.next \in Nat
         /\ p.calls \in Seq(Call)
         /\ \A id \in Ids : p.known[id] = 0 => Unused(p.trace, id, p.pos)
         /\ p.trace[p.pos] \in Event /\ p.next = NumberOf(p.trace, p.pos)
<1>1. p.trace[p.pos] \in Event
  BY TraceTypes DEF AtEvent
<1>2. QED
  BY <1>1 DEF AtEvent, ParserState, Located, GetBookmark

LEMMA EnterEffect ==
  ASSUME NEW p, AtEvent(p), p.trace[p.pos].kind = "enter"
  PROVE  LET event == p.trace[p.pos]
             q == ParseEnter(p, event) IN
         /\ Behind(p, q) /\ q.out = p.out /\ q.call = p.call
         /\ q.calls = IF event.whole THEN Append(p.calls, CallOf(p.trace, p.pos, TRUE))
                                     ELSE p.calls
<1> DEFINE trace == p.trace
           event == trace[p.pos]
           a == ParseSig(p, event, event.fn, FirstAt(p.pos))
           b == ParseSig(a, event, event.frame, FrameAt(p.pos))
           call == [no |-> p.next, thread |-> event.thread, fn |-> event.fn,
                    complete |-> TRUE]
           q == ParseEnter(p, event)
<1>1. /\ event \in EnterEvent /\ event.fn \in Uses(event) /\ event.fn \in Ids
      /\ event.fn # event.frame
      /\ event.frame # None => event.frame \in Uses(event)
      /\ Uses(event) = {event.fn, event.frame} \ {None} /\ Uses(event) \subseteq Ids
  BY AtEventFacts, UsesOf
<1>2. /\ a \in ParserState /\ OnlyKnown(p, a) /\ a.ok /\ Tables(a)
      /\ a.known[event.fn] # 0
  <2>1. FirstAt(p.pos) = Place(event, p.pos, event.fn)
    BY <1>1 DEF Place
  <2>2. QED
    BY <1>1, <2>1, AtEventFacts, SigEffect, ZenonT(30)
<1> HIDE DEF a
<1>3. /\ b \in ParserState /\ OnlyKnown(a, b) /\ b.ok /\ Tables(b)
      /\ event.frame # None => b.known[event.frame] # 0
  <2>1. CASE event.frame = None
    BY <1>2, <2>1 DEF ParseSig, OnlyKnown
  <2>2. CASE event.frame # None
    <3>1. FrameAt(p.pos) = Place(event, p.pos, event.frame)
      BY <1>1, AtEventFacts DEF Place
    <3>2. /\ a.trace = trace /\ a.pos = p.pos
          /\ \A id \in Ids : a.known[id] = 0 => Unused(trace, id, p.pos)
      <4>1. \A id \in Ids : a.known[id] = 0 => p.known[id] = 0
        BY <1>2 DEF OnlyKnown
      <4>2. QED
        BY <1>2, <4>1, AtEventFacts DEF OnlyKnown
    <3>3. /\ a.pos \in DOMAIN a.trace /\ IsTrace(a.trace)
          /\ \A id \in Ids : a.known[id] = 0 => Unused(a.trace, id, a.pos)
          /\ event.frame \in Uses(a.trace[a.pos])
          /\ FrameAt(p.pos) = Place(a.trace[a.pos], a.pos, event.frame)
      BY <1>1, <2>2, <3>1, <3>2, AtEventFacts
    <3> DEFINE c == ParseSig(a, a.trace[a.pos], event.frame, FrameAt(p.pos))
    <3>4. /\ c \in ParserState /\ OnlyKnown(a, c) /\ c.ok /\ Tables(c)
          /\ c.known[event.frame] # 0
      BY <1>2, <3>3, SigEffect
    <3>5. c = b
      BY <3>2 DEF b
    <3>6. QED
      BY <3>4, <3>5
  <2>3. QED
    BY <2>1, <2>2
<1> HIDE DEF b
<1>4. /\ b.trace = trace /\ b.pos = p.pos /\ b.next = p.next /\ b.calls = p.calls
      /\ b.out = p.out /\ b.call = p.call
      /\ \A id \in Ids : p.known[id] # 0 => b.known[id] = p.known[id]
      /\ \A id \in Uses(event) : b.known[id] # 0
  <2>1. \A id \in Ids : p.known[id] # 0 => b.known[id] = p.known[id]
    <3>1. \A id \in Ids : p.known[id] # 0 => a.known[id] = p.known[id]
      BY <1>2 DEF OnlyKnown
    <3>2. \A id \in Ids : a.known[id] # 0 => b.known[id] = a.known[id]
      BY <1>3 DEF OnlyKnown
    <3>3. QED
      BY <3>1, <3>2
  <2>2. b.known[event.fn] # 0
    BY <1>1, <1>2, <1>3 DEF OnlyKnown
  <2>3. QED
    BY <1>1, <1>2, <1>3, <2>1, <2>2 DEF OnlyKnown
<1>5. q = [b EXCEPT !.pos = @ + 1, !.next = @ + 1,
                    !.calls = IF event.whole THEN Append(@, call) ELSE @]
  BY DEF ParseEnter, a, b
<1>6. call \in Call /\ call = CallOf(trace, p.pos, TRUE)
  BY <1>1, AtEventFacts DEF Call, CallOf, EnterEvent
<1> HIDE DEF call, q
<1>7. event.whole \in BOOLEAN
  BY <1>1 DEF EnterEvent
<1>8. /\ q \in ParserState /\ q.ok /\ q.known = b.known /\ q.trace = trace
      /\ q.pos = p.pos + 1 /\ q.next = p.next + 1
      /\ q.calls = (IF event.whole THEN Append(p.calls, call) ELSE p.calls)
      /\ q.out = p.out /\ q.call = p.call
  <2> DEFINE calls == IF event.whole THEN Append(p.calls, call) ELSE p.calls
  <2>1. p.calls \in Seq(Call) /\ p.pos \in Nat /\ p.next \in Nat
    BY AtEventFacts
  <2>2. calls \in Seq(Call)
    <3>1. Append(p.calls, call) \in Seq(Call)
      BY <1>6, <2>1, AppendProperties
    <3>2. QED
      BY <2>1, <3>1
  <2>3. q = [b EXCEPT !.pos = p.pos + 1, !.next = p.next + 1, !.calls = calls]
    BY <1>4, <1>5
  <2> HIDE DEF calls
  <2>4. /\ q \in ParserState /\ q.ok /\ q.known = b.known /\ q.trace = trace
        /\ q.pos = p.pos + 1 /\ q.next = p.next + 1 /\ q.calls = calls
        /\ q.out = p.out /\ q.call = p.call
    <3>1. p.pos + 1 \in Nat /\ p.next + 1 \in Nat
      BY <2>1
    <3>2. /\ q \in ParserState /\ q.ok = b.ok /\ q.known = b.known /\ q.trace = b.trace
          /\ q.pos = p.pos + 1 /\ q.next = p.next + 1 /\ q.calls = calls
          /\ q.out = b.out /\ q.call = b.call
      BY <1>3, <2>2, <2>3, <3>1 DEF ParserState
    <3>3. QED
      BY <1>3, <1>4, <3>2
  <2>5. QED
    BY <2>4 DEF calls
<1>9. Tables(q)
  BY <1>3, <1>4, <1>8 DEF Tables
<1>10. Knows(p, q)
  BY <1>4, <1>8 DEF Knows
<1>11. Behind(p, q)
  BY <1>4, <1>8, <1>9, <1>10, BehindEvent
<1>12. QED
  BY <1>6, <1>8, <1>11 DEF q

LEMMA RemoveAtIs ==
  ASSUME NEW S, NEW s \in Seq(S), NEW i \in DOMAIN s
  PROVE  /\ RemoveAt(s, i) \in Seq(S) /\ Len(RemoveAt(s, i)) = Len(s) - 1
         /\ \A k \in 1..(Len(s) - 1) :
              RemoveAt(s, i)[k] = IF k < i THEN s[k] ELSE s[k + 1]
<1> DEFINE a == SubSeq(s, 1, i - 1)
           b == SubSeq(s, i + 1, Len(s))
<1>1. i \in 1..Len(s) /\ Len(s) \in Nat
  OBVIOUS
<1>2. a \in Seq(S) /\ Len(a) = i - 1 /\ \A k \in 1..(i - 1) : a[k] = s[k]
  BY <1>1
<1>3. b \in Seq(S) /\ Len(b) = Len(s) - i /\ \A k \in 1..(Len(s) - i) : b[k] = s[i + k]
  BY <1>1
<1>4. RemoveAt(s, i) = a \o b
  BY DEF RemoveAt
<1> HIDE DEF a, b
<1> DEFINE r == a \o b
<1>5. r \in Seq(S) /\ Len(r) = Len(s) - 1
  BY <1>1, <1>2, <1>3
<1>6. ASSUME NEW k \in 1..(Len(s) - 1)
      PROVE  r[k] = IF k < i THEN s[k] ELSE s[k + 1]
  <2>1. CASE k < i
    <3>1. r[k] = a[k]
      BY <1>1, <1>2, <1>3, <2>1
    <3>2. QED
      BY <1>1, <1>2, <2>1, <3>1
  <2>2. CASE ~(k < i)
    <3>1. r[k] = b[k - (i - 1)] /\ k - (i - 1) \in 1..(Len(s) - i)
      <4>1. k \in 1..(Len(a) + Len(b)) /\ ~(k <= Len(a)) /\ k - (i - 1) \in 1..(Len(s) - i)
        BY <1>1, <1>2, <1>3, <2>2, SMTT(30)
      <4>2. r[k] = b[k - Len(a)]
        BY <1>2, <1>3, <4>1, ConcatProperties
      <4>3. QED
        BY <1>2, <4>1, <4>2
    <3>2. i + (k - (i - 1)) = k + 1
      BY <1>1
    <3>3. QED
      BY <1>3, <2>2, <3>1, <3>2
  <2>3. QED
    BY <2>1, <2>2
<1>7. QED
  BY <1>4, <1>5, <1>6

(* A leave returns its own call, if that was entered since the parser was  *)
(* put where it began.                                                     *)
LEMMA LeaveEffect ==
  ASSUME NEW p, AtEvent(p), p.trace[p.pos].kind # "enter",
         \A k, l \in DOMAIN p.calls : k < l => p.calls[k].no < p.calls[l].no
  PROVE  LET event == p.trace[p.pos]
             q == ParseLeave(p, event) IN
         /\ Behind(p, q)
         /\ \/ /\ \A k \in DOMAIN p.calls : p.calls[k].no # event.no
               /\ q.calls = p.calls /\ q.out = p.out /\ q.call = p.call
            \/ \E it \in DOMAIN p.calls :
                 /\ p.calls[it].no = event.no
                 /\ q.calls = RemoveAt(p.calls, it)
                 /\ IF event.whole THEN q.out = "call" /\ q.call = p.calls[it]
                                   ELSE q.out = p.out /\ q.call = p.call
<1> DEFINE trace == p.trace
           event == trace[p.pos]
           a == ParseSig(p, event, event.type, FirstAt(p.pos))
           own == {k \in DOMAIN p.calls : p.calls[k].no = event.no}
           it == CHOOSE k \in own : \A j \in own : k <= j
           q == ParseLeave(p, event)
<1>1. /\ event \in LeaveEvent /\ event.kind = "leave"
      /\ Uses(event) = {event.type} \ {None} /\ Uses(event) \subseteq Ids
      /\ p.calls \in Seq(Call) /\ p.pos \in Nat /\ p.next \in Nat
      /\ event.whole \in BOOLEAN
  <2>1. event \in LeaveEvent /\ event.kind = "leave"
        /\ Uses(event) = {event.type} \ {None} /\ Uses(event) \subseteq Ids
    BY AtEventFacts, UsesOf
  <2>2. QED
    BY <2>1, AtEventFacts DEF LeaveEvent
<1>2. /\ a \in ParserState /\ OnlyKnown(p, a) /\ a.ok /\ Tables(a)
      /\ \A id \in Uses(event) : a.known[id] # 0
  <2>1. CASE event.type = None
    <3>1. a = p
      BY <2>1, SMTT(30) DEF ParseSig
    <3>2. QED
      BY <1>1, <2>1, <3>1, AtEventFacts DEF OnlyKnown
  <2>2. CASE event.type # None
    <3>1. FirstAt(p.pos) = Place(event, p.pos, event.type)
      BY <1>1 DEF Place
    <3>2. event.type \in Uses(event)
      BY <1>1, <2>2
    <3>3. /\ a \in ParserState /\ OnlyKnown(p, a) /\ a.ok /\ Tables(a)
          /\ a.known[event.type] # 0
      BY <3>1, <3>2, AtEventFacts, SigEffect, ZenonT(30)
    <3>4. QED
      BY <1>1, <3>3
  <2>3. QED
    BY <2>1, <2>2
<1> DEFINE b == [a EXCEPT !.pos = @ + 1]
<1>3. q = IF own = {} THEN b
          ELSE IF event.whole
            THEN [b EXCEPT !.calls = RemoveAt(@, it), !.out = "call", !.call = p.calls[it]]
            ELSE [b EXCEPT !.calls = RemoveAt(@, it)]
  BY DEF ParseLeave
<1> HIDE DEF a, q
<1>4. /\ b \in ParserState /\ b.ok /\ b.known = a.known /\ b.trace = trace
      /\ b.pos = p.pos + 1 /\ b.next = p.next /\ b.calls = p.calls
      /\ b.out = p.out /\ b.call = p.call
  <2>1. /\ a.pos = p.pos /\ a.pos + 1 \in Nat /\ a.trace = trace /\ a.next = p.next
        /\ a.calls = p.calls /\ a.out = p.out /\ a.call = p.call
    BY <1>1, <1>2 DEF OnlyKnown
  <2>2. /\ b \in ParserState /\ b.ok = a.ok /\ b.known = a.known /\ b.trace = a.trace
        /\ b.pos = a.pos + 1 /\ b.next = a.next /\ b.calls = a.calls
        /\ b.out = a.out /\ b.call = a.call
    BY <1>2, <2>1 DEF ParserState
  <2>3. QED
    BY <1>2, <2>1, <2>2
<1> HIDE DEF b
<1>5. ASSUME NEW c \in ParserState, c.ok, c.known = a.known, c.trace = trace,
             c.pos = p.pos + 1, c.next = p.next
      PROVE  Behind(p, c)
  <2>1. Tables(c)
    BY <1>2, <1>5 DEF Tables, OnlyKnown
  <2>2. Knows(p, c)
    BY <1>2, <1>5 DEF Knows, OnlyKnown
  <2>3. QED
    BY <1>1, <1>2, <1>5, <2>1, <2>2, BehindEvent
<1>6. CASE own = {}
  <2>1. q = b
    BY <1>3, <1>6
  <2>2. QED
    BY <1>4, <1>5, <1>6, <2>1 DEF q
<1>7. CASE own # {}
  <2>1. PICK k \in own : TRUE
    BY <1>7
  <2>2. own = {k}
    <3>1. \A l \in own : l = k
      <4>1. SUFFICES ASSUME NEW l \in own, l # k PROVE FALSE
        OBVIOUS
      <4>2. /\ k \in DOMAIN p.calls /\ l \in DOMAIN p.calls
            /\ p.calls[k].no = p.calls[l].no
        BY <2>1
      <4>3. p.calls[k] \in Call /\ k \in Nat /\ l \in Nat
        BY <1>1, <4>2
      <4>4. p.calls[k].no \in Nat
        BY <4>3 DEF Call
      <4>5. k < l \/ l < k
        BY <4>1, <4>3
      <4>6. p.calls[k].no < p.calls[l].no \/ p.calls[l].no < p.calls[k].no
        BY <4>2, <4>5
      <4>7. QED
        BY <4>2, <4>4, <4>6
    <3>2. QED
      BY <2>1, <3>1
  <2> HIDE DEF own
  <2>3. k \in DOMAIN p.calls /\ p.calls[k].no = event.no /\ k \in Nat
    BY <1>1, <2>1 DEF own
  <2>4. it = k
    BY <2>2, <2>3
  <2> DEFINE calls == RemoveAt(p.calls, k)
  <2>5. calls \in Seq(Call) /\ p.calls[k] \in Call
    BY <1>1, <2>3, RemoveAtIs
  <2> HIDE DEF calls, it
  <2>6. CASE event.whole
    <3>1. q = [b EXCEPT !.calls = calls, !.out = "call", !.call = p.calls[k]]
      BY <1>3, <1>4, <1>7, <2>4, <2>6 DEF calls
    <3>2. /\ q \in ParserState /\ q.ok = b.ok /\ q.known = b.known /\ q.trace = b.trace
          /\ q.pos = b.pos /\ q.next = b.next /\ q.calls = calls
          /\ q.out = "call" /\ q.call = p.calls[k]
      BY <1>4, <2>5, <3>1 DEF ParserState
    <3>3. Behind(p, q)
      BY <1>4, <1>5, <3>2
    <3>4. QED
      BY <2>3, <2>6, <3>2, <3>3 DEF q, calls
  <2>7. CASE ~event.whole
    <3>1. q = [b EXCEPT !.calls = calls]
      BY <1>3, <1>4, <1>7, <2>4, <2>7 DEF calls
    <3>2. /\ q \in ParserState /\ q.ok = b.ok /\ q.known = b.known /\ q.trace = b.trace
          /\ q.pos = b.pos /\ q.next = b.next /\ q.calls = calls
          /\ q.out = b.out /\ q.call = b.call
      BY <1>4, <2>5, <3>1 DEF ParserState
    <3>3. Behind(p, q)
      BY <1>4, <1>5, <3>2
    <3>4. QED
      BY <1>4, <2>3, <2>7, <3>2, <3>3 DEF q, calls
  <2>8. QED
    BY <1>1, <2>6, <2>7
<1>8. QED
  BY <1>6, <1>7

-----------------------------------------------------------------------------
(* Pending and returned calls.                                             *)
LEMMA ReadingFacts ==
  ASSUME NEW p, NEW from, NEW got, Reading(p, from, got)
  PROVE  /\ p \in ParserState /\ IsTrace(p.trace) /\ p.ok /\ Tables(p)
         /\ p.trace \in Seq(Event) /\ DOMAIN p.trace = 1..Len(p.trace)
         /\ Len(p.trace) \in Nat
         /\ p.pos \in 1..Len(p.trace) + 1 /\ p.next = NumberOf(p.trace, p.pos)
         /\ p.calls \in Seq(Call) /\ DOMAIN p.calls = 1..Len(p.calls)
         /\ Len(p.calls) \in Nat
         /\ \A k \in DOMAIN p.calls : p.calls[k] \in Call /\ p.calls[k].no \in Nat
         /\ from.pos \in Nat /\ from.pos <= p.pos
         /\ got \in Seq(Call) /\ DOMAIN got = 1..Len(got) /\ Len(got) \in Nat
         /\ \A k \in DOMAIN got : got[k] \in Call /\ got[k].no \in Nat
                                    /\ got[k].complete \in BOOLEAN
<1>1. p.trace \in Seq(Event) /\ DOMAIN p.trace = 1..Len(p.trace) /\ Len(p.trace) \in Nat
  BY TraceTypes DEF Reading
<1>2. /\ p.pos \in 1..Len(p.trace) + 1 /\ p.next = NumberOf(p.trace, p.pos)
      /\ from.pos \in Nat /\ from.pos <= p.pos
  BY DEF Reading, Located, GetBookmark, Bookmark
<1>3. p.calls \in Seq(Call) /\ got \in Seq(Call)
  BY DEF Reading, ParserState
<1>4. \A s \in Seq(Call) : DOMAIN s = 1..Len(s) /\ Len(s) \in Nat
  OBVIOUS
<1>5. \A s \in Seq(Call) : \A k \in DOMAIN s : s[k] \in Call
  OBVIOUS
<1>6. \A c \in Call : c.no \in Nat /\ c.complete \in BOOLEAN
  BY DEF Call
<1>7. QED
  BY <1>1, <1>2, <1>3, <1>4, <1>5, <1>6, Zenon DEF Reading

LEMMA ReadsEvent ==
  ASSUME NEW p, NEW from, NEW got, Reading(p, from, got), p.pos \in DOMAIN p.trace
  PROVE  AtEvent(p)
  BY DEF Reading, AtEvent

(* As long as there are events, all calls returned are complete.           *)
LEMMA AllComplete ==
  ASSUME NEW p, NEW from, NEW got, Reading(p, from, got), p.pos \in DOMAIN p.trace
  PROVE  \A k \in DOMAIN got : got[k].complete
<1>1. ~(p.pos > Len(p.trace))
  BY ReadingFacts
<1>2. QED
  BY <1>1 DEF Reading, Returned

(* Leaves before a place are of calls numbered before it.                  *)
LEMMA LeavesOfEarlier ==
  ASSUME NEW trace, IsTrace(trace), NEW pos \in Nat, NEW no \in Nat,
         LeftBefore(trace, no, pos)
  PROVE  no < NumberOf(trace, pos)
<1>1. PICK j \in DOMAIN trace : trace[j].kind = "leave" /\ trace[j].no = no /\ j < pos
  BY DEF LeftBefore, Left
<1>2. trace \in Seq(Event) /\ j \in Nat
  BY TraceTypes
<1>3. no < NumberOf(trace, j)
  BY <1>1 DEF IsTrace
<1>4. NumberOf(trace, j) <= NumberOf(trace, pos)
  BY <1>1, <1>2, NumberGrows
<1>5. NumberOf(trace, j) \in Nat /\ NumberOf(trace, pos) \in Nat
  BY <1>2, NumberType
<1>6. QED
  BY <1>3, <1>4, <1>5


(* Numbers of calls entered before a place are below its own.              *)
LEMMA EnteredNumber ==
  ASSUME NEW p, NEW from, NEW got, Reading(p, from, got), NEW i \in Entered(p, from)
  PROVE  NumberOf(p.trace, i) \in Nat /\ NumberOf(p.trace, i) < NumberOf(p.trace, p.pos)
<1>1. /\ p.trace \in Seq(Event) /\ i \in Nat /\ p.pos \in Nat
      /\ i \in Enters(p.trace) /\ i < p.pos
  BY ReadingFacts DEF Entered, Enters
<1>2. QED
  BY <1>1, NumberGrows, NumberType, SMTT(30)

LEMMA EnterKeeps ==
  ASSUME NEW p, NEW from, NEW got, Reading(p, from, got), p.out = "reading",
         p.pos \in DOMAIN p.trace, p.trace[p.pos].kind = "enter"
  PROVE  LET q == ParseEnter(p, p.trace[p.pos]) IN
         /\ Reading(q, from, got) /\ q.out = "reading" /\ q.pos = p.pos + 1
         /\ Knows(p, q)
<1> DEFINE trace == p.trace
           event == trace[p.pos]
           new == CallOf(trace, p.pos, TRUE)
           q == ParseEnter(p, event)
<1>1. /\ Behind(p, q) /\ q.out = "reading"
      /\ q.calls = IF event.whole THEN Append(p.calls, new) ELSE p.calls
  BY ReadsEvent, EnterEffect
<1>2. /\ q \in ParserState /\ q.ok /\ Tables(q) /\ Knows(p, q) /\ q.trace = trace
      /\ Located(q, GetBookmark(q)) /\ q.pos = p.pos + 1
  BY <1>1 DEF Behind, Knows
<1>3. Located(q, from)
  BY <1>2, LocatedKept DEF Reading
<1> HIDE DEF q
<1>4. /\ p.pos \in Nat /\ from.pos \in Nat /\ from.pos <= p.pos /\ p.pos \in 1..Len(trace)
      /\ p.pos \in Enters(trace) /\ NumberOf(trace, p.pos) \in Nat
      /\ trace \in Seq(Event) /\ IsTrace(trace)
  <2>1. p.pos \in Nat /\ p.pos \in Enters(trace) /\ trace \in Seq(Event)
    BY ReadingFacts DEF Enters
  <2>2. NumberOf(trace, p.pos) \in Nat
    BY <2>1, NumberType
  <2>3. QED
    BY <2>1, <2>2, ReadingFacts
<1>5. Entered(q, from) = Entered(p, from) \cup (IF event.whole THEN {p.pos} ELSE {})
  <2>1. \A i \in Enters(trace) : i < p.pos + 1 <=> i < p.pos \/ i = p.pos
    BY <1>4 DEF Enters
  <2>2. QED
    BY <1>2, <1>4, <2>1 DEF Entered
<1>6. ASSUME NEW no PROVE LeftBefore(trace, no, q.pos) <=> LeftBefore(trace, no, p.pos)
  <2>1. \A j \in Left(trace, no) : j \in Nat /\ j # p.pos
    BY <1>4 DEF Left
  <2>2. QED
    BY <1>2, <1>4, <2>1 DEF LeftBefore
<1>7. Pending(q, from)
  <2>1. /\ new.no = NumberOf(trace, p.pos)
        /\ ~LeftBefore(trace, new.no, q.pos)
    <3>1. new.no = NumberOf(trace, p.pos)
      BY DEF CallOf
    <3>2. ~LeftBefore(trace, NumberOf(trace, p.pos), p.pos)
      BY <1>4, LeavesOfEarlier
    <3>3. QED
      BY <1>6, <3>1, <3>2
  <2>2. ASSUME NEW k \in DOMAIN p.calls
        PROVE  /\ \E i \in Entered(q, from) : p.calls[k] = CallOf(trace, i, TRUE)
               /\ ~LeftBefore(trace, p.calls[k].no, q.pos)
               /\ p.calls[k].no < new.no
    <3>1. PICK i \in Entered(p, from) : p.calls[k] = CallOf(trace, i, TRUE)
      BY DEF Reading, Pending
    <3>2. ~LeftBefore(trace, p.calls[k].no, p.pos)
      BY DEF Reading, Pending
    <3>3. p.calls[k].no < new.no
      <4>1. p.calls[k].no = NumberOf(trace, i)
        BY <3>1 DEF CallOf
      <4>2. NumberOf(trace, i) < NumberOf(trace, p.pos)
        BY EnteredNumber
      <4>3. QED
        BY <2>1, <4>1, <4>2
    <3>4. QED
      BY <1>5, <1>6, <3>1, <3>2, <3>3
  <2>3. \A k, l \in DOMAIN p.calls : k < l => p.calls[k].no < p.calls[l].no
    BY DEF Reading, Pending
  <2>4. CASE event.whole
    <3>1. /\ Len(q.calls) = Len(p.calls) + 1 /\ Len(p.calls) \in Nat
          /\ DOMAIN p.calls = 1..Len(p.calls) /\ DOMAIN q.calls = 1..Len(q.calls)
          /\ \A k \in DOMAIN p.calls : q.calls[k] = p.calls[k]
          /\ q.calls[Len(q.calls)] = new
      <4>1. p.calls \in Seq(Call) /\ q.calls = Append(p.calls, new) /\ q.calls \in Seq(Call)
        BY <1>1, <1>2, <2>4, ReadingFacts DEF ParserState
      <4> HIDE DEF new
      <4>2. QED
        BY <4>1
    <3>2. \A k \in DOMAIN q.calls : k \in DOMAIN p.calls \/ k = Len(q.calls)
      BY <3>1
    <3>3. p.pos \in Entered(q, from) /\ new = CallOf(trace, p.pos, TRUE)
      BY <1>5, <2>4
    <3> HIDE DEF new
    <3>4. \A k \in DOMAIN q.calls :
            /\ \E i \in Entered(q, from) : q.calls[k] = CallOf(trace, i, TRUE)
            /\ ~LeftBefore(trace, q.calls[k].no, q.pos)
      BY <2>1, <2>2, <3>1, <3>2, <3>3
    <3>5. \A k, l \in DOMAIN q.calls : k < l => q.calls[k].no < q.calls[l].no
      <4>1. SUFFICES ASSUME NEW k \in DOMAIN q.calls, NEW l \in DOMAIN q.calls, k < l
                     PROVE  q.calls[k].no < q.calls[l].no
        OBVIOUS
      <4>2. k \in DOMAIN p.calls
        BY <3>1, <4>1
      <4>3. QED
        BY <2>2, <2>3, <3>1, <3>2, <4>1, <4>2
    <3>6. QED
      BY <1>2, <3>4, <3>5 DEF Pending
  <2>5. CASE ~event.whole
    BY <1>1, <1>2, <2>2, <2>3, <2>5 DEF Pending
  <2>6. QED
    BY <2>4, <2>5
<1>8. \A k \in DOMAIN got : got[k].complete
  BY AllComplete
<1>9. Returned(q, from, got)
  <2>1. ASSUME NEW k \in DOMAIN got
        PROVE  /\ \E i \in Entered(q, from) : got[k] = CallOf(trace, i, got[k].complete)
               /\ \E j \in Left(trace, got[k].no) : j < q.pos /\ trace[j].whole
    <3>1. PICK i \in Entered(p, from) : got[k] = CallOf(trace, i, got[k].complete)
      BY DEF Reading, Returned
    <3>2. PICK j \in Left(trace, got[k].no) : j < p.pos /\ trace[j].whole
      BY <1>8 DEF Reading, Returned
    <3>3. j < q.pos
      BY <1>2, <1>4, <3>2 DEF Left
    <3>4. QED
      BY <1>5, <3>1, <3>2, <3>3
  <2>2. QED
    BY <1>2, <1>8, <2>1 DEF Returned
<1>10. Accounted(q, from, got)
  <2>1. SUFFICES ASSUME NEW i \in Entered(q, from)
        PROVE  \/ \E k \in DOMAIN q.calls : q.calls[k].no = NumberOf(trace, i)
               \/ \E k \in DOMAIN got : got[k].no = NumberOf(trace, i)
               \/ \E j \in Left(trace, NumberOf(trace, i)) : ~trace[j].whole
    BY <1>2 DEF Accounted
  <2>2. p.calls \in Seq(Call) /\ Len(p.calls) \in Nat /\ q.calls \in Seq(Call)
    BY <1>2, ReadingFacts DEF ParserState
  <2>3. \A k \in DOMAIN p.calls : k \in DOMAIN q.calls /\ q.calls[k] = p.calls[k]
    <3> HIDE DEF new
    <3>1. QED
      BY <1>1, <2>2
  <2>4. CASE i \in Entered(p, from)
    BY <2>3, <2>4 DEF Reading, Accounted
  <2>5. CASE event.whole /\ i = p.pos
    <3>1. new.no = NumberOf(trace, i)
      BY <2>5 DEF CallOf
    <3> HIDE DEF new
    <3>2. q.calls = Append(p.calls, new)
      BY <1>1, <2>5
    <3>3. Len(p.calls) + 1 \in DOMAIN q.calls /\ q.calls[Len(p.calls) + 1] = new
      BY <2>2, <3>2
    <3>4. QED
      BY <3>1, <3>3
  <2>6. QED
    BY <1>5, <2>4, <2>5
<1>11. /\ InOrder(q.trace, got) /\ got \in Seq(Call) /\ IsTrace(q.trace)
       /\ from.pos <= q.pos
  BY <1>2, <1>4, SMTT(30) DEF Reading
<1>12. Reading(q, from, got)
  BY <1>1, <1>2, <1>3, <1>7, <1>9, <1>10, <1>11 DEF Reading
<1>13. QED
  BY <1>1, <1>2, <1>12 DEF q

LEMMA LeaveKeeps ==
  ASSUME NEW p, NEW from, NEW got, Reading(p, from, got), p.out = "reading",
         p.pos \in DOMAIN p.trace, p.trace[p.pos].kind # "enter"
  PROVE  LET q == ParseLeave(p, p.trace[p.pos]) IN
         /\ q.out \in {"reading", "call"}
         /\ Reading(q, from, IF q.out = "call" THEN Append(got, q.call) ELSE got)
         /\ q.pos = p.pos + 1 /\ Knows(p, q)
<1> DEFINE trace == p.trace
           event == trace[p.pos]
           q == ParseLeave(p, event)
<1>0. \A k, l \in DOMAIN p.calls : k < l => p.calls[k].no < p.calls[l].no
  BY DEF Reading, Pending
<1>1. /\ Behind(p, q)
      /\ \/ /\ \A k \in DOMAIN p.calls : p.calls[k].no # event.no
            /\ q.calls = p.calls /\ q.out = p.out /\ q.call = p.call
         \/ \E it \in DOMAIN p.calls :
              /\ p.calls[it].no = event.no
              /\ q.calls = RemoveAt(p.calls, it)
              /\ IF event.whole THEN q.out = "call" /\ q.call = p.calls[it]
                                ELSE q.out = p.out /\ q.call = p.call
  BY <1>0, ReadsEvent, LeaveEffect, SMTT(30)
<1>2. /\ q \in ParserState /\ q.ok /\ Tables(q) /\ Knows(p, q) /\ q.trace = trace
      /\ Located(q, GetBookmark(q)) /\ q.pos = p.pos + 1
  BY <1>1 DEF Behind, Knows
<1>3. Located(q, from)
  BY <1>2, LocatedKept DEF Reading
<1> HIDE DEF q
<1>4. /\ p.pos \in Nat /\ from.pos \in Nat /\ from.pos <= p.pos /\ p.pos \in 1..Len(trace)
      /\ p.pos \notin Enters(trace) /\ IsTrace(trace)
      /\ event.kind = "leave" /\ event.no \in Nat /\ Left(trace, event.no) = {p.pos}
  <2>1. event \in Event /\ event.kind # "enter"
    BY ReadsEvent, AtEventFacts
  <2>2. event.kind = "leave" /\ event \in LeaveEvent
    BY <2>1, UsesOf
  <2>3. event.no \in Nat
    BY <2>2 DEF LeaveEvent
  <2>4. Left(trace, event.no) = {p.pos}
    BY <2>2 DEF Reading, IsTrace
  <2>5. QED
    BY <2>2, <2>3, <2>4, ReadingFacts DEF Enters
<1>5. Entered(q, from) = Entered(p, from)
  <2>1. \A i \in Enters(trace) : i < p.pos + 1 <=> i < p.pos
    BY <1>4 DEF Enters
  <2>2. QED
    BY <1>2, <2>1 DEF Entered
<1>6. ASSUME NEW no, no # event.no, ~LeftBefore(trace, no, p.pos)
      PROVE  ~LeftBefore(trace, no, q.pos)
  <2>1. \A j \in Left(trace, no) : j \in Nat /\ j # p.pos
    BY <1>4, <1>6 DEF Left
  <2>2. QED
    BY <1>2, <1>4, <1>6, <2>1 DEF LeftBefore
<1>7. ASSUME NEW k \in DOMAIN p.calls
      PROVE  /\ \E i \in Entered(q, from) : p.calls[k] = CallOf(trace, i, TRUE)
             /\ p.calls[k].no # event.no => ~LeftBefore(trace, p.calls[k].no, q.pos)
             /\ p.calls[k].complete
  <2>1. PICK i \in Entered(p, from) : p.calls[k] = CallOf(trace, i, TRUE)
    BY DEF Reading, Pending
  <2>2. ~LeftBefore(trace, p.calls[k].no, p.pos)
    BY DEF Reading, Pending
  <2>3. p.calls[k].complete
    BY <2>1 DEF CallOf
  <2>4. QED
    BY <1>5, <1>6, <2>1, <2>2, <2>3
<1>8. \A k \in DOMAIN got : got[k].complete
  BY AllComplete
<1>9. ASSUME NEW k \in DOMAIN got
      PROVE  /\ \E i \in Entered(q, from) : got[k] = CallOf(trace, i, got[k].complete)
             /\ \E j \in Left(trace, got[k].no) : j < p.pos /\ j < q.pos /\ trace[j].whole
  <2>1. PICK i \in Entered(p, from) : got[k] = CallOf(trace, i, got[k].complete)
    BY DEF Reading, Returned
  <2>2. PICK j \in Left(trace, got[k].no) : j < p.pos /\ trace[j].whole
    BY <1>8 DEF Reading, Returned
  <2>3. j < q.pos
    BY <1>2, <1>4, <2>2 DEF Left
  <2>4. QED
    BY <1>5, <2>1, <2>2, <2>3
<1>10. /\ InOrder(q.trace, got) /\ got \in Seq(Call) /\ IsTrace(q.trace)
       /\ from.pos <= q.pos
  BY <1>2, <1>4 DEF Reading
<1>11. ASSUME NEW i \in Entered(q, from)
       PROVE  \/ \E k \in DOMAIN p.calls : p.calls[k].no = NumberOf(trace, i)
              \/ \E k \in DOMAIN got : got[k].no = NumberOf(trace, i)
              \/ \E j \in Left(trace, NumberOf(trace, i)) : ~trace[j].whole
  BY <1>5 DEF Reading, Accounted
<1>12. Returned(q, from, got)
  BY <1>2, <1>8, <1>9 DEF Returned
<1>13. CASE /\ \A k \in DOMAIN p.calls : p.calls[k].no # event.no
            /\ q.calls = p.calls /\ q.out = p.out /\ q.call = p.call
  <2>1. Pending(q, from)
    BY <1>0, <1>2, <1>7, <1>13, ZenonT(30) DEF Pending
  <2>2. Accounted(q, from, got)
    BY <1>2, <1>11, <1>13 DEF Accounted
  <2>3. q.out = "reading"
    BY <1>13
  <2>4. Reading(q, from, got)
    BY <1>2, <1>3, <1>10, <1>12, <2>1, <2>2, <2>3 DEF Reading
  <2>5. QED
    BY <1>2, <2>3, <2>4 DEF q
<1>14. ASSUME NEW it \in DOMAIN p.calls, p.calls[it].no = event.no,
              q.calls = RemoveAt(p.calls, it),
              IF event.whole THEN q.out = "call" /\ q.call = p.calls[it]
                             ELSE q.out = p.out /\ q.call = p.call
       PROVE  /\ q.out \in {"reading", "call"}
              /\ Reading(q, from, IF q.out = "call" THEN Append(got, q.call) ELSE got)
  <2> DEFINE calls == p.calls
             n == Len(calls)
             At(k) == IF k < it THEN k ELSE k + 1
  <2>1. /\ calls \in Seq(Call) /\ n \in Nat /\ DOMAIN calls = 1..n /\ it \in 1..n
        /\ \A k \in 1..n : calls[k].no \in Nat
    BY ReadingFacts
  <2>2. /\ q.calls \in Seq(Call) /\ DOMAIN q.calls = 1..(n - 1)
        /\ \A k \in 1..(n - 1) : q.calls[k] = calls[At(k)]
    <3>1. /\ q.calls \in Seq(Call) /\ Len(q.calls) = n - 1
          /\ \A k \in 1..(n - 1) : q.calls[k] = IF k < it THEN calls[k] ELSE calls[k + 1]
      BY <1>14, <2>1, RemoveAtIs, SMTT(30)
    <3>2. DOMAIN q.calls = 1..(n - 1)
      BY <3>1
    <3>3. QED
      BY <3>1, <3>2
  <2> HIDE DEF n, calls
  <2>3. /\ \A k \in 1..(n - 1) : At(k) \in 1..n /\ At(k) # it
        /\ \A k, l \in 1..(n - 1) : k < l => At(k) < At(l)
        /\ \A k \in 1..n : k # it => \E l \in 1..(n - 1) : At(l) = k
    <3>1. /\ \A k \in 1..(n - 1) : At(k) \in 1..n /\ At(k) # it
          /\ \A k, l \in 1..(n - 1) : k < l => At(k) < At(l)
      BY <2>1
    <3>2. ASSUME NEW k \in 1..n, k # it PROVE \E l \in 1..(n - 1) : At(l) = k
      <4>1. CASE k < it
        <5>1. k \in 1..(n - 1) /\ At(k) = k
          BY <2>1, <4>1
        <5>2. QED
          BY <5>1
      <4>2. CASE ~(k < it)
        <5>1. k - 1 \in 1..(n - 1) /\ At(k - 1) = k
          BY <2>1, <3>2, <4>2
        <5>2. QED
          BY <5>1
      <4>3. QED
        BY <4>1, <4>2
    <3>3. QED
      BY <3>1, <3>2
  <2>4. \A k \in 1..n : k # it => calls[k].no # event.no
    <3>1. SUFFICES ASSUME NEW k \in 1..n, k # it, calls[k].no = event.no PROVE FALSE
      OBVIOUS
    <3>2. k < it \/ it < k
      BY <2>1, <3>1
    <3>3. calls[k].no < calls[it].no \/ calls[it].no < calls[k].no
      BY <1>0, <2>1, <3>1, <3>2 DEF calls
    <3>4. calls[k].no = calls[it].no
      BY <1>14, <3>1 DEF calls
    <3>5. QED
      BY <2>1, <3>3, <3>4
  <2> HIDE DEF At
  <2>5. Pending(q, from)
    <3>1. ASSUME NEW k \in DOMAIN q.calls
          PROVE  /\ \E i \in Entered(q, from) : q.calls[k] = CallOf(trace, i, TRUE)
                 /\ ~LeftBefore(trace, q.calls[k].no, q.pos)
      <4>1. q.calls[k] = p.calls[At(k)] /\ At(k) \in DOMAIN p.calls
            /\ p.calls[At(k)].no # event.no
        BY <2>1, <2>2, <2>3, <2>4 DEF calls
      <4>2. QED
        BY <1>7, <4>1
    <3>2. ASSUME NEW k \in DOMAIN q.calls, NEW l \in DOMAIN q.calls, k < l
          PROVE  q.calls[k].no < q.calls[l].no
      <4>1. /\ q.calls[k] = p.calls[At(k)] /\ At(k) \in DOMAIN p.calls
            /\ q.calls[l] = p.calls[At(l)] /\ At(l) \in DOMAIN p.calls
            /\ At(k) < At(l)
        BY <2>1, <2>2, <2>3, <3>2 DEF calls
      <4>2. QED
        BY <1>0, <4>1
    <3>3. QED
      BY <1>2, <3>1, <3>2 DEF Pending
  <2>6. ASSUME NEW k \in DOMAIN p.calls, p.calls[k].no # event.no
        PROVE  \E l \in DOMAIN q.calls : q.calls[l].no = p.calls[k].no
    <3>1. k \in 1..n /\ k # it
      BY <1>14, <2>1, <2>6 DEF calls
    <3>2. PICK l \in 1..(n - 1) : At(l) = k
      BY <2>3, <3>1
    <3>3. QED
      BY <2>2, <3>2 DEF calls
  <2>7. CASE ~event.whole
    <3>1. q.out = "reading"
      BY <1>14, <2>7
    <3>2. Accounted(q, from, got)
      <4>1. SUFFICES ASSUME NEW i \in Entered(q, from)
            PROVE  \/ \E k \in DOMAIN q.calls : q.calls[k].no = NumberOf(trace, i)
                   \/ \E k \in DOMAIN got : got[k].no = NumberOf(trace, i)
                   \/ \E j \in Left(trace, NumberOf(trace, i)) : ~trace[j].whole
        BY <1>2 DEF Accounted
      <4>2. CASE NumberOf(trace, i) = event.no
        <5>1. p.pos \in Left(trace, NumberOf(trace, i))
          BY <1>4, <4>2
        <5>2. QED
          BY <2>7, <5>1
      <4>3. CASE NumberOf(trace, i) # event.no
        BY <1>11, <2>6, <4>3
      <4>4. QED
        BY <4>2, <4>3
    <3>3. Reading(q, from, got)
      BY <1>2, <1>3, <1>10, <1>12, <2>5, <3>1, <3>2 DEF Reading
    <3>4. QED
      BY <3>1, <3>3
  <2>8. CASE event.whole
    <3> DEFINE g == Append(got, q.call)
               m == Len(got)
    <3>1. q.out = "call" /\ q.call = p.calls[it]
      BY <1>14, <2>8
    <3>2. /\ got \in Seq(Call) /\ m \in Nat /\ DOMAIN got = 1..m /\ q.call \in Call
      BY <2>1, <3>1, ReadingFacts DEF calls
    <3>3. /\ g \in Seq(Call) /\ DOMAIN g = 1..(m + 1)
          /\ \A k \in 1..m : g[k] = got[k]
          /\ g[m + 1] = p.calls[it]
      BY <3>1, <3>2
    <3> HIDE DEF g, m
    <3>4. p.calls[it].no = event.no /\ p.calls[it].complete = TRUE
      <4>1. p.calls[it] \in Call
        BY <2>1 DEF calls
      <4>2. QED
        BY <1>7, <1>14, <4>1 DEF Call
    <3>5. \A k \in DOMAIN g : k \in DOMAIN got \/ k = m + 1
      BY <3>2, <3>3
    <3>6. p.pos \in Left(trace, event.no) /\ p.pos < q.pos /\ trace[p.pos].whole
      BY <1>2, <1>4, <2>8
    <3>7. \A k \in DOMAIN g :
            /\ \E i \in Entered(q, from) : g[k] = CallOf(trace, i, g[k].complete)
            /\ \E j \in Left(trace, g[k].no) : j < q.pos /\ trace[j].whole
            /\ g[k].complete
      <4>1. ASSUME NEW k \in DOMAIN got
            PROVE /\ \E i \in Entered(q, from) : g[k] = CallOf(trace, i, g[k].complete)
                  /\ \E j \in Left(trace, g[k].no) : j < q.pos /\ trace[j].whole
                  /\ g[k].complete
        <5>1. g[k] = got[k]
          BY <3>2, <3>3
        <5>2. QED
          BY <1>8, <1>9, <5>1
      <4>2. /\ \E i \in Entered(q, from) : g[m + 1] = CallOf(trace, i, g[m + 1].complete)
            /\ \E j \in Left(trace, g[m + 1].no) : j < q.pos /\ trace[j].whole
            /\ g[m + 1].complete
        BY <1>7, <3>3, <3>4, <3>6
      <4>3. QED
        BY <3>5, <4>1, <4>2
    <3>8. Returned(q, from, g)
      BY <1>2, <3>7 DEF Returned
    <3>9. InOrder(trace, g)
      <4>1. SUFFICES ASSUME NEW k \in DOMAIN g, NEW l \in DOMAIN g, k < l
            PROVE  \E i \in Left(trace, g[k].no), j \in Left(trace, g[l].no) : i < j
        BY <3>7 DEF InOrder
      <4>2. k \in DOMAIN got /\ g[k] = got[k]
        BY <3>2, <3>3, <4>1
      <4>3. CASE l \in DOMAIN got
        <5>1. g[l] = got[l] /\ got[l].complete
          BY <1>8, <3>2, <3>3, <4>3
        <5>2. QED
          BY <1>10, <1>2, <4>1, <4>2, <4>3, <5>1 DEF InOrder
      <4>4. CASE l = m + 1
        <5>1. PICK i \in Left(trace, g[k].no) : i < p.pos
          BY <1>9, <4>2
        <5>2. p.pos \in Left(trace, g[l].no)
          BY <3>3, <3>4, <3>6, <4>4
        <5>3. QED
          BY <5>1, <5>2
      <4>5. QED
        BY <3>5, <4>3, <4>4
    <3>10. Accounted(q, from, g)
      <4>1. SUFFICES ASSUME NEW i \in Entered(q, from)
            PROVE  \/ \E k \in DOMAIN q.calls : q.calls[k].no = NumberOf(trace, i)
                   \/ \E k \in DOMAIN g : g[k].no = NumberOf(trace, i)
                   \/ \E j \in Left(trace, NumberOf(trace, i)) : ~trace[j].whole
        BY <1>2 DEF Accounted
      <4>2. CASE NumberOf(trace, i) = event.no
        <5>1. m + 1 \in DOMAIN g /\ g[m + 1].no = event.no
          BY <3>2, <3>3, <3>4
        <5>2. QED
          BY <4>2, <5>1
      <4>3. CASE NumberOf(trace, i) # event.no
        <5>1. \A k \in DOMAIN got : k \in DOMAIN g /\ g[k].no = got[k].no
          BY <3>2, <3>3
        <5>2. QED
          BY <1>11, <2>6, <4>3, <5>1
      <4>4. QED
        BY <4>2, <4>3
    <3>11. Reading(q, from, g)
      BY <1>2, <1>3, <1>10, <2>5, <3>1, <3>3, <3>8, <3>9, <3>10 DEF Reading
    <3>12. QED
      BY <3>1, <3>11 DEF g
  <2>9. QED
    BY <2>7, <2>8
<1>15. QED
  BY <1>1, <1>2, <1>13, <1>14, Zenon DEF q

LEMMA CallsEqual ==
  ASSUME NEW a \in Call, NEW b \in Call, a.no = b.no, a.thread = b.thread,
         a.fn = b.fn, a.complete = b.complete
  PROVE  a = b
  BY DEF Call

LEMMA EndKeeps ==
  ASSUME NEW p, NEW from, NEW got, Reading(p, from, got), p.out = "reading",
         p.pos > Len(p.trace)
  PROVE  LET q == ParseEnd(p) IN
         /\ q.out \in {"call", "end"}
         /\ Reading(q, from, IF q.out = "call" THEN Append(got, q.call) ELSE got)
         /\ Knows(p, q)
<1> DEFINE trace == p.trace
           q == ParseEnd(p)
<1>1. /\ p \in ParserState /\ p.calls \in Seq(Call) /\ DOMAIN p.calls = 1..Len(p.calls)
      /\ Len(p.calls) \in Nat /\ p.pos \in Nat /\ Len(trace) \in Nat
  BY ReadingFacts
<1>2. ASSUME NEW r \in ParserState, r.trace = trace, r.pos = p.pos, r.next = p.next,
             r.known = p.known, r.ok = p.ok
      PROVE  /\ r.ok /\ Tables(r) /\ Knows(p, r) /\ IsTrace(r.trace)
             /\ Located(r, GetBookmark(r)) /\ Located(r, from) /\ from.pos <= r.pos
             /\ Entered(r, from) = Entered(p, from)
  <2>1. r.ok /\ Tables(r) /\ Knows(p, r) /\ IsTrace(r.trace) /\ from.pos <= r.pos
    BY <1>2 DEF Reading, Tables, Knows
  <2>2. GetBookmark(r) = GetBookmark(p)
    BY <1>2 DEF GetBookmark
  <2>3. Located(r, GetBookmark(r)) /\ Located(r, from)
    BY <2>1, <2>2, LocatedKept DEF Reading
  <2>4. Entered(r, from) = Entered(p, from)
    BY <1>2 DEF Entered
  <2>5. QED
    BY <2>1, <2>3, <2>4
<1>3. CASE p.calls = << >>
  <2>1. q = [p EXCEPT !.out = "end"]
    BY <1>3 DEF ParseEnd
  <2> HIDE DEF q
  <2>2. /\ q \in ParserState /\ q.trace = trace /\ q.pos = p.pos /\ q.next = p.next
        /\ q.known = p.known /\ q.ok = p.ok /\ q.calls = p.calls /\ q.out = "end"
    BY <1>1, <2>1 DEF ParserState
  <2>3. /\ q.ok /\ Tables(q) /\ Knows(p, q) /\ IsTrace(q.trace)
        /\ Located(q, GetBookmark(q)) /\ Located(q, from) /\ from.pos <= q.pos
        /\ Entered(q, from) = Entered(p, from)
    BY <1>2, <2>2
  <2>4. /\ Pending(q, from) /\ Returned(q, from, got) /\ Accounted(q, from, got)
        /\ InOrder(q.trace, got) /\ got \in Seq(Call)
    <3>1. Pending(q, from)
      BY <2>2, <2>3, Zenon DEF Reading, Pending
    <3>2. Returned(q, from, got)
      BY <2>2, <2>3, Zenon DEF Reading, Returned
    <3>3. Accounted(q, from, got)
      BY <2>2, <2>3, Zenon DEF Reading, Accounted
    <3>4. QED
      BY <2>2, <3>1, <3>2, <3>3 DEF Reading
  <2>5. Reading(q, from, got)
    BY <1>3, <2>2, <2>3, <2>4 DEF Reading
  <2>6. QED
    BY <2>2, <2>3, <2>5 DEF q
<1>4. CASE p.calls # << >>
  <2> DEFINE n == Len(p.calls)
             c == [Head(p.calls) EXCEPT !.complete = FALSE]
             g == Append(got, c)
             m == Len(got)
  <2>1. n \in Nat \ {0} /\ Head(p.calls) = p.calls[1] /\ p.calls[1] \in Call
    BY <1>1, <1>4
  <2>2. c \in Call /\ c = [p.calls[1] EXCEPT !.complete = FALSE] /\ ~c.complete
        /\ c.no = p.calls[1].no
    BY <2>1 DEF Call
  <2>3. Tail(p.calls) \in Seq(Call) /\ DOMAIN Tail(p.calls) = 1..(n - 1)
        /\ \A k \in 1..(n - 1) : Tail(p.calls)[k] = p.calls[k + 1]
    BY <1>1, <1>4
  <2>4. q = [p EXCEPT !.out = "call", !.call = c, !.calls = Tail(p.calls)]
    BY <1>4 DEF ParseEnd
  <2> HIDE DEF q, c
  <2>5. /\ q \in ParserState /\ q.trace = trace /\ q.pos = p.pos /\ q.next = p.next
        /\ q.known = p.known /\ q.ok = p.ok /\ q.calls = Tail(p.calls)
        /\ q.out = "call" /\ q.call = c
    BY <1>1, <2>2, <2>3, <2>4 DEF ParserState
  <2>6. /\ q.ok /\ Tables(q) /\ Knows(p, q) /\ IsTrace(q.trace)
        /\ Located(q, GetBookmark(q)) /\ Located(q, from) /\ from.pos <= q.pos
        /\ Entered(q, from) = Entered(p, from)
    BY <1>2, <2>5
  <2>7. /\ DOMAIN q.calls = 1..(n - 1)
        /\ \A k \in 1..(n - 1) : q.calls[k] = p.calls[k + 1] /\ k + 1 \in DOMAIN p.calls
    BY <1>1, <2>1, <2>3, <2>5
  <2>8. \A k, l \in DOMAIN p.calls : k < l => p.calls[k].no < p.calls[l].no
    BY DEF Reading, Pending
  <2>9. Pending(q, from)
    <3>1. ASSUME NEW k \in DOMAIN q.calls
          PROVE  /\ \E i \in Entered(q, from) : q.calls[k] = CallOf(trace, i, TRUE)
                 /\ ~LeftBefore(trace, q.calls[k].no, q.pos)
      BY <2>5, <2>6, <2>7, ZenonT(30) DEF Reading, Pending
    <3>2. ASSUME NEW k \in DOMAIN q.calls, NEW l \in DOMAIN q.calls, k < l
          PROVE  q.calls[k].no < q.calls[l].no
      <4>1. k + 1 < l + 1
        BY <2>7, <3>2
      <4>2. QED
        BY <2>7, <2>8, <4>1
    <3>3. QED
      BY <2>5, <3>1, <3>2 DEF Pending
  <2>10. /\ got \in Seq(Call) /\ m \in Nat /\ DOMAIN got = 1..m
    BY ReadingFacts
  <2>11. /\ g \in Seq(Call) /\ DOMAIN g = 1..(m + 1)
         /\ \A k \in 1..m : g[k] = got[k]
         /\ g[m + 1] = c
    BY <2>2, <2>10
  <2> HIDE DEF g, m, n
  <2>12. \A k \in DOMAIN g : k \in DOMAIN got \/ k = m + 1
    BY <2>10, <2>11
  <2>13. 1 \in DOMAIN p.calls
    BY <1>1, <2>1 DEF n
  <2>14. /\ \E i \in Entered(q, from) : c = CallOf(trace, i, FALSE)
         /\ Left(trace, c.no) = {}
    <3>1. PICK i \in Entered(p, from) : p.calls[1] = CallOf(trace, i, TRUE)
      BY <2>13 DEF Reading, Pending
    <3>2. c = CallOf(trace, i, FALSE)
      <4>1. /\ c.no = NumberOf(trace, i) /\ c.thread = trace[i].thread
            /\ c.fn = trace[i].fn /\ c.complete = FALSE
            /\ trace[i].thread = p.calls[1].thread /\ trace[i].fn = p.calls[1].fn
        BY <2>1, <2>2, <3>1 DEF CallOf, Call
      <4>2. CallOf(trace, i, FALSE) \in Call
        BY <2>1, <2>2, <4>1 DEF CallOf, Call
      <4>3. QED
        BY <2>2, <4>1, <4>2, CallsEqual DEF CallOf
    <3>3. ~LeftBefore(trace, c.no, p.pos)
      BY <2>2, <2>13 DEF Reading, Pending
    <3>4. \A j \in DOMAIN trace : j < p.pos
      BY <1>1, ReadingFacts
    <3>5. Left(trace, c.no) = {}
      BY <3>3, <3>4 DEF LeftBefore, Left
    <3>6. QED
      BY <2>6, <3>1, <3>2, <3>5
  <2>15. Returned(q, from, g)
    <3>1. ASSUME NEW k \in DOMAIN got
          PROVE  /\ \E i \in Entered(q, from) : g[k] = CallOf(trace, i, g[k].complete)
                 /\ IF g[k].complete
                      THEN \E j \in Left(trace, g[k].no) : j < q.pos /\ trace[j].whole
                      ELSE q.pos > Len(trace) /\ Left(trace, g[k].no) = {}
                 /\ \A l \in DOMAIN q.calls : ~g[k].complete => g[k].no < q.calls[l].no
      <4>1. g[k] = got[k]
        BY <2>10, <2>11
      <4>2. QED
        BY <2>5, <2>6, <2>7, <4>1, ZenonT(30) DEF Reading, Returned
    <3>2. /\ \E i \in Entered(q, from) : g[m + 1] = CallOf(trace, i, g[m + 1].complete)
          /\ IF g[m + 1].complete
               THEN \E j \in Left(trace, g[m + 1].no) : j < q.pos /\ trace[j].whole
               ELSE q.pos > Len(trace) /\ Left(trace, g[m + 1].no) = {}
          /\ \A l \in DOMAIN q.calls : ~g[m + 1].complete => g[m + 1].no < q.calls[l].no
      <4>1. g[m + 1].complete = FALSE
        BY <2>2, <2>11 DEF Call
      <4>2. \A l \in DOMAIN q.calls : c.no < q.calls[l].no
        <5>1. \A l \in 1..(n - 1) : 1 < l + 1
          BY <2>1 DEF n
        <5>2. QED
          BY <2>2, <2>7, <2>8, <2>13, <5>1
      <4>3. QED
        BY <2>5, <2>11, <2>14, <4>1, <4>2
    <3>3. QED
      BY <2>5, <2>12, <3>1, <3>2 DEF Returned
  <2>16. InOrder(trace, g)
    <3>1. SUFFICES ASSUME NEW k \in DOMAIN g, NEW l \in DOMAIN g, k < l
          PROVE  /\ g[l].complete =>
                      /\ g[k].complete
                      /\ \E i \in Left(trace, g[k].no), j \in Left(trace, g[l].no) : i < j
                 /\ ~g[k].complete => g[k].no < g[l].no
      BY DEF InOrder
    <3>2. k \in DOMAIN got /\ g[k] = got[k]
      BY <2>10, <2>11, <3>1
    <3>3. CASE l \in DOMAIN got
      <4>1. g[l] = got[l]
        BY <2>10, <2>11, <3>3
      <4>2. QED
        BY <3>1, <3>2, <3>3, <4>1 DEF Reading, InOrder
    <3>4. CASE l = m + 1
      <4>1. g[l] = c
        BY <2>11, <3>4
      <4>2. ~got[k].complete => got[k].no < p.calls[1].no
        BY <2>13, <3>2 DEF Reading, Returned
      <4>3. QED
        BY <2>2, <3>2, <4>1, <4>2
    <3>5. QED
      BY <2>12, <3>3, <3>4
  <2>17. Accounted(q, from, g)
    <3>1. SUFFICES ASSUME NEW i \in Entered(p, from)
          PROVE  \/ \E k \in DOMAIN q.calls : q.calls[k].no = NumberOf(trace, i)
                 \/ \E k \in DOMAIN g : g[k].no = NumberOf(trace, i)
                 \/ \E j \in Left(trace, NumberOf(trace, i)) : ~trace[j].whole
      BY <2>5, <2>6 DEF Accounted
    <3>2. \A k \in DOMAIN got : k \in DOMAIN g /\ g[k].no = got[k].no
      BY <2>10, <2>11
    <3>3. m + 1 \in DOMAIN g /\ g[m + 1].no = p.calls[1].no
      BY <2>2, <2>10, <2>11
    <3>4. ASSUME NEW k \in DOMAIN p.calls
          PROVE  k = 1 \/ \E l \in DOMAIN q.calls : q.calls[l].no = p.calls[k].no
      <4>1. CASE k # 1
        <5>1. k - 1 \in 1..(n - 1) /\ k - 1 + 1 = k
          BY <1>1, <4>1 DEF n
        <5>2. QED
          BY <2>7, <5>1
      <4>2. QED
        BY <4>1
    <3>5. QED
      BY <3>2, <3>3, <3>4 DEF Reading, Accounted
  <2>18. Reading(q, from, g)
    BY <2>5, <2>6, <2>9, <2>11, <2>15, <2>16, <2>17 DEF Reading
  <2>19. QED
    BY <2>5, <2>6, <2>18 DEF q, g
<1>5. QED
  BY <1>3, <1>4

-----------------------------------------------------------------------------
(* parse_call: as many turns as it takes.                                  *)
LEMMA EventKeeps ==
  ASSUME NEW p, NEW from, NEW got, Reading(p, from, got), p.out = "reading"
  PROVE  LET q == ParseEvent(p) IN
         /\ Reading(q, from, IF q.out = "call" THEN Append(got, q.call) ELSE got)
         /\ Knows(p, q) /\ q.out \in {"reading", "call", "end"}
         /\ q.out = "reading" => q.pos = p.pos + 1
<1>1. CASE p.pos > Len(p.trace)
  <2>1. ParseEvent(p) = ParseEnd(p)
    BY <1>1 DEF ParseEvent
  <2>2. QED
    BY <1>1, <2>1, EndKeeps
<1>2. CASE ~(p.pos > Len(p.trace))
  <2>1. p.pos \in DOMAIN p.trace
    BY <1>2, ReadingFacts
  <2>2. CASE p.trace[p.pos].kind = "enter"
    <3>1. ParseEvent(p) = ParseEnter(p, p.trace[p.pos])
      BY <1>2, <2>2 DEF ParseEvent
    <3>2. QED
      BY <2>1, <2>2, <3>1, EnterKeeps
  <2>3. CASE p.trace[p.pos].kind # "enter"
    <3>1. ParseEvent(p) = ParseLeave(p, p.trace[p.pos])
      BY <1>2, <2>3 DEF ParseEvent
    <3>2. QED
      BY <2>1, <2>3, <3>1, LeaveKeeps
  <2>4. QED
    BY <2>2, <2>3
<1>3. QED
  BY <1>1, <1>2

(* What ParseCall defines by recursion: the parser after each turn.        *)
Ready(p) == [p EXCEPT !.out = "reading"]

Turns(p, m, g) ==
  /\ g = [n \in 0..m |-> g[n]]
  /\ \A n \in 0..m : g[n] = IF n = 0 THEN Ready(p) ELSE ParseEvent(g[n - 1])

LEMMA TurnsEquation ==
  ASSUME NEW p, NEW m, NEW g
  PROVE  Turns(p, m, g) <=>
           g = [n \in 0..m |-> IF n = 0 THEN Ready(p) ELSE ParseEvent(g[n - 1])]
<1> DEFINE F == [n \in 0..m |-> IF n = 0 THEN Ready(p) ELSE ParseEvent(g[n - 1])]
<1>1. /\ F = [n \in 0..m |-> F[n]]
      /\ \A n \in 0..m : F[n] = IF n = 0 THEN Ready(p) ELSE ParseEvent(g[n - 1])
  OBVIOUS
<1>2. ASSUME \A n \in 0..m : g[n] = IF n = 0 THEN Ready(p) ELSE ParseEvent(g[n - 1])
      PROVE  F = [n \in 0..m |-> g[n]]
  BY <1>2
<1> HIDE DEF F
<1>3. Turns(p, m, g) => g = F
  BY <1>2 DEF Turns
<1>4. g = F => Turns(p, m, g)
  BY <1>1 DEF Turns
<1>5. QED
  BY <1>3, <1>4 DEF F

LEMMA TurnsSteps ==
  ASSUME NEW p, NEW m, NEW g, Turns(p, m, g)
  PROVE  \A n \in 0..m : g[n] = IF n = 0 THEN Ready(p) ELSE ParseEvent(g[n - 1])
  BY Zenon DEF Turns

LEMMA TurnsExist ==
  ASSUME NEW p, NEW m \in Nat
  PROVE  \E g : Turns(p, m, g)
<1> DEFINE S == {k \in Nat : \E g : Turns(p, k, g)}
<1>1. 0 \in S
  <2> DEFINE g == [n \in 0..0 |-> Ready(p)]
  <2>1. g = [n \in 0..0 |-> g[n]]
    OBVIOUS
  <2>2. \A n \in 0..0 : n = 0 /\ g[n] = Ready(p)
    OBVIOUS
  <2> HIDE DEF g
  <2>3. Turns(p, 0, g)
    BY <2>1, <2>2 DEF Turns
  <2>4. QED
    BY <2>3
<1>2. ASSUME NEW k \in Nat, k \in S PROVE k + 1 \in S
  <2>1. PICK g : Turns(p, k, g)
    BY <1>2
  <2> DEFINE h == [n \in 0..(k + 1) |->
                     IF n = 0 THEN Ready(p) ELSE ParseEvent(g[n - 1])]
  <2>2. /\ h = [n \in 0..(k + 1) |-> h[n]]
        /\ \A n \in 0..(k + 1) : h[n] = IF n = 0 THEN Ready(p) ELSE ParseEvent(g[n - 1])
    OBVIOUS
  <2> HIDE DEF h
  <2>3. \A n \in 0..k : h[n] = g[n]
    <3>1. \A n \in 0..k : g[n] = IF n = 0 THEN Ready(p) ELSE ParseEvent(g[n - 1])
      BY <2>1, TurnsSteps
    <3>2. \A n \in 0..k : n \in 0..(k + 1)
      OBVIOUS
    <3>3. QED
      BY <2>2, <3>1, <3>2, Zenon
  <2>4. \A n \in 0..(k + 1) : n # 0 => n - 1 \in 0..k
    OBVIOUS
  <2>5. \A n \in 0..(k + 1) : h[n] = IF n = 0 THEN Ready(p) ELSE ParseEvent(h[n - 1])
    BY <2>2, <2>3, <2>4
  <2>6. Turns(p, k + 1, h)
    BY <2>2, <2>5 DEF Turns
  <2>7. QED
    BY <2>6
<1>3. QED
  <2> HIDE DEF S
  <2>1. Nat \subseteq S
    BY <1>1, <1>2, NumbersByInduction
  <2>2. QED
    BY <2>1 DEF S

LEMMA ParseCallIs ==
  ASSUME NEW p, Len(p.trace) \in Nat
  PROVE  \E g : Turns(p, Len(p.trace) + 1, g) /\ ParseCall(p) = g[Len(p.trace) + 1]
<1> DEFINE m == Len(p.trace) + 1
           h == CHOOSE g : Turns(p, m, g)
<1>1. m \in Nat
  OBVIOUS
<1>2. Turns(p, m, h)
  <2> HIDE DEF m
  <2>1. QED
    BY <1>1, TurnsExist, Zenon
<1>3. ParseCall(p) = h[m]
  <2>1. h = CHOOSE g : g = [n \in 0..m |->
                              IF n = 0 THEN Ready(p) ELSE ParseEvent(g[n - 1])]
    BY TurnsEquation
  <2>2. QED
    BY <2>1 DEF ParseCall, Ready
<1> HIDE DEF h
<1>4. QED
  BY <1>2, <1>3

LEMMA ReadyKeeps ==
  ASSUME NEW p, NEW from, NEW got, Reading(p, from, got)
  PROVE  /\ Reading(Ready(p), from, got) /\ Knows(p, Ready(p))
         /\ Ready(p).out = "reading" /\ Ready(p).pos = p.pos
<1> DEFINE q == Ready(p)
<1>1. /\ q \in ParserState /\ q.trace = p.trace /\ q.pos = p.pos /\ q.next = p.next
      /\ q.known = p.known /\ q.ok = p.ok /\ q.calls = p.calls /\ q.out = "reading"
  <2>1. p \in ParserState
    BY DEF Reading
  <2>2. QED
    BY <2>1 DEF Ready, ParserState
<1> HIDE DEF q
<1>2. Knows(p, q) /\ Tables(q) /\ GetBookmark(q) = GetBookmark(p)
  BY <1>1 DEF Knows, Reading, Tables, GetBookmark
<1>3. Located(q, GetBookmark(q)) /\ Located(q, from)
  BY <1>2, LocatedKept DEF Reading
<1>4. Entered(q, from) = Entered(p, from)
  BY <1>1 DEF Entered
<1>5. Pending(q, from)
  BY <1>1, <1>4, Zenon DEF Reading, Pending
<1>6. Returned(q, from, got)
  BY <1>1, <1>4, Zenon DEF Reading, Returned
<1>7. Accounted(q, from, got)
  BY <1>1, <1>4, Zenon DEF Reading, Accounted
<1>8. Reading(q, from, got)
  BY <1>1, <1>2, <1>3, <1>5, <1>6, <1>7 DEF Reading
<1>9. QED
  BY <1>1, <1>2, <1>8 DEF q

(* A call of parse_call returns the next call, or tells that there is none. *)
LEMMA ParseCallKeeps ==
  ASSUME NEW p, NEW from, NEW got, Reading(p, from, got)
  PROVE  LET q == ParseCall(p) IN
         /\ Reading(q, from, IF q.out = "call" THEN Append(got, q.call) ELSE got)
         /\ Knows(p, q) /\ q.out \in {"call", "end"}
<1> DEFINE m == Len(p.trace) + 1
           Got(q) == IF q.out = "call" THEN Append(got, q.call) ELSE got
           Kept(n, q) == /\ Reading(q, from, Got(q)) /\ Knows(p, q)
                         /\ q.out \in {"reading", "call", "end"}
                         /\ q.out = "reading" => q.pos = p.pos + n
<1>1. Len(p.trace) \in Nat /\ m \in Nat /\ p.pos \in 1..m
  BY ReadingFacts
<1>2. PICK g : Turns(p, m, g) /\ ParseCall(p) = g[m]
  BY <1>1, ParseCallIs
<1>3. \A n \in 0..m : g[n] = IF n = 0 THEN Ready(p) ELSE ParseEvent(g[n - 1])
  BY <1>2, TurnsSteps
<1> HIDE DEF m
<1> DEFINE S == {n \in Nat : n \in 0..m => Kept(n, g[n])}
<1>4. 0 \in S
  <2>1. g[0] = Ready(p)
    BY <1>1, <1>3
  <2>2. Kept(0, Ready(p))
    <3>1. p.pos + 0 = p.pos
      BY <1>1
    <3>2. QED
      BY <3>1, ReadyKeeps
  <2>3. QED
    BY <2>1, <2>2
<1>5. ASSUME NEW n \in Nat, n \in S PROVE n + 1 \in S
  <2>1. SUFFICES ASSUME n + 1 \in 0..m PROVE Kept(n + 1, g[n + 1])
    OBVIOUS
  <2>2. Kept(n, g[n])
    <3>1. n \in 0..m
      BY <1>1, <2>1
    <3> HIDE DEF Kept
    <3>2. QED
      BY <1>5, <3>1 DEF S
  <2>3. g[n + 1] = ParseEvent(g[n])
    <3>1. n + 1 # 0 /\ n + 1 - 1 = n
      OBVIOUS
    <3>2. QED
      BY <1>3, <2>1, <3>1
  <2> DEFINE q == g[n]
             r == ParseEvent(q)
  <2>4. CASE q.out = "reading"
    <3>1. Reading(q, from, got)
      BY <2>2, <2>4
    <3>2. /\ Reading(r, from, Got(r)) /\ Knows(q, r) /\ r.out \in {"reading", "call", "end"}
          /\ r.out = "reading" => r.pos = q.pos + 1
      BY <2>4, <3>1, EventKeeps
    <3>3. Knows(p, r)
      BY <2>2, <3>2, KnowsTransitive
    <3>4. q.pos = p.pos + n /\ q.pos + 1 = p.pos + (n + 1)
      BY <1>1, <2>2, <2>4
    <3>5. Kept(n + 1, r)
      BY <3>2, <3>3, <3>4
    <3>6. QED
      BY <2>3, <3>5
  <2>5. CASE q.out # "reading"
    <3>1. r = q
      BY <2>5 DEF ParseEvent
    <3>2. Kept(n + 1, q)
      BY <2>2, <2>5
    <3>3. QED
      BY <2>3, <3>1, <3>2
  <2>6. QED
    BY <2>4, <2>5
<1>6. Kept(m, g[m])
  <2> HIDE DEF S
  <2>1. Nat \subseteq S
    BY <1>4, <1>5, NumbersByInduction
  <2>2. m \in S /\ m \in 0..m
    BY <1>1, <2>1
  <2>3. QED
    BY <2>2 DEF S
<1>7. g[m].out # "reading"
  <2>1. SUFFICES ASSUME g[m].out = "reading" PROVE FALSE
    OBVIOUS
  <2>2. Reading(g[m], from, got) /\ g[m].pos = p.pos + m /\ g[m].trace = p.trace
    BY <1>6, <2>1 DEF Knows
  <2>3. g[m].pos <= Len(p.trace) + 1
    BY <2>2, ReadingFacts
  <2>4. QED
    BY <1>1, <2>2, <2>3 DEF m
<1>8. QED
  BY <1>2, <1>6, <1>7

-----------------------------------------------------------------------------
(* The client's steps.                                                     *)

(* A parser put at a place has entered and returned nothing.               *)
LEMMA AtPlace ==
  ASSUME NEW p \in ParserState, IsTrace(p.trace), p.ok, Tables(p), p.calls = << >>,
         p.out # "end", Located(p, GetBookmark(p))
  PROVE  Reading(p, GetBookmark(p), << >>)
<1> DEFINE from == GetBookmark(p)
<1>1. from.pos = p.pos /\ p.pos \in Nat
  BY DEF GetBookmark, ParserState
<1>2. Entered(p, from) = {}
  BY <1>1, TraceTypes DEF Entered, Enters
<1>3. DOMAIN p.calls = {} /\ << >> \in Seq(Call)
  OBVIOUS
<1> DEFINE got == << >>
<1>4. DOMAIN got = {}
  OBVIOUS
<1> HIDE DEF from, got
<1>5. Pending(p, from)
  BY <1>3 DEF Pending
<1>6. Returned(p, from, got)
  BY <1>4 DEF Returned
<1>7. InOrder(p.trace, got)
  BY <1>4 DEF InOrder
<1>8. Accounted(p, from, got)
  BY <1>2 DEF Accounted
<1>9. from.pos <= p.pos
  BY <1>1
<1>10. Located(p, from) /\ got \in Seq(Call)
  BY <1>3 DEF from, got
<1>11. QED
  BY <1>5, <1>6, <1>7, <1>8, <1>9, <1>10 DEF Reading, from, got

(* The beginning of any trace is a place to read from.                     *)
LEMMA BeginningLocated ==
  ASSUME NEW p, IsTrace(p.trace)
  PROVE  Located(p, Beginning)
<1>1. /\ Len(p.trace) \in Nat /\ DOMAIN p.trace = 1..Len(p.trace)
      /\ NumberOf(p.trace, 1) = 0
  BY TraceTypes, NumberFirst
<1>2. Beginning \in Bookmark /\ Beginning.pos = 1 /\ Beginning.next = 0
  BY DEF Beginning, Bookmark
<1>3. \A id : Unused(p.trace, id, 1)
  BY <1>1 DEF Unused
<1>4. QED
  BY <1>1, <1>2, <1>3 DEF Located

(* A parser that has read nothing of a trace.                              *)
LEMMA FreshParser ==
  ASSUME NEW p \in ParserState, IsTrace(p.trace), p.ok, p.pos = 1, p.next = 0,
         p.calls = << >>, p.out # "end", \A id \in Ids : p.known[id] = 0
  PROVE  Reading(p, Beginning, << >>)
<1>1. GetBookmark(p) = Beginning
  BY DEF GetBookmark, Beginning
<1>2. Located(p, Beginning) /\ Tables(p)
  BY BeginningLocated DEF Tables
<1>3. QED
  BY <1>1, <1>2, AtPlace

LEMMA NewKeeps ==
  ASSUME NEW trace \in Traces \cup Later
  PROVE  LET p == NewParser(trace) IN p.trace = trace /\ Reading(p, Beginning, << >>)
<1> DEFINE p == NewParser(trace)
<1>1. IsTrace(trace)
  BY TracesAssumption
<1>2. /\ p \in ParserState /\ p.trace = trace /\ p.ok /\ p.pos = 1 /\ p.next = 0
      /\ p.calls = << >> /\ p.out # "end" /\ \A id \in Ids : p.known[id] = 0
  BY <1>1, TraceTypes DEF NewParser, ParserState, NoCall, Event
<1> HIDE DEF p
<1>3. QED
  BY <1>1, <1>2, FreshParser DEF p

LEMMA SetBookmarkKeeps ==
  ASSUME NEW p, NEW from, NEW got, Reading(p, from, got), NEW mark, Located(p, mark)
  PROVE  LET q == SetBookmark(p, mark) IN Reading(q, mark, << >>) /\ Knows(p, q)
<1> DEFINE q == SetBookmark(p, mark)
<1>1. p \in ParserState /\ mark \in Bookmark /\ IsTrace(p.trace) /\ p.ok /\ Tables(p)
  BY DEF Reading, Located
<1>2. /\ q \in ParserState /\ q.trace = p.trace /\ q.known = p.known /\ q.ok = p.ok
      /\ q.pos = mark.pos /\ q.next = mark.next /\ q.calls = << >> /\ q.out = "reading"
  <2> DEFINE none == << >>
  <2>1. none \in Seq(Call) /\ mark.pos \in Nat /\ mark.next \in Nat
    BY <1>1 DEF Bookmark
  <2> HIDE DEF none
  <2>2. q = [p EXCEPT !.pos = mark.pos, !.next = mark.next, !.calls = none,
                      !.out = "reading"]
    BY DEF SetBookmark, none
  <2>3. /\ q \in ParserState /\ q.trace = p.trace /\ q.known = p.known /\ q.ok = p.ok
        /\ q.pos = mark.pos /\ q.next = mark.next /\ q.calls = none /\ q.out = "reading"
    <3> HIDE DEF q
    <3>1. QED
      BY <1>1, <2>1, <2>2 DEF ParserState
  <2>4. QED
    BY <2>3 DEF none
<1> HIDE DEF q
<1>3. Knows(p, q) /\ Tables(q)
  BY <1>1, <1>2 DEF Knows, Tables
<1>4. GetBookmark(q) = mark
  BY <1>1, <1>2 DEF GetBookmark, Bookmark
<1>5. Reading(q, mark, << >>)
  BY <1>1, <1>2, <1>3, <1>4, LocatedKept, AtPlace
<1>6. QED
  BY <1>3, <1>5 DEF q

(* Another trace, when no table is left from the one before.               *)
LEMMA ReopenKeeps ==
  ASSUME NEW p, NEW from, NEW got, Reading(p, from, got),
         \A frame \in Frame : p.known[frame] = 0, NEW trace \in Later
  PROVE  LET q == Open(Close(p), trace) IN q.trace = trace /\ Reading(q, Beginning, << >>)
<1> DEFINE known == [id \in Ids |-> IF id \in Frame THEN p.known[id] ELSE 0]
           q == Open(Close(p), trace)
<1>1. p \in ParserState /\ p.ok /\ IsTrace(trace)
  BY TracesAssumption DEF Reading
<1>2. known \in [Ids -> Nat] /\ \A id \in Ids : known[id] = 0
  BY <1>1 DEF ParserState
<1> HIDE DEF known
<1>3. Close(p) = [p EXCEPT !.trace = NoTrace, !.next = 0, !.calls = << >>,
                           !.out = "reading", !.known = known]
  BY <1>1 DEF Close, known, ParserState
<1>4. /\ q \in ParserState /\ q.trace = trace /\ q.ok /\ q.pos = 1 /\ q.next = 0
      /\ q.calls = << >> /\ q.out # "end" /\ q.known = known
  <2> DEFINE none == << >>
             c == [p EXCEPT !.trace = NoTrace, !.next = 0, !.calls = none,
                            !.out = "reading", !.known = known]
  <2>1. none \in Seq(Call) /\ trace \in Seq(EnterEvent \cup LeaveEvent)
    BY <1>1, TraceTypes DEF Event
  <2>2. q = [c EXCEPT !.trace = trace, !.pos = 1]
    BY <1>3 DEF Open
  <2> HIDE DEF none, q
  <2>3. /\ c = [p EXCEPT !.trace = c.trace, !.next = 0, !.calls = none,
                         !.out = "reading", !.known = known]
        /\ c.pos = p.pos /\ c.call = p.call /\ c.ok = p.ok /\ c.next = 0
        /\ c.calls = none /\ c.out = "reading" /\ c.known = known
    BY <1>1 DEF ParserState
  <2>4. q = [trace |-> trace, pos |-> 1, next |-> 0, calls |-> none, known |-> known,
             out |-> "reading", call |-> p.call, ok |-> p.ok]
    BY <1>1, <2>2 DEF ParserState
  <2>5. q \in ParserState
    BY <1>1, <1>2, <2>1, <2>4 DEF ParserState
  <2>6. QED
    BY <1>1, <2>4, <2>5 DEF none
<1> HIDE DEF q
<1>5. QED
  BY <1>1, <1>2, <1>4, FreshParser DEF q

LEMMA TypesFollow ==
  ASSUME NEW p, NEW from, NEW got, Reading(p, from, got),
         NEW places, \A mark \in places : Located(p, mark)
  PROVE  /\ p.pos \in 1..Len(p.trace) + 1
         /\ p.next \in 0..Len(p.trace)
         /\ DOMAIN p.known = Ids
         /\ \A id \in Ids : p.known[id] \in Nat
         /\ places \subseteq [pos : Nat, next : Nat]
<1>1. /\ p \in ParserState /\ p.trace \in Seq(Event)
      /\ p.pos \in 1..Len(p.trace) + 1 /\ p.next = NumberOf(p.trace, p.pos)
  BY ReadingFacts
<1>2. p.next \in 0..Len(p.trace)
  <2>1. p.pos \in Nat
    BY <1>1
  <2>2. QED
    BY <1>1, <2>1, NumberType
<1>3. places \subseteq [pos : Nat, next : Nat]
  BY DEF Located, Bookmark
<1>4. QED
  BY <1>1, <1>2, <1>3 DEF ParserState

Placed ==
  /\ Reading(parser, start, returned)
  /\ \A mark \in marks : Located(parser, mark)
  /\ Located(parser, frameStart) /\ Located(parser, lastFrameStart)
  /\ asked = 0 => frameStart = Beginning /\ lastFrameStart = Beginning

LEMMA PlacedIsEnough == ReaderInv <=> Placed
<1>1. Placed => TypeOK
  <2>1. SUFFICES ASSUME Placed PROVE TypeOK
    OBVIOUS
  <2>2. QED
    BY <2>1, TypesFollow DEF Placed, TypeOK
<1>2. QED
  BY <1>1 DEF ReaderInv, Placed

LEMMA InitPlaced == LoopInit => Placed
<1>1. SUFFICES ASSUME LoopInit PROVE Placed
  OBVIOUS
<1>2. PICK trace \in Traces : parser = NewParser(trace)
  BY <1>1 DEF LoopInit, Init
<1>3. Reading(parser, Beginning, << >>)
  BY <1>2, NewKeeps
<1>4. /\ marks = {} /\ start = Beginning /\ returned = << >>
      /\ frameStart = Beginning /\ lastFrameStart = Beginning
  BY <1>1 DEF LoopInit, Init
<1>5. Located(parser, Beginning)
  BY <1>3, BeginningLocated DEF Reading
<1>6. QED
  BY <1>3, <1>4, <1>5 DEF Placed

LEMMA ParsePlaced ==
  ASSUME Placed, asked = 0, Parse, UNCHANGED <<loop, asked, passes>>
  PROVE  Placed'
<1> DEFINE q == ParseCall(parser)
<1>1. /\ Reading(q, start, IF q.out = "call" THEN Append(returned, q.call) ELSE returned)
      /\ Knows(parser, q) /\ q.out \in {"call", "end"}
  BY ParseCallKeeps DEF Placed
<1> HIDE DEF q
<1>2. /\ parser' = q /\ marks' = marks /\ start' = start /\ asked' = asked
      /\ frameStart' = frameStart /\ lastFrameStart' = lastFrameStart
      /\ returned' = IF q.out = "end" THEN returned ELSE Append(returned, q.call)
  BY DEF Parse, loop, q
<1>3. returned' = IF q.out = "call" THEN Append(returned, q.call) ELSE returned
  BY <1>1, <1>2
<1>4. Reading(parser', start', returned')
  BY <1>1, <1>2, <1>3
<1>5. \A mark : Located(parser, mark) => Located(parser', mark)
  BY <1>1, <1>2, LocatedKept
<1>6. QED
  BY <1>2, <1>4, <1>5 DEF Placed

LEMMA MarkPlaced ==
  ASSUME Placed, asked = 0, Mark, UNCHANGED <<loop, asked, passes>>
  PROVE  Placed'
<1>1. Located(parser, GetBookmark(parser))
  BY DEF Placed, Reading
<1>2. /\ marks' = marks \cup {GetBookmark(parser)}
      /\ parser' = parser /\ start' = start /\ returned' = returned
      /\ frameStart' = frameStart /\ lastFrameStart' = lastFrameStart /\ asked' = asked
  BY DEF Mark, loop
<1>3. QED
  BY <1>1, <1>2 DEF Placed

LEMMA SeekPlaced ==
  ASSUME Placed, asked = 0, Seek, UNCHANGED <<loop, asked, passes>>
  PROVE  Placed'
<1>1. PICK mark \in marks :
        /\ parser' = SetBookmark(parser, mark) /\ start' = mark
        /\ returned' = << >> /\ marks' = marks
  BY DEF Seek
<1>2. frameStart' = frameStart /\ lastFrameStart' = lastFrameStart /\ asked' = asked
  BY DEF loop
<1>3. Located(parser, mark)
  BY DEF Placed
<1>4. Reading(parser', start', returned') /\ Knows(parser, parser')
  BY <1>1, <1>3, SetBookmarkKeeps DEF Placed
<1>5. \A m : Located(parser, m) => Located(parser', m)
  BY <1>4, LocatedKept
<1>6. QED
  BY <1>1, <1>2, <1>4, <1>5 DEF Placed

(* No stack frame of the trace before is known: ~AfterFrames.              *)
LEMMA ReopenPlaced ==
  ASSUME ~AfterFrames, Placed, asked = 0, Reopen, UNCHANGED <<loop, asked, passes>>
  PROVE  Placed'
<1>1. PICK trace \in Later :
        /\ \A frame \in Frame : parser.known[frame] = 0
        /\ parser' = Open(Close(parser), trace) /\ marks' = {}
        /\ start' = Beginning /\ returned' = << >>
  BY DEF Reopen
<1>2. /\ frameStart' = Beginning /\ lastFrameStart' = Beginning /\ asked' = asked
  BY DEF Placed, loop
<1>3. Reading(parser', start', returned')
  BY <1>1, ReopenKeeps DEF Placed
<1>4. Located(parser', Beginning)
  BY <1>3, BeginningLocated DEF Reading
<1>5. QED
  BY <1>1, <1>2, <1>3, <1>4 DEF Placed

LEMMA ForwardsPlaced ==
  ASSUME Placed, Forwards
  PROVE  Placed'
<1> DEFINE q == ParseCall(parser)
<1>1. /\ Reading(q, start, IF q.out = "call" THEN Append(returned, q.call) ELSE returned)
      /\ Knows(parser, q)
  BY ParseCallKeeps DEF Placed
<1>2. /\ asked # 0 /\ q.out = "call" /\ parser' = q /\ returned' = Append(returned, q.call)
      /\ lastFrameStart' = frameStart
      /\ frameStart' = IF EndsFrame(q.call) THEN GetBookmark(q) ELSE frameStart
      /\ marks' = marks /\ start' = start /\ asked' = asked
  BY DEF Forwards, StartOfLast, StartOfFrame
<1> HIDE DEF q
<1>3. Reading(parser', start', returned')
  BY <1>1, <1>2
<1>4. \A mark : Located(parser, mark) => Located(q, mark)
  BY <1>1, LocatedKept
<1>5. Located(q, GetBookmark(q))
  BY <1>1 DEF Reading
<1>6. QED
  BY <1>2, <1>3, <1>4, <1>5 DEF Placed

LEMMA RestartPlaced ==
  ASSUME Placed, Restart
  PROVE  Placed'
<1> DEFINE p == ParseCall(parser)
           b == SetBookmark(p, lastFrameStart)
           q == ParseCall(b)
<1>1. /\ asked # 0 /\ p.out = "end" /\ parser' = q /\ start' = lastFrameStart
      /\ returned' = (IF q.out = "call" THEN <<q.call>> ELSE << >>)
      /\ frameStart' = lastFrameStart
      /\ marks' = marks /\ lastFrameStart' = lastFrameStart /\ asked' = asked
  BY DEF Restart
<1>2. Reading(p, start, returned) /\ Knows(parser, p)
  <2>1. /\ Reading(p, start, IF p.out = "call" THEN Append(returned, p.call) ELSE returned)
        /\ Knows(parser, p)
    BY ParseCallKeeps DEF Placed
  <2> HIDE DEF p
  <2>2. QED
    BY <1>1, <2>1
<1> HIDE DEF p
<1>3. Located(p, lastFrameStart)
  BY <1>2, LocatedKept DEF Placed
<1>4. Reading(b, lastFrameStart, << >>) /\ Knows(p, b)
  BY <1>2, <1>3, SetBookmarkKeeps
<1> HIDE DEF b
<1>5. /\ Reading(q, lastFrameStart, IF q.out = "call" THEN Append(<< >>, q.call) ELSE << >>)
      /\ Knows(b, q)
  BY <1>4, ParseCallKeeps
<1> HIDE DEF q
<1>6. Reading(parser', start', returned')
  <2>1. Append(<< >>, q.call) = <<q.call>>
    OBVIOUS
  <2>2. QED
    BY <1>1, <1>5, <2>1
<1>7. Knows(parser, q)
  BY <1>2, <1>4, <1>5, KnowsTransitive
<1>8. \A mark : Located(parser, mark) => Located(q, mark)
  BY <1>7, LocatedKept
<1>9. QED
  BY <1>1, <1>6, <1>8 DEF Placed

LEMMA OverPlaced ==
  ASSUME Placed, Over
  PROVE  Placed'
<1> DEFINE q == ParseCall(parser)
<1>1. /\ Reading(q, start, IF q.out = "call" THEN Append(returned, q.call) ELSE returned)
      /\ Knows(parser, q)
  BY ParseCallKeeps DEF Placed
<1>2. /\ asked # 0 /\ q.out = "end" /\ parser' = q
      /\ marks' = marks /\ start' = start /\ returned' = returned /\ asked' = asked
      /\ frameStart' = frameStart /\ lastFrameStart' = lastFrameStart
  BY DEF Over, loop
<1> HIDE DEF q
<1>3. Reading(parser', start', returned')
  BY <1>1, <1>2
<1>4. \A mark : Located(parser, mark) => Located(q, mark)
  BY <1>1, LocatedKept
<1>5. QED
  BY <1>2, <1>3, <1>4 DEF Placed

LEMMA StepPlaced ==
  ASSUME ~AfterFrames, Placed, [LoopNext]_loopVars
  PROVE  Placed'
<1>1. CASE UNCHANGED loopVars
  BY <1>1 DEF loopVars, vars, loop, Placed
<1>2. CASE asked = 0 /\ Next /\ UNCHANGED <<loop, asked, passes>>
  BY <1>2, ParsePlaced, MarkPlaced, SeekPlaced, ReopenPlaced DEF Next
<1>3. QED
  BY <1>1, <1>2, ForwardsPlaced, RestartPlaced, OverPlaced DEF LoopNext

(* The tables, the bookmarks and the calls of the parser agree with the    *)
(* trace in every state, whatever client or --loop reads it: the state     *)
(* parse_call and setBookmark of trace_parser.cpp rely on.  ~AfterFrames   *)
(* keeps to a parser that opens no trace after it has read stack frames.   *)
THEOREM ReaderInvariant ==
  ASSUME ~AfterFrames
  PROVE  LoopSpec => []ReaderInv
<1>1. LoopInit => Placed
  BY InitPlaced
<1>2. Placed /\ [LoopNext]_loopVars => Placed'
  BY StepPlaced
<1>3. Placed => ReaderInv
  BY PlacedIsEnough
<1>4. QED
  BY <1>1, <1>2, <1>3, PTL DEF LoopSpec

-----------------------------------------------------------------------------
(* What the invariant says of the calls returned.                          *)

(* A call is left at one place, so it is left whole or cut off, not both.  *)
LEMMA LeftOnce ==
  ASSUME NEW trace, IsTrace(trace), NEW no, NEW i \in Left(trace, no),
         NEW j \in Left(trace, no)
  PROVE  i = j
<1>1. /\ i \in DOMAIN trace /\ trace[i].kind = "leave" /\ trace[i].no = no
  BY DEF Left
<1>2. Left(trace, trace[i].no) = {i}
  BY <1>1, Zenon DEF IsTrace
<1>3. QED
  BY <1>1, <1>2

LEMMA CallFacts ==
  ASSUME NEW trace, IsTrace(trace), NEW from, NEW i \in Calls(trace, from)
  PROVE  /\ i \in Enters(trace) /\ i \in DOMAIN trace /\ i \in Nat
         /\ i >= from.pos /\ trace[i].whole
         /\ NumberOf(trace, i) \in Nat /\ Left(trace, NumberOf(trace, i)) \subseteq Nat
         /\ \A j \in Left(trace, NumberOf(trace, i)) : trace[j].whole
         /\ Complete(trace, i) <=> Left(trace, NumberOf(trace, i)) # {}
         /\ Whole(trace, i).no = NumberOf(trace, i)
         /\ Whole(trace, i).complete <=> Complete(trace, i)
<1>1. /\ trace \in Seq(Event) /\ DOMAIN trace = 1..Len(trace) /\ Len(trace) \in Nat
  BY TraceTypes
<1>2. /\ i \in Enters(trace) /\ i >= from.pos /\ trace[i].whole /\ ~CutOff(trace, i)
  BY DEF Calls
<1>3. i \in DOMAIN trace /\ i \in Nat
  BY <1>1, <1>2 DEF Enters
<1>4. NumberOf(trace, i) \in Nat
  BY <1>1, <1>3, NumberType
<1>5. Left(trace, NumberOf(trace, i)) \subseteq Nat
  BY <1>1 DEF Left
<1>6. /\ \A j \in Left(trace, NumberOf(trace, i)) : trace[j].whole
      /\ Complete(trace, i) <=> Left(trace, NumberOf(trace, i)) # {}
  BY <1>2 DEF CutOff, Complete
<1>7. /\ Whole(trace, i).no = NumberOf(trace, i)
      /\ Whole(trace, i).complete <=> Complete(trace, i)
  BY DEF Whole, CallOf
<1>8. QED
  BY <1>2, <1>3, <1>4, <1>5, <1>6, <1>7

(* Numbers order the calls as the places they are entered at.              *)
LEMMA NumbersOrder ==
  ASSUME NEW trace \in Seq(Event), NEW i \in Enters(trace), NEW j \in Enters(trace)
  PROVE  i < j <=> NumberOf(trace, i) < NumberOf(trace, j)
<1>1. i \in Nat /\ j \in Nat
  BY DEF Enters
<1>2. NumberOf(trace, i) \in Nat /\ NumberOf(trace, j) \in Nat
  BY <1>1, NumberType
<1>3. i < j => NumberOf(trace, i) < NumberOf(trace, j)
  BY <1>1, NumberGrows
<1>4. j <= i => NumberOf(trace, j) <= NumberOf(trace, i)
  BY <1>1, NumberGrows
<1>5. QED
  BY <1>1, <1>2, <1>3, <1>4

LEMMA ReturnedIsCall ==
  ASSUME NEW p, NEW from, NEW got, Reading(p, from, got), NEW k \in DOMAIN got
  PROVE  \E i \in Calls(p.trace, from) : got[k] = Whole(p.trace, i)
<1> DEFINE trace == p.trace
<1>1. /\ IsTrace(trace) /\ got[k].complete \in BOOLEAN /\ from.pos \in Nat
      /\ DOMAIN trace = 1..Len(trace) /\ Len(trace) \in Nat
  BY ReadingFacts
<1>2. PICK i \in Entered(p, from) : got[k] = CallOf(trace, i, got[k].complete)
  BY DEF Reading, Returned
<1>3. /\ i \in Enters(trace) /\ trace[i].whole /\ from.pos <= i
      /\ got[k].no = NumberOf(trace, i)
  BY <1>2 DEF Entered, CallOf
<1>4. IF got[k].complete
        THEN \E j \in Left(trace, got[k].no) : j < p.pos /\ trace[j].whole
        ELSE p.pos > Len(trace) /\ Left(trace, got[k].no) = {}
  BY DEF Reading, Returned
<1>5. \A a, b \in Left(trace, got[k].no) : a = b
  BY <1>1, LeftOnce
<1> HIDE DEF trace
<1>6. (got[k].complete <=> Complete(trace, i)) /\ ~CutOff(trace, i)
  BY <1>1, <1>3, <1>4, <1>5 DEF Complete, CutOff
<1>7. got[k].complete = Complete(trace, i)
  BY <1>1, <1>6 DEF Complete
<1>8. i \in Calls(trace, from)
  <2>1. i \in Nat
    BY <1>1, <1>3 DEF Enters
  <2>2. i >= from.pos
    BY <1>1, <1>3, <2>1
  <2>3. QED
    BY <1>3, <1>6, <2>2 DEF Calls
<1>9. got[k] = Whole(trace, i)
  BY <1>2, <1>7, Zenon DEF Whole
<1>10. QED
  BY <1>8, <1>9 DEF trace

(* A call that has been entered and is not pending has been returned.      *)
LEMMA EnteredIsReturned ==
  ASSUME NEW p, NEW from, NEW got, Reading(p, from, got),
         NEW i \in Calls(p.trace, from), i < p.pos,
         \A k \in DOMAIN p.calls : p.calls[k].no # NumberOf(p.trace, i)
  PROVE  \E k \in DOMAIN got : got[k] = Whole(p.trace, i)
<1> DEFINE trace == p.trace
<1>1. IsTrace(trace) /\ trace \in Seq(Event) /\ from.pos \in Nat
  BY ReadingFacts
<1>2. /\ i \in Enters(trace) /\ i \in Nat /\ i >= from.pos /\ trace[i].whole
      /\ \A j \in Left(trace, NumberOf(trace, i)) : trace[j].whole
  BY <1>1, CallFacts
<1>3. i \in Entered(p, from)
  BY <1>1, <1>2 DEF Entered
<1>4. PICK k \in DOMAIN got : got[k].no = NumberOf(trace, i)
  <2>1. \/ \E k \in DOMAIN p.calls : p.calls[k].no = NumberOf(trace, i)
        \/ \E k \in DOMAIN got : got[k].no = NumberOf(trace, i)
        \/ \E j \in Left(trace, NumberOf(trace, i)) : ~trace[j].whole
    BY <1>3 DEF Reading, Accounted
  <2>2. QED
    BY <1>2, <2>1
<1>5. PICK j \in Calls(trace, from) : got[k] = Whole(trace, j)
  BY ReturnedIsCall
<1>6. i = j
  <2>1. got[k].no = NumberOf(trace, j) /\ j \in Enters(trace)
    BY <1>1, <1>5, CallFacts
  <2>2. QED
    BY <1>1, <1>2, <1>4, <2>1, NumberUnique
<1>7. QED
  BY <1>5, <1>6

(* What comes before a call that has been returned has been returned.      *)
LEMMA BeforeIsReturned ==
  ASSUME NEW p, NEW from, NEW got, Reading(p, from, got), NEW k \in DOMAIN got,
         NEW i \in Calls(p.trace, from), got[k] = Whole(p.trace, i),
         NEW j \in Calls(p.trace, from), Before(p.trace, j, i)
  PROVE  \E l \in DOMAIN got : got[l] = Whole(p.trace, j)
<1> DEFINE trace == p.trace
           no == NumberOf(trace, j)
<1>1. /\ IsTrace(trace) /\ trace \in Seq(Event) /\ p.pos \in Nat
      /\ DOMAIN trace = 1..Len(trace) /\ Len(trace) \in Nat
  BY ReadingFacts
<1>2. /\ got[k].no = NumberOf(trace, i) /\ (got[k].complete <=> Complete(trace, i))
      /\ i \in Enters(trace) /\ NumberOf(trace, i) \in Nat
  BY <1>1, CallFacts
<1>3. /\ j \in Enters(trace) /\ j \in DOMAIN trace /\ j \in Nat /\ no \in Nat
      /\ Left(trace, no) \subseteq DOMAIN trace
      /\ Complete(trace, j) <=> Left(trace, no) # {}
  BY <1>1, CallFacts DEF Left
<1>4. IF got[k].complete
        THEN \E m \in Left(trace, got[k].no) : m < p.pos /\ trace[m].whole
        ELSE p.pos > Len(trace) /\ Left(trace, got[k].no) = {}
  BY DEF Reading, Returned
<1>5. \A m \in DOMAIN p.calls : ~LeftBefore(trace, p.calls[m].no, p.pos)
  BY DEF Reading, Pending
<1>6. SUFFICES j < p.pos /\ \A m \in DOMAIN p.calls : p.calls[m].no # no
  BY EnteredIsReturned
<1> HIDE DEF trace, no
<1>7. CASE Complete(trace, i)
  <2>1. PICK m \in Left(trace, no), n \in Left(trace, NumberOf(trace, i)) : m < n
    BY <1>7 DEF Before, trace, no
  <2>2. n < p.pos
    <3>1. \A a, b \in Left(trace, got[k].no) : a = b
      BY <1>1, LeftOnce
    <3>2. QED
      BY <1>2, <1>4, <1>7, <2>1, <3>1
  <2>3. m \in Nat /\ n \in Nat /\ m \in DOMAIN trace
    BY <1>1, <2>1 DEF Left
  <2>4. m < p.pos
    BY <1>1, <2>1, <2>2, <2>3
  <2>5. LeftBefore(trace, no, p.pos)
    BY <2>1, <2>4 DEF LeftBefore
  <2>6. j < m
    <3>1. trace[m].kind = "leave" /\ trace[m].no = no
      BY <2>1 DEF Left
    <3>2. no < NumberOf(trace, m)
      BY <1>1, <2>3, <3>1 DEF IsTrace
    <3>3. m <= j => NumberOf(trace, m) <= no
      BY <1>1, <1>3, <2>3, NumberGrows DEF no
    <3>4. NumberOf(trace, m) \in Nat
      BY <1>1, <2>3, NumberType
    <3>5. QED
      BY <1>3, <2>3, <3>2, <3>3, <3>4
  <2>7. j < p.pos
    BY <1>1, <1>3, <2>3, <2>4, <2>6
  <2>8. QED
    BY <1>5, <2>5, <2>7
<1>8. CASE ~Complete(trace, i)
  <2>1. p.pos > Len(trace)
    BY <1>2, <1>4, <1>8
  <2>2. j < p.pos
    BY <1>1, <1>3, <2>1
  <2>3. SUFFICES ASSUME NEW m \in DOMAIN p.calls, p.calls[m].no = no PROVE FALSE
    BY <2>2
  <2>4. ~Complete(trace, j)
    <3>1. SUFFICES ASSUME Left(trace, no) # {} PROVE FALSE
      BY <1>3
    <3>2. PICK a \in Left(trace, no) : TRUE
      BY <3>1
    <3>3. a < p.pos
      BY <1>1, <1>3, <2>1, <3>2
    <3>4. QED
      BY <1>5, <2>3, <3>2, <3>3 DEF LeftBefore
  <2>5. j < i
    BY <1>8, <2>4 DEF Before, trace
  <2>6. no < NumberOf(trace, i)
    BY <1>1, <1>2, <1>3, <2>5, NumbersOrder DEF no
  <2>7. got[k].no < p.calls[m].no
    BY <1>2, <1>8 DEF Reading, Returned
  <2>8. QED
    BY <1>2, <1>3, <2>3, <2>6, <2>7
<1>9. QED
  BY <1>7, <1>8

(* Calls are returned in order.                                            *)
LEMMA ReturnedInOrder ==
  ASSUME NEW p, NEW from, NEW got, Reading(p, from, got),
         NEW k \in DOMAIN got, NEW l \in DOMAIN got, l < k,
         NEW i \in Calls(p.trace, from), got[k] = Whole(p.trace, i),
         NEW j \in Calls(p.trace, from), got[l] = Whole(p.trace, j)
  PROVE  Before(p.trace, j, i)
<1> DEFINE trace == p.trace
<1>1. IsTrace(trace) /\ trace \in Seq(Event)
  BY ReadingFacts
<1>2. /\ got[k].no = NumberOf(trace, i) /\ (got[k].complete <=> Complete(trace, i))
      /\ got[l].no = NumberOf(trace, j) /\ (got[l].complete <=> Complete(trace, j))
      /\ i \in Enters(trace) /\ j \in Enters(trace)
  BY <1>1, CallFacts
<1>3. /\ got[k].complete =>
           /\ got[l].complete
           /\ \E a \in Left(trace, got[l].no), b \in Left(trace, got[k].no) : a < b
      /\ ~got[l].complete => got[l].no < got[k].no
  BY DEF Reading, InOrder
<1> HIDE DEF trace
<1>4. CASE Complete(trace, i)
  BY <1>2, <1>3, <1>4 DEF Before, trace
<1>5. CASE ~Complete(trace, i) /\ ~Complete(trace, j)
  <2>1. j < i
    BY <1>1, <1>2, <1>3, <1>5, NumbersOrder
  <2>2. QED
    BY <1>5, <2>1 DEF Before, trace
<1>6. CASE ~Complete(trace, i) /\ Complete(trace, j)
  BY <1>6 DEF Before, trace
<1>7. QED
  BY <1>4, <1>5, <1>6

(* No call comes before itself, nor after one that it comes before.        *)
LEMMA BeforeIsStrict ==
  ASSUME NEW trace, IsTrace(trace), NEW from, NEW i \in Calls(trace, from),
         NEW j \in Calls(trace, from), Before(trace, j, i)
  PROVE  i # j /\ ~Before(trace, i, j)
<1>1. /\ i \in Nat /\ (Complete(trace, i) <=> Left(trace, NumberOf(trace, i)) # {})
      /\ j \in Nat /\ (Complete(trace, j) <=> Left(trace, NumberOf(trace, j)) # {})
      /\ Left(trace, NumberOf(trace, i)) \subseteq Nat
      /\ Left(trace, NumberOf(trace, j)) \subseteq Nat
  BY CallFacts
<1>2. /\ \A a, b \in Left(trace, NumberOf(trace, i)) : a = b
      /\ \A a, b \in Left(trace, NumberOf(trace, j)) : a = b
  BY LeftOnce
<1>3. CASE Complete(trace, i)
  <2>1. PICK m \in Left(trace, NumberOf(trace, j)), n \in Left(trace, NumberOf(trace, i)) :
          m < n
    BY <1>3 DEF Before
  <2>2. Complete(trace, j)
    BY <1>1, <2>1
  <2>3. QED
    BY <1>1, <1>2, <2>1, <2>2 DEF Before
<1>4. CASE ~Complete(trace, i)
  BY <1>1, <1>4 DEF Before
<1>5. QED
  BY <1>3, <1>4

LEMMA ReadingReadsTheTrace == ReaderInv => ReadsTheTrace
<1> SUFFICES ASSUME ReaderInv PROVE ReadsTheTrace
  OBVIOUS
<1> DEFINE trace == parser.trace
           calls == Calls(trace, start)
<1>1. Reading(parser, start, returned)
  BY DEF ReaderInv
<1>2. /\ IsTrace(trace) /\ NeverMisparses
      /\ DOMAIN returned = 1..Len(returned) /\ Len(returned) \in Nat
  BY <1>1, ReadingFacts DEF NeverMisparses
<1>3. ASSUME NEW k \in DOMAIN returned
      PROVE  \E i \in calls :
               /\ returned[k] = Whole(trace, i)
               /\ \A j \in calls :
                    Before(trace, j, i)
                      <=> \E l \in 1..(k - 1) : returned[l] = Whole(trace, j)
  <2>1. PICK i \in calls : returned[k] = Whole(trace, i)
    BY <1>1, ReturnedIsCall
  <2>2. ASSUME NEW j \in calls, Before(trace, j, i)
        PROVE  \E l \in 1..(k - 1) : returned[l] = Whole(trace, j)
    <3>1. PICK l \in DOMAIN returned : returned[l] = Whole(trace, j)
      BY <1>1, <2>1, <2>2, BeforeIsReturned
    <3>2. i # j /\ ~Before(trace, i, j)
      BY <1>2, <2>2, BeforeIsStrict
    <3>3. l # k
      <4>1. SUFFICES ASSUME l = k PROVE i = j
        BY <3>2
      <4>2. /\ Whole(trace, i).no = NumberOf(trace, i) /\ i \in Enters(trace)
            /\ Whole(trace, j).no = NumberOf(trace, j) /\ j \in Enters(trace)
        BY <1>2, CallFacts
      <4>3. NumberOf(trace, i) = NumberOf(trace, j)
        BY <2>1, <3>1, <4>1, <4>2
      <4>4. QED
        BY <1>2, <4>2, <4>3, TraceTypes, NumberUnique
    <3>4. ~(k < l)
      BY <1>1, <2>1, <3>1, <3>2, ReturnedInOrder
    <3>5. l \in 1..(k - 1)
      BY <1>2, <3>3, <3>4
    <3>6. QED
      BY <3>1, <3>5
  <2>3. ASSUME NEW j \in calls, NEW l \in 1..(k - 1), returned[l] = Whole(trace, j)
        PROVE  Before(trace, j, i)
    <3>1. l \in DOMAIN returned /\ l < k
      BY <1>2
    <3>2. QED
      BY <1>1, <2>1, <2>3, <3>1, ReturnedInOrder
  <2>4. QED
    BY <2>1, <2>2, <2>3
<1>4. ASSUME parser.out = "end", NEW i \in calls
      PROVE  \E k \in DOMAIN returned : returned[k] = Whole(trace, i)
  <2>1. parser.calls = << >> /\ parser.pos > Len(trace) /\ parser.pos \in Nat
    BY <1>1, <1>4, ReadingFacts DEF Reading
  <2>2. i \in 1..Len(trace) /\ Len(trace) \in Nat
    BY <1>2, CallFacts, TraceTypes
  <2>3. i < parser.pos /\ DOMAIN parser.calls = {}
    BY <2>1, <2>2
  <2>4. QED
    BY <1>1, <2>3, EnteredIsReturned
<1>5. QED
  BY <1>2, <1>3, <1>4 DEF ReadsTheTrace

(* No definition in the file is missed or read twice, from whatever        *)
(* bookmark reading began: the comment on fileOffset, trace_parser.hpp:83. *)
THEOREM NeverMisparsesHolds ==
  ASSUME ~AfterFrames
  PROVE  LoopSpec => []NeverMisparses
<1>1. ReaderInv => NeverMisparses
  BY DEF ReaderInv, Reading, NeverMisparses
<1>2. QED
  BY <1>1, ReaderInvariant, PTL

(* From a bookmark on, parse_call returns each call of the trace once and  *)
(* in order, under its own number, complete if it was left, and at the end *)
(* none is missing.                                                        *)
THEOREM ReadsTheTraceHolds ==
  ASSUME ~AfterFrames
  PROVE  LoopSpec => []ReadsTheTrace
<1>1. QED
  BY ReadingReadsTheTrace, ReaderInvariant, PTL
=============================================================================
