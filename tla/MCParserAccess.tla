---------------------------- MODULE MCParserAccess ----------------------------
(* ParserAccess and LastFrameLoop over every well-formed trace of a few    *)
(* events: what LocalWriter shows about traces (TraceWellFormed), as a     *)
(* generator.                                                              *)
EXTENDS LastFrameLoopInv, TLC

CONSTANTS t1, t2, f, g, a, e, MaxEvents, MaxLater

MCThread == {t1, t2}
MCFunction == {f, g}
MCFrame == {a}
MCType == {e}

\* g ends a frame.
MCEndFrame == {g}
MCLoopCounts == {0, 2, -1}
MCNoLoops == {0}

\* Threads are interchangeable.
MCSymmetry == Permutations({t1, t2})

Occurs(s, id) == \E i \in DOMAIN s : id \in s[i].spelled

New(s, ids) == {id \in ids \ {None} : ~Occurs(s, id)}

\* Threads with a call they have not left, and its number.
InCall(s) ==
  {no \in 0..Cardinality(Enters(s)) - 1 : Left(s, no) = {}}

ThreadOf(s, no) == s[CHOOSE i \in Enters(s) : NumberOf(s, i) = no].thread

FunctionOf(s, no) == s[CHOOSE i \in Enters(s) : NumberOf(s, i) = no].fn

\* One event more.  Only f returns a value with a type.
Longer(s) ==
  { Append(s, [kind |-> "enter", thread |-> t, fn |-> fn, frame |-> fr,
               spelled |-> New(s, {fn, fr}), whole |-> TRUE]) :
      t \in MCThread \ {ThreadOf(s, no) : no \in InCall(s)},
      fn \in MCFunction, fr \in {None} \cup MCFrame }
  \cup
  { Append(s, LET type == IF FunctionOf(s, no) = f THEN e ELSE None IN
              [kind |-> "leave", no |-> no, type |-> type,
               spelled |-> New(s, {type}), whole |-> TRUE]) : no \in InCall(s) }

OfLength[n \in 0..MaxEvents] ==
  IF n = 0 THEN {<< >>} ELSE UNION {Longer(s) : s \in OfLength[n - 1]}

Cut(s) == [s EXCEPT ![Len(s)].whole = FALSE]

MCTraces ==
  LET whole == UNION {OfLength[n] : n \in 0..MaxEvents}
  IN whole \cup {Cut(s) : s \in whole \ {<< >>}}

MCLater == UNION {OfLength[n] : n \in 0..MaxLater}
=============================================================================
