------------------------------ MODULE TraceLoader ------------------------------
(* The trace loader of the GUI (gui/traceloader.cpp), which reads frames   *)
(* of a trace on a thread of its own when they are looked at or searched,  *)
(* and ApiTrace (gui/apitrace.cpp), which asks it to on the thread of the  *)
(* views.  The two send each other signals, which arrive in order; frames  *)
(* are shared: the loader looks whether the views have a frame already.    *)
(*                                                                         *)
(* A slot of the loader is a step: what it emits comes at its end and all  *)
(* it reads of the views is isLoaded.                                      *)
EXTENDS Parser, Integers, FiniteSets

CONSTANTS EndFrame,     \* functions that have CALL_FLAG_END_FRAME
          Files,        \* traces: the files that can be opened
          Numbers,      \* of calls: those the user may jump to
          Texts,        \* functions the user may search for
          MaxRequests   \* bound: what the user asks for

ASSUME EndFrameAssumption == EndFrame \subseteq Function
ASSUME RequestsAssumption == MaxRequests \in Nat /\ Numbers \subseteq Nat /\ Texts \subseteq Function

VARIABLES
  fileName,    \* ApiTrace::m_fileName, the trace itself or NoTrace
  frames,      \* the ApiTraceFrames that the loader has created
  listed,      \* whether addFrames has put them into m_frames
  loading,     \* m_loadingFrames
  errors,      \* m_queuedErrors: frames and calls
  marked,      \* m_errors: calls
  toLoader, toGui,
  parser,      \* m_parser
  bookmarks,   \* m_frameBookmarks
  batch,       \* distinguishes the ApiTraceCalls of one load from the next
  asked,       \* history: how many requests of the user there were
  waiting,     \* history: those of this trace the loader has to answer
  answers,     \* history: to which of them, and the call the views went to
  reported,    \* history: calls of this trace that had errors in a replay
  failed       \* history: functions of which an assert has failed

gui == <<fileName, listed, loading, errors, marked>>
history == <<asked, waiting, answers, reported>>
vars == <<gui, frames, toLoader, toGui, parser, bookmarks, batch, history, failed>>

NoOne == [no |-> -1]            \* the null ApiTraceCall

Init ==
  /\ fileName = NoTrace /\ frames = << >> /\ listed = FALSE
  /\ loading = {} /\ errors = {} /\ marked = {}
  /\ toLoader = << >> /\ toGui = << >>
  /\ parser = Close(NewParser(NoTrace)) /\ bookmarks = << >> /\ batch = 0
  /\ asked = 0 /\ waiting = {} /\ answers = {} /\ reported = {} /\ failed = {}

Running == failed = {}          \* a failed assert ends the program

(* The event loop of a thread.                                             *)
Handles(queue) ==
  /\ Running
  /\ queue # << >>
  /\ queue' = Tail(queue)

EndsFrame(call) == call.fn \in EndFrame

-----------------------------------------------------------------------------
(* Reading on the loader's thread.                                         *)
(* (A quantifier over the set of one value names it and has it read once.) *)

(* p after calls have been read, at most so many of them, up to one of the *)
(* functions fns or the end; got are the calls.                            *)
ReadUntil(p, fns, most) ==
  LET Enough(got) == got # << >> /\ (Last(got).fn \in fns \/ Len(got) = most)
      Step(s) ==
        LET q == ParseCall(s.parser) IN
        IF Enough(s.got) \/ s.parser.out = "end" THEN s
        ELSE [parser |-> q,
              got |-> IF q.out = "call" THEN Append(s.got, q.call) ELSE s.got]
      After[n \in 0..Len(p.trace) + 1] ==
        IF n = 0 THEN [parser |-> p, got |-> << >>] ELSE Step(After[n - 1])
  IN After[Len(p.trace) + 1]

ReadFrame(p) == ReadUntil(p, EndFrame, Len(p.trace))

(* scanTrace: of each frame, its bookmark and how many calls end in it.    *)
ScanTrace(p) ==
  LET More(s) ==
        LET read == ReadFrame(s.parser) IN
        IF read.got = << >> THEN [s EXCEPT !.parser = read.parser]
        ELSE [parser |-> read.parser,
              marks |-> Append(s.marks, [start |-> GetBookmark(s.parser),
                                         calls |-> Len(read.got)])]
      After[n \in 0..Len(p.trace)] ==
        IF n = 0 THEN [parser |-> p, marks |-> << >>] ELSE More(After[n - 1])
  IN After[Len(p.trace)]

LeastOf(S) == CHOOSE i \in S : \A j \in S : i <= j
GreatestOf(S) == CHOOSE i \in S : \A j \in S : j <= i

Before(f, counts) ==            \* calls in the frames before
  LET Sum[i \in 0..f - 1] == IF i = 0 THEN 0 ELSE Sum[i - 1] + counts[i]
  IN Sum[f - 1]

OneOff(no, counts) ==           \* mutation: a frame too late at its last call
  {f \in DOMAIN counts :
    Before(f, counts) <= no + 1 /\ no + 1 < Before(f, counts) + counts[f]}

(* callInFrame: as if frames were ranges of call numbers.                  *)
InFrame(no, counts) ==
  {f \in DOMAIN counts :
    Before(f, counts) <= no /\ no < Before(f, counts) + counts[f]}

Counts == [f \in DOMAIN bookmarks |-> bookmarks[f].calls]

Signal(kind) == [kind |-> kind]

(* fetchFrameContents: nothing if the views have them, else the calls from *)
(* the bookmark to the next end of a frame.                                *)
Fetch(p, f) ==
  LET read == ReadFrame(SetBookmark(p, bookmarks[f].start))
      Item(call) == [no |-> call.no, fn |-> call.fn, batch |-> batch]
      calls == [i \in DOMAIN read.got |-> Item(read.got[i])] IN
  IF frames[f].loaded
    THEN [parser |-> p, calls |-> frames[f].contents, emits |-> << >>]
    ELSE [parser |-> read.parser, calls |-> calls,
          emits |-> <<[kind |-> "contents", frame |-> f, calls |-> calls]>>]

NumberedIn(no, calls) == {i \in DOMAIN calls : calls[i].no = no}

Emit(fetched, emitted) ==
  /\ parser' = fetched.parser
  /\ toGui' = toGui \o fetched.emits \o emitted
  /\ batch' = batch + Len(fetched.emits)
  /\ failed' = IF \A i \in DOMAIN fetched.emits :
                    Len(fetched.calls) <= bookmarks[fetched.emits[i].frame].calls
               THEN failed ELSE failed \cup {"load"}
  /\ UNCHANGED <<gui, frames, bookmarks, history>>

Takes(kind) == Handles(toLoader) /\ Head(toLoader).kind = kind

(* loadTrace: a trace without frames is not closed before the next; one    *)
(* that cannot be opened, or not read at random (parseProblem, of which    *)
(* the views only tell the user), leaves the parser closed.                *)
LoadTrace ==
  /\ Takes("open")
  /\ LET closed == IF bookmarks = << >> THEN parser ELSE Close(parser)
         file == Head(toLoader).file IN
     \/ /\ closed.trace # NoTrace
        /\ failed' = failed \cup {"open"}
        /\ UNCHANGED <<parser, bookmarks, frames, toGui>>
     \/ /\ closed.trace = NoTrace
        /\ parser' = closed
        /\ bookmarks' = << >> /\ frames' = << >>
        /\ UNCHANGED <<toGui, failed>>
     \/ /\ closed.trace = NoTrace
        /\ \E scanned \in {ScanTrace(Open(closed, file))} :
             /\ parser' = scanned.parser
             /\ bookmarks' = scanned.marks
             /\ frames' = [f \in DOMAIN scanned.marks |->
                    [calls |-> scanned.marks[f].calls, loaded |-> FALSE,
                     contents |-> << >>]]
        /\ toGui' = toGui \o <<Signal("frames"), Signal("parsed")>>
        /\ UNCHANGED failed
  /\ UNCHANGED <<gui, batch, history>>

LoadFrame ==
  /\ Takes("frame")
  /\ Emit(Fetch(parser, Head(toLoader).frame), << >>)

(* findFrameStart and findFrameEnd                                         *)
FindFrame ==
  /\ Takes("edge")
  /\ LET r == Head(toLoader) IN
     Emit(Fetch(parser, r.frame), <<[kind |-> "foundFrame", of |-> r.of]>>)

FindCallIndex ==
  /\ Takes("index")
  /\ LET r == Head(toLoader)
         in == InFrame(r.of.no, Counts) IN
     IF in = {} THEN /\ failed' = failed \cup {"callInFrame"}
                     /\ UNCHANGED <<gui, frames, toGui, parser, bookmarks, batch, history>>
     ELSE \E f \in {LeastOf(in)} : \E fetched \in {Fetch(parser, f)} :
            LET hits == NumberedIn(r.of.no, fetched.calls) IN
            Emit(fetched,
                 IF hits = {} THEN << >>
                 ELSE <<[kind |-> "foundCall", of |-> r.of, frame |-> f,
                         call |-> fetched.calls[LeastOf(hits)]]>>)

(* What a search does that has found a call: load the frame by its number. *)
Found(p, r, f, call) ==
  \E fetched \in {Fetch(p, f)} :
    LET hits == NumberedIn(call.no, fetched.calls) IN
    Emit(fetched, IF hits = {} THEN << >>
                  ELSE <<[kind |-> "result", of |-> r.of, frame |-> f,
                          call |-> fetched.calls[LeastOf(hits)]]>>)

NotFound(p, r) ==
  Emit([parser |-> p, calls |-> << >>, emits |-> << >>],
       <<[kind |-> "result", of |-> r.of, frame |-> 0, call |-> NoOne]>>)

SearchNext ==
  /\ Takes("next")
  /\ LET r == Head(toLoader)
         Hit(got) == Last(got).fn = r.of.text IN
     \E read \in {ReadUntil(SetBookmark(parser, bookmarks[r.frame].start),
                            {r.of.text}, Len(parser.trace))} :
     IF read.got = << >> \/ ~Hit(read.got) THEN NotFound(read.parser, r)
     ELSE LET in == InFrame(Last(read.got).no, Counts) IN
          IF in # {} THEN Found(read.parser, r, LeastOf(in), Last(read.got))
          ELSE /\ failed' = failed \cup {"callInFrame"}
               /\ UNCHANGED <<gui, frames, toGui, parser, bookmarks, batch, history>>

(* searchPrev: frame by frame, as many calls as the scan has counted.  A   *)
(* frame that has fewer at the end of the trace ends the search.  (Where   *)
(* the parser is left does not matter: all but loadTrace set a bookmark.)  *)
SearchPrev ==
  /\ Takes("prev")
  /\ LET r == Head(toLoader)
         Of(f) == ReadUntil(SetBookmark(parser, bookmarks[f].start), {},
                            bookmarks[f].calls)
         Hits(f) == {i \in DOMAIN Of(f).got : Of(f).got[i].fn = r.of.text}
         Short(f) == Len(Of(f).got) < bookmarks[f].calls
         stops == {f \in 1..r.frame : Short(f) \/ Hits(f) # {}} IN
     \/ stops = {} /\ NotFound(parser, r)
     \/ \E f \in stops :
          /\ \A g \in stops : g <= f
          /\ IF Short(f) THEN NotFound(parser, r)
             ELSE Found(Of(f).parser, r, f, Of(f).got[GreatestOf(Hits(f))])

-----------------------------------------------------------------------------
(* The thread of the views.                                                *)

Receives(kind) == Handles(toGui) /\ Head(toGui).kind = kind

Quiet == toLoader = << >> /\ toGui = << >>

Asks ==
  /\ asked < MaxRequests
  /\ asked' = asked + 1

(* setFileName.  The user waits until the trace before has been read.      *)
SetFileName(file) ==
  /\ Running /\ Quiet /\ file # fileName
  /\ Asks
  /\ waiting' = {} /\ answers' = {} /\ reported' = {}
  /\ fileName' = file /\ listed' = FALSE
  /\ errors' = {} /\ marked' = {}
  /\ toLoader' = Append(toLoader, [kind |-> "open", file |-> file])
  /\ UNCHANGED <<frames, loading, toGui, parser, bookmarks, batch, failed>>

AddFrames ==
  /\ Receives("frames")
  /\ listed' = TRUE
  /\ UNCHANGED <<fileName, frames, loading, errors, marked, toLoader, parser,
                 bookmarks, batch, history, failed>>

(* ApiTrace::loadFrame                                                     *)
Requested(f) ==
  IF f \in loading THEN UNCHANGED <<loading, toLoader>>
  ELSE /\ loading' = loading \cup {f}
       /\ toLoader' = Append(toLoader, [kind |-> "frame", frame |-> f])

FinishedParsing ==
  /\ Receives("parsed")
  /\ IF frames # << >> /\ ~frames[1].loaded THEN Requested(1)
     ELSE UNCHANGED <<loading, toLoader>>
  /\ UNCHANGED <<fileName, listed, frames, errors, marked, parser, bookmarks,
                 batch, history, failed>>

(* ApiTraceModel::fetchMore: a frame is opened in the view.                *)
FetchMore(f) ==
  /\ Running /\ listed /\ Asks
  /\ ~frames[f].loaded /\ f \notin loading
  /\ Requested(f)
  /\ UNCHANGED <<fileName, listed, frames, errors, marked, toGui, parser,
                 bookmarks, batch, waiting, answers, reported, failed>>

Marking(f, calls) ==
  {no \in {e[2] : e \in errors} : <<f, no>> \in errors /\ NumberedIn(no, calls) # {}}

(* loaderFrameLoaded: the calls of a second load are ignored; errors that  *)
(* wait for the frame are set.                                             *)
LoaderFrameLoaded ==
  /\ Receives("contents")
  /\ LET m == Head(toGui)
         calls == IF frames[m.frame].loaded THEN frames[m.frame].contents ELSE m.calls IN
     /\ frames' = [frames EXCEPT ![m.frame].loaded = TRUE, ![m.frame].contents = calls]
     /\ loading' = IF frames[m.frame].loaded THEN loading ELSE loading \ {m.frame}
     /\ errors' = errors \ ({m.frame} \X Marking(m.frame, calls))
     /\ marked' = marked \cup Marking(m.frame, calls)
  /\ UNCHANGED <<fileName, listed, toLoader, parser, bookmarks, batch, history, failed>>

Known(f) == IF frames[f].loaded THEN Len(frames[f].contents) ELSE frames[f].calls

FramesWith(no) == InFrame(no, [f \in DOMAIN frames |-> Known(f)])

(* setCallError: after a replay, for call number no.                       *)
SetCallError(no) ==
  /\ Running /\ listed /\ Asks
  /\ reported' = reported \cup {no}
  /\ IF FramesWith(no) = {} THEN UNCHANGED <<loading, toLoader, errors, marked>>
     ELSE LET f == LeastOf(FramesWith(no)) IN
          IF frames[f].loaded
          THEN /\ marked' = IF NumberedIn(no, frames[f].contents) = {} THEN marked
                            ELSE marked \cup {no}
               /\ UNCHANGED <<loading, toLoader, errors>>
          ELSE /\ Requested(f)
               /\ errors' = errors \cup {<<f, no>>}
               /\ UNCHANGED marked
  /\ UNCHANGED <<fileName, listed, frames, toGui, parser, bookmarks, batch,
                 waiting, answers, failed>>

-----------------------------------------------------------------------------
(* The user looks for calls.                                               *)

MatchesHere(f, from, text) ==   \* mutation: from the current call, not after it
  {i \in DOMAIN frames[f].contents : i >= from /\ frames[f].contents[i].fn = text}

Matches(f, from, text) ==
  {i \in DOMAIN frames[f].contents : i > from /\ frames[f].contents[i].fn = text}

MatchesBefore(f, from, text) ==
  {i \in DOMAIN frames[f].contents : i < from /\ frames[f].contents[i].fn = text}

Answered(of, call) ==
  /\ answers' = answers \cup {[of |-> of, call |-> call]}
  /\ waiting' = waiting \ {of}
  /\ UNCHANGED toLoader

Ask(kind, f, of) ==
  /\ toLoader' = Append(toLoader, [kind |-> kind, frame |-> f, of |-> of])
  /\ waiting' = waiting \cup {of}
  /\ UNCHANGED answers

(* ApiTrace::findNext from the call at place from of frame f: up to the    *)
(* first frame that is not loaded or has a match.                          *)
FindFrom(f, from, of) ==
  LET After(g) == Matches(g, IF g = f THEN from ELSE 0, of.text)
      stops == {g \in f..Len(frames) : ~frames[g].loaded \/ After(g) # {}}
      g == LeastOf(stops) IN
  IF stops = {} THEN Answered(of, NoOne)
  ELSE IF ~frames[g].loaded THEN Ask("next", g, of)
  ELSE Answered(of, frames[g].contents[LeastOf(After(g))])

FindBackFrom(f, from, of) ==
  LET Ahead(g) == MatchesBefore(g, IF g = f /\ from > 0 THEN from
                                   ELSE Len(frames[g].contents) + 1, of.text)
      stops == {g \in 1..f : ~frames[g].loaded \/ Ahead(g) # {}}
      g == GreatestOf(stops) IN
  IF stops = {} THEN Answered(of, NoOne)
  ELSE IF ~frames[g].loaded THEN Ask("prev", g, of)
  ELSE Answered(of, frames[g].contents[GreatestOf(Ahead(g))])

(* The current item of the view: a frame, or one of its calls.             *)
Search(dir, f, from, text) ==
  /\ Running /\ listed /\ Asks
  /\ LET of == [id |-> asked + 1, dir |-> dir, frame |-> f, from |-> from,
                text |-> text] IN
     IF dir = "next" THEN FindFrom(f, from, of) ELSE FindBackFrom(f, from, of)
  /\ UNCHANGED <<gui, frames, toGui, parser, bookmarks, batch, reported, failed>>

PlaceOf(f, call) ==
  LET is == {i \in DOMAIN frames[f].contents : frames[f].contents[i] = call}
  IN IF is = {} THEN 0 ELSE LeastOf(is)

(* MainWindow::slotSearchResult: a call the frame does not have is taken   *)
(* for one that is filtered out, and the search goes on forwards.          *)
SlotSearchResult ==
  /\ Receives("result")
  /\ LET m == Head(toGui) IN
     IF m.call = NoOne \/ PlaceOf(m.frame, m.call) # 0
     THEN Answered(m.of, m.call)
     ELSE FindFrom(m.frame, 0, m.of)
  /\ UNCHANGED <<gui, frames, parser, bookmarks, batch, asked, reported, failed>>

(* ApiTrace::findCallIndex                                                 *)
JumpTo(no) ==
  /\ Running /\ listed /\ Asks
  /\ LET of == [id |-> asked + 1, dir |-> "jump", no |-> no]
         f == LeastOf(FramesWith(no))
         hits == NumberedIn(no, frames[f].contents) IN
     IF FramesWith(no) = {} THEN Answered(of, NoOne)
     ELSE IF ~frames[f].loaded THEN Ask("index", f, of)
     ELSE Answered(of, IF hits = {} THEN NoOne ELSE frames[f].contents[LeastOf(hits)])
  /\ UNCHANGED <<gui, frames, toGui, parser, bookmarks, batch, reported, failed>>

(* slotJumpToResult                                                        *)
SlotJumpToResult ==
  /\ Receives("foundCall")
  /\ LET m == Head(toGui) IN
     Answered(m.of, IF PlaceOf(m.frame, m.call) = 0 THEN NoOne ELSE m.call)
  /\ UNCHANGED <<gui, frames, parser, bookmarks, batch, asked, reported, failed>>

FirstOf(calls) == IF calls = << >> THEN NoOne ELSE calls[1]

(* findFrameStart; findFrameEnd differs in where the view then scrolls.    *)
GoFrameStart(f) ==
  /\ Running /\ listed /\ Asks
  /\ LET of == [id |-> asked + 1, dir |-> "start", frame |-> f] IN
     IF ~frames[f].loaded THEN Ask("edge", f, of)
     ELSE Answered(of, FirstOf(frames[f].contents))
  /\ UNCHANGED <<gui, frames, toGui, parser, bookmarks, batch, reported, failed>>

SlotFoundFrame ==
  /\ Receives("foundFrame")
  /\ LET of == Head(toGui).of
         calls == frames[of.frame].contents IN
     /\ failed' = IF frames[of.frame].loaded THEN failed
                  ELSE failed \cup {"slotFoundFrameStart"}
     /\ Answered(of, FirstOf(calls))
  /\ UNCHANGED <<gui, frames, parser, bookmarks, batch, asked, reported>>

-----------------------------------------------------------------------------
Next ==
  \/ LoadTrace \/ LoadFrame \/ FindFrame \/ FindCallIndex
  \/ SearchNext \/ SearchPrev
  \/ AddFrames \/ FinishedParsing \/ LoaderFrameLoaded
  \/ SlotSearchResult \/ SlotJumpToResult \/ SlotFoundFrame
  \/ \E file \in Files : SetFileName(file)
  \/ \E f \in DOMAIN frames : FetchMore(f) \/ GoFrameStart(f)
  \/ \E no \in Numbers : SetCallError(no) \/ JumpTo(no)
  \/ \E dir \in {"next", "prev"}, f \in DOMAIN frames, text \in Texts :
       \E from \in 0..Len(frames[f].contents) : Search(dir, f, from, text)

(* Both threads handle what is in their queue, of which nothing else       *)
(* takes a message.                                                        *)
Spec ==
  Init /\ [][Next]_vars /\ WF_toLoader(Handles(toLoader)) /\ WF_toGui(Handles(toGui))

-----------------------------------------------------------------------------
(* What there is to show, from the trace alone: its calls in the order     *)
(* they are left, then those that never are, each with its frame and the   *)
(* place where the frame begins.                                           *)
Events(trace, Is(_)) == SelectSeq([i \in DOMAIN trace |-> i], Is)

CallsOf(trace) ==
  LET enters == Events(trace, LAMBDA i : trace[i].kind = "enter")
      LeavesOf(no) == {i \in DOMAIN trace : trace[i].kind = "leave" /\ trace[i].no = no}
      left == Events(trace, LAMBDA i : trace[i].kind = "leave" /\ trace[i].whole)
      pending == SelectSeq([n \in DOMAIN enters |-> n],
                   LAMBDA n : trace[enters[n]].whole /\ LeavesOf(n - 1) = {})
      Call(no, to) == [no |-> no, fn |-> trace[enters[no + 1]].fn,
                       from |-> enters[no + 1], to |-> to]
  IN [k \in DOMAIN left |-> Call(trace[left[k]].no, left[k])]
       \o [k \in DOMAIN pending |-> Call(pending[k] - 1, Len(trace) + 1)]

InFrames(calls) ==
  LET EndsBefore(k) == {j \in 1..k - 1 : EndsFrame(calls[j])}
      StartFor(k) == IF EndsBefore(k) = {} THEN 0
                     ELSE calls[GreatestOf(EndsBefore(k))].to
  IN [k \in DOMAIN calls |->
        [no |-> calls[k].no, fn |-> calls[k].fn,
         frame |-> 1 + Cardinality(EndsBefore(k)),
         crosses |-> calls[k].from < StartFor(k)]]

AllCalls == [trace \in Files |-> InFrames(CallsOf(trace))]

(* A frame has the calls from its start to its end.                        *)
Shown(trace, f) ==
  SelectSeq(AllCalls[trace], LAMBDA call : call.frame = f /\ ~call.crosses)

FramesIn(trace) == {AllCalls[trace][k].frame : k \in DOMAIN AllCalls[trace]}

(* No end of a frame is entered in the frame before.                       *)
FramesApart(trace) ==
  \A k \in DOMAIN AllCalls[trace] :
    EndsFrame(AllCalls[trace][k]) => ~AllCalls[trace][k].crosses

(* No call is left in another frame than it was entered in, or cut off.    *)
Straight(trace) ==
  LET calls == AllCalls[trace] IN
  /\ \A k \in DOMAIN calls : ~calls[k].crosses
  /\ {calls[k].no : k \in DOMAIN calls} = 0..Len(calls) - 1

SameCall(a, b) == a.no = b.no /\ a.fn = b.fn

(* However requests for a frame and answers cross, a loaded frame has the  *)
(* calls of the trace from its start to its end, each once, if the ends of *)
(* frames do not overlap.  Other calls may cross it.                       *)
FramesShowTheirCalls ==
  /\ DOMAIN frames = FramesIn(fileName)
  /\ \A f \in DOMAIN frames : frames[f].loaded =>
       LET shown == Shown(fileName, f) IN
       /\ Len(frames[f].contents) = Len(shown)
       /\ \A i \in DOMAIN shown : SameCall(frames[f].contents[i], shown[i])

(* Then no frame has more calls than were counted (FrameContents::load,    *)
(* loaderFrameLoaded), and a frame that is gone to has been loaded; and if *)
(* no call crosses the end of a frame, every call is in a frame.           *)
AssertsHold ==
  /\ failed \cap {"load", "slotFoundFrameStart"} = {}
  /\ Straight(fileName) => failed = {}

(* So what the user sees is the trace (apitracecall.cpp, setCalls), while  *)
(* frames are loaded by requests, searches and jumps that overtake each    *)
(* other.                                                                  *)
ShowsTheTrace ==
  listed /\ FramesApart(fileName) => FramesShowTheirCalls /\ AssertsHold

(* The calls a search may go to, of all frames.                            *)
Matching(of) ==
  LET calls == AllCalls[fileName]
      Place(k) == Cardinality({j \in 1..k : calls[j].frame = calls[k].frame})
      IsBeyond(k) == \/ calls[k].frame > of.frame
                     \/ calls[k].frame = of.frame /\ Place(k) > of.from
      IsAhead(k) == \/ calls[k].frame < of.frame
                    \/ calls[k].frame = of.frame /\ (of.from = 0 \/ Place(k) < of.from)
  IN {k \in DOMAIN calls : calls[k].fn = of.text
                           /\ IF of.dir = "next" THEN IsBeyond(k) ELSE IsAhead(k)}

Goes(of, call) ==
  LET calls == AllCalls[fileName]
      matching == Matching(of) IN
  CASE of.dir = "next" /\ matching # {} ->
         SameCall(call, calls[LeastOf(matching)])
    [] of.dir = "prev" /\ matching # {} ->
         \E k \in matching : /\ SameCall(call, calls[k])
                             /\ calls[k].frame = calls[GreatestOf(matching)].frame
    [] of.dir = "jump" -> call.no = of.no
    [] of.dir = "start" -> SameCall(call, Shown(fileName, of.frame)[1])
    [] OTHER -> FALSE

(* A search forwards goes to the nearest call that matches, a search       *)
(* backwards to one of the frame of the nearest, and not to none if there  *)
(* is one; whatever frames were loaded when and by whom.  A jump goes to   *)
(* the call of that number, and the start of a frame is its first call.    *)
SearchFinds ==
  listed /\ Straight(fileName) => \A answer \in answers :
    IF answer.call # NoOne THEN Goes(answer.of, answer.call)
    ELSE \/ answer.of.dir = "jump"
         \/ answer.of.dir \in {"next", "prev"} /\ Matching(answer.of) = {}

(* If no call crosses the end of a frame, every request is answered in the *)
(* end, no frame stays marked as loading (it would never be asked for      *)
(* again), and every call that had an error in a replay is marked, even if *)
(* its frame was being loaded for something else.  The frames of a trace   *)
(* that could be opened are in the views.                                  *)
EverythingAnswered ==
  <>[](failed = {} /\ fileName # NoTrace =>
         /\ Quiet /\ loading = {} /\ (listed \/ parser.trace = NoTrace)
         /\ Straight(fileName) =>
              /\ waiting = {} /\ errors = {}
              /\ marked = reported \cap 0..Len(AllCalls[fileName]) - 1)
=============================================================================
