------------------------- MODULE FrameRetraceSettles -------------------------
(***************************************************************************)
(* Proofs about what the panels of FrameRetrace show when everything has   *)
(* been answered: the second part of the invariant, layer by layer.        *)
(***************************************************************************)
EXTENDS FrameRetraceProofs, FrameRetraceAnswers

-----------------------------------------------------------------------------
(* Ids.                                                                    *)

LEMMA Numbers ==
  ASSUME FrameInv
  PROVE  /\ sel \in Nat /\ exp \in Nat /\ cur.rt \in Nat /\ cur.render \in Nat
         /\ cur.met \in Nat /\ cur.exp \in Nat /\ tableSel \in Nat
         /\ cur.rt <= sel /\ cur.render <= sel /\ cur.met <= sel /\ cur.exp <= exp
         /\ tableSel <= sel
BY DEF FrameInv, Types, InterfaceTypes, StubTypes, Noted

LEMMA PickedSince == ASSUME FrameInv PROVE sel \in picked => sel > 0
BY DEF FrameInv, Types, InterfaceTypes

LEMMA RequestIds ==
  ASSUME FrameInv
  PROVE  /\ req.sel \in Nat /\ req.exp \in Nat /\ Known(req)
         /\ \A i \in DOMAIN queue : queue[i].sel \in Nat /\ queue[i].exp \in Nat /\ Known(queue[i])
<1>1. queue \in Seq(RequestsOf(Kinds)) /\ req \in RequestsOf(Kinds)
  BY DEF FrameInv, Types, StubTypes
<1>2. \A r \in RequestsOf(Kinds) : r.sel \in Nat /\ r.exp \in Nat
  BY DEF RequestsOf
<1>3. \A i \in DOMAIN queue : queue[i] \in RequestsOf(Kinds)
  BY <1>1, ElementOf
<1> QED BY <1>1, <1>2, <1>3 DEF FrameInv, Noted

LEMMA Typed ==
  ASSUME FrameInv
  PROVE  /\ Types /\ Protocol /\ Noted /\ Own /\ Ordered
         /\ queue \in Seq(RequestsOf(Kinds)) /\ down \in Seq(Messages)
         /\ panel \in [Panels -> Shown] /\ req \in RequestsOf(Kinds)
BY DEF FrameInv, Types, InterfaceTypes, StubTypes, DaemonTypes

(* What the stub has noted goes back only with the assert of setUniform.   *)
LEMMA NotesForward ==
  ASSUME FrameInv, Next, failed' = {}
  PROVE  cur.render <= cur'.render /\ cur.rt <= cur'.rt
<1> USE Numbers, Typed
<1> DEFINE Later(c) == cur.render <= c.render /\ cur.rt <= c.rt
<1>0. cur \in Notes
  BY DEF Types, StubTypes, Notes
<1>1. Later(cur)
  OBVIOUS
<1>2. /\ Later([cur EXCEPT !.rt = sel, !.exp = exp]) /\ Later([cur EXCEPT !.render = sel, !.exp = exp])
      /\ Later([cur EXCEPT !.met = sel, !.exp = exp]) /\ Later([cur EXCEPT !.met = 0, !.exp = exp])
      /\ Later([cur EXCEPT !.met = tableSel, !.exp = exp]) /\ Later([cur EXCEPT !.exp = exp])
      /\ Later([cur EXCEPT !.render = sel])
  BY <1>0 DEF Notes
<1>3. CASE SetUniform
  <2>1. cur' = [cur EXCEPT !.render = panel["uniforms"].sel] /\ cur.render <= panel["uniforms"].sel
    BY <1>3 DEF SetUniform, Asserting
  <2> QED BY <1>0, <2>1 DEF Notes
<1> HIDE DEF Later
<1>4. Later(cur') \/ SetUniform
  <2>1. CASE Asking
    BY <1>1, <1>2, <2>1 DEF Asking, AskTarget, AskShaders, AskApi, AskBatch, AskUniforms, AskState,
      AskBars, AskFrame, AskTable, Asked
  <2>2. CASE OnMetricList \/ OnOpened
    BY <1>1, <1>2, <2>2 DEF OnMetricList, OnOpened, Asked
  <2>3. CASE Change \/ (\E ctx \in 1..Contexts : OverrideShaders(ctx)) \/ Close
    BY <1>1, <2>3, SMTT(30) DEF Change, OverrideShaders, Close
  <2>4. CASE \/ \E tab \in Tabs : Select(tab)
             \/ \E tab \in Tabs : Experiment(tab)
             \/ Refresh \/ ShadersChanged \/ ClearShaderList \/ Join
             \/ OpenFile \/ ReceiveFile \/ Serve \/ MakeChange \/ ReplaceShaders
    BY <1>1, <2>4, Zenon DEF Select, Experiment, Refresh, ShadersChanged, ClearShaderList, Join,
              OpenFile, ReceiveFile, Serve, MakeChange, ReplaceShaders, stub
  <2>5. CASE Drop \/ Send \/ Read \/ ReadEnd \/ OnUpload \/ OnError
    BY <1>1, <2>5 DEF Drop, Send, Read, ReadEnd, OnUpload, OnError
  <2>6. CASE Showing
    BY <1>1, <2>6 DEF Showing, OnRenderTarget, OnShaderAssembly, OnApi, ShowApi, OnBatch, OnUniform,
      OnState, OnTable, OnBars, OnShaderCompile
  <2> QED BY <2>1, <2>2, <2>3, <2>4, <2>5, <2>6 DEF Next, Asking, Showing
<1> QED BY <1>3, <1>4 DEF Later

(* A selection or an experiment asks the questions that it is about anew.  *)
Steady(x) ==
  /\ UNCHANGED <<sel, picked>> \/ x \in {"frame", "bars"}
  /\ exp' = exp \/ x = "api"

LEMMA IdsKept ==
  ASSUME Next, ~(\E tab \in Tabs : Select(tab)), ~(\E tab \in Tabs : Experiment(tab))
  PROVE  UNCHANGED <<sel, picked, exp>>
<1>1. CASE Asking \/ ClearShaderList
  BY <1>1 DEF Asking, AskTarget, AskShaders, AskApi, AskBatch, AskUniforms, AskState,
              AskBars, AskFrame, AskTable, ClearShaderList
<1>2. CASE User \/ Refresh \/ ShadersChanged \/ Join
  BY <1>2 DEF User, Refresh, Change, SetUniform, OverrideShaders, Close, ShadersChanged, Join
<1>3. CASE Showing \/ OnMetricList \/ OnOpened \/ OnError
  BY <1>3, SMTT(30) DEF Showing, OnRenderTarget, OnShaderAssembly, OnApi, ShowApi, OnBatch, OnUniform,
     OnState, OnTable, OnBars, OnShaderCompile, OnMetricList, OnOpened, OnError, Delivered
<1>4. CASE \/ Drop \/ Send \/ Read \/ ReadEnd \/ OnUpload
           \/ OpenFile \/ ReceiveFile \/ Serve \/ MakeChange \/ ReplaceShaders
  BY <1>4 DEF Drop, Send, Read, ReadEnd, OnUpload, OpenFile, ReceiveFile, Serve,
              MakeChange, ReplaceShaders, ui
<1> QED BY <1>1, <1>2, <1>3, <1>4 DEF Next, Asking, User, Showing

LEMMA SelectAsks ==
  ASSUME NEW tab \in Tabs, Select(tab)
  PROVE  /\ \A x \in Questions \ {"bars", "frame"} : ToAsk(x)'
         /\ exp' = exp /\ sel' = sel + 1 /\ todo = << >>
         /\ UNCHANGED <<queue, cur, panel, collected, stub, far, tableSel, failed>>
<1>1. Members(todo') = Panels \ {"bars"}
  BY SelectTodo
<1>2. \A x \in Questions : x \in Panels \/ x = "frame"
  BY DEF Questions, Steps
<1>3. ASSUME NEW x \in Questions \ {"bars", "frame"} PROVE ToAsk(x)'
  BY <1>1, <1>2 DEF ToAsk
<1> QED BY <1>3 DEF Select, Idle, stub, history

LEMMA ExperimentAsks ==
  ASSUME NEW tab \in Tabs, Experiment(tab)
  PROVE  /\ \A x \in Questions \ {"api"} : ToAsk(x)'
         /\ "shaders" \in Panels => ToAsk("shaderlist")'
         /\ exp' = exp + 1 /\ sel' = sel /\ picked' = picked /\ todo = <<"experiment">>
         /\ UNCHANGED <<queue, cur, panel, collected, stub, far, tableSel, failed>>
<1>1. Members(todo') = Steps \ {"api", "table"}
  BY ExperimentTodo
<1>2. "table" \in Questions => "frame" \in Steps
  BY Apart DEF Questions, Steps
<1>3. "shaders" \in Panels => "shaderlist" \in Steps
  BY DEF Steps
<1> QED BY <1>1, <1>2, <1>3 DEF Experiment, ToAsk, Questions, stub

LEMMA StepAsks ==
  ASSUME Next, NEW x \in Questions
  PROVE  ToAsk(x)' \/ Steady(x)
<1>1. CASE \E tab \in Tabs : Select(tab)
  BY <1>1, SelectAsks DEF Steady
<1>2. CASE \E tab \in Tabs : Experiment(tab)
  BY <1>2, ExperimentAsks DEF Steady
<1>3. CASE ~(\E tab \in Tabs : Select(tab)) /\ ~(\E tab \in Tabs : Experiment(tab))
  BY <1>3, IdsKept DEF Steady
<1> QED BY <1>1, <1>2, <1>3

LEMMA SteadySame ==
  ASSUME NEW x, Steady(x)
  PROVE  \A r : About(x, r, sel', exp') <=> About(x, r, sel, exp)
BY DEF Steady, About

-----------------------------------------------------------------------------
(* Asking.                                                                 *)

Posed(r) ==
  /\ queue' = Append(queue, r) /\ r \in RequestsOf(Kinds)
  /\ r.exp = exp /\ Within(r, cur')
  /\ r.kind \in Panels => Asks(QuestionOf(r), r)

LEMMA RequestAbout ==
  ASSUME FrameInv, NEW x \in Questions, NEW s, s = (IF x \in {"frame", "bars"} THEN 0 ELSE sel)
  PROVE  /\ Request(PanelOf(x), s, 1) \in RequestsOf(Kinds)
         /\ Request(PanelOf(x), s, 1).exp = exp
         /\ Request(PanelOf(x), s, 1).kind = PanelOf(x)
         /\ Request(PanelOf(x), s, 1).sel = s
         /\ Asks(x, Request(PanelOf(x), s, 1))
         /\ Asks(QuestionOf(Request(PanelOf(x), s, 1)), Request(PanelOf(x), s, 1))
<1>1. s \in 0..MaxSelections /\ exp \in 0..MaxEdits
  BY CountsAssumption DEF FrameInv, Types, InterfaceTypes
<1>2. PanelOf(x) \in Panels /\ x \notin {"shaderlist"}
  BY Apart DEF Questions, Steps, PanelOf
<1>3. 1 \in 1..Contexts /\ PanelOf(x) \in Kinds
  BY <1>2, CountsAssumption DEF Kinds
<1>4. Request(PanelOf(x), s, 1) \in RequestsOf(Kinds)
  BY <1>1, <1>3 DEF Request, RequestsOf
<1>5. Asks(x, Request(PanelOf(x), s, 1))
  BY DEF Request, Asks, About
<1>6. Asks(QuestionOf(Request(PanelOf(x), s, 1)), Request(PanelOf(x), s, 1))
  <2>1. x \in Panels \cup {"frame"}
    BY DEF Questions, Steps
  <2>2. "frame" \notin Panels
    BY Apart
  <2> QED BY <2>1, <2>2 DEF Request, Asks, About, QuestionOf, PanelOf
<1> QED BY <1>4, <1>5, <1>6 DEF Request

LEMMA TodoRest ==
  ASSUME FrameInv, todo # << >>, Head(todo) # "experiment"
  PROVE  /\ Head(todo) \in Steps
         /\ Members(todo) = {Head(todo)} \cup Members(Tail(todo))
         /\ Members(<<"table">> \o Tail(todo)) = {"table"} \cup Members(Tail(todo))
<1>1. todo \in Seq(Steps) /\ Head(todo) \in Steps /\ Tail(todo) \in Seq(Steps)
  BY HeadStep DEF FrameInv
<1>2. /\ Head(todo) = todo[1] /\ Len(todo) \in Nat \ {0} /\ DOMAIN todo = 1..Len(todo)
      /\ DOMAIN Tail(todo) = 1..(Len(todo) - 1)
      /\ \A i \in 1..(Len(todo) - 1) : Tail(todo)[i] = todo[i + 1]
  BY <1>1, TailFacts
<1>3. Members(todo) \subseteq {Head(todo)} \cup Members(Tail(todo))
  <2> SUFFICES ASSUME NEW i \in DOMAIN todo, i # 1 PROVE todo[i] \in Members(Tail(todo))
    BY <1>2 DEF Members
  <2>1. i - 1 \in 1..(Len(todo) - 1) /\ i = (i - 1) + 1
    BY <1>2
  <2>2. Tail(todo)[i - 1] = todo[i]
    BY <1>2, <2>1
  <2> QED BY <1>2, <2>1, <2>2 DEF Members
<1>4. {Head(todo)} \cup Members(Tail(todo)) \subseteq Members(todo)
  <2>1. 1 \in DOMAIN todo /\ \A i \in 1..(Len(todo) - 1) : i + 1 \in DOMAIN todo
    BY <1>2
  <2> QED BY <1>2, <2>1 DEF Members
<1>5. Members(<<"table">> \o Tail(todo)) = {"table"} \cup Members(Tail(todo))
  <2> DEFINE T == Steps \cup {"table"}
             one == <<"table">>
             rest == Tail(todo)
  <2>1. one \in Seq(T) /\ rest \in Seq(T)
    BY <1>1
  <2>2. Members(one) = {"table"}
    BY DEF Members
  <2> HIDE DEF T, one, rest
  <2>3. Members(one \o rest) = Members(one) \cup Members(rest)
    BY <2>1, ConcatMembers
  <2> QED BY <2>2, <2>3 DEF one, rest
<1> QED BY <1>1, <1>3, <1>4, <1>5

(* What an interface step asks, and what it then has left to ask.          *)
Posing(x) ==
  /\ x \in Questions
  /\ \/ UNCHANGED <<cur, queue, failed>> /\ ~Matters(x)
     \/ \E r : Posed(r) /\ Asks(x, r)
  /\ Members(todo) \subseteq Members(todo') \cup {x}
  /\ x = "frame" => "table" \in Members(todo')
  /\ x = "table" => tableSel' = sel
  /\ x # "table" => tableSel' = tableSel
  /\ (x = "table" /\ sel \in picked) => cur'.met = sel
  /\ x \notin {"table", "frame"} => cur'.met = cur.met
  /\ UNCHANGED <<sel, picked, exp, RestOfStub, far>>

LEMMA PosedRequest ==
  ASSUME FrameInv, NEW x \in Questions, NEW s, s = (IF x \in {"frame", "bars"} THEN 0 ELSE sel),
         queue' = Append(queue, Request(PanelOf(x), s, 1)),
         Within(Request(PanelOf(x), s, 1), cur')
  PROVE  \E r : Posed(r) /\ Asks(x, r)
<1> DEFINE r == Request(PanelOf(x), s, 1)
<1>1. r \in RequestsOf(Kinds) /\ r.exp = exp /\ Asks(x, r) /\ Asks(QuestionOf(r), r)
  BY RequestAbout
<1> HIDE DEF r
<1>2. queue' = Append(queue, r) /\ Within(r, cur')
  BY DEF r
<1>3. Posed(r)
  BY <1>1, <1>2 DEF Posed
<1> QED BY <1>1, <1>3

LEMMA NotesAfter ==
  ASSUME FrameInv
  PROVE  /\ [cur EXCEPT !.rt = sel, !.exp = exp].rt = sel
         /\ [cur EXCEPT !.rt = sel, !.exp = exp].met = cur.met
         /\ [cur EXCEPT !.render = sel, !.exp = exp].render = sel
         /\ [cur EXCEPT !.render = sel, !.exp = exp].met = cur.met
         /\ [cur EXCEPT !.render = sel].render = sel
         /\ [cur EXCEPT !.render = sel].met = cur.met
         /\ [cur EXCEPT !.exp = exp].met = cur.met
         /\ [cur EXCEPT !.met = sel, !.exp = exp].met = sel
         /\ [cur EXCEPT !.met = tableSel, !.exp = exp].met = tableSel
BY DEF FrameInv, Types, StubTypes

LEMMA AskingPoses ==
  ASSUME FrameInv, Asking, failed = {}, failed' = {}
  PROVE  Head(todo) \in Questions /\ Posing(Head(todo)) /\ todo # << >>
<1> DEFINE x == Head(todo)
<1>1. sel \in Nat
  BY Numbers
<1>2. \A k, s : Request(k, s, 1).kind = k /\ Request(k, s, 1).sel = s
  BY DEF Request
<1>3. todo # << >> /\ x \in AllPanels \cup {"frame"}
  BY DEF Asking, AskTarget, AskShaders, AskApi, AskBatch, AskUniforms, AskState,
         AskBars, AskFrame, AskTable, AllPanels
<1>4. /\ x \in Steps /\ x # "shaderlist"
      /\ Members(todo) = {x} \cup Members(Tail(todo))
      /\ Members(<<"table">> \o Tail(todo)) = {"table"} \cup Members(Tail(todo))
  BY <1>3, TodoRest DEF AllPanels
<1>5. x \in Questions
  BY <1>4 DEF Questions
<1> HIDE DEF x
<1>6. CASE AskTarget
  <2>1. x = "target" /\ todo' = Tail(todo) /\ UNCHANGED <<sel, picked, exp, tableSel, RestOfStub, far>>
    BY <1>6 DEF AskTarget, x
  <2>2. CASE sel \notin picked
    BY <1>5, <1>4, <1>6, <2>1, <2>2 DEF AskTarget, Posing, Matters
  <2>3. CASE sel \in picked
    <3>1. queue' = Append(queue, Request("target", sel, 1)) /\ cur' = [cur EXCEPT !.rt = sel, !.exp = exp]
      BY <1>6, <2>3 DEF AskTarget, Asked
    <3>2. cur'.rt = sel /\ cur'.met = cur.met
      BY <3>1, NotesAfter
    <3>3. Within(Request("target", sel, 1), cur')
      BY <1>1, <1>2, <3>2 DEF Within
    <3>4. \E r : Posed(r) /\ Asks(x, r)
      BY <1>5, <2>1, <3>1, <3>3, PosedRequest DEF PanelOf
    <3> QED BY <1>3, <1>4, <1>5, <2>1, <3>2, <3>4 DEF Posing, x
  <2> QED BY <1>3, <1>5, <2>2, <2>3 DEF x
<1>7. CASE AskShaders
  <2>1. x = "shaders" /\ todo' = Tail(todo) /\ UNCHANGED <<sel, picked, exp, tableSel, RestOfStub, far>>
    BY <1>7 DEF AskShaders, x
  <2>2. CASE sel \notin picked
    BY <1>5, <1>4, <1>7, <2>1, <2>2 DEF AskShaders, Posing, Matters
  <2>3. CASE sel \in picked
    <3>1. queue' = Append(queue, Request("shaders", sel, 1)) /\ cur' = [cur EXCEPT !.render = sel, !.exp = exp]
      BY <1>7, <2>3 DEF AskShaders, Asked
    <3>2. cur'.render = sel /\ cur'.met = cur.met
      BY <3>1, NotesAfter
    <3>3. Within(Request("shaders", sel, 1), cur')
      BY <1>1, <1>2, <3>2 DEF Within
    <3>4. \E r : Posed(r) /\ Asks(x, r)
      BY <1>5, <2>1, <3>1, <3>3, PosedRequest DEF PanelOf
    <3> QED BY <1>3, <1>4, <1>5, <2>1, <3>2, <3>4 DEF Posing, x
  <2> QED BY <1>3, <1>5, <2>2, <2>3 DEF x
<1>8. CASE AskApi \/ AskBatch \/ AskUniforms \/ AskState
  <2>1. /\ x \in {"api", "batch", "uniforms", "state"} /\ todo' = Tail(todo)
        /\ UNCHANGED <<sel, picked, exp, tableSel, RestOfStub, far>>
    BY <1>8 DEF AskApi, AskBatch, AskUniforms, AskState, x
  <2>2. queue' = Append(queue, Request(x, sel, 1))
    BY <1>8 DEF AskApi, AskBatch, AskUniforms, AskState, Asked, x
  <2>3. cur'.render = sel /\ cur'.met = cur.met
    BY <1>8, NotesAfter DEF AskApi, AskBatch, AskUniforms, AskState, Asked
  <2>4. Within(Request(x, sel, 1), cur')
    BY <1>1, <1>2, <2>1, <2>3 DEF Within
  <2>5. PanelOf(x) = x /\ x \notin {"frame", "bars", "table"}
    BY <2>1 DEF PanelOf
  <2>6. \E r : Posed(r) /\ Asks(x, r)
    BY <1>5, <2>2, <2>4, <2>5, PosedRequest
  <2> QED BY <1>3, <1>4, <1>5, <2>1, <2>3, <2>5, <2>6 DEF Posing, x
<1>9. CASE AskBars
  <2>1. x = "bars" /\ todo' = Tail(todo) /\ UNCHANGED <<sel, picked, exp, tableSel, RestOfStub, far>>
    BY <1>9 DEF AskBars, x
  <2>2. queue' = Append(queue, Request("bars", 0, 1)) /\ cur'.met = cur.met
    BY <1>9, NotesAfter DEF AskBars, Asked
  <2>3. Within(Request("bars", 0, 1), cur')
    BY <1>2 DEF Within
  <2>4. \E r : Posed(r) /\ Asks(x, r)
    BY <1>5, <2>1, <2>2, <2>3, PosedRequest DEF PanelOf
  <2> QED BY <1>3, <1>4, <1>5, <2>1, <2>2, <2>4 DEF Posing, x
<1>10. CASE AskFrame
  <2>1. x = "frame" /\ todo' = <<"table">> \o Tail(todo) /\ UNCHANGED <<sel, picked, exp, tableSel, RestOfStub, far>>
    BY <1>10 DEF AskFrame, x
  <2>2. queue' = Append(queue, Request("table", 0, 1))
    BY <1>10 DEF AskFrame, Asked
  <2>3. Within(Request("table", 0, 1), cur')
    BY <1>2 DEF Within
  <2>4. \E r : Posed(r) /\ Asks(x, r)
    BY <1>5, <2>1, <2>2, <2>3, PosedRequest DEF PanelOf
  <2> QED BY <1>3, <1>4, <1>5, <2>1, <2>4 DEF Posing, x
<1>11. CASE AskTable
  <2>1. x = "table" /\ todo' = Tail(todo) /\ tableSel' = sel /\ UNCHANGED <<sel, picked, exp, RestOfStub, far>>
    BY <1>11 DEF AskTable, x
  <2>2. CASE sel \notin picked
    BY <1>3, <1>5, <1>4, <1>11, <2>1, <2>2 DEF AskTable, Posing, Matters, x
  <2>3. CASE sel \in picked
    <3>1. queue' = Append(queue, Request("table", sel, 1)) /\ cur' = [cur EXCEPT !.met = sel, !.exp = exp]
      BY <1>11, <2>3 DEF AskTable, Asked
    <3>2. cur'.met = sel
      BY <3>1, NotesAfter
    <3>3. Within(Request("table", sel, 1), cur')
      BY <1>2 DEF Within
    <3>4. \E r : Posed(r) /\ Asks(x, r)
      BY <1>5, <2>1, <3>1, <3>3, PosedRequest DEF PanelOf
    <3> QED BY <1>3, <1>4, <1>5, <2>1, <3>2, <3>4 DEF Posing, x
  <2> QED BY <1>3, <1>5, <2>2, <2>3 DEF x
<1> QED BY <1>6, <1>7, <1>8, <1>9, <1>10, <1>11 DEF Asking

(* What the other steps do about questions.                                *)
Calm ==
  /\ UNCHANGED <<sel, picked, exp, tableSel>> /\ cur'.met \in {cur.met, tableSel}
  /\ \A x \in Questions : x \in Members(todo) => x \in Members(todo')
  /\ \/ UNCHANGED <<queue, req>>
     \/ UNCHANGED req /\ \E r : Posed(r)
     \/ Drop /\ UNCHANGED req
     \/ Send

LEMMA PlainPosed ==
  ASSUME FrameInv, Next, NEW kind \in {"change", "compile", "null"}, NEW s, NEW ctx,
         queue' = Append(queue, Request(kind, s, ctx))
  PROVE  \E r : Posed(r)
<1> DEFINE r == Request(kind, s, ctx)
<1>1. r.exp = exp /\ r.kind = kind /\ kind \notin Panels
  BY Apart DEF Request
<1> HIDE DEF r
<1>2. queue' = Append(queue, r)
  BY DEF r
<1>3. QueueStep
  BY StepQueue DEF FrameInv
<1>4. r \in RequestsOf(Kinds)
  BY <1>2, <1>3, PushedKind DEF FrameInv, Fresh
<1>5. Within(r, cur')
  BY <1>1 DEF Within
<1>6. Posed(r)
  BY <1>1, <1>2, <1>4, <1>5 DEF Posed
<1> QED BY <1>6

LEMMA IdleTodo == ASSUME Idle PROVE Members(todo) = {}
BY DEF Idle, Members

LEMMA UserCalm ==
  ASSUME FrameInv, Next, User
  PROVE  Calm
<1>1. UNCHANGED <<sel, picked, exp, tableSel, req>> /\ Members(todo) = {}
  BY IdleTodo DEF User, Change, SetUniform, OverrideShaders, Close
<1>2. cur'.met = cur.met
  BY DEF User, Change, SetUniform, OverrideShaders, Close, FrameInv, Types, StubTypes
<1>3. \E r : Posed(r)
  <2>1. CASE Change \/ Close
    BY <2>1, PlainPosed DEF Change, Close
  <2>2. CASE SetUniform
    BY <2>2, PlainPosed DEF SetUniform
  <2>3. CASE \E ctx \in 1..Contexts : OverrideShaders(ctx)
    BY <2>3, PlainPosed DEF OverrideShaders
  <2> QED BY <2>1, <2>2, <2>3 DEF User
<1> QED BY <1>1, <1>2, <1>3 DEF Calm

LEMMA OpeningCalm ==
  ASSUME FrameInv, OnMetricList \/ OnOpened
  PROVE  Calm
<1>1. UNCHANGED <<sel, picked, exp, tableSel, req, todo>>
  BY DEF OnMetricList, OnOpened, Delivered
<1>2. \A k, s : Request(k, s, 1).kind = k /\ Request(k, s, 1).sel = s /\ Request(k, s, 1).exp = exp
  BY DEF Request
<1>3. CASE OnMetricList
  <2> DEFINE r == Request("table", tableSel, 1)
  <2>1. queue' = Append(queue, r) /\ cur' = [cur EXCEPT !.met = tableSel, !.exp = exp]
    BY <1>3 DEF OnMetricList, Asked
  <2>2. cur'.met = tableSel
    BY <2>1, NotesAfter
  <2>3. r \in RequestsOf(Kinds)
    <3>1. /\ tableSel \in 0..MaxSelections /\ exp \in 0..MaxEdits /\ 1 \in 1..Contexts
          /\ "table" \in Kinds
      <4>1. "table" \in Panels
        BY <1>3, Typed, ListOfTable DEF OnMetricList
      <4> QED BY <4>1, CountsAssumption DEF FrameInv, Types, InterfaceTypes, Kinds
    <3> QED BY <3>1 DEF Request, RequestsOf
  <2>4. r.kind = "table" /\ r.sel = 0 /\ r.exp = exp
    BY <1>2, <1>3, Typed, ListsAreFirst
  <2> HIDE DEF r
  <2>5. Within(r, cur')
    BY <2>4 DEF Within
  <2>6. Asks(QuestionOf(r), r)
    BY <2>4 DEF QuestionOf, Asks, About, PanelOf
  <2>7. Posed(r)
    BY <2>1, <2>3, <2>4, <2>5, <2>6 DEF Posed
  <2> QED BY <1>1, <2>2, <2>7 DEF Calm
<1>4. CASE OnOpened /\ "bars" \in Panels
  <2>1. queue' = Append(queue, Request("bars", 0, 1)) /\ cur' = [cur EXCEPT !.exp = exp]
    BY <1>4 DEF OnOpened, Asked
  <2>2. cur'.met = cur.met
    BY <2>1, NotesAfter
  <2>3. "bars" \in Questions /\ PanelOf("bars") = "bars"
    BY <1>4 DEF Questions, Steps, PanelOf
  <2>4. Within(Request("bars", 0, 1), cur')
    BY <1>2 DEF Within
  <2>5. \E r : Posed(r)
    BY <2>1, <2>3, <2>4, PosedRequest
  <2> QED BY <1>1, <2>2, <2>5 DEF Calm
<1>5. CASE OnOpened /\ "bars" \notin Panels
  BY <1>1, <1>5 DEF OnOpened, Calm
<1> QED BY <1>3, <1>4, <1>5

LEMMA StepCalm ==
  ASSUME FrameInv, Next, ~Asking,
         ~(\E tab \in Tabs : Select(tab)), ~(\E tab \in Tabs : Experiment(tab))
  PROVE  Calm
<1>1. CASE ClearShaderList
  <2>1. /\ UNCHANGED <<sel, picked, exp, tableSel, queue, cur, req>>
        /\ todo # << >> /\ Head(todo) = "shaderlist" /\ todo' = Tail(todo)
    BY <1>1 DEF ClearShaderList, stub
  <2>2. Members(todo) = {"shaderlist"} \cup Members(todo')
    BY <2>1, TodoRest
  <2>3. "shaderlist" \notin Questions
    BY DEF Questions
  <2> QED BY <2>1, <2>2, <2>3 DEF Calm
<1>2. CASE User
  BY <1>2, UserCalm
<1>3. CASE Refresh \/ ShadersChanged
  BY <1>3, IdleTodo DEF Refresh, ShadersChanged, stub, Calm
<1>4. CASE Showing \/ OnError
  BY <1>4 DEF Showing, OnRenderTarget, OnShaderAssembly, OnApi, ShowApi, OnBatch, OnUniform,
     OnState, OnTable, OnBars, OnShaderCompile, OnError, Delivered, Calm
<1>5. CASE OnMetricList \/ OnOpened
  BY <1>5, OpeningCalm
<1>6. CASE Join \/ Read \/ ReadEnd \/ OnUpload
  BY <1>6 DEF Join, Read, ReadEnd, OnUpload, Calm, ui, stub
<1>7. CASE OpenFile \/ ReceiveFile \/ Serve \/ MakeChange \/ ReplaceShaders
  BY <1>7 DEF OpenFile, ReceiveFile, Serve, MakeChange, ReplaceShaders, Calm, ui, stub
<1>8. CASE Drop \/ Send
  BY <1>8 DEF Drop, Send, Calm, ui
<1> QED BY <1>1, <1>2, <1>3, <1>4, <1>5, <1>6, <1>7, <1>8 DEF Next, Asking, User, Showing

LEMMA StepPhases ==
  ASSUME FrameInv, Next, failed = {}, failed' = {}
  PROVE  \/ \E tab \in Tabs : Select(tab)
         \/ \E tab \in Tabs : Experiment(tab)
         \/ todo # << >> /\ Posing(Head(todo))
         \/ Calm
BY AskingPoses, StepCalm

LEMMA QueueForms ==
  ASSUME FrameInv, Next, failed = {}, failed' = {}
  PROVE  \/ UNCHANGED <<queue, req>>
         \/ UNCHANGED req /\ \E r : Posed(r)
         \/ UNCHANGED req /\ queue # << >> /\ queue' = Tail(queue)
         \/ queue # << >> /\ queue' = Tail(queue) /\ req' = queue[1]
<1>1. CASE \/ \E tab \in Tabs : Select(tab)
           \/ \E tab \in Tabs : Experiment(tab)
  BY <1>1, SelectAsks, ExperimentAsks DEF stub
<1>2. CASE todo # << >> /\ Posing(Head(todo))
  BY <1>2 DEF Posing, RestOfStub
<1>3. CASE Calm
  <2>1. Drop => queue # << >> /\ queue' = Tail(queue)
    BY DEF Drop
  <2>2. Send => queue # << >> /\ queue' = Tail(queue) /\ req' = queue[1]
    BY SentHead DEF FrameInv
  <2> QED BY <1>3, <2>1, <2>2 DEF Calm
<1> QED BY <1>1, <1>2, <1>3, StepPhases

LEMMA QueueIndices ==
  ASSUME FrameInv
  PROVE  /\ Len(queue) \in Nat /\ DOMAIN queue = 1..Len(queue)
         /\ \A r : r \in RequestsOf(Kinds) /\ queue' = Append(queue, r) =>
              /\ DOMAIN queue' = 1..(Len(queue) + 1) /\ queue'[Len(queue) + 1] = r
              /\ \A i \in 1..Len(queue) : queue'[i] = queue[i]
         /\ queue # << >> /\ queue' = Tail(queue) =>
              /\ Len(queue) # 0 /\ DOMAIN queue' = 1..(Len(queue) - 1)
              /\ \A i \in 1..(Len(queue) - 1) : queue'[i] = queue[i + 1]
<1>1. queue \in Seq(RequestsOf(Kinds))
  BY Typed
<1>2. Len(queue) \in Nat /\ DOMAIN queue = 1..Len(queue)
  BY <1>1
<1>3. \A r : r \in RequestsOf(Kinds) /\ queue' = Append(queue, r) =>
              /\ DOMAIN queue' = 1..(Len(queue) + 1) /\ queue'[Len(queue) + 1] = r
              /\ \A i \in 1..Len(queue) : queue'[i] = queue[i]
  BY <1>1, AppendFacts
<1>4. queue # << >> /\ queue' = Tail(queue) =>
              /\ Len(queue) # 0 /\ DOMAIN queue' = 1..(Len(queue) - 1)
              /\ \A i \in 1..(Len(queue) - 1) : queue'[i] = queue[i + 1]
  BY <1>1, TailFacts
<1> QED BY <1>2, <1>3, <1>4

-----------------------------------------------------------------------------
(* Requests in the order of their experiments, and what has been noted.    *)

LEMMA SortedQueue ==
  ASSUME FrameInv, Sorted, Next, failed = {}, failed' = {}
  PROVE  /\ \A i, j \in DOMAIN queue' : i < j => queue'[i].exp <= queue'[j].exp
         /\ \A i \in DOMAIN queue' : req'.exp <= queue'[i].exp
         /\ req.exp <= req'.exp
<1>1. /\ \A i, j \in DOMAIN queue : i < j => queue[i].exp <= queue[j].exp
      /\ \A i \in DOMAIN queue : req.exp <= queue[i].exp
  BY DEF Sorted
<1>2. /\ req.exp \in Nat /\ req.exp <= exp /\ exp \in Nat
      /\ \A i \in DOMAIN queue : queue[i].exp \in Nat /\ queue[i].exp <= exp
  BY Numbers, RequestIds DEF Known
<1>3. Len(queue) \in Nat /\ DOMAIN queue = 1..Len(queue)
  BY QueueIndices
<1>4. CASE UNCHANGED <<queue, req>>
  BY <1>1, <1>2, <1>4
<1>5. CASE UNCHANGED req /\ \E r : Posed(r)
  <2>1. PICK r : Posed(r)
    BY <1>5
  <2>2. /\ DOMAIN queue' = 1..(Len(queue) + 1) /\ queue'[Len(queue) + 1] = r
        /\ \A i \in 1..Len(queue) : queue'[i] = queue[i]
    BY <2>1, QueueIndices, Zenon DEF Posed
  <2>3. r.exp = exp
    BY <2>1 DEF Posed
  <2> QED BY <1>1, <1>2, <1>3, <1>5, <2>2, <2>3, SMTT(30)
<1>6. CASE queue # << >> /\ queue' = Tail(queue) /\ req' \in {req, queue[1]}
  <2>1. /\ Len(queue) # 0 /\ DOMAIN queue' = 1..(Len(queue) - 1)
        /\ \A i \in 1..(Len(queue) - 1) : queue'[i] = queue[i + 1]
    BY <1>6, QueueIndices, Zenon
  <2>2. \A i \in DOMAIN queue' : i + 1 \in DOMAIN queue /\ queue'[i] = queue[i + 1] /\ 1 < i + 1
    BY <1>3, <2>1
  <2>3. 1 \in DOMAIN queue
    BY <1>3, <2>1
  <2>4. \A i, j \in DOMAIN queue' : i < j => i + 1 < j + 1
    BY <2>1
  <2>5. \A i, j \in DOMAIN queue' : i < j => queue'[i].exp <= queue'[j].exp
    BY <1>1, <2>2, <2>4
  <2>6. \A i \in DOMAIN queue' : req'.exp <= queue'[i].exp
    BY <1>1, <1>6, <2>2, <2>3
  <2>7. req.exp <= req'.exp
    BY <1>1, <1>2, <1>6, <2>3
  <2> QED BY <2>5, <2>6, <2>7
<1> QED BY <1>4, <1>5, <1>6, QueueForms

LEMMA StepSorted ==
  ASSUME FrameInv, Sorted, Next, failed = {}, failed' = {}
  PROVE  Sorted'
<1>1. ASSUME NEW p \in Panels \cap {"table", "bars"}, NEW a \in panel'[p].shown
      PROVE  a.of.exp <= req'.exp
  <2>1. a \in panel[p].shown \cup From(p)
    BY StepPanels DEF PanelStep, FrameInv
  <2>2. req.exp <= req'.exp /\ req.exp \in Nat
    BY SortedQueue, RequestIds
  <2>3. req'.exp \in Nat
    <3>1. FrameInv'
      BY StepFrame
    <3>2. req' \in RequestsOf(Kinds)
      BY <3>1 DEF FrameInv, Types, StubTypes
    <3> QED BY <3>2 DEF RequestsOf
  <2>4. CASE a \in panel[p].shown
    <3>1. a.of.exp <= req.exp
      BY <2>4 DEF Sorted
    <3>2. a.of.exp \in Nat
      <4>1. a \in Results
        BY <2>4, Typed DEF Shown
      <4> QED BY <4>1 DEF Results, RequestsOf
    <3> QED BY <2>2, <2>3, <3>1, <3>2
  <2>5. CASE a \in From(p)
    <3>1. a = got /\ got.kind = p
      BY <2>5 DEF From
    <3>2. a.of = req
      BY <3>1, GotIds DEF IsPart, FrameInv
    <3> QED BY <2>2, <3>2
  <2> QED BY <2>1, <2>4, <2>5
<1> QED BY <1>1, SortedQueue DEF Sorted

LEMMA WithinKept ==
  ASSUME FrameInv, Next, failed' = {}, NEW r \in RequestsOf(Kinds), Within(r, cur)
  PROVE  Within(r, cur')
<1>1. cur.render <= cur'.render /\ cur.rt <= cur'.rt
  BY NotesForward
<1>2. cur.render \in Nat /\ cur.rt \in Nat /\ r.sel \in Nat
  BY Numbers DEF RequestsOf
<1>3. cur'.render \in Nat /\ cur'.rt \in Nat
  <2>1. FrameInv'
    BY StepFrame
  <2>2. cur' \in Notes
    BY <2>1 DEF FrameInv, Types, StubTypes, Notes
  <2> QED BY <2>2 DEF Notes
<1> QED BY <1>1, <1>2, <1>3 DEF Within

LEMMA WithinAll ==
  ASSUME FrameInv, Next, failed = {}, failed' = {}, Marked
  PROVE  Within(req', cur') /\ \A i \in DOMAIN queue' : Within(queue'[i], cur')
<1>1. /\ req \in RequestsOf(Kinds) /\ Within(req, cur)
      /\ \A i \in DOMAIN queue : queue[i] \in RequestsOf(Kinds) /\ Within(queue[i], cur)
  BY Typed, ElementOf DEF Marked
<1>2. Within(req, cur') /\ \A i \in DOMAIN queue : Within(queue[i], cur')
  BY <1>1, WithinKept
<1>3. CASE UNCHANGED <<queue, req>>
  BY <1>2, <1>3
<1>4. CASE UNCHANGED req /\ \E r : Posed(r)
  <2>1. PICK r : Posed(r)
    BY <1>4
  <2>2. /\ DOMAIN queue' = 1..(Len(queue) + 1) /\ queue'[Len(queue) + 1] = r
        /\ \A i \in 1..Len(queue) : queue'[i] = queue[i]
        /\ Within(r, cur')
    BY <2>1, QueueIndices, Zenon DEF Posed
  <2>3. Len(queue) \in Nat /\ DOMAIN queue = 1..Len(queue)
    BY QueueIndices
  <2>4. \A i \in DOMAIN queue' : i \in DOMAIN queue \/ i = Len(queue) + 1
    BY <2>2, <2>3
  <2> QED BY <1>2, <1>4, <2>2, <2>3, <2>4
<1>5. CASE queue # << >> /\ queue' = Tail(queue) /\ req' \in {req, queue[1]}
  <2>1. /\ Len(queue) # 0 /\ DOMAIN queue' = 1..(Len(queue) - 1)
        /\ \A i \in 1..(Len(queue) - 1) : queue'[i] = queue[i + 1]
        /\ Len(queue) \in Nat /\ DOMAIN queue = 1..Len(queue)
    BY <1>5, QueueIndices, Zenon
  <2>2. 1 \in DOMAIN queue /\ \A i \in DOMAIN queue' : i + 1 \in DOMAIN queue /\ queue'[i] = queue[i + 1]
    BY <2>1
  <2> QED BY <1>2, <1>5, <2>2
<1> QED BY <1>3, <1>4, <1>5, QueueForms

(* What the stub reads of an answer to a panel's request.                  *)
LEMMA ReadHead ==
  ASSUME FrameInv, Read \/ ReadEnd, req.kind \in Panels
  PROVE  /\ Answering /\ up = << >> /\ got = Nothing /\ pc = "read" /\ down # << >>
         /\ Head(down) \in Messages /\ Fits(Head(down), req)
         /\ Ends(Head(down)) <=> Tail(down) = << >>
         /\ down' = Tail(down) /\ Head(down) = down[1]
         /\ Len(down) \in Nat \ {0} /\ DOMAIN down = 1..Len(down)
         /\ DOMAIN down' = 1..(Len(down) - 1)
         /\ \A i \in 1..(Len(down) - 1) : down'[i] = down[i + 1]
<1>1. Types /\ Protocol /\ down \in Seq(Messages)
  BY Typed
<1>2. pc = "read" /\ down # << >> /\ down' = Tail(down)
  BY DEF Read, ReadEnd
<1>3. ~Uploading
  BY Apart DEF Uploading
<1>4. Answering /\ RestOfAnswer(down)
  BY <1>1, <1>2, <1>3, Reading
<1>5. /\ Fits(Head(down), req) /\ Head(down) \in Messages
      /\ Ends(Head(down)) <=> Tail(down) = << >>
  BY <1>1, <1>2, <1>4, RestOfTail
<1>6. /\ Len(down) \in Nat \ {0} /\ DOMAIN down = 1..Len(down) /\ Head(down) = down[1]
      /\ DOMAIN Tail(down) = 1..(Len(down) - 1)
      /\ \A i \in 1..(Len(down) - 1) : Tail(down)[i] = down[i + 1]
  BY <1>1, <1>2, TailFacts
<1>7. up = << >> /\ got = Nothing
  BY <1>2, <1>4 DEF Answering
<1> QED BY <1>2, <1>4, <1>5, <1>6, <1>7

LEMMA LabelledIds ==
  ASSUME FrameInv, Within(req, cur), req.kind = "target", NEW a \in Results,
         a.of = req, a.kind = "target"
  PROVE  NotAfter(Labelled(a).of, Labelled(a))
<1>1. Labelled(a).sel = cur.rt /\ Labelled(a).exp = cur.exp /\ Labelled(a).of = req
  BY DEF Labelled, Results
<1>2. req.sel <= cur.rt
  BY DEF Within
<1>3. req.exp <= cur.exp
  <2>1. "target" \in Panels
    <3>1. req \in RequestsOf(Kinds)
      BY Typed
    <3> QED BY <3>1 DEF RequestsOf, Kinds
  <2> QED BY <2>1, RequestIds DEF Known
<1> QED BY <1>1, <1>2, <1>3 DEF NotAfter

LEMMA GotNotes ==
  ASSUME FrameInv, Next, Marked
  PROVE  got'.kind = "target" => NotAfter(got'.of, got')
<1>0. Nothing.kind # "target"
  BY DEF Nothing
<1>1. \A k \in {"warning", "list", "opened", "fatal", "compiled", "failed", "end"} : k # "target"
  OBVIOUS
<1>2. Within(req, cur) /\ req \in RequestsOf(Kinds)
  BY Typed DEF Marked
<1>3. ASSUME got'.kind = "target", Read PROVE NotAfter(got'.of, got')
  <2> DEFINE a == Head(down)
  <2>1. got' = Labelled(a)
    BY <1>0, <1>3 DEF Read
  <2>2. a \in Messages /\ (Fits(a, req) \/ (Uploading /\ a.kind = "upload"))
    <3>1. down # << >> /\ down \in Seq(Messages) /\ pc = "read"
      BY <1>3, Typed DEF Read
    <3>2. CASE Uploading /\ down = <<Message("upload")>>
      <4>1. a = Message("upload") /\ a \in Messages
        BY <3>1, <3>2, TailFacts
      <4> QED BY <3>2, <4>1 DEF Message
    <3>3. CASE Answering /\ RestOfAnswer(down)
      <4>1. Fits(Head(down), req) /\ Head(down) \in Messages
        BY <3>1, <3>3, RestOfTail
      <4> QED BY <4>1
    <3> QED BY <3>1, <3>2, <3>3, Reading, Typed
  <2>3. a.kind = "target" /\ a \in Results
    <3>1. Labelled(a).kind = a.kind
      <4>1. CASE a.kind = "target"
        <5>1. a \in Results
          BY <2>2, <4>1 DEF Messages, Plain
        <5> QED BY <5>1 DEF Labelled, Results
      <4> QED BY <4>1 DEF Labelled
    <3>2. a.kind = "target"
      BY <1>3, <2>1, <3>1
    <3> QED BY <2>2, <3>2 DEF Messages, Plain
  <2>4. a.of = req /\ req.kind = "target"
    BY <2>2, <2>3 DEF Fits, IsPart
  <2> HIDE DEF a
  <2> QED BY <1>2, <2>1, <2>3, <2>4, LabelledIds
<1>4. ASSUME got'.kind = "target", ReadEnd PROVE NotAfter(got'.of, got')
  <2> DEFINE a == [Head(down) EXCEPT !.kind = "target"]
  <2>1. Head(down).kind = "end"
    BY <1>4 DEF ReadEnd
  <2>2. req.kind = "target" /\ got' = Labelled(a)
    BY <1>0, <1>4, <2>1 DEF ReadEnd
  <2>3. "target" \in Panels
    BY <1>2, <2>2 DEF RequestsOf, Kinds
  <2>4. Head(down) \in Messages /\ Fits(Head(down), req)
    BY <1>4, <2>2, <2>3, ReadHead
  <2>5. Head(down) \in Results /\ Head(down).of = req
    BY <2>1, <2>4 DEF Fits, IsPart, Messages, Plain
  <2>6. a \in Results /\ a.of = req /\ a.kind = "target"
    BY <2>3, <2>5 DEF Results
  <2> HIDE DEF a
  <2> QED BY <1>2, <2>2, <2>6, LabelledIds
<1>5. CASE ~Read /\ ~ReadEnd
  BY <1>0, <1>5, GotKept DEF Marked
<1> QED BY <1>3, <1>4, <1>5

LEMMA TableMarked ==
  ASSUME FrameInv, Next, failed = {}, failed' = {}, Marked,
         "table" \in Panels, sel' > 0, ~ToAsk("table")'
  PROVE  tableSel' = sel' /\ (sel' \in picked' => cur'.met = sel')
<1>0. "table" \in Questions /\ "frame" \in Questions
  BY Apart DEF Questions, Steps
<1>1. CASE \E tab \in Tabs : Select(tab)
  BY <1>0, <1>1, SelectAsks
<1>2. CASE \E tab \in Tabs : Experiment(tab)
  BY <1>0, <1>2, ExperimentAsks
<1>3. CASE todo # << >> /\ Posing(Head(todo))
  <2>1. sel' = sel /\ picked' = picked /\ Head(todo) # "frame" /\ Head(todo) \in Questions
    BY <1>3 DEF Posing, ToAsk
  <2>2. CASE Head(todo) = "table"
    BY <1>3, <2>1, <2>2 DEF Posing
  <2>3. CASE Head(todo) # "table"
    <3>1. ~ToAsk("table")
      BY <1>3, <2>1, <2>3 DEF Posing, ToAsk
    <3>2. tableSel = sel /\ (sel \in picked => cur.met = sel)
      BY <2>1, <3>1 DEF Marked
    <3> QED BY <1>3, <2>1, <2>3, <3>2 DEF Posing
  <2> QED BY <2>2, <2>3
<1>4. CASE Calm
  <2>1. ~ToAsk("table") /\ sel' = sel /\ picked' = picked
    BY <1>0, <1>4 DEF Calm, ToAsk
  <2>2. tableSel = sel /\ (sel \in picked => cur.met = sel)
    BY <2>1 DEF Marked
  <2> QED BY <1>4, <2>1, <2>2 DEF Calm
<1> QED BY <1>1, <1>2, <1>3, <1>4, StepPhases

LEMMA StepMarked ==
  ASSUME FrameInv, Next, failed = {}, failed' = {}, Marked PROVE Marked'
BY WithinAll, GotNotes, TableMarked DEF Marked

-----------------------------------------------------------------------------
(* Which step changes which panel.                                         *)

LEMMA PanelChanges ==
  ASSUME FrameInv, Next, NEW p \in Panels
  PROVE  \/ panel'[p] = panel[p]
         \/ p = "target" /\ OnRenderTarget
         \/ p = "shaders" /\ (OnShaderAssembly \/ panel'[p] = [panel[p] EXCEPT !.shown = {}])
         \/ p = "api" /\ ShowApi
         \/ p = "batch" /\ OnBatch
         \/ p = "uniforms" /\ (OnUniform \/ AskUniforms)
         \/ p = "state" /\ (OnState \/ AskState)
         \/ p = "table" /\ (OnTable \/ AskTable)
         \/ p = "bars" /\ OnBars
<1>0. panel \in [Panels -> Shown]
  BY Typed
<1>1. CASE OnRenderTarget \/ OnShaderAssembly \/ ShowApi \/ OnBatch \/ OnState
  BY <1>0, <1>1 DEF OnRenderTarget, OnShaderAssembly, ShowApi, OnBatch, OnState, Shows
<1>2. CASE OnApi \/ OnUniform \/ OnTable \/ OnBars
  BY <1>0, <1>2 DEF OnApi, OnUniform, OnTable, OnBars
<1>3. CASE ClearShaderList \/ OnShaderCompile
  BY <1>0, <1>3 DEF ClearShaderList, OnShaderCompile, Emptied
<1>4. CASE Asking
  BY <1>0, <1>4 DEF Asking, AskTarget, AskShaders, AskApi, AskBatch, AskUniforms, AskState,
                    AskBars, AskFrame, AskTable, Emptied
<1>5. CASE User
  BY <1>5, SMTT(30) DEF User, Change, SetUniform, OverrideShaders, Close
<1>6. CASE \/ \E tab \in Tabs : Select(tab)
           \/ \E tab \in Tabs : Experiment(tab)
           \/ Refresh \/ ShadersChanged \/ Join
  BY <1>6 DEF Select, Experiment, Refresh, ShadersChanged, Join
<1>7. CASE Drop \/ Send \/ Read \/ ReadEnd \/ OnUpload \/ OnMetricList \/ OnOpened \/ OnError
  BY <1>7 DEF Drop, Send, Read, ReadEnd, OnUpload, OnMetricList, OnOpened, OnError, ui
<1>8. CASE OpenFile \/ ReceiveFile \/ Serve \/ MakeChange \/ ReplaceShaders
  BY <1>8 DEF OpenFile, ReceiveFile, Serve, MakeChange, ReplaceShaders, ui
<1> QED BY <1>1, <1>2, <1>3, <1>4, <1>5, <1>6, <1>7, <1>8 DEF Next, Asking, User, Showing

(* The steps that put the answer that has been read on display.            *)
Arrives ==
  \/ OnRenderTarget \/ OnShaderAssembly \/ ShowApi \/ OnBatch \/ OnState
  \/ OnTable \/ OnBars

LEMMA Arrival ==
  ASSUME FrameInv, Arrives
  PROVE  /\ got.kind \in Panels \ {"uniforms"} /\ got \in Results /\ IsPart(got, req) /\ req.kind = got.kind
         /\ got.of = req /\ pc \in {"deliver", "show"} /\ Waiting
         /\ UNCHANGED <<sel, picked, exp, todo, tableSel, closing, far, cur, queue, running, req,
                        success, opened, collected>>
         /\ got' = Nothing /\ got.sel \in Nat /\ got.exp \in Nat /\ got.sel <= sel /\ got.exp <= exp
<1>1. pc \in {"deliver", "show"} /\ Waiting
  BY DEF Arrives, OnRenderTarget, OnShaderAssembly, ShowApi, OnBatch, OnState, OnTable, OnBars, Waiting
<1>2. got.kind \in {"target", "shaders", "api", "batch", "state", "table", "bars"}
  <2>1. ShowApi => got.kind = "api"
    BY Typed, Delivering DEF ShowApi
  <2> QED BY <2>1 DEF Arrives, OnRenderTarget, OnShaderAssembly, OnBatch, OnState, OnTable, OnBars
<1>3. got.kind \in Panels \ {"uniforms"}
  BY <1>1, <1>2, Typed, Delivering DEF AllPanels
<1>4. got \in Results /\ IsPart(got, req) /\ req.kind = got.kind /\ got.sel <= sel /\ got.exp <= exp
  BY <1>3, GotIds, Typed
<1>5. got.of = req /\ got.sel \in Nat /\ got.exp \in Nat
  BY <1>4 DEF IsPart, Results
<1>6. /\ UNCHANGED <<sel, picked, exp, todo, tableSel, closing, far, cur, queue, running, req,
                     success, opened, collected>>
      /\ got' = Nothing
  <2>1. \A b : Looped(b) # "show"
    BY DEF Looped
  <2> QED BY <2>1 DEF Arrives, OnRenderTarget, OnShaderAssembly, ShowApi, OnBatch, OnState, OnTable,
             OnBars, Delivered
<1> QED BY <1>1, <1>3, <1>4, <1>5, <1>6

LEMMA NothingShown ==
  ASSUME FrameInv, NEW p \in Panels
  PROVE  /\ panel[p].sel \in Nat /\ panel[p].exp \in Nat
         /\ panel[p].sel <= sel /\ panel[p].exp <= exp
         /\ \A a \in panel[p].shown : a \in Results /\ a.kind = p
BY Typed DEF Shown, Own

(* The panels after it.                                                    *)
LEMMA ShownTarget ==
  ASSUME FrameInv, OnRenderTarget, "target" \in Panels
  PROVE  \/ /\ SameIds(panel'["target"], got)
            /\ got.sel > panel["target"].sel \/ got.exp > panel["target"].exp
            /\ panel'["target"].shown = {got}
         \/ /\ SameIds(panel'["target"], panel["target"])
            /\ ~(got.sel > panel["target"].sel \/ got.exp > panel["target"].exp)
            /\ panel'["target"].shown = {got} \cup panel["target"].shown
BY Typed DEF OnRenderTarget, Shows, Kept, SameIds

LEMMA ShownShaders ==
  ASSUME FrameInv, OnShaderAssembly, "shaders" \in Panels
  PROVE  \/ panel' = panel /\ (got.sel # sel \/ got.exp # exp)
         \/ /\ SameIds(panel'["shaders"], got) /\ got.sel = sel /\ got.exp = exp
            /\ panel'["shaders"].shown =
                 {got} \cup (IF got.sel = panel["shaders"].sel THEN panel["shaders"].shown ELSE {})
BY Typed DEF OnShaderAssembly, Shows, Kept, SameIds

LEMMA ShownApi ==
  ASSUME FrameInv, ShowApi, "api" \in Panels
  PROVE  /\ SameIds(panel'["api"], got)
         /\ panel'["api"].shown =
              {got} \cup (IF got.sel = panel["api"].sel THEN panel["api"].shown ELSE {})
BY Typed DEF ShowApi, Shows, Kept, SameIds

LEMMA ShownBatch ==
  ASSUME FrameInv, OnBatch, "batch" \in Panels
  PROVE  \/ panel' = panel /\ (got.sel # sel \/ got.exp # exp)
         \/ /\ SameIds(panel'["batch"], got) /\ got.sel = sel /\ got.exp = exp
            /\ panel'["batch"].shown =
                 {got} \cup (IF SameIds(got, panel["batch"]) THEN panel["batch"].shown ELSE {})
BY Typed DEF OnBatch, Shows, Kept, SameIds

LEMMA ShownState ==
  ASSUME FrameInv, OnState, "state" \in Panels
  PROVE  /\ SameIds(panel'["state"], got)
         /\ panel'["state"].shown =
              {got} \cup (IF got.sel > panel["state"].sel \/ got.exp > panel["state"].exp
                          THEN {} ELSE panel["state"].shown)
BY Typed DEF OnState, Shows, Kept, SameIds

LEMMA ShownTable ==
  ASSUME FrameInv, OnTable, "table" \in Panels
  PROVE  \/ panel' = panel /\ got.sel # tableSel /\ got.sel # 0
         \/ /\ got.sel = tableSel \/ got.sel = 0
            /\ panel'["table"].shown = Replacing(panel["table"].shown, got)
<1>1. CASE got.sel # tableSel /\ got.sel # 0
  BY <1>1 DEF OnTable
<1>2. CASE got.sel = tableSel \/ got.sel = 0
  <2>1. panel' = [panel EXCEPT !["table"].shown = Replacing(@, got)]
    BY <1>2 DEF OnTable
  <2>2. panel'["table"].shown = Replacing(panel["table"].shown, got)
    BY <2>1, Typed
  <2> QED BY <1>2, <2>2
<1> QED BY <1>1, <1>2

LEMMA ShownBars ==
  ASSUME FrameInv, OnBars, "bars" \in Panels
  PROVE  panel'["bars"].shown = Replacing(panel["bars"].shown, got)
BY Typed DEF OnBars

LEMMA NewlyShown ==
  ASSUME FrameInv, Next, NEW p \in Panels \ {"uniforms"}, NEW a \in panel'[p].shown
  PROVE  \/ a \in panel[p].shown
         \/ /\ a = got /\ got.kind = p /\ IsPart(got, req) /\ got.of = req /\ req.kind = p
            /\ got \in Results /\ Waiting
<1>1. a \in panel[p].shown \cup From(p)
  BY StepPanels DEF PanelStep, FrameInv
<1>2. ASSUME a \in From(p)
      PROVE  /\ a = got /\ got.kind = p /\ IsPart(got, req) /\ got.of = req /\ req.kind = p
             /\ got \in Results /\ Waiting
  BY <1>2, GotIds DEF From, IsPart, FrameInv, Waiting
<1> QED BY <1>1, <1>2

LEMMA PartOf ==
  ASSUME NEW m, NEW r, IsPart(m, r), m.kind = r.kind, r.kind # "target"
  PROVE  m.part \in 1..Parts[r.kind] /\ m.sel = r.sel /\ m.exp = r.exp /\ m.of = r
<1>1. r.kind # "end"
  BY Apart DEF IsPart
<1> QED BY <1>1 DEF IsPart

(* Metrics of an empty selection are neither asked for nor shown.          *)
LEMMA ChosenKept ==
  ASSUME FrameInv, Next, Cleared
  PROVE  Chosen(req)' /\ \A i \in DOMAIN queue' : Chosen(queue[i])'
<1> DEFINE OK(r, s) == r.kind = "table" => r.sel \in s \cup {0}
<1>1. picked \subseteq picked'
  <2>1. CASE \E tab \in Tabs : Select(tab)
    BY <2>1 DEF Select
  <2>2. CASE \E tab \in Tabs : Experiment(tab)
    BY <2>2 DEF Experiment
  <2> QED BY <2>1, <2>2, IdsKept
<1>2. OK(req, picked') /\ \A i \in DOMAIN queue : OK(queue[i], picked')
  BY <1>1 DEF Cleared, Chosen
<1>3. \A r : Fresh(r) => OK(r, picked')
  BY <1>1 DEF Fresh, Allowed
<1> HIDE DEF OK
<1>4. \A i \in DOMAIN queue' : OK(queue'[i], picked')
  BY <1>2, <1>3, QueueMembers, StepQueue DEF FrameInv
<1>5. OK(req', picked')
  BY <1>2, StepRequest, SentHead DEF FrameInv
<1> QED BY <1>4, <1>5 DEF OK, Chosen

LEMMA StepCleared ==
  ASSUME FrameInv, Next, failed = {}, failed' = {}, Marked, Cleared
  PROVE  Cleared'
<1> SUFFICES ASSUME "table" \in Panels, sel' > 0, sel' \notin picked', ~ToAsk("table")',
                    NEW a \in panel'["table"].shown
             PROVE  a.sel = 0
  BY ChosenKept DEF Cleared
<1>0. "table" \in Questions /\ "frame" \in Questions
  BY Apart DEF Questions, Steps
<1>1. CASE AskTable
  <2>1. sel' = sel /\ picked' = picked
    BY <1>1 DEF AskTable
  <2>2. panel' = [panel EXCEPT !["table"].shown = {b \in @ : b.sel = 0}]
    BY <1>1, <2>1 DEF AskTable
  <2> QED BY <2>2, Typed
<1>2. CASE OnTable
  <2>1. /\ got.kind = "table" /\ IsPart(got, req) /\ req.kind = "table"
        /\ UNCHANGED <<sel, picked, todo, tableSel>>
    BY <1>2, Arrival DEF Arrives, OnTable
  <2>2. got.sel = req.sel /\ (req.sel \in picked \/ req.sel = 0)
    BY <2>1, PartOf DEF Cleared, Chosen
  <2>3. ~ToAsk("table")
    BY <2>1 DEF ToAsk
  <2>4. tableSel = sel /\ \A b \in panel["table"].shown : b.sel = 0
    BY <2>1, <2>3 DEF Marked, Cleared
  <2>5. a \in panel["table"].shown \/ (a = got /\ (got.sel = tableSel \/ got.sel = 0))
    BY <1>2, ShownTable DEF Replacing
  <2> QED BY <2>1, <2>2, <2>4, <2>5
<1>3. CASE ~AskTable /\ ~OnTable
  <2>1. panel'["table"] = panel["table"]
    BY <1>3, PanelChanges, Apart
  <2>2. ~ToAsk("table") /\ UNCHANGED <<sel, picked>>
    <3>1. CASE \E tab \in Tabs : Select(tab)
      BY <1>0, <3>1, SelectAsks
    <3>2. CASE \E tab \in Tabs : Experiment(tab)
      BY <1>0, <3>2, ExperimentAsks
    <3>3. CASE Asking
      <4>1. Head(todo) # "table"
        BY <1>3, <3>3 DEF Asking, AskTarget, AskShaders, AskApi, AskBatch, AskUniforms, AskState,
                          AskBars, AskFrame
      <4>2. Posing(Head(todo))
        BY <3>3, AskingPoses
      <4>3. Head(todo) # "frame"
        BY <4>2 DEF Posing, ToAsk
      <4> QED BY <4>1, <4>2, <4>3 DEF Posing, ToAsk
    <3>4. CASE ~(\E tab \in Tabs : Select(tab)) /\ ~(\E tab \in Tabs : Experiment(tab)) /\ ~Asking
      BY <1>0, <3>4, StepCalm DEF Calm, ToAsk
    <3> QED BY <3>1, <3>2, <3>3, <3>4
  <2> QED BY <2>1, <2>2 DEF Cleared
<1> QED BY <1>1, <1>2, <1>3

LEMMA StateInTurn ==
  ASSUME FrameInv, Waiting, NEW k \in Panels \cap {"api", "state"}, req.kind = k
  PROVE  panel[k].sel <= req.sel /\ panel[k].exp <= req.exp
BY Typed DEF Ordered, InTurn, NotAfter

LEMMA TitledIds ==
  ASSUME FrameInv, Next, Titled,
         NEW p \in Panels \cap {"api", "shaders", "batch", "state"}, NEW a \in panel'[p].shown
  PROVE  a.of.sel = panel'[p].sel /\ (p \in {"batch", "state"} => a.of.exp = panel'[p].exp)
<1> DEFINE old == panel[p]
<1>1. \A b \in old.shown : b.of.sel = old.sel /\ (p \in {"batch", "state"} => b.of.exp = old.exp)
  BY DEF Titled
<1>2. old.sel \in Nat /\ old.exp \in Nat
  BY NothingShown
<1>3. CASE panel'[p] = old \/ panel'[p] = [old EXCEPT !.shown = {}]
  BY <1>1, <1>3, Typed DEF Shown
<1>4. CASE AskState /\ p = "state"
  <2>1. panel'[p].shown = {}
    BY <1>4, Typed DEF AskState, Emptied
  <2> QED BY <2>1
<1>5. CASE Arrives /\ got.kind = p
  <2>1. got.of = req /\ got.sel = req.sel /\ got.exp = req.exp /\ Waiting /\ req.kind = p
        /\ got.sel \in Nat /\ got.exp \in Nat
    <3>1. /\ IsPart(got, req) /\ req.kind = got.kind /\ Waiting
          /\ got.sel \in Nat /\ got.exp \in Nat
      BY <1>5, Arrival
    <3> QED BY <1>5, <3>1, PartOf
  <2>2. CASE p = "shaders" /\ OnShaderAssembly
    BY <1>1, <2>1, <2>2, ShownShaders DEF SameIds
  <2>3. CASE p = "api" /\ ShowApi
    BY <1>1, <2>1, <2>3, ShownApi DEF SameIds
  <2>4. CASE p = "batch" /\ OnBatch
    BY <1>1, <2>1, <2>4, ShownBatch DEF SameIds
  <2>5. CASE p = "state" /\ OnState
    <3>1. old.sel <= got.sel /\ old.exp <= got.exp
      BY <2>1, <2>5, StateInTurn
    <3>2. SameIds(panel'[p], got)
      BY <2>5, ShownState
    <3>3. a = got \/ (a \in old.shown /\ ~(got.sel > old.sel \/ got.exp > old.exp))
      BY <2>5, ShownState
    <3>4. CASE a = got
      BY <2>1, <3>2, <3>4 DEF SameIds
    <3>5. CASE a \in old.shown /\ ~(got.sel > old.sel \/ got.exp > old.exp)
      <4>1. got.sel = old.sel /\ got.exp = old.exp
        BY <1>2, <2>1, <3>1, <3>5
      <4> QED BY <1>1, <3>2, <3>5, <4>1 DEF SameIds
    <3> QED BY <3>3, <3>4, <3>5
  <2>6. \/ p = "shaders" /\ OnShaderAssembly
        \/ p = "api" /\ ShowApi
        \/ p = "batch" /\ OnBatch
        \/ p = "state" /\ OnState
    <3>1. ShowApi => got.kind = "api"
      BY Typed, Delivering DEF ShowApi
    <3> QED BY <1>5, <3>1 DEF Arrives, OnRenderTarget, OnShaderAssembly, OnBatch, OnState, OnTable, OnBars
  <2> QED BY <2>2, <2>3, <2>4, <2>5, <2>6
<1>6. \/ panel'[p] = old \/ panel'[p] = [old EXCEPT !.shown = {}]
      \/ AskState /\ p = "state"
      \/ Arrives /\ got.kind = p
  <2>1. ShowApi => got.kind = "api"
    BY Typed, Delivering DEF ShowApi
  <2>2. /\ OnShaderAssembly => got.kind = "shaders"
        /\ OnBatch => got.kind = "batch"
        /\ OnState => got.kind = "state"
    BY DEF OnShaderAssembly, OnBatch, OnState
  <2> QED BY <2>1, <2>2, PanelChanges DEF Arrives
<1> QED BY <1>3, <1>4, <1>5, <1>6

LEMMA TitledTargets ==
  ASSUME FrameInv, Next, Titled, Marked, "target" \in Panels, NEW a \in panel'["target"].shown
  PROVE  NotAfter(a.of, panel'["target"])
<1> DEFINE old == panel["target"]
<1>1. \A b \in old.shown : NotAfter(b.of, old)
  BY DEF Titled
<1>2. CASE panel'["target"] = old
  BY <1>1, <1>2
<1>3. CASE OnRenderTarget
  <2>1. /\ got.kind = "target" /\ got \in Results /\ got.sel \in Nat /\ got.exp \in Nat
    BY <1>3, Arrival DEF Arrives, OnRenderTarget
  <2>2. NotAfter(got.of, got) /\ got.of.sel \in Nat /\ got.of.exp \in Nat
    BY <2>1 DEF Marked, Results, RequestsOf
  <2>3. old.sel \in Nat /\ old.exp \in Nat
    BY NothingShown
  <2>4. CASE SameIds(panel'["target"], got) /\ panel'["target"].shown = {got}
    BY <2>2, <2>4 DEF SameIds, NotAfter
  <2>5. CASE /\ SameIds(panel'["target"], old) /\ ~(got.sel > old.sel \/ got.exp > old.exp)
             /\ panel'["target"].shown = {got} \cup old.shown
    <3>1. CASE a = got
      <4>1. got.sel <= old.sel /\ got.exp <= old.exp
        BY <2>1, <2>3, <2>5
      <4> QED BY <2>1, <2>2, <2>3, <2>5, <3>1, <4>1 DEF SameIds, NotAfter
    <3>2. CASE a \in old.shown
      BY <1>1, <2>5, <3>2 DEF SameIds, NotAfter
    <3> QED BY <2>5, <3>1, <3>2
  <2> QED BY <1>3, <2>4, <2>5, ShownTarget
<1> QED BY <1>2, <1>3, PanelChanges

LEMMA StepTitled ==
  ASSUME FrameInv, Next, Titled, Marked PROVE Titled'
<1>1. ASSUME NEW p \in Panels \ {"target", "uniforms"}, NEW a \in panel'[p].shown
      PROVE  /\ a.of.kind = p
             /\ p \in {"table", "bars"} =>
                  a.sel = a.of.sel /\ a.part \in 1..Parts[p] /\ (p = "bars" => a.sel = 0)
  <2>1. CASE a \in panel[p].shown
    BY <2>1 DEF Titled
  <2>2. CASE /\ a = got /\ got.kind = p /\ IsPart(got, req) /\ got.of = req /\ req.kind = p
    <3>1. a.part \in 1..Parts[p] /\ a.sel = req.sel /\ a.of = req
      BY <2>2, PartOf
    <3>2. p = "bars" => req.sel = 0
      BY <2>2 DEF Marked, Within
    <3> QED BY <2>2, <3>1, <3>2
  <2> QED BY <2>1, <2>2, NewlyShown
<1> QED BY <1>1, TitledIds, TitledTargets DEF Titled

-----------------------------------------------------------------------------
(* The socket and the stub's thread while it waits for a panel's answer.   *)

Opening == OnMetricList \/ OnOpened \/ OnError \/ OnUpload

LEMMA FarSteps ==
  ASSUME FrameInv, Next
  PROVE  \/ UNCHANGED <<up, down>>
         \/ Send /\ UNCHANGED down
         \/ (Read \/ ReadEnd) /\ UNCHANGED up
         \/ Serve
         \/ MakeChange /\ UNCHANGED down
         \/ Waiting /\ req.kind \in {"open", "compile"} /\ UNCHANGED req
<1>1. CASE Asking \/ ClearShaderList
  BY <1>1 DEF Asking, AskTarget, AskShaders, AskApi, AskBatch, AskUniforms, AskState,
              AskBars, AskFrame, AskTable, ClearShaderList, far
<1>2. CASE User \/ Refresh
  BY <1>2, SMTT(30) DEF User, Change, SetUniform, OverrideShaders, Close, Refresh, far
<1>3. CASE \/ \E tab \in Tabs : Select(tab)
           \/ \E tab \in Tabs : Experiment(tab)
           \/ ShadersChanged \/ Join
  BY <1>3 DEF Select, Experiment, ShadersChanged, Join, far
<1>4. CASE Showing \/ OnMetricList \/ OnOpened \/ OnError
  BY <1>4 DEF Showing, OnRenderTarget, OnShaderAssembly, OnApi, ShowApi, OnBatch, OnUniform,
     OnState, OnTable, OnBars, OnShaderCompile, OnMetricList, OnOpened, OnError, Delivered, far
<1>5. CASE Drop \/ Send \/ Read \/ ReadEnd \/ MakeChange \/ Serve
  BY <1>5 DEF Drop, Send, Read, ReadEnd, MakeChange, far
<1>6. CASE OnUpload
  <2>1. Uploading /\ Waiting
    BY <1>6, Typed, Delivering DEF OnUpload, Waiting
  <2> QED BY <1>6, <2>1 DEF OnUpload, Uploading
<1>7. CASE OpenFile \/ ReplaceShaders
  <2>1. daemon = "serving" /\ up # << >> /\ Head(up).kind \in {"open", "compile"} /\ UNCHANGED req
    BY <1>7 DEF OpenFile, ReplaceShaders, stub
  <2>2. Waiting /\ Head(up) = req
    BY <2>1, Typed, FirstOut
  <2> QED BY <2>1, <2>2
<1>8. CASE ReceiveFile
  <2>1. Uploading /\ UNCHANGED req /\ Waiting
    BY <1>8, Typed DEF ReceiveFile, stub, Protocol, Resting, Sent, Answering, Forgotten
  <2> QED BY <2>1 DEF Uploading
<1> QED BY <1>1, <1>2, <1>3, <1>4, <1>5, <1>6, <1>7, <1>8 DEF Next, Asking, User, Showing

LEMMA StubSteps ==
  ASSUME FrameInv, Next
  PROVE  \/ UNCHANGED <<pc, req, got, success>>
         \/ ~Waiting /\ UNCHANGED success
         \/ Read \/ ReadEnd
         \/ (Showing \/ Opening) /\ UNCHANGED <<req, success>> /\ got' \in {got, Nothing}
<1>1. CASE Asking \/ ClearShaderList
  BY <1>1 DEF Asking, AskTarget, AskShaders, AskApi, AskBatch, AskUniforms, AskState,
              AskBars, AskFrame, AskTable, ClearShaderList, RestOfStub, stub
<1>2. CASE User \/ Refresh
  BY <1>2, SMTT(30) DEF User, Change, SetUniform, OverrideShaders, Close, Refresh, stub
<1>3. CASE \/ \E tab \in Tabs : Select(tab)
           \/ \E tab \in Tabs : Experiment(tab)
           \/ ShadersChanged \/ Join
  BY <1>3 DEF Select, Experiment, ShadersChanged, Join, stub
<1>4. CASE Showing \/ OnMetricList \/ OnOpened \/ OnError \/ OnUpload
  BY <1>4 DEF Showing, OnRenderTarget, OnShaderAssembly, OnApi, ShowApi, OnBatch, OnUniform,
     OnState, OnTable, OnBars, OnShaderCompile, OnMetricList, OnOpened, OnError, OnUpload,
     Delivered, Opening
<1>5. CASE Read \/ ReadEnd
  BY <1>5
<1>6. CASE OpenFile \/ ReceiveFile \/ Serve \/ MakeChange \/ ReplaceShaders
  BY <1>6 DEF OpenFile, ReceiveFile, Serve, MakeChange, ReplaceShaders, stub
<1>7. CASE Drop \/ Send
  BY <1>7 DEF Drop, Send, Waiting
<1> QED BY <1>1, <1>2, <1>3, <1>4, <1>5, <1>6, <1>7 DEF Next, Asking, User, Showing

(* Images come only in answers to requests for one.                        *)
ImagesAsked == \A i \in DOMAIN down : down[i].kind = "target" => req.kind = "target"

LEMMA TargetsAsked == FrameInv => ImagesAsked
<1> SUFFICES ASSUME FrameInv, NEW i \in DOMAIN down, down[i].kind = "target"
             PROVE  req.kind = "target"
  BY DEF ImagesAsked
<1>1. CASE Answering
  <2>1. Fits(down[i], req)
    BY <1>1 DEF Answering, RestOfAnswer
  <2> QED BY <2>1 DEF Fits, IsPart
<1>2. CASE down = << >>
  BY <1>2
<1>3. CASE Uploading
  <2>1. down = <<Message("upload")>>
    BY <1>3 DEF Uploading
  <2> QED BY <2>1 DEF Message
<1> QED BY <1>1, <1>2, <1>3, Typed DEF Protocol, Sent, Forgotten, Resting

LEMMA NoParts ==
  ASSUME FrameInv, req \in RequestsOf(Panels)
  PROVE  /\ Answers(req, 0) \in Seq(Results) /\ Len(Answers(req, 0)) = 1
         /\ Answers(req, 0)[1].kind = "end"
<1>1. Types
  BY Typed
<1>2. Parts[req.kind] \in Nat
  BY CountsAssumption DEF RequestsOf
<1>3. 0 \in 0..Parts[req.kind]
  BY <1>2
<1>4. ASSUME NEW n \in 0..Parts[req.kind]
      PROVE  /\ Answers(req, n) \in Seq(Results) /\ Len(Answers(req, n)) = n + 1
             /\ \A i \in 1..(n + 1) : i = n + 1 => Answers(req, n)[i].kind = "end"
  BY <1>1, <1>4, AnswersParts
<1>5. /\ Answers(req, 0) \in Seq(Results) /\ Len(Answers(req, 0)) = 0 + 1
      /\ \A i \in 1..(0 + 1) : i = 0 + 1 => Answers(req, 0)[i].kind = "end"
  BY <1>3, <1>4
<1>6. 1 \in 1..(0 + 1) /\ 1 = 0 + 1
  OBVIOUS
<1> QED BY <1>5, <1>6

LEMMA WarningFirst ==
  ASSUME NEW T, NEW w, NEW rest \in Seq(T), Len(rest) = 1
  PROVE  /\ DOMAIN (<<w>> \o rest) = {1, 2}
         /\ (<<w>> \o rest)[1] = w /\ (<<w>> \o rest)[2] = rest[1]
<1> DEFINE U == T \cup {w}
           one == <<w>>
<1>1. one \in Seq(U) /\ Len(one) = 1 /\ one[1] = w
  OBVIOUS
<1>2. rest \in Seq(U)
  OBVIOUS
<1> HIDE DEF one, U
<1>3. /\ one \o rest \in Seq(U) /\ Len(one \o rest) = 2
      /\ \A i \in 1..2 : (one \o rest)[i] = IF i <= 1 THEN one[i] ELSE rest[i - 1]
  BY <1>1, <1>2, ConcatProperties
<1>4. DOMAIN (one \o rest) = {1, 2}
  BY <1>3
<1>5. (one \o rest)[1] = w /\ (one \o rest)[2] = rest[1]
  BY <1>1, <1>3
<1> QED BY <1>4, <1>5 DEF one

LEMMA ImagesSent ==
  ASSUME FrameInv, Imaged, Next
  PROVE  \A i \in DOMAIN down' : down'[i].kind = "target" => down'[i].part # 0
<1> SUFFICES ASSUME NEW i \in DOMAIN down', down'[i].kind = "target" PROVE down'[i].part # 0
  OBVIOUS
<1>1. req'.kind = "target"
  <2>1. FrameInv'
    BY StepFrame
  <2>2. ImagesAsked'
    BY <2>1, TargetsAsked, PTL
  <2> QED BY <2>2 DEF ImagesAsked
<1>2. CASE UNCHANGED down
  BY <1>2 DEF Imaged
<1>3. CASE Read \/ ReadEnd
  <2>1. down # << >> /\ down' = Tail(down)
    BY <1>3 DEF Read, ReadEnd
  <2>2. /\ DOMAIN down' = 1..(Len(down) - 1) /\ DOMAIN down = 1..Len(down) /\ Len(down) \in Nat
        /\ \A j \in 1..(Len(down) - 1) : down'[j] = down[j + 1]
    BY <2>1, Typed, TailFacts
  <2>3. i + 1 \in DOMAIN down /\ down'[i] = down[i + 1]
    BY <2>2
  <2> QED BY <2>3 DEF Imaged
<1>4. CASE Serve
  <2>1. /\ req \in RequestsOf(Panels)
        /\ \/ \E n \in 0..Parts[req.kind] : down' = Answers(req, n)
           \/ down' = <<Message("warning")>> \o Answers(req, 0)
    BY <1>4, ServeAnswers, Typed
  <2>2. Parts[req.kind] \in Nat
    BY <2>1, CountsAssumption DEF RequestsOf
  <2>3. ASSUME NEW n \in 0..Parts[req.kind], NEW j \in DOMAIN Answers(req, n),
               Answers(req, n)[j].kind = "target"
        PROVE  Answers(req, n)[j].part # 0
    <3>1. n \in Nat
      BY <2>2
    <3>2. /\ Answers(req, n) \in Seq(Results) /\ Len(Answers(req, n)) = n + 1
          /\ \A k \in 1..(n + 1) : /\ k <= n => Answers(req, n)[k].part = k
                                   /\ k = n + 1 => Answers(req, n)[k].kind = "end"
      BY <2>1, AnswersParts, Typed
    <3>3. j \in 1..(n + 1)
      BY <3>1, <3>2
    <3> QED BY <2>3, <3>1, <3>2, <3>3
  <2>4. CASE \E n \in 0..Parts[req.kind] : down' = Answers(req, n)
    BY <2>3, <2>4
  <2>5. CASE down' = <<Message("warning")>> \o Answers(req, 0)
    <3>2. Answers(req, 0) \in Seq(Results) /\ Len(Answers(req, 0)) = 1 /\ Answers(req, 0)[1].kind = "end"
      BY <2>1, NoParts
    <3> DEFINE rest == Answers(req, 0)
               w == Message("warning")
    <3>3. w.kind = "warning"
      BY DEF Message
    <3> HIDE DEF rest, w
    <3>4. DOMAIN down' = {1, 2} /\ down'[1] = w /\ down'[2] = rest[1]
      BY <2>5, <3>2 DEF rest, w
    <3> QED BY <3>2, <3>3, <3>4 DEF rest
  <2> QED BY <2>1, <2>4, <2>5
<1>5. CASE req.kind \in {"open", "compile"} /\ UNCHANGED req
  BY <1>1, <1>5
<1> QED BY <1>2, <1>3, <1>4, <1>5, FarSteps

LEMMA WhoShows ==
  ASSUME FrameInv, Showing \/ Opening, req.kind \in Panels
  PROVE  /\ Answering /\ up = << >> /\ pc \in {"deliver", "show"}
         /\ \/ OnUniform /\ req.kind = "uniforms"
            \/ OnApi /\ got.kind = "api" /\ req.kind = "api" /\ pc = "deliver"
            \/ Arrives /\ got.kind = req.kind
<1>1. pc \in {"deliver", "show"}
  BY DEF Showing, Opening, OnRenderTarget, OnShaderAssembly, OnApi, ShowApi, OnBatch, OnUniform,
     OnState, OnTable, OnBars, OnShaderCompile, OnMetricList, OnOpened, OnError, OnUpload
<1>2. got.kind # "upload"
  BY <1>1, Typed, Delivering, Apart DEF Uploading
<1>3. Answering /\ Fits(got, req)
  BY <1>1, <1>2, Typed, Delivering
<1>4. up = << >>
  BY <1>3 DEF Answering
<1>5. got.kind \in {req.kind, "end", "warning"}
  BY <1>3, Apart DEF Fits, IsPart
<1>6. got.kind # "warning" /\ (got.kind = "end" => req.kind = "uniforms")
  BY <1>1, <1>3, Apart DEF Answering
<1>7. CASE got.kind = "end"
  BY <1>1, <1>3, <1>4, <1>6, <1>7 DEF Showing, Opening, OnRenderTarget, OnShaderAssembly, OnApi, ShowApi,
     OnBatch, OnUniform, OnState, OnTable, OnBars, OnShaderCompile, OnMetricList, OnOpened, OnError,
     OnUpload, Answering
<1>8. CASE got.kind = req.kind
  <2>1. got.kind \in AllPanels
    BY <1>8, PanelsAssumption
  <2>2. ~OnShaderCompile /\ ~Opening
    BY <2>1 DEF AllPanels, OnShaderCompile, Opening, OnMetricList, OnOpened, OnError, OnUpload
  <2>3. OnApi => got.kind = "api" /\ pc = "deliver"
    BY DEF OnApi
  <2>4. OnUniform => req.kind = "uniforms"
    BY DEF OnUniform
  <2>5. OnUniform \/ OnApi \/ Arrives
    BY <2>2 DEF Showing, Arrives
  <2> QED BY <1>1, <1>3, <1>4, <1>8, <2>3, <2>4, <2>5
<1> QED BY <1>5, <1>6, <1>7, <1>8

LEMMA LabelledPart ==
  ASSUME NEW a \in Messages
  PROVE  /\ Labelled(a).kind = a.kind
         /\ a \in Results => Labelled(a).part = a.part /\ Labelled(a).of = a.of
<1>1. CASE a \in Results
  BY <1>1 DEF Labelled, Results
<1>2. CASE a \notin Results
  <2>1. a.kind # "target"
    BY <1>2 DEF Messages, Plain
  <2> QED BY <1>2, <2>1 DEF Labelled
<1> QED BY <1>1, <1>2

LEMMA ImageRead ==
  ASSUME FrameInv, Imaged, Read, success'
  PROVE  /\ Waiting' /\ req'.kind = "target" /\ up' = << >>
         /\ ~(got'.kind = "target" /\ got'.part = 0)
<1> DEFINE a == Head(down)
<1>0. down \in Seq(Messages) /\ down # << >> /\ a = down[1] /\ 1 \in DOMAIN down /\ a \in Messages
  BY Typed, TailFacts DEF Read
<1>1. req.kind = "target"
  <2>1. CASE success
    BY <2>1 DEF Imaged
  <2>2. CASE a.kind = "target"
    BY <1>0, <2>2, TargetsAsked DEF ImagesAsked
  <2> QED BY <2>1, <2>2 DEF Read
<1>2. req \in RequestsOf(Kinds) /\ "target" \in Panels
  BY <1>1, Typed DEF RequestsOf, Kinds
<1>3. up = << >>
  BY <1>1, <1>2, ReadHead
<1>4. ~(got'.kind = "target" /\ got'.part = 0)
  <2>1. CASE got' = Nothing
    BY <2>1 DEF Nothing
  <2>2. CASE got' = Labelled(a)
    <3>1. SUFFICES ASSUME got'.kind = "target" PROVE got'.part # 0
      OBVIOUS
    <3>2. a.kind = "target"
      BY <1>0, <2>2, <3>1, LabelledPart
    <3>3. a \in Results
      BY <1>0, <3>2 DEF Messages, Plain
    <3>4. got'.part = a.part
      BY <1>0, <2>2, <3>3, LabelledPart
    <3>5. a.part # 0
      BY <1>0, <3>2 DEF Imaged
    <3> QED BY <3>4, <3>5
  <2> QED BY <2>1, <2>2 DEF Read
<1>5. Waiting' /\ UNCHANGED <<req, up>>
  BY DEF Read, Waiting, Skipped
<1> QED BY <1>1, <1>3, <1>4, <1>5

LEMMA StepImaged ==
  ASSUME FrameInv, Imaged, Next PROVE Imaged'
<1> SUFFICES ASSUME success'
             PROVE  /\ Waiting' /\ req'.kind = "target" /\ up' = << >>
                    /\ ~(got'.kind = "target" /\ got'.part = 0)
  BY ImagesSent DEF Imaged
<1>1. CASE Read
  BY <1>1, ImageRead
<1>2. CASE ~Read
  <2>1. ~ReadEnd
    BY DEF ReadEnd
  <2>2. success /\ Waiting
    BY <1>2, <2>1, StubSteps DEF Imaged
  <2>3. req.kind = "target" /\ up = << >> /\ ~(got.kind = "target" /\ got.part = 0)
    BY <2>2 DEF Imaged
  <2>4. "target" \in Panels
    BY <2>3, Typed DEF RequestsOf, Kinds
  <2>5. UNCHANGED up
    <3>1. ~Send /\ ~Serve /\ ~MakeChange
      BY <2>2, <2>3 DEF Send, Serve, MakeChange, Waiting
    <3> QED BY <1>2, <2>1, <2>3, <3>1, FarSteps
  <2>6. CASE UNCHANGED <<pc, req, got, success>>
    BY <2>2, <2>3, <2>5, <2>6 DEF Waiting
  <2>7. CASE (Showing \/ Opening) /\ UNCHANGED <<req, success>>
    <3>1. Arrives /\ got.kind = "target"
      BY <2>3, <2>4, <2>7, WhoShows
    <3>2. OnRenderTarget /\ got.part # 0
      <4>1. ShowApi => got.kind = "api"
        BY Typed, Delivering DEF ShowApi
      <4> QED BY <2>3, <3>1, <4>1 DEF Arrives, OnShaderAssembly, OnBatch, OnState, OnTable, OnBars
    <3>3. pc' = "read" /\ got' = Nothing
      BY <3>2 DEF OnRenderTarget, Delivered
    <3> QED BY <2>3, <2>5, <2>7, <3>3 DEF Waiting, Nothing
  <2> QED BY <1>2, <2>1, <2>2, <2>6, <2>7, StubSteps
<1> QED BY <1>1, <1>2

-----------------------------------------------------------------------------
(* What is asked behind a request, and that it is not dropped.             *)

ToAskThen(x) == x \in Members(todo') \/ (x = "table" /\ "frame" \in Members(todo'))
AsksThen(x, r) == About(x, r, sel', exp')
AheadThen(x, n) ==
  ToAskThen(x) \/ (\E i \in DOMAIN queue' : i > n /\ AsksThen(x, queue'[i]))
MattersThen(x) ==
  sel' \in picked' \/ x \in {"frame", "bars"} \/ (x = "api" /\ sel' > 0)

LEMMA Then ==
  /\ \A x : ToAsk(x)' <=> ToAskThen(x)
  /\ \A x, n : Ahead(x, n)' <=> AheadThen(x, n)
  /\ \A x : Matters(x)' <=> MattersThen(x)
  /\ \A x : Asks(x, req)' <=> AsksThen(x, req')
  /\ \A x, r : Asks(x, r)' <=> AsksThen(x, r)
BY DEF ToAsk, ToAskThen, Ahead, AheadThen, Matters, MattersThen, Asks, AsksThen

LEMMA ThenSteady ==
  ASSUME FrameInv, Next, NEW x \in Questions, ~ToAskThen(x), MattersThen(x)
  PROVE  Steady(x) /\ Matters(x) /\ \A r : AsksThen(x, r) <=> Asks(x, r)
<1>1. Steady(x)
  BY StepAsks, Then
<1>2. Matters(x)
  BY <1>1 DEF Steady, Matters, MattersThen
<1>3. \A r : About(x, r, sel', exp') <=> About(x, r, sel, exp)
  BY <1>1, SteadySame
<1> QED BY <1>1, <1>2, <1>3 DEF AsksThen, Asks

LEMMA TodoKept ==
  ASSUME FrameInv, Next, failed = {}, failed' = {}, NEW x \in Questions, Matters(x), ToAsk(x)
  PROVE  ToAskThen(x) \/ \E r : Posed(r) /\ Asks(x, r)
<1>0. "table" \in Questions => "frame" \in Questions
  BY Apart DEF Questions, Steps
<1>1. CASE \E tab \in Tabs : Select(tab)
  BY <1>1, SelectAsks DEF ToAsk, Members
<1>2. CASE \E tab \in Tabs : Experiment(tab)
  <2>1. todo = <<"experiment">>
    BY <1>2, ExperimentAsks
  <2>2. Members(todo) = {"experiment"}
    BY <2>1 DEF Members
  <2>3. "experiment" \notin Questions /\ "frame" # "experiment"
    BY Apart DEF Questions, Steps
  <2> QED BY <2>2, <2>3 DEF ToAsk
<1>3. CASE todo # << >> /\ Posing(Head(todo))
  <2>1. CASE x \in Members(todo) /\ x # Head(todo)
    BY <1>3, <2>1 DEF Posing, ToAskThen
  <2>2. CASE x = Head(todo)
    BY <1>3, <2>2 DEF Posing
  <2>3. CASE x = "table" /\ "frame" \in Members(todo)
    BY <1>3, <2>3 DEF Posing, ToAskThen
  <2> QED BY <2>1, <2>2, <2>3 DEF ToAsk
<1>4. CASE Calm
  BY <1>0, <1>4 DEF Calm, ToAsk, ToAskThen
<1> QED BY <1>1, <1>2, <1>3, <1>4, StepPhases

LEMMA AskedCurrent ==
  ASSUME FrameInv, Marked, NEW x \in Questions, Matters(x),
         NEW r \in RequestsOf(Kinds), Known(r), Within(r, cur), Asks(x, r)
  PROVE  /\ Current(r) \/ (x = "table" /\ ToAsk(x))
         /\ r.kind \in Panels /\ r.kind = PanelOf(x)
         /\ r.kind # "api" => cur.exp = exp /\ r.exp = exp
         /\ r.kind \in {"shaders", "api", "batch", "uniforms", "state"} =>
              cur.render = sel /\ r.sel = sel
<1> USE Numbers
<1>1. x \in Panels \cup {"frame"} /\ PanelOf(x) \in Panels /\ x # "shaderlist"
  BY Apart DEF Questions, Steps, PanelOf
<1>2. /\ r.kind = PanelOf(x) /\ r.sel = (IF x \in {"frame", "bars"} THEN 0 ELSE sel)
      /\ x # "api" => r.exp = exp
  BY DEF Asks, About
<1>3. r.kind # "api" => cur.exp = exp /\ r.exp = exp
  <2>1. r.kind # "api" => r.exp <= cur.exp /\ r.exp = exp
    BY <1>1, <1>2 DEF Known, PanelOf
  <2> QED BY <2>1
<1>4. r.kind \in {"shaders", "api", "batch", "uniforms", "state"} => cur.render = sel /\ r.sel = sel
  <2>1. r.kind \in {"shaders", "api", "batch", "uniforms", "state"} => r.sel <= cur.render /\ r.sel = sel
    BY <1>2 DEF Within, PanelOf
  <2> QED BY <2>1
<1>5. r.kind = "target" => cur.rt = r.sel
  <2>1. r.kind = "target" => r.sel <= cur.rt /\ r.sel = sel
    BY <1>2 DEF Within, PanelOf
  <2> QED BY <2>1
<1>6. r.kind = "table" => cur.met = r.sel \/ r.sel = 0 \/ (x = "table" /\ ToAsk(x))
  <2>1. CASE x = "frame"
    BY <1>2, <2>1
  <2>2. CASE x = "table"
    <3>1. sel > 0 /\ sel \in picked /\ "table" \in Panels /\ r.sel = sel
      BY <1>1, <1>2, <2>2, Apart, PickedSince DEF Matters
    <3> QED BY <2>2, <3>1 DEF Marked
  <2> QED BY <1>2, <2>1, <2>2 DEF PanelOf
<1>7. r.kind \in AllPanels
  BY <1>1, <1>2, PanelsAssumption
<1>8. Current(r) \/ (x = "table" /\ ToAsk(x))
  <2>1. CASE r.kind \in {"target", "shaders", "batch", "uniforms", "state"}
    BY <1>3, <1>4, <1>5, <2>1 DEF Current, SelectionOf
  <2>2. CASE r.kind = "api"
    BY <1>4, <2>2 DEF Current
  <2>3. CASE r.kind = "bars"
    BY <1>3, <2>3 DEF Current
  <2>4. CASE r.kind = "table"
    <3>1. cur.exp <= r.exp
      BY <1>3, <2>4
    <3> QED BY <1>6, <2>4, <3>1 DEF Current
  <2> QED BY <1>7, <2>1, <2>2, <2>3, <2>4 DEF AllPanels
<1> QED BY <1>1, <1>2, <1>3, <1>4, <1>8

LEMMA AheadKept ==
  ASSUME FrameInv, Next, failed = {}, failed' = {}, Marked,
         NEW x \in Questions, Matters(x), NEW n \in 0..Len(queue), Ahead(x, n)
  PROVE  \/ AheadThen(x, n)
         \/ queue # << >> /\ queue' = Tail(queue) /\ n > 0 /\ AheadThen(x, n - 1)
         \/ Send /\ n = 0 /\ AsksThen(x, req')
<1> SUFFICES ASSUME ~ToAskThen(x)
             PROVE  \/ AheadThen(x, n)
                    \/ queue # << >> /\ queue' = Tail(queue) /\ n > 0 /\ AheadThen(x, n - 1)
                    \/ Send /\ n = 0 /\ AsksThen(x, req')
  BY DEF AheadThen
<1>1. \A r : Asks(x, r) <=> AsksThen(x, r)
  BY StepAsks, SteadySame, Then DEF Asks, AsksThen
<1>2. Len(queue) \in Nat /\ DOMAIN queue = 1..Len(queue) /\ n \in Nat /\ n <= Len(queue)
  BY QueueIndices
<1>3. CASE \E r : Posed(r) /\ Asks(x, r)
  <2>1. PICK r : Posed(r) /\ Asks(x, r)
    BY <1>3
  <2>2. DOMAIN queue' = 1..(Len(queue) + 1) /\ queue'[Len(queue) + 1] = r
    BY <2>1, QueueIndices, Zenon DEF Posed
  <2>3. Len(queue) + 1 \in DOMAIN queue' /\ Len(queue) + 1 > n
    BY <1>2, <2>2
  <2> QED BY <1>1, <2>1, <2>2, <2>3 DEF AheadThen
<1>4. CASE \E i \in DOMAIN queue : i > n /\ Asks(x, queue[i])
  <2>1. PICK i \in DOMAIN queue : i > n /\ Asks(x, queue[i])
    BY <1>4
  <2>2. i \in Nat /\ i >= 1 /\ i <= Len(queue) /\ AsksThen(x, queue[i])
    BY <1>1, <1>2, <2>1
  <2>3. CASE UNCHANGED queue
    BY <2>1, <2>2, <2>3 DEF AheadThen
  <2>4. CASE \E r : Posed(r)
    <3>1. PICK r : Posed(r)
      BY <2>4
    <3>2. DOMAIN queue' = 1..(Len(queue) + 1) /\ \A j \in 1..Len(queue) : queue'[j] = queue[j]
      BY <3>1, QueueIndices, Zenon DEF Posed
    <3>3. i \in DOMAIN queue' /\ queue'[i] = queue[i]
      BY <1>2, <2>2, <3>2
    <3> QED BY <2>1, <2>2, <3>3 DEF AheadThen
  <2>5. CASE queue # << >> /\ queue' = Tail(queue)
    <3>1. /\ DOMAIN queue' = 1..(Len(queue) - 1)
          /\ \A j \in 1..(Len(queue) - 1) : queue'[j] = queue[j + 1]
      BY <2>5, QueueIndices, Zenon
    <3>2. CASE i > 1
      <4>1. i - 1 \in DOMAIN queue' /\ queue'[i - 1] = queue[i] /\ i - 1 > n - 1
        BY <1>2, <2>1, <2>2, <3>1, <3>2
      <4>2. n = 0 => i - 1 > n
        BY <2>2, <3>2
      <4> QED BY <1>2, <2>2, <2>5, <4>1, <4>2 DEF AheadThen
    <3>3. CASE i = 1
      <4>1. n = 0 /\ Asks(x, queue[1]) /\ AsksThen(x, queue[1])
        BY <1>2, <2>1, <2>2, <3>3
      <4>2. queue[1] \in RequestsOf(Kinds) /\ Known(queue[1]) /\ Within(queue[1], cur)
        BY <2>1, <3>3, RequestIds, Typed, ElementOf DEF Marked
      <4>3. /\ Current(queue[1]) \/ (x = "table" /\ ToAsk(x))
            /\ queue[1].kind # "null"
        BY <4>1, <4>2, AskedCurrent, Apart
      <4>4. CASE Send
        BY <4>1, <4>4, SentHead DEF FrameInv
      <4>5. CASE Drop
        <5>1. ToAsk(x)
          BY <4>3, <4>5, TailFacts, Typed DEF Drop
        <5>2. todo' = todo
          BY <4>5 DEF Drop, ui
        <5> QED BY <5>1, <5>2 DEF ToAsk, ToAskThen
      <4>6. Send \/ Drop
        <5>1. queue' # queue
          <6>0. \A k \in Nat : k # k - 1
            OBVIOUS
          <6>1. Len(queue) # Len(queue) - 1
            BY <1>2, <6>0, Zenon
          <6>2. queue \in Seq(RequestsOf(Kinds))
            BY Typed
          <6> QED BY <2>5, <6>1, <6>2, TailFacts
        <5>2. ~\E r : Posed(r)
          <6>1. SUFFICES ASSUME NEW r, Posed(r) PROVE FALSE
            OBVIOUS
          <6>2. DOMAIN queue' = 1..(Len(queue) + 1)
            BY <6>1, QueueIndices, Zenon DEF Posed
          <6>3. Len(queue) + 1 \in 1..(Len(queue) + 1) /\ Len(queue) + 1 \notin 1..(Len(queue) - 1)
            BY <1>2
          <6> QED BY <3>1, <6>2, <6>3
        <5>3. ~(\E tab \in Tabs : Select(tab)) /\ ~(\E tab \in Tabs : Experiment(tab))
          BY <5>1, SelectAsks, ExperimentAsks
        <5>4. ~Posing(Head(todo))
          BY <5>1, <5>2 DEF Posing
        <5> QED BY <5>1, <5>2, <5>3, <5>4, StepPhases DEF Calm
      <4> QED BY <4>4, <4>5, <4>6
    <3> QED BY <2>2, <3>2, <3>3
  <2> QED BY <2>3, <2>4, <2>5, QueueForms
<1> QED BY <1>3, <1>4, TodoKept DEF Ahead

LEMMA AheadLess ==
  ASSUME NEW x, NEW m, NEW n, m \in Nat, n \in Nat, m <= n, AheadThen(x, n),
         DOMAIN queue' \subseteq Nat
  PROVE  AheadThen(x, m)
<1>1. \A i \in DOMAIN queue' : i > n => i > m
  OBVIOUS
<1> QED BY <1>1 DEF AheadThen

LEMMA IndicesThen ==
  ASSUME FrameInv, Next
  PROVE  DOMAIN queue' \subseteq Nat /\ queue' \in Seq(RequestsOf(Kinds)) /\ req' \in RequestsOf(Kinds)
<1>1. FrameInv'
  BY StepFrame
<1>2. queue' \in Seq(RequestsOf(Kinds)) /\ req' \in RequestsOf(Kinds)
  BY <1>1 DEF FrameInv, Types, StubTypes
<1> QED BY <1>2

LEMMA AheadOf ==
  ASSUME FrameInv, Next, failed = {}, failed' = {}, Marked,
         NEW x \in Questions, Matters(x), NEW n \in 0..Len(queue), Ahead(x, n)
  PROVE  /\ queue' # Tail(queue) \/ queue = << >> => AheadThen(x, n) \/ (Send /\ n = 0 /\ AsksThen(x, req'))
         /\ n > 0 => AheadThen(x, n - 1)
         /\ n = 0 => AheadThen(x, 0) \/ (Send /\ AsksThen(x, req'))
<1>1. n \in Nat /\ (n > 0 => n - 1 \in Nat /\ n - 1 <= n)
  BY QueueIndices
<1>2. n > 0 => (AheadThen(x, n) => AheadThen(x, n - 1))
  BY <1>1, IndicesThen, AheadLess
<1> QED BY <1>1, <1>2, AheadKept

LEMMA PosedAsks ==
  ASSUME FrameInv, Next, failed = {}, failed' = {}, Marked, NEW x \in Questions,
         MattersThen(x), ~ToAskThen(x), NEW r, Posed(r), QuestionOf(r) = x
  PROVE  AsksThen(x, r)
<1>1. Steady(x) /\ \A s : AsksThen(x, s) <=> Asks(x, s)
  BY ThenSteady
<1>2. r.kind \in Panels
  <2>1. "frame" \in Questions => "table" \in Panels
    BY Apart DEF Questions, Steps
  <2>2. r.kind \in Kinds
    BY DEF Posed, RequestsOf
  <2>3. "frame" \notin Kinds /\ "table" # "frame"
    BY Apart DEF Kinds
  <2> QED BY <2>1, <2>2, <2>3 DEF QuestionOf, Questions, Steps
<1> QED BY <1>1, <1>2 DEF Posed

LEMMA SupersededReq ==
  ASSUME FrameInv, Next, failed = {}, failed' = {}, Marked, Superseded,
         NEW x \in Questions, MattersThen(x), ~ToAskThen(x),
         QuestionOf(req') = x, ~AsksThen(x, req')
  PROVE  AheadThen(x, 0)
<1>1. Matters(x) /\ \A s : AsksThen(x, s) <=> Asks(x, s)
  BY ThenSteady
<1>2. Len(queue) \in Nat /\ DOMAIN queue = 1..Len(queue)
  BY QueueIndices
<1>3. CASE UNCHANGED req
  <2>1. Ahead(x, 0)
    BY <1>1, <1>3 DEF Superseded
  <2>2. 0 \in 0..Len(queue)
    BY <1>2
  <2> QED BY <1>1, <2>1, <2>2, AheadOf
<1>4. CASE queue # << >> /\ queue' = Tail(queue) /\ req' = queue[1]
  <2>1. 1 \in DOMAIN queue /\ 1 \in 0..Len(queue) /\ 1 > 0 /\ 1 - 1 = 0
    <3>1. Len(queue) # 0
      BY <1>4, QueueIndices, Zenon
    <3>2. \A k \in Nat \ {0} : 1 \in 1..k /\ 1 \in 0..k
      OBVIOUS
    <3> QED BY <1>2, <3>1, <3>2
  <2>2. Ahead(x, 1)
    BY <1>1, <1>4, <2>1 DEF Superseded
  <2> QED BY <1>1, <2>1, <2>2, AheadOf
<1> QED BY <1>3, <1>4, QueueForms

LEMMA SupersededQueue ==
  ASSUME FrameInv, Next, failed = {}, failed' = {}, Marked, Superseded,
         NEW x \in Questions, MattersThen(x), ~ToAskThen(x),
         NEW i \in DOMAIN queue', QuestionOf(queue'[i]) = x, ~AsksThen(x, queue'[i])
  PROVE  AheadThen(x, i)
<1>1. Matters(x) /\ \A s : AsksThen(x, s) <=> Asks(x, s)
  BY ThenSteady
<1>2. Len(queue) \in Nat /\ DOMAIN queue = 1..Len(queue)
  BY QueueIndices
<1>3. ASSUME i \in DOMAIN queue, queue'[i] = queue[i], queue' # Tail(queue) \/ queue = << >>
      PROVE  AheadThen(x, i)
  <2>1. Ahead(x, i)
    BY <1>1, <1>3 DEF Superseded
  <2>2. i \in 0..Len(queue) /\ i # 0
    BY <1>2, <1>3
  <2> QED BY <1>1, <1>3, <2>1, <2>2, AheadOf
<1>4. CASE UNCHANGED queue
  <2>1. queue' # Tail(queue) \/ queue = << >>
    <3>0. \A k \in Nat : k # k - 1
      OBVIOUS
    <3>1. queue # << >> => Len(Tail(queue)) = Len(queue) - 1
      BY Typed, TailFacts
    <3> QED BY <1>2, <1>4, <3>0, <3>1, Zenon
  <2> QED BY <1>3, <1>4, <2>1
<1>5. CASE \E r : Posed(r)
  <2>1. PICK r : Posed(r)
    BY <1>5
  <2>2. /\ DOMAIN queue' = 1..(Len(queue) + 1) /\ queue'[Len(queue) + 1] = r
        /\ \A j \in 1..Len(queue) : queue'[j] = queue[j]
    BY <2>1, QueueIndices, Zenon DEF Posed
  <2>3. i # Len(queue) + 1
    BY <2>1, <2>2, PosedAsks
  <2>4. i \in DOMAIN queue /\ queue'[i] = queue[i]
    BY <1>2, <2>2, <2>3
  <2>5. queue' # Tail(queue) \/ queue = << >>
    <3>1. queue # << >> => DOMAIN Tail(queue) = 1..(Len(queue) - 1)
      BY Typed, TailFacts
    <3>2. Len(queue) + 1 \in 1..(Len(queue) + 1) /\ Len(queue) + 1 \notin 1..(Len(queue) - 1)
      BY <1>2
    <3> QED BY <2>2, <3>1, <3>2
  <2> QED BY <1>3, <2>4, <2>5
<1>6. CASE queue # << >> /\ queue' = Tail(queue)
  <2>1. /\ DOMAIN queue' = 1..(Len(queue) - 1)
        /\ \A j \in 1..(Len(queue) - 1) : queue'[j] = queue[j + 1]
    BY <1>6, QueueIndices, Zenon
  <2>2. i + 1 \in DOMAIN queue /\ queue'[i] = queue[i + 1] /\ i + 1 \in 0..Len(queue)
        /\ i + 1 > 0 /\ (i + 1) - 1 = i
    BY <1>2, <2>1
  <2>3. Ahead(x, i + 1)
    BY <1>1, <2>2 DEF Superseded
  <2> QED BY <1>1, <2>2, <2>3, AheadOf
<1> QED BY <1>4, <1>5, <1>6, QueueForms

LEMMA StepSuperseded ==
  ASSUME FrameInv, Next, failed = {}, failed' = {}, Marked, Superseded
  PROVE  Superseded'
<1> SUFFICES ASSUME NEW x \in Questions, MattersThen(x)
             PROVE  /\ QuestionOf(req') = x /\ ~AsksThen(x, req') => AheadThen(x, 0)
                    /\ \A i \in DOMAIN queue' :
                         QuestionOf(queue'[i]) = x /\ ~AsksThen(x, queue'[i]) => AheadThen(x, i)
  BY DEF Superseded, Ahead, AheadThen, Matters, MattersThen, Asks, AsksThen, ToAsk, ToAskThen
<1>1. CASE ToAskThen(x)
  BY <1>1 DEF AheadThen
<1>2. CASE ~ToAskThen(x)
  BY <1>2, SupersededReq, SupersededQueue
<1> QED BY <1>1, <1>2

-----------------------------------------------------------------------------
(* The answer to the request that is out gets through.                     *)

DueThen(n) == Waiting' /\ UNCHANGED req /\ Due(n)'

LEMMA OutState ==
  ASSUME FrameInv, Waiting, req.kind \in Panels
  PROVE  /\ Sent \/ Answering
         /\ Sent => up # << >> /\ down = << >> /\ got = Nothing /\ pc = "read" /\ up[Len(up)] = req
         /\ Answering => up = << >>
         /\ req.kind \notin {"end", "none", "open", "compile", "change", "warning", "data", "null"}
<1>1. req.kind \notin {"end", "none", "open", "compile", "change", "warning", "data", "null"}
  BY Apart DEF Plain
<1>2. Sent \/ Answering
  BY <1>1, Typed DEF Protocol, Uploading, Forgotten
<1> QED BY <1>1, <1>2 DEF Sent, Answering

LEMMA DueByDown ==
  ASSUME NEW n, NEW i \in DOMAIN down, Brings(i, n), UNCHANGED <<req, down, success>>, Waiting'
  PROVE  DueThen(n)
<1>1. Due(n)'
  BY DEF Due, Brings, Carries
<1> QED BY <1>1 DEF DueThen

LEMMA DueServe ==
  ASSUME FrameInv, Imaged, Serve, Waiting, req.kind \in Panels, NEW n \in 1..Parts[req.kind],
         req.sel \notin picked => req.kind \in {"api", "table", "bars"}
  PROVE  DueThen(n)
<1>1. /\ Sent /\ Head(up) = req /\ down = << >> /\ req \in RequestsOf(Panels)
      /\ UNCHANGED <<pc, req, got>>
  BY Typed, ServeAnswers
<1>2. UNCHANGED success /\ ~success
  BY <1>1 DEF Serve, stub, Imaged, Sent
<1>3. Waiting'
  BY <1>1 DEF Waiting
<1>4. Parts[req.kind] \in Nat /\ n \in Nat /\ 0 \in 0..Parts[req.kind]
      /\ Parts[req.kind] \in 0..Parts[req.kind] /\ Types
  BY CountsAssumption, Typed
<1> DEFINE all == Answers(req, Parts[req.kind])
           w == Message("warning")
           rest == Answers(req, 0)
<1>5. /\ all \in Seq(Results) /\ Len(all) = Parts[req.kind] + 1
      /\ \A i \in 1..(Parts[req.kind] + 1) : i <= Parts[req.kind] => all[i].kind = req.kind /\ all[i].part = i
  BY <1>1, <1>4, AnswersParts, SMTT(30)
<1>6. rest \in Seq(Results) /\ Len(rest) = 1 /\ rest[1].kind = "end"
  BY <1>1, NoParts
<1>7. \/ down' = << >> \o all
      \/ req.kind = "target" /\ down' = << >> \o <<w>> \o rest
  BY <1>1 DEF Serve
<1>8. w.kind = "warning"
  BY DEF Message
<1> HIDE DEF all, w, rest
<1>9. CASE down' = << >> \o all
  <2>1. down' = all /\ n \in 1..(Parts[req.kind] + 1) /\ n <= Parts[req.kind] /\ n \in DOMAIN all
    BY <1>4, <1>5, <1>9
  <2>2. n \in DOMAIN down' /\ down'[n].kind = req.kind /\ down'[n].part = n
    BY <1>5, <2>1
  <2>3. Due(n)'
    BY <1>1, <2>2 DEF Due, Brings, Carries
  <2> QED BY <1>1, <1>3, <2>3 DEF DueThen
<1>10. CASE req.kind = "target" /\ down' = << >> \o <<w>> \o rest
  <2>1. << >> \o <<w>> = <<w>>
    OBVIOUS
  <2>0. down' = <<w>> \o rest
    BY <1>10, <2>1
  <2>2. DOMAIN down' = {1, 2} /\ down'[1] = w /\ down'[2] = rest[1]
    BY <1>6, <2>0, WarningFirst
  <2>3. 2 \in DOMAIN down' /\ down'[2].kind = "end" /\ \A j \in 1..(2 - 1) : down'[j].kind # "target"
    BY <1>6, <1>8, <2>2
  <2>4. Due(n)'
    BY <1>1, <1>2, <1>10, <2>3 DEF Due, Brings
  <2> QED BY <1>1, <1>3, <2>4 DEF DueThen
<1> QED BY <1>7, <1>9, <1>10

LEMMA DueChange ==
  ASSUME FrameInv, MakeChange, Waiting, req.kind \in Panels, NEW n
  PROVE  DueThen(n)
<1>1. up # << >> /\ Head(up).kind = "change" /\ up' = Tail(up) /\ UNCHANGED <<pc, req>>
  BY DEF MakeChange, stub
<1>2. up[Len(up)] = req /\ req.kind # "change"
  BY <1>1, OutState
<1>3. up \in Seq(RequestsOf(Kinds \cup {"data"}))
  BY Typed DEF Types, DaemonTypes
<1>4. Len(up) \in Nat \ {0} /\ Head(up) = up[1] /\ Len(Tail(up)) = Len(up) - 1
  BY <1>1, <1>3, TailFacts
<1>5. Len(up) # 1
  BY <1>1, <1>2, <1>4
<1>6. up' # << >>
  <2>1. Len(up) - 1 # 0
    BY <1>4, <1>5
  <2> QED BY <1>1, <1>4, <2>1
<1> QED BY <1>1, <1>6 DEF DueThen, Due, Waiting

(* A part is not taken for out of date while its question stands.          *)
LEMMA PartCurrent ==
  ASSUME FrameInv, Marked, NEW x \in Questions, Matters(x), Asks(x, req), req.kind \in Panels,
         NEW a \in Messages, Fits(a, req), a.kind = req.kind
  PROVE  StillCurrent(a) /\ a \in Results
<1>1. IsPart(a, req)
  BY Apart DEF Fits, Plain
<1>2. /\ req.kind # "api" => cur.exp = exp /\ req.exp = exp
      /\ req.kind \in {"shaders", "api", "batch", "uniforms", "state"} => cur.render = sel /\ req.sel = sel
  BY AskedCurrent, RequestIds, Typed DEF Marked
<1>3. req.kind # "target" => a.sel = req.sel /\ a.exp = req.exp
  BY <1>1 DEF IsPart
<1>4. a \in Results
  <2>1. a.kind \notin Plain
    BY Apart
  <2> QED BY <2>1 DEF Messages
<1> QED BY <1>2, <1>3, <1>4 DEF StillCurrent

LEMMA DueRead ==
  ASSUME FrameInv, Marked, NEW x \in Questions, Matters(x), Asks(x, req), req.kind \in Panels,
         NEW n, Due(n), Read
  PROVE  DueThen(n)
<1> DEFINE a == Head(down)
<1>0. req.kind \notin {"end", "none", "warning"}
  BY Apart DEF Plain
<1>1. /\ up = << >> /\ got = Nothing /\ a \in Messages /\ Fits(a, req) /\ a = down[1]
      /\ Len(down) \in Nat \ {0} /\ DOMAIN down = 1..Len(down) /\ DOMAIN down' = 1..(Len(down) - 1)
      /\ \A i \in 1..(Len(down) - 1) : down'[i] = down[i + 1]
  BY ReadHead
<1>2. UNCHANGED <<req, up>> /\ Waiting' /\ a.kind # "end" /\ success' = (success \/ a.kind = "target")
  BY DEF Read, Waiting, Skipped
<1>3. ~Carries(got, n)
  BY <1>0, <1>1 DEF Carries, Nothing
<1>4. PICK i \in DOMAIN down : Brings(i, n)
  BY <1>1, <1>3 DEF Due
<1>5. CASE i = 1
  <2>1. a.kind = req.kind /\ a.part \in {0, n}
    BY <1>1, <1>2, <1>4, <1>5 DEF Brings, Carries
  <2>2. StillCurrent(a) /\ a \in Results
    BY <1>1, <2>1, PartCurrent
  <2>3. got' = Labelled(a)
    BY <1>0, <2>1, <2>2 DEF Read
  <2>4. Labelled(a).kind = a.kind /\ Labelled(a).part = a.part
    BY <1>1, <2>2, LabelledPart
  <2>5. Due(n)'
    BY <1>2, <2>1, <2>3, <2>4 DEF Due, Carries
  <2> QED BY <1>2, <2>5 DEF DueThen
<1>6. CASE i # 1
  <2> HIDE DEF a
  <2>1. i - 1 \in DOMAIN down' /\ down'[i - 1] = down[i] /\ i \in Nat /\ i > 1
    BY <1>1, <1>4, <1>6
  <2>2. CASE Carries(down[i], n)
    <3>1. Due(n)'
      BY <1>2, <2>1, <2>2 DEF Due, Brings, Carries
    <3> QED BY <1>2, <3>1 DEF DueThen
  <2>3. CASE ~Carries(down[i], n)
    <3>1. /\ req.kind = "target" /\ down[i].kind = "end" /\ ~success
          /\ \A j \in 1..(i - 1) : down[j].kind # "target"
      BY <1>4, <2>3 DEF Brings
    <3>2. 1 \in 1..(i - 1)
      BY <2>1
    <3>3. ~success'
      BY <1>1, <1>2, <3>1, <3>2
    <3>4. \A j \in 1..((i - 1) - 1) : down'[j].kind # "target"
      <4>1. \A j \in 1..((i - 1) - 1) : j + 1 \in 1..(i - 1) /\ j \in 1..(Len(down) - 1)
        BY <1>1, <1>4, <2>1
      <4> QED BY <1>1, <3>1, <4>1
    <3>5. Due(n)'
      BY <1>2, <2>1, <3>1, <3>3, <3>4 DEF Due, Brings
    <3> QED BY <1>2, <3>5 DEF DueThen
  <2> QED BY <2>2, <2>3
<1> QED BY <1>5, <1>6

LEMMA DueReadEnd ==
  ASSUME FrameInv, req.kind \in Panels, NEW n, Due(n), ReadEnd
  PROVE  DueThen(n)
<1> DEFINE a == Head(down)
<1>0. req.kind \notin {"end", "none"}
  BY Apart
<1>1. /\ up = << >> /\ got = Nothing /\ a \in Messages /\ Fits(a, req) /\ a = down[1]
      /\ DOMAIN down = 1..Len(down) /\ Len(down) \in Nat \ {0}
      /\ Ends(a) <=> Tail(down) = << >>
  BY ReadHead
<1>2. a.kind = "end" /\ UNCHANGED req
  BY DEF ReadEnd
<1>3. Len(down) = 1
  <2>1. Tail(down) = << >>
    BY <1>1, <1>2 DEF Ends
  <2>2. Len(Tail(down)) = Len(down) - 1
    <3>1. down # << >> /\ down \in Seq(Messages)
      BY Typed DEF ReadEnd
    <3> QED BY <3>1, TailFacts
  <2> QED BY <1>1, <2>1, <2>2
<1>4. ~Carries(got, n)
  BY <1>0, <1>1 DEF Carries, Nothing
<1>5. PICK i \in DOMAIN down : Brings(i, n)
  BY <1>1, <1>4 DEF Due
<1>6. i = 1
  BY <1>1, <1>3, <1>5
<1>7. ~Carries(down[1], n)
  BY <1>0, <1>1, <1>2 DEF Carries
<1>8. req.kind = "target" /\ ~success
  BY <1>5, <1>6, <1>7 DEF Brings
<1>9. got' = Labelled([a EXCEPT !.kind = "target"]) /\ pc' = "deliver"
  BY <1>2, <1>8 DEF ReadEnd
<1>10. a \in Results /\ a.part = 0
  BY <1>0, <1>1, <1>2 DEF Fits, IsPart, Messages, Plain
<1> HIDE DEF a
<1>11. [a EXCEPT !.kind = "target"] \in Results /\ [a EXCEPT !.kind = "target"].part = 0
       /\ [a EXCEPT !.kind = "target"].kind = "target"
  BY <1>8, <1>10 DEF Results
<1>12. got'.kind = "target" /\ got'.part = 0
  BY <1>9, <1>11, LabelledPart DEF Messages
<1>13. Due(n)' /\ Waiting'
  BY <1>2, <1>8, <1>9, <1>12 DEF Due, Carries, Waiting
<1> QED BY <1>2, <1>13 DEF DueThen

LEMMA DueShow ==
  ASSUME FrameInv, NEW x \in Questions, Asks(x, req), req.kind \in Panels, Waiting,
         NEW n, Due(n), Showing \/ Opening
  PROVE  DueThen(n) \/ ((Arrives \/ OnUniform) /\ Carries(got, n))
<1>1. /\ Answering /\ up = << >> /\ pc \in {"deliver", "show"}
      /\ \/ OnUniform /\ req.kind = "uniforms"
         \/ OnApi /\ got.kind = "api" /\ req.kind = "api" /\ pc = "deliver"
         \/ Arrives /\ got.kind = req.kind
  BY WhoShows
<1>2. UNCHANGED <<req, success, down>>
  BY <1>1, Arrival DEF OnUniform, OnApi, Delivered, far
<1>3. CASE Carries(got, n)
  <2>1. CASE OnApi /\ got.kind = "api" /\ req.kind = "api" /\ pc = "deliver"
    <3>1. got.sel = req.sel
      BY <2>1, GotIds, Typed, PartOf
    <3>2. req.sel = sel
      BY <2>1 DEF Asks, About, PanelOf
    <3>3. pc' = "show" /\ got' = got
      BY <2>1, <3>1, <3>2 DEF OnApi, Delivered
    <3>4. Due(n)' /\ Waiting'
      BY <1>2, <1>3, <3>3 DEF Due, Carries, Waiting
    <3> QED BY <1>2, <3>4 DEF DueThen
  <2> QED BY <1>1, <1>3, <2>1
<1>4. CASE ~Carries(got, n)
  <2>1. PICK i \in DOMAIN down : Brings(i, n)
    BY <1>1, <1>4 DEF Due
  <2>2. ~Ends(got)
    BY <1>1, <2>1 DEF Answering
  <2>3. Waiting'
    <3>1. CASE OnUniform
      BY <2>2, <3>1 DEF OnUniform, Delivered, Ends, Waiting
    <3>2. CASE OnRenderTarget
      BY <2>2, <3>2 DEF OnRenderTarget, Delivered, Ends, Waiting
    <3>3. CASE OnApi \/ OnShaderAssembly \/ ShowApi \/ OnBatch \/ OnState \/ OnTable \/ OnBars
      BY <3>3 DEF OnApi, OnShaderAssembly, ShowApi, OnBatch, OnState, OnTable, OnBars, Delivered, Waiting
    <3> QED BY <1>1, <3>1, <3>2, <3>3 DEF Arrives
  <2> QED BY <1>2, <2>1, <2>3, DueByDown
<1> QED BY <1>3, <1>4

LEMMA DueStay ==
  ASSUME FrameInv, Next, Imaged, ~Read, ~ReadEnd, NEW x \in Questions, Matters(x), Asks(x, req),
         Waiting, req.kind \in Panels, NEW n \in 1..Parts[req.kind], Due(n),
         UNCHANGED <<pc, req, got, success>>
  PROVE  DueThen(n)
<1>1. ~Send
  BY DEF Send, Waiting
<1>2. req.sel \notin picked => req.kind \in {"api", "table", "bars"}
  BY DEF Asks, About, Matters, PanelOf
<1>3. req.kind \notin {"open", "compile"}
  BY Apart
<1>4. CASE UNCHANGED <<up, down>>
  BY <1>4 DEF DueThen, Due, Brings, Carries, Waiting
<1>5. CASE Serve
  BY <1>2, <1>5, DueServe
<1>6. CASE MakeChange
  BY <1>6, DueChange
<1> QED BY <1>1, <1>3, <1>4, <1>5, <1>6, FarSteps

(* The answer to a question that stands is kept until it is delivered.     *)
LEMMA DueKept ==
  ASSUME FrameInv, Next, Marked, Imaged, NEW x \in Questions, Matters(x), Asks(x, req),
         Waiting, NEW n \in 1..Parts[PanelOf(x)], Due(n)
  PROVE  DueThen(n) \/ ((Arrives \/ OnUniform) /\ Carries(got, n))
<1>1. req.kind \in Panels /\ req.kind = PanelOf(x)
  BY AskedCurrent, RequestIds, Typed DEF Marked
<1>2. CASE Read
  BY <1>1, <1>2, DueRead
<1>3. CASE ReadEnd
  BY <1>1, <1>3, DueReadEnd
<1>4. CASE Showing \/ Opening
  BY <1>1, <1>4, DueShow
<1>5. CASE ~Read /\ ~ReadEnd /\ UNCHANGED <<pc, req, got, success>>
  BY <1>1, <1>5, DueStay
<1> QED BY <1>2, <1>3, <1>4, <1>5, StubSteps

(* Such an answer comes, unless its question is asked anew.                *)
ComingThen(x, n) ==
  AheadThen(x, 0) \/ (Waiting' /\ AsksThen(x, req') /\ Due(n)')

LEMMA ComingKept ==
  ASSUME FrameInv, Next, failed = {}, failed' = {}, Marked, Imaged,
         NEW x \in Questions, MattersThen(x), NEW n \in 1..Parts[PanelOf(x)], Coming(x, n)
  PROVE  ComingThen(x, n) \/ ((Arrives \/ OnUniform) /\ Asks(x, req) /\ Carries(got, n))
<1> SUFFICES ASSUME ~ToAskThen(x)
             PROVE  ComingThen(x, n) \/ ((Arrives \/ OnUniform) /\ Asks(x, req) /\ Carries(got, n))
  BY DEF ComingThen, AheadThen
<1>1. Matters(x) /\ \A r : AsksThen(x, r) <=> Asks(x, r)
  BY ThenSteady
<1>2. CASE Ahead(x, 0)
  <2>1. 0 \in 0..Len(queue)
    BY QueueIndices
  <2>2. AheadThen(x, 0) \/ (Send /\ AsksThen(x, req'))
    BY <1>1, <1>2, <2>1, AheadOf
  <2>3. CASE Send /\ AsksThen(x, req')
    <3>1. req'.kind # "change"
      <4>1. PanelOf(x) \in Panels
        BY Apart DEF Questions, Steps, PanelOf
      <4> QED BY <2>3, <4>1, Apart DEF AsksThen, About
    <3>2. pc' = "read" /\ up' = Append(up, req')
      BY <2>3, <3>1 DEF Send
    <3>3. up' # << >>
      <4>1. up \in Seq(RequestsOf(Kinds \cup {"data"}))
        BY Typed DEF Types, DaemonTypes
      <4>2. req' \in RequestsOf(Kinds)
        BY IndicesThen
      <4>3. req' \in RequestsOf(Kinds \cup {"data"})
        BY <4>2 DEF RequestsOf
      <4> QED BY <3>2, <4>1, <4>3, AppendFacts
    <3>4. Waiting' /\ Due(n)'
      BY <3>2, <3>3 DEF Waiting, Due
    <3> QED BY <2>3, <3>4 DEF ComingThen
  <2> QED BY <2>2, <2>3 DEF ComingThen
<1>3. CASE Waiting /\ Asks(x, req) /\ Due(n)
  <2>1. DueThen(n) \/ ((Arrives \/ OnUniform) /\ Carries(got, n))
    BY <1>1, <1>3, DueKept
  <2>2. DueThen(n) => ComingThen(x, n)
    BY <1>1, <1>3 DEF DueThen, ComingThen
  <2> QED BY <1>3, <2>1, <2>2
<1> QED BY <1>2, <1>3 DEF Coming

-----------------------------------------------------------------------------
(* No answer is lost.                                                      *)

HeldThen(x) ==
  IF x # "uniforms" THEN panel'[PanelOf(x)].shown
  ELSE IF Waiting' /\ req'.kind = "uniforms" THEN collected'
  ELSE collected' \cap panel'["uniforms"].shown

DisplayedThen(x, n) == \E a \in HeldThen(x) : AsksThen(x, a.of) /\ a.part \in {0, n}

LEMMA ThenComing ==
  /\ \A x, n : Coming(x, n)' <=> ComingThen(x, n)
  /\ \A x, n : Displayed(x, n)' <=> DisplayedThen(x, n)
<1>1. \A x, n : Coming(x, n)' <=> ComingThen(x, n)
  BY DEF Coming, ComingThen, Ahead, AheadThen, ToAsk, ToAskThen, Asks, AsksThen
<1>2. \A x, n : Displayed(x, n)' <=> DisplayedThen(x, n)
  BY DEF Displayed, DisplayedThen, Held, HeldThen, Asks, AsksThen
<1> QED BY <1>1, <1>2

LEMMA AppendedLast ==
  ASSUME FrameInv, NEW r \in RequestsOf(Kinds), queue' = Append(queue, r)
  PROVE  DOMAIN queue' = 1..(Len(queue) + 1) /\ queue'[Len(queue) + 1] = r
<1>1. queue \in Seq(RequestsOf(Kinds))
  BY Typed
<1>2. /\ DOMAIN Append(queue, r) = 1..(Len(queue) + 1)
      /\ Append(queue, r)[Len(queue) + 1] = r
  BY <1>1, AppendFacts
<1> QED BY <1>2

LEMMA PosedAhead ==
  ASSUME FrameInv, NEW x, NEW r, Posed(r), AsksThen(x, r)
  PROVE  AheadThen(x, 0)
<1>0. Len(queue) \in Nat
  BY QueueIndices
<1>1. DOMAIN queue' = 1..(Len(queue) + 1) /\ queue'[Len(queue) + 1] = r
  <2>1. r \in RequestsOf(Kinds) /\ queue' = Append(queue, r)
    BY DEF Posed
  <2> QED BY <2>1, AppendedLast
<1>2. Len(queue) + 1 \in DOMAIN queue' /\ Len(queue) + 1 > 0
  BY <1>0, <1>1
<1> QED BY <1>1, <1>2 DEF AheadThen

LEMMA PosingAhead ==
  ASSUME FrameInv, Next, Asking, failed = {}, failed' = {}, Head(todo) \in Questions,
         MattersThen(Head(todo))
  PROVE  AheadThen(Head(todo), 0)
<1> DEFINE x == Head(todo)
<1>1. CASE ToAskThen(x)
  BY <1>1 DEF AheadThen
<1>2. CASE ~ToAskThen(x)
  <2>1. Matters(x) /\ \A r : AsksThen(x, r) <=> Asks(x, r)
    BY <1>2, ThenSteady
  <2>2. Posing(x)
    BY AskingPoses
  <2>3. PICK r : Posed(r) /\ Asks(x, r)
    BY <2>1, <2>2 DEF Posing
  <2> QED BY <2>1, <2>3, PosedAhead
<1> QED BY <1>1, <1>2

LEMMA OpenedAsks ==
  ASSUME FrameInv, Next, OnOpened, "bars" \in Panels
  PROVE  AheadThen("bars", 0)
<1> DEFINE r == Request("bars", 0, 1)
<1>1. "bars" \in Questions /\ PanelOf("bars") = "bars"
  BY DEF Questions, Steps, PanelOf
<1>2. r \in RequestsOf(Kinds) /\ Asks("bars", r)
  BY <1>1, RequestAbout
<1>3. queue' = Append(queue, r) /\ UNCHANGED <<sel, picked, exp>>
  BY DEF OnOpened, Asked, Delivered
<1> HIDE DEF r
<1>4. AsksThen("bars", r)
  BY <1>2, <1>3 DEF Asks, AsksThen
<1>5. Len(queue) \in Nat
  BY QueueIndices
<1>6. DOMAIN queue' = 1..(Len(queue) + 1) /\ queue'[Len(queue) + 1] = r
  BY <1>2, <1>3, AppendedLast
<1>7. Len(queue) + 1 \in DOMAIN queue' /\ Len(queue) + 1 > 0
  BY <1>5, <1>6
<1> QED BY <1>4, <1>6, <1>7 DEF AheadThen

LEMMA CollectedKept ==
  ASSUME Next, ~OnUniform, ~AskUniforms PROVE UNCHANGED collected
<1>1. CASE Asking \/ ClearShaderList
  BY <1>1 DEF Asking, AskTarget, AskShaders, AskApi, AskBatch, AskState,
              AskBars, AskFrame, AskTable, ClearShaderList
<1>2. CASE User \/ Refresh
  BY <1>2, SMTT(30) DEF User, Change, SetUniform, OverrideShaders, Close, Refresh
<1>3. CASE \/ \E tab \in Tabs : Select(tab)
           \/ \E tab \in Tabs : Experiment(tab)
           \/ ShadersChanged \/ Join
  BY <1>3 DEF Select, Experiment, ShadersChanged, Join
<1>4. CASE Showing \/ Opening
  BY <1>4 DEF Showing, OnRenderTarget, OnShaderAssembly, OnApi, ShowApi, OnBatch,
     OnState, OnTable, OnBars, OnShaderCompile, Opening, OnMetricList, OnOpened, OnError, OnUpload, ui
<1>5. CASE Drop \/ Send \/ Read \/ ReadEnd
  BY <1>5 DEF Drop, Send, Read, ReadEnd, ui
<1>6. CASE OpenFile \/ ReceiveFile \/ Serve \/ MakeChange \/ ReplaceShaders
  BY <1>6 DEF OpenFile, ReceiveFile, Serve, MakeChange, ReplaceShaders, ui
<1> QED BY <1>1, <1>2, <1>3, <1>4, <1>5, <1>6 DEF Next, Asking, User, Showing, Opening

LEMMA TableNoted ==
  ASSUME FrameInv, Marked, UNCHANGED todo, Matters("table"), ~ToAskThen("table"), "table" \in Panels
  PROVE  tableSel = sel /\ sel > 0
<1>1. ~ToAsk("table")
  BY DEF ToAsk, ToAskThen
<1>2. sel > 0
  BY PickedSince DEF Matters
<1> QED BY <1>1, <1>2 DEF Marked

LEMMA UniformsShown ==
  ASSUME FrameInv, Next, OnUniform, Asks("uniforms", req), NEW n, Carries(got, n),
         \A r : AsksThen("uniforms", r) <=> Asks("uniforms", r)
  PROVE  DisplayedThen("uniforms", n)
<1>1. req.kind = "uniforms" /\ got.kind = "uniforms" /\ UNCHANGED req
  BY DEF OnUniform, Carries
<1>2. "uniforms" \in Panels
  BY <1>1, Typed DEF RequestsOf, Kinds
<1>3. got.of = req
  BY <1>1, <1>2, GotIds, Typed DEF IsPart
<1>4. collected' = collected \cup {got} /\ pc' = "read"
  BY <1>1 DEF OnUniform, Delivered
<1>5. got \in HeldThen("uniforms")
  BY <1>1, <1>4 DEF HeldThen, Waiting
<1> QED BY <1>3, <1>5 DEF DisplayedThen, Carries

(* What is delivered in time is displayed.                                 *)
LEMMA ArrivalShown ==
  ASSUME FrameInv, Next, Marked, NEW x \in Questions \ {"shaders", "frame"}, MattersThen(x),
         ~ToAskThen(x), Asks(x, req), NEW n, Carries(got, n), Arrives
  PROVE  DisplayedThen(x, n)
<1>1. Matters(x) /\ \A r : AsksThen(x, r) <=> Asks(x, r)
  BY ThenSteady
<1>2. /\ got.kind \in Panels \ {"uniforms"} /\ IsPart(got, req) /\ req.kind = got.kind /\ got.of = req
      /\ UNCHANGED todo
  BY Arrival
<1>3. x = got.kind /\ PanelOf(x) = x
  BY <1>2 DEF Asks, About, PanelOf
<1>4. x # "target" => got.sel = req.sel /\ got.exp = req.exp
  BY <1>2, <1>3, PartOf
<1>5. got \in panel'[x].shown
  <2>1. CASE OnRenderTarget
    <3>1. x = "target"
      BY <1>3, <2>1 DEF OnRenderTarget
    <3> QED BY <1>2, <1>3, <2>1, <3>1, ShownTarget
  <2>2. CASE ShowApi
    <3>1. x = "api"
      BY <1>3, <2>2, Typed, Delivering DEF ShowApi
    <3> QED BY <1>2, <1>3, <2>2, <3>1, ShownApi
  <2>3. CASE OnBatch
    <3>1. x = "batch"
      BY <1>3, <2>3 DEF OnBatch
    <3>2. got.sel = sel /\ got.exp = exp
      BY <1>4, <3>1 DEF Asks, About
    <3> QED BY <1>2, <1>3, <2>3, <3>1, <3>2, ShownBatch
  <2>4. CASE OnState
    <3>1. x = "state"
      BY <1>3, <2>4 DEF OnState
    <3> QED BY <1>2, <1>3, <2>4, <3>1, ShownState
  <2>5. CASE OnTable
    <3>1. x = "table"
      BY <1>3, <2>5 DEF OnTable
    <3>2. tableSel = sel /\ got.sel = sel
      BY <1>1, <1>2, <1>3, <1>4, <3>1, TableNoted DEF Asks, About
    <3> QED BY <1>2, <1>3, <2>5, <3>1, <3>2, ShownTable DEF Replacing
  <2>6. CASE OnBars
    <3>1. x = "bars"
      BY <1>3, <2>6 DEF OnBars
    <3> QED BY <1>2, <1>3, <2>6, <3>1, ShownBars DEF Replacing
  <2>7. ~OnShaderAssembly
    BY <1>3 DEF OnShaderAssembly
  <2> QED BY <2>1, <2>2, <2>3, <2>4, <2>5, <2>6, <2>7 DEF Arrives
<1>6. got \in HeldThen(x)
  BY <1>2, <1>3, <1>5 DEF HeldThen
<1> QED BY <1>1, <1>2, <1>6 DEF DisplayedThen, Carries

(* What is displayed is not taken away before its question is asked anew.  *)
LEMMA TargetKept ==
  ASSUME FrameInv, Titled, "target" \in Panels, OnRenderTarget,
         NEW a \in panel["target"].shown, Asks("target", a.of)
  PROVE  a \in panel'["target"].shown
<1>1. a.of.sel = sel /\ a.of.exp = exp
  BY DEF Asks, About
<1>2. panel["target"].sel = sel /\ panel["target"].exp = exp
  <2>1. sel <= panel["target"].sel /\ exp <= panel["target"].exp
    BY <1>1 DEF Titled, NotAfter
  <2> QED BY <2>1, NothingShown, Numbers
<1>3. /\ ~(got.sel > panel["target"].sel \/ got.exp > panel["target"].exp)
  <2>1. got.sel \in Nat /\ got.exp \in Nat /\ got.sel <= sel /\ got.exp <= exp
    BY Arrival DEF Arrives
  <2> QED BY <1>2, <2>1, Numbers
<1> QED BY <1>3, ShownTarget

LEMMA ApiKept ==
  ASSUME FrameInv, Titled, "api" \in Panels, ShowApi,
         NEW a \in panel["api"].shown, Asks("api", a.of)
  PROVE  a \in panel'["api"].shown
<1>1. panel["api"].sel = sel
  BY DEF Asks, About, Titled
<1>2. /\ got.kind = "api" /\ Waiting /\ IsPart(got, req) /\ req.kind = "api"
      /\ got.sel \in Nat /\ got.sel <= sel
  <2>1. got.kind = "api"
    BY Typed, Delivering DEF ShowApi
  <2> QED BY <2>1, Arrival DEF Arrives
<1>3. got.sel = req.sel
  BY <1>2, PartOf
<1>4. panel["api"].sel <= req.sel
  BY <1>2, StateInTurn
<1>5. got.sel = panel["api"].sel
  BY <1>1, <1>2, <1>3, <1>4, Numbers
<1> QED BY <1>5, ShownApi

LEMMA BatchKept ==
  ASSUME FrameInv, Titled, "batch" \in Panels, OnBatch,
         NEW a \in panel["batch"].shown, Asks("batch", a.of)
  PROVE  a \in panel'["batch"].shown
<1>1. panel["batch"].sel = sel /\ panel["batch"].exp = exp
  BY DEF Asks, About, Titled
<1> QED BY <1>1, ShownBatch DEF SameIds

LEMMA StateKept ==
  ASSUME FrameInv, Titled, "state" \in Panels, OnState,
         NEW a \in panel["state"].shown, Asks("state", a.of)
  PROVE  a \in panel'["state"].shown
<1>1. panel["state"].sel = sel /\ panel["state"].exp = exp
  BY DEF Asks, About, Titled
<1>2. ~(got.sel > panel["state"].sel \/ got.exp > panel["state"].exp)
  <2>1. got.sel \in Nat /\ got.exp \in Nat /\ got.sel <= sel /\ got.exp <= exp
    BY Arrival DEF Arrives
  <2> QED BY <1>1, <2>1, Numbers
<1> QED BY <1>2, ShownState

LEMMA LastExperiment ==
  ASSUME FrameInv, Sorted, NEW p \in Panels \cap {"table", "bars"}, NEW a \in panel[p].shown,
         a.of.exp = exp
  PROVE  req.exp = exp
<1>1. exp <= req.exp
  BY DEF Sorted
<1>2. req.exp <= exp
  BY RequestIds DEF Known
<1> QED BY <1>1, <1>2, Numbers, RequestIds

LEMMA TableKept ==
  ASSUME FrameInv, Titled, Sorted, Marked, "table" \in Panels, OnTable,
         Matters("table"), ~ToAskThen("table"),
         NEW a \in panel["table"].shown, Asks("table", a.of)
  PROVE  \/ a \in panel'["table"].shown
         \/ got \in panel'["table"].shown /\ got.part = a.part /\ Asks("table", got.of)
<1>1. /\ IsPart(got, req) /\ req.kind = "table" /\ got.kind = "table" /\ got.of = req /\ UNCHANGED todo
  <2>1. got.kind = "table"
    BY DEF OnTable
  <2> QED BY <2>1, Arrival DEF Arrives
<1>2. got.sel = req.sel
  BY <1>1, PartOf
<1>3. tableSel = sel /\ sel > 0
  BY <1>1, TableNoted
<1>4. a.sel = sel /\ a.of.exp = exp
  BY DEF Titled, Asks, About
<1>5. \/ panel' = panel
      \/ /\ got.sel = tableSel \/ got.sel = 0
         /\ panel'["table"].shown = Replacing(panel["table"].shown, got)
  BY ShownTable
<1>6. ASSUME got.sel = tableSel \/ got.sel = 0,
             panel'["table"].shown = Replacing(panel["table"].shown, got),
             got.part = a.part, (a.sel = 0) = (got.sel = 0)
      PROVE  got \in panel'["table"].shown /\ Asks("table", got.of)
  <2>1. req.sel = sel
    BY <1>2, <1>3, <1>4, <1>6, Numbers
  <2>2. req.exp = exp
    BY <1>4, LastExperiment
  <2> QED BY <1>1, <1>6, <2>1, <2>2 DEF Asks, About, PanelOf, Replacing
<1> QED BY <1>5, <1>6 DEF Replacing

LEMMA BarsKept ==
  ASSUME FrameInv, Titled, Sorted, Marked, "bars" \in Panels, OnBars,
         NEW a \in panel["bars"].shown, Asks("bars", a.of)
  PROVE  \/ a \in panel'["bars"].shown
         \/ got \in panel'["bars"].shown /\ got.part = a.part /\ Asks("bars", got.of)
<1>1. /\ IsPart(got, req) /\ req.kind = "bars" /\ got.kind = "bars" /\ got.of = req
  <2>1. got.kind = "bars"
    BY DEF OnBars
  <2> QED BY <2>1, Arrival DEF Arrives
<1>2. a.of.exp = exp
  BY DEF Asks, About
<1>3. req.sel = 0
  BY <1>1 DEF Marked, Within
<1>4. req.exp = exp
  BY <1>2, LastExperiment
<1>5. panel'["bars"].shown = Replacing(panel["bars"].shown, got)
  BY ShownBars
<1>6. Asks("bars", got.of)
  BY <1>1, <1>3, <1>4 DEF Asks, About, PanelOf
<1>7. got.sel = 0 /\ a.sel = 0
  BY <1>1, <1>3, PartOf DEF Titled
<1> QED BY <1>5, <1>6, <1>7 DEF Replacing

LEMMA UniformsKept ==
  ASSUME FrameInv, Next, failed = {}, failed' = {}, "uniforms" \in Panels,
         MattersThen("uniforms"), NEW a \in Held("uniforms")
  PROVE  a \in HeldThen("uniforms") \/ AheadThen("uniforms", 0)
<1>0. panel \in [Panels -> Shown] /\ "uniforms" \in Questions
  BY Typed DEF Questions, Steps
<1>1. CASE AskUniforms
  <2>1. Asking /\ Head(todo) = "uniforms"
    BY <1>1 DEF AskUniforms, Asking
  <2> QED BY <1>0, <2>1, PosingAhead
<1>2. CASE OnUniform
  <2>1. Waiting /\ req.kind = "uniforms" /\ UNCHANGED req
    BY <1>2 DEF OnUniform, Waiting
  <2>2. a \in collected
    BY <2>1 DEF Held
  <2>3. CASE got.kind = "end"
    <3>1. /\ collected' = collected
          /\ panel' = [panel EXCEPT !["uniforms"].shown = collected]
      BY <1>2, <2>3 DEF OnUniform
    <3>2. panel'["uniforms"].shown = collected
      BY <1>0, <3>1 DEF Shown
    <3> QED BY <2>2, <3>1, <3>2 DEF HeldThen
  <2>4. CASE got.kind # "end"
    <3>1. collected \subseteq collected' /\ Waiting'
      BY <1>2, <2>4 DEF OnUniform, Delivered, Waiting
    <3> QED BY <2>1, <2>2, <3>1 DEF HeldThen
  <2> QED BY <2>3, <2>4
<1>3. CASE ~AskUniforms /\ ~OnUniform
  <2>1. collected' = collected /\ panel'["uniforms"] = panel["uniforms"]
    BY <1>3, CollectedKept, PanelChanges
  <2>2. CASE a \in panel["uniforms"].shown /\ a \in collected
    BY <2>1, <2>2 DEF HeldThen
  <2>3. CASE Waiting /\ req.kind = "uniforms" /\ a \in collected
    <3>1. CASE UNCHANGED <<pc, req>>
      BY <2>1, <2>3, <3>1 DEF HeldThen, Waiting
    <3>2. CASE Read \/ ReadEnd
      <4>1. Waiting' /\ req' = req
        BY <2>3, <3>2 DEF Read, ReadEnd, Waiting, Skipped
      <4> QED BY <2>1, <2>3, <4>1 DEF HeldThen
    <3>3. ~(Showing \/ Opening)
      BY <1>3, <2>3, WhoShows, Arrival
    <3> QED BY <2>3, <3>1, <3>2, <3>3, StubSteps
  <2> QED BY <2>2, <2>3 DEF Held
<1> QED BY <1>1, <1>2, <1>3

LEMMA DisplayKept ==
  ASSUME FrameInv, Next, failed = {}, failed' = {}, Sorted, Marked, Titled,
         NEW x \in Questions \ {"shaders", "frame"}, MattersThen(x), ~ToAskThen(x),
         NEW n, Displayed(x, n)
  PROVE  DisplayedThen(x, n) \/ AheadThen(x, 0)
<1>1. Matters(x) /\ \A r : AsksThen(x, r) <=> Asks(x, r)
  BY ThenSteady
<1>2. PICK a \in Held(x) : Asks(x, a.of) /\ a.part \in {0, n}
  BY DEF Displayed
<1>3. PanelOf(x) = x /\ x \in Panels
  BY DEF Questions, Steps, PanelOf
<1>4. CASE x = "uniforms"
  <2>1. a \in HeldThen(x) \/ AheadThen(x, 0)
    BY <1>2, <1>3, <1>4, UniformsKept
  <2> QED BY <1>1, <1>2, <2>1 DEF DisplayedThen
<1>5. CASE x # "uniforms"
  <2>1. a \in panel[x].shown /\ HeldThen(x) = panel'[x].shown
    BY <1>2, <1>3, <1>5 DEF Held, HeldThen
  <2>2. SUFFICES \/ AheadThen(x, 0)
                 \/ a \in panel'[x].shown
                 \/ got \in panel'[x].shown /\ got.part = a.part /\ Asks(x, got.of)
    BY <1>1, <1>2, <2>1 DEF DisplayedThen
  <2>3. CASE panel'[x] = panel[x]
    BY <2>1, <2>3
  <2>4. CASE x = "target" /\ OnRenderTarget
    BY <1>2, <1>3, <2>1, <2>4, TargetKept
  <2>5. CASE x = "api" /\ ShowApi
    BY <1>2, <1>3, <2>1, <2>5, ApiKept
  <2>6. CASE x = "batch" /\ OnBatch
    BY <1>2, <1>3, <2>1, <2>6, BatchKept
  <2>7. CASE x = "state" /\ OnState
    BY <1>2, <1>3, <2>1, <2>7, StateKept
  <2>8. CASE x = "state" /\ AskState
    <3>1. Asking /\ Head(todo) = x
      BY <2>8 DEF AskState, Asking
    <3> QED BY <3>1, PosingAhead
  <2>9. CASE x = "table" /\ OnTable
    BY <1>1, <1>2, <1>3, <2>1, <2>9, TableKept
  <2>10. CASE x = "bars" /\ OnBars
    BY <1>2, <1>3, <2>1, <2>10, BarsKept
  <2>11. CASE x = "table" /\ AskTable
    <3>1. Asking /\ Head(todo) = x
      BY <2>11 DEF AskTable, Asking
    <3> QED BY <3>1, PosingAhead
  <2> QED BY <1>3, <1>5, <2>3, <2>4, <2>5, <2>6, <2>7, <2>8, <2>9, <2>10, <2>11, PanelChanges
<1> QED BY <1>4, <1>5

WantedThen(x) == IF x = "bars" THEN opened' ELSE MattersThen(x)

LEMMA CompleteThen ==
  ASSUME FrameInv, Next, failed = {}, failed' = {}, Sorted, Marked, Imaged, Titled, Complete,
         NEW x \in Questions \ {"shaders", "frame"}, WantedThen(x), NEW n \in 1..Parts[PanelOf(x)]
  PROVE  ComingThen(x, n) \/ DisplayedThen(x, n)
<1>1. CASE ToAskThen(x)
  BY <1>1 DEF ComingThen, AheadThen
<1>2. CASE x = "bars" /\ ~opened
  <2>1. OnOpened
    <3>1. opened'
      BY <1>2 DEF WantedThen
    <3>2. opened' # opened
      BY <1>2, <3>1, Zenon
    <3> QED BY <3>2, OpenedBy
  <2>2. "bars" \in Panels
    BY <1>2 DEF Questions, Steps
  <2> QED BY <1>2, <2>1, <2>2, OpenedAsks DEF ComingThen
<1>3. CASE ~ToAskThen(x) /\ ~(x = "bars" /\ ~opened)
  <2>1. MattersThen(x)
    BY DEF WantedThen, MattersThen
  <2>2. Steady(x) /\ Matters(x) /\ \A r : AsksThen(x, r) <=> Asks(x, r)
    BY <1>3, <2>1, ThenSteady
  <2>3. Wanted(x)
    BY <1>3, <2>2 DEF Wanted, Matters
  <2>4. Coming(x, n) \/ Displayed(x, n)
    BY <2>3 DEF Complete
  <2>5. CASE Coming(x, n)
    <3>1. ComingThen(x, n) \/ ((Arrives \/ OnUniform) /\ Asks(x, req) /\ Carries(got, n))
      BY <2>1, <2>5, ComingKept
    <3>2. CASE Arrives /\ Asks(x, req) /\ Carries(got, n)
      BY <1>3, <2>1, <3>2, ArrivalShown
    <3>3. CASE OnUniform /\ Asks(x, req) /\ Carries(got, n)
      <4>1. x = "uniforms"
        BY <3>3 DEF OnUniform, Asks, About, PanelOf
      <4> QED BY <2>2, <3>3, <4>1, UniformsShown
    <3> QED BY <3>1, <3>2, <3>3
  <2>6. CASE Displayed(x, n)
    <3>1. DisplayedThen(x, n) \/ AheadThen(x, 0)
      BY <1>3, <2>1, <2>6, DisplayKept
    <3> QED BY <3>1 DEF ComingThen
  <2> QED BY <2>4, <2>5, <2>6
<1> QED BY <1>1, <1>2, <1>3

LEMMA StepComplete ==
  ASSUME FrameInv, Next, failed = {}, failed' = {}, Sorted, Marked, Imaged, Titled, Complete
  PROVE  Complete'
<1>1. \A x : Wanted(x)' <=> WantedThen(x)
  BY DEF Wanted, WantedThen, Matters, MattersThen
<1>2. ASSUME NEW x \in Questions \ {"shaders", "frame"}, Wanted(x)', NEW n \in 1..Parts[PanelOf(x)]
      PROVE  Coming(x, n)' \/ Displayed(x, n)'
  BY <1>1, <1>2, CompleteThen, ThenComing
<1> QED BY <1>2 DEF Complete

-----------------------------------------------------------------------------
(* What is out of date is replaced.                                        *)

ReplacedThen(p, a) ==
  LET x == QuestionOf(a.of) IN
  MattersThen(x) =>
    \/ AsksThen(x, a.of)
    \/ p \in {"api", "batch", "state"} /\ ComingThen(p, 1)
    \/ p \in {"table", "bars"} /\ ComingThen(x, a.part)
    \/ /\ p = "shaders"
       /\ ToAskThen("shaderlist") \/ (a.of.sel # sel' /\ ComingThen("shaders", 1))

LEMMA ThenReplaced == \A p, a : Replaced(p, a)' <=> ReplacedThen(p, a)
<1> SUFFICES ASSUME NEW p, NEW a PROVE Replaced(p, a)' <=> ReplacedThen(p, a)
  OBVIOUS
<1>1. /\ Matters(QuestionOf(a.of))' <=> MattersThen(QuestionOf(a.of))
      /\ Asks(QuestionOf(a.of), a.of)' <=> AsksThen(QuestionOf(a.of), a.of)
      /\ ToAsk("shaderlist")' <=> ToAskThen("shaderlist")
      /\ Coming(p, 1)' <=> ComingThen(p, 1)
      /\ Coming("shaders", 1)' <=> ComingThen("shaders", 1)
      /\ Coming(QuestionOf(a.of), a.part)' <=> ComingThen(QuestionOf(a.of), a.part)
  BY Then, ThenComing
<1> QED BY <1>1 DEF Replaced, ReplacedThen

LEMMA QuestionsAsked ==
  ASSUME NEW p \in Panels, NEW r, r.kind = p
  PROVE  /\ QuestionOf(r) \in Questions /\ PanelOf(QuestionOf(r)) = p
         /\ p # "table" => QuestionOf(r) = p
         /\ p = "table" => QuestionOf(r) = (IF r.sel = 0 THEN "frame" ELSE "table")
<1>1. p # "frame" /\ p # "shaderlist" /\ "frame" # "shaderlist"
  BY Apart
<1>2. QuestionOf(r) = (IF p = "table" /\ r.sel = 0 THEN "frame" ELSE p)
  BY DEF QuestionOf
<1> QED BY <1>1, <1>2 DEF Questions, Steps, PanelOf

LEMMA RenewedNew ==
  ASSUME FrameInv, Next, Superseded, NEW p \in Panels \ {"target", "uniforms"},
         got \in panel'[p].shown, got \notin panel[p].shown
  PROVE  ReplacedThen(p, got)
<1>1. got.kind = p /\ got.of = req /\ req.kind = p /\ IsPart(got, req)
  BY NewlyShown
<1>2. Arrives
  <2>1. panel'[p] # panel[p] /\ panel'[p] # [panel[p] EXCEPT !.shown = {}]
    BY Typed DEF Shown
  <2>2. ~AskState \/ p # "state"
    <3>1. AskState /\ p = "state" => panel'[p].shown = {}
      BY Typed DEF AskState, Emptied
    <3> QED BY <3>1
  <2>3. ~AskTable \/ p # "table"
    <3>1. p = "table" => [panel EXCEPT !["table"].shown = {a \in @ : a.sel = 0}][p].shown
                           \subseteq panel[p].shown
      BY Typed
    <3>2. AskTable => \/ panel' = panel
                      \/ panel' = [panel EXCEPT !["table"].shown = {a \in @ : a.sel = 0}]
      BY Zenon DEF AskTable
    <3> QED BY <3>1, <3>2
  <2> QED BY <2>1, <2>2, <2>3, PanelChanges DEF Arrives
<1>3. UNCHANGED <<sel, picked, exp, todo, queue>>
  BY <1>2, Arrival
<1> DEFINE x == QuestionOf(req)
<1>4. x \in Questions /\ (p # "table" => x = p) /\ (Matters(x) <=> MattersThen(x))
  BY <1>1, <1>3, QuestionsAsked DEF Matters, MattersThen
<1>5. CASE p = "shaders"
  <2>1. OnShaderAssembly
    <3>1. ShowApi => got.kind = "api"
      BY Typed, Delivering DEF ShowApi
    <3> QED BY <1>1, <1>2, <1>5, <3>1 DEF Arrives, OnRenderTarget, OnBatch, OnState, OnTable, OnBars
  <2>2. got.sel = sel /\ got.exp = exp
    BY <1>5, <2>1, ShownShaders
  <2>3. req.sel = sel /\ req.exp = exp
    BY <1>1, <1>5, <2>2, PartOf
  <2>4. AsksThen("shaders", req)
    BY <1>1, <1>3, <1>5, <2>3 DEF AsksThen, About, PanelOf
  <2> QED BY <1>1, <1>4, <1>5, <2>4 DEF ReplacedThen
<1>6. CASE p # "shaders"
  <2>1. p \in {"api", "batch", "state", "table", "bars"}
    BY <1>6, PanelsAssumption DEF AllPanels
  <2>2. SUFFICES ASSUME MattersThen(x)
                 PROVE  AsksThen(x, req) \/ AheadThen(x, 0)
    BY <1>1, <1>4, <2>1 DEF ReplacedThen, ComingThen
  <2>3. Asks(x, req) \/ Ahead(x, 0)
    BY <1>4, <2>2 DEF Superseded
  <2> QED BY <1>3, <2>3 DEF Asks, AsksThen, Ahead, AheadThen, ToAsk, ToAskThen
<1> QED BY <1>5, <1>6

LEMMA TodoSame ==
  ASSUME Next, ~Asking, ~ClearShaderList,
         ~(\E tab \in Tabs : Select(tab)), ~(\E tab \in Tabs : Experiment(tab))
  PROVE  UNCHANGED todo \/ Idle
<1>1. CASE User \/ Refresh \/ ShadersChanged \/ Join
  BY <1>1 DEF User, Change, SetUniform, OverrideShaders, Close, Refresh, ShadersChanged, Join
<1>2. CASE Showing \/ Opening
  BY <1>2 DEF Showing, OnRenderTarget, OnShaderAssembly, OnApi, ShowApi, OnBatch, OnUniform,
     OnState, OnTable, OnBars, OnShaderCompile, Opening, OnMetricList, OnOpened, OnError, OnUpload,
     Delivered, ui
<1>3. CASE Drop \/ Send \/ Read \/ ReadEnd
  BY <1>3 DEF Drop, Send, Read, ReadEnd, ui
<1>4. CASE OpenFile \/ ReceiveFile \/ Serve \/ MakeChange \/ ReplaceShaders
  BY <1>4 DEF OpenFile, ReceiveFile, Serve, MakeChange, ReplaceShaders, ui
<1> QED BY <1>1, <1>2, <1>3, <1>4 DEF Next, Asking, User, Showing, Opening

LEMMA ShaderListKept ==
  ASSUME FrameInv, Next, failed = {}, failed' = {}, "shaders" \in Panels, ToAsk("shaderlist")
  PROVE  ToAskThen("shaderlist") \/ panel'["shaders"].shown = {}
<1>1. "shaderlist" \in Members(todo)
  BY DEF ToAsk
<1>2. CASE \E tab \in Tabs : Select(tab)
  BY <1>1, <1>2, SelectAsks DEF Members
<1>3. CASE \E tab \in Tabs : Experiment(tab)
  BY <1>1, <1>3, ExperimentAsks DEF Members
<1>4. CASE Asking
  BY <1>1, <1>4, AskingPoses DEF Posing, Questions, ToAskThen
<1>5. CASE ClearShaderList
  BY <1>5, Typed DEF ClearShaderList, Emptied
<1>6. CASE UNCHANGED todo
  BY <1>1, <1>6 DEF ToAskThen
<1>7. ~Idle
  BY <1>1, IdleTodo
<1> QED BY <1>2, <1>3, <1>4, <1>5, <1>6, <1>7, TodoSame

(* The answer that arrives takes the place of what is out of date.         *)
LEMMA ArrivedInstead ==
  ASSUME FrameInv, Next, Titled, NEW p \in Panels \cap {"api", "batch", "state", "shaders"},
         Arrives, Asks(p, req), got.kind = req.kind,
         NEW a \in panel'[p].shown
  PROVE  /\ a.of.sel = sel
         /\ p \in {"batch", "state"} => a.of.exp = exp
<1>1. /\ IsPart(got, req) /\ got.kind = p
  BY Arrival DEF Asks, About, PanelOf
<1>2. got.sel = sel /\ (p # "api" => got.exp = exp)
  <2>1. got.sel = req.sel /\ got.exp = req.exp
    BY <1>1, PartOf
  <2> QED BY <2>1 DEF Asks, About
<1>3. ShowApi => got.kind = "api"
  BY Typed, Delivering DEF ShowApi
<1>4. \/ p = "api" /\ ShowApi
      \/ p = "batch" /\ OnBatch
      \/ p = "state" /\ OnState
      \/ p = "shaders" /\ OnShaderAssembly
  BY <1>1, <1>3 DEF Arrives, OnRenderTarget, OnShaderAssembly, OnBatch, OnState, OnTable, OnBars
<1>5. SameIds(panel'[p], got)
  BY <1>2, <1>4, ShownApi, ShownBatch, ShownState, ShownShaders
<1> QED BY <1>2, <1>5, TitledIds DEF SameIds

LEMMA MetricInstead ==
  ASSUME FrameInv, Marked, Titled, NEW x \in {"table", "frame", "bars"}, PanelOf(x) \in Panels,
         Arrives, Asks(x, req), Matters(x), ~ToAskThen(x),
         NEW a \in panel'[PanelOf(x)].shown, a \in panel[PanelOf(x)].shown,
         QuestionOf(a.of) = x, Carries(got, a.part)
  PROVE  a = got
<1> DEFINE p == PanelOf(x)
<1>1. p \in {"table", "bars"} /\ (x = "bars" <=> p = "bars")
  BY DEF PanelOf
<1>2. /\ IsPart(got, req) /\ req.kind = p /\ got.kind = p /\ UNCHANGED todo
  BY Arrival DEF Asks, About
<1>3. got.part \in 1..Parts[p] /\ got.sel = req.sel
  BY <1>1, <1>2, PartOf
<1>4. got.part = a.part
  <2>1. got.part # 0
    BY <1>2, <1>3, CountsAssumption
  <2> QED BY <2>1 DEF Carries
<1>5. a.sel = a.of.sel /\ a.of.kind = p /\ (p = "bars" => a.sel = 0)
  BY <1>1 DEF Titled
<1>6. got.sel = (IF x \in {"frame", "bars"} THEN 0 ELSE sel)
  BY <1>3 DEF Asks, About
<1>7. (a.sel = 0) <=> (x \in {"frame", "bars"})
  BY <1>1, <1>5 DEF QuestionOf
<1>8. x = "table" => tableSel = sel /\ sel > 0
  BY <1>1, <1>2, TableNoted DEF PanelOf
<1>9. panel'[p].shown = Replacing(panel[p].shown, got)
  <2>1. CASE p = "bars"
    <3>1. OnBars
      <4>1. ShowApi => got.kind = "api"
        BY Typed, Delivering DEF ShowApi
      <4> QED BY <1>2, <2>1, <4>1 DEF Arrives, OnRenderTarget, OnShaderAssembly, OnBatch, OnState, OnTable
    <3> QED BY <2>1, <3>1, ShownBars
  <2>2. CASE p = "table"
    <3>1. OnTable
      <4>1. ShowApi => got.kind = "api"
        BY Typed, Delivering DEF ShowApi
      <4> QED BY <1>2, <2>2, <4>1 DEF Arrives, OnRenderTarget, OnShaderAssembly, OnBatch, OnState, OnBars
    <3>2. got.sel = tableSel \/ got.sel = 0
      BY <1>1, <1>6, <1>8, <2>2
    <3> QED BY <2>2, <3>1, <3>2, ShownTable
  <2> QED BY <1>1, <2>1, <2>2
<1>10. (got.sel = 0) <=> (x \in {"frame", "bars"})
  BY <1>6, <1>8, Numbers
<1>11. (a.sel = 0) = (got.sel = 0)
  BY <1>7, <1>10
<1> QED BY <1>4, <1>9, <1>11 DEF Replacing

LEMMA RenewedSteady ==
  ASSUME FrameInv, Next, failed = {}, failed' = {}, Marked, Imaged, Titled,
         NEW p \in Panels \ {"target", "uniforms"},
         NEW a \in panel'[p].shown, a \in panel[p].shown, Replaced(p, a),
         MattersThen(QuestionOf(a.of)), Steady(QuestionOf(a.of)),
         p = "shaders" \/ ~ToAskThen(QuestionOf(a.of))
  PROVE  ReplacedThen(p, a)
<1> DEFINE x == QuestionOf(a.of)
<1>0. a.of.kind = p
  BY DEF Titled
<1>1. /\ x \in Questions /\ PanelOf(x) = p /\ (p # "table" => x = p)
      /\ (p = "table" => x \in {"table", "frame"})
  BY <1>0, QuestionsAsked
<1>2. Matters(x)
  BY DEF Steady, Matters, MattersThen
<1>3. \A r : AsksThen(x, r) <=> Asks(x, r)
  <2>1. \A r : About(x, r, sel', exp') <=> About(x, r, sel, exp)
    BY SteadySame
  <2> QED BY <2>1 DEF AsksThen, Asks
<1>4. 1 \in 1..Parts[p]
  BY CountsAssumption
<1>5. \A n : Arrives \/ OnUniform => (Asks(x, req) /\ Carries(got, n) => Arrives /\ got.kind = req.kind)
  <2>1. OnUniform => ~Asks(x, req)
    BY <1>1 DEF OnUniform, Asks, About
  <2> QED BY <2>1 DEF Carries
<1>6. CASE Asks(x, a.of)
  BY <1>3, <1>6 DEF ReplacedThen
<1>7. CASE p \in {"api", "batch", "state"} /\ Coming(p, 1)
  <2>1. x = p
    BY <1>1, <1>7
  <2>2. ComingThen(p, 1) \/ ((Arrives \/ OnUniform) /\ Asks(p, req) /\ Carries(got, 1))
    BY <1>1, <1>4, <1>7, <2>1, ComingKept
  <2>3. CASE Arrives /\ Asks(p, req) /\ got.kind = req.kind
    <3>1. a.of.sel = sel /\ (p \in {"batch", "state"} => a.of.exp = exp)
      BY <1>7, <2>3, ArrivedInstead
    <3>2. Asks(x, a.of)
      BY <1>0, <1>1, <1>7, <2>1, <3>1 DEF Asks, About
    <3> QED BY <1>3, <3>2 DEF ReplacedThen
  <2> QED BY <1>5, <1>7, <2>1, <2>2, <2>3 DEF ReplacedThen
<1>8. CASE p \in {"table", "bars"} /\ Coming(x, a.part)
  <2>1. a.part \in 1..Parts[PanelOf(x)]
    BY <1>1, <1>8 DEF Titled
  <2>2. ComingThen(x, a.part) \/ ((Arrives \/ OnUniform) /\ Asks(x, req) /\ Carries(got, a.part))
    BY <1>1, <1>8, <2>1, ComingKept
  <2>3. CASE Arrives /\ Asks(x, req) /\ Carries(got, a.part)
    <3>1. x \in {"table", "frame", "bars"} /\ ~ToAskThen(x)
      BY <1>1, <1>8
    <3>2. a = got
      BY <1>1, <1>2, <2>3, <3>1, MetricInstead
    <3>3. got.of = req
      BY <2>3, Arrival
    <3> QED BY <1>3, <2>3, <3>2, <3>3 DEF ReplacedThen
  <2> QED BY <1>5, <1>8, <2>2, <2>3 DEF ReplacedThen
<1>9. CASE p = "shaders" /\ ToAsk("shaderlist")
  <2>1. ToAskThen("shaderlist")
    BY <1>9, ShaderListKept
  <2> QED BY <1>9, <2>1 DEF ReplacedThen
<1>10. CASE p = "shaders" /\ a.of.sel # sel /\ Coming("shaders", 1)
  <2>1. x = "shaders" /\ sel' = sel
    BY <1>1, <1>10 DEF Steady
  <2>2. ComingThen("shaders", 1) \/ ((Arrives \/ OnUniform) /\ Asks("shaders", req) /\ Carries(got, 1))
    BY <1>1, <1>4, <1>10, <2>1, ComingKept
  <2>3. ~(Arrives /\ Asks("shaders", req) /\ got.kind = req.kind)
    BY <1>10, ArrivedInstead
  <2>4. ComingThen("shaders", 1)
    BY <1>5, <2>1, <2>2, <2>3
  <2> QED BY <1>10, <2>1, <2>4 DEF ReplacedThen
<1> QED BY <1>2, <1>6, <1>7, <1>8, <1>9, <1>10 DEF Replaced

LEMMA RenewedOld ==
  ASSUME FrameInv, Next, failed = {}, failed' = {}, Marked, Imaged, Titled,
         NEW p \in Panels \ {"target", "uniforms"},
         NEW a \in panel'[p].shown, a \in panel[p].shown, Replaced(p, a)
  PROVE  ReplacedThen(p, a)
<1> DEFINE x == QuestionOf(a.of)
<1>0. a.of.kind = p
  BY DEF Titled
<1>1. x \in Questions /\ (p # "table" => x = p)
  BY <1>0, QuestionsAsked
<1>2. p \in {"api", "batch", "state", "table", "bars", "shaders"}
  BY PanelsAssumption DEF AllPanels
<1>3. CASE ~MattersThen(x)
  BY <1>3 DEF ReplacedThen
<1>4. CASE p # "shaders" /\ ToAskThen(x)
  BY <1>1, <1>2, <1>4 DEF ReplacedThen, ComingThen, AheadThen
<1>5. CASE MattersThen(x) /\ Steady(x) /\ (p = "shaders" \/ ~ToAskThen(x))
  BY <1>5, RenewedSteady
<1>6. CASE p = "shaders" /\ ~Steady(x)
  <2>1. x = "shaders" /\ ToAskThen("shaders")
    BY <1>1, <1>6, StepAsks, Then
  <2>2. CASE \E tab \in Tabs : Select(tab)
    <3>1. sel' = sel + 1
      BY <2>2, SelectAsks
    <3>2. a.of.sel <= sel /\ a.of.sel \in Nat
      BY <1>6, NothingShown DEF Titled
    <3>3. a.of.sel # sel'
      BY <3>1, <3>2, Numbers
    <3> QED BY <1>6, <2>1, <3>3 DEF ReplacedThen, ComingThen, AheadThen
  <2>3. CASE \E tab \in Tabs : Experiment(tab)
    <3>1. ToAskThen("shaderlist")
      BY <1>6, <2>3, ExperimentAsks, Then
    <3> QED BY <1>6, <3>1 DEF ReplacedThen
  <2>4. \/ \E tab \in Tabs : Select(tab)
        \/ \E tab \in Tabs : Experiment(tab)
    BY <1>6, IdsKept DEF Steady
  <2> QED BY <2>2, <2>3, <2>4
<1>7. p # "shaders" /\ ~ToAskThen(x) /\ MattersThen(x) => Steady(x)
  BY <1>1, ThenSteady
<1> QED BY <1>3, <1>4, <1>5, <1>6, <1>7

LEMMA StepRenewed ==
  ASSUME FrameInv, Next, failed = {}, failed' = {}, Marked, Imaged, Titled, Superseded, Renewed
  PROVE  Renewed'
<1>1. ASSUME NEW p \in Panels \ {"target", "uniforms"}, NEW a \in panel'[p].shown
      PROVE  ReplacedThen(p, a)
  <2>1. CASE a \in panel[p].shown
    <3>1. Replaced(p, a)
      BY <2>1 DEF Renewed
    <3> QED BY <2>1, <3>1, RenewedOld
  <2>2. CASE a \notin panel[p].shown
    <3>1. a = got
      BY <2>2, NewlyShown
    <3> QED BY <2>2, <3>1, RenewedNew
  <2> QED BY <2>1, <2>2
<1> QED BY <1>1, ThenReplaced DEF Renewed

-----------------------------------------------------------------------------
(* The invariant and what follows from it.                                 *)

LEMMA InitExpected == ASSUME Init PROVE Expected
<1>1. /\ req.kind = "open" /\ req.exp = 0 /\ req.sel = 0
      /\ \A i \in DOMAIN queue :
           queue[i].sel = 0 /\ queue[i].exp = 0 /\ queue[i].kind \in {"open", "api"}
  <2>1. 1 \in DOMAIN queue /\ queue[1].kind = "open" /\ req = queue[1]
    <3> DEFINE First(kind) == [kind |-> kind, sel |-> 0, exp |-> 0, ctx |-> 1]
               f == First("open")
               a == First("api")
    <3>1. f.kind = "open"
      OBVIOUS
    <3>2. queue = <<f>> \o (IF "api" \in Panels THEN <<a>> ELSE << >>) /\ req = queue[1]
      BY DEF Init
    <3> HIDE DEF f, a
    <3>3. CASE "api" \in Panels
      <4>1. queue = <<f, a>>
        BY <3>2, <3>3, TuplesConcat
      <4> QED BY <3>1, <3>2, <4>1
    <3>4. CASE "api" \notin Panels
      <4>1. queue = <<f>>
        BY <3>2, <3>4
      <4> QED BY <3>1, <3>2, <4>1
    <3> QED BY <3>3, <3>4
  <2> QED BY <2>1, InitQueue
<1>2. /\ sel = 0 /\ picked = {} /\ exp = 0 /\ todo = << >> /\ ~Waiting /\ got = Nothing
      /\ ~success /\ ~opened
      /\ down = << >> /\ cur.render = 0
      /\ \A p \in Panels : panel[p].shown = {}
  BY DEF Init, Waiting
<1>3. Sorted
  <2>1. \A p \in Panels \cap {"table", "bars"} : \A a \in panel[p].shown : a.of.exp <= req.exp
    BY <1>2
  <2> QED BY <1>1, <2>1 DEF Sorted
<1>4. Marked
  <2>1. Within(req, cur) /\ \A i \in DOMAIN queue : Within(queue[i], cur)
    BY <1>1, <1>2 DEF Within
  <2>2. got.kind # "target"
    BY <1>2 DEF Nothing
  <2> QED BY <1>2, <2>1, <2>2 DEF Marked
<1>5. Imaged
  BY <1>2 DEF Imaged
<1>6. Titled
  BY <1>2 DEF Titled
<1>7. Superseded
  <2>1. \A x : Matters(x) => x \in {"frame", "bars"}
    BY <1>2, InitTypes DEF Matters, Types, InterfaceTypes
  <2>2. \A r : r.kind \in {"open", "api"} => QuestionOf(r) \notin {"frame", "bars"}
    BY DEF QuestionOf
  <2> QED BY <1>1, <2>1, <2>2 DEF Superseded
<1>8. Complete
  <2>1. \A x \in Questions \ {"shaders", "frame"} : ~Wanted(x)
    BY <1>2 DEF Wanted, Matters
  <2> QED BY <2>1 DEF Complete
<1>9. Renewed
  BY <1>2 DEF Renewed
<1>10. Cleared
  BY <1>1, <1>2 DEF Cleared, Chosen
<1> QED BY <1>3, <1>4, <1>5, <1>6, <1>7, <1>8, <1>9, <1>10 DEF Expected

LEMMA ExpectedStutters == ASSUME Expected, UNCHANGED vars PROVE Expected'
<1> USE DEF vars, ui, stub, far, history
<1>1. Sorted' /\ Marked' /\ Cleared'
  BY DEF Expected, Sorted, Marked, Cleared, Chosen, Within, NotAfter, ToAsk
<1>2. Imaged' /\ Titled'
  BY DEF Expected, Imaged, Titled, Waiting, NotAfter
<1>3. \A x, r : Asks(x, r)' <=> Asks(x, r)
  BY DEF Asks, About
<1>4. \A x : (Matters(x)' <=> Matters(x)) /\ (ToAsk(x)' <=> ToAsk(x)) /\ (Wanted(x)' <=> Wanted(x))
  BY DEF Matters, ToAsk, Wanted
<1>5. \A x, n : Ahead(x, n)' <=> Ahead(x, n)
  BY DEF Ahead, ToAsk, Asks, About
<1>6. \A x, n : Coming(x, n)' <=> Coming(x, n)
  BY DEF Coming, Due, Brings, Carries, Waiting, Ahead, ToAsk, Asks, About
<1>7. \A x, n : Displayed(x, n)' <=> Displayed(x, n)
  BY DEF Displayed, Held, Waiting, Asks, About
<1>8. Superseded'
  BY <1>3, <1>4, <1>5 DEF Expected, Superseded, Asks, About
<1>9. Complete'
  BY <1>4, <1>6, <1>7 DEF Expected, Complete
<1>10. Renewed'
  <2>1. \A p, a : Replaced(p, a)' <=> Replaced(p, a)
    BY <1>3, <1>4, <1>6 DEF Replaced, Asks, About
  <2> QED BY <2>1 DEF Expected, Renewed
<1> QED BY <1>1, <1>2, <1>8, <1>9, <1>10 DEF Expected

LEMMA StepExpected ==
  ASSUME FrameInv, Next, failed = {}, failed' = {}, Expected PROVE Expected'
BY StepSorted, StepMarked, StepCleared, StepImaged, StepTitled, StepSuperseded, StepComplete, StepRenewed
   DEF Expected

(* However requests are superseded, dropped, skipped or answered late: as  *)
(* long as no assert has failed, the answer that a panel needs is on       *)
(* display or on its way, and what it shows of an older selection or       *)
(* experiment is going to be replaced; of an empty selection only the      *)
(* calls, the metrics and the bars are (Matters).                          *)
THEOREM AnswersAreExpected == Spec => []AnswersInv
<1>1. Init => AnswersInv
  BY InitFrame, InitExpected DEF AnswersInv
<1>2. AnswersInv /\ [Next]_vars => AnswersInv'
  <2> SUFFICES ASSUME AnswersInv, [Next]_vars PROVE AnswersInv'
    OBVIOUS
  <2>1. FrameInv'
    BY StepFrame DEF AnswersInv
  <2>2. CASE Next
    <3>1. failed' = {} => failed = {}
      BY <2>2, GivenUp
    <3>2. failed' = {} => Expected'
      BY <2>2, <3>1, StepExpected DEF AnswersInv
    <3> QED BY <2>1, <3>2 DEF AnswersInv
  <2>3. CASE UNCHANGED vars
    <3>1. failed' = failed
      BY <2>3 DEF vars, history
    <3>2. failed' = {} => Expected'
      BY <2>3, <3>1, ExpectedStutters DEF AnswersInv
    <3> QED BY <2>1, <3>2 DEF AnswersInv
  <2> QED BY <2>2, <2>3
<1> QED BY <1>1, <1>2, PTL DEF Spec

LEMMA NothingComing ==
  ASSUME AnswersInv, Settled
  PROVE  /\ \A x, n : ~Coming(x, n)
         /\ \A x : ~ToAsk(x)
         /\ ~Waiting /\ Expected /\ sel > 0 /\ opened
<1>1. todo = << >> /\ queue = << >> /\ ~Waiting /\ sel > 0 /\ opened /\ failed = {}
  BY DEF Settled, Idle, Waiting
<1>2. Members(todo) = {}
  BY <1>1 DEF Members
<1>3. \A x : ~ToAsk(x)
  BY <1>2 DEF ToAsk
<1>4. \A x, n : ~Ahead(x, n)
  BY <1>1, <1>3 DEF Ahead
<1> QED BY <1>1, <1>3, <1>4 DEF Coming, AnswersInv

(* Answers to an older selection or experiment do not stay on display: the *)
(* panels look at the ids of what they show, and ask anew for the rest.    *)
(* Of an empty selection this is so of the panels that are not Keeping.    *)
THEOREM StaleAnswersGo == Spec => []StaleNotDisplayed
<1>1. AnswersInv => StaleNotDisplayed
  <2> SUFFICES ASSUME AnswersInv, Settled, NEW p \in Panels \ {"uniforms", "target"},
                      NEW a \in panel[p].shown, p \notin Keeping
               PROVE  IsCurrent(p, a)
    BY DEF StaleNotDisplayed
  <2> DEFINE x == QuestionOf(a.of)
  <2>1. Expected /\ sel > 0
    BY NothingComing
  <2>2. a.of.kind = p
    BY <2>1 DEF Expected, Titled
  <2>3. Replaced(p, a)
    BY <2>1 DEF Expected, Renewed
  <2>4. Asks(x, a.of)
    <3>1. \A y, n : ~Coming(y, n) /\ ~ToAsk(y)
      BY NothingComing
    <3>2. Matters(x)
      <4>1. CASE sel \in picked
        BY <4>1 DEF Matters
      <4>2. CASE sel \notin picked
        <5>1. p \in {"api", "table", "bars"}
          BY <4>2, PanelsAssumption DEF Keeping, AllPanels
        <5>2. p = "table" => a.sel = 0 /\ a.sel = a.of.sel
          BY <2>1, <3>1, <4>2 DEF Expected, Cleared, Titled
        <5> QED BY <2>1, <2>2, <5>1, <5>2 DEF Matters, QuestionOf
      <4> QED BY <4>1, <4>2
    <3> QED BY <2>3, <3>1, <3>2 DEF Replaced
  <2>5. x = (IF p = "table" /\ a.of.sel = 0 THEN "frame" ELSE p)
    BY <2>2 DEF QuestionOf
  <2>6. /\ a.of.sel = (IF x \in {"frame", "bars"} THEN 0 ELSE sel)
        /\ x # "api" => a.of.exp = exp
    BY <2>4 DEF Asks, About
  <2> HIDE DEF x
  <2>7. a.of.sel = sel \/ p = "bars" \/ (p = "table" /\ a.of.sel = 0)
    BY <2>5, <2>6, Apart
  <2>8. a.of.exp = exp \/ p = "api"
    BY <2>5, <2>6
  <2> QED BY <2>7, <2>8 DEF IsCurrent
<1> QED BY <1>1, AnswersAreExpected, PTL

(* No answer that a panel needs is lost: when everything has been answered *)
(* each panel but the list of shaders shows all of what is selected.       *)
THEOREM NoAnswerIsLost == Spec => []NothingMissing
<1>1. AnswersInv => NothingMissing
  <2> SUFFICES ASSUME AnswersInv, Settled, NEW p \in Panels \ {"shaders"}, NEW n \in 1..Parts[p],
                      sel \in picked \/ p \in {"api", "bars"}
               PROVE  \E a \in panel[p].shown :
                        /\ IsCurrent(p, a) /\ a.part \in {0, n}
                        /\ p = "bars" \/ a.of.sel = sel
    BY DEF NothingMissing
  <2>1. Expected /\ sel > 0 /\ opened /\ ~Waiting /\ ~Coming(p, n)
    BY NothingComing
  <2>2. p # "frame" /\ p \in Questions /\ PanelOf(p) = p
    BY Apart DEF Questions, Steps, PanelOf
  <2>3. Displayed(p, n)
    <3>1. Wanted(p)
      BY <2>1 DEF Wanted, Matters
    <3> QED BY <2>1, <2>2, <3>1 DEF Expected, Complete
  <2>4. PICK a \in Held(p) : Asks(p, a.of) /\ a.part \in {0, n}
    BY <2>3 DEF Displayed
  <2>5. a \in panel[p].shown
    BY <2>1, <2>2 DEF Held
  <2>6. IsCurrent(p, a) /\ (p = "bars" \/ a.of.sel = sel)
    BY <2>2, <2>4 DEF Asks, About, IsCurrent
  <2> QED BY <2>4, <2>5, <2>6
<1> QED BY <1>1, AnswersAreExpected, PTL
=============================================================================
