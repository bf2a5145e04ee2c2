----------------------------- MODULE FrameRetrace -----------------------------
(* FrameRetrace: the user interface (retrace/daemon/ui), the stub that     *)
(* queues its requests and works them off on a thread of its own           *)
(* (glframe_retrace_stub.cpp), and the daemon that answers them behind a   *)
(* socket (glframe_retrace_skeleton.cpp, glframe_retrace.cpp).             *)
(*                                                                         *)
(* Every selection of renders and every experiment supersedes the requests *)
(* made before.  Three threads run: the interface, the stub, the daemon.   *)
(* The interface holds the model's m_protect while it asks for all panels, *)
(* one step per panel; most callbacks of the stub thread need that mutex.  *)
EXTENDS Naturals, Sequences

CONSTANTS Panels,         \* the panels there are, of AllPanels
          Tabs,           \* the ones that may be in front
          Parts,          \* of each: answers to a request (renders, metrics)
          Contexts,       \* graphics contexts in the frame
          MaxSelections,  \* bound: selections the user makes
          MaxEdits        \* bound: experiments he starts

AllPanels == {"target", "shaders", "api", "batch", "uniforms", "table",
              "state", "bars"}

ASSUME PanelsAssumption ==
  Panels \subseteq AllPanels /\ Tabs \subseteq Panels \ {"bars"}
ASSUME CountsAssumption ==
  /\ Parts \in [Panels -> Nat \ {0}] /\ Contexts \in Nat \ {0}
  /\ MaxSelections \in Nat /\ MaxEdits \in Nat

VARIABLES
  sel, exp,    \* m_selection_count and m_experiment_count of the model
  picked,      \* which selections have renders in them (m_cached_selection)
  todo,        \* what the interface thread still has to do for an event
  edits,       \* experiments started
  posted,      \* experiment events that the stub thread has posted to it
  panel,       \* of each panel: the ids it holds and the answers it shows
  collected,   \* QUniformsModel::m_uniforms_by_renderid
  tableSel,    \* QMetricsModel::m_current_selection_count
  closing,     \* of the interface: no, joining the stub thread, closed
  cur,         \* the stub's m_current_*: rt, render, met, exp
  queue,       \* BufferQueue::m_requests
  running,     \* ThreadedRetrace::m_running
  pc, req,     \* the stub thread: where it is, the request it works on
  got,         \* the response it has read
  success,     \* whether a render target image came
  opened,      \* onFileOpening has said finished
  up, down,    \* the socket, to the daemon and from it
  daemon,      \* serving, receiving a file, fatal (m_fatal_error)
  applied,     \* changes to the frame that the daemon has made
  changes,     \* history: changes the user has asked for and made
  changedAt,   \* history: changes when an experiment began
  failed       \* history: functions of which an assert has failed

ui == <<sel, picked, exp, todo, edits, posted, panel, collected, tableSel,
        closing>>
stub == <<cur, queue, running, pc, req, got, success, opened>>
far == <<up, down, daemon, applied>>
history == <<changes, changedAt, failed>>
vars == <<ui, stub, far, history>>

Nothing == [kind |-> "none"]       \* no response is held

Asserting(where, fact) == IF fact THEN failed ELSE failed \cup {where}

Request(kind, s, ctx) == [kind |-> kind, sel |-> s, exp |-> exp, ctx |-> ctx]

(* FrameRetraceModel::setFrame: open the file, ask for the calls (panels   *)
(* that are left out of an instance ask for nothing).                      *)
Init ==
  /\ sel = 0 /\ picked = {} /\ exp = 0
  /\ todo = << >> /\ edits = 0 /\ posted = 0
  /\ panel = [p \in Panels |-> [sel |-> 0, exp |-> 0, shown |-> {}]]
  /\ collected = {} /\ tableSel = 0 /\ closing = "no"
  /\ cur = [rt |-> 0, render |-> 0, met |-> 0, exp |-> 0]
  /\ LET First(kind) == [kind |-> kind, sel |-> 0, exp |-> 0, ctx |-> 1] IN
     queue = <<First("open")>> \o
             (IF "api" \in Panels THEN <<First("api")>> ELSE << >>)
  /\ running = TRUE /\ pc = "idle" /\ req = queue[1] /\ got = Nothing
  /\ success = FALSE /\ opened = FALSE
  /\ up = << >> /\ down = << >> /\ daemon = "serving" /\ applied = 0
  /\ changes = 0 /\ changedAt = [e \in 0..MaxEdits |-> 0] /\ failed = {}

-----------------------------------------------------------------------------
(* The interface.                                                          *)

(* Whether the interface thread holds FrameRetraceModel::m_protect: in the *)
(* slots onSelect and onExperiment and in the destructor.                  *)
ModelLocked ==
  \/ closing = "joining"
  \/ todo # << >> /\ Head(todo) \notin {"experiment", "shaderlist"}

Idle == todo = << >> /\ closing = "no"

(* What the interface asks for, the slot of the list of shaders included.   *)
Steps ==
  Panels \cup (IF "table" \in Panels THEN {"frame"} ELSE {})
         \cup (IF "shaders" \in Panels THEN {"shaderlist"} ELSE {})

(* The tab in front is refreshed first, the others in an order of their own. *)
After(front, step) == IF step \in Steps \ {front} THEN <<step>> ELSE << >>

(* QSelection::select and FrameRetraceModel::onSelect.  A click beside the *)
(* bars selects nothing, which counts unless nothing was selected before.  *)
Select(tab) ==
  /\ Idle /\ opened /\ sel < MaxSelections
  /\ sel' = sel + 1
  /\ picked' \in {picked, picked \cup {sel + 1}}
  /\ sel \in picked \/ sel + 1 \in picked'
  /\ todo' = <<tab>> \o After(tab, "target") \o After(tab, "shaders")
             \o After(tab, "api") \o After(tab, "batch") \o After(tab, "uniforms")
             \o After(tab, "table") \o After(tab, "state")
  /\ UNCHANGED <<exp, edits, posted, panel, collected, tableSel, closing,
                 stub, far, history>>

(* The user starts an experiment.  disableDraw, simpleShader, setState:    *)
(* push the change, then count the experiment.                             *)
Change ==
  /\ Idle /\ sel > 0 /\ edits < MaxEdits
  /\ edits' = edits + 1
  /\ queue' = Append(queue, Request("change", sel, 1))
  /\ changes' = changes + 1
  /\ todo' = <<"experiment">>
  /\ UNCHANGED <<sel, picked, exp, posted, panel, collected, tableSel, closing,
                 cur, running, pc, req, got, success, opened, far, changedAt,
                 failed>>

(* QUniformsModel::setUniform: the change is for the selection on display. *)
SetUniform ==
  /\ Idle /\ edits < MaxEdits
  /\ "uniforms" \in Panels /\ panel["uniforms"].shown # {}
  /\ LET s == panel["uniforms"].sel IN
     /\ failed' = Asserting("setUniform", cur.render <= s)
     /\ cur' = [cur EXCEPT !.render = s]
     /\ queue' = Append(queue, Request("change", s, 1))
  /\ edits' = edits + 1
  /\ changes' = changes + 1
  /\ todo' = <<"experiment">>
  /\ UNCHANGED <<sel, picked, exp, posted, panel, collected, tableSel, closing,
                 running, pc, req, got, success, opened, far, changedAt>>

(* refreshMetrics.                                                         *)
Refresh ==
  /\ Idle /\ opened /\ edits < MaxEdits
  /\ edits' = edits + 1
  /\ todo' = <<"experiment">>
  /\ UNCHANGED <<sel, picked, exp, posted, panel, collected, tableSel, closing,
                 stub, far, history>>

(* QRenderShadersList::overrideShaders, of a render in context ctx; of a   *)
(* group of renders one after the other, an edit each.                     *)
OverrideShaders(ctx) ==
  /\ Idle /\ edits < MaxEdits
  /\ "shaders" \in Panels /\ panel["shaders"].shown # {}
  /\ edits' = edits + 1
  /\ queue' = Append(queue, Request("compile", sel, ctx))
  /\ UNCHANGED <<sel, picked, exp, todo, posted, panel, collected, tableSel,
                 closing, cur, running, pc, req, got, success, opened, far,
                 history>>

(* The event behind shadersChanged reaches QSelection::experiment.         *)
ShadersChanged ==
  /\ Idle /\ posted > 0
  /\ posted' = posted - 1
  /\ todo' = <<"experiment">>
  /\ UNCHANGED <<sel, picked, exp, edits, panel, collected, tableSel, closing,
                 stub, far, history>>

(* QSelection::experiment and FrameRetraceModel::onExperiment; the slot of *)
(* the shader list is called last and without the model's mutex.           *)
Experiment(tab) ==
  /\ todo = <<"experiment">>
  /\ exp' = exp + 1
  /\ changedAt' = [changedAt EXCEPT ![exp + 1] = changes]
  /\ LET front == IF tab = "table" THEN "frame" ELSE tab
         first == IF tab = "api" THEN << >> ELSE <<front>>
     IN todo' = After(front, "bars") \o first
                \o After(front, "target") \o After(front, "shaders")
                \o After(front, "batch") \o After(front, "uniforms")
                \o After(front, "frame") \o After(front, "state")
                \o After(front, "shaderlist")
  /\ UNCHANGED <<sel, picked, edits, posted, panel, collected, tableSel,
                 closing, stub, far, changes, failed>>

AskedFirst(kind, s, newCur) ==          \* mutation: pushed at the front
  /\ failed' = Asserting(kind, cur.exp <= exp)
  /\ cur' = newCur
  /\ queue' = <<Request(kind, s, 1)>> \o queue

AskedUncounted(kind, s, newCur) ==      \* mutation: experiment not noted
  /\ failed' = Asserting(kind, cur.exp <= exp)
  /\ cur' = [newCur EXCEPT !.exp = cur.exp]
  /\ queue' = Append(queue, Request(kind, s, 1))

(* What the stub's methods have in common: note the ids, push the request. *)
Asked(kind, s, newCur) ==
  /\ failed' = Asserting(kind, cur.exp <= exp)
  /\ cur' = newCur
  /\ queue' = Append(queue, Request(kind, s, 1))

RestOfStub == <<running, pc, req, got, success, opened>>

(* retraceRendertarget and retrace_shader_assemblies, not for an empty     *)
(* selection.                                                              *)
AskTarget ==
  /\ todo # << >> /\ Head(todo) = "target"
  /\ todo' = Tail(todo)
  /\ IF sel \in picked
     THEN Asked("target", sel, [cur EXCEPT !.rt = sel, !.exp = exp])
     ELSE UNCHANGED <<cur, queue, failed>>
  /\ UNCHANGED <<sel, picked, exp, edits, posted, panel, collected, tableSel,
                 closing, RestOfStub, far, changes, changedAt>>

AskShaders ==
  /\ todo # << >> /\ Head(todo) = "shaders"
  /\ todo' = Tail(todo)
  /\ IF sel \in picked
     THEN Asked("shaders", sel, [cur EXCEPT !.render = sel, !.exp = exp])
     ELSE UNCHANGED <<cur, queue, failed>>
  /\ UNCHANGED <<sel, picked, exp, edits, posted, panel, collected, tableSel,
                 closing, RestOfStub, far, changes, changedAt>>

(* retrace_api: calls do not depend on the experiment.                     *)
AskApi ==
  /\ todo # << >> /\ Head(todo) = "api"
  /\ todo' = Tail(todo)
  /\ cur' = [cur EXCEPT !.render = sel]
  /\ queue' = Append(queue, Request("api", sel, 1))
  /\ UNCHANGED <<sel, picked, exp, edits, posted, panel, collected, tableSel,
                 closing, RestOfStub, far, history>>

(* retrace_batch, retrace_uniforms and retrace_state; the last two clear   *)
(* their panel.                                                            *)
Emptied(p) == [panel EXCEPT ![p].shown = {}]

AskBatch ==
  /\ todo # << >> /\ Head(todo) = "batch"
  /\ todo' = Tail(todo)
  /\ Asked("batch", sel, [cur EXCEPT !.render = sel, !.exp = exp])
  /\ UNCHANGED <<sel, picked, exp, edits, posted, panel, collected, tableSel,
                 closing, RestOfStub, far, changes, changedAt>>

AskUniforms ==
  /\ todo # << >> /\ Head(todo) = "uniforms"
  /\ todo' = Tail(todo)
  /\ panel' = Emptied("uniforms")
  /\ collected' = {}
  /\ Asked("uniforms", sel, [cur EXCEPT !.render = sel, !.exp = exp])
  /\ UNCHANGED <<sel, picked, exp, edits, posted, tableSel, closing, RestOfStub,
                 far, changes, changedAt>>

AskState ==
  /\ todo # << >> /\ Head(todo) = "state"
  /\ todo' = Tail(todo)
  /\ panel' = Emptied("state")
  /\ Asked("state", sel, [cur EXCEPT !.render = sel, !.exp = exp])
  /\ UNCHANGED <<sel, picked, exp, edits, posted, collected, tableSel, closing,
                 RestOfStub, far, changes, changedAt>>

(* refreshBarMetrics.                                                      *)
AskBars ==
  /\ todo # << >> /\ Head(todo) = "bars"
  /\ todo' = Tail(todo)
  /\ Asked("bars", 0, [cur EXCEPT !.exp = exp])
  /\ UNCHANGED <<sel, picked, exp, edits, posted, panel, collected, tableSel,
                 closing, RestOfStub, far, changes, changedAt>>

(* QMetricsModel::refresh: the whole frame first, as selection 0; then what *)
(* is selected.                                                            *)
AskFrame ==
  /\ todo # << >> /\ Head(todo) = "frame"
  /\ todo' = <<"table">> \o Tail(todo)
  /\ Asked("table", 0, [cur EXCEPT !.met = 0, !.exp = exp])
  /\ UNCHANGED <<sel, picked, exp, edits, posted, panel, collected, tableSel,
                 closing, RestOfStub, far, changes, changedAt>>

(* QMetricsModel::onSelect, which sets the values of an empty selection to *)
(* zero, and the rest of refresh, which then finds them so.                *)
AskTable ==
  /\ todo # << >> /\ Head(todo) = "table"
  /\ todo' = Tail(todo)
  /\ tableSel' = sel
  /\ IF sel \in picked
     THEN /\ Asked("table", sel, [cur EXCEPT !.met = sel, !.exp = exp])
          /\ UNCHANGED panel
     ELSE /\ panel' = [panel EXCEPT !["table"].shown = {a \in @ : a.sel = 0}]
          /\ UNCHANGED <<cur, queue, failed>>
  /\ UNCHANGED <<sel, picked, exp, edits, posted, collected, closing,
                 RestOfStub, far, changes, changedAt>>

(* QRenderShadersList::onExperiment.                                       *)
ClearShaderList ==
  /\ todo # << >> /\ Head(todo) = "shaderlist"
  /\ todo' = Tail(todo)
  /\ panel' = Emptied("shaders")
  /\ UNCHANGED <<sel, picked, exp, edits, posted, collected, tableSel, closing,
                 stub, far, history>>

(* ~FrameRetraceModel: with the model's mutex held, the stub's Shutdown    *)
(* stops the thread, pushes a request that wakes it and joins it.          *)
Close ==
  /\ Idle
  /\ closing' = "joining"
  /\ running' = FALSE
  /\ queue' = Append(queue, Request("null", 0, 1))
  /\ UNCHANGED <<sel, picked, exp, todo, edits, posted, panel, collected,
                 tableSel, cur, pc, req, got, success, opened, far, history>>

Join ==
  /\ closing = "joining" /\ pc = "ended"
  /\ closing' = "closed"
  /\ UNCHANGED <<sel, picked, exp, todo, edits, posted, panel, collected,
                 tableSel, stub, far, history>>

-----------------------------------------------------------------------------
(* The stub's thread.                                                      *)

LoopedForever(goesOn) == "idle"         \* mutation: m_running not tested

(* ThreadedRetrace::Run after a request: wait for the next one or end.     *)
(* BufferQueue::pop is taken together with the first thing that retrace    *)
(* does, the test under the stub's m_mutex: the interface only appends.    *)
Looped(goesOn) == IF goesOn THEN "idle" ELSE "ended"

SelectionOf(kind) ==
  CASE kind = "target" -> cur.rt [] kind = "table" -> cur.met
    [] OTHER -> cur.render

CallsOfExperiment(r) ==                 \* mutation: calls are an experiment's
  IF r.kind = "table" THEN cur.met = r.sel \/ r.sel = 0
  ELSE r.kind \in AllPanels => SelectionOf(r.kind) = r.sel /\ cur.exp = r.exp

(* The test of each kind of request before it is sent.                     *)
Current(r) ==
  CASE r.kind \in {"target", "shaders", "batch", "uniforms", "state"} ->
         SelectionOf(r.kind) = r.sel /\ cur.exp = r.exp
    [] r.kind = "api" -> cur.render = r.sel
    [] r.kind = "bars" -> cur.exp = r.exp
    [] r.kind = "table" -> /\ cur.met = r.sel \/ r.sel = 0
                           /\ cur.exp <= r.exp \/ r.exp = 0
    [] OTHER -> TRUE

(* The ones it asserts to be no newer than the current experiment.         *)
NotAhead(r) ==
  r.kind \in {"target", "shaders", "batch", "uniforms", "bars"}
    => r.exp <= cur.exp

Drop ==
  /\ pc = "idle" /\ queue # << >>
  /\ LET r == Head(queue) IN
     /\ ~Current(r) \/ r.kind = "null"
     /\ failed' = Asserting(r.kind, NotAhead(r))
  /\ queue' = Tail(queue)
  /\ pc' = Looped(running)
  /\ UNCHANGED <<ui, cur, running, req, got, success, opened, far, changes,
                 changedAt>>

(* RetraceSocket::request; changes are not answered.                       *)
Send ==
  /\ pc = "idle" /\ queue # << >>
  /\ LET r == Head(queue) IN
     /\ Current(r) /\ r.kind # "null"
     /\ req' = r
     /\ up' = Append(up, r)
     /\ pc' = IF r.kind = "change" THEN Looped(running) ELSE "read"
     /\ failed' = Asserting(r.kind, NotAhead(r))
  /\ queue' = Tail(queue)
  /\ UNCHANGED <<ui, cur, running, got, success, opened, down, daemon,
                 applied, changes, changedAt>>

(* The test of an answer, in the kinds of request that have one.           *)
StillCurrent(a) ==
  CASE a.kind \in {"shaders", "batch", "uniforms", "state"} ->
         cur.render = a.sel /\ cur.exp = a.exp
    [] a.kind = "api" -> cur.render = a.sel
    [] OTHER -> TRUE

(* onRenderTarget is passed the current ids, whatever they are by now.     *)
Labelled(a) ==
  IF a.kind = "target" THEN [a EXCEPT !.sel = cur.rt, !.exp = cur.exp] ELSE a

Abandoned == Looped(running)            \* mutation: return, not continue

(* After an answer that is out of date the rest of them is still read.     *)
Skipped == "read"

Read ==
  /\ pc = "read" /\ down # << >> /\ Head(down).kind # "end"
  /\ down' = Tail(down)
  /\ LET a == Head(down)
         heard == /\ StillCurrent(a)
                  /\ a.kind # "warning" \/ req.kind = "open" IN
     /\ got' = IF heard THEN Labelled(a) ELSE Nothing
     /\ pc' = IF heard THEN "deliver" ELSE Skipped
     /\ success' = (success \/ a.kind = "target")
     /\ failed' = Asserting(req.kind,
          a.kind \in {"shaders", "batch", "uniforms"} /\ a.sel = cur.render
             => a.exp <= cur.exp)
  /\ UNCHANGED <<ui, cur, queue, running, req, opened, up, daemon, applied,
                 changes, changedAt>>

(* The last response: the uniforms are told so, and render targets get a   *)
(* default image if there was none.                                        *)
ReadEnd ==
  /\ pc = "read" /\ down # << >> /\ Head(down).kind = "end"
  /\ down' = Tail(down)
  /\ LET a == Head(down) IN
     CASE req.kind = "uniforms" ->
            got' = a /\ pc' = "deliver"
       [] req.kind = "target" /\ ~success ->
            got' = Labelled([a EXCEPT !.kind = "target"]) /\ pc' = "deliver"
       [] OTHER ->
            got' = Nothing /\ pc' = Looped(running)
  /\ success' = FALSE
  /\ UNCHANGED <<ui, cur, queue, running, req, opened, up, daemon, applied,
                 history>>

-----------------------------------------------------------------------------
(* Callbacks on the stub's thread.                                         *)

Shows(p, s, e, answers) ==
  panel' = [panel EXCEPT ![p] = [sel |-> s, exp |-> e, shown |-> answers]]

KeptAlways(old, same) == old.shown      \* mutation: the panel is not cleared

(* Answers to the same question are added to those on display.             *)
Kept(old, same) == IF same THEN old.shown ELSE {}

Delivered(next) ==
  /\ pc' = next
  /\ got' = IF next = "show" THEN got ELSE Nothing
  /\ UNCHANGED <<sel, picked, exp, todo, edits, tableSel, closing, far>>

(* QRenderTargetModel::onRenderTarget.                                     *)
OnRenderTarget ==
  /\ pc = "deliver" /\ got.kind = "target" /\ ~ModelLocked
  /\ LET old == panel["target"]
         newer == got.sel > old.sel \/ got.exp > old.exp IN
     Shows("target", IF newer THEN got.sel ELSE old.sel,
           IF newer THEN got.exp ELSE old.exp, {got} \cup Kept(old, ~newer))
  /\ Delivered(IF got.part = 0 THEN Looped(running) ELSE "read")
  /\ UNCHANGED <<posted, collected, cur, queue, running, req, success,
                 opened, history>>

(* FrameRetraceModel::onShaderAssembly and the list's.                     *)
OnShaderAssembly ==
  /\ pc = "deliver" /\ got.kind = "shaders" /\ ~ModelLocked
  /\ LET old == panel["shaders"] IN
     IF got.sel # sel \/ got.exp # exp THEN UNCHANGED panel
     ELSE Shows("shaders", got.sel, got.exp,
                {got} \cup Kept(old, got.sel = old.sel))
  /\ failed' = Asserting("onShaderAssembly", got.sel = sel => got.exp <= exp)
  /\ Delivered("read")
  /\ UNCHANGED <<posted, collected, cur, queue, running, req, success,
                 opened, changes, changedAt>>

(* FrameRetraceModel::onApi looks at the selection with the mutex held;    *)
(* QApiModel::onApi is called without it.                                  *)
OnApi ==
  /\ pc = "deliver" /\ got.kind = "api" /\ ~ModelLocked
  /\ Delivered(IF got.sel = sel THEN "show" ELSE "read")
  /\ UNCHANGED <<panel, posted, collected, cur, queue, running, req,
                 success, opened, history>>

ShowApi ==
  /\ pc = "show"
  /\ LET old == panel["api"] IN
     Shows("api", got.sel, got.exp,
           {got} \cup Kept(old, got.sel = old.sel))
  /\ Delivered("read")
  /\ UNCHANGED <<posted, collected, cur, queue, running, req, success,
                 opened, history>>

(* FrameRetraceModel::onBatch looks without the mutex, QBatchModel::onBatch. *)
OnBatch ==
  /\ pc = "deliver" /\ got.kind = "batch"
  /\ failed' = Asserting("onBatch",
                 got.sel <= sel /\ (got.sel = sel => got.exp <= exp))
  /\ LET old == panel["batch"]
         same == got.sel = old.sel /\ got.exp = old.exp IN
     IF got.sel # sel \/ got.exp # exp THEN UNCHANGED panel
     ELSE Shows("batch", got.sel, got.exp,
                {got} \cup Kept(old, same))
  /\ Delivered("read")
  /\ UNCHANGED <<posted, collected, cur, queue, running, req, success,
                 opened, changes, changedAt>>

(* QUniformsModel::onUniform collects; the invalid selection at the end    *)
(* puts what has been collected on display.                                *)
OnUniform ==
  /\ pc = "deliver" /\ req.kind = "uniforms"
  /\ IF got.kind = "end"
     THEN /\ panel' = [panel EXCEPT !["uniforms"].shown = collected]
          /\ UNCHANGED collected
     ELSE /\ panel' = [panel EXCEPT !["uniforms"].sel = got.sel,
                                    !["uniforms"].exp = got.exp]
          /\ collected' = collected \cup {got}
  /\ Delivered(IF got.kind = "end" THEN Looped(running) ELSE "read")
  /\ UNCHANGED <<posted, cur, queue, running, req, success, opened,
                 history>>

(* QStateModel::onState.                                                   *)
OnState ==
  /\ pc = "deliver" /\ got.kind = "state"
  /\ LET old == panel["state"]
         newer == got.sel > old.sel \/ got.exp > old.exp IN
     /\ failed' = Asserting("onState",
                            newer \/ (got.sel = old.sel /\ got.exp = old.exp))
     /\ Shows("state", got.sel, got.exp,
              {got} \cup Kept(old, ~newer))
  /\ Delivered("read")
  /\ UNCHANGED <<posted, collected, cur, queue, running, req, success,
                 opened, changes, changedAt>>

(* A metric replaces the one shown for the same selection or the frame.    *)
Replacing(shown, a) ==
  {a} \cup {b \in shown : b.part # a.part \/ (b.sel = 0) # (a.sel = 0)}

(* QMetricsModel::onMetrics.                                               *)
OnTable ==
  /\ pc = "deliver" /\ got.kind = "table"
  /\ IF got.sel # tableSel /\ got.sel # 0 THEN UNCHANGED panel
     ELSE panel' = [panel EXCEPT !["table"].shown = Replacing(@, got)]
  /\ Delivered("read")
  /\ UNCHANGED <<posted, collected, cur, queue, running, req, success,
                 opened, history>>

(* FrameRetraceModel::onMetrics.                                           *)
OnBars ==
  /\ pc = "deliver" /\ got.kind = "bars" /\ ~ModelLocked
  /\ panel' = [panel EXCEPT !["bars"].shown = Replacing(@, got)]
  /\ Delivered("read")
  /\ UNCHANGED <<posted, collected, cur, queue, running, req, success,
                 opened, history>>

(* QRenderShadersList::onShaderCompile; shadersChanged is posted to the    *)
(* interface thread.                                                       *)
OnShaderCompile ==
  /\ pc = "deliver" /\ got.kind \in {"compiled", "failed"}
  /\ IF got.kind = "compiled"
     THEN posted' = posted + 1 /\ panel' = Emptied("shaders")
     ELSE UNCHANGED <<posted, panel>>
  /\ Delivered(Looped(running))
  /\ UNCHANGED <<collected, cur, queue, running, req, success, opened,
                 history>>

(* What RetraceOpenFileRequest does with its responses: send the file, ask *)
(* for the first metrics, or give up after a fatal error.                  *)
OnUpload ==
  /\ pc = "deliver" /\ got.kind = "upload" /\ ~ModelLocked
  /\ up' = Append(up, [req EXCEPT !.kind = "data"])
  /\ pc' = "read" /\ got' = Nothing
  /\ UNCHANGED <<ui, cur, queue, running, req, success, opened, down,
                 daemon, applied, history>>

OnMetricList ==
  /\ pc = "deliver" /\ got.kind = "list" /\ ~ModelLocked
  /\ Asked("table", tableSel, [cur EXCEPT !.met = tableSel, !.exp = exp])
  /\ Delivered("read")
  /\ UNCHANGED <<panel, posted, collected, running, req, success, opened,
                 changes, changedAt>>

OnOpened ==
  /\ pc = "deliver" /\ got.kind = "opened" /\ ~ModelLocked
  /\ opened' = TRUE
  /\ IF "bars" \in Panels THEN Asked("bars", 0, [cur EXCEPT !.exp = exp])
     ELSE UNCHANGED <<cur, queue, failed>>
  /\ Delivered(Looped(running))
  /\ UNCHANGED <<panel, posted, collected, running, req, success, changes,
                 changedAt>>

OnError ==
  /\ pc = "deliver" /\ got.kind \in {"warning", "fatal"}
  /\ running' = (running /\ got.kind # "fatal")
  /\ Delivered(IF got.kind = "fatal" THEN "ended" ELSE "read")
  /\ UNCHANGED <<panel, posted, collected, cur, queue, req, success,
                 opened, history>>

-----------------------------------------------------------------------------
(* The daemon.                                                             *)

Message(kind) == [kind |-> kind]

(* FrameRetrace::openFile: warnings, then the list of metrics and the end, *)
(* or a fatal error if the trace has too few frames.  A driver without     *)
(* metrics sends no list, so that the table asks for nothing: an instance  *)
(* without that panel.                                                     *)
Play(sent) ==
  LET w == Message("warning") IN
  \E warnings \in {<< >>, <<w>>, <<w, w>>}, fatal \in BOOLEAN :
    /\ down' = sent \o warnings \o
               (IF fatal THEN <<Message("fatal")>>
                ELSE (IF "table" \in Panels THEN <<Message("list")>> ELSE << >>)
                     \o <<Message("opened")>>)
    /\ daemon' = IF fatal THEN "fatal" ELSE "serving"

OpenFile ==
  /\ daemon = "serving" /\ up # << >> /\ Head(up).kind = "open"
  /\ up' = Tail(up)
  /\ \/ Play(down)
     \/ daemon' = "receiving" /\ down' = Append(down, Message("upload"))
  /\ UNCHANGED <<ui, stub, applied, history>>

ReceiveFile ==
  /\ daemon = "receiving" /\ up # << >>
  /\ up' = Tail(up)
  /\ Play(down)
  /\ UNCHANGED <<ui, stub, applied, history>>

AnswersMistyped(r, parts) ==            \* mutation: uniforms sent as states
  LET Part(kind, i) == [kind |-> kind, sel |-> r.sel, exp |-> r.exp,
                        of |-> r, made |-> applied, part |-> i]
  IN Append([i \in 1..parts |->
              Part(IF r.kind = "uniforms" THEN "state" ELSE r.kind, i)],
            Part("end", 0))

AnswersWithoutEnd(r, parts) ==          \* mutation: no last message
  [i \in 1..parts |->
     [kind |-> r.kind, sel |-> r.sel, exp |-> r.exp, of |-> r,
      made |-> applied, part |-> i]]

(* One message per render, value or image and one to end them; metrics are *)
(* collected in one message, which the stub takes apart.  An image that    *)
(* cannot be read is a warning, and not one of the Parts.                  *)
Answers(r, parts) ==
  LET Part(kind, i) == [kind |-> kind, sel |-> r.sel, exp |-> r.exp,
                        of |-> r, made |-> applied, part |-> i]
  IN Append([i \in 1..parts |-> Part(r.kind, i)], Part("end", 0))

Serve ==
  /\ daemon = "serving" /\ up # << >>
  /\ LET r == Head(up) IN
     /\ r.kind \in Panels
     /\ up' = Tail(up)
     /\ IF r.sel \notin picked /\ r.kind \notin {"api", "table", "bars"}
        THEN down' = down \o Answers(r, 0)     \* no render is selected
        ELSE \/ down' = down \o Answers(r, Parts[r.kind])
             \/ /\ r.kind = "target"           \* no image could be read
                /\ down' = down \o <<Message("warning")>> \o Answers(r, 0)
  /\ UNCHANGED <<ui, stub, daemon, applied, history>>

MakeChange ==
  /\ daemon = "serving" /\ up # << >> /\ Head(up).kind = "change"
  /\ up' = Tail(up)
  /\ applied' = applied + 1
  /\ UNCHANGED <<ui, stub, down, daemon, history>>

(* FrameRetrace::replaceShaders asks the contexts in turn until one says   *)
(* true, which a context without the render does too: without an answer.   *)
ReplaceShaders ==
  /\ daemon = "serving" /\ up # << >> /\ Head(up).kind = "compile"
  /\ up' = Tail(up)
  /\ \E outcome \in IF Head(up).ctx = 1 THEN {"compiled", "failed"} ELSE {"none"} :
       /\ down' = IF outcome = "none" THEN down
                  ELSE Append(down, Message(outcome))
       /\ LET made == IF outcome = "compiled" THEN 1 ELSE 0 IN
          applied' = applied + made /\ changes' = changes + made
  /\ UNCHANGED <<ui, stub, daemon, changedAt, failed>>

-----------------------------------------------------------------------------
Next ==
  \/ \E tab \in Tabs : Select(tab)
  \/ Change \/ SetUniform \/ Refresh
  \/ \E ctx \in 1..Contexts : OverrideShaders(ctx)
  \/ ShadersChanged
  \/ \E tab \in Tabs : Experiment(tab)
  \/ AskTarget \/ AskShaders \/ AskApi \/ AskBatch \/ AskUniforms \/ AskState
  \/ AskBars \/ AskFrame \/ AskTable \/ ClearShaderList \/ Close \/ Join
  \/ Drop \/ Send \/ Read \/ ReadEnd
  \/ OnRenderTarget \/ OnShaderAssembly \/ OnApi \/ ShowApi \/ OnBatch
  \/ OnUniform \/ OnState \/ OnTable \/ OnBars \/ OnShaderCompile
  \/ OnUpload \/ OnMetricList \/ OnOpened \/ OnError
  \/ OpenFile \/ ReceiveFile \/ Serve \/ MakeChange \/ ReplaceShaders

(* Fairness: each of the three threads goes on while it can.  What the     *)
(* user does is up to him.                                                 *)
Interface ==
  \/ ShadersChanged \/ \E tab \in Tabs : Experiment(tab)
  \/ AskTarget \/ AskShaders \/ AskApi \/ AskBatch \/ AskUniforms \/ AskState
  \/ AskBars \/ AskFrame \/ AskTable \/ ClearShaderList \/ Join

StubThread ==
  \/ Drop \/ Send \/ Read \/ ReadEnd
  \/ OnRenderTarget \/ OnShaderAssembly \/ OnApi \/ ShowApi \/ OnBatch
  \/ OnUniform \/ OnState \/ OnTable \/ OnBars \/ OnShaderCompile
  \/ OnUpload \/ OnMetricList \/ OnOpened \/ OnError

Daemon ==
  \/ OpenFile \/ ReceiveFile \/ Serve \/ MakeChange \/ ReplaceShaders

Spec ==
  /\ Init /\ [][Next]_vars
  /\ WF_vars(Interface) /\ WF_vars(StubThread) /\ WF_vars(Daemon)

-----------------------------------------------------------------------------
(* The user has stopped, and everything he asked for has been answered.    *)
(* A failed assert ends the program; nothing is claimed for what is after. *)
Settled ==
  /\ failed = {} /\ Idle /\ opened /\ sel > 0 /\ posted = 0
  /\ queue = << >> /\ pc = "idle"

(* An answer computed for what is selected, in the current experiment.     *)
IsCurrent(p, a) ==
  /\ a.of.sel = sel \/ p = "bars" \/ (p = "table" /\ a.of.sel = 0)
  /\ a.of.exp = exp \/ p = "api"

(* "Asynchronous callbacks which contain a stale id will not be displayed  *)
(* to the user" (glframe_retrace_interface.hpp): once everything has been  *)
(* answered no panel but the two that do not look at the ids, uniforms and *)
(* render targets, shows an answer to an older selection or experiment.    *)
(* When nothing is selected three more keep what they have, see            *)
(* DeselectedIsEmpty: nobody asks for shaders, and an answer without parts *)
(* reaches neither batches nor, if an older answer is late, state.         *)
Keeping == IF sel \in picked THEN {} ELSE {"shaders", "batch", "state"}

StaleNotDisplayed ==
  Settled =>
    \A p \in Panels \ ({"uniforms", "target"} \cup Keeping) :
      \A a \in panel[p].shown : IsCurrent(p, a)

(* The same of an empty selection, for which these panels have nothing to  *)
(* show.                                                                   *)
DeselectedIsEmpty ==
  Settled => \A p \in Panels \cap Keeping : panel[p].shown = {}

(* The same of the render targets, which are shown with the ids that are   *)
(* current when the answer arrives.                                        *)
TargetsNotStale ==
  Settled => \A a \in panel["target"].shown : IsCurrent("target", a)

(* However requests are superseded, dropped and answered late, every panel *)
(* but the list of shaders (which is cleared after it has been asked for)  *)
(* ends up with the whole answer to what is selected.  If nothing is, the  *)
(* calls of the whole frame are shown, and the bars as ever.               *)
NothingMissing ==
  Settled =>
    \A p \in (IF sel \in picked THEN Panels \ {"shaders"}
              ELSE Panels \cap {"api", "bars"}) : \A n \in 1..Parts[p] :
      \E a \in panel[p].shown :
        /\ IsCurrent(p, a) /\ a.part \in {0, n}
        /\ p = "bars" \/ a.of.sel = sel

(* A panel that shows ids shows results computed with all the changes that *)
(* were made when that experiment began: changes and requests keep their   *)
(* order from the user through queue and socket to the daemon.  Render     *)
(* targets are shown with ids that are not theirs.                         *)
ShowsItsExperiment ==
  \A p \in Panels \ {"target", "api"} : \A a \in panel[p].shown :
    a.made >= changedAt[a.exp]

(* What the stub reads are responses to the request it waits for: no       *)
(* request, dropped, superseded or ended by an error, leaves a response    *)
(* in the socket for the next one to misread.                              *)
AnswersThatWereAsked ==
  /\ (\E i \in DOMAIN down : TRUE) => pc \in {"read", "deliver", "show"}
  /\ \A i \in DOMAIN down :
       CASE down[i].kind \in AllPanels -> down[i].of = req
         [] down[i].kind \in {"upload", "list", "opened", "fatal"} ->
              req.kind = "open"
         [] down[i].kind = "warning" -> req.kind \in {"open", "target"}
         [] down[i].kind \in {"compiled", "failed"} -> req.kind = "compile"
         [] OTHER -> req.kind \in Panels

(* The stub does not wait for an answer that nobody is going to send.      *)
NeverWaitsInVain ==
  pc = "read" /\ down = << >> => up # << >> /\ daemon \in {"serving", "receiving"}

(* No assert of the stub or the panels fails, except the one of setUniform, *)
(* which uniforms of an older selection on display make fail.              *)
OnlySetUniformAsserts == failed \subseteq {"setUniform"}

(* assert(m_current_render_selection <= selection.id) and the others.      *)
AssertsHold == failed = {}

(* Shutdown, called "at exit" (glframe_retrace_stub.hpp), can join the     *)
(* thread: it does not wait for a mutex that the caller holds.             *)
LockedOut ==
  /\ closing = "joining" /\ pc = "deliver"
  /\ got.kind \in {"target", "shaders", "api", "bars", "upload", "list",
                   "opened"}

ShutdownJoins == ~LockedOut

(* Closing the window ends the stub's thread, unless a callback of it      *)
(* waits for the mutex that the destructor holds.                          *)
CloseEnds == (closing = "joining") ~> (closing = "closed" \/ LockedOut)

(* The panel of calls keeps what LatestAnswer promises: it never goes back *)
(* to an older selection and catches up with the newest, as long as the    *)
(* file can be opened and the window is open.                              *)
Calls == INSTANCE LatestAnswer WITH
  asked <- sel,
  shown <- IF "api" \in Panels THEN panel["api"].sel ELSE sel,
  waiting <- closing = "no" /\ daemon # "fatal" /\ failed = {}

CallsCatchUp == Calls!Spec
===============================================================================
