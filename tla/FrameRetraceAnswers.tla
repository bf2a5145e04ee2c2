-------------------------- MODULE FrameRetraceAnswers --------------------------
(***************************************************************************)
(* The second part of the inductive invariant: that every answer the       *)
(* panels need is on its way or on display, and that what is out of date   *)
(* is going to be replaced.  It holds while no assert has failed.          *)
(***************************************************************************)
EXTENDS FrameRetraceInv

(* A step of the interface stands for the question that it asks.           *)
Questions == Steps \ {"shaderlist"}

PanelOf(x) == IF x = "frame" THEN "table" ELSE x

About(x, r, s, e) ==
  /\ r.kind = PanelOf(x) /\ r.sel = (IF x \in {"frame", "bars"} THEN 0 ELSE s)
  /\ x # "api" => r.exp = e

Asks(x, r) == About(x, r, sel, exp)

QuestionOf(r) == IF r.kind = "table" /\ r.sel = 0 THEN "frame" ELSE r.kind

(* Whether the answer to the question depends on what has been selected.   *)
(* For an empty selection only the calls do, of the whole frame: the other *)
(* questions are not asked, or their answer is empty.                      *)
Matters(x) ==
  sel \in picked \/ x \in {"frame", "bars"} \/ (x = "api" /\ sel > 0)

ToAsk(x) == x \in Members(todo) \/ (x = "table" /\ "frame" \in Members(todo))

(* The question is going to be asked, or has been, behind request n.       *)
Ahead(x, n) == ToAsk(x) \/ \E i \in DOMAIN queue : i > n /\ Asks(x, queue[i])

-----------------------------------------------------------------------------
(* Requests are made in the order of their experiments.                    *)
Sorted ==
  /\ \A i, j \in DOMAIN queue : i < j => queue[i].exp <= queue[j].exp
  /\ \A i \in DOMAIN queue : req.exp <= queue[i].exp
  /\ \A p \in Panels \cap {"table", "bars"} : \A a \in panel[p].shown :
       a.of.exp <= req.exp

(* What the stub has noted is at least what it has been asked.             *)
Within(r, noted) ==
  /\ r.kind = "bars" => r.sel = 0
  /\ r.kind \in {"shaders", "api", "batch", "uniforms", "state"} => r.sel <= noted.render
  /\ r.kind = "target" => r.sel <= noted.rt

Marked ==
  /\ Within(req, cur) /\ \A i \in DOMAIN queue : Within(queue[i], cur)
  /\ got.kind = "target" => NotAfter(got.of, got)
  /\ "table" \in Panels /\ sel > 0 /\ ~ToAsk("table") =>
       tableSel = sel /\ (sel \in picked => cur.met = sel)

(* Of an empty selection nobody asks for metrics, and the table keeps none *)
(* of an older one.                                                        *)
Chosen(r) == r.kind = "table" => r.sel \in picked \cup {0}

Cleared ==
  /\ Chosen(req) /\ \A i \in DOMAIN queue : Chosen(queue[i])
  /\ "table" \in Panels /\ sel > 0 /\ sel \notin picked /\ ~ToAsk("table") =>
       \A a \in panel["table"].shown : a.sel = 0

(* The image for a render without one is made if none has come.            *)
Imaged ==
  /\ success => /\ Waiting /\ req.kind = "target" /\ up = << >>
                /\ ~(got.kind = "target" /\ got.part = 0)
  /\ \A i \in DOMAIN down : down[i].kind = "target" => down[i].part # 0

(* Answers and the ids of the panel that they are shown with.              *)
Titled ==
  /\ \A p \in Panels \ {"target", "uniforms"} : \A a \in panel[p].shown : a.of.kind = p
  /\ \A p \in Panels \cap {"table", "bars"} : \A a \in panel[p].shown :
       a.sel = a.of.sel /\ a.part \in 1..Parts[p] /\ (p = "bars" => a.sel = 0)
  /\ \A p \in Panels \cap {"api", "shaders", "batch", "state"} : \A a \in panel[p].shown :
       a.of.sel = panel[p].sel /\ (p \in {"batch", "state"} => a.of.exp = panel[p].exp)
  /\ "target" \in Panels => \A a \in panel["target"].shown : NotAfter(a.of, panel["target"])

(* A request that is out of date is not the last of its question.          *)
Superseded ==
  /\ \A x \in Questions \cap {QuestionOf(req)} :
       Matters(x) /\ ~Asks(x, req) => Ahead(x, 0)
  /\ \A i \in DOMAIN queue : \A x \in Questions \cap {QuestionOf(queue[i])} :
       Matters(x) /\ ~Asks(x, queue[i]) => Ahead(x, i)

-----------------------------------------------------------------------------
Carries(m, n) == m.kind = req.kind /\ m.part \in {0, n}

Brings(i, n) ==
  \/ Carries(down[i], n)
  \/ /\ req.kind = "target" /\ down[i].kind = "end" /\ ~success
     /\ \A j \in 1..(i - 1) : down[j].kind # "target"

(* Part n of the answer to the request that is out, or to a question, is   *)
(* going to be delivered.                                                  *)
Due(n) ==
  up # << >> \/ (\E i \in DOMAIN down : Brings(i, n)) \/ Carries(got, n)

Coming(x, n) == Ahead(x, 0) \/ (Waiting /\ Asks(x, req) /\ Due(n))

Held(x) ==
  IF x # "uniforms" THEN panel[PanelOf(x)].shown
  ELSE IF Waiting /\ req.kind = "uniforms" THEN collected
  ELSE collected \cap panel["uniforms"].shown

Displayed(x, n) == \E a \in Held(x) : Asks(x, a.of) /\ a.part \in {0, n}

Wanted(x) == IF x = "bars" THEN opened ELSE Matters(x)

(* No answer is lost.                                                      *)
Complete ==
  \A x \in Questions \ {"shaders", "frame"} : Wanted(x) =>
    \A n \in 1..Parts[PanelOf(x)] : Coming(x, n) \/ Displayed(x, n)

(* What is out of date is going to be replaced, or the list to be cleared. *)
Replaced(p, a) ==
  LET x == QuestionOf(a.of) IN
  Matters(x) =>
    \/ Asks(x, a.of)
    \/ p \in {"api", "batch", "state"} /\ Coming(p, 1)
    \/ p \in {"table", "bars"} /\ Coming(x, a.part)
    \/ /\ p = "shaders"
       /\ ToAsk("shaderlist") \/ (a.of.sel # sel /\ Coming("shaders", 1))

Renewed ==
  \A p \in Panels \ {"target", "uniforms"} : \A a \in panel[p].shown : Replaced(p, a)

Expected ==
  /\ Sorted /\ Marked /\ Cleared /\ Imaged /\ Titled
  /\ Superseded /\ Complete /\ Renewed

(* As long as no assert fails, every panel shows, or is going to be sent,  *)
(* the answer that it needs, whatever has been superseded, dropped or      *)
(* skipped; and an answer on display that is out of date is going to be    *)
(* replaced by one that is not, or to be cleared away.  For an empty       *)
(* selection this is claimed of the questions that matter then.            *)
AnswersInv == FrameInv /\ (failed = {} => Expected)
================================================================================
