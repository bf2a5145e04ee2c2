--------------------------- MODULE FrameRetraceInv ---------------------------
(***************************************************************************)
(* The inductive invariant behind the safety properties of FrameRetrace,   *)
(* in layers: each is inductive once the ones above it are known.          *)
(***************************************************************************)
EXTENDS FrameRetrace, FiniteSets

Members(s) == {s[i] : i \in DOMAIN s}

Waiting == pc \in {"read", "deliver", "show"}

(* Requests by what becomes of them: answered, made without an answer, or  *)
(* only there to wake the thread.                                          *)
Kinds == Panels \cup {"open", "compile", "change", "null"}

RequestsOf(kinds) ==
  [kind : kinds, sel : 0..MaxSelections, exp : 0..MaxEdits, ctx : 1..Contexts]

(* Messages of the daemon: results, and those without ids.                 *)
Results ==
  [kind : Panels \cup {"end"}, sel : 0..MaxSelections, exp : 0..MaxEdits,
   of : RequestsOf(Panels), made : Nat, part : Nat]

Plain == {"upload", "list", "opened", "fatal", "warning", "compiled", "failed"}
Messages == Results \cup [kind : Plain]

Shown == [sel : 0..MaxSelections, exp : 0..MaxEdits, shown : SUBSET Results]

(* The state of every thread, mutex, queue and panel is of its kind.       *)
InterfaceTypes ==
  /\ sel \in 0..MaxSelections /\ picked \in SUBSET (1..sel) /\ exp \in 0..MaxEdits
  /\ edits \in 0..MaxEdits /\ posted \in Nat
  /\ todo = <<"experiment">> \/ todo \in Seq(Steps)
  /\ panel \in [Panels -> Shown] /\ collected \in SUBSET Results
  /\ tableSel \in 0..MaxSelections /\ closing \in {"no", "joining", "closed"}

StubTypes ==
  /\ cur \in [rt : 0..MaxSelections, render : 0..MaxSelections,
              met : 0..MaxSelections, exp : 0..MaxEdits]
  /\ queue \in Seq(RequestsOf(Kinds)) /\ req \in RequestsOf(Kinds)
  /\ pc \in {"idle", "read", "deliver", "show", "ended"}
  /\ got \in Messages \cup {Nothing}
  /\ running \in BOOLEAN /\ success \in BOOLEAN /\ opened \in BOOLEAN

DaemonTypes ==
  /\ up \in Seq(RequestsOf(Kinds \cup {"data"})) /\ down \in Seq(Messages)
  /\ daemon \in {"serving", "receiving", "fatal"}
  /\ applied \in Nat /\ changes \in Nat /\ changedAt \in [0..MaxEdits -> Nat]

Types == InterfaceTypes /\ StubTypes /\ DaemonTypes

-----------------------------------------------------------------------------
(* The socket.  At most one request is out that is answered, the last one  *)
(* sent, and what comes back is its answer, with one message that ends it. *)

Ends(m) ==
  \/ m.kind \in {"end", "opened", "fatal", "compiled", "failed"}
  \/ m.kind = "target" /\ m.part = 0

(* Render targets get new ids when they are read.                          *)
IsPart(m, r) ==
  /\ r.kind \in Panels /\ m.kind \in {r.kind, "end"} /\ m.of = r
  /\ r.kind # "target" => m.sel = r.sel /\ m.exp = r.exp
  /\ \/ m.kind = r.kind /\ m.part \in 1..Parts[r.kind]
     \/ m.kind \in {"end", "target"} /\ m.part = 0

Fits(m, r) ==
  \/ IsPart(m, r)
  \/ m.kind = "warning" /\ r.kind \in {"open", "target"}
  \/ m.kind \in {"list", "opened", "fatal"} /\ r.kind = "open"
     /\ (m.kind = "list" => "table" \in Panels)
  \/ m.kind \in {"compiled", "failed"} /\ r.kind = "compile"

RestOfAnswer(s) ==
  \A i \in DOMAIN s : Fits(s[i], req) /\ (Ends(s[i]) <=> i = Len(s))

Changing(s) == \A i \in DOMAIN s : s[i].kind = "change"

Resting ==
  /\ down = << >> /\ Changing(up) /\ got = Nothing
  /\ daemon # "receiving" /\ (pc = "idle" => daemon = "serving")

Sent ==
  /\ pc = "read" /\ got = Nothing /\ down = << >> /\ daemon = "serving"
  /\ req.kind \in Panels \cup {"open", "compile"}
  /\ up # << >> /\ up[Len(up)] = req
  /\ \A i \in 1..(Len(up) - 1) : up[i].kind = "change"

Uploading ==
  /\ req.kind = "open" /\ daemon = "receiving"
  /\ \/ pc = "read" /\ got = Nothing /\ up = << >> /\ down = <<Message("upload")>>
     \/ pc = "deliver" /\ got = Message("upload") /\ up = << >> /\ down = << >>
     \/ /\ pc = "read" /\ got = Nothing /\ down = << >>
        /\ Len(up) = 1 /\ up[1].kind = "data"

Answering ==
  /\ up = << >> /\ daemon # "receiving" /\ RestOfAnswer(down)
  /\ pc = "read" => got = Nothing /\ down # << >>
  /\ pc = "show" => got.kind = "api"
  /\ pc \in {"deliver", "show"} =>
       /\ got # Nothing /\ Fits(got, req) /\ (Ends(got) <=> down = << >>)
       /\ got.kind = "end" => req.kind = "uniforms"
       /\ got.kind = "warning" => req.kind = "open"
  /\ daemon = "fatal" =>
       IF down = << >> THEN got.kind = "fatal" ELSE down[Len(down)].kind = "fatal"

(* A request for shaders of another context is forgotten.                  *)
Forgotten ==
  /\ pc = "read" /\ got = Nothing /\ up = << >> /\ down = << >>
  /\ daemon = "serving" /\ req.kind = "compile" /\ req.ctx # 1

Protocol ==
  IF Waiting THEN Sent \/ Uploading \/ Answering \/ Forgotten ELSE Resting

-----------------------------------------------------------------------------
(* Ids are of the past, and what the stub has noted is never behind what   *)
(* has been asked of it.                                                   *)
Known(r) ==
  /\ r.sel <= sel /\ r.exp <= exp
  /\ r.kind \in Panels \ {"api"} => r.exp <= cur.exp

(* The file is opened once, before anything is selected.                   *)
OpenedOnce ==
  /\ ~opened => sel = 0
  /\ Waiting /\ req.kind = "open" => ~opened
  /\ \A i \in DOMAIN queue : queue[i].kind = "open" => i = 1 /\ ~opened /\ ~Waiting

Noted ==
  /\ OpenedOnce
  /\ cur.rt <= sel /\ cur.render <= sel /\ cur.met <= sel /\ cur.exp <= exp
  /\ tableSel <= sel
  /\ Known(req) /\ \A i \in DOMAIN queue : Known(queue[i])
  /\ got.kind = "target" => got.sel <= sel /\ got.exp <= exp
  /\ failed \subseteq {"setUniform"}

(* What a panel holds is its own.                                          *)
Own ==
  /\ \A p \in Panels : panel[p].sel <= sel /\ panel[p].exp <= exp
  /\ \A p \in Panels : \A a \in panel[p].shown : a.kind = p
  /\ \A a \in collected : a.kind = "uniforms"

(* The questions of the calls and of the state are asked, answered and     *)
(* shown in order.                                                         *)
NotAfter(r, s) == r.sel <= s.sel /\ r.exp <= s.exp

InTurn(k) ==
  /\ \A i \in DOMAIN queue : queue[i].kind = k =>
       /\ \A j \in DOMAIN queue :
            i < j /\ queue[j].kind = k => NotAfter(queue[i], queue[j])
       /\ NotAfter(panel[k], queue[i])
       /\ Waiting /\ req.kind = k => NotAfter(req, queue[i])
  /\ Waiting /\ req.kind = k => NotAfter(panel[k], req)

Ordered == \A k \in Panels \cap {"api", "state"} : InTurn(k)

-----------------------------------------------------------------------------
(* Changes.  What is asked for in an experiment comes after its changes.   *)
NumberOf(kind, s, n) == Cardinality({i \in 1..n : s[i].kind = kind})

UnderWay(n) == applied + NumberOf("change", up, n)
Queued(n) == UnderWay(Len(up)) + NumberOf("change", queue, n)

Counted(a) ==
  /\ a.of.exp <= exp /\ changedAt[a.of.exp] <= a.made
  /\ a.kind # "target" => a.exp = a.of.exp

Changed ==
  /\ Queued(Len(queue)) = changes
  /\ \A e \in 0..exp : changedAt[e] <= changes
  /\ \A i \in DOMAIN up :
       up[i].kind \in Panels => changedAt[up[i].exp] <= UnderWay(i - 1)
  /\ \A i \in DOMAIN queue : changedAt[queue[i].exp] <= Queued(i - 1)

Dated ==
  /\ \A i \in DOMAIN down : down[i] \in Results => Counted(down[i])
  /\ got \in Results => Counted(got)
  /\ \A p \in Panels : \A a \in panel[p].shown : Counted(a)
  /\ \A a \in collected : Counted(a)

(* Every experiment, also one still to be counted, is one the user started. *)
Compiling == pc \in {"read", "deliver"} /\ req.kind = "compile"

Budget ==
  exp + posted + (IF todo = <<"experiment">> THEN 1 ELSE 0)
      + NumberOf("compile", queue, Len(queue)) + (IF Compiling THEN 1 ELSE 0)
    <= edits

(* All threads agree on who answers what, on the ids that have been given  *)
(* out, and on the changes that have been made: what queue, socket and     *)
(* panels hold of requests superseded meanwhile is of the past, in order,  *)
(* and no answer is on its way but to the request the stub waits for.      *)
FrameInv ==
  Types /\ Protocol /\ Noted /\ Own /\ Ordered /\ Changed /\ Dated /\ Budget
===============================================================================
