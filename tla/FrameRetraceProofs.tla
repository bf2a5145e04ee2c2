------------------------- MODULE FrameRetraceProofs -------------------------
(***************************************************************************)
(* Proofs about FrameRetrace: its inductive invariant, layer by layer, and *)
(* what follows from it.                                                   *)
(***************************************************************************)
EXTENDS FrameRetraceInv, FunctionTheorems, SequenceTheorems, FiniteSetTheorems, TLAPS

-----------------------------------------------------------------------------
(* Sequences, and how many of a kind are in one.                           *)

LEMMA AppendFacts ==
  ASSUME NEW T, NEW s \in Seq(T), NEW x \in T
  PROVE  /\ Append(s, x) \in Seq(T) /\ Len(Append(s, x)) = Len(s) + 1
         /\ DOMAIN Append(s, x) = 1..(Len(s) + 1) /\ DOMAIN s = 1..Len(s)
         /\ Len(s) \in Nat /\ Append(s, x) # << >>
         /\ Append(s, x)[Len(s) + 1] = x
         /\ \A i \in 1..Len(s) : Append(s, x)[i] = s[i]
OBVIOUS

LEMMA TailFacts ==
  ASSUME NEW T, NEW s \in Seq(T), s # << >>
  PROVE  /\ Head(s) \in T /\ Head(s) = s[1] /\ Tail(s) \in Seq(T)
         /\ Len(Tail(s)) = Len(s) - 1 /\ Len(s) \in Nat \ {0}
         /\ DOMAIN s = 1..Len(s) /\ DOMAIN Tail(s) = 1..(Len(s) - 1)
         /\ \A i \in 1..(Len(s) - 1) : Tail(s)[i] = s[i + 1]
OBVIOUS

LEMMA ElementOf ==
  ASSUME NEW T, NEW s \in Seq(T) PROVE \A i \in DOMAIN s : s[i] \in T
OBVIOUS

LEMMA CountedFinite ==
  ASSUME NEW kind, NEW s, NEW n \in Nat
  PROVE  /\ IsFiniteSet({i \in 1..n : s[i].kind = kind})
         /\ NumberOf(kind, s, n) \in Nat
<1> DEFINE S == {i \in 1..n : s[i].kind = kind}
<1>1. IsFiniteSet(1..n)
  BY FS_Interval
<1>2. S \in SUBSET (1..n)
  OBVIOUS
<1>3. IsFiniteSet(S)
  BY <1>1, <1>2, FS_Subset
<1>4. QED
  BY <1>3, FS_CardinalityType DEF NumberOf

LEMMA NumberOfNone ==
  ASSUME NEW kind, NEW s
  PROVE  NumberOf(kind, s, 0) = 0
<1>1. {i \in 1..0 : s[i].kind = kind} = {}
  OBVIOUS
<1>2. QED
  BY <1>1, FS_EmptySet DEF NumberOf

LEMMA NumberOfSame ==
  ASSUME NEW kind, NEW s, NEW t, NEW n \in Nat, \A i \in 1..n : s[i] = t[i]
  PROVE  NumberOf(kind, s, n) = NumberOf(kind, t, n)
<1>1. {i \in 1..n : s[i].kind = kind} = {i \in 1..n : t[i].kind = kind}
  OBVIOUS
<1>2. QED
  BY <1>1 DEF NumberOf

LEMMA NumberOfNext ==
  ASSUME NEW kind, NEW s, NEW n \in Nat
  PROVE  NumberOf(kind, s, n + 1) =
           NumberOf(kind, s, n) + (IF s[n + 1].kind = kind THEN 1 ELSE 0)
<1> DEFINE S == {i \in 1..n : s[i].kind = kind}
           T == {i \in 1..(n + 1) : s[i].kind = kind}
<1>0. IsFiniteSet(S) /\ Cardinality(S) \in Nat
  BY CountedFinite DEF NumberOf
<1>1. n + 1 \notin S
  OBVIOUS
<1>2. CASE s[n + 1].kind = kind
  <2>1. T = S \cup {n + 1}
    BY <1>2
  <2>2. Cardinality(T) = Cardinality(S) + 1
    BY <1>0, <1>1, <2>1, FS_AddElement
  <2> QED BY <1>2, <2>2 DEF NumberOf
<1>3. CASE s[n + 1].kind # kind
  <2>1. T = S
    BY <1>3
  <2>2. NumberOf(kind, s, n + 1) = NumberOf(kind, s, n) /\ NumberOf(kind, s, n) \in Nat
    BY <2>1, CountedFinite DEF NumberOf
  <2> QED BY <1>3, <2>2
<1> QED BY <1>2, <1>3

LEMMA NumberOfAppend ==
  ASSUME NEW kind, NEW T, NEW s \in Seq(T), NEW x \in T
  PROVE  /\ NumberOf(kind, Append(s, x), Len(Append(s, x))) =
              NumberOf(kind, s, Len(s)) + (IF x.kind = kind THEN 1 ELSE 0)
         /\ \A n \in 0..Len(s) :
              NumberOf(kind, Append(s, x), n) = NumberOf(kind, s, n)
<1>1. \A n \in 0..Len(s) : NumberOf(kind, Append(s, x), n) = NumberOf(kind, s, n)
  <2> SUFFICES ASSUME NEW n \in 0..Len(s)
               PROVE  NumberOf(kind, Append(s, x), n) = NumberOf(kind, s, n)
    OBVIOUS
  <2>1. n \in Nat /\ \A i \in 1..n : Append(s, x)[i] = s[i]
    BY AppendFacts
  <2> QED BY <2>1, NumberOfSame
<1>2. NumberOf(kind, Append(s, x), Len(s) + 1) =
        NumberOf(kind, Append(s, x), Len(s)) + (IF x.kind = kind THEN 1 ELSE 0)
  <2>1. Len(s) \in Nat /\ Append(s, x)[Len(s) + 1] = x
    BY AppendFacts
  <2>2. \A t, n : n \in Nat => NumberOf(kind, t, n + 1) =
          NumberOf(kind, t, n) + (IF t[n + 1].kind = kind THEN 1 ELSE 0)
    BY NumberOfNext
  <2> QED BY <2>1, <2>2, Zenon
<1>3. Len(Append(s, x)) = Len(s) + 1 /\ Len(s) \in 0..Len(s)
  OBVIOUS
<1> QED BY <1>1, <1>2, <1>3

LEMMA NumberOfTail ==
  ASSUME NEW kind, NEW T, NEW s \in Seq(T), s # << >>
  PROVE  \A n \in 0..(Len(s) - 1) :
           NumberOf(kind, s, n + 1) =
             NumberOf(kind, Tail(s), n) + (IF s[1].kind = kind THEN 1 ELSE 0)
<1> SUFFICES ASSUME NEW n \in 0..(Len(s) - 1)
             PROVE  NumberOf(kind, s, n + 1) =
                      NumberOf(kind, Tail(s), n) + (IF s[1].kind = kind THEN 1 ELSE 0)
  OBVIOUS
<1> DEFINE S == {i \in 1..n : Tail(s)[i].kind = kind}
           R == {i \in 1..(n + 1) : s[i].kind = kind} \ {1}
           f == [i \in S |-> i + 1]
<1>1. n \in Nat /\ n <= Len(s) - 1
  BY TailFacts
<1>2. \A i \in 1..n : Tail(s)[i] = s[i + 1]
  BY <1>1, TailFacts
<1>3. f \in Bijection(S, R)
  <2>1. \A i \in S : i + 1 \in R
    BY <1>1, <1>2
  <2>2. \A j \in R : j - 1 \in S /\ (j - 1) + 1 = j
    BY <1>1, <1>2
  <2>3. f \in [S -> R] /\ \A j \in R : \E i \in S : f[i] = j
    BY <2>1, <2>2
  <2>4. \A i, j \in S : f[i] = f[j] => i = j
    BY <1>1
  <2> HIDE DEF f, S, R
  <2> QED BY <2>3, <2>4, Fun_IsBij
<1>4. IsFiniteSet(S) /\ ExistsBijection(S, R) /\ Cardinality(S) \in Nat
  BY <1>1, <1>3, CountedFinite DEF ExistsBijection, NumberOf
<1>5. IsFiniteSet(R) /\ Cardinality(R) = Cardinality(S)
  BY <1>4, FS_Bijection
<1>6. NumberOf(kind, s, n + 1) = Cardinality(R \cup {i \in {1} : s[i].kind = kind})
  <2>1. {i \in 1..(n + 1) : s[i].kind = kind} = R \cup {i \in {1} : s[i].kind = kind}
    BY <1>1
  <2> QED BY <2>1 DEF NumberOf
<1>7. CASE s[1].kind = kind
  <2>1. R \cup {i \in {1} : s[i].kind = kind} = R \cup {1} /\ 1 \notin R
    BY <1>7
  <2>2. Cardinality(R \cup {1}) = Cardinality(S) + 1
    BY <1>4, <1>5, <2>1, FS_AddElement
  <2> QED BY <1>6, <1>7, <2>1, <2>2 DEF NumberOf
<1>8. CASE s[1].kind # kind
  <2>1. R \cup {i \in {1} : s[i].kind = kind} = R
    BY <1>8
  <2>2. NumberOf(kind, s, n + 1) = NumberOf(kind, Tail(s), n)
    BY <1>5, <1>6, <2>1 DEF NumberOf
  <2>3. NumberOf(kind, Tail(s), n) \in Nat
    BY <1>1, CountedFinite
  <2> QED BY <1>8, <2>2, <2>3
<1> QED BY <1>7, <1>8

LEMMA ConcatMembers ==
  ASSUME NEW T, NEW s \in Seq(T), NEW t \in Seq(T)
  PROVE  /\ s \o t \in Seq(T) /\ Members(s \o t) = Members(s) \cup Members(t)
<1>1. /\ s \o t \in Seq(T) /\ DOMAIN (s \o t) = 1..(Len(s) + Len(t))
      /\ Len(s) \in Nat /\ Len(t) \in Nat
      /\ DOMAIN s = 1..Len(s) /\ DOMAIN t = 1..Len(t)
      /\ \A i \in 1..Len(s) : (s \o t)[i] = s[i]
      /\ \A i \in (Len(s) + 1)..(Len(s) + Len(t)) : (s \o t)[i] = t[i - Len(s)]
  OBVIOUS
<1> DEFINE both == s \o t
<1> HIDE DEF both
<1>2. ASSUME NEW x \in Members(both) PROVE x \in Members(s) \cup Members(t)
  BY <1>1, <1>2 DEF Members, both
<1>3. ASSUME NEW x \in Members(s) PROVE x \in Members(both)
  BY <1>1, <1>3 DEF Members, both
<1>4. ASSUME NEW x \in Members(t) PROVE x \in Members(both)
  <2>1. PICK i \in 1..Len(t) : x = t[i]
    BY <1>1 DEF Members
  <2>2. Len(s) + i \in 1..(Len(s) + Len(t)) /\ both[Len(s) + i] = x
    BY <1>1, <2>1 DEF both
  <2> QED BY <1>1, <2>2 DEF Members, both
<1> QED BY <1>1, <1>2, <1>3, <1>4 DEF both

LEMMA AfterMembers ==
  ASSUME NEW front, NEW step
  PROVE  /\ After(front, step) \in Seq(Steps)
         /\ Members(After(front, step)) = {step} \cap (Steps \ {front})
BY DEF After, Members

LEMMA SelectTodo ==
  ASSUME NEW tab \in Tabs, Select(tab)
  PROVE  todo' \in Seq(Steps) /\ Members(todo') = Panels \ {"bars"}
<1> DEFINE one == <<tab>>
           two == After(tab, "target")
           three == After(tab, "shaders")
           four == After(tab, "api")
           five == After(tab, "batch")
           six == After(tab, "uniforms")
           seven == After(tab, "table")
           eight == After(tab, "state")
<1>1. todo' = ((((((one \o two) \o three) \o four) \o five) \o six) \o seven) \o eight
  BY DEF Select
<1>2. tab \in Steps /\ tab \in Panels \ {"bars"} /\ Panels \subseteq AllPanels
  BY PanelsAssumption DEF Steps
<1>3. one \in Seq(Steps) /\ Members(one) = {tab}
  BY <1>2 DEF Members
<1>4. /\ two \in Seq(Steps) /\ Members(two) = {"target"} \cap (Steps \ {tab})
      /\ three \in Seq(Steps) /\ Members(three) = {"shaders"} \cap (Steps \ {tab})
      /\ four \in Seq(Steps) /\ Members(four) = {"api"} \cap (Steps \ {tab})
      /\ five \in Seq(Steps) /\ Members(five) = {"batch"} \cap (Steps \ {tab})
      /\ six \in Seq(Steps) /\ Members(six) = {"uniforms"} \cap (Steps \ {tab})
      /\ seven \in Seq(Steps) /\ Members(seven) = {"table"} \cap (Steps \ {tab})
      /\ eight \in Seq(Steps) /\ Members(eight) = {"state"} \cap (Steps \ {tab})
  BY AfterMembers
<1> HIDE DEF one, two, three, four, five, six, seven, eight
<1>5. /\ todo' \in Seq(Steps)
      /\ Members(todo') = Members(one) \cup Members(two) \cup Members(three)
           \cup Members(four) \cup Members(five) \cup Members(six)
           \cup Members(seven) \cup Members(eight)
  <2> DEFINE a == one \o two
             b == a \o three
             c == b \o four
             d == c \o five
             e == d \o six
             f == e \o seven
  <2>1. a \in Seq(Steps) /\ Members(a) = Members(one) \cup Members(two)
    BY <1>3, <1>4, ConcatMembers
  <2> HIDE DEF a
  <2>2. b \in Seq(Steps) /\ Members(b) = Members(a) \cup Members(three)
    BY <2>1, <1>4, ConcatMembers
  <2> HIDE DEF b
  <2>3. c \in Seq(Steps) /\ Members(c) = Members(b) \cup Members(four)
    BY <2>2, <1>4, ConcatMembers
  <2> HIDE DEF c
  <2>4. d \in Seq(Steps) /\ Members(d) = Members(c) \cup Members(five)
    BY <2>3, <1>4, ConcatMembers
  <2> HIDE DEF d
  <2>5. e \in Seq(Steps) /\ Members(e) = Members(d) \cup Members(six)
    BY <2>4, <1>4, ConcatMembers
  <2> HIDE DEF e
  <2>6. f \in Seq(Steps) /\ Members(f) = Members(e) \cup Members(seven)
    BY <2>5, <1>4, ConcatMembers
  <2> HIDE DEF f
  <2>7. todo' = f \o eight
    BY <1>1 DEF a, b, c, d, e, f
  <2>8. todo' \in Seq(Steps) /\ Members(todo') = Members(f) \cup Members(eight)
    BY <2>6, <2>7, <1>4, ConcatMembers
  <2> QED BY <2>1, <2>2, <2>3, <2>4, <2>5, <2>6, <2>8
<1> DEFINE rest == {"target", "shaders", "api", "batch", "uniforms", "table", "state"}
<1>6. Members(todo') = {tab} \cup (rest \cap Steps)
  BY <1>2, <1>3, <1>4, <1>5
<1>7. rest \cap Steps = Panels \ {"bars"}
  <2>1. ASSUME NEW x \in rest \cap Steps PROVE x \in Panels \ {"bars"}
    BY <2>1 DEF Steps
  <2>2. ASSUME NEW x \in Panels \ {"bars"} PROVE x \in rest \cap Steps
    BY <1>2, <2>2 DEF Steps, AllPanels
  <2> QED BY <2>1, <2>2
<1>8. QED
  BY <1>2, <1>5, <1>6, <1>7

LEMMA ExperimentTodo ==
  ASSUME NEW tab \in Tabs, Experiment(tab)
  PROVE  todo' \in Seq(Steps) /\ Members(todo') = Steps \ {"api", "table"}
<1> DEFINE front == IF tab = "table" THEN "frame" ELSE tab
           one == After(front, "bars")
           two == IF tab = "api" THEN << >> ELSE <<front>>
           three == After(front, "target")
           four == After(front, "shaders")
           five == After(front, "batch")
           six == After(front, "uniforms")
           seven == After(front, "frame")
           eight == After(front, "state")
           nine == After(front, "shaderlist")
<1>1. todo' = (((((((one \o two) \o three) \o four) \o five) \o six) \o seven) \o eight) \o nine
  BY DEF Experiment
<1>2. /\ tab \in Panels \ {"bars"} /\ Panels \subseteq AllPanels
      /\ front \in Steps \ {"bars", "table"}
  BY PanelsAssumption DEF Steps
<1>3. two \in Seq(Steps) /\ Members(two) = {front} \ {"api"}
  BY <1>2 DEF Members, AllPanels
<1>4. /\ one \in Seq(Steps) /\ Members(one) = {"bars"} \cap (Steps \ {front})
      /\ three \in Seq(Steps) /\ Members(three) = {"target"} \cap (Steps \ {front})
      /\ four \in Seq(Steps) /\ Members(four) = {"shaders"} \cap (Steps \ {front})
      /\ five \in Seq(Steps) /\ Members(five) = {"batch"} \cap (Steps \ {front})
      /\ six \in Seq(Steps) /\ Members(six) = {"uniforms"} \cap (Steps \ {front})
      /\ seven \in Seq(Steps) /\ Members(seven) = {"frame"} \cap (Steps \ {front})
      /\ eight \in Seq(Steps) /\ Members(eight) = {"state"} \cap (Steps \ {front})
      /\ nine \in Seq(Steps) /\ Members(nine) = {"shaderlist"} \cap (Steps \ {front})
  BY AfterMembers
<1> HIDE DEF front, one, two, three, four, five, six, seven, eight, nine
<1>5. /\ todo' \in Seq(Steps)
      /\ Members(todo') = Members(one) \cup Members(two) \cup Members(three) \cup Members(four) \cup Members(five)
           \cup Members(six) \cup Members(seven) \cup Members(eight) \cup Members(nine)
  <2> DEFINE a == one \o two
             b == a \o three
             c == b \o four
             d == c \o five
             e == d \o six
             f == e \o seven
             g == f \o eight
  <2>1. a \in Seq(Steps) /\ Members(a) = Members(one) \cup Members(two)
    BY <1>3, <1>4, ConcatMembers
  <2> HIDE DEF a
  <2>2. b \in Seq(Steps) /\ Members(b) = Members(a) \cup Members(three)
    BY <2>1, <1>3, <1>4, ConcatMembers
  <2> HIDE DEF b
  <2>3. c \in Seq(Steps) /\ Members(c) = Members(b) \cup Members(four)
    BY <2>2, <1>3, <1>4, ConcatMembers
  <2> HIDE DEF c
  <2>4. d \in Seq(Steps) /\ Members(d) = Members(c) \cup Members(five)
    BY <2>3, <1>3, <1>4, ConcatMembers
  <2> HIDE DEF d
  <2>5. e \in Seq(Steps) /\ Members(e) = Members(d) \cup Members(six)
    BY <2>4, <1>3, <1>4, ConcatMembers
  <2> HIDE DEF e
  <2>6. f \in Seq(Steps) /\ Members(f) = Members(e) \cup Members(seven)
    BY <2>5, <1>3, <1>4, ConcatMembers
  <2> HIDE DEF f
  <2>7. g \in Seq(Steps) /\ Members(g) = Members(f) \cup Members(eight)
    BY <2>6, <1>3, <1>4, ConcatMembers
  <2> HIDE DEF g
  <2>8. todo' = g \o nine
    BY <1>1 DEF a, b, c, d, e, f, g
  <2>9. todo' \in Seq(Steps) /\ Members(todo') = Members(g) \cup Members(nine)
    BY <2>7, <2>8, <1>4, ConcatMembers
  <2> QED BY <2>1, <2>2, <2>3, <2>4, <2>5, <2>6, <2>7, <2>9
<1> DEFINE rest == {"bars", "target", "shaders", "batch", "uniforms", "frame",
                    "state", "shaderlist"}
<1>6. Members(todo') = ({front} \ {"api"}) \cup (rest \cap Steps)
  BY <1>2, <1>3, <1>4, <1>5
<1>7. rest \cap Steps = Steps \ {"api", "table"}
  BY <1>2 DEF Steps, AllPanels
<1>8. QED
  BY <1>2, <1>5, <1>6, <1>7

-----------------------------------------------------------------------------
(* What a step may do to the queue and what the stub has noted.            *)

Notes == [rt : 0..MaxSelections, render : 0..MaxSelections,
          met : 0..MaxSelections, exp : 0..MaxEdits]

Fine(c) ==
  /\ c \in Notes /\ c.rt <= sel /\ c.render <= sel /\ c.met <= sel
  /\ cur.exp <= c.exp /\ c.exp <= exp

(* A request is about ids of the past, those of calls and states about the *)
(* present ones, metrics of a selection with renders or of the frame.      *)
Allowed(kind, s) ==
  /\ kind # "open"
  /\ kind \in {"api", "state"} => s = sel
  /\ kind = "table" => s \in picked \cup {0}

Fresh(r) ==
  /\ r \in RequestsOf(Kinds) /\ r.sel <= sel /\ r.exp <= exp
  /\ Allowed(r.kind, r.sel)
  /\ r.kind \in {"api", "state"} => r.sel = sel /\ r.exp = exp

QueueStep ==
  /\ Fine(cur')
  /\ \/ queue' = queue
     \/ queue # << >> /\ queue' = Tail(queue)
     \/ \E r : /\ Fresh(r) /\ queue' = Append(queue, r)
               /\ r.kind \in Panels \ {"api"} => r.exp <= cur'.exp

LEMMA QueueKept ==
  ASSUME Types, Noted, UNCHANGED cur, queue' = queue \/ (queue # << >> /\ queue' = Tail(queue))
  PROVE  QueueStep
BY DEF Types, StubTypes, InterfaceTypes, Noted, QueueStep, Fine, Notes

LEMMA HeadStep ==
  ASSUME Types, todo # << >>, Head(todo) # "experiment"
  PROVE  /\ todo \in Seq(Steps) /\ Head(todo) \in Steps /\ Tail(todo) \in Seq(Steps)
         /\ Head(todo) \in AllPanels => Head(todo) \in Panels
         /\ Head(todo) = "frame" => "table" \in Panels
<1>1. todo \in Seq(Steps)
  BY DEF Types, InterfaceTypes
<1>2. Head(todo) \in Steps /\ Tail(todo) \in Seq(Steps)
  BY <1>1
<1>3. \A x \in Steps : (x \in AllPanels => x \in Panels) /\ (x = "frame" => "table" \in Panels)
  BY PanelsAssumption DEF Steps, AllPanels
<1> QED BY <1>1, <1>2, <1>3

LEMMA FreshRequest ==
  ASSUME Types, NEW kind \in Kinds, NEW s \in 0..MaxSelections, s <= sel,
         NEW ctx \in 1..Contexts, Allowed(kind, s)
  PROVE  /\ Fresh(Request(kind, s, ctx))
         /\ Request(kind, s, ctx).kind = kind /\ Request(kind, s, ctx).exp = exp
BY DEF Types, InterfaceTypes, Fresh, Allowed, Request, RequestsOf

LEMMA AskedStep ==
  ASSUME Types, Noted, NEW kind \in Panels, NEW s \in 0..MaxSelections, s <= sel,
         NEW c, Fine(c), c.exp = exp, Allowed(kind, s), Asked(kind, s, c)
  PROVE  QueueStep /\ UNCHANGED failed
<1>1. 1 \in 1..Contexts /\ kind \in Kinds
  BY CountsAssumption DEF Kinds
<1>2. /\ Fresh(Request(kind, s, 1)) /\ Request(kind, s, 1).exp = exp
      /\ queue' = Append(queue, Request(kind, s, 1)) /\ cur' = c
  BY <1>1, FreshRequest DEF Asked
<1>3. UNCHANGED failed
  BY DEF Asked, Asserting, Noted
<1>4. Fine(cur') /\ cur'.exp = exp
  BY <1>2
<1>5. exp <= exp
  BY DEF Types, InterfaceTypes
<1> QED BY <1>2, <1>3, <1>4, <1>5 DEF QueueStep

(* The stub notes the ids that are current.                                *)
LEMMA NotedIds ==
  ASSUME Types, Noted
  PROVE  /\ Fine([cur EXCEPT !.rt = sel, !.exp = exp])
         /\ Fine([cur EXCEPT !.render = sel, !.exp = exp])
         /\ Fine([cur EXCEPT !.met = sel, !.exp = exp])
         /\ Fine([cur EXCEPT !.met = 0, !.exp = exp])
         /\ Fine([cur EXCEPT !.met = tableSel, !.exp = exp])
         /\ Fine([cur EXCEPT !.exp = exp])
<1>1. /\ cur \in Notes /\ sel \in 0..MaxSelections /\ exp \in 0..MaxEdits
      /\ tableSel \in 0..MaxSelections /\ MaxSelections \in Nat /\ MaxEdits \in Nat
      /\ cur.rt <= sel /\ cur.render <= sel /\ cur.met <= sel /\ cur.exp <= exp
      /\ tableSel <= sel
  BY CountsAssumption DEF Types, InterfaceTypes, StubTypes, Noted, Notes
<1>2. \A f \in {"rt", "render", "met"}, s \in 0..MaxSelections : s <= sel =>
        Fine([cur EXCEPT ![f] = s, !["exp"] = exp])
  BY <1>1 DEF Fine, Notes
<1>3. Fine([cur EXCEPT !.exp = exp])
  BY <1>1 DEF Fine, Notes
<1>4. 0 \in 0..MaxSelections /\ 0 <= sel /\ sel <= sel
  BY <1>1
<1> QED BY <1>1, <1>2, <1>3, <1>4

LEMMA NotedRender ==
  ASSUME Types, Noted, NEW s \in 0..MaxSelections, s <= sel
  PROVE  Fine([cur EXCEPT !.render = s])
BY SMTT(30) DEF Types, InterfaceTypes, StubTypes, Noted, Fine, Notes

LEMMA NotedExp ==
  ASSUME Types
  PROVE  /\ [cur EXCEPT !.rt = sel, !.exp = exp].exp = exp
         /\ [cur EXCEPT !.render = sel, !.exp = exp].exp = exp
         /\ [cur EXCEPT !.met = sel, !.exp = exp].exp = exp
         /\ [cur EXCEPT !.met = 0, !.exp = exp].exp = exp
         /\ [cur EXCEPT !.met = tableSel, !.exp = exp].exp = exp
         /\ [cur EXCEPT !.exp = exp].exp = exp
BY DEF Types, StubTypes

LEMMA AskTargetQueue ==
  ASSUME Types, Noted, AskTarget
  PROVE  QueueStep /\ UNCHANGED failed
<1>1. "target" \in Panels /\ sel \in 0..MaxSelections /\ 0 \in 0..MaxSelections /\ 0 <= sel /\ sel <= sel
  BY HeadStep, CountsAssumption DEF Types, InterfaceTypes, AskTarget, AllPanels
<1>2. CASE sel \notin picked
  BY <1>2, QueueKept DEF AskTarget
<1>3. CASE sel \in picked
  <2>1. Asked("target", sel, [cur EXCEPT !.rt = sel, !.exp = exp])
    BY <1>3 DEF AskTarget
  <2> QED BY <1>1, <2>1, AskedStep, NotedIds, NotedExp DEF Allowed
<1> QED BY <1>2, <1>3

LEMMA AskShadersQueue ==
  ASSUME Types, Noted, AskShaders
  PROVE  QueueStep /\ UNCHANGED failed
<1>1. "shaders" \in Panels /\ sel \in 0..MaxSelections /\ 0 \in 0..MaxSelections /\ 0 <= sel /\ sel <= sel
  BY HeadStep, CountsAssumption DEF Types, InterfaceTypes, AskShaders, AllPanels
<1>2. CASE sel \notin picked
  BY <1>2, QueueKept DEF AskShaders
<1>3. CASE sel \in picked
  <2>1. Asked("shaders", sel, [cur EXCEPT !.render = sel, !.exp = exp])
    BY <1>3 DEF AskShaders
  <2> QED BY <1>1, <2>1, AskedStep, NotedIds, NotedExp DEF Allowed
<1> QED BY <1>2, <1>3

LEMMA AskBatchQueue ==
  ASSUME Types, Noted, AskBatch
  PROVE  QueueStep /\ UNCHANGED failed
<1>1. "batch" \in Panels /\ sel \in 0..MaxSelections /\ 0 \in 0..MaxSelections /\ 0 <= sel /\ sel <= sel
  BY HeadStep, CountsAssumption DEF Types, InterfaceTypes, AskBatch, AllPanels
<1>2. Asked("batch", sel, [cur EXCEPT !.render = sel, !.exp = exp])
  BY DEF AskBatch
<1> QED BY <1>1, <1>2, AskedStep, NotedIds, NotedExp DEF Allowed

LEMMA AskUniformsQueue ==
  ASSUME Types, Noted, AskUniforms
  PROVE  QueueStep /\ UNCHANGED failed
<1>1. "uniforms" \in Panels /\ sel \in 0..MaxSelections /\ 0 \in 0..MaxSelections /\ 0 <= sel /\ sel <= sel
  BY HeadStep, CountsAssumption DEF Types, InterfaceTypes, AskUniforms, AllPanels
<1>2. Asked("uniforms", sel, [cur EXCEPT !.render = sel, !.exp = exp])
  BY DEF AskUniforms
<1> QED BY <1>1, <1>2, AskedStep, NotedIds, NotedExp DEF Allowed

LEMMA AskStateQueue ==
  ASSUME Types, Noted, AskState
  PROVE  QueueStep /\ UNCHANGED failed
<1>1. "state" \in Panels /\ sel \in 0..MaxSelections /\ 0 \in 0..MaxSelections /\ 0 <= sel /\ sel <= sel
  BY HeadStep, CountsAssumption DEF Types, InterfaceTypes, AskState, AllPanels
<1>2. Asked("state", sel, [cur EXCEPT !.render = sel, !.exp = exp])
  BY DEF AskState
<1> QED BY <1>1, <1>2, AskedStep, NotedIds, NotedExp DEF Allowed

LEMMA AskBarsQueue ==
  ASSUME Types, Noted, AskBars
  PROVE  QueueStep /\ UNCHANGED failed
<1>1. "bars" \in Panels /\ sel \in 0..MaxSelections /\ 0 \in 0..MaxSelections /\ 0 <= sel /\ sel <= sel
  BY HeadStep, CountsAssumption DEF Types, InterfaceTypes, AskBars, AllPanels
<1>2. Asked("bars", 0, [cur EXCEPT !.exp = exp])
  BY DEF AskBars
<1> QED BY <1>1, <1>2, AskedStep, NotedIds, NotedExp DEF Allowed

LEMMA AskFrameQueue ==
  ASSUME Types, Noted, AskFrame
  PROVE  QueueStep /\ UNCHANGED failed
<1>1. "table" \in Panels /\ sel \in 0..MaxSelections /\ 0 \in 0..MaxSelections /\ 0 <= sel /\ sel <= sel
  BY HeadStep, CountsAssumption DEF Types, InterfaceTypes, AskFrame, AllPanels
<1>2. Asked("table", 0, [cur EXCEPT !.met = 0, !.exp = exp])
  BY DEF AskFrame
<1> QED BY <1>1, <1>2, AskedStep, NotedIds, NotedExp DEF Allowed

LEMMA AskTableQueue ==
  ASSUME Types, Noted, AskTable
  PROVE  QueueStep /\ UNCHANGED failed
<1>1. "table" \in Panels /\ sel \in 0..MaxSelections /\ 0 \in 0..MaxSelections /\ 0 <= sel /\ sel <= sel
  BY HeadStep, CountsAssumption DEF Types, InterfaceTypes, AskTable, AllPanels
<1>2. CASE sel \notin picked
  BY <1>2, QueueKept DEF AskTable
<1>3. CASE sel \in picked
  <2>1. Asked("table", sel, [cur EXCEPT !.met = sel, !.exp = exp])
    BY <1>3 DEF AskTable
  <2> QED BY <1>1, <1>3, <2>1, AskedStep, NotedIds, NotedExp DEF Allowed
<1> QED BY <1>2, <1>3

LEMMA AskApiQueue ==
  ASSUME Types, Noted, AskApi
  PROVE  QueueStep /\ UNCHANGED failed
<1>1. "api" \in Panels /\ sel \in 0..MaxSelections /\ sel <= sel /\ 1 \in 1..Contexts
  BY HeadStep, CountsAssumption DEF Types, InterfaceTypes, AskApi, AllPanels
<1>2. "api" \in Kinds
  BY <1>1 DEF Kinds
<1>3. Fresh(Request("api", sel, 1)) /\ Request("api", sel, 1).kind = "api"
  BY <1>1, <1>2, FreshRequest DEF Allowed
<1>4. Fine(cur') /\ queue' = Append(queue, Request("api", sel, 1))
  BY <1>1, NotedRender DEF AskApi
<1> QED BY <1>3, <1>4 DEF QueueStep, AskApi, history

-----------------------------------------------------------------------------
(* What is read and delivered.                                             *)

LEMMA Apart ==
  \A k \in {"open", "compile", "change", "null", "data", "end", "none", "frame",
            "shaderlist", "experiment"} \cup Plain : k \notin Panels
BY PanelsAssumption DEF AllPanels, Plain

LEMMA KindsApart ==
  /\ \A m \in Results : m.kind \in Panels \cup {"end"} /\ m.kind \notin Plain \cup {"none"}
  /\ \A m \in [kind : Plain] : m.kind \in Plain /\ m.kind \notin Panels \cup {"end", "none"}
  /\ Nothing.kind = "none" /\ Nothing \notin Messages
<1>1. \A m \in Results : m.kind \in Panels \cup {"end"} /\ m.kind \notin Plain \cup {"none"}
  BY Apart DEF Results, Plain
<1>2. \A m \in [kind : Plain] : m.kind \in Plain /\ m.kind \notin Panels \cup {"end", "none"}
  BY Apart DEF Plain
<1>3. Nothing.kind = "none" /\ "none" \notin Plain
  BY DEF Nothing, Plain
<1> QED BY <1>1, <1>2, <1>3 DEF Messages

(* What is delivered is an answer to the request, or asks for the file.    *)
LEMMA Delivering ==
  ASSUME Types, Protocol, pc \in {"deliver", "show"}
  PROVE  /\ got \in Messages
         /\ got.kind = "upload" <=> Uploading
         /\ got.kind # "upload" => Answering /\ Fits(got, req)
         /\ got.kind \in AllPanels => got.kind \in Panels
         /\ got.kind \in Panels => got \in Results /\ IsPart(got, req) /\ req.kind = got.kind
         /\ got.kind = "end" => got \in Results /\ req.kind = "uniforms"
         /\ req.kind = "uniforms" => got.kind \in {"uniforms", "end"}
         /\ pc = "show" => got.kind = "api"
<1>1. Uploading \/ Answering
  BY DEF Protocol, Waiting, Sent, Forgotten
<1>2. CASE Uploading
  <2>1. got = Message("upload") /\ req.kind = "open" /\ pc = "deliver"
    BY <1>2 DEF Uploading
  <2>2. got.kind = "upload" /\ got \in Messages
    BY <2>1 DEF Message, Messages, Plain
  <2> QED BY <1>2, <2>1, <2>2, Apart DEF Plain, AllPanels
<1>3. CASE Answering
  <2>1. got # Nothing /\ Fits(got, req) /\ (got.kind = "end" => req.kind = "uniforms")
        /\ (got.kind = "warning" => req.kind = "open") /\ (pc = "show" => got.kind = "api")
    BY <1>3 DEF Answering
  <2>2. got \in Messages /\ (got.kind \in Panels \cup {"end"} => got \in Results)
    BY <2>1, KindsApart DEF Types, StubTypes, Messages
  <2>3. got.kind # "upload" /\ ~Uploading
    BY <1>3, <2>1, Apart DEF Fits, IsPart, Plain, Answering, Uploading
  <2>4. got.kind \in Panels => IsPart(got, req) /\ req.kind = got.kind
    BY <2>1, Apart DEF Fits, IsPart, Plain
  <2>5. req.kind = "uniforms" => got.kind \in {"uniforms", "end"}
    BY <2>1 DEF Fits, IsPart
  <2>6. got.kind \in AllPanels => got.kind \in Panels
    BY <2>1 DEF Fits, IsPart, AllPanels
  <2> QED BY <1>3, <2>1, <2>2, <2>3, <2>4, <2>5, <2>6
<1> QED BY <1>1, <1>2, <1>3

-----------------------------------------------------------------------------
(* What a step may do to the panels.                                       *)

From(p) ==
  (IF got.kind = p THEN {got} ELSE {}) \cup (IF p = "uniforms" THEN collected ELSE {})

SameIds(r, s) == r.sel = s.sel /\ r.exp = s.exp

PanelStep ==
  /\ panel' \in [Panels -> Shown]
  /\ \A p \in Panels :
       /\ panel'[p].shown \subseteq panel[p].shown \cup From(p)
       /\ SameIds(panel'[p], panel[p]) \/ (got.kind = p /\ SameIds(panel'[p], got))
  /\ collected' \subseteq collected \cup (IF got.kind = "uniforms" THEN {got} ELSE {})

LEMMA PanelsKept ==
  ASSUME Types, UNCHANGED panel, collected' = {} \/ collected' = collected
  PROVE  PanelStep
BY DEF Types, InterfaceTypes, PanelStep, SameIds

LEMMA PanelEmptied ==
  ASSUME Types, NEW p, panel' = Emptied(p), collected' = {} \/ collected' = collected
  PROVE  PanelStep
<1>1. /\ panel \in [Panels -> Shown]
      /\ panel' = [x \in Panels |-> IF x = p THEN [panel[p] EXCEPT !.shown = {}] ELSE panel[x]]
  BY DEF Types, InterfaceTypes, Emptied
<1>2. \A x \in Panels : [panel[x] EXCEPT !.shown = {}] \in Shown
  BY <1>1 DEF Shown
<1>3. panel' \in [Panels -> Shown]
  BY <1>1, <1>2
<1>4. \A x \in Panels : panel'[x].shown \subseteq panel[x].shown /\ SameIds(panel'[x], panel[x])
  BY <1>1 DEF SameIds, Shown
<1> QED BY <1>3, <1>4 DEF PanelStep

(* For an empty selection the table keeps the metrics of the frame.        *)
LEMMA TableZeroed ==
  ASSUME Types, AskTable PROVE PanelStep
<1>1. UNCHANGED collected
  BY DEF AskTable
<1>2. CASE UNCHANGED panel
  BY <1>1, <1>2, PanelsKept
<1>3. CASE panel' = [panel EXCEPT !["table"].shown = {a \in @ : a.sel = 0}]
  <2>1. panel \in [Panels -> Shown] /\ collected \in SUBSET Results
    BY DEF Types, InterfaceTypes
  <2>2. /\ DOMAIN panel' = Panels /\ panel' = [p \in Panels |-> panel'[p]]
        /\ \A p \in Panels : panel'[p] \in Shown /\ SameIds(panel'[p], panel[p])
        /\ \A p \in Panels : panel'[p].shown \subseteq panel[p].shown
    BY <1>3, <2>1 DEF Shown, SameIds
  <2>3. panel' \in [Panels -> Shown]
    BY <2>2
  <2> QED BY <1>1, <2>1, <2>2, <2>3 DEF PanelStep
<1> QED BY <1>2, <1>3 DEF AskTable

LEMMA PanelShows ==
  ASSUME Types, NEW p \in Panels, got \in Results, got.kind = p,
         NEW s, NEW e, NEW A,
         panel' = [panel EXCEPT ![p] = [sel |-> s, exp |-> e, shown |-> A]],
         A \subseteq panel[p].shown \cup {got},
         (s = panel[p].sel /\ e = panel[p].exp) \/ (s = got.sel /\ e = got.exp),
         UNCHANGED collected
  PROVE  PanelStep
<1>1. /\ panel \in [Panels -> Shown]
      /\ panel' = [x \in Panels |-> IF x = p THEN [sel |-> s, exp |-> e, shown |-> A]
                                    ELSE panel[x]]
  BY DEF Types, InterfaceTypes
<1>2. panel[p] \in Shown /\ panel[p].shown \subseteq Results
  BY <1>1 DEF Shown
<1>3. s \in 0..MaxSelections /\ e \in 0..MaxEdits /\ A \in SUBSET Results
  <2>1. got.sel \in 0..MaxSelections /\ got.exp \in 0..MaxEdits
    BY DEF Results
  <2>2. panel[p].sel \in 0..MaxSelections /\ panel[p].exp \in 0..MaxEdits
    BY <1>2 DEF Shown
  <2> QED BY <1>2, <2>1, <2>2
<1>4. [sel |-> s, exp |-> e, shown |-> A] \in Shown
  BY <1>3 DEF Shown
<1>5. panel' \in [Panels -> Shown]
  BY <1>1, <1>4
<1>6. \A x \in Panels : panel'[x].shown \subseteq panel[x].shown \cup From(x)
  BY <1>1 DEF From
<1>7. \A x \in Panels :
        SameIds(panel'[x], panel[x]) \/ (got.kind = x /\ SameIds(panel'[x], got))
  BY <1>1 DEF SameIds
<1> QED BY <1>5, <1>6, <1>7 DEF PanelStep

LEMMA KeptShown ==
  ASSUME NEW old, NEW same PROVE Kept(old, same) \subseteq old.shown
BY DEF Kept

LEMMA DeliverPanels ==
  ASSUME Types, Protocol,
         \/ OnRenderTarget \/ OnShaderAssembly \/ OnApi \/ ShowApi \/ OnBatch
         \/ OnUniform \/ OnState \/ OnTable \/ OnBars \/ OnShaderCompile
  PROVE  PanelStep
<1>1. CASE OnRenderTarget
  <2>1. "target" \in Panels /\ got \in Results /\ got.kind = "target"
    BY <1>1, Delivering DEF OnRenderTarget, AllPanels
  <2> DEFINE old == panel["target"]
             newer == got.sel > old.sel \/ got.exp > old.exp
             s == IF newer THEN got.sel ELSE old.sel
             e == IF newer THEN got.exp ELSE old.exp
             A == {got} \cup Kept(old, ~newer)
  <2>2. A \subseteq old.shown \cup {got}
    BY KeptShown
  <2>3. panel' = [panel EXCEPT !["target"] = [sel |-> s, exp |-> e, shown |-> A]]
    BY <1>1 DEF OnRenderTarget, Shows
  <2>4. (s = old.sel /\ e = old.exp) \/ (s = got.sel /\ e = got.exp)
    OBVIOUS
  <2>5. UNCHANGED collected
    BY <1>1 DEF OnRenderTarget
  <2> HIDE DEF A, s, e
  <2> QED BY <2>1, <2>2, <2>3, <2>4, <2>5, PanelShows
<1>2. CASE OnShaderAssembly
  <2>1. "shaders" \in Panels /\ got \in Results /\ got.kind = "shaders"
    BY <1>2, Delivering DEF OnShaderAssembly, AllPanels
  <2>2. UNCHANGED collected
    BY <1>2 DEF OnShaderAssembly
  <2>3. CASE UNCHANGED panel
    BY <2>2, <2>3, PanelsKept
  <2>4. CASE ~UNCHANGED panel
    <3> DEFINE A == {got} \cup Kept(panel["shaders"], got.sel = panel["shaders"].sel)
    <3>1. panel' = [panel EXCEPT !["shaders"] = [sel |-> got.sel, exp |-> got.exp, shown |-> A]]
      BY <1>2, <2>4 DEF OnShaderAssembly, Shows
    <3>2. A \subseteq panel["shaders"].shown \cup {got}
      BY KeptShown
    <3> HIDE DEF A
    <3> QED BY <2>1, <2>2, <3>1, <3>2, PanelShows
  <2> QED BY <2>3, <2>4
<1>3. CASE OnApi
  BY <1>3, PanelsKept DEF OnApi
<1>4. CASE ShowApi
  <2>1. "api" \in Panels /\ got \in Results /\ got.kind = "api"
    <3>1. got.kind = "api" /\ got.kind # "upload"
      BY <1>4, Delivering DEF ShowApi
    <3>2. "api" \in Panels
      BY <3>1, <1>4, Delivering DEF ShowApi, AllPanels
    <3> QED BY <1>4, <3>1, <3>2, Delivering DEF ShowApi
  <2>2. UNCHANGED collected
    BY <1>4 DEF ShowApi
  <2> DEFINE A == {got} \cup Kept(panel["api"], got.sel = panel["api"].sel)
  <2>3. panel' = [panel EXCEPT !["api"] = [sel |-> got.sel, exp |-> got.exp, shown |-> A]]
    BY <1>4 DEF ShowApi, Shows
  <2>4. A \subseteq panel["api"].shown \cup {got}
    BY KeptShown
  <2> HIDE DEF A
  <2> QED BY <2>1, <2>2, <2>3, <2>4, PanelShows
<1>5. CASE OnBatch
  <2>1. "batch" \in Panels /\ got \in Results /\ got.kind = "batch"
    BY <1>5, Delivering DEF OnBatch, AllPanels
  <2>2. UNCHANGED collected
    BY <1>5 DEF OnBatch
  <2>3. CASE UNCHANGED panel
    BY <2>2, <2>3, PanelsKept
  <2>4. CASE ~UNCHANGED panel
    <3> DEFINE A == {got} \cup Kept(panel["batch"],
                      got.sel = panel["batch"].sel /\ got.exp = panel["batch"].exp)
    <3>1. panel' = [panel EXCEPT !["batch"] = [sel |-> got.sel, exp |-> got.exp, shown |-> A]]
      BY <1>5, <2>4 DEF OnBatch, Shows
    <3>2. A \subseteq panel["batch"].shown \cup {got}
      BY KeptShown
    <3> HIDE DEF A
    <3> QED BY <2>1, <2>2, <3>1, <3>2, PanelShows
  <2> QED BY <2>3, <2>4
<1>7. CASE OnState
  <2>1. "state" \in Panels /\ got \in Results /\ got.kind = "state"
    BY <1>7, Delivering DEF OnState, AllPanels
  <2> DEFINE old == panel["state"]
             newer == got.sel > old.sel \/ got.exp > old.exp
             A == {got} \cup Kept(old, ~newer)
  <2>2. A \subseteq old.shown \cup {got}
    BY KeptShown
  <2>3. panel' = [panel EXCEPT !["state"] = [sel |-> got.sel, exp |-> got.exp, shown |-> A]]
    BY <1>7 DEF OnState, Shows
  <2>4. UNCHANGED collected
    BY <1>7 DEF OnState
  <2> HIDE DEF A
  <2> QED BY <2>1, <2>2, <2>3, <2>4, PanelShows
<1>8. ASSUME NEW p \in {"table", "bars"}, got.kind = p, pc = "deliver", UNCHANGED collected,
             panel' = [panel EXCEPT ![p].shown = Replacing(@, got)]
      PROVE  PanelStep
  <2>1. p \in Panels => got \in Results
    BY <1>8, Delivering
  <2>2. CASE p \notin Panels
    <3>1. panel' = panel
      BY <1>8, <2>2 DEF Types, InterfaceTypes
    <3> QED BY <1>8, <3>1, PanelsKept
  <2>3. CASE p \in Panels
    <3> DEFINE A == Replacing(panel[p].shown, got)
    <3>1. A \subseteq panel[p].shown \cup {got}
      BY DEF Replacing
    <3>2. panel[p] \in Shown
      BY <2>3 DEF Types, InterfaceTypes
    <3>3. [panel[p] EXCEPT !.shown = A] = [sel |-> panel[p].sel, exp |-> panel[p].exp, shown |-> A]
      BY <3>2 DEF Shown
    <3>4. panel' = [panel EXCEPT ![p] = [panel[p] EXCEPT !.shown = A]]
      BY <1>8
    <3> HIDE DEF A
    <3>5. panel' = [panel EXCEPT ![p] = [sel |-> panel[p].sel, exp |-> panel[p].exp, shown |-> A]]
      BY <3>3, <3>4
    <3>6. got \in Results /\ got.kind = p /\ UNCHANGED collected
          /\ panel[p].sel = panel[p].sel /\ panel[p].exp = panel[p].exp
      BY <1>8, <2>1, <2>3
    <3> QED BY <2>3, <3>1, <3>5, <3>6, PanelShows, Zenon
  <2> QED BY <2>2, <2>3
<1>9. CASE OnTable
  <2>1. CASE UNCHANGED panel
    BY <1>9, <2>1, PanelsKept DEF OnTable
  <2>2. CASE ~UNCHANGED panel
    BY <1>8, <1>9, <2>2 DEF OnTable
  <2> QED BY <2>1, <2>2
<1>10. CASE OnBars
  BY <1>8, <1>10 DEF OnBars
<1>11. CASE OnShaderCompile
  BY <1>11, PanelsKept, PanelEmptied DEF OnShaderCompile
<1>12. CASE OnUniform
  <2>1. "uniforms" \in Panels /\ got \in Results /\ got.kind \in {"uniforms", "end"}
        /\ (got.kind = "uniforms" => got.kind \in Panels)
    <3>1. got.kind \in {"uniforms", "end"} /\ Answering /\ Fits(got, req) /\ req.kind = "uniforms"
      BY <1>12, Delivering DEF OnUniform
    <3>2. "uniforms" \in Panels
      BY <3>1 DEF Fits, IsPart
    <3> QED BY <3>1, <3>2, <1>12, Delivering DEF OnUniform
  <2>2. panel["uniforms"] \in Shown /\ panel \in [Panels -> Shown] /\ collected \in SUBSET Results
    BY <2>1 DEF Types, InterfaceTypes
  <2>3. CASE got.kind = "end"
    <3>1. panel' = [panel EXCEPT !["uniforms"].shown = collected] /\ UNCHANGED collected
      BY <1>12, <2>3 DEF OnUniform
    <3>2. panel' = [x \in Panels |-> IF x = "uniforms" THEN [panel["uniforms"] EXCEPT !.shown = collected] ELSE panel[x]]
      BY <2>2, <3>1
    <3>3. [panel["uniforms"] EXCEPT !.shown = collected] \in Shown
      BY <2>2 DEF Shown
    <3>4. panel' \in [Panels -> Shown]
      BY <2>2, <3>2, <3>3
    <3>5. \A x \in Panels : SameIds(panel'[x], panel[x]) /\ panel'[x].shown \subseteq panel[x].shown \cup From(x)
      BY <2>2, <3>2 DEF SameIds, From, Shown
    <3> QED BY <3>1, <3>4, <3>5 DEF PanelStep
  <2>4. CASE got.kind = "uniforms"
    <3>1. panel' = [panel EXCEPT !["uniforms"].sel = got.sel, !["uniforms"].exp = got.exp]
          /\ collected' = collected \cup {got}
      BY <1>12, <2>4 DEF OnUniform
    <3>2. panel' = [x \in Panels |-> IF x = "uniforms"
                      THEN [panel["uniforms"] EXCEPT !.sel = got.sel, !.exp = got.exp] ELSE panel[x]]
      BY <2>2, <3>1
    <3>3. [panel["uniforms"] EXCEPT !.sel = got.sel, !.exp = got.exp] \in Shown
      BY <2>1, <2>2 DEF Shown, Results
    <3>4. panel' \in [Panels -> Shown]
      BY <2>2, <3>2, <3>3
    <3>5. \A x \in Panels : /\ SameIds(panel'[x], panel[x]) \/ (got.kind = x /\ SameIds(panel'[x], got))
                            /\ panel'[x].shown \subseteq panel[x].shown \cup From(x)
      BY <2>2, <2>4, <3>2 DEF SameIds, From, Shown
    <3> QED BY <2>4, <3>1, <3>4, <3>5 DEF PanelStep
  <2> QED BY <2>1, <2>3, <2>4
<1> QED BY <1>1, <1>2, <1>3, <1>4, <1>5, <1>7, <1>9, <1>10, <1>11, <1>12

-----------------------------------------------------------------------------
(* The socket.                                                             *)

LEMMA ProtocolKept ==
  ASSUME Protocol, UNCHANGED <<pc, req, got, up, down, daemon>>
  PROVE  Protocol'
BY DEF Protocol, Waiting, Sent, Uploading, Answering, Forgotten, Resting,
       RestOfAnswer, Changing

LEMMA DropProtocol ==
  ASSUME Types, Protocol, Drop PROVE Protocol'
<1>1. Resting /\ pc = "idle" /\ daemon = "serving"
  BY DEF Drop, Protocol, Waiting, Resting
<1>2. pc' \in {"idle", "ended"} /\ UNCHANGED <<got, up, down, daemon>>
  BY DEF Drop, far, Looped
<1> QED BY <1>1, <1>2 DEF Protocol, Waiting, Resting, Changing

LEMMA SendProtocol ==
  ASSUME Types, Protocol, Send PROVE Protocol'
<1>1. Resting /\ pc = "idle" /\ daemon = "serving" /\ down = << >> /\ got = Nothing /\ Changing(up)
  BY DEF Send, Protocol, Waiting, Resting
<1> DEFINE r == Head(queue)
<1>2. /\ r \in RequestsOf(Kinds) /\ r \in RequestsOf(Kinds \cup {"data"})
      /\ up \in Seq(RequestsOf(Kinds \cup {"data"}))
  <2>1. queue \in Seq(RequestsOf(Kinds)) /\ queue # << >>
        /\ up \in Seq(RequestsOf(Kinds \cup {"data"}))
    BY DEF Send, Types, StubTypes, DaemonTypes
  <2>2. r \in RequestsOf(Kinds)
    BY <2>1, TailFacts
  <2>3. RequestsOf(Kinds) \subseteq RequestsOf(Kinds \cup {"data"})
    BY DEF RequestsOf
  <2> QED BY <2>1, <2>2, <2>3
<1>3. /\ r.kind # "null" /\ req' = r /\ up' = Append(up, r) /\ UNCHANGED <<got, down, daemon>>
      /\ pc' = IF r.kind = "change" THEN Looped(running) ELSE "read"
  BY DEF Send
<1>4. /\ Len(up) \in Nat /\ up' # << >> /\ Len(up') = Len(up) + 1 /\ up'[Len(up')] = r
      /\ DOMAIN up' = 1..(Len(up) + 1) /\ \A i \in 1..Len(up) : up'[i].kind = "change"
  <2>1. \A i \in 1..Len(up) : Append(up, r)[i] = up[i] /\ i \in DOMAIN up
    BY <1>2, AppendFacts
  <2> QED BY <1>1, <1>2, <1>3, <2>1, AppendFacts DEF Changing
<1> HIDE DEF r
<1>5. CASE r.kind = "change"
  <2>1. Changing(up') /\ pc' \in {"idle", "ended"}
    BY <1>3, <1>4, <1>5 DEF Changing, Looped
  <2> QED BY <1>1, <1>3, <2>1 DEF Protocol, Waiting, Resting
<1>6. CASE r.kind # "change"
  <2>1. r.kind \in Panels \cup {"open", "compile"}
    BY <1>2, <1>3, <1>6 DEF RequestsOf, Kinds
  <2>2. Sent'
    BY <1>1, <1>3, <1>4, <1>6, <2>1 DEF Sent
  <2> QED BY <1>3, <1>6, <2>2 DEF Protocol, Waiting
<1> QED BY <1>5, <1>6

LEMMA RestOfTail ==
  ASSUME down \in Seq(Messages), down # << >>, RestOfAnswer(down)
  PROVE  /\ RestOfAnswer(Tail(down)) /\ Fits(Head(down), req)
         /\ Head(down) \in Messages
         /\ Ends(Head(down)) <=> Tail(down) = << >>
         /\ Tail(down) # << >> => Tail(down)[Len(Tail(down))] = down[Len(down)]
         /\ Tail(down) = << >> => Head(down) = down[Len(down)]
<1>1. /\ Len(down) \in Nat \ {0} /\ Head(down) = down[1] /\ 1 \in DOMAIN down
      /\ Len(Tail(down)) = Len(down) - 1 /\ DOMAIN Tail(down) = 1..(Len(down) - 1)
      /\ \A i \in 1..(Len(down) - 1) : Tail(down)[i] = down[i + 1] /\ i + 1 \in DOMAIN down
      /\ Tail(down) \in Seq(Messages) /\ Head(down) \in Messages
  BY TailFacts
<1>2. RestOfAnswer(Tail(down))
  BY <1>1 DEF RestOfAnswer
<1>3. Fits(Head(down), req) /\ (Ends(Head(down)) <=> 1 = Len(down))
  BY <1>1 DEF RestOfAnswer
<1> DEFINE rest == Tail(down)
<1>4. rest = << >> <=> Len(down) = 1
  <2>1. rest \in Seq(Messages) /\ Len(rest) = Len(down) - 1
    BY <1>1
  <2> HIDE DEF rest
  <2> QED BY <2>1, <1>1
<1>5. rest # << >> => rest[Len(rest)] = down[Len(down)]
  BY <1>1, <1>4
<1> QED BY <1>1, <1>2, <1>3, <1>4, <1>5

(* Reading a message: who waits for it, and what is left.                  *)
LEMMA Reading ==
  ASSUME Types, Protocol, pc = "read", down # << >>
  PROVE  \/ Uploading /\ down = <<Message("upload")>>
         \/ Answering /\ RestOfAnswer(down)
BY DEF Protocol, Waiting, Sent, Uploading, Answering, Forgotten

LEMMA LabelledFits ==
  ASSUME Types, NEW a \in Messages, Fits(a, req)
  PROVE  Fits(Labelled(a), req) /\ Labelled(a).kind = a.kind
         /\ (Ends(Labelled(a)) <=> Ends(a))
<1>1. CASE a.kind # "target"
  BY <1>1 DEF Labelled
<1>2. CASE a.kind = "target"
  <2>1. IsPart(a, req)
    BY <1>2, Apart DEF Fits, Plain
  <2>2. a \in Results
    BY <1>2, <2>1, KindsApart DEF Messages, IsPart
  <2>3. /\ Labelled(a).kind = "target" /\ Labelled(a).of = a.of /\ Labelled(a).part = a.part
    BY <1>2, <2>2 DEF Labelled, Results
  <2>4. req.kind = "target"
    BY <1>2, <2>1 DEF IsPart
  <2>5. IsPart(Labelled(a), req)
    BY <1>2, <2>1, <2>3, <2>4 DEF IsPart
  <2> QED BY <1>2, <2>3, <2>5 DEF Fits, Ends
<1> QED BY <1>1, <1>2

LEMMA ReadProtocol ==
  ASSUME Types, Protocol, Read PROVE Protocol'
<1> DEFINE a == Head(down)
           heard == StillCurrent(a) /\ (a.kind # "warning" \/ req.kind = "open")
<1>1. /\ pc = "read" /\ down # << >> /\ a.kind # "end" /\ down' = Tail(down)
      /\ UNCHANGED <<req, up, daemon>>
      /\ got' = (IF heard THEN Labelled(a) ELSE Nothing)
      /\ pc' = (IF heard THEN "deliver" ELSE "read")
  BY DEF Read, Skipped
<1>2. CASE Uploading /\ down = <<Message("upload")>>
  <2>1. a = Message("upload") /\ Tail(down) = << >>
    BY <1>2
  <2>2. a.kind = "upload"
    BY <2>1 DEF Message
  <2>3. heard /\ Labelled(a) = a
    BY <2>2 DEF StillCurrent, Labelled
  <2>4. Uploading'
    BY <1>1, <1>2, <2>1, <2>3 DEF Uploading
  <2> QED BY <1>1, <2>3, <2>4 DEF Protocol, Waiting
<1>3. CASE Answering /\ RestOfAnswer(down)
  <2>1. /\ RestOfAnswer(down') /\ Fits(a, req) /\ a \in Messages
        /\ Ends(a) <=> down' = << >>
        /\ down' # << >> => down'[Len(down')] = down[Len(down)]
        /\ down' = << >> => a = down[Len(down)]
    BY <1>1, <1>3, RestOfTail DEF Types, DaemonTypes
  <2>2. RestOfAnswer(down)'
    BY <1>1, <2>1 DEF RestOfAnswer
  <2>3. up = << >> /\ daemon # "receiving"
        /\ (daemon = "fatal" => down[Len(down)].kind = "fatal")
    BY <1>1, <1>3 DEF Answering
  <2>4. /\ Fits(Labelled(a), req) /\ Labelled(a).kind = a.kind /\ (Ends(Labelled(a)) <=> Ends(a))
    BY <2>1, LabelledFits
  <2>5. Ends(a) => heard
    BY <1>1 DEF Ends, StillCurrent
  <2> HIDE DEF a
  <2>6. CASE heard
    <3>1. Labelled(a) # Nothing
      BY <2>4, Apart DEF Nothing, Fits, IsPart, Plain
    <3>2. a.kind = "warning" => req.kind = "open"
      BY <2>6
    <3>3. Answering'
      <4> HIDE DEF heard
      <4> QED BY <1>1, <2>1, <2>2, <2>3, <2>4, <2>6, <3>1, <3>2 DEF Answering, Fits
    <3> QED BY <1>1, <2>6, <3>3 DEF Protocol, Waiting
  <2>7. CASE ~heard
    <3>1. Answering'
      <4>1. down' # << >>
        BY <2>1, <2>5, <2>7
      <4> HIDE DEF heard
      <4> QED BY <1>1, <2>1, <2>2, <2>3, <2>7, <4>1 DEF Answering
    <3> QED BY <1>1, <2>7, <3>1 DEF Protocol, Waiting
  <2> QED BY <2>6, <2>7
<1> QED BY <1>1, <1>2, <1>3, Reading

LEMMA ReadEndProtocol ==
  ASSUME Types, Protocol, ReadEnd PROVE Protocol'
<1> DEFINE a == Head(down)
<1>1. /\ pc = "read" /\ down # << >> /\ a.kind = "end" /\ down' = Tail(down)
      /\ UNCHANGED <<req, up, daemon>>
  BY DEF ReadEnd
<1>2. ~(Uploading /\ down = <<Message("upload")>>)
  BY <1>1 DEF Message
<1>3. Answering /\ RestOfAnswer(down)
  BY <1>1, <1>2, Reading
<1>4. Ends(a)
  BY <1>1 DEF Ends
<1>5. down' = << >> /\ a = down[Len(down)] /\ Fits(a, req) /\ a \in Messages
  BY <1>1, <1>3, <1>4, RestOfTail DEF Types, DaemonTypes
<1>6. IsPart(a, req) /\ a \in Results
  BY <1>1, <1>5, KindsApart DEF Fits, Messages
<1>7. up = << >> /\ daemon # "receiving" /\ daemon # "fatal"
  BY <1>1, <1>3, <1>5 DEF Answering
<1>8. RestOfAnswer(down)'
  BY <1>5 DEF RestOfAnswer
<1>9. daemon = "serving"
  BY <1>7 DEF Types, DaemonTypes
<1> HIDE DEF a
<1>10. CASE req.kind = "uniforms"
  <2>1. got' = a /\ pc' = "deliver"
    BY <1>10 DEF ReadEnd, a
  <2>2. Answering'
    <3>1. a # Nothing
      BY <1>1, KindsApart
    <3> QED BY <1>1, <1>4, <1>5, <1>7, <1>8, <1>10, <2>1, <3>1 DEF Answering, Fits, Ends, IsPart
  <2> QED BY <2>1, <2>2 DEF Protocol, Waiting
<1>11. CASE req.kind = "target" /\ ~success
  <2> DEFINE b == [a EXCEPT !.kind = "target"]
  <2>1. got' = Labelled(b) /\ pc' = "deliver"
    BY <1>11 DEF ReadEnd, a
  <2>2. b.kind = "target" /\ b.of = req /\ b.part = 0 /\ b \in Messages
    <3>1. "target" \in Panels
      BY <1>6, <1>11 DEF IsPart
    <3> QED BY <1>1, <1>6, <1>11, <3>1 DEF IsPart, Results, Messages
  <2>3. Fits(b, req) /\ Ends(b)
    BY <1>6, <1>11, <2>2 DEF Fits, IsPart, Ends
  <2> HIDE DEF b
  <2>4. Fits(Labelled(b), req) /\ Labelled(b).kind = "target" /\ Ends(Labelled(b))
    BY <2>2, <2>3, LabelledFits
  <2>5. Labelled(b) # Nothing
    BY <2>4 DEF Nothing
  <2>6. Answering'
    BY <1>1, <1>5, <1>7, <1>8, <2>1, <2>4, <2>5 DEF Answering, Fits, Ends, IsPart
  <2> QED BY <2>1, <2>6 DEF Protocol, Waiting
<1>12. CASE ~(req.kind = "uniforms") /\ ~(req.kind = "target" /\ ~success)
  <2>1. got' = Nothing /\ pc' \in {"idle", "ended"}
    BY <1>12 DEF ReadEnd, Looped
  <2>2. Resting'
    BY <1>1, <1>5, <1>7, <1>9, <2>1 DEF Resting, Changing
  <2> QED BY <2>1, <2>2 DEF Protocol, Waiting
<1> QED BY <1>10, <1>11, <1>12

(* A delivery goes on to the next message unless this was the last.        *)
LEMMA DeliveredProtocol ==
  ASSUME Types, Protocol, pc \in {"deliver", "show"}, got.kind # "upload",
         UNCHANGED <<req, up, down, daemon>>, got' = Nothing,
         IF Ends(got) THEN pc' = "ended" \/ (pc' = "idle" /\ got.kind # "fatal")
                      ELSE pc' = "read"
  PROVE  Protocol'
<1>1. Answering /\ got # Nothing
  BY Delivering DEF Answering
<1>2. /\ up = << >> /\ daemon # "receiving" /\ RestOfAnswer(down)
      /\ Ends(got) <=> down = << >>
      /\ daemon = "fatal" =>
           IF down = << >> THEN got.kind = "fatal" ELSE down[Len(down)].kind = "fatal"
  BY <1>1 DEF Answering
<1>3. RestOfAnswer(down)'
  BY <1>2 DEF RestOfAnswer
<1>4. CASE Ends(got)
  <2>1. Resting'
    BY <1>2, <1>4 DEF Resting, Changing, Types, DaemonTypes
  <2> QED BY <1>4, <2>1 DEF Protocol, Waiting
<1>5. CASE ~Ends(got)
  <2>1. Answering'
    BY <1>2, <1>3, <1>5 DEF Answering
  <2> QED BY <1>5, <2>1 DEF Protocol, Waiting
<1> QED BY <1>4, <1>5

LEMMA DeliverProtocol ==
  ASSUME Types, Protocol,
         \/ OnRenderTarget \/ OnShaderAssembly \/ ShowApi \/ OnBatch \/ OnUniform
         \/ OnState \/ OnTable \/ OnBars \/ OnShaderCompile \/ OnMetricList
         \/ OnOpened \/ OnError
  PROVE  Protocol'
<1>1. pc \in {"deliver", "show"} /\ UNCHANGED <<up, down, daemon>>
  BY DEF OnRenderTarget, OnShaderAssembly, ShowApi, OnBatch, OnUniform, OnState,
         OnTable, OnBars, OnShaderCompile, OnMetricList, OnOpened, OnError, Delivered, far
<1>2. req' = req /\ got' = Nothing
  BY DEF OnRenderTarget, OnShaderAssembly, ShowApi, OnBatch, OnUniform, OnState,
         OnTable, OnBars, OnShaderCompile, OnMetricList, OnOpened, OnError, Delivered,
         Looped
<1>3. got.kind # "upload"
  BY Delivering DEF OnRenderTarget, OnShaderAssembly, ShowApi, OnBatch, OnUniform, OnState,
         OnTable, OnBars, OnShaderCompile, OnMetricList, OnOpened, OnError, Delivered,
         Uploading
<1>4. IF Ends(got) THEN pc' = "ended" \/ (pc' = "idle" /\ got.kind # "fatal")
                   ELSE pc' = "read"
  <2>1. CASE OnRenderTarget
    BY <2>1 DEF OnRenderTarget, Delivered, Ends, Looped
  <2>2. CASE OnShaderAssembly \/ OnBatch \/ OnState \/ OnTable \/ OnBars \/ OnMetricList
    BY <2>2 DEF OnShaderAssembly, OnBatch, OnState, OnTable, OnBars, OnMetricList, Delivered, Ends
  <2>3. CASE ShowApi
    <3>1. got.kind = "api"
      BY <2>3, Delivering DEF ShowApi
    <3> QED BY <2>3, <3>1 DEF ShowApi, Delivered, Ends
  <2>4. CASE OnUniform
    <3>1. got.kind \in {"uniforms", "end"}
      BY <2>4, Delivering DEF OnUniform
    <3> QED BY <2>4, <3>1 DEF OnUniform, Delivered, Ends, Looped
  <2>5. CASE OnShaderCompile \/ OnOpened \/ OnError
    BY <2>5 DEF OnShaderCompile, OnOpened, OnError, Delivered, Ends, Looped
  <2> QED BY <2>1, <2>2, <2>3, <2>4, <2>5
<1> QED BY <1>1, <1>2, <1>3, <1>4, DeliveredProtocol

LEMMA OnApiProtocol ==
  ASSUME Types, Protocol, OnApi
  PROVE  Protocol'
<1>1. pc = "deliver" /\ got.kind = "api" /\ got.kind # "upload" /\ UNCHANGED <<req, up, down, daemon>>
  BY DEF OnApi, Delivered, far
<1>2. CASE got.sel = sel
  <2>1. pc' = "show" /\ got' = got
    BY <1>2 DEF OnApi, Delivered
  <2>2. Answering
    BY <1>1, Delivering
  <2>3. Answering'
    BY <1>1, <2>1, <2>2 DEF Answering, RestOfAnswer
  <2> QED BY <2>1, <2>3 DEF Protocol, Waiting
<1>3. CASE got.sel # sel
  <2>1. pc' = "read" /\ got' = Nothing
    BY <1>3 DEF OnApi, Delivered
  <2>2. ~Ends(got)
    BY <1>1 DEF Ends
  <2> QED BY <1>1, <2>1, <2>2, DeliveredProtocol
<1> QED BY <1>2, <1>3

LEMMA OnUploadProtocol ==
  ASSUME Types, Protocol, OnUpload
  PROVE  Protocol'
<1>1. pc = "deliver" /\ got.kind = "upload"
  BY DEF OnUpload
<1>2. Uploading
  BY <1>1, Delivering
<1>3. req.kind = "open" /\ daemon = "receiving" /\ up = << >> /\ down = << >>
  BY <1>1, <1>2 DEF Uploading
<1>4. /\ up' = Append(up, [req EXCEPT !.kind = "data"]) /\ pc' = "read" /\ got' = Nothing
      /\ UNCHANGED <<req, down, daemon>>
  BY DEF OnUpload
<1>5. Len(up') = 1 /\ up'[1].kind = "data"
  <2> DEFINE data == [req EXCEPT !.kind = "data"]
  <2>1. data.kind = "data"
    BY DEF Types, StubTypes, RequestsOf
  <2>2. up' = Append(<< >>, data)
    BY <1>3, <1>4
  <2> HIDE DEF data
  <2> QED BY <2>1, <2>2
<1>6. Uploading'
  BY <1>3, <1>4, <1>5 DEF Uploading
<1> QED BY <1>4, <1>6 DEF Protocol, Waiting

(* The daemon.  A request that is answered is the last one sent.           *)
LEMMA FirstOut ==
  ASSUME Types, Protocol, daemon = "serving", up # << >>, Head(up).kind # "change"
  PROVE  /\ Sent /\ Len(up) = 1 /\ Head(up) = req /\ Tail(up) = << >> /\ Waiting
<1>1. Len(up) \in Nat \ {0} /\ DOMAIN up = 1..Len(up) /\ Head(up) = up[1]
  BY DEF Types, DaemonTypes
<1>2. ~Changing(up)
  BY <1>1 DEF Changing
<1>3. Sent
  BY <1>2 DEF Protocol, Resting, Uploading, Answering, Forgotten
<1>4. Len(up) = 1
  BY <1>1, <1>3 DEF Sent
<1>5. Head(up) = req
  BY <1>1, <1>3, <1>4 DEF Sent
<1>6. Tail(up) = << >>
  <2> DEFINE rest == Tail(up)
  <2>1. rest \in Seq(RequestsOf(Kinds \cup {"data"})) /\ Len(rest) = Len(up) - 1
    BY TailFacts DEF Types, DaemonTypes
  <2> HIDE DEF rest
  <2>2. rest = << >>
    BY <1>4, <2>1
  <2> QED BY <2>2 DEF rest
<1> QED BY <1>3, <1>4, <1>5, <1>6 DEF Sent, Waiting

LEMMA MakeChangeProtocol ==
  ASSUME Types, Protocol, MakeChange
  PROVE  Protocol'
<1>1. /\ daemon = "serving" /\ up # << >> /\ Head(up).kind = "change" /\ up' = Tail(up)
      /\ UNCHANGED <<pc, req, got, down, daemon>>
  BY DEF MakeChange, stub
<1>2. /\ Len(up) \in Nat \ {0} /\ Head(up) = up[1] /\ Len(up') = Len(up) - 1
      /\ DOMAIN up = 1..Len(up) /\ DOMAIN up' = 1..(Len(up) - 1)
      /\ \A i \in 1..(Len(up) - 1) : up'[i] = up[i + 1]
  BY <1>1, TailFacts DEF Types, DaemonTypes
<1>3. CASE ~Waiting
  <2>1. Resting
    BY <1>3 DEF Protocol
  <2>2. Changing(up)'
    <3>1. \A i \in DOMAIN up' : i + 1 \in DOMAIN up /\ up'[i] = up[i + 1]
      BY <1>2
    <3>2. \A i \in DOMAIN up : up[i].kind = "change"
      BY <2>1 DEF Resting, Changing
    <3>3. \A i \in DOMAIN up' : up'[i].kind = "change"
      BY <3>1, <3>2
    <3> QED BY <3>3 DEF Changing
  <2> QED BY <1>1, <1>3, <2>1, <2>2 DEF Protocol, Resting, Waiting
<1>4. CASE Waiting
  <2>1. Sent
    BY <1>1, <1>4 DEF Protocol, Uploading, Answering, Forgotten
  <2>2. Len(up) > 1
    BY <1>1, <1>2, <2>1, Apart DEF Sent
  <2>3. Len(up') \in Nat \ {0} /\ up'[Len(up')] = up[Len(up)]
    BY <1>2, <2>2
  <2>4. \A i \in 1..(Len(up') - 1) : up'[i].kind = "change"
    BY <1>2, <2>1 DEF Sent
  <2>5. up' # << >>
    <3>1. up' = << >> => Len(up') = 0
      OBVIOUS
    <3> QED BY <2>3, <3>1
  <2>6. Sent'
    BY <1>1, <2>1, <2>3, <2>4, <2>5 DEF Sent
  <2> QED BY <1>1, <1>4, <2>6 DEF Protocol, Waiting
<1> QED BY <1>3, <1>4

LEMMA ReplaceShadersProtocol ==
  ASSUME Types, Protocol, ReplaceShaders
  PROVE  Protocol'
<1>1. /\ daemon = "serving" /\ up # << >> /\ Head(up).kind = "compile" /\ up' = Tail(up)
      /\ UNCHANGED <<pc, req, got, daemon>>
  BY DEF ReplaceShaders, stub
<1>2. Sent /\ Head(up) = req /\ up' = << >> /\ Waiting
  BY <1>1, FirstOut
<1>3. pc = "read" /\ got = Nothing /\ down = << >> /\ req.kind = "compile"
  BY <1>1, <1>2 DEF Sent
<1>4. PICK outcome \in IF req.ctx = 1 THEN {"compiled", "failed"} ELSE {"none"} :
        down' = IF outcome = "none" THEN down ELSE Append(down, Message(outcome))
  BY <1>2 DEF ReplaceShaders
<1>5. CASE req.ctx = 1
  <2> DEFINE m == Message(outcome)
  <2>1. down' = <<m>> /\ outcome \in {"compiled", "failed"}
    BY <1>3, <1>4, <1>5
  <2>2. m.kind = outcome
    BY DEF Message
  <2>3. Fits(m, req) /\ Ends(m)
    BY <1>3, <2>1, <2>2 DEF Fits, Ends
  <2> HIDE DEF m
  <2>4. down' # << >> /\ RestOfAnswer(down)'
    BY <1>1, <2>1, <2>3 DEF RestOfAnswer
  <2>5. Answering'
    BY <1>1, <1>2, <1>3, <2>4 DEF Answering
  <2> QED BY <1>1, <1>3, <2>5 DEF Protocol, Waiting
<1>6. CASE req.ctx # 1
  <2>1. Forgotten'
    BY <1>1, <1>2, <1>3, <1>4, <1>6 DEF Forgotten
  <2> QED BY <1>1, <1>3, <2>1 DEF Protocol, Waiting
<1> QED BY <1>5, <1>6

LEMMA TuplesConcat ==
  ASSUME NEW a, NEW b
  PROVE  <<a>> \o <<b>> = <<a, b>>
<1> DEFINE T == {a, b}
<1>1. <<a>> \in Seq(T) /\ <<b>> \in Seq(T) /\ <<a, b>> \in Seq(T)
  OBVIOUS
<1>2. <<a>> \o <<b>> \in Seq(T) /\ Len(<<a>> \o <<b>>) = 2
  BY <1>1, ConcatProperties
<1>3. (<<a>> \o <<b>>)[1] = a /\ (<<a>> \o <<b>>)[2] = b
  BY <1>1, ConcatProperties
<1>4. \A i \in 1..2 : (<<a>> \o <<b>>)[i] = <<a, b>>[i]
  BY <1>3
<1> QED BY <1>1, <1>2, <1>4, SeqEqual

(* Messages that end nothing, and after them the rest of an answer.        *)
LEMMA AnswerLonger ==
  ASSUME NEW M, NEW s \in Seq(M), NEW t \in Seq(M), t # << >>,
         \A i \in DOMAIN s : Fits(s[i], req) /\ ~Ends(s[i]), RestOfAnswer(t)
  PROVE  s \o t \in Seq(M) /\ s \o t # << >> /\ RestOfAnswer(s \o t)
         /\ (s \o t)[Len(s \o t)] = t[Len(t)]
<1> DEFINE d == s \o t
<1>1. /\ d \in Seq(M) /\ Len(d) = Len(s) + Len(t)
      /\ \A i \in 1..(Len(s) + Len(t)) : d[i] = IF i <= Len(s) THEN s[i] ELSE t[i - Len(s)]
  BY ConcatProperties
<1>2. Len(s) \in Nat /\ Len(t) \in Nat /\ Len(t) > 0
  OBVIOUS
<1>3. ASSUME NEW i \in 1..(Len(s) + Len(t))
      PROVE  Fits(d[i], req) /\ (Ends(d[i]) <=> i = Len(s) + Len(t))
  <2>1. CASE i <= Len(s)
    <3>1. d[i] = s[i] /\ i \in DOMAIN s /\ i # Len(s) + Len(t)
      BY <1>1, <1>2, <2>1
    <3> QED BY <3>1
  <2>2. CASE i > Len(s)
    <3> DEFINE j == i - Len(s)
    <3>1. d[i] = t[j] /\ j \in DOMAIN t /\ (j = Len(t) <=> i = Len(s) + Len(t))
      BY <1>1, <1>2, <2>2
    <3> QED BY <3>1 DEF RestOfAnswer
  <2> QED BY <1>2, <2>1, <2>2
<1>4. d[Len(s) + Len(t)] = t[Len(t)]
  BY <1>1, <1>2
<1>5. DOMAIN d = 1..(Len(s) + Len(t)) /\ d # << >>
  BY <1>1, <1>2
<1> QED BY <1>1, <1>3, <1>4, <1>5 DEF RestOfAnswer

LEMMA PlayAnswers ==
  ASSUME req.kind = "open", Play(<< >>), UNCHANGED req
  PROVE  /\ down' # << >> /\ down' \in Seq([kind : Plain]) /\ RestOfAnswer(down)'
         /\ daemon' \in {"serving", "fatal"}
         /\ daemon' = "fatal" => down'[Len(down')].kind = "fatal"
<1> DEFINE w == Message("warning")
           f == Message("fatal")
           l == Message("list")
           o == Message("opened")
<1>1. PICK warnings \in {<< >>, <<w>>, <<w, w>>}, fatal \in BOOLEAN :
        /\ down' = << >> \o warnings \o
                   (IF fatal THEN <<f>>
                    ELSE (IF "table" \in Panels THEN <<l>> ELSE << >>) \o <<o>>)
        /\ daemon' = IF fatal THEN "fatal" ELSE "serving"
  BY DEF Play
<1>2. /\ w \in [kind : Plain] /\ f \in [kind : Plain] /\ l \in [kind : Plain] /\ o \in [kind : Plain]
      /\ Fits(w, req) /\ Fits(f, req) /\ ("table" \in Panels => Fits(l, req)) /\ Fits(o, req)
      /\ ~Ends(w) /\ Ends(f) /\ ~Ends(l) /\ Ends(o) /\ f.kind = "fatal"
  BY DEF Message, Plain, Fits, Ends
<1> HIDE DEF w, f, l, o
<1> DEFINE rest == IF fatal THEN <<f>> ELSE IF "table" \in Panels THEN <<l, o>> ELSE <<o>>
<1>3. /\ rest \in Seq([kind : Plain]) /\ rest # << >> /\ RestOfAnswer(rest)
      /\ fatal => rest[Len(rest)] = f
  <2>1. CASE fatal
    <3>1. rest = <<f>>
      BY <2>1
    <3> HIDE DEF rest
    <3> QED BY <1>2, <3>1 DEF RestOfAnswer
  <2>3. CASE ~fatal /\ "table" \notin Panels
    <3>1. rest = <<o>>
      BY <2>3
    <3> HIDE DEF rest
    <3> QED BY <1>2, <2>3, <3>1 DEF RestOfAnswer
  <2>2. CASE ~fatal /\ "table" \in Panels
    <3>1. rest = <<l, o>>
      BY <2>2
    <3> HIDE DEF rest
    <3> QED BY <1>2, <2>2, <3>1 DEF RestOfAnswer
  <2> QED BY <2>1, <2>2, <2>3
<1>4. /\ warnings \in Seq([kind : Plain]) /\ << >> \o warnings = warnings
      /\ \A i \in DOMAIN warnings : Fits(warnings[i], req) /\ ~Ends(warnings[i])
  <2>1. \A i \in DOMAIN warnings : warnings[i] = w
    OBVIOUS
  <2>2. warnings \in Seq([kind : Plain])
    <3>1. w \in [kind : Plain]
      BY <1>2
    <3> HIDE DEF w
    <3>2. << >> \in Seq([kind : Plain]) /\ <<w>> \in Seq([kind : Plain])
          /\ <<w, w>> \in Seq([kind : Plain])
      BY <3>1
    <3> QED BY <3>2
  <2> QED BY <1>2, <2>1, <2>2
<1>5. down' = warnings \o rest
  <2>1. << >> \o <<o>> = <<o>> /\ <<l>> \o <<o>> = <<l, o>>
    BY TuplesConcat
  <2> QED BY <1>1, <1>4, <2>1
<1> HIDE DEF rest
<1>6. /\ down' \in Seq([kind : Plain]) /\ down' # << >> /\ RestOfAnswer(down')
      /\ fatal => down'[Len(down')] = f
  BY <1>3, <1>4, <1>5, AnswerLonger
<1> QED BY <1>1, <1>2, <1>6 DEF RestOfAnswer

LEMMA PlayProtocol ==
  ASSUME Types, Protocol, Waiting, req.kind = "open", Play(<< >>), up' = << >>,
         pc = "read", got = Nothing, UNCHANGED <<pc, req, got>>
  PROVE  Protocol'
<1>1. /\ down' # << >> /\ RestOfAnswer(down)' /\ daemon' \in {"serving", "fatal"}
      /\ daemon' = "fatal" => down'[Len(down')].kind = "fatal"
  BY PlayAnswers
<1>2. Answering'
  BY <1>1 DEF Answering
<1> QED BY <1>2 DEF Protocol, Waiting

LEMMA OpenFileProtocol ==
  ASSUME Types, Protocol, OpenFile PROVE Protocol'
<1>1. /\ daemon = "serving" /\ up # << >> /\ Head(up).kind = "open" /\ up' = Tail(up)
      /\ UNCHANGED <<pc, req, got>>
  BY DEF OpenFile, stub
<1>2. Sent /\ Head(up) = req /\ up' = << >> /\ Waiting
  BY <1>1, FirstOut
<1>3. pc = "read" /\ got = Nothing /\ down = << >> /\ req.kind = "open"
  BY <1>1, <1>2 DEF Sent
<1>4. CASE Play(down)
  BY <1>1, <1>2, <1>3, <1>4, PlayProtocol
<1>5. CASE daemon' = "receiving" /\ down' = Append(down, Message("upload"))
  <2>1. down' = <<Message("upload")>>
    BY <1>3, <1>5
  <2>2. Uploading'
    BY <1>1, <1>2, <1>3, <1>5, <2>1 DEF Uploading
  <2> QED BY <1>1, <1>3, <2>2 DEF Protocol, Waiting
<1> QED BY <1>4, <1>5 DEF OpenFile

LEMMA ReceiveFileProtocol ==
  ASSUME Types, Protocol, ReceiveFile PROVE Protocol'
<1>1. daemon = "receiving" /\ up # << >> /\ up' = Tail(up) /\ Play(down) /\ UNCHANGED <<pc, req, got>>
  BY DEF ReceiveFile, stub
<1>2. Uploading /\ Waiting
  BY <1>1 DEF Protocol, Resting, Sent, Answering, Forgotten
<1>3. pc = "read" /\ got = Nothing /\ down = << >> /\ Len(up) = 1 /\ req.kind = "open"
  BY <1>1, <1>2 DEF Uploading
<1>4. up' = << >>
  <2> DEFINE rest == Tail(up)
  <2>1. rest \in Seq(RequestsOf(Kinds \cup {"data"})) /\ Len(rest) = Len(up) - 1
    BY <1>1, TailFacts DEF Types, DaemonTypes
  <2> HIDE DEF rest
  <2>2. rest = << >>
    BY <1>3, <2>1
  <2> QED BY <1>1, <2>2 DEF rest
<1> QED BY <1>1, <1>2, <1>3, <1>4, PlayProtocol

(* An answer is its parts and the message that ends it.                    *)
LEMMA AnswersParts ==
  ASSUME Types, NEW r \in RequestsOf(Panels), NEW n \in 0..Parts[r.kind]
  PROVE  /\ Answers(r, n) \in Seq(Results) /\ Len(Answers(r, n)) = n + 1
         /\ \A i \in 1..(n + 1) :
              /\ IsPart(Answers(r, n)[i], r) /\ (Ends(Answers(r, n)[i]) <=> i = n + 1)
              /\ Answers(r, n)[i].made = applied /\ Answers(r, n)[i].of = r
              /\ Answers(r, n)[i].sel = r.sel /\ Answers(r, n)[i].exp = r.exp
              /\ i <= n => Answers(r, n)[i].kind = r.kind /\ Answers(r, n)[i].part = i
              /\ i = n + 1 => Answers(r, n)[i].kind = "end"
<1> DEFINE Part(kind, i) == [kind |-> kind, sel |-> r.sel, exp |-> r.exp,
                             of |-> r, made |-> applied, part |-> i]
           parts == [i \in 1..n |-> Part(r.kind, i)]
           last == Part("end", 0)
<1>1. Answers(r, n) = Append(parts, last)
  BY DEF Answers
<1>2. n \in Nat /\ r.kind \in Panels /\ applied \in Nat /\ Parts[r.kind] \in Nat
      /\ r.sel \in 0..MaxSelections /\ r.exp \in 0..MaxEdits
  BY CountsAssumption DEF RequestsOf, Types, DaemonTypes
<1>3. \A i \in 1..n : Part(r.kind, i) \in Results
  BY <1>2 DEF Results
<1>4. last \in Results
  BY <1>2 DEF Results
<1>5. \A i \in 1..n : /\ IsPart(Part(r.kind, i), r) /\ ~Ends(Part(r.kind, i))
                      /\ Part(r.kind, i).made = applied /\ Part(r.kind, i).of = r
                      /\ Part(r.kind, i).sel = r.sel /\ Part(r.kind, i).exp = r.exp
                      /\ Part(r.kind, i).kind = r.kind /\ Part(r.kind, i).part = i
  BY <1>2, Apart DEF IsPart, Ends, Plain
<1>6. /\ IsPart(last, r) /\ Ends(last) /\ last.made = applied /\ last.of = r
      /\ last.sel = r.sel /\ last.exp = r.exp /\ last.kind = "end"
  BY <1>2 DEF IsPart, Ends
<1>7. parts \in Seq(Results) /\ Len(parts) = n /\ \A i \in 1..n : parts[i] = Part(r.kind, i)
  BY <1>2, <1>3
<1> HIDE DEF parts, last
<1>8. /\ Append(parts, last) \in Seq(Results) /\ Len(Append(parts, last)) = n + 1
      /\ Append(parts, last)[n + 1] = last
      /\ \A i \in 1..n : Append(parts, last)[i] = Part(r.kind, i)
  BY <1>4, <1>7, AppendFacts
<1> HIDE DEF Part
<1>9. \A i \in 1..(n + 1) : (i \in 1..n /\ i # n + 1) \/ i = n + 1
  BY <1>2
<1> QED BY <1>1, <1>2, <1>5, <1>6, <1>8, <1>9

LEMMA ServeAnswers ==
  ASSUME Types, Protocol, Serve
  PROVE  /\ Sent /\ Head(up) = req /\ up' = << >> /\ down = << >> /\ pc = "read" /\ got = Nothing
         /\ req \in RequestsOf(Panels) /\ UNCHANGED <<pc, req, got, daemon>>
         /\ \/ \E n \in 0..Parts[req.kind] : down' = Answers(req, n)
            \/ /\ req.kind = "target"
               /\ down' = <<Message("warning")>> \o Answers(req, 0)
<1>1. /\ daemon = "serving" /\ up # << >> /\ Head(up).kind \in Panels /\ up' = Tail(up)
      /\ UNCHANGED <<pc, req, got, daemon>>
  BY DEF Serve, stub
<1>2. Sent /\ Head(up) = req /\ up' = << >>
  BY <1>1, FirstOut, Apart
<1>3. pc = "read" /\ got = Nothing /\ down = << >> /\ req.kind \in Panels
  BY <1>1, <1>2 DEF Sent
<1>4. req \in RequestsOf(Panels)
  BY <1>3 DEF Types, StubTypes, RequestsOf
<1>5. Parts[req.kind] \in Nat
  BY <1>3, CountsAssumption
<1>6. 0 \in 0..Parts[req.kind] /\ Parts[req.kind] \in 0..Parts[req.kind]
  BY <1>5
<1>7. \A n \in {0, Parts[req.kind]} : << >> \o Answers(req, n) = Answers(req, n)
  BY <1>4, <1>6, AnswersParts
<1>8. \/ down' = << >> \o Answers(req, 0)
      \/ down' = << >> \o Answers(req, Parts[req.kind])
      \/ req.kind = "target" /\ down' = << >> \o <<Message("warning")>> \o Answers(req, 0)
  BY <1>2, <1>3 DEF Serve
<1>9. << >> \o <<Message("warning")>> = <<Message("warning")>>
  OBVIOUS
<1> QED BY <1>1, <1>2, <1>3, <1>4, <1>6, <1>7, <1>8, <1>9

LEMMA ServeProtocol ==
  ASSUME Types, Protocol, Serve PROVE Protocol'
<1>1. /\ Sent /\ up' = << >> /\ pc = "read" /\ got = Nothing /\ req \in RequestsOf(Panels)
      /\ UNCHANGED <<pc, req, got, daemon>>
      /\ \/ \E n \in 0..Parts[req.kind] : down' = Answers(req, n)
         \/ /\ req.kind = "target" /\ down' = <<Message("warning")>> \o Answers(req, 0)
  BY ServeAnswers
<1>2. daemon' = "serving"
  BY <1>1 DEF Sent
<1>3. down' # << >> /\ RestOfAnswer(down)'
  <2>1. CASE \E n \in 0..Parts[req.kind] : down' = Answers(req, n)
    <3>1. PICK n \in 0..Parts[req.kind] : down' = Answers(req, n)
      BY <2>1
    <3>2. n \in Nat
      OBVIOUS
    <3>3. /\ down' \in Seq(Results) /\ Len(down') = n + 1
          /\ \A i \in 1..(n + 1) : IsPart(down'[i], req) /\ (Ends(down'[i]) <=> i = n + 1)
      BY <1>1, <3>1, AnswersParts
    <3>4. down' # << >> /\ DOMAIN down' = 1..(n + 1)
      BY <3>2, <3>3
    <3> QED BY <1>1, <3>3, <3>4 DEF RestOfAnswer, Fits
  <2>2. CASE req.kind = "target" /\ down' = <<Message("warning")>> \o Answers(req, 0)
    <3> DEFINE w == Message("warning")
               rest == Answers(req, 0)
    <3>1. 0 \in 0..Parts[req.kind]
      BY <1>1, CountsAssumption DEF RequestsOf
    <3>2. rest \in Seq(Results) /\ Len(rest) = 1 /\ IsPart(rest[1], req) /\ Ends(rest[1])
      BY <1>1, <3>1, AnswersParts
    <3>3. Fits(w, req) /\ ~Ends(w)
      BY <2>2 DEF Fits, Message, Ends
    <3> HIDE DEF w, rest
    <3>4. down' = <<w, rest[1]>>
      <4>1. down' = <<w>> \o rest
        BY <2>2 DEF w, rest
      <4>2. rest = <<rest[1]>>
        BY <3>2
      <4>3. <<w>> \o <<rest[1]>> = <<w, rest[1]>>
        BY TuplesConcat
      <4> QED BY <4>1, <4>2, <4>3, Zenon
    <3> QED BY <1>1, <3>2, <3>3, <3>4 DEF RestOfAnswer, Fits
  <2> QED BY <1>1, <2>1, <2>2
<1>4. Answering'
  BY <1>1, <1>2, <1>3 DEF Answering
<1> QED BY <1>1, <1>4 DEF Protocol, Waiting

-----------------------------------------------------------------------------
(* Every step, for the queue and for the panels.                           *)

(* A request that is not an answer to a selection.                         *)
LEMMA PushedQueue ==
  ASSUME Types, Noted, NEW kind \in {"change", "compile", "null"},
         NEW s \in 0..MaxSelections, s <= sel, NEW ctx \in 1..Contexts,
         Fine(cur'), queue' = Append(queue, Request(kind, s, ctx))
  PROVE  QueueStep
<1>1. kind \in Kinds /\ kind \notin Panels /\ kind \notin {"api", "state", "table", "open"}
  BY Apart DEF Kinds
<1>2. Fresh(Request(kind, s, ctx)) /\ Request(kind, s, ctx).kind = kind
  BY <1>1, FreshRequest DEF Allowed
<1> QED BY <1>1, <1>2 DEF QueueStep

LEMMA UserQueue ==
  ASSUME Types, Noted, Own,
         \/ Change \/ SetUniform \/ \E ctx \in 1..Contexts : OverrideShaders(ctx)
         \/ Close
  PROVE  QueueStep
<1>1. /\ sel \in 0..MaxSelections /\ sel <= sel /\ 0 \in 0..MaxSelections /\ 0 <= sel
      /\ 1 \in 1..Contexts
  BY CountsAssumption DEF Types, InterfaceTypes
<1>2. UNCHANGED cur => Fine(cur')
  BY QueueKept DEF QueueStep, Fine, Types, StubTypes, Noted, Notes
<1>3. CASE Change
  BY <1>1, <1>2, <1>3, PushedQueue DEF Change
<1>4. CASE SetUniform
  <2> DEFINE s == panel["uniforms"].sel
  <2>1. "uniforms" \in Panels /\ cur' = [cur EXCEPT !.render = s]
        /\ queue' = Append(queue, Request("change", s, 1))
    BY <1>4 DEF SetUniform
  <2>2. s \in 0..MaxSelections /\ s <= sel
    BY <2>1 DEF Own, Types, InterfaceTypes, Shown
  <2> HIDE DEF s
  <2>3. Fine(cur')
    BY <2>1, <2>2, NotedRender
  <2> QED BY <1>1, <2>1, <2>2, <2>3, PushedQueue
<1>5. CASE \E ctx \in 1..Contexts : OverrideShaders(ctx)
  BY <1>1, <1>2, <1>5, PushedQueue DEF OverrideShaders
<1>6. CASE Close
  BY <1>1, <1>2, <1>6, PushedQueue DEF Close
<1> QED BY <1>3, <1>4, <1>5, <1>6

(* Only a table has metrics to list.                                       *)
LEMMA ListOfTable ==
  ASSUME Types, Protocol, pc = "deliver", got.kind = "list"
  PROVE  "table" \in Panels
<1>1. Fits(got, req)
  BY Delivering
<1> QED BY <1>1, Apart DEF Fits, IsPart, Plain

(* And they are listed before anything is selected.                        *)
LEMMA ListsAreFirst ==
  ASSUME Types, Protocol, Noted, OnMetricList
  PROVE  tableSel = 0 /\ sel = 0
<1>1. Fits(got, req) /\ got.kind = "list" /\ Waiting
  BY Delivering DEF OnMetricList, Waiting
<1>2. req.kind = "open"
  BY <1>1, Apart DEF Fits, IsPart, Plain
<1>3. sel = 0 /\ tableSel \in Nat /\ tableSel <= sel
  BY <1>1, <1>2 DEF Noted, OpenedOnce, Types, InterfaceTypes
<1> QED BY <1>3

LEMMA OpenQueue ==
  ASSUME Types, Protocol, Noted, OnMetricList \/ OnOpened
  PROVE  QueueStep /\ UNCHANGED failed
<1>1. /\ tableSel \in 0..MaxSelections /\ tableSel <= sel /\ 0 \in 0..MaxSelections /\ 0 <= sel
  BY CountsAssumption DEF Types, InterfaceTypes, Noted
<1>2. CASE OnMetricList
  <2>1. "table" \in Panels
    BY <1>2, ListOfTable DEF OnMetricList
  <2>2. Asked("table", tableSel, [cur EXCEPT !.met = tableSel, !.exp = exp])
    BY <1>2 DEF OnMetricList
  <2>3. tableSel = 0
    BY <1>1, <1>2, ListsAreFirst
  <2> QED BY <1>1, <2>1, <2>2, <2>3, AskedStep, NotedIds, NotedExp DEF Allowed
<1>3. CASE OnOpened
  <2>1. CASE "bars" \in Panels
    <3>1. Asked("bars", 0, [cur EXCEPT !.exp = exp])
      BY <1>3, <2>1 DEF OnOpened
    <3> QED BY <1>1, <2>1, <3>1, AskedStep, NotedIds, NotedExp DEF Allowed
  <2>2. CASE "bars" \notin Panels
    BY <1>3, <2>2, QueueKept DEF OnOpened
  <2> QED BY <2>1, <2>2
<1> QED BY <1>2, <1>3

Asking ==
  \/ AskTarget \/ AskShaders \/ AskApi \/ AskBatch \/ AskUniforms \/ AskState
  \/ AskBars \/ AskFrame \/ AskTable

User ==
  Change \/ SetUniform \/ (\E ctx \in 1..Contexts : OverrideShaders(ctx)) \/ Close

Showing ==
  \/ OnRenderTarget \/ OnShaderAssembly \/ OnApi \/ ShowApi \/ OnBatch
  \/ OnUniform \/ OnState \/ OnTable \/ OnBars \/ OnShaderCompile

LEMMA AskingQueue ==
  ASSUME Types, Noted, Asking PROVE QueueStep /\ UNCHANGED failed
BY AskTargetQueue, AskShadersQueue, AskApiQueue, AskBatchQueue, AskUniformsQueue,
   AskStateQueue, AskBarsQueue, AskFrameQueue, AskTableQueue DEF Asking

LEMMA StepQueue ==
  ASSUME Types, Protocol, Noted, Own, Next PROVE QueueStep
<1>1. CASE Asking
  BY <1>1, AskingQueue
<1>2. CASE User
  BY <1>2, UserQueue DEF User
<1>3. CASE OnMetricList \/ OnOpened
  BY <1>3, OpenQueue
<1>4. CASE \/ \E tab \in Tabs : Select(tab)
           \/ \E tab \in Tabs : Experiment(tab)
           \/ Refresh \/ ShadersChanged \/ ClearShaderList \/ Join
  BY <1>4, QueueKept
     DEF Select, Refresh, ShadersChanged, Experiment, ClearShaderList, Join, stub
<1>5. CASE Drop \/ Send
  BY <1>5, QueueKept DEF Drop, Send
<1>6. CASE Read \/ ReadEnd \/ OnUpload \/ OnError
  BY <1>6, QueueKept DEF Read, ReadEnd, OnUpload, OnError
<1>7. CASE Showing
  BY <1>7, QueueKept
     DEF Showing, OnRenderTarget, OnShaderAssembly, OnApi, ShowApi, OnBatch, OnUniform,
         OnState, OnTable, OnBars, OnShaderCompile
<1>8. CASE OpenFile \/ ReceiveFile \/ Serve \/ MakeChange \/ ReplaceShaders
  BY <1>8, QueueKept DEF OpenFile, ReceiveFile, Serve, MakeChange, ReplaceShaders, stub
<1> QED BY <1>1, <1>2, <1>3, <1>4, <1>5, <1>6, <1>7, <1>8 DEF Next, Asking, User, Showing

LEMMA StepPanels ==
  ASSUME Types, Protocol, Next PROVE PanelStep
<1>1. CASE Asking \/ ClearShaderList
  <2>1. CASE AskUniforms \/ AskState \/ ClearShaderList
    BY <2>1, PanelEmptied DEF AskUniforms, AskState, ClearShaderList
  <2>2. CASE AskTarget \/ AskShaders \/ AskApi \/ AskBatch \/ AskBars \/ AskFrame
    BY <2>2, PanelsKept
       DEF AskTarget, AskShaders, AskApi, AskBatch, AskBars, AskFrame
  <2>3. CASE AskTable
    BY <2>3, TableZeroed
  <2> QED BY <1>1, <2>1, <2>2, <2>3 DEF Asking
<1>2. CASE Showing
  BY <1>2, DeliverPanels DEF Showing
<1>4. CASE User
  BY <1>4, PanelsKept DEF User, Change, SetUniform, OverrideShaders, Close
<1>5. CASE \/ \E tab \in Tabs : Select(tab)
           \/ \E tab \in Tabs : Experiment(tab)
           \/ Refresh \/ ShadersChanged \/ Join
  BY <1>5, PanelsKept DEF Select, Refresh, ShadersChanged, Experiment, Join
<1>6. CASE Drop \/ Send \/ Read \/ ReadEnd \/ OnUpload
  BY <1>6, PanelsKept DEF Drop, Send, Read, ReadEnd, OnUpload, ui
<1>7. CASE OnMetricList \/ OnOpened \/ OnError
  BY <1>7, PanelsKept DEF OnMetricList, OnOpened, OnError
<1>8. CASE OpenFile \/ ReceiveFile \/ Serve \/ MakeChange \/ ReplaceShaders
  BY <1>8, PanelsKept DEF OpenFile, ReceiveFile, Serve, MakeChange, ReplaceShaders, ui
<1> QED BY <1>1, <1>2, <1>4, <1>5, <1>6, <1>7, <1>8 DEF Next, Asking, User, Showing

-----------------------------------------------------------------------------
(* Types.                                                                  *)

LEMMA QueueTypes ==
  ASSUME Types, QueueStep
  PROVE  cur' \in Notes /\ queue' \in Seq(RequestsOf(Kinds))
<1>1. queue \in Seq(RequestsOf(Kinds)) /\ cur' \in Notes
  BY DEF Types, StubTypes, QueueStep, Fine
<1>2. CASE queue # << >> /\ queue' = Tail(queue)
  BY <1>1, <1>2, TailFacts
<1>3. CASE \E r : Fresh(r) /\ queue' = Append(queue, r)
  BY <1>1, <1>3, AppendFacts DEF Fresh
<1> QED BY <1>1, <1>2, <1>3 DEF QueueStep

LEMMA PanelTypes ==
  ASSUME Types, PanelStep, got \in Messages \cup {Nothing}
  PROVE  panel' \in [Panels -> Shown] /\ collected' \in SUBSET Results
<1>1. got.kind = "uniforms" => got \in Results
  BY KindsApart DEF Messages, Plain
<1> QED BY <1>1 DEF PanelStep, Types, InterfaceTypes

Clocks ==
  /\ sel \in 0..MaxSelections /\ picked \in SUBSET (1..sel) /\ exp \in 0..MaxEdits
  /\ edits \in 0..MaxEdits /\ posted \in Nat
  /\ todo = <<"experiment">> \/ todo \in Seq(Steps)
  /\ tableSel \in 0..MaxSelections /\ closing \in {"no", "joining", "closed"}

Places ==
  /\ req \in RequestsOf(Kinds) /\ pc \in {"idle", "read", "deliver", "show", "ended"}
  /\ got \in Messages \cup {Nothing}
  /\ running \in BOOLEAN /\ success \in BOOLEAN /\ opened \in BOOLEAN

LEMMA BudgetNumbers ==
  ASSUME Types
  PROVE  /\ NumberOf("compile", queue, Len(queue)) \in Nat
         /\ exp \in Nat /\ posted \in Nat /\ edits \in Nat /\ edits <= MaxEdits /\ MaxEdits \in Nat
<1>1. Len(queue) \in Nat
  BY DEF Types, StubTypes
<1>2. NumberOf("compile", queue, Len(queue)) \in Nat
  BY <1>1, CountedFinite
<1>3. /\ exp \in Nat /\ posted \in Nat /\ edits \in Nat /\ edits <= MaxEdits
      /\ MaxEdits \in Nat
  BY CountsAssumption DEF Types, InterfaceTypes
<1> QED BY <1>2, <1>3

LEMMA ExperimentLeft ==
  ASSUME Types, Budget, todo = <<"experiment">> PROVE exp + 1 \in 0..MaxEdits
BY BudgetNumbers DEF Budget

LEMMA AskingClocks ==
  ASSUME Types, Asking \/ ClearShaderList PROVE Clocks'
<1>1. CASE Asking /\ ~AskFrame
  <2>1. todo # << >> /\ Head(todo) # "experiment" /\ todo' = Tail(todo)
        /\ UNCHANGED <<sel, picked, exp, edits, posted, closing>>
        /\ tableSel' \in {tableSel, sel}
    BY <1>1 DEF Asking, AskTarget, AskShaders, AskApi, AskBatch, AskUniforms, AskState,
                AskBars, AskTable
  <2>2. todo' \in Seq(Steps)
    BY <2>1, HeadStep
  <2> QED BY <2>1, <2>2 DEF Clocks, Types, InterfaceTypes
<1>2. CASE AskFrame
  <2>1. todo # << >> /\ Head(todo) = "frame" /\ todo' = <<"table">> \o Tail(todo)
        /\ UNCHANGED <<sel, picked, exp, edits, posted, closing, tableSel>>
    BY <1>2 DEF AskFrame
  <2>2. Tail(todo) \in Seq(Steps) /\ "table" \in Steps
    BY <2>1, HeadStep DEF Steps
  <2>3. <<"table">> \in Seq(Steps)
    BY <2>2
  <2>4. todo' \in Seq(Steps)
    BY <2>1, <2>2, <2>3, ConcatProperties
  <2> QED BY <2>1, <2>4 DEF Clocks, Types, InterfaceTypes
<1>3. CASE ClearShaderList
  <2>1. todo # << >> /\ Head(todo) # "experiment" /\ todo' = Tail(todo)
        /\ UNCHANGED <<sel, picked, exp, edits, posted, closing, tableSel>>
    BY <1>3 DEF ClearShaderList
  <2>2. todo' \in Seq(Steps)
    BY <2>1, HeadStep
  <2> QED BY <2>1, <2>2 DEF Clocks, Types, InterfaceTypes
<1> QED BY <1>1, <1>2, <1>3

LEMMA StepClocks ==
  ASSUME Types, Budget, Next PROVE Clocks'
<1> USE CountsAssumption
<1>1. CASE Asking \/ ClearShaderList
  BY <1>1, AskingClocks
<1>2. CASE User \/ Refresh
  <2>1. /\ edits' \in 0..MaxEdits /\ todo' \in {todo, <<"experiment">>}
        /\ closing' \in {closing, "joining"} /\ UNCHANGED <<sel, picked, exp, posted, tableSel>>
    BY <1>2 DEF User, Refresh, Change, SetUniform, OverrideShaders, Close, Types, InterfaceTypes
  <2> QED BY <2>1 DEF Clocks, Types, InterfaceTypes
<1>3. CASE \E tab \in Tabs : Select(tab)
  <2>1. PICK tab \in Tabs : Select(tab)
    BY <1>3
  <2>2. todo' \in Seq(Steps)
    BY <2>1, SelectTodo
  <2>3. picked' \in SUBSET (1..sel') /\ sel' \in 0..MaxSelections
    BY <2>1 DEF Select, Types, InterfaceTypes
  <2> QED BY <2>1, <2>2, <2>3 DEF Select, Clocks, Types, InterfaceTypes
<1>4. CASE \E tab \in Tabs : Experiment(tab)
  <2>1. PICK tab \in Tabs : Experiment(tab)
    BY <1>4
  <2>2. todo' \in Seq(Steps)
    BY <2>1, ExperimentTodo
  <2>3. exp' \in 0..MaxEdits
    BY <2>1, ExperimentLeft DEF Experiment
  <2> QED BY <2>1, <2>2, <2>3 DEF Experiment, Clocks, Types, InterfaceTypes
<1>5. CASE ShadersChanged
  BY <1>5 DEF ShadersChanged, Clocks, Types, InterfaceTypes
<1>6. CASE Join
  BY <1>6 DEF Join, Clocks, Types, InterfaceTypes
<1>7. CASE Showing \/ OnMetricList \/ OnOpened \/ OnError
  <2>1. UNCHANGED <<sel, picked, exp, todo, edits, tableSel, closing>> /\ posted' \in {posted, posted + 1}
    BY <1>7 DEF Showing, OnRenderTarget, OnShaderAssembly, OnApi, ShowApi, OnBatch, OnUniform,
         OnState, OnTable, OnBars, OnShaderCompile, OnMetricList, OnOpened, OnError, Delivered
  <2> QED BY <2>1 DEF Clocks, Types, InterfaceTypes
<1>8. CASE \/ Drop \/ Send \/ Read \/ ReadEnd \/ OnUpload
           \/ OpenFile \/ ReceiveFile \/ Serve \/ MakeChange \/ ReplaceShaders
  <2>1. UNCHANGED ui
    BY <1>8 DEF Drop, Send, Read, ReadEnd, OnUpload, OpenFile, ReceiveFile, Serve,
                MakeChange, ReplaceShaders
  <2> QED BY <2>1, SMTT(30) DEF Clocks, Types, InterfaceTypes, ui
<1> QED BY <1>1, <1>2, <1>3, <1>4, <1>5, <1>6, <1>7, <1>8 DEF Next, Asking, User, Showing

LEMMA StepPlaces ==
  ASSUME Types, Protocol, Next PROVE Places'
<1>1. CASE Drop
  BY <1>1 DEF Drop, Looped, Places, Types, StubTypes
<1>2. CASE Send
  <2>1. Head(queue) \in RequestsOf(Kinds)
    BY <1>2, TailFacts DEF Send, Types, StubTypes
  <2> QED BY <1>2, <2>1 DEF Send, Looped, Places, Types, StubTypes
<1>3. CASE Read
  <2>1. Head(down) \in Messages
    BY <1>3, TailFacts DEF Read, Types, DaemonTypes
  <2>2. Labelled(Head(down)) \in Messages
    <3>1. CASE Head(down).kind # "target"
      BY <2>1, <3>1 DEF Labelled
    <3>2. CASE Head(down).kind = "target"
      BY <2>1, <3>2 DEF Labelled, Messages, Results, Plain, Types, StubTypes
    <3> QED BY <3>1, <3>2
  <2>3. /\ got' \in {Labelled(Head(down)), Nothing} /\ pc' \in {"deliver", "read"}
        /\ success' = (success \/ Head(down).kind = "target")
        /\ UNCHANGED <<req, running, opened>>
    BY <1>3 DEF Read, Skipped
  <2> QED BY <2>2, <2>3 DEF Places, Types, StubTypes
<1>4. CASE ReadEnd
  <2>1. Head(down) \in Results
    BY <1>4, TailFacts, KindsApart DEF ReadEnd, Types, DaemonTypes, Messages, Plain
  <2>2. "target" \in Panels => Labelled([Head(down) EXCEPT !.kind = "target"]) \in Messages
    BY <2>1 DEF Labelled, Messages, Results, Types, StubTypes
  <2>3. req.kind = "target" => "target" \in Panels
    BY DEF Types, StubTypes, RequestsOf, Kinds
  <2>4. got' \in Messages \cup {Nothing} /\ pc' \in {"idle", "ended", "deliver"}
    BY <1>4, <2>1, <2>2, <2>3 DEF ReadEnd, Looped, Messages
  <2> QED BY <1>4, <2>4 DEF ReadEnd, Places, Types, StubTypes
<1>5. CASE Showing \/ OnMetricList \/ OnOpened \/ OnError
  <2>1. /\ got' \in {got, Nothing} /\ pc' \in {"idle", "read", "show", "ended"}
    BY <1>5 DEF Showing, OnRenderTarget, OnShaderAssembly, OnApi, ShowApi, OnBatch, OnUniform,
         OnState, OnTable, OnBars, OnShaderCompile, OnMetricList, OnOpened, OnError, Delivered,
         Looped
  <2>2. UNCHANGED <<req, success>> /\ opened' \in {opened, TRUE}
        /\ running' \in {running, FALSE}
    BY <1>5 DEF Showing, OnRenderTarget, OnShaderAssembly, OnApi, ShowApi, OnBatch, OnUniform,
         OnState, OnTable, OnBars, OnShaderCompile, OnMetricList, OnOpened, OnError, Types, StubTypes
  <2> QED BY <2>1, <2>2 DEF Places, Types, StubTypes
<1>6. CASE OnUpload
  BY <1>6 DEF OnUpload, Places, Types, StubTypes
<1>7. CASE Asking
  <2>1. UNCHANGED RestOfStub
    BY <1>7 DEF Asking, AskTarget, AskShaders, AskApi, AskBatch, AskUniforms, AskState,
                AskBars, AskFrame, AskTable
  <2> QED BY <2>1 DEF RestOfStub, Places, Types, StubTypes
<1>8. CASE User
  <2>1. UNCHANGED <<pc, req, got, success, opened>> /\ running' \in {running, FALSE}
    BY <1>8 DEF User, Change, SetUniform, OverrideShaders, Close
  <2> QED BY <2>1 DEF Places, Types, StubTypes
<1>9. CASE \/ \E tab \in Tabs : Select(tab)
           \/ \E tab \in Tabs : Experiment(tab)
           \/ Refresh \/ ShadersChanged \/ ClearShaderList \/ Join
           \/ OpenFile \/ ReceiveFile \/ Serve \/ MakeChange \/ ReplaceShaders
  <2>1. UNCHANGED stub
    BY <1>9 DEF Select, Experiment, Refresh, ShadersChanged, ClearShaderList, Join,
                OpenFile, ReceiveFile, Serve, MakeChange, ReplaceShaders
  <2> QED BY <2>1, SMTT(30) DEF stub, Places, Types, StubTypes
<1> QED BY <1>1, <1>2, <1>3, <1>4, <1>5, <1>6, <1>7, <1>8, <1>9 DEF Next, Asking, User, Showing

LEMMA StepDaemon ==
  ASSUME Types, Protocol, Budget, Next PROVE DaemonTypes'
<1> USE DEF Types
<1>1. CASE Send
  <2>1. Head(queue) \in RequestsOf(Kinds \cup {"data"})
    <3>1. Head(queue) \in RequestsOf(Kinds)
      BY <1>1, TailFacts DEF Send, StubTypes
    <3>2. RequestsOf(Kinds) \subseteq RequestsOf(Kinds \cup {"data"})
      BY DEF RequestsOf
    <3> QED BY <3>1, <3>2
  <2>2. up' \in Seq(RequestsOf(Kinds \cup {"data"}))
    BY <1>1, <2>1, AppendFacts DEF Send, DaemonTypes
  <2> QED BY <1>1, <2>2 DEF Send, DaemonTypes
<1>2. CASE Read \/ ReadEnd
  <2>1. down' \in Seq(Messages)
    BY <1>2, TailFacts DEF Read, ReadEnd, DaemonTypes
  <2> QED BY <1>2, <2>1 DEF Read, ReadEnd, DaemonTypes, history
<1>3. CASE OnUpload
  <2>1. [req EXCEPT !.kind = "data"] \in RequestsOf(Kinds \cup {"data"})
    BY DEF StubTypes, RequestsOf
  <2>2. up' \in Seq(RequestsOf(Kinds \cup {"data"}))
    BY <1>3, <2>1, AppendFacts DEF OnUpload, DaemonTypes
  <2> QED BY <1>3, <2>2 DEF OnUpload, DaemonTypes, history
<1>4. CASE OpenFile \/ ReceiveFile \/ Serve \/ MakeChange \/ ReplaceShaders
  <2>1. up' \in Seq(RequestsOf(Kinds \cup {"data"}))
    BY <1>4, TailFacts DEF OpenFile, ReceiveFile, Serve, MakeChange, ReplaceShaders, DaemonTypes
  <2>2. Message("upload") \in Messages /\ Message("compiled") \in Messages
        /\ Message("failed") \in Messages /\ Message("warning") \in Messages
        /\ Seq([kind : Plain]) \subseteq Seq(Messages) /\ Seq(Results) \subseteq Seq(Messages)
    <3>1. \A k \in Plain : Message(k) \in [kind : Plain]
      BY DEF Message
    <3>2. [kind : Plain] \subseteq Messages /\ Results \subseteq Messages
      BY DEF Messages
    <3>3. {"upload", "compiled", "failed", "warning"} \subseteq Plain
      BY DEF Plain
    <3>4. \A S : S \subseteq Messages => Seq(S) \subseteq Seq(Messages)
      OBVIOUS
    <3> QED BY <3>1, <3>2, <3>3, <3>4
  <2>3. CASE OpenFile
    <3>1. Sent /\ Head(up) = req
      BY <2>3, FirstOut DEF OpenFile
    <3>2. down = << >> /\ req.kind = "open"
      BY <2>3, <3>1 DEF Sent, OpenFile
    <3>3. CASE Play(down)
      <4>1. down' \in Seq(Messages) /\ daemon' \in {"serving", "fatal"}
        BY <2>2, <2>3, <3>2, <3>3, PlayAnswers DEF OpenFile, stub
      <4> QED BY <2>1, <2>3, <4>1 DEF OpenFile, DaemonTypes, history
    <3>4. CASE daemon' = "receiving" /\ down' = Append(down, Message("upload"))
      <4>1. down' \in Seq(Messages)
        BY <2>2, <3>4, AppendFacts DEF DaemonTypes
      <4> QED BY <2>1, <2>3, <3>4, <4>1 DEF OpenFile, DaemonTypes, history
    <3> QED BY <2>3, <3>3, <3>4 DEF OpenFile
  <2>4. CASE ReceiveFile
    <3>1. Uploading
      BY <2>4 DEF ReceiveFile, Protocol, Resting, Sent, Answering, Forgotten
    <3>2. down = << >> /\ req.kind = "open"
      BY <2>4, <3>1 DEF Uploading, ReceiveFile
    <3>3. down' \in Seq(Messages) /\ daemon' \in {"serving", "fatal"}
      BY <2>2, <2>4, <3>2, PlayAnswers DEF ReceiveFile, stub
    <3> QED BY <2>1, <2>4, <3>3 DEF ReceiveFile, DaemonTypes, history
  <2>5. CASE Serve
    <3>1. /\ req \in RequestsOf(Panels)
          /\ \/ \E n \in 0..Parts[req.kind] : down' = Answers(req, n)
             \/ down' = <<Message("warning")>> \o Answers(req, 0)
      BY <2>5, ServeAnswers
    <3>2. 0 \in 0..Parts[req.kind]
      BY <3>1, CountsAssumption DEF RequestsOf
    <3>3. \A n \in 0..Parts[req.kind] : Answers(req, n) \in Seq(Messages)
      BY <2>2, <3>1, AnswersParts
    <3>4. <<Message("warning")>> \in Seq(Messages)
      BY <2>2
    <3>5. down' \in Seq(Messages)
      BY <3>1, <3>2, <3>3, <3>4, ConcatProperties
    <3> QED BY <2>1, <2>5, <3>5 DEF Serve, DaemonTypes, history
  <2>6. CASE MakeChange
    BY <2>1, <2>6 DEF MakeChange, DaemonTypes, history
  <2>7. CASE ReplaceShaders
    <3>1. PICK outcome \in {"compiled", "failed", "none"} :
            /\ down' = IF outcome = "none" THEN down ELSE Append(down, Message(outcome))
            /\ LET made == IF outcome = "compiled" THEN 1 ELSE 0 IN
               applied' = applied + made /\ changes' = changes + made
      BY <2>7 DEF ReplaceShaders
    <3>2. applied' \in Nat /\ changes' \in Nat
      BY <3>1 DEF DaemonTypes
    <3>3. down' \in Seq(Messages)
      BY <2>2, <3>1, AppendFacts DEF DaemonTypes
    <3> QED BY <2>1, <2>7, <3>2, <3>3 DEF ReplaceShaders, DaemonTypes
  <2> QED BY <1>4, <2>3, <2>4, <2>5, <2>6, <2>7
<1>5. CASE Asking
  <2>1. UNCHANGED <<far, changes, changedAt>>
    BY <1>5 DEF Asking, AskTarget, AskShaders, AskApi, AskBatch, AskUniforms, AskState,
                AskBars, AskFrame, AskTable, history
  <2> QED BY <2>1 DEF far, DaemonTypes
<1>6. CASE User
  <2>1. UNCHANGED <<far, changedAt>> /\ changes' \in {changes, changes + 1}
    BY <1>6 DEF User, Change, SetUniform, OverrideShaders, Close, history
  <2> QED BY <2>1 DEF far, DaemonTypes
<1>7. CASE \E tab \in Tabs : Experiment(tab)
  <2>1. UNCHANGED <<far, changes>> /\ changedAt' = [changedAt EXCEPT ![exp + 1] = changes]
    BY <1>7 DEF Experiment
  <2> QED BY <2>1 DEF far, DaemonTypes
<1>8. CASE \/ \E tab \in Tabs : Select(tab)
           \/ Refresh \/ ShadersChanged \/ ClearShaderList \/ Join \/ Drop
           \/ Showing \/ OnMetricList \/ OnOpened \/ OnError
  <2>1. UNCHANGED <<far, changes, changedAt>>
    BY <1>8 DEF Select, Refresh, ShadersChanged, ClearShaderList, Join, Drop, Showing,
         OnRenderTarget, OnShaderAssembly, OnApi, ShowApi, OnBatch, OnUniform,
         OnState, OnTable, OnBars, OnShaderCompile, OnMetricList, OnOpened, OnError, Delivered,
         history
  <2> QED BY <2>1 DEF far, DaemonTypes
<1> QED BY <1>1, <1>2, <1>3, <1>4, <1>5, <1>6, <1>7, <1>8 DEF Next, Asking, User, Showing

LEMMA StepTypes ==
  ASSUME Types, Protocol, Noted, Own, Budget, Next PROVE Types'
<1>1. QueueStep /\ PanelStep /\ Clocks' /\ Places' /\ DaemonTypes'
  BY StepQueue, StepPanels, StepClocks, StepPlaces, StepDaemon
<1>2. cur' \in Notes /\ queue' \in Seq(RequestsOf(Kinds))
  BY <1>1, QueueTypes
<1>3. panel' \in [Panels -> Shown] /\ collected' \in SUBSET Results
  BY <1>1, PanelTypes DEF Types, StubTypes
<1> QED BY <1>1, <1>2, <1>3 DEF Types, InterfaceTypes, StubTypes, Clocks, Places, Notes

LEMMA StepProtocol ==
  ASSUME Types, Protocol, Next PROVE Protocol'
<1>1. CASE \/ \E tab \in Tabs : Select(tab)
           \/ \E tab \in Tabs : Experiment(tab)
           \/ Refresh \/ ShadersChanged \/ ClearShaderList \/ Join
  BY <1>1, ProtocolKept
     DEF Select, Experiment, Refresh, ShadersChanged, ClearShaderList, Join, stub, far
<1>2. CASE Asking
  BY <1>2, ProtocolKept
     DEF Asking, AskTarget, AskShaders, AskApi, AskBatch, AskUniforms, AskState,
         AskBars, AskFrame, AskTable, RestOfStub, far
<1>3. CASE User
  BY <1>3, ProtocolKept DEF User, Change, SetUniform, OverrideShaders, Close, far
<1>4. CASE Drop \/ Send \/ Read \/ ReadEnd
  BY <1>4, DropProtocol, SendProtocol, ReadProtocol, ReadEndProtocol
<1>5. CASE Showing \/ OnMetricList \/ OnOpened \/ OnError \/ OnUpload
  BY <1>5, DeliverProtocol, OnApiProtocol, OnUploadProtocol DEF Showing
<1>6. CASE OpenFile \/ ReceiveFile \/ Serve \/ MakeChange \/ ReplaceShaders
  BY <1>6, OpenFileProtocol, ReceiveFileProtocol, ServeProtocol, MakeChangeProtocol,
     ReplaceShadersProtocol
<1> QED BY <1>1, <1>2, <1>3, <1>4, <1>5, <1>6 DEF Next, Asking, User, Showing

-----------------------------------------------------------------------------
(* Ids of the past.                                                        *)

LEMMA StepCounts ==
  ASSUME Next
  PROVE  sel' \in {sel, sel + 1} /\ exp' \in {exp, exp + 1} /\ tableSel' \in {tableSel, sel}
<1>1. CASE Asking \/ ClearShaderList
  BY <1>1 DEF Asking, AskTarget, AskShaders, AskApi, AskBatch, AskUniforms, AskState,
              AskBars, AskFrame, AskTable, ClearShaderList
<1>2. CASE User \/ Refresh
  BY <1>2 DEF User, Refresh, Change, SetUniform, OverrideShaders, Close
<1>3. CASE \/ \E tab \in Tabs : Select(tab)
           \/ \E tab \in Tabs : Experiment(tab)
           \/ ShadersChanged \/ Join
  BY <1>3 DEF Select, Experiment, ShadersChanged, Join
<1>4. CASE Showing \/ OnMetricList \/ OnOpened \/ OnError
  BY <1>4 DEF Showing, OnRenderTarget, OnShaderAssembly, OnApi, ShowApi, OnBatch, OnUniform,
     OnState, OnTable, OnBars, OnShaderCompile, OnMetricList, OnOpened, OnError, Delivered
<1>5. CASE \/ Drop \/ Send \/ Read \/ ReadEnd \/ OnUpload
           \/ OpenFile \/ ReceiveFile \/ Serve \/ MakeChange \/ ReplaceShaders
  BY <1>5 DEF Drop, Send, Read, ReadEnd, OnUpload, OpenFile, ReceiveFile, Serve,
              MakeChange, ReplaceShaders, ui
<1> QED BY <1>1, <1>2, <1>3, <1>4, <1>5 DEF Next, Asking, User, Showing

LEMMA StepForward ==
  ASSUME Types, Next
  PROVE  sel <= sel' /\ exp <= exp' /\ tableSel' \in {tableSel, sel}
BY StepCounts DEF Types, InterfaceTypes

(* The stub takes the next request when it has done with the last.         *)
LEMMA StepRequest ==
  ASSUME Types, Next
  PROVE  \/ Send
         \/ req' = req /\ (Waiting' => Waiting)
<1>1. CASE Send
  BY <1>1
<1>2. CASE Drop \/ Read \/ ReadEnd
  BY <1>2 DEF Drop, Read, ReadEnd, Waiting, Looped
<1>3. CASE Showing \/ OnMetricList \/ OnOpened \/ OnError \/ OnUpload
  <2>1. pc \in {"deliver", "show"} /\ req' = req
    BY <1>3 DEF Showing, OnRenderTarget, OnShaderAssembly, OnApi, ShowApi, OnBatch, OnUniform,
         OnState, OnTable, OnBars, OnShaderCompile, OnMetricList, OnOpened, OnError, OnUpload
  <2> QED BY <2>1 DEF Waiting
<1>4. CASE Asking
  <2>1. UNCHANGED RestOfStub
    BY <1>4 DEF Asking, AskTarget, AskShaders, AskApi, AskBatch, AskUniforms, AskState,
                AskBars, AskFrame, AskTable
  <2> QED BY <2>1 DEF RestOfStub, Waiting
<1>5. CASE User
  BY <1>5 DEF User, Change, SetUniform, OverrideShaders, Close, Waiting
<1>6. CASE \/ \E tab \in Tabs : Select(tab)
           \/ \E tab \in Tabs : Experiment(tab)
           \/ Refresh \/ ShadersChanged \/ ClearShaderList \/ Join
           \/ OpenFile \/ ReceiveFile \/ Serve \/ MakeChange \/ ReplaceShaders
  <2>1. UNCHANGED stub
    BY <1>6 DEF Select, Experiment, Refresh, ShadersChanged, ClearShaderList, Join,
                OpenFile, ReceiveFile, Serve, MakeChange, ReplaceShaders
  <2> QED BY <2>1, SMTT(30) DEF stub, Waiting
<1> QED BY <1>1, <1>2, <1>3, <1>4, <1>5, <1>6 DEF Next, Asking, User, Showing

LEMMA SentHead ==
  ASSUME Types, Send
  PROVE  /\ queue # << >> /\ req' = queue[1] /\ queue' = Tail(queue)
         /\ 1 \in DOMAIN queue /\ queue[1] \in RequestsOf(Kinds) /\ pc = "idle"
BY TailFacts DEF Send, Types, StubTypes

(* A request in the queue was there before or has just been made.          *)
LEMMA QueueMembers ==
  ASSUME Types, QueueStep, NEW i \in DOMAIN queue'
  PROVE  \/ \E j \in DOMAIN queue : queue'[i] = queue[j]
         \/ /\ Fresh(queue'[i])
            /\ queue'[i].kind \in Panels \ {"api"} => queue'[i].exp <= cur'.exp
<1>1. queue \in Seq(RequestsOf(Kinds))
  BY DEF Types, StubTypes
<1>2. CASE queue' = queue
  BY <1>2
<1>3. CASE queue # << >> /\ queue' = Tail(queue)
  <2>1. i \in 1..(Len(queue) - 1) /\ Len(queue) \in Nat /\ DOMAIN queue = 1..Len(queue)
        /\ queue'[i] = queue[i + 1]
    BY <1>1, <1>3, TailFacts
  <2>2. i + 1 \in DOMAIN queue
    BY <2>1
  <2> QED BY <2>1, <2>2
<1>4. CASE \E r : /\ Fresh(r) /\ queue' = Append(queue, r)
                  /\ r.kind \in Panels \ {"api"} => r.exp <= cur'.exp
  <2>1. PICK r : /\ Fresh(r) /\ queue' = Append(queue, r)
                 /\ r.kind \in Panels \ {"api"} => r.exp <= cur'.exp
    BY <1>4
  <2>2. r \in RequestsOf(Kinds)
    BY <2>1 DEF Fresh
  <2>3. /\ i \in 1..(Len(queue) + 1) /\ Len(queue) \in Nat /\ DOMAIN queue = 1..Len(queue)
        /\ queue'[Len(queue) + 1] = r /\ \A j \in 1..Len(queue) : queue'[j] = queue[j]
    BY <1>1, <2>1, <2>2, AppendFacts
  <2>4. CASE i \in 1..Len(queue)
    BY <2>3, <2>4
  <2>5. CASE i = Len(queue) + 1
    BY <2>1, <2>3, <2>5
  <2> QED BY <2>3, <2>4, <2>5
<1> QED BY <1>2, <1>3, <1>4 DEF QueueStep

LEMMA QueueNoted ==
  ASSUME Types, Noted, QueueStep, sel <= sel', exp <= exp', sel' \in Nat, exp' \in Nat
  PROVE  /\ \A r \in RequestsOf(Kinds) : Known(r) =>
              /\ r.sel <= sel' /\ r.exp <= exp'
              /\ r.kind \in Panels \ {"api"} => r.exp <= cur'.exp
         /\ \A i \in DOMAIN queue' :
              /\ queue'[i].sel <= sel' /\ queue'[i].exp <= exp'
              /\ queue'[i].kind \in Panels \ {"api"} => queue'[i].exp <= cur'.exp
<1>1. /\ cur.exp \in Nat /\ cur'.exp \in Nat /\ cur.exp <= cur'.exp
      /\ sel \in Nat /\ exp \in Nat
  BY DEF Types, StubTypes, InterfaceTypes, QueueStep, Fine, Notes
<1>2. \A r \in RequestsOf(Kinds) : r.sel \in Nat /\ r.exp \in Nat
  BY DEF RequestsOf
<1>3. \A r \in RequestsOf(Kinds) : Known(r) =>
              /\ r.sel <= sel' /\ r.exp <= exp'
              /\ r.kind \in Panels \ {"api"} => r.exp <= cur'.exp
  BY <1>1, <1>2 DEF Known
<1>4. \A j \in DOMAIN queue : queue[j] \in RequestsOf(Kinds) /\ Known(queue[j])
  BY DEF Types, StubTypes, Noted
<1>5. ASSUME NEW i \in DOMAIN queue'
      PROVE  /\ queue'[i].sel <= sel' /\ queue'[i].exp <= exp'
             /\ queue'[i].kind \in Panels \ {"api"} => queue'[i].exp <= cur'.exp
  <2> DEFINE r == queue'[i]
  <2>1. \/ \E j \in DOMAIN queue : r = queue[j]
        \/ Fresh(r) /\ (r.kind \in Panels \ {"api"} => r.exp <= cur'.exp)
    BY QueueMembers
  <2> HIDE DEF r
  <2>2. CASE \E j \in DOMAIN queue : r = queue[j]
    <3>1. PICK j \in DOMAIN queue : r = queue[j]
      BY <2>2
    <3> QED BY <1>3, <1>4, <3>1 DEF r
  <2>3. CASE Fresh(r) /\ (r.kind \in Panels \ {"api"} => r.exp <= cur'.exp)
    <3>1. r \in RequestsOf(Kinds) /\ r.sel <= sel /\ r.exp <= exp
      BY <2>3 DEF Fresh
    <3>2. r.sel <= sel' /\ r.exp <= exp'
      BY <1>1, <1>2, <3>1
    <3> QED BY <2>3, <3>2 DEF r
  <2> QED BY <2>1, <2>2, <2>3
<1> QED BY <1>3, <1>5

(* What is held of an answer is about what has been asked.                 *)
LEMMA GotIds ==
  ASSUME Types, Protocol, Noted, got.kind \in Panels
  PROVE  /\ got \in Results /\ IsPart(got, req) /\ req.kind = got.kind
         /\ got.sel <= sel /\ got.exp <= exp /\ pc \in {"deliver", "show"}
<1>1. got # Nothing
  BY Apart DEF Nothing
<1>2. pc \in {"deliver", "show"}
  BY <1>1 DEF Protocol, Waiting, Sent, Uploading, Answering, Forgotten, Resting
<1>3. got \in Results /\ IsPart(got, req) /\ req.kind = got.kind
  BY <1>2, Delivering
<1>4. CASE got.kind = "target"
  BY <1>2, <1>3, <1>4 DEF Noted
<1>5. CASE got.kind # "target"
  BY <1>2, <1>3, <1>5 DEF Noted, Known, IsPart
<1> QED BY <1>2, <1>3, <1>4, <1>5

LEMMA GotKept ==
  ASSUME Next, ~Read, ~ReadEnd PROVE got' \in {got, Nothing}
<1>1. CASE Showing \/ OnMetricList \/ OnOpened \/ OnError \/ OnUpload
  BY <1>1 DEF Showing, OnRenderTarget, OnShaderAssembly, OnApi, ShowApi, OnBatch, OnUniform,
     OnState, OnTable, OnBars, OnShaderCompile, OnMetricList, OnOpened, OnError, OnUpload,
     Delivered
<1>2. CASE Asking
  BY <1>2 DEF Asking, AskTarget, AskShaders, AskApi, AskBatch, AskUniforms, AskState,
            AskBars, AskFrame, AskTable, RestOfStub
<1>3. CASE User \/ Drop \/ Send
  BY <1>3, SMTT(30) DEF User, Change, SetUniform, OverrideShaders, Close, Drop, Send
<1>4. CASE \/ \E tab \in Tabs : Select(tab)
           \/ \E tab \in Tabs : Experiment(tab)
           \/ Refresh \/ ShadersChanged \/ ClearShaderList \/ Join
           \/ OpenFile \/ ReceiveFile \/ Serve \/ MakeChange \/ ReplaceShaders
  BY <1>4 DEF Select, Experiment, Refresh, ShadersChanged, ClearShaderList, Join,
            OpenFile, ReceiveFile, Serve, MakeChange, ReplaceShaders, stub
<1>5. \/ Showing \/ OnMetricList \/ OnOpened \/ OnError \/ OnUpload
      \/ Asking \/ User \/ Drop \/ Send
      \/ \E tab \in Tabs : Select(tab)
      \/ \E tab \in Tabs : Experiment(tab)
      \/ Refresh \/ ShadersChanged \/ ClearShaderList \/ Join
      \/ OpenFile \/ ReceiveFile \/ Serve \/ MakeChange \/ ReplaceShaders
  BY DEF Next, Asking, User, Showing
<1> QED BY <1>1, <1>2, <1>3, <1>4, <1>5

LEMMA GotTarget ==
  ASSUME Types, Protocol, Noted, Next
  PROVE  got'.kind = "target" => got'.sel <= sel /\ got'.exp <= exp
<1>1. Nothing.kind # "target"
  BY DEF Nothing
<1>2. \A a \in Messages : Labelled(a).kind = "target" => Labelled(a).sel <= sel /\ Labelled(a).exp <= exp
  <2> SUFFICES ASSUME NEW a \in Messages, Labelled(a).kind = "target"
               PROVE  Labelled(a).sel <= sel /\ Labelled(a).exp <= exp
    OBVIOUS
  <2>1. a.kind = "target" /\ a \in Results
    BY KindsApart DEF Labelled, Messages, Plain
  <2>2. Labelled(a).sel = cur.rt /\ Labelled(a).exp = cur.exp
    BY <2>1 DEF Labelled, Results
  <2> QED BY <2>2 DEF Noted
<1>3. CASE Read
  <2>1. Head(down) \in Messages
    BY <1>3, TailFacts DEF Read, Types, DaemonTypes
  <2>2. got' \in {Labelled(Head(down)), Nothing}
    BY <1>3 DEF Read
  <2> QED BY <1>1, <1>2, <2>1, <2>2
<1>4. CASE ReadEnd
  <2> DEFINE a == Head(down)
  <2>1. a \in Messages /\ a.kind = "end"
    BY <1>4, TailFacts DEF ReadEnd, Types, DaemonTypes
  <2>2. a \in Results
    BY <2>1, KindsApart DEF Messages, Plain
  <2>3. CASE req.kind = "target"
    <3>1. "target" \in Panels
      BY <2>3 DEF Types, StubTypes, RequestsOf, Kinds
    <3>2. [a EXCEPT !.kind = "target"] \in Messages
      BY <2>2, <3>1 DEF Messages, Results
    <3>3. got' \in {Labelled([a EXCEPT !.kind = "target"]), Nothing}
      BY <1>4, <2>3 DEF ReadEnd
    <3> QED BY <1>1, <1>2, <3>2, <3>3
  <2>4. CASE req.kind # "target"
    BY <1>1, <1>4, <2>1, <2>4 DEF ReadEnd
  <2> QED BY <2>3, <2>4
<1>5. CASE ~Read /\ ~ReadEnd
  <2>1. got' \in {got, Nothing}
    BY <1>5, GotKept
  <2> QED BY <1>1, <2>1 DEF Noted
<1> QED BY <1>3, <1>4, <1>5

(* No assert but the one of setUniform fails.                              *)
LEMMA ReadAsserts ==
  ASSUME Types, Protocol, Noted, Read PROVE UNCHANGED failed
<1> DEFINE a == Head(down)
<1>1. pc = "read" /\ down # << >>
  BY DEF Read
<1>2. ASSUME a.kind \in {"shaders", "batch", "uniforms"} PROVE a.exp <= cur.exp
  <2>1. Answering /\ RestOfAnswer(down)
    <3>1. down # <<Message("upload")>>
      BY <1>2 DEF Message
    <3> QED BY <1>1, <3>1, Reading
  <2>2. Fits(a, req)
    BY <1>1, <2>1, RestOfTail DEF Types, DaemonTypes
  <2>3. IsPart(a, req)
    BY <1>2, <2>2 DEF Fits
  <2>4. a.exp = req.exp /\ req.kind = a.kind /\ req.kind \in Panels
    BY <1>2, <2>3 DEF IsPart
  <2> QED BY <1>2, <2>4 DEF Noted, Known
<1> QED BY <1>2 DEF Read, Asserting

LEMMA NotAheadKnown ==
  ASSUME NEW r \in RequestsOf(Kinds), Known(r) PROVE NotAhead(r)
<1>1. r.kind \in {"target", "shaders", "batch", "uniforms", "bars"} => r.kind \in Panels \ {"api"}
  BY DEF RequestsOf, Kinds
<1> QED BY <1>1 DEF NotAhead, Known

LEMMA StepFailed ==
  ASSUME Types, Protocol, Noted, Ordered, Next PROVE failed' \subseteq {"setUniform"}
<1> USE DEF Noted
<1>1. CASE Drop \/ Send
  <2>1. Head(queue) \in RequestsOf(Kinds) /\ Known(Head(queue))
    BY <1>1, TailFacts DEF Drop, Send, Types, StubTypes
  <2>2. NotAhead(Head(queue))
    BY <2>1, NotAheadKnown
  <2> QED BY <1>1, <2>2 DEF Drop, Send, Asserting
<1>2. CASE Read
  BY <1>2, ReadAsserts
<1>3. CASE OnShaderAssembly \/ OnBatch
  <2>1. got.kind \in Panels
    BY <1>3, Delivering DEF OnShaderAssembly, OnBatch, AllPanels
  <2>2. got.sel <= sel /\ got.exp <= exp
    BY <2>1, GotIds
  <2> QED BY <1>3, <2>2 DEF OnShaderAssembly, OnBatch, Asserting
<1>4. CASE OnState
  <2>1. "state" \in Panels /\ got.kind = "state" /\ pc = "deliver"
    BY <1>4, Delivering DEF OnState, AllPanels
  <2>2. got \in Results /\ IsPart(got, req) /\ req.kind = "state"
    BY <2>1, GotIds
  <2>3. NotAfter(panel["state"], req)
    BY <2>1, <2>2 DEF Ordered, InTurn, Waiting
  <2>4. got.sel = req.sel /\ got.exp = req.exp
    BY <2>2 DEF IsPart
  <2>5. panel["state"].sel <= got.sel /\ panel["state"].exp <= got.exp
    BY <2>3, <2>4 DEF NotAfter
  <2>6. /\ panel["state"].sel \in Nat /\ panel["state"].exp \in Nat
        /\ got.sel \in Nat /\ got.exp \in Nat
    BY <2>1, <2>2 DEF Types, InterfaceTypes, Shown, Results
  <2>7. \/ got.sel > panel["state"].sel \/ got.exp > panel["state"].exp
        \/ got.sel = panel["state"].sel /\ got.exp = panel["state"].exp
    BY <2>5, <2>6
  <2> QED BY <1>4, <2>7 DEF OnState, Asserting
<1>5. CASE SetUniform
  BY <1>5 DEF SetUniform, Asserting
<1>6. CASE Asking \/ OnMetricList \/ OnOpened
  BY <1>6, AskingQueue, OpenQueue
<1>7. CASE \/ ReadEnd \/ OnRenderTarget \/ OnApi \/ ShowApi \/ OnUniform \/ OnTable
           \/ OnBars \/ OnShaderCompile \/ OnUpload \/ OnError
  BY <1>7 DEF ReadEnd, OnRenderTarget, OnApi, ShowApi, OnUniform, OnTable, OnBars,
              OnShaderCompile, OnUpload, OnError, history
<1>8. CASE Change \/ (\E ctx \in 1..Contexts : OverrideShaders(ctx)) \/ Close
  BY <1>8 DEF Change, OverrideShaders, Close, history
<1>9. CASE \/ \E tab \in Tabs : Select(tab)
           \/ \E tab \in Tabs : Experiment(tab)
           \/ Refresh \/ ShadersChanged \/ ClearShaderList \/ Join
           \/ OpenFile \/ ReceiveFile \/ Serve \/ MakeChange \/ ReplaceShaders
  BY <1>9 DEF Select, Experiment, Refresh, ShadersChanged, ClearShaderList, Join,
              OpenFile, ReceiveFile, Serve, MakeChange, ReplaceShaders, history
<1> QED BY <1>1, <1>2, <1>3, <1>4, <1>5, <1>6, <1>7, <1>8, <1>9 DEF Next, Asking

LEMMA OpenedBy ==
  ASSUME Next, opened' # opened PROVE OnOpened
<1>1. CASE Asking \/ ClearShaderList
  BY <1>1 DEF Asking, AskTarget, AskShaders, AskApi, AskBatch, AskUniforms, AskState,
              AskBars, AskFrame, AskTable, ClearShaderList, RestOfStub, stub
<1>2. CASE User \/ Refresh
  BY <1>2, SMTT(30) DEF User, Change, SetUniform, OverrideShaders, Close, Refresh, stub
<1>3. CASE \/ \E tab \in Tabs : Select(tab)
           \/ \E tab \in Tabs : Experiment(tab)
           \/ ShadersChanged \/ Join
  BY <1>3 DEF Select, Experiment, ShadersChanged, Join, stub
<1>4. CASE Showing \/ OnMetricList \/ OnError \/ OnUpload
  BY <1>4 DEF Showing, OnRenderTarget, OnShaderAssembly, OnApi, ShowApi, OnBatch, OnUniform,
     OnState, OnTable, OnBars, OnShaderCompile, OnMetricList, OnError, OnUpload
<1>5. CASE Drop \/ Send \/ Read \/ ReadEnd
  BY <1>5 DEF Drop, Send, Read, ReadEnd
<1>6. CASE OpenFile \/ ReceiveFile \/ Serve \/ MakeChange \/ ReplaceShaders
  BY <1>6 DEF OpenFile, ReceiveFile, Serve, MakeChange, ReplaceShaders, stub
<1> QED BY <1>1, <1>2, <1>3, <1>4, <1>5, <1>6 DEF Next, Asking, User, Showing

LEMMA StepSelected ==
  ASSUME Next, sel' # sel
  PROVE  sel' = sel + 1 /\ opened /\ UNCHANGED <<panel, closing, daemon, failed>>
<1>1. CASE \E tab \in Tabs : Select(tab)
  BY <1>1 DEF Select, far, history
<1>2. CASE Asking \/ ClearShaderList
  BY <1>2 DEF Asking, AskTarget, AskShaders, AskApi, AskBatch, AskUniforms, AskState,
              AskBars, AskFrame, AskTable, ClearShaderList
<1>3. CASE User \/ Refresh
  BY <1>3 DEF User, Refresh, Change, SetUniform, OverrideShaders, Close
<1>4. CASE (\E tab \in Tabs : Experiment(tab)) \/ ShadersChanged \/ Join
  BY <1>4 DEF Experiment, ShadersChanged, Join
<1>5. CASE Showing \/ OnMetricList \/ OnOpened \/ OnError
  BY <1>5 DEF Showing, OnRenderTarget, OnShaderAssembly, OnApi, ShowApi, OnBatch, OnUniform,
     OnState, OnTable, OnBars, OnShaderCompile, OnMetricList, OnOpened, OnError, Delivered
<1>6. CASE \/ Drop \/ Send \/ Read \/ ReadEnd \/ OnUpload
           \/ OpenFile \/ ReceiveFile \/ Serve \/ MakeChange \/ ReplaceShaders
  BY <1>6 DEF Drop, Send, Read, ReadEnd, OnUpload, OpenFile, ReceiveFile, Serve,
              MakeChange, ReplaceShaders, ui
<1> QED BY <1>1, <1>2, <1>3, <1>4, <1>5, <1>6 DEF Next, Asking, User, Showing

LEMMA StepOpened ==
  ASSUME Types, Protocol, Noted, Own, Next PROVE OpenedOnce'
<1>1. /\ ~opened => sel = 0
      /\ Waiting /\ req.kind = "open" => ~opened
      /\ \A i \in DOMAIN queue : queue[i].kind = "open" => i = 1 /\ ~opened /\ ~Waiting
  BY DEF Noted, OpenedOnce
<1>2. opened' # opened => Waiting /\ ~Waiting' /\ opened' /\ ~Send
  <2> SUFFICES ASSUME opened' # opened PROVE Waiting /\ ~Waiting' /\ opened' /\ ~Send
    OBVIOUS
  <2>1. OnOpened
    BY OpenedBy
  <2> QED BY <2>1 DEF OnOpened, Delivered, Looped, Waiting, Send
<1>3. ~opened' => sel' = 0
  <2> SUFFICES ASSUME ~opened' PROVE sel' = 0
    OBVIOUS
  <2>1. opened' = opened
    BY <1>2
  <2>2. ~opened
    BY <2>1, Zenon
  <2>3. sel' = sel
    BY <2>2, StepSelected
  <2> QED BY <1>1, <2>2, <2>3
<1>4. ASSUME Waiting', req'.kind = "open" PROVE ~opened'
  <2>1. opened' = opened
    BY <1>2, <1>4
  <2>2. CASE Send
    <3>1. req' = queue[1] /\ 1 \in DOMAIN queue
      BY <2>2, SentHead
    <3> QED BY <1>1, <1>4, <2>1, <3>1, Zenon
  <2>3. CASE ~Send
    <3>1. req' = req /\ Waiting
      BY <1>4, <2>3, StepRequest
    <3>2. ~opened
      BY <1>1, <1>4, <3>1
    <3> QED BY <2>1, <3>2, Zenon
  <2> QED BY <2>2, <2>3
<1>5. ASSUME NEW i \in DOMAIN queue', queue'[i].kind = "open"
      PROVE  i = 1 /\ ~opened' /\ ~Waiting'
  <2>1. queue \in Seq(RequestsOf(Kinds)) /\ QueueStep
    BY StepQueue DEF Types, StubTypes
  <2>2. ASSUME queue # << >>, queue' = Tail(queue) PROVE FALSE
    <3>1. /\ DOMAIN queue = 1..Len(queue) /\ Len(queue) \in Nat
          /\ i \in 1..(Len(queue) - 1) /\ queue'[i] = queue[i + 1]
      BY <2>1, <2>2, TailFacts
    <3>2. i + 1 \in DOMAIN queue /\ i + 1 # 1
      BY <3>1
    <3> QED BY <1>1, <1>5, <3>1, <3>2
  <2>3. ~Send
    BY <2>2, SentHead
  <2>4. i \in DOMAIN queue /\ queue'[i] = queue[i]
    <3>1. CASE queue' = queue
      BY <3>1
    <3>2. CASE \E r : Fresh(r) /\ queue' = Append(queue, r)
      <4>1. PICK r : Fresh(r) /\ queue' = Append(queue, r)
        BY <3>2
      <4>2. r \in RequestsOf(Kinds) /\ r.kind # "open"
        BY <4>1 DEF Fresh, Allowed
      <4>3. /\ i \in 1..(Len(queue) + 1) /\ Len(queue) \in Nat /\ DOMAIN queue = 1..Len(queue)
            /\ queue'[Len(queue) + 1] = r /\ \A j \in 1..Len(queue) : queue'[j] = queue[j]
        BY <2>1, <4>1, <4>2, AppendFacts
      <4>4. i # Len(queue) + 1
        BY <1>5, <4>2, <4>3
      <4>5. i \in 1..Len(queue)
        BY <4>3, <4>4
      <4> QED BY <4>3, <4>5
    <3> QED BY <2>1, <2>2, <3>1, <3>2 DEF QueueStep
  <2>5. i = 1 /\ ~opened /\ ~Waiting
    BY <1>1, <1>5, <2>4
  <2>6. opened' = opened /\ ~Waiting'
    BY <1>2, <2>3, <2>5, StepRequest
  <2>7. ~opened'
    BY <2>5, <2>6, Zenon
  <2> QED BY <2>5, <2>6, <2>7
<1> QED BY <1>3, <1>4, <1>5 DEF OpenedOnce

LEMMA StepNoted ==
  ASSUME Types, Protocol, Noted, Own, Ordered, Budget, Next PROVE Noted'
<1>1. /\ QueueStep /\ Types' /\ sel <= sel' /\ exp <= exp' /\ tableSel' \in {tableSel, sel}
      /\ failed' \subseteq {"setUniform"}
  BY StepQueue, StepTypes, StepForward, StepFailed
<1>2. sel \in Nat /\ exp \in Nat /\ sel' \in Nat /\ exp' \in Nat /\ tableSel \in Nat
  BY <1>1 DEF Types, InterfaceTypes
<1>3. cur'.rt <= sel' /\ cur'.render <= sel' /\ cur'.met <= sel' /\ cur'.exp <= exp'
  <2>1. /\ cur' \in Notes /\ cur'.rt <= sel /\ cur'.render <= sel /\ cur'.met <= sel
        /\ cur'.exp <= exp
    BY <1>1 DEF QueueStep, Fine
  <2>2. cur'.rt \in Nat /\ cur'.render \in Nat /\ cur'.met \in Nat /\ cur'.exp \in Nat
    BY <2>1 DEF Notes
  <2> QED BY <1>1, <1>2, <2>1, <2>2
<1>4. tableSel' <= sel'
  BY <1>1, <1>2 DEF Noted
<1>5. /\ \A r \in RequestsOf(Kinds) : Known(r) =>
           /\ r.sel <= sel' /\ r.exp <= exp'
           /\ r.kind \in Panels \ {"api"} => r.exp <= cur'.exp
      /\ \A i \in DOMAIN queue' :
           /\ queue'[i].sel <= sel' /\ queue'[i].exp <= exp'
           /\ queue'[i].kind \in Panels \ {"api"} => queue'[i].exp <= cur'.exp
  BY <1>1, <1>2, QueueNoted
<1>6. /\ req'.sel <= sel' /\ req'.exp <= exp'
      /\ req'.kind \in Panels \ {"api"} => req'.exp <= cur'.exp
  <2>1. CASE Send
    <3>1. req' = queue[1] /\ 1 \in DOMAIN queue /\ queue[1] \in RequestsOf(Kinds)
      BY <2>1, SentHead
    <3>2. Known(queue[1])
      BY <3>1 DEF Noted
    <3> QED BY <1>5, <3>1, <3>2
  <2>2. CASE req' = req
    <3>1. req \in RequestsOf(Kinds) /\ Known(req)
      BY DEF Types, StubTypes, Noted
    <3> QED BY <1>5, <2>2, <3>1
  <2> QED BY <2>1, <2>2, StepRequest
<1>7. got'.kind = "target" => got'.sel <= sel' /\ got'.exp <= exp'
  <2> SUFFICES ASSUME got'.kind = "target" PROVE got'.sel <= sel' /\ got'.exp <= exp'
    OBVIOUS
  <2>1. got'.sel <= sel /\ got'.exp <= exp
    BY GotTarget
  <2>2. got' \in Results
    BY <1>1, KindsApart DEF Types, StubTypes, Messages, Plain
  <2>3. got'.sel \in Nat /\ got'.exp \in Nat
    BY <2>2 DEF Results
  <2> QED BY <1>1, <1>2, <2>1, <2>3
<1> QED BY <1>1, <1>3, <1>4, <1>5, <1>6, <1>7, StepOpened DEF Noted, Known

-----------------------------------------------------------------------------
(* What a panel holds is its own, and of the past.                         *)

LEMMA PanelIds ==
  ASSUME Types, Protocol, Noted, PanelStep, NEW p \in Panels
  PROVE  \/ SameIds(panel'[p], panel[p])
         \/ /\ got.kind = p /\ got \in Results /\ IsPart(got, req) /\ req.kind = p /\ Waiting
            /\ SameIds(panel'[p], got) /\ got.sel <= sel /\ got.exp <= exp
<1>1. got.kind = p => /\ got \in Results /\ IsPart(got, req) /\ req.kind = p /\ Waiting
                      /\ got.sel <= sel /\ got.exp <= exp
  BY GotIds DEF Waiting
<1> QED BY <1>1 DEF PanelStep

LEMMA OwnShown ==
  ASSUME Own, PanelStep
  PROVE  /\ \A p \in Panels : \A a \in panel'[p].shown : a.kind = p
         /\ \A a \in collected' : a.kind = "uniforms"
<1>1. ASSUME NEW p \in Panels, NEW a \in panel'[p].shown PROVE a.kind = p
  <2>1. a \in panel[p].shown \/ a \in From(p)
    BY DEF PanelStep
  <2>2. a \in From(p) => (a = got /\ got.kind = p) \/ (p = "uniforms" /\ a \in collected)
    BY DEF From
  <2> QED BY <2>1, <2>2 DEF Own
<1>2. \A a \in collected' : a.kind = "uniforms"
  BY DEF PanelStep, Own
<1> QED BY <1>1, <1>2

LEMMA StepOwn ==
  ASSUME Types, Protocol, Noted, Own, Next PROVE Own'
<1>1. PanelStep /\ sel <= sel' /\ exp <= exp'
  BY StepPanels, StepForward
<1>2. sel \in Nat /\ exp \in Nat /\ sel' \in Nat /\ exp' \in Nat
  <2>1. sel \in Nat /\ exp \in Nat
    BY DEF Types, InterfaceTypes
  <2>2. sel' \in {sel, sel + 1} /\ exp' \in {exp, exp + 1}
    BY StepCounts
  <2> QED BY <2>1, <2>2
<1>3. ASSUME NEW p \in Panels PROVE panel'[p].sel <= sel' /\ panel'[p].exp <= exp'
  <2>1. /\ panel[p].sel <= sel /\ panel[p].exp <= exp /\ panel[p] \in Shown
        /\ panel[p].sel \in Nat /\ panel[p].exp \in Nat
    BY DEF Own, Types, InterfaceTypes, Shown
  <2>2. CASE SameIds(panel'[p], panel[p])
    BY <1>1, <1>2, <2>1, <2>2 DEF SameIds
  <2>3. CASE SameIds(panel'[p], got) /\ got \in Results /\ got.sel <= sel /\ got.exp <= exp
    <3>1. got.sel \in Nat /\ got.exp \in Nat
      BY <2>3 DEF Results
    <3> QED BY <1>1, <1>2, <2>3, <3>1 DEF SameIds
  <2> QED BY <1>1, <2>2, <2>3, PanelIds
<1> QED BY <1>1, <1>3, OwnShown DEF Own

-----------------------------------------------------------------------------
(* The order of questions and answers.  A request that is new is about the *)
(* present ids, those before it and what is shown are of the past.         *)

LEMMA QueueKeepsOrder ==
  ASSUME Types, Noted, Ordered, QueueStep, NEW k \in Panels \cap {"api", "state"},
         NEW i \in DOMAIN queue', NEW j \in DOMAIN queue', i < j,
         queue'[i].kind = k, queue'[j].kind = k
  PROVE  NotAfter(queue'[i], queue'[j])
<1>1. queue \in Seq(RequestsOf(Kinds))
  BY DEF Types, StubTypes
<1>2. \A m, n \in DOMAIN queue : m < n /\ queue[m].kind = k /\ queue[n].kind = k
        => NotAfter(queue[m], queue[n])
  BY DEF Ordered, InTurn
<1>3. CASE queue' = queue
  BY <1>2, <1>3
<1>4. CASE queue # << >> /\ queue' = Tail(queue)
  <2>1. /\ i \in 1..(Len(queue) - 1) /\ j \in 1..(Len(queue) - 1) /\ Len(queue) \in Nat
        /\ DOMAIN queue = 1..Len(queue)
        /\ queue'[i] = queue[i + 1] /\ queue'[j] = queue[j + 1]
    BY <1>1, <1>4, TailFacts
  <2>2. i + 1 \in DOMAIN queue /\ j + 1 \in DOMAIN queue /\ i + 1 < j + 1
    BY <2>1
  <2> QED BY <1>2, <2>1, <2>2
<1>5. CASE \E r : Fresh(r) /\ queue' = Append(queue, r)
  <2>1. PICK r : Fresh(r) /\ queue' = Append(queue, r)
    BY <1>5
  <2>2. r \in RequestsOf(Kinds)
    BY <2>1 DEF Fresh
  <2>3. /\ DOMAIN queue' = 1..(Len(queue) + 1) /\ Len(queue) \in Nat
        /\ DOMAIN queue = 1..Len(queue)
        /\ queue'[Len(queue) + 1] = r /\ \A n \in 1..Len(queue) : queue'[n] = queue[n]
    BY <1>1, <2>1, <2>2, AppendFacts
  <2>4. i \in DOMAIN queue
    BY <2>3
  <2>5. CASE j \in DOMAIN queue
    BY <1>2, <2>3, <2>4, <2>5
  <2>6. CASE j = Len(queue) + 1
    <3>1. queue'[j] = r /\ queue'[i] = queue[i] /\ Known(queue[i])
      BY <2>3, <2>4, <2>6 DEF Noted
    <3>2. r.sel = sel /\ r.exp = exp
      BY <2>1, <3>1 DEF Fresh
    <3> QED BY <3>1, <3>2 DEF NotAfter, Known
  <2> QED BY <2>3, <2>5, <2>6
<1> QED BY <1>3, <1>4, <1>5 DEF QueueStep

LEMMA StepOrdered ==
  ASSUME Types, Protocol, Noted, Own, Ordered, Next PROVE Ordered'
<1>1. QueueStep /\ PanelStep
  BY StepQueue, StepPanels
<1>2. SUFFICES ASSUME NEW k \in Panels \cap {"api", "state"} PROVE InTurn(k)'
  BY DEF Ordered
<1>3. InTurn(k) /\ k \in Panels
  BY DEF Ordered
<1>4. \A i, j \in DOMAIN queue' :
        i < j /\ queue'[i].kind = k /\ queue'[j].kind = k => NotAfter(queue'[i], queue'[j])
  BY <1>1, QueueKeepsOrder
<1>5. \/ SameIds(panel'[k], panel[k])
      \/ Waiting /\ req.kind = k /\ SameIds(panel'[k], req)
  <2>1. got \in Results /\ IsPart(got, req) /\ req.kind = k => SameIds(got, req)
    BY DEF IsPart, SameIds
  <2> QED BY <1>1, <1>3, <2>1, PanelIds DEF SameIds
<1>6. \A r : NotAfter(panel[k], r) /\ (Waiting /\ req.kind = k => NotAfter(req, r))
        => NotAfter(panel'[k], r)
  BY <1>5 DEF NotAfter, SameIds
<1>7. /\ panel[k].sel <= sel /\ panel[k].exp <= exp /\ req.sel <= sel /\ req.exp <= exp
      /\ \A j \in DOMAIN queue : queue[j].kind = k =>
           NotAfter(panel[k], queue[j]) /\ (Waiting /\ req.kind = k => NotAfter(req, queue[j]))
      /\ Waiting /\ req.kind = k => NotAfter(panel[k], req)
  BY <1>3 DEF Own, Noted, Known, InTurn
<1>8. ASSUME NEW i \in DOMAIN queue', queue'[i].kind = k
      PROVE  /\ NotAfter(panel[k], queue'[i])
             /\ Waiting /\ req.kind = k => NotAfter(req, queue'[i])
  <2>1. CASE \E j \in DOMAIN queue : queue'[i] = queue[j]
    BY <1>7, <1>8, <2>1
  <2>2. CASE Fresh(queue'[i])
    <3>1. queue'[i].sel = sel /\ queue'[i].exp = exp
      BY <1>8, <2>2 DEF Fresh
    <3> QED BY <1>7, <3>1 DEF NotAfter
  <2> QED BY <1>1, <2>1, <2>2, QueueMembers
<1>9. ASSUME NEW i \in DOMAIN queue', queue'[i].kind = k
      PROVE  NotAfter(panel'[k], queue'[i])
  BY <1>6, <1>8, <1>9
<1>10. CASE Send
  <2>1. /\ queue # << >> /\ req' = queue[1] /\ queue' = Tail(queue) /\ 1 \in DOMAIN queue
        /\ pc = "idle"
    BY <1>10, SentHead
  <2>2. ~Waiting
    BY <2>1 DEF Waiting
  <2>3. ASSUME NEW i \in DOMAIN queue', queue'[i].kind = k, req'.kind = k
        PROVE  NotAfter(req', queue'[i])
    <3>1. /\ i \in 1..(Len(queue) - 1) /\ Len(queue) \in Nat /\ DOMAIN queue = 1..Len(queue)
          /\ queue'[i] = queue[i + 1]
      BY <2>1, TailFacts DEF Types, StubTypes
    <3>2. i + 1 \in DOMAIN queue /\ 1 < i + 1
      BY <3>1
    <3> QED BY <1>3, <2>1, <2>3, <3>1, <3>2 DEF InTurn
  <2>4. req'.kind = k => NotAfter(panel'[k], req')
    BY <1>6, <1>7, <2>1, <2>2
  <2> QED BY <1>4, <1>9, <2>3, <2>4 DEF InTurn
<1>11. CASE req' = req /\ (Waiting' => Waiting)
  <2>1. ASSUME NEW i \in DOMAIN queue', queue'[i].kind = k, Waiting', req'.kind = k
        PROVE  NotAfter(req', queue'[i])
    BY <1>8, <1>11, <2>1
  <2>2. Waiting' /\ req'.kind = k => NotAfter(panel'[k], req')
    <3>1. NotAfter(req, req)
      BY DEF NotAfter, Types, StubTypes, RequestsOf
    <3> QED BY <1>6, <1>7, <1>11, <3>1
  <2> QED BY <1>4, <1>9, <2>1, <2>2 DEF InTurn
<1> QED BY <1>10, <1>11, StepRequest

-----------------------------------------------------------------------------
(* Changes on their way.  A step takes a request from the queue, makes a   *)
(* change, or pushes a request.                                            *)

Base == UnderWay(Len(up))
One(kind, k) == IF kind = k THEN 1 ELSE 0

Moved ==
  /\ queue # << >> /\ queue' = Tail(queue)
  /\ Base' = Base + One(Head(queue).kind, "change") /\ changes' = changes

Made ==
  /\ queue' = queue
  /\ \E n \in {0, 1} : Base' = Base + n /\ changes' = changes + n

Pushed ==
  \E r : /\ Fresh(r) /\ queue' = Append(queue, r)
         /\ Base' = Base /\ changes' = changes + One(r.kind, "change")

LEMMA BaseNat == ASSUME Types PROVE Base \in Nat /\ changes \in Nat /\ applied \in Nat
<1>1. Len(up) \in Nat /\ applied \in Nat /\ changes \in Nat
  BY DEF Types, DaemonTypes
<1>2. NumberOf("change", up, Len(up)) \in Nat
  BY <1>1, CountedFinite
<1> QED BY <1>1, <1>2 DEF Base, UnderWay

LEMMA BaseKept ==
  ASSUME Types, UNCHANGED <<up, applied>> PROVE Base' = Base
BY DEF Base, UnderWay, NumberOf

LEMMA PushedKind ==
  ASSUME Types, QueueStep, NEW x, queue' = Append(queue, x)
  PROVE  Fresh(x)
<1> DEFINE T == RequestsOf(Kinds) \cup {x}
<1>1. queue \in Seq(RequestsOf(Kinds))
  BY DEF Types, StubTypes
<1>2. queue \in Seq(T) /\ x \in T
  BY <1>1
<1> HIDE DEF T
<1>3. /\ Len(queue') = Len(queue) + 1 /\ queue'[Len(queue) + 1] = x /\ Len(queue) \in Nat
  BY <1>2, AppendFacts
<1>4. queue' # queue
  BY <1>3
<1>5. ~(queue # << >> /\ queue' = Tail(queue))
  BY <1>1, <1>3, TailFacts
<1>6. PICK r : Fresh(r) /\ queue' = Append(queue, r)
  BY <1>4, <1>5 DEF QueueStep
<1>7. r \in RequestsOf(Kinds)
  BY <1>6 DEF Fresh
<1>8. queue'[Len(queue) + 1] = r
  BY <1>1, <1>6, <1>7, AppendFacts
<1> QED BY <1>3, <1>6, <1>8

LEMMA AskedPushes ==
  ASSUME NEW kind, NEW s, NEW c, Asked(kind, s, c)
  PROVE  \E x : queue' = Append(queue, x) /\ x.kind = kind
BY DEF Asked, Request

LEMMA AskingPushes ==
  ASSUME Asking \/ OnMetricList \/ OnOpened
  PROVE  queue' = queue \/ \E x : queue' = Append(queue, x) /\ x.kind \in AllPanels
<1>1. CASE AskTarget
  BY <1>1, AskedPushes DEF AskTarget, AllPanels
<1>2. CASE AskShaders
  BY <1>2, AskedPushes DEF AskShaders, AllPanels
<1>3. CASE AskApi
  BY <1>3 DEF AskApi, Request, AllPanels
<1>4. CASE AskBatch \/ AskUniforms \/ AskState
  BY <1>4, AskedPushes DEF AskBatch, AskUniforms, AskState, AllPanels
<1>5. CASE AskBars \/ AskFrame
  BY <1>5, AskedPushes DEF AskBars, AskFrame, AllPanels
<1>6. CASE AskTable
  BY <1>6, AskedPushes DEF AskTable, AllPanels
<1>7. CASE OnMetricList \/ OnOpened
  BY <1>7, AskedPushes DEF OnMetricList, OnOpened, AllPanels
<1> QED BY <1>1, <1>2, <1>3, <1>4, <1>5, <1>6, <1>7 DEF Asking

LEMMA AskingMoves ==
  ASSUME Types, Protocol, Noted, Asking \/ OnMetricList \/ OnOpened
  PROVE  Made \/ Pushed
<1>1. QueueStep
  BY AskingQueue, OpenQueue
<1>2. UNCHANGED <<up, applied, changes>>
  BY DEF Asking, AskTarget, AskShaders, AskApi, AskBatch, AskUniforms, AskState,
         AskBars, AskFrame, AskTable, OnMetricList, OnOpened, Delivered, far, history
<1>3. Base' = Base /\ Base \in Nat /\ changes \in Nat
  BY <1>2, BaseKept, BaseNat
<1>4. CASE queue' = queue
  BY <1>2, <1>3, <1>4 DEF Made
<1>5. CASE \E x : queue' = Append(queue, x) /\ x.kind \in AllPanels
  <2>1. PICK x : queue' = Append(queue, x) /\ x.kind \in AllPanels
    BY <1>5
  <2>2. Fresh(x)
    BY <1>1, <2>1, PushedKind
  <2>3. One(x.kind, "change") = 0
    BY <2>1 DEF One, AllPanels
  <2> QED BY <1>2, <1>3, <2>1, <2>2, <2>3 DEF Pushed
<1> QED BY <1>4, <1>5, AskingPushes

LEMMA UserMoves ==
  ASSUME Types, Noted, Own, User
  PROVE  Pushed
<1>1. QueueStep
  BY UserQueue DEF User
<1>2. UNCHANGED <<up, applied>>
  BY DEF User, Change, SetUniform, OverrideShaders, Close, far
<1>3. Base' = Base /\ Base \in Nat /\ changes \in Nat
  BY <1>2, BaseKept, BaseNat
<1>4. \E x : queue' = Append(queue, x) /\ changes' = changes + One(x.kind, "change")
  <2>1. CASE Change \/ SetUniform
    BY <1>3, <2>1 DEF Change, SetUniform, Request, One
  <2>2. CASE (\E ctx \in 1..Contexts : OverrideShaders(ctx)) \/ Close
    <3>1. changes' = changes
      BY <2>2 DEF OverrideShaders, Close, history
    <3>3. ASSUME NEW k \in {"compile", "null"}, NEW s, NEW ctx,
                 queue' = Append(queue, Request(k, s, ctx))
          PROVE  \E x : queue' = Append(queue, x) /\ x.kind \in {"compile", "null"}
      BY <3>3 DEF Request
    <3>4. \E x : queue' = Append(queue, x) /\ x.kind \in {"compile", "null"}
      BY <2>2, <3>3 DEF OverrideShaders, Close
    <3>2. \A k \in {"compile", "null"} : changes = changes + One(k, "change")
      BY <1>3 DEF One
    <3> QED BY <3>1, <3>2, <3>4
  <2> QED BY <2>1, <2>2 DEF User
<1> QED BY <1>1, <1>3, <1>4, PushedKind DEF Pushed

LEMMA TakenMoves ==
  ASSUME Types, Protocol, Drop \/ Send
  PROVE  Moved
<1> DEFINE r == Head(queue)
<1>1. queue # << >> /\ queue' = Tail(queue) /\ changes' = changes /\ applied' = applied
      /\ r \in RequestsOf(Kinds)
  BY TailFacts DEF Drop, Send, far, Types, StubTypes
<1>2. CASE Drop
  <2>1. up' = up /\ Base' = Base /\ Base \in Nat
    BY <1>1, <1>2, BaseKept, BaseNat DEF Drop, far
  <2>2. r.kind # "change"
    BY <1>2 DEF Drop, Current
  <2> HIDE DEF r
  <2>3. One(r.kind, "change") = 0
    BY <2>2 DEF One
  <2> QED BY <1>1, <2>1, <2>3 DEF Moved, r
<1>3. CASE Send
  <2>1. up' = Append(up, r)
    BY <1>3 DEF Send
  <2>2. up \in Seq(RequestsOf(Kinds \cup {"data"})) /\ r \in RequestsOf(Kinds \cup {"data"})
    <3>1. RequestsOf(Kinds) \subseteq RequestsOf(Kinds \cup {"data"})
      BY DEF RequestsOf
    <3> QED BY <1>1, <3>1 DEF Types, DaemonTypes
  <2> HIDE DEF r
  <2>3. NumberOf("change", up', Len(up')) =
          NumberOf("change", up, Len(up)) + One(r.kind, "change")
    BY <2>1, <2>2, NumberOfAppend DEF One
  <2>4. NumberOf("change", up, Len(up)) \in Nat /\ applied \in Nat
    <3>1. Len(up) \in Nat
      BY <2>2
    <3> QED BY <3>1, CountedFinite, BaseNat
  <2>5. Base' = applied' + NumberOf("change", up', Len(up'))
        /\ Base = applied + NumberOf("change", up, Len(up))
    BY DEF Base, UnderWay
  <2>6. One(r.kind, "change") \in Nat
    BY DEF One
  <2>7. Base' = Base + One(r.kind, "change")
    BY <1>1, <2>3, <2>4, <2>5, <2>6
  <2> QED BY <1>1, <2>7 DEF Moved, r
<1> QED BY <1>2, <1>3

(* The daemon takes a request from the socket.                             *)
LEMMA TakenUp ==
  ASSUME Types, Protocol, OpenFile \/ ReceiveFile \/ Serve \/ ReplaceShaders
  PROVE  up' = << >> /\ NumberOf("change", up, Len(up)) = 0 /\ UNCHANGED queue
<1>1. up \in Seq(RequestsOf(Kinds \cup {"data"})) /\ up # << >> /\ up' = Tail(up)
      /\ Head(up) = up[1] /\ UNCHANGED queue
  BY TailFacts DEF OpenFile, ReceiveFile, Serve, ReplaceShaders, stub, Types, DaemonTypes
<1>2. Len(up) = 1 /\ up[1].kind # "change"
  <2>1. CASE ReceiveFile
    <3>1. Uploading /\ up # << >>
      BY <2>1 DEF ReceiveFile, Protocol, Resting, Sent, Answering, Forgotten
    <3> QED BY <3>1 DEF Uploading
  <2>2. CASE OpenFile \/ Serve \/ ReplaceShaders
    <3>1. daemon = "serving" /\ up # << >> /\ Head(up).kind # "change"
      BY <2>2, Apart DEF OpenFile, Serve, ReplaceShaders
    <3> QED BY <1>1, <3>1, FirstOut, SMTT(30)
  <2> QED BY <2>1, <2>2
<1>3. up' = << >>
  <2> DEFINE rest == Tail(up)
  <2>1. rest \in Seq(RequestsOf(Kinds \cup {"data"})) /\ Len(rest) = 0
    BY <1>1, <1>2, TailFacts
  <2> HIDE DEF rest
  <2>2. rest = << >>
    BY <2>1
  <2> QED BY <1>1, <2>2 DEF rest
<1>4. NumberOf("change", up, 1) = 0
  <2>1. NumberOf("change", up, 0 + 1) = NumberOf("change", up, 0) + 0
    BY <1>2, NumberOfNext
  <2> QED BY <2>1, NumberOfNone
<1> QED BY <1>1, <1>2, <1>3, <1>4

LEMMA ServedMoves ==
  ASSUME Types, Protocol, OpenFile \/ ReceiveFile \/ Serve \/ ReplaceShaders
  PROVE  Made
<1>1. up' = << >> /\ NumberOf("change", up, Len(up)) = 0 /\ UNCHANGED queue
  BY TakenUp
<1>2. NumberOf("change", up', Len(up')) = 0
  BY <1>1, NumberOfNone
<1>3. Base' = applied' + 0 /\ Base = applied + 0 /\ applied \in Nat /\ changes \in Nat
  BY <1>1, <1>2, BaseNat DEF Base, UnderWay
<1>4. \E n \in {0, 1} : applied' = applied + n /\ changes' = changes + n
  <2>1. CASE ReplaceShaders
    BY <2>1 DEF ReplaceShaders
  <2>2. CASE OpenFile \/ ReceiveFile \/ Serve
    <3>1. applied' = applied + 0 /\ changes' = changes + 0
      BY <1>3, <2>2 DEF OpenFile, ReceiveFile, Serve, history
    <3> QED BY <3>1, SMTT(30)
  <2> QED BY <2>1, <2>2
<1> QED BY <1>1, <1>3, <1>4 DEF Made

LEMMA MakeChangeMoves ==
  ASSUME Types, MakeChange
  PROVE  Made /\ \A i \in DOMAIN up' : UnderWay(i - 1)' = UnderWay(i)
<1>1. /\ up \in Seq(RequestsOf(Kinds \cup {"data"})) /\ up # << >> /\ up' = Tail(up)
      /\ up[1].kind = "change" /\ applied' = applied + 1 /\ UNCHANGED <<queue, changes>>
      /\ DOMAIN up' = 1..(Len(up) - 1) /\ Len(up') = Len(up) - 1 /\ Len(up) \in Nat \ {0}
  BY TailFacts DEF MakeChange, stub, history, Types, DaemonTypes
<1>2. ASSUME NEW n \in 0..(Len(up) - 1)
      PROVE  applied' + NumberOf("change", up', n) = applied + NumberOf("change", up, n + 1)
  <2>1. NumberOf("change", up, n + 1) = NumberOf("change", up', n) + 1
    BY <1>1, NumberOfTail
  <2>2. NumberOf("change", up', n) \in Nat /\ applied \in Nat
    <3>1. n \in Nat
      OBVIOUS
    <3> QED BY <3>1, CountedFinite, BaseNat
  <2> QED BY <1>1, <2>1, <2>2
<1>3. Base' = Base
  <2>1. Len(up) - 1 \in 0..(Len(up) - 1) /\ (Len(up) - 1) + 1 = Len(up)
    BY <1>1
  <2>2. applied' + NumberOf("change", up', Len(up) - 1) = applied + NumberOf("change", up, Len(up))
    BY <1>2, <2>1
  <2> QED BY <1>1, <2>2 DEF Base, UnderWay
<1>4. ASSUME NEW i \in DOMAIN up' PROVE UnderWay(i - 1)' = UnderWay(i)
  <2>1. i - 1 \in 0..(Len(up) - 1) /\ (i - 1) + 1 = i
    BY <1>1
  <2>2. applied' + NumberOf("change", up', i - 1) = applied + NumberOf("change", up, i)
    BY <1>2, <2>1
  <2> QED BY <2>2 DEF UnderWay
<1> QED BY <1>1, <1>3, <1>4, BaseNat DEF Made

LEMMA StepMoves ==
  ASSUME Types, Protocol, Noted, Own, Next PROVE Moved \/ Made \/ Pushed
<1>1. CASE Asking \/ OnMetricList \/ OnOpened
  BY <1>1, AskingMoves
<1>2. CASE User
  BY <1>2, UserMoves
<1>3. CASE Drop \/ Send
  BY <1>3, TakenMoves
<1>4. CASE OpenFile \/ ReceiveFile \/ Serve \/ MakeChange \/ ReplaceShaders
  BY <1>4, ServedMoves, MakeChangeMoves
<1>5. CASE OnUpload
  <2>1. UNCHANGED <<queue, changes, applied>> /\ up' = Append(up, [req EXCEPT !.kind = "data"])
    BY <1>5 DEF OnUpload, history
  <2> DEFINE x == [req EXCEPT !.kind = "data"]
  <2>2. x \in RequestsOf(Kinds \cup {"data"}) /\ x.kind = "data"
    BY DEF Types, StubTypes, RequestsOf
  <2>3. up \in Seq(RequestsOf(Kinds \cup {"data"})) /\ Len(up) \in Nat
    BY DEF Types, DaemonTypes
  <2>4. up' = Append(up, x)
    BY <2>1
  <2> HIDE DEF x
  <2>5. NumberOf("change", up', Len(up')) = NumberOf("change", up, Len(up)) + 0
    BY <2>2, <2>3, <2>4, NumberOfAppend
  <2>6. NumberOf("change", up, Len(up)) \in Nat /\ changes \in Nat /\ Base \in Nat
    BY <2>3, CountedFinite, BaseNat
  <2>7. Base' = Base
    BY <2>1, <2>5, <2>6 DEF Base, UnderWay
  <2> QED BY <2>1, <2>6, <2>7 DEF Made
<1>6. CASE \/ \E tab \in Tabs : Select(tab)
           \/ \E tab \in Tabs : Experiment(tab)
           \/ Refresh \/ ShadersChanged \/ ClearShaderList \/ Join
           \/ Read \/ ReadEnd \/ Showing \/ OnError
  <2>1. UNCHANGED <<queue, changes, applied, up>>
    <3>1. CASE Showing \/ OnError
      BY <3>1, SMTT(30) DEF Showing, OnRenderTarget, OnShaderAssembly, OnApi, ShowApi, OnBatch, OnUniform,
         OnState, OnTable, OnBars, OnShaderCompile, OnError, Delivered, far, history
    <3>2. CASE \/ \E tab \in Tabs : Select(tab)
               \/ \E tab \in Tabs : Experiment(tab)
               \/ Refresh \/ ShadersChanged \/ ClearShaderList \/ Join
               \/ Read \/ ReadEnd
      BY <3>2 DEF Select, Experiment, Refresh, ShadersChanged, ClearShaderList, Join,
         Read, ReadEnd, stub, far, history
    <3> QED BY <1>6, <3>1, <3>2
  <2> QED BY <2>1, BaseKept, BaseNat DEF Made
<1> QED BY <1>1, <1>2, <1>3, <1>4, <1>5, <1>6 DEF Next, Asking, User, Showing

(* What was noted when an experiment began does not change.                *)
LEMMA StepHistory ==
  ASSUME Types, Budget, Next
  PROVE  /\ \A e \in 0..exp : changedAt'[e] = changedAt[e]
         /\ \/ exp' = exp
            \/ exp' = exp + 1 /\ changedAt'[exp + 1] = changes /\ changes' = changes
<1>1. CASE \E tab \in Tabs : Experiment(tab)
  <2>1. /\ todo = <<"experiment">> /\ exp' = exp + 1 /\ changes' = changes
        /\ changedAt' = [changedAt EXCEPT ![exp + 1] = changes]
    BY <1>1 DEF Experiment
  <2>2. exp + 1 \in 0..MaxEdits /\ exp \in Nat /\ changedAt \in [0..MaxEdits -> Nat]
    BY <2>1, ExperimentLeft DEF Types, InterfaceTypes, DaemonTypes
  <2> QED BY <2>1, <2>2
<1>2. CASE ~(\E tab \in Tabs : Experiment(tab))
  <2>1. UNCHANGED <<exp, changedAt>>
    <3>1. CASE Asking \/ User \/ OnMetricList \/ OnOpened
      BY <3>1 DEF Asking, AskTarget, AskShaders, AskApi, AskBatch, AskUniforms, AskState,
         AskBars, AskFrame, AskTable, User, Change, SetUniform, OverrideShaders, Close,
         OnMetricList, OnOpened, Delivered, history
    <3>2. CASE Showing \/ OnError
      BY <3>2, SMTT(30) DEF Showing, OnRenderTarget, OnShaderAssembly, OnApi, ShowApi, OnBatch, OnUniform,
         OnState, OnTable, OnBars, OnShaderCompile, OnError, Delivered, history
    <3>3. CASE \/ \E tab \in Tabs : Select(tab)
               \/ Refresh \/ ShadersChanged \/ ClearShaderList \/ Join
               \/ Read \/ ReadEnd \/ Drop \/ Send \/ OnUpload
               \/ OpenFile \/ ReceiveFile \/ Serve \/ MakeChange \/ ReplaceShaders
      BY <3>3 DEF Select, Refresh, ShadersChanged, ClearShaderList, Join, Read, ReadEnd,
         Drop, Send, OnUpload, OpenFile, ReceiveFile, Serve, MakeChange, ReplaceShaders,
         ui, history
    <3> QED BY <1>2, <3>1, <3>2, <3>3 DEF Next, Asking, User, Showing
  <2> QED BY <2>1
<1> QED BY <1>1, <1>2

LEMMA UpSent ==
  ASSUME Types, Protocol, Noted, NEW i \in DOMAIN up, up[i].kind \in Panels
  PROVE  up[i] = req /\ i = Len(up) /\ req \in RequestsOf(Panels) /\ req.exp <= exp
<1>1. Len(up) \in Nat /\ i \in 1..Len(up)
  BY DEF Types, DaemonTypes
<1>2. CASE Sent
  <2>1. i = Len(up)
    BY <1>1, <1>2, Apart DEF Sent
  <2>2. up[i] = req /\ req \in RequestsOf(Kinds) /\ req.kind \in Panels
    BY <1>2, <2>1 DEF Sent, Types, StubTypes
  <2> QED BY <2>1, <2>2 DEF RequestsOf, Noted, Known
<1>3. CASE ~Sent
  <2>1. Changing(up) \/ up = << >> \/ (Len(up) = 1 /\ up[1].kind = "data")
    BY <1>3 DEF Protocol, Resting, Uploading, Answering, Forgotten
  <2> QED BY <1>1, <2>1, Apart DEF Changing
<1> QED BY <1>2, <1>3

(* A step leaves what is on its way to the daemon behind the changes that  *)
(* it waits for.                                                           *)
LEMMA UpChanged ==
  ASSUME Types, Protocol, Noted, Changed, Budget, Next
  PROVE  \A i \in DOMAIN up' :
           up'[i].kind \in Panels => changedAt'[up'[i].exp] <= UnderWay(i - 1)'
<1>1. \A e \in 0..exp : changedAt'[e] = changedAt[e]
  BY StepHistory
<1>2. /\ up \in Seq(RequestsOf(Kinds \cup {"data"})) /\ Len(up) \in Nat /\ DOMAIN up = 1..Len(up)
      /\ exp \in Nat
  BY DEF Types, DaemonTypes, InterfaceTypes
<1>3. ASSUME NEW i \in DOMAIN up, up[i].kind \in Panels
      PROVE  changedAt'[up[i].exp] = changedAt[up[i].exp] /\ changedAt[up[i].exp] <= UnderWay(i - 1)
  <2>1. up[i].exp \in 0..exp
    BY <1>2, <1>3, UpSent DEF RequestsOf
  <2> QED BY <1>1, <1>3, <2>1 DEF Changed
<1>4. CASE UNCHANGED <<up, applied>>
  <2>1. \A n : UnderWay(n)' = UnderWay(n)
    BY <1>4 DEF UnderWay, NumberOf
  <2> QED BY <1>3, <1>4, <2>1
<1>5. ASSUME NEW x \in RequestsOf(Kinds \cup {"data"}), up' = Append(up, x), applied' = applied,
             x.kind \in Panels => changedAt'[x.exp] <= Base
      PROVE  \A i \in DOMAIN up' :
               up'[i].kind \in Panels => changedAt'[up'[i].exp] <= UnderWay(i - 1)'
  <2>1. /\ DOMAIN up' = 1..(Len(up) + 1) /\ up'[Len(up) + 1] = x
        /\ \A i \in 1..Len(up) : up'[i] = up[i]
    BY <1>2, <1>5, AppendFacts
  <2>2. \A n \in 0..Len(up) : applied' + NumberOf("change", up', n) = applied + NumberOf("change", up, n)
    <3> SUFFICES ASSUME NEW n \in 0..Len(up)
                 PROVE  applied' + NumberOf("change", up', n) = applied + NumberOf("change", up, n)
      OBVIOUS
    <3>1. n \in Nat /\ \A i \in 1..n : up'[i] = up[i]
      BY <1>2, <2>1
    <3>2. NumberOf("change", up', n) = NumberOf("change", up, n)
      BY <3>1, NumberOfSame, Zenon
    <3> QED BY <1>5, <3>2
  <2>3. \A n \in 0..Len(up) : UnderWay(n)' = UnderWay(n)
    BY <2>2 DEF UnderWay
  <2> SUFFICES ASSUME NEW i \in DOMAIN up', up'[i].kind \in Panels
               PROVE  changedAt'[up'[i].exp] <= UnderWay(i - 1)'
    OBVIOUS
  <2>4. CASE i \in 1..Len(up)
    <3>1. i - 1 \in 0..Len(up) /\ up'[i] = up[i] /\ i \in DOMAIN up
      BY <1>2, <2>1, <2>4
    <3>2. UnderWay(i - 1)' = UnderWay(i - 1)
      BY <2>3, <3>1
    <3>3. up[i].kind \in Panels
      BY <3>1
    <3>4. changedAt'[up[i].exp] <= UnderWay(i - 1)
      BY <1>3, <3>1, <3>3
    <3> QED BY <3>1, <3>2, <3>4
  <2>5. CASE i = Len(up) + 1
    <3>1. i - 1 = Len(up) /\ Len(up) \in 0..Len(up) /\ up'[i] = x
      BY <1>2, <2>1, <2>5
    <3>2. UnderWay(i - 1)' = Base
      BY <2>3, <3>1 DEF Base
    <3> QED BY <1>5, <3>1, <3>2
  <2> QED BY <2>1, <2>4, <2>5
<1>6. CASE Send
  <2> DEFINE r == Head(queue)
  <2>1. /\ up' = Append(up, r) /\ applied' = applied /\ r = queue[1] /\ 1 \in DOMAIN queue
        /\ r \in RequestsOf(Kinds) /\ 1 - 1 = 0
    BY <1>6, TailFacts DEF Send, Types, StubTypes
  <2>2. r \in RequestsOf(Kinds \cup {"data"}) /\ r.exp \in 0..exp
    <3>1. RequestsOf(Kinds) \subseteq RequestsOf(Kinds \cup {"data"})
      BY DEF RequestsOf
    <3>2. Known(r)
      BY <2>1 DEF Noted
    <3>3. r.exp \in Nat /\ r.exp <= exp
      BY <2>1, <3>2 DEF Known, RequestsOf
    <3>4. r.exp \in 0..exp
      BY <1>2, <3>3
    <3> QED BY <2>1, <3>1, <3>4
  <2> HIDE DEF r
  <2>3. changedAt[r.exp] <= Queued(0)
    BY <2>1 DEF Changed
  <2>4. Queued(0) = Base
    BY NumberOfNone, BaseNat DEF Queued, Base
  <2>5. changedAt'[r.exp] <= Base
    BY <1>1, <2>2, <2>3, <2>4
  <2> QED BY <1>5, <2>1, <2>2, <2>5
<1>7. CASE OnUpload
  <2> DEFINE x == [req EXCEPT !.kind = "data"]
  <2>1. up' = Append(up, x) /\ applied' = applied
    BY <1>7 DEF OnUpload
  <2>2. x \in RequestsOf(Kinds \cup {"data"}) /\ x.kind \notin Panels
    BY Apart DEF Types, StubTypes, RequestsOf
  <2> HIDE DEF x
  <2> QED BY <1>5, <2>1, <2>2
<1>8. CASE OpenFile \/ ReceiveFile \/ Serve \/ ReplaceShaders
  <2>1. up' = << >>
    BY <1>8, TakenUp
  <2> QED BY <2>1
<1>9. CASE MakeChange
  <2>1. /\ up # << >> /\ up' = Tail(up)
    BY <1>9 DEF MakeChange
  <2> SUFFICES ASSUME NEW i \in DOMAIN up', up'[i].kind \in Panels
               PROVE  changedAt'[up'[i].exp] <= UnderWay(i - 1)'
    OBVIOUS
  <2>2. UnderWay(i - 1)' = UnderWay(i)
    BY <1>9, MakeChangeMoves
  <2>3. i \in 1..(Len(up) - 1) /\ up'[i] = up[i + 1]
    BY <1>2, <2>1, TailFacts
  <2>4. i + 1 \in DOMAIN up /\ (i + 1) - 1 = i /\ up[i + 1].kind \in Panels
    BY <1>2, <2>3
  <2>5. changedAt'[up[i + 1].exp] <= UnderWay((i + 1) - 1)
    BY <1>3, <2>4
  <2> QED BY <2>2, <2>3, <2>4, <2>5
<1>10. \/ UNCHANGED <<up, applied>>
       \/ Send \/ OnUpload
       \/ OpenFile \/ ReceiveFile \/ Serve \/ MakeChange \/ ReplaceShaders
  <2>1. CASE Asking \/ User \/ OnMetricList \/ OnOpened
    BY <2>1 DEF Asking, AskTarget, AskShaders, AskApi, AskBatch, AskUniforms, AskState,
       AskBars, AskFrame, AskTable, User, Change, SetUniform, OverrideShaders, Close,
       OnMetricList, OnOpened, Delivered, far
  <2>2. CASE Showing \/ OnError
    BY <2>2, SMTT(30) DEF Showing, OnRenderTarget, OnShaderAssembly, OnApi, ShowApi, OnBatch, OnUniform,
       OnState, OnTable, OnBars, OnShaderCompile, OnError, Delivered, far
  <2>3. CASE \/ \E tab \in Tabs : Select(tab)
             \/ \E tab \in Tabs : Experiment(tab)
             \/ Refresh \/ ShadersChanged \/ ClearShaderList \/ Join
             \/ Read \/ ReadEnd \/ Drop
    BY <2>3 DEF Select, Experiment, Refresh, ShadersChanged, ClearShaderList, Join,
       Read, ReadEnd, Drop, far
  <2> QED BY <2>1, <2>2, <2>3 DEF Next, Asking, User, Showing
<1> QED BY <1>4, <1>6, <1>7, <1>8, <1>9, <1>10

LEMMA QueueChanged ==
  ASSUME Types, Protocol, Noted, Own, Changed, Budget, Next
  PROVE  /\ Queued(Len(queue))' = changes' /\ changes <= changes'
         /\ \A i \in DOMAIN queue' : changedAt'[queue'[i].exp] <= Queued(i - 1)'
<1>1. \A e \in 0..exp : changedAt'[e] = changedAt[e]
  BY StepHistory
<1>2. /\ queue \in Seq(RequestsOf(Kinds)) /\ Len(queue) \in Nat /\ DOMAIN queue = 1..Len(queue)
      /\ exp \in Nat /\ Base \in Nat /\ changes \in Nat
  BY BaseNat DEF Types, StubTypes, InterfaceTypes
<1>3. \A r \in RequestsOf(Kinds) : r.exp \in Nat
  BY DEF RequestsOf
<1>4. ASSUME NEW i \in DOMAIN queue
      PROVE  /\ changedAt'[queue[i].exp] <= Base + NumberOf("change", queue, i - 1)
             /\ i - 1 \in Nat /\ NumberOf("change", queue, i - 1) \in Nat
             /\ changedAt'[queue[i].exp] \in Nat
  <2>1. queue[i] \in RequestsOf(Kinds) /\ Known(queue[i]) /\ i - 1 \in Nat
    BY <1>2 DEF Noted
  <2>2. queue[i].exp \in 0..exp
    BY <1>2, <1>3, <2>1 DEF Known
  <2>3. changedAt[queue[i].exp] <= Base + NumberOf("change", queue, i - 1)
    BY DEF Changed, Queued, Base
  <2>4. changedAt[queue[i].exp] \in Nat
    BY <1>2, <2>2, CountsAssumption DEF Types, DaemonTypes, InterfaceTypes
  <2> QED BY <1>1, <2>1, <2>2, <2>3, <2>4, CountedFinite
<1>5. Base + NumberOf("change", queue, Len(queue)) = changes
      /\ NumberOf("change", queue, Len(queue)) \in Nat
  BY <1>2, CountedFinite DEF Changed, Queued, Base
<1>6. SUFFICES /\ Base' + NumberOf("change", queue', Len(queue')) = changes' /\ changes <= changes'
               /\ \A i \in DOMAIN queue' :
                    changedAt'[queue'[i].exp] <= Base' + NumberOf("change", queue', i - 1)
  BY DEF Queued, Base
<1>7. CASE Moved
  <2> DEFINE k == One(Head(queue).kind, "change")
  <2>1. queue # << >> /\ queue' = Tail(queue) /\ Base' = Base + k /\ changes' = changes
        /\ k \in Nat /\ k = (IF queue[1].kind = "change" THEN 1 ELSE 0)
    BY <1>2, <1>7, TailFacts DEF Moved, One
  <2> HIDE DEF k
  <2>2. /\ Len(queue') = Len(queue) - 1 /\ DOMAIN queue' = 1..(Len(queue) - 1)
        /\ Len(queue) \in Nat \ {0}
        /\ \A i \in 1..(Len(queue) - 1) : queue'[i] = queue[i + 1]
    BY <1>2, <2>1, TailFacts
  <2>3. \A n \in 0..(Len(queue) - 1) :
          NumberOf("change", queue, n + 1) = NumberOf("change", queue', n) + k
    BY <1>2, <2>1, NumberOfTail
  <2>4. \A n \in Nat : NumberOf("change", queue', n) \in Nat
    BY CountedFinite
  <2>5. Base' + NumberOf("change", queue', Len(queue')) = changes'
    <3>1. Len(queue) - 1 \in 0..(Len(queue) - 1) /\ (Len(queue) - 1) + 1 = Len(queue)
          /\ Len(queue) - 1 \in Nat
      BY <2>2
    <3>2. NumberOf("change", queue, Len(queue)) = NumberOf("change", queue', Len(queue) - 1) + k
      BY <2>3, <3>1
    <3>3. NumberOf("change", queue', Len(queue) - 1) \in Nat
      BY <2>4, <3>1
    <3> QED BY <1>2, <1>5, <2>1, <2>2, <3>2, <3>3
  <2>6. ASSUME NEW i \in DOMAIN queue'
        PROVE  changedAt'[queue'[i].exp] <= Base' + NumberOf("change", queue', i - 1)
    <3>1. i - 1 \in 0..(Len(queue) - 1) /\ i - 1 \in Nat /\ (i - 1) + 1 = i /\ i + 1 \in DOMAIN queue
          /\ (i + 1) - 1 = i /\ queue'[i] = queue[i + 1]
      BY <1>2, <2>2
    <3>2. NumberOf("change", queue, i) = NumberOf("change", queue', i - 1) + k
      BY <2>3, <3>1
    <3>3. changedAt'[queue[i + 1].exp] <= Base + NumberOf("change", queue, (i + 1) - 1)
          /\ changedAt'[queue[i + 1].exp] \in Nat
      BY <1>4, <3>1
    <3>4. NumberOf("change", queue', i - 1) \in Nat
      BY <2>4, <3>1
    <3>5. Base + NumberOf("change", queue, i) = Base' + NumberOf("change", queue', i - 1)
      BY <1>2, <2>1, <3>2, <3>4
    <3> QED BY <3>1, <3>3, <3>5
  <2> QED BY <1>2, <2>1, <2>5, <2>6
<1>8. CASE Made
  <2>1. PICK n \in {0, 1} : Base' = Base + n /\ changes' = changes + n
    BY <1>8 DEF Made
  <2>2. queue' = queue
    BY <1>8 DEF Made
  <2>3. Base' + NumberOf("change", queue', Len(queue')) = changes' /\ changes <= changes'
    BY <1>2, <1>5, <2>1, <2>2
  <2>4. ASSUME NEW i \in DOMAIN queue'
        PROVE  changedAt'[queue'[i].exp] <= Base' + NumberOf("change", queue', i - 1)
    <3>1. /\ changedAt'[queue[i].exp] <= Base + NumberOf("change", queue, i - 1)
          /\ NumberOf("change", queue, i - 1) \in Nat
          /\ changedAt'[queue[i].exp] \in Nat
      BY <1>4, <2>2
    <3>2. Base + NumberOf("change", queue, i - 1) <= Base' + NumberOf("change", queue, i - 1)
      BY <1>2, <2>1, <3>1
    <3>3. changedAt'[queue[i].exp] <= Base' + NumberOf("change", queue, i - 1)
      BY <1>2, <2>1, <3>1, <3>2
    <3> QED BY <2>2, <3>3
  <2> QED BY <2>3, <2>4
<1>9. CASE Pushed
  <2>1. PICK r : /\ Fresh(r) /\ queue' = Append(queue, r)
                 /\ Base' = Base /\ changes' = changes + One(r.kind, "change")
    BY <1>9 DEF Pushed
  <2>2. r \in RequestsOf(Kinds) /\ r.exp \in 0..exp /\ One(r.kind, "change") \in Nat
    BY <1>2, <1>3, <2>1 DEF Fresh, One
  <2>3. /\ Len(queue') = Len(queue) + 1 /\ DOMAIN queue' = 1..(Len(queue) + 1)
        /\ queue'[Len(queue) + 1] = r /\ \A i \in 1..Len(queue) : queue'[i] = queue[i]
    BY <1>2, <2>1, <2>2, AppendFacts
  <2>4. /\ NumberOf("change", queue', Len(queue')) =
             NumberOf("change", queue, Len(queue)) + One(r.kind, "change")
        /\ \A n \in 0..Len(queue) : NumberOf("change", queue', n) = NumberOf("change", queue, n)
    BY <1>2, <2>1, <2>2, NumberOfAppend DEF One
  <2>5. Base' + NumberOf("change", queue', Len(queue')) = changes' /\ changes <= changes'
    BY <1>2, <1>5, <2>1, <2>2, <2>4
  <2>6. ASSUME NEW i \in DOMAIN queue'
        PROVE  changedAt'[queue'[i].exp] <= Base' + NumberOf("change", queue', i - 1)
    <3>1. CASE i \in 1..Len(queue)
      <4>1. i \in DOMAIN queue /\ i - 1 \in 0..Len(queue) /\ queue'[i] = queue[i]
        BY <1>2, <2>3, <3>1
      <4>2. NumberOf("change", queue', i - 1) = NumberOf("change", queue, i - 1)
        BY <2>4, <4>1
      <4>3. changedAt'[queue[i].exp] <= Base + NumberOf("change", queue, i - 1)
        BY <1>4, <4>1
      <4> QED BY <2>1, <4>1, <4>2, <4>3
    <3>2. CASE i = Len(queue) + 1
      <4>1. i - 1 = Len(queue) /\ Len(queue) \in 0..Len(queue) /\ queue'[i] = r
        BY <1>2, <2>3, <3>2
      <4>2. NumberOf("change", queue', i - 1) = NumberOf("change", queue, Len(queue))
        BY <2>4, <4>1
      <4>3. changedAt'[r.exp] = changedAt[r.exp] /\ changedAt[r.exp] <= changes
        BY <1>1, <2>2 DEF Changed
      <4> QED BY <1>5, <2>1, <4>1, <4>2, <4>3
    <3> QED BY <2>3, <3>1, <3>2
  <2> QED BY <2>5, <2>6
<1> QED BY <1>7, <1>8, <1>9, StepMoves

LEMMA StepChanged ==
  ASSUME Types, Protocol, Noted, Own, Changed, Budget, Next PROVE Changed'
<1>1. /\ Queued(Len(queue))' = changes' /\ changes <= changes'
      /\ \A i \in DOMAIN queue' : changedAt'[queue'[i].exp] <= Queued(i - 1)'
  BY QueueChanged
<1>2. \A i \in DOMAIN up' :
        up'[i].kind \in Panels => changedAt'[up'[i].exp] <= UnderWay(i - 1)'
  BY UpChanged
<1>3. ASSUME NEW e \in 0..exp' PROVE changedAt'[e] <= changes'
  <2>1. /\ exp \in Nat /\ exp \in 0..MaxEdits /\ changes \in Nat /\ MaxEdits \in Nat
        /\ changedAt \in [0..MaxEdits -> Nat] /\ changes' \in Nat
    <3>1. DaemonTypes'
      BY StepDaemon
    <3> QED BY <3>1, CountsAssumption DEF Types, InterfaceTypes, DaemonTypes
  <2>2. /\ \A x \in 0..exp : changedAt'[x] = changedAt[x]
        /\ \/ exp' = exp
           \/ exp' = exp + 1 /\ changedAt'[exp + 1] = changes /\ changes' = changes
    BY StepHistory
  <2>3. CASE e \in 0..exp
    <3>1. changedAt[e] <= changes /\ changedAt[e] \in Nat /\ changedAt'[e] = changedAt[e]
      BY <2>1, <2>2, <2>3 DEF Changed
    <3> QED BY <1>1, <2>1, <3>1
  <2>4. CASE e \notin 0..exp
    <3>1. e = exp + 1 /\ changedAt'[e] = changes
      BY <2>1, <2>2, <2>4
    <3> QED BY <1>1, <3>1
  <2> QED BY <2>3, <2>4
<1> QED BY <1>1, <1>2, <1>3 DEF Changed

-----------------------------------------------------------------------------
(* Answers are computed after the changes of the experiment they are for.  *)

LEMMA AppliedCounts ==
  ASSUME Types, Budget, Next, NEW a \in Results, Counted(a)
  PROVE  /\ a.of.exp <= exp' /\ changedAt'[a.of.exp] <= a.made
         /\ a.kind # "target" => a.exp = a.of.exp
<1>1. a.of.exp \in Nat /\ exp \in Nat /\ exp' \in {exp, exp + 1}
  BY StepCounts DEF Results, RequestsOf, Types, InterfaceTypes
<1>2. a.of.exp \in 0..exp /\ a.of.exp <= exp'
  BY <1>1 DEF Counted
<1>3. changedAt'[a.of.exp] = changedAt[a.of.exp]
  BY <1>2, StepHistory
<1> QED BY <1>2, <1>3 DEF Counted

LEMMA PlainTail ==
  ASSUME NEW S, NEW s \in Seq(Messages), NEW m \in [kind : Plain],
         \A i \in DOMAIN s : s[i] \in Results => s[i] \in S
  PROVE  \A i \in DOMAIN Append(s, m) : Append(s, m)[i] \in Results => Append(s, m)[i] \in S
<1>1. m \notin Results /\ m \in Messages
  BY KindsApart DEF Messages
<1>2. /\ DOMAIN Append(s, m) = 1..(Len(s) + 1) /\ Append(s, m)[Len(s) + 1] = m
      /\ DOMAIN s = 1..Len(s) /\ Len(s) \in Nat
      /\ \A i \in 1..Len(s) : Append(s, m)[i] = s[i]
  BY <1>1, AppendFacts
<1> QED BY <1>1, <1>2

(* What the daemon sends, all of it made with the changes so far.          *)
LEMMA DownCounted ==
  ASSUME Types, Protocol, Noted, Changed, Dated, Budget, Next
  PROVE  \A i \in DOMAIN down' : down'[i] \in Results =>
           \/ \E j \in DOMAIN down : down'[i] = down[j]
           \/ Counted(down'[i])
<1>1. down \in Seq(Messages)
  BY DEF Types, DaemonTypes
<1>2. CASE down' = down
  BY <1>2
<1>3. CASE Read \/ ReadEnd
  <2>1. down # << >> /\ down' = Tail(down)
    BY <1>3 DEF Read, ReadEnd
  <2>2. /\ DOMAIN down' = 1..(Len(down) - 1) /\ DOMAIN down = 1..Len(down) /\ Len(down) \in Nat
        /\ \A i \in 1..(Len(down) - 1) : down'[i] = down[i + 1]
    BY <1>1, <2>1, TailFacts
  <2>3. \A i \in DOMAIN down' : i + 1 \in DOMAIN down /\ down'[i] = down[i + 1]
    BY <2>2
  <2> QED BY <2>3
<1>4. ASSUME req.kind = "open", Play(<< >>), UNCHANGED req
      PROVE  \A i \in DOMAIN down' : down'[i] \notin Results
  <2>1. down' \in Seq([kind : Plain])
    BY <1>4, PlayAnswers
  <2>2. \A i \in DOMAIN down' : down'[i] \in [kind : Plain]
    BY <2>1, ElementOf
  <2> QED BY <2>2, KindsApart
<1>5. CASE OpenFile
  <2>1. Sent /\ Head(up) = req /\ UNCHANGED req
    BY <1>5, FirstOut DEF OpenFile, stub
  <2>2. down = << >> /\ req.kind = "open"
    BY <1>5, <2>1 DEF Sent, OpenFile
  <2>3. CASE Play(down)
    BY <1>4, <2>1, <2>2, <2>3
  <2>4. CASE down' = Append(down, Message("upload"))
    <3>1. down' = <<Message("upload")>> /\ Message("upload") \in [kind : Plain]
      BY <2>2, <2>4 DEF Message, Plain
    <3>2. Message("upload") \notin Results
      BY <3>1, KindsApart
    <3> QED BY <3>1, <3>2
  <2> QED BY <1>5, <2>3, <2>4 DEF OpenFile
<1>6. CASE ReceiveFile
  <2>1. Uploading /\ UNCHANGED req
    BY <1>6 DEF ReceiveFile, stub, Protocol, Resting, Sent, Answering, Forgotten
  <2>2. down = << >> /\ req.kind = "open" /\ Play(down)
    BY <1>6, <2>1 DEF Uploading, ReceiveFile
  <2> QED BY <1>4, <2>1, <2>2
<1>7. CASE Serve
  <2>1. /\ Sent /\ Head(up) = req /\ req \in RequestsOf(Panels)
        /\ \/ \E n \in 0..Parts[req.kind] : down' = Answers(req, n)
           \/ down' = <<Message("warning")>> \o Answers(req, 0)
    BY <1>7, ServeAnswers
  <2>2. req.kind \in Panels /\ Parts[req.kind] \in Nat
    BY <2>1, CountsAssumption DEF RequestsOf
  <2>3. req.exp <= exp /\ changedAt[req.exp] <= applied
    <3>1. Len(up) \in Nat \ {0} /\ 1 \in DOMAIN up /\ up[1] = req
      <4>1. up # << >> /\ up \in Seq(RequestsOf(Kinds \cup {"data"}))
        BY <2>1 DEF Sent, Types, DaemonTypes
      <4> QED BY <2>1, <4>1, TailFacts
    <3>2. changedAt[req.exp] <= UnderWay(1 - 1)
      BY <2>2, <3>1 DEF Changed
    <3>3. UnderWay(0) = applied
      BY NumberOfNone, BaseNat DEF UnderWay
    <3> QED BY <3>2, <3>3 DEF Noted, Known
  <2>4. ASSUME NEW n \in 0..Parts[req.kind]
        PROVE  /\ Answers(req, n) \in Seq(Results)
               /\ \A i \in DOMAIN Answers(req, n) : Counted(Answers(req, n)[i])
    <3>1. n \in Nat
      BY <2>2
    <3>2. /\ Answers(req, n) \in Seq(Results) /\ Len(Answers(req, n)) = n + 1
          /\ \A i \in 1..(n + 1) : /\ Answers(req, n)[i].made = applied
                                   /\ Answers(req, n)[i].of = req
                                   /\ Answers(req, n)[i].exp = req.exp
      BY <2>1, AnswersParts
    <3>3. DOMAIN Answers(req, n) = 1..(n + 1)
      BY <3>1, <3>2
    <3> QED BY <2>3, <3>2, <3>3 DEF Counted
  <2>5. CASE \E n \in 0..Parts[req.kind] : down' = Answers(req, n)
    BY <2>4, <2>5
  <2>6. CASE down' = <<Message("warning")>> \o Answers(req, 0)
    <3> DEFINE w == Message("warning")
               rest == Answers(req, 0)
    <3>1. 0 \in 0..Parts[req.kind]
      BY <2>2
    <3>2. rest \in Seq(Results) /\ Len(rest) = 1 /\ Counted(rest[1])
      <4>1. rest \in Seq(Results) /\ Len(rest) = 0 + 1
        BY <2>1, <3>1, AnswersParts
      <4>2. 1 \in DOMAIN rest
        BY <4>1
      <4> QED BY <2>4, <3>1, <4>1, <4>2
    <3>3. w \notin Results
      <4>1. w \in [kind : Plain]
        BY DEF Message, Plain
      <4> QED BY <4>1, KindsApart
    <3> HIDE DEF w, rest
    <3>4. down' = <<w, rest[1]>>
      <4>1. down' = <<w>> \o rest
        BY <2>6 DEF w, rest
      <4>2. rest = <<rest[1]>>
        BY <3>2
      <4>3. <<w>> \o <<rest[1]>> = <<w, rest[1]>>
        BY TuplesConcat
      <4> QED BY <4>1, <4>2, <4>3, Zenon
    <3> QED BY <3>2, <3>3, <3>4
  <2> QED BY <2>1, <2>5, <2>6
<1>8. CASE ReplaceShaders
  <2>1. \/ down' = down
        \/ \E m \in {Message("compiled"), Message("failed")} : down' = Append(down, m)
    BY <1>8 DEF ReplaceShaders
  <2>2. CASE \E m \in {Message("compiled"), Message("failed")} : down' = Append(down, m)
    <3>1. PICK m \in {Message("compiled"), Message("failed")} : down' = Append(down, m)
      BY <2>2
    <3>2. m \in [kind : Plain]
      BY DEF Message, Plain
    <3>3. \A i \in DOMAIN down : down[i] \in Results => down[i] \in {down[j] : j \in DOMAIN down}
      OBVIOUS
    <3>4. \A i \in DOMAIN down' : down'[i] \in Results => down'[i] \in {down[j] : j \in DOMAIN down}
      BY <1>1, <3>1, <3>2, <3>3, PlainTail
    <3> QED BY <3>4
  <2> QED BY <1>2, <2>1, <2>2
<1>9. \/ down' = down \/ Read \/ ReadEnd
      \/ OpenFile \/ ReceiveFile \/ Serve \/ ReplaceShaders
  <2>1. CASE Asking \/ User \/ OnMetricList \/ OnOpened
    BY <2>1 DEF Asking, AskTarget, AskShaders, AskApi, AskBatch, AskUniforms, AskState,
       AskBars, AskFrame, AskTable, User, Change, SetUniform, OverrideShaders, Close,
       OnMetricList, OnOpened, Delivered, far
  <2>2. CASE Showing \/ OnError
    BY <2>2, SMTT(30) DEF Showing, OnRenderTarget, OnShaderAssembly, OnApi, ShowApi, OnBatch, OnUniform,
       OnState, OnTable, OnBars, OnShaderCompile, OnError, Delivered, far
  <2>3. CASE \/ \E tab \in Tabs : Select(tab)
             \/ \E tab \in Tabs : Experiment(tab)
             \/ Refresh \/ ShadersChanged \/ ClearShaderList \/ Join
             \/ Drop \/ Send \/ OnUpload \/ MakeChange
    BY <2>3 DEF Select, Experiment, Refresh, ShadersChanged, ClearShaderList, Join,
       Drop, Send, OnUpload, MakeChange, far
  <2> QED BY <2>1, <2>2, <2>3 DEF Next, Asking, User, Showing
<1> QED BY <1>2, <1>3, <1>5, <1>6, <1>7, <1>8, <1>9

(* What is held is what has been read, except for its ids if it is an      *)
(* image.                                                                  *)
LEMMA GotCounted ==
  ASSUME Types, Protocol, Dated, Next, got' \in Results
  PROVE  Counted(got')
<1>1. Nothing \notin Results
  BY KindsApart DEF Messages
<1>2. ASSUME NEW a \in Results, Counted(a)
      PROVE  /\ Counted(Labelled(a))
             /\ "target" \in Panels => Counted(Labelled([a EXCEPT !.kind = "target"]))
  BY <1>2 DEF Results, Labelled, Counted
<1>3. CASE Read \/ ReadEnd
  <2> DEFINE a == Head(down)
  <2>1. a \in Messages /\ (a \in Results => Counted(a))
    <3>1. down \in Seq(Messages) /\ down # << >>
      BY <1>3 DEF Read, ReadEnd, Types, DaemonTypes
    <3>2. a = down[1] /\ 1 \in DOMAIN down /\ a \in Messages
      BY <3>1, TailFacts
    <3> QED BY <3>2 DEF Dated
  <2>2. CASE a \in Results
    <3>1. Counted(Labelled(a)) /\ Counted(a)
      BY <1>2, <2>1, <2>2
    <3>2. req.kind = "target" => Counted(Labelled([a EXCEPT !.kind = "target"]))
      BY <1>2, <2>1, <2>2 DEF Types, StubTypes, RequestsOf, Kinds
    <3>3. \/ got' \in {Labelled(a), a, Nothing}
          \/ req.kind = "target" /\ got' = Labelled([a EXCEPT !.kind = "target"])
      <4>1. CASE Read
        BY <4>1 DEF Read
      <4>2. CASE ReadEnd
        BY <4>2 DEF ReadEnd
      <4> QED BY <1>3, <4>1, <4>2
    <3> QED BY <1>1, <3>1, <3>2, <3>3
  <2>3. CASE a \notin Results
    <3>1. a \in [kind : Plain] /\ a.kind \in Plain
      BY <2>1, <2>3 DEF Messages
    <3>2. a.kind # "end" /\ Labelled(a) = a
      BY <3>1 DEF Plain, Labelled
    <3>3. got' \in {a, Nothing}
      BY <1>3, <3>2 DEF Read, ReadEnd
    <3> QED BY <1>1, <2>3, <3>3
  <2> QED BY <2>2, <2>3
<1>4. CASE ~Read /\ ~ReadEnd
  <2>1. got' \in {got, Nothing}
    BY <1>4, GotKept
  <2> QED BY <1>1, <2>1 DEF Dated
<1> QED BY <1>3, <1>4

LEMMA StepDated ==
  ASSUME Types, Protocol, Noted, Own, Changed, Dated, Budget, Next PROVE Dated'
<1>1. PanelStep /\ Types'
  BY StepPanels, StepTypes
<1>2. \A a \in Results : Counted(a) =>
        /\ a.of.exp <= exp' /\ changedAt'[a.of.exp] <= a.made
        /\ a.kind # "target" => a.exp = a.of.exp
  BY AppliedCounts
<1>3. ASSUME NEW i \in DOMAIN down', down'[i] \in Results PROVE Counted(down'[i])
  BY <1>3, DownCounted DEF Dated
<1>4. got' \in Results => Counted(got')
  BY GotCounted
<1>5. \A p \in Panels : panel[p].shown \subseteq Results /\ panel'[p].shown \subseteq Results
  BY <1>1 DEF Types, InterfaceTypes, Shown
<1>6. collected \subseteq Results /\ collected' \subseteq Results
  BY <1>1 DEF Types, InterfaceTypes
<1>7. \A a \in collected' : Counted(a)
  BY <1>1, <1>6 DEF PanelStep, Dated
<1>8. ASSUME NEW p \in Panels, NEW a \in panel'[p].shown PROVE Counted(a)
  <2>1. a \in panel[p].shown \/ a \in From(p)
    BY <1>1 DEF PanelStep
  <2>2. a \in From(p) => a = got \/ a \in collected
    BY DEF From
  <2> QED BY <1>5, <2>1, <2>2 DEF Dated
<1>9. (\A i \in DOMAIN down : down[i] \in Results => Counted(down[i]))'
  BY <1>2, <1>3 DEF Counted
<1>10. (got \in Results => Counted(got))'
  BY <1>2, <1>4 DEF Counted
<1>11. (\A p \in Panels : \A a \in panel[p].shown : Counted(a))'
  BY <1>2, <1>5, <1>8 DEF Counted
<1>12. (\A a \in collected : Counted(a))'
  BY <1>2, <1>6, <1>7 DEF Counted
<1> QED BY <1>9, <1>10, <1>11, <1>12 DEF Dated

-----------------------------------------------------------------------------
(* Every experiment is one that the user has started.                      *)

Pending == IF todo = <<"experiment">> THEN 1 ELSE 0
Compiles == NumberOf("compile", queue, Len(queue))
Busy == IF Compiling THEN 1 ELSE 0

LEMMA BudgetParts ==
  ASSUME Types
  PROVE  /\ exp \in Nat /\ posted \in Nat /\ edits \in Nat /\ Compiles \in Nat
         /\ Pending \in {0, 1} /\ Busy \in {0, 1}
         /\ Budget <=> exp + posted + Pending + Compiles + Busy <= edits
BY BudgetNumbers DEF Compiles, Pending, Busy, Budget

LEMMA CompilesPushed ==
  ASSUME Types, QueueStep, NEW x, queue' = Append(queue, x)
  PROVE  Compiles' = Compiles + One(x.kind, "compile")
<1>1. x \in RequestsOf(Kinds)
  BY PushedKind DEF Fresh
<1>2. queue \in Seq(RequestsOf(Kinds))
  BY DEF Types, StubTypes
<1>3. NumberOf("compile", queue', Len(queue')) =
        NumberOf("compile", queue, Len(queue)) + (IF x.kind = "compile" THEN 1 ELSE 0)
  BY <1>1, <1>2, NumberOfAppend
<1> QED BY <1>3 DEF Compiles, One

LEMMA CompilesTaken ==
  ASSUME Types, queue # << >>, queue' = Tail(queue)
  PROVE  Compiles = Compiles' + One(Head(queue).kind, "compile") /\ Compiles' \in Nat
<1>1. /\ queue \in Seq(RequestsOf(Kinds)) /\ Len(queue) \in Nat \ {0}
      /\ Len(queue') = Len(queue) - 1 /\ Head(queue) = queue[1]
  BY TailFacts DEF Types, StubTypes
<1>2. Len(queue) - 1 \in 0..(Len(queue) - 1) /\ (Len(queue) - 1) + 1 = Len(queue)
      /\ Len(queue) - 1 \in Nat
  BY <1>1
<1>3. NumberOf("compile", queue, Len(queue)) =
        NumberOf("compile", queue', Len(queue) - 1) + (IF queue[1].kind = "compile" THEN 1 ELSE 0)
  BY <1>1, <1>2, NumberOfTail
<1>4. NumberOf("compile", queue', Len(queue) - 1) \in Nat
  BY <1>2, CountedFinite
<1> QED BY <1>1, <1>3, <1>4 DEF Compiles, One

LEMMA StepsLater ==
  ASSUME NEW s \in Seq(Steps) PROVE s # <<"experiment">>
<1>1. "experiment" \notin Steps
  BY Apart DEF Steps
<1> QED BY <1>1

LEMMA AskingBudget ==
  ASSUME Types, Protocol, Noted, Budget, Asking \/ OnMetricList \/ OnOpened
  PROVE  Compiles' = Compiles
<1>1. QueueStep
  BY AskingQueue, OpenQueue
<1>2. CASE queue' = queue
  BY <1>2 DEF Compiles, NumberOf
<1>3. CASE \E x : queue' = Append(queue, x) /\ x.kind \in AllPanels
  <2>1. PICK x : queue' = Append(queue, x) /\ x.kind \in AllPanels
    BY <1>3
  <2>2. One(x.kind, "compile") = 0
    BY <2>1 DEF One, AllPanels
  <2> QED BY <1>1, <2>1, <2>2, CompilesPushed, BudgetParts
<1> QED BY <1>2, <1>3, AskingPushes

LEMMA CompilesKept ==
  ASSUME UNCHANGED queue PROVE Compiles' = Compiles
BY DEF Compiles, NumberOf

LEMMA BusyKept ==
  ASSUME UNCHANGED <<pc, req>> PROVE Busy' = Busy
BY DEF Busy, Compiling

LEMMA StepBudget ==
  ASSUME Types, Protocol, Noted, Own, Changed, Budget, Next
  PROVE  Budget'
<1>1. /\ exp \in Nat /\ posted \in Nat /\ edits \in Nat /\ Compiles \in Nat
      /\ Pending \in {0, 1} /\ Busy \in {0, 1}
      /\ exp + posted + Pending + Compiles + Busy <= edits
  BY BudgetParts
<1>2. SUFFICES exp' + posted' + Pending' + Compiles' + Busy' <= edits'
  BY DEF Budget, Compiles, Pending, Busy
<1>3. QueueStep
  BY StepQueue
<1>4. todo = << >> => Pending = 0
  BY DEF Pending
<1>5. Pending' \in {0, 1} /\ Busy' \in {0, 1} /\ Pending' \in Nat /\ Busy' \in Nat
  BY DEF Pending, Busy
<1>6. \A s \in Seq(Steps) : todo' = s => Pending' = 0
  BY StepsLater DEF Pending
<1>7. CASE Asking \/ ClearShaderList
  <2>1. UNCHANGED <<exp, posted, edits, pc, req>> /\ todo # << >> /\ Head(todo) # "experiment"
    BY <1>7 DEF Asking, AskTarget, AskShaders, AskApi, AskBatch, AskUniforms, AskState,
         AskBars, AskFrame, AskTable, ClearShaderList, RestOfStub, stub
  <2>2. Clocks' /\ todo' # <<"experiment">>
    <3>1. Tail(todo) \in Seq(Steps) /\ ("table" \in Panels => <<"table">> \o Tail(todo) \in Seq(Steps))
      <4>1. Tail(todo) \in Seq(Steps)
        BY <2>1, HeadStep
      <4>2. "table" \in Panels => <<"table">> \in Seq(Steps)
        BY DEF Steps
      <4> QED BY <4>1, <4>2, ConcatProperties
    <3>2. todo' = Tail(todo) \/ (Head(todo) = "frame" /\ todo' = <<"table">> \o Tail(todo))
      BY <1>7 DEF Asking, AskTarget, AskShaders, AskApi, AskBatch, AskUniforms, AskState,
         AskBars, AskFrame, AskTable, ClearShaderList
    <3>3. todo' \in Seq(Steps)
      BY <2>1, <3>1, <3>2, HeadStep
    <3> QED BY <1>7, <3>3, StepsLater, AskingClocks
  <2>3. Pending' = 0
    BY <2>2 DEF Pending
  <2>4. Compiles' = Compiles /\ Busy' = Busy
    BY <1>7, <2>1, AskingBudget, BusyKept, CompilesKept DEF ClearShaderList, stub
  <2> QED BY <1>1, <2>1, <2>3, <2>4
<1>8. CASE Change \/ SetUniform
  <2>1. /\ edits' = edits + 1 /\ UNCHANGED <<exp, posted, pc, req>> /\ todo = << >>
        /\ \E x : queue' = Append(queue, x) /\ x.kind = "change"
    BY <1>8 DEF Change, SetUniform, Idle, Request
  <2>2. One("change", "compile") = 0
    BY DEF One
  <2>3. Compiles' = Compiles
    BY <1>1, <1>3, <2>1, <2>2, CompilesPushed
  <2>4. Busy' = Busy /\ Pending = 0
    BY <1>4, <2>1, BusyKept
  <2> DEFINE pending == Pending'
  <2>5. pending \in {0, 1}
    BY <1>5
  <2> HIDE DEF pending
  <2>6. exp + posted + pending + Compiles + Busy <= edits + 1
    BY <1>1, <2>4, <2>5
  <2> QED BY <2>1, <2>3, <2>4, <2>6 DEF pending
<1>9. CASE \E ctx \in 1..Contexts : OverrideShaders(ctx)
  <2>1. /\ edits' = edits + 1 /\ UNCHANGED <<exp, posted, pc, req, todo>>
        /\ \E x : queue' = Append(queue, x) /\ x.kind = "compile"
    BY <1>9 DEF OverrideShaders, Request
  <2>2. One("compile", "compile") = 1
    BY DEF One
  <2>3. Compiles' = Compiles + 1 /\ Pending' = Pending
    BY <1>3, <2>1, <2>2, CompilesPushed DEF Pending
  <2> QED BY <1>1, <2>1, <2>3, BusyKept
<1>10. CASE Close
  <2>1. /\ UNCHANGED <<edits, exp, posted, pc, req, todo>>
        /\ \E x : queue' = Append(queue, x) /\ x.kind = "null"
    BY <1>10 DEF Close, Request
  <2>2. One("null", "compile") = 0
    BY DEF One
  <2>3. Compiles' = Compiles /\ Pending' = Pending
    BY <1>1, <1>3, <2>1, <2>2, CompilesPushed DEF Pending
  <2> QED BY <1>1, <2>1, <2>3, BusyKept
<1>11. CASE Refresh \/ ShadersChanged \/ Join
  <2>1. /\ UNCHANGED <<exp, pc, req, queue>>
        /\ \/ edits' = edits + 1 /\ posted' = posted /\ todo = << >>
           \/ edits' = edits /\ posted' = posted - 1 /\ todo = << >>
           \/ UNCHANGED <<edits, posted, todo>>
    BY <1>11 DEF Refresh, ShadersChanged, Join, Idle, stub
  <2>2. UNCHANGED todo => Pending' = Pending
    BY DEF Pending
  <2> QED BY <1>1, <1>4, <1>5, <2>1, <2>2, CompilesKept, BusyKept
<1>12. CASE \/ \E tab \in Tabs : Select(tab)
            \/ \E tab \in Tabs : Experiment(tab)
  <2>1. Pending' = 0
    BY <1>6, <1>12, SelectTodo, ExperimentTodo
  <2>2. /\ UNCHANGED <<edits, posted, pc, req, queue>>
        /\ exp' = exp \/ (exp' = exp + 1 /\ todo = <<"experiment">>)
    BY <1>12 DEF Select, Experiment, stub
  <2>3. todo = <<"experiment">> => Pending = 1
    BY DEF Pending
  <2> QED BY <1>1, <2>1, <2>2, <2>3, CompilesKept, BusyKept
<1>13. CASE Drop \/ Send
  <2>1. /\ queue # << >> /\ queue' = Tail(queue) /\ UNCHANGED <<exp, posted, edits, todo>>
        /\ pc = "idle"
    BY <1>13 DEF Drop, Send, ui
  <2>2. Compiles = Compiles' + One(Head(queue).kind, "compile") /\ Compiles' \in Nat
    BY <2>1, CompilesTaken
  <2>3. Pending' = Pending /\ Busy = 0
    BY <2>1 DEF Pending, Busy, Compiling
  <2>4. Busy' <= One(Head(queue).kind, "compile")
    <3>1. CASE Drop
      <4>1. Busy' = 0
        BY <3>1 DEF Drop, Looped, Busy, Compiling
      <4> QED BY <4>1 DEF One
    <3>2. CASE Send
      <4>1. req' = Head(queue)
        BY <3>2 DEF Send
      <4> QED BY <4>1 DEF Busy, Compiling, One
    <3> QED BY <1>13, <3>1, <3>2
  <2>5. One(Head(queue).kind, "compile") \in Nat
    BY DEF One
  <2> DEFINE busy == Busy'
             compiles == Compiles'
             k == One(Head(queue).kind, "compile")
  <2>6. /\ busy \in Nat /\ compiles \in Nat /\ k \in Nat /\ busy <= k
        /\ Compiles = compiles + k
    BY <1>5, <2>2, <2>4, <2>5
  <2> HIDE DEF busy, compiles, k
  <2>7. exp + posted + Pending + compiles + busy <= edits
    BY <1>1, <2>3, <2>6
  <2> QED BY <2>1, <2>3, <2>7 DEF busy, compiles
<1>14. CASE \/ Read \/ ReadEnd \/ OnUpload \/ OpenFile \/ ReceiveFile \/ Serve \/ MakeChange
            \/ ReplaceShaders
  <2>1. UNCHANGED <<exp, posted, edits, todo, queue, req>>
    BY <1>14 DEF Read, ReadEnd, OnUpload, OpenFile, ReceiveFile, Serve, MakeChange,
                 ReplaceShaders, ui, stub
  <2>2. Compiling' => Compiling
    <3>1. pc' \in {"read", "deliver"} => pc \in {"read", "deliver"}
      BY <1>14 DEF Read, ReadEnd, OnUpload, OpenFile, ReceiveFile, Serve, MakeChange,
                   ReplaceShaders, stub
    <3> QED BY <2>1, <3>1 DEF Compiling
  <2>3. Busy' <= Busy
    BY <2>2 DEF Busy
  <2>4. Pending' = Pending /\ Compiles' = Compiles
    BY <2>1, CompilesKept DEF Pending
  <2> DEFINE busy == Busy'
  <2>5. busy \in Nat /\ busy <= Busy
    BY <1>5, <2>3
  <2> HIDE DEF busy
  <2>6. exp + posted + Pending + Compiles + busy <= edits
    BY <1>1, <2>5
  <2> QED BY <2>1, <2>4, <2>6 DEF busy
<1>15. CASE Showing \/ OnMetricList \/ OnOpened \/ OnError
  <2>1. /\ pc \in {"deliver", "show"} /\ UNCHANGED <<exp, edits, todo, req>>
        /\ posted' = posted \/ (OnShaderCompile /\ posted' = posted + 1)
    BY <1>15 DEF Showing, OnRenderTarget, OnShaderAssembly, OnApi, ShowApi, OnBatch, OnUniform,
         OnState, OnTable, OnBars, OnShaderCompile, OnMetricList, OnOpened, OnError, Delivered
  <2>2. pc = "show" => req.kind # "compile"
    <3>1. pc = "show" => got.kind = "api"
      BY Delivering
    <3>2. pc = "show" => Fits(got, req)
      BY <3>1, Delivering
    <3> QED BY <3>1, <3>2 DEF Fits, IsPart
  <2>3. Compiling' => Compiling
    BY <2>1, <2>2 DEF Compiling
  <2>4. Pending' = Pending
    BY <2>1 DEF Pending
  <2>5. Compiles' = Compiles
    <3>1. CASE OnMetricList \/ OnOpened
      BY <3>1, AskingBudget
    <3>2. CASE Showing \/ OnError
      <4>1. UNCHANGED queue
        BY <3>2 DEF Showing, OnRenderTarget, OnShaderAssembly, OnApi, ShowApi, OnBatch,
           OnUniform, OnState, OnTable, OnBars, OnShaderCompile, OnError
      <4> QED BY <4>1, CompilesKept
    <3> QED BY <1>15, <3>1, <3>2
  <2>6. OnShaderCompile => Busy = 1 /\ Busy' = 0
    <3> SUFFICES ASSUME OnShaderCompile PROVE Busy = 1 /\ Busy' = 0
      OBVIOUS
    <3>1. pc = "deliver" /\ got.kind \in {"compiled", "failed"} /\ pc' \in {"idle", "ended"}
      BY DEF OnShaderCompile, Delivered, Looped
    <3>2. Fits(got, req)
      BY <3>1, Delivering
    <3>3. req.kind = "compile"
      BY <3>1, <3>2, Apart DEF Fits, IsPart, Plain
    <3> QED BY <3>1, <3>3 DEF Busy, Compiling
  <2>7. Busy' <= Busy
    BY <2>3 DEF Busy
  <2> DEFINE busy == Busy'
  <2>8. busy \in Nat /\ busy <= Busy /\ (OnShaderCompile => Busy = 1 /\ busy = 0)
    BY <1>5, <2>6, <2>7
  <2> HIDE DEF busy
  <2>9. /\ exp + posted + Pending + Compiles + busy <= edits
        /\ OnShaderCompile => exp + (posted + 1) + Pending + Compiles + busy <= edits
    BY <1>1, <2>8
  <2> QED BY <2>1, <2>4, <2>5, <2>9 DEF busy
<1> QED BY <1>7, <1>8, <1>9, <1>10, <1>11, <1>12, <1>13, <1>14, <1>15 DEF Next, Asking, User, Showing

-----------------------------------------------------------------------------
(* The invariant holds at first and is kept.                               *)

LEMMA NumberOfAbsent ==
  ASSUME NEW kind, NEW s, NEW n \in Nat, \A i \in 1..n : s[i].kind # kind
  PROVE  NumberOf(kind, s, n) = 0
<1>1. {i \in 1..n : s[i].kind = kind} = {}
  OBVIOUS
<1>2. QED
  BY <1>1, FS_EmptySet DEF NumberOf

LEMMA InitQueue ==
  ASSUME Init
  PROVE  /\ queue \in Seq(RequestsOf(Kinds)) /\ req \in RequestsOf(Kinds) /\ Len(queue) \in Nat
         /\ req.sel = 0 /\ req.exp = 0
         /\ \A i \in DOMAIN queue :
              /\ queue[i].sel = 0 /\ queue[i].exp = 0 /\ queue[i].kind \in {"open", "api"}
              /\ queue[i].kind = "open" => i = 1
<1> DEFINE First(kind) == [kind |-> kind, sel |-> 0, exp |-> 0, ctx |-> 1]
           f == First("open")
           a == First("api")
<1>1. /\ "open" \in Kinds /\ ("api" \in Panels => "api" \in Kinds)
      /\ 0 \in 0..MaxSelections /\ 0 \in 0..MaxEdits /\ 1 \in 1..Contexts
  BY CountsAssumption DEF Kinds
<1>2. /\ f \in RequestsOf(Kinds) /\ ("api" \in Panels => a \in RequestsOf(Kinds))
      /\ f.sel = 0 /\ f.exp = 0 /\ f.kind = "open" /\ a.sel = 0 /\ a.exp = 0 /\ a.kind = "api"
  BY <1>1 DEF RequestsOf
<1>3. queue = <<f>> \o (IF "api" \in Panels THEN <<a>> ELSE << >>) /\ req = queue[1]
  BY DEF Init
<1> HIDE DEF f, a
<1>4. CASE "api" \in Panels
  <2>1. queue = <<f, a>>
    BY <1>3, <1>4, TuplesConcat
  <2> QED BY <1>2, <1>3, <1>4, <2>1
<1>5. CASE "api" \notin Panels
  <2>1. queue = <<f>>
    BY <1>3, <1>5
  <2> QED BY <1>2, <1>3, <2>1
<1> QED BY <1>4, <1>5

LEMMA InitTypes == ASSUME Init PROVE Types
<1> USE CountsAssumption
<1>1. panel \in [Panels -> Shown]
  <2>1. [sel |-> 0, exp |-> 0, shown |-> {}] \in Shown
    BY DEF Shown
  <2> QED BY <2>1 DEF Init
<1>2. InterfaceTypes
  BY <1>1 DEF Init, InterfaceTypes
<1>3. StubTypes
  <2>1. cur \in [rt : 0..MaxSelections, render : 0..MaxSelections,
                met : 0..MaxSelections, exp : 0..MaxEdits]
    BY DEF Init
  <2>2. pc = "idle" /\ got = Nothing
    BY DEF Init
  <2>3. running \in BOOLEAN /\ success \in BOOLEAN /\ opened \in BOOLEAN
    BY DEF Init
  <2>4. queue \in Seq(RequestsOf(Kinds)) /\ req \in RequestsOf(Kinds)
    BY InitQueue
  <2> QED BY <2>1, <2>2, <2>3, <2>4 DEF StubTypes
<1>4. DaemonTypes
  BY DEF Init, DaemonTypes
<1> QED BY <1>2, <1>3, <1>4 DEF Types

LEMMA InitOrdered == ASSUME Init PROVE Ordered
<1>1. SUFFICES ASSUME NEW k \in Panels \cap {"api", "state"} PROVE InTurn(k)
  BY DEF Ordered
<1>2. /\ panel[k].sel = 0 /\ panel[k].exp = 0 /\ ~Waiting
      /\ \A i \in DOMAIN queue : queue[i].sel = 0 /\ queue[i].exp = 0
  BY InitQueue DEF Init, Waiting
<1> QED BY <1>2 DEF InTurn, NotAfter

LEMMA InitCounts ==
  ASSUME Init
  PROVE  /\ \A n \in 0..Len(queue) : NumberOf("change", queue, n) = 0
         /\ NumberOf("compile", queue, Len(queue)) = 0
<1>1. Len(queue) \in Nat /\ \A i \in 1..Len(queue) : queue[i].kind \in {"open", "api"}
  BY InitQueue
<1>2. \A kind \in {"change", "compile"}, n \in 0..Len(queue) :
        n \in Nat /\ \A i \in 1..n : queue[i].kind # kind
  BY <1>1
<1>3. \A kind \in {"change", "compile"}, n \in 0..Len(queue) : NumberOf(kind, queue, n) = 0
  BY <1>2, NumberOfAbsent
<1>4. Len(queue) \in 0..Len(queue)
  BY <1>1
<1> QED BY <1>3, <1>4

LEMMA InitChanged == ASSUME Init PROVE Changed
<1>1. /\ Len(queue) \in Nat /\ DOMAIN queue = 1..Len(queue)
      /\ \A i \in DOMAIN queue : queue[i].exp = 0
  BY InitQueue
<1>2. /\ up = << >> /\ applied = 0 /\ changes = 0 /\ exp = 0 /\ 0 \in 0..MaxEdits
      /\ changedAt = [e \in 0..MaxEdits |-> 0]
  BY CountsAssumption DEF Init
<1>3. UnderWay(Len(up)) = 0
  <2>1. Len(up) = 0 /\ NumberOf("change", up, 0) = 0
    BY <1>2, NumberOfNone
  <2> QED BY <1>2, <2>1 DEF UnderWay
<1>4. \A n \in 0..Len(queue) : Queued(n) = 0
  BY <1>3, InitCounts DEF Queued
<1>5. \A i \in DOMAIN queue : changedAt[queue[i].exp] <= Queued(i - 1)
  <2>1. \A i \in DOMAIN queue : i - 1 \in 0..Len(queue)
    BY <1>1
  <2> QED BY <1>1, <1>2, <1>4, <2>1
<1>6. Queued(Len(queue)) = changes /\ \A e \in 0..exp : changedAt[e] <= changes
  <2>1. Len(queue) \in 0..Len(queue)
    BY <1>1
  <2> QED BY <1>2, <1>4, <2>1
<1>7. \A i \in DOMAIN up :
        up[i].kind \in Panels => changedAt[up[i].exp] <= UnderWay(i - 1)
  BY <1>2
<1> QED BY <1>5, <1>6, <1>7 DEF Changed

LEMMA InitFrame == ASSUME Init PROVE FrameInv
<1>1. Protocol
  BY DEF Init, Protocol, Waiting, Resting, Changing
<1>2. Noted
  <2>1. 0 <= 0
    OBVIOUS
  <2>2. got.kind # "target"
    BY DEF Init, Nothing
  <2>3. sel = 0 /\ ~Waiting /\ ~opened
    BY DEF Init, Waiting
  <2>4. OpenedOnce
    BY <2>3, InitQueue DEF OpenedOnce
  <2> QED BY <2>1, <2>2, <2>4, InitQueue DEF Init, Noted, Known
<1>3. Own
  BY DEF Init, Own
<1>4. Dated
  <2>1. got \notin Results
    BY KindsApart DEF Init, Messages
  <2> QED BY <2>1 DEF Init, Dated
<1>5. Budget
  <2>1. exp = 0 /\ posted = 0 /\ edits = 0 /\ todo # <<"experiment">> /\ ~Compiling
    BY DEF Init, Compiling
  <2>2. NumberOf("compile", queue, Len(queue)) = 0
    BY InitCounts
  <2> QED BY <2>1, <2>2 DEF Budget
<1> QED BY <1>1, <1>2, <1>3, <1>4, <1>5, InitTypes, InitOrdered, InitChanged DEF FrameInv

LEMMA StepFrame == ASSUME FrameInv, [Next]_vars PROVE FrameInv'
<1>1. CASE Next
  BY <1>1, StepTypes, StepProtocol, StepNoted, StepOwn, StepOrdered, StepChanged, StepDated,
     StepBudget DEF FrameInv
<1>2. CASE UNCHANGED vars
  <2>1. Types'
    BY <1>2 DEF FrameInv, vars, ui, stub, far, history, Types, InterfaceTypes, StubTypes, DaemonTypes
  <2>2. Protocol'
    BY <1>2, ProtocolKept DEF FrameInv, vars, stub, far
  <2>3. Noted' /\ Own'
    BY <1>2 DEF FrameInv, vars, ui, stub, far, history, Noted, OpenedOnce, Waiting, Known, Own
  <2>4. Ordered'
    BY <1>2 DEF FrameInv, vars, ui, stub, far, Ordered, InTurn, Waiting
  <2>5. Changed'
    BY <1>2 DEF FrameInv, vars, ui, stub, far, history, Changed, Queued, UnderWay, NumberOf
  <2>6. Dated'
    BY <1>2 DEF FrameInv, vars, ui, stub, far, history, Dated, Counted
  <2>7. Budget'
    BY <1>2 DEF FrameInv, vars, ui, stub, far, Budget, NumberOf, Compiling
  <2> QED BY <2>1, <2>2, <2>3, <2>4, <2>5, <2>6, <2>7 DEF FrameInv
<1> QED BY <1>1, <1>2

(* Whatever the three threads do, their types, the protocol of the socket, *)
(* the ids and their order, the changes and the answers to them are as the *)
(* invariant says.                                                         *)
THEOREM FrameInvariant == Spec => []FrameInv
<1>1. Init => FrameInv
  BY InitFrame
<1>2. FrameInv /\ [Next]_vars => FrameInv'
  BY StepFrame
<1> QED BY <1>1, <1>2, PTL DEF Spec

LEMMA InvAsked == ASSUME FrameInv PROVE AnswersThatWereAsked
<1>1. Types /\ Protocol
  BY DEF FrameInv
<1>2. down \in Seq(Messages)
  BY <1>1 DEF Types, DaemonTypes
<1>3. CASE down = << >>
  BY <1>3 DEF AnswersThatWereAsked
<1>4. CASE down # << >>
  <2>1. Waiting
    BY <1>1, <1>4 DEF Protocol, Resting
  <2>2. CASE Uploading
    <3>1. down = <<Message("upload")>> /\ req.kind = "open"
      BY <1>4, <2>2 DEF Uploading
    <3>2. DOMAIN down = {1} /\ down[1].kind = "upload"
      BY <3>1 DEF Message
    <3>3. \A i \in DOMAIN down : down[i].kind = "upload"
      BY <3>2
    <3> QED BY <2>1, <3>1, <3>3 DEF AnswersThatWereAsked, Waiting, AllPanels
  <2>3. CASE Answering
    <3>1. \A i \in DOMAIN down : Fits(down[i], req) /\ down[i] \in Messages
      BY <1>2, <2>3, ElementOf DEF Answering, RestOfAnswer
    <3>2. ASSUME NEW i \in DOMAIN down
          PROVE  CASE down[i].kind \in AllPanels -> down[i].of = req
                   [] down[i].kind \in {"upload", "list", "opened", "fatal"} -> req.kind = "open"
                   [] down[i].kind = "warning" -> req.kind \in {"open", "target"}
                   [] down[i].kind \in {"compiled", "failed"} -> req.kind = "compile"
                   [] OTHER -> req.kind \in Panels
      <4>1. CASE IsPart(down[i], req)
        <5>1. /\ down[i].kind \in AllPanels \cup {"end"} /\ down[i].of = req
              /\ req.kind \in Panels
          BY <4>1, PanelsAssumption DEF IsPart
        <5> QED BY <5>1 DEF AllPanels
      <4>2. CASE ~IsPart(down[i], req)
        BY <3>1, <4>2 DEF Fits, AllPanels
      <4> QED BY <4>1, <4>2
    <3> QED BY <2>1, <3>2 DEF AnswersThatWereAsked, Waiting
  <2> QED BY <1>1, <1>4, <2>1, <2>2, <2>3 DEF Protocol, Sent, Forgotten
<1> QED BY <1>3, <1>4

(* No response is ever left over for a request that it does not answer.    *)
THEOREM NothingIsMisread == Spec => []AnswersThatWereAsked
<1>1. FrameInv => AnswersThatWereAsked
  BY InvAsked
<1> QED BY <1>1, FrameInvariant, PTL

(* With one graphics context, which answers every replacement of shaders,  *)
(* somebody is going to send whatever the stub waits for.                  *)
THEOREM TheStubIsAnswered ==
  ASSUME Contexts = 1
  PROVE  Spec => []NeverWaitsInVain
<1>1. FrameInv => NeverWaitsInVain
  <2> SUFFICES ASSUME FrameInv, pc = "read", down = << >>
               PROVE  up # << >> /\ daemon \in {"serving", "receiving"}
    BY DEF NeverWaitsInVain
  <2>1. Types /\ Protocol /\ Waiting
    BY DEF FrameInv, Waiting
  <2>2. ~Forgotten
    BY <2>1 DEF Forgotten, Types, StubTypes, RequestsOf
  <2>3. ~Answering
    BY DEF Answering
  <2>4. CASE Sent
    BY <2>4 DEF Sent
  <2>5. CASE Uploading
    <3>1. Len(up) = 1 /\ daemon = "receiving"
      BY <2>5 DEF Uploading, Message
    <3> QED BY <3>1
  <2> QED BY <2>1, <2>2, <2>3, <2>4, <2>5 DEF Protocol
<1> QED BY <1>1, FrameInvariant, PTL

(* Of the asserts of the stub and the panels only the one of setUniform    *)
(* can fail.                                                               *)
THEOREM TheOtherAssertsHold == Spec => []OnlySetUniformAsserts
<1>1. FrameInv => OnlySetUniformAsserts
  BY DEF FrameInv, Noted, OnlySetUniformAsserts
<1> QED BY <1>1, FrameInvariant, PTL

(* What a panel shows with the id of an experiment was computed with all   *)
(* the changes that had been made when the experiment began.               *)
THEOREM AnswersHaveTheChanges == Spec => []ShowsItsExperiment
<1>1. FrameInv => ShowsItsExperiment
  <2> SUFFICES ASSUME FrameInv, NEW p \in Panels \ {"target", "api"}, NEW a \in panel[p].shown
               PROVE  a.made >= changedAt[a.exp]
    BY DEF ShowsItsExperiment
  <2>1. Counted(a) /\ a.kind = p
    BY DEF FrameInv, Dated, Own
  <2>2. changedAt[a.exp] <= a.made /\ a.of.exp <= exp
    BY <2>1 DEF Counted
  <2>3. a \in Results
    BY DEF FrameInv, Types, InterfaceTypes, Shown
  <2>4. a.exp \in 0..MaxEdits /\ a.made \in Nat
    BY <2>3 DEF Results
  <2>5. changedAt[a.exp] \in Nat
    BY <2>4 DEF FrameInv, Types, DaemonTypes
  <2> QED BY <2>2, <2>4, <2>5
<1> QED BY <1>1, FrameInvariant, PTL

-----------------------------------------------------------------------------
(* The panel of calls implements LatestAnswer, except for catching up.     *)

LEMMA CallsShown ==
  ASSUME Types, "api" \in Panels, Next
  PROVE  ShowApi \/ panel'["api"] = panel["api"]
<1>0. panel \in [Panels -> Shown]
  BY DEF Types, InterfaceTypes
<1>1. CASE OnRenderTarget \/ OnShaderAssembly \/ OnBatch \/ OnState
  BY <1>0, <1>1 DEF OnRenderTarget, OnShaderAssembly, OnBatch, OnState, Shows
<1>2. CASE OnApi \/ OnUniform \/ OnTable \/ OnBars \/ OnShaderCompile
  BY <1>0, <1>2 DEF OnApi, OnUniform, OnTable, OnBars, OnShaderCompile, Emptied
<1>3. CASE Asking \/ ClearShaderList
  BY <1>0, <1>3 DEF Asking, AskTarget, AskShaders, AskApi, AskBatch, AskUniforms, AskState,
                    AskBars, AskFrame, AskTable, ClearShaderList, Emptied
<1>4. CASE User
  BY <1>4 DEF User, Change, SetUniform, OverrideShaders, Close
<1>5. CASE \/ \E tab \in Tabs : Select(tab)
           \/ \E tab \in Tabs : Experiment(tab)
           \/ Refresh \/ ShadersChanged \/ Join
  BY <1>5 DEF Select, Experiment, Refresh, ShadersChanged, Join
<1>6. CASE Drop \/ Send \/ Read \/ ReadEnd \/ OnUpload \/ OnMetricList \/ OnOpened \/ OnError
  BY <1>6 DEF Drop, Send, Read, ReadEnd, OnUpload, OnMetricList, OnOpened, OnError, ui
<1>7. CASE OpenFile \/ ReceiveFile \/ Serve \/ MakeChange \/ ReplaceShaders
  BY <1>7 DEF OpenFile, ReceiveFile, Serve, MakeChange, ReplaceShaders, ui
<1> QED BY <1>1, <1>2, <1>3, <1>4, <1>5, <1>6, <1>7 DEF Next, Asking, User

(* Whoever no longer waits does not wait again.                            *)
LEMMA GivenUp ==
  ASSUME Next
  PROVE  /\ closing' = "no" => closing = "no"
         /\ daemon' # "fatal" => daemon # "fatal"
         /\ failed' = {} => failed = {}
<1>1. CASE Showing
  BY <1>1 DEF Showing, OnRenderTarget, OnShaderAssembly, OnApi, ShowApi, OnBatch, OnUniform,
     OnState, OnTable, OnBars, OnShaderCompile, Delivered, Asserting, far, history
<1>2. CASE Asking \/ ClearShaderList
  BY <1>2 DEF Asking, AskTarget, AskShaders, AskApi, AskBatch, AskUniforms, AskState,
              AskBars, AskFrame, AskTable, ClearShaderList, Asked, Asserting, far, history
<1>3. CASE User
  BY <1>3 DEF User, Change, SetUniform, OverrideShaders, Close, Idle, Asserting, far, history
<1>4. CASE \/ \E tab \in Tabs : Select(tab)
           \/ \E tab \in Tabs : Experiment(tab)
           \/ Refresh \/ ShadersChanged \/ Join
  BY <1>4 DEF Select, Experiment, Refresh, ShadersChanged, Join, far, history
<1>5. CASE Drop \/ Send \/ Read \/ ReadEnd
  BY <1>5 DEF Drop, Send, Read, ReadEnd, Asserting, ui, far, history
<1>6. CASE OnUpload \/ OnMetricList \/ OnOpened \/ OnError
  BY <1>6 DEF OnUpload, OnMetricList, OnOpened, OnError, Asked, Delivered, Asserting, ui,
              far, history
<1>7. CASE OpenFile \/ ReceiveFile \/ Serve \/ MakeChange \/ ReplaceShaders
  BY <1>7 DEF OpenFile, ReceiveFile, Serve, MakeChange, ReplaceShaders, ui, history
<1> QED BY <1>1, <1>2, <1>3, <1>4, <1>5, <1>6, <1>7 DEF Next, Asking, User, Showing

LEMMA CallsAnswer ==
  ASSUME FrameInv, "api" \in Panels, ShowApi, panel'["api"].sel # panel["api"].sel
  PROVE  /\ panel'["api"].sel \in (panel["api"].sel + 1)..sel
         /\ UNCHANGED <<sel, closing, daemon, failed>>
<1>1. pc = "show" /\ panel'["api"].sel = got.sel
  BY DEF ShowApi, Shows, FrameInv, Types, InterfaceTypes
<1>2. got.kind = "api"
  BY <1>1, Delivering DEF FrameInv
<1>3. got \in Results /\ IsPart(got, req) /\ req.kind = "api" /\ got.sel <= sel
  BY <1>2, GotIds DEF FrameInv
<1>4. panel["api"].sel <= req.sel
  BY <1>1, <1>3 DEF FrameInv, Ordered, InTurn, NotAfter, Waiting
<1>5. got.sel = req.sel
  BY <1>3 DEF IsPart
<1>6. got.sel \in Nat /\ panel["api"].sel \in Nat /\ sel \in Nat
  BY <1>3 DEF FrameInv, Types, InterfaceTypes, Shown, Results
<1>7. panel'["api"].sel \in (panel["api"].sel + 1)..sel
  BY <1>1, <1>3, <1>4, <1>5, <1>6
<1>8. UNCHANGED <<sel, closing, daemon, failed>>
  BY DEF ShowApi, Delivered, far, history
<1> QED BY <1>7, <1>8

(* The panel of calls shows answers to what was selected, never to what    *)
(* was selected before the one it shows, and nothing once the user has     *)
(* been told makes him wait again.                                         *)
THEOREM CallsNeverGoBack ==
  ASSUME "api" \in Panels
  PROVE  Spec => Calls!Init /\ [][Calls!Next]_Calls!vars
<1>1. Init => Calls!Init
  BY DEF Init, Calls!Init
<1>2. FrameInv /\ [Next]_vars => [Calls!Next]_Calls!vars
  <2> SUFFICES ASSUME FrameInv, [Next]_vars PROVE [Calls!Next]_Calls!vars
    OBVIOUS
  <2> DEFINE now == panel["api"].sel
             waits == closing = "no" /\ daemon # "fatal" /\ failed = {}
  <2>1. CASE UNCHANGED vars
    BY <2>1 DEF vars, ui, far, history, Calls!vars
  <2>2. CASE Next
    <3>1. CASE sel' # sel
      <4>1. sel' = sel + 1 /\ now' = now /\ waits' = waits
        BY <2>2, <3>1, StepSelected
      <4> QED BY <4>1 DEF Calls!Next, Calls!Ask
    <3>2. CASE sel' = sel /\ now' # now
      <4>1. ShowApi
        BY <2>2, <3>2, CallsShown DEF FrameInv
      <4>2. now' \in (now + 1)..sel /\ waits' = waits
        BY <3>2, <4>1, CallsAnswer
      <4> QED BY <3>2, <4>2 DEF Calls!Next, Calls!Answer
    <3>3. CASE sel' = sel /\ now' = now
      <4>1. waits' = waits \/ waits' = FALSE
        BY <2>2, GivenUp
      <4> QED BY <3>3, <4>1 DEF Calls!Next, Calls!GiveUp, Calls!vars
    <3> QED BY <3>1, <3>2, <3>3
  <2> QED BY <2>1, <2>2
<1> QED BY <1>1, <1>2, FrameInvariant, PTL DEF Spec
=============================================================================
