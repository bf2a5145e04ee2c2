--------------------------- MODULE LocalWriterSteps ---------------------------
(***************************************************************************)
(* Lemmas for the proofs of the invariant, in two parts.  What a trace is: *)
(* an event at the end of a well-formed trace leaves it well formed when   *)
(* the counters of the writer agree with it, and every beginning of a      *)
(* well-formed trace is well formed.  Then what each action of LocalWriter *)
(* does to the memory of its process and to the files, one lemma each.     *)
(***************************************************************************)
EXTENDS LocalWriterInv, SequenceTheorems, FiniteSetTheorems, TLAPS

Kind == {"version", "enter", "leave", "end"}

(* The events of s, and the one that is appended.                          *)
LEMMA Appended ==
  ASSUME NEW s \in Seq(Event), NEW e \in Event
  PROVE  LET r == Append(s, e) IN
         /\ r \in Seq(Event) /\ Len(s) \in Nat /\ Len(r) = Len(s) + 1
         /\ \A i \in 1..Len(s) : r[i] = s[i]
         /\ r[Len(r)] = e
         /\ \A k \in Kind : /\ Positions(s, k) \subseteq 1..Len(s)
                            /\ Positions(r, k) = Positions(s, k)
                                 \cup (IF e.kind = k THEN {Len(r)} ELSE {})
<1> DEFINE r == Append(s, e)
           n == Len(s)
<1>1. /\ r \in Seq(Event) /\ n \in Nat /\ Len(r) = n + 1
      /\ \A i \in 1..n : r[i] = s[i]
      /\ r[n + 1] = e
  BY AppendProperties, LenProperties
<1>2. DOMAIN s = 1..n /\ DOMAIN r = 1..(n + 1)
  BY <1>1, LenProperties
<1> HIDE DEF r, n
<1>3. \A k \in Kind : /\ Positions(s, k) \subseteq 1..n
                      /\ Positions(r, k) = Positions(s, k)
                           \cup (IF e.kind = k THEN {n + 1} ELSE {})
  BY <1>1, <1>2 DEF Positions
<1>4. QED
  BY <1>1, <1>3 DEF r, n

LEMMA KindFacts ==
  /\ Kind = {"version", "enter", "leave", "end"}
  /\ \A t, no, n, fn, sig :
       /\ Version.kind = "version" /\ End(t).kind = "end" /\ End(t).by = t
       /\ Leave(t, no).kind = "leave" /\ Leave(t, no).by = t /\ Leave(t, no).no = no
       /\ Enter(t, n, fn, no, sig).kind = "enter"
       /\ Enter(t, n, fn, no, sig).by = t
       /\ Enter(t, n, fn, no, sig).thread = n
       /\ Enter(t, n, fn, no, sig).fn = fn
       /\ Enter(t, n, fn, no, sig).no = no
       /\ Enter(t, n, fn, no, sig).sig = sig
BY DEF Kind, Version, End, Leave, Enter

(* The parts of WellFormed that hold for every kind of event but a         *)
(* version: nothing comes between an event and its end.                    *)
LEMMA AppendUnbroken ==
  ASSUME NEW s \in Seq(Event), NEW e \in Event, s # << >>, e.kind # "version",
         VersionFirst(s), Unbroken(s),
         Last(s).kind \in {"enter", "leave"} => e = End(Last(s).by)
  PROVE  VersionFirst(Append(s, e)) /\ Unbroken(Append(s, e))
<1> DEFINE r == Append(s, e)
<1>1. /\ r \in Seq(Event) /\ Len(s) \in Nat /\ Len(r) = Len(s) + 1
      /\ \A i \in 1..Len(s) : r[i] = s[i]
      /\ r[Len(r)] = e
      /\ \A k \in Kind : /\ Positions(s, k) \subseteq 1..Len(s)
                         /\ Positions(r, k) = Positions(s, k)
                              \cup (IF e.kind = k THEN {Len(r)} ELSE {})
  BY Appended
<1> HIDE DEF r
<1>2. VersionFirst(r)
  <2>1. Positions(r, "version") = Positions(s, "version")
    BY <1>1, KindFacts
  <2>2. QED
    BY <2>1 DEF VersionFirst
<1>3. Unbroken(r)
  <2>1. SUFFICES ASSUME NEW i \in Positions(r, "enter") \cup Positions(r, "leave"),
                        i < Len(r)
                 PROVE  r[i + 1] = End(r[i].by)
    BY DEF Unbroken
  <2>2. i \in Positions(s, "enter") \cup Positions(s, "leave") /\ i \in 1..Len(s)
    BY <1>1, <2>1, KindFacts
  <2>3. r[i] = s[i]
    BY <1>1, <2>2
  <2>4. CASE i < Len(s)
    <3>1. s[i + 1] = End(s[i].by)
      BY <2>2, <2>4 DEF Unbroken
    <3>2. i + 1 \in 1..Len(s)
      BY <1>1, <2>2, <2>4
    <3>3. QED
      BY <1>1, <2>3, <3>1, <3>2
  <2>5. CASE i = Len(s)
    <3>1. Last(s) = s[i] /\ s[i].kind \in {"enter", "leave"} /\ i + 1 = Len(r)
      BY <1>1, <2>2, <2>5 DEF Last, Positions
    <3>2. QED
      BY <1>1, <2>3, <3>1
  <2>6. QED
    BY <1>1, <2>2, <2>4, <2>5
<1>4. QED
  BY <1>2, <1>3 DEF r

(* The parts on calls depend on the enter and leave events only.           *)
LEMMA AppendEnd ==
  ASSUME NEW s \in Seq(Event), NEW t \in Thread, s # << >>, WellFormed(s),
         Last(s).kind \in {"enter", "leave"} => Last(s).by = t
  PROVE  WellFormed(Append(s, End(t)))
<1> DEFINE e == End(t)
           r == Append(s, e)
<1>1. e \in Event /\ e.kind = "end"
  BY KindFacts DEF Event, End
<1>2. VersionFirst(r) /\ Unbroken(r)
  BY <1>1, AppendUnbroken DEF WellFormed
<1>3. /\ r \in Seq(Event) /\ Len(s) \in Nat /\ Len(r) = Len(s) + 1
      /\ \A i \in 1..Len(s) : r[i] = s[i]
      /\ r[Len(r)] = e
      /\ \A k \in Kind : /\ Positions(s, k) \subseteq 1..Len(s)
                         /\ Positions(r, k) = Positions(s, k)
                              \cup (IF e.kind = k THEN {Len(r)} ELSE {})
  BY <1>1, Appended
<1> HIDE DEF r, e
<1>4. /\ \A i \in 1..Len(s) : r[i] = s[i]
      /\ Positions(r, "enter") = Positions(s, "enter")
      /\ Positions(r, "leave") = Positions(s, "leave")
      /\ Positions(s, "enter") \subseteq 1..Len(s) /\ Positions(s, "leave") \subseteq 1..Len(s)
  BY <1>1, <1>3, KindFacts
<1>5. /\ \A i \in Positions(s, "enter") : r[i] = s[i]
      /\ \A i \in Positions(s, "leave") : r[i] = s[i]
  BY <1>4
<1>6. Numbered(r)
  BY <1>4, <1>5 DEF WellFormed, Numbered
<1>7. Matched(r)
  BY <1>4, <1>5 DEF WellFormed, Matched
<1>8. Signed(r)
  BY <1>4, <1>5 DEF WellFormed, Signed
<1>9. Attributed(r)
  BY <1>4, <1>5 DEF WellFormed, Attributed
<1>10. WellFormed(r)
  BY <1>2, <1>6, <1>7, <1>8, <1>9 DEF WellFormed
<1>11. QED
  BY <1>10 DEF r, e

LEMMA AppendLeave ==
  ASSUME NEW s \in Seq(Event), NEW t \in Thread, NEW no \in Nat, s # << >>,
         WellFormed(s), Last(s).kind \notin {"enter", "leave"},
         \E i \in Positions(s, "enter") : s[i].no = no /\ s[i].by = t,
         \A i \in Positions(s, "leave") : s[i].no # no
  PROVE  WellFormed(Append(s, Leave(t, no)))
<1> DEFINE e == Leave(t, no)
           r == Append(s, e)
<1>1. e \in Event /\ e.kind = "leave" /\ e.by = t /\ e.no = no
  BY KindFacts DEF Event, Leave
<1>2. VersionFirst(r) /\ Unbroken(r)
  BY <1>1, AppendUnbroken DEF WellFormed
<1>3. /\ r \in Seq(Event) /\ Len(s) \in Nat /\ Len(r) = Len(s) + 1
      /\ \A i \in 1..Len(s) : r[i] = s[i]
      /\ r[Len(r)] = e
      /\ \A k \in Kind : /\ Positions(s, k) \subseteq 1..Len(s)
                         /\ Positions(r, k) = Positions(s, k)
                              \cup (IF e.kind = k THEN {Len(r)} ELSE {})
  BY <1>1, Appended
<1> HIDE DEF r, e
<1>4. /\ \A i \in 1..Len(s) : r[i] = s[i]
      /\ Len(s) \in Nat /\ Len(r) = Len(s) + 1 /\ r[Len(r)] = e
      /\ Positions(r, "enter") = Positions(s, "enter")
      /\ Positions(r, "leave") = Positions(s, "leave") \cup {Len(r)}
      /\ Positions(s, "enter") \subseteq 1..Len(s) /\ Positions(s, "leave") \subseteq 1..Len(s)
  BY <1>1, <1>3, KindFacts
<1>5. /\ \A i \in Positions(s, "enter") : r[i] = s[i]
      /\ \A i \in Positions(s, "leave") : r[i] = s[i]
  BY <1>4
<1>6. Numbered(r)
  BY <1>4, <1>5 DEF WellFormed, Numbered
<1>7. Matched(r)
  <2>1. ASSUME NEW i \in Positions(r, "leave")
        PROVE  \E j \in Positions(r, "enter") : j < i /\ r[j].no = r[i].no /\ r[j].by = r[i].by
    <3>1. CASE i = Len(r)
      BY <1>1, <1>4, <1>5, <3>1
    <3>2. CASE i \in Positions(s, "leave")
      BY <1>4, <1>5, <3>2 DEF WellFormed, Matched
    <3>3. QED
      BY <1>4, <3>1, <3>2
  <2>2. ASSUME NEW i \in Positions(r, "leave"), NEW j \in Positions(r, "leave"),
               r[j].no = r[i].no
        PROVE  j = i
    <3>1. CASE i \in Positions(s, "leave") /\ j \in Positions(s, "leave")
      BY <1>5, <2>2, <3>1 DEF WellFormed, Matched
    <3>2. CASE i = Len(r) \/ j = Len(r)
      BY <1>1, <1>4, <1>5, <2>2, <3>2
    <3>3. QED
      BY <1>4, <3>1, <3>2
  <2>3. QED
    BY <2>1, <2>2 DEF Matched
<1>8. Signed(r)
  BY <1>4, <1>5 DEF WellFormed, Signed
<1>9. Attributed(r)
  BY <1>4, <1>5 DEF WellFormed, Attributed
<1>10. WellFormed(r)
  BY <1>2, <1>6, <1>7, <1>8, <1>9 DEF WellFormed
<1>11. QED
  BY <1>10 DEF r, e

-----------------------------------------------------------------------------
(* The next enter event: its number, the number of its thread, and whether *)
(* it carries the signature come from the counters of the writer.          *)

LEMMA EventFields ==
  ASSUME NEW s \in Seq(Event)
  PROVE  /\ \A i \in Positions(s, "enter") :
              /\ s[i].by \in Thread /\ s[i].thread \in Nat /\ s[i].no \in Nat
              /\ s[i].fn \in Function /\ s[i].sig \in BOOLEAN
         /\ \A i \in Positions(s, "leave") : s[i].by \in Thread /\ s[i].no \in Nat
<1>1. \A i \in DOMAIN s : s[i] \in Event
  BY ElementOfSeq, LenProperties
<1>2. \A e \in Event :
        /\ e.kind = "enter" => /\ e.by \in Thread /\ e.thread \in Nat /\ e.no \in Nat
                               /\ e.fn \in Function /\ e.sig \in BOOLEAN
        /\ e.kind = "leave" => e.by \in Thread /\ e.no \in Nat
  BY DEF Event, Version
<1>3. QED
  BY <1>1, <1>2 DEF Positions

LEMMA EntersFinite ==
  ASSUME NEW s \in Seq(Event)
  PROVE  /\ IsFiniteSet(Positions(s, "enter"))
         /\ Cardinality(Positions(s, "enter")) \in Nat
<1>1. Len(s) \in Nat /\ Positions(s, "enter") \subseteq 1..Len(s)
  BY LenProperties DEF Positions
<1>2. IsFiniteSet(1..Len(s))
  BY <1>1, FS_Interval
<1>3. IsFiniteSet(Positions(s, "enter"))
  BY <1>1, <1>2, FS_Subset
<1>4. QED
  BY <1>3, FS_CardinalityType

(* The number of the thread in its next enter event.                       *)
Numbering(m, t) == IF m.num[t] = 0 THEN m.nextNum ELSE m.num[t]

NextEnter(m, t, fn) == Enter(t, Numbering(m, t) - 1, fn, m.callNo, fn \notin m.known)

LEMMA AppendEnter ==
  ASSUME NEW s \in Seq(Event), NEW m \in Memory, NEW t \in Thread, NEW fn \in Function,
         s # << >>, WellFormed(s), Last(s).kind \notin {"enter", "leave"},
         Counts(s, m), NumbersApart(m)
  PROVE  WellFormed(Append(s, NextEnter(m, t, fn)))
<1> DEFINE n == Numbering(m, t)
           e == NextEnter(m, t, fn)
           r == Append(s, e)
<1>1. /\ m.num \in [Thread -> Nat] /\ m.nextNum \in Nat \ {0} /\ m.callNo \in Nat
      /\ n \in Nat \ {0} /\ n - 1 \in Nat
  BY DEF Memory, Numbering
<1>2. /\ e.kind = "enter" /\ e.by = t /\ e.thread = n - 1 /\ e.fn = fn
      /\ e.no = m.callNo /\ e.sig = (fn \notin m.known)
  BY KindFacts DEF NextEnter
<1>3. e \in Event
  BY <1>1 DEF NextEnter, Enter, Event
<1>4. VersionFirst(r) /\ Unbroken(r)
  BY <1>2, <1>3, AppendUnbroken DEF WellFormed
<1>5. /\ r \in Seq(Event) /\ Len(s) \in Nat /\ Len(r) = Len(s) + 1
      /\ \A i \in 1..Len(s) : r[i] = s[i]
      /\ r[Len(r)] = e
      /\ \A k \in Kind : /\ Positions(s, k) \subseteq 1..Len(s)
                         /\ Positions(r, k) = Positions(s, k)
                              \cup (IF e.kind = k THEN {Len(r)} ELSE {})
  BY <1>3, Appended
<1> HIDE DEF n, e, r
<1>6. /\ Positions(r, "enter") = Positions(s, "enter") \cup {Len(r)}
      /\ Positions(r, "leave") = Positions(s, "leave")
      /\ \A i \in Positions(s, "enter") : r[i] = s[i] /\ i \in 1..Len(s) /\ i < Len(r)
      /\ \A i \in Positions(s, "leave") : r[i] = s[i] /\ i \in 1..Len(s) /\ i < Len(r)
  BY <1>2, <1>5, KindFacts
<1>7. Numbered(r)
  <2>1. ASSUME NEW i \in Positions(r, "enter")
        PROVE  r[i].no = Cardinality({j \in Positions(r, "enter") : j < i})
    <3>1. CASE i \in Positions(s, "enter")
      <4>1. {j \in Positions(r, "enter") : j < i} = {j \in Positions(s, "enter") : j < i}
        BY <1>5, <1>6, <3>1
      <4>2. QED
        BY <1>6, <3>1, <4>1 DEF WellFormed, Numbered
    <3>2. CASE i = Len(r)
      <4>1. {j \in Positions(r, "enter") : j < i} = Positions(s, "enter")
        BY <1>5, <1>6, <3>2
      <4>2. QED
        BY <1>2, <1>5, <3>2, <4>1 DEF Counts
    <3>3. QED
      BY <1>6, <3>1, <3>2
  <2>2. QED
    BY <2>1 DEF Numbered
<1>8. Matched(r)
  BY <1>6 DEF WellFormed, Matched
<1>9. Signed(r)
  <2>1. ASSUME NEW i \in Positions(r, "enter")
        PROVE  r[i].sig <=> \A j \in Positions(r, "enter") : r[j].fn = r[i].fn => i <= j
    <3>1. CASE i \in Positions(s, "enter")
      <4>1. s[i].sig <=> \A j \in Positions(s, "enter") : s[j].fn = s[i].fn => i <= j
        BY <3>1 DEF WellFormed, Signed
      <4>2. i <= Len(r) /\ r[i] = s[i]
        BY <1>5, <1>6, <3>1
      <4>3. QED
        BY <1>6, <4>1, <4>2
    <3>2. CASE i = Len(r)
      <4>1. r[i].sig <=> ~ \E j \in Positions(s, "enter") : s[j].fn = fn
        BY <1>2, <1>5, <3>2 DEF Counts
      <4>2. \A j \in Positions(s, "enter") : ~(i <= j)
        BY <1>5, <1>6, <3>2
      <4>3. i <= i
        BY <1>5, <3>2
      <4>4. r[i].fn = fn
        BY <1>2, <1>5, <3>2
      <4>5. QED
        BY <1>6, <3>2, <4>1, <4>2, <4>3, <4>4
    <3>3. QED
      BY <1>6, <3>1, <3>2
  <2>2. QED
    BY <2>1 DEF Signed
<1>10. Attributed(r)
  <2>1. \A i \in Positions(s, "enter") :
          /\ s[i].by \in Thread /\ s[i].thread \in Nat
          /\ s[i].thread + 1 = m.num[s[i].by]
    BY EventFields DEF Counts
  <2>2. \A i \in Positions(s, "enter") : s[i].by = t <=> s[i].thread = n - 1
    <3>1. SUFFICES ASSUME NEW i \in Positions(s, "enter")
                   PROVE  s[i].by = t <=> s[i].thread = n - 1
      OBVIOUS
    <3>2. s[i].thread = n - 1 <=> m.num[s[i].by] = n
      <4>1. \A a, b \in Nat : a = b - 1 <=> a + 1 = b
        OBVIOUS
      <4>2. n \in Nat /\ s[i].thread \in Nat /\ s[i].thread + 1 = m.num[s[i].by]
        BY <1>1, <2>1
      <4>3. QED
        BY <4>1, <4>2
    <3>3. m.num[s[i].by] # 0 /\ m.num[s[i].by] \in Nat /\ m.num[t] \in Nat
      BY <1>1, <2>1
    <3>4. m.num[s[i].by] < m.nextNum /\ (m.num[s[i].by] = m.num[t] => s[i].by = t)
      BY <2>1, <3>3 DEF NumbersApart
    <3>5. n = IF m.num[t] = 0 THEN m.nextNum ELSE m.num[t]
      BY DEF n, Numbering
    <3>6. QED
      BY <1>1, <3>2, <3>3, <3>4, <3>5
  <2>3. \A i \in Positions(s, "enter") : r[i] = s[i]
    BY <1>6
  <2>4. r[Len(r)].by = t /\ r[Len(r)].thread = n - 1
    BY <1>2, <1>5
  <2>5. \A i, j \in Positions(s, "enter") : s[i].by = s[j].by <=> s[i].thread = s[j].thread
    BY DEF WellFormed, Attributed
  <2>6. QED
    BY <1>6, <2>2, <2>3, <2>4, <2>5 DEF Attributed
<1>11. WellFormed(r)
  BY <1>4, <1>7, <1>8, <1>9, <1>10 DEF WellFormed
<1>12. QED
  BY <1>11 DEF r, e

-----------------------------------------------------------------------------
(* The counters after an event.                                            *)

LEMMA CountsEnter ==
  ASSUME NEW s \in Seq(Event), NEW m \in Memory, NEW w \in Memory, NEW t \in Thread,
         NEW fn \in Function,
         WellFormed(s), Counts(s, m),
         w.callNo = m.callNo + 1, w.known = m.known \cup {fn},
         w.num = [m.num EXCEPT ![t] = Numbering(m, t)]
  PROVE  Counts(Append(s, NextEnter(m, t, fn)), w)
<1> DEFINE n == Numbering(m, t)
           e == NextEnter(m, t, fn)
           r == Append(s, e)
<1>1. /\ m.num \in [Thread -> Nat] /\ m.nextNum \in Nat \ {0} /\ m.callNo \in Nat
      /\ n \in Nat \ {0} /\ n - 1 \in Nat /\ w.callNo \in Nat
  <2>1. /\ m.num \in [Thread -> Nat] /\ m.nextNum \in Nat \ {0} /\ m.callNo \in Nat
        /\ n \in Nat \ {0} /\ n - 1 \in Nat
    <3>1. m.num \in [Thread -> Nat] /\ m.nextNum \in Nat \ {0} /\ m.callNo \in Nat
      BY DEF Memory
    <3>2. n \in Nat \ {0}
      BY <3>1 DEF Numbering
    <3> QED BY <3>1, <3>2
  <2>2. w.callNo \in Nat
    BY <2>1
  <2>3. QED
    BY <2>1, <2>2
<1>2. /\ e.kind = "enter" /\ e.by = t /\ e.thread = n - 1 /\ e.fn = fn
      /\ e.no = m.callNo
  BY KindFacts DEF NextEnter
<1>3. e \in Event
  BY <1>1 DEF NextEnter, Enter, Event
<1>4. /\ r \in Seq(Event) /\ Len(s) \in Nat /\ Len(r) = Len(s) + 1
      /\ \A i \in 1..Len(s) : r[i] = s[i]
      /\ r[Len(r)] = e
      /\ \A k \in Kind : /\ Positions(s, k) \subseteq 1..Len(s)
                         /\ Positions(r, k) = Positions(s, k)
                              \cup (IF e.kind = k THEN {Len(r)} ELSE {})
  BY <1>3, Appended
<1> HIDE DEF e, r
<1>5. /\ Positions(r, "enter") = Positions(s, "enter") \cup {Len(r)}
      /\ \A i \in Positions(s, "enter") : r[i] = s[i] /\ i \in 1..Len(s) /\ i < Len(r)
      /\ Len(r) \notin Positions(s, "enter")
  BY <1>2, <1>4, KindFacts
<1>6. \A i \in Positions(s, "enter") :
        /\ s[i].by \in Thread /\ s[i].thread \in Nat /\ s[i].no \in Nat
        /\ s[i].no < m.callNo /\ s[i].thread + 1 = m.num[s[i].by]
        /\ s[i].fn \in m.known
  BY EventFields DEF Counts
<1>7. w.callNo = Cardinality(Positions(r, "enter"))
  <2>1. Cardinality(Positions(r, "enter")) = Cardinality(Positions(s, "enter")) + 1
    BY <1>5, EntersFinite, FS_AddElement
  <2>2. QED
    BY <2>1 DEF Counts
<1>8. \A i \in Positions(r, "enter") : r[i].no < w.callNo
  <2>1. r[Len(r)].no < w.callNo
    BY <1>1, <1>2, <1>4
  <2>2. \A i \in Positions(s, "enter") : s[i].no < w.callNo
    BY <1>1, <1>6
  <2>3. QED
    BY <1>5, <2>1, <2>2
<1>9. \A i, j \in Positions(r, "enter") : i < j => r[i].no < r[j].no
  <2>1. \A i \in Positions(s, "enter") : r[i].no < r[Len(r)].no
    BY <1>2, <1>4, <1>5, <1>6
  <2>2. \A i, j \in Positions(s, "enter") : i < j => r[i].no < r[j].no
    BY <1>5 DEF Counts
  <2>3. \A i \in Positions(r, "enter") : ~(Len(r) < i)
    BY <1>4, <1>5
  <2>4. QED
    BY <1>5, <2>1, <2>2, <2>3
<1>10. w.known = {r[i].fn : i \in Positions(r, "enter")}
  <2>1. m.known = {s[i].fn : i \in Positions(s, "enter")}
    BY DEF Counts
  <2>2. r[Len(r)].fn = fn
    BY <1>2, <1>4
  <2>3. QED
    BY <1>5, <2>1, <2>2
<1>11. \A i \in Positions(r, "enter") : r[i].thread + 1 = w.num[r[i].by]
  <2>1. r[Len(r)].thread + 1 = w.num[t] /\ r[Len(r)].by = t
    <3>1. w.num[t] = n
      BY <1>1
    <3>2. n - 1 + 1 = n
      BY <1>1
    <3>3. QED
      BY <1>2, <1>4, <3>1, <3>2
  <2>2. ASSUME NEW i \in Positions(s, "enter")
        PROVE  s[i].thread + 1 = w.num[s[i].by]
    <3>1. m.num[s[i].by] # 0
      BY <1>6
    <3>2. w.num[s[i].by] = m.num[s[i].by]
      BY <1>1, <1>6, <3>1 DEF Numbering
    <3>3. QED
      BY <1>6, <3>2
  <2>3. QED
    BY <1>5, <2>1, <2>2
<1>12. Counts(r, w)
  BY <1>7, <1>8, <1>9, <1>10, <1>11 DEF Counts
<1>13. QED
  BY <1>12 DEF r, e

LEMMA CountsOther ==
  ASSUME NEW s \in Seq(Event), NEW e \in Event, e.kind \in {"leave", "end"},
         NEW m, NEW w, Counts(s, m),
         w.callNo = m.callNo, w.known = m.known, w.num = m.num
  PROVE  Counts(Append(s, e), w)
<1> DEFINE r == Append(s, e)
<1>1. /\ r \in Seq(Event) /\ Len(s) \in Nat /\ Len(r) = Len(s) + 1
      /\ \A i \in 1..Len(s) : r[i] = s[i]
      /\ r[Len(r)] = e
      /\ \A k \in Kind : /\ Positions(s, k) \subseteq 1..Len(s)
                         /\ Positions(r, k) = Positions(s, k)
                              \cup (IF e.kind = k THEN {Len(r)} ELSE {})
  BY Appended
<1> HIDE DEF r
<1>2. /\ Positions(r, "enter") = Positions(s, "enter")
      /\ \A i \in Positions(s, "enter") : r[i] = s[i]
  BY <1>1, KindFacts
<1>3. {r[i].fn : i \in Positions(r, "enter")} = {s[i].fn : i \in Positions(s, "enter")}
  BY <1>2
<1>4. Counts(r, w)
  BY <1>2, <1>3 DEF Counts
<1>5. QED
  BY <1>4 DEF r

(* A call that is open stays so until its leave event.                     *)
LEMMA OpenAppend ==
  ASSUME NEW s \in Seq(Event), NEW e \in Event, NEW t \in Thread, NEW no \in Nat,
         Open(s, t, no), e.kind = "leave" => e.no # no
  PROVE  Open(Append(s, e), t, no)
<1> DEFINE r == Append(s, e)
<1>1. /\ r \in Seq(Event) /\ Len(s) \in Nat /\ Len(r) = Len(s) + 1
      /\ \A i \in 1..Len(s) : r[i] = s[i]
      /\ r[Len(r)] = e
      /\ \A k \in Kind : /\ Positions(s, k) \subseteq 1..Len(s)
                         /\ Positions(r, k) = Positions(s, k)
                              \cup (IF e.kind = k THEN {Len(r)} ELSE {})
  BY Appended
<1> HIDE DEF r
<1>2. /\ Positions(s, "enter") \subseteq Positions(r, "enter")
      /\ \A i \in Positions(s, "enter") : r[i] = s[i]
      /\ \A i \in Positions(s, "leave") : r[i] = s[i]
      /\ Positions(r, "leave") = Positions(s, "leave")
                                 \cup (IF e.kind = "leave" THEN {Len(r)} ELSE {})
  BY <1>1, KindFacts
<1>3. Open(r, t, no)
  BY <1>1, <1>2 DEF Open
<1>4. QED
  BY <1>3 DEF r

(* A call is open once its enter event is written.                         *)
LEMMA OpenEnter ==
  ASSUME NEW s \in Seq(Event), NEW m \in Memory, NEW t \in Thread, NEW fn \in Function,
         WellFormed(s), Counts(s, m), NextEnter(m, t, fn) \in Event
  PROVE  Open(Append(s, NextEnter(m, t, fn)), t, m.callNo)
<1> DEFINE e == NextEnter(m, t, fn)
           r == Append(s, e)
<1>1. e.kind = "enter" /\ e.by = t /\ e.no = m.callNo /\ m.callNo \in Nat
  BY KindFacts DEF NextEnter, Memory
<1>2. /\ r \in Seq(Event) /\ Len(s) \in Nat /\ Len(r) = Len(s) + 1
      /\ \A i \in 1..Len(s) : r[i] = s[i]
      /\ r[Len(r)] = e
      /\ \A k \in Kind : /\ Positions(s, k) \subseteq 1..Len(s)
                         /\ Positions(r, k) = Positions(s, k)
                              \cup (IF e.kind = k THEN {Len(r)} ELSE {})
  BY Appended
<1> HIDE DEF e, r
<1>3. /\ Len(r) \in Positions(r, "enter")
      /\ Positions(r, "leave") = Positions(s, "leave")
      /\ \A i \in Positions(s, "leave") : r[i] = s[i]
  BY <1>1, <1>2, KindFacts
<1>4. \A i \in Positions(s, "leave") : s[i].no < m.callNo
  <2>1. \A i \in Positions(s, "leave") : \E j \in Positions(s, "enter") : s[j].no = s[i].no
    BY DEF WellFormed, Matched
  <2>2. QED
    BY <2>1 DEF Counts
<1>5. \A i \in Positions(s, "leave") : s[i].no # m.callNo
  <2>1. \A i \in Positions(s, "leave") : s[i].no \in Nat
    BY EventFields
  <2>2. \A a \in Nat : ~(a < a)
    OBVIOUS
  <2>3. QED
    BY <1>4, <2>1, <2>2
<1>6. Open(r, t, m.callNo)
  BY <1>1, <1>2, <1>3, <1>5 DEF Open
<1>7. QED
  BY <1>6 DEF r, e

(* Two threads are never in the same call.                                 *)
LEMMA OpenApart ==
  ASSUME NEW s \in Seq(Event), NEW m, Counts(s, m), NEW t \in Thread, NEW u \in Thread,
         NEW a \in Nat, NEW b \in Nat, Open(s, t, a), Open(s, u, b), t # u
  PROVE  a # b
<1>1. PICK i \in Positions(s, "enter") : s[i].no = a /\ s[i].by = t
  BY DEF Open
<1>2. PICK j \in Positions(s, "enter") : s[j].no = b /\ s[j].by = u
  BY DEF Open
<1>3. i \in Nat /\ j \in Nat
  BY LenProperties DEF Positions
<1>4. i < j \/ j < i
  BY <1>1, <1>2, <1>3
<1>5. QED
  BY <1>1, <1>2, <1>4 DEF Counts

-----------------------------------------------------------------------------
(* A file that holds the header only, and the beginnings of a trace.       *)

LEMMA EmptyWellFormed == WellFormed(<< >>)
<1>1. \A k \in Kind : Positions(<< >>, k) = {}
  BY DEF Positions
<1>2. QED
  BY <1>1, KindFacts DEF WellFormed, VersionFirst, Unbroken, Numbered, Matched, Signed,
                         Attributed

LEMMA HeaderWellFormed ==
  ASSUME NEW m, m.callNo = 0, m.known = {}
  PROVE  /\ WellFormed(<<Version>>) /\ <<Version>> # << >> /\ <<Version>> \in Seq(Event)
         /\ Counts(<<Version>>, m) /\ Last(<<Version>>).kind = "version"
<1> DEFINE s == <<Version>>
<1>1. s \in Seq(Event) /\ Len(s) = 1 /\ s[1] = Version /\ s # << >> /\ DOMAIN s = {1}
  BY DEF Event
<1> HIDE DEF s
<1>2. /\ Positions(s, "version") = {1} /\ Positions(s, "enter") = {}
      /\ Positions(s, "leave") = {}
  BY <1>1, KindFacts DEF Positions
<1>3. WellFormed(s)
  BY <1>2 DEF WellFormed, VersionFirst, Unbroken, Numbered, Matched, Signed, Attributed
<1>4. Counts(s, m)
  BY <1>2, FS_EmptySet DEF Counts
<1>5. Last(s).kind = "version"
  BY <1>1, KindFacts DEF Last
<1>6. QED
  BY <1>1, <1>3, <1>4, <1>5 DEF s

LEMMA PrefixWellFormed ==
  ASSUME NEW d \in Seq(Event), NEW b \in Seq(Event), WellFormed(d \o b)
  PROVE  WellFormed(d)
<1> DEFINE s == d \o b
<1>1. /\ Len(d) \in Nat /\ Len(s) \in Nat /\ Len(d) <= Len(s)
      /\ \A i \in 1..Len(d) : d[i] = s[i]
      /\ DOMAIN d = 1..Len(d) /\ DOMAIN s = 1..Len(s)
      /\ d # << >> => 1 \in 1..Len(d)
  <2>1. s \in Seq(Event) /\ Len(s) = Len(d) + Len(b) /\ Len(b) \in Nat
    BY ConcatProperties, LenProperties
  <2>2. \A i \in 1..Len(d) : s[i] = d[i]
    BY <2>1, ConcatProperties, LenProperties
  <2>3. d # << >> => Len(d) # 0
    BY EmptySeq
  <2>4. QED
    BY <2>1, <2>2, <2>3, LenProperties
<1>2. WellFormed(s)
  OBVIOUS
<1> HIDE DEF s
<1>3. \A k \in Kind : /\ Positions(d, k) \subseteq Positions(s, k)
                      /\ Positions(d, k) \subseteq 1..Len(d)
                      /\ \A i \in Positions(s, k) : i <= Len(d) => i \in Positions(d, k)
                      /\ \A i \in Positions(d, k) : d[i] = s[i]
                      /\ Positions(s, k) \subseteq 1..Len(s)
  BY <1>1 DEF Positions
<1>4. /\ Positions(d, "enter") \subseteq Positions(s, "enter")
      /\ Positions(d, "enter") \subseteq 1..Len(d) /\ Positions(s, "enter") \subseteq 1..Len(s)
      /\ \A i \in Positions(s, "enter") : i <= Len(d) => i \in Positions(d, "enter")
      /\ \A i \in Positions(d, "enter") : d[i] = s[i]
  BY <1>3, KindFacts
<1>5. /\ Positions(d, "leave") \subseteq Positions(s, "leave")
      /\ Positions(d, "leave") \subseteq 1..Len(d) /\ Positions(s, "leave") \subseteq 1..Len(s)
      /\ \A i \in Positions(d, "leave") : d[i] = s[i]
  BY <1>3, KindFacts
<1>6. VersionFirst(d)
  <2>1. ASSUME d # << >> PROVE Positions(d, "version") = {1}
    <3>1. s # << >>
      BY <1>1, <2>1
    <3>2. Positions(s, "version") = {1}
      BY <1>2, <3>1 DEF WellFormed, VersionFirst
    <3>3. 1 <= Len(d)
      BY <1>1, <2>1
    <3>4. QED
      BY <1>3, <3>2, <3>3, KindFacts
  <2>2. QED
    BY <2>1 DEF VersionFirst
<1>7. Unbroken(d)
  <2>1. SUFFICES ASSUME NEW i \in Positions(d, "enter") \cup Positions(d, "leave"),
                        i < Len(d)
                 PROVE  d[i + 1] = End(d[i].by)
    BY DEF Unbroken
  <2>2. i \in 1..Len(d) /\ i + 1 \in 1..Len(d) /\ i < Len(s) /\ d[i] = s[i]
    BY <1>1, <1>4, <1>5, <2>1
  <2>3. s[i + 1] = End(s[i].by)
    BY <1>2, <1>4, <1>5, <2>1, <2>2 DEF WellFormed, Unbroken
  <2>4. QED
    BY <1>1, <2>2, <2>3
<1>8. Numbered(d)
  <2>1. ASSUME NEW i \in Positions(d, "enter")
        PROVE  {j \in Positions(d, "enter") : j < i} = {j \in Positions(s, "enter") : j < i}
    BY <1>1, <1>4
  <2>2. QED
    BY <1>2, <1>4, <2>1 DEF WellFormed, Numbered
<1>9. Matched(d)
  <2>1. ASSUME NEW i \in Positions(d, "leave")
        PROVE  \E j \in Positions(d, "enter") : j < i /\ d[j].no = d[i].no /\ d[j].by = d[i].by
    <3>1. PICK j \in Positions(s, "enter") : j < i /\ s[j].no = s[i].no /\ s[j].by = s[i].by
      BY <1>2, <1>5 DEF WellFormed, Matched
    <3>2. j \in Positions(d, "enter")
      BY <1>1, <1>4, <1>5, <3>1
    <3>3. QED
      BY <1>4, <1>5, <3>1, <3>2
  <2>2. QED
    BY <1>2, <1>5, <2>1 DEF WellFormed, Matched
<1>10. Signed(d)
  <2>1. ASSUME NEW i \in Positions(d, "enter")
        PROVE  d[i].sig <=> \A j \in Positions(d, "enter") : d[j].fn = d[i].fn => i <= j
    <3>1. s[i].sig <=> \A j \in Positions(s, "enter") : s[j].fn = s[i].fn => i <= j
      BY <1>2, <1>4 DEF WellFormed, Signed
    <3>2. \A j \in Positions(s, "enter") : j \in Positions(d, "enter") \/ i <= j
      BY <1>1, <1>4
    <3>3. QED
      BY <1>4, <3>1, <3>2
  <2>2. QED
    BY <2>1 DEF Signed
<1>11. Attributed(d)
  BY <1>2, <1>4 DEF WellFormed, Attributed
<1>12. QED
  BY <1>6, <1>7, <1>8, <1>9, <1>10, <1>11 DEF WellFormed

-----------------------------------------------------------------------------
(* The operators on the memory of a process.                               *)

(* n is m but for what is buffered for the stream.                         *)
SameButBuffer(n, m) ==
  /\ n.file = m.file /\ n.pid = m.pid
  /\ n.callNo = m.callNo /\ n.known = m.known
  /\ n.owner = m.owner /\ n.depth = m.depth /\ n.acquired = m.acquired
  /\ n.nextNum = m.nextNum /\ n.num = m.num
  /\ n.recursion = m.recursion /\ n.seen = m.seen /\ n.raced = m.raced
  /\ n.callback = m.callback

LEMMA EventTypes ==
  ASSUME NEW t \in Thread, NEW n \in Nat, NEW fn \in Function, NEW no \in Nat,
         NEW sig \in BOOLEAN
  PROVE  /\ Version \in Event /\ Enter(t, n, fn, no, sig) \in Event
         /\ Leave(t, no) \in Event /\ End(t) \in Event
BY DEF Event, Version, Enter, Leave, End

LEMMA BufferedType ==
  ASSUME NEW m \in Memory
  PROVE  /\ m.cache \in Seq(Event) /\ m.stream \in Seq(Event)
         /\ Buffered(m) \in Seq(Event) /\ Len(Buffered(m)) \in Nat
         /\ Buffered(m) = << >> <=> Len(Buffered(m)) = 0
<1>1. m.cache \in Seq(Event) /\ m.stream \in Seq(Event)
  BY DEF Memory
<1>2. QED
  BY <1>1, ConcatProperties, LenProperties, EmptySeq DEF Buffered

(* Appending to the second of two sequences.                               *)
LEMMA AppendConcat ==
  ASSUME NEW S, NEW s \in Seq(S), NEW r \in Seq(S), NEW e \in S
  PROVE  s \o Append(r, e) = Append(s \o r, e)
<1>1. <<e>> \in Seq(S) /\ s \o r \in Seq(S)
  BY ConcatProperties
<1>2. Append(r, e) = r \o <<e>> /\ Append(s \o r, e) = (s \o r) \o <<e>>
  BY <1>1, AppendIsConcat
<1>3. QED
  BY <1>1, <1>2, ConcatAssociative

(* A file stream that is written out.                                      *)
LEMMA StreamEmptied ==
  ASSUME NEW m \in Memory
  PROVE  LET n == [m EXCEPT !.stream = << >>] IN
         n \in Memory /\ SameButBuffer(n, m) /\ n.cache = m.cache /\ n.stream = << >>
<1>1. << >> \in Seq(Event)
  BY EmptySeq
<1>2. QED
  BY <1>1 DEF Memory, SameButBuffer

LEMMA EventsAppend ==
  \A s, r \in Seq(Event), e \in Event : s \o Append(r, e) = Append(s \o r, e)
BY AppendConcat

(* Put adds the event at the end of what is buffered.                      *)
LEMMA PutEffect ==
  ASSUME NEW m \in Memory, NEW e \in Event, Len(m.cache) < ChunkSize
  PROVE  /\ Put(m, e) \in Memory
         /\ Len(Put(m, e).cache) < ChunkSize
         /\ SameButBuffer(Put(m, e), m)
         /\ Buffered(Put(m, e)) = Append(Buffered(m), e)
<1>1. /\ m.cache \in Seq(Event) /\ m.stream \in Seq(Event)
      /\ Append(m.cache, e) \in Seq(Event)
      /\ m.stream \o Append(m.cache, e) \in Seq(Event)
      /\ << >> \in Seq(Event)
  BY BufferedType, AppendProperties, ConcatProperties, EmptySeq
<1>2. m.stream \o Append(m.cache, e) = Append(Buffered(m), e)
  BY <1>1, EventsAppend, Zenon DEF Buffered
<1>3. CASE Len(m.cache) + 1 = ChunkSize
  <2>1. Put(m, e) = [m EXCEPT !.cache = << >>, !.stream = m.stream \o Append(m.cache, e)]
    BY <1>3 DEF Put, Memory
  <2>2. /\ Put(m, e) \in Memory /\ SameButBuffer(Put(m, e), m)
        /\ Put(m, e).cache = << >>
        /\ Put(m, e).stream = m.stream \o Append(m.cache, e)
    BY <1>1, <2>1 DEF Memory, SameButBuffer
  <2>3. Buffered(Put(m, e)) = Append(Buffered(m), e)
    BY <1>1, <1>2, <2>2, ConcatEmptySeq DEF Buffered
  <2>4. Len(Put(m, e).cache) < ChunkSize
    BY <2>2, ChunkAssumption, EmptySeq
  <2>5. QED
    BY <2>2, <2>3, <2>4
<1>4. CASE Len(m.cache) + 1 # ChunkSize
  <2>1. Put(m, e) = [m EXCEPT !.cache = Append(m.cache, e)]
    BY <1>4 DEF Put, Memory
  <2>2. /\ Put(m, e) \in Memory /\ SameButBuffer(Put(m, e), m)
        /\ Put(m, e).cache = Append(m.cache, e)
        /\ Put(m, e).stream = m.stream
    BY <1>1, <2>1 DEF Memory, SameButBuffer
  <2>3. Buffered(Put(m, e)) = Append(Buffered(m), e)
    BY <1>1, <1>2, <2>2 DEF Buffered
  <2>4. Len(Append(m.cache, e)) = Len(m.cache) + 1 /\ Len(m.cache) \in Nat
    BY <1>1, AppendProperties, LenProperties
  <2>5. Len(Put(m, e).cache) < ChunkSize
    BY <1>4, <2>2, <2>4, ChunkAssumption
  <2>6. QED
    BY <2>2, <2>3, <2>5
<1>5. QED
  BY <1>3, <1>4

-----------------------------------------------------------------------------
(* What the steps that write do to the memory and to the files.            *)

LEMMA ProcFacts == Parent \in Proc /\ Child \in Proc /\ Parent # Child
                   /\ NoFile \notin Proc /\ Proc = {Parent, Child}
BY DEF Proc, Parent, Child, NoFile

LEMMA MemoryOf ==
  ASSUME Types, NEW p \in Proc
  PROVE  /\ mem[p] \in Memory /\ disk[p] \in Seq(Event) /\ Len(disk[p]) \in Nat
         /\ Buffered(mem[p]) \in Seq(Event) /\ Len(Buffered(mem[p])) \in Nat
         /\ Contents(p) \in Seq(Event) /\ Len(Contents(p)) \in Nat
         /\ writers[p] \in SUBSET Proc
<1>1. /\ mem[p] \in Memory /\ disk[p] \in Seq(Event) /\ writers[p] \in SUBSET Proc
  BY DEF Types
<1>2. Buffered(mem[p]) \in Seq(Event) /\ << >> \in Seq(Event)
  BY <1>1, BufferedType, EmptySeq
<1>3. Contents(p) \in Seq(Event)
  BY <1>1, <1>2, ConcatProperties DEF Contents
<1>4. QED
  BY <1>1, <1>2, <1>3, LenProperties

(* The variables that a write or a flush changes keep their types.         *)
FileTypes ==
  /\ mem \in [Proc -> Memory]
  /\ \A p \in Proc : Len(mem[p].cache) < ChunkSize
  /\ disk \in [Proc -> Seq(Event)]
  /\ writers \in [Proc -> SUBSET Proc]

(* A write of process p puts the event at the end of what it holds for its *)
(* file, and leaves the other process alone.                               *)
LEMMA WriteEffect ==
  ASSUME Types, NEW p \in Proc, NEW m \in Memory, NEW e \in Event,
         Len(m.cache) < ChunkSize, Write(p, m, e)
  PROVE  /\ FileTypes'
         /\ SameButBuffer(mem'[p], m)
         /\ \A q \in Proc \ {p} :
              mem'[q] = mem[q] /\ disk'[q] = disk[q] /\ writers'[q] = writers[q]
         /\ disk'[p] \o Buffered(mem'[p]) = Append(disk[p] \o Buffered(m), e)
         /\ Buffered(mem'[p]) \in {<< >>, Append(Buffered(m), e)}
         /\ Len(disk[p]) <= Len(disk'[p])
         /\ writers'[p] \in {writers[p], writers[p] \cup {p}}
<1> DEFINE next == Put(m, e)
<1>1. /\ next \in Memory /\ Len(next.cache) < ChunkSize
      /\ SameButBuffer(next, m) /\ Buffered(next) = Append(Buffered(m), e)
  BY PutEffect
<1> HIDE DEF next
<1>2. /\ Buffered(m) \in Seq(Event) /\ Buffered(next) \in Seq(Event)
      /\ next.stream \in Seq(Event) /\ Len(next.stream) \in Nat
      /\ disk[p] \in Seq(Event) /\ Len(disk[p]) \in Nat /\ << >> \in Seq(Event)
  BY <1>1, BufferedType, MemoryOf, EmptySeq, LenProperties
<1>3. disk[p] \o Append(Buffered(m), e) = Append(disk[p] \o Buffered(m), e)
  BY <1>2, EventsAppend, Zenon
<1>4. CASE mem' = [mem EXCEPT ![p] = next] /\ UNCHANGED <<disk, writers>>
  <2>1. mem'[p] = next /\ \A q \in Proc \ {p} : mem'[q] = mem[q]
    BY <1>4 DEF Types
  <2>2. FileTypes'
    BY <1>1, <1>4, <2>1 DEF Types, FileTypes
  <2>3. disk'[p] \o Buffered(mem'[p]) = Append(disk[p] \o Buffered(m), e)
    BY <1>1, <1>3, <1>4, <2>1
  <2>4. /\ \A q \in Proc : disk'[q] = disk[q] /\ writers'[q] = writers[q]
        /\ Len(disk[p]) <= Len(disk'[p])
    BY <1>2, <1>4
  <2>5. QED
    BY <1>1, <2>1, <2>2, <2>3, <2>4
<1>5. CASE /\ next.cache = << >>
           /\ mem' = [mem EXCEPT ![p] = [next EXCEPT !.stream = << >>]]
           /\ disk' = [disk EXCEPT ![p] = @ \o next.stream]
           /\ writers' = [writers EXCEPT ![p] = @ \cup {p}]
  <2>1. /\ mem'[p] = [next EXCEPT !.stream = << >>]
        /\ disk'[p] = disk[p] \o next.stream
        /\ writers'[p] = writers[p] \cup {p}
        /\ \A q \in Proc \ {p} :
              mem'[q] = mem[q] /\ disk'[q] = disk[q] /\ writers'[q] = writers[q]
    BY <1>5 DEF Types
  <2>2. /\ mem'[p] \in Memory /\ SameButBuffer(mem'[p], next)
        /\ mem'[p].cache = << >> /\ mem'[p].stream = << >>
    BY <1>1, <1>5, <2>1, StreamEmptied
  <2>3. disk'[p] \in Seq(Event) /\ Len(disk'[p]) = Len(disk[p]) + Len(next.stream)
    BY <1>2, <2>1, ConcatProperties
  <2>4. Len(mem'[p].cache) < ChunkSize
    BY <2>2, ChunkAssumption, EmptySeq
  <2>5. FileTypes'
    BY <1>5, <2>1, <2>2, <2>3, <2>4 DEF Types, FileTypes
  <2>6. Buffered(mem'[p]) = << >>
    BY <2>2, <1>2, ConcatEmptySeq DEF Buffered
  <2>7. Buffered(next) = next.stream
    BY <1>2, <1>5, ConcatEmptySeq DEF Buffered
  <2>8. disk'[p] \o Buffered(mem'[p]) = Append(disk[p] \o Buffered(m), e)
    BY <1>1, <1>3, <2>1, <2>3, <2>6, <2>7, ConcatEmptySeq
  <2>9. SameButBuffer(mem'[p], m)
    BY <1>1, <2>2 DEF SameButBuffer
  <2>10. Len(disk[p]) <= Len(disk'[p])
    <3>1. \A i, j \in Nat : i <= i + j
      OBVIOUS
    <3>2. QED
      BY <1>2, <2>3, <3>1
  <2>11. QED
    BY <2>1, <2>5, <2>6, <2>8, <2>9, <2>10
<1>6. QED
  BY <1>4, <1>5 DEF Write, next

(* The flush of process p appends all that it holds to the file it has open. *)
LEMMA FlushEffect ==
  ASSUME Types, NEW p \in Proc, mem[p].file \in Proc, FlushTo(p)
  PROVE  LET f == mem[p].file IN
         /\ disk' \in [Proc -> Seq(Event)]
         /\ writers' \in [Proc -> SUBSET Proc]
         /\ disk'[f] = disk[f] \o Buffered(mem[p])
         /\ Len(disk[f]) <= Len(disk'[f])
         /\ writers'[f] = writers[f] \cup (IF Buffered(mem[p]) = << >> THEN {} ELSE {p})
         /\ \A q \in Proc \ {f} : disk'[q] = disk[q] /\ writers'[q] = writers[q]
<1> DEFINE f == mem[p].file
<1>1. /\ disk[f] \in Seq(Event) /\ Buffered(mem[p]) \in Seq(Event)
      /\ Len(disk[f]) \in Nat /\ Len(Buffered(mem[p])) \in Nat
  BY MemoryOf
<1>2. /\ disk[f] \o Buffered(mem[p]) \in Seq(Event)
      /\ Len(disk[f] \o Buffered(mem[p])) = Len(disk[f]) + Len(Buffered(mem[p]))
  BY <1>1, ConcatProperties
<1>3. /\ disk'[f] = disk[f] \o Buffered(mem[p])
      /\ writers'[f] = writers[f] \cup (IF Buffered(mem[p]) = << >> THEN {} ELSE {p})
      /\ \A q \in Proc \ {f} : disk'[q] = disk[q] /\ writers'[q] = writers[q]
  BY DEF FlushTo, Types
<1>4. /\ disk' \in [Proc -> Seq(Event)] /\ writers' \in [Proc -> SUBSET Proc]
  <2> HIDE DEF f
  <2>1. /\ disk' = [disk EXCEPT ![f] = disk[f] \o Buffered(mem[p])]
        /\ writers' = [writers EXCEPT ![f] = writers[f] \cup (IF Buffered(mem[p]) = << >> THEN {} ELSE {p})]
    BY DEF FlushTo, f, Types
  <2>2. QED
    BY <1>2, <2>1 DEF Types
<1>5. Len(disk[f]) <= Len(disk'[f])
  <2>1. \A i, j \in Nat : i <= i + j
    OBVIOUS
  <2>2. QED
    BY <1>1, <1>2, <1>3, <2>1
<1>6. QED
  BY <1>3, <1>4, <1>5, Zenon

(* n traces what m traces, and has the mutex, the handler as m has.        *)
SameTracing(n, m) ==
  /\ n.file = m.file /\ n.pid = m.pid /\ n.cache = m.cache /\ n.stream = m.stream
  /\ n.callNo = m.callNo /\ n.known = m.known /\ n.nextNum = m.nextNum /\ n.num = m.num

SameMutex(n, m) == n.owner = m.owner /\ n.depth = m.depth /\ n.acquired = m.acquired

SameCount(n, m) == n.recursion = m.recursion /\ n.seen = m.seen /\ n.raced = m.raced
SameHandler(n, m) ==
  /\ n.recursion = m.recursion /\ n.seen = m.seen /\ n.raced = m.raced
  /\ n.callback = m.callback

LEMMA LockedEffect ==
  ASSUME NEW m \in Memory, NEW t \in Thread, m.depth < 2
  PROVE  LET n == Locked(m, t) IN
         /\ n \in Memory /\ SameTracing(n, m) /\ SameHandler(n, m)
         /\ n.owner = t /\ n.depth = m.depth + 1 /\ n.acquired = m.acquired
<1>1. m.depth + 1 \in 0..2
  BY DEF Memory
<1>2. QED
  BY <1>1 DEF Memory, Locked, SameTracing, SameHandler

LEMMA UnlockedEffect ==
  ASSUME NEW m \in Memory, m.depth > 0
  PROVE  LET n == Unlocked(m) IN
         /\ n \in Memory /\ SameTracing(n, m) /\ SameHandler(n, m)
         /\ n.owner = IF m.depth = 1 THEN NoThread ELSE m.owner
         /\ n.depth = m.depth - 1 /\ n.acquired = m.acquired
<1>1. m.depth - 1 \in 0..2
  BY DEF Memory
<1>2. QED
  BY <1>1 DEF Memory, Unlocked, SameTracing, SameHandler

LEMMA AcquiredEffect ==
  ASSUME NEW m \in Memory, NEW a \in 0..1
  PROVE  LET n == [m EXCEPT !.acquired = a] IN
         /\ n \in Memory /\ SameTracing(n, m) /\ SameHandler(n, m)
         /\ n.owner = m.owner /\ n.depth = m.depth /\ n.acquired = a
BY DEF Memory, SameTracing, SameHandler

LEMMA EmptiedEffect ==
  ASSUME NEW m \in Memory
  PROVE  LET n == [m EXCEPT !.cache = << >>, !.stream = << >>] IN
         /\ n \in Memory /\ SameButBuffer(n, m) /\ Buffered(n) = << >>
         /\ Len(n.cache) = 0
<1>1. << >> \in Seq(Event) /\ Len(<< >>) = 0
  BY EmptySeq
<1> DEFINE n == [m EXCEPT !.cache = << >>, !.stream = << >>]
<1>2. n \in Memory /\ SameButBuffer(n, m) /\ n.cache = << >> /\ n.stream = << >>
  BY <1>1 DEF Memory, SameButBuffer
<1>3. Buffered(n) = << >>
  BY <1>2, <1>1, ConcatEmptySeq DEF Buffered
<1>4. QED
  BY <1>1, <1>2, <1>3

(* A file opened by p: the header is in the cache, the tables are empty.   *)
LEMMA OpenedEffect ==
  ASSUME NEW m \in Memory, NEW p \in Proc
  PROVE  LET n == Opened(m, p) IN
         /\ n \in Memory /\ SameMutex(n, m) /\ SameHandler(n, m)
         /\ n.file = p /\ n.pid = p /\ Buffered(n) = <<Version>>
         /\ n.callNo = 0 /\ n.known = {} /\ n.nextNum = m.nextNum /\ n.num = m.num
         /\ Len(n.cache) < ChunkSize
<1>1. << >> \in Seq(Event) /\ <<Version>> \in Seq(Event) /\ Len(<<Version>>) = 1
  BY EmptySeq DEF Event
<1> DEFINE n == Opened(m, p)
<1>2. /\ n \in Memory /\ SameMutex(n, m) /\ SameHandler(n, m)
      /\ n.file = p /\ n.pid = p /\ n.cache = <<Version>> /\ n.stream = << >>
      /\ n.callNo = 0 /\ n.known = {} /\ n.nextNum = m.nextNum /\ n.num = m.num
  BY <1>1, ProcFacts DEF Memory, Opened, SameMutex, SameHandler, Proc
<1>3. Buffered(n) = <<Version>>
  BY <1>1, <1>2, ConcatEmptySeq DEF Buffered
<1>4. Len(n.cache) < ChunkSize
  BY <1>1, <1>2, ChunkAssumption
<1> HIDE DEF n
<1>5. QED
  BY <1>2, <1>3, <1>4 DEF n

(* The memory that beginEnter writes with: the number of the thread and    *)
(* the number of the call.                                                 *)
Counted(m, t, fn) ==
  [m EXCEPT !.acquired = @ + 1,
            !.num[t] = Numbering(m, t),
            !.nextNum = IF m.num[t] = 0 THEN @ + 1 ELSE @,
            !.callNo = @ + 1,
            !.known = @ \cup {fn}]

LEMMA CountedEffect ==
  ASSUME NEW m \in Memory, NEW t \in Thread, NEW fn \in Function, m.acquired = 0
  PROVE  LET n == Counted(m, t, fn) IN
         /\ n \in Memory /\ SameHandler(n, m)
         /\ n.file = m.file /\ n.pid = m.pid /\ n.cache = m.cache /\ n.stream = m.stream
         /\ n.owner = m.owner /\ n.depth = m.depth /\ n.acquired = 1
         /\ n.callNo = m.callNo + 1 /\ n.known = m.known \cup {fn}
         /\ n.num = [m.num EXCEPT ![t] = Numbering(m, t)]
         /\ n.nextNum = IF m.num[t] = 0 THEN m.nextNum + 1 ELSE m.nextNum
         /\ Numbering(m, t) \in Nat \ {0}
<1>1. Numbering(m, t) \in Nat \ {0} /\ 1 \in 0..1
  BY DEF Memory, Numbering
<1>2. /\ m.callNo + 1 \in Nat /\ m.nextNum + 1 \in Nat \ {0} /\ m.acquired + 1 = 1
      /\ m.known \cup {fn} \in SUBSET Function
      /\ [m.num EXCEPT ![t] = Numbering(m, t)] \in [Thread -> Nat]
  BY <1>1 DEF Memory
<1> DEFINE num == [m.num EXCEPT ![t] = Numbering(m, t)]
           next == IF m.num[t] = 0 THEN m.nextNum + 1 ELSE m.nextNum
<1>3. next \in Nat \ {0}
  BY <1>2 DEF Memory
<1>4. Counted(m, t, fn) =
        [m EXCEPT !.acquired = 1, !.num = num, !.nextNum = next,
                  !.callNo = m.callNo + 1, !.known = m.known \cup {fn}]
  BY <1>2 DEF Memory, Counted
<1> HIDE DEF num, next
<1>5. LET n == Counted(m, t, fn) IN
      /\ n \in Memory /\ SameHandler(n, m)
      /\ n.file = m.file /\ n.pid = m.pid /\ n.cache = m.cache /\ n.stream = m.stream
      /\ n.owner = m.owner /\ n.depth = m.depth /\ n.acquired = 1
      /\ n.callNo = m.callNo + 1 /\ n.known = m.known \cup {fn}
      /\ n.num = num /\ n.nextNum = next
  <2>1. num \in [Thread -> Nat]
    BY <1>2 DEF num
  <2> DEFINE first == [m EXCEPT !.acquired = 1, !.num = num, !.nextNum = next]
  <2>2. /\ first \in Memory /\ SameHandler(first, m)
        /\ first.file = m.file /\ first.pid = m.pid
        /\ first.cache = m.cache /\ first.stream = m.stream
        /\ first.owner = m.owner /\ first.depth = m.depth /\ first.acquired = 1
        /\ first.callNo = m.callNo /\ first.known = m.known
        /\ first.num = num /\ first.nextNum = next
    BY <1>1, <1>3, <2>1, ZenonT(60) DEF Memory, SameHandler
  <2>3. m.callNo + 1 \in Nat /\ m.known \cup {fn} \in SUBSET Function
    BY <1>2
  <2>4. Counted(m, t, fn) =
          [first EXCEPT !.callNo = m.callNo + 1, !.known = m.known \cup {fn}]
    BY <1>4 DEF Memory
  <2> HIDE DEF first
  <2>5. QED
    BY <2>2, <2>3, <2>4, ZenonT(60) DEF Memory, SameHandler
<1>6. QED
  BY <1>1, <1>5 DEF num, next

-----------------------------------------------------------------------------
(* What each step does to the memory, one lemma per kind of step.          *)

LEMMA MemoryStep ==
  ASSUME Types, NEW p \in Proc, NEW n \in Memory, Len(n.cache) < ChunkSize,
         mem' = [mem EXCEPT ![p] = n]
  PROVE  /\ mem' \in [Proc -> Memory] /\ \A q \in Proc : Len(mem'[q].cache) < ChunkSize
         /\ mem'[p] = n /\ \A q \in Proc \ {p} : mem'[q] = mem[q]
BY DEF Types

(* The thread that is in a call holds the mutex, and no other is in one.   *)
LEMMA Holder ==
  ASSUME Types, Mutexes, Places, NEW p \in Proc, NEW t \in Thread
  PROVE  /\ pc[p][t] \in Inside =>
              /\ mem[p].owner = t
              /\ mem[p].acquired = IF pc[p][t] \in Begun THEN 1 ELSE 0
         /\ At(p, t, pc[p][t]) /\ pc[p][t] \in Inside => mem[p].depth = 1
         /\ handler[p][t] = "flushing" =>
              /\ mem[p].owner = t /\ mem[p].depth > 0 /\ pc[p][t] # "gone"
              /\ mem[p].depth = IF pc[p][t] \in Inside THEN 2 ELSE 1
              /\ mem[p].acquired = IF pc[p][t] \in Begun THEN 1 ELSE 0
         /\ handler[p][t] # "flushing" /\ pc[p][t] # "gone" /\ MayLock(p, t) =>
              /\ mem[p].depth = IF pc[p][t] \in Inside THEN 1 ELSE 0
              /\ mem[p].acquired = IF pc[p][t] \in Begun THEN 1 ELSE 0
<1>1. MutexOf(p) /\ mem[p] \in Memory /\ mem[p].depth \in 0..2 /\ NoThread # t
  BY ThreadAssumption DEF Mutexes, Types, Memory
<1>2. pc[p][t] \in Inside => pc[p][t] # "gone"
  BY DEF Inside
<1>3. Holding(p, t) = (IF pc[p][t] \in Inside THEN 1 ELSE 0)
                      + (IF handler[p][t] = "flushing" THEN 1 ELSE 0)
  BY DEF Holding
<1>4. pc[p][t] = "gone" => handler[p][t] = "none"
  BY DEF Places
<1>5. mem[p].owner = NoThread => pc[p][t] \notin Inside /\ pc[p][t] \notin Begun
  BY <1>1, <1>3 DEF MutexOf, Inside, Begun
<1>6. QED
  BY <1>1, <1>2, <1>3, <1>4, <1>5 DEF MutexOf, At, MayLock, CanLock

LEMMA LockEffect ==
  ASSUME Types, Mutexes, Places, NEW p \in Proc, NEW t \in Thread,
         pc[p][t] # "gone", handler[p][t] # "flushing",
         MayLock(p, t), mem' = [mem EXCEPT ![p] = Locked(@, t)]
  PROVE  /\ mem' \in [Proc -> Memory] /\ \A q \in Proc : Len(mem'[q].cache) < ChunkSize
         /\ SameTracing(mem'[p], mem[p]) /\ SameHandler(mem'[p], mem[p])
         /\ mem'[p].owner = t /\ mem'[p].depth = mem[p].depth + 1
         /\ mem'[p].acquired = mem[p].acquired
         /\ mem[p].depth = IF pc[p][t] \in Inside THEN 1 ELSE 0
         /\ mem[p].acquired = IF pc[p][t] \in Begun THEN 1 ELSE 0
         /\ \A q \in Proc \ {p} : mem'[q] = mem[q]
<1>1. /\ mem[p] \in Memory /\ Len(mem[p].cache) < ChunkSize
      /\ mem' = [mem EXCEPT ![p] = Locked(mem[p], t)]
  BY DEF Types
<1>2. /\ mem[p].depth = IF pc[p][t] \in Inside THEN 1 ELSE 0
      /\ mem[p].acquired = IF pc[p][t] \in Begun THEN 1 ELSE 0
  BY Holder
<1> DEFINE n == Locked(mem[p], t)
<1>3. /\ n \in Memory /\ SameTracing(n, mem[p]) /\ SameHandler(n, mem[p])
      /\ n.owner = t /\ n.depth = mem[p].depth + 1 /\ n.acquired = mem[p].acquired
  BY <1>1, <1>2, LockedEffect
<1> HIDE DEF n
<1>4. Len(n.cache) < ChunkSize
  BY <1>1, <1>3 DEF SameTracing
<1>5. /\ mem' \in [Proc -> Memory] /\ \A q \in Proc : Len(mem'[q].cache) < ChunkSize
      /\ mem'[p] = n /\ \A q \in Proc \ {p} : mem'[q] = mem[q]
  BY <1>1, <1>3, <1>4, MemoryStep DEF n
<1>6. QED
  BY <1>2, <1>3, <1>5

(* What BeginLeave, EndEvent and BeginEnter have in common: an event at    *)
(* the end of what p holds for its file; q is another process.             *)
Kept(q) == disk'[q] = disk[q] /\ writers'[q] = writers[q]

Spoiled(q) ==
  /\ mem[q].file = q \/ alive[q] = "exited"
  /\ ~(writers'[q] \subseteq {q})
  /\ Len(disk[q]) <= Len(disk'[q])

LeftAlone(q) == mem'[q] = mem[q] /\ (Kept(q) \/ Spoiled(q))

Writes(p, m, e) ==
  /\ disk'[p] \o Buffered(mem'[p]) = Append(disk[p] \o Buffered(m), e)
  /\ Buffered(mem'[p]) \in {<< >>, Append(Buffered(m), e)}
  /\ Len(disk[p]) <= Len(disk'[p])
  /\ writers'[p] \in {writers[p], writers[p] \cup {p}}
  /\ \A q \in Proc \ {p} : LeftAlone(q)

LEMMA BeginLeaveEffect ==
  ASSUME Types, Mutexes, Places, NEW p \in Proc, NEW t \in Thread, BeginLeave(p, t)
  PROVE  /\ FileTypes'
         /\ Leave(t, call[p][t]) \in Event
         /\ Writes(p, mem[p], Leave(t, call[p][t]))
         /\ mem'[p].file = mem[p].file /\ mem'[p].pid = mem[p].pid
         /\ mem'[p].callNo = mem[p].callNo /\ mem'[p].known = mem[p].known
         /\ mem'[p].num = mem[p].num /\ mem'[p].nextNum = mem[p].nextNum
         /\ mem[p].owner = t /\ mem[p].depth = 1
         /\ mem'[p].owner = t /\ mem'[p].depth = 1 /\ mem'[p].acquired = 1
         /\ SameHandler(mem'[p], mem[p])
<1> DEFINE m == [mem[p] EXCEPT !.acquired = 1]
           e == Leave(t, call[p][t])
<1>1. /\ mem[p] \in Memory /\ Len(mem[p].cache) < ChunkSize /\ call[p][t] \in Nat
      /\ 1 \in 0..1
  BY DEF Types
<1>2. mem[p].owner = t /\ mem[p].depth = 1 /\ mem[p].acquired = 0
  <2>1. pc[p][t] = "leaving" /\ At(p, t, pc[p][t])
    BY DEF BeginLeave, At
  <2>2. pc[p][t] \in Inside /\ pc[p][t] \notin Begun
    BY <2>1 DEF Inside, Begun
  <2>3. QED
    BY <2>1, <2>2, Holder
<1>3. /\ m \in Memory /\ SameTracing(m, mem[p]) /\ SameHandler(m, mem[p])
      /\ m.owner = mem[p].owner /\ m.depth = mem[p].depth /\ m.acquired = 1
  BY <1>1, AcquiredEffect
<1>4. e \in Event
  BY <1>1 DEF Event, Leave
<1>5. Write(p, m, e)
  BY <1>1, <1>2 DEF BeginLeave, Memory
<1> HIDE DEF m, e
<1>6. Len(m.cache) < ChunkSize /\ Buffered(m) = Buffered(mem[p])
  BY <1>1, <1>3 DEF SameTracing, Buffered
<1>7. /\ FileTypes' /\ SameButBuffer(mem'[p], m)
      /\ \A q \in Proc \ {p} :
              mem'[q] = mem[q] /\ disk'[q] = disk[q] /\ writers'[q] = writers[q]
      /\ disk'[p] \o Buffered(mem'[p]) = Append(disk[p] \o Buffered(m), e)
      /\ Buffered(mem'[p]) \in {<< >>, Append(Buffered(m), e)}
      /\ Len(disk[p]) <= Len(disk'[p])
      /\ writers'[p] \in {writers[p], writers[p] \cup {p}}
  BY <1>3, <1>4, <1>5, <1>6, WriteEffect
<1>8. Writes(p, mem[p], e)
  BY <1>6, <1>7 DEF Writes, LeftAlone, Kept
<1>9. QED
  BY <1>2, <1>3, <1>4, <1>7, <1>8
     DEF e, SameButBuffer, SameTracing, SameHandler

LEMMA EndEventEffect ==
  ASSUME Types, Mutexes, Places, NEW p \in Proc, NEW t \in Thread, EndEvent(p, t)
  PROVE  /\ FileTypes'
         /\ End(t) \in Event
         /\ Writes(p, mem[p], End(t))
         /\ mem'[p].file = mem[p].file /\ mem'[p].pid = mem[p].pid
         /\ mem'[p].callNo = mem[p].callNo /\ mem'[p].known = mem[p].known
         /\ mem'[p].num = mem[p].num /\ mem'[p].nextNum = mem[p].nextNum
         /\ mem[p].owner = t /\ mem[p].depth = 1
         /\ mem'[p].owner = NoThread /\ mem'[p].depth = 0 /\ mem'[p].acquired = 0
         /\ SameHandler(mem'[p], mem[p])
<1> DEFINE a == [mem[p] EXCEPT !.acquired = 0]
           m == Unlocked(a)
           e == End(t)
<1>1. /\ mem[p] \in Memory /\ Len(mem[p].cache) < ChunkSize /\ 0 \in 0..1
  BY DEF Types
<1>2. mem[p].owner = t /\ mem[p].depth = 1 /\ mem[p].acquired = 1
  <2>1. pc[p][t] \in {"entered", "left"} /\ At(p, t, pc[p][t])
    BY DEF EndEvent, At
  <2>2. pc[p][t] \in Inside /\ pc[p][t] \in Begun
    BY <2>1 DEF Inside, Begun
  <2>3. QED
    BY <2>1, <2>2, Holder
<1>3. /\ a \in Memory /\ SameTracing(a, mem[p]) /\ SameHandler(a, mem[p])
      /\ a.owner = mem[p].owner /\ a.depth = mem[p].depth /\ a.acquired = 0
  BY <1>1, AcquiredEffect
<1>4. e \in Event
  BY DEF Event, End
<1>5. Write(p, m, e)
  <2>1. Write(p, Unlocked([mem[p] EXCEPT !.acquired = @ - 1]), End(t))
    BY DEF EndEvent
  <2>2. [mem[p] EXCEPT !.acquired = @ - 1] = a
    BY <1>1, <1>2 DEF Memory
  <2>3. QED
    BY <2>1, <2>2
<1> HIDE DEF a, e
<1>6. /\ m \in Memory /\ SameTracing(m, a) /\ SameHandler(m, a)
      /\ m.owner = NoThread /\ m.depth = 0 /\ m.acquired = 0
  BY <1>2, <1>3, UnlockedEffect
<1> HIDE DEF m
<1>7. Len(m.cache) < ChunkSize /\ Buffered(m) = Buffered(mem[p])
  BY <1>1, <1>3, <1>6 DEF SameTracing, Buffered
<1>8. /\ FileTypes' /\ SameButBuffer(mem'[p], m)
      /\ \A q \in Proc \ {p} :
              mem'[q] = mem[q] /\ disk'[q] = disk[q] /\ writers'[q] = writers[q]
      /\ disk'[p] \o Buffered(mem'[p]) = Append(disk[p] \o Buffered(m), e)
      /\ Buffered(mem'[p]) \in {<< >>, Append(Buffered(m), e)}
      /\ Len(disk[p]) <= Len(disk'[p])
      /\ writers'[p] \in {writers[p], writers[p] \cup {p}}
  BY <1>4, <1>5, <1>6, <1>7, WriteEffect
<1>9. Writes(p, mem[p], e)
  BY <1>7, <1>8 DEF Writes, LeftAlone, Kept
<1>10. QED
  BY <1>2, <1>3, <1>4, <1>6, <1>8, <1>9
     DEF e, SameButBuffer, SameTracing, SameHandler

(* Leaving an inherited file may write to it, which the histories show.    *)
LEMMA CheckEffect ==
  ASSUME Types, FilesKept, NEW p \in Proc, alive[p] = "running", CheckProcessId(p)
  PROVE  /\ disk' \in [Proc -> Seq(Event)] /\ writers' \in [Proc -> SUBSET Proc]
         /\ Kept(p) /\ \A q \in Proc \ {p} : Kept(q) \/ Spoiled(q)
<1>1. CASE Inherited(mem[p], p)
  <2> DEFINE f == mem[p].file
  <2>1. /\ f \in Proc /\ f # p /\ f = Parent /\ p = Child
    BY <1>1, ProcFacts DEF FilesKept, FileOf, Inherited, Types, Memory
  <2>2. mem[f].file = f \/ alive[f] = "exited"
    BY <2>1 DEF FilesKept
  <2>3. FlushTo(p)
    BY <1>1 DEF CheckProcessId
  <2>4. /\ disk' \in [Proc -> Seq(Event)] /\ writers' \in [Proc -> SUBSET Proc]
        /\ disk'[f] = disk[f] \o Buffered(mem[p])
        /\ Len(disk[f]) <= Len(disk'[f])
        /\ writers'[f] = writers[f] \cup (IF Buffered(mem[p]) = << >> THEN {} ELSE {p})
        /\ \A q \in Proc \ {f} : disk'[q] = disk[q] /\ writers'[q] = writers[q]
    BY <2>1, <2>3, FlushEffect
  <2>5. Kept(f) \/ Spoiled(f)
    <3>1. CASE Buffered(mem[p]) = << >>
      <4>1. disk[f] \in Seq(Event)
        BY <2>1 DEF Types
      <4>2. disk[f] \o << >> = disk[f]
        BY <4>1, ConcatEmptySeq
      <4>3. QED
        BY <2>4, <3>1, <4>2 DEF Kept
    <3>2. CASE Buffered(mem[p]) # << >>
      BY <2>1, <2>2, <2>4, <3>2 DEF Spoiled
    <3>3. QED
      BY <3>1, <3>2
  <2>6. QED
    BY <2>1, <2>4, <2>5, ProcFacts DEF Kept
<1>2. CASE ~Inherited(mem[p], p)
  BY <1>2 DEF CheckProcessId, Kept, Types
<1>3. QED
  BY <1>1, <1>2

(* The memory in which beginEnter makes its event: the trace of p itself,  *)
(* which is new if p had no file of its own open.                          *)
LEMMA ReadyEffect ==
  ASSUME Types, FilesKept, NEW p \in Proc, alive[p] = "running"
  PROVE  LET m == FileReady(mem[p], p) IN
         /\ m \in Memory /\ SameMutex(m, mem[p]) /\ SameHandler(m, mem[p])
         /\ Len(m.cache) < ChunkSize
         /\ m.file = p /\ m.pid = p
         /\ m.num = mem[p].num /\ m.nextNum = mem[p].nextNum
         /\ mem[p].file = p => m = mem[p]
         /\ mem[p].file # p =>
              /\ disk[p] = << >> /\ Buffered(m) = <<Version>>
              /\ m.callNo = 0 /\ m.known = {}
<1>1. mem[p] \in Memory /\ Len(mem[p].cache) < ChunkSize
  BY DEF Types
<1>2. mem[p].file # NoFile => mem[p].pid = mem[p].file
  BY DEF FilesKept, FileOf
<1>3. (mem[p].file = NoFile \/ Inherited(mem[p], p)) <=> mem[p].file # p
  BY <1>2, ProcFacts DEF Inherited
<1>4. CASE mem[p].file = p
  BY <1>1, <1>2, <1>3, <1>4, ProcFacts DEF FileReady, SameMutex, SameHandler
<1>5. CASE mem[p].file # p
  <2>1. FileReady(mem[p], p) = Opened(mem[p], p)
    BY <1>3, <1>5 DEF FileReady
  <2>2. disk[p] = << >>
    BY <1>5 DEF FilesKept, FileOf
  <2>3. QED
    BY <1>1, <1>5, <2>1, <2>2, OpenedEffect
<1>6. QED
  BY <1>4, <1>5

LEMMA BeginEnterEffect ==
  ASSUME Types, Mutexes, Places, FilesKept, NEW p \in Proc, NEW t \in Thread,
         BeginEnter(p, t)
  PROVE  \E fn \in Function :
         LET m == FileReady(mem[p], p)
             n == Numbering(m, t)
             e == NextEnter(m, t, fn) IN
         /\ FileTypes'
         /\ n \in Nat \ {0} /\ e \in Event
         /\ Writes(p, m, e)
         /\ call' = [call EXCEPT ![p][t] = m.callNo]
         /\ mem'[p].file = p /\ mem'[p].pid = p
         /\ mem'[p].callNo = m.callNo + 1 /\ mem'[p].known = m.known \cup {fn}
         /\ mem'[p].num = [m.num EXCEPT ![t] = n]
         /\ mem'[p].nextNum = IF m.num[t] = 0 THEN m.nextNum + 1 ELSE m.nextNum
         /\ mem[p].owner = t /\ mem[p].depth = 1
         /\ mem'[p].owner = t /\ mem'[p].depth = 1 /\ mem'[p].acquired = 1
         /\ SameHandler(mem'[p], mem[p])
<1> DEFINE m == FileReady(mem[p], p)
           n == Numbering(m, t)
           e(fn) == NextEnter(m, t, fn)
<1>1. PICK fn \in Function :
        /\ At(p, t, "entering")
        /\ IF Inherited(mem[p], p)
             THEN /\ CheckProcessId(p)
                  /\ mem' = [mem EXCEPT ![p] = Put(Counted(m, t, fn), e(fn))]
             ELSE Write(p, Counted(m, t, fn), e(fn))
        /\ call' = [call EXCEPT ![p][t] = m.callNo]
  BY DEF BeginEnter, Counted, Numbering, NextEnter
<1>2. alive[p] = "running" /\ pc[p][t] = "entering" /\ At(p, t, pc[p][t])
  BY <1>1 DEF At
<1>3. mem[p].owner = t /\ mem[p].depth = 1 /\ mem[p].acquired = 0
  BY <1>2, Holder DEF Inside, Begun
<1>4. /\ m \in Memory /\ SameMutex(m, mem[p]) /\ SameHandler(m, mem[p])
      /\ Len(m.cache) < ChunkSize /\ m.file = p /\ m.pid = p
      /\ m.callNo \in Nat /\ m.known \in SUBSET Function
  BY <1>2, ReadyEffect DEF Memory
<1> HIDE DEF m
<1> DEFINE c == Counted(m, t, fn)
<1>5. /\ c \in Memory /\ SameHandler(c, m)
      /\ c.file = m.file /\ c.pid = m.pid /\ c.cache = m.cache /\ c.stream = m.stream
      /\ c.owner = m.owner /\ c.depth = m.depth /\ c.acquired = 1
      /\ c.callNo = m.callNo + 1 /\ c.known = m.known \cup {fn}
      /\ c.num = [m.num EXCEPT ![t] = n]
      /\ c.nextNum = IF m.num[t] = 0 THEN m.nextNum + 1 ELSE m.nextNum
      /\ n \in Nat \ {0}
  BY <1>3, <1>4, CountedEffect DEF SameMutex
<1>6. e(fn) \in Event
  <2>1. n - 1 \in Nat /\ (fn \notin m.known) \in BOOLEAN
    BY <1>5
  <2>2. QED
    BY <1>4, <2>1, EventTypes DEF NextEnter
<1>7. Len(c.cache) < ChunkSize /\ Buffered(c) = Buffered(m)
  BY <1>4, <1>5 DEF Buffered
<1> DEFINE ev == e(fn)
<1> HIDE DEF n, e, c
<1>8. /\ FileTypes' /\ SameButBuffer(mem'[p], c) /\ Writes(p, m, ev)
  <2>1. CASE Inherited(mem[p], p)
    <3>1. /\ disk' \in [Proc -> Seq(Event)] /\ writers' \in [Proc -> SUBSET Proc]
          /\ Kept(p) /\ \A q \in Proc \ {p} : Kept(q) \/ Spoiled(q)
      BY <1>1, <1>2, <2>1, CheckEffect
    <3>2. mem' = [mem EXCEPT ![p] = Put(c, ev)]
      BY <1>1, <2>1 DEF c
    <3>3. /\ Put(c, ev) \in Memory /\ Len(Put(c, ev).cache) < ChunkSize
          /\ SameButBuffer(Put(c, ev), c) /\ Buffered(Put(c, ev)) = Append(Buffered(c), ev)
      BY <1>5, <1>6, <1>7, PutEffect
    <3>4. /\ mem' \in [Proc -> Memory] /\ \A q \in Proc : Len(mem'[q].cache) < ChunkSize
          /\ mem'[p] = Put(c, ev) /\ \A q \in Proc \ {p} : mem'[q] = mem[q]
      BY <3>2, <3>3, MemoryStep
    <3>5. disk[p] \in Seq(Event) /\ Buffered(m) \in Seq(Event) /\ Len(disk[p]) \in Nat
      BY <1>4, MemoryOf, BufferedType
    <3>6. disk'[p] \o Buffered(mem'[p]) = Append(disk[p] \o Buffered(m), ev)
      <4>1. disk'[p] \o Buffered(mem'[p]) = disk[p] \o Append(Buffered(m), ev)
        BY <1>7, <3>1, <3>3, <3>4 DEF Kept
      <4>2. QED
        BY <1>6, <3>5, <4>1, EventsAppend, Zenon
    <3>7. Buffered(mem'[p]) = Append(Buffered(m), ev) /\ Len(disk[p]) <= Len(disk'[p])
      BY <1>7, <3>1, <3>3, <3>4, <3>5 DEF Kept
    <3>8. Writes(p, m, ev)
      BY <3>1, <3>4, <3>6, <3>7 DEF Writes, LeftAlone, Kept
    <3>9. QED
      BY <3>1, <3>3, <3>4, <3>8 DEF FileTypes
  <2>2. CASE ~Inherited(mem[p], p)
    <3>1. Write(p, c, ev)
      BY <1>1, <2>2 DEF c
    <3>2. /\ FileTypes' /\ SameButBuffer(mem'[p], c)
          /\ \A q \in Proc \ {p} :
               mem'[q] = mem[q] /\ disk'[q] = disk[q] /\ writers'[q] = writers[q]
          /\ disk'[p] \o Buffered(mem'[p]) = Append(disk[p] \o Buffered(c), ev)
          /\ Buffered(mem'[p]) \in {<< >>, Append(Buffered(c), ev)}
          /\ Len(disk[p]) <= Len(disk'[p])
          /\ writers'[p] \in {writers[p], writers[p] \cup {p}}
      BY <1>5, <1>6, <1>7, <3>1, WriteEffect
    <3>3. Writes(p, m, ev)
      BY <1>7, <3>2 DEF Writes, LeftAlone, Kept
    <3>4. QED
      BY <3>2, <3>3
  <2>3. QED
    BY <2>1, <2>2
<1>9. /\ mem'[p].file = p /\ mem'[p].pid = p
      /\ mem'[p].callNo = m.callNo + 1 /\ mem'[p].known = m.known \cup {fn}
      /\ mem'[p].num = [m.num EXCEPT ![t] = n]
      /\ mem'[p].nextNum = IF m.num[t] = 0 THEN m.nextNum + 1 ELSE m.nextNum
      /\ mem'[p].owner = t /\ mem'[p].depth = 1 /\ mem'[p].acquired = 1
      /\ SameHandler(mem'[p], mem[p])
  BY <1>3, <1>4, <1>5, <1>8 DEF SameButBuffer, SameMutex, SameHandler
<1>10. QED
  BY <1>1, <1>3, <1>5, <1>6, <1>8, <1>9, SMTT(40) DEF m, n, e

(* All that p holds goes to the file, which is its own.                    *)
Flushes(p) ==
  /\ disk'[p] = disk[p] \o Buffered(mem[p])
  /\ Buffered(mem'[p]) = << >>
  /\ Len(disk[p]) <= Len(disk'[p])
  /\ writers'[p] \in {writers[p], writers[p] \cup {p}}

LEMMA FlushStepEffect ==
  ASSUME Types, Mutexes, Places, FilesKept, NEW p \in Proc, NEW t \in Thread,
         Flush(p, t)
  PROVE  /\ FileTypes'
         /\ mem'[p].file = mem[p].file /\ mem'[p].pid = mem[p].pid
         /\ mem'[p].callNo = mem[p].callNo /\ mem'[p].known = mem[p].known
         /\ mem'[p].num = mem[p].num /\ mem'[p].nextNum = mem[p].nextNum
         /\ mem[p].owner = t /\ mem[p].depth \in 1..2
         /\ mem'[p].owner = IF mem[p].depth = 1 THEN NoThread ELSE mem[p].owner
         /\ mem'[p].depth = mem[p].depth - 1 /\ mem'[p].acquired = mem[p].acquired
         /\ SameHandler(mem'[p], mem[p])
         /\ \A q \in Proc \ {p} : mem'[q] = mem[q] /\ Kept(q)
         /\ IF MayFlush(p) THEN mem[p].file = p /\ Flushes(p)
            ELSE Kept(p) /\ SameTracing(mem'[p], mem[p])
<1> DEFINE m == Unlocked(mem[p])
           n == [m EXCEPT !.cache = << >>, !.stream = << >>]
<1>1. mem[p] \in Memory /\ Len(mem[p].cache) < ChunkSize
  BY DEF Types
<1>2. mem[p].owner = t /\ mem[p].depth \in 1..2
  BY Holder DEF Flush, In
<1>3. /\ m \in Memory /\ SameTracing(m, mem[p]) /\ SameHandler(m, mem[p])
      /\ m.owner = IF mem[p].depth = 1 THEN NoThread ELSE mem[p].owner
      /\ m.depth = mem[p].depth - 1 /\ m.acquired = mem[p].acquired
  BY <1>1, <1>2, UnlockedEffect
<1>4. CASE MayFlush(p)
  <2>1. FlushTo(p) /\ mem' = [mem EXCEPT ![p] = n]
    BY <1>4 DEF Flush, Types
  <2> HIDE DEF m
  <2>2. /\ n \in Memory /\ SameButBuffer(n, m) /\ Buffered(n) = << >>
        /\ Len(n.cache) = 0
    BY <1>3, EmptiedEffect
  <2> HIDE DEF n
  <2>3. Len(n.cache) < ChunkSize
    BY <2>2, ChunkAssumption
  <2>4. /\ mem' \in [Proc -> Memory] /\ \A q \in Proc : Len(mem'[q].cache) < ChunkSize
        /\ mem'[p] = n /\ \A q \in Proc \ {p} : mem'[q] = mem[q]
    BY <2>1, <2>2, <2>3, MemoryStep
  <2>5. mem[p].file = p
    BY <1>4 DEF MayFlush, FilesKept, FileOf
  <2>6. /\ disk' \in [Proc -> Seq(Event)] /\ writers' \in [Proc -> SUBSET Proc]
        /\ disk'[p] = disk[p] \o Buffered(mem[p]) /\ Len(disk[p]) <= Len(disk'[p])
        /\ writers'[p] = writers[p] \cup (IF Buffered(mem[p]) = << >> THEN {} ELSE {p})
        /\ \A q \in Proc \ {p} : disk'[q] = disk[q] /\ writers'[q] = writers[q]
    BY <2>1, <2>5, FlushEffect
  <2>7. Flushes(p)
    BY <2>2, <2>4, <2>6 DEF Flushes
  <2>8. QED
    BY <1>2, <1>3, <1>4, <2>2, <2>4, <2>5, <2>6, <2>7
       DEF FileTypes, Kept, SameButBuffer, SameTracing, SameHandler
<1>5. CASE ~MayFlush(p)
  <2>1. mem' = [mem EXCEPT ![p] = m] /\ UNCHANGED <<disk, writers>>
    BY <1>5 DEF Flush, Types
  <2> HIDE DEF m
  <2>2. Len(m.cache) < ChunkSize
    BY <1>1, <1>3 DEF SameTracing
  <2>3. /\ mem' \in [Proc -> Memory] /\ \A q \in Proc : Len(mem'[q].cache) < ChunkSize
        /\ mem'[p] = m /\ \A q \in Proc \ {p} : mem'[q] = mem[q]
    BY <1>3, <2>1, <2>2, MemoryStep
  <2>4. disk' \in [Proc -> Seq(Event)] /\ writers' \in [Proc -> SUBSET Proc]
        /\ \A q \in Proc : Kept(q)
    BY <2>1 DEF Types, Kept
  <2>5. QED
    BY <1>2, <1>3, <1>5, <2>3, <2>4 DEF FileTypes, SameTracing
<1>6. QED
  BY <1>4, <1>5

LEMMA DestroyLocalEffect ==
  ASSUME Types, FilesKept, NEW p \in Proc, NEW t \in Thread, DestroyLocal(p, t)
  PROVE  LET m == mem'[p] IN
         /\ FileTypes'
         /\ SameMutex(m, mem[p]) /\ SameHandler(m, mem[p])
         /\ m.num = mem[p].num /\ m.nextNum = mem[p].nextNum
         /\ Kept(p) /\ \A q \in Proc \ {p} : LeftAlone(q)
         /\ \/ m = mem[p] /\ m.file \in {p, NoFile}
            \/ /\ mem[p].file # p /\ disk[p] = << >>
               /\ m.file = p /\ m.pid = p /\ Buffered(m) = <<Version>>
               /\ m.callNo = 0 /\ m.known = {}
<1> DEFINE n == IF Inherited(mem[p], p) THEN Opened(mem[p], p) ELSE mem[p]
<1>1. mem[p] \in Memory /\ Len(mem[p].cache) < ChunkSize /\ alive[p] = "running"
  BY DEF Types, DestroyLocal, At
<1>2. /\ disk' \in [Proc -> Seq(Event)] /\ writers' \in [Proc -> SUBSET Proc]
      /\ Kept(p) /\ \A q \in Proc \ {p} : Kept(q) \/ Spoiled(q)
  BY <1>1, CheckEffect DEF DestroyLocal
<1>3. mem' = [mem EXCEPT ![p] = n]
  BY DEF DestroyLocal, Types
<1>4. FileOf(p)
  BY DEF FilesKept
<1>5. /\ n \in Memory /\ Len(n.cache) < ChunkSize
      /\ SameMutex(n, mem[p]) /\ SameHandler(n, mem[p])
      /\ n.num = mem[p].num /\ n.nextNum = mem[p].nextNum
      /\ \/ n = mem[p] /\ n.file \in {p, NoFile}
         \/ /\ mem[p].file # p /\ disk[p] = << >>
            /\ n.file = p /\ n.pid = p /\ Buffered(n) = <<Version>>
            /\ n.callNo = 0 /\ n.known = {}
  <2>1. CASE Inherited(mem[p], p)
    <3>1. n = Opened(mem[p], p) /\ mem[p].file # p /\ disk[p] = << >>
      BY <1>1, <1>4, <2>1 DEF FileOf, Inherited
    <3>2. QED
      BY <1>1, <3>1, OpenedEffect
  <2>2. CASE ~Inherited(mem[p], p)
    BY <1>1, <1>4, <2>2 DEF FileOf, Inherited, SameMutex, SameHandler
  <2>3. QED
    BY <2>1, <2>2
<1> HIDE DEF n
<1>6. /\ mem' \in [Proc -> Memory] /\ \A q \in Proc : Len(mem'[q].cache) < ChunkSize
      /\ mem'[p] = n /\ \A q \in Proc \ {p} : mem'[q] = mem[q]
  BY <1>3, <1>5, MemoryStep
<1>7. QED
  BY <1>2, <1>5, <1>6 DEF FileTypes, LeftAlone

LEMMA DestroyWriterEffect ==
  ASSUME Types, FilesKept, NEW p \in Proc, NEW t \in Thread, DestroyWriter(p, t)
  PROVE  LET m == mem'[p] IN
         /\ FileTypes'
         /\ SameMutex(m, mem[p]) /\ SameHandler(m, mem[p])
         /\ m.num = mem[p].num /\ m.nextNum = mem[p].nextNum
         /\ m.file = NoFile /\ m.pid = mem[p].pid /\ Buffered(m) = << >>
         /\ mem[p].file \in {p, NoFile}
         /\ \A q \in Proc \ {p} : mem'[q] = mem[q] /\ Kept(q)
         /\ IF mem[p].file = p THEN Flushes(p) ELSE Kept(p)
<1> DEFINE n == [mem[p] EXCEPT !.file = NoFile]
           m == [n EXCEPT !.cache = << >>, !.stream = << >>]
<1>1. mem[p] \in Memory /\ pc[p][t] = "closing"
  BY DEF Types, DestroyWriter, At
<1>2. mem[p].file \in {p, NoFile}
  BY <1>1 DEF FilesKept, FileOf
<1>3. /\ n \in Memory /\ n.file = NoFile /\ n.pid = mem[p].pid
      /\ SameMutex(n, mem[p]) /\ SameHandler(n, mem[p])
      /\ n.num = mem[p].num /\ n.nextNum = mem[p].nextNum
  BY <1>1 DEF Memory, SameMutex, SameHandler
<1>4. mem' = [mem EXCEPT ![p] = m]
  BY DEF DestroyWriter, Types
<1> HIDE DEF n
<1>5. m \in Memory /\ SameButBuffer(m, n) /\ Buffered(m) = << >> /\ Len(m.cache) = 0
  BY <1>3, EmptiedEffect
<1> HIDE DEF m
<1>6. /\ mem' \in [Proc -> Memory] /\ \A q \in Proc : Len(mem'[q].cache) < ChunkSize
      /\ mem'[p] = m /\ \A q \in Proc \ {p} : mem'[q] = mem[q]
  <2>1. Len(m.cache) < ChunkSize
    BY <1>5, ChunkAssumption
  <2>2. QED
    BY <1>4, <1>5, <2>1, MemoryStep
<1>7. /\ disk' \in [Proc -> Seq(Event)] /\ writers' \in [Proc -> SUBSET Proc]
      /\ \A q \in Proc \ {p} : Kept(q)
      /\ IF mem[p].file = p THEN Flushes(p) ELSE Kept(p)
  <2>1. CASE mem[p].file = p
    <3>1. FlushTo(p)
      BY <2>1, ProcFacts DEF DestroyWriter
    <3>2. /\ disk' \in [Proc -> Seq(Event)] /\ writers' \in [Proc -> SUBSET Proc]
          /\ disk'[p] = disk[p] \o Buffered(mem[p]) /\ Len(disk[p]) <= Len(disk'[p])
          /\ writers'[p] = writers[p] \cup (IF Buffered(mem[p]) = << >> THEN {} ELSE {p})
          /\ \A q \in Proc \ {p} : disk'[q] = disk[q] /\ writers'[q] = writers[q]
      BY <2>1, <3>1, FlushEffect
    <3>3. QED
      BY <1>5, <1>6, <2>1, <3>2 DEF Flushes, Kept
  <2>2. CASE mem[p].file = NoFile
    BY <2>2, ProcFacts DEF DestroyWriter, Types, Kept
  <2>3. QED
    BY <1>2, <2>1, <2>2
<1>8. QED
  BY <1>2, <1>3, <1>5, <1>6, <1>7
     DEF FileTypes, SameButBuffer, SameMutex, SameHandler

(* The changes of what only the handler uses, by Exit and by a handler.    *)
LEMMA CallbackEffect ==
  ASSUME Types, NEW p \in Proc, mem' = [mem EXCEPT ![p].callback = FALSE]
  PROVE  /\ mem' \in [Proc -> Memory] /\ \A q \in Proc : Len(mem'[q].cache) < ChunkSize
         /\ \A q \in Proc : SameTracing(mem'[q], mem[q]) /\ SameMutex(mem'[q], mem[q])
         /\ \A q \in Proc : SameCount(mem'[q], mem[q])
         /\ \A q \in Proc \ {p} : mem'[q] = mem[q]
         /\ mem'[p].callback = FALSE
<1> DEFINE n == [mem[p] EXCEPT !.callback = FALSE]
<1>1. mem[p] \in Memory /\ Len(mem[p].cache) < ChunkSize
  BY DEF Types
<1>2. /\ n \in Memory /\ SameTracing(n, mem[p]) /\ SameMutex(n, mem[p])
      /\ SameCount(n, mem[p]) /\ n.callback = FALSE
  BY <1>1 DEF Memory, SameTracing, SameMutex, SameCount
<1>3. mem' = [mem EXCEPT ![p] = n]
  BY DEF Types
<1> HIDE DEF n
<1>4. Len(n.cache) < ChunkSize
  BY <1>1, <1>2 DEF SameTracing
<1>5. /\ mem' \in [Proc -> Memory] /\ \A q \in Proc : Len(mem'[q].cache) < ChunkSize
      /\ mem'[p] = n /\ \A q \in Proc \ {p} : mem'[q] = mem[q]
  BY <1>2, <1>3, <1>4, MemoryStep
<1>6. QED
  BY <1>2, <1>5 DEF SameTracing, SameMutex, SameCount

(* The memory after a test or a change of recursion_count.                 *)
Raced(p, t) ==
  mem[p].raced \/ \E u \in Thread \ {t} : handler[p][u] \in Passed

CountSteps(p, t) == Catch(p, t) \/ LoadCount(p, t) \/ StoreCount(p, t)

CountStep(p, t, n) ==
  /\ n \in Memory /\ SameTracing(n, mem[p]) /\ SameMutex(n, mem[p])
  /\ n.callback = mem[p].callback
  /\ \/ In(p, t, "caught") /\ mem[p].recursion # 0 /\ n = mem[p]
     \/ /\ In(p, t, "caught") /\ mem[p].recursion = 0 /\ n.raced = Raced(p, t)
        /\ n.recursion = mem[p].recursion /\ n.seen = mem[p].seen
     \/ /\ In(p, t, "count") \/ In(p, t, "flushed")
        /\ n.raced = mem[p].raced /\ n.recursion = mem[p].recursion
        /\ n.seen = [mem[p].seen EXCEPT ![t] = mem[p].recursion]
     \/ /\ In(p, t, "counting") \/ In(p, t, "uncounting")
        /\ n.raced = mem[p].raced
        /\ n.recursion = mem[p].seen[t] + IF In(p, t, "counting") THEN 1 ELSE -1
        /\ n.seen = [mem[p].seen EXCEPT ![t] = 0]

LEMMA CountMemory ==
  ASSUME Types, NEW p \in Proc, NEW t \in Thread, CountSteps(p, t)
  PROVE  \E n \in Memory : mem' = [mem EXCEPT ![p] = n] /\ CountStep(p, t, n)
<1>0. mem[p] \in Memory /\ mem = [mem EXCEPT ![p] = mem[p]] /\ mem[p].recursion \in Int
  BY DEF Types, Memory
<1>1. CASE Catch(p, t) /\ mem[p].recursion # 0
  <2>1. mem' = mem /\ In(p, t, "caught")
    BY <1>1 DEF Catch
  <2> QED BY <1>0, <1>1, <2>1 DEF CountStep, SameTracing, SameMutex
<1>2. CASE Catch(p, t) /\ mem[p].recursion = 0
  <2> DEFINE n == [mem[p] EXCEPT !.raced = Raced(p, t)]
  <2>1. mem' = [mem EXCEPT ![p] = n] /\ In(p, t, "caught")
    BY <1>2 DEF Catch, Raced, Types
  <2>2. Raced(p, t) \in BOOLEAN
    BY <1>0 DEF Memory, Raced
  <2>3. n \in Memory /\ CountStep(p, t, n)
    BY <1>0, <1>2, <2>1, <2>2 DEF CountStep, Memory, SameTracing, SameMutex
  <2> QED BY <2>1, <2>3
<1>3. CASE LoadCount(p, t)
  <2> DEFINE seen == [mem[p].seen EXCEPT ![t] = mem[p].recursion]
             n == [mem[p] EXCEPT !.seen = seen]
  <2>1. mem' = [mem EXCEPT ![p] = n]
    BY <1>3 DEF LoadCount, Types
  <2>2. seen \in [Thread -> Int]
    BY <1>0 DEF Memory
  <2> HIDE DEF seen
  <2>3. n \in Memory /\ n.seen = seen
    BY <1>0, <2>2 DEF Memory
  <2>4. CountStep(p, t, n)
    <3>1. In(p, t, "count") \/ In(p, t, "flushed")
      BY <1>3 DEF LoadCount
    <3> QED BY <1>0, <2>3, <3>1 DEF CountStep, Memory, SameTracing, SameMutex, seen
  <2> QED BY <2>1, <2>3, <2>4
<1>4. CASE StoreCount(p, t)
  <2> DEFINE r == mem[p].seen[t] + IF In(p, t, "counting") THEN 1 ELSE -1
             seen == [mem[p].seen EXCEPT ![t] = 0]
             n == [mem[p] EXCEPT !.recursion = r, !.seen = seen]
  <2>1. mem' = [mem EXCEPT ![p] = n]
    <3>1. PICK label \in {"counting", "uncounting"} :
            /\ In(p, t, label)
            /\ mem' = [mem EXCEPT
                 ![p].recursion = mem[p].seen[t] + IF label = "counting" THEN 1 ELSE -1,
                 ![p].seen[t] = 0]
      BY <1>4 DEF StoreCount
    <3>2. label = "counting" <=> In(p, t, "counting")
      BY <3>1 DEF In
    <3>3. mem' = [mem EXCEPT ![p].recursion = r, ![p].seen[t] = 0]
      BY <3>1, <3>2, Zenon
    <3> HIDE DEF r
    <3> QED BY <3>3 DEF Types
  <2>2. seen \in [Thread -> Int] /\ r \in Int
    <3>1. mem[p].seen \in [Thread -> Int]
      BY <1>0 DEF Memory
    <3> QED BY <3>1
  <2> HIDE DEF seen, r
  <2>3. n \in Memory /\ n.seen = seen /\ n.recursion = r
    BY <1>0, <2>2 DEF Memory
  <2>4. CountStep(p, t, n)
    <3>1. In(p, t, "counting") \/ In(p, t, "uncounting")
      BY <1>4 DEF StoreCount
    <3> QED BY <1>0, <2>3, <3>1 DEF CountStep, Memory, SameTracing, SameMutex, seen, r
  <2> QED BY <2>1, <2>3, <2>4
<1> QED BY <1>1, <1>2, <1>3, <1>4 DEF CountSteps, Catch

LEMMA RecursionEffect ==
  ASSUME Types, NEW p \in Proc, NEW t \in Thread, CountSteps(p, t)
  PROVE  /\ mem' \in [Proc -> Memory] /\ \A q \in Proc : Len(mem'[q].cache) < ChunkSize
         /\ \A q \in Proc : SameTracing(mem'[q], mem[q]) /\ SameMutex(mem'[q], mem[q])
         /\ \A q \in Proc : mem'[q].callback = mem[q].callback
         /\ \A q \in Proc \ {p} : mem'[q] = mem[q]
         /\ CountStep(p, t, mem'[p])
<1>1. PICK n \in Memory : mem' = [mem EXCEPT ![p] = n] /\ CountStep(p, t, n)
  BY CountMemory
<1>2. SameTracing(n, mem[p]) /\ SameMutex(n, mem[p]) /\ n.callback = mem[p].callback
  BY <1>1 DEF CountStep
<1>3. Len(n.cache) < ChunkSize
  BY <1>2 DEF Types, SameTracing
<1>4. /\ mem' \in [Proc -> Memory] /\ \A q \in Proc : Len(mem'[q].cache) < ChunkSize
      /\ mem'[p] = n /\ \A q \in Proc \ {p} : mem'[q] = mem[q]
  BY <1>1, <1>3, MemoryStep
<1> QED BY <1>1, <1>2, <1>4 DEF SameTracing, SameMutex

LEMMA ForkEffect ==
  ASSUME Types, NEW t \in Thread, Fork(t)
  PROVE  /\ mem' \in [Proc -> Memory] /\ \A q \in Proc : Len(mem'[q].cache) < ChunkSize
         /\ mem'[Child] = mem[Parent] /\ mem'[Parent] = mem[Parent]
         /\ pc' = [pc EXCEPT ![Child] = [pc[Child] EXCEPT ![t] = "idle"]]
         /\ alive' = [alive EXCEPT ![Child] = "running"]
         /\ At(Parent, t, "idle") /\ alive[Child] = "unborn"
         /\ UNCHANGED <<handler, todo, call, disk, signals, writers, mark>>
<1>1. mem[Parent] \in Memory /\ Len(mem[Parent].cache) < ChunkSize
  BY ProcFacts DEF Types
<1>2. mem' = [mem EXCEPT ![Child] = mem[Parent]]
  BY DEF Fork
<1>3. /\ mem' \in [Proc -> Memory] /\ \A q \in Proc : Len(mem'[q].cache) < ChunkSize
      /\ mem'[Child] = mem[Parent] /\ \A q \in Proc \ {Child} : mem'[q] = mem[q]
  BY <1>1, <1>2, ProcFacts, MemoryStep
<1>4. QED
  BY <1>3, ProcFacts DEF Fork, Types
=============================================================================
