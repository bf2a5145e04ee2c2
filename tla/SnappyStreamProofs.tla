-------------------------- MODULE SnappyStreamProofs --------------------------
(* Proofs about SnappyStream, for every chunk size, every number of bytes  *)
(* and any calls: what the bytes of a sequence of chunks are (FlattenSeq)   *)
(* when chunks are appended, taken from the front, or cut out of a          *)
(* sequence of bytes; the inductive invariant of SnappyStreamInv, the order *)
(* of offsets, where reads and skips end, and the refinement of PlainFile.  *)
EXTENDS SnappyStreamInv, Integers, SequencesExt, SequenceTheorems,
        WellFoundedInduction, TLAPS

(* Induction, for a set of natural numbers.                                *)
LEMMA NatSetInduction ==
  ASSUME NEW S, 0 \in S, \A n \in Nat : n \in S => n + 1 \in S
  PROVE  Nat \subseteq S
<1> DEFINE T == Nat \ S
           R == OpToRel(<, Nat)
<1>1. IsWellFoundedOn(R, Nat)
  BY NatLessThanWellFounded
<1>2. ASSUME T # {} PROVE FALSE
  <2>1. PICK x \in T : \A y \in T : ~ (<<y, x>> \in R)
    <3> HIDE DEF R
    <3> QED BY <1>1, <1>2, WFMin
  <2>2. \A y \in T : ~(y < x)
    BY <2>1 DEF OpToRel
  <2>3. QED
    BY <2>2
<1>3. QED
  BY <1>2

-----------------------------------------------------------------------------
(* The function that FlattenSeq defines by recursion, up to place n.       *)
Flattened(s, n, g) ==
  /\ g = [i \in 1..n |-> g[i]]
  /\ \A i \in 1..n : g[i] = IF i = 1 THEN s[i] ELSE g[i - 1] \o s[i]

LEMMA FlattenedEquation ==
  ASSUME NEW s, NEW n, NEW g
  PROVE  Flattened(s, n, g) <=>
           g = [i \in 1..n |-> IF i = 1 THEN s[i] ELSE g[i - 1] \o s[i]]
<1> DEFINE F == [i \in 1..n |-> IF i = 1 THEN s[i] ELSE g[i - 1] \o s[i]]
<1>1. /\ F = [i \in 1..n |-> F[i]]
      /\ \A i \in 1..n : F[i] = IF i = 1 THEN s[i] ELSE g[i - 1] \o s[i]
  OBVIOUS
<1>2. ASSUME \A i \in 1..n : g[i] = IF i = 1 THEN s[i] ELSE g[i - 1] \o s[i]
      PROVE  F = [i \in 1..n |-> g[i]]
  BY <1>2
<1> HIDE DEF F
<1>3. Flattened(s, n, g) => g = F
  BY <1>2 DEF Flattened
<1>4. g = F => Flattened(s, n, g)
  BY <1>1 DEF Flattened
<1>5. QED
  BY <1>3, <1>4 DEF F

(* There is such a function.                                               *)
LEMMA FlattenedSteps ==
  ASSUME NEW s, NEW n, NEW g, Flattened(s, n, g)
  PROVE  \A i \in 1..n : g[i] = IF i = 1 THEN s[i] ELSE g[i - 1] \o s[i]
  BY Zenon DEF Flattened

LEMMA FlattenedExists ==
  ASSUME NEW s, NEW n \in Nat
  PROVE  \E g : Flattened(s, n, g)
<1> DEFINE S == {k \in Nat : \E g : Flattened(s, k, g)}
<1>1. 0 \in S
  <2>1. Flattened(s, 0, [i \in 1..0 |-> i])
    BY DEF Flattened
  <2>2. QED
    BY <2>1
<1>2. ASSUME NEW k \in Nat, k \in S PROVE k + 1 \in S
  <2>1. PICK g : Flattened(s, k, g)
    BY <1>2
  <2> DEFINE h == [i \in 1..(k + 1) |->
                     IF i = 1 THEN s[i] ELSE g[i - 1] \o s[i]]
  <2>2. /\ h = [i \in 1..(k + 1) |-> h[i]]
        /\ \A i \in 1..(k + 1) : h[i] = IF i = 1 THEN s[i] ELSE g[i - 1] \o s[i]
    OBVIOUS
  <2> HIDE DEF h
  <2>3. \A i \in 1..k : h[i] = g[i]
    <3>1. \A i \in 1..k : g[i] = IF i = 1 THEN s[i] ELSE g[i - 1] \o s[i]
      BY <2>1, FlattenedSteps
    <3>2. \A i \in 1..k : i \in 1..(k + 1)
      OBVIOUS
    <3>3. QED
      BY <2>2, <3>1, <3>2, Zenon
  <2>4. \A i \in 1..(k + 1) : i # 1 => i - 1 \in 1..k
    OBVIOUS
  <2>5. \A i \in 1..(k + 1) : h[i] = IF i = 1 THEN s[i] ELSE h[i - 1] \o s[i]
    BY <2>2, <2>3, <2>4
  <2>6. Flattened(s, k + 1, h)
    BY <2>2, <2>5 DEF Flattened
  <2>7. QED
    BY <2>6
<1>3. QED
  <2> HIDE DEF S
  <2>1. Nat \subseteq S
    BY <1>1, <1>2, NatSetInduction
  <2>2. QED
    BY <2>1 DEF S

(* There is only one.                                                      *)
LEMMA FlattenedUnique ==
  ASSUME NEW s, NEW n \in Nat, NEW m \in Nat, NEW g, NEW h,
         Flattened(s, n, g), Flattened(s, m, h)
  PROVE  \A i \in 1..n : i \in 1..m => g[i] = h[i]
<1> DEFINE S == {k \in Nat : k \in 1..n /\ k \in 1..m => g[k] = h[k]}
<1>1. 0 \in S
  OBVIOUS
<1>2. ASSUME NEW k \in Nat, k \in S PROVE k + 1 \in S
  <2>1. SUFFICES ASSUME k + 1 \in 1..n, k + 1 \in 1..m
                 PROVE  g[k + 1] = h[k + 1]
    OBVIOUS
  <2>2. /\ g[k + 1] = IF k + 1 = 1 THEN s[k + 1] ELSE g[k + 1 - 1] \o s[k + 1]
        /\ h[k + 1] = IF k + 1 = 1 THEN s[k + 1] ELSE h[k + 1 - 1] \o s[k + 1]
    <3>1. /\ \A i \in 1..n : g[i] = IF i = 1 THEN s[i] ELSE g[i - 1] \o s[i]
          /\ \A i \in 1..m : h[i] = IF i = 1 THEN s[i] ELSE h[i - 1] \o s[i]
      BY FlattenedSteps
    <3>2. QED
      BY <2>1, <3>1
  <2>3. k + 1 - 1 = k /\ (k + 1 # 1 => k \in 1..n /\ k \in 1..m)
    BY <2>1
  <2>4. QED
    BY <1>2, <2>1, <2>2, <2>3
<1>3. Nat \subseteq S
  <2> HIDE DEF S
  <2>1. QED
    BY <1>1, <1>2, NatSetInduction
<1>4. QED
  BY <1>3

LEMMA FlattenIs ==
  ASSUME NEW s, Len(s) \in Nat \ {0}, NEW g, Flattened(s, Len(s), g)
  PROVE  FlattenSeq(s) = g[Len(s)]
<1> DEFINE h == CHOOSE f : Flattened(s, Len(s), f)
<1>1. Flattened(s, Len(s), h)
  OBVIOUS
<1>2. FlattenSeq(s) = h[Len(s)]
  <2>1. h = CHOOSE f : f = [i \in 1..Len(s) |->
                              IF i = 1 THEN s[i] ELSE f[i - 1] \o s[i]]
    BY FlattenedEquation
  <2>2. QED
    BY <2>1 DEF FlattenSeq
<1> HIDE DEF h
<1>3. QED
  BY <1>1, <1>2, FlattenedUnique

LEMMA FlattenEmpty == FlattenSeq(<< >>) = << >>
  BY DEF FlattenSeq

(* One more chunk.                                                         *)
LEMMA FlattenAppend ==
  ASSUME NEW B, NEW s \in Seq(Seq(B)), NEW c \in Seq(B)
  PROVE  FlattenSeq(Append(s, c)) = FlattenSeq(s) \o c
<1> DEFINE t == Append(s, c)
<1>1. /\ Len(t) = Len(s) + 1 /\ Len(s) \in Nat /\ t \in Seq(Seq(B))
      /\ \A i \in 1..Len(s) : t[i] = s[i]
      /\ t[Len(s) + 1] = c
  OBVIOUS
<1> HIDE DEF t
<1>2. PICK g : Flattened(t, Len(t), g)
  <2>1. Len(t) \in Nat
    BY <1>1
  <2>2. QED
    BY <2>1, FlattenedExists, Zenon
<1>3. FlattenSeq(t) = g[Len(t)]
  BY <1>1, <1>2, FlattenIs
<1>a. \A i \in 1..Len(t) : g[i] = IF i = 1 THEN t[i] ELSE g[i - 1] \o t[i]
  BY <1>2, FlattenedSteps
<1>4. CASE s = << >>
  <2>1. Len(t) = 1 /\ g[1] = t[1]
    BY <1>1, <1>a, <1>4
  <2>2. FlattenSeq(s) = << >> /\ << >> \o c = c
    BY <1>4, FlattenEmpty, ConcatEmptySeq
  <2>3. QED
    BY <1>1, <1>3, <1>4, <2>1, <2>2 DEF t
<1>5. CASE s # << >>
  <2>1. Len(s) \in Nat \ {0}
    BY <1>5, EmptySeq
  <2> DEFINE h == [i \in 1..Len(s) |-> g[i]]
  <2>2. Flattened(s, Len(s), h)
    <3>1. \A i \in 1..Len(s) : i # 1 => i - 1 \in 1..Len(s)
      BY <2>1
    <3>2. \A i \in 1..Len(s) : g[i] = IF i = 1 THEN s[i] ELSE g[i - 1] \o s[i]
      <4> SUFFICES ASSUME NEW i \in 1..Len(s)
                   PROVE  g[i] = IF i = 1 THEN s[i] ELSE g[i - 1] \o s[i]
        OBVIOUS
      <4>1. i \in 1..Len(t)
        BY <1>1, <2>1
      <4>2. t[i] = s[i]
        BY <1>1
      <4>3. g[i] = IF i = 1 THEN t[i] ELSE g[i - 1] \o t[i]
        BY <4>1, <1>a
      <4> QED BY <4>2, <4>3, Zenon
    <3>3. \A i \in 1..Len(s) : h[i] = IF i = 1 THEN s[i] ELSE h[i - 1] \o s[i]
      BY <3>1, <3>2
    <3>4. h = [i \in 1..Len(s) |-> h[i]]
      OBVIOUS
    <3> HIDE DEF h
    <3>5. QED
      BY <3>3, <3>4 DEF Flattened
  <2>3. FlattenSeq(s) = g[Len(s)]
    BY <2>1, <2>2, FlattenIs
  <2>4. g[Len(t)] = g[Len(s)] \o c
    <3>1. Len(t) \in 1..Len(t) /\ Len(t) # 1 /\ Len(t) - 1 = Len(s) /\ t[Len(t)] = c
      BY <1>1, <2>1
    <3>2. QED
      BY <1>a, <3>1
  <2>5. QED
    BY <1>3, <2>3, <2>4 DEF t
<1>6. QED
  BY <1>4, <1>5

-----------------------------------------------------------------------------
(* The chunks before a place, and the one there.                           *)
LEMMA FrontAppend ==
  ASSUME NEW S, NEW s \in Seq(S), NEW k \in Nat, k < Len(s)
  PROVE  /\ SubSeq(s, 1, k + 1) = Append(SubSeq(s, 1, k), s[k + 1])
         /\ SubSeq(s, 1, k) \in Seq(S) /\ s[k + 1] \in S
  OBVIOUS

LEMMA FrontTypes ==
  ASSUME NEW B, NEW f \in Seq(Seq(B))
  PROVE  \A k \in 0..Len(f) : FlattenSeq(SubSeq(f, 1, k)) \in Seq(B)
<1> DEFINE P(k) == k <= Len(f) => FlattenSeq(SubSeq(f, 1, k)) \in Seq(B)
           S == {k \in Nat : P(k)}
<1>1. 0 \in S
  <2>1. SubSeq(f, 1, 0) = << >>
    OBVIOUS
  <2>2. FlattenSeq(SubSeq(f, 1, 0)) \in Seq(B)
    BY <2>1, FlattenEmpty, EmptySeq, Zenon
  <2>3. QED
    BY <2>2
<1>2. ASSUME NEW k \in Nat, k \in S PROVE k + 1 \in S
  <2>1. SUFFICES ASSUME k + 1 <= Len(f)
                 PROVE  FlattenSeq(SubSeq(f, 1, k + 1)) \in Seq(B)
    BY <1>2
  <2>2. /\ SubSeq(f, 1, k + 1) = Append(SubSeq(f, 1, k), f[k + 1])
        /\ SubSeq(f, 1, k) \in Seq(Seq(B)) /\ f[k + 1] \in Seq(B)
    BY <2>1, FrontAppend
  <2>3. FlattenSeq(SubSeq(f, 1, k)) \in Seq(B)
    BY <1>2, <2>1
  <2>4. FlattenSeq(SubSeq(f, 1, k + 1)) = FlattenSeq(SubSeq(f, 1, k)) \o f[k + 1]
    BY <2>2, FlattenAppend
  <2>5. QED
    BY <2>2, <2>3, <2>4, ConcatProperties
<1>3. Nat \subseteq S
  <2> HIDE DEF S
  <2>1. QED
    BY <1>1, <1>2, NatSetInduction
<1>4. ASSUME NEW k \in 0..Len(f) PROVE FlattenSeq(SubSeq(f, 1, k)) \in Seq(B)
  <2>1. k \in Nat /\ k <= Len(f)
    OBVIOUS
  <2>2. QED
    BY <1>3, <2>1
<1>5. QED
  BY <1>4

LEMMA FlattenTypes ==
  ASSUME NEW B, NEW f \in Seq(Seq(B))
  PROVE  FlattenSeq(f) \in Seq(B)
<1>1. SubSeq(f, 1, Len(f)) = f /\ Len(f) \in 0..Len(f)
  OBVIOUS
<1>2. FlattenSeq(SubSeq(f, 1, Len(f))) \in Seq(B)
  BY <1>1, FrontTypes
<1>3. QED
  BY <1>1, <1>2

(* Two sequences of chunks, one behind the other.                          *)
LEMMA FlattenConcat ==
  ASSUME NEW B, NEW f \in Seq(Seq(B)), NEW g \in Seq(Seq(B))
  PROVE  FlattenSeq(f \o g) = FlattenSeq(f) \o FlattenSeq(g)
<1> DEFINE P(k) == k <= Len(g) =>
                     FlattenSeq(f \o SubSeq(g, 1, k))
                     = FlattenSeq(f) \o FlattenSeq(SubSeq(g, 1, k))
           S == {k \in Nat : P(k)}
<1>0. FlattenSeq(f) \in Seq(B)
  BY FlattenTypes
<1>1. 0 \in S
  <2>1. SubSeq(g, 1, 0) = << >> /\ f \o << >> = f
    BY ConcatEmptySeq
  <2>2. FlattenSeq(f) \o << >> = FlattenSeq(f)
    BY <1>0, ConcatEmptySeq
  <2>3. P(0)
    BY <2>1, <2>2, FlattenEmpty
  <2>4. QED
    BY <2>3
<1>2. ASSUME NEW k \in Nat, k \in S PROVE k + 1 \in S
  <2>1. SUFFICES ASSUME k + 1 <= Len(g)
                 PROVE  FlattenSeq(f \o SubSeq(g, 1, k + 1))
                        = FlattenSeq(f) \o FlattenSeq(SubSeq(g, 1, k + 1))
    BY <1>2
  <2> DEFINE h == SubSeq(g, 1, k)
             c == g[k + 1]
  <2>2. SubSeq(g, 1, k + 1) = Append(h, c) /\ h \in Seq(Seq(B)) /\ c \in Seq(B)
    BY <2>1, FrontAppend
  <2>3. FlattenSeq(f \o h) = FlattenSeq(f) \o FlattenSeq(h)
    BY <1>2, <2>1
  <2> HIDE DEF h, c
  <2>4. f \o Append(h, c) = Append(f \o h, c) /\ f \o h \in Seq(Seq(B))
    BY <2>2, SMTT(30)
  <2>5. /\ FlattenSeq(Append(f \o h, c)) = FlattenSeq(f \o h) \o c
        /\ FlattenSeq(Append(h, c)) = FlattenSeq(h) \o c
        /\ FlattenSeq(h) \in Seq(B)
    BY <2>2, <2>4, FlattenAppend, FlattenTypes
  <2>6. (FlattenSeq(f) \o FlattenSeq(h)) \o c = FlattenSeq(f) \o (FlattenSeq(h) \o c)
    <3>1. \A s, t, u \in Seq(B) : (s \o t) \o u = s \o (t \o u)
      BY ConcatAssociative, SMTT(60)
    <3>2. QED
      BY <1>0, <2>2, <2>5, <3>1, Zenon
  <2>7. QED
    BY <2>2, <2>3, <2>4, <2>5, <2>6
<1>3. Nat \subseteq S
  <2> HIDE DEF S
  <2>1. QED
    BY <1>1, <1>2, NatSetInduction
<1>4. P(Len(g))
  <2>1. Len(g) \in Nat
    OBVIOUS
  <2>2. QED
    BY <1>3, <2>1
<1>5. SubSeq(g, 1, Len(g)) = g /\ Len(g) <= Len(g)
  OBVIOUS
<1>6. QED
  BY <1>4, <1>5, Zenon

(* The chunks before a place are a beginning of the file, and the bytes of *)
(* the chunk there come next.                                              *)
LEMMA FlattenFront ==
  ASSUME NEW B, NEW f \in Seq(Seq(B)), NEW k \in 0..Len(f)
  PROVE  /\ FlattenSeq(SubSeq(f, 1, k)) \in Seq(B)
         /\ Len(FlattenSeq(SubSeq(f, 1, k))) <= Len(FlattenSeq(f))
         /\ FlattenSeq(SubSeq(f, 1, k))
            = SubSeq(FlattenSeq(f), 1, Len(FlattenSeq(SubSeq(f, 1, k))))
<1> DEFINE g == SubSeq(f, 1, k)
           h == SubSeq(f, k + 1, Len(f))
<1>1. f = g \o h /\ g \in Seq(Seq(B)) /\ h \in Seq(Seq(B))
  <2>1. 1 \in 1..(Len(f) + 1) /\ k \in (1 - 1)..Len(f) /\ Len(f) \in k..Len(f)
    OBVIOUS
  <2>2. g \o h = SubSeq(f, 1, Len(f))
    BY <2>1, ConcatAdjacentSubSeq, Zenon
  <2>3. SubSeq(f, 1, Len(f)) = f /\ g \in Seq(Seq(B)) /\ h \in Seq(Seq(B))
    OBVIOUS
  <2>4. QED
    BY <2>2, <2>3, Zenon
<1> HIDE DEF g, h
<1>2. FlattenSeq(g) \in Seq(B) /\ FlattenSeq(h) \in Seq(B)
  BY <1>1, FlattenTypes
<1>3. FlattenSeq(f) = FlattenSeq(g) \o FlattenSeq(h)
  BY <1>1, FlattenConcat
<1> DEFINE s == FlattenSeq(g)
           t == FlattenSeq(h)
<1> HIDE DEF s, t
<1>4. \A u, v \in Seq(B) : Len(u) <= Len(u \o v) /\ u = SubSeq(u \o v, 1, Len(u))
  OBVIOUS
<1>5. Len(s) <= Len(s \o t) /\ s = SubSeq(s \o t, 1, Len(s))
  BY <1>2, <1>4 DEF s, t
<1>6. FlattenSeq(g) = s /\ FlattenSeq(h) = t
  BY DEF s, t
<1>7. s \in Seq(B) /\ Len(s) <= Len(FlattenSeq(f)) /\ s = SubSeq(FlattenSeq(f), 1, Len(s))
  BY <1>2, <1>3, <1>5, <1>6, Zenon
<1>8. s = FlattenSeq(SubSeq(f, 1, k))
  BY DEF s, g
<1>9. QED
  BY <1>7, <1>8, Zenon

LEMMA FlattenNext ==
  ASSUME NEW B, NEW f \in Seq(Seq(B)), NEW k \in Nat, k < Len(f)
  PROVE  /\ FlattenSeq(SubSeq(f, 1, k + 1)) = FlattenSeq(SubSeq(f, 1, k)) \o f[k + 1]
         /\ FlattenSeq(SubSeq(f, 1, k)) \in Seq(B)
         /\ f[k + 1] \in Seq(B)
         /\ Len(FlattenSeq(SubSeq(f, 1, k + 1)))
            = Len(FlattenSeq(SubSeq(f, 1, k))) + Len(f[k + 1])
<1>1. /\ SubSeq(f, 1, k + 1) = Append(SubSeq(f, 1, k), f[k + 1])
      /\ SubSeq(f, 1, k) \in Seq(Seq(B)) /\ f[k + 1] \in Seq(B)
  BY FrontAppend
<1>2. FlattenSeq(SubSeq(f, 1, k)) \in Seq(B)
  BY <1>1, FlattenTypes
<1>3. FlattenSeq(SubSeq(f, 1, k + 1)) = FlattenSeq(SubSeq(f, 1, k)) \o f[k + 1]
  BY <1>1, FlattenAppend
<1>4. QED
  BY <1>1, <1>2, <1>3, ConcatProperties, ZenonT(30)

LEMMA FlattenBytes ==
  ASSUME NEW B, NEW f \in Seq(Seq(B)), NEW k \in Nat, k < Len(f),
         NEW i \in 0..Len(f[k + 1]), NEW j \in i..Len(f[k + 1])
  PROVE  SubSeq(FlattenSeq(f), Len(FlattenSeq(SubSeq(f, 1, k))) + i + 1,
                Len(FlattenSeq(SubSeq(f, 1, k))) + j)
         = SubSeq(f[k + 1], i + 1, j)
<1> DEFINE s == FlattenSeq(SubSeq(f, 1, k))
           c == f[k + 1]
           t == FlattenSeq(SubSeq(f, 1, k + 1))
           d == FlattenSeq(f)
<1>1. t = s \o c /\ s \in Seq(B) /\ c \in Seq(B)
  BY FlattenNext
<1>2. k + 1 \in 0..Len(f)
  OBVIOUS
<1>3. Len(t) <= Len(d) /\ t = SubSeq(d, 1, Len(t)) /\ d \in Seq(B)
  BY <1>2, FlattenFront, FlattenTypes
<1>4. i \in Nat /\ j \in Nat /\ i <= j /\ j <= Len(c)
  BY <1>1
<1> HIDE DEF s, c, t, d
<1>5. \A n \in 1..(j - i) : d[Len(s) + i + n] = c[i + n]
  <2>1. SUFFICES ASSUME NEW n \in 1..(j - i) PROVE d[Len(s) + i + n] = c[i + n]
    OBVIOUS
  <2>2. Len(s) + i + n \in 1..Len(t)
    BY <1>1, <1>4
  <2>3. d[Len(s) + i + n] = t[Len(s) + i + n]
    BY <1>3, <2>2
  <2>4. QED
    BY <1>1, <1>4, <2>3, SMTT(30)
<1>6. SubSeq(d, Len(s) + i + 1, Len(s) + j) = SubSeq(c, i + 1, j)
  <2> DEFINE a == Len(s)
             u == SubSeq(d, a + i + 1, a + j)
             v == SubSeq(c, i + 1, j)
  <2>1. a \in Nat /\ a + j <= Len(d)
    BY <1>1, <1>3, <1>4
  <2> HIDE DEF a
  <2>2. u \in Seq(B) /\ v \in Seq(B)
    BY <1>1, <1>3, <1>4, <2>1, SMTT(30)
  <2>3. Len(u) = j - i /\ Len(v) = j - i
    BY <1>1, <1>3, <1>4, <2>1
  <2>4. \A n \in 1..(j - i) : u[n] = d[a + i + n] /\ v[n] = c[i + n]
    <3>1. SUFFICES ASSUME NEW n \in 1..(j - i)
                   PROVE  u[n] = d[a + i + n] /\ v[n] = c[i + n]
      OBVIOUS
    <3>2. u[n] = d[a + i + 1 + n - 1]
      BY <1>3, <1>4, <2>1, SMTT(60)
    <3>3. v[n] = c[i + 1 + n - 1]
      BY <1>1, <1>4, SMTT(30)
    <3>4. a + i + 1 + n - 1 = a + i + n /\ i + 1 + n - 1 = i + n
      BY <1>4, <2>1
    <3>5. QED
      BY <3>2, <3>3, <3>4
  <2>5. \A n \in 1..(j - i) : u[n] = v[n]
    BY <1>5, <2>4 DEF a
  <2> HIDE DEF u, v
  <2>6. u = v
    BY <2>2, <2>3, <2>5, SeqEqual
  <2>7. QED
    BY <2>6 DEF u, v, a
<1>7. QED
  BY <1>6 DEF s, c, d

(* Bytes cut into chunks of the same length are those bytes.               *)
LEMMA FlattenCut ==
  ASSUME NEW B, NEW s \in Seq(B), NEW c \in Nat
  PROVE  \A n \in Nat : n * c <= Len(s) =>
           LET f == [i \in 1..n |-> SubSeq(s, (i - 1) * c + 1, i * c)]
           IN  f \in Seq(Seq(B)) /\ FlattenSeq(f) = SubSeq(s, 1, n * c)
<1> DEFINE f(n) == [i \in 1..n |-> SubSeq(s, (i - 1) * c + 1, i * c)]
           P(n) == n * c <= Len(s) =>
                     f(n) \in Seq(Seq(B)) /\ FlattenSeq(f(n)) = SubSeq(s, 1, n * c)
           S == {n \in Nat : P(n)}
<1>1. 0 \in S
  <2>1. f(0) = << >> /\ SubSeq(s, 1, 0 * c) = << >>
    OBVIOUS
  <2>2. << >> \in Seq(Seq(B))
    BY EmptySeq
  <2>3. P(0)
    BY <2>1, <2>2, FlattenEmpty
  <2>4. QED
    BY <2>3
<1>2. ASSUME NEW n \in Nat, n \in S PROVE n + 1 \in S
  <2>0. P(n) /\ n + 1 \in Nat
    <3> HIDE DEF P
    <3>1. QED
      BY <1>2
  <2> SUFFICES P(n + 1)
    <3> HIDE DEF P
    <3>1. QED
      BY <2>0
  <2>1. SUFFICES ASSUME (n + 1) * c <= Len(s)
                 PROVE  /\ f(n + 1) \in Seq(Seq(B))
                        /\ FlattenSeq(f(n + 1)) = SubSeq(s, 1, (n + 1) * c)
    <3> HIDE DEF f
    <3>1. QED
      OBVIOUS
  <2>2. (n + 1) * c = n * c + c /\ n * c \in Nat
    OBVIOUS
  <2>3. f(n) \in Seq(Seq(B)) /\ FlattenSeq(f(n)) = SubSeq(s, 1, n * c)
    <3> HIDE DEF f
    <3>1. n * c <= Len(s)
      BY <2>1, <2>2
    <3>2. QED
      BY <2>0, <3>1
  <2> DEFINE d == SubSeq(s, n * c + 1, (n + 1) * c)
  <2>4. d \in Seq(B)
    BY <2>1, <2>2
  <2>5. f(n + 1) = Append(f(n), d)
    <3>1. f(n + 1)[n + 1] = d
      OBVIOUS
    <3>2. \A i \in 1..n : f(n + 1)[i] = f(n)[i]
      OBVIOUS
    <3>3. DOMAIN f(n + 1) = 1..(n + 1) /\ f(n + 1) = [i \in 1..(n + 1) |-> f(n + 1)[i]]
      OBVIOUS
    <3>4. DOMAIN f(n) = 1..n
      OBVIOUS
    <3> HIDE DEF f, d
    <3>5. Len(f(n)) = n
      BY <2>3, <3>4
    <3>6. QED
      BY <2>3, <2>4, <3>1, <3>2, <3>3, <3>4, <3>5
  <2>6. SubSeq(s, 1, n * c) \o d = SubSeq(s, 1, (n + 1) * c)
    <3> DEFINE a == n * c
               b == (n + 1) * c
    <3>1. a \in Nat /\ b \in Nat /\ a <= b /\ b <= Len(s)
      BY <2>1, <2>2
    <3> HIDE DEF a, b
    <3>2. SubSeq(s, 1, a) \o SubSeq(s, a + 1, b) = SubSeq(s, 1, b)
      BY <3>1
    <3>3. QED
      BY <3>2 DEF a, b
  <2> HIDE DEF f, d
  <2>7. QED
    <3>1. FlattenSeq(Append(f(n), d)) = FlattenSeq(f(n)) \o d
      BY <2>3, <2>4, FlattenAppend
    <3>2. Append(f(n), d) \in Seq(Seq(B))
      BY <2>3, <2>4, AppendProperties
    <3>3. QED
      BY <2>3, <2>5, <2>6, <3>1, <3>2
<1>3. Nat \subseteq S
  <2> HIDE DEF S
  <2>1. QED
    BY <1>1, <1>2, NatSetInduction
<1>4. QED
  BY <1>3

LEMMA LenIs ==
  ASSUME NEW S, NEW f \in Seq(S), NEW n \in Nat, DOMAIN f = 1..n
  PROVE  Len(f) = n
  OBVIOUS

Cuts(s, c, n) == [i \in 1..n |-> SubSeq(s, (i - 1) * c + 1, i * c)]

LEMMA CutsFlatten ==
  ASSUME NEW B, NEW s \in Seq(B), NEW c \in Nat, NEW n \in Nat, n * c <= Len(s)
  PROVE  /\ Cuts(s, c, n) \in Seq(Seq(B)) /\ Len(Cuts(s, c, n)) = n
         /\ FlattenSeq(Cuts(s, c, n)) = SubSeq(s, 1, n * c)
<1>1. /\ Cuts(s, c, n) \in Seq(Seq(B))
      /\ FlattenSeq(Cuts(s, c, n)) = SubSeq(s, 1, n * c)
  BY FlattenCut, ZenonT(30) DEF Cuts
<1>2. DOMAIN Cuts(s, c, n) = 1..n
  BY DEF Cuts
<1>3. QED
  BY <1>1, <1>2, LenIs, Zenon

LEMMA SplitAt ==
  ASSUME NEW B, NEW s \in Seq(B), NEW k \in 0..Len(s)
  PROVE  SubSeq(s, 1, k) \o SubSeq(s, k + 1, Len(s)) = s
<1>1. 1 \in 1..(Len(s) + 1) /\ k \in (1 - 1)..Len(s) /\ Len(s) \in k..Len(s)
  OBVIOUS
<1>2. SubSeq(s, 1, k) \o SubSeq(s, k + 1, Len(s)) = SubSeq(s, 1, Len(s))
  BY <1>1, ConcatAdjacentSubSeq, Zenon
<1>3. SubSeq(s, 1, Len(s)) = s
  OBVIOUS
<1>4. QED
  BY <1>2, <1>3, Zenon

LEMMA AppendChunk ==
  ASSUME NEW B, NEW f \in Seq(Seq(B)), NEW c \in Seq(B)
  PROVE  /\ Append(f, c) \in Seq(Seq(B))
         /\ Append(f, c) # << >>
         /\ Len(Append(f, c)) = Len(f) + 1
         /\ \A i \in 1..Len(f) : Append(f, c)[i] = f[i]
<1>1. Append(f, c) # << >>
  BY AppendProperties
<1>2. QED
  BY <1>1

LEMMA JoinAt ==
  ASSUME NEW B, NEW s \in Seq(B), NEW a \in Nat, NEW b \in Nat, NEW c \in Nat,
         a <= b, b <= c, c <= Len(s)
  PROVE  SubSeq(s, a + 1, b) \o SubSeq(s, b + 1, c) = SubSeq(s, a + 1, c)
<1>1. a + 1 \in 1..(Len(s) + 1) /\ b \in (a + 1 - 1)..Len(s) /\ c \in b..Len(s)
  OBVIOUS
<1> DEFINE m == a + 1
<1>2. m \in 1..(Len(s) + 1) /\ b \in (m - 1)..Len(s)
  BY <1>1
<1> HIDE DEF m
<1>3. SubSeq(s, m, b) \o SubSeq(s, b + 1, c) = SubSeq(s, m, c)
  BY <1>1, <1>2, ConcatAdjacentSubSeq, Zenon
<1>4. QED
  BY <1>3 DEF m

-----------------------------------------------------------------------------

USE ChunkAssumption, BoundsAssumption

-----------------------------------------------------------------------------
(* Places in the file.                                                     *)

LEMMA DataTypes ==
  ASSUME Types
  PROVE  Data \in Seq(Nat) /\ Len(Data) \in Nat /\ Len(file) \in Nat
         /\ file \in Seq(Seq(Nat))
<1>1. Data \in Seq(Nat)
  BY FlattenTypes DEF Types, Data
<1>2. QED
  BY <1>1 DEF Types

LEMMA PlaceIs ==
  ASSUME Types, NEW c \in Nat, NEW i \in Nat, NEW k \in 0..Len(file),
         c = k + 1 \/ (k = Len(file) /\ c > k)
  PROVE  /\ Len(FlattenSeq(SubSeq(file, 1, k))) \in 0..Len(Data)
         /\ PlaceOf(c, i) = Len(FlattenSeq(SubSeq(file, 1, k))) + i
<1>1. /\ FlattenSeq(SubSeq(file, 1, k)) \in Seq(Nat)
      /\ Len(FlattenSeq(SubSeq(file, 1, k))) <= Len(FlattenSeq(file))
  BY DataTypes, FlattenFront
<1>2. Len(FlattenSeq(SubSeq(file, 1, k))) \in 0..Len(Data)
  BY <1>1, DataTypes DEF Data
<1>3. PlaceOf(c, i) = Len(FlattenSeq(SubSeq(file, 1, k))) + i
  <2>1. Smaller(c - 1, Len(file)) = k
    BY DataTypes DEF Smaller
  <2>2. QED
    BY <2>1, Zenon DEF PlaceOf
<1>4. QED
  BY <1>2, <1>3

LEMMA PlaceBehind ==
  ASSUME Types, NEW k \in 0..Len(file), NEW i \in Nat
  PROVE  PlaceOf(k + 1, i) = Len(FlattenSeq(SubSeq(file, 1, k))) + i
<1>1. k + 1 \in Nat
  BY DataTypes
<1>2. QED
  BY <1>1, PlaceIs

(* The places of a chunk follow each other.                                *)
LEMMA PlaceInChunk ==
  ASSUME Types, NEW c \in Nat \ {0}, NEW i \in Nat
  PROVE  /\ PlaceOf(c, i) = PlaceOf(c, 0) + i
         /\ PlaceOf(c, 0) \in 0..Len(Data)
<1> DEFINE k == Smaller(c - 1, Len(file))
<1>1. k \in 0..Len(file) /\ (c = k + 1 \/ (k = Len(file) /\ c > k))
  BY DataTypes DEF Smaller
<1> HIDE DEF k
<1> DEFINE before == Len(FlattenSeq(SubSeq(file, 1, k)))
<1>2. before \in 0..Len(Data)
  BY <1>1, PlaceIs, Zenon
<1>3. PlaceOf(c, i) = before + i
  BY <1>1, PlaceIs, Zenon
<1>4. PlaceOf(c, 0) = before + 0
  BY <1>1, 0 \in Nat, PlaceIs, Zenon
<1> HIDE DEF before
<1>5. QED
  BY <1>2, <1>3, <1>4, DataTypes

LEMMA PlaceFirst ==
  ASSUME Types
  PROVE  PlaceOf(1, 0) = 0
<1>1. 0 \in 0..Len(file)
  BY DataTypes
<1>2. SubSeq(file, 1, 0) = << >>
  BY DataTypes
<1>3. QED
  <2>1. PlaceOf(1, 0) = Len(FlattenSeq(SubSeq(file, 1, 0))) + 0
    BY <1>1, DataTypes, PlaceIs
  <2>2. Len(FlattenSeq(SubSeq(file, 1, 0))) = 0
    BY <1>2, FlattenEmpty, EmptySeq
  <2>3. QED
    BY <2>1, <2>2

LEMMA PlaceEnd ==
  ASSUME Types, NEW c \in Nat, c > Len(file)
  PROVE  PlaceOf(c, 0) = Len(Data)
<1>1. Len(file) \in 0..Len(file)
  BY DataTypes
<1>2. SubSeq(file, 1, Len(file)) = file
  BY DataTypes
<1>3. QED
  <2>1. PlaceOf(c, 0) = Len(FlattenSeq(SubSeq(file, 1, Len(file)))) + 0
    BY <1>1, DataTypes, PlaceIs
  <2>2. FlattenSeq(SubSeq(file, 1, Len(file))) = Data
    BY <1>2 DEF Data
  <2>3. QED
    BY <2>1, <2>2, DataTypes

LEMMA PlaceNext ==
  ASSUME Types, NEW c \in 1..Len(file)
  PROVE  PlaceOf(c + 1, 0) = PlaceOf(c, 0) + Len(file[c])
<1> DEFINE k == c - 1
<1>1. k \in Nat /\ k < Len(file) /\ c = k + 1
  BY DataTypes
<1>2. k \in 0..Len(file) /\ k + 1 \in 0..Len(file)
  BY <1>1, DataTypes
<1> HIDE DEF k
<1>3. Len(FlattenSeq(SubSeq(file, 1, k + 1)))
      = Len(FlattenSeq(SubSeq(file, 1, k))) + Len(file[k + 1])
  BY <1>1, DataTypes, FlattenNext, ZenonT(30)
<1>4. FlattenSeq(SubSeq(file, 1, k)) \in Seq(Nat) /\ file[k + 1] \in Seq(Nat)
  BY <1>1, DataTypes, FlattenNext
<1>5. PlaceOf(c, 0) = Len(FlattenSeq(SubSeq(file, 1, k))) + 0
  BY <1>1, <1>2, PlaceBehind
<1>6. PlaceOf(c + 1, 0) = Len(FlattenSeq(SubSeq(file, 1, k + 1))) + 0
  BY <1>1, <1>2, PlaceBehind
<1> DEFINE a == Len(FlattenSeq(SubSeq(file, 1, k)))
           b == Len(FlattenSeq(SubSeq(file, 1, k + 1)))
<1>7. a \in Nat /\ Len(file[k + 1]) \in Nat
  BY <1>4
<1> HIDE DEF a, b
<1>8. b = a + Len(file[k + 1]) /\ PlaceOf(c, 0) = a + 0 /\ PlaceOf(c + 1, 0) = b + 0
  BY <1>3, <1>5, <1>6 DEF a, b
<1>9. QED
  BY <1>1, <1>7, <1>8

LEMMA PlacesOrdered ==
  ASSUME Types, NEW c \in Nat \ {0}, NEW d \in Nat \ {0}, c <= d
  PROVE  PlaceOf(c, 0) <= PlaceOf(d, 0)
<1> DEFINE j == Smaller(c - 1, Len(file))
           k == Smaller(d - 1, Len(file))
           g == SubSeq(file, 1, k)
<1>1. /\ j \in Nat /\ k \in 0..Len(file) /\ j \in 0..Len(file) /\ j <= k
      /\ c = j + 1 \/ (j = Len(file) /\ c > j)
      /\ d = k + 1 \/ (k = Len(file) /\ d > k)
  BY DataTypes DEF Smaller
<1> HIDE DEF j, k
<1>2. g \in Seq(Seq(Nat)) /\ j \in 0..Len(g) /\ SubSeq(g, 1, j) = SubSeq(file, 1, j)
  <2>1. g \in Seq(Seq(Nat)) /\ Len(g) = k
    BY <1>1, DataTypes
  <2>2. j \in 0..Len(g)
    BY <1>1, <2>1
  <2>3. SubSeq(g, 1, j) = SubSeq(file, 1, j)
    BY <1>1, <2>1, DataTypes
  <2>4. QED
    BY <2>1, <2>2, <2>3
<1> HIDE DEF g
<1>3. /\ Len(FlattenSeq(SubSeq(g, 1, j))) <= Len(FlattenSeq(g))
      /\ FlattenSeq(SubSeq(g, 1, j)) \in Seq(Nat) /\ FlattenSeq(g) \in Seq(Nat)
  BY <1>2, FlattenFront, FlattenTypes
<1>4. QED
  <2>1. /\ PlaceOf(c, 0) = Len(FlattenSeq(SubSeq(g, 1, j))) + 0
        /\ PlaceOf(d, 0) = Len(FlattenSeq(g)) + 0
    BY <1>1, <1>2, PlaceIs DEF g
  <2> DEFINE a == Len(FlattenSeq(SubSeq(g, 1, j)))
             b == Len(FlattenSeq(g))
  <2>2. a \in Nat /\ b \in Nat /\ a <= b
    BY <1>3
  <2> HIDE DEF a, b
  <2>3. PlaceOf(c, 0) = a + 0 /\ PlaceOf(d, 0) = b + 0
    BY <2>1 DEF a, b
  <2>4. QED
    BY <2>2, <2>3

(* The bytes of a chunk are those of the data at its places.               *)
LEMMA BytesOfChunk ==
  ASSUME Types, NEW c \in 1..Len(file),
         NEW i \in 0..Len(file[c]), NEW j \in i..Len(file[c])
  PROVE  SubSeq(file[c], i + 1, j)
         = SubSeq(Data, PlaceOf(c, i) + 1, PlaceOf(c, j))
<1> DEFINE k == c - 1
<1>1. k \in Nat /\ k < Len(file) /\ c = k + 1
  BY DataTypes
<1>2. k \in 0..Len(file) /\ i \in Nat /\ j \in Nat
  <2>1. file[c] \in Seq(Nat)
    BY DataTypes
  <2>2. QED
    BY <1>1, <2>1, DataTypes
<1> HIDE DEF k
<1>3. SubSeq(Data, Len(FlattenSeq(SubSeq(file, 1, k))) + i + 1,
             Len(FlattenSeq(SubSeq(file, 1, k))) + j)
      = SubSeq(file[k + 1], i + 1, j)
  BY <1>1, DataTypes, FlattenBytes, SMTT(30) DEF Data
<1>4. /\ PlaceOf(c, i) = Len(FlattenSeq(SubSeq(file, 1, k))) + i
      /\ PlaceOf(c, j) = Len(FlattenSeq(SubSeq(file, 1, k))) + j
  BY <1>1, <1>2, PlaceBehind
<1>5. QED
  BY <1>1, <1>3, <1>4

-----------------------------------------------------------------------------
(* The reader's cache.                                                     *)

LEMMA ChunkTypes ==
  ASSUME Types, NEW c \in 1..Len(file)
  PROVE  file[c] \in Seq(Nat) /\ Len(file[c]) \in Nat
  BY DataTypes

(* What is loaded is the chunk, or bytes as many that are skipped.         *)
LEMMA LoadedFacts ==
  ASSUME Types, Chunks, NEW c \in 1..Nowhere, NEW skip \in Nat
  PROVE  /\ Loaded(c, skip) \in Seq(Nat)
         /\ c > Len(file) => Loaded(c, skip) = << >>
         /\ c <= Len(file) =>
              /\ Len(Loaded(c, skip)) = Len(file[c])
              /\ Loaded(c, skip) = file[c] \/ (Len(file[c]) <= skip /\ ~Ends(c))
              /\ skip = 0 => Loaded(c, skip) = file[c]
              /\ Loaded(c, skip) = << >> => c = Len(file)
<1>1. CASE c > Len(file)
  BY <1>1, EmptySeq, DataTypes DEF Loaded
<1>2. CASE c <= Len(file)
  <2>1. c \in 1..Len(file) /\ c \in DOMAIN file /\ ~(c > Len(file))
    BY <1>2, DataTypes
  <2>2. file[c] \in Seq(Nat) /\ Len(file[c]) \in Nat
    BY <2>1, ChunkTypes
  <2> DEFINE stale == [i \in DOMAIN file[c] |-> Stale]
  <2>3. stale \in Seq(Nat) /\ Len(stale) = Len(file[c])
    <3>1. Stale \in Nat /\ DOMAIN file[c] = 1..Len(file[c])
      BY <2>2 DEF Stale
    <3>2. QED
      BY <2>2, <3>1
  <2>4. file[c] = << >> => c = Len(file) /\ Ends(c)
    BY <2>1 DEF Chunks, Ends
  <2>5. Len(file[c]) = 0 <=> file[c] = << >>
    BY <2>2
  <2>6. Loaded(c, skip) = IF skip >= Len(file[c]) /\ ~Ends(c) THEN stale ELSE file[c]
    BY <2>1 DEF Loaded
  <2> HIDE DEF stale
  <2>7. CASE skip >= Len(file[c]) /\ ~Ends(c)
    <3>1. Loaded(c, skip) = stale
      BY <2>6, <2>7
    <3>2. Len(file[c]) # 0 /\ skip # 0 /\ Len(file[c]) <= skip
      BY <2>2, <2>4, <2>5, <2>7
    <3>3. stale # << >>
      BY <2>3, <3>2
    <3>4. QED
      BY <2>1, <2>3, <2>7, <3>1, <3>2, <3>3
  <2>8. CASE ~(skip >= Len(file[c]) /\ ~Ends(c))
    <3>1. Loaded(c, skip) = file[c]
      BY <2>6, <2>8
    <3>2. QED
      BY <2>1, <2>2, <2>4, <3>1
  <2>9. QED
    BY <2>7, <2>8
<1>3. QED
  BY <1>1, <1>2, DataTypes DEF Nowhere

(* Where the reader is, and where the chunk in its cache ends.             *)
LEMMA ReaderFacts ==
  ASSUME Types, Chunks, Cached, phase = "reading"
  PROVE  /\ Free \in Nat /\ Place \in Nat
         /\ Place = PlaceOf(chunk, 0) + ptr
         /\ NextChunk \in 1..Nowhere
         /\ PlaceOf(NextChunk, 0) = Place + Free
         /\ Place + Free <= Len(Data)
         /\ eof => Place + Free = Len(Data)
<1>1. /\ chunk \in Nat \ {0} /\ chunk \in 1..Nowhere /\ Len(file) \in Nat
      /\ ptr \in Nat /\ Len(cache) \in Nat /\ ptr <= Len(cache) /\ eof \in BOOLEAN
      /\ Nowhere = Len(file) + 2
  BY DataTypes DEF Types, Nowhere
<1>2. /\ Place = PlaceOf(chunk, 0) + ptr
      /\ PlaceOf(chunk, 0) \in 0..Len(Data) /\ Len(Data) \in Nat
  BY <1>1, PlaceInChunk, DataTypes DEF Place
<1>3. Free \in Nat /\ ptr + Free = Len(cache) /\ Place \in Nat
  BY <1>1, <1>2 DEF Free
<1>4. CASE chunk > Len(file)
  <2>1. PlaceOf(chunk, 0) = Len(Data) /\ Len(cache) = 0
    BY <1>1, <1>4, PlaceEnd DEF Cached
  <2>2. NextChunk = Nowhere
    <3>1. chunk # Nowhere => eof
      <4>1. SUFFICES ASSUME chunk # Nowhere PROVE eof
        OBVIOUS
      <4>2. eof = Ends(chunk)
        BY <4>1 DEF Cached
      <4>3. Ends(chunk)
        BY <1>1, <1>4 DEF Ends, PastEnd
      <4>4. QED
        BY <4>2, <4>3
    <3>2. QED
      BY <3>1 DEF NextChunk
  <2>3. PlaceOf(Nowhere, 0) = Len(Data)
    BY <1>1, PlaceEnd
  <2>4. Nowhere \in 1..Nowhere
    BY <1>1
  <2>5. QED
    BY <1>1, <1>2, <1>3, <2>1, <2>2, <2>3, <2>4
<1>5. CASE chunk <= Len(file)
  <2>1. Len(cache) = Len(file[chunk]) /\ eof = Ends(chunk) /\ chunk \in 1..Len(file)
    BY <1>1, <1>5 DEF Cached
  <2>2. PlaceOf(chunk + 1, 0) = PlaceOf(chunk, 0) + Len(cache)
    BY <2>1, PlaceNext
  <2>3. PlaceOf(chunk + 1, 0) \in 0..Len(Data) /\ PlaceOf(Nowhere, 0) = Len(Data)
    <3>1. chunk + 1 \in Nat \ {0} /\ Nowhere \in Nat /\ Nowhere > Len(file)
      BY <1>1
    <3>2. PlaceOf(chunk + 1, 0) \in 0..Len(Data)
      BY <3>1, PlaceInChunk
    <3>3. QED
      BY <3>1, <3>2, PlaceEnd
  <2>4. eof => chunk = Len(file)
    <3>1. Ends(chunk) => chunk = Len(file)
      BY <1>1, <1>5 DEF Ends, PastEnd
    <3>2. QED
      BY <2>1, <3>1
  <2>5. eof => PlaceOf(chunk + 1, 0) = Len(Data)
    BY <1>1, <2>4, PlaceEnd
  <2>6. NextChunk = IF eof THEN Nowhere ELSE chunk + 1
    BY <1>1, <1>5 DEF NextChunk
  <2>7. CASE eof
    BY <1>1, <1>2, <1>3, <2>2, <2>3, <2>5, <2>6, <2>7, SMTT(30)
  <2>8. CASE ~eof
    BY <1>1, <1>2, <1>3, <1>5, <2>2, <2>3, <2>6, <2>8, SMTT(30)
  <2>9. QED
    BY <2>7, <2>8
<1>6. QED
  BY <1>1, <1>4, <1>5

(* What a read copies out of the cache are the next bytes of the file.     *)
LEMMA CopiedBytes ==
  ASSUME Types, Chunks, Cached, phase = "reading", op = "read",
         NEW n \in 0..Free
  PROVE  SubSeq(cache, ptr + 1, ptr + n) = SubSeq(Data, Place + 1, Place + n)
<1>1. /\ chunk \in Nat \ {0} /\ Len(file) \in Nat /\ Free \in Nat
      /\ ptr \in Nat /\ Len(cache) \in Nat /\ ptr + Free = Len(cache)
      /\ Place \in Nat /\ cache \in Seq(Nat) /\ Data \in Seq(Nat)
  BY ReaderFacts, DataTypes, SMTT(30) DEF Types, Free
<1>2. CASE n = 0
  <2>1. SubSeq(cache, ptr + 1, ptr + n) = << >> /\ SubSeq(Data, Place + 1, Place + n) = << >>
    BY <1>1, <1>2, SubSeqEmpty
  <2>2. QED
    BY <2>1
<1>3. CASE n # 0
  <2>1. Free # 0 /\ Len(cache) # 0
    BY <1>1, <1>3
  <2>2. chunk \in 1..Len(file) /\ cache = file[chunk]
    BY <1>1, <2>1 DEF Cached
  <2>3. ptr \in 0..Len(file[chunk]) /\ ptr + n \in ptr..Len(file[chunk])
    BY <1>1, <2>2
  <2>4. SubSeq(file[chunk], ptr + 1, ptr + n)
        = SubSeq(Data, PlaceOf(chunk, ptr) + 1, PlaceOf(chunk, ptr + n))
    BY <2>2, <2>3, BytesOfChunk
  <2>5. PlaceOf(chunk, ptr) = Place /\ PlaceOf(chunk, ptr + n) = Place + n
    <3>1. ptr + n \in Nat
      BY <1>1
    <3>2. /\ PlaceOf(chunk, ptr) = PlaceOf(chunk, 0) + ptr
          /\ PlaceOf(chunk, 0) \in 0..Len(Data)
      BY <1>1, PlaceInChunk
    <3>3. PlaceOf(chunk, ptr + n) = PlaceOf(chunk, 0) + (ptr + n)
      BY <1>1, <3>1, PlaceInChunk
    <3>4. QED
      BY <1>1, <3>2, <3>3, DataTypes DEF Place
  <2>6. QED
    BY <2>2, <2>4, <2>5
<1>4. QED
  BY <1>2, <1>3

-----------------------------------------------------------------------------
(* What the actions do.                                                    *)

LEMMA Division ==
  ASSUME NEW n \in Nat, NEW d \in Nat \ {0}
  PROVE  /\ n \div d \in Nat
         /\ (n \div d) * d <= n
         /\ n < (n \div d) * d + d
  OBVIOUS

(* The chunks that a write completes, the rest of the bytes in the cache.  *)
LEMMA WriteEffect ==
  ASSUME Types, Chunks, NEW n \in 1..MaxLength, Write(n)
  PROVE  \E g \in Seq(Seq(Nat)) :
           /\ file' = file \o g
           /\ \A i \in 1..Len(g) : g[i] # << >>
           /\ out' \in Seq(Nat) /\ Len(out') < ChunkSize
           /\ FlattenSeq(g) \o out' = out \o [i \in 1..n |-> written + i]
<1> DEFINE new == [i \in 1..n |-> written + i]
           all == out \o new
           full == Len(all) \div ChunkSize
           g == [i \in 1..full |->
                   SubSeq(all, (i - 1) * ChunkSize + 1, i * ChunkSize)]
<1>1. new \in Seq(Nat) /\ all \in Seq(Nat) /\ Len(all) \in Nat
  <2>1. n \in Nat /\ written \in Nat /\ out \in Seq(Nat)
    BY DEF Types
  <2>2. new \in Seq(Nat)
    BY <2>1
  <2> HIDE DEF new
  <2>3. QED
    BY <2>1, <2>2
<1>2. /\ file' = file \o g
      /\ out' = SubSeq(all, full * ChunkSize + 1, Len(all))
  BY DEF Write
<1> HIDE DEF all, new
<1>3. /\ full \in Nat /\ full * ChunkSize <= Len(all)
      /\ Len(all) < full * ChunkSize + ChunkSize
  BY <1>1, Division
<1> HIDE DEF full
<1>4. /\ g \in Seq(Seq(Nat)) /\ Len(g) = full
      /\ FlattenSeq(g) = SubSeq(all, 1, full * ChunkSize)
  <2>1. g = Cuts(all, ChunkSize, full)
    BY DEF Cuts
  <2> HIDE DEF g
  <2>2. ChunkSize \in Nat
    OBVIOUS
  <2>3. QED
    <3>1. all \in Seq(Nat) /\ full \in Nat /\ full * ChunkSize <= Len(all)
      BY <1>1, <1>3
    <3>2. /\ Cuts(all, ChunkSize, full) \in Seq(Seq(Nat))
          /\ Len(Cuts(all, ChunkSize, full)) = full
          /\ FlattenSeq(Cuts(all, ChunkSize, full))
             = SubSeq(all, 1, full * ChunkSize)
      BY <2>2, <3>1, CutsFlatten
    <3>3. QED
      BY <2>1, <3>2
<1>5. full * ChunkSize \in Nat /\ ChunkSize \in Nat
  BY <1>3
<1>6. /\ out' \in Seq(Nat) /\ Len(out') < ChunkSize
      /\ SubSeq(all, 1, full * ChunkSize) \o out' = all
  <2> DEFINE k == full * ChunkSize
  <2>1. k \in Nat /\ k <= Len(all) /\ Len(all) < k + ChunkSize
    BY <1>3, <1>5
  <2> HIDE DEF k
  <2>2. out' = SubSeq(all, k + 1, Len(all))
    BY <1>2 DEF k
  <2>3. out' \in Seq(Nat) /\ Len(out') < ChunkSize
    BY <1>1, <1>5, <2>1, <2>2
  <2>4. SubSeq(all, 1, k) \o SubSeq(all, k + 1, Len(all)) = all
    <3>1. k \in 0..Len(all)
      BY <1>1, <2>1
    <3>2. QED
      BY <1>1, <3>1, SplitAt
  <2>5. QED
    BY <2>2, <2>3, <2>4 DEF k
<1>7. \A i \in 1..Len(g) : g[i] # << >>
  <2>1. SUFFICES ASSUME NEW i \in 1..full PROVE g[i] # << >>
    <3> HIDE DEF g
    <3>1. QED
      BY <1>4
  <2> DEFINE a == (i - 1) * ChunkSize
  <2>2. g[i] = SubSeq(all, a + 1, i * ChunkSize)
    OBVIOUS
  <2>3. i * ChunkSize = a + ChunkSize /\ a \in Nat
    BY <1>3
  <2>4. i * ChunkSize <= full * ChunkSize
    BY <1>3
  <2> HIDE DEF a
  <2>5. a + ChunkSize <= Len(all)
    BY <1>3, <1>5, <2>3, <2>4
  <2>6. Len(SubSeq(all, a + 1, a + ChunkSize)) = ChunkSize
    BY <1>1, <2>3, <2>5
  <2>7. QED
    BY <2>2, <2>3, <2>6, EmptySeq
<1> HIDE DEF g
<1>8. QED
  BY <1>2, <1>4, <1>6, <1>7 DEF all, new

(* A flush or close writes the cache out as a chunk, if there is something *)
(* in it.                                                                  *)
LEMMA ChunkEffect ==
  ASSUME Types
  PROVE  \E g \in Seq(Seq(Nat)) :
           /\ WithChunk(file, out) = file \o g
           /\ \A i \in 1..Len(g) : g[i] # << >>
           /\ FlattenSeq(g) = out
<1>1. out \in Seq(Nat) /\ file \in Seq(Seq(Nat))
  BY DEF Types
<1>2. CASE out = << >>
  <2>1. << >> \in Seq(Seq(Nat)) /\ Len(<< >>) = 0
    BY EmptySeq
  <2>2. file \o << >> = file
    BY <1>1, ConcatEmptySeq
  <2>3. WithChunk(file, out) = file \o << >> /\ FlattenSeq(<< >>) = out
    BY <1>2, <2>2, FlattenEmpty DEF WithChunk
  <2>4. \A i \in 1..Len(<< >>) : << >>[i] # << >>
    BY <2>1
  <2>5. QED
    BY <2>1, <2>3, <2>4
<1>3. CASE out # << >>
  <2> DEFINE g == <<out>>
  <2>1. g \in Seq(Seq(Nat)) /\ Len(g) = 1 /\ g[1] = out
    BY <1>1
  <2>2. file \o g = Append(file, out) /\ g = Append(<< >>, out)
    BY <1>1
  <2>3. FlattenSeq(Append(<< >>, out)) = FlattenSeq(<< >>) \o out
    <3>1. << >> \in Seq(Seq(Nat))
      BY EmptySeq
    <3>2. QED
      BY <1>1, <3>1, FlattenAppend
  <2>4. << >> \o out = out
    BY <1>1, ConcatEmptySeq
  <2>5. FlattenSeq(g) = out
    BY <2>2, <2>3, <2>4, FlattenEmpty
  <2> HIDE DEF g
  <2>6. WithChunk(file, out) = file \o g
    BY <1>3, <2>2 DEF WithChunk
  <2>7. \A i \in 1..Len(g) : g[i] # << >>
    BY <1>3, <2>1
  <2>8. QED
    BY <2>1, <2>5, <2>6, <2>7, Zenon
<1>4. QED
  BY <1>2, <1>3

(* Chunks that come to the end of the file.                                *)
LEMMA GrownFile ==
  ASSUME Types, NEW g \in Seq(Seq(Nat)), \A i \in 1..Len(g) : g[i] # << >>
  PROVE  /\ file \o g \in Seq(Seq(Nat))
         /\ Len(file \o g) = Len(file) + Len(g)
         /\ FlattenSeq(file \o g) = Data \o FlattenSeq(g)
         /\ \A k \in 0..Len(file) : SubSeq(file \o g, 1, k) = SubSeq(file, 1, k)
         /\ \A i \in DOMAIN (file \o g) :
              (file \o g)[i] = << >> => i \in DOMAIN file /\ file[i] = << >>
<1>1. file \in Seq(Seq(Nat))
  BY DEF Types
<1>2. FlattenSeq(file \o g) = Data \o FlattenSeq(g)
  BY <1>1, FlattenConcat DEF Data
<1>3. QED
  BY <1>1, <1>2

(* What is left of the file after a crash, and of its bytes.               *)
LEMMA CrashEffect ==
  ASSUME Types, Chunks, Crash
  PROVE  /\ file' \in Seq(Seq(Nat)) /\ synced <= Len(file')
         /\ torn' \in BOOLEAN /\ (torn' => file' # << >>)
         /\ \A i \in DOMAIN file' : file'[i] = << >> => torn' /\ i = Len(file')
         /\ SubSeq(file', 1, synced) = SubSeq(file, 1, synced)
         /\ Len(FlattenSeq(file')) \in
              Len(FlattenSeq(SubSeq(file, 1, synced)))..Len(Data)
         /\ FlattenSeq(file') = SubSeq(Data, 1, Len(FlattenSeq(file')))
<1>1. /\ file \in Seq(Seq(Nat)) /\ Len(file) \in Nat /\ synced \in Nat
      /\ synced <= Len(file) /\ phase = "writing" /\ ~torn /\ Data \in Seq(Nat)
      /\ Len(Data) \in Nat
  BY DataTypes DEF Types, Chunks, Crash
<1>2. PICK whole \in synced..Len(file) :
        \/ file' = SubSeq(file, 1, whole) /\ torn' = FALSE
        \/ /\ whole < Len(file) /\ torn' = TRUE
           /\ \E part \in Beginnings(file[whole + 1]) :
                file' = Append(SubSeq(file, 1, whole), part)
  BY DEF Crash
<1> DEFINE kept == SubSeq(file, 1, whole)
<1>3. /\ whole \in Nat /\ whole \in 0..Len(file) /\ synced <= whole
      /\ synced \in 0..Len(kept)
      /\ kept \in Seq(Seq(Nat)) /\ Len(kept) = whole
      /\ SubSeq(kept, 1, synced) = SubSeq(file, 1, synced)
  BY <1>1
<1>4. \A i \in DOMAIN kept : kept[i] # << >>
  <2>1. \A i \in 1..whole : kept[i] = file[i] /\ i \in DOMAIN file
    BY <1>1, <1>3
  <2>2. DOMAIN kept = 1..whole
    BY <1>3
  <2>3. QED
    BY <1>1, <2>1, <2>2 DEF Chunks
<1>5. /\ FlattenSeq(kept) \in Seq(Nat)
      /\ Len(FlattenSeq(kept)) <= Len(Data)
      /\ FlattenSeq(kept) = SubSeq(Data, 1, Len(FlattenSeq(kept)))
  BY <1>1, <1>3, FlattenFront DEF Data
<1>6. /\ Len(FlattenSeq(SubSeq(file, 1, synced))) <= Len(FlattenSeq(kept))
      /\ FlattenSeq(SubSeq(file, 1, synced)) \in Seq(Nat)
  <2>1. /\ Len(FlattenSeq(SubSeq(kept, 1, synced))) <= Len(FlattenSeq(kept))
        /\ FlattenSeq(SubSeq(kept, 1, synced)) \in Seq(Nat)
    <3> HIDE DEF kept
    <3>1. QED
      BY <1>3, FlattenFront
  <2>2. QED
    BY <1>3, <2>1
<1> DEFINE a == Len(FlattenSeq(SubSeq(file, 1, synced)))
           b == Len(FlattenSeq(kept))
<1>7. a \in Nat /\ b \in Nat /\ a <= b /\ b <= Len(Data)
  BY <1>5, <1>6
<1>8. CASE file' = kept /\ torn' = FALSE
  <2> HIDE DEF a, b, kept
  <2>1. b \in a..Len(Data) /\ FlattenSeq(kept) = SubSeq(Data, 1, b)
    BY <1>1, <1>5, <1>7 DEF b
  <2>2. QED
    BY <1>3, <1>4, <1>8, <2>1 DEF a, b
<1>9. ASSUME whole < Len(file), torn' = TRUE,
             NEW part \in Beginnings(file[whole + 1]),
             file' = Append(kept, part)
      PROVE  /\ file' \in Seq(Seq(Nat)) /\ synced <= Len(file') /\ file' # << >>
             /\ \A i \in DOMAIN file' : file'[i] = << >> => i = Len(file')
             /\ SubSeq(file', 1, synced) = SubSeq(file, 1, synced)
             /\ Len(FlattenSeq(file')) \in a..Len(Data)
             /\ FlattenSeq(file') = SubSeq(Data, 1, Len(FlattenSeq(file')))
  <2> DEFINE c == file[whole + 1]
  <2>1. c \in Seq(Nat)
    BY <1>1, <1>3, <1>9
  <2>2. PICK k \in 0..(Len(c) - 1) : part = SubSeq(c, 1, k)
    BY <1>9 DEF Beginnings
  <2>3. part \in Seq(Nat) /\ Len(part) = k /\ k \in Nat /\ k <= Len(c)
    BY <2>1, <2>2, SMTT(30)
  <2> HIDE DEF c
  <2>4. FlattenSeq(file') = FlattenSeq(kept) \o part
    <3> HIDE DEF kept
    <3>1. QED
      BY <1>3, <1>9, <2>3, FlattenAppend
  <2> HIDE DEF a
  <2>5. part = SubSeq(Data, b + 1, b + k)
    <3>1. /\ 0 \in 0..Len(file[whole + 1]) /\ k \in 0..Len(file[whole + 1])
      BY <2>1, <2>3 DEF c
    <3>2. SubSeq(FlattenSeq(file), b + 0 + 1, b + k) = SubSeq(file[whole + 1], 0 + 1, k)
      BY <1>1, <1>3, <1>9, <3>1, FlattenBytes, SMTT(30)
    <3> HIDE DEF b
    <3>3. b + 0 + 1 = b + 1 /\ 0 + 1 = 1
      BY <1>7
    <3>4. QED
      BY <2>2, <3>2, <3>3 DEF c, Data
  <2>6. b + k <= Len(Data)
    <3>1. Len(FlattenSeq(SubSeq(file, 1, whole + 1))) = b + Len(c)
      BY <1>1, <1>3, <1>9, FlattenNext, ZenonT(30) DEF c
    <3>2. whole + 1 \in 0..Len(file)
      BY <1>1, <1>3, <1>9
    <3>3. Len(FlattenSeq(SubSeq(file, 1, whole + 1))) <= Len(Data)
      BY <1>1, <3>2, FlattenFront DEF Data
    <3> HIDE DEF b
    <3>4. b + Len(c) <= Len(Data)
      BY <3>1, <3>3
    <3>5. QED
      BY <1>1, <1>7, <2>1, <2>3, <3>4
  <2>7. FlattenSeq(file') = SubSeq(Data, 1, b + k) /\ Len(FlattenSeq(file')) = b + k
    <3>1. FlattenSeq(kept) = SubSeq(Data, 1, b)
      BY <1>5
    <3> HIDE DEF b, kept
    <3>2. SubSeq(Data, 1, b) \o SubSeq(Data, b + 1, b + k) = SubSeq(Data, 1, b + k)
      <4>1. /\ 1 \in 1..(Len(Data) + 1) /\ b \in (1 - 1)..Len(Data)
            /\ b + k \in b..Len(Data)
        BY <1>1, <1>7, <2>3, <2>6
      <4>2. QED
        BY <1>1, <4>1, ConcatAdjacentSubSeq, Zenon
    <3>3. Len(SubSeq(Data, 1, b + k)) = b + k
      BY <1>1, <1>7, <2>3, <2>6
    <3>4. QED
      BY <2>4, <2>5, <3>1, <3>2, <3>3
  <2>8. b + k \in a..Len(Data)
    <3> HIDE DEF b
    <3>1. QED
      BY <1>1, <1>7, <2>3, <2>6
  <2>9. /\ file' \in Seq(Seq(Nat)) /\ Len(file') = whole + 1 /\ file' # << >>
        /\ \A i \in 1..whole : file'[i] = kept[i]
        /\ SubSeq(file', 1, synced) = SubSeq(kept, 1, synced)
    <3> HIDE DEF kept
    <3>1. /\ file' \in Seq(Seq(Nat)) /\ Len(file') = whole + 1 /\ file' # << >>
          /\ \A i \in 1..whole : file'[i] = kept[i]
      <4>1. /\ Append(kept, part) \in Seq(Seq(Nat))
            /\ Append(kept, part) # << >>
            /\ Len(Append(kept, part)) = Len(kept) + 1
            /\ \A i \in 1..Len(kept) : Append(kept, part)[i] = kept[i]
        BY <1>3, <2>3, AppendChunk
      <4>2. QED
        BY <1>3, <1>9, <4>1
    <3>2. SubSeq(file', 1, synced) = SubSeq(kept, 1, synced)
      BY <1>1, <1>3, <3>1
    <3>3. QED
      BY <3>1, <3>2
  <2>10. \A i \in DOMAIN file' : file'[i] = << >> => i = Len(file')
    <3>1. DOMAIN file' = 1..(whole + 1) /\ DOMAIN kept = 1..whole
      BY <1>3, <2>9
    <3>2. \A i \in 1..(whole + 1) : i \in 1..whole \/ i = whole + 1
      BY <1>3
    <3>3. QED
      BY <1>4, <2>9, <3>1, <3>2
  <2>11. QED
    BY <1>3, <2>7, <2>8, <2>9, <2>10
<1>10. QED
  BY <1>2, <1>8, <1>9

-----------------------------------------------------------------------------
(* The invariant.                                                          *)

Agreement == Types /\ Unread /\ Chunks /\ Cached /\ InCall /\ Marked

LEMMA InitAgrees == Init => Agreement
<1> SUFFICES ASSUME Init PROVE Agreement
  OBVIOUS
<1>1. file = << >> /\ out = << >> /\ Len(<< >>) = 0 /\ << >> \in Seq(Seq(Nat))
      /\ << >> \in Seq(Nat) /\ << >> \in Seq([offset : Offset, at : Nat])
  BY EmptySeq DEF Init
<1>2. Types
  <2>1. 0 \in 0..MaxBytes /\ 0 \in 0..0 /\ 1 \in 1..2 /\ 0 + 2 = 2 /\ 0 < ChunkSize
    OBVIOUS
  <2>2. Nowhere = 2 /\ Len(file) = 0 /\ Len(cache) = 0 /\ Len(out) = 0
    BY <1>1, <2>1 DEF Init, Nowhere
  <2>3. QED
    BY <1>1, <2>1, <2>2 DEF Init, Types
<1>3. Unread /\ Cached
  BY DEF Init, Unread, Cached
<1>4. Chunks
  BY <1>1 DEF Init, Chunks
<1>5. InCall
  BY DEF Init, InCall
<1>6. Marked
  BY <1>1 DEF Init, Marked
<1>7. QED
  BY <1>2, <1>3, <1>4, <1>5, <1>6 DEF Agreement

(* While the file is being written the reader has not begun.               *)
LEMMA StillUnread ==
  ASSUME Agreement, phase = "writing", phase' \in {"writing", "written"},
         UNCHANGED <<reader, call, marks>>,
         written' \in 0..MaxBytes, out' \in Seq(Nat), Len(out') < ChunkSize,
         file' \in Seq(Seq(Nat)), synced' \in 0..Len(file'), torn' \in BOOLEAN
  PROVE  Types' /\ Unread' /\ Cached' /\ InCall' /\ Marked'
<1> USE DEF Agreement, reader, call
<1>1. /\ chunk = 1 /\ cache = << >> /\ ptr = 0 /\ ~eof /\ op = "idle"
      /\ result = << >> /\ marks = << >>
  BY DEF Unread
<1>2. Types'
  <2>1. Len(file') \in Nat /\ 1 \in 1..(Len(file') + 2)
    BY LenProperties
  <2>2. chunk' \in 1..Nowhere'
    BY <1>1, <2>1 DEF Nowhere
  <2>3. QED
    BY <1>1, <2>2 DEF Types
<1>3. Unread' /\ Cached'
  BY <1>1 DEF Unread, Cached
<1>4. InCall'
  BY <1>1 DEF InCall
<1>5. Marked'
  BY <1>1, EmptySeq DEF Marked
<1>6. QED
  BY <1>2, <1>3, <1>4, <1>5

LEMMA WriteKeeps ==
  ASSUME Agreement, NEW n \in 1..MaxLength, Write(n)
  PROVE  Agreement'
<1>1. Types /\ Chunks
  BY DEF Agreement
<1>2. PICK g \in Seq(Seq(Nat)) :
        /\ file' = file \o g
        /\ \A i \in 1..Len(g) : g[i] # << >>
        /\ out' \in Seq(Nat) /\ Len(out') < ChunkSize
  BY <1>1, WriteEffect
<1>3. /\ file \o g \in Seq(Seq(Nat))
      /\ Len(file \o g) = Len(file) + Len(g)
      /\ \A i \in DOMAIN (file \o g) :
           (file \o g)[i] = << >> => i \in DOMAIN file /\ file[i] = << >>
  BY <1>1, <1>2, GrownFile
<1>4. phase = "writing" /\ phase' = "writing" /\ torn' = torn /\ synced' = synced
      /\ UNCHANGED <<reader, call, marks>> /\ written' \in 0..MaxBytes
  BY <1>1 DEF Write, Types
<1>5. synced' \in 0..Len(file')
  BY <1>1, <1>2, <1>3, <1>4 DEF Types
<1>6. Chunks'
  <2>1. ~torn /\ ~torn'
    BY <1>1, <1>4 DEF Chunks
  <2>2. \A i \in DOMAIN file' : file'[i] # << >>
    BY <1>1, <1>2, <1>3, <2>1 DEF Chunks
  <2>3. QED
    BY <1>4, <2>1, <2>2 DEF Chunks
<1>7. Types' /\ Unread' /\ Cached' /\ InCall' /\ Marked'
  BY <1>1, <1>2, <1>3, <1>4, <1>5, StillUnread DEF Types
<1>8. QED
  BY <1>6, <1>7 DEF Agreement

LEMMA FlushKeeps ==
  ASSUME Agreement, Flush \/ Close
  PROVE  Agreement'
<1>1. Types /\ Chunks
  BY DEF Agreement
<1>2. file' = WithChunk(file, out) /\ out' = << >> /\ phase = "writing"
      /\ phase' \in {"writing", "written"} /\ torn' = torn /\ written' = written
      /\ UNCHANGED <<reader, call, marks>>
      /\ (synced' = synced \/ synced' = Len(file'))
  BY DEF Flush, Close, writer
<1>3. PICK g \in Seq(Seq(Nat)) :
        file' = file \o g /\ \A i \in 1..Len(g) : g[i] # << >>
  BY <1>1, <1>2, ChunkEffect
<1>4. /\ file \o g \in Seq(Seq(Nat))
      /\ Len(file \o g) = Len(file) + Len(g)
      /\ \A i \in DOMAIN (file \o g) :
           (file \o g)[i] = << >> => i \in DOMAIN file /\ file[i] = << >>
  BY <1>1, <1>3, GrownFile
<1>5. synced' \in 0..Len(file')
  BY <1>1, <1>2, <1>3, <1>4 DEF Types
<1>6. Chunks'
  <2>1. ~torn /\ ~torn'
    BY <1>1, <1>2 DEF Chunks
  <2>2. \A i \in DOMAIN file' : file'[i] # << >>
    BY <1>1, <1>3, <1>4, <2>1 DEF Chunks
  <2>3. QED
    BY <1>2, <2>1, <2>2 DEF Chunks
<1>7. Types' /\ Unread' /\ Cached' /\ InCall' /\ Marked'
  <2>1. out' \in Seq(Nat) /\ Len(out') < ChunkSize /\ written' \in 0..MaxBytes
        /\ torn' \in BOOLEAN
    BY <1>1, <1>2, EmptySeq DEF Types
  <2>2. QED
    BY <1>2, <1>3, <1>4, <1>5, <2>1, StillUnread
<1>8. QED
  BY <1>6, <1>7 DEF Agreement

LEMMA CrashKeeps ==
  ASSUME Agreement, Crash
  PROVE  Agreement'
<1>1. Types /\ Chunks
  BY DEF Agreement
<1>2. /\ file' \in Seq(Seq(Nat)) /\ synced <= Len(file')
      /\ torn' \in BOOLEAN /\ (torn' => file' # << >>)
      /\ \A i \in DOMAIN file' : file'[i] = << >> => torn' /\ i = Len(file')
  BY <1>1, CrashEffect
<1>3. phase = "writing" /\ phase' = "written" /\ out' = << >>
      /\ written' = written /\ synced' = synced
      /\ UNCHANGED <<reader, call, marks>>
  BY DEF Crash
<1>4. Chunks'
  BY <1>2, <1>3 DEF Chunks
<1>5. out' \in Seq(Nat) /\ Len(out') < ChunkSize /\ written' \in 0..MaxBytes
      /\ synced' \in 0..Len(file')
  BY <1>1, <1>2, <1>3, EmptySeq DEF Types
<1>6. Types' /\ Unread' /\ Cached' /\ InCall' /\ Marked'
  BY <1>2, <1>3, <1>5, StillUnread
<1>7. QED
  BY <1>4, <1>6 DEF Agreement

(* The reader moves in a file that does not change any more.               *)
LEMMA SameFile ==
  ASSUME file' = file, torn' = torn
  PROVE  /\ Nowhere' = Nowhere /\ PastEnd' = PastEnd /\ Data' = Data
         /\ \A c : Ends(c)' = Ends(c)
         /\ \A c, i : PlaceOf(c, i)' = PlaceOf(c, i)
  BY DEF Nowhere, PastEnd, Data, Ends, PlaceOf

LEMMA ReaderKeeps ==
  ASSUME Agreement, phase # "writing", phase' = "reading",
         UNCHANGED <<writer, file, torn>>,
         chunk' \in 1..Nowhere, cache' \in Seq(Nat), ptr' \in 0..Len(cache'),
         eof' \in BOOLEAN,
         chunk' > Len(file) => cache' = << >>,
         chunk' <= Len(file) =>
           /\ Len(cache') = Len(file[chunk'])
           /\ \/ cache' = file[chunk'] \/ Len(cache') - ptr' = 0
              \/ op' = "skip" /\ Len(cache') - ptr' <= left',
         chunk' # Nowhere => eof' = Ends(chunk'),
         op' \in {"idle", "read", "skip"}, length' \in Nat, left' \in 0..length',
         buffer' \in Seq(Nat), result' \in Seq(Nat),
         marks' \in Seq([offset : Offset, at : Nat])
  PROVE  Types' /\ Unread' /\ Chunks' /\ Cached'
<1>1. Types /\ Chunks /\ Nowhere' = Nowhere
  BY SameFile DEF Agreement
<1>2. Types'
  BY <1>1 DEF Types, writer
<1>3. Unread'
  BY DEF Unread
<1>4. Chunks'
  BY <1>1 DEF Chunks, writer
<1>5. Cached'
  BY <1>1 DEF Cached, Free, Ends, PastEnd
<1>6. QED
  BY <1>2, <1>3, <1>4, <1>5

LEMMA MarksKept ==
  ASSUME Marked, file' = file, torn' = torn, marks' = marks
  PROVE  Marked'
  BY SameFile DEF Marked

(* What a reader finds that goes to a chunk for its own sake.              *)
LEMMA LoadEffect ==
  ASSUME Types, Chunks, NEW c \in 1..Nowhere, NEW skip \in Nat,
         NEW wasEof \in BOOLEAN, FlushReadCache(c, skip, wasEof)
  PROVE  /\ chunk' = c /\ chunk' \in 1..Nowhere
         /\ cache' \in Seq(Nat) /\ Len(cache') \in Nat /\ 0 \in 0..Len(cache')
         /\ eof' \in BOOLEAN /\ (c # Nowhere => eof' = Ends(c))
         /\ c > Len(file) => cache' = << >>
         /\ c <= Len(file) =>
              /\ Len(cache') = Len(file[c])
              /\ cache' = file[c] \/ Len(cache') <= skip
              /\ skip = 0 => cache' = file[c]
              /\ cache' = << >> => c = Len(file)
<1>1. chunk' = c /\ cache' = Loaded(c, skip)
      /\ eof' = IF c = Nowhere THEN wasEof ELSE Ends(c)
  BY DEF FlushReadCache
<1>2. Loaded(c, skip) \in Seq(Nat)
  BY LoadedFacts
<1>3. eof' \in BOOLEAN
  BY <1>1 DEF Ends
<1>4. /\ c > Len(file) => cache' = << >>
      /\ c <= Len(file) =>
           /\ Len(cache') = Len(file[c])
           /\ cache' = file[c] \/ Len(file[c]) <= skip
           /\ skip = 0 => cache' = file[c]
           /\ cache' = << >> => c = Len(file)
  BY <1>1, LoadedFacts
<1>5. Len(cache') \in Nat /\ 0 \in 0..Len(cache')
  <2>1. Len(cache') \in Nat
    BY <1>1, <1>2
  <2>2. QED
    BY <2>1
<1>6. /\ chunk' = c /\ chunk' \in 1..Nowhere /\ cache' \in Seq(Nat)
      /\ (c # Nowhere => eof' = Ends(c))
  BY <1>1, <1>2
<1>7. QED
  BY <1>3, <1>4, <1>5, <1>6

LEMMA OpenKeeps ==
  ASSUME Agreement, Open
  PROVE  Agreement'
<1>1. Types /\ Chunks /\ Unread /\ Marked /\ Len(file) \in Nat
  BY DataTypes DEF Agreement
<1>2. /\ phase = "written" /\ phase' = "reading" /\ ptr' = 0
      /\ FlushReadCache(1, 0, FALSE)
      /\ UNCHANGED <<writer, file, torn, call, marks>>
  BY DEF Open
<1>3. 1 \in 1..Nowhere /\ 1 # Nowhere /\ 0 \in Nat
  BY <1>1 DEF Nowhere
<1>4. op = "idle" /\ UNCHANGED <<op, length, left, buffer, result, marks>>
  BY <1>1, <1>2 DEF Unread, call
<1>5. /\ chunk' = 1 /\ chunk' \in 1..Nowhere
      /\ cache' \in Seq(Nat) /\ Len(cache') \in Nat /\ 0 \in 0..Len(cache')
      /\ eof' \in BOOLEAN /\ (1 # Nowhere => eof' = Ends(1))
      /\ 1 > Len(file) => cache' = << >>
      /\ 1 <= Len(file) => cache' = file[1]
  BY <1>1, <1>2, <1>3, LoadEffect
<1>6. Types' /\ Unread' /\ Chunks' /\ Cached'
  <2>1. ptr' \in 0..Len(cache')
    BY <1>2, <1>5
  <2>2. /\ op' \in {"idle", "read", "skip"} /\ length' \in Nat /\ left' \in 0..length'
        /\ buffer' \in Seq(Nat) /\ result' \in Seq(Nat)
        /\ marks' \in Seq([offset : Offset, at : Nat])
    BY <1>1, <1>4 DEF Types
  <2>3. /\ chunk' > Len(file) => cache' = << >>
        /\ chunk' <= Len(file) =>
             Len(cache') = Len(file[chunk']) /\ cache' = file[chunk']
        /\ chunk' # Nowhere => eof' = Ends(chunk')
    BY <1>5
  <2>4. QED
    BY <1>2, <1>5, <2>1, <2>2, <2>3, ReaderKeeps
<1>7. InCall'
  BY <1>4 DEF InCall, Agreement
<1>8. Marked'
  BY <1>1, <1>2, MarksKept
<1>9. QED
  BY <1>6, <1>7, <1>8 DEF Agreement

LEMMA BeginKeeps ==
  ASSUME Agreement, NEW kind \in {"read", "skip"}, NEW n \in 0..MaxLength,
         Begin(kind, n)
  PROVE  Agreement'
<1>1. Types /\ Chunks /\ Cached /\ InCall /\ Marked
  BY DEF Agreement
<1>2. /\ phase = "reading" /\ phase' = "reading" /\ op = "idle"
      /\ UNCHANGED <<writer, file, torn, marks>>
      /\ chunk' = chunk /\ cache' = cache /\ ptr' = ptr /\ eof' = eof
  BY DEF Begin, reader
<1>3. n \in Nat /\ n \in 0..n
  OBVIOUS
<1>4. \/ op' = "idle" /\ UNCHANGED <<length, left, buffer>>
         /\ (result' = result \/ result' = << >>)
      \/ op' = kind /\ length' = n /\ left' = n /\ UNCHANGED <<buffer, result>>
  BY <1>2 DEF Begin
<1>5. length = 0 /\ left = 0 /\ buffer = << >>
  BY <1>1, <1>2 DEF InCall
<1>6. /\ op' \in {"idle", "read", "skip"} /\ length' \in Nat /\ left' \in 0..length'
      /\ buffer' \in Seq(Nat) /\ result' \in Seq(Nat)
      /\ length' - left' = 0 /\ buffer' = << >>
      /\ marks' \in Seq([offset : Offset, at : Nat])
  <2>1. 0 \in Nat /\ 0 \in 0..0 /\ << >> \in Seq(Nat) /\ n - n = 0 /\ 0 - 0 = 0
    BY <1>3, EmptySeq
  <2>2. result' \in Seq(Nat) /\ marks' \in Seq([offset : Offset, at : Nat])
    BY <1>1, <1>2, <1>4, <2>1 DEF Types
  <2>3. QED
    BY <1>3, <1>4, <1>5, <2>1, <2>2
<1>7. Types' /\ Unread' /\ Chunks' /\ Cached'
  <2>1. /\ chunk' \in 1..Nowhere /\ cache' \in Seq(Nat) /\ ptr' \in 0..Len(cache')
        /\ eof' \in BOOLEAN
    BY <1>1, <1>2 DEF Types
  <2>2. /\ chunk' > Len(file) => cache' = << >>
        /\ chunk' <= Len(file) =>
             /\ Len(cache') = Len(file[chunk'])
             /\ cache' = file[chunk'] \/ Len(cache') - ptr' = 0
        /\ chunk' # Nowhere => eof' = Ends(chunk')
    BY <1>1, <1>2 DEF Cached, Free
  <2>3. QED
    BY <1>2, <1>6, <2>1, <2>2, ReaderKeeps
<1>8. InCall'
  <2>1. Place \in Nat /\ Data \in Seq(Nat)
    BY <1>1, <1>2, ReaderFacts, DataTypes
  <2>2. Place' = Place /\ Data' = Data
    BY <1>2 DEF Place, PlaceOf, Data
  <2>3. SubSeq(Data, Place - 0 + 1, Place) = << >>
    BY <2>1, SubSeqEmpty
  <2>4. op' = "idle" => length' = 0 /\ left' = 0
    BY <1>4, <1>5
  <2>5. length' - left' <= Place'
    <3>1. length' - left' = 0
      BY <1>6, Zenon
    <3>2. \A p \in Nat : 0 <= p
      OBVIOUS
    <3>3. QED
      BY <2>1, <2>2, <3>1, <3>2, Zenon
  <2>6. QED
    BY <1>6, <2>2, <2>3, <2>4, <2>5 DEF InCall
<1>9. Marked'
  BY <1>1, <1>2, MarksKept
<1>10. QED
  BY <1>7, <1>8, <1>9 DEF Agreement

LEMMA MarkKeeps ==
  ASSUME Agreement, Mark
  PROVE  Agreement'
<1>1. Types /\ Chunks /\ Cached /\ InCall /\ Marked
  BY DEF Agreement
<1> DEFINE m == [offset |-> CurrentOffset, at |-> Place]
<1>2. /\ phase = "reading" /\ phase' = "reading" /\ op = "idle"
      /\ UNCHANGED <<writer, file, torn, op, length, left, buffer, result>>
      /\ chunk' = chunk /\ cache' = cache /\ ptr' = ptr /\ eof' = eof
      /\ marks' = Append(marks, m)
  BY DEF Mark, reader, call
<1>3. Place \in Nat /\ Place = PlaceOf(chunk, ptr)
  BY <1>1, <1>2, ReaderFacts DEF Place
<1>4. /\ chunk \in Nat \ {0} /\ ptr \in Nat /\ chunk <= Nowhere
      /\ chunk \in 1..Nowhere /\ Nowhere \in Nat
  BY <1>1, DataTypes DEF Types, Nowhere
<1>5. m \in [offset : Offset, at : Nat]
  BY <1>3, <1>4 DEF CurrentOffset, Offset
<1>6. /\ m.at = PlaceOf(m.offset.chunk, m.offset.in)
      /\ m.offset.chunk = chunk /\ m.offset.in = ptr
  BY <1>3 DEF CurrentOffset
<1> HIDE DEF m
<1>7. marks' \in Seq([offset : Offset, at : Nat])
  BY <1>1, <1>2, <1>5, AppendProperties DEF Types
<1>8. Types' /\ Unread' /\ Chunks' /\ Cached'
  <2>1. /\ chunk' \in 1..Nowhere /\ cache' \in Seq(Nat) /\ ptr' \in 0..Len(cache')
        /\ eof' \in BOOLEAN
        /\ op' \in {"idle", "read", "skip"} /\ length' \in Nat /\ left' \in 0..length'
        /\ buffer' \in Seq(Nat) /\ result' \in Seq(Nat)
    BY <1>1, <1>2 DEF Types
  <2>2. /\ chunk' > Len(file) => cache' = << >>
        /\ chunk' <= Len(file) =>
             /\ Len(cache') = Len(file[chunk'])
             /\ cache' = file[chunk'] \/ Len(cache') - ptr' = 0
        /\ chunk' # Nowhere => eof' = Ends(chunk')
    BY <1>1, <1>2 DEF Cached, Free
  <2>3. QED
    BY <1>2, <1>7, <2>1, <2>2, ReaderKeeps
<1>9. InCall'
  <2>1. Place' = Place /\ Data' = Data
    BY <1>2 DEF Place, PlaceOf, Data
  <2>2. QED
    BY <1>1, <1>2, <2>1 DEF InCall
<1>10. Marked'
  <2>1. SUFFICES ASSUME NEW i \in DOMAIN marks'
                 PROVE  /\ marks'[i].offset.chunk <= Nowhere
                        /\ marks'[i].offset.chunk <= Len(file) =>
                             marks'[i].offset.in <= Len(file[marks'[i].offset.chunk])
                        /\ marks'[i].offset.chunk > Len(file) =>
                             marks'[i].offset.in = 0
                        /\ marks'[i].at = PlaceOf(marks'[i].offset.chunk, marks'[i].offset.in)
    BY <1>2, SameFile DEF Marked, PlaceOf
  <2>2. /\ Len(marks) \in Nat /\ DOMAIN marks = 1..Len(marks)
        /\ DOMAIN marks' = 1..(Len(marks) + 1)
        /\ marks'[Len(marks) + 1] = m
        /\ \A j \in 1..Len(marks) : marks'[j] = marks[j]
    BY <1>1, <1>2, <1>5 DEF Types
  <2>3. CASE i \in 1..Len(marks)
    BY <1>1, <2>2, <2>3 DEF Marked
  <2>4. CASE i = Len(marks) + 1
    <3>1. /\ chunk <= Len(file) => ptr <= Len(file[chunk])
          /\ chunk > Len(file) => ptr = 0
      <4>1. ptr <= Len(cache) /\ Len(<< >>) = 0 /\ ptr \in Nat
        BY <1>1 DEF Types
      <4>2. QED
        BY <1>1, <1>2, <4>1 DEF Cached
    <3>2. QED
      BY <1>4, <1>6, <2>2, <2>4, <3>1
  <2>5. QED
    BY <2>1, <2>2, <2>3, <2>4
<1>11. QED
  BY <1>8, <1>9, <1>10 DEF Agreement

LEMMA SeekKeeps ==
  ASSUME Agreement, Seek
  PROVE  Agreement'
<1>1. Types /\ Chunks /\ Cached /\ InCall /\ Marked /\ Len(file) \in Nat
  BY DataTypes DEF Agreement
<1>2. /\ phase = "reading" /\ phase' = "reading" /\ op = "idle"
      /\ UNCHANGED <<writer, file, torn, op, length, left, buffer, result, marks>>
  BY DEF Seek, call
<1>3. PICK i \in DOMAIN marks :
        /\ FlushReadCache(marks[i].offset.chunk, 0, FALSE)
        /\ ptr' = marks[i].offset.in
  BY DEF Seek
<1> DEFINE c == marks[i].offset.chunk
<1>4. c \in 1..Nowhere /\ ptr' \in Nat
      /\ (c <= Len(file) => ptr' <= Len(file[c]))
      /\ (c > Len(file) => ptr' = 0)
  <2>1. marks[i] \in [offset : Offset, at : Nat]
    <3>1. marks \in Seq([offset : Offset, at : Nat])
      BY <1>1 DEF Types
    <3>2. i \in 1..Len(marks)
      BY <3>1, LenProperties
    <3>3. QED
      BY <3>1, <3>2, ElementOfSeq
  <2>2. marks[i].offset.chunk \in Nat \ {0} /\ marks[i].offset.in \in Nat
    BY <2>1 DEF Offset
  <2>3. /\ c <= Nowhere /\ (c <= Len(file) => marks[i].offset.in <= Len(file[c]))
        /\ (c > Len(file) => marks[i].offset.in = 0)
    BY <1>1 DEF Marked
  <2>4. Nowhere \in Nat
    BY <1>1 DEF Nowhere
  <2>5. QED
    BY <1>3, <2>2, <2>3, <2>4
<1>5. FlushReadCache(c, 0, FALSE)
  BY <1>3
<1> HIDE DEF c
<1>6. /\ chunk' = c /\ chunk' \in 1..Nowhere
      /\ cache' \in Seq(Nat) /\ Len(cache') \in Nat
      /\ eof' \in BOOLEAN /\ (c # Nowhere => eof' = Ends(c))
      /\ c > Len(file) => cache' = << >>
      /\ c <= Len(file) => cache' = file[c]
  <2>1. 0 \in Nat /\ FALSE \in BOOLEAN
    OBVIOUS
  <2>2. QED
    BY <1>1, <1>4, <1>5, <2>1, LoadEffect
<1>7. ptr' \in 0..Len(cache')
  <2>1. c \in Nat /\ (c > Len(file) \/ c <= Len(file)) /\ Len(<< >>) = 0
    BY <1>1, <1>4 DEF Nowhere
  <2>2. QED
    BY <1>4, <1>6, <2>1
<1>8. Types' /\ Unread' /\ Chunks' /\ Cached'
  <2>1. /\ op' \in {"idle", "read", "skip"} /\ length' \in Nat /\ left' \in 0..length'
        /\ buffer' \in Seq(Nat) /\ result' \in Seq(Nat)
        /\ marks' \in Seq([offset : Offset, at : Nat])
    BY <1>1, <1>2 DEF Types
  <2>2. /\ chunk' > Len(file) => cache' = << >>
        /\ chunk' <= Len(file) =>
             Len(cache') = Len(file[chunk']) /\ cache' = file[chunk']
        /\ chunk' # Nowhere => eof' = Ends(chunk')
    BY <1>6
  <2>3. QED
    BY <1>2, <1>6, <1>7, <2>1, <2>2, ReaderKeeps
<1>9. InCall'
  BY <1>1, <1>2 DEF InCall
<1>10. Marked'
  BY <1>1, <1>2, MarksKept
<1>11. QED
  BY <1>8, <1>9, <1>10 DEF Agreement

(* How much of the cache a turn of the loops takes, and whether that is    *)
(* not enough.                                                             *)
Taken == Smaller(Free, left)
More == left > Taken
GoesOn == More /\ cache' # << >>
CopiedTo == IF op = "skip" THEN << >> ELSE buffer \o SubSeq(cache, ptr + 1, ptr + Taken)

LEMMA CopyUnfolded ==
  ASSUME Copy
  PROVE  /\ op # "idle" /\ UNCHANGED <<phase, writer, file, torn, marks>>
         /\ More => /\ FlushReadCache(NextChunk, IF op = "skip" THEN left - Taken ELSE 0, eof)
                    /\ ptr' = 0
         /\ ~More => ptr' = ptr + Taken /\ UNCHANGED <<chunk, cache, eof>>
         /\ GoesOn => /\ op' = op /\ length' = length /\ left' = left - Taken
                      /\ buffer' = CopiedTo /\ result' = result
         /\ ~GoesOn => /\ op' = "idle" /\ length' = 0 /\ left' = 0 /\ buffer' = << >>
                       /\ result' = IF op = "read" THEN CopiedTo ELSE result
  BY DEF Copy, Taken, More, GoesOn, CopiedTo, Exhausted

LEMMA CopyReads ==
  ASSUME Agreement, Copy
  PROVE  /\ phase = "reading" /\ op \in {"read", "skip"}
         /\ Taken \in 0..Free /\ left - Taken \in Nat /\ Place \in Nat
         /\ (~More => Taken = left) /\ (More => Taken = Free /\ left > Free)
         /\ Place + Taken <= Len(Data)
         /\ op = "read" => CopiedTo = SubSeq(Data, Place - (length - left) + 1, Place + Taken)
         /\ op = "skip" => CopiedTo = << >>
         /\ CopiedTo \in Seq(Nat)
<1>1. Types /\ Chunks /\ Cached /\ InCall /\ Unread
  BY DEF Agreement
<1>2. phase = "reading" /\ op \in {"read", "skip"}
  BY <1>1, CopyUnfolded DEF Unread, Types
<1>3. /\ Free \in Nat /\ Place \in Nat /\ Place + Free <= Len(Data)
      /\ left \in Nat /\ length \in Nat /\ left <= length
      /\ Len(Data) \in Nat /\ Data \in Seq(Nat)
  BY <1>1, <1>2, ReaderFacts, DataTypes DEF Types
<1>4. /\ Taken \in 0..Free /\ left - Taken \in Nat
      /\ (~More => Taken = left) /\ (More => Taken = Free /\ left > Free)
  BY <1>3 DEF Taken, More, Smaller
<1>5. Place + Taken <= Len(Data)
  BY <1>3, <1>4
<1>6. CASE op = "read"
  <2> DEFINE p == Place - (length - left)
  <2>1. /\ buffer = SubSeq(Data, p + 1, Place)
        /\ p \in Nat /\ p <= Place
    BY <1>1, <1>3, <1>6 DEF InCall
  <2>2. SubSeq(cache, ptr + 1, ptr + Taken) = SubSeq(Data, Place + 1, Place + Taken)
    BY <1>1, <1>2, <1>4, <1>6, CopiedBytes
  <2> HIDE DEF p
  <2>3. SubSeq(Data, p + 1, Place) \o SubSeq(Data, Place + 1, Place + Taken)
        = SubSeq(Data, p + 1, Place + Taken)
    <3> DEFINE q == Place + Taken
    <3>1. /\ p \in Nat /\ Place \in Nat /\ q \in Nat
          /\ p <= Place /\ Place <= q /\ q <= Len(Data)
      BY <1>3, <1>4, <1>5, <2>1
    <3> HIDE DEF q
    <3>2. SubSeq(Data, p + 1, Place) \o SubSeq(Data, Place + 1, q)
          = SubSeq(Data, p + 1, q)
      BY <1>3, <3>1, JoinAt
    <3>3. QED
      BY <3>2 DEF q
  <2>4. SubSeq(Data, p + 1, Place + Taken) \in Seq(Nat)
    BY <1>3, <1>4, <1>5, <2>1
  <2>5. CopiedTo = SubSeq(Data, p + 1, Place + Taken)
    BY <1>6, <2>1, <2>2, <2>3 DEF CopiedTo
  <2>6. QED
    BY <1>2, <1>3, <1>4, <1>5, <1>6, <2>4, <2>5 DEF p
<1>7. CASE op = "skip"
  BY <1>2, <1>3, <1>4, <1>5, <1>7, EmptySeq DEF CopiedTo
<1>8. QED
  BY <1>2, <1>6, <1>7

(* Where the reader is afterwards.                                         *)
LEMMA CopyMoves ==
  ASSUME Agreement, Copy
  PROVE  /\ chunk' \in 1..Nowhere /\ cache' \in Seq(Nat) /\ ptr' \in 0..Len(cache')
         /\ eof' \in BOOLEAN
         /\ chunk' > Len(file) => cache' = << >>
         /\ chunk' <= Len(file) =>
              /\ Len(cache') = Len(file[chunk'])
              /\ \/ cache' = file[chunk'] \/ Len(cache') - ptr' = 0
                 \/ op' = "skip" /\ Len(cache') - ptr' <= left'
         /\ chunk' # Nowhere => eof' = Ends(chunk')
         /\ PlaceOf(chunk', ptr') = Place + Taken
         /\ More /\ cache' = << >> => Place + Taken = Len(Data)
<1>1. Types /\ Chunks /\ Cached /\ InCall /\ Unread /\ Len(file) \in Nat
  BY DataTypes DEF Agreement
<1>2. /\ phase = "reading" /\ op \in {"read", "skip"}
      /\ Taken \in 0..Free /\ left - Taken \in Nat
      /\ (~More => Taken = left) /\ (More => Taken = Free /\ left > Free)
  BY CopyReads
<1>3. /\ Free \in Nat /\ Place \in Nat /\ Place = PlaceOf(chunk, 0) + ptr
      /\ NextChunk \in 1..Nowhere /\ PlaceOf(NextChunk, 0) = Place + Free
      /\ PlaceOf(chunk, 0) \in Nat /\ Len(Data) \in Nat
  <2>1. PlaceOf(chunk, 0) \in 0..Len(Data)
    <3>1. chunk \in Nat \ {0} /\ 0 \in Nat
      BY <1>1 DEF Types, Nowhere
    <3>2. QED
      BY <1>1, <3>1, PlaceInChunk
  <2>2. QED
    BY <1>1, <1>2, <2>1, ReaderFacts, DataTypes
<1>4. /\ chunk \in 1..Nowhere /\ chunk \in Nat \ {0} /\ cache \in Seq(Nat)
      /\ ptr \in Nat /\ ptr <= Len(cache) /\ Len(cache) \in Nat /\ eof \in BOOLEAN
      /\ ptr + Free = Len(cache) /\ left \in Nat /\ Nowhere = Len(file) + 2
  BY <1>1 DEF Types, Free, Nowhere
<1>5. CASE ~More
  <2>1. /\ chunk' = chunk /\ cache' = cache /\ eof' = eof /\ ptr' = ptr + Taken
        /\ Taken \in Nat /\ Taken <= Free /\ Taken = left
    BY <1>2, <1>3, <1>5, CopyUnfolded
  <2>2. ptr' \in 0..Len(cache') /\ ptr + Taken \in Nat
    BY <1>3, <1>4, <2>1
  <2>3. Len(cache') - ptr' = Free - Taken
    BY <1>3, <1>4, <2>1
  <2>4. chunk' <= Len(file) =>
          /\ Len(cache') = Len(file[chunk'])
          /\ cache' = file[chunk'] \/ Len(cache') - ptr' = 0
    <3>1. SUFFICES ASSUME chunk <= Len(file)
                   PROVE  /\ Len(cache) = Len(file[chunk])
                          /\ cache = file[chunk] \/ Free - Taken = 0
      BY <2>1, <2>3
    <3>2. /\ Len(cache) = Len(file[chunk])
          /\ cache = file[chunk] \/ Free = 0 \/ Free <= left
      BY <1>1, <1>2, <3>1 DEF Cached
    <3>3. QED
      BY <1>3, <1>4, <2>1, <3>2
  <2>5. PlaceOf(chunk, ptr + Taken) = PlaceOf(chunk, 0) + (ptr + Taken)
    BY <1>1, <1>4, <2>2, PlaceInChunk
  <2>6. PlaceOf(chunk', ptr') = Place + Taken
    BY <1>3, <1>4, <2>1, <2>5, SMTT(30)
  <2>7. /\ chunk' > Len(file) => cache' = << >>
        /\ chunk' # Nowhere => eof' = Ends(chunk')
        /\ chunk' \in 1..Nowhere /\ cache' \in Seq(Nat) /\ eof' \in BOOLEAN
    BY <1>1, <1>2, <1>4, <2>1 DEF Cached
  <2>8. QED
    BY <1>5, <2>2, <2>4, <2>6, <2>7
<1>6. CASE More
  <2> DEFINE skip == IF op = "skip" THEN left - Taken ELSE 0
  <2>1. skip \in Nat /\ Taken = Free /\ FlushReadCache(NextChunk, skip, eof) /\ ptr' = 0
    BY <1>2, <1>6, CopyUnfolded
  <2>2. op = "read" => skip = 0
    OBVIOUS
  <2>3. op = "skip" /\ GoesOn => op' = "skip" /\ left' = skip
    BY CopyUnfolded
  <2> HIDE DEF skip
  <2>4. /\ chunk' = NextChunk /\ chunk' \in 1..Nowhere
        /\ cache' \in Seq(Nat) /\ Len(cache') \in Nat /\ 0 \in 0..Len(cache')
        /\ eof' \in BOOLEAN /\ (NextChunk # Nowhere => eof' = Ends(NextChunk))
        /\ NextChunk > Len(file) => cache' = << >>
        /\ NextChunk <= Len(file) =>
             /\ Len(cache') = Len(file[NextChunk])
             /\ cache' = file[NextChunk] \/ Len(cache') <= skip
             /\ skip = 0 => cache' = file[NextChunk]
             /\ cache' = << >> => NextChunk = Len(file)
    BY <1>1, <1>3, <1>4, <2>1, LoadEffect
  <2>5. PlaceOf(chunk', ptr') = Place + Taken
    BY <1>3, <2>1, <2>4
  <2>6. Len(cache') - ptr' = Len(cache')
    BY <2>1, <2>4
  <2>7. chunk' <= Len(file) =>
          /\ Len(cache') = Len(file[chunk'])
          /\ \/ cache' = file[chunk'] \/ Len(cache') - ptr' = 0
             \/ op' = "skip" /\ Len(cache') - ptr' <= left'
    <3>1. SUFFICES ASSUME NextChunk <= Len(file), cache' # file[NextChunk]
                   PROVE  \/ Len(cache') = 0
                          \/ op' = "skip" /\ Len(cache') <= left'
      BY <2>4, <2>6
    <3>2. CASE cache' = << >>
      BY <3>2
    <3>3. CASE cache' # << >>
      <4>1. op = "skip" /\ GoesOn
        BY <1>2, <1>6, <2>2, <2>4, <3>1, <3>3 DEF GoesOn
      <4>2. QED
        BY <2>3, <2>4, <3>1, <4>1
    <3>4. QED
      BY <3>2, <3>3
  <2>8. cache' = << >> => Place + Taken = Len(Data)
    <3>1. SUFFICES ASSUME cache' = << >> PROVE PlaceOf(NextChunk, 0) = Len(Data)
      BY <1>3, <2>1
    <3>2. NextChunk \in Nat
      BY <1>3, <1>4
    <3>3. CASE NextChunk > Len(file)
      BY <1>1, <3>2, <3>3, PlaceEnd
    <3>4. CASE NextChunk <= Len(file)
      <4>1. NextChunk = Len(file) /\ Len(file[NextChunk]) = 0
        BY <2>4, <3>1, <3>4, EmptySeq
      <4>2. NextChunk \in 1..Len(file)
        BY <1>1, <1>3, <3>2, <3>4
      <4>3. PlaceOf(NextChunk + 1, 0) = PlaceOf(NextChunk, 0) + 0
        BY <1>1, <4>1, <4>2, PlaceNext
      <4>4. PlaceOf(NextChunk + 1, 0) = Len(Data)
        BY <1>1, <4>1, PlaceEnd
      <4>5. QED
        BY <1>3, <2>1, <4>3, <4>4
    <3>5. QED
      BY <1>1, <3>2, <3>3, <3>4
  <2>9. QED
    BY <2>1, <2>4, <2>5, <2>7, <2>8
<1>7. QED
  BY <1>5, <1>6

LEMMA CopyKeeps ==
  ASSUME Agreement, Copy
  PROVE  Agreement'
<1>1. Types /\ Marked /\ InCall
  BY DEF Agreement
<1>2. /\ phase = "reading" /\ op \in {"read", "skip"}
      /\ left - Taken \in Nat /\ CopiedTo \in Seq(Nat) /\ Place \in Nat
      /\ Taken \in Nat /\ Free \in Nat
      /\ op = "read" => CopiedTo = SubSeq(Data, Place - (length - left) + 1, Place + Taken)
      /\ op = "skip" => CopiedTo = << >>
  <2>1. Types /\ Chunks /\ Cached
    BY DEF Agreement
  <2>2. Taken \in 0..Free /\ Free \in Nat
    BY <2>1, CopyReads, ReaderFacts
  <2>3. QED
    BY <2>2, CopyReads
<1>3. /\ UNCHANGED <<phase, writer, file, torn, marks>>
      /\ GoesOn => /\ op' = op /\ length' = length /\ left' = left - Taken
                   /\ buffer' = CopiedTo /\ result' = result
      /\ ~GoesOn => /\ op' = "idle" /\ length' = 0 /\ left' = 0 /\ buffer' = << >>
                    /\ result' = IF op = "read" THEN CopiedTo ELSE result
  BY CopyUnfolded
<1>4. length \in Nat /\ left \in Nat /\ left <= length /\ result \in Seq(Nat)
      /\ marks \in Seq([offset : Offset, at : Nat])
  BY <1>1 DEF Types
<1>5. Types' /\ Unread' /\ Chunks' /\ Cached'
  <2>1. /\ op' \in {"idle", "read", "skip"} /\ length' \in Nat /\ left' \in 0..length'
        /\ buffer' \in Seq(Nat) /\ result' \in Seq(Nat)
    <3>1. CASE GoesOn
      <4>1. left - Taken \in 0..length
        BY <1>2, <1>4
      <4>2. QED
        BY <1>2, <1>3, <1>4, <3>1, <4>1
    <3>2. CASE ~GoesOn
      <4>1. 0 \in Nat /\ 0 \in 0..0 /\ << >> \in Seq(Nat)
        BY EmptySeq
      <4>2. QED
        BY <1>2, <1>3, <1>4, <3>2, <4>1
    <3>3. QED
      BY <3>1, <3>2
  <2>2. marks' \in Seq([offset : Offset, at : Nat]) /\ phase' = "reading"
        /\ phase # "writing" /\ UNCHANGED <<writer, file, torn>>
    BY <1>2, <1>3, <1>4
  <2>3. QED
    BY <2>1, <2>2, CopyMoves, ReaderKeeps
<1>6. Place' = Place + Taken /\ Data' = Data
  <2>1. Place' = PlaceOf(chunk', ptr') /\ Data' = Data
    BY <1>3 DEF Place, PlaceOf, Data
  <2>2. QED
    BY <2>1, CopyMoves
<1>7. InCall'
  <2>1. CASE GoesOn
    <3>1. /\ op' = op /\ buffer' = CopiedTo /\ length' = length
          /\ left' = left - Taken
      BY <1>3, <2>1
    <3>2. length - left <= Place
      BY <1>1, <1>2 DEF InCall
    <3>3. /\ length - (left - Taken) <= Place + Taken
          /\ (Place + Taken) - (length - (left - Taken)) = Place - (length - left)
      BY <1>2, <1>4, <3>2
    <3>4. length' - left' <= Place'
      BY <1>6, <3>1, <3>3
    <3>5. op' = "skip" => buffer' = << >>
      BY <1>2, <3>1
    <3>6. op' = "read" => buffer' = SubSeq(Data', Place' - (length' - left') + 1, Place')
      BY <1>2, <1>6, <3>1, <3>3
    <3>7. op' # "idle"
      BY <1>2, <3>1
    <3>8. QED
      BY <3>4, <3>5, <3>6, <3>7 DEF InCall
  <2>2. CASE ~GoesOn
    BY <1>3, <2>2 DEF InCall
  <2>3. QED
    BY <2>1, <2>2
<1>8. Marked'
  BY <1>1, <1>3, MarksKept
<1>9. QED
  BY <1>5, <1>7, <1>8 DEF Agreement

LEMMA StutterKeeps ==
  ASSUME Agreement, UNCHANGED vars
  PROVE  Agreement'
<1>1. /\ UNCHANGED <<phase, written, out, synced, file, torn, chunk, cache, ptr, eof>>
      /\ UNCHANGED <<op, length, left, buffer, result, marks>>
  BY DEF vars, writer, reader, call
<1>2. Types'
  BY <1>1 DEF Agreement, Types, Nowhere
<1>3. Unread' /\ Chunks'
  BY <1>1 DEF Agreement, Unread, Chunks
<1>4. Cached'
  BY <1>1 DEF Agreement, Cached, Free, Nowhere, Ends, PastEnd
<1>5. InCall'
  BY <1>1 DEF Agreement, InCall, Place, PlaceOf, Data
<1>6. Marked'
  BY <1>1, MarksKept DEF Agreement
<1>7. QED
  BY <1>2, <1>3, <1>4, <1>5, <1>6 DEF Agreement

LEMMA NextKeeps == Agreement /\ [Next]_vars => Agreement'
<1> SUFFICES ASSUME Agreement, [Next]_vars PROVE Agreement'
  OBVIOUS
<1>1. ASSUME NEW n \in 1..MaxLength, Write(n) PROVE Agreement'
  BY <1>1, WriteKeeps
<1>2. CASE Flush \/ Close
  BY <1>2, FlushKeeps
<1>3. CASE Crash
  BY <1>3, CrashKeeps
<1>4. CASE Open
  BY <1>4, OpenKeeps
<1>5. ASSUME NEW n \in 0..MaxLength, Begin("read", n) \/ Begin("skip", n)
      PROVE  Agreement'
  BY <1>5, BeginKeeps
<1>6. CASE Copy
  BY <1>6, CopyKeeps
<1>7. CASE Mark
  BY <1>7, MarkKeeps
<1>8. CASE Seek
  BY <1>8, SeekKeeps
<1>9. CASE UNCHANGED vars
  BY <1>9, StutterKeeps
<1>10. QED
  BY <1>1, <1>2, <1>3, <1>4, <1>5, <1>6, <1>7, <1>8, <1>9 DEF Next

LEMMA AgreementHolds == Spec => []Agreement
<1>1. Init => Agreement
  BY InitAgrees
<1>2. Agreement /\ [Next]_vars => Agreement'
  BY NextKeeps
<1>3. QED
  BY <1>1, <1>2, PTL DEF Spec

(* The chunks of the file, the reader's cache and place, the call in       *)
(* progress and the offsets taken agree at all times; TypeOK, the asserts  *)
(* of the code, is part of this.                                           *)
THEOREM StreamInvariant == Spec => []StreamInv
<1>1. Agreement => StreamInv
  <2>1. SUFFICES ASSUME Agreement PROVE TypeOK
    BY DEF StreamInv, Agreement
  <2>2. \A i \in DOMAIN marks : marks[i].offset.chunk \in 1..Nowhere
    <3>1. SUFFICES ASSUME NEW i \in DOMAIN marks
                   PROVE  marks[i].offset.chunk \in 1..Nowhere
      OBVIOUS
    <3>2. marks \in Seq([offset : Offset, at : Nat]) /\ Len(file) \in Nat
      BY <2>1, DataTypes DEF Agreement, Types
    <3>3. i \in 1..Len(marks)
      BY <3>2, LenProperties
    <3>4. marks[i] \in [offset : Offset, at : Nat]
      BY <3>2, <3>3, ElementOfSeq
    <3>5. marks[i].offset.chunk \in Nat \ {0}
      BY <3>4 DEF Offset
    <3>6. marks[i].offset.chunk <= Nowhere
      BY <2>1 DEF Agreement, Marked
    <3>7. QED
      BY <3>2, <3>5, <3>6 DEF Nowhere
  <2>3. QED
    BY <2>1, <2>2 DEF Agreement, Types, TypeOK
<1>2. QED
  BY <1>1, AgreementHolds, PTL

-----------------------------------------------------------------------------
(* Offsets of the reader are ordered as the places they were taken at,     *)
(* wherever chunks begin: what Parser asks of operators < and >= of        *)
(* File::Offset.                                                           *)
THEOREM OffsetsOrderedHolds == Spec => []OffsetsOrdered
<1>1. Agreement => OffsetsOrdered
  <2>1. SUFFICES ASSUME Agreement, NEW i \in DOMAIN marks, NEW j \in DOMAIN marks,
                        ~Before(marks[i].offset, marks[j].offset)
                 PROVE  ~(marks[i].at < marks[j].at)
    BY DEF OffsetsOrdered
  <2>2. Types /\ Marked /\ Len(file) \in Nat /\ Len(Data) \in Nat
        /\ marks \in Seq([offset : Offset, at : Nat])
    BY <2>1, DataTypes DEF Agreement, Types
  <2>3. i \in 1..Len(marks) /\ j \in 1..Len(marks)
    BY <2>2, LenProperties
  <2>4. marks[i] \in [offset : Offset, at : Nat] /\ marks[j] \in [offset : Offset, at : Nat]
    BY <2>2, <2>3, ElementOfSeq
  <2> DEFINE a == marks[i].offset.chunk
             k == marks[i].offset.in
             b == marks[j].offset.chunk
             l == marks[j].offset.in
  <2>5. a \in Nat \ {0} /\ b \in Nat \ {0} /\ k \in Nat /\ l \in Nat
    BY <2>4 DEF Offset
  <2>6. /\ marks[i].at = PlaceOf(a, k) /\ marks[j].at = PlaceOf(b, l)
        /\ b <= Len(file) => l <= Len(file[b])
        /\ b > Len(file) => l = 0
    BY <2>2 DEF Marked
  <2>7. ~(a < b) /\ (a = b => ~(k < l))
    BY <2>1 DEF Before
  <2> HIDE DEF a, b, k, l
  <2>8. /\ PlaceOf(a, k) = PlaceOf(a, 0) + k /\ PlaceOf(a, 0) \in Nat
        /\ PlaceOf(b, l) = PlaceOf(b, 0) + l /\ PlaceOf(b, 0) \in Nat
    <3>1. PlaceOf(a, k) = PlaceOf(a, 0) + k /\ PlaceOf(a, 0) \in 0..Len(Data)
      BY <2>2, <2>5, PlaceInChunk
    <3>2. PlaceOf(b, l) = PlaceOf(b, 0) + l /\ PlaceOf(b, 0) \in 0..Len(Data)
      BY <2>2, <2>5, PlaceInChunk
    <3>3. QED
      BY <2>2, <3>1, <3>2
  <2>9. CASE a = b
    BY <2>5, <2>6, <2>7, <2>8, <2>9
  <2>10. CASE a # b
    <3>1. b + 1 <= a /\ b + 1 \in Nat \ {0}
      BY <2>5, <2>7, <2>10
    <3>2. CASE b <= Len(file)
      <4>1. PlaceOf(b + 1, 0) = PlaceOf(b, 0) + Len(file[b]) /\ Len(file[b]) \in Nat
        <5>1. b \in 1..Len(file)
          BY <2>2, <2>5, <3>2
        <5>2. QED
          BY <2>2, <5>1, PlaceNext, ChunkTypes
      <4>2. PlaceOf(b + 1, 0) <= PlaceOf(a, 0)
        BY <2>2, <2>5, <3>1, PlacesOrdered
      <4>3. QED
        BY <2>5, <2>6, <2>8, <3>2, <4>1, <4>2
    <3>3. CASE b > Len(file)
      <4>1. PlaceOf(b, 0) <= PlaceOf(a, 0)
        <5>1. b <= a
          BY <2>5, <3>1
        <5>2. QED
          BY <2>2, <2>5, <5>1, PlacesOrdered
      <4>2. QED
        BY <2>5, <2>6, <2>8, <3>3, <4>1
    <3>4. QED
      BY <2>2, <2>5, <3>2, <3>3
  <2>11. QED
    BY <2>9, <2>10
<1>2. QED
  BY <1>1, AgreementHolds, PTL

-----------------------------------------------------------------------------
(* A step that ends a call of the reader is a turn of its loops.           *)
LEMMA EndsByCopy ==
  ASSUME Agreement, Next, op # "idle", op' = "idle"
  PROVE  Copy
<1>1. phase # "writing" /\ phase # "written"
  BY DEF Agreement, Unread
<1>2. ASSUME NEW n \in 1..MaxLength, Write(n) PROVE FALSE
  BY <1>1, <1>2 DEF Write
<1>3. ~Flush /\ ~Close /\ ~Crash /\ ~Open
  BY <1>1 DEF Flush, Close, Crash, Open
<1>4. ASSUME NEW n \in 0..MaxLength, Begin("read", n) \/ Begin("skip", n)
      PROVE  FALSE
  BY <1>4 DEF Begin
<1>5. ~Mark /\ ~Seek
  BY DEF Mark, Seek
<1>6. QED
  BY <1>2, <1>3, <1>4, <1>5 DEF Next

LEMMA CopyGoesFar ==
  ASSUME Agreement, Copy, op' = "idle"
  PROVE  Place' = Smaller(Place + left, Len(Data))
<1>1. /\ Taken \in 0..Free /\ left - Taken \in Nat /\ Place \in Nat
      /\ (~More => Taken = left) /\ (More => Taken = Free /\ left > Free)
      /\ Place + Taken <= Len(Data) /\ op # "idle" /\ file' = file
  BY CopyReads, CopyUnfolded
<1>2. Free \in Nat /\ left \in Nat /\ Len(Data) \in Nat
  BY CopyReads, ReaderFacts, DataTypes DEF Agreement, Types
<1>3. Place' = Place + Taken
  <2>1. Place' = PlaceOf(chunk', ptr')
    BY <1>1 DEF Place, PlaceOf
  <2>2. QED
    BY <2>1, CopyMoves
<1>4. CASE ~More
  BY <1>1, <1>2, <1>3, <1>4 DEF Smaller
<1>5. CASE More
  <2>1. cache' = << >>
    BY <1>1, <1>5, CopyUnfolded DEF GoesOn
  <2>2. Place + Taken = Len(Data)
    BY <1>5, <2>1, CopyMoves
  <2>3. QED
    BY <1>1, <1>2, <1>3, <1>5, <2>2 DEF Smaller
<1>6. QED
  BY <1>4, <1>5

(* A read or skip that returns has got as far as it was asked to or to the *)
(* end of the data, and a reader refuses a call only there.                *)
THEOREM GoesAsFarHolds == Spec => GoesAsFarAsAsked
<1> DEFINE Far == /\ op # "idle" /\ op' = "idle" =>
                        Place' = Smaller(Place + left, Len(Data))
                  /\ phase = "reading" /\ EndOfData => Place = Len(Data)
<1>1. Agreement /\ [Next]_vars => [Far]_vars
  <2>1. SUFFICES ASSUME Agreement, Next PROVE Far
    OBVIOUS
  <2>2. ASSUME op # "idle", op' = "idle"
        PROVE  Place' = Smaller(Place + left, Len(Data))
    BY <2>1, <2>2, EndsByCopy, CopyGoesFar
  <2>3. ASSUME phase = "reading", EndOfData PROVE Place = Len(Data)
    <3>1. eof /\ Free = 0 /\ Place \in Nat /\ (eof => Place + Free = Len(Data))
      BY <2>1, <2>3, ReaderFacts DEF Agreement, EndOfData
    <3>2. QED
      BY <3>1
  <2>4. QED
    BY <2>2, <2>3
<1>2. Spec => [][Far]_vars
  <2> HIDE DEF Far
  <2>1. QED
    BY <1>1, AgreementHolds, PTL DEF Spec
<1>3. QED
  BY <1>2 DEF GoesAsFarAsAsked

-----------------------------------------------------------------------------
(* The refinement of PlainFile, action by action.                          *)

PlainData == Data \o out
PlainSafe == Len(FlattenSeq(SubSeq(file, 1, synced)))
PlainPos == Place - (length - left)
PlainMarks == [i \in DOMAIN marks |-> marks[i].at]

LEMMA PlainTypes ==
  ASSUME Types
  PROVE  PlainData \in Seq(Nat) /\ Len(PlainData) \in Nat
         /\ (out = << >> => PlainData = Data)
<1>1. Data \in Seq(Nat) /\ out \in Seq(Nat)
  BY DataTypes DEF Types
<1>2. PlainData \in Seq(Nat)
  BY <1>1, ConcatProperties DEF PlainData
<1>3. QED
  BY <1>1, <1>2, ConcatEmptySeq, LenProperties DEF PlainData

LEMMA PrefixOfConcat ==
  ASSUME NEW B, NEW s \in Seq(B), NEW t \in Seq(B)
  PROVE  IsPrefix(s, s \o t)
  BY DEF IsPrefix

(* The reader stays at the first place while the file is written.          *)
LEMMA PlainUnread ==
  ASSUME Agreement, Agreement', phase = "writing", phase' \in {"writing", "written"}
  PROVE  PlainPos' = PlainPos /\ result' = result /\ PlainMarks' = PlainMarks
<1>1. /\ chunk = 1 /\ ptr = 0 /\ op = "idle" /\ result = << >> /\ marks = << >>
      /\ chunk' = 1 /\ ptr' = 0 /\ op' = "idle" /\ result' = << >> /\ marks' = << >>
  BY DEF Agreement, Unread
<1>2. length = 0 /\ left = 0 /\ length' = 0 /\ left' = 0
  BY <1>1 DEF Agreement, InCall
<1>3. Types => Place = 0
  BY <1>1, PlaceFirst DEF Place
<1>4. Types' => Place' = 0
  <2>1. SUFFICES ASSUME Types' PROVE Place' = 0
    OBVIOUS
  <2>2. /\ Len(file') \in Nat /\ SubSeq(file', 1, 0) = << >>
    BY <2>1 DEF Types
  <2>3. Place' = Len(FlattenSeq(SubSeq(file', 1, Smaller(1 - 1, Len(file'))))) + 0
    BY <1>1 DEF Place, PlaceOf
  <2>4. Smaller(1 - 1, Len(file')) = 0
    BY <2>2 DEF Smaller
  <2>5. SubSeq(file', 1, Smaller(1 - 1, Len(file'))) = << >>
    BY <2>2, <2>4
  <2>6. Len(FlattenSeq(<< >>)) = 0
    BY FlattenEmpty, EmptySeq
  <2>7. Len(FlattenSeq(SubSeq(file', 1, Smaller(1 - 1, Len(file'))))) = 0
    BY <2>5, <2>6, Zenon
  <2>8. QED
    BY <2>3, <2>7
<1>5. QED
  BY <1>1, <1>2, <1>3, <1>4 DEF PlainPos, PlainMarks, Agreement

LEMMA WriteRefines ==
  ASSUME Agreement, Agreement', NEW n \in 1..MaxLength, Write(n)
  PROVE  /\ IsPrefix(PlainData, PlainData') /\ PlainSafe' = PlainSafe
         /\ phase = "writing" /\ phase' = "writing"
<1>1. Types /\ Chunks /\ Types'
  BY DEF Agreement
<1>2. PICK g \in Seq(Seq(Nat)) :
        /\ file' = file \o g /\ \A i \in 1..Len(g) : g[i] # << >>
        /\ out' \in Seq(Nat)
        /\ FlattenSeq(g) \o out' = out \o [i \in 1..n |-> written + i]
  BY <1>1, WriteEffect
<1> DEFINE new == [i \in 1..n |-> written + i]
           f == FlattenSeq(g)
<1>3. new \in Seq(Nat) /\ out \in Seq(Nat) /\ Data \in Seq(Nat) /\ f \in Seq(Nat)
  <2>1. n \in Nat /\ written \in Nat
    BY <1>1 DEF Types
  <2>2. new \in Seq(Nat)
    BY <2>1
  <2>3. QED
    BY <1>1, <2>2, DataTypes, FlattenTypes DEF Types
<1>4. f \o out' = out \o new
  BY <1>2
<1>5. /\ FlattenSeq(file \o g) = Data \o f
      /\ \A k \in 0..Len(file) : SubSeq(file \o g, 1, k) = SubSeq(file, 1, k)
  BY <1>1, <1>2, GrownFile
<1> HIDE DEF f, new
<1>6. PlainData' = (Data \o f) \o out'
  BY <1>2, <1>5 DEF PlainData, Data
<1>7. (Data \o f) \o out' = (Data \o out) \o new
  <2>0. \A s, t, u \in Seq(Nat) : (s \o t) \o u = s \o (t \o u)
    BY ConcatAssociative, SMTT(30)
  <2>1. (Data \o f) \o out' = Data \o (f \o out')
    BY <1>2, <1>3, <2>0, ZenonT(30)
  <2>2. (Data \o out) \o new = Data \o (out \o new)
    BY <1>3, <2>0, ZenonT(30)
  <2>3. QED
    BY <1>4, <2>1, <2>2
<1>8. IsPrefix(Data \o out, (Data \o out) \o new)
  BY <1>1, <1>3, PlainTypes, PrefixOfConcat DEF PlainData
<1>9. phase = "writing" /\ phase' = "writing" /\ synced' = synced
  BY DEF Write
<1>10. PlainSafe' = PlainSafe
  <2>1. synced \in 0..Len(file)
    BY <1>1 DEF Types
  <2>2. SubSeq(file', 1, synced') = SubSeq(file, 1, synced)
    BY <1>2, <1>5, <1>9, <2>1
  <2>3. QED
    BY <2>2 DEF PlainSafe
<1>11. QED
  BY <1>6, <1>7, <1>8, <1>9, <1>10 DEF PlainData

LEMMA FlushRefines ==
  ASSUME Agreement, Agreement', Flush \/ Close
  PROVE  /\ PlainData' = PlainData
         /\ Flush => PlainSafe' = Len(PlainData) /\ phase = "writing" /\ phase' = "writing"
         /\ Close => PlainSafe' = PlainSafe /\ phase = "writing" /\ phase' = "written"
<1>1. Types /\ Types'
  BY DEF Agreement
<1>2. /\ file' = WithChunk(file, out) /\ out' = << >> /\ phase = "writing"
      /\ Flush => synced' = Len(file') /\ phase' = "writing"
      /\ Close => synced' = synced /\ phase' = "written"
  BY DEF Flush, Close, writer
<1>3. PICK g \in Seq(Seq(Nat)) :
        /\ file' = file \o g /\ \A i \in 1..Len(g) : g[i] # << >>
        /\ FlattenSeq(g) = out
  BY <1>1, <1>2, ChunkEffect
<1>4. /\ FlattenSeq(file \o g) = Data \o FlattenSeq(g)
      /\ \A k \in 0..Len(file) : SubSeq(file \o g, 1, k) = SubSeq(file, 1, k)
  BY <1>1, <1>3, GrownFile
<1>5. Data' = PlainData
  BY <1>3, <1>4 DEF Data, PlainData
<1>6. PlainData' = Data'
  BY <1>1, <1>2, <1>5, PlainTypes, ConcatEmptySeq DEF PlainData
<1>7. Flush => PlainSafe' = Len(PlainData)
  <2>1. SubSeq(file', 1, Len(file')) = file'
    BY <1>1 DEF Types
  <2>2. QED
    BY <1>2, <1>5, <2>1 DEF PlainSafe, Data
<1>8. Close => PlainSafe' = PlainSafe
  <2>1. synced \in 0..Len(file)
    BY <1>1 DEF Types
  <2>2. QED
    BY <1>2, <1>3, <1>4, <2>1 DEF PlainSafe
<1>9. QED
  BY <1>2, <1>5, <1>6, <1>7, <1>8

LEMMA CrashRefines ==
  ASSUME Agreement, Agreement', Crash
  PROVE  /\ \E kept \in PlainSafe..Len(PlainData) :
              PlainData' = SubSeq(PlainData, 1, kept)
         /\ PlainSafe' = PlainSafe /\ phase = "writing" /\ phase' = "written"
<1>1. Types /\ Chunks /\ Types'
  BY DEF Agreement
<1>2. phase = "writing" /\ phase' = "written" /\ out' = << >> /\ synced' = synced
  BY DEF Crash
<1>3. /\ SubSeq(file', 1, synced) = SubSeq(file, 1, synced)
      /\ Len(Data') \in PlainSafe..Len(Data)
      /\ Data' = SubSeq(Data, 1, Len(Data'))
  BY <1>1, CrashEffect DEF PlainSafe, Data
<1>4. PlainData' = Data'
  <2>1. Data' \in Seq(Nat)
    BY <1>1, FlattenTypes DEF Types, Data
  <2>2. QED
    BY <1>2, <2>1, ConcatEmptySeq DEF PlainData
<1>5. Data \in Seq(Nat) /\ out \in Seq(Nat) /\ PlainSafe \in Nat
  <2>1. synced \in 0..Len(file) /\ file \in Seq(Seq(Nat))
    BY <1>1 DEF Types
  <2>2. FlattenSeq(SubSeq(file, 1, synced)) \in Seq(Nat)
    BY <2>1, FlattenFront
  <2>3. QED
    BY <1>1, <2>2, DataTypes DEF Types, PlainSafe
<1> DEFINE k == Len(Data')
<1>6. k \in PlainSafe..Len(Data) /\ Data' = SubSeq(Data, 1, k)
  BY <1>3
<1> HIDE DEF k
<1>7. k \in PlainSafe..Len(Data \o out) /\ SubSeq(Data \o out, 1, k) = SubSeq(Data, 1, k)
  BY <1>5, <1>6
<1>8. QED
  BY <1>2, <1>3, <1>4, <1>6, <1>7 DEF PlainData, PlainSafe

LEMMA OpenRefines ==
  ASSUME Agreement, Agreement', Open
  PROVE  /\ PlainData' = PlainData /\ PlainSafe' = PlainSafe
         /\ phase # "writing" /\ phase' # "writing"
         /\ PlainPos' = PlainPos /\ result' = result /\ PlainMarks' = PlainMarks
<1>1. /\ phase = "written" /\ phase' = "reading" /\ chunk' = 1 /\ ptr' = 0
      /\ UNCHANGED <<file, out, synced, length, left, result, marks>>
  BY DEF Open, FlushReadCache, writer, call
<1>2. chunk = 1 /\ ptr = 0
  BY <1>1 DEF Agreement, Unread
<1>3. Place' = Place
  BY <1>1, <1>2 DEF Place, PlaceOf
<1>4. QED
  BY <1>1, <1>3 DEF PlainData, PlainSafe, PlainPos, PlainMarks, Data

LEMMA BeginRefines ==
  ASSUME Agreement, NEW kind \in {"read", "skip"}, NEW n \in 0..MaxLength,
         Begin(kind, n)
  PROVE  /\ PlainData' = PlainData /\ PlainSafe' = PlainSafe
         /\ phase # "writing" /\ phase' # "writing"
         /\ PlainPos' = PlainPos /\ PlainMarks' = PlainMarks
         /\ result' = result \/ result' = << >>
<1>1. /\ phase = "reading" /\ phase' = "reading" /\ op = "idle"
      /\ UNCHANGED <<file, out, synced, marks, chunk, ptr>>
      /\ \/ UNCHANGED <<length, left>> /\ (result' = result \/ result' = << >>)
         \/ length' = n /\ left' = n /\ result' = result
  BY DEF Begin, writer, reader
<1>2. length = 0 /\ left = 0 /\ n - n = 0 /\ 0 - 0 = 0
  BY <1>1 DEF Agreement, InCall
<1>3. length' - left' = length - left
  BY <1>1, <1>2
<1>4. Place' = Place
  BY <1>1 DEF Place, PlaceOf
<1>5. QED
  BY <1>1, <1>3, <1>4 DEF PlainData, PlainSafe, PlainPos, PlainMarks, Data

LEMMA CopyRefines ==
  ASSUME Agreement, Agreement', Copy
  PROVE  /\ PlainData' = PlainData /\ PlainSafe' = PlainSafe
         /\ phase # "writing" /\ phase' # "writing" /\ PlainMarks' = PlainMarks
         /\ \/ PlainPos' = PlainPos /\ result' = result
            \/ /\ PlainPos' \in PlainPos..Len(PlainData)
               /\ \/ result' = result
                  \/ result' = SubSeq(PlainData, PlainPos + 1, PlainPos')
<1>1. /\ phase = "reading" /\ op \in {"read", "skip"}
      /\ Taken \in 0..Free /\ left - Taken \in Nat /\ Place \in Nat
      /\ Place + Taken <= Len(Data)
      /\ op = "read" => CopiedTo = SubSeq(Data, PlainPos + 1, Place + Taken)
  BY CopyReads DEF PlainPos
<1>2. /\ UNCHANGED <<phase, file, out, synced, marks>>
      /\ GoesOn => /\ length' = length /\ left' = left - Taken /\ result' = result
      /\ ~GoesOn => /\ length' = 0 /\ left' = 0
                    /\ result' = IF op = "read" THEN CopiedTo ELSE result
  BY CopyUnfolded DEF writer
<1>3. Place' = Place + Taken
  <2>1. Place' = PlaceOf(chunk', ptr')
    BY <1>2 DEF Place, PlaceOf
  <2>2. QED
    BY <2>1, CopyMoves
<1>4. /\ Types /\ out = << >> /\ length \in Nat /\ left \in Nat /\ left <= length
      /\ Free \in Nat /\ Taken \in Nat
  <2>1. Free \in Nat
    BY <1>1, ReaderFacts DEF Agreement
  <2>2. out = << >> /\ Types
    BY <1>1 DEF Agreement, Chunks
  <2>3. length \in Nat /\ left \in Nat /\ left <= length
    BY <2>2 DEF Types
  <2>4. QED
    BY <1>1, <2>1, <2>2, <2>3
<1>5. PlainData = Data /\ Len(Data) \in Nat
  BY <1>4, PlainTypes, DataTypes
<1>6. PlainData' = PlainData /\ PlainSafe' = PlainSafe /\ PlainMarks' = PlainMarks
  BY <1>2 DEF PlainData, PlainSafe, PlainMarks, Data
<1>7. CASE GoesOn
  <2>1. PlainPos' = (Place + Taken) - (length - (left - Taken))
    BY <1>2, <1>3, <1>7 DEF PlainPos
  <2>2. PlainPos' = PlainPos
    BY <1>1, <1>4, <2>1 DEF PlainPos
  <2>3. QED
    BY <1>1, <1>2, <1>6, <1>7, <2>2
<1>8. CASE ~GoesOn
  <2>1. PlainPos' = Place + Taken
    <3>1. PlainPos' = (Place + Taken) - (0 - 0)
      BY <1>2, <1>3, <1>8 DEF PlainPos
    <3>2. QED
      BY <1>1, <1>4, <3>1
  <2>2. length - left <= Place
    BY <1>1 DEF Agreement, InCall
  <2>3. PlainPos \in Nat /\ PlainPos <= Place
    BY <1>1, <1>4, <2>2 DEF PlainPos
  <2>4. PlainPos' \in PlainPos..Len(PlainData)
    BY <1>1, <1>4, <1>5, <2>1, <2>3
  <2>5. \/ result' = result
        \/ result' = SubSeq(PlainData, PlainPos + 1, PlainPos')
    BY <1>1, <1>2, <1>5, <1>8, <2>1
  <2>6. QED
    BY <1>1, <1>2, <1>6, <2>4, <2>5
<1>9. QED
  BY <1>7, <1>8

LEMMA MarkTypes ==
  ASSUME NEW s \in Seq([offset : Offset, at : Nat])
  PROVE  /\ DOMAIN s = 1..Len(s) /\ Len(s) \in Nat
         /\ \A i \in 1..Len(s) : s[i].at \in Nat
<1>1. \A i \in 1..Len(s) : s[i] \in [offset : Offset, at : Nat]
  BY ElementOfSeq
<1>2. QED
  BY <1>1, LenProperties

LEMMA MarkRefines ==
  ASSUME Agreement, Agreement', Mark
  PROVE  /\ PlainData' = PlainData /\ PlainSafe' = PlainSafe
         /\ phase # "writing" /\ phase' # "writing"
         /\ PlainPos' = PlainPos /\ result' = result
         /\ PlainMarks' = Append(PlainMarks, PlainPos)
<1> DEFINE m == [offset |-> CurrentOffset, at |-> Place]
<1>1. /\ phase = "reading" /\ phase' = "reading" /\ op = "idle"
      /\ UNCHANGED <<file, out, synced, chunk, ptr, length, left, result>>
      /\ marks' = Append(marks, m)
  BY DEF Mark, writer, reader, call
<1>2. length - left = 0 /\ Place \in Nat
  <2>1. length = 0 /\ left = 0 /\ Place \in Nat
    BY <1>1, ReaderFacts DEF Agreement, InCall
  <2>2. QED
    BY <2>1
<1>3. PlainPos = Place
  BY <1>2 DEF PlainPos
<1>4. marks \in Seq([offset : Offset, at : Nat])
      /\ marks' \in Seq([offset : Offset, at : Nat])
  BY DEF Agreement, Types
<1>5. PlainMarks \in Seq(Nat) /\ Len(PlainMarks) = Len(marks)
      /\ \A i \in 1..Len(marks) : PlainMarks[i] = marks[i].at
  <2>1. DOMAIN marks = 1..Len(marks) /\ Len(marks) \in Nat
        /\ \A i \in 1..Len(marks) : marks[i].at \in Nat
    BY <1>4, MarkTypes
  <2>2. PlainMarks = [i \in 1..Len(marks) |-> marks[i].at]
    BY <2>1 DEF PlainMarks
  <2>3. QED
    BY <2>1, <2>2
<1>6. m.at = PlainPos
  BY <1>3
<1> HIDE DEF m
<1>7. /\ Len(marks') = Len(marks) + 1 /\ marks'[Len(marks) + 1] = m
      /\ \A i \in 1..Len(marks) : marks'[i] = marks[i]
      /\ DOMAIN marks' = 1..(Len(marks) + 1) /\ Len(marks) \in Nat
  BY <1>1, <1>4
<1>8. PlainMarks' = [i \in 1..(Len(marks) + 1) |-> marks'[i].at]
  BY <1>7 DEF PlainMarks
<1>9. PlainMarks' = Append(PlainMarks, PlainPos)
  <2> DEFINE f == [i \in 1..(Len(marks) + 1) |-> marks'[i].at]
             n == Len(marks)
  <2>1. \A i \in 1..n : f[i] = PlainMarks[i]
    BY <1>5, <1>7
  <2>2. f[n + 1] = PlainPos
    BY <1>6, <1>7
  <2>3. f \in Seq(Nat) /\ Len(f) = n + 1
    <3>1. PlainPos \in Nat /\ n \in Nat
      BY <1>2, <1>3, <1>7
    <3>2. \A i \in 1..(n + 1) : marks'[i].at \in Nat
      BY <1>4, <1>7, MarkTypes
    <3>3. QED
      BY <3>1, <3>2
  <2>4. Append(PlainMarks, PlainPos) \in Seq(Nat)
        /\ Len(Append(PlainMarks, PlainPos)) = n + 1
        /\ \A i \in 1..n : Append(PlainMarks, PlainPos)[i] = PlainMarks[i]
        /\ Append(PlainMarks, PlainPos)[n + 1] = PlainPos
    BY <1>2, <1>3, <1>5, AppendProperties
  <2> HIDE DEF f
  <2>5. \A i \in 1..(n + 1) : f[i] = Append(PlainMarks, PlainPos)[i]
    <3>1. \A i \in 1..(n + 1) : i \in 1..n \/ i = n + 1
      BY <1>7
    <3>2. QED
      BY <2>1, <2>2, <2>4, <3>1
  <2>6. f = Append(PlainMarks, PlainPos)
    BY <2>3, <2>4, <2>5, SeqEqual
  <2>7. QED
    BY <1>8, <2>6 DEF f
<1>10. Place' = Place
  BY <1>1 DEF Place, PlaceOf
<1>11. QED
  BY <1>1, <1>9, <1>10 DEF PlainData, PlainSafe, PlainPos, Data

LEMMA SeekRefines ==
  ASSUME Agreement, Agreement', Seek
  PROVE  /\ PlainData' = PlainData /\ PlainSafe' = PlainSafe
         /\ phase # "writing" /\ phase' # "writing"
         /\ result' = result /\ PlainMarks' = PlainMarks
         /\ \E i \in DOMAIN PlainMarks : PlainPos' = PlainMarks[i]
<1>1. /\ phase = "reading" /\ phase' = "reading" /\ op = "idle"
      /\ UNCHANGED <<file, out, synced, length, left, result, marks>>
  BY DEF Seek, writer, call
<1>2. PICK i \in DOMAIN marks :
        /\ chunk' = marks[i].offset.chunk /\ ptr' = marks[i].offset.in
  BY DEF Seek, FlushReadCache
<1>3. marks[i].at = PlaceOf(marks[i].offset.chunk, marks[i].offset.in)
  BY DEF Agreement, Marked
<1>4. Place' = marks[i].at
  BY <1>1, <1>2, <1>3 DEF Place, PlaceOf
<1>5. length' = 0 /\ left' = 0 /\ marks[i].at \in Nat
  <2>1. marks \in Seq([offset : Offset, at : Nat])
    BY DEF Agreement, Types
  <2>2. i \in 1..Len(marks)
    BY <2>1, LenProperties
  <2>3. marks[i] \in [offset : Offset, at : Nat]
    BY <2>1, <2>2, ElementOfSeq
  <2>4. QED
    BY <1>1, <2>3 DEF Agreement, InCall
<1>6. PlainPos' = marks[i].at
  BY <1>4, <1>5 DEF PlainPos
<1>7. DOMAIN PlainMarks = DOMAIN marks /\ PlainMarks[i] = marks[i].at
  BY DEF PlainMarks
<1>8. QED
  BY <1>1, <1>6, <1>7 DEF PlainData, PlainSafe, PlainMarks, Data

LEMMA StutterRefines ==
  ASSUME UNCHANGED vars
  PROVE  UNCHANGED <<PlainData, PlainSafe, phase = "writing", PlainPos, result, PlainMarks>>
  BY DEF vars, writer, reader, call, PlainData, PlainSafe, PlainPos, PlainMarks,
         Data, Place, PlaceOf

LEMMA NextRefines ==
  ASSUME Agreement, Agreement', [Next]_vars
  PROVE  [Plain!Next]_(Plain!vars)
<1> DEFINE w == phase = "writing"
           unchanged == UNCHANGED <<PlainData, PlainSafe, w, PlainPos, result, PlainMarks>>
<1>0. /\ Plain!Next \/ unchanged => [Plain!Next]_(Plain!vars)
  BY DEF Plain!vars, PlainData, PlainSafe, PlainPos, PlainMarks
<1>1. ASSUME NEW n \in 1..MaxLength, Write(n) PROVE Plain!Next
  <2>a. /\ IsPrefix(PlainData, PlainData') /\ PlainSafe' = PlainSafe
        /\ phase = "writing" /\ phase' = "writing"
    BY <1>1, WriteRefines
  <2>b. PlainPos' = PlainPos /\ result' = result /\ PlainMarks' = PlainMarks
    BY <2>a, PlainUnread
  <2>1. Plain!Write
    <3>1. Plain!IsPrefix(Data \o out, (Data \o out)')
      BY <2>a, Zenon DEF PlainData, IsPrefix, Plain!IsPrefix
    <3>2. (phase = "writing") /\ (phase = "writing")' = (phase = "writing")
      BY <2>a
    <3>3. /\ PlainSafe' = PlainSafe /\ PlainPos' = PlainPos
          /\ PlainMarks' = PlainMarks /\ result' = result
      BY <2>a, <2>b
    <3>4. UNCHANGED <<Len(FlattenSeq(SubSeq(file, 1, synced))), phase = "writing",
                      Place - (length - left), result,
                      [i \in DOMAIN marks |-> marks[i].at]>>
      BY <3>2, <3>3 DEF PlainSafe, PlainPos, PlainMarks
    <3>5. QED
      BY <3>1, <3>2, <3>4, Zenon DEF Plain!Write
  <2>2. QED
    BY <2>1 DEF Plain!Next
<1>2. CASE Flush
  <2>1. Plain!Flush
    BY <1>2, FlushRefines, PlainUnread
       DEF Plain!Flush, PlainData, PlainSafe, PlainPos, PlainMarks
  <2>2. QED
    BY <2>1 DEF Plain!Next
<1>3. CASE Close
  <2>1. Plain!Close
    BY <1>3, FlushRefines, PlainUnread
       DEF Plain!Close, PlainData, PlainSafe, PlainPos, PlainMarks
  <2>2. QED
    BY <2>1 DEF Plain!Next
<1>4. CASE Crash
  <2>1. Plain!Crash
    BY <1>4, CrashRefines, PlainUnread
       DEF Plain!Crash, PlainData, PlainSafe, PlainPos, PlainMarks
  <2>2. QED
    BY <2>1 DEF Plain!Next
<1>5. ASSUME Open PROVE Plain!Next \/ unchanged
  <2>1. /\ PlainData' = PlainData /\ PlainSafe' = PlainSafe
        /\ ~w /\ ~w'
        /\ PlainPos' = PlainPos /\ result' = result /\ PlainMarks' = PlainMarks
    BY <1>5, OpenRefines
  <2>2. QED
    BY <2>1
<1>6. ASSUME NEW kind \in {"read", "skip"}, NEW n \in 0..MaxLength, Begin(kind, n)
      PROVE  Plain!Next \/ unchanged
  <2>1. /\ PlainData' = PlainData /\ PlainSafe' = PlainSafe /\ PlainMarks' = PlainMarks
        /\ ~w /\ ~w' /\ PlainPos' = PlainPos
        /\ result' = result \/ result' = << >>
    BY <1>6, BeginRefines
  <2>2. CASE result' = result
    BY <2>1, <2>2
  <2>3. CASE result' = << >>
    <3>1. PlainPos \in Nat /\ PlainPos <= Len(PlainData)
      <4>1. /\ Types /\ out = << >> /\ length = 0 /\ left = 0
            /\ Place \in Nat /\ Free \in Nat /\ Place + Free <= Len(Data)
        <5>1. phase = "reading" /\ op = "idle"
          BY <1>6 DEF Begin
        <5>2. QED
          BY <5>1, ReaderFacts DEF Agreement, InCall, Chunks
      <4>2. PlainPos = Place
        BY <4>1 DEF PlainPos
      <4>3. PlainData = Data /\ Len(Data) \in Nat
        BY <4>1, PlainTypes, DataTypes
      <4>4. QED
        BY <4>1, <4>2, <4>3
    <3>2. SubSeq(PlainData, PlainPos + 1, PlainPos) = << >>
      BY <3>1, SubSeqEmpty
    <3>3. Len(PlainData) \in Nat
      BY PlainTypes DEF Agreement
    <3>4. PlainPos' \in PlainPos..Len(PlainData)
      BY <2>1, <3>1, <3>3
    <3>5. result' = SubSeq(PlainData, PlainPos + 1, PlainPos')
      BY <2>1, <2>3, <3>2
    <3>6. Plain!Read
      BY <2>1, <3>4, <3>5
         DEF Plain!Read, PlainData, PlainSafe, PlainPos, PlainMarks
    <3>7. QED
      BY <3>6 DEF Plain!Next
  <2>4. QED
    BY <2>1, <2>2, <2>3
<1>7. ASSUME Copy PROVE Plain!Next \/ unchanged
  <2>1. /\ PlainData' = PlainData /\ PlainSafe' = PlainSafe /\ PlainMarks' = PlainMarks
        /\ ~w /\ ~w'
        /\ \/ PlainPos' = PlainPos /\ result' = result
           \/ /\ PlainPos' \in PlainPos..Len(PlainData)
              /\ \/ result' = result
                 \/ result' = SubSeq(PlainData, PlainPos + 1, PlainPos')
    BY <1>7, CopyRefines
  <2>2. CASE PlainPos' = PlainPos /\ result' = result
    <3>1. /\ PlainData' = PlainData /\ PlainSafe' = PlainSafe /\ PlainMarks' = PlainMarks
          /\ ~w /\ ~w' /\ PlainPos' = PlainPos /\ result' = result
      BY <2>1, <2>2
    <3>2. QED
      BY <3>1
  <2>3. CASE PlainPos' \in PlainPos..Len(PlainData) /\ result' = result
    <3>1. Plain!Skip
      BY <2>1, <2>3 DEF Plain!Skip, PlainData, PlainSafe, PlainPos, PlainMarks
    <3>2. QED
      BY <3>1 DEF Plain!Next
  <2>4. CASE /\ PlainPos' \in PlainPos..Len(PlainData)
             /\ result' = SubSeq(PlainData, PlainPos + 1, PlainPos')
    <3>1. Plain!Read
      BY <2>1, <2>4 DEF Plain!Read, PlainData, PlainSafe, PlainPos, PlainMarks
    <3>2. QED
      BY <3>1 DEF Plain!Next
  <2>5. QED
    BY <2>1, <2>2, <2>3, <2>4
<1>8. CASE Mark
  <2>1. Plain!Mark
    BY <1>8, MarkRefines DEF Plain!Mark, PlainData, PlainSafe, PlainPos, PlainMarks
  <2>2. QED
    BY <2>1 DEF Plain!Next
<1>9. CASE Seek
  <2>1. Plain!Seek
    BY <1>9, SeekRefines DEF Plain!Seek, PlainData, PlainSafe, PlainPos, PlainMarks
  <2>2. QED
    BY <2>1 DEF Plain!Next
<1>10. ASSUME UNCHANGED vars PROVE Plain!Next \/ unchanged
  <2>1. /\ PlainData' = PlainData /\ PlainSafe' = PlainSafe /\ PlainMarks' = PlainMarks
        /\ PlainPos' = PlainPos /\ result' = result /\ phase' = phase
    BY <1>10, StutterRefines DEF vars
  <2>2. w' = w
    BY <2>1
  <2>3. QED
    BY <2>1, <2>2
<1> HIDE DEF unchanged
<1>11. QED
  BY <1>0, <1>1, <1>2, <1>3, <1>4, <1>5, <1>6, <1>7, <1>8, <1>9, <1>10 DEF Next

LEMMA InitRefines ==
  Init => Plain!Init
<1> SUFFICES ASSUME Init PROVE Plain!Init
  OBVIOUS
<1>1. Agreement
  BY InitAgrees
<1>2. file = << >> /\ out = << >> /\ synced = 0 /\ phase = "writing"
      /\ chunk = 1 /\ ptr = 0 /\ length = 0 /\ left = 0 /\ result = << >>
      /\ marks = << >>
  BY DEF Init
<1>3. Data = << >> /\ << >> \o << >> = << >>
  BY <1>2, FlattenEmpty DEF Data
<1>4. PlainData = << >>
  BY <1>2, <1>3 DEF PlainData
<1>5. PlainSafe = 0
  <2>1. SubSeq(file, 1, synced) = << >>
    BY <1>2
  <2>2. QED
    BY <2>1, FlattenEmpty, EmptySeq DEF PlainSafe
<1>6. PlainPos = 0
  <2>1. Place = 0
    BY <1>1, <1>2, PlaceFirst DEF Place, Agreement
  <2>2. QED
    BY <1>2, <2>1 DEF PlainPos
<1>7. PlainMarks = << >>
  BY <1>2 DEF PlainMarks
<1>8. QED
  BY <1>2, <1>4, <1>5, <1>6, <1>7
     DEF Plain!Init, PlainData, PlainSafe, PlainPos, PlainMarks

(* Writer and reader together are a plain file, for every size of chunks:  *)
(* what is read is what was written, a program that dies leaves a          *)
(* beginning of it with all it had flushed, and offsets lead back to the   *)
(* places they were taken at.                                              *)
THEOREM PlainFileRefined == Spec => ImplementsPlainFile
<1>1. Init => Plain!Init
  BY InitRefines
<1>2. Agreement /\ Agreement' /\ [Next]_vars => [Plain!Next]_(Plain!vars)
  BY NextRefines
<1>3. QED
  BY <1>1, <1>2, AgreementHolds, PTL DEF Spec, ImplementsPlainFile, Plain!Spec
=============================================================================
