-------------------------- MODULE LocalWriterProofs --------------------------
(***************************************************************************)
(* Proofs about the local writer, for every set of threads and functions,  *)
(* every number of calls and signals and every size of the cache.  The     *)
(* layers of the invariant are kept one after the other, each under those  *)
(* that it needs; the theorems are at the end.                             *)
(***************************************************************************)
EXTENDS LocalWriterSteps

-----------------------------------------------------------------------------
(* Layer 1: the types.                                                     *)

(* What the control part of a step is.                                     *)
LEMMA GotoEffect ==
  ASSUME Types, NEW p \in Proc, NEW t \in Thread, NEW label \in Label, Goto(p, t, label)
  PROVE  /\ pc' \in [Proc -> [Thread -> Label]] /\ pc'[p][t] = label
         /\ \A q \in Proc, u \in Thread : q # p \/ u # t => pc'[q][u] = pc[q][u]
BY DEF Types, Goto

LEMMA GotoHandlerEffect ==
  ASSUME Types, NEW p \in Proc, NEW t \in Thread, NEW label \in HandlerLabel,
         GotoHandler(p, t, label)
  PROVE  /\ handler' \in [Proc -> [Thread -> HandlerLabel]] /\ handler'[p][t] = label
         /\ \A q \in Proc, u \in Thread : q # p \/ u # t => handler'[q][u] = handler[q][u]
BY DEF Types, GotoHandler

(* The steps of a handler that test or change recursion_count.             *)
LEMMA CountMoves ==
  ASSUME Types, NEW p \in Proc, NEW t \in Thread, CountSteps(p, t)
  PROVE  /\ handler[p][t] \in {"caught", "count", "counting", "flushed", "uncounting"}
         /\ handler'[p][t] =
              CASE handler[p][t] = "caught" ->
                     IF mem[p].recursion # 0 THEN "chain" ELSE "count"
                [] handler[p][t] = "count" -> "counting"
                [] handler[p][t] = "flushed" -> "uncounting"
                [] handler[p][t] = "counting" ->
                     IF mem[p].callback THEN "flush" ELSE "flushed"
                [] OTHER -> "chain"
         /\ \A q \in Proc, u \in Thread :
              q # p \/ u # t => handler'[q][u] = handler[q][u]
<1>1. \E label \in HandlerLabel : GotoHandler(p, t, label)
  BY DEF CountSteps, Catch, LoadCount, StoreCount, HandlerLabel, Passed
<1>2. \A q \in Proc, u \in Thread : q # p \/ u # t => handler'[q][u] = handler[q][u]
  BY <1>1, GotoHandlerEffect
<1>3. CASE Catch(p, t)
  BY <1>2, <1>3, GotoHandlerEffect DEF Catch, In, HandlerLabel, Passed
<1>4. CASE LoadCount(p, t)
  BY <1>2, <1>4, GotoHandlerEffect DEF LoadCount, In, HandlerLabel, Passed
<1>5. CASE StoreCount(p, t)
  BY <1>2, <1>5, GotoHandlerEffect DEF StoreCount, In, HandlerLabel, Passed
<1>6. QED
  BY <1>3, <1>4, <1>5 DEF CountSteps

LEMMA InitTypes == Init => Types
<1> SUFFICES ASSUME Init PROVE Types
  OBVIOUS
<1>1. Fresh \in Memory /\ Len(Fresh.cache) < ChunkSize
  <2>1. << >> \in Seq(Event) /\ Len(<< >>) = 0
    BY EmptySeq
  <2>2. [t \in Thread |-> 0] \in [Thread -> Nat] /\ 1 \in Nat \ {0}
    OBVIOUS
  <2>3. QED
    BY <2>1, <2>2, ChunkAssumption DEF Fresh, Memory
<1>2. mem = [p \in Proc |-> Fresh] /\ disk = [p \in Proc |-> << >>]
  BY DEF Init
<1>3. mem \in [Proc -> Memory] /\ \A p \in Proc : Len(mem[p].cache) < ChunkSize
  BY <1>1, <1>2
<1>4. disk \in [Proc -> Seq(Event)]
  BY <1>2, EmptySeq
<1>5. /\ pc \in [Proc -> [Thread -> Label]]
      /\ handler \in [Proc -> [Thread -> HandlerLabel]]
      /\ alive \in [Proc -> {"unborn", "running", "exited", "killed"}]
  BY DEF Init, Label, HandlerLabel
<1>6. /\ call \in [Proc -> [Thread -> Nat]] /\ mark \in [Proc -> [Thread -> Nat]]
      /\ writers \in [Proc -> SUBSET Proc] /\ todo \in 0..Calls /\ signals \in 0..MaxSignals
  BY BoundsAssumption DEF Init
<1>7. QED
  BY <1>3, <1>4, <1>5, <1>6 DEF Types

LEMMA ThreadStepTypes ==
  ASSUME Types, Mutexes, Places, FilesKept, NEW p \in Proc, NEW t \in Thread,
         ThreadStep(p, t)
  PROVE  Types'
<1>1. CASE CallFunction(p, t)
  <2>1. pc' \in [Proc -> [Thread -> Label]]
    BY <1>1, GotoEffect DEF CallFunction, Label
  <2>2. todo' \in 0..Calls
    BY <1>1, BoundsAssumption DEF CallFunction, Types
  <2>3. QED
    BY <1>1, <2>1, <2>2 DEF CallFunction, Types, ThreadVars
<1>2. CASE Lock(p, t)
  <2>1. PICK next \in {"enter", "leave"} :
          /\ At(p, t, next) /\ MayLock(p, t)
          /\ mem' = [mem EXCEPT ![p] = Locked(@, t)]
          /\ Goto(p, t, IF next = "enter" THEN "entering" ELSE "leaving")
          /\ UNCHANGED <<ThreadVars, todo, call, disk, writers>>
    BY <1>2 DEF Lock
  <2>2. pc' \in [Proc -> [Thread -> Label]]
    BY <2>1, GotoEffect DEF Label
  <2>3. mem' \in [Proc -> Memory] /\ \A q \in Proc : Len(mem'[q].cache) < ChunkSize
    BY <2>1, LockEffect DEF At
  <2>4. QED
    BY <2>1, <2>2, <2>3 DEF Types, ThreadVars
<1>3. CASE BeginEnter(p, t)
  <2>1. FileTypes'
    BY <1>3, BeginEnterEffect
  <2>2. pc' \in [Proc -> [Thread -> Label]]
    BY <1>3, GotoEffect DEF BeginEnter, Label
  <2>3. call' \in [Proc -> [Thread -> Nat]]
    <3>1. FileReady(mem[p], p) \in Memory /\ FileReady(mem[p], p).callNo \in Nat
      BY <1>3, ReadyEffect DEF BeginEnter, At, Memory
    <3>2. call' = [call EXCEPT ![p][t] = FileReady(mem[p], p).callNo]
      BY <1>3 DEF BeginEnter
    <3>3. QED
      BY <3>1, <3>2 DEF Types
  <2>4. QED
    BY <1>3, <2>1, <2>2, <2>3 DEF BeginEnter, Types, FileTypes, ThreadVars
<1>4. CASE BeginLeave(p, t)
  <2>1. FileTypes'
    BY <1>4, BeginLeaveEffect
  <2>2. pc' \in [Proc -> [Thread -> Label]]
    BY <1>4, GotoEffect DEF BeginLeave, Label
  <2>3. QED
    BY <1>4, <2>1, <2>2 DEF BeginLeave, Types, FileTypes, ThreadVars
<1>5. CASE EndEvent(p, t)
  <2>1. FileTypes'
    BY <1>5, EndEventEffect
  <2>2. pc' \in [Proc -> [Thread -> Label]]
    BY <1>5, GotoEffect DEF EndEvent, Label
  <2>3. QED
    BY <1>5, <2>1, <2>2 DEF EndEvent, Types, FileTypes, ThreadVars
<1>6. CASE Exit(p, t)
  <2>1. pc' \in [Proc -> [Thread -> Label]]
    BY <1>6, GotoEffect DEF Exit, Label
  <2>2. mem' \in [Proc -> Memory] /\ \A q \in Proc : Len(mem'[q].cache) < ChunkSize
    BY <1>6, CallbackEffect DEF Exit
  <2>3. QED
    BY <1>6, <2>1, <2>2 DEF Exit, Types, ThreadVars
<1>7. CASE DestroyLocal(p, t)
  <2>1. FileTypes'
    BY <1>7, DestroyLocalEffect
  <2>2. pc' \in [Proc -> [Thread -> Label]]
    BY <1>7, GotoEffect DEF DestroyLocal, Label
  <2>3. QED
    BY <1>7, <2>1, <2>2 DEF DestroyLocal, Types, FileTypes, ThreadVars
<1>8. CASE DestroyWriter(p, t)
  <2>1. FileTypes'
    BY <1>8, DestroyWriterEffect
  <2>2. QED
    BY <1>8, <2>1 DEF DestroyWriter, Types, FileTypes
<1>9. QED
  BY <1>1, <1>2, <1>3, <1>4, <1>5, <1>6, <1>7, <1>8 DEF ThreadStep

LEMMA HandlerStepTypes ==
  ASSUME Types, Mutexes, Places, FilesKept, NEW p \in Proc, NEW t \in Thread,
         HandlerStep(p, t)
  PROVE  Types'
<1>1. CASE CountSteps(p, t)
  <2>1. \E label \in {"chain"} \cup Passed : GotoHandler(p, t, label)
    BY <1>1 DEF CountSteps, Catch, LoadCount, StoreCount, Passed
  <2>2. handler' \in [Proc -> [Thread -> HandlerLabel]]
    BY <2>1, GotoHandlerEffect DEF HandlerLabel
  <2>3. mem' \in [Proc -> Memory] /\ \A q \in Proc : Len(mem'[q].cache) < ChunkSize
    BY <1>1, RecursionEffect
  <2>4. UNCHANGED <<alive, pc, todo, call, disk, signals, writers, mark>>
    BY <1>1 DEF CountSteps, Catch, LoadCount, StoreCount, HandlerVars
  <2>5. QED
    BY <2>2, <2>3, <2>4 DEF Types
<1>2. CASE FlushLock(p, t)
  <2>1. handler' \in [Proc -> [Thread -> HandlerLabel]]
    BY <1>2, GotoHandlerEffect DEF FlushLock, HandlerLabel, Passed
  <2>2. pc[p][t] # "gone" /\ handler[p][t] # "flushing"
    BY <1>2 DEF FlushLock, In, Places
  <2>3. mem' \in [Proc -> Memory] /\ \A q \in Proc : Len(mem'[q].cache) < ChunkSize
    BY <1>2, <2>2, LockEffect DEF FlushLock
  <2>4. QED
    BY <1>2, <2>1, <2>3 DEF FlushLock, Types, HandlerVars
<1>3. CASE Flush(p, t)
  <2>1. handler' \in [Proc -> [Thread -> HandlerLabel]]
    BY <1>3, GotoHandlerEffect DEF Flush, HandlerLabel, Passed
  <2>2. FileTypes'
    BY <1>3, FlushStepEffect
  <2>3. QED
    BY <1>3, <2>1, <2>2 DEF Flush, Types, FileTypes, HandlerVars
<1>5. CASE ChainReturns(p, t)
  <2>1. handler' \in [Proc -> [Thread -> HandlerLabel]]
    BY <1>5, GotoHandlerEffect DEF ChainReturns, HandlerLabel
  <2>2. QED
    BY <1>5, <2>1 DEF ChainReturns, Types, HandlerVars
<1>6. CASE ChainKills(p, t)
  BY <1>6 DEF ChainKills, Types, HandlerVars
<1>7. QED
  BY <1>1, <1>2, <1>3, <1>5, <1>6 DEF HandlerStep, CountSteps

LEMMA SignalTypes ==
  ASSUME Types, NEW p \in Proc, NEW t \in Thread,
         Signal(p, t) \/ SignalInHandler(p, t)
  PROVE  Types'
<1>1. CASE Signal(p, t)
  <2>1. handler' \in [Proc -> [Thread -> HandlerLabel]]
    BY <1>1, GotoHandlerEffect DEF Signal, HandlerLabel
  <2>2. signals' \in 0..MaxSignals
    BY <1>1, BoundsAssumption DEF Signal, Types
  <2>3. mark' \in [Proc -> [Thread -> Nat]]
    <3>1. mark[p] \in [Thread -> Nat] /\ Len(Contents(p)) \in Nat
      BY MemoryOf DEF Types
    <3> DEFINE length == IF Writing(p, t) \/ ~mem[p].callback THEN 0 ELSE Len(Contents(p))
               row == IF Handling(p) THEN [u \in Thread |-> 0]
                      ELSE [mark[p] EXCEPT ![t] = length]
    <3>2. length \in Nat
      BY <3>1
    <3>3. mark' = [mark EXCEPT ![p] = row]
      BY <1>1 DEF Signal, Types
    <3> HIDE DEF length
    <3>4. row \in [Thread -> Nat]
      BY <3>1, <3>2
    <3> HIDE DEF row
    <3>5. QED
      BY <3>3, <3>4 DEF Types
  <2>4. QED
    BY <1>1, <2>1, <2>2, <2>3 DEF Signal, Types, HandlerVars
<1>2. CASE SignalInHandler(p, t)
  <2>1. signals' \in 0..MaxSignals
    BY <1>2, BoundsAssumption DEF SignalInHandler, Types
  <2>2. alive' \in [Proc -> {"unborn", "running", "exited", "killed"}]
    BY <1>2 DEF SignalInHandler, Types
  <2>3. mark' \in [Proc -> [Thread -> Nat]]
    BY <1>2 DEF SignalInHandler, Types
  <2>4. QED
    BY <1>2, <2>1, <2>2, <2>3 DEF SignalInHandler, Types, HandlerVars
<1>3. QED
  BY <1>1, <1>2

LEMMA TypesKept ==
  ASSUME Types, Mutexes, Places, FilesKept, [Next]_vars
  PROVE  Types'
<1>1. CASE \E p \in Proc, t \in Thread : ThreadStep(p, t)
  BY <1>1, ThreadStepTypes
<1>2. CASE \E p \in Proc, t \in Thread : HandlerStep(p, t)
  BY <1>2, HandlerStepTypes
<1>3. CASE \E p \in Proc, t \in Thread : Signal(p, t) \/ SignalInHandler(p, t)
  BY <1>3, SignalTypes
<1>4. CASE \E t \in Thread : Fork(t)
  <2>1. PICK t \in Thread : Fork(t)
    BY <1>4
  <2>2. /\ mem' \in [Proc -> Memory] /\ \A q \in Proc : Len(mem'[q].cache) < ChunkSize
        /\ pc' = [pc EXCEPT ![Child] = [pc[Child] EXCEPT ![t] = "idle"]]
        /\ alive' = [alive EXCEPT ![Child] = "running"]
        /\ UNCHANGED <<handler, todo, call, disk, signals, writers, mark>>
    BY <2>1, ForkEffect
  <2>3. pc' \in [Proc -> [Thread -> Label]]
    BY <2>2, ProcFacts DEF Types, Label
  <2>4. QED
    BY <2>2, <2>3 DEF Types
<1>5. CASE UNCHANGED vars
  BY <1>5 DEF vars, Types
<1>6. QED
  BY <1>1, <1>2, <1>3, <1>4, <1>5 DEF Next, Stopped

-----------------------------------------------------------------------------
(* Layer 2: the mutex.                                                     *)

(* Where the other threads and the other process are stays the same.       *)
OthersStay(p, t) ==
  \A q \in Proc, u \in Thread :
    q # p \/ u # t => pc'[q][u] = pc[q][u] /\ handler'[q][u] = handler[q][u]

LEMMA MutexSame ==
  ASSUME NEW p \in Proc, MutexOf(p), SameMutex(mem'[p], mem[p]),
         \A u \in Thread : /\ pc'[p][u] \in Inside <=> pc[p][u] \in Inside
                           /\ pc'[p][u] \in Begun <=> pc[p][u] \in Begun
                           /\ pc'[p][u] = "gone" <=> pc[p][u] = "gone"
                           /\ handler'[p][u] = "flushing" <=> handler[p][u] = "flushing"
  PROVE  MutexOf(p)'
<1>1. \A u \in Thread : Holding(p, u)' = Holding(p, u)
  BY DEF Holding
<1>2. QED
  BY <1>1 DEF MutexOf, SameMutex

LEMMA MutexElsewhere ==
  ASSUME Mutexes, NEW p \in Proc, NEW t \in Thread, OthersStay(p, t),
         \A q \in Proc \ {p} : SameMutex(mem'[q], mem[q])
  PROVE  \A q \in Proc \ {p} : MutexOf(q)'
BY MutexSame DEF Mutexes, OthersStay

(* A thread that had the mutex or took it has it, or has released it.      *)
LEMMA MutexMoved ==
  ASSUME NEW p \in Proc, NEW t \in Thread, MutexOf(p), OthersStay(p, t),
         mem[p].owner \in {NoThread, t},
         pc'[p][t] # "gone",
         mem'[p].depth = Holding(p, t)',
         mem'[p].acquired = IF pc'[p][t] \in Begun THEN 1 ELSE 0,
         mem'[p].owner = IF Holding(p, t)' = 0 THEN NoThread ELSE t
  PROVE  MutexOf(p)'
<1>1. \A u \in Thread \ {t} : Holding(p, u)' = Holding(p, u) /\ Holding(p, u) \in 0..2
  BY DEF Holding, OthersStay
<1>2. \A u \in Thread \ {t} : Holding(p, u) = 0
  BY <1>1, ThreadAssumption DEF MutexOf
<1>3. Holding(p, t)' \in 0..2
  BY DEF Holding
<1>4. Holding(p, t)' = 0 => pc'[p][t] \notin Begun
  BY DEF Holding, Inside, Begun
<1>5. QED
  BY <1>1, <1>2, <1>3, <1>4, ThreadAssumption DEF MutexOf

LEMMA ThreadStays ==
  ASSUME Types, NEW p \in Proc, NEW t \in Thread, ThreadStep(p, t)
  PROVE  OthersStay(p, t) /\ handler' = handler
<1>1. handler' = handler
  BY ZenonT(60) DEF ThreadStep, CallFunction, Lock, BeginEnter, BeginLeave, EndEvent, Exit,
         DestroyLocal, DestroyWriter, ThreadVars
<1>2. \/ UNCHANGED pc
      \/ \E label \in Label : Goto(p, t, label)
  BY Zenon DEF ThreadStep, CallFunction, Lock, BeginEnter, BeginLeave, EndEvent, Exit,
         DestroyLocal, DestroyWriter, Label
<1>3. \A q \in Proc, u \in Thread : q # p \/ u # t => pc'[q][u] = pc[q][u]
  BY <1>2, GotoEffect
<1>4. QED
  BY <1>1, <1>3, SMTT(40) DEF OthersStay

LEMMA HandlerStays ==
  ASSUME Types, NEW p \in Proc, NEW t \in Thread,
         HandlerStep(p, t) \/ Signal(p, t) \/ SignalInHandler(p, t)
  PROVE  OthersStay(p, t) /\ pc' = pc
<1>1. pc' = pc
  BY DEF HandlerStep, Catch, FlushLock, Flush, LoadCount, StoreCount, ChainReturns, ChainKills,
         Signal, SignalInHandler, HandlerVars
<1>3. \A q \in Proc, u \in Thread : q # p \/ u # t => handler'[q][u] = handler[q][u]
  <2>1. CASE CountSteps(p, t)
    BY <2>1, CountMoves
  <2>2. CASE \E label \in HandlerLabel : GotoHandler(p, t, label)
    BY <2>2, GotoHandlerEffect
  <2>3. CASE UNCHANGED handler
    BY <2>3
  <2>4. QED
    BY <2>1, <2>2, <2>3
       DEF HandlerStep, CountSteps, FlushLock, Flush, ChainReturns, ChainKills,
           Signal, SignalInHandler, HandlerLabel, Passed
<1>4. QED
  BY <1>1, <1>3 DEF OthersStay

LEMMA ThreadStepMutexes ==
  ASSUME Types, Mutexes, Places, FilesKept, NEW p \in Proc, NEW t \in Thread,
         ThreadStep(p, t)
  PROVE  Mutexes'
<1>1. OthersStay(p, t) /\ handler' = handler
  BY ThreadStays
<1>2. MutexOf(p)
  BY DEF Mutexes
<1> SUFFICES MutexOf(p)' /\ \A q \in Proc \ {p} : SameMutex(mem'[q], mem[q])
  BY <1>1, MutexElsewhere DEF Mutexes
<1>3. CASE CallFunction(p, t)
  <2>1. pc[p][t] = "idle" /\ pc'[p][t] = "enter" /\ mem' = mem
    BY <1>3, GotoEffect DEF CallFunction, At, Label
  <2>2. QED
    BY <1>1, <1>2, <2>1, MutexSame DEF SameMutex, OthersStay, Inside, Begun
<1>4. CASE Lock(p, t)
  <2>1. PICK next \in {"enter", "leave"} :
          /\ At(p, t, next) /\ MayLock(p, t)
          /\ mem' = [mem EXCEPT ![p] = Locked(@, t)]
          /\ Goto(p, t, IF next = "enter" THEN "entering" ELSE "leaving")
    BY <1>4 DEF Lock
  <2>2. /\ pc[p][t] \in {"enter", "leave"} /\ pc'[p][t] \in {"entering", "leaving"}
        /\ handler[p][t] = "none"
    BY <2>1, GotoEffect DEF At, Label
  <2>3. /\ mem'[p].owner = t /\ mem'[p].depth = mem[p].depth + 1
        /\ mem'[p].acquired = mem[p].acquired
        /\ mem[p].depth = IF pc[p][t] \in Inside THEN 1 ELSE 0
        /\ mem[p].acquired = IF pc[p][t] \in Begun THEN 1 ELSE 0
        /\ \A q \in Proc \ {p} : mem'[q] = mem[q]
    BY <2>1, <2>2, LockEffect
  <2>4. Holding(p, t)' = 1 /\ mem'[p].depth = 1 /\ mem'[p].acquired = 0
    BY <1>1, <2>2, <2>3 DEF Holding, Inside, Begun
  <2>5. MutexOf(p)'
    BY <1>1, <1>2, <2>1, <2>2, <2>3, <2>4, MutexMoved DEF MayLock, CanLock, Begun
  <2>6. QED
    BY <2>3, <2>5 DEF SameMutex
<1>5. CASE BeginEnter(p, t)
  <2>1. /\ mem[p].owner = t
        /\ mem'[p].owner = t /\ mem'[p].depth = 1 /\ mem'[p].acquired = 1
        /\ \A q \in Proc \ {p} : mem'[q] = mem[q]
    BY <1>5, BeginEnterEffect, ZenonT(60) DEF Writes, LeftAlone
  <2>2. pc'[p][t] = "entered" /\ handler[p][t] = "none"
    BY <1>5, GotoEffect DEF BeginEnter, At, Label
  <2>3. Holding(p, t)' = 1 /\ pc'[p][t] \in Begun
    BY <1>1, <2>2 DEF Holding, Inside, Begun
  <2>4. MutexOf(p)'
    BY <1>1, <1>2, <2>1, <2>2, <2>3, MutexMoved
  <2>5. QED
    BY <2>1, <2>4 DEF SameMutex
<1>6. CASE BeginLeave(p, t)
  <2>1. /\ mem[p].owner = t
        /\ mem'[p].owner = t /\ mem'[p].depth = 1 /\ mem'[p].acquired = 1
        /\ \A q \in Proc \ {p} : mem'[q] = mem[q]
    BY <1>6, BeginLeaveEffect DEF Writes, LeftAlone
  <2>2. pc'[p][t] = "left" /\ handler[p][t] = "none"
    BY <1>6, GotoEffect DEF BeginLeave, At, Label
  <2>3. Holding(p, t)' = 1 /\ pc'[p][t] \in Begun
    BY <1>1, <2>2 DEF Holding, Inside, Begun
  <2>4. MutexOf(p)'
    BY <1>1, <1>2, <2>1, <2>2, <2>3, MutexMoved
  <2>5. QED
    BY <2>1, <2>4 DEF SameMutex
<1>7. CASE EndEvent(p, t)
  <2>1. /\ mem[p].owner = t
        /\ mem'[p].owner = NoThread /\ mem'[p].depth = 0 /\ mem'[p].acquired = 0
        /\ \A q \in Proc \ {p} : mem'[q] = mem[q]
    BY <1>7, EndEventEffect DEF Writes, LeftAlone
  <2>2. pc'[p][t] \in {"leave", "idle"} /\ handler[p][t] = "none"
    BY <1>7, GotoEffect DEF EndEvent, At, Label
  <2>3. Holding(p, t)' = 0 /\ pc'[p][t] \notin Begun /\ pc'[p][t] # "gone"
    BY <1>1, <2>2 DEF Holding, Inside, Begun
  <2>4. MutexOf(p)'
    BY <1>1, <1>2, <2>1, <2>3, MutexMoved
  <2>5. QED
    BY <2>1, <2>4 DEF SameMutex
<1>8. CASE Exit(p, t)
  <2>1. pc[p][t] = "idle" /\ pc'[p][t] = "exiting"
    BY <1>8, GotoEffect DEF Exit, At, Label
  <2>2. \A q \in Proc : SameMutex(mem'[q], mem[q])
    BY <1>8, CallbackEffect DEF Exit
  <2>3. QED
    BY <1>1, <1>2, <2>1, <2>2, MutexSame DEF OthersStay, Inside, Begun
<1>9. CASE DestroyLocal(p, t)
  <2>1. pc[p][t] = "exiting" /\ pc'[p][t] = "closing"
    BY <1>9, GotoEffect DEF DestroyLocal, At, Label
  <2>2. \A q \in Proc : SameMutex(mem'[q], mem[q])
    BY <1>9, DestroyLocalEffect DEF LeftAlone, SameMutex
  <2>3. QED
    BY <1>1, <1>2, <2>1, <2>2, MutexSame DEF OthersStay, Inside, Begun
<1>10. CASE DestroyWriter(p, t)
  <2>1. pc' = pc
    BY <1>10 DEF DestroyWriter
  <2>2. \A q \in Proc : SameMutex(mem'[q], mem[q])
    BY <1>10, DestroyWriterEffect DEF SameMutex
  <2>3. QED
    BY <1>1, <1>2, <2>1, <2>2, MutexSame
<1>11. QED
  BY <1>3, <1>4, <1>5, <1>6, <1>7, <1>8, <1>9, <1>10 DEF ThreadStep

LEMMA HandlerStepMutexes ==
  ASSUME Types, Mutexes, Places, FilesKept, NEW p \in Proc, NEW t \in Thread,
         HandlerStep(p, t) \/ Signal(p, t) \/ SignalInHandler(p, t)
  PROVE  Mutexes'
<1>1. OthersStay(p, t) /\ pc' = pc
  BY HandlerStays
<1>2. MutexOf(p)
  BY DEF Mutexes
<1> SUFFICES MutexOf(p)' /\ \A q \in Proc \ {p} : SameMutex(mem'[q], mem[q])
  BY <1>1, MutexElsewhere DEF Mutexes
<1>3. CASE FlushLock(p, t)
  <2>1. handler[p][t] = "flush" /\ handler'[p][t] = "flushing" /\ MayLock(p, t)
        /\ mem' = [mem EXCEPT ![p] = Locked(@, t)]
    BY <1>3, GotoHandlerEffect DEF FlushLock, In, HandlerLabel, Passed
  <2>2. pc[p][t] # "gone"
    BY <2>1 DEF Places
  <2>3. /\ mem'[p].owner = t /\ mem'[p].depth = mem[p].depth + 1
        /\ mem'[p].acquired = mem[p].acquired
        /\ mem[p].depth = IF pc[p][t] \in Inside THEN 1 ELSE 0
        /\ mem[p].acquired = IF pc[p][t] \in Begun THEN 1 ELSE 0
        /\ \A q \in Proc \ {p} : mem'[q] = mem[q]
    BY <2>1, <2>2, LockEffect
  <2>4. Holding(p, t)' = mem'[p].depth /\ Holding(p, t)' # 0
    BY <1>1, <2>1, <2>3 DEF Holding
  <2>5. MutexOf(p)'
    BY <1>1, <1>2, <2>1, <2>2, <2>3, <2>4, MutexMoved DEF MayLock, CanLock
  <2>6. QED
    BY <2>3, <2>5 DEF SameMutex
<1>4. CASE Flush(p, t)
  <2>1. handler[p][t] = "flushing" /\ handler'[p][t] = "flushed"
    BY <1>4, GotoHandlerEffect DEF Flush, In, HandlerLabel, Passed
  <2>2. /\ mem[p].owner = t /\ mem[p].depth \in 1..2
        /\ mem'[p].owner = IF mem[p].depth = 1 THEN NoThread ELSE mem[p].owner
        /\ mem'[p].depth = mem[p].depth - 1 /\ mem'[p].acquired = mem[p].acquired
        /\ \A q \in Proc \ {p} : mem'[q] = mem[q]
    BY <1>4, FlushStepEffect
  <2>3. /\ pc[p][t] # "gone" /\ mem[p].depth = IF pc[p][t] \in Inside THEN 2 ELSE 1
        /\ mem[p].acquired = IF pc[p][t] \in Begun THEN 1 ELSE 0
    BY <2>1, Holder
  <2>4. Holding(p, t)' = mem'[p].depth
    BY <1>1, <2>1, <2>2, <2>3 DEF Holding
  <2>5. mem'[p].owner = IF Holding(p, t)' = 0 THEN NoThread ELSE t
    BY <2>2, <2>4
  <2>6. MutexOf(p)'
    BY <1>1, <1>2, <2>2, <2>3, <2>4, <2>5, MutexMoved
  <2>7. QED
    BY <2>2, <2>6 DEF SameMutex
<1>5. CASE CountSteps(p, t) \/ ChainReturns(p, t) \/ ChainKills(p, t)
           \/ Signal(p, t) \/ SignalInHandler(p, t)
  <2>1. \A q \in Proc : SameMutex(mem'[q], mem[q])
    <3>1. mem' = mem \/ CountSteps(p, t)
      BY <1>5 DEF ChainReturns, ChainKills, Signal, SignalInHandler
    <3>2. QED
      BY <3>1, RecursionEffect DEF SameMutex
  <2>2. \/ handler[p][t] # "flushing" /\ handler'[p][t] # "flushing"
        \/ handler' = handler
    <3>1. CASE CountSteps(p, t)
      BY <3>1, CountMoves
    <3>2. QED
      BY <1>5, <3>1, GotoHandlerEffect
         DEF ChainReturns, ChainKills, Signal, SignalInHandler, In, HandlerLabel
  <2>3. QED
    BY <1>1, <1>2, <2>1, <2>2, MutexSame DEF OthersStay
<1>6. QED
  BY <1>3, <1>4, <1>5 DEF HandlerStep, CountSteps

LEMMA MutexesKept ==
  ASSUME Types, Mutexes, Places, FilesKept, [Next]_vars
  PROVE  Mutexes'
<1>1. CASE \E p \in Proc, t \in Thread : ThreadStep(p, t)
  BY <1>1, ThreadStepMutexes
<1>2. CASE \E p \in Proc, t \in Thread :
             HandlerStep(p, t) \/ Signal(p, t) \/ SignalInHandler(p, t)
  BY <1>2, HandlerStepMutexes
<1>3. CASE \E t \in Thread : Fork(t)
  <2>1. PICK t \in Thread : Fork(t)
    BY <1>3
  <2>2. /\ mem'[Child] = mem[Parent] /\ mem'[Parent] = mem[Parent]
        /\ pc' = [pc EXCEPT ![Child] = [pc[Child] EXCEPT ![t] = "idle"]]
        /\ At(Parent, t, "idle") /\ alive[Child] = "unborn"
        /\ UNCHANGED handler
    BY <2>1, ForkEffect
  <2>3. /\ pc'[Parent] = pc[Parent] /\ pc'[Child][t] = "idle"
        /\ \A u \in Thread \ {t} : pc'[Child][u] = "gone"
    BY <2>2, ProcFacts DEF Types, Places
  <2>4. MutexOf(Parent)'
    BY <2>2, <2>3, ProcFacts, MutexSame DEF Mutexes, SameMutex
  <2>5. MutexOf(Child)'
    <3>1. \A u \in Thread : handler[Child][u] = "none"
      BY <2>2, ProcFacts DEF Places
    <3>2. \A u \in Thread : Holding(Child, u)' = 0
      BY <2>2, <2>3, <3>1 DEF Holding, Inside
    <3>3. mem[Parent].owner = t => mem[Parent].depth = 0 /\ mem[Parent].acquired = 0
      BY <2>2, ProcFacts DEF Mutexes, MutexOf, At, Holding, Inside, Begun
    <3>4. QED
      BY <2>2, <2>3, <3>2, <3>3, ProcFacts DEF Mutexes, MutexOf, Begun
  <2>6. QED
    BY <2>4, <2>5, ProcFacts DEF Mutexes
<1>4. CASE UNCHANGED vars
  BY <1>4 DEF vars, Mutexes, MutexOf, Holding
<1>5. QED
  BY <1>1, <1>2, <1>3, <1>4 DEF Next, Stopped

-----------------------------------------------------------------------------
(* Layer 3: the places and the end of a process.                           *)

LEMMA PlacesKept ==
  ASSUME Types, Places, [Next]_vars
  PROVE  Places'
<1>1. CASE \E p \in Proc, t \in Thread : ThreadStep(p, t)
  <2>1. PICK p \in Proc, t \in Thread : ThreadStep(p, t)
    BY <1>1
  <2>2. /\ OthersStay(p, t) /\ handler' = handler
    BY <2>1, ThreadStays, SMTT(40)
  <2>3. alive[p] = "running" /\ pc[p][t] # "gone"
    BY <2>1, Zenon DEF ThreadStep, CallFunction, Lock, BeginEnter, BeginLeave, EndEvent,
                Exit, DestroyLocal, DestroyWriter, At
  <2>4. pc'[p][t] # "gone"
    <3>1. pc'[p][t] = pc[p][t] \/ \E label \in Label \ {"gone"} : Goto(p, t, label)
      BY <2>1, Zenon DEF ThreadStep, CallFunction, Lock, BeginEnter, BeginLeave, EndEvent,
                  Exit, DestroyLocal, DestroyWriter, Label
    <3>2. QED
      BY <2>3, <3>1, GotoEffect, SMTT(40)
  <2>5. \A q \in Proc : alive'[q] = "unborn" <=> alive[q] = "unborn"
    <3>1. alive' = alive \/ alive' = [alive EXCEPT ![p] = "exited"]
      BY <2>1, Zenon DEF ThreadStep, CallFunction, Lock, BeginEnter, BeginLeave, EndEvent,
                  Exit, DestroyLocal, DestroyWriter, ThreadVars
    <3>2. QED
      BY <2>3, <3>1, SMTT(40) DEF Types
  <2>6. QED
    BY <2>2, <2>3, <2>4, <2>5, ProcFacts DEF Places, OthersStay
<1>2. CASE \E p \in Proc, t \in Thread :
             HandlerStep(p, t) \/ Signal(p, t) \/ SignalInHandler(p, t)
  <2>1. PICK p \in Proc, t \in Thread :
          HandlerStep(p, t) \/ Signal(p, t) \/ SignalInHandler(p, t)
    BY <1>2
  <2>2. OthersStay(p, t) /\ pc' = pc
    BY <2>1, HandlerStays
  <2>3. /\ alive[p] = "running"
        /\ handler[p][t] # "none" \/ pc[p][t] # "gone"
    <3>1. CASE Signal(p, t)
      BY <3>1 DEF Signal, In
    <3>2. CASE ~Signal(p, t)
      BY <2>1, <3>2 DEF HandlerStep, Catch, FlushLock, Flush, LoadCount, StoreCount,
                        ChainReturns, ChainKills, SignalInHandler, Passed, In
    <3>3. QED
      BY <3>1, <3>2
  <2>4. \A q \in Proc : alive'[q] = "unborn" <=> alive[q] = "unborn"
    <3>1. alive' = alive \/ alive' = [alive EXCEPT ![p] = "killed"]
      BY <2>1 DEF HandlerStep, Catch, FlushLock, Flush, LoadCount, StoreCount, ChainReturns,
                  ChainKills, Signal, SignalInHandler
    <3>2. QED
      BY <2>3, <3>1 DEF Types
  <2>5. QED
    BY <2>2, <2>3, <2>4, ProcFacts DEF Places, OthersStay
<1>3. CASE \E t \in Thread : Fork(t)
  <2>1. PICK t \in Thread : Fork(t)
    BY <1>3
  <2>2. /\ pc' = [pc EXCEPT ![Child] = [pc[Child] EXCEPT ![t] = "idle"]]
        /\ alive' = [alive EXCEPT ![Child] = "running"]
        /\ UNCHANGED handler
    BY <2>1, ForkEffect
  <2>3. QED
    BY <2>2, ProcFacts DEF Types, Places
<1>4. CASE UNCHANGED vars
  BY <1>4 DEF vars, Places
<1>5. QED
  BY <1>1, <1>2, <1>3, <1>4 DEF Next, Stopped

(* The states in which a thread leaves the traced calls.                   *)
Ends == {"exiting", "closing"}

LEMMA EndingKept ==
  ASSUME Types, Mutexes, Places, FilesKept, Ending, ~EarlyExit, [Next]_vars
  PROVE  Ending'
<1>1. CASE \E p \in Proc, t \in Thread : ThreadStep(p, t)
  <2>1. PICK p \in Proc, t \in Thread : ThreadStep(p, t)
    BY <1>1
  <2>2. OthersStay(p, t) /\ handler' = handler
    BY <2>1, ThreadStays
  <2>3. CASE Exit(p, t)
    <3>1. /\ At(p, t, "idle") /\ \A u \in Thread : Done(p, u)
          /\ pc'[p][t] = "exiting" /\ todo' = todo
      BY <2>3, GotoEffect DEF Exit, Label
    <3>2. /\ mem'[p].callback = FALSE
          /\ \A q \in Proc \ {p} : mem'[q] = mem[q]
      BY <2>3, CallbackEffect DEF Exit
    <3>3. /\ todo = 0
          /\ \A u \in Thread : pc[p][u] \in {"idle", "gone"} /\ handler[p][u] = "none"
      BY <3>1 DEF Done, At, Places
    <3>4. EndingOf(p)'
      BY <2>2, <3>1, <3>2, <3>3 DEF EndingOf, OthersStay
    <3>5. \A q \in Proc \ {p} : EndingOf(q)'
      BY <2>2, <3>1, <3>2 DEF Ending, EndingOf, OthersStay
    <3>6. QED
      BY <3>4, <3>5 DEF Ending
  <2>4. CASE CallFunction(p, t)
    <3>1. todo > 0 /\ todo \in Nat /\ mem' = mem /\ pc'[p][t] = "enter"
      BY <2>4, GotoEffect, BoundsAssumption DEF CallFunction, Label, Types
    <3>2. \A q \in Proc, u \in Thread : pc[q][u] \notin Ends
      BY <3>1 DEF Ending, EndingOf, Ends
    <3>3. \A q \in Proc, u \in Thread : pc'[q][u] \notin Ends
      BY <2>2, <3>1, <3>2 DEF OthersStay, Ends
    <3>4. QED
      BY <2>2, <3>1, <3>3 DEF Ending, EndingOf, Ends
  <2>5. CASE ~(Exit(p, t) \/ CallFunction(p, t))
    <3>1. \A q \in Proc : mem'[q].callback = mem[q].callback
      <4>1. CASE Lock(p, t)
        BY <4>1, LockEffect DEF Lock, At, SameHandler
      <4>2. CASE BeginEnter(p, t)
        BY <4>2, BeginEnterEffect DEF Writes, LeftAlone, SameHandler
      <4>3. CASE BeginLeave(p, t)
        BY <4>3, BeginLeaveEffect DEF Writes, LeftAlone, SameHandler
      <4>4. CASE EndEvent(p, t)
        BY <4>4, EndEventEffect DEF Writes, LeftAlone, SameHandler
      <4>5. CASE DestroyLocal(p, t)
        BY <4>5, DestroyLocalEffect DEF LeftAlone, SameHandler
      <4>6. CASE DestroyWriter(p, t)
        BY <4>6, DestroyWriterEffect DEF SameHandler
      <4>7. QED
        BY <2>1, <2>5, <4>1, <4>2, <4>3, <4>4, <4>5, <4>6 DEF ThreadStep
    <3>2. /\ pc[p][t] \notin {"idle", "gone"}
          /\ pc'[p][t] \in Ends => pc[p][t] \in Ends
          /\ todo' = todo
      <4>1. \/ pc' = pc
            \/ \E label \in Label \ Ends : Goto(p, t, label)
            \/ pc[p][t] \in Ends /\ pc'[p][t] = "closing"
        <5>1. CASE DestroyLocal(p, t)
          BY <5>1, GotoEffect, SMTT(40) DEF DestroyLocal, At, Ends, Label
        <5>2. CASE ~DestroyLocal(p, t)
          BY <2>1, <2>5, <5>2, Zenon
             DEF ThreadStep, Lock, BeginEnter, BeginLeave, EndEvent, DestroyWriter,
                 Ends, Label
        <5>3. QED
          BY <5>1, <5>2
      <4>2. pc'[p][t] \in Ends => pc[p][t] \in Ends
        BY <4>1, GotoEffect, SMTT(40)
      <4>3. pc[p][t] \notin {"idle", "gone"} /\ todo' = todo
        BY <2>1, <2>5, Zenon
           DEF ThreadStep, Lock, BeginEnter, BeginLeave, EndEvent, DestroyLocal,
               DestroyWriter, At
      <4>4. QED
        BY <4>2, <4>3
    <3>3. QED
      BY <2>2, <3>1, <3>2 DEF Ending, EndingOf, OthersStay, Ends
  <2>6. QED
    BY <2>3, <2>4, <2>5
<1>2. CASE \E p \in Proc, t \in Thread :
             HandlerStep(p, t) \/ Signal(p, t) \/ SignalInHandler(p, t)
  <2>1. PICK p \in Proc, t \in Thread :
          HandlerStep(p, t) \/ Signal(p, t) \/ SignalInHandler(p, t)
    BY <1>2
  <2>2. OthersStay(p, t) /\ pc' = pc
    BY <2>1, HandlerStays
  <2>3. todo' = todo
    BY <2>1 DEF HandlerStep, Catch, LoadCount, StoreCount, FlushLock, Flush, ChainReturns,
                ChainKills, Signal, SignalInHandler, HandlerVars
  <2>4. \A q \in Proc : mem'[q].callback = mem[q].callback
    <3>1. CASE FlushLock(p, t)
      <4>1. pc[p][t] # "gone" /\ handler[p][t] # "flushing"
        BY <3>1 DEF FlushLock, In, Places
      <4>2. QED
        BY <3>1, <4>1, LockEffect DEF FlushLock, SameHandler
    <3>2. CASE Flush(p, t)
      BY <3>2, FlushStepEffect DEF SameHandler
    <3>3. CASE ~(FlushLock(p, t) \/ Flush(p, t))
      <4>1. mem' = mem \/ CountSteps(p, t)
        BY <2>1, <3>3
           DEF HandlerStep, CountSteps, ChainReturns, ChainKills, Signal, SignalInHandler
      <4>2. QED
        BY <4>1, RecursionEffect
    <3>4. QED
      BY <3>1, <3>2, <3>3
  <2>5. ~mem[p].callback => handler'[p][t] \notin {"flush", "flushing"}
    <3>1. SUFFICES ASSUME ~mem[p].callback
                   PROVE  handler'[p][t] \notin {"flush", "flushing"}
      OBVIOUS
    <3>2. handler[p][t] \notin {"flush", "flushing"}
      BY <3>1 DEF Ending, EndingOf
    <3>3. CASE CountSteps(p, t)
      BY <3>1, <3>3, CountMoves
    <3>4. CASE ~CountSteps(p, t)
      <4>1. \/ handler' = handler
            \/ \E label \in {"none", "caught", "chain"} : GotoHandler(p, t, label)
        BY <2>1, <3>2, <3>4
           DEF HandlerStep, CountSteps, FlushLock, Flush, ChainReturns, ChainKills,
               Signal, SignalInHandler, In
      <4>2. QED
        BY <3>2, <4>1, GotoHandlerEffect DEF HandlerLabel
    <3>5. QED
      BY <3>3, <3>4
  <2>6. QED
    BY <2>2, <2>3, <2>4, <2>5 DEF Ending, EndingOf, OthersStay
<1>3. CASE \E t \in Thread : Fork(t)
  <2>1. PICK t \in Thread : Fork(t)
    BY <1>3
  <2>2. /\ mem'[Child] = mem[Parent] /\ mem'[Parent] = mem[Parent]
        /\ pc' = [pc EXCEPT ![Child] = [pc[Child] EXCEPT ![t] = "idle"]]
        /\ alive[Child] = "unborn"
        /\ UNCHANGED <<handler, todo>>
    BY <2>1, ForkEffect
  <2>3. /\ pc'[Parent] = pc[Parent] /\ pc'[Child][t] = "idle"
        /\ \A u \in Thread \ {t} : pc'[Child][u] = "gone"
        /\ \A u \in Thread : handler[Child][u] = "none"
    BY <2>2, ProcFacts DEF Types, Places
  <2>4. EndingOf(Parent)'
    BY <2>2, <2>3, ProcFacts DEF Ending, EndingOf
  <2>5. EndingOf(Child)'
    <3>1. \A u \in Thread : pc'[Child][u] \in {"idle", "gone"}
      BY <2>3
    <3>2. QED
      BY <2>2, <2>3, <3>1 DEF EndingOf
  <2>6. QED
    BY <2>4, <2>5, ProcFacts DEF Ending
<1>4. CASE UNCHANGED vars
  BY <1>4 DEF vars, Ending, EndingOf
<1>5. QED
  BY <1>1, <1>2, <1>3, <1>4 DEF Next, Stopped

-----------------------------------------------------------------------------
(* Layer 4: the files.                                                     *)

(* The labels of a call whose enter event is made.                         *)
Called == {"entered", "leave", "leaving", "left"}

LEMMA FileStays ==
  ASSUME NEW q \in Proc, FileOf(q),
         mem'[q].file = mem[q].file, mem'[q].pid = mem[q].pid,
         Buffered(mem'[q]) = Buffered(mem[q]), Kept(q) \/ Spoiled(q),
         alive'[q] = "exited" <=> alive[q] = "exited",
         \A u \in Thread : /\ pc'[q][u] \in Called => pc[q][u] \in Called
                           /\ pc'[q][u] = "closing" => pc[q][u] = "closing"
  PROVE  FileOf(q)'
BY DEF FileOf, Kept, Spoiled, Called

(* The other process of a step.                                            *)
LEMMA FileElsewhere ==
  ASSUME Types, FilesKept, NEW p \in Proc, NEW t \in Thread, OthersStay(p, t),
         \A q \in Proc \ {p} : LeftAlone(q) /\ alive'[q] = alive[q]
  PROVE  \A q \in Proc \ {p} : FileOf(q)'
<1> SUFFICES ASSUME NEW q \in Proc \ {p} PROVE FileOf(q)'
  OBVIOUS
<1>1. FileOf(q)
  BY DEF FilesKept
<1>2. QED
  BY <1>1, FileStays DEF LeftAlone, OthersStay

(* How alive may change.                                                   *)
LEMMA ThreadStepAlive ==
  ASSUME Types, NEW p \in Proc, NEW t \in Thread, ThreadStep(p, t)
  PROVE  /\ alive[p] = "running"
         /\ alive'[p] = IF DestroyWriter(p, t) THEN "exited" ELSE "running"
         /\ \A q \in Proc \ {p} : alive'[q] = alive[q]
<1>1. alive[p] = "running" /\ alive \in [Proc -> {"unborn", "running", "exited", "killed"}]
  <2>1. alive[p] = "running"
    BY Zenon DEF ThreadStep, CallFunction, Lock, BeginEnter, BeginLeave, EndEvent, Exit,
                 DestroyLocal, DestroyWriter, At
  <2>2. QED
    BY <2>1 DEF Types
<1>2. CASE DestroyWriter(p, t)
  BY <1>1, <1>2 DEF DestroyWriter
<1>3. CASE ~DestroyWriter(p, t)
  <2>1. alive' = alive
    BY <1>3, Zenon DEF ThreadStep, CallFunction, Lock, BeginEnter, BeginLeave, EndEvent,
                Exit, DestroyLocal, ThreadVars
  <2>2. QED
    BY <1>1, <1>3, <2>1, SMTT(40)
<1>4. QED
  BY <1>2, <1>3, <1>1, SMTT(40)

LEMMA HandlerStepAlive ==
  ASSUME Types, NEW p \in Proc, NEW t \in Thread,
         HandlerStep(p, t) \/ Signal(p, t) \/ SignalInHandler(p, t)
  PROVE  /\ alive[p] = "running" /\ alive'[p] \in {"running", "killed"}
         /\ \A q \in Proc \ {p} : alive'[q] = alive[q]
<1>1. alive[p] = "running"
  BY DEF HandlerStep, Catch, FlushLock, Flush, LoadCount, StoreCount, ChainReturns, ChainKills,
         Signal, SignalInHandler, In
<1>2. alive' = alive \/ alive' = [alive EXCEPT ![p] = "killed"]
  BY DEF HandlerStep, Catch, FlushLock, Flush, LoadCount, StoreCount, ChainReturns, ChainKills,
         Signal, SignalInHandler
<1>3. QED
  BY <1>1, <1>2 DEF Types

LEMMA ThreadStepFiles ==
  ASSUME Types, Mutexes, Places, FilesKept, Ending, NEW p \in Proc, NEW t \in Thread,
         ThreadStep(p, t)
  PROVE  /\ FileOf(p)'
         /\ \A q \in Proc \ {p} : LeftAlone(q)
         /\ mem'[p].file \in {mem[p].file, p, NoFile}
         /\ mem'[p].file # mem[p].file => mem'[p].file = p \/ alive'[p] = "exited"
<1>1. OthersStay(p, t) /\ handler' = handler
  BY ThreadStays
<1>2. /\ alive[p] = "running" /\ FileOf(p)
      /\ alive'[p] = IF DestroyWriter(p, t) THEN "exited" ELSE "running"
  BY ThreadStepAlive DEF FilesKept
<1>3. CASE CallFunction(p, t) \/ Lock(p, t) \/ Exit(p, t)
  <2>1. \A q \in Proc : SameTracing(mem'[q], mem[q]) /\ (q # p => mem'[q] = mem[q])
    <3>1. CASE CallFunction(p, t)
      BY <3>1 DEF CallFunction, SameTracing
    <3>2. CASE Lock(p, t)
      BY <3>2, LockEffect, ZenonT(60) DEF Lock, At, SameTracing
    <3>3. CASE Exit(p, t)
      BY <3>3, CallbackEffect DEF Exit
    <3>4. QED
      BY <1>3, <3>1, <3>2, <3>3
  <2>2. \A q \in Proc : Kept(q)
    BY <1>3 DEF CallFunction, Lock, Exit, Kept
  <2>3. /\ pc'[p][t] \in Called => pc[p][t] \in Called
        /\ pc'[p][t] # "closing"
    <3>1. CASE CallFunction(p, t)
      BY <3>1, GotoEffect DEF CallFunction, Label, Called
    <3>2. CASE Lock(p, t)
      <4>1. PICK next \in {"enter", "leave"} :
              At(p, t, next)
              /\ Goto(p, t, IF next = "enter" THEN "entering" ELSE "leaving")
        BY <3>2 DEF Lock
      <4>2. QED
        BY <4>1, GotoEffect DEF At, Label, Called
    <3>3. CASE Exit(p, t)
      BY <3>3, GotoEffect DEF Exit, Label, Called
    <3>4. QED
      BY <1>3, <3>1, <3>2, <3>3
  <2>4. Buffered(mem'[p]) = Buffered(mem[p])
    BY <2>1 DEF SameTracing, Buffered
  <2>5. alive'[p] = "running"
    <3>1. alive' = alive
      BY <1>3 DEF CallFunction, Lock, Exit, ThreadVars
    <3>2. QED
      BY <1>2, <3>1
  <2>6. FileOf(p)'
    BY <1>1, <1>2, <2>1, <2>2, <2>3, <2>4, <2>5, FileStays DEF SameTracing, OthersStay
  <2>7. QED
    BY <2>1, <2>2, <2>6 DEF LeftAlone, SameTracing
<1>4. CASE BeginEnter(p, t) \/ BeginLeave(p, t) \/ EndEvent(p, t)
  <2>1. /\ mem'[p].file = p /\ mem'[p].pid = p
        /\ \A q \in Proc \ {p} : LeftAlone(q)
    <3>1. CASE BeginEnter(p, t)
      BY <3>1, BeginEnterEffect DEF Writes
    <3>2. CASE BeginLeave(p, t)
      BY <1>2, <3>2, BeginLeaveEffect, ProcFacts DEF Writes, BeginLeave, At, FileOf
    <3>3. CASE EndEvent(p, t)
      BY <1>2, <3>3, EndEventEffect, ProcFacts, ZenonT(60) DEF Writes, EndEvent, At, FileOf
    <3>4. QED
      BY <1>4, <3>1, <3>2, <3>3
  <2>2. alive'[p] = "running"
    <3>1. alive' = alive
      BY <1>4, Zenon DEF BeginEnter, BeginLeave, EndEvent, ThreadVars
    <3>2. QED
      BY <1>2, <3>1
  <2>3. FileOf(p)'
    BY <2>1, <2>2, ProcFacts DEF FileOf
  <2>4. QED
    BY <2>1, <2>3
<1>5. CASE DestroyLocal(p, t)
  <2>1. /\ Kept(p) /\ \A q \in Proc \ {p} : LeftAlone(q)
        /\ \/ mem'[p] = mem[p] /\ mem'[p].file \in {p, NoFile}
           \/ mem'[p].file = p /\ mem'[p].pid = p
    BY <1>5, DestroyLocalEffect
  <2>2. alive'[p] = "running" /\ pc'[p][t] = "closing"
    BY <1>2, <1>5, GotoEffect DEF DestroyLocal, ThreadVars, Label
  <2>3. FileOf(p)'
    <3>1. CASE mem'[p].file = p /\ mem'[p].pid = p
      BY <2>2, <3>1, ProcFacts DEF FileOf
    <3>2. CASE mem'[p] = mem[p] /\ mem'[p].file \in {p, NoFile}
      BY <1>1, <1>2, <2>1, <2>2, <3>2 DEF FileOf, Kept, OthersStay
    <3>3. QED
      BY <2>1, <3>1, <3>2
  <2>4. QED
    BY <2>1, <2>3
<1>6. CASE DestroyWriter(p, t)
  <2>1. /\ mem'[p].file = NoFile /\ Buffered(mem'[p]) = << >>
        /\ \A q \in Proc \ {p} : LeftAlone(q)
    BY <1>6, DestroyWriterEffect DEF LeftAlone
  <2>2. \A u \in Thread : pc'[p][u] \notin Called
    <3>1. pc[p][t] = "closing" /\ pc' = pc
      BY <1>6 DEF DestroyWriter, At
    <3>2. \A u \in Thread \ {t} : pc[p][u] \in {"idle", "gone"}
      BY <3>1 DEF Ending, EndingOf
    <3>3. QED
      BY <3>1, <3>2 DEF Called
  <2>3. alive'[p] = "exited"
    BY <1>2, <1>6
  <2>4. FileOf(p)'
    BY <2>1, <2>2, <2>3, ProcFacts DEF FileOf, Called
  <2>5. QED
    BY <2>1, <2>3, <2>4
<1>7. QED
  BY <1>3, <1>4, <1>5, <1>6 DEF ThreadStep

(* Of the handler, only a flush that is allowed writes.                    *)
LEMMA HandlerStepQuiet ==
  ASSUME Types, Mutexes, Places, FilesKept, NEW p \in Proc, NEW t \in Thread,
         HandlerStep(p, t) \/ Signal(p, t) \/ SignalInHandler(p, t),
         ~(Flush(p, t) /\ MayFlush(p))
  PROVE  /\ \A q \in Proc : Kept(q) /\ SameTracing(mem'[q], mem[q])
         /\ \A q \in Proc \ {p} : mem'[q] = mem[q]
<1>1. CASE Flush(p, t)
  BY <1>1, FlushStepEffect DEF SameTracing
<1>2. CASE FlushLock(p, t)
  <2>1. pc[p][t] # "gone" /\ handler[p][t] # "flushing"
    BY <1>2 DEF FlushLock, In, Places
  <2>2. QED
    BY <1>2, <2>1, LockEffect, ZenonT(60) DEF FlushLock, SameTracing, Kept
<1>3. CASE ~(Flush(p, t) \/ FlushLock(p, t))
  <2>1. /\ mem' = mem \/ CountSteps(p, t)
        /\ UNCHANGED <<disk, writers>>
    BY <1>3
       DEF HandlerStep, CountSteps, Catch, LoadCount, StoreCount, ChainReturns,
           ChainKills, Signal, SignalInHandler
  <2>2. QED
    BY <2>1, RecursionEffect DEF SameTracing, Kept
<1>4. QED
  BY <1>1, <1>2, <1>3

LEMMA HandlerStepFiles ==
  ASSUME Types, Mutexes, Places, FilesKept, NEW p \in Proc, NEW t \in Thread,
         HandlerStep(p, t) \/ Signal(p, t) \/ SignalInHandler(p, t)
  PROVE  /\ FileOf(p)'
         /\ \A q \in Proc \ {p} : LeftAlone(q)
         /\ mem'[p].file = mem[p].file
<1>1. OthersStay(p, t) /\ pc' = pc /\ FileOf(p)
  BY HandlerStays DEF FilesKept
<1>2. alive[p] = "running" /\ alive'[p] \in {"running", "killed"}
  BY HandlerStepAlive
<1>3. CASE Flush(p, t) /\ MayFlush(p)
  <2>1. /\ mem'[p].file = p /\ mem'[p].pid = mem[p].pid /\ mem[p].file = p
        /\ \A q \in Proc \ {p} : mem'[q] = mem[q] /\ Kept(q)
    BY <1>3, FlushStepEffect
  <2>2. FileOf(p)'
    BY <1>1, <1>2, <2>1, ProcFacts DEF FileOf
  <2>3. QED
    BY <2>1, <2>2 DEF LeftAlone
<1>4. CASE ~(Flush(p, t) /\ MayFlush(p))
  <2>1. /\ \A q \in Proc : Kept(q) /\ SameTracing(mem'[q], mem[q])
        /\ \A q \in Proc \ {p} : mem'[q] = mem[q]
    BY <1>4, HandlerStepQuiet
  <2>2. Buffered(mem'[p]) = Buffered(mem[p])
    BY <2>1 DEF SameTracing, Buffered
  <2>3. FileOf(p)'
    BY <1>1, <1>2, <2>1, <2>2, FileStays DEF SameTracing
  <2>4. QED
    BY <2>1, <2>3 DEF LeftAlone, SameTracing
<1>5. QED
  BY <1>3, <1>4

LEMMA FilesKeptKept ==
  ASSUME Types, Mutexes, Places, FilesKept, Ending, [Next]_vars
  PROVE  FilesKept'
<1>1. CASE \E p \in Proc, t \in Thread :
             \/ ThreadStep(p, t)
             \/ HandlerStep(p, t) \/ Signal(p, t) \/ SignalInHandler(p, t)
  <2>1. PICK p \in Proc, t \in Thread :
             \/ ThreadStep(p, t)
             \/ HandlerStep(p, t) \/ Signal(p, t) \/ SignalInHandler(p, t)
    BY <1>1
  <2>2. /\ FileOf(p)' /\ OthersStay(p, t)
        /\ \A q \in Proc \ {p} : LeftAlone(q)
        /\ mem'[p].file \in {mem[p].file, p, NoFile}
        /\ mem'[p].file # mem[p].file => mem'[p].file = p \/ alive'[p] = "exited"
    BY <2>1, ThreadStepFiles, HandlerStepFiles, ThreadStays, HandlerStays
  <2>3. /\ alive[p] = "running" /\ alive'[p] # "unborn"
        /\ \A q \in Proc \ {p} : alive'[q] = alive[q]
    BY <2>1, ThreadStepAlive, HandlerStepAlive
  <2>4. \A q \in Proc \ {p} : FileOf(q)'
    BY <2>2, <2>3, FileElsewhere
  <2>5. QED
    BY <2>2, <2>3, <2>4, ProcFacts DEF FilesKept, LeftAlone
<1>2. CASE \E t \in Thread : Fork(t)
  <2>1. PICK t \in Thread : Fork(t)
    BY <1>2
  <2>2. /\ mem'[Child] = mem[Parent] /\ mem'[Parent] = mem[Parent]
        /\ pc' = [pc EXCEPT ![Child] = [pc[Child] EXCEPT ![t] = "idle"]]
        /\ alive' = [alive EXCEPT ![Child] = "running"]
        /\ alive[Child] = "unborn" /\ UNCHANGED <<disk, writers>>
    BY <2>1, ForkEffect
  <2>3. /\ pc'[Parent] = pc[Parent] /\ alive'[Parent] = alive[Parent]
        /\ alive'[Child] = "running"
        /\ \A u \in Thread : pc'[Child][u] \in {"idle", "gone"}
    BY <2>2, ProcFacts DEF Types, Places
  <2>4. mem[Parent].file \in {Parent, NoFile}
    BY ProcFacts DEF Types, Memory, FilesKept
  <2>5. FileOf(Parent)'
    BY <2>2, <2>3, ProcFacts DEF FilesKept, FileOf
  <2>6. disk[Child] = << >>
    BY <2>2, ProcFacts DEF FilesKept, FileOf
  <2>7. FileOf(Child)'
    BY <2>2, <2>3, <2>4, <2>6, ProcFacts DEF FilesKept, FileOf
  <2>8. QED
    BY <2>2, <2>3, <2>4, <2>5, <2>7, ProcFacts DEF FilesKept
<1>3. CASE UNCHANGED vars
  BY <1>3 DEF vars, FilesKept, FileOf, Buffered
<1>4. QED
  BY <1>1, <1>2, <1>3 DEF Next, Stopped

-----------------------------------------------------------------------------
(* Layer 5: the traces.                                                    *)

InCall == {"entered", "leave", "leaving"}

(* What TraceOf and BufferOf say of a process stays true as long as its    *)
(* trace, its counters and the calls of its threads stay the same.         *)
LEMMA TraceStays ==
  ASSUME NEW q \in Proc, TraceOf(q), writers[q] \subseteq writers'[q],
         Contents(q)' = Contents(q), mem'[q].file = q => mem[q].file = q,
         mem'[q].callNo = mem[q].callNo, mem'[q].known = mem[q].known,
         mem'[q].num = mem[q].num,
         \A u \in Thread : /\ pc'[q][u] \in Begun <=> pc[q][u] \in Begun
                           /\ pc'[q][u] \in InCall => pc[q][u] \in InCall
                           /\ call'[q][u] = call[q][u]
  PROVE  TraceOf(q)'
<1>1. SUFFICES ASSUME writers'[q] \subseteq {q} PROVE TraceOf(q)'
  BY DEF TraceOf
<1>2. writers[q] \subseteq {q}
  BY <1>1
<1>3. WellFormed(Contents(q)')
  BY <1>2 DEF TraceOf
<1>4. ASSUME mem'[q].file = q
      PROVE  /\ Contents(q)' # << >> /\ Counts(Contents(q), mem[q])'
             /\ Complete(Contents(q), q)'
             /\ \A t \in Thread : pc'[q][t] \in InCall =>
                  Open(Contents(q)', t, call'[q][t])
  <2>1. /\ Contents(q) # << >> /\ Counts(Contents(q), mem[q])
        /\ Complete(Contents(q), q)
        /\ \A t \in Thread : pc[q][t] \in InCall =>
             Open(Contents(q), t, call[q][t])
    BY <1>2, <1>4 DEF TraceOf, InCall
  <2>2. Counts(Contents(q), mem[q])'
    BY <2>1 DEF Counts
  <2>3. Complete(Contents(q), q)'
    BY <2>1 DEF Complete
  <2>4. QED
    BY <2>1, <2>2, <2>3
<1>5. QED
  BY <1>3, <1>4 DEF TraceOf, InCall

LEMMA ContentsStay ==
  ASSUME NEW q \in Proc, disk'[q] = disk[q], Buffered(mem'[q]) = Buffered(mem[q]),
         mem'[q].file = mem[q].file, mem'[q].pid = mem[q].pid
  PROVE  Contents(q)' = Contents(q)
BY DEF Contents

LEMMA BufferStays ==
  ASSUME NEW q \in Proc, BufferOf(q), Buffered(mem'[q]) = Buffered(mem[q]),
         mem'[q].file = mem[q].file,
         \A u \in Thread : pc'[q][u] \in Begun <=> pc[q][u] \in Begun
  PROVE  BufferOf(q)'
BY DEF BufferOf, Complete

(* A step of another process.                                              *)
LEMMA TracesElsewhere ==
  ASSUME Types, Traces, NEW p \in Proc, NEW t \in Thread, OthersStay(p, t),
         NEW q \in Proc \ {p}, LeftAlone(q), call'[q] = call[q]
  PROVE  TraceOf(q)' /\ BufferOf(q)' /\ NumbersApart(mem'[q])
<1>1. /\ mem'[q] = mem[q] /\ TraceOf(q) /\ BufferOf(q) /\ NumbersApart(mem'[q])
      /\ \A u \in Thread : pc'[q][u] = pc[q][u]
  BY DEF LeftAlone, Traces, OthersStay
<1>2. BufferOf(q)'
  BY <1>1, BufferStays
<1>3. CASE Kept(q)
  <2>1. Contents(q)' = Contents(q)
    BY <1>1, <1>3, ContentsStay DEF Kept
  <2>2. TraceOf(q)'
    BY <1>1, <1>3, <2>1, TraceStays DEF Kept
  <2>3. QED
    BY <1>1, <1>2, <2>2
<1>4. CASE Spoiled(q)
  <2>1. TraceOf(q)'
    BY <1>4 DEF Spoiled, TraceOf
  <2>2. QED
    BY <1>1, <1>2, <2>1
<1>5. QED
  BY <1>3, <1>4 DEF LeftAlone

(* A step of p that neither writes nor flushes.                            *)
LEMMA TracesQuiet ==
  ASSUME Types, Traces, NEW p \in Proc, SameTracing(mem'[p], mem[p]), Kept(p),
         \A u \in Thread : /\ pc'[p][u] \in Begun <=> pc[p][u] \in Begun
                           /\ pc'[p][u] \in InCall => pc[p][u] \in InCall
                           /\ call'[p][u] = call[p][u]
  PROVE  TraceOf(p)' /\ BufferOf(p)' /\ NumbersApart(mem'[p])
<1>1. Buffered(mem'[p]) = Buffered(mem[p])
  BY DEF SameTracing, Buffered
<1>2. TraceOf(p) /\ BufferOf(p) /\ NumbersApart(mem'[p])
  BY DEF Traces, SameTracing, NumbersApart
<1>3. Contents(p)' = Contents(p)
  BY <1>1, ContentsStay DEF SameTracing, Kept
<1>4. TraceOf(p)'
  BY <1>2, <1>3, TraceStays DEF SameTracing, Kept
<1>5. BufferOf(p)'
  BY <1>1, <1>2, BufferStays DEF SameTracing
<1>6. QED
  BY <1>2, <1>4, <1>5

(* The trace of a process that has its own file open.                      *)
LEMMA OwnContents ==
  ASSUME Types, FilesKept, NEW p \in Proc
  PROVE  /\ mem[p].file = p => Contents(p) = disk[p] \o Buffered(mem[p])
         /\ mem[p].file # p => Contents(p) = disk[p]
<1>1. mem[p].file = p => mem[p].pid = p
  BY ProcFacts DEF FilesKept, FileOf
<1>2. disk[p] \o << >> = disk[p]
  BY MemoryOf, ConcatEmptySeq
<1>3. QED
  BY <1>1, <1>2 DEF Contents

(* Another thread cannot be in the middle of an event.                     *)
LEMMA OnlyBegun ==
  ASSUME Mutexes, NEW p \in Proc, NEW t \in Thread, mem[p].owner = t
  PROVE  \A u \in Thread : u # t => pc[p][u] \notin Inside /\ handler[p][u] # "flushing"
BY DEF Mutexes, MutexOf, Holding

LEMMA LastAppend ==
  ASSUME NEW s \in Seq(Event), NEW e \in Event
  PROVE  Last(Append(s, e)) = e
BY Appended DEF Last

(* After a write, what p holds ends with the event that was written.       *)
LEMMA BufferWritten ==
  ASSUME Types, NEW p \in Proc, NEW m \in Memory, NEW e \in Event, Writes(p, m, e),
         \/ e.kind = "end" /\ \A u \in Thread : pc'[p][u] \notin Begun
         \/ \E u \in Thread : /\ pc'[p][u] \in Begun /\ e.kind \in {"enter", "leave"}
                              /\ e.by = u
  PROVE  /\ \A s \in Seq(Event) : s = Append(disk[p] \o Buffered(m), e) => Complete(s, p)'
         /\ BufferOf(p)'
<1>1. \A s \in Seq(Event) : Last(s) = e => Complete(s, p)'
  BY DEF Complete
<1>2. disk[p] \o Buffered(m) \in Seq(Event) /\ Buffered(m) \in Seq(Event)
  BY MemoryOf, BufferedType, ConcatProperties
<1>3. /\ Last(Append(disk[p] \o Buffered(m), e)) = e
      /\ Last(Append(Buffered(m), e)) = e /\ Append(Buffered(m), e) \in Seq(Event)
  BY <1>2, LastAppend, AppendProperties
<1>4. BufferOf(p)'
  <2>1. Buffered(mem'[p]) = << >> \/ Buffered(mem'[p]) = Append(Buffered(m), e)
    BY DEF Writes
  <2>2. Complete(Append(Buffered(m), e), p)'
    BY <1>1, <1>3
  <2>3. QED
    BY <2>1, <2>2 DEF BufferOf, Complete
<1>5. QED
  BY <1>1, <1>3, <1>4

LEMMA BeginEnterTraces ==
  ASSUME Types, Mutexes, Places, FilesKept, Traces, NEW p \in Proc, NEW t \in Thread,
         BeginEnter(p, t)
  PROVE  TraceOf(p)' /\ BufferOf(p)' /\ NumbersApart(mem'[p])
<1> DEFINE m == FileReady(mem[p], p)
           n == Numbering(m, t)
           base == disk[p] \o Buffered(m)
<1>1. PICK fn \in Function :
         /\ FileTypes'
         /\ n \in Nat \ {0} /\ NextEnter(m, t, fn) \in Event
         /\ Writes(p, m, NextEnter(m, t, fn))
         /\ call' = [call EXCEPT ![p][t] = m.callNo]
         /\ mem'[p].file = p /\ mem'[p].pid = p
         /\ mem'[p].callNo = m.callNo + 1 /\ mem'[p].known = m.known \cup {fn}
         /\ mem'[p].num = [m.num EXCEPT ![t] = n]
         /\ mem'[p].nextNum = IF m.num[t] = 0 THEN m.nextNum + 1 ELSE m.nextNum
         /\ mem[p].owner = t
  BY BeginEnterEffect
<1> DEFINE e == NextEnter(m, t, fn)
<1>2. /\ OthersStay(p, t) /\ pc'[p][t] = "entered" /\ pc[p][t] = "entering"
      /\ alive[p] = "running"
  <2>1. OthersStay(p, t)
    BY ThreadStays DEF ThreadStep
  <2>2. Goto(p, t, "entered") /\ pc[p][t] = "entering" /\ alive[p] = "running"
    BY DEF BeginEnter, At
  <2>3. QED
    BY <2>1, <2>2, GotoEffect DEF Label
<1>3. /\ m \in Memory /\ m.num = mem[p].num /\ m.nextNum = mem[p].nextNum
      /\ mem[p].file = p => m = mem[p]
      /\ mem[p].file # p => /\ disk[p] = << >> /\ Buffered(m) = <<Version>>
                            /\ m.callNo = 0 /\ m.known = {}
  BY <1>2, ReadyEffect
<1>4. /\ m.num \in [Thread -> Nat] /\ m.nextNum \in Nat \ {0} /\ m.callNo \in Nat
      /\ mem'[p] \in Memory /\ call \in [Proc -> [Thread -> Nat]]
  BY <1>1, <1>3 DEF Memory, FileTypes, Types
<1>5. NumbersApart(m)
  BY <1>3 DEF Traces, NumbersApart
<1>6. /\ e.kind = "enter" /\ e.by = t
      /\ e \in Event
  BY <1>1, KindFacts DEF NextEnter
<1> HIDE DEF m, n, e
<1>7. NumbersApart(mem'[p])
  BY <1>1, <1>4, <1>5 DEF NumbersApart, n, Numbering
<1>8. \A u \in Thread : u # t => pc[p][u] \notin Begun /\ pc'[p][u] = pc[p][u]
  BY <1>1, <1>2, OnlyBegun DEF OthersStay, Inside, Begun
<1>9. /\ disk[p] \in Seq(Event) /\ Buffered(m) \in Seq(Event) /\ base \in Seq(Event)
      /\ Append(base, e) \in Seq(Event) /\ Append(base, e) # << >>
  BY <1>3, <1>6, MemoryOf, BufferedType, ConcatProperties, AppendProperties
<1>10. Contents(p)' = Append(base, e)
  BY <1>1 DEF Contents, Writes, e
<1>11. BufferOf(p)' /\ Complete(Contents(p), p)'
  <2>1. pc'[p][t] \in Begun
    BY <1>2 DEF Begun
  <2>2. Writes(p, m, e)
    BY <1>1 DEF e
  <2>3. /\ \A s \in Seq(Event) : s = Append(disk[p] \o Buffered(m), e) => Complete(s, p)'
        /\ BufferOf(p)'
    BY <1>3, <1>6, <2>1, <2>2, BufferWritten
  <2>4. \A s \in Seq(Event) : s = Contents(p)' => Complete(s, p)'
    BY <1>10, <2>3
  <2>5. QED
    BY <1>9, <1>10, <2>3, <2>4 DEF Complete
<1>12. ASSUME writers[p] \subseteq {p}
       PROVE  /\ WellFormed(base) /\ base # << >> /\ Last(base).kind \notin {"enter", "leave"}
              /\ Counts(base, m)
              /\ \A u \in Thread : u # t /\ pc[p][u] \in InCall => Open(base, u, call[p][u])
  <2>1. CASE mem[p].file = p
    <3>1. base = Contents(p) /\ m = mem[p]
      BY <1>3, <2>1, OwnContents
    <3>2. /\ WellFormed(base) /\ base # << >> /\ Counts(base, m) /\ Complete(base, p)
          /\ \A u \in Thread : pc[p][u] \in InCall => Open(base, u, call[p][u])
      BY <1>12, <2>1, <3>1 DEF Traces, TraceOf, InCall
    <3>3. \A u \in Thread : pc[p][u] \notin Begun
      BY <1>2, <1>8 DEF Begun
    <3>4. QED
      BY <3>2, <3>3 DEF Complete
  <2>2. CASE mem[p].file # p
    <3>1. base = <<Version>>
      BY <1>3, <1>9, <2>2, ConcatEmptySeq
    <3>2. /\ WellFormed(base) /\ base # << >> /\ Counts(base, m)
          /\ Last(base).kind = "version"
      BY <1>3, <2>2, <3>1, HeaderWellFormed
    <3>3. \A u \in Thread : pc[p][u] \notin InCall
      BY <2>2 DEF FilesKept, FileOf, InCall
    <3>4. QED
      BY <3>2, <3>3
  <2>3. QED
    BY <2>1, <2>2
<1> HIDE DEF base
<1>13. TraceOf(p)'
  <2>1. SUFFICES ASSUME writers'[p] \subseteq {p} PROVE TraceOf(p)'
    BY DEF TraceOf
  <2>2. writers[p] \subseteq {p}
    BY <1>1, <2>1 DEF Writes
  <2>3. /\ WellFormed(base) /\ base # << >> /\ Last(base).kind \notin {"enter", "leave"}
        /\ Counts(base, m)
        /\ \A u \in Thread : u # t /\ pc[p][u] \in InCall => Open(base, u, call[p][u])
    BY <1>12, <2>2
  <2>4. WellFormed(Append(base, e))
    BY <1>3, <1>5, <1>9, <2>3, AppendEnter DEF e
  <2>5. Counts(Append(base, e), mem'[p])
    BY <1>1, <1>3, <1>4, <1>9, <2>3, CountsEnter DEF e, n
  <2>6. Open(Append(base, e), t, m.callNo)
    BY <1>3, <1>6, <1>9, <2>3, OpenEnter DEF e
  <2>7. \A u \in Thread : pc'[p][u] \in InCall => Open(Append(base, e), u, call'[p][u])
    <3>1. ASSUME NEW u \in Thread, u # t, pc'[p][u] \in InCall
          PROVE  Open(Append(base, e), u, call'[p][u])
      <4>1. pc[p][u] \in InCall /\ call'[p][u] = call[p][u] /\ call[p][u] \in Nat
        BY <1>1, <1>4, <1>8, <3>1
      <4>2. Open(base, u, call[p][u])
        BY <2>3, <3>1, <4>1
      <4>3. QED
        BY <1>6, <1>9, <4>1, <4>2, OpenAppend
    <3>2. call'[p][t] = m.callNo
      BY <1>1, <1>4
    <3>3. QED
      BY <2>6, <3>1, <3>2
  <2>8. Counts(Contents(p), mem[p])'
    BY <1>10, <2>5 DEF Counts
  <2>9. QED
    BY <1>9, <1>10, <1>11, <2>4, <2>7, <2>8 DEF TraceOf, InCall
<1>14. QED
  BY <1>7, <1>11, <1>13

LEMMA BeginLeaveTraces ==
  ASSUME Types, Mutexes, Places, FilesKept, Traces, NEW p \in Proc, NEW t \in Thread,
         BeginLeave(p, t)
  PROVE  TraceOf(p)' /\ BufferOf(p)' /\ NumbersApart(mem'[p])
<1> DEFINE base == disk[p] \o Buffered(mem[p])
           no == call[p][t]
           e == Leave(t, no)
<1>1. /\ FileTypes' /\ e \in Event /\ Writes(p, mem[p], e)
      /\ mem'[p].file = mem[p].file /\ mem'[p].pid = mem[p].pid
      /\ mem'[p].callNo = mem[p].callNo /\ mem'[p].known = mem[p].known
      /\ mem'[p].num = mem[p].num /\ mem'[p].nextNum = mem[p].nextNum
      /\ mem[p].owner = t
  BY BeginLeaveEffect
<1>2. /\ OthersStay(p, t) /\ pc'[p][t] = "left" /\ pc[p][t] = "leaving"
      /\ alive[p] = "running" /\ call' = call
  BY ThreadStays, GotoEffect DEF BeginLeave, ThreadStep, At, Label
<1>3. mem[p].file = p /\ mem[p].pid = p
  BY <1>2, ProcFacts DEF FilesKept, FileOf
<1>4. /\ e.kind = "leave" /\ e.by = t /\ e.no = no
      /\ call \in [Proc -> [Thread -> Nat]] /\ no \in Nat
  BY KindFacts DEF Types
<1>5. NumbersApart(mem'[p])
  BY <1>1 DEF Traces, NumbersApart
<1>6. \A u \in Thread : u # t => pc[p][u] \notin Begun /\ pc'[p][u] = pc[p][u]
  BY <1>1, <1>2, OnlyBegun DEF OthersStay, Inside, Begun
<1>7. base = Contents(p) /\ base \in Seq(Event)
  BY <1>3, OwnContents, MemoryOf
<1> HIDE DEF e, no
<1>8. Append(base, e) \in Seq(Event) /\ Append(base, e) # << >>
  BY <1>1, <1>7, AppendProperties
<1>9. Contents(p)' = Append(base, e)
  BY <1>1, <1>3 DEF Contents, Writes
<1>10. BufferOf(p)' /\ Complete(Contents(p), p)'
  <2>1. pc'[p][t] \in Begun /\ mem[p] \in Memory
    BY <1>2, MemoryOf DEF Begun
  <2>2. /\ \A s \in Seq(Event) : s = Append(disk[p] \o Buffered(mem[p]), e) => Complete(s, p)'
        /\ BufferOf(p)'
    BY <1>1, <1>4, <2>1, BufferWritten
  <2>3. \A s \in Seq(Event) : s = Contents(p)' => Complete(s, p)'
    BY <1>9, <2>2
  <2>4. QED
    BY <1>8, <1>9, <2>2, <2>3 DEF Complete
<1> HIDE DEF base
<1>11. TraceOf(p)'
  <2>1. SUFFICES ASSUME writers'[p] \subseteq {p} PROVE TraceOf(p)'
    BY DEF TraceOf
  <2>2. writers[p] \subseteq {p}
    BY <1>1, <2>1 DEF Writes
  <2>3. /\ WellFormed(base) /\ base # << >> /\ Counts(base, mem[p]) /\ Complete(base, p)
        /\ \A u \in Thread : pc[p][u] \in InCall => Open(base, u, call[p][u])
    BY <1>3, <1>7, <2>2 DEF Traces, TraceOf, InCall
  <2>4. Last(base).kind \notin {"enter", "leave"}
    <3>1. \A u \in Thread : pc[p][u] \notin Begun
      BY <1>2, <1>6 DEF Begun
    <3>2. QED
      BY <2>3, <3>1 DEF Complete
  <2>5. Open(base, t, no)
    BY <1>2, <2>3 DEF InCall, no
  <2>6. WellFormed(Append(base, e))
    BY <1>4, <1>7, <2>3, <2>4, <2>5, AppendLeave DEF e, Open
  <2>7. Counts(Append(base, e), mem'[p])
    BY <1>1, <1>4, <1>7, <2>3, CountsOther
  <2>8. \A u \in Thread : pc'[p][u] \in InCall => Open(Append(base, e), u, call'[p][u])
    <3>1. SUFFICES ASSUME NEW u \in Thread, pc'[p][u] \in InCall
                   PROVE  Open(Append(base, e), u, call[p][u])
      BY <1>2
    <3>2. u # t /\ pc[p][u] \in InCall /\ call[p][u] \in Nat
      BY <1>2, <1>4, <1>6, <3>1 DEF InCall
    <3>3. Open(base, u, call[p][u])
      BY <2>3, <3>2
    <3>4. no # call[p][u]
      BY <1>4, <1>7, <2>3, <2>5, <3>2, <3>3, OpenApart
    <3>5. QED
      BY <1>1, <1>4, <1>7, <3>2, <3>3, <3>4, OpenAppend
  <2>9. Counts(Contents(p), mem[p])'
    BY <1>9, <2>7 DEF Counts
  <2>10. QED
    BY <1>8, <1>9, <1>10, <2>6, <2>8, <2>9 DEF TraceOf, InCall
<1>12. QED
  BY <1>5, <1>10, <1>11

LEMMA EndEventTraces ==
  ASSUME Types, Mutexes, Places, FilesKept, Traces, NEW p \in Proc, NEW t \in Thread,
         EndEvent(p, t)
  PROVE  TraceOf(p)' /\ BufferOf(p)' /\ NumbersApart(mem'[p])
<1> DEFINE base == disk[p] \o Buffered(mem[p])
           e == End(t)
<1>1. /\ FileTypes' /\ e \in Event /\ Writes(p, mem[p], e)
      /\ mem'[p].file = mem[p].file /\ mem'[p].pid = mem[p].pid
      /\ mem'[p].callNo = mem[p].callNo /\ mem'[p].known = mem[p].known
      /\ mem'[p].num = mem[p].num /\ mem'[p].nextNum = mem[p].nextNum
      /\ mem[p].owner = t
  BY EndEventEffect
<1>2. /\ OthersStay(p, t) /\ alive[p] = "running" /\ call' = call
      /\ \/ pc[p][t] = "entered" /\ pc'[p][t] = "leave"
         \/ pc[p][t] = "left" /\ pc'[p][t] = "idle"
  BY ThreadStays, GotoEffect DEF EndEvent, ThreadStep, At, Label
<1>3. mem[p].file = p /\ mem[p].pid = p
  BY <1>2, ProcFacts DEF FilesKept, FileOf
<1>4. e.kind = "end" /\ call \in [Proc -> [Thread -> Nat]]
  BY KindFacts DEF Types
<1>5. NumbersApart(mem'[p])
  BY <1>1 DEF Traces, NumbersApart
<1>6. \A u \in Thread : u # t => pc[p][u] \notin Begun /\ pc'[p][u] = pc[p][u]
  BY <1>1, <1>2, OnlyBegun DEF OthersStay, Inside, Begun
<1>7. base = Contents(p) /\ base \in Seq(Event)
  BY <1>3, OwnContents, MemoryOf
<1> HIDE DEF e
<1>8. Append(base, e) \in Seq(Event) /\ Append(base, e) # << >>
  BY <1>1, <1>7, AppendProperties, ZenonT(60)
<1>9. Contents(p)' = Append(base, e)
  BY <1>1, <1>3 DEF Contents, Writes
<1>10. BufferOf(p)' /\ Complete(Contents(p), p)'
  <2>1. mem[p] \in Memory /\ \A u \in Thread : pc'[p][u] \notin Begun
    BY <1>2, <1>6, MemoryOf DEF Begun
  <2>2. /\ \A s \in Seq(Event) : s = Append(disk[p] \o Buffered(mem[p]), e) => Complete(s, p)'
        /\ BufferOf(p)'
    BY <1>1, <1>4, <2>1, BufferWritten
  <2>3. \A s \in Seq(Event) : s = Contents(p)' => Complete(s, p)'
    BY <1>9, <2>2
  <2>4. QED
    BY <1>8, <1>9, <2>2, <2>3 DEF Complete
<1> HIDE DEF base
<1>11. TraceOf(p)'
  <2>1. SUFFICES ASSUME writers'[p] \subseteq {p} PROVE TraceOf(p)'
    BY DEF TraceOf
  <2>2. writers[p] \subseteq {p}
    BY <1>1, <2>1 DEF Writes
  <2>3. /\ WellFormed(base) /\ base # << >> /\ Counts(base, mem[p]) /\ Complete(base, p)
        /\ \A u \in Thread : pc[p][u] \in InCall => Open(base, u, call[p][u])
    BY <1>3, <1>7, <2>2 DEF Traces, TraceOf, InCall
  <2>4. Last(base).kind \in {"enter", "leave"} => Last(base).by = t
    BY <1>6, <2>3 DEF Complete
  <2>5. WellFormed(Append(base, e))
    BY <1>7, <2>3, <2>4, AppendEnd DEF e
  <2>6. Counts(Append(base, e), mem'[p])
    BY <1>1, <1>4, <1>7, <2>3, CountsOther
  <2>7. \A u \in Thread : pc'[p][u] \in InCall => Open(Append(base, e), u, call'[p][u])
    <3>1. SUFFICES ASSUME NEW u \in Thread, pc'[p][u] \in InCall
                   PROVE  Open(Append(base, e), u, call[p][u])
      BY <1>2
    <3>2. pc[p][u] \in InCall /\ call[p][u] \in Nat
      BY <1>2, <1>4, <1>6, <3>1 DEF InCall
    <3>3. Open(base, u, call[p][u])
      BY <2>3, <3>2
    <3>4. QED
      BY <1>1, <1>4, <1>7, <3>2, <3>3, OpenAppend
  <2>8. Counts(Contents(p), mem[p])'
    BY <1>9, <2>6 DEF Counts
  <2>9. QED
    BY <1>8, <1>9, <1>10, <2>5, <2>7, <2>8 DEF TraceOf, InCall
<1>12. QED
  BY <1>5, <1>10, <1>11

(* A flush moves what p holds to its file: the trace is the same.          *)
LEMMA FlushesTraces ==
  ASSUME Types, FilesKept, Traces, NEW p \in Proc, Flushes(p), mem[p].file = p,
         mem'[p].file \in {p, NoFile}, mem'[p].pid = mem[p].pid,
         mem'[p].callNo = mem[p].callNo \/ mem'[p].file = NoFile,
         mem'[p].known = mem[p].known \/ mem'[p].file = NoFile,
         mem'[p].num = mem[p].num, mem'[p].nextNum = mem[p].nextNum,
         \A u \in Thread : pc'[p][u] = pc[p][u] /\ call'[p][u] = call[p][u]
  PROVE  TraceOf(p)' /\ BufferOf(p)' /\ NumbersApart(mem'[p])
<1>1. NumbersApart(mem'[p]) /\ TraceOf(p)
  BY DEF Traces, NumbersApart
<1>2. BufferOf(p)'
  BY DEF BufferOf, Flushes
<1>3. Contents(p)' = Contents(p)
  <2>1. disk[p] \o Buffered(mem[p]) \in Seq(Event) /\ << >> \in Seq(Event)
    BY MemoryOf, ConcatProperties, EmptySeq
  <2>2. disk'[p] \o << >> = disk'[p] /\ disk'[p] = disk[p] \o Buffered(mem[p])
    BY <2>1, ConcatEmptySeq DEF Flushes
  <2>3. Contents(p) = disk[p] \o Buffered(mem[p])
    BY OwnContents
  <2>4. Buffered(mem'[p]) = << >>
    BY DEF Flushes
  <2>5. QED
    BY <2>2, <2>3, <2>4 DEF Contents
<1>4. writers[p] \subseteq writers'[p]
  BY DEF Flushes
<1>5. CASE mem'[p].file = p
  <2>1. mem'[p].callNo = mem[p].callNo /\ mem'[p].known = mem[p].known
    BY <1>5, ProcFacts
  <2>2. TraceOf(p)'
    BY <1>1, <1>3, <1>4, <2>1, TraceStays
  <2>3. QED
    BY <1>1, <1>2, <2>2
<1>6. CASE mem'[p].file = NoFile
  <2>1. TraceOf(p)'
    BY <1>1, <1>3, <1>4, <1>6, ProcFacts DEF TraceOf
  <2>2. QED
    BY <1>1, <1>2, <2>1
<1>7. QED
  BY <1>5, <1>6

LEMMA DestroyLocalTraces ==
  ASSUME Types, FilesKept, Ending, Traces, NEW p \in Proc, NEW t \in Thread,
         DestroyLocal(p, t)
  PROVE  TraceOf(p)' /\ BufferOf(p)' /\ NumbersApart(mem'[p])
<1>1. /\ OthersStay(p, t) /\ pc'[p][t] = "closing" /\ pc[p][t] = "exiting" /\ call' = call
  BY ThreadStays, GotoEffect DEF DestroyLocal, ThreadStep, At, Label
<1>2. /\ mem'[p].num = mem[p].num /\ mem'[p].nextNum = mem[p].nextNum /\ Kept(p)
      /\ \/ mem'[p] = mem[p]
         \/ /\ mem[p].file # p /\ disk[p] = << >>
            /\ mem'[p].file = p /\ mem'[p].pid = p /\ Buffered(mem'[p]) = <<Version>>
            /\ mem'[p].callNo = 0 /\ mem'[p].known = {}
  BY DestroyLocalEffect
<1>3. \A u \in Thread : pc'[p][u] \notin InCall \cup Begun /\ pc[p][u] \notin InCall \cup Begun
  <2>1. \A u \in Thread : u # t => pc[p][u] \in {"idle", "gone"}
    BY <1>1 DEF Ending, EndingOf
  <2>2. QED
    BY <1>1, <2>1 DEF OthersStay, InCall, Begun
<1>4. NumbersApart(mem'[p])
  BY <1>2 DEF Traces, NumbersApart
<1>5. CASE mem'[p] = mem[p]
  <2>1. SameTracing(mem'[p], mem[p])
    BY <1>5 DEF SameTracing
  <2>2. QED
    BY <1>1, <1>2, <1>3, <2>1, TracesQuiet
<1>6. CASE mem'[p] # mem[p]
  <2>1. /\ WellFormed(<<Version>>) /\ <<Version>> # << >> /\ <<Version>> \in Seq(Event)
        /\ Counts(<<Version>>, mem'[p]) /\ Last(<<Version>>).kind = "version"
    BY <1>2, <1>6, HeaderWellFormed
  <2>2. Contents(p)' = <<Version>>
    BY <1>2, <1>6, <2>1, ConcatEmptySeq DEF Contents, Kept
  <2>3. Complete(Contents(p), p)' /\ Complete(Buffered(mem[p]), p)'
    BY <1>2, <1>3, <1>6, <2>1, <2>2 DEF Complete
  <2>4. Counts(Contents(p), mem[p])'
    BY <2>1, <2>2 DEF Counts
  <2>5. QED
    BY <1>3, <1>4, <2>1, <2>2, <2>3, <2>4 DEF TraceOf, BufferOf, InCall
<1>7. QED
  BY <1>5, <1>6

LEMMA DestroyWriterTraces ==
  ASSUME Types, FilesKept, Traces, NEW p \in Proc, NEW t \in Thread,
         DestroyWriter(p, t)
  PROVE  TraceOf(p)' /\ BufferOf(p)' /\ NumbersApart(mem'[p])
<1>1. pc' = pc /\ call' = call
  BY DEF DestroyWriter
<1>2. /\ mem'[p].num = mem[p].num /\ mem'[p].nextNum = mem[p].nextNum
      /\ mem'[p].file = NoFile /\ mem'[p].pid = mem[p].pid
      /\ mem[p].file \in {p, NoFile}
      /\ IF mem[p].file = p THEN Flushes(p) ELSE Kept(p)
  BY DestroyWriterEffect
<1>3. CASE mem[p].file = p
  BY <1>1, <1>2, <1>3, FlushesTraces
<1>4. CASE mem[p].file # p
  <2>1. NumbersApart(mem'[p]) /\ TraceOf(p)
    BY <1>2 DEF Traces, NumbersApart
  <2>2. Contents(p) = disk[p] /\ disk[p] \o << >> = disk[p]
    BY <1>4, OwnContents, MemoryOf, ConcatEmptySeq
  <2>3. Contents(p)' = Contents(p)
    BY <1>2, <1>4, <2>2, ProcFacts DEF Contents, Kept
  <2>4. TraceOf(p)' /\ BufferOf(p)'
    BY <1>2, <1>4, <2>1, <2>3, ProcFacts DEF TraceOf, BufferOf, Kept
  <2>5. QED
    BY <2>1, <2>4
<1>5. QED
  BY <1>3, <1>4

(* The other steps of a thread leave its trace as it is.                   *)
LEMMA ThreadStepTraces ==
  ASSUME Types, Mutexes, Places, FilesKept, Ending, Traces,
         NEW p \in Proc, NEW t \in Thread, ThreadStep(p, t)
  PROVE  /\ TraceOf(p)' /\ BufferOf(p)' /\ NumbersApart(mem'[p])
         /\ \A q \in Proc \ {p} : call'[q] = call[q]
<1>1. OthersStay(p, t)
  BY ThreadStays
<1>2. \A q \in Proc \ {p} : call'[q] = call[q]
  <2>1. call' = call \/ call' = [call EXCEPT ![p][t] = FileReady(mem[p], p).callNo]
    BY Zenon DEF ThreadStep, CallFunction, Lock, BeginEnter, BeginLeave, EndEvent, Exit,
           DestroyLocal, DestroyWriter
  <2>2. QED
    BY <2>1, SMTT(40) DEF Types
<1>3. CASE CallFunction(p, t) \/ Lock(p, t) \/ Exit(p, t)
  <2>1. SameTracing(mem'[p], mem[p]) /\ Kept(p) /\ call' = call
    <3>1. CASE CallFunction(p, t)
      BY <3>1 DEF CallFunction, SameTracing, Kept
    <3>2. CASE Lock(p, t)
      BY <3>2, LockEffect DEF Lock, At, SameTracing, Kept
    <3>3. CASE Exit(p, t)
      BY <3>3, CallbackEffect DEF Exit, Kept
    <3>4. QED
      BY <1>3, <3>1, <3>2, <3>3
  <2>2. /\ pc[p][t] \notin Begun /\ pc'[p][t] \notin Begun
        /\ pc'[p][t] \in InCall => pc[p][t] \in InCall
    <3>1. CASE CallFunction(p, t)
      BY <3>1, GotoEffect DEF CallFunction, At, Label, InCall, Begun
    <3>2. CASE Lock(p, t)
      <4>1. PICK next \in {"enter", "leave"} :
              At(p, t, next)
              /\ Goto(p, t, IF next = "enter" THEN "entering" ELSE "leaving")
        BY <3>2 DEF Lock
      <4>2. QED
        BY <4>1, GotoEffect DEF At, Label, InCall, Begun
    <3>3. CASE Exit(p, t)
      BY <3>3, GotoEffect DEF Exit, At, Label, InCall, Begun
    <3>4. QED
      BY <1>3, <3>1, <3>2, <3>3
  <2>3. QED
    BY <1>1, <1>2, <2>1, <2>2, TracesQuiet DEF OthersStay
<1>4. QED
  BY <1>2, <1>3, BeginEnterTraces, BeginLeaveTraces, EndEventTraces,
     DestroyLocalTraces, DestroyWriterTraces DEF ThreadStep

LEMMA HandlerStepTraces ==
  ASSUME Types, Mutexes, Places, FilesKept, Traces,
         NEW p \in Proc, NEW t \in Thread,
         HandlerStep(p, t) \/ Signal(p, t) \/ SignalInHandler(p, t)
  PROVE  /\ TraceOf(p)' /\ BufferOf(p)' /\ NumbersApart(mem'[p])
         /\ \A q \in Proc : call'[q] = call[q]
<1>1. pc' = pc /\ call' = call
  <2>1. pc' = pc
    BY HandlerStays
  <2>2. call' = call
    BY DEF HandlerStep, Catch, FlushLock, Flush, LoadCount, StoreCount, ChainReturns, ChainKills,
           Signal, SignalInHandler, HandlerVars
  <2>3. QED
    BY <2>1, <2>2
<1>2. CASE Flush(p, t) /\ MayFlush(p)
  <2>1. /\ mem'[p].file = mem[p].file /\ mem'[p].pid = mem[p].pid
        /\ mem'[p].callNo = mem[p].callNo /\ mem'[p].known = mem[p].known
        /\ mem'[p].num = mem[p].num /\ mem'[p].nextNum = mem[p].nextNum
        /\ mem[p].file = p /\ Flushes(p)
    BY <1>2, FlushStepEffect
  <2>2. QED
    BY <1>1, <2>1, FlushesTraces
<1>3. CASE ~(Flush(p, t) /\ MayFlush(p))
  <2>1. Kept(p) /\ SameTracing(mem'[p], mem[p])
    BY <1>3, HandlerStepQuiet
  <2>2. QED
    BY <1>1, <2>1, TracesQuiet
<1>4. QED
  BY <1>2, <1>3

LEMMA TracesKept ==
  ASSUME Types, Mutexes, Places, FilesKept, Ending, Traces, [Next]_vars
  PROVE  Traces'
<1>1. CASE \E p \in Proc, t \in Thread :
             \/ ThreadStep(p, t)
             \/ HandlerStep(p, t) \/ Signal(p, t) \/ SignalInHandler(p, t)
  <2>1. PICK p \in Proc, t \in Thread :
             \/ ThreadStep(p, t)
             \/ HandlerStep(p, t) \/ Signal(p, t) \/ SignalInHandler(p, t)
    BY <1>1
  <2>2. /\ OthersStay(p, t) /\ \A q \in Proc \ {p} : LeftAlone(q)
    BY <2>1, ThreadStepFiles, HandlerStepFiles, ThreadStays, HandlerStays
  <2>3. /\ TraceOf(p)' /\ BufferOf(p)' /\ NumbersApart(mem'[p])
        /\ \A q \in Proc \ {p} : call'[q] = call[q]
    BY <2>1, ThreadStepTraces, HandlerStepTraces
  <2>4. \A q \in Proc \ {p} : TraceOf(q)' /\ BufferOf(q)' /\ NumbersApart(mem'[q])
    BY <2>2, <2>3, TracesElsewhere
  <2>5. QED
    BY <2>3, <2>4 DEF Traces
<1>2. CASE \E t \in Thread : Fork(t)
  <2>1. PICK t \in Thread : Fork(t)
    BY <1>2
  <2>2. /\ mem'[Child] = mem[Parent] /\ mem'[Parent] = mem[Parent]
        /\ pc' = [pc EXCEPT ![Child] = [pc[Child] EXCEPT ![t] = "idle"]]
        /\ alive[Child] = "unborn" /\ UNCHANGED <<call, disk, writers>>
    BY <2>1, ForkEffect
  <2>3. pc'[Parent] = pc[Parent]
    BY <2>2, ProcFacts DEF Types
  <2>4. TraceOf(Parent)' /\ BufferOf(Parent)' /\ NumbersApart(mem'[Parent])
    <3>1. SameTracing(mem'[Parent], mem[Parent]) /\ Kept(Parent)
      BY <2>2 DEF SameTracing, Kept
    <3>2. QED
      BY <2>2, <2>3, <3>1, ProcFacts, TracesQuiet
  <2>5. mem'[Child].file # Child /\ disk'[Child] = << >>
    BY <2>2, ProcFacts DEF FilesKept, FileOf
  <2>6. Contents(Child)' = << >>
    <3>1. << >> \o << >> = << >>
      BY EmptySeq, ConcatEmptySeq
    <3>2. QED
      BY <2>5, <3>1 DEF Contents
  <2>7. TraceOf(Child)' /\ BufferOf(Child)' /\ NumbersApart(mem'[Child])
    BY <2>2, <2>5, <2>6, EmptyWellFormed, ProcFacts
       DEF Traces, TraceOf, BufferOf, NumbersApart
  <2>8. QED
    BY <2>4, <2>7, ProcFacts DEF Traces
<1>3. CASE UNCHANGED vars
  <2>1. \A p \in Proc : SameTracing(mem'[p], mem[p]) /\ Kept(p)
    BY <1>3 DEF vars, SameTracing, Kept
  <2>2. \A p \in Proc : TraceOf(p)' /\ BufferOf(p)' /\ NumbersApart(mem'[p])
    BY <1>3, <2>1, TracesQuiet DEF vars
  <2>3. QED
    BY <2>2 DEF Traces
<1>4. QED
  BY <1>1, <1>2, <1>3 DEF Next, Stopped

-----------------------------------------------------------------------------
(* Layer 6: the signals.                                                   *)

(* What a process has written never gets shorter.                          *)
Grows(q) ==
  Len(disk[q]) <= Len(disk'[q]) /\ Len(Contents(q)) <= Len(Contents(q)')

LEMMA ContentsLength ==
  ASSUME Types, FilesKept, NEW p \in Proc
  PROVE  /\ Len(disk[p]) \in Nat /\ Len(Buffered(mem[p])) \in Nat
         /\ mem[p].file = p => Len(Contents(p)) = Len(disk[p]) + Len(Buffered(mem[p]))
         /\ mem[p].file # p => Len(Contents(p)) = Len(disk[p])
<1>1. /\ disk[p] \in Seq(Event) /\ Len(disk[p]) \in Nat
      /\ Buffered(mem[p]) \in Seq(Event) /\ Len(Buffered(mem[p])) \in Nat
  BY MemoryOf
<1>2. Len(disk[p] \o Buffered(mem[p])) = Len(disk[p]) + Len(Buffered(mem[p]))
  BY <1>1, ConcatProperties
<1>3. QED
  BY <1>1, <1>2, OwnContents

LEMMA NextContentsLength ==
  ASSUME Types', FilesKept', NEW p \in Proc
  PROVE  /\ Len(disk'[p]) \in Nat /\ Len(Buffered(mem'[p])) \in Nat
         /\ disk'[p] \in Seq(Event) /\ Buffered(mem'[p]) \in Seq(Event)
         /\ mem'[p].file = p =>
              Len(Contents(p)') = Len(disk'[p]) + Len(Buffered(mem'[p]))
         /\ mem'[p].file # p => Len(Contents(p)') = Len(disk'[p])
<1>1. disk'[p] \in Seq(Event) /\ mem'[p] \in Memory
  BY DEF Types
<1>2. Buffered(mem'[p]) \in Seq(Event) /\ Len(Buffered(mem'[p])) \in Nat
  BY <1>1, BufferedType
<1>3. Len(disk'[p]) \in Nat /\ disk'[p] \o << >> = disk'[p]
  BY <1>1, LenProperties, ConcatEmptySeq
<1>4. Len(disk'[p] \o Buffered(mem'[p])) = Len(disk'[p]) + Len(Buffered(mem'[p]))
  BY <1>1, <1>2, ConcatProperties
<1>5. mem'[p].file = p => mem'[p].pid = p
  BY ProcFacts DEF FilesKept, FileOf
<1>6. QED
  BY <1>1, <1>2, <1>3, <1>4, <1>5 DEF Contents

LEMMA Sums ==
  \A i, j, k \in Nat : /\ i <= j => i + k <= j + k
                       /\ i <= i + k /\ i <= i /\ i + k \in Nat
                       /\ i <= j /\ j <= k => i <= k
OBVIOUS

LEMMA NextContentsNat ==
  ASSUME Types', FilesKept', NEW p \in Proc
  PROVE  Len(Contents(p)') \in Nat
<1>1. /\ Len(disk'[p]) \in Nat /\ Len(Buffered(mem'[p])) \in Nat
      /\ mem'[p].file = p =>
            Len(Contents(p)') = Len(disk'[p]) + Len(Buffered(mem'[p]))
      /\ mem'[p].file # p => Len(Contents(p)') = Len(disk'[p])
  BY NextContentsLength
<1>2. Len(disk'[p]) + Len(Buffered(mem'[p])) \in Nat
  BY <1>1, Sums, Zenon
<1>3. QED
  BY <1>1, <1>2

LEMMA GrowsElsewhere ==
  ASSUME Types, FilesKept, Types', FilesKept', NEW q \in Proc, LeftAlone(q)
  PROVE  Grows(q)
<1>1. mem'[q] = mem[q] /\ Len(disk[q]) <= Len(disk'[q])
  BY ContentsLength DEF LeftAlone, Kept, Spoiled
<1>2. /\ Len(disk[q]) \in Nat /\ Len(disk'[q]) \in Nat /\ Len(Buffered(mem[q])) \in Nat
  BY ContentsLength, NextContentsLength
<1>3. CASE mem[q].file = q
  <2>1. /\ Len(Contents(q)) = Len(disk[q]) + Len(Buffered(mem[q]))
        /\ Len(Contents(q)') = Len(disk'[q]) + Len(Buffered(mem[q]))
    BY <1>1, <1>3, ContentsLength, NextContentsLength
  <2>2. QED
    BY <1>1, <1>2, <2>1, Sums DEF Grows
<1>4. CASE mem[q].file # q
  BY <1>1, <1>4, ContentsLength, NextContentsLength DEF Grows
<1>5. QED
  BY <1>3, <1>4

LEMMA GrowsQuietly ==
  ASSUME Types, FilesKept, Types', FilesKept', NEW p \in Proc,
         Kept(p), SameTracing(mem'[p], mem[p])
  PROVE  Grows(p)
<1>1. Buffered(mem'[p]) = Buffered(mem[p]) /\ mem'[p].file = mem[p].file
  BY DEF SameTracing, Buffered
<1>2. Contents(p)' = Contents(p) /\ disk'[p] = disk[p]
  BY <1>1, ContentsStay DEF SameTracing, Kept
<1>3. QED
  BY <1>2, MemoryOf, Sums DEF Grows

LEMMA GrowsByWriting ==
  ASSUME Types, FilesKept, Types', FilesKept', NEW p \in Proc,
         NEW m \in Memory, NEW e \in Event, Writes(p, m, e), mem'[p].file = p,
         mem[p].file = p => m = mem[p],
         mem[p].file # p => disk[p] = << >>
  PROVE  Grows(p)
<1>1. /\ disk[p] \in Seq(Event) /\ Buffered(m) \in Seq(Event)
      /\ disk[p] \o Buffered(m) \in Seq(Event) /\ Len(Buffered(m)) \in Nat
      /\ Len(disk[p]) \in Nat
      /\ Len(disk[p] \o Buffered(m)) = Len(disk[p]) + Len(Buffered(m))
  BY MemoryOf, BufferedType, ConcatProperties
<1>2. /\ disk'[p] \in Seq(Event) /\ Buffered(mem'[p]) \in Seq(Event)
      /\ Len(disk'[p]) \in Nat /\ Len(Buffered(mem'[p])) \in Nat
      /\ Len(disk'[p] \o Buffered(mem'[p])) = Len(disk'[p]) + Len(Buffered(mem'[p]))
  BY NextContentsLength, ConcatProperties
<1>3. Len(disk'[p]) + Len(Buffered(mem'[p])) = Len(disk[p]) + Len(Buffered(m)) + 1
  <2>1. Len(Append(disk[p] \o Buffered(m), e)) = Len(disk[p] \o Buffered(m)) + 1
    BY <1>1, AppendProperties
  <2>2. QED
    BY <1>1, <1>2, <2>1 DEF Writes
<1>4. mem[p].file # p => Len(disk[p]) = 0
  BY EmptySeq
<1>5. Len(disk[p]) <= Len(disk'[p])
  BY DEF Writes
<1>6. Len(Contents(p)) <= Len(disk[p]) + Len(Buffered(m))
  <2>1. CASE mem[p].file = p
    <3>1. Len(Contents(p)) = Len(disk[p]) + Len(Buffered(m))
      BY <2>1, ContentsLength
    <3>2. Len(disk[p]) + Len(Buffered(m)) <= Len(disk[p]) + Len(Buffered(m))
      BY <1>1
    <3>3. QED
      BY <3>1, <3>2
  <2>2. CASE mem[p].file # p
    BY <1>1, <2>2, ContentsLength, Sums
  <2>3. QED
    BY <2>1, <2>2
<1>7. Len(Contents(p)') = Len(disk'[p]) + Len(Buffered(mem'[p]))
  BY NextContentsLength
<1>8. Len(Contents(p)) \in Nat
  BY MemoryOf
<1>9. Len(disk[p]) + Len(Buffered(m)) \in Nat
  BY <1>1
<1>10. Len(Contents(p)) <= Len(Contents(p)')
  <2>1. \A i, j \in Nat : i <= j => i <= j + 1
    OBVIOUS
  <2>2. Len(Contents(p)) <= Len(disk[p]) + Len(Buffered(m)) + 1
    BY <1>6, <1>8, <1>9, <2>1, Zenon
  <2>3. QED
    BY <1>3, <1>7, <2>2
<1>11. QED
  BY <1>5, <1>10 DEF Grows

(* A flush leaves all that was written on the disk.                        *)
LEMMA GrowsByFlushing ==
  ASSUME Types, FilesKept, Types', FilesKept', NEW p \in Proc,
         Flushes(p), mem[p].file = p
  PROVE  Grows(p) /\ Len(Contents(p)) = Len(disk'[p])
<1>1. Len(disk'[p]) = Len(disk[p]) + Len(Buffered(mem[p]))
  BY MemoryOf, ConcatProperties DEF Flushes
<1>2. Len(Contents(p)) = Len(disk[p]) + Len(Buffered(mem[p])) /\ Len(disk[p]) \in Nat
      /\ Len(Buffered(mem[p])) \in Nat
  BY ContentsLength
<1>3. Len(disk'[p]) <= Len(Contents(p)')
  <2>1. CASE mem'[p].file = p
    <3>1. /\ Len(Contents(p)') = Len(disk'[p]) + Len(Buffered(mem'[p]))
          /\ Len(disk'[p]) \in Nat /\ Len(Buffered(mem'[p])) \in Nat
      BY <2>1, NextContentsLength
    <3>2. Len(disk'[p]) <= Len(disk'[p]) + Len(Buffered(mem'[p]))
      BY <3>1, Sums
    <3>3. QED
      BY <3>1, <3>2
  <2>2. CASE mem'[p].file # p
    BY <2>2, NextContentsLength, Sums
  <2>3. QED
    BY <2>1, <2>2
<1>4. QED
  BY <1>1, <1>2, <1>3 DEF Grows, Flushes

LEMMA ThreadStepGrows ==
  ASSUME Types, Mutexes, Places, FilesKept, Ending, Types', FilesKept',
         NEW p \in Proc, NEW t \in Thread, ThreadStep(p, t)
  PROVE  \A q \in Proc : Grows(q)
<1>1. \A q \in Proc \ {p} : LeftAlone(q)
  BY ThreadStepFiles
<1>2. alive[p] = "running" /\ FileOf(p) /\ mem[p] \in Memory
  BY ThreadStepAlive DEF FilesKept, Types
<1>3. mem[p].file # p => disk[p] = << >>
  BY <1>2 DEF FileOf
<1>4. Grows(p)
  <2>1. CASE CallFunction(p, t)
    BY <2>1, GrowsQuietly DEF CallFunction, SameTracing, Kept
  <2>2. CASE Lock(p, t)
    <3>1. SameTracing(mem'[p], mem[p])
      BY <2>2, LockEffect DEF Lock, At
    <3>2. QED
      BY <2>2, <3>1, GrowsQuietly DEF Lock, Kept
  <2>3. CASE BeginEnter(p, t)
    <3>1. PICK fn \in Function :
            /\ NextEnter(FileReady(mem[p], p), t, fn) \in Event
            /\ Writes(p, FileReady(mem[p], p), NextEnter(FileReady(mem[p], p), t, fn))
            /\ mem'[p].file = p
      BY <2>3, BeginEnterEffect
    <3>2. /\ FileReady(mem[p], p) \in Memory
          /\ mem[p].file = p => FileReady(mem[p], p) = mem[p]
      BY <1>2, ReadyEffect
    <3>3. QED
      BY <1>3, <3>1, <3>2, GrowsByWriting
  <2>4. CASE BeginLeave(p, t)
    <3>1. pc[p][t] = "leaving"
      BY <2>4 DEF BeginLeave, At
    <3>2. mem[p].file = p
      BY <1>2, <3>1 DEF FileOf
    <3>3. /\ Leave(t, call[p][t]) \in Event
          /\ Writes(p, mem[p], Leave(t, call[p][t])) /\ mem'[p].file = p
      BY <2>4, <3>2, BeginLeaveEffect
    <3>4. QED
      BY <1>2, <3>2, <3>3, GrowsByWriting
  <2>5. CASE EndEvent(p, t)
    <3>1. pc[p][t] \in {"entered", "left"}
      BY <2>5 DEF EndEvent, At
    <3>2. mem[p].file = p
      BY <1>2, <3>1 DEF FileOf
    <3>3. /\ End(t) \in Event
          /\ Writes(p, mem[p], End(t)) /\ mem'[p].file = p
      BY <2>5, <3>2, EndEventEffect
    <3>4. QED
      BY <1>2, <3>2, <3>3, GrowsByWriting
  <2>6. CASE Exit(p, t)
    <3>1. SameTracing(mem'[p], mem[p])
      BY <2>6, CallbackEffect DEF Exit
    <3>2. QED
      BY <2>6, <3>1, GrowsQuietly DEF Exit, Kept
  <2>7. CASE DestroyLocal(p, t)
    <3>1. Kept(p) /\ (mem'[p] = mem[p] \/ mem[p].file # p)
      BY <2>7, DestroyLocalEffect
    <3>2. CASE mem'[p] = mem[p]
      BY <3>1, <3>2, GrowsQuietly DEF SameTracing
    <3>3. CASE mem[p].file # p
      <4>1. Contents(p) = << >> /\ Len(disk[p]) \in Nat
        BY <1>3, <3>3, OwnContents, MemoryOf
      <4>2. Len(Contents(p)) = 0 /\ Len(Contents(p)') \in Nat
        <5>1. Len(disk'[p]) \in Nat /\ Len(Buffered(mem'[p])) \in Nat
          BY NextContentsLength
        <5>2. Len(disk'[p]) + Len(Buffered(mem'[p])) \in Nat
          BY <5>1, Sums, Zenon
        <5>3. QED
          BY <4>1, <5>1, <5>2, NextContentsLength, EmptySeq
      <4>3. QED
        BY <3>1, <4>1, <4>2 DEF Grows, Kept
    <3>4. QED
      BY <3>1, <3>2, <3>3
  <2>8. CASE DestroyWriter(p, t)
    <3>1. /\ mem'[p].file = NoFile /\ mem[p].file \in {p, NoFile}
          /\ IF mem[p].file = p THEN Flushes(p) ELSE Kept(p)
      BY <2>8, DestroyWriterEffect
    <3>2. CASE mem[p].file = p
      BY <3>1, <3>2, GrowsByFlushing
    <3>3. CASE mem[p].file # p
      <4>1. Contents(p) = disk[p] /\ disk'[p] = disk[p] /\ Len(disk[p]) \in Nat
        BY <3>1, <3>3, OwnContents, MemoryOf DEF Kept
      <4>2. Len(Contents(p)') = Len(disk'[p])
        BY <3>1, NextContentsLength, ProcFacts
      <4>3. QED
        BY <4>1, <4>2, Sums DEF Grows
    <3>4. QED
      BY <3>2, <3>3
  <2>9. QED
    BY <2>1, <2>2, <2>3, <2>4, <2>5, <2>6, <2>7, <2>8 DEF ThreadStep
<1>5. QED
  BY <1>1, <1>4, GrowsElsewhere

LEMMA HandlerStepGrows ==
  ASSUME Types, Mutexes, Places, FilesKept, Types', FilesKept',
         NEW p \in Proc, NEW t \in Thread,
         HandlerStep(p, t) \/ Signal(p, t) \/ SignalInHandler(p, t)
  PROVE  \A q \in Proc : Grows(q)
<1>1. \A q \in Proc \ {p} : LeftAlone(q)
  BY HandlerStepFiles
<1>2. CASE Flush(p, t) /\ MayFlush(p)
  <2>1. mem[p].file = p /\ Flushes(p)
    BY <1>2, FlushStepEffect
  <2>2. QED
    BY <1>1, <2>1, GrowsByFlushing, GrowsElsewhere
<1>3. CASE ~(Flush(p, t) /\ MayFlush(p))
  <2>1. Kept(p) /\ SameTracing(mem'[p], mem[p])
    BY <1>3, HandlerStepQuiet
  <2>2. QED
    BY <1>1, <2>1, GrowsQuietly, GrowsElsewhere
<1>4. QED
  BY <1>2, <1>3

(* A flush that a thread outside any write asks for reaches the disk, or   *)
(* nothing is held that it should write.                                   *)
LEMMA FlushReaches ==
  ASSUME Types, Mutexes, Places, FilesKept, Types', FilesKept',
         NEW p \in Proc, NEW t \in Thread, Flush(p, t), pc[p][t] \notin Inside,
         NEW n \in Nat, n <= Len(Contents(p))
  PROVE  n <= Len(disk'[p])
<1>1. mem[p].acquired = 0
  <2>1. handler[p][t] = "flushing" /\ pc[p][t] \notin Begun
    BY DEF Flush, In, Inside, Begun
  <2>2. QED
    BY <2>1, Holder
<1>2. CASE MayFlush(p)
  <2>1. mem[p].file = p /\ Flushes(p)
    BY <1>2, FlushStepEffect
  <2>2. QED
    BY <2>1, GrowsByFlushing
<1>3. CASE ~MayFlush(p)
  <2>1. mem[p].file # p
    BY <1>1, <1>3, ProcFacts DEF MayFlush, FilesKept, FileOf
  <2>2. Contents(p) = disk[p] /\ disk'[p] = disk[p]
    BY <1>3, <2>1, OwnContents, FlushStepEffect DEF Kept
  <2>3. QED
    BY <2>2
<1>4. QED
  BY <1>2, <1>3

(* What a step of a thread does that a handler can notice.                 *)
LEMMA ThreadStepHandling ==
  ASSUME Types, Mutexes, Places, FilesKept, NEW p \in Proc, NEW t \in Thread,
         ThreadStep(p, t)
  PROVE  /\ handler[p][t] = "none" /\ handler' = handler /\ mark' = mark
         /\ \A q \in Proc : SameCount(mem'[q], mem[q])
         /\ Exit(p, t) \/ mem'[p].callback = mem[p].callback
         /\ \A q \in Proc \ {p} : mem'[q].callback = mem[q].callback
<1>1. handler' = handler
  BY ThreadStays
<1>2. CASE CallFunction(p, t)
  <2>1. handler[p][t] = "none" /\ mark' = mark
    BY <1>2 DEF CallFunction, At, ThreadVars
  <2>2. QED
    BY <1>1, <1>2, <2>1 DEF CallFunction, SameCount
<1>3. CASE Lock(p, t)
  <2>1. handler[p][t] = "none" /\ mark' = mark
    BY <1>3 DEF Lock, At, ThreadVars
  <2>2. QED
    BY <1>1, <1>3, <2>1, LockEffect DEF Lock, At, SameHandler, SameCount
<1>4. CASE BeginEnter(p, t)
  <2>1. handler[p][t] = "none" /\ mark' = mark
    BY <1>4 DEF BeginEnter, At, ThreadVars
  <2>2. QED
    BY <1>1, <1>4, <2>1, BeginEnterEffect DEF Writes, LeftAlone, SameHandler, SameCount
<1>5. CASE BeginLeave(p, t)
  <2>1. handler[p][t] = "none" /\ mark' = mark
    BY <1>5 DEF BeginLeave, At, ThreadVars
  <2>2. QED
    BY <1>1, <1>5, <2>1, BeginLeaveEffect DEF Writes, LeftAlone, SameHandler, SameCount
<1>6. CASE EndEvent(p, t)
  <2>1. handler[p][t] = "none" /\ mark' = mark
    BY <1>6 DEF EndEvent, At, ThreadVars
  <2>2. QED
    BY <1>1, <1>6, <2>1, EndEventEffect DEF Writes, LeftAlone, SameHandler, SameCount
<1>7. CASE Exit(p, t)
  <2>1. handler[p][t] = "none" /\ mark' = mark
    BY <1>7 DEF Exit, At, ThreadVars
  <2>2. QED
    BY <1>1, <1>7, <2>1, CallbackEffect DEF Exit
<1>8. CASE DestroyLocal(p, t)
  <2>1. handler[p][t] = "none" /\ mark' = mark
    BY <1>8 DEF DestroyLocal, At, ThreadVars
  <2>2. QED
    BY <1>1, <1>8, <2>1, DestroyLocalEffect DEF LeftAlone, SameHandler, SameCount
<1>9. CASE DestroyWriter(p, t)
  <2>1. handler[p][t] = "none" /\ mark' = mark
    BY <1>9 DEF DestroyWriter, At
  <2>2. QED
    BY <1>1, <1>9, <2>1, DestroyWriterEffect DEF SameHandler, SameCount
<1>10. QED
  BY <1>2, <1>3, <1>4, <1>5, <1>6, <1>7, <1>8, <1>9 DEF ThreadStep

(* A step that another thread or the child takes.                          *)
LEMMA MarkElsewhere ==
  ASSUME Types, FilesKept, NEW t \in Thread, MarkKept(t), Grows(Parent),
         handler'[Parent] = handler[Parent], mark'[Parent] = mark[Parent],
         handler[Parent][t] # "none" => pc'[Parent][t] = pc[Parent][t],
         handler[Parent][t] # "none" => mem'[Parent].callback = mem[Parent].callback,
         Types', FilesKept'
  PROVE  MarkKept(t)'
<1>1. /\ mark[Parent][t] \in Nat /\ Len(disk[Parent]) \in Nat
      /\ Len(disk'[Parent]) \in Nat /\ Len(Contents(Parent)) \in Nat
  <2>1. mark[Parent][t] \in Nat
    BY ProcFacts DEF Types
  <2>2. QED
    BY <2>1, MemoryOf, NextContentsLength, ProcFacts
<1>2. Len(Contents(Parent)') \in Nat
  BY NextContentsNat, ProcFacts
<1>3. /\ mark[Parent][t] <= Len(disk[Parent]) => mark[Parent][t] <= Len(disk'[Parent])
      /\ mark[Parent][t] <= Len(Contents(Parent)) =>
           mark[Parent][t] <= Len(Contents(Parent)')
  BY <1>1, <1>2, Sums, Zenon DEF Grows
<1>4. QED
  BY <1>3 DEF MarkKept

LEMMA ThreadStepMarks ==
  ASSUME Types, Mutexes, Places, FilesKept, Ending, Handlers, ~EarlyExit,
         Types', FilesKept', NEW p \in Proc, NEW t \in Thread, ThreadStep(p, t)
  PROVE  Handlers'
<1>1. /\ handler[p][t] = "none" /\ handler' = handler /\ mark' = mark
      /\ \A q \in Proc : SameCount(mem'[q], mem[q])
      /\ Exit(p, t) \/ mem'[p].callback = mem[p].callback
      /\ \A q \in Proc \ {p} : mem'[q].callback = mem[q].callback
  BY ThreadStepHandling
<1>2. OthersStay(p, t) /\ Grows(Parent)
  BY ThreadStays, ThreadStepGrows, ProcFacts
<1>3. CASE p = Parent /\ Exit(p, t)
  <2>1. \A u \in Thread : handler[Parent][u] = "none"
    BY <1>3 DEF Exit, Done, Places
  <2>2. QED
    BY <1>1, <2>1 DEF Handlers, MarkKept
<1>4. CASE ~(p = Parent /\ Exit(p, t))
  <2>1. SUFFICES ASSUME ~mem'[Parent].raced, NEW u \in Thread PROVE MarkKept(u)'
    BY DEF Handlers
  <2>2. MarkKept(u)
    BY <1>1, <2>1, ProcFacts DEF Handlers, SameCount
  <2>3. handler[Parent][u] # "none" => pc'[Parent][u] = pc[Parent][u]
    BY <1>1, <1>2, ProcFacts DEF OthersStay
  <2>4. mem'[Parent].callback = mem[Parent].callback
    BY <1>1, <1>4, ProcFacts
  <2>5. QED
    BY <1>1, <1>2, <2>2, <2>3, <2>4, ProcFacts, MarkElsewhere
<1>5. QED
  BY <1>3, <1>4

(* The handlers of the child do not touch those of the parent.             *)
LEMMA ParentStays ==
  ASSUME Types, NEW p \in Proc, p # Parent, NEW t \in Thread,
         HandlerStep(p, t) \/ Signal(p, t) \/ SignalInHandler(p, t)
  PROVE  handler'[Parent] = handler[Parent] /\ mark'[Parent] = mark[Parent]
<1>1. handler'[Parent] = handler[Parent]
  <2>1. handler' = handler \/ \E label \in HandlerLabel : GotoHandler(p, t, label)
    <3>1. CASE CountSteps(p, t)
      BY <3>1 DEF CountSteps, Catch, LoadCount, StoreCount, HandlerLabel, Passed
    <3>2. CASE ~CountSteps(p, t)
      BY <3>2 DEF HandlerStep, CountSteps, FlushLock, Flush, ChainReturns, ChainKills,
                  Signal, SignalInHandler, HandlerLabel, Passed
    <3>3. QED
      BY <3>1, <3>2
  <2>2. QED
    BY <2>1, ProcFacts DEF Types, GotoHandler
<1>2. mark'[Parent] = mark[Parent]
  <2>1. CASE HandlerStep(p, t)
    BY <2>1 DEF HandlerStep, Catch, FlushLock, Flush, LoadCount, StoreCount, ChainReturns, ChainKills
  <2>2. CASE Signal(p, t)
    BY <2>2, ProcFacts DEF Signal, Types
  <2>3. CASE SignalInHandler(p, t)
    BY <2>3, ProcFacts DEF SignalInHandler, Types
  <2>4. QED
    BY <2>1, <2>2, <2>3
<1>3. QED
  BY <1>1, <1>2

(* The other steps of a handler, and what they leave alone.                *)
LEMMA FlushMoves ==
  ASSUME Types, Mutexes, Places, FilesKept, NEW p \in Proc, NEW t \in Thread,
         HandlerStep(p, t) \/ Signal(p, t) \/ SignalInHandler(p, t), ~CountSteps(p, t)
  PROVE  /\ SameHandler(mem'[p], mem[p])
         /\ \/ handler[p][t] = "none" /\ handler'[p][t] = "caught"
            \/ handler[p][t] = "flush" /\ handler'[p][t] = "flushing"
            \/ handler[p][t] = "flushing" /\ handler'[p][t] = "flushed"
            \/ handler[p][t] = "chain" /\ handler'[p][t] = "none"
            \/ handler'[p][t] = handler[p][t]
<1>1. CASE FlushLock(p, t)
  <2>1. pc[p][t] # "gone" /\ handler[p][t] # "flushing"
    BY <1>1 DEF FlushLock, In, Places
  <2>2. SameHandler(mem'[p], mem[p])
    BY <1>1, <2>1, LockEffect DEF FlushLock
  <2>3. QED
    BY <1>1, <2>2, GotoHandlerEffect DEF FlushLock, In, HandlerLabel, Passed
<1>2. CASE Flush(p, t)
  <2>1. SameHandler(mem'[p], mem[p])
    BY <1>2, FlushStepEffect
  <2>2. QED
    BY <1>2, <2>1, GotoHandlerEffect DEF Flush, In, HandlerLabel, Passed
<1>3. CASE ChainReturns(p, t) \/ Signal(p, t)
  BY <1>3, GotoHandlerEffect DEF ChainReturns, Signal, In, HandlerLabel, SameHandler
<1>4. CASE ChainKills(p, t) \/ SignalInHandler(p, t)
  BY <1>4 DEF ChainKills, SignalInHandler, SameHandler
<1>5. QED
  BY <1>1, <1>2, <1>3, <1>4 DEF HandlerStep, CountSteps

LEMMA HandlerStepCount ==
  ASSUME Types, Mutexes, Places, FilesKept, NEW p \in Proc, NEW t \in Thread,
         HandlerStep(p, t) \/ Signal(p, t) \/ SignalInHandler(p, t)
  PROVE  /\ mem'[p].callback = mem[p].callback
         /\ mem[p].raced => mem'[p].raced
<1>1. CASE CountSteps(p, t)
  BY <1>1, RecursionEffect DEF CountStep, Raced
<1>2. CASE ~CountSteps(p, t)
  BY <1>2, FlushMoves DEF SameHandler
<1>3. QED
  BY <1>1, <1>2

LEMMA HandlerStepMarks ==
  ASSUME Types, Mutexes, Places, FilesKept, Ending, Handlers, Recursion,
         Types', FilesKept', NEW p \in Proc, NEW t \in Thread,
         HandlerStep(p, t) \/ Signal(p, t) \/ SignalInHandler(p, t)
  PROVE  Handlers'
<1>1. OthersStay(p, t) /\ pc' = pc /\ Grows(Parent)
  BY HandlerStays, HandlerStepGrows, ProcFacts
<1>2. CASE p # Parent
  <2>1. mem'[Parent] = mem[Parent]
    BY <1>2, HandlerStepFiles, ProcFacts DEF LeftAlone
  <2>2. handler'[Parent] = handler[Parent] /\ mark'[Parent] = mark[Parent]
    BY <1>2, ParentStays
  <2>3. QED
    BY <1>1, <2>1, <2>2, MarkElsewhere DEF Handlers
<1> SUFFICES ASSUME p = Parent, ~mem'[Parent].raced
             PROVE  \A u \in Thread : MarkKept(u)'
  BY <1>2 DEF Handlers
<1>3. /\ mem'[Parent].callback = mem[Parent].callback
      /\ RecursionKept(mem[Parent], handler[Parent])
      /\ \A u \in Thread : MarkKept(u)
  BY HandlerStepCount DEF Handlers, Recursion
<1>4. CASE HandlerStep(p, t)
  <2>1. mark' = mark /\ handler[Parent][t] # "none" /\ pc' = pc
    BY <1>1, <1>4 DEF HandlerStep, Catch, FlushLock, Flush, LoadCount, StoreCount,
                      ChainReturns, ChainKills, In
  <2>2. SUFFICES ASSUME NEW u \in Thread, handler'[Parent][u] # "none", mark[Parent][u] # 0
                 PROVE  MarkKept(u)'
    BY <2>1 DEF MarkKept
  <2>3. u = t
    <3>1. SUFFICES ASSUME u # t PROVE FALSE
      OBVIOUS
    <3>2. handler[Parent][u] # "none"
      BY <1>1, <2>2, <3>1 DEF OthersStay
    <3>3. QED
      BY <1>3, <2>1, <2>2, <3>1, <3>2 DEF MarkKept
  <2>4. /\ pc[Parent][t] \notin Inside \cup {"closing"}
        /\ \A v \in Thread : v # t => handler'[Parent][v] = "none"
        /\ \A v \in Thread : v # t => handler[Parent][v] = "none"
        /\ mark[Parent][t] <= Len(Contents(Parent))
        /\ handler[Parent][t] \in {"caught", "count", "counting"} => mem[Parent].callback
        /\ handler[Parent][t] \in {"flushed", "uncounting", "chain"} =>
             mark[Parent][t] <= Len(disk[Parent])
    BY <1>1, <1>3, <2>1, <2>2, <2>3 DEF MarkKept, OthersStay
  <2>5. /\ mark[Parent][t] \in Nat /\ Len(disk[Parent]) \in Nat
        /\ Len(disk'[Parent]) \in Nat
    <3>1. mark[Parent][t] \in Nat
      BY ProcFacts DEF Types
    <3>2. QED
      BY <3>1, MemoryOf, NextContentsLength, ProcFacts
  <2>6. mark[Parent][t] <= Len(Contents(Parent)')
    <3>1. /\ Len(Contents(Parent)) \in Nat /\ Len(Contents(Parent)') \in Nat
      BY MemoryOf, NextContentsNat, ProcFacts
    <3>2. QED
      BY <1>1, <2>4, <2>5, <3>1, Sums, Zenon DEF Grows
  <2>7. mark[Parent][t] <= Len(disk[Parent]) => mark[Parent][t] <= Len(disk'[Parent])
    BY <1>1, <2>5, Sums, Zenon DEF Grows
  <2>8. /\ handler'[Parent][t] \in {"caught", "count", "counting"} => mem'[Parent].callback
        /\ handler'[Parent][t] \in {"flushed", "uncounting", "chain"} =>
             mark[Parent][t] <= Len(disk'[Parent])
    <3>1. CASE CountSteps(p, t)
      <4>1. handler[Parent][t] = "caught" => mem[Parent].recursion = 0
        BY <1>3, <2>4 DEF RecursionKept, Counting
      <4>2. QED
        BY <1>3, <2>4, <2>7, <3>1, <4>1, CountMoves
    <3>2. CASE Flush(p, t)
      <4>1. mark[Parent][t] <= Len(disk'[Parent])
        BY <2>4, <2>5, <3>2, FlushReaches
      <4>2. handler'[Parent][t] = "flushed"
        BY <3>2, GotoHandlerEffect DEF Flush, HandlerLabel, Passed
      <4>3. QED
        BY <4>1, <4>2
    <3>3. CASE FlushLock(p, t) \/ ChainReturns(p, t) \/ ChainKills(p, t)
      <4>1. \/ handler'[Parent][t] \in {"flushing", "none"}
            \/ handler'[Parent][t] = handler[Parent][t]
        BY <3>3, GotoHandlerEffect
           DEF FlushLock, ChainReturns, ChainKills, HandlerLabel, Passed
      <4>2. QED
        BY <1>3, <2>4, <2>7, <4>1
    <3>4. QED
      BY <1>4, <3>1, <3>2, <3>3 DEF HandlerStep, CountSteps
  <2>9. QED
    BY <2>1, <2>3, <2>4, <2>6, <2>8 DEF MarkKept
<1>5. CASE Signal(p, t)
  <2>1. /\ handler'[Parent][t] = "caught" /\ handler[Parent][t] = "none"
        /\ mem' = mem /\ disk' = disk /\ mark \in [Proc -> [Thread -> Nat]]
    BY <1>5, GotoHandlerEffect, ProcFacts DEF Signal, In, HandlerLabel, Types
  <2>2. CASE Handling(Parent)
    <3>1. \A u \in Thread : mark'[Parent][u] = 0
      BY <1>5, <2>1, <2>2, ProcFacts DEF Signal
    <3>2. QED
      BY <3>1 DEF MarkKept
  <2>3. CASE ~Handling(Parent)
    <3>1. \A u \in Thread : u # t => handler'[Parent][u] = "none"
      BY <1>1, <1>5, <2>3 DEF Handling, OthersStay
    <3>2. mark'[Parent][t] = IF Writing(Parent, t) \/ ~mem[Parent].callback THEN 0
                               ELSE Len(Contents(Parent))
      BY <1>5, <2>1, <2>3, ProcFacts DEF Signal
    <3>3. Contents(Parent)' = Contents(Parent) /\ Len(Contents(Parent)) \in Nat
      BY <2>1, MemoryOf, ProcFacts DEF Contents, Buffered
    <3>5. ~Writing(Parent, t) => pc[Parent][t] \notin Inside \cup {"closing"}
      BY DEF Writing, Inside
    <3>6. Len(Contents(Parent)) <= Len(Contents(Parent))
      BY <3>3, Sums
    <3>7. MarkKept(t)'
      BY <1>1, <2>1, <3>1, <3>2, <3>3, <3>5, <3>6 DEF MarkKept
    <3>8. QED
      BY <3>1, <3>7 DEF MarkKept
  <2>4. QED
    BY <2>2, <2>3
<1>6. CASE SignalInHandler(p, t)
  <2>1. /\ handler' = handler /\ handler[Parent][t] # "none"
        /\ mark'[Parent][t] = 0
        /\ \A u \in Thread : u # t => mark'[Parent][u] = mark[Parent][u]
    BY <1>6, ProcFacts DEF SignalInHandler, In, Types, Passed
  <2>2. \A u \in Thread : handler'[Parent][u] = "none" \/ mark'[Parent][u] = 0
    BY <1>3, <2>1 DEF MarkKept
  <2>3. QED
    BY <2>2 DEF MarkKept
<1>7. QED
  BY <1>4, <1>5, <1>6

LEMMA HandlersKept ==
  ASSUME Types, Mutexes, Places, FilesKept, Ending, Handlers, Recursion, ~EarlyExit,
         Types', FilesKept', [Next]_vars
  PROVE  Handlers'
<1>1. CASE \E p \in Proc, t \in Thread : ThreadStep(p, t)
  BY <1>1, ThreadStepMarks
<1>2. CASE \E p \in Proc, t \in Thread :
             HandlerStep(p, t) \/ Signal(p, t) \/ SignalInHandler(p, t)
  BY <1>2, HandlerStepMarks
<1>3. CASE \E t \in Thread : Fork(t)
  <2>1. PICK t \in Thread : Fork(t)
    BY <1>3
  <2>2. /\ mem'[Parent] = mem[Parent] /\ UNCHANGED <<handler, disk, mark>>
        /\ pc' = [pc EXCEPT ![Child] = [pc[Child] EXCEPT ![t] = "idle"]]
    BY <2>1, ForkEffect
  <2>3. pc'[Parent] = pc[Parent]
    BY <2>2, ProcFacts DEF Types
  <2>4. Contents(Parent)' = Contents(Parent)
    BY <2>2 DEF Contents
  <2>5. QED
    BY <2>2, <2>3, <2>4 DEF Handlers, MarkKept
<1>4. CASE UNCHANGED vars
  <2>1. Contents(Parent)' = Contents(Parent)
    BY <1>4 DEF vars, Contents, Buffered
  <2>2. QED
    BY <1>4, <2>1 DEF vars, Handlers, MarkKept
<1>5. QED
  BY <1>1, <1>2, <1>3, <1>4 DEF Next, Stopped

LEMMA RecursionSame ==
  ASSUME Recursion, SameCount(mem'[Parent], mem[Parent]),
         \A u \in Thread :
           \/ handler'[Parent][u] = handler[Parent][u]
           \/ /\ handler'[Parent][u] \notin {"counting", "uncounting"}
              /\ handler'[Parent][u] \in Passed <=> handler[Parent][u] \in Passed
              /\ handler'[Parent][u] \in Counting <=> handler[Parent][u] \in Counting
  PROVE  Recursion'
BY DEF Recursion, RecursionKept, SameCount

(* A thread that tests or changes the count, with no other between them.   *)
LEMMA RecursionCounted ==
  ASSUME Types, Recursion, NEW t \in Thread, CountSteps(Parent, t)
  PROVE  Recursion'
<1> SUFFICES ASSUME ~mem'[Parent].raced
             PROVE  RecursionKept(mem'[Parent], handler'[Parent])
  BY DEF Recursion
<1> DEFINE h == handler[Parent]
           m == mem[Parent]
           k == handler'[Parent]
           n == mem'[Parent]
<1>0. Parent \in Proc
  BY ProcFacts
<1>1. /\ CountStep(Parent, t, n) /\ m \in Memory
      /\ \A u \in Thread \ {t} : k[u] = h[u]
      /\ h[t] \in {"caught", "count", "counting", "flushed", "uncounting"}
      /\ k[t] = CASE h[t] = "caught" -> IF m.recursion # 0 THEN "chain" ELSE "count"
                  [] h[t] = "count" -> "counting"
                  [] h[t] = "flushed" -> "uncounting"
                  [] h[t] = "counting" -> IF m.callback THEN "flush" ELSE "flushed"
                  [] OTHER -> "chain"
  BY <1>0, RecursionEffect, CountMoves DEF Types
<1>2. RecursionKept(m, h) /\ m.seen \in [Thread -> Int]
  BY <1>1 DEF CountStep, Raced, Recursion, Memory
<1>3. CASE h[t] = "caught" /\ m.recursion # 0
  <2>1. n = m /\ k[t] = "chain"
    BY <1>1, <1>3 DEF CountStep, In
  <2>2. QED
    BY <1>1, <1>2, <1>3, <2>1 DEF RecursionKept, Passed, Counting
<1>4. CASE h[t] = "caught" /\ m.recursion = 0
  <2>1. /\ n.recursion = 0 /\ n.seen = m.seen /\ k[t] = "count"
        /\ \A u \in Thread \ {t} : h[u] \notin Passed
    BY <1>1, <1>4 DEF CountStep, In, Raced
  <2>2. QED
    BY <1>1, <2>1 DEF RecursionKept, Passed, Counting
<1>5. CASE h[t] # "caught"
  <2>1. /\ h[t] \in Passed /\ \A u \in Thread \ {t} : h[u] \notin Passed
        /\ m.recursion = IF h[t] \in Counting THEN 1 ELSE 0
    BY <1>1, <1>2, <1>5 DEF RecursionKept, Passed, Counting
  <2>2. SUFFICES /\ n.recursion = IF k[t] \in Counting THEN 1 ELSE 0
                 /\ k[t] = "counting" => n.seen[t] = 0
                 /\ k[t] = "uncounting" => n.seen[t] = 1
    BY <1>1, <2>1 DEF RecursionKept, Passed, Counting
  <2>3. CASE h[t] \in {"count", "flushed"}
    BY <1>1, <1>2, <2>1, <2>3 DEF CountStep, In, Counting
  <2>4. CASE h[t] \in {"counting", "uncounting"}
    <3>1. m.seen[t] = IF h[t] = "counting" THEN 0 ELSE 1
      BY <1>2, <2>4 DEF RecursionKept
    <3>2. QED
      BY <1>1, <2>4, <3>1 DEF CountStep, In, Counting
  <2>5. QED
    BY <1>1, <1>5, <2>3, <2>4
<1>6. QED
  BY <1>3, <1>4, <1>5

LEMMA RecursionHolds ==
  ASSUME Types, Mutexes, Places, FilesKept, Ending, Recursion, [Next]_vars
  PROVE  Recursion'
<1>1. CASE \E p \in Proc, t \in Thread : ThreadStep(p, t)
  BY <1>1, ThreadStepHandling, RecursionSame, ProcFacts
<1>2. CASE \E p \in Proc, t \in Thread :
             HandlerStep(p, t) \/ Signal(p, t) \/ SignalInHandler(p, t)
  <2>1. PICK p \in Proc, t \in Thread :
          HandlerStep(p, t) \/ Signal(p, t) \/ SignalInHandler(p, t)
    BY <1>2
  <2>2. OthersStay(p, t)
    BY <2>1, HandlerStays
  <2>3. CASE p # Parent
    <3>1. mem'[Parent] = mem[Parent]
      BY <2>1, <2>3, HandlerStepFiles, ProcFacts DEF LeftAlone
    <3>2. \A u \in Thread : handler'[Parent][u] = handler[Parent][u]
      BY <2>2, <2>3, ProcFacts DEF OthersStay
    <3>3. QED
      BY <3>1, <3>2, RecursionSame DEF SameCount
  <2>4. CASE p = Parent /\ CountSteps(p, t)
    BY <2>4, RecursionCounted
  <2>5. CASE p = Parent /\ ~CountSteps(p, t)
    <3>1. /\ SameCount(mem'[Parent], mem[Parent])
          /\ \/ handler'[Parent][t] = handler[Parent][t]
             \/ /\ handler'[Parent][t] \notin {"counting", "uncounting"}
                /\ handler'[Parent][t] \in Passed <=> handler[Parent][t] \in Passed
                /\ handler'[Parent][t] \in Counting <=> handler[Parent][t] \in Counting
      BY <2>1, <2>5, FlushMoves DEF SameHandler, SameCount, Passed, Counting
    <3>2. \A u \in Thread \ {t} : handler'[Parent][u] = handler[Parent][u]
      BY <2>2, <2>5 DEF OthersStay
    <3>3. QED
      BY <3>1, <3>2, RecursionSame
  <2>6. QED
    BY <2>3, <2>4, <2>5
<1>3. CASE \E t \in Thread : Fork(t)
  BY <1>3, ForkEffect, RecursionSame DEF SameCount
<1>4. CASE UNCHANGED vars
  BY <1>4, RecursionSame DEF vars, SameCount
<1>5. QED
  BY <1>1, <1>2, <1>3, <1>4 DEF Next, Stopped

(* What is on the disk stays there.                                        *)
LEMMA DiskKept ==
  ASSUME Types, ParentFlushed, handler'[Parent] = handler[Parent],
         mark'[Parent] = mark[Parent], Types', FilesKept',
         alive'[Parent] = "killed" => alive[Parent] = "killed",
         mem[Parent].raced => mem'[Parent].raced,
         Len(disk[Parent]) <= Len(disk'[Parent])
  PROVE  ParentFlushed'
<1>1. /\ Len(disk[Parent]) \in Nat /\ Len(disk'[Parent]) \in Nat
      /\ \A t \in Thread : mark[Parent][t] \in Nat
  <2>1. \A t \in Thread : mark[Parent][t] \in Nat
    BY ProcFacts DEF Types
  <2>2. QED
    BY <2>1, MemoryOf, NextContentsLength, ProcFacts
<1>2. \A t \in Thread : Len(disk[Parent]) >= mark[Parent][t] =>
                         Len(disk'[Parent]) >= mark[Parent][t]
  BY <1>1
<1>3. QED
  BY <1>2 DEF ParentFlushed, Flushed

LEMMA ParentFlushedKept ==
  ASSUME Types, Mutexes, Places, FilesKept, Ending, Handlers, ParentFlushed,
         Types', FilesKept', [Next]_vars
  PROVE  ParentFlushed'
<1>1. CASE \E p \in Proc, t \in Thread : ThreadStep(p, t)
  <2>1. PICK p \in Proc, t \in Thread : ThreadStep(p, t)
    BY <1>1
  <2>2. /\ handler' = handler /\ mark' = mark /\ Len(disk[Parent]) <= Len(disk'[Parent])
        /\ mem[Parent].raced => mem'[Parent].raced
    BY <2>1, ThreadStepHandling, ThreadStepGrows, ProcFacts DEF Grows, SameCount
  <2>3. alive'[Parent] = "killed" => alive[Parent] = "killed"
    BY <2>1, ThreadStepAlive, ProcFacts
  <2>4. QED
    BY <2>2, <2>3, DiskKept
<1>2. CASE \E p \in Proc, t \in Thread :
             HandlerStep(p, t) \/ Signal(p, t) \/ SignalInHandler(p, t)
  <2>1. PICK p \in Proc, t \in Thread :
          HandlerStep(p, t) \/ Signal(p, t) \/ SignalInHandler(p, t)
    BY <1>2
  <2>2. /\ Len(disk[Parent]) <= Len(disk'[Parent]) /\ OthersStay(p, t)
        /\ alive[p] = "running"
        /\ \A q \in Proc \ {p} : alive'[q] = alive[q]
    BY <2>1, HandlerStepGrows, HandlerStays, HandlerStepAlive, ProcFacts DEF Grows
  <2>3. CASE p # Parent
    <3>1. /\ alive'[Parent] = alive[Parent] /\ handler'[Parent] = handler[Parent]
          /\ mark'[Parent] = mark[Parent] /\ mem'[Parent] = mem[Parent]
      BY <2>1, <2>2, <2>3, ParentStays, HandlerStepFiles, ProcFacts DEF LeftAlone
    <3>2. QED
      BY <2>2, <3>1, DiskKept
  <2>4. CASE p = Parent /\ ChainKills(p, t) /\ ~mem'[Parent].raced
    <3>1. /\ handler' = handler /\ mark' = mark /\ disk' = disk
          /\ handler[Parent][t] = "chain" /\ ~mem[Parent].raced
      BY <2>4 DEF ChainKills, In
    <3>2. mark[Parent][t] <= Len(disk[Parent])
      <4>1. /\ mark[Parent][t] \in Nat /\ Len(disk[Parent]) \in Nat
            /\ \A n \in Nat : 0 <= n
        BY MemoryOf, ProcFacts DEF Types
      <4>2. mark[Parent][t] # 0 => mark[Parent][t] <= Len(disk[Parent])
        BY <3>1 DEF Handlers, MarkKept
      <4>3. QED
        BY <4>1, <4>2
    <3>3. QED
      BY <3>1, <3>2 DEF ParentFlushed, Flushed
  <2>5. CASE p = Parent /\ SignalInHandler(p, t)
    <3>1. handler' = handler /\ mark'[Parent][t] = 0 /\ handler[Parent][t] # "none"
          /\ Len(disk'[Parent]) \in Nat
      BY <2>5, NextContentsLength, ProcFacts
         DEF SignalInHandler, In, Types, Passed
    <3>2. QED
      BY <3>1 DEF ParentFlushed, Flushed
  <2>6. CASE p = Parent /\ ~ChainKills(p, t) /\ ~SignalInHandler(p, t)
    <3>1. alive' = alive
      BY <2>1, <2>6 DEF HandlerStep, Catch, FlushLock, Flush, LoadCount, StoreCount, ChainReturns,
                        Signal
    <3>2. QED
      BY <2>2, <2>6, <3>1 DEF ParentFlushed
  <2>7. QED
    BY <2>3, <2>4, <2>5, <2>6 DEF ParentFlushed
<1>3. CASE \E t \in Thread : Fork(t)
  <2>1. /\ alive[Parent] = "running" /\ alive' = [alive EXCEPT ![Child] = "running"]
    BY <1>3 DEF Fork, At
  <2>2. QED
    BY <2>1, ProcFacts DEF Types, ParentFlushed
<1>4. CASE UNCHANGED vars
  BY <1>4 DEF vars, ParentFlushed, Flushed
<1>5. QED
  BY <1>1, <1>2, <1>3, <1>4 DEF Next, Stopped

-----------------------------------------------------------------------------
(* The invariant, put together.                                            *)

LEMMA InitRest == Init => /\ Mutexes /\ Places /\ Ending /\ FilesKept /\ Traces
                          /\ Handlers /\ Recursion /\ ParentFlushed
<1> SUFFICES ASSUME Init PROVE /\ Mutexes /\ Places /\ Ending /\ FilesKept /\ Traces
                               /\ Handlers /\ Recursion /\ ParentFlushed
  OBVIOUS
<1>1. \A p \in Proc :
        /\ mem[p] = Fresh /\ disk[p] = << >>
        /\ \A t \in Thread : /\ pc[p][t] \in {"idle", "gone"}
                             /\ pc[p][t] = "gone" <=> p = Child
                             /\ handler[p][t] = "none"
  BY ProcFacts DEF Init
<1>2. alive[Parent] = "running" /\ alive[Child] = "unborn"
  BY ProcFacts DEF Init
<1>3. << >> \o << >> = << >>
  BY EmptySeq, ConcatEmptySeq
<1>4. \A p \in Proc : Contents(p) = << >> /\ Buffered(mem[p]) = << >>
  BY <1>1, <1>3 DEF Contents, Buffered, Fresh
<1>5. Mutexes
  BY <1>1 DEF Mutexes, MutexOf, Holding, Inside, Begun, Fresh
<1>6. Places
  BY <1>1, <1>2, ProcFacts DEF Places
<1>7. Ending
  BY <1>1 DEF Ending, EndingOf, Fresh
<1>8. FilesKept
  BY <1>1, <1>2, <1>4, ProcFacts DEF FilesKept, FileOf, Fresh
<1>9. Traces
  <2>1. \A p \in Proc : TraceOf(p) /\ BufferOf(p)
    BY <1>1, <1>4, EmptyWellFormed, ProcFacts DEF TraceOf, BufferOf, Fresh
  <2>2. \A p \in Proc : NumbersApart(mem[p])
    BY <1>1 DEF NumbersApart, Fresh
  <2>3. QED
    BY <2>1, <2>2 DEF Traces
<1>10. Handlers /\ ParentFlushed
  BY <1>1, <1>2, ProcFacts DEF Handlers, MarkKept, ParentFlushed
<1>11. Recursion
  BY <1>1, ProcFacts DEF Recursion, RecursionKept, Passed, Counting, Fresh
<1>12. QED
  BY <1>5, <1>6, <1>7, <1>8, <1>9, <1>10, <1>11

LEMMA TypesOK == Types => TypeOK
<1> SUFFICES ASSUME Types PROVE TypeOK
  OBVIOUS
<1>1. \A p \in Proc : /\ mem[p] \in Memory /\ Len(mem[p].cache) < ChunkSize
  BY DEF Types
<1>2. \A p \in Proc :
        /\ mem[p].file \in {Parent, Child, NoFile} /\ mem[p].pid \in {Parent, Child, NoFile}
        /\ mem[p].owner \in Thread \cup {NoThread}
        /\ mem[p].acquired \in 0..1 /\ mem[p].depth \in 0..2
  BY <1>1 DEF Memory
<1>3. QED
  BY <1>1, <1>2 DEF Types, TypeOK, Label, HandlerLabel

(* What the invariant says, but for the type invariant of the runs.        *)
LEMMA InvariantKept ==
  ASSUME WriterInv, ~EarlyExit, [Next]_vars
  PROVE  WriterInv'
<1> USE DEF WriterInv
<1>1. Types'
  BY TypesKept
<1>2. Mutexes' /\ Places' /\ Ending' /\ FilesKept'
  BY MutexesKept, PlacesKept, EndingKept, FilesKeptKept
<1>3. Traces'
  BY TracesKept
<1>4. Handlers' /\ Recursion' /\ ParentFlushed'
  BY <1>1, <1>2, HandlersKept, RecursionHolds, ParentFlushedKept
<1>5. TypeOK'
  <2>1. Types' => TypeOK'
    BY TypesOK, PTL
  <2>2. QED
    BY <1>1, <2>1
<1>6. QED
  BY <1>1, <1>2, <1>3, <1>4, <1>5

(* The inductive invariant of the local writer: types, the mutex and who   *)
(* holds it, how processes end, which file each has open, the shape of its *)
(* trace and the counters that go with it, and what a signal finds until   *)
(* two handlers pass the test of recursion_count at once.  It holds of     *)
(* every program that does not exit while threads are in calls.            *)
THEOREM WriterInvariant == ASSUME ~EarlyExit PROVE Spec => []WriterInv
<1>1. Init => WriterInv
  BY InitTypes, TypesOK, InitRest DEF WriterInv
<1>2. WriterInv /\ [Next]_vars => WriterInv'
  BY InvariantKept
<1>3. QED
  BY <1>1, <1>2, PTL DEF Spec

(* Only one thread of a process writes to its trace, flushes it or closes  *)
(* it at a time (the mutex of LocalWriter, and ~LocalWriter without it).   *)
THEOREM OneWriterHolds == ASSUME ~EarlyExit PROVE Spec => []OneWriter
<1>1. WriterInv => OneWriter
  <2> SUFFICES ASSUME WriterInv, NEW p \in Proc, NEW t \in Thread, NEW u \in Thread,
                      Writing(p, t), Writing(p, u), t # u
               PROVE  FALSE
    BY DEF OneWriter
  <2>1. \A v \in Thread : /\ pc[p][v] \in Inside \/ handler[p][v] = "flushing"
                             => mem[p].owner = v
    BY DEF WriterInv, Mutexes, MutexOf, Holding
  <2>2. \A v, w \in Thread : pc[p][v] = "closing" /\ w # v => ~Writing(p, w)
    BY DEF WriterInv, Ending, EndingOf, Writing
  <2>3. QED
    BY <2>1, <2>2 DEF Writing, Inside
<1>2. QED
  BY WriterInvariant, <1>1, PTL

(* A trace that no other process wrote to, and its part on disk, are       *)
(* well-formed after every step of every interleaving.                     *)
THEOREM TraceWellFormedHolds == ASSUME ~EarlyExit PROVE Spec => []TraceWellFormed
<1>1. WriterInv => TraceWellFormed
  <2> SUFFICES ASSUME WriterInv, NEW p \in Proc, writers[p] \subseteq {p}
               PROVE  WellFormed(Contents(p)) /\ WellFormed(disk[p])
    BY DEF TraceWellFormed
  <2>1. WellFormed(Contents(p))
    BY DEF WriterInv, Traces, TraceOf
  <2>2. disk[p] \in Seq(Event) /\ Buffered(mem[p]) \in Seq(Event)
    BY MemoryOf DEF WriterInv
  <2>3. Contents(p) = disk[p] \o Buffered(mem[p]) \/ Contents(p) = disk[p]
    BY OwnContents DEF WriterInv
  <2>4. QED
    BY <2>1, <2>2, <2>3, PrefixWellFormed
<1>2. QED
  BY WriterInvariant, <1>1, PTL

(* The last event of what a process flushes is the last of its file.       *)
LEMMA LastFlushed ==
  ASSUME NEW d \in Seq(Event), NEW b \in Seq(Event), b # << >>
  PROVE  Last(d \o b) = Last(b)
<1>1. /\ Len(d) \in Nat /\ Len(b) \in Nat \ {0}
      /\ Len(d \o b) = Len(d) + Len(b)
  BY LenProperties, ConcatProperties, EmptySeq
<1>2. \A i \in 1..Len(d) + Len(b) : i > Len(d) => (d \o b)[i] = b[i - Len(d)]
  BY ConcatProperties
<1>3. QED
  BY <1>1, <1>2 DEF Last

(* Only the flush of a thread takes it from "flushing" to "flushed".       *)
LEMMA OnlyFlush ==
  ASSUME Types, [Next]_vars, NEW p \in Proc, NEW t \in Thread,
         handler[p][t] = "flushing", handler'[p][t] = "flushed"
  PROVE  Flush(p, t)
<1>1. CASE \E q \in Proc, u \in Thread :
             HandlerStep(q, u) \/ Signal(q, u) \/ SignalInHandler(q, u)
  <2>1. PICK q \in Proc, u \in Thread :
             HandlerStep(q, u) \/ Signal(q, u) \/ SignalInHandler(q, u)
    BY <1>1
  <2>2. q = p /\ u = t
    BY <2>1, HandlerStays DEF OthersStay
  <2>3. QED
    BY <2>1, <2>2
       DEF HandlerStep, Catch, FlushLock, LoadCount, StoreCount, ChainReturns, ChainKills, Signal,
           SignalInHandler, In
<1>2. CASE ~\E q \in Proc, u \in Thread :
              HandlerStep(q, u) \/ Signal(q, u) \/ SignalInHandler(q, u)
  <2>1. handler' = handler
    <3>1. CASE \E q \in Proc, u \in Thread : ThreadStep(q, u)
      BY <3>1, ThreadStays
    <3>2. CASE ~\E q \in Proc, u \in Thread : ThreadStep(q, u)
      BY <1>2, <3>2 DEF Next, Stopped, vars, Fork
    <3>3. QED
      BY <3>1, <3>2
  <2>2. QED
    BY <2>1
<1>3. QED
  BY <1>1, <1>2

(* A flush from a signal handler writes whole events, to the file of its   *)
(* own process only (LocalWriter::flush).                                  *)
THEOREM FlushesWholeEventsHolds == ASSUME ~EarlyExit PROVE Spec => FlushesWholeEvents
<1> DEFINE Whole(p, q, t) ==
             /\ handler[p][t] = "flushing" /\ handler'[p][t] = "flushed"
             /\ disk'[q] # disk[q]
             => q = p /\ disk'[q][Len(disk'[q])].kind \in {"version", "end"}
<1>1. WriterInv /\ [Next]_vars => \A p, q \in Proc, t \in Thread : Whole(p, q, t)
  <2>1. SUFFICES ASSUME WriterInv, [Next]_vars, NEW p \in Proc, NEW q \in Proc,
                        NEW t \in Thread,
                        handler[p][t] = "flushing", handler'[p][t] = "flushed",
                        disk'[q] # disk[q]
                 PROVE  q = p /\ Last(disk'[q]).kind \in {"version", "end"}
    BY DEF Last
  <2>0. Types /\ Mutexes /\ Places /\ FilesKept /\ BufferOf(p)
    BY <2>1 DEF WriterInv, Traces
  <2>2. Flush(p, t)
    BY <2>0, <2>1, OnlyFlush
  <2>3. /\ q = p /\ MayFlush(p) /\ mem[p].file = p /\ mem[p].owner = t
        /\ disk'[p] = disk[p] \o Buffered(mem[p])
    BY <2>0, <2>1, <2>2, FlushStepEffect DEF Kept, Flushes
  <2>4. disk[p] \in Seq(Event) /\ Buffered(mem[p]) \in Seq(Event)
    BY <2>0, MemoryOf
  <2>5. Buffered(mem[p]) # << >>
    BY <2>1, <2>3, <2>4, ConcatEmptySeq
  <2>6. \A u \in Thread : pc[p][u] \notin Begun
    <3>1. pc[p][t] \notin Begun
      BY <2>0, <2>1, <2>3, Holder DEF MayFlush
    <3>2. QED
      BY <2>0, <2>3, <3>1, OnlyBegun DEF Inside, Begun
  <2>7. Last(Buffered(mem[p])).kind \in {"version", "end"}
    BY <2>0, <2>3, <2>5, <2>6 DEF BufferOf, Complete
  <2>8. QED
    BY <2>3, <2>4, <2>5, <2>7, LastFlushed
<1>2. QED
  BY WriterInvariant, <1>1, PTL DEF FlushesWholeEvents, Spec

(* A process that a signal ends has lost nothing that was written when the *)
(* signal came, unless it came in the middle of a write or while another   *)
(* was handled, or two threads have passed the test of recursion_count at  *)
(* once (the class comment of LocalWriter).  A child has inherited the     *)
(* recursion count of its parent, so that this is about a program that     *)
(* does not fork; WriterInv has the same of the parent of one that does.   *)
THEOREM CrashFlushedHolds ==
  ASSUME ~EarlyExit, ~MayFork PROVE Spec => []CrashFlushed
<1> DEFINE Unborn == alive[Child] = "unborn"
<1>1. Init => Unborn
  BY ProcFacts DEF Init
<1>2. WriterInv /\ Unborn /\ [Next]_vars => Unborn'
  <2> SUFFICES ASSUME WriterInv, Unborn, [Next]_vars PROVE Unborn'
    OBVIOUS
  <2>1. CASE \E p \in Proc, t \in Thread :
               \/ ThreadStep(p, t)
               \/ HandlerStep(p, t) \/ Signal(p, t) \/ SignalInHandler(p, t)
    BY <2>1, ThreadStepAlive, HandlerStepAlive, ProcFacts DEF WriterInv
  <2>2. CASE UNCHANGED vars
    BY <2>2 DEF vars
  <2>3. QED
    BY <2>1, <2>2 DEF Next, Stopped, Fork
<1>3. WriterInv /\ Unborn => CrashFlushed
  BY ProcFacts DEF WriterInv, ParentFlushed, CrashFlushed
<1> HIDE DEF Unborn
<1>4. QED
  BY WriterInvariant, <1>1, <1>2, <1>3, PTL DEF Spec
=============================================================================
