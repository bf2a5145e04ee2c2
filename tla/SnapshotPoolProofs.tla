-------------------------- MODULE SnapshotPoolProofs --------------------------
(***************************************************************************)
(* Proofs about the pool of snapshot writers, for every number of workers  *)
(* and of snapshots: PoolInv is an inductive invariant, and the safety     *)
(* properties of SnapshotPool and the refinement of SnapshotFiles follow.  *)
(***************************************************************************)
EXTENDS SnapshotPool, SequenceTheorems, FiniteSetTheorems, TLAPS

(* How many snapshots have left the queue; they are the first ones.        *)
Left == taken - Len(queue)

LEMMA Numbers ==
  ASSUME PoolInv
  PROVE  taken \in Nat /\ Len(queue) \in Nat /\ Left \in 0..taken /\ Snapshots \in Nat
BY CountAssumption, LenProperties DEF PoolInv, TypeOK, Placed, Left

(* Placed by its parts.                                                    *)
InOrder == Len(queue) <= taken /\ \A i \in 1..Len(queue) : queue[i] = Left + i

Held ==
  \A w \in Worker :
    /\ at[w] = "writing" <=> task[w] # 0
    /\ task[w] <= Left
    /\ \A v \in Worker : task[w] = task[v] /\ task[w] # 0 => w = v

Filed ==
  \A n \in 1..Snapshots :
    /\ files[n] = 1 => n <= Left /\ \A w \in Worker : task[w] # n
    /\ files[n] = 0 /\ n <= Left => \E w \in Worker : task[w] = n

LEMMA PlacedParts == Placed <=> InOrder /\ Held /\ Filed
BY DEF Placed, InOrder, Held, Filed, Left

(* A step that moves no snapshot and keeps who is writing.                 *)
LEMMA Unmoved ==
  ASSUME Placed, UNCHANGED <<taken, queue, task, files>>,
         \A w \in Worker : at'[w] = "writing" <=> at[w] = "writing"
  PROVE  Placed'
BY DEF Placed

LEMMA InitInv == Init => PoolInv
<1> SUFFICES ASSUME Init PROVE PoolInv
  OBVIOUS
<1>1. TypeOK
  <2>1. queue \in Seq(1..Snapshots)
    BY EmptySeq DEF Init
  <2>2. last \in 0..Snapshots /\ taken \in 0..Snapshots /\ task \in [Worker -> 0..Snapshots]
    BY CountAssumption DEF Init
  <2>3. files \in [1..Snapshots -> 0..1]
    BY DEF Init
  <2>4. QED
    BY <2>1, <2>2, <2>3 DEF Init, TypeOK
<1>2. Placed
  <2>1. Len(queue) = 0 /\ taken = 0
    BY EmptySeq DEF Init
  <2>2. QED
    BY <2>1, CountAssumption DEF Init, Placed
<1>3. Stopped
  BY DEF Init, Stopped
<1>4. QED
  BY <1>1, <1>2, <1>3 DEF PoolInv

-----------------------------------------------------------------------------
(* What the queue becomes.                                                 *)
LEMMA Appended ==
  ASSUME PoolInv, TakeSnapshot
  PROVE  /\ queue' \in Seq(1..Snapshots) /\ Len(queue') = Len(queue) + 1
         /\ \A i \in 1..Len(queue) : queue'[i] = queue[i]
         /\ queue'[Len(queue) + 1] = taken + 1
         /\ Left' = Left
<1>1. queue \in Seq(1..Snapshots) /\ taken + 1 \in 1..Snapshots
  BY Numbers DEF PoolInv, TypeOK, TakeSnapshot
<1>2. queue' = Append(queue, taken + 1) /\ taken' = taken + 1
  BY DEF TakeSnapshot
<1>3. /\ queue' \in Seq(1..Snapshots) /\ Len(queue') = Len(queue) + 1
      /\ \A i \in 1..Len(queue) : queue'[i] = queue[i]
      /\ queue'[Len(queue) + 1] = taken + 1
  BY <1>1, <1>2, AppendProperties
<1>4. QED
  BY <1>2, <1>3, Numbers DEF Left

LEMMA Removed ==
  ASSUME PoolInv, queue # << >>
  PROVE  /\ Tail(queue) \in Seq(1..Snapshots)
         /\ Len(Tail(queue)) = Len(queue) - 1
         /\ \A i \in 1..Len(Tail(queue)) : Tail(queue)[i] = queue[i + 1]
         /\ Head(queue) = Left + 1 /\ Head(queue) \in 1..Snapshots
<1>1. queue \in Seq(1..Snapshots)
  BY DEF PoolInv, TypeOK
<1>2. Len(queue) \in Nat \ {0}
  BY <1>1, EmptySeq
<1>3. Head(queue) = queue[1]
  OBVIOUS
<1>4. queue[1] = Left + 1
  BY <1>2, PlacedParts DEF PoolInv, InOrder
<1>5. QED
  BY <1>1, <1>3, <1>4, HeadTailProperties

-----------------------------------------------------------------------------
(* Types.                                                                  *)
Labels == {"checking", "waiting", "writing", "returned", "undefined"}

LEMMA TypeOKNext ==
  ASSUME PoolInv, Next
  PROVE  TypeOK'
<1> USE DEF PoolInv
<1>0. /\ at \in [Worker -> Labels] /\ task \in [Worker -> 0..Snapshots]
      /\ files \in [1..Snapshots -> 0..1] /\ Snapshots \in Nat
      /\ queue \in Seq(1..Snapshots) /\ taken \in 0..Snapshots /\ stop \in BOOLEAN
      /\ last \in 0..Snapshots
  BY Numbers DEF TypeOK, Labels
<1>1. CASE TakeSnapshot
  BY <1>0, <1>1, Appended DEF TakeSnapshot, TypeOK, Labels
<1>2. CASE NotifyWorker
  BY <1>0, <1>2 DEF NotifyWorker, NotifyOne, Woken, TypeOK, Labels
<1>3. CASE Exit \/ Stop
  BY <1>0, <1>3 DEF Exit, Stop, TypeOK, Labels
<1>4. CASE NotifyWorkers
  BY <1>0, <1>4 DEF NotifyWorkers, NotifyAll, Woken, TypeOK, Labels
<1>5. CASE Join
  BY <1>0, <1>5 DEF Join, TypeOK, Labels
<1>6. ASSUME NEW w \in Worker, Sleep(w) \/ Return(w) PROVE TypeOK'
  BY <1>0, <1>6 DEF Sleep, Return, TypeOK, Labels
<1>7. ASSUME NEW w \in Worker, SpuriousWakeup(w) PROVE TypeOK'
  BY <1>0, <1>7 DEF SpuriousWakeup, Woken, TypeOK, Labels
<1>8. ASSUME NEW w \in Worker, Pop(w) PROVE TypeOK'
  <2>1. CASE queue = << >>
    BY <1>0, <1>8, <2>1 DEF Pop, TypeOK, Labels
  <2>2. CASE queue # << >>
    <3>1. at' \in [Worker -> Labels] /\ task' \in [Worker -> 0..Snapshots]
      BY <1>0, <1>8, <2>2, Removed DEF Pop, Labels
    <3>2. queue' \in Seq(1..Snapshots)
      BY <1>8, <2>2, Removed DEF Pop, Popped
    <3>3. QED
      BY <1>0, <1>8, <3>1, <3>2 DEF Pop, TypeOK, Labels
  <2>3. QED
    BY <2>1, <2>2
<1>9. ASSUME NEW w \in Worker, WritePNG(w) PROVE TypeOK'
  <2>1. task[w] \in 1..Snapshots /\ files[task[w]] = 0
    BY <1>0, <1>9, PlacedParts DEF WritePNG, Held, Filed
  <2>2. files' \in [1..Snapshots -> 0..1] /\ task' \in [Worker -> 0..Snapshots]
    BY <1>0, <1>9, <2>1 DEF WritePNG
  <2>3. at' \in [Worker -> Labels]
    BY <1>0, <1>9 DEF WritePNG, Labels
  <2>4. QED
    BY <1>0, <1>9, <2>2, <2>3 DEF WritePNG, TypeOK, Labels
<1>10. CASE Over
  BY <1>0, <1>10 DEF Over, vars, TypeOK, Labels
<1>11. QED
  BY <1>1, <1>2, <1>3, <1>4, <1>5, <1>6, <1>7, <1>8, <1>9, <1>10
  DEF Next, PoolStep, WorkerStep
-----------------------------------------------------------------------------
(* Where the snapshots are.                                                *)
LEMMA TakeKeepsPlaced ==
  ASSUME PoolInv, TakeSnapshot
  PROVE  Placed'
<1> USE DEF PoolInv
<1>1. InOrder'
  <2>1. Len(queue') = Len(queue) + 1 /\ taken' = taken + 1
    BY Appended DEF TakeSnapshot
  <2>2. ASSUME NEW i \in 1..Len(queue') PROVE queue'[i] = Left + i
    <3>1. i \in 1..Len(queue) \/ i = Len(queue) + 1
      BY <2>1, Numbers
    <3>2. CASE i \in 1..Len(queue)
      BY <3>2, Appended, PlacedParts DEF InOrder
    <3>3. CASE i = Len(queue) + 1
      BY <3>3, Appended, Numbers DEF Left
    <3>4. QED
      BY <3>1, <3>2, <3>3
  <2>3. QED
    BY <2>1, <2>2, Appended, Numbers DEF InOrder, Placed
<1>2. Held'
  BY Appended, PlacedParts DEF Held, TakeSnapshot
<1>3. Filed'
  BY Appended, PlacedParts DEF Filed, TakeSnapshot
<1>4. QED
  BY <1>1, <1>2, <1>3, PlacedParts DEF Placed, InOrder, Held, Filed, Left

LEMMA PopKeepsPlaced ==
  ASSUME PoolInv, NEW w \in Worker, Pop(w)
  PROVE  Placed'
<1> USE DEF PoolInv
<1>0. /\ at \in [Worker -> Labels] /\ task \in [Worker -> 0..Snapshots]
      /\ files \in [1..Snapshots -> 0..1]
  BY DEF TypeOK, Labels
<1>a. at[w] = "checking" /\ task[w] = 0 /\ taken' = taken /\ files' = files
  BY PlacedParts DEF Pop, Held
<1>1. CASE queue = << >>
  BY <1>0, <1>1, <1>a, Unmoved DEF Pop
<1>2. CASE queue # << >>
  <2>1. /\ task' = [task EXCEPT ![w] = Left + 1]
        /\ at' = [at EXCEPT ![w] = "writing"]
        /\ queue' = Tail(queue)
    BY <1>2, Removed DEF Pop, Popped
  <2>2. Left' = Left + 1 /\ Left + 1 \in 1..Snapshots
    BY <1>2, <1>a, <2>1, Removed, Numbers DEF Left
  <2>3. InOrder'
    <3>1. Len(queue') = Len(queue) - 1 /\ Len(queue') <= taken'
      BY <1>2, <1>a, <2>1, Removed, Numbers, PlacedParts DEF InOrder
    <3>2. ASSUME NEW i \in 1..Len(queue') PROVE queue'[i] = Left' + i
      <4>1. i + 1 \in 1..Len(queue) /\ queue'[i] = queue[i + 1]
        BY <1>2, <2>1, <3>1, Removed, Numbers
      <4>2. queue[i + 1] = Left + (i + 1)
        BY <4>1, PlacedParts DEF InOrder
      <4>3. QED
        BY <4>1, <4>2, <2>2, Numbers
    <3>3. QED
      BY <3>1, <3>2 DEF InOrder
  <2>4. task'[w] = Left + 1 /\ \A v \in Worker \ {w} : task'[v] = task[v] /\ task[v] <= Left
    BY <1>0, <2>1, PlacedParts DEF Held
  <2>5. Held'
    <3>1. \A v \in Worker : at'[v] = "writing" <=> task'[v] # 0
      BY <1>0, <2>1, <2>2, PlacedParts DEF Held
    <3>2. \A v \in Worker : task'[v] <= Left'
      BY <1>0, <2>2, <2>4, Numbers
    <3>3. \A u, v \in Worker : task'[u] = task'[v] /\ task'[u] # 0 => u = v
      BY <1>0, <2>4, Numbers, PlacedParts DEF Held
    <3>4. QED
      BY <3>1, <3>2, <3>3 DEF Held
  <2>6. Filed'
    <3>1. ASSUME NEW n \in 1..Snapshots, files[n] = 1
          PROVE  n <= Left' /\ \A v \in Worker : task'[v] # n
      BY <3>1, <2>2, <2>4, Numbers, PlacedParts DEF Filed
    <3>2. ASSUME NEW n \in 1..Snapshots, files[n] = 0, n <= Left'
          PROVE  \E v \in Worker : task'[v] = n
      <4>1. CASE n = Left + 1
        BY <4>1, <2>4
      <4>2. CASE n # Left + 1
        <5>1. n <= Left
          BY <3>2, <4>2, <2>2, Numbers
        <5>2. PICK v \in Worker : task[v] = n
          BY <3>2, <5>1, PlacedParts DEF Filed
        <5>3. QED
          BY <5>2, <1>a, <2>4
      <4>3. QED
        BY <4>1, <4>2
    <3>3. QED
      BY <1>a, <3>1, <3>2 DEF Filed
  <2>7. QED
    BY <2>3, <2>5, <2>6 DEF Placed, InOrder, Held, Filed, Left
<1>3. QED
  BY <1>1, <1>2

LEMMA WriteKeepsPlaced ==
  ASSUME PoolInv, NEW w \in Worker, WritePNG(w)
  PROVE  Placed'
<1> USE DEF PoolInv
<1>0. /\ at \in [Worker -> Labels] /\ task \in [Worker -> 0..Snapshots]
      /\ files \in [1..Snapshots -> 0..1]
  BY DEF TypeOK, Labels
<1>1. /\ task[w] \in 1..Snapshots /\ files[task[w]] = 0 /\ task[w] <= Left
      /\ \A v \in Worker \ {w} : task[v] # task[w]
  BY <1>0, PlacedParts DEF WritePNG, Held, Filed
<1>2. /\ files' = [files EXCEPT ![task[w]] = files[task[w]] + 1]
      /\ task' = [task EXCEPT ![w] = 0] /\ at' = [at EXCEPT ![w] = "checking"]
      /\ taken' = taken /\ queue' = queue
  BY DEF WritePNG
<1>3. Left' = Left /\ InOrder'
  BY <1>2, PlacedParts DEF Left, InOrder
<1>4. Held'
  <2>1. \A v \in Worker : at'[v] = "writing" <=> task'[v] # 0
    BY <1>0, <1>2, PlacedParts DEF Held
  <2>2. \A v \in Worker : task'[v] <= Left
    BY <1>0, <1>2, Numbers, PlacedParts DEF Held
  <2>3. \A u, v \in Worker : task'[u] = task'[v] /\ task'[u] # 0 => u = v
    BY <1>0, <1>2, PlacedParts DEF Held
  <2>4. QED
    BY <1>3, <2>1, <2>2, <2>3 DEF Held
<1>5. Filed'
  <2>1. /\ files'[task[w]] = 1
        /\ \A n \in 1..Snapshots \ {task[w]} : files'[n] = files[n]
        /\ task'[w] = 0 /\ \A v \in Worker \ {w} : task'[v] = task[v]
    BY <1>0, <1>1, <1>2
  <2>2. ASSUME NEW n \in 1..Snapshots, files'[n] = 1
        PROVE  n <= Left /\ \A v \in Worker : task'[v] # n
    BY <2>1, <2>2, <1>1, PlacedParts DEF Filed
  <2>3. ASSUME NEW n \in 1..Snapshots, files'[n] = 0, n <= Left
        PROVE  \E v \in Worker : task'[v] = n
    BY <2>1, <2>3, <1>1, PlacedParts DEF Filed
  <2>4. QED
    BY <1>3, <2>2, <2>3 DEF Filed
<1>6. QED
  BY <1>3, <1>4, <1>5 DEF Placed, InOrder, Held, Filed, Left

LEMMA PlacedNext ==
  ASSUME PoolInv, Next
  PROVE  Placed'
<1> USE DEF PoolInv
<1>0. at \in [Worker -> Labels]
  BY DEF TypeOK, Labels
<1>1. CASE NotifyWorker
  BY <1>1, Unmoved DEF NotifyWorker, NotifyOne, Waiting, Woken
<1>2. CASE Exit \/ Stop \/ Join
  BY <1>2, Unmoved DEF Exit, Stop, Join
<1>3. CASE NotifyWorkers
  BY <1>3, Unmoved DEF NotifyWorkers, NotifyAll, Waiting, Woken
<1>4. ASSUME NEW w \in Worker, Sleep(w) \/ Return(w) PROVE Placed'
  BY <1>0, <1>4, Unmoved DEF Sleep, Return
<1>5. ASSUME NEW w \in Worker, SpuriousWakeup(w) PROVE Placed'
  BY <1>5, Unmoved DEF SpuriousWakeup, Woken
<1>6. CASE Over
  BY <1>6 DEF Over, vars, Placed
<1>7. QED
  BY <1>1, <1>2, <1>3, <1>4, <1>5, <1>6, TakeKeepsPlaced, PopKeepsPlaced, WriteKeepsPlaced
  DEF Next, PoolStep, WorkerStep

-----------------------------------------------------------------------------
(* How the pool ends.                                                      *)
LEMMA StoppedNext ==
  ASSUME PoolInv, Next
  PROVE  Stopped'
<1> USE DEF PoolInv
<1>0. at \in [Worker -> Labels] /\ stop \in BOOLEAN
  BY DEF TypeOK, Labels
<1>1. CASE TakeSnapshot
  BY <1>0, <1>1 DEF TakeSnapshot, Stopped
<1>2. CASE NotifyWorker
  BY <1>0, <1>2 DEF NotifyWorker, NotifyOne, Woken, Stopped
<1>3. CASE Exit \/ Stop \/ Join
  BY <1>0, <1>3 DEF Exit, Stop, Join, Stopped
<1>4. CASE NotifyWorkers
  BY <1>0, <1>4 DEF NotifyWorkers, NotifyAll, Woken, Stopped
<1>5. ASSUME NEW w \in Worker, Sleep(w) \/ Return(w) PROVE Stopped'
  BY <1>0, <1>5 DEF Sleep, Return, MayReturn, Stopped
<1>6. ASSUME NEW w \in Worker, SpuriousWakeup(w) PROVE Stopped'
  BY <1>0, <1>6 DEF SpuriousWakeup, Woken, Stopped
<1>7. ASSUME NEW w \in Worker, Pop(w) PROVE Stopped'
  BY <1>0, <1>7 DEF Pop, MayReturn, Stopped
<1>8. ASSUME NEW w \in Worker, WritePNG(w) PROVE Stopped'
  BY <1>0, <1>8 DEF WritePNG, Stopped
<1>9. CASE Over
  BY <1>9 DEF Over, vars, Stopped
<1>10. QED
  BY <1>1, <1>2, <1>3, <1>4, <1>5, <1>6, <1>7, <1>8, <1>9 DEF Next, PoolStep, WorkerStep

(* PoolInv holds in every state of every pool: each snapshot is queued, in *)
(* the hands of one worker or in its file, and workers leave an empty pool *)
(* only (ThreadPool, thread_pool.hpp).                                     *)
THEOREM PoolInvariant == Spec => []PoolInv
<1>1. PoolInv /\ [Next]_vars => PoolInv'
  <2>1. PoolInv /\ Next => PoolInv'
    BY TypeOKNext, PlacedNext, StoppedNext DEF PoolInv
  <2>2. PoolInv /\ UNCHANGED vars => PoolInv'
    BY DEF PoolInv, TypeOK, Placed, Stopped, vars
  <2>3. QED
    BY <2>1, <2>2
<1>2. QED
  BY <1>1, InitInv, PTL DEF Spec
-----------------------------------------------------------------------------
(* No worker is left asleep beside queued snapshots.                       *)
LEMMA CheckingFinite ==
  ASSUME NEW A \in SUBSET Worker
  PROVE  IsFiniteSet(A) /\ Cardinality(A) \in Nat
BY WorkerAssumption, FS_Subset, FS_CardinalityType

(* A wait that returns has found a task, or a reason to leave.             *)
LEMMA PopsTask ==
  ASSUME ~Win32, NEW w \in Worker, Pop(w)
  PROVE  queue # << >>
BY DEF Pop, MustWait, MayReturn

(* One more worker is checking.                                            *)
LEMMA OneMoreChecking ==
  ASSUME PoolInv, NEW w \in Worker, at[w] # "checking",
         at' = [at EXCEPT ![w] = "checking"]
  PROVE  /\ Cardinality(Checking') = Cardinality(Checking) + 1
         /\ Cardinality(Checking) \in Nat
         /\ Waiting' \subseteq Waiting
<1>0. at \in [Worker -> Labels]
  BY DEF PoolInv, TypeOK, Labels
<1>1. Checking' = Checking \cup {w} /\ w \notin Checking
  BY <1>0 DEF Checking
<1>2. IsFiniteSet(Checking) /\ Cardinality(Checking) \in Nat
  BY CheckingFinite DEF Checking
<1>3. Waiting' \subseteq Waiting
  BY <1>0 DEF Waiting
<1>4. QED
  BY <1>1, <1>2, <1>3, FS_AddElement

LEMMA WokenOne ==
  ASSUME PoolInv, NEW w \in Worker
  PROVE  Woken({w}) = [at EXCEPT ![w] = "checking"]
BY DEF PoolInv, TypeOK, Woken

LEMMA IdleNext ==
  ASSUME PoolInv, NoIdleWorker, ~Win32, Next
  PROVE  NoIdleWorker'
<1> USE DEF NoIdleWorker
<1>0. /\ at \in [Worker -> Labels] /\ Len(queue) \in Nat
      /\ Cardinality(Checking) \in Nat /\ Cardinality(Checking') \in Nat
  BY Numbers, CheckingFinite DEF PoolInv, TypeOK, Labels, Checking
<1>1. CASE TakeSnapshot
  <2>1. /\ Len(queue') = Len(queue) + 1 /\ Checking' = Checking /\ Waiting' = Waiting
        /\ main = "retracing" /\ main' = "notifying" /\ stop' = stop
    BY <1>1, Appended DEF TakeSnapshot, Checking, Waiting
  <2>2. QED
    BY <2>1, <1>0
<1>2. CASE NotifyWorker
  <2>1. main = "notifying" /\ main' = "retracing" /\ stop' = stop /\ queue' = queue
    BY <1>2 DEF NotifyWorker
  <2>2. CASE Waiting = {} /\ UNCHANGED at
    BY <2>2 DEF Waiting
  <2>3. ASSUME NEW w \in Waiting, at' = Woken({w}) PROVE NoIdleWorker'
    <3>1. w \in Worker /\ at[w] # "checking"
      BY DEF Waiting
    <3>2. Cardinality(Checking') = Cardinality(Checking) + 1 /\ Waiting' \subseteq Waiting
      BY <2>3, <3>1, WokenOne, OneMoreChecking
    <3>3. QED
      BY <2>1, <3>2, <1>0
  <2>4. QED
    BY <1>2, <2>2, <2>3 DEF NotifyWorker, NotifyOne
<1>3. CASE Exit
  <2>1. main = "retracing" /\ main' = "exited" /\ UNCHANGED <<queue, stop, at>>
    BY <1>3 DEF Exit
  <2>2. Checking' = Checking /\ Waiting' = Waiting
    BY <2>1 DEF Checking, Waiting
  <2>3. QED
    BY <2>1, <2>2
<1>4. CASE Stop \/ NotifyWorkers \/ Join
  BY <1>4 DEF Stop, NotifyWorkers, Join, PoolInv, Stopped
<1>5. ASSUME NEW w \in Worker, Sleep(w) PROVE NoIdleWorker'
  <2>1. Len(queue') = 0 /\ main' = main
    BY <1>5, EmptySeq DEF Sleep, MustWait
  <2>2. QED
    BY <2>1, <1>0
<1>6. ASSUME NEW w \in Worker, Return(w) PROVE NoIdleWorker'
  BY <1>6 DEF Return, MayReturn
<1>7. ASSUME NEW w \in Worker, SpuriousWakeup(w) PROVE NoIdleWorker'
  <2>1. at[w] # "checking" /\ at' = Woken({w}) /\ UNCHANGED <<main, queue, stop>>
    BY <1>7 DEF SpuriousWakeup
  <2>2. Cardinality(Checking') = Cardinality(Checking) + 1 /\ Waiting' \subseteq Waiting
    BY <2>1, WokenOne, OneMoreChecking
  <2>3. QED
    BY <2>1, <2>2, <1>0
<1>8. ASSUME NEW w \in Worker, Pop(w) PROVE NoIdleWorker'
  <2>1. /\ at[w] = "checking" /\ at' = [at EXCEPT ![w] = "writing"]
        /\ queue' = Tail(queue) /\ UNCHANGED <<main, stop>>
    BY <1>8, PopsTask DEF Pop, Popped
  <2>2. Len(queue') = Len(queue) - 1
    BY <1>8, <2>1, PopsTask, Removed
  <2>3. Checking' = Checking \ {w} /\ w \in Checking /\ Waiting' = Waiting
    BY <1>0, <2>1 DEF Checking, Waiting
  <2>4. IsFiniteSet(Checking)
    BY CheckingFinite DEF Checking
  <2>5. Cardinality(Checking') = Cardinality(Checking) - 1
    BY <2>3, <2>4, FS_RemoveElement
  <2>6. QED
    BY <2>1, <2>2, <2>3, <2>5, <1>0
<1>9. ASSUME NEW w \in Worker, WritePNG(w) PROVE NoIdleWorker'
  <2>1. /\ at[w] # "checking" /\ at' = [at EXCEPT ![w] = "checking"]
        /\ UNCHANGED <<main, queue, stop>>
    BY <1>9 DEF WritePNG
  <2>2. Cardinality(Checking') = Cardinality(Checking) + 1 /\ Waiting' \subseteq Waiting
    BY <2>1, OneMoreChecking
  <2>3. QED
    BY <2>1, <2>2, <1>0
<1>10. CASE Over
  BY <1>10 DEF Over, vars, Checking, Waiting
<1>11. QED
  BY <1>1, <1>2, <1>3, <1>4, <1>5, <1>6, <1>7, <1>8, <1>9, <1>10
  DEF Next, PoolStep, WorkerStep

(* While a worker sleeps, every queued snapshot has a worker that is about *)
(* to look for it or a notification on its way (notify_one after the       *)
(* unlock in ThreadPool::enqueue).                                         *)
THEOREM NoWorkerIdles ==
  ASSUME ~Win32
  PROVE  Spec => []NoIdleWorker
<1>1. Init => NoIdleWorker
  BY DEF Init, NoIdleWorker, Waiting
<1>2. PoolInv /\ NoIdleWorker /\ [Next]_vars => NoIdleWorker'
  <2>1. PoolInv /\ NoIdleWorker /\ Next => NoIdleWorker'
    BY IdleNext
  <2>2. NoIdleWorker /\ UNCHANGED vars => NoIdleWorker'
    BY DEF NoIdleWorker, Waiting, Checking, vars
  <2>3. QED
    BY <2>1, <2>2
<1>3. QED
  BY <1>1, <1>2, PoolInvariant, PTL DEF Spec

(* With a wait that calls its predicate, no worker takes a task from an    *)
(* empty queue (the lambda of ThreadPool's constructor).                   *)
THEOREM NeverPopsEmptyQueue ==
  ASSUME ~Win32
  PROVE  Spec => []NeverPopsEmpty
<1>1. Init => NeverPopsEmpty
  BY DEF Init, NeverPopsEmpty
<1>2. PoolInv /\ NeverPopsEmpty /\ [Next]_vars => NeverPopsEmpty'
  <2> SUFFICES ASSUME PoolInv, NeverPopsEmpty, [Next]_vars PROVE NeverPopsEmpty'
    OBVIOUS
  <2>0. at \in [Worker -> Labels]
    BY DEF PoolInv, TypeOK, Labels
  <2>1. CASE TakeSnapshot \/ Exit \/ Stop \/ Join \/ Over \/ UNCHANGED vars
    BY <2>1 DEF TakeSnapshot, Exit, Stop, Join, Over, vars, NeverPopsEmpty
  <2>2. CASE NotifyWorker \/ NotifyWorkers
    BY <2>2 DEF NotifyWorker, NotifyWorkers, NotifyOne, NotifyAll, Woken, NeverPopsEmpty
  <2>3. ASSUME NEW w \in Worker, Sleep(w) \/ Return(w) \/ WritePNG(w) PROVE NeverPopsEmpty'
    BY <2>0, <2>3 DEF Sleep, Return, WritePNG, NeverPopsEmpty
  <2>4. ASSUME NEW w \in Worker, SpuriousWakeup(w) PROVE NeverPopsEmpty'
    BY <2>4 DEF SpuriousWakeup, Woken, NeverPopsEmpty
  <2>5. ASSUME NEW w \in Worker, Pop(w) PROVE NeverPopsEmpty'
    BY <2>0, <2>5, PopsTask DEF Pop, NeverPopsEmpty
  <2>6. QED
    BY <2>1, <2>2, <2>3, <2>4, <2>5 DEF Next, PoolStep, WorkerStep
<1>3. QED
  BY <1>1, <1>2, PoolInvariant, PTL DEF Spec

-----------------------------------------------------------------------------
(* A pool that has been joined has written everything.                     *)
LEMMA EndedWritten ==
  ASSUME PoolInv, \A w \in Worker : at[w] = "returned"
  PROVE  Written = 1..taken
<1>1. queue = << >>
  BY WorkerAssumption DEF PoolInv, Stopped
<1>2. Left = taken
  BY <1>1, EmptySeq, Numbers DEF Left
<1>3. \A w \in Worker : task[w] = 0
  BY PlacedParts DEF PoolInv, Held
<1>4. ASSUME NEW n \in 1..Snapshots PROVE files[n] > 0 <=> n <= taken
  BY <1>2, <1>3, PlacedParts DEF PoolInv, TypeOK, Filed
<1>5. QED
  BY <1>4, Numbers DEF PoolInv, TypeOK, Written

(* A retrace that ends with its trace leaves no snapshot unwritten (the    *)
(* destructors of Snapshotter and ThreadPool at the end of main).          *)
THEOREM AllWrittenAtEnd == Spec => []WrittenAtEnd
<1>1. PoolInv => WrittenAtEnd
  BY EndedWritten DEF PoolInv, Stopped, WrittenAtEnd
<1>2. QED
  BY <1>1, PoolInvariant, PTL

(* Every step of the pool is a step of SnapshotFiles or none: the part of  *)
(* ImplementsFiles without its fairness.                                   *)
THEOREM FilesRefined == Spec => Files!Init /\ [][Files!Next]_Files!vars
<1>1. Init => Files!Init
  BY DEF Init, Files!Init, Written
<1>2. PoolInv /\ [Next]_vars => [Files!Next]_Files!vars
  <2> SUFFICES ASSUME PoolInv, [Next]_vars PROVE [Files!Next]_Files!vars
    OBVIOUS
  <2>1. CASE TakeSnapshot
    <3>1. Files!Take
      BY <2>1, Numbers DEF TakeSnapshot, Files!Take, Written, PoolInv, TypeOK
    <3>2. QED
      BY <3>1 DEF Files!Next
  <2>2. CASE Join
    <3>1. Files!Finish
      BY <2>2, EndedWritten DEF Join, Files!Finish, Written
    <3>2. QED
      BY <3>1 DEF Files!Next
  <2>0. CASE Exit
    <3>1. Files!Exit
      BY <2>0 DEF Exit, Files!Exit, Written
    <3>2. QED
      BY <3>1 DEF Files!Next
  <2>3. ASSUME NEW w \in Worker, WritePNG(w) PROVE Files!Write
    <3>0. task[w] \in 1..Snapshots /\ files[task[w]] = 0 /\ task[w] <= Left
      BY <2>3, PlacedParts DEF PoolInv, TypeOK, WritePNG, Held, Filed
    <3>1. task[w] \in (1..taken) \ Written
      BY <3>0, Numbers DEF Written
    <3>2. files' = [files EXCEPT ![task[w]] = files[task[w]] + 1] /\ UNCHANGED <<last, taken>>
      BY <2>3 DEF WritePNG
    <3>3. Written' = Written \cup {task[w]}
      BY <3>0, <3>2 DEF Written, PoolInv, TypeOK
    <3>4. main \notin {"ended", "exited"} /\ main' = main
      BY <2>3 DEF WritePNG, Alive, PoolInv, Stopped
    <3>5. QED
      BY <3>1, <3>2, <3>3, <3>4 DEF Files!Write
  <2>4. ASSUME UNCHANGED <<last, taken, files>>,
               main \in {"ended", "exited"} <=> main' \in {"ended", "exited"}
        PROVE  UNCHANGED Files!vars
    BY <2>4 DEF Files!vars, Written
  <2>5. CASE NotifyWorker \/ NotifyWorkers \/ Stop \/ Over \/ UNCHANGED vars
    BY <2>4, <2>5 DEF NotifyWorker, NotifyWorkers, Stop, Over, vars
  <2>6. ASSUME NEW w \in Worker, Sleep(w) \/ Return(w) \/ Pop(w) \/ SpuriousWakeup(w)
        PROVE  UNCHANGED Files!vars
    BY <2>4, <2>6 DEF Sleep, Return, Pop, SpuriousWakeup
  <2>7. QED
    BY <2>0, <2>1, <2>2, <2>3, <2>5, <2>6 DEF Next, PoolStep, WorkerStep, Files!Next
<1>3. QED
  BY <1>1, <1>2, PoolInvariant, PTL DEF Spec
=============================================================================
