----------------------------- MODULE SnapshotPool -----------------------------
(* Threaded snapshots (glretrace -t): the retracing thread queues images   *)
(* for a pool of workers that encode and write them                        *)
(* (retrace/threaded_snapshot.hpp on lib/os/thread_pool.hpp, driven by     *)
(* takeSnapshot, retraceCall and main in retrace/retrace_main.cpp).        *)
(*                                                                         *)
(* What the code does under queue_mutex touches only the queue and stop,   *)
(* which nothing reads without it: each such block is one step.  The       *)
(* notifications come after the unlock and are steps of their own.         *)
EXTENDS Naturals, Sequences, FiniteSets

CONSTANTS Worker,     \* hardware_concurrency workers
          Snapshots,  \* bound: snapshots the trace has
          Win32       \* os::condition_variable is the one of os_thread.hpp

ASSUME WorkerAssumption == IsFiniteSet(Worker) /\ Worker # {}
ASSUME CountAssumption == Snapshots \in Nat
ASSUME Win32Assumption == Win32 \in BOOLEAN

VARIABLES
  last,     \* the snapshot after which -S has no more, 0 if it has no end
  main,     \* what the retracing thread is about to do
  taken,    \* snapshots it has taken: 1, 2, ...
  queue,    \* ThreadPool::tasks, their numbers
  stop,     \* ThreadPool::stop
  at,       \* what each worker is doing
  task,     \* the snapshot it has popped, 0 if none
  files     \* how often each file has been written

vars == <<last, main, taken, queue, stop, at, task, files>>

Init ==
  /\ last \in 0..Snapshots
  /\ main = "retracing"
  /\ taken = 0
  /\ queue = << >>
  /\ stop = FALSE
  /\ at = [w \in Worker |-> "checking"]
  /\ task = [w \in Worker |-> 0]
  /\ files = [n \in 1..Snapshots |-> 0]

-----------------------------------------------------------------------------
Waiting == {w \in Worker : at[w] = "waiting"}

Woken(ws) == [w \in Worker |-> IF w \in ws THEN "checking" ELSE at[w]]

NotifyNone == UNCHANGED at              \* mutation: notify_one forgotten

(* condition.notify_one and notify_all.                                    *)
NotifyOne ==
  \/ Waiting = {} /\ UNCHANGED at
  \/ \E w \in Waiting : at' = Woken({w})

NotifyAll == at' = Woken(Waiting)

(* takeSnapshot, to the end of enqueue's block.                            *)
TakeSnapshot ==
  /\ main = "retracing"
  /\ taken < Snapshots
  /\ taken # last \/ last = 0
  /\ taken' = taken + 1
  /\ queue' = Append(queue, taken + 1)
  /\ main' = "notifying"
  /\ UNCHANGED <<last, stop, at, task, files>>

NotifyWorker ==
  /\ main = "notifying"
  /\ NotifyOne
  /\ main' = "retracing"
  /\ UNCHANGED <<last, taken, queue, stop, task, files>>

(* retraceCall: the last call of -S has been reached, exit(0).             *)
Exit ==
  /\ main = "retracing"
  /\ taken = last /\ last # 0
  /\ main' = "exited"
  /\ UNCHANGED <<last, taken, queue, stop, at, task, files>>

(* The trace ends, and main deletes the snapshotter with its pool.         *)
Stop ==
  /\ main = "retracing"
  /\ stop' = TRUE
  /\ main' = "stopping"
  /\ UNCHANGED <<last, taken, queue, at, task, files>>

NotifyWorkers ==
  /\ main = "stopping"
  /\ NotifyAll
  /\ main' = "joining"
  /\ UNCHANGED <<last, taken, queue, stop, task, files>>

Join ==
  /\ main = "joining"
  /\ \A w \in Worker : at[w] = "returned"
  /\ main' = "ended"
  /\ UNCHANGED <<last, taken, queue, stop, at, task, files>>

-----------------------------------------------------------------------------
Alive == main # "exited"

(* A worker comes out of wait only for a reason it has to see itself; the  *)
(* wait of os_thread.hpp tests whether the predicate is empty, not what it *)
(* says.                                                                   *)
MustWait == ~Win32 /\ ~stop /\ queue = << >>

Sleep(w) ==
  /\ Alive
  /\ at[w] = "checking"
  /\ MustWait
  /\ at' = [at EXCEPT ![w] = "waiting"]
  /\ UNCHANGED <<last, main, taken, queue, stop, task, files>>

SpuriousWakeup(w) ==
  /\ Alive
  /\ at[w] = "waiting"
  /\ at' = Woken({w})
  /\ UNCHANGED <<last, main, taken, queue, stop, task, files>>

ReturnsAtStop == stop                   \* mutation: the queue is not emptied

MayReturn == stop /\ queue = << >>

Return(w) ==
  /\ Alive
  /\ at[w] = "checking"
  /\ MayReturn
  /\ at' = [at EXCEPT ![w] = "returned"]
  /\ UNCHANGED <<last, main, taken, queue, stop, task, files>>

NotPopped(q) == q                       \* mutation: front without pop

Popped(q) == Tail(q)

Pop(w) ==
  /\ Alive
  /\ at[w] = "checking"
  /\ ~MustWait /\ ~MayReturn
  /\ IF queue = << >>
       THEN /\ at' = [at EXCEPT ![w] = "undefined"]   \* front of an empty queue
            /\ UNCHANGED <<queue, task>>
       ELSE /\ task' = [task EXCEPT ![w] = Head(queue)]
            /\ queue' = Popped(queue)
            /\ at' = [at EXCEPT ![w] = "writing"]
  /\ UNCHANGED <<last, main, taken, stop, files>>

(* actuallyWritePNG, outside the lock.                                     *)
WritePNG(w) ==
  /\ Alive
  /\ at[w] = "writing"
  /\ files' = [files EXCEPT ![task[w]] = @ + 1]
  /\ task' = [task EXCEPT ![w] = 0]
  /\ at' = [at EXCEPT ![w] = "checking"]
  /\ UNCHANGED <<last, main, taken, queue, stop>>

-----------------------------------------------------------------------------
WorkerStep(w) == Sleep(w) \/ Return(w) \/ Pop(w) \/ WritePNG(w)

PoolStep == NotifyWorker \/ NotifyWorkers \/ Join

Over == main \in {"ended", "exited"} /\ UNCHANGED vars

Next ==
  \/ TakeSnapshot \/ Exit \/ Stop
  \/ PoolStep
  \/ \E w \in Worker : WorkerStep(w) \/ SpuriousWakeup(w)
  \/ Over

(* Threads run.  The trace need not end, and no wakeup is spurious when it *)
(* would be needed.                                                        *)
Fairness == WF_vars(PoolStep) /\ \A w \in Worker : WF_vars(WorkerStep(w))

Spec == Init /\ [][Next]_vars /\ Fairness

-----------------------------------------------------------------------------
TypeOK ==
  /\ last \in 0..Snapshots
  /\ main \in {"retracing", "notifying", "stopping", "joining", "ended", "exited"}
  /\ taken \in 0..Snapshots
  /\ queue \in Seq(1..Snapshots)
  /\ stop \in BOOLEAN
  /\ at \in [Worker -> {"checking", "waiting", "writing", "returned", "undefined"}]
  /\ task \in [Worker -> 0..Snapshots]
  /\ files \in [1..Snapshots -> 0..1]

(* Every snapshot taken is in one place: the queue, which is in order and  *)
(* ends with the last one taken, the hands of one worker, or its file.     *)
Placed ==
  /\ Len(queue) <= taken
  /\ \A i \in 1..Len(queue) : queue[i] = taken - Len(queue) + i
  /\ \A w \in Worker :
       /\ at[w] = "writing" <=> task[w] # 0
       /\ task[w] <= taken - Len(queue)
       /\ \A v \in Worker : task[w] = task[v] /\ task[w] # 0 => w = v
  /\ \A n \in 1..Snapshots :
       /\ files[n] = 1 => n <= taken - Len(queue) /\ \A w \in Worker : task[w] # n
       /\ files[n] = 0 /\ n <= taken - Len(queue) => \E w \in Worker : task[w] = n

(* Workers leave only a pool that is stopped and empty, and it stays so.   *)
Stopped ==
  /\ stop <=> main \in {"stopping", "joining", "ended"}
  /\ \A w \in Worker : at[w] = "returned" => stop /\ queue = << >>
  /\ main = "ended" => \A w \in Worker : at[w] = "returned"
  /\ main = "exited" => last # 0

(* The inductive invariant: where the snapshots are, and how the pool ends.*)
PoolInv == TypeOK /\ Placed /\ Stopped

Checking == {w \in Worker : at[w] = "checking"}

(* While a worker sleeps, there is another about to look for every queued  *)
(* snapshot, but for the one whose notification is on its way: a pool that *)
(* loses a wakeup still writes everything in the end, only not in parallel *)
(* (thread_pool.hpp, notify_one after the unlock).                         *)
NoIdleWorker ==
  Waiting # {} /\ ~stop =>
    Len(queue) <= Cardinality(Checking) + (IF main = "notifying" THEN 1 ELSE 0)

(* A worker takes a task only from a queue that has one: the wait before   *)
(* it promises "Same interface as std::condition_variable",                *)
(* os_thread.hpp:218.                                                      *)
NeverPopsEmpty == \A w \in Worker : at[w] # "undefined"

Written == {n \in 1..Snapshots : files[n] > 0}

(* A retrace that comes to the end of its trace has written every          *)
(* snapshot: its workers empty the queue before they return.               *)
WrittenAtEnd == main = "ended" => Written = 1..taken

(* The snapshots -S asks for are on disk when the program is gone,         *)
(* whichever way it went.                                                  *)
SnapshotsKept == main \in {"ended", "exited"} => Written = 1..taken

(* A pool that is deleted joins its workers, however many snapshots are    *)
(* queued when it is.                                                      *)
PoolEnds == stop ~> main = "ended"

Files == INSTANCE SnapshotFiles
  WITH written <- Written, over <- main \in {"ended", "exited"}

(* Deferring the writes to a pool changes nothing but their order.         *)
ImplementsFiles == Files!Spec
=============================================================================
