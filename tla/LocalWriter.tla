----------------------------- MODULE LocalWriter -----------------------------
(***************************************************************************)
(* The writer inside a traced process (lib/trace/trace_writer_local.cpp on *)
(* top of trace_writer.cpp and trace_ostream_snappy.cpp, with the signal   *)
(* handler of lib/os/os_posix.cpp).  Every application thread writes its   *)
(* calls under one recursive mutex; a signal may interrupt a thread at any *)
(* point and asks the writer to flush; a fork copies the writer.           *)
(*                                                                         *)
(* A call is two events in the trace, enter and leave, each begun and      *)
(* ended by a write of its own; what lies between (arguments, return       *)
(* value) is part of the begin.  mem[p] is the memory of process p: a fork *)
(* copies it whole.                                                        *)
(***************************************************************************)
EXTENDS Integers, Sequences, FiniteSets

CONSTANTS Thread,      \* threads of the traced program
          Function,    \* functions it calls, each with a signature
          Calls,       \* bound: calls the program makes, in all
          ChunkSize,   \* writes that fill the cache of the output stream
          MaxSignals,  \* bound: signals delivered
          MayFork,     \* the program may fork, once
          EarlyExit    \* the program may exit while threads are in calls

ASSUME ChunkAssumption == ChunkSize \in Nat /\ ChunkSize > 1
ASSUME BoundsAssumption == Calls \in Nat /\ MaxSignals \in Nat

Parent == 0
Child == 1
Proc == {Parent, Child}
NoFile == 2      \* m_file is NULL; a trace file is named by its opener
NoThread == "no thread"

ASSUME ThreadAssumption == NoThread \notin Thread

VARIABLES
  alive,    \* "unborn", "running", "exited" or "killed", by process
  mem,      \* the memory of each process, see Fresh
  pc,       \* where each thread of each process is in a call
  handler,  \* where it is in signalHandler, "none" outside
  todo,     \* bound: calls left to make
  call,     \* the number beginEnter returned to it
  disk,     \* contents of each trace file
  signals,  \* bound: signals left
  writers,  \* history: processes that wrote to each file
  mark      \* history: length of the trace when a signal arrived

vars == <<alive, mem, pc, handler, todo, call, disk, signals, writers, mark>>

(* The memory of a process that has not traced anything.                   *)
Fresh ==
  [ file |-> NoFile,          \* Writer::m_file
    pid |-> NoFile,           \* LocalWriter::pid
    cache |-> << >>,          \* SnappyOutStream::m_cache
    stream |-> << >>,         \* buffered in SnappyOutStream::m_stream
    callNo |-> 0,             \* Writer::call_no
    known |-> {},             \* Writer::functions
    owner |-> NoThread,       \* LocalWriter::mutex, recursive
    depth |-> 0,
    acquired |-> 0,           \* LocalWriter::acquired
    nextNum |-> 1,            \* next_thread_num
    num |-> [t \in Thread |-> 0],  \* thread_num, thread local
    recursion |-> 0,          \* signalHandler's recursion_count
    seen |-> [t \in Thread |-> 0], \* what a thread has loaded to change it
    raced |-> FALSE,          \* history: two of them handled a signal at once
    callback |-> TRUE ]       \* gCallback is set

Init ==
  /\ alive = [p \in Proc |-> IF p = Parent THEN "running" ELSE "unborn"]
  /\ mem = [p \in Proc |-> Fresh]
  /\ pc = [p \in Proc |-> [t \in Thread |-> IF p = Parent THEN "idle" ELSE "gone"]]
  /\ handler = [p \in Proc |-> [t \in Thread |-> "none"]]
  /\ todo = Calls
  /\ call = [p \in Proc |-> [t \in Thread |-> 0]]
  /\ disk = [p \in Proc |-> << >>]
  /\ signals = MaxSignals
  /\ writers = [p \in Proc |-> {}]
  /\ mark = [p \in Proc |-> [t \in Thread |-> 0]]

-----------------------------------------------------------------------------
(* The recursive mutex.                                                    *)
CanLock(p, t) == mem[p].owner \in {NoThread, t}

NeverExcluded(p, t) == TRUE             \* mutation: no mutual exclusion

NotRecursive(p, t) ==                   \* mutation: the owner blocks as well
  mem[p].owner = NoThread

MayLock(p, t) == CanLock(p, t)

Locked(m, t) == [m EXCEPT !.owner = t, !.depth = @ + 1]

ReleasedAtOnce(m) ==                    \* mutation: the mutex not recursive
  [m EXCEPT !.depth = 0, !.owner = NoThread]

Unlocked(m) ==
  [m EXCEPT !.depth = @ - 1, !.owner = IF m.depth = 1 THEN NoThread ELSE @]

(* SnappyOutStream::write: a full cache goes to the file stream.           *)
Put(m, event) ==
  IF Len(m.cache) + 1 = ChunkSize
    THEN [m EXCEPT !.cache = << >>, !.stream = @ \o Append(m.cache, event)]
    ELSE [m EXCEPT !.cache = Append(@, event)]

Buffered(m) == m.stream \o m.cache

(* What can be written: by is not in the trace, it names the writing       *)
(* thread for the properties below.                                        *)
Version == [kind |-> "version"]
Enter(t, thread, fn, no, sig) ==
  [kind |-> "enter", by |-> t, thread |-> thread, fn |-> fn, no |-> no, sig |-> sig]
Leave(t, no) == [kind |-> "leave", by |-> t, no |-> no]
End(t) == [kind |-> "end", by |-> t]

KeptTables(m, p) ==                     \* mutation: tables not cleared by open
  [m EXCEPT !.file = p, !.pid = p, !.cache = <<Version>>, !.stream = << >>]

(* LocalWriter::open and Writer::open.                                     *)
Opened(m, p) ==
  [m EXCEPT !.file = p, !.pid = p, !.cache = <<Version>>, !.stream = << >>,
            !.callNo = 0, !.known = {}]

(* A forked child still has the file of its parent open.                   *)
Inherited(m, p) == m.file # NoFile /\ m.pid # p

(* checkProcessId, and the open of beginEnter: leaving the inherited file, *)
(* close deletes the stream, whose destructor flushes it.                  *)
FileReady(m, p) ==
  IF m.file = NoFile \/ Inherited(m, p) THEN Opened(m, p) ELSE m

(* What close and flush append to the file that is open.                   *)
FlushTo(p) ==
  /\ disk' = [disk EXCEPT ![mem[p].file] = @ \o Buffered(mem[p])]
  /\ writers' = [writers EXCEPT ![mem[p].file] =
                   @ \cup (IF Buffered(mem[p]) = << >> THEN {} ELSE {p})]

CheckProcessId(p) ==
  IF Inherited(mem[p], p) THEN FlushTo(p) ELSE UNCHANGED <<disk, writers>>

(* Process p, whose memory is m, writes an event to its own file.  A chunk *)
(* that goes to the file stream may push its buffer into the file.         *)
Write(p, m, event) ==
  LET next == Put(m, event) IN
  \/ /\ mem' = [mem EXCEPT ![p] = next]
     /\ UNCHANGED <<disk, writers>>
  \/ /\ next.cache = << >>
     /\ mem' = [mem EXCEPT ![p] = [next EXCEPT !.stream = << >>]]
     /\ disk' = [disk EXCEPT ![p] = @ \o next.stream]
     /\ writers' = [writers EXCEPT ![p] = @ \cup {p}]

-----------------------------------------------------------------------------
(* An application thread.  It runs unless it is in a signal handler.       *)
At(p, t, label) ==
  /\ alive[p] = "running"
  /\ handler[p][t] = "none"
  /\ pc[p][t] = label

Goto(p, t, label) == pc' = [pc EXCEPT ![p][t] = label]

ThreadVars == <<alive, handler, signals, mark>>

(* A wrapper is called: it will lock in beginEnter.                        *)
CallFunction(p, t) ==
  /\ At(p, t, "idle")
  /\ todo > 0
  /\ todo' = todo - 1
  /\ Goto(p, t, "enter")
  /\ UNCHANGED <<ThreadVars, mem, call, disk, writers>>

(* mutex.lock, at the head of beginEnter and of beginLeave.                *)
Lock(p, t) ==
  \E next \in {"enter", "leave"} :
    /\ At(p, t, next)
    /\ MayLock(p, t)
    /\ mem' = [mem EXCEPT ![p] = Locked(@, t)]
    /\ Goto(p, t, IF next = "enter" THEN "entering" ELSE "leaving")
    /\ UNCHANGED <<ThreadVars, todo, call, disk, writers>>

(* The rest of beginEnter: ++acquired, a file of this process, a number    *)
(* for the thread, the enter event, with the signature the first time.     *)
BeginEnter(p, t) ==
  \E fn \in Function :
    LET m == FileReady(mem[p], p)
        n == IF m.num[t] = 0 THEN m.nextNum ELSE m.num[t]
        event == Enter(t, n - 1, fn, m.callNo, fn \notin m.known)
        counted == [m EXCEPT !.acquired = @ + 1,
                             !.num[t] = n,
                             !.nextNum = IF m.num[t] = 0 THEN @ + 1 ELSE @,
                             !.callNo = @ + 1,
                             !.known = @ \cup {fn}] IN
    /\ At(p, t, "entering")
    /\ IF Inherited(mem[p], p)
         THEN CheckProcessId(p) /\ mem' = [mem EXCEPT ![p] = Put(counted, event)]
         ELSE Write(p, counted, event)
    /\ call' = [call EXCEPT ![p][t] = m.callNo]
    /\ Goto(p, t, "entered")
    /\ UNCHANGED <<ThreadVars, todo>>

BeginLeave(p, t) ==
  /\ At(p, t, "leaving")
  /\ Write(p, [mem[p] EXCEPT !.acquired = @ + 1], Leave(t, call[p][t]))
  /\ Goto(p, t, "left")
  /\ UNCHANGED <<ThreadVars, todo, call>>

(* endEnter and endLeave: CALL_END, --acquired, mutex.unlock.  Between the *)
(* two events the real function runs.                                      *)
EndEvent(p, t) ==
  \E label \in {"entered", "left"} :
    /\ At(p, t, label)
    /\ Write(p, Unlocked([mem[p] EXCEPT !.acquired = @ - 1]), End(t))
    /\ Goto(p, t, IF label = "entered" THEN "leave" ELSE "idle")
    /\ UNCHANGED <<ThreadVars, todo, call>>

-----------------------------------------------------------------------------
(* The trace of process p: its file, and what p still holds for it.        *)
Contents(p) ==
  disk[p] \o (IF mem[p].file = p /\ mem[p].pid = p THEN Buffered(mem[p]) ELSE << >>)

(* Between mutex.lock and mutex.unlock, or closing the file.               *)
Writing(p, t) ==
  \/ pc[p][t] \in {"entering", "entered", "leaving", "left", "closing"}
  \/ handler[p][t] = "flushing"

(* signalHandler, on top of whatever the thread is doing.                  *)
In(p, t, label) == alive[p] = "running" /\ handler[p][t] = label

GotoHandler(p, t, label) == handler' = [handler EXCEPT ![p][t] = label]

HandlerVars == <<pc, todo, call>>

Handling(p) == \E u \in Thread : handler[p][u] # "none"

(* One that comes while the process logs is not noticed.                   *)
Signal(p, t) ==
  /\ In(p, t, "none")
  /\ pc[p][t] # "gone"
  /\ signals > 0
  /\ signals' = signals - 1
  /\ mark' = [mark EXCEPT ![p] =
       IF Handling(p) THEN [u \in Thread |-> 0]
       ELSE [@ EXCEPT ![t] = IF Writing(p, t) \/ ~mem[p].callback
                               THEN 0 ELSE Len(Contents(p))]]
  /\ GotoHandler(p, t, "caught")
  /\ UNCHANGED <<alive, mem, disk, writers, HandlerVars>>

(* Between the test of recursion_count and the last change of it; before   *)
(* that, a signal has the same effect as one that came a little earlier.   *)
Passed == {"count", "counting", "flush", "flushing", "flushed", "uncounting"}

(* A signal inside the handler is a recursion: it only chains.  If the     *)
(* program's handler returns, nothing has changed.  (If a race has left    *)
(* the count at 0 it flushes amid the flush, which is not modelled.)       *)
SignalInHandler(p, t) ==
  /\ \E label \in Passed \ {"count", "counting"} : In(p, t, label)
  /\ mem[p].recursion # 0
  /\ signals > 0
  /\ signals' = signals - 1
  /\ alive' = [alive EXCEPT ![p] = "killed"]
  /\ mark' = [mark EXCEPT ![p][t] = 0]
  /\ UNCHANGED <<mem, handler, disk, writers, HandlerVars>>

(* The test of recursion_count: a signal while another is handled, by any  *)
(* thread, skips the flush.  The count is a plain int that threads test    *)
(* and change without a lock: two may pass the test, and a change that one *)
(* makes between the load and the store of another is lost.                *)
Catch(p, t) ==
  /\ In(p, t, "caught")
  /\ IF mem[p].recursion # 0
       THEN GotoHandler(p, t, "chain") /\ UNCHANGED mem
       ELSE /\ GotoHandler(p, t, "count")
            /\ mem' = [mem EXCEPT ![p].raced =
                 @ \/ \E u \in Thread \ {t} : handler[p][u] \in Passed]
  /\ UNCHANGED <<alive, disk, signals, writers, mark, HandlerVars>>

(* ++recursion_count, and --recursion_count after the backtrace: a load... *)
LoadCount(p, t) ==
  \E label \in {"count", "flushed"} :
    /\ In(p, t, label)
    /\ mem' = [mem EXCEPT ![p].seen[t] = mem[p].recursion]
    /\ GotoHandler(p, t, IF label = "count" THEN "counting" ELSE "uncounting")
    /\ UNCHANGED <<alive, disk, signals, writers, mark, HandlerVars>>

(* ...and a store.  After the first the callback is called, unless         *)
(* ~LocalWriter has reset it.                                              *)
StoreCount(p, t) ==
  \E label \in {"counting", "uncounting"} :
    /\ In(p, t, label)
    /\ mem' = [mem EXCEPT
         ![p].recursion = mem[p].seen[t] + IF label = "counting" THEN 1 ELSE -1,
         ![p].seen[t] = 0]
    /\ GotoHandler(p, t, IF label = "uncounting" THEN "chain"
                         ELSE IF mem[p].callback THEN "flush" ELSE "flushed")
    /\ UNCHANGED <<alive, disk, signals, writers, mark, HandlerVars>>

FlushLock(p, t) ==
  /\ In(p, t, "flush")
  /\ MayLock(p, t)
  /\ mem' = [mem EXCEPT ![p] = Locked(@, t)]
  /\ GotoHandler(p, t, "flushing")
  /\ UNCHANGED <<alive, disk, signals, writers, mark, HandlerVars>>

FlushAnyway(p) ==                       \* mutation: acquired ignored
  mem[p].file # NoFile /\ mem[p].pid = p

FlushInherited(p) ==                    \* mutation: the process not checked
  mem[p].acquired = 0 /\ mem[p].file # NoFile

CountedBefore(p) ==                     \* mutation: ++acquired before the test
  mem[p].acquired + 1 = 0

(* LocalWriter::flush does nothing inside a write, without a file, or in a *)
(* forked child.                                                           *)
MayFlush(p) == mem[p].acquired = 0 /\ mem[p].file # NoFile /\ mem[p].pid = p

Flush(p, t) ==
  /\ In(p, t, "flushing")
  /\ IF MayFlush(p)
       THEN /\ FlushTo(p)
            /\ mem' = [mem EXCEPT ![p] =
                 [Unlocked(@) EXCEPT !.cache = << >>, !.stream = << >>]]
       ELSE /\ mem' = [mem EXCEPT ![p] = Unlocked(@)]
            /\ UNCHANGED <<disk, writers>>
  /\ GotoHandler(p, t, "flushed")
  /\ UNCHANGED <<alive, signals, mark, HandlerVars>>

(* The program's own handler returns, or the signal is ignored...          *)
ChainReturns(p, t) ==
  /\ In(p, t, "chain")
  /\ GotoHandler(p, t, "none")
  /\ UNCHANGED <<alive, mem, disk, signals, writers, mark, HandlerVars>>

(* ...or the default action ends the process.                              *)
ChainKills(p, t) ==
  /\ In(p, t, "chain")
  /\ alive' = [alive EXCEPT ![p] = "killed"]
  /\ UNCHANGED <<mem, handler, disk, signals, writers, mark, HandlerVars>>

-----------------------------------------------------------------------------
(* The program forks on a thread outside any call: the child has a copy of *)
(* the memory, and of its threads only the one that forked.                *)
Fork(t) ==
  /\ MayFork
  /\ At(Parent, t, "idle")
  /\ alive[Child] = "unborn"
  /\ alive' = [alive EXCEPT ![Child] = "running"]
  /\ mem' = [mem EXCEPT ![Child] = mem[Parent]]
  /\ pc' = [pc EXCEPT ![Child][t] = "idle"]
  /\ UNCHANGED <<handler, todo, call, disk, signals, writers, mark>>

Done(p, t) ==
  \/ pc[p][t] = "gone"
  \/ pc[p][t] = "idle" /\ todo = 0 /\ handler[p][t] = "none"

(* The program exits: ~LocalWriter, without the mutex.                     *)
Exit(p, t) ==
  /\ At(p, t, "idle")
  /\ EarlyExit \/ \A u \in Thread : Done(p, u)
  /\ Goto(p, t, "exiting")
  /\ mem' = [mem EXCEPT ![p].callback = FALSE]
  /\ UNCHANGED <<ThreadVars, todo, call, disk, writers>>

(* checkProcessId opens a file for a child that has traced nothing.        *)
DestroyLocal(p, t) ==
  /\ At(p, t, "exiting")
  /\ CheckProcessId(p)
  /\ mem' = [mem EXCEPT ![p] = IF Inherited(@, p) THEN Opened(@, p) ELSE @]
  /\ Goto(p, t, "closing")
  /\ UNCHANGED <<ThreadVars, todo, call>>

(* ~Writer closes the file.                                                *)
DestroyWriter(p, t) ==
  /\ At(p, t, "closing")
  /\ IF mem[p].file = NoFile THEN UNCHANGED <<disk, writers>> ELSE FlushTo(p)
  /\ mem' = [mem EXCEPT ![p].file = NoFile, ![p].cache = << >>, ![p].stream = << >>]
  /\ alive' = [alive EXCEPT ![p] = "exited"]
  /\ UNCHANGED <<handler, pc, todo, call, signals, mark>>

-----------------------------------------------------------------------------
ThreadStep(p, t) ==
  \/ CallFunction(p, t) \/ Lock(p, t) \/ BeginEnter(p, t) \/ BeginLeave(p, t)
  \/ EndEvent(p, t) \/ Exit(p, t) \/ DestroyLocal(p, t) \/ DestroyWriter(p, t)

HandlerStep(p, t) ==
  \/ Catch(p, t) \/ LoadCount(p, t) \/ StoreCount(p, t)
  \/ FlushLock(p, t) \/ Flush(p, t) \/ ChainReturns(p, t) \/ ChainKills(p, t)

Over == \A p \in Proc : alive[p] # "running"

Stopped == Over /\ UNCHANGED vars

Next ==
  \/ \E p \in Proc, t \in Thread :
       ThreadStep(p, t) \/ HandlerStep(p, t) \/ Signal(p, t) \/ SignalInHandler(p, t)
  \/ \E t \in Thread : Fork(t)
  \/ Stopped

(* Threads run; signals and the fork may happen or not.                    *)
Fairness ==
  \A p \in Proc, t \in Thread : WF_vars(ThreadStep(p, t)) /\ WF_vars(HandlerStep(p, t))

Spec == Init /\ [][Next]_vars /\ Fairness
-----------------------------------------------------------------------------
TypeOK ==
  /\ alive \in [Proc -> {"unborn", "running", "exited", "killed"}]
  /\ \A p \in Proc :
       /\ mem[p].file \in {Parent, Child, NoFile}
       /\ mem[p].pid \in {Parent, Child, NoFile}
       /\ Len(mem[p].cache) < ChunkSize
       /\ mem[p].owner \in Thread \cup {NoThread}
       /\ mem[p].acquired \in 0..1
       /\ mem[p].depth \in 0..2
  /\ pc \in [Proc -> [Thread -> {"idle", "enter", "entering", "entered", "leave",
                               "leaving", "left", "exiting", "closing", "gone"}]]
  /\ handler \in [Proc -> [Thread ->
       {"none", "caught", "chain"} \cup Passed]]
  /\ todo \in 0..Calls
  /\ signals \in 0..MaxSignals
  /\ writers \in [Proc -> SUBSET Proc]

(* The comment on the mutex, trace_writer_local.hpp:59: only one thread of *)
(* a process writes to its trace, flushes it or closes it at a time.       *)
OneWriter ==
  \A p \in Proc : \A t, u \in Thread :
    alive[p] = "running" /\ Writing(p, t) /\ Writing(p, u) => t = u

Positions(s, kind) == {i \in DOMAIN s : s[i].kind = kind}

(* What the parser relies on.  One version, first.                         *)
VersionFirst(s) == s # << >> => Positions(s, "version") = {1}

(* An event is ended by the thread that began it before another begins.    *)
Unbroken(s) ==
  \A i \in Positions(s, "enter") \cup Positions(s, "leave") :
    i < Len(s) => s[i + 1] = End(s[i].by)

(* The parser counts the calls: the numbers have to be those it counts.    *)
Numbered(s) ==
  \A i \in Positions(s, "enter") :
    s[i].no = Cardinality({j \in Positions(s, "enter") : j < i})

(* A leave names a call its thread has entered and not left.               *)
Matched(s) ==
  \A i \in Positions(s, "leave") :
    /\ \E j \in Positions(s, "enter") : j < i /\ s[j].no = s[i].no /\ s[j].by = s[i].by
    /\ \A j \in Positions(s, "leave") : s[j].no = s[i].no => j = i

(* A signature is given where its function first occurs, and only there.   *)
Signed(s) ==
  \A i \in Positions(s, "enter") :
    s[i].sig <=> \A j \in Positions(s, "enter") : s[j].fn = s[i].fn => i <= j

(* A number stands for one thread of the program.                          *)
Attributed(s) ==
  \A i, j \in Positions(s, "enter") : s[i].by = s[j].by <=> s[i].thread = s[j].thread

WellFormed(s) ==
  VersionFirst(s) /\ Unbroken(s) /\ Numbered(s) /\ Matched(s) /\ Signed(s) /\ Attributed(s)

(* Whatever the interleaving, the signals and the crash, a trace that no   *)
(* other process wrote to is one the parser reads back: version,           *)
(* uninterrupted events, consecutive numbers, leaves that match, and every *)
(* signature before it is needed.  So is its part on disk, a prefix of it. *)
TraceWellFormed ==
  \A p \in Proc : writers[p] \subseteq {p} => WellFormed(Contents(p)) /\ WellFormed(disk[p])

(* A flush from a signal handler writes whole events, never a begun one,   *)
(* and in a forked child nothing at all while the parent's file is open    *)
(* (the comment in LocalWriter::flush, trace_writer_local.cpp:221).        *)
FlushesWholeEvents ==
  [][\A p, q \in Proc, t \in Thread :
       /\ handler[p][t] = "flushing" /\ handler'[p][t] = "flushed"
       /\ disk'[q] # disk[q]
       => q = p /\ disk'[q][Len(disk'[q])].kind \in {"version", "end"}]_vars

(* The class comment, trace_writer_local.hpp:53: a signal that ends the    *)
(* process loses nothing that was written when it arrived, unless it       *)
(* arrived in the middle of a write, or while another is being handled, or *)
(* after two threads have passed the test of recursion_count at once.      *)
Flushed(p) ==
  \E t \in Thread : handler[p][t] # "none" /\ Len(disk[p]) >= mark[p][t]

CrashFlushed ==
  \A p \in Proc : alive[p] = "killed" /\ ~mem[p].raced => Flushed(p)

(* The same of all signals that are handled alone.                         *)
AlwaysFlushed == \A p \in Proc : alive[p] = "killed" => Flushed(p)

(* A process writes to the trace it opened only: the comment in            *)
(* checkProcessId, trace_writer_local.cpp:162.                             *)
OnlyOpenerWrites == \A p \in Proc : writers[p] \subseteq {p}

(* Every call of the program that was started returns, and its exit gets   *)
(* through, whatever signals its threads handle: no deadlock on the mutex. *)
ParentEnds == <>(alive[Parent] # "running")

=============================================================================
