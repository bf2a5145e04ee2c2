------------------------------ MODULE RelayRace ------------------------------
(***************************************************************************)
(* Multi-threaded replay (retrace/retrace_main.cpp).  The calls of a trace *)
(* carry the thread that made them; a RelayRunner per thread_id ("leg")    *)
(* replays the calls of its thread, and the runner that meets a call of    *)
(* another thread passes it the baton and waits.  The fore runner, leg 0,  *)
(* runs on the thread that started the race; it alone ends it.             *)
(*                                                                         *)
(* A thread is named by its leg.  Every mutex operation, condition wait,   *)
(* notification and access to the vector of runners is a step of its own.  *)
(***************************************************************************)
EXTENDS Naturals, Sequences

CONSTANTS MaxLeg,  \* greatest thread_id
          Traces   \* the traces replayed: thread_ids, one per call

Leg == 0..MaxLeg

ASSUME MaxLegAssumption == MaxLeg \in Nat
ASSUME TracesAssumption == Traces \subseteq Seq(Leg)

NoLeg == MaxLeg + 1   \* no thread: the owner of a free mutex
NoCall == 0           \* a NULL trace::Call pointer; calls count from 1

VARIABLES
  trace,      \* the file open in the parser
  exitAt,     \* the call after which retraceCall exits, 0 for none
  parsed,     \* number of calls parse_call has returned
  runners,    \* legs with a RelayRunner in RelayRace::runners
  destroyed,  \* legs whose RelayRunner was deleted
  finished,   \* RelayRunner::finished
  baton,      \* RelayRunner::baton
  owner,      \* the thread that holds RelayRunner::mutex
  waiting,    \* legs blocked in their wake_cond
  pc,         \* where each thread is
  call,       \* the local `call' of run, runLeg and passBaton
  it,         \* iterator of stopRunners and ~RelayRace
  unflushed,  \* threads with rendering not flushed since
  replayed,   \* history: numbers of the calls retraced
  ranOn,      \* history: the thread that retraced each of them
  exited      \* retraceCall has called exit(0)

sync == <<finished, baton, owner, waiting>>
input == <<trace, exitAt>>
history == <<unflushed, replayed, ranOn, exited>>
vars == <<input, parsed, runners, destroyed, sync, pc, call, it, history>>

Init ==
  /\ trace \in Traces
  /\ exitAt \in 0..Len(trace)
  /\ parsed = 0
  /\ runners = {0}
  /\ destroyed = {}
  /\ finished = [l \in Leg |-> FALSE]
  /\ baton = [l \in Leg |-> NoCall]
  /\ owner = [l \in Leg |-> NoLeg]
  /\ waiting = {}
  /\ pc = [l \in Leg |-> IF l = 0 THEN "run" ELSE "unborn"]
  /\ call = [l \in Leg |-> NoCall]
  /\ it = 0
  /\ unflushed = {}
  /\ replayed = << >>
  /\ ranOn = << >>
  /\ exited = FALSE

At(t, label) == pc[t] = label /\ ~exited

Goto(t, label) == pc' = [pc EXCEPT ![t] = label]

Acquire(t, m) ==
  /\ owner[m] = NoLeg
  /\ owner' = [owner EXCEPT ![m] = t]

Release(m) == owner' = [owner EXCEPT ![m] = NoLeg]

LostNotifyOne(l) == UNCHANGED waiting   \* mutation: no notification

NotifyOne(l) == waiting' = waiting \ {l}

KeepBaton(t) == UNCHANGED baton         \* mutation: baton not reset

ClearBaton(t) == baton' = [baton EXCEPT ![t] = NoCall]

NoFlush(t) == UNCHANGED unflushed       \* mutation: no flush at the handover

FlushRendering(t) == unflushed' = unflushed \ {t}

AnyThread(t) == TRUE                    \* mutation: thread_id not compared

(* The call parse_call returns next is one of thread t.                    *)
NextIsOf(t) == trace[parsed + 1] = t

NoJoin(l) == TRUE                       \* mutation: delete without join

(* ~RelayRunner joins the thread, if the runner has one.                   *)
Joined(l) == l \in runners \ {0} => pc[l] = "done"

UseNull(t) == call' = [call EXCEPT ![t] = parsed + 1]  \* mutation: NULL used

(* parse_call returned NULL.                                               *)
NullCall(t) == call' = [call EXCEPT ![t] = NoCall]

-----------------------------------------------------------------------------
(* RelayRace::run up to runRace: the first call goes to the fore runner    *)
(* directly, without its mutex, or to another leg by passBaton.            *)
Run ==
  /\ At(0, "run")
  /\ \/ /\ Len(trace) = 0
        /\ Goto(0, "destroy")
        /\ UNCHANGED <<parsed, baton, call>>
     \/ /\ Len(trace) > 0
        /\ parsed' = 1
        /\ IF trace[1] = 0
             THEN /\ baton' = [baton EXCEPT ![0] = 1]
                  /\ Goto(0, "lock")
                  /\ UNCHANGED call
             ELSE /\ call' = [call EXCEPT ![0] = 1]
                  /\ Goto(0, "get")
                  /\ UNCHANGED baton
  /\ UNCHANGED <<input, runners, destroyed, finished, owner, waiting, it, history>>

(* runRace: take the runner's own mutex, held from here on except in wait. *)
LockOwn(t) ==
  /\ At(t, "lock")
  /\ Acquire(t, t)
  /\ Goto(t, "check")
  /\ UNCHANGED <<input, parsed, runners, destroyed, finished, baton, waiting,
                 call, it, history>>

(* The loop of runRace, one turn: wait, leave, or take the baton.          *)
Wait(t) ==
  /\ At(t, "check")
  /\ ~finished[t] /\ baton[t] = NoCall
  /\ Release(t)
  /\ waiting' = waiting \cup {t}
  /\ Goto(t, "wait")
  /\ UNCHANGED <<input, parsed, runners, destroyed, finished, baton, call, it, history>>

Wake(t) ==
  /\ At(t, "wait")
  /\ t \notin waiting
  /\ Acquire(t, t)
  /\ Goto(t, "check")
  /\ UNCHANGED <<input, parsed, runners, destroyed, finished, baton, waiting,
                 call, it, history>>

(* A condition variable may wake its waiter without a notification.        *)
SpuriousWakeup(t) ==
  /\ t \in waiting /\ ~exited
  /\ waiting' = waiting \ {t}
  /\ UNCHANGED <<input, parsed, runners, destroyed, finished, baton, owner, pc,
                 call, it, history>>

(* The fore runner goes on to stop the others, its mutex held; another     *)
(* releases its mutex and its thread ends.                                 *)
BreakOut(t) ==
  /\ At(t, "check")
  /\ finished[t]
  /\ IF t = 0
       THEN /\ Goto(t, "stop")
            /\ it' = 1
            /\ UNCHANGED owner
       ELSE /\ Goto(t, "done")
            /\ Release(t)
            /\ UNCHANGED it
  /\ UNCHANGED <<input, parsed, runners, destroyed, finished, baton, waiting,
                 call, history>>

TakeBaton(t) ==
  /\ At(t, "check")
  /\ ~finished[t] /\ baton[t] # NoCall
  /\ call' = [call EXCEPT ![t] = baton[t]]
  /\ ClearBaton(t)
  /\ Goto(t, "retrace")
  /\ UNCHANGED <<input, parsed, runners, destroyed, finished, owner, waiting, it, history>>

-----------------------------------------------------------------------------
(* runLeg.                                                                 *)
RetraceCall(t) ==
  /\ At(t, "retrace")
  /\ replayed' = Append(replayed, call[t])
  /\ ranOn' = Append(ranOn, t)
  /\ unflushed' = unflushed \cup {t}
  /\ exited' = (call[t] = exitAt)
  /\ Goto(t, "parse")
  /\ UNCHANGED <<input, parsed, runners, destroyed, sync, call, it>>

(* The next call is of this thread too.                                    *)
StayOnLeg(t) ==
  /\ At(t, "parse")
  /\ parsed < Len(trace)
  /\ NextIsOf(t)
  /\ parsed' = parsed + 1
  /\ call' = [call EXCEPT ![t] = parsed + 1]
  /\ Goto(t, "retrace")
  /\ UNCHANGED <<input, runners, destroyed, sync, it, history>>

(* The next call is of another thread: flushRendering, then passBaton.     *)
LeaveLeg(t) ==
  /\ At(t, "parse")
  /\ parsed < Len(trace)
  /\ ~NextIsOf(t)
  /\ parsed' = parsed + 1
  /\ call' = [call EXCEPT ![t] = parsed + 1]
  /\ FlushRendering(t)
  /\ Goto(t, "get")
  /\ UNCHANGED <<input, runners, destroyed, sync, it, replayed, ranOn, exited>>

(* The trace is over: the fore runner marks itself, another runner calls   *)
(* finishLine.                                                             *)
ReachFinishLine(t) ==
  /\ At(t, "parse")
  /\ parsed = Len(trace)
  /\ NullCall(t)
  /\ IF t = 0
       THEN /\ finished' = [finished EXCEPT ![0] = TRUE]
            /\ Goto(t, "check")
       ELSE /\ Goto(t, "line")
            /\ UNCHANGED finished
  /\ UNCHANGED <<input, parsed, runners, destroyed, baton, owner, waiting, it, history>>

-----------------------------------------------------------------------------
(* passBaton: getRunner makes the runner and its thread when the leg has   *)
(* none, then receiveBaton.                                                *)
GetRunner(t) ==
  LET leg == trace[call[t]] IN
  /\ At(t, "get")
  /\ runners' = runners \cup {leg}
  /\ pc' = [pc EXCEPT ![t] = "recvLock",
                      ![leg] = IF leg \in runners THEN pc[leg] ELSE "lock"]
  /\ UNCHANGED <<input, parsed, destroyed, sync, call, it, history>>

ReceiveLock(t) ==
  /\ At(t, "recvLock")
  /\ Acquire(t, trace[call[t]])
  /\ Goto(t, "recvSet")
  /\ UNCHANGED <<input, parsed, runners, destroyed, finished, baton, waiting,
                 call, it, history>>

ReceiveSet(t) ==
  LET leg == trace[call[t]] IN
  /\ At(t, "recvSet")
  /\ baton' = [baton EXCEPT ![leg] = call[t]]
  /\ Release(leg)
  /\ Goto(t, "recvNotify")
  /\ UNCHANGED <<input, parsed, runners, destroyed, finished, waiting, call, it, history>>

(* notify_one, after the unlock.  run goes on to runRace and its lock,     *)
(* runLeg returns to the loop of runRace with the lock held.               *)
ReceiveNotify(t) ==
  /\ At(t, "recvNotify")
  /\ NotifyOne(trace[call[t]])
  /\ call' = [call EXCEPT ![t] = NoCall]
  /\ Goto(t, IF owner[t] = t THEN "check" ELSE "lock")
  /\ UNCHANGED <<input, parsed, runners, destroyed, finished, baton, owner, it, history>>

-----------------------------------------------------------------------------
(* finishLine finds the fore runner and finishes it; stopRunners finishes  *)
(* every other runner.                                                     *)
Finishing(t) == IF t = 0 THEN it ELSE 0

FinishLine(t) ==
  /\ At(t, "line")
  /\ Goto(t, "finLock")
  /\ UNCHANGED <<input, parsed, runners, destroyed, sync, call, it, history>>

StopRunner ==
  /\ At(0, "stop")
  /\ it \in Leg
  /\ IF it \in runners
       THEN Goto(0, "finLock") /\ UNCHANGED it
       ELSE it' = it + 1 /\ UNCHANGED pc
  /\ UNCHANGED <<input, parsed, runners, destroyed, sync, call, history>>

(* The loop of stopRunners is over: runRace returns, releasing its mutex.  *)
StopRunnersEnd ==
  /\ At(0, "stop")
  /\ it \notin Leg
  /\ Release(0)
  /\ it' = 0
  /\ Goto(0, "destroy")
  /\ UNCHANGED <<input, parsed, runners, destroyed, finished, baton, waiting,
                 call, history>>

FinishLock(t) ==
  /\ At(t, "finLock")
  /\ Acquire(t, Finishing(t))
  /\ Goto(t, "finSet")
  /\ UNCHANGED <<input, parsed, runners, destroyed, finished, baton, waiting,
                 call, it, history>>

FinishSet(t) ==
  /\ At(t, "finSet")
  /\ finished' = [finished EXCEPT ![Finishing(t)] = TRUE]
  /\ Release(Finishing(t))
  /\ Goto(t, "finNotify")
  /\ UNCHANGED <<input, parsed, runners, destroyed, baton, waiting, call, it, history>>

FinishNotify(t) ==
  /\ At(t, "finNotify")
  /\ NotifyOne(Finishing(t))
  /\ IF t = 0
       THEN Goto(t, "stop") /\ it' = it + 1
       ELSE Goto(t, "check") /\ UNCHANGED it
  /\ UNCHANGED <<input, parsed, runners, destroyed, finished, baton, owner, call, history>>

(* ~RelayRace: delete the runners in order, joining their threads.  After  *)
(* the last one mainLoop goes on.                                          *)
Destroy ==
  /\ At(0, "destroy")
  /\ IF it \in Leg
       THEN /\ Joined(it)
            /\ destroyed' = destroyed \cup (runners \cap {it})
            /\ it' = it + 1
            /\ UNCHANGED pc
       ELSE /\ Goto(0, "done")
            /\ UNCHANGED <<destroyed, it>>
  /\ UNCHANGED <<input, parsed, runners, sync, call, history>>

-----------------------------------------------------------------------------
Step(t) ==
  \/ LockOwn(t) \/ Wait(t) \/ Wake(t) \/ BreakOut(t) \/ TakeBaton(t)
  \/ RetraceCall(t) \/ StayOnLeg(t) \/ LeaveLeg(t) \/ ReachFinishLine(t)
  \/ GetRunner(t) \/ ReceiveLock(t) \/ ReceiveSet(t) \/ ReceiveNotify(t)
  \/ FinishLine(t) \/ FinishLock(t) \/ FinishSet(t) \/ FinishNotify(t)

MainStep == Run \/ StopRunner \/ StopRunnersEnd \/ Destroy

Over == exited \/ pc[0] = "done"

(* The race is over, or the process is: nothing more happens.              *)
Stopped == Over /\ UNCHANGED vars

Next ==
  \/ MainStep
  \/ \E t \in Leg : Step(t) \/ SpuriousWakeup(t)
  \/ Stopped

(* The scheduler runs every thread that can run, and a condition variable  *)
(* does not wake its waiter spuriously for ever.                           *)
Fairness ==
  /\ WF_vars(MainStep)
  /\ \A t \in Leg : WF_vars(Step(t))
  /\ \A t \in Leg : <>[][~SpuriousWakeup(t)]_vars

Spec == Init /\ [][Next]_vars /\ Fairness

-----------------------------------------------------------------------------
(* Properties.                                                             *)

Label == {"unborn", "run", "lock", "check", "wait", "retrace", "parse", "get",
          "recvLock", "recvSet", "recvNotify", "line", "finLock", "finSet",
          "finNotify", "stop", "destroy", "done"}

(* Every variable stays in its type.                                       *)
TypeOK ==
  /\ trace \in Traces
  /\ exitAt \in 0..Len(trace)
  /\ parsed \in 0..Len(trace)
  /\ runners \in SUBSET Leg
  /\ destroyed \in SUBSET Leg
  /\ finished \in [Leg -> BOOLEAN]
  /\ baton \in [Leg -> 0..Len(trace)]
  /\ owner \in [Leg -> 0..NoLeg]
  /\ waiting \in SUBSET Leg
  /\ pc \in [Leg -> Label]
  /\ call \in [Leg -> 0..Len(trace)]
  /\ it \in 0..NoLeg
  /\ unflushed \in SUBSET Leg
  /\ replayed \in Seq(1..Len(trace))
  /\ ranOn \in Seq(Leg)
  /\ exited \in BOOLEAN

(* Labels at which a thread owns the race: it uses the parser, the vector  *)
(* of runners or the graphics context, none of which has a lock.           *)
Racing == {"run", "retrace", "parse", "get", "recvLock", "recvSet", "line",
           "stop", "destroy"}

(* The baton serialises the race: the parser, the vector of runners and    *)
(* the rendering, none of them locked, are used by one thread at a time,   *)
(* and while one uses them no baton is on its way to another.              *)
OneRacer ==
  \A s, t \in Leg : pc[s] \in Racing =>
    /\ pc[t] \in Racing => s = t
    /\ baton[t] = NoCall

(* A call runs on the thread that made it in the traced program, the       *)
(* second assertion of runLeg.                                             *)
OwnThread ==
  \A i \in DOMAIN replayed : trace[replayed[i]] = ranOn[i]

(* What a thread rendered is flushed before another thread's call runs, so *)
(* that a context sees the effects of the calls before it in the trace.    *)
FlushedAtHandover ==
  \A t \in Leg : pc[t] = "retrace" => unflushed \subseteq {t}

(* finished cannot overtake a baton: runRace tests finished first and      *)
(* would leave with the call unplayed.                                     *)
NoBatonDropped == \A l \in Leg : finished[l] => baton[l] = NoCall

(* The runner a thread locks, unlocks or notifies                          *)
Touched(t) ==
  CASE pc[t] \in {"recvLock", "recvSet", "recvNotify"} -> {trace[call[t]]}
    [] pc[t] \in {"finLock", "finSet", "finNotify"} -> {Finishing(t)}
    [] pc[t] \in {"lock", "check", "wait", "retrace", "parse", "get", "line"} -> {t}
    [] OTHER -> {}

(* No thread uses a runner ~RelayRace has deleted: notify_one comes after  *)
(* the unlock, when the notified runner may already have gone on to end    *)
(* the race; and a runner is deleted with its mutex free.                  *)
NoUseAfterDelete ==
  /\ \A t \in Leg : Touched(t) \cap destroyed = {}
  /\ \A l \in destroyed : owner[l] = NoLeg /\ l \notin waiting

(* The race implements the single-threaded replay: every call once, in the *)
(* order of the trace, up to the end or the exit.                          *)
stage == IF exited THEN "exited"
         ELSE IF pc[0] = "done" THEN "finished" ELSE "racing"

Sequential == INSTANCE SequentialReplay

ImplementsSequential == Sequential!Spec

(* The race ends: no notification is lost and no thread waits for a mutex  *)
(* or a join for ever.                                                     *)
RaceEnds == <>Over
=============================================================================
