---------------------------- MODULE RelayRaceInv ----------------------------
(***************************************************************************)
(* The inductive invariant behind the safety properties of RelayRace, in   *)
(* layers: each is inductive once the ones above it are known.             *)
(***************************************************************************)
EXTENDS RelayRace

Passing == {"get", "recvLock", "recvSet", "recvNotify"}
Finish == {"finLock", "finSet", "finNotify"}

(* Labels a runner only reaches with its own mutex held.                   *)
Locked == {"check", "retrace", "parse", "line", "stop"} \cup Finish

(* Where calls, batons and the iterator point.                             *)
ShapeOf(t) ==
  /\ pc[t] = "unborn" <=> t \notin runners
  /\ t # 0 => pc[t] \notin {"run", "stop", "destroy"}
  /\ pc[t] \in Passing \cup {"retrace"} => call[t] # NoCall
  /\ pc[t] = "retrace" => trace[call[t]] = t
  /\ pc[t] \in Passing => trace[call[t]] # t
  /\ pc[t] \in Passing \ {"get"} => trace[call[t]] \in runners
  /\ baton[t] # NoCall => trace[baton[t]] = t
  /\ t \in waiting => pc[t] = "wait"

Shape ==
  /\ \A t \in Leg : ShapeOf(t)
  /\ pc[0] \notin {"unborn", "line"}
  /\ pc[0] \in Finish => it \in runners \ {0}
  /\ pc[0] = "stop" => it # 0

(* Who holds a mutex.                                                      *)
MutexOf(t) ==
  /\ pc[t] \in Locked => owner[t] = t
  /\ pc[t] \in Passing /\ t # 0 => owner[t] = t
  /\ owner[t] = t => pc[t] \in Locked \cup Passing
  /\ pc[t] = "recvSet" => owner[trace[call[t]]] = t
  /\ pc[t] = "finSet" => owner[Finishing(t)] = t
  /\ \A m \in Leg \ {t} : owner[m] = t =>
       \/ pc[t] = "recvSet" /\ m = trace[call[t]]
       \/ pc[t] = "finSet" /\ m = Finishing(t)

Mutexes == \A t \in Leg : MutexOf(t)

(* The race is in one place: with the thread that runs, with the baton     *)
(* handed over, with the runner on its way to the finish line, or, once    *)
(* finished is set, with the fore runner.                                  *)
Live(t) ==
  \/ pc[t] \in Racing \cup {"finLock", "finSet"}
  \/ baton[t] # NoCall
  \/ t = 0 /\ finished[0]
  \/ t = 0 /\ pc[0] \in {"finNotify", "done"}

Baton ==
  /\ \A s, t \in Leg : Live(s) /\ Live(t) => s = t
  /\ \A t \in Leg : pc[t] \in Racing \cup {"finLock", "finSet"} => baton[t] = NoCall
  /\ pc[0] \in Finish \cup {"done"} => baton[0] = NoCall
  /\ \A t \in Leg : finished[t] => baton[t] = NoCall /\ finished[0]
  /\ finished[0] => pc[0] \in {"recvNotify", "lock", "check", "wait", "stop",
                               "destroy", "done"} \cup Finish
  /\ pc[0] \in Finish \cup {"stop"} => finished[0]

(* stopRunners and the destructor: every runner is told to finish before   *)
(* any is deleted, and is only told while it waits, or before it starts.   *)
Ending ==
  /\ \A t \in Leg \ {0} :
       /\ finished[t] => pc[t] \in {"lock", "check", "wait", "done"}
       /\ pc[t] = "done" => finished[t]
       /\ finished[t] => pc[0] \in {"stop", "destroy", "done"} \cup Finish
       /\ t \in runners /\ pc[0] \in {"stop"} \cup Finish /\ t < it => finished[t]
       /\ t \in runners /\ pc[0] \in {"destroy", "done"} => finished[t]
       /\ t \in destroyed => pc[t] = "done"
  /\ pc[0] = "finNotify" => finished[it]
  /\ pc[0] = "run" => runners = {0}
  /\ destroyed # {} => pc[0] \in {"destroy", "done"}
  /\ destroyed \subseteq runners

(* What was replayed, and what is left to flush, wherever the race is.     *)
Progress ==
  /\ Len(replayed) = Len(ranOn)
  /\ \A i \in 1..Len(replayed) : replayed[i] = i /\ ranOn[i] = trace[i]
  /\ pc[0] = "run" => parsed = 0 /\ replayed = << >> /\ unflushed = {}
  /\ \A t \in Leg :
       /\ baton[t] # NoCall =>
            baton[t] = parsed /\ Len(replayed) + 1 = parsed /\ unflushed = {}
       /\ pc[t] \in {"get", "recvLock", "recvSet"} =>
            call[t] = parsed /\ Len(replayed) + 1 = parsed /\ unflushed = {}
       /\ pc[t] = "retrace" =>
            call[t] = parsed /\ Len(replayed) + 1 = parsed /\ unflushed \subseteq {t}
       /\ pc[t] = "parse" => Len(replayed) = parsed /\ unflushed \subseteq {t}
       /\ pc[t] \in {"line", "finLock", "finSet"} => Len(replayed) = Len(trace)
  /\ finished[0] \/ pc[0] \in {"destroy", "done"} => Len(replayed) = Len(trace)
  /\ Len(replayed) <= parsed

(* The inductive invariant.                                                *)
RaceInv == TypeOK /\ Shape /\ Mutexes /\ Baton /\ Ending /\ Progress
=============================================================================
