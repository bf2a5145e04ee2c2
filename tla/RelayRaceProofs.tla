--------------------------- MODULE RelayRaceProofs ---------------------------
(***************************************************************************)
(* Proofs about the relay race, for every number of legs and every set of  *)
(* traces: RaceInv (module RelayRaceInv) is an inductive invariant, proved *)
(* layer by layer, and the safety properties of RelayRace follow from it.  *)
(***************************************************************************)
EXTENDS RelayRaceInv, SequenceTheorems, TLAPS

(* Facts about the constants.                                              *)
LEMMA Constants ==
  0 \in Leg /\ NoLeg \in 0..NoLeg /\ Leg \subseteq 0..NoLeg /\ NoLeg \notin Leg
BY MaxLegAssumption DEF Leg, NoLeg

(* How the iterator of stopRunners and ~RelayRace passes over the legs.    *)
LEMMA LegOrder ==
  \A i \in 0..NoLeg :
    /\ i \in Nat
    /\ i \notin Leg => \A t \in Leg : t < i
    /\ i \in Leg => i + 1 \in 0..NoLeg /\ i + 1 # 0
    /\ \A t \in Leg : t < i + 1 => t < i \/ t = i
    /\ \A t \in Leg \ {0} : ~(t < 1)
BY MaxLegAssumption DEF Leg, NoLeg

(* A call of the trace belongs to a leg.                                   *)
LEMMA LegAt ==
  ASSUME trace \in Traces, NEW i \in 0..Len(trace), i # 0
  PROVE  trace[i] \in Leg /\ i \in 1..Len(trace)
<1>1. trace \in Seq(Leg)
  BY TracesAssumption
<1>2. trace \in [1..Len(trace) -> Leg] /\ Len(trace) \in Nat
  BY <1>1, LenProperties
<1>3. QED
  BY <1>2

(* The call a thread retraces or passes on belongs to a leg.               *)
LEMMA CallLeg ==
  ASSUME TypeOK, Shape, NEW t \in Leg, pc[t] \in Passing \cup {"retrace"}
  PROVE  trace[call[t]] \in Leg /\ call[t] \in 1..Len(trace)
<1>1. trace \in Traces /\ call[t] \in 0..Len(trace) /\ call[t] # 0
  BY DEF TypeOK, Shape, ShapeOf, NoCall
<1>2. QED
  BY <1>1, LegAt

(* The runner a thread hands the baton to, or tells to finish, is a leg.   *)
LEMMA Targets ==
  ASSUME TypeOK, Shape
  PROVE  \A s \in Leg :
           /\ pc[s] \in Passing => trace[call[s]] \in Leg
           /\ pc[s] \in Finish => Finishing(s) \in Leg
<1>1. \A s \in Leg : pc[s] \in Passing => trace[call[s]] \in Leg
  BY CallLeg
<1>2. \A s \in Leg : pc[s] \in Finish => Finishing(s) \in Leg
  BY Constants DEF TypeOK, Shape, Finishing
<1>3. QED
  BY <1>1, <1>2

(* The part of TypeOK most steps need.                                     *)
Functions ==
  /\ pc \in [Leg -> Label]
  /\ call \in [Leg -> 0..Len(trace)]
  /\ baton \in [Leg -> 0..Len(trace)]
  /\ owner \in [Leg -> 0..NoLeg]
  /\ finished \in [Leg -> BOOLEAN]

LEMMA TypeFunctions == TypeOK => Functions
BY DEF TypeOK, Functions

(* The lengths the histories and the parser count with.                    *)
LEMMA Lengths ==
  ASSUME TypeOK
  PROVE  /\ Len(replayed) \in Nat /\ Len(trace) \in Nat
         /\ parsed \in Nat /\ parsed <= Len(trace)
<1>1. trace \in Seq(Leg)
  BY TracesAssumption DEF TypeOK
<1>2. QED
  BY <1>1 DEF TypeOK

-----------------------------------------------------------------------------
(* Layer 1: TypeOK and Shape.                                              *)

LEMMA InitType == Init => TypeOK /\ Shape
<1> SUFFICES ASSUME Init PROVE TypeOK /\ Shape
  OBVIOUS
<1> USE DEF Init, NoCall
<1>1. TypeOK
  <2>1. replayed \in Seq(1..Len(trace)) /\ ranOn \in Seq(Leg)
    OBVIOUS
  <2>2. pc \in [Leg -> Label]
    BY DEF Label
  <2>3. trace \in Seq(Leg)
    BY TracesAssumption
  <2>4. Len(trace) \in Nat
    BY <2>3
  <2>5. QED
    BY <2>1, <2>2, <2>4, Constants DEF TypeOK
<1>2. \A s \in Leg : ShapeOf(s)
  BY Constants DEF ShapeOf, Passing
<1>3. QED
  BY <1>1, <1>2, Constants DEF Shape, Finish

LEMMA StepType ==
  ASSUME TypeOK, Shape, NEW t \in Leg, Step(t)
  PROVE  TypeOK' /\ Shape'
<1> USE DEF At, Goto, sync, input, history
<1>a. 0 \in 0..Len(trace)
  BY Lengths
<1>b. Functions
  BY TypeFunctions
<1>1. CASE LockOwn(t)
  <2>1. TypeOK'
    BY <1>1, <1>a, Constants, <1>b DEF TypeOK, Label, NoCall, LockOwn, Acquire
  <2>2. \A s \in Leg : ShapeOf(s)'
    BY <1>1, <1>b DEF Functions, Shape, ShapeOf, Passing, NoCall, LockOwn,
       Acquire
  <2>3. Shape'
    BY <1>1, Constants, <1>b, <2>2 DEF Functions, Shape, Finish, LockOwn,
       Acquire
  <2>4. QED
    BY <2>1, <2>3
<1>2. CASE Wait(t)
  <2>1. TypeOK'
    BY <1>2, <1>a, Constants, <1>b DEF TypeOK, Label, NoCall, Wait, Release
  <2>2. \A s \in Leg : ShapeOf(s)'
    BY <1>2, <1>b DEF Functions, Shape, ShapeOf, Passing, NoCall, Wait, Release
  <2>3. Shape'
    BY <1>2, Constants, <1>b, <2>2 DEF Functions, Shape, Finish, Wait, Release
  <2>4. QED
    BY <2>1, <2>3
<1>3. CASE Wake(t)
  <2>1. TypeOK'
    BY <1>3, <1>a, Constants, <1>b DEF TypeOK, Label, NoCall, Wake, Acquire
  <2>2. \A s \in Leg : ShapeOf(s)'
    BY <1>3, <1>b DEF Functions, Shape, ShapeOf, Passing, NoCall, Wake, Acquire
  <2>3. Shape'
    BY <1>3, Constants, <1>b, <2>2 DEF Functions, Shape, Finish, Wake, Acquire
  <2>4. QED
    BY <2>1, <2>3
<1>4. CASE BreakOut(t)
  <2>0. 1 \in 0..NoLeg
    BY LegOrder, Constants
  <2>1. TypeOK'
    <3>1. CASE t = 0
      BY <1>4, <3>1, <2>0 DEF TypeOK, Label, BreakOut
    <3>2. CASE t # 0
      <4>1. /\ owner' = [owner EXCEPT ![t] = NoLeg]
            /\ pc' = [pc EXCEPT ![t] = "done"]
        BY <1>4, <3>2 DEF BreakOut, Release
      <4>2. owner' \in [Leg -> 0..NoLeg] /\ pc' \in [Leg -> Label]
        BY <1>b, <4>1, Constants DEF Functions, Label
      <4>3. QED
        BY <1>4, <3>2, <4>2 DEF TypeOK, BreakOut
    <3>3. QED
      BY <3>1, <3>2
  <2>2. \A s \in Leg : ShapeOf(s)'
    BY <1>4, <1>b, <2>0 DEF Functions, Shape, ShapeOf, Passing, NoCall,
       BreakOut, Release
  <2>3. Shape'
    BY <1>4, Constants, <1>b, <2>0, <2>2 DEF Functions, Shape, Finish,
       BreakOut, Release
  <2>4. QED
    BY <2>1, <2>3
<1>5. CASE TakeBaton(t)
  <2>1. TypeOK'
    BY <1>5, <1>a, Constants, <1>b DEF TypeOK, Label, NoCall, TakeBaton,
       ClearBaton
  <2>2. \A s \in Leg : ShapeOf(s)'
    BY <1>5, <1>b DEF Functions, Shape, ShapeOf, Passing, NoCall, TakeBaton,
       ClearBaton
  <2>3. Shape'
    BY <1>5, Constants, <1>b, <2>2 DEF Functions, Shape, Finish, TakeBaton,
       ClearBaton
  <2>4. QED
    BY <2>1, <2>3
<1>6. CASE RetraceCall(t)
  <2>0. call[t] \in 1..Len(trace)
    BY <1>6, CallLeg DEF RetraceCall
  <2>1. TypeOK'
    <3>1. replayed' \in Seq(1..Len(trace)) /\ ranOn' \in Seq(Leg)
      BY <1>6, <2>0, AppendProperties DEF TypeOK, RetraceCall
    <3>2. exited' \in BOOLEAN /\ unflushed' \in SUBSET Leg /\ pc' \in [Leg -> Label]
      BY <1>6 DEF TypeOK, Label, RetraceCall
    <3>3. QED
      BY <1>6, <3>1, <3>2 DEF TypeOK, RetraceCall
  <2>2. \A s \in Leg : ShapeOf(s)'
    BY <1>6, <1>b, <2>0 DEF Functions, Shape, ShapeOf, Passing, NoCall,
       RetraceCall
  <2>3. Shape'
    BY <1>6, Constants, <1>b, <2>0, <2>2 DEF Functions, Shape, Finish,
       RetraceCall
  <2>4. QED
    BY <2>1, <2>3
<1>7. CASE StayOnLeg(t)
  <2>0. parsed + 1 \in 0..Len(trace) /\ trace[parsed + 1] \in Leg /\ parsed + 1 # 0
    BY <1>7, LegAt DEF TypeOK, StayOnLeg
  <2>1. TypeOK'
    BY <1>7, <1>a, Constants, <1>b, <2>0 DEF TypeOK, Label, NoCall, StayOnLeg,
       NextIsOf
  <2>2. \A s \in Leg : ShapeOf(s)'
    BY <1>7, <1>b, <2>0 DEF Functions, Shape, ShapeOf, Passing, NoCall,
       StayOnLeg, NextIsOf
  <2>3. Shape'
    BY <1>7, Constants, <1>b, <2>0, <2>2 DEF Functions, Shape, Finish,
       StayOnLeg, NextIsOf
  <2>4. QED
    BY <2>1, <2>3
<1>8. CASE LeaveLeg(t)
  <2>0. parsed + 1 \in 0..Len(trace) /\ trace[parsed + 1] \in Leg /\ parsed + 1 # 0
    BY <1>8, LegAt DEF TypeOK, LeaveLeg
  <2>1. TypeOK'
    BY <1>8, <1>a, Constants, <1>b, <2>0 DEF TypeOK, Label, NoCall, LeaveLeg,
       NextIsOf, FlushRendering
  <2>2. \A s \in Leg : ShapeOf(s)'
    BY <1>8, <1>b, <2>0 DEF Functions, Shape, ShapeOf, Passing, NoCall,
       LeaveLeg, NextIsOf, FlushRendering
  <2>3. Shape'
    BY <1>8, Constants, <1>b, <2>0, <2>2 DEF Functions, Shape, Finish,
       LeaveLeg, NextIsOf, FlushRendering
  <2>4. QED
    BY <2>1, <2>3
<1>9. CASE ReachFinishLine(t)
  <2>1. TypeOK'
    BY <1>9, <1>a, Constants, <1>b DEF TypeOK, Label, NoCall, ReachFinishLine,
       NullCall
  <2>2. \A s \in Leg : ShapeOf(s)'
    BY <1>9, <1>b DEF Functions, Shape, ShapeOf, Passing, NoCall,
       ReachFinishLine, NullCall
  <2>3. Shape'
    BY <1>9, Constants, <1>b, <2>2 DEF Functions, Shape, Finish,
       ReachFinishLine, NullCall
  <2>4. QED
    BY <2>1, <2>3
<1>10. CASE GetRunner(t)
  <2>0. trace[call[t]] \in Leg /\ call[t] \in 1..Len(trace) /\ trace[call[t]] # t
    BY <1>10, CallLeg DEF Shape, ShapeOf, GetRunner, Passing
  <2>1. TypeOK'
    BY <1>10, <1>a, Constants, <1>b, <2>0 DEF TypeOK, Label, NoCall, GetRunner
  <2>2. \A s \in Leg : ShapeOf(s)'
    BY <1>10, <1>b, <2>0 DEF Functions, Shape, ShapeOf, Passing, NoCall,
       GetRunner
  <2>3. Shape'
    BY <1>10, Constants, <1>b, <2>0, <2>2 DEF Functions, Shape, Finish,
       GetRunner
  <2>4. QED
    BY <2>1, <2>3
<1>11. CASE ReceiveLock(t)
  <2>0. trace[call[t]] \in Leg /\ call[t] \in 1..Len(trace) /\ trace[call[t]] # t
    BY <1>11, CallLeg DEF Shape, ShapeOf, ReceiveLock, Passing
  <2>1. TypeOK'
    BY <1>11, <1>a, Constants, <1>b, <2>0 DEF TypeOK, Label, NoCall,
       ReceiveLock, Acquire
  <2>2. \A s \in Leg : ShapeOf(s)'
    BY <1>11, <1>b, <2>0 DEF Functions, Shape, ShapeOf, Passing, NoCall,
       ReceiveLock, Acquire
  <2>3. Shape'
    BY <1>11, Constants, <1>b, <2>0, <2>2 DEF Functions, Shape, Finish,
       ReceiveLock, Acquire
  <2>4. QED
    BY <2>1, <2>3
<1>12. CASE ReceiveSet(t)
  <2>0. trace[call[t]] \in Leg /\ call[t] \in 1..Len(trace) /\ trace[call[t]] # t
    BY <1>12, CallLeg DEF Shape, ShapeOf, ReceiveSet, Passing
  <2>1. TypeOK'
    BY <1>12, <1>a, Constants, <1>b, <2>0 DEF TypeOK, Label, NoCall,
       ReceiveSet, Release
  <2>2. \A s \in Leg : ShapeOf(s)'
    BY <1>12, <1>b, <2>0 DEF Functions, Shape, ShapeOf, Passing, NoCall,
       ReceiveSet, Release
  <2>3. Shape'
    BY <1>12, Constants, <1>b, <2>0, <2>2 DEF Functions, Shape, Finish,
       ReceiveSet, Release
  <2>4. QED
    BY <2>1, <2>3
<1>13. CASE ReceiveNotify(t)
  <2>0. trace[call[t]] \in Leg /\ call[t] \in 1..Len(trace) /\ trace[call[t]] # t
    BY <1>13, CallLeg DEF Shape, ShapeOf, ReceiveNotify, Passing
  <2>1. TypeOK'
    BY <1>13, <1>a, Constants, <1>b, <2>0 DEF TypeOK, Label, NoCall,
       ReceiveNotify, NotifyOne
  <2>2. \A s \in Leg : ShapeOf(s)'
    BY <1>13, <1>b, <2>0 DEF Functions, Shape, ShapeOf, Passing, NoCall,
       ReceiveNotify, NotifyOne
  <2>3. Shape'
    BY <1>13, Constants, <1>b, <2>0, <2>2 DEF Functions, Shape, Finish,
       ReceiveNotify, NotifyOne
  <2>4. QED
    BY <2>1, <2>3
<1>14. CASE FinishLine(t)
  <2>1. TypeOK'
    BY <1>14, <1>a, Constants, <1>b DEF TypeOK, Label, NoCall, FinishLine
  <2>2. \A s \in Leg : ShapeOf(s)'
    BY <1>14, <1>b DEF Functions, Shape, ShapeOf, Passing, NoCall, FinishLine
  <2>3. Shape'
    BY <1>14, Constants, <1>b, <2>2 DEF Functions, Shape, Finish, FinishLine
  <2>4. QED
    BY <2>1, <2>3
<1>15. CASE FinishLock(t)
  <2>1. TypeOK'
    BY <1>15, <1>a, Constants, <1>b DEF TypeOK, Label, NoCall, FinishLock,
       Acquire, Finishing
  <2>2. \A s \in Leg : ShapeOf(s)'
    BY <1>15, <1>b DEF Functions, Shape, ShapeOf, Passing, NoCall, FinishLock,
       Acquire, Finishing
  <2>3. Shape'
    BY <1>15, Constants, <1>b, <2>2 DEF Functions, Shape, Finish, FinishLock,
       Acquire, Finishing
  <2>4. QED
    BY <2>1, <2>3
<1>16. CASE FinishSet(t)
  <2>0. t = 0 => it \in Leg /\ it + 1 \in 0..NoLeg /\ it + 1 # 0
    BY <1>16, LegOrder DEF TypeOK, Shape, Finish, FinishSet
  <2>1. TypeOK'
    BY <1>16, <1>a, Constants, <1>b, <2>0 DEF TypeOK, Label, NoCall, FinishSet,
       Release, Finishing
  <2>2. \A s \in Leg : ShapeOf(s)'
    BY <1>16, <1>b, <2>0 DEF Functions, Shape, ShapeOf, Passing, NoCall,
       FinishSet, Release, Finishing
  <2>3. Shape'
    BY <1>16, Constants, <1>b, <2>0, <2>2 DEF Functions, Shape, Finish,
       FinishSet, Release, Finishing
  <2>4. QED
    BY <2>1, <2>3
<1>17. CASE FinishNotify(t)
  <2>0. t = 0 => it \in Leg /\ it + 1 \in 0..NoLeg /\ it + 1 # 0
    BY <1>17, LegOrder DEF TypeOK, Shape, Finish, FinishNotify
  <2>1. TypeOK'
    BY <1>17, <1>a, Constants, <1>b, <2>0 DEF TypeOK, Label, NoCall,
       FinishNotify, NotifyOne, Finishing
  <2>2. \A s \in Leg : ShapeOf(s)'
    BY <1>17, <1>b, <2>0 DEF Functions, Shape, ShapeOf, Passing, NoCall,
       FinishNotify, NotifyOne, Finishing
  <2>3. Shape'
    BY <1>17, Constants, <1>b, <2>0, <2>2 DEF Functions, Shape, Finish,
       FinishNotify, NotifyOne, Finishing
  <2>4. QED
    BY <2>1, <2>3
<1>18. QED
  BY <1>1, <1>2, <1>3, <1>4, <1>5, <1>6, <1>7, <1>8, <1>9, <1>10, <1>11, <1>12,
     <1>13, <1>14, <1>15, <1>16, <1>17 DEF Step

LEMMA MainType ==
  ASSUME TypeOK, Shape, MainStep
  PROVE  TypeOK' /\ Shape'
<1> USE DEF At, Goto, sync, input, history
<1>a. Functions
  BY TypeFunctions
<1>1. CASE Run
  <2>1. Len(trace) > 0 => 1 \in 0..Len(trace) /\ trace[1] \in Leg
    BY LegAt, Lengths DEF TypeOK
  <2>2. TypeOK'
    BY <1>1, <2>1, Constants DEF TypeOK, Label, Run
  <2>3. \A s \in Leg : ShapeOf(s)'
    BY <1>1, <1>a, Constants DEF Functions, Shape, ShapeOf, Passing, NoCall,
       Run
  <2>4. QED
    BY <1>1, <1>a, <2>2, <2>3, Constants DEF Functions, Shape, Finish, Run
<1>2. CASE StopRunner
  <2>1. it \in Leg => it + 1 \in 0..NoLeg /\ it + 1 # 0
    BY LegOrder, Constants
  <2>2. TypeOK'
    BY <1>2, <2>1, Constants DEF TypeOK, Label, StopRunner
  <2>3. \A s \in Leg : ShapeOf(s)'
    BY <1>2, <1>a, Constants DEF Functions, Shape, ShapeOf, Passing, NoCall,
       StopRunner
  <2>4. QED
    BY <1>2, <1>a, <2>1, <2>2, <2>3, Constants DEF Functions, Shape, Finish,
       StopRunner
<1>3. CASE StopRunnersEnd
  <2>1. it \in Leg => it + 1 \in 0..NoLeg /\ it + 1 # 0
    BY LegOrder, Constants
  <2>2. TypeOK'
    BY <1>3, <2>1, Constants DEF TypeOK, Label, StopRunnersEnd, Release
  <2>3. \A s \in Leg : ShapeOf(s)'
    BY <1>3, <1>a, Constants DEF Functions, Shape, ShapeOf, Passing, NoCall,
       StopRunnersEnd, Release
  <2>4. QED
    BY <1>3, <1>a, <2>1, <2>2, <2>3, Constants DEF Functions, Shape, Finish,
       StopRunnersEnd, Release
<1>4. CASE Destroy
  <2>1. it \in Leg => it + 1 \in 0..NoLeg /\ it + 1 # 0
    BY LegOrder, Constants
  <2>2. TypeOK'
    BY <1>4, <2>1, Constants DEF TypeOK, Label, Destroy, Joined
  <2>3. \A s \in Leg : ShapeOf(s)'
    BY <1>4, <1>a, Constants DEF Functions, Shape, ShapeOf, Passing, NoCall,
       Destroy, Joined
  <2>4. QED
    BY <1>4, <1>a, <2>1, <2>2, <2>3, Constants DEF Functions, Shape, Finish,
       Destroy, Joined
<1>5. QED
  BY <1>1, <1>2, <1>3, <1>4 DEF MainStep

LEMMA SpuriousType ==
  ASSUME TypeOK, Shape, NEW t \in Leg, SpuriousWakeup(t)
  PROVE  TypeOK' /\ Shape'
<1>1. TypeOK'
  BY DEF TypeOK, SpuriousWakeup, input, history
<1>2. \A s \in Leg : ShapeOf(s)'
  BY DEF Shape, ShapeOf, SpuriousWakeup, input, history
<1>3. QED
  BY <1>1, <1>2 DEF Shape, SpuriousWakeup, input, history

-----------------------------------------------------------------------------
(* Layer 2: Mutexes.                                                       *)

LEMMA InitMutexes == Init => Mutexes
BY Constants DEF Init, Mutexes, MutexOf, Locked, Passing, Finish

LEMMA StepMutexes ==
  ASSUME TypeOK, Shape, Mutexes, NEW t \in Leg, Step(t)
  PROVE  Mutexes'
<1> USE DEF At, Goto, sync, input, history
<1>a. Functions
  BY TypeFunctions
<1>1. CASE LockOwn(t)
  BY <1>1, <1>a, Constants, SMTT(40) DEF Functions, Mutexes, MutexOf, Locked, Passing,
     Finish, Finishing, LockOwn, Acquire
<1>2. CASE Wait(t)
  <2>1. SUFFICES ASSUME NEW s \in Leg PROVE MutexOf(s)'
    BY DEF Mutexes
  <2>2. MutexOf(s) /\ MutexOf(t)
    BY DEF Mutexes
  <2>3. pc[s] \in Passing => trace[call[s]] \in Leg
    BY Targets
  <2>4. /\ pc[s] \in Finish => Finishing(s) \in Leg
        /\ pc[t] \in Finish => Finishing(t) \in Leg /\ Finishing(t) # t
    BY Targets DEF Finishing, Shape
  <2> QED
    BY <1>2, <1>a, <2>2, <2>3, <2>4, Constants DEF Functions, MutexOf, Locked,
       Passing, Finish, Finishing, Wait, Release
<1>3. CASE Wake(t)
  BY <1>3, <1>a, Constants, SMTT(40) DEF Functions, Mutexes, MutexOf, Locked, Passing,
     Finish, Finishing, Wake, Acquire
<1>4. CASE BreakOut(t)
  <2>1. SUFFICES ASSUME NEW s \in Leg PROVE MutexOf(s)'
    BY DEF Mutexes
  <2>2. MutexOf(s) /\ MutexOf(t)
    BY DEF Mutexes
  <2>3. pc[s] \in Passing => trace[call[s]] \in Leg
    BY Targets
  <2>4. pc[s] \in Finish => Finishing(s) \in Leg
    BY Targets
  <2>5. pc[t] = "check" /\ owner[t] = t
    BY <1>4, <2>2 DEF MutexOf, Locked, BreakOut
  <2>6. CASE t # 0
    <3>1. /\ pc' = [pc EXCEPT ![t] = "done"]
          /\ owner' = [owner EXCEPT ![t] = NoLeg]
          /\ UNCHANGED <<trace, call, it>>
      BY <1>4, <2>6 DEF BreakOut, Release
    <3>2. CASE s = t
      BY <1>a, <2>2, <2>5, <3>1, <3>2, Constants DEF Functions, MutexOf,
         Locked, Passing, Finish
    <3>3. CASE s # t
      BY <1>a, <2>2, <2>3, <2>4, <2>5, <3>1, <3>3, Constants DEF Functions,
         MutexOf, Finish, Passing, Finishing
    <3> QED
      BY <3>2, <3>3
  <2>7. CASE t = 0
    BY <1>4, <1>a, <2>2, <2>5, <2>7, Constants DEF Functions, MutexOf, Locked,
       Passing, Finish, Finishing, BreakOut
  <2> QED
    BY <2>6, <2>7
<1>5. CASE TakeBaton(t)
  BY <1>5, <1>a, Constants DEF Functions, Mutexes, MutexOf, Locked, Passing,
     Finish, Finishing, TakeBaton, ClearBaton
<1>6. CASE RetraceCall(t)
  <2>1. SUFFICES ASSUME NEW s \in Leg PROVE MutexOf(s)'
    BY DEF Mutexes
  <2>2. MutexOf(s) /\ MutexOf(t)
    BY DEF Mutexes
  <2>3. pc[s] \in Passing => trace[call[s]] \in Leg
    BY Targets
  <2>4. /\ pc[s] \in Finish => Finishing(s) \in Leg
        /\ pc[t] \in Finish => Finishing(t) \in Leg /\ Finishing(t) # t
    BY Targets DEF Finishing, Shape
  <2> QED
    BY <1>6, <1>a, <2>2, <2>3, <2>4, Constants DEF Functions, MutexOf, Locked,
       Passing, Finish, Finishing, RetraceCall
<1>7. CASE StayOnLeg(t)
  <2>1. SUFFICES ASSUME NEW s \in Leg PROVE MutexOf(s)'
    BY DEF Mutexes
  <2>2. MutexOf(s)
    BY DEF Mutexes
  <2>3. QED
    BY <1>7, <1>a, <2>2 DEF Functions, MutexOf, Locked, Passing, Finish,
       Finishing, StayOnLeg
<1>8. CASE LeaveLeg(t)
  BY <1>8, <1>a, Constants, SMTT(40) DEF Functions, Mutexes, MutexOf, Locked, Passing,
     Finish, Finishing, LeaveLeg, NextIsOf, FlushRendering
<1>9. CASE ReachFinishLine(t)
  BY <1>9, <1>a, Constants DEF Functions, Mutexes, MutexOf, Locked, Passing,
     Finish, Finishing, ReachFinishLine, NullCall
<1>10. CASE GetRunner(t)
  <2>0. trace[call[t]] \in Leg /\ trace[call[t]] # t
    BY <1>10, CallLeg DEF Shape, ShapeOf, GetRunner, Passing
  <2>1. SUFFICES ASSUME NEW s \in Leg PROVE MutexOf(s)'
    BY DEF Mutexes
  <2>2. pc'[t] = "recvLock" /\ pc[t] = "get"
    BY <1>10, <1>a, <2>0 DEF Functions, GetRunner
  <2>3. s # t => pc'[s] = pc[s] \/ (pc[s] = "unborn" /\ pc'[s] = "lock")
    BY <1>10, <1>a, <2>0 DEF Functions, Shape, ShapeOf, GetRunner
  <2>4. UNCHANGED <<call, trace, it, owner>>
    BY <1>10 DEF GetRunner
  <2> QED
    BY <2>2, <2>3, <2>4 DEF Mutexes, MutexOf, Locked, Passing, Finish,
       Finishing
<1>11. CASE ReceiveLock(t)
  <2>0. trace[call[t]] \in Leg /\ trace[call[t]] # t
    BY <1>11, CallLeg DEF Shape, ShapeOf, ReceiveLock, Passing
  <2>1. SUFFICES ASSUME NEW s \in Leg PROVE MutexOf(s)'
    BY DEF Mutexes
  <2>2. MutexOf(s) /\ MutexOf(t)
    BY DEF Mutexes
  <2>3. pc[s] \in Passing => trace[call[s]] \in Leg
    BY Targets
  <2>4. pc[s] \in Finish => Finishing(s) \in Leg
    BY Targets
  <2> QED
    BY <1>11, <1>a, <2>0, <2>2, <2>3, <2>4, Constants DEF Functions, MutexOf,
       Locked, Passing, Finish, Finishing, ReceiveLock, Acquire
<1>12. CASE ReceiveSet(t)
  <2>0. trace[call[t]] \in Leg /\ trace[call[t]] # t
    BY <1>12, CallLeg DEF Shape, ShapeOf, ReceiveSet, Passing
  <2>1. SUFFICES ASSUME NEW s \in Leg PROVE MutexOf(s)'
    BY DEF Mutexes
  <2>2. MutexOf(s) /\ MutexOf(t)
    BY DEF Mutexes
  <2>3. pc[s] \in Passing => trace[call[s]] \in Leg
    BY Targets
  <2>4. pc[s] \in Finish => Finishing(s) \in Leg
    BY Targets
  <2> QED
    BY <1>12, <1>a, <2>0, <2>2, <2>3, <2>4, Constants DEF Functions, MutexOf,
       Locked, Passing, Finish, Finishing, ReceiveSet, Release
<1>13. CASE ReceiveNotify(t)
  <2>0. trace[call[t]] \in Leg /\ trace[call[t]] # t
    BY <1>13, CallLeg DEF Shape, ShapeOf, ReceiveNotify, Passing
  <2>1. SUFFICES ASSUME NEW s \in Leg PROVE MutexOf(s)'
    BY DEF Mutexes
  <2>2. MutexOf(s) /\ MutexOf(t)
    BY DEF Mutexes
  <2>3. pc[s] \in Passing => trace[call[s]] \in Leg
    BY Targets
  <2>4. pc[s] \in Finish => Finishing(s) \in Leg
    BY Targets
  <2> QED
    BY <1>13, <1>a, <2>0, <2>2, <2>3, <2>4, Constants DEF Functions, MutexOf,
       Locked, Passing, Finish, Finishing, ReceiveNotify, NotifyOne
<1>14. CASE FinishLine(t)
  BY <1>14, <1>a, Constants DEF Functions, Mutexes, MutexOf, Locked, Passing,
     Finish, Finishing, FinishLine
<1>15. CASE FinishLock(t)
  <2>1. SUFFICES ASSUME NEW s \in Leg PROVE MutexOf(s)'
    BY DEF Mutexes
  <2>2. MutexOf(s) /\ MutexOf(t)
    BY DEF Mutexes
  <2>3. pc[s] \in Passing => trace[call[s]] \in Leg
    BY Targets
  <2>4. /\ pc[s] \in Finish => Finishing(s) \in Leg
        /\ pc[t] \in Finish => Finishing(t) \in Leg /\ Finishing(t) # t
    BY Targets DEF Finishing, Shape
  <2> QED
    BY <1>15, <1>a, <2>2, <2>3, <2>4, Constants DEF Functions, MutexOf, Locked,
       Passing, Finish, Finishing, FinishLock, Acquire
<1>16. CASE FinishSet(t)
  <2>1. SUFFICES ASSUME NEW s \in Leg PROVE MutexOf(s)'
    BY DEF Mutexes
  <2>2. MutexOf(s) /\ MutexOf(t)
    BY DEF Mutexes
  <2>3. pc[s] \in Passing => trace[call[s]] \in Leg
    BY Targets
  <2>4. /\ pc[s] \in Finish => Finishing(s) \in Leg
        /\ pc[t] \in Finish => Finishing(t) \in Leg /\ Finishing(t) # t
    BY Targets DEF Finishing, Shape
  <2> QED
    BY <1>16, <1>a, <2>2, <2>3, <2>4, Constants DEF Functions, MutexOf, Locked,
       Passing, Finish, Finishing, FinishSet, Release
<1>17. CASE FinishNotify(t)
  BY <1>17, <1>a, Constants, SMTT(40) DEF Functions, Mutexes, MutexOf, Locked, Passing,
     Finish, Finishing, FinishNotify, NotifyOne
<1>18. QED
  BY <1>1, <1>2, <1>3, <1>4, <1>5, <1>6, <1>7, <1>8, <1>9, <1>10, <1>11, <1>12,
     <1>13, <1>14, <1>15, <1>16, <1>17 DEF Step

LEMMA MainMutexes ==
  ASSUME TypeOK, Shape, Mutexes, MainStep
  PROVE  Mutexes'
<1> USE DEF At, Goto, sync, input, history
<1>a. Functions
  BY TypeFunctions
<1>1. CASE Run
  BY <1>1, <1>a, Constants DEF Functions, Mutexes, MutexOf, Locked, Passing,
     Finish, Finishing, Run
<1>2. CASE StopRunner
  <2>1. SUFFICES ASSUME NEW s \in Leg PROVE MutexOf(s)'
    BY DEF Mutexes
  <2>2. /\ pc'[0] \in {"stop", "finLock"} /\ pc[0] = "stop"
        /\ s # 0 => pc'[s] = pc[s]
    BY <1>2, <1>a, Constants DEF Functions, StopRunner
  <2>3. UNCHANGED <<owner, trace, call>>
    BY <1>2 DEF StopRunner
  <2>4. MutexOf(s)
    BY DEF Mutexes
  <2>5. QED
    BY <2>2, <2>3, <2>4 DEF MutexOf, Locked, Passing, Finish, Finishing
<1>3. CASE StopRunnersEnd
  BY <1>3, <1>a, Constants DEF Functions, Mutexes, MutexOf, Locked, Passing,
     Finish, Finishing, StopRunnersEnd, Release
<1>4. CASE Destroy
  BY <1>4, <1>a, Constants DEF Functions, Mutexes, MutexOf, Locked, Passing,
     Finish, Finishing, Destroy, Joined
<1>5. QED
  BY <1>1, <1>2, <1>3, <1>4 DEF MainStep

LEMMA SpuriousMutexes ==
  ASSUME Mutexes, NEW t \in Leg, SpuriousWakeup(t)
  PROVE  Mutexes'
BY DEF Mutexes, MutexOf, Finishing, SpuriousWakeup, sync, input, history

-----------------------------------------------------------------------------
(* Layer 3: Baton.                                                         *)

LEMMA InitBaton == Init => Baton
BY Constants DEF Init, Baton, Live, Racing, Finish, NoCall

LEMMA StepBaton ==
  ASSUME TypeOK, Shape, Mutexes, Baton, NEW t \in Leg, Step(t)
  PROVE  Baton'
<1> USE DEF At, Goto, sync, input, history
<1>a. Functions
  BY TypeFunctions
<1>1. CASE LockOwn(t)
  BY <1>1, <1>a, Constants, SMTT(40) DEF Functions, Baton, Live, Racing, Finish, LockOwn,
     Acquire
<1>2. CASE Wait(t)
  BY <1>2, <1>a, Constants, SMTT(40) DEF Functions, Finish, Baton, Live, Racing, NoCall,
     Wait, Release
<1>3. CASE Wake(t)
  BY <1>3, <1>a, Constants DEF Functions, Finish, Baton, Live, Racing, NoCall,
     Wake, Acquire
<1>4. CASE BreakOut(t)
  <2>1. CASE t = 0
    <3>1. Live(0) /\ pc[0] = "check" /\ pc' = [pc EXCEPT ![0] = "stop"]
      BY <1>4, <1>a, <2>1 DEF BreakOut, Live
    <3>2. \A s \in Leg : Live(s)' => Live(s)
      BY <1>4, <1>a, <3>1, Constants DEF Functions, BreakOut, Live, Racing
    <3>3. QED
      BY <1>4, <1>a, <2>1, <3>1, <3>2, Constants DEF Functions, Baton,
         BreakOut, Racing, Finish, NoCall
  <2>2. CASE t # 0
    <3>1. /\ pc' = [pc EXCEPT ![t] = "done"]
          /\ UNCHANGED <<baton, finished>>
      BY <1>4, <1>a, <2>2 DEF BreakOut
    <3>2. \A s \in Leg : Live(s)' => Live(s)
      BY <2>2, <3>1, Constants DEF Functions, Live, Racing
    <3>3. QED
      BY <2>2, <3>1, <3>2, Constants DEF Functions, Baton, Racing, Finish
  <2>3. QED
    BY <2>1, <2>2
<1>5. CASE TakeBaton(t)
  BY <1>5, <1>a, Constants DEF Functions, Finish, Baton, Live, Racing, NoCall,
     TakeBaton, ClearBaton
<1>6. CASE RetraceCall(t)
  BY <1>6, <1>a, Constants DEF Functions, Baton, Live, Racing, Finish,
     RetraceCall
<1>7. CASE StayOnLeg(t)
  BY <1>7, <1>a, Constants, ZenonT(60) DEF Functions, Finish, Baton, Live, Racing, NoCall,
     StayOnLeg, NextIsOf
<1>8. CASE LeaveLeg(t)
  BY <1>8, <1>a, Constants DEF Functions, Finish, Baton, Live, Racing, NoCall,
     LeaveLeg, NextIsOf, FlushRendering
<1>9. CASE ReachFinishLine(t)
  BY <1>9, <1>a, Constants DEF Functions, Finish, Baton, Live, Racing, NoCall,
     ReachFinishLine, NullCall
<1>10. CASE GetRunner(t)
  <2>0. trace[call[t]] \in Leg /\ trace[call[t]] # t
    BY <1>10, CallLeg DEF Shape, ShapeOf, GetRunner, Passing
  <2>2. pc'[t] = "recvLock" /\ pc[t] = "get"
    BY <1>10, <1>a, <2>0 DEF Functions, GetRunner
  <2>3. \A s \in Leg \ {t} :
          pc'[s] = pc[s] \/ (s # 0 /\ pc[s] = "unborn" /\ pc'[s] = "lock")
    BY <1>10, <1>a, <2>0 DEF Functions, Shape, ShapeOf, GetRunner
  <2>4. UNCHANGED <<baton, finished>>
    BY <1>10 DEF GetRunner
  <2>5. \A s \in Leg : Live(s)' => Live(s)
    BY <2>2, <2>3, <2>4 DEF Live, Racing
  <2>6. QED
    BY <2>2, <2>3, <2>4, <2>5, Constants DEF Baton, Racing, Finish
<1>11. CASE ReceiveLock(t)
  <2>0. trace[call[t]] \in Leg /\ trace[call[t]] # t
    BY <1>11, CallLeg DEF Shape, ShapeOf, ReceiveLock, Passing
  <2>1. QED
    BY <1>11, <1>a, <2>0, Constants DEF Functions, Finish, Baton, Live, Racing,
       NoCall, ReceiveLock, Acquire
<1>12. CASE ReceiveSet(t)
  <2>0. trace[call[t]] \in Leg /\ trace[call[t]] # t
    BY <1>12, CallLeg DEF Shape, ShapeOf, ReceiveSet, Passing
  <2>1. Live(t) /\ pc[t] = "recvSet"
    BY <1>12, <1>a DEF Live, Racing, ReceiveSet
  <2>2. \A s \in Leg : s # t => ~Live(s)
    BY <2>1 DEF Baton
  <2>3. baton[t] = NoCall
    BY <2>1 DEF Baton, Racing
  <2>4. ~finished[0]
    BY <2>1, <2>2, Constants DEF Baton, Live, Finish
  <2>5. \A s \in Leg : Live(s)' => s = trace[call[t]]
    BY <1>12, <1>a, <2>0, <2>1, <2>2, <2>3, <2>4, Constants DEF Functions,
       ReceiveSet, Live, Racing
  <2>6. \A s \in Leg : ~finished'[s]
    BY <1>12, <1>a, <2>0, <2>4 DEF ReceiveSet, Baton
  <2>7. \A s \in Leg : pc'[s] \notin Racing \cup {"finLock", "finSet"}
    BY <1>12, <1>a, <2>0, <2>1, <2>2 DEF Functions, ReceiveSet, Live, Racing
  <2>8. pc'[0] \notin Finish \cup {"done", "stop"}
    BY <1>12, <1>a, <2>0, <2>1, <2>2, <2>4, Constants DEF Functions,
       ReceiveSet, Baton, Live, Finish
  <2>9. QED
    BY <2>5, <2>6, <2>7, <2>8, Constants DEF Baton
<1>13. CASE ReceiveNotify(t)
  <2>0. trace[call[t]] \in Leg /\ trace[call[t]] # t
    BY <1>13, CallLeg DEF Shape, ShapeOf, ReceiveNotify, Passing
  <2>1. pc'[t] \in {"check", "lock"} /\ pc[t] = "recvNotify"
    BY <1>13, <1>a DEF Functions, ReceiveNotify
  <2>2. \A s \in Leg \ {t} : pc'[s] = pc[s]
    BY <1>13, <1>a DEF Functions, ReceiveNotify
  <2>3. UNCHANGED <<baton, finished>>
    BY <1>13 DEF ReceiveNotify
  <2>4. \A s \in Leg : Live(s)' => Live(s)
    BY <2>1, <2>2, <2>3 DEF Live, Racing
  <2>5. QED
    BY <2>1, <2>2, <2>3, <2>4, Constants DEF Baton, Racing, Finish
<1>14. CASE FinishLine(t)
  BY <1>14, <1>a, Constants DEF Functions, Shape, Finish, Baton, Live, Racing,
     FinishLine
<1>15. CASE FinishLock(t)
  BY <1>15, <1>a, Constants DEF Functions, Finish, Baton, Live, Racing, NoCall,
     FinishLock, Acquire
<1>16. CASE FinishSet(t)
  <2>0. pc[t] = "finSet" /\ Finishing(t) \in Leg
    BY <1>16, <1>a, Targets DEF FinishSet, Finish
  <2>1. Live(t) /\ baton[t] = NoCall
    BY <2>0 DEF Live, Baton
  <2>2. \A s \in Leg : s # t => ~Live(s) /\ baton[s] = NoCall
    BY <2>1 DEF Baton, Live
  <2>3. \A s \in Leg : Live(s)' => s = 0
    BY <1>16, <1>a, <2>0, <2>1, <2>2, Constants DEF Functions, FinishSet, Live,
       Racing, Finishing
  <2>4. \A s \in Leg : baton'[s] = NoCall
    BY <1>16, <1>a, <2>1, <2>2 DEF FinishSet
  <2>5. finished'[0]
    BY <1>16, <1>a, <2>0, Constants DEF Functions, FinishSet, Finishing, Baton,
       Finish
  <2>6. pc'[0] \in {"recvNotify", "lock", "check", "wait", "stop", "destroy", "done"} \cup Finish
    BY <1>16, <1>a, <2>0, <2>2, Constants DEF Functions, FinishSet, Live,
       Racing, Finish, Label, Shape
  <2>7. QED
    BY <2>3, <2>4, <2>5, <2>6, Constants DEF Baton
<1>17. CASE FinishNotify(t)
  <2>1. \A s \in Leg : Live(s)' => Live(s)
    BY <1>17, <1>a, Constants DEF Functions, FinishNotify, Live, Racing
  <2>6. QED
    BY <1>17, <1>a, <2>1, Constants DEF Functions, FinishNotify, Baton, Racing,
       Finish
<1>18. QED
  BY <1>1, <1>2, <1>3, <1>4, <1>5, <1>6, <1>7, <1>8, <1>9, <1>10, <1>11, <1>12,
     <1>13, <1>14, <1>15, <1>16, <1>17 DEF Step

LEMMA MainBaton ==
  ASSUME TypeOK, Shape, Mutexes, Baton, MainStep
  PROVE  Baton'
<1> USE DEF At, Goto, sync, input, history
<1>a. Functions
  BY TypeFunctions
<1>1. CASE Run
  BY <1>1, <1>a, Constants DEF Functions, Finish, Baton, Live, Racing, NoCall,
     Run
<1>2. CASE StopRunner
  BY <1>2, <1>a, Constants, SMTT(40) DEF Functions, Finish, Baton, Live, Racing, NoCall,
     StopRunner
<1>3. CASE StopRunnersEnd
  BY <1>3, <1>a, Constants DEF Functions, Finish, Baton, Live, Racing, NoCall,
     StopRunnersEnd, Release
<1>4. CASE Destroy
  BY <1>4, <1>a, Constants DEF Functions, Finish, Baton, Live, Racing, NoCall,
     Destroy, Joined
<1>5. QED
  BY <1>1, <1>2, <1>3, <1>4 DEF MainStep

LEMMA SpuriousBaton ==
  ASSUME Baton, NEW t \in Leg, SpuriousWakeup(t)
  PROVE  Baton'
BY DEF Baton, Live, SpuriousWakeup, sync, input, history

-----------------------------------------------------------------------------
(* Layer 4: Ending.                                                        *)

LEMMA InitEnding == Init => Ending
BY Constants DEF Init, Ending, Finish

LEMMA StepEnding ==
  ASSUME TypeOK, Shape, Mutexes, Baton, Ending, NEW t \in Leg, Step(t)
  PROVE  Ending'
<1> USE DEF At, Goto, sync, input, history
<1>a. Functions
  BY TypeFunctions
<1>1. CASE LockOwn(t)
  BY <1>1, <1>a, Constants DEF Functions, Shape, ShapeOf, Finish, Finishing,
     Baton, Live, Racing, Ending, NoCall, LockOwn, Acquire
<1>2. CASE Wait(t)
  BY <1>2, <1>a, Constants DEF Functions, Shape, ShapeOf, Finish, Finishing,
     Baton, Live, Racing, Ending, NoCall, Wait, Release
<1>3. CASE Wake(t)
  BY <1>3, <1>a, Constants DEF Functions, Shape, ShapeOf, Finish, Finishing,
     Baton, Live, Racing, Ending, NoCall, Wake, Acquire
<1>4. CASE BreakOut(t)
  BY <1>4, <1>a, Constants DEF Functions, Shape, ShapeOf, Finish, Finishing,
     Baton, Live, Racing, Ending, NoCall, BreakOut, Release
<1>5. CASE TakeBaton(t)
  BY <1>5, <1>a, Constants DEF Functions, Shape, ShapeOf, Finish, Finishing,
     Baton, Live, Racing, Ending, NoCall, TakeBaton, ClearBaton
<1>6. CASE RetraceCall(t)
  BY <1>6, <1>a, Constants DEF Functions, Shape, ShapeOf, Finish, Finishing,
     Baton, Live, Racing, Ending, NoCall, RetraceCall
<1>7. CASE StayOnLeg(t)
  BY <1>7, <1>a, Constants DEF Functions, Shape, ShapeOf, Finish, Finishing,
     Baton, Live, Racing, Ending, NoCall, StayOnLeg, NextIsOf
<1>8. CASE LeaveLeg(t)
  BY <1>8, <1>a, Constants DEF Functions, Shape, ShapeOf, Finish, Finishing,
     Baton, Live, Racing, Ending, NoCall, LeaveLeg, NextIsOf, FlushRendering
<1>9. CASE ReachFinishLine(t)
  BY <1>9, <1>a, Constants DEF Functions, Shape, ShapeOf, Finish, Finishing,
     Baton, Live, Racing, Ending, NoCall, ReachFinishLine, NullCall
<1>10. CASE GetRunner(t)
  <2>0. trace[call[t]] \in Leg /\ trace[call[t]] # t
    BY <1>10, CallLeg DEF Shape, ShapeOf, GetRunner, Passing
  <2>1. QED
    BY <1>10, <1>a, <2>0, Constants DEF Functions, Shape, ShapeOf, Finish,
       Finishing, Baton, Live, Racing, Ending, NoCall, GetRunner
<1>11. CASE ReceiveLock(t)
  <2>0. trace[call[t]] \in Leg /\ trace[call[t]] # t
    BY <1>11, CallLeg DEF Shape, ShapeOf, ReceiveLock, Passing
  <2>1. QED
    BY <1>11, <1>a, <2>0, Constants DEF Functions, Shape, ShapeOf, Finish,
       Finishing, Baton, Live, Racing, Ending, NoCall, ReceiveLock, Acquire
<1>12. CASE ReceiveSet(t)
  <2>0. trace[call[t]] \in Leg /\ trace[call[t]] # t
    BY <1>12, CallLeg DEF Shape, ShapeOf, ReceiveSet, Passing
  <2>1. QED
    BY <1>12, <1>a, <2>0, Constants DEF Functions, Shape, ShapeOf, Finish,
       Finishing, Baton, Live, Racing, Ending, NoCall, ReceiveSet, Release
<1>13. CASE ReceiveNotify(t)
  <2>0. trace[call[t]] \in Leg /\ trace[call[t]] # t
    BY <1>13, CallLeg DEF Shape, ShapeOf, ReceiveNotify, Passing
  <2>1. QED
    BY <1>13, <1>a, <2>0, Constants DEF Functions, Shape, ShapeOf, Finish,
       Finishing, Baton, Live, Racing, Ending, NoCall, ReceiveNotify, NotifyOne
<1>14. CASE FinishLine(t)
  BY <1>14, <1>a, Constants DEF Functions, Shape, ShapeOf, Finish, Finishing,
     Baton, Live, Racing, Ending, NoCall, FinishLine
<1>15. CASE FinishLock(t)
  BY <1>15, <1>a, Constants DEF Functions, Shape, ShapeOf, Finish, Finishing,
     Baton, Live, Racing, Ending, NoCall, FinishLock, Acquire
<1>16. CASE FinishSet(t)
  <2>0. pc[t] = "finSet" /\ Finishing(t) \in Leg /\ owner[Finishing(t)] = t
    BY <1>16, <1>a, Targets DEF FinishSet, Finish, Mutexes, MutexOf
  <2>1. t = 0 => it \in Leg \ {0} /\ it \in runners /\ owner[it] = 0
    BY <2>0 DEF Shape, Finish, Finishing
  <2>2. t = 0 => pc[it] \in {"lock", "wait", "done"}
    <3>1. SUFFICES ASSUME t = 0 PROVE pc[it] \in {"lock", "wait", "done"}
      OBVIOUS
    <3>2. MutexOf(it) /\ ShapeOf(it)
      BY <2>1, <3>1 DEF Mutexes, Shape
    <3>3. pc[it] \notin Locked \cup Passing \cup {"unborn", "run", "destroy"}
      BY <2>1, <3>1, <3>2 DEF MutexOf, ShapeOf
    <3>4. pc[it] \in Label
      BY <1>a, <2>1, <3>1 DEF Functions
    <3>5. QED
      BY <3>3, <3>4 DEF Label, Locked, Passing, Finish
  <2>3. t # 0 => destroyed = {} /\ \A s \in Leg \ {0} : ~finished[s]
    BY <2>0, Constants DEF Baton, Live, Racing, Finish, Ending
  <2>4. QED
    BY <1>16, <1>a, <2>0, <2>1, <2>2, <2>3, Constants DEF Functions, Ending,
       Finish, FinishSet, Finishing, Baton
<1>17. CASE FinishNotify(t)
  <2>1. CASE t = 0
    <3>1. it \in 0..NoLeg
      BY DEF TypeOK
    <3>2. \A s \in Leg : s < it + 1 => s < it \/ s = it
      BY <3>1, LegOrder
    <3>3. finished[it] /\ destroyed = {}
      BY <1>17, <1>a, <2>1 DEF Ending, FinishNotify
    <3>4. QED
      BY <1>17, <1>a, <2>1, <3>2, <3>3, Constants DEF Functions, Ending,
         Finish, FinishNotify
  <2>2. CASE t # 0
    BY <1>17, <1>a, <2>2, Constants DEF Functions, Ending, Finish, FinishNotify
  <2>3. QED
    BY <2>1, <2>2
<1>18. QED
  BY <1>1, <1>2, <1>3, <1>4, <1>5, <1>6, <1>7, <1>8, <1>9, <1>10, <1>11, <1>12,
     <1>13, <1>14, <1>15, <1>16, <1>17 DEF Step

LEMMA MainEnding ==
  ASSUME TypeOK, Shape, Mutexes, Baton, Ending, MainStep
  PROVE  Ending'
<1> USE DEF At, Goto, sync, input, history
<1>a. Functions
  BY TypeFunctions
<1>1. CASE Run
  BY <1>1, <1>a, Constants DEF Functions, Shape, ShapeOf, Finish, Finishing,
     Baton, Live, Racing, Ending, NoCall, Run
<1>2. CASE StopRunner
  BY <1>2, <1>a, Constants DEF Functions, Shape, ShapeOf, Finish, Finishing,
     Baton, Live, Racing, Ending, NoCall, StopRunner
<1>3. CASE StopRunnersEnd
  <2>1. it \in 0..NoLeg /\ it \notin Leg
    BY <1>3, <1>a DEF TypeOK, StopRunnersEnd
  <2>2. \A s \in Leg : s < it
    BY <2>1, LegOrder
  <2>3. QED
    BY <1>3, <1>a, <2>2, Constants DEF Functions, Ending, Finish,
       StopRunnersEnd
<1>4. CASE Destroy
  BY <1>4, <1>a, Constants DEF Functions, Shape, ShapeOf, Finish, Finishing,
     Baton, Live, Racing, Ending, NoCall, Destroy, Joined
<1>5. QED
  BY <1>1, <1>2, <1>3, <1>4 DEF MainStep

LEMMA SpuriousEnding ==
  ASSUME Ending, NEW t \in Leg, SpuriousWakeup(t)
  PROVE  Ending'
BY DEF Ending, SpuriousWakeup, sync, input, history

-----------------------------------------------------------------------------
(* Layer 5: Progress.                                                      *)

LEMMA InitProgress == Init => Progress
<1> SUFFICES ASSUME Init PROVE Progress
  OBVIOUS
<1>1. \A t \in Leg : pc[t] \in {"run", "unborn"} /\ baton[t] = NoCall
  BY DEF Init
<1>2. Len(replayed) = 0 /\ Len(ranOn) = 0 /\ parsed = 0 /\ ~finished[0]
  BY Constants DEF Init
<1>3. QED
  BY <1>1, <1>2, Constants DEF Init, Progress

LEMMA StepProgress ==
  ASSUME TypeOK, Shape, Mutexes, Baton, Progress, NEW t \in Leg, Step(t)
  PROVE  Progress'
<1> USE DEF At, Goto, sync, input, history
<1>a. Functions
  BY TypeFunctions
<1>1. CASE LockOwn(t)
  BY <1>1, <1>a, Constants, Lengths, SMTT(40) DEF Functions, Baton, Live, Racing,
     Progress, NoCall, LockOwn, Acquire
<1>2. CASE Wait(t)
  BY <1>2, <1>a, Constants, Lengths, SMTT(40) DEF Functions, Baton, Live, Racing,
     Progress, NoCall, Wait, Release
<1>3. CASE Wake(t)
  BY <1>3, <1>a, Constants, Lengths, SMTT(40) DEF Functions, Baton, Live, Racing,
     Progress, NoCall, Wake, Acquire
<1>4. CASE BreakOut(t)
  BY <1>4, <1>a, Constants, Lengths DEF Functions, Baton, Live, Racing,
     Progress, NoCall, BreakOut, Release
<1>5. CASE TakeBaton(t)
  BY <1>5, <1>a, Constants, Lengths DEF Functions, Baton, Live, Racing,
     Progress, NoCall, TakeBaton, ClearBaton
<1>6. CASE RetraceCall(t)
  <2>1. call[t] = Len(replayed) + 1 /\ trace[call[t]] = t /\ Len(replayed) + 1 = parsed
    BY <1>6 DEF Progress, Shape, ShapeOf, RetraceCall
  <2>2. \A s \in Leg \ {t} : ~Live(s) /\ pc'[s] = pc[s]
    BY <1>6, <1>a DEF Functions, Baton, Live, Racing, RetraceCall
  <2>3. baton[t] = NoCall /\ pc[t] = "retrace" /\ pc'[t] = "parse" /\ ~finished[0]
    BY <1>6, <1>a, <2>2, Constants DEF Functions, Baton, Live, Racing, Finish,
       RetraceCall
  <2>4. /\ Len(replayed') = Len(replayed) + 1 /\ Len(ranOn') = Len(ranOn) + 1
        /\ \A i \in 1..Len(replayed') : replayed'[i] = i /\ ranOn'[i] = trace[i]
    <3>1. replayed \in Seq(1..Len(trace)) /\ ranOn \in Seq(Leg)
      BY DEF TypeOK
    <3>2. replayed' = Append(replayed, call[t]) /\ ranOn' = Append(ranOn, t) /\ trace' = trace
      BY <1>6 DEF RetraceCall
    <3>3. QED
      BY <2>1, <3>1, <3>2, Lengths DEF Progress
  <2>5. QED
    BY <1>6, <2>1, <2>2, <2>3, <2>4, Constants, Lengths
       DEF Progress, Live, Racing, RetraceCall
<1>7. CASE StayOnLeg(t)
  BY <1>7, <1>a, Constants, Lengths, SMTT(40) DEF Functions, Baton, Live, Racing,
     Progress, NoCall, StayOnLeg, NextIsOf
<1>8. CASE LeaveLeg(t)
  BY <1>8, <1>a, Constants, Lengths DEF Functions, Baton, Live, Racing,
     Progress, NoCall, LeaveLeg, NextIsOf, FlushRendering
<1>9. CASE ReachFinishLine(t)
  BY <1>9, <1>a, Constants, Lengths DEF Functions, Baton, Live, Racing,
     Progress, NoCall, ReachFinishLine, NullCall
<1>10. CASE GetRunner(t)
  <2>0. trace[call[t]] \in Leg /\ trace[call[t]] # t
    BY <1>10, CallLeg DEF Shape, ShapeOf, GetRunner, Passing
  <2>1. QED
    BY <1>10, <1>a, <2>0, Constants, Lengths DEF Functions, Baton, Live,
       Racing, Progress, NoCall, GetRunner
<1>11. CASE ReceiveLock(t)
  <2>0. trace[call[t]] \in Leg /\ trace[call[t]] # t
    BY <1>11, CallLeg DEF Shape, ShapeOf, ReceiveLock, Passing
  <2>1. QED
    BY <1>11, <1>a, <2>0, Constants, Lengths DEF Functions, Baton, Live,
       Racing, Progress, NoCall, ReceiveLock, Acquire
<1>12. CASE ReceiveSet(t)
  <2>0. trace[call[t]] \in Leg /\ trace[call[t]] # t
    BY <1>12, CallLeg DEF Shape, ShapeOf, ReceiveSet, Passing
  <2>1. QED
    BY <1>12, <1>a, <2>0, Constants, Lengths DEF Functions, Baton, Live,
       Racing, Progress, NoCall, ReceiveSet, Release
<1>13. CASE ReceiveNotify(t)
  <2>0. trace[call[t]] \in Leg /\ trace[call[t]] # t
    BY <1>13, CallLeg DEF Shape, ShapeOf, ReceiveNotify, Passing
  <2>1. pc'[t] \in {"check", "lock"} /\ pc[t] = "recvNotify"
    BY <1>13, <1>a DEF Functions, ReceiveNotify
  <2>2. \A s \in Leg \ {t} : pc'[s] = pc[s] /\ call'[s] = call[s]
    BY <1>13, <1>a DEF Functions, ReceiveNotify
  <2>3. UNCHANGED <<trace, parsed, baton, finished, unflushed, replayed, ranOn>>
    BY <1>13 DEF ReceiveNotify
  <2>4. QED
    BY <2>1, <2>2, <2>3, Constants, ZenonT(60) DEF Progress
<1>14. CASE FinishLine(t)
  BY <1>14, <1>a, Constants, Lengths DEF Functions, Baton, Live, Racing,
     Progress, NoCall, FinishLine
<1>15. CASE FinishLock(t)
  BY <1>15, <1>a, Constants, Lengths DEF Functions, Baton, Live, Racing,
     Progress, NoCall, FinishLock, Acquire
<1>16. CASE FinishSet(t)
  BY <1>16, <1>a, Constants, Lengths DEF Functions, Baton, Live, Racing,
     Progress, NoCall, FinishSet, Release
<1>17. CASE FinishNotify(t)
  <2>1. pc'[t] \in {"check", "stop"} /\ pc[t] = "finNotify"
    BY <1>17, <1>a DEF Functions, FinishNotify
  <2>2. \A s \in Leg \ {t} : pc'[s] = pc[s]
    BY <1>17, <1>a DEF Functions, FinishNotify
  <2>3. UNCHANGED <<trace, parsed, baton, call, finished, unflushed, replayed, ranOn>>
    BY <1>17 DEF FinishNotify
  <2>4. QED
    BY <2>1, <2>2, <2>3, Constants DEF Progress
<1>18. QED
  BY <1>1, <1>2, <1>3, <1>4, <1>5, <1>6, <1>7, <1>8, <1>9, <1>10, <1>11, <1>12,
     <1>13, <1>14, <1>15, <1>16, <1>17 DEF Step

LEMMA MainProgress ==
  ASSUME TypeOK, Shape, Mutexes, Baton, Progress, MainStep
  PROVE  Progress'
<1> USE DEF At, Goto, sync, input, history
<1>a. Functions
  BY TypeFunctions
<1>1. CASE Run
  BY <1>1, <1>a, Constants, Lengths DEF Functions, Baton, Live, Racing,
     Progress, NoCall, Run
<1>2. CASE StopRunner
  BY <1>2, <1>a, Constants, Lengths DEF Functions, Baton, Live, Racing,
     Progress, NoCall, StopRunner
<1>3. CASE StopRunnersEnd
  BY <1>3, <1>a, Constants, Lengths DEF Functions, Baton, Live, Racing,
     Progress, NoCall, StopRunnersEnd, Release
<1>4. CASE Destroy
  BY <1>4, <1>a, Constants, Lengths DEF Functions, Baton, Live, Racing,
     Progress, NoCall, Destroy, Joined
<1>5. QED
  BY <1>1, <1>2, <1>3, <1>4 DEF MainStep

LEMMA SpuriousProgress ==
  ASSUME Progress, NEW t \in Leg, SpuriousWakeup(t)
  PROVE  Progress'
BY DEF Progress, SpuriousWakeup, sync, input, history

-----------------------------------------------------------------------------
(* The inductive invariant.                                                *)

LEMMA InitInv == Init => RaceInv
BY InitType, InitMutexes, InitBaton, InitEnding, InitProgress DEF RaceInv

LEMMA NextInv ==
  ASSUME RaceInv, [Next]_vars
  PROVE  RaceInv'
<1> USE DEF RaceInv
<1>1. CASE MainStep
  BY <1>1, MainType, MainMutexes, MainBaton, MainEnding, MainProgress
<1>2. ASSUME NEW t \in Leg, Step(t) PROVE RaceInv'
  BY <1>2, StepType, StepMutexes, StepBaton, StepEnding, StepProgress
<1>3. ASSUME NEW t \in Leg, SpuriousWakeup(t) PROVE RaceInv'
  BY <1>3, SpuriousType, SpuriousMutexes, SpuriousBaton, SpuriousEnding,
     SpuriousProgress
<1>4. CASE UNCHANGED vars
  <2>1. TypeOK'
    BY <1>4 DEF TypeOK, vars, sync, input, history
  <2>2. Shape' /\ Mutexes'
    BY <1>4 DEF Shape, ShapeOf, Mutexes, MutexOf, Finishing, vars, sync, input,
       history
  <2>3. Baton' /\ Ending'
    BY <1>4 DEF Baton, Live, Ending, vars, sync, input, history
  <2>4. Progress'
    BY <1>4 DEF Progress, vars, sync, input, history
  <2>5. QED
    BY <2>1, <2>2, <2>3, <2>4
<1>5. QED
  BY <1>1, <1>2, <1>3, <1>4 DEF Next, Stopped

(* RaceInv holds in every state of every race: types, mutex ownership, the *)
(* place of the baton, the order of the ending and the progress made.      *)
THEOREM RaceInvariant == Spec => []RaceInv
<1>1. RaceInv /\ [Next]_vars => RaceInv'
  BY NextInv
<1>2. QED
  BY InitInv, <1>1, PTL DEF Spec

(* Every variable of the race stays in its type.                           *)
THEOREM TypeCorrect == Spec => []TypeOK
<1>1. RaceInv => TypeOK
  BY DEF RaceInv
<1>2. QED
  BY RaceInvariant, <1>1, PTL

(* Only one thread at a time uses the parser, the vector of runners and    *)
(* the rendering (retraceCall, parse_call, getRunner, stopRunners).        *)
THEOREM OneRacerHolds == Spec => []OneRacer
<1>1. RaceInv => OneRacer
  BY DEF RaceInv, Baton, Live, OneRacer
<1>2. QED
  BY RaceInvariant, <1>1, PTL

(* runLeg retraces a call on the runner of the thread that recorded it.    *)
THEOREM OwnThreadHolds == Spec => []OwnThread
<1>1. RaceInv => OwnThread
  <2> SUFFICES ASSUME RaceInv PROVE OwnThread
    OBVIOUS
  <2>1. DOMAIN replayed = 1..Len(replayed)
    BY DEF RaceInv, TypeOK
  <2>2. QED
    BY <2>1 DEF RaceInv, Progress, OwnThread
<1>2. QED
  BY RaceInvariant, <1>1, PTL

(* flushRendering separates the calls of different threads.                *)
THEOREM FlushedHolds == Spec => []FlushedAtHandover
<1>1. RaceInv => FlushedAtHandover
  BY DEF RaceInv, Progress, FlushedAtHandover
<1>2. QED
  BY RaceInvariant, <1>1, PTL

(* runRace never leaves with a baton it has not run.                       *)
THEOREM NoBatonDroppedHolds == Spec => []NoBatonDropped
<1>1. RaceInv => NoBatonDropped
  BY DEF RaceInv, Baton, NoBatonDropped
<1>2. QED
  BY RaceInvariant, <1>1, PTL

(* No thread touches a runner after ~RelayRace deleted it, although        *)
(* receiveBaton and finishRace notify after they have unlocked.            *)
THEOREM NoUseAfterDeleteHolds == Spec => []NoUseAfterDelete
<1>1. RaceInv => NoUseAfterDelete
  <2> SUFFICES ASSUME RaceInv PROVE NoUseAfterDelete
    OBVIOUS
  <2> USE DEF RaceInv
  <2>1. CASE destroyed = {}
    BY <2>1 DEF NoUseAfterDelete
  <2>2. CASE destroyed # {}
    <3>1. pc[0] \in {"destroy", "done"}
      BY <2>2 DEF Ending
    <3>2. \A s \in Leg \ {0} : pc[s] \in {"unborn", "lock", "check", "wait", "done"}
      BY <3>1 DEF Ending, Shape, ShapeOf
    <3>3. \A s \in Leg \ {0} : s \in destroyed => pc[s] = "done"
      BY DEF Ending
    <3>4. \A s \in Leg : Touched(s) \cap destroyed = {}
      BY <3>1, <3>2, <3>3 DEF Touched
    <3>5. \A l \in destroyed : l \in Leg /\ owner[l] \in 0..NoLeg
      BY DEF TypeOK
    <3>6. ASSUME NEW l \in destroyed, NEW s \in Leg PROVE owner[l] # s
      <4>1. l \in Leg /\ MutexOf(s)
        BY <3>5 DEF Mutexes
      <4>2. pc[s] \in {"destroy", "unborn", "lock", "check", "wait", "done"}
        BY <3>1, <3>2
      <4>3. s = l => pc[s] \in {"destroy", "done"}
        BY <3>1, <3>3, <4>1
      <4>4. QED
        BY <4>1, <4>2, <4>3 DEF MutexOf, Locked, Passing, Finish
    <3>7. \A l \in destroyed : owner[l] = NoLeg
      BY <3>5, <3>6, MaxLegAssumption DEF Leg, NoLeg
    <3>8. \A l \in destroyed : l \notin waiting
      BY <3>1, <3>3, <3>5 DEF Shape, ShapeOf
    <3>9. QED
      BY <3>4, <3>7, <3>8 DEF NoUseAfterDelete
  <2>3. QED
    BY <2>1, <2>2
<1>2. QED
  BY RaceInvariant, <1>1, PTL
-----------------------------------------------------------------------------
(* Refinement of the single-threaded replay, without its fairness.         *)

(* Only RetraceCall extends what was replayed, and only ~RelayRace ends    *)
(* the race.                                                               *)
LEMMA OtherSteps ==
  ASSUME TypeOK, Shape, NEW t \in Leg, Step(t), ~RetraceCall(t)
  PROVE  /\ UNCHANGED <<trace, exitAt, replayed, exited>>
         /\ pc'[0] = "done" <=> pc[0] = "done"
<1> USE DEF At, Goto, sync, input, history
<1>a. Functions
  BY TypeFunctions
<1>1. UNCHANGED <<trace, exitAt, replayed, exited>>
  BY DEF Step, LockOwn, Wait, Wake, BreakOut, TakeBaton, StayOnLeg, LeaveLeg,
     ReachFinishLine, GetRunner, ReceiveLock, ReceiveSet, ReceiveNotify,
     FinishLine, FinishLock, FinishSet, FinishNotify
<1>2. CASE GetRunner(t)
  <2>1. trace[call[t]] \in Leg /\ trace[call[t]] # t /\ 0 \in runners
    BY <1>2, CallLeg, Constants DEF Shape, ShapeOf, GetRunner, Passing
  <2>2. pc'[0] = pc[0] \/ (pc[0] = "get" /\ pc'[0] = "recvLock")
    BY <1>a, <1>2, <2>1, Constants DEF Functions, GetRunner
  <2>3. QED
    BY <1>1, <2>2
<1>3. CASE ~GetRunner(t)
  <2>1. pc[t] # "done" /\ (t = 0 => pc'[0] # "done") /\ (t # 0 => pc'[0] = pc[0])
    BY <1>a, <1>3, Constants DEF Functions, Step, LockOwn, Wait, Wake,
       BreakOut, TakeBaton, StayOnLeg, LeaveLeg, ReachFinishLine, ReceiveLock,
       ReceiveSet, ReceiveNotify, FinishLine, FinishLock, FinishSet,
       FinishNotify
  <2>2. QED
    BY <1>1, <2>1
<1>4. QED
  BY <1>2, <1>3

LEMMA StepRefines ==
  ASSUME RaceInv, [Next]_vars
  PROVE  [Sequential!Next]_(Sequential!vars)
<1> USE DEF At, Goto, sync, input, history
<1>a. TypeOK /\ Functions /\ Shape /\ Baton /\ Ending /\ Progress
  BY TypeFunctions DEF RaceInv
<1>1. ASSUME NEW t \in Leg, RetraceCall(t) PROVE Sequential!Replay
  <2>1. pc[t] = "retrace" /\ pc[0] # "done"
    BY <1>1, <1>a, Constants DEF RetraceCall, Baton, Live, Racing
  <2>2. pc'[0] # "done"
    BY <1>1, <1>a, <2>1, Constants DEF Functions, RetraceCall
  <2>3. call[t] = Len(replayed) + 1 /\ Len(replayed) < Len(trace)
    BY <1>a, <2>1, Lengths DEF Progress
  <2>4. QED
    BY <1>1, <2>1, <2>2, <2>3 DEF RetraceCall, stage, Sequential!Replay
<1>2. ASSUME NEW t \in Leg, Step(t), ~RetraceCall(t) PROVE UNCHANGED Sequential!vars
  BY <1>2, <1>a, OtherSteps DEF stage, Sequential!vars
<1>3. ASSUME NEW t \in Leg, SpuriousWakeup(t) PROVE UNCHANGED Sequential!vars
  BY <1>3 DEF SpuriousWakeup, stage, Sequential!vars
<1>4. CASE Destroy
  <2>1. CASE it \in Leg
    BY <1>4, <2>1 DEF Destroy, stage, Sequential!vars
  <2>2. CASE it \notin Leg
    <3>1. pc[0] = "destroy" /\ pc'[0] = "done"
      BY <1>4, <1>a, <2>2, Constants DEF Functions, Destroy
    <3>2. Len(replayed) = Len(trace)
      BY <1>a, <3>1 DEF Progress
    <3>3. Sequential!Finish
      BY <1>4, <3>1, <3>2 DEF Destroy, stage, Sequential!Finish
    <3>4. QED
      BY <3>3 DEF Sequential!Next
  <2>3. QED
    BY <2>1, <2>2
<1>5. CASE Run \/ StopRunner \/ StopRunnersEnd
  <2>1. pc[0] # "done" /\ pc'[0] # "done"
    BY <1>5, <1>a, Constants DEF Functions, Run, StopRunner, StopRunnersEnd
  <2>2. UNCHANGED <<trace, exitAt, replayed, exited>>
    BY <1>5 DEF Run, StopRunner, StopRunnersEnd
  <2>3. QED
    BY <2>1, <2>2 DEF stage, Sequential!vars
<1>6. CASE UNCHANGED vars
  BY <1>6 DEF vars, stage, Sequential!vars
<1>7. QED
  BY <1>1, <1>2, <1>3, <1>4, <1>5, <1>6 DEF Next, Stopped, MainStep,
     Sequential!Next

(* The race replays what the loop of --singlethread replays: every call    *)
(* once, in the order of the trace, up to its end or the exit.             *)
THEOREM RaceRefinesSequential ==
  Spec => Sequential!Init /\ [][Sequential!Next]_(Sequential!vars)
<1>1. Init => Sequential!Init
  BY Constants DEF Init, stage, Sequential!Init
<1>2. RaceInv /\ [Next]_vars => [Sequential!Next]_(Sequential!vars)
  BY StepRefines
<1>3. QED
  BY <1>1, <1>2, RaceInvariant, PTL DEF Spec
=============================================================================
