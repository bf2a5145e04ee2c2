---------------------------- MODULE LocalWriterInv ----------------------------
(* The inductive invariant of LocalWriter, in layers: what the variables   *)
(* are, who holds the mutex, how a process ends, which file it has open,   *)
(* what its trace looks like, and what a signal finds.                     *)
EXTENDS LocalWriter

(* A thread has the mutex, and it has begun an event, in a call.           *)
Inside == {"entering", "entered", "leaving", "left"}
Begun == {"entered", "left"}

Event ==
  {Version}
  \cup [kind : {"enter"}, by : Thread, thread : Nat, fn : Function, no : Nat,
        sig : BOOLEAN]
  \cup [kind : {"leave"}, by : Thread, no : Nat]
  \cup [kind : {"end"}, by : Thread]

Memory ==
  [file : {Parent, Child, NoFile}, pid : {Parent, Child, NoFile},
   cache : Seq(Event), stream : Seq(Event), callNo : Nat,
   known : SUBSET Function, owner : Thread \cup {NoThread}, depth : 0..2,
   acquired : 0..1, nextNum : Nat \ {0}, num : [Thread -> Nat],
   recursion : Int, seen : [Thread -> Int], raced : BOOLEAN, callback : BOOLEAN]

Label == {"idle", "enter", "entering", "entered", "leave", "leaving", "left",
          "exiting", "closing", "gone"}
HandlerLabel == {"none", "caught", "chain"} \cup Passed

Types ==
  /\ alive \in [Proc -> {"unborn", "running", "exited", "killed"}]
  /\ mem \in [Proc -> Memory]
  /\ \A p \in Proc : Len(mem[p].cache) < ChunkSize
  /\ pc \in [Proc -> [Thread -> Label]]
  /\ handler \in [Proc -> [Thread -> HandlerLabel]]
  /\ todo \in 0..Calls
  /\ call \in [Proc -> [Thread -> Nat]]
  /\ disk \in [Proc -> Seq(Event)]
  /\ signals \in 0..MaxSignals
  /\ writers \in [Proc -> SUBSET Proc]
  /\ mark \in [Proc -> [Thread -> Nat]]

-----------------------------------------------------------------------------
(* How often a thread has locked the mutex: in a call, and in the handler  *)
(* that interrupts it.                                                     *)
Holding(p, t) ==
  (IF pc[p][t] \in Inside THEN 1 ELSE 0)
  + (IF handler[p][t] = "flushing" THEN 1 ELSE 0)

(* A child may have inherited the mutex locked by a thread it has not got. *)
MutexOf(p) ==
  /\ mem[p].owner = NoThread <=> mem[p].depth = 0
  /\ mem[p].owner = NoThread => mem[p].acquired = 0
  /\ \A t \in Thread :
       /\ Holding(p, t) > 0 => mem[p].owner = t
       /\ mem[p].owner = t /\ pc[p][t] # "gone" =>
            /\ mem[p].depth = Holding(p, t)
            /\ mem[p].acquired = IF pc[p][t] \in Begun THEN 1 ELSE 0

Mutexes == \A p \in Proc : MutexOf(p)

(* Where processes and threads are that do nothing.                        *)
Places ==
  /\ alive[Parent] # "unborn"
  /\ \A t \in Thread : alive[Child] = "unborn" => pc[Child][t] = "gone"
  /\ \A p \in Proc, t \in Thread : pc[p][t] = "gone" => handler[p][t] = "none"

(* A process ends when all its threads are done.                           *)
EndingOf(p) ==
  /\ \A t, u \in Thread :
       pc[p][t] \in {"exiting", "closing"} =>
         todo = 0 /\ ~mem[p].callback /\ (u # t => pc[p][u] \in {"idle", "gone"})
  /\ ~mem[p].callback =>
       \A t \in Thread : handler[p][t] \notin {"flush", "flushing"}

Ending == \A p \in Proc : EndingOf(p)

-----------------------------------------------------------------------------
(* A process has its own file open, that of its parent, or none.           *)
FileOf(p) ==
  /\ mem[p].file # NoFile => mem[p].pid = mem[p].file
  /\ mem[p].file = NoFile => Buffered(mem[p]) = << >>
  /\ mem[p].file # p /\ alive[p] # "exited" => disk[p] = << >>
  /\ \A t \in Thread :
       /\ pc[p][t] \in {"entered", "leave", "leaving", "left"} => mem[p].file = p
       /\ pc[p][t] = "closing" => mem[p].file \in {p, NoFile}
       /\ alive[p] = "exited" => pc[p][t] \notin {"entered", "leave", "leaving", "left"}

FilesKept ==
  /\ mem[Parent].file # Child
  /\ alive[Child] = "unborn" => mem[Child].file # Child
  /\ mem[Child].file = Parent =>
       mem[Parent].file = Parent \/ alive[Parent] = "exited"
  /\ \A p \in Proc : FileOf(p)

-----------------------------------------------------------------------------
Last(s) == s[Len(s)]

(* The number that the next call gets, the signatures that are written,    *)
(* and the numbers of the threads agree with the trace.                    *)
Counts(s, m) ==
  /\ m.callNo = Cardinality(Positions(s, "enter"))
  /\ \A i \in Positions(s, "enter") : s[i].no < m.callNo
  /\ \A i, j \in Positions(s, "enter") : i < j => s[i].no < s[j].no
  /\ m.known = {s[i].fn : i \in Positions(s, "enter")}
  /\ \A i \in Positions(s, "enter") : s[i].thread + 1 = m.num[s[i].by]

NumbersApart(m) ==
  \A t, u \in Thread :
    /\ m.num[t] < m.nextNum
    /\ m.num[t] = m.num[u] /\ m.num[t] # 0 => t = u

(* The last event is ended unless a thread is in the middle of it.         *)
Complete(s, p) ==
  \/ Last(s).kind \in {"version", "end"}
     /\ \A t \in Thread : pc[p][t] \notin Begun
  \/ \E t \in Thread : /\ pc[p][t] \in Begun
                       /\ Last(s).kind \in {"enter", "leave"} /\ Last(s).by = t

(* Thread t has entered call no in the trace s and not left it.            *)
Open(s, t, no) ==
  /\ \E i \in Positions(s, "enter") : s[i].no = no /\ s[i].by = t
  /\ \A i \in Positions(s, "leave") : s[i].no # no

TraceOf(p) ==
  writers[p] \subseteq {p} =>
    /\ WellFormed(Contents(p))
    /\ mem[p].file = p =>
         /\ Contents(p) # << >>
         /\ Counts(Contents(p), mem[p])
         /\ Complete(Contents(p), p)
         /\ \A t \in Thread : pc[p][t] \in {"entered", "leave", "leaving"} =>
              Open(Contents(p), t, call[p][t])

(* The same of what a process has buffered, which is its own even if a     *)
(* child has written to its file.                                          *)
BufferOf(p) ==
  mem[p].file = p /\ Buffered(mem[p]) # << >> => Complete(Buffered(mem[p]), p)

Traces == \A p \in Proc : TraceOf(p) /\ BufferOf(p) /\ NumbersApart(mem[p])

-----------------------------------------------------------------------------
(* As long as no two threads have passed the test at once, recursion_count *)
(* is 1 while a thread of the parent is between the two changes of it.     *)
Counting == {"flush", "flushing", "flushed", "uncounting"}

RecursionKept(m, h) ==
  /\ \A t, u \in Thread : h[t] \in Passed /\ h[u] \in Passed => t = u
  /\ m.recursion = IF \E t \in Thread : h[t] \in Counting THEN 1 ELSE 0
  /\ \A t \in Thread : /\ h[t] = "counting" => m.seen[t] = 0
                       /\ h[t] = "uncounting" => m.seen[t] = 1

Recursion ==
  ~mem[Parent].raced => RecursionKept(mem[Parent], handler[Parent])

(* A signal that the parent handles alone and that did not interrupt a     *)
(* write finds all that was written when it came on the way to the disk.   *)
MarkKept(t) ==
  handler[Parent][t] # "none" /\ mark[Parent][t] # 0 =>
    /\ pc[Parent][t] \notin Inside \cup {"closing"}
    /\ \A u \in Thread : u # t => handler[Parent][u] = "none"
    /\ mark[Parent][t] <= Len(Contents(Parent))
    /\ handler[Parent][t] \in {"caught", "count", "counting"} => mem[Parent].callback
    /\ handler[Parent][t] \in {"flushed", "uncounting", "chain"} =>
         mark[Parent][t] <= Len(disk[Parent])

Handlers == ~mem[Parent].raced => \A t \in Thread : MarkKept(t)

ParentFlushed ==
  alive[Parent] = "killed" /\ ~mem[Parent].raced => Flushed(Parent)

WriterInv ==
  /\ TypeOK
  /\ Types /\ Mutexes /\ Places /\ Ending /\ FilesKept /\ Traces
  /\ Recursion /\ Handlers /\ ParentFlushed
=============================================================================
