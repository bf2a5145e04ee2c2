# A verification project for apitrace

apitrace records the graphics API calls of a program into a trace file, replays
("retraces") trace files, and inspects them.  This directory holds TLA+ models
of the parts of it whose correctness depends on order, concurrency or failure,
the TLC configurations that check them on small instances, and proofs that hold
for every instance.  Paths below are relative to the repository (`src/`).

## 1. Inventory of the system

| component | state it keeps | operations | interacts with |
|---|---|---|---|
| Trace writer (`lib/trace/trace_writer*.cpp`) | call numbers, tables of signatures already written, the output stream | beginEnter/endEnter, beginLeave/endLeave, literals | compressed output stream; local writer |
| Local writer (`trace_writer_local.cpp`) | recursive mutex, `acquired` depth, pid, thread numbers | open, enter/leave of a call, flush from a signal, memcpy calls | wrappers call it from every application thread; `os` signal handlers call it back; `fork` duplicates it |
| Snappy streams (`trace_ostream_snappy.cpp`, `trace_file_snappy.cpp`) | a chunk cache with its fill or read position, the file position | write, flush, close; read, getc, skip, seek to a bookmark | writer above, parser above, the file below |
| Parser (`trace_parser.cpp`) | pending calls, signature tables with file offsets, next call number, API | open, parse_call, bookmarks, close | stream below; retracer, CLI and GUI above |
| Loop parser (`trace_parser_loop.cpp`) | bookmark of the last frame, remaining loops | parse_call | wraps a parser for the retracer |
| Call sets (`trace_callset.*`, `trace_fast_callset.*`) | ranges, a sorted list of disjoint ranges with skip links | merge, contains, getFirst/Last | snapshot selection, trim |
| OS layer (`lib/os`) | Windows emulation of condition variables, thread pool, signal handlers | wait/notify, enqueue, exception callbacks | everything concurrent |
| Relay race (`retrace/retrace_main.cpp`) | a runner per traced thread with mutex, condition, baton and finished flag | run, pass the baton, finish | parser, retracer callbacks, graphics contexts |
| Snapshots (`retrace_main.cpp`, `threaded_snapshot.hpp`) | snapshot number, pool of encoders | takeSnapshot, writePNG, shutdown | thread pool; process exit |
| GUI trace loader (`gui/traceloader.cpp`, `gui/apitrace.cpp`) | bookmarks of the frames; frames and calls with what the views have of them, queued errors | scan, load a frame, search, jump, errors of a replay | a thread that owns a parser and the thread of the views, by queued signals |
| Swizzling (`retrace_swizzle.cpp`) | map of traced address ranges to replay buffers, object map | add, look up, delete | every retraced call with a pointer |
| Memory shadow (`wrappers/memtrace.cpp`) | shadow copy and block hashes of a mapped region | cover, update | D3D wrappers; fake memcpy calls of the writer |
| FrameRetrace user interface (`retrace/daemon/ui/`) | selection and experiment counts, a panel's ids and contents | select, experiment, edit, callbacks, close | requests to the stub, callbacks from its thread under a mutex |
| FrameRetrace stub (`retrace/daemon/glframe_retrace_stub.cpp`) | request queue, the selection and experiment asked for last | requests, superseding, delivery of answers, stop | the daemon over a socket; callbacks to the panels |
| FrameRetrace daemon (`glframe_retrace_skeleton.cpp`, `glframe_socket.cpp`) | fatal error flag, metrics accumulator | Run loop, callbacks | the stub, the retracer library |
| GL state, metrics, snapshots of state (`glstate_*.cpp`, `metric_*`, `glretrace_*.cpp`) | contexts, queries | GL calls | the graphics driver |
| Wrappers (`wrappers/`) and dispatch (`dispatch/`) | intercepted entry points, per-context client arrays | generated wrappers | the traced program |
| Injector (`inject/`) | patched import tables | DLL injection | Windows processes |
| CLI (`cli/`), GUI (`gui/`), scripts, image and JSON helpers | files in, files out | trim, sed, diff, dump, views | parser, writer |

### Behaviours that are hard to test

* **Replay threads.** Control passes between threads through a mutex and a
  condition variable per runner; `notify_one` comes after the unlock, runners
  are created during the race and deleted at its end, the parser and the vector
  of runners have no lock, and `exit` may end the process on any thread.
* **The traced process.** Application threads write calls under one recursive
  mutex; a signal may interrupt any of them between or inside writes and asks
  the writer to flush; a fork copies the writer with its mutex and its buffer.
* **Trace files end anywhere.** The traced process may be killed at any byte; the
  reader must make a prefix of the calls out of what is there.
* **Trace files are read in any order.** The GUI and FrameRetrace go back to
  bookmarks; a signature is in the file once, and the parser has to know at every
  place whether it is about to meet it.
* **Snapshots are written behind the replay**, by a pool that is told of work
  after the lock is released and has to be emptied before the program ends.
* **Requests to FrameRetrace are superseded.** The user changes the selection
  while an answer to an older request is on its way.
* **Frames of a trace are loaded for several reasons at once**: looked at,
  searched, jumped to, marked; the calls of the second load are not the first's.

### What makes each part correct

* Relay race: what is replayed is the trace, in order, each call on its own
  thread, whatever the scheduler does; the race ends and nothing is used after
  its deletion.
* Writer: calls are numbered in the order they are written, the events of two
  calls never mix, what is flushed is a prefix of what was written, a forked
  child never writes to its parent's trace.
* Streams and parser: reading gives back what was written, or a prefix of it;
  a bookmark returns to the call it was taken at.
* Thread pool: every task enqueued runs once before the pool is gone.
* Shadow memory: every byte the application changed is reported.
* FrameRetrace: what is on display in the end is the whole answer to what was
  selected last and was computed for it; responses belong to the request they
  are read for; the stub's thread stops when asked.
* Trace loader: what a loaded frame shows is the trace, a search goes to the
  nearest match, every request is answered.

## 2. Plan

Ordered by what a wrong step costs: a replay or a trace that is silently wrong
first, tools that show it later.

| step | modules | state |
|---|---|---|
| 1 | `SequentialReplay`, `RelayRace`, `RelayRaceInv`, `RelayRaceProofs`, `MCRelayRace` | checked and proved |
| 2 | `LocalWriter`, `LocalWriterInv`, `LocalWriterSteps`, `LocalWriterProofs`, `MCLocalWriter` | checked and proved |
| 3 | `SnapshotFiles`, `SnapshotPool`, `SnapshotPoolProofs`, `MCSnapshotPool` | checked and proved |
| 4 | `Parser` (operators), `ParserAccess` (a client of it), `MCParserAccess` | checked and proved |
| 5 | `LastFrameLoop` on top of `ParserAccess`, `LastFrameLoopInv`, `LastFrameLoopProofs`, `MCParserAccess` | checked; what it shares with step 4 proved |
| 6 | `PlainFile`, `SnappyStream`, `SnappyStreamInv`, `SnappyStreamProofs`, `MCSnappyStream` | checked and proved |
| 7 | `TraceLoader` on top of `Parser`, `MCTraceLoader` | checked |
| 8 | `LatestAnswer`, `FrameRetrace`, `FrameRetraceInv`, `FrameRetraceAnswers`, `FrameRetraceProofs`, `FrameRetraceSettles`, `MCFrameRetrace` | checked and proved |
| 9 | `CallSet` (skip list against a set of numbers), `Swizzle` (region lookup against the last region added), `MemoryShadow` (blocks against bytes) | planned |

Proofs, in this order: the relay race (done), the snapshot pool (done),
`LocalWriter` (done), `SnappyStream` (done), `ParserAccess` with `LastFrameLoop`
(done but for which calls a loop repeats), the safety properties of
`FrameRetrace` (done), and the parts of
steps 7 and 9 that turn out inductive.

Abstract specifications: `SequentialReplay` for the race, `SnapshotFiles` for
the pool, `PlainFile` for the stream and `LatestAnswer` for the panel of calls.

## 3. Modules and the code

### `RelayRace` implements `SequentialReplay`

One runner per `thread_id` ("leg"); a runner and its thread have the same name.
Every mutex operation, wait, notification and access to the vector of runners is
an action, so all orders of them are explored.

| model | code in `retrace/retrace_main.cpp` |
|---|---|
| `trace`, `parsed` | the parser and how many calls `parse_call` has returned |
| `runners`, `destroyed` | `RelayRace::runners`, and those already deleted |
| `finished`, `baton`, `owner`, `waiting` | `RelayRunner::finished`, `baton`, `mutex`, `wake_cond` |
| `pc`, `call`, `it` | the place of each thread, its local `call`, the iterators of `stopRunners` and the destructor |
| `Run` | `RelayRace::run` up to `runRace` |
| `LockOwn`, `Wait`, `Wake`, `BreakOut`, `TakeBaton` | `RelayRunner::runRace` |
| `RetraceCall`, `StayOnLeg`, `LeaveLeg`, `ReachFinishLine` | `RelayRunner::runLeg` with `retraceCall` |
| `GetRunner`, `ReceiveLock`, `ReceiveSet`, `ReceiveNotify` | `passBaton`, `getRunner`, `receiveBaton` |
| `FinishLine`, `StopRunner`, `StopRunnersEnd`, `FinishLock`, `FinishSet`, `FinishNotify` | `finishLine`, `stopRunners`, `finishRace` |
| `Destroy` | `~RelayRace`, `~RelayRunner` |

Retracing a call is one step, with `exit(0)` possible after any call
(`exitAt`). `unflushed`, `replayed` and `ranOn` are history.
`SequentialReplay` is the single-threaded `mainLoop`.

### `LocalWriter`

`mem[p]` is the memory of process `p`, the traced program or the child it
forks; a fork copies it whole. A call is `CallFunction`, `Lock`, `BeginEnter`,
`EndEvent`, `Lock`, `BeginLeave`, `EndEvent`; a signal puts its thread in
`signalHandler` (`Signal`, `Catch`, `LoadCount`, `StoreCount`, `FlushLock`, `Flush`,
`LoadCount`, `StoreCount`, `Chain*`) on top of whatever it was doing. The test of
`recursion_count` (`Catch`) and the load and the store of each change to it are steps
of their own, since the code has no lock there: `seen` is what a thread has loaded,
`raced`, a history, whether two handlers have passed the test at once. Output goes from the cache of `SnappyOutStream`
to the file stream's buffer when `ChunkSize` writes are in it, and from there to
`disk` at any such moment or at a flush. The thread-local wrapper state, the
search for a file name and the Windows exception filter are left out; arguments
and values are part of the event that holds them. A nested signal in the handler
is taken to chain at once, to a default action that ends the process (a handler
of the program that returns changes nothing); if a race has left the count at 0
while a thread flushes, a signal in that thread would flush again in the midst of
it, and that signal is not modelled. A signal that comes while the process logs
(`os_posix.cpp:324`) is not noticed, as if it had not come. `exit` closes the file and the
process is gone in the same step.

`LocalWriterInv` is the inductive invariant; `LocalWriterSteps` what appending an
event does to the formulas about traces and what each action does to memory and
files, `LocalWriterProofs` the layers and the theorems.

### `SnapshotPool` implements `SnapshotFiles`

The retracing thread (`TakeSnapshot`, `NotifyWorker`, `Exit`, `Stop`,
`NotifyWorkers`, `Join`) and workers (`Sleep`, `Return`, `Pop`, `WritePNG`).
What `ThreadPool` does under `queue_mutex` touches only the queue and `stop`,
which nothing reads without it, so a block under the mutex is one step;
notifications come after the unlock and are steps of their own. `Win32` selects
the condition variable of `os_thread.hpp`. `last` is where the call set of `-S`
ends; the exit it causes is part of `SnapshotFiles` too, which promises nothing
for it.

### `Parser`, used by `ParserAccess`

`Parser` is `parse_call` as an operator on the parser's state: position, next
number, pending calls and, for every signature, where its definition was first
read. `ParserAccess` is a client that parses, takes bookmarks, goes back to any
of them and opens other traces. Values, flags of calls, `scan_call` (the same
control, without values) and formats of older versions are left out.
A trace is any sequence of events that satisfies `IsTrace`, which says what
`TraceWellFormed` shows of what `LocalWriter` writes; `MCParserAccess` generates
such traces, and TLC evaluates `TracesAssumption`, that they are, on every run.

`LastFrameLoopInv` is the inductive invariant of these and the next module,
`LastFrameLoopProofs` what each operator does to it, and the theorems.

### `LastFrameLoop`, around `ParserAccess`

The parser of `--loop`: `frameStart`, `lastFrameStart` and `loopCount` are the
code's; `Forwards`, `Restart` and `Over` are the three ways through its
`parse_call`. With `asked = 0` the same instance runs the client of
`ParserAccess` instead, so that one run reads every trace both ways.

### `SnappyStream` implements `PlainFile`

`SnappyOutStream` (`Write`, `Flush`, `Close`) fills the cache `out` and appends
chunks to `file`; `Crash` loses the cache and cuts the file anywhere behind the
last flush, also within a chunk (`torn`). `SnappyFile` then reads it: `Open`,
`Begin` of `rawRead`, `rawGetc` or `rawSkip` and one `Copy` per turn of their
loops, `Mark` (`currentOffset`) and `Seek` (`setCurrentOffset`). Bytes are
numbered in the order they were written; bytes of the cache that were not
decompressed are `Stale`. A chunk stands for what it decompresses to, and a
stream that has failed, whose `tellg` is -1, is at `Nowhere`. `PlainFile`
is a file of bytes that is written, cut, and read in order from noted places.

### `TraceLoader`, on top of `Parser`

| model | code in `gui/` |
|---|---|
| `toLoader`, `toGui` | the event queues of the two threads |
| `parser`, `bookmarks` | `TraceLoader::m_parser`, `m_frameBookmarks` |
| `frames`, `listed`, `loading`, `errors`, `marked` | the `ApiTraceFrame`s, and whether they are in `ApiTrace::m_frames`; `m_loadingFrames`, `m_queuedErrors`, `m_errors` |
| `LoadTrace`, `LoadFrame`, `FindFrame`, `FindCallIndex`, `SearchNext`, `SearchPrev` | the slots of `traceloader.cpp` with `scanTrace`, `fetchFrameContents`, `callInFrame` |
| `SetFileName`, `AddFrames`, `FetchMore`, `LoaderFrameLoaded`, `SetCallError`, `Search`, `JumpTo`, `GoFrameStart` | `apitrace.cpp`, `apitracemodel.cpp` |
| `SlotSearchResult`, `SlotJumpToResult`, `SlotFoundFrame` | `mainwindow.cpp` |

A slot is one step: what it emits is queued and all it reads of the other thread
is whether a frame is loaded (without synchronisation in the code; it is taken
to be read at once). No call is filtered out of the view. The user opens another
trace only when the loader has nothing to do. `findFrameEnd` takes the same
steps as `findFrameStart`. `CallsOf`, `InFrames` and `Shown` say from the trace
alone, without the parser, what there is to show. A trace that cannot be opened
or not read at random leaves the views without frames (`LoadTrace`).

### `FrameRetrace` implements `LatestAnswer`

Three threads. The interface handles an event of the user by going through the
panels (`todo`, one step each, the tab in front first) and asks the stub for
what they show; it holds `m_protect` all the while (`ModelLocked`). The stub's
thread takes requests from `queue`, drops superseded ones (`Drop`) or sends them
(`Send`), reads the responses (`Read`, `ReadEnd`) and delivers them to the panels
(`On...`), most of which need the mutex. The daemon serves what is in `up` and
answers in `down`. A part of an answer carries its ids, and as history the
request it belongs to and the changes that the daemon had made.

| model | code in `retrace/daemon/` |
|---|---|
| `sel`, `exp`, `panel`, `collected`, `tableSel` | the counts of `glframe_retrace_model.cpp`; ids and contents of the models in `ui/` |
| `cur`, `queue`, `running` | `m_current_*` of the stub, `BufferQueue`, `ThreadedRetrace` |
| `Select`, `Experiment`, `Ask...`, `Change`, `SetUniform`, `Refresh`, `OverrideShaders`, `Close`, `Join` | slots and edits of `ui/`, with the stub's methods that push requests |
| `Current`, `StillCurrent`, `NotAhead` | the comparisons of the `Retrace...Request` classes before a request is sent and when an answer comes |
| `OpenFile`, `ReceiveFile`, `Serve`, `MakeChange`, `ReplaceShaders` | `glframe_retrace_skeleton.cpp`, `glframe_retrace.cpp`, `glframe_retrace_context.cpp` |

A selection may be empty (a click beside the bars): `picked` are those that are not.
For an empty one neither images nor shaders are asked for, the table of metrics sets
its values to zero, and batches, uniforms and state get an answer without parts.
Images that fail one by one are fewer `Parts` and a warning; a driver without
metrics or batches is an instance without those panels; shaders of a group of
renders are edited one after the other.

The asserts of the stub and the panels are `failed`; a step after one that failed
is meaningless and the properties say nothing of it. `Steps` and `After` are the
order in which the panels are told of a selection or an experiment. Values in an answer are not
modelled, only how many parts it has (`Parts`). After a fatal error the stub
stops itself, so that the daemon's branch that ignores further requests is no
action. `LatestAnswer` is stated of the panel of calls.

## 4. What TLC checks

| run | bounds | what it shows |
|---|---|---|
| `relay_race` | all traces of at most 4 calls of 3 threads, every exit point | the race implements the sequential replay, runs one thread at a time, each call on its own thread with the others flushed, uses no deleted runner, and ends; `RaceInv` is the invariant of the proofs |
| `writer_threads` | 2 threads, 2 calls, 3 signals | one writer at a time; a well-formed trace in memory and on disk; a crash loses nothing written before the signal unless two handlers have passed the test of `recursion_count` at once; a flush writes whole events; every interrupted thread goes on and the program ends; `WriterInv` is the invariant of the proofs |
| `writer_fork` | 2 threads, 2 calls of either process, 1 fork, 1 signal | a trace no other process wrote to is well formed; a signal never makes a child flush its parent's trace |
| `writer_fork_corrupts` | as small as shows it | see Findings |
| `snapshot_pool` | 3 workers, 4 snapshots, a trace that ends anywhere, a call set that ends anywhere or not at all | no lost wakeup, every snapshot written once and none missing at the end of the trace, the pool joined |
| `snapshot_loss`, `snapshot_win32` | as small as shows it | see Findings |
| `parser_access` | all traces of at most 5 events of 2 threads, 2 functions of which one ends frames, a stack frame and a type, whole or cut; after one whose frames were not read, any of at most 2 events; none, 2 or endless loops | random access returns what sequential reading does, and `close` leaves nothing behind but frames; the last frame is repeated, as often as asked; `ReaderInv` is the invariant of the proofs |
| `parser_frames` | traces of at most 2 events | see Findings |
| `snappy_stream` | 4 bytes in chunks of 2, calls of at most 4, 2 offsets, a crash anywhere | writer and reader together are a plain file; a call of the reader returns and gets as far as it was asked to or the file goes; offsets are in the order of the places they name; `StreamInv` is the invariant of the proofs |
| `trace_loader` | 5 traces, each of which may fail to open, 3 requests among opening, looking, searching either way, jumping and marking errors | a loaded frame shows the calls of the trace once, searches and jumps go where they should, every request is answered |
| `frame_retrace` | all eight panels, 2 selections, of renders or of nothing, 1 experiment or edit, answers of 1 part | no stale answer stays on display and none is missing; results are of the experiment they are shown for; responses are read for their own request; the stub never waits for an answer nobody sends; the window closes; the panel of calls implements `LatestAnswer`; `FrameInv` is the first part of the invariant of the proofs |

**Why the bounds are enough.** In the race, 3 threads and 4 calls give a handover
to a runner that is new, to one that waits and back to the one it came from,
a race begun and one ended by a thread other than 0, and a third runner that
only waits to be stopped; the proofs remove the bound. In the writer, 2 threads
contend for the mutex, 2 calls are one of each or two of one of them (3 calls, for
one thread to call twice around the other, pass with 2 signals),
`ChunkSize` 3 puts chunk boundaries inside events, one function shared by both
threads (and by both processes) is where a signature could be missing or
repeated, and 3 signals are two that race for `recursion_count` and one after them. With a fork, 2 calls are one
in each process or two in one. For the pool, 3 workers allow one at work, one
asleep and one on its way. 5 events are two calls that overlap and the beginning
of a third, with a bookmark between any two. In the stream a chunk boundary is crossed
by writes, reads and skips, a whole chunk can be skipped, and a flush makes chunks
that are shorter, or a file whose last chunk is full or not. The traces of the
loader have no frame, three frames and calls behind the last, calls that cross
the end of a frame either way, ends of frames that overlap, and a call cut off;
3 requests let a search meet a frame that two others have asked for. With 2
selections and 1 experiment an answer can be out of date by either or both, on
its way at any place when it becomes so; each panel in an instance of its own, with
answers of 2 parts, between which they can be superseded, 3 selections and 2
experiments, passes the same invariants. `frame_retrace` has the images in front when selections are made and one graphics context: with
two the code fails (see Findings). Bounds on calls, signals, snapshots, requests,
selections and trace lengths are guards or sets named for what they bound (`Calls`,
`MaxSignals`, `Snapshots`, `MaxCalls`, `MaxEvents`, `MaxLater`, `MaxBytes`,
`MaxLength`, `MaxMarks`, `MaxRequests`, `MaxSelections`, `MaxEdits`).

**Symmetry** (of threads and functions) is used in `writer_fork` and
`parser_access`, which check no liveness.

**Fairness.** A thread that can take a step takes it (`WF` for each thread and
process), which is what an operating system's scheduler gives. Nothing is assumed
of signals, forks or the end of the trace; a spurious wakeup is never needed, and
`RelayRace` excludes only that one waiter is woken spuriously for ever. Weak
fairness is enough for mutexes because no thread of these models takes and
releases one for ever without waiting. The interface, the stub's thread and the
daemon of FrameRetrace each go on while they can, the user need not; a call of the
stream's reader runs on until it returns; each of the two event loops of the GUI
handles what is in its queue.

**Deadlock** is checked for the race and the pool. The other systems may really
stop: in `writer_fork` a child forked while another thread held the mutex waits
for it for ever, as in the code, and in `writer_threads` a thread may block for
good, which `ParentEnds`, a stronger property, excludes for the parent; in
`parser_access`, `snappy_stream`, `trace_loader` and `frame_retrace` the user has
asked for all that the bounds let him, or, in the last, has closed the window or
the program has ended; that nothing is left undone then is what `CallsReturn`,
`EverythingAnswered`, `NothingMissing`, `NeverWaitsInVain` and `CloseEnds` say.

## 5. Findings

* `parser_frames`: `Parser::close` (`lib/trace/trace_parser.cpp:95`) keeps the
  table of stack frames, so a parser used for a second trace with backtraces,
  as `gui/traceloader.cpp` uses its own, reads the second one wrongly.
* `snapshot_loss`: with `-t` and a call set that ends, `exit(0)` in `retraceCall`
  (`retrace/retrace_main.cpp:279`) leaves queued snapshots unwritten.
* `snapshot_win32`: `wait(lock, pred)` in `lib/os/os_thread.hpp:324` tests the
  function object instead of calling it; it does not wait, and the pool takes
  the front of an empty queue.
* `writer_fork_corrupts`: `checkProcessId` (`lib/trace/trace_writer_local.cpp:166`)
  means to leak the inherited file but `close` flushes it into the parent's trace.

Shown by changing the constants or the property of a run, and not runs of their own:

* A child forked by one thread while another is between the two changes of
  `recursion_count` (`lib/os/os_posix.cpp:335`) inherits the count at 1, and no
  signal in it ever flushes its trace. `CrashFlushedHolds` is therefore proved
  for programs that do not fork, and `WriterInv` says of every program that
  what the parent had written before a signal is on the disk when it is killed.
* The handlers of several threads test and change `recursion_count` without a lock
  (`lib/os/os_posix.cpp:332`): two pass the test, one decrement is lost, and a third
  signal, handled alone, does not flush what has been written since, against
  `trace_writer_local.hpp:53`. `AlwaysFlushed` in `MCLocalWriterThreads.cfg` is
  violated; `CrashFlushed` and the layers of `WriterInv` on signals speak of
  processes in which no two handlers have passed the test at once. (A lost increment
  can also let a signal that interrupts a flush flush again, see section 3.)
* `~LocalWriter` closes the trace without the mutex (`trace_writer.cpp:49`) while
  other threads may be writing, against `trace_writer_local.hpp:59`:
  `EarlyExit = TRUE` in `MCLocalWriterThreads.cfg` violates `OneWriter`.
* In `MCFrameRetrace.cfg`, with the panels named: `{"target"}` violates
  `TargetsNotStale`, since images are delivered with the ids current when they
  arrive (`glframe_retrace_stub.cpp:213`, against `glframe_retrace_interface.hpp:122`);
  `{"uniforms"}` violates `AssertsHold` (`glframe_retrace_stub.cpp:1306`);
  `{"api"}` violates `ShutdownJoins`, the join of a thread that waits for a mutex
  held by the caller (`ui/glframe_retrace_model.cpp:87`); `{"shaders"}` with
  `Contexts = 2` violates `NeverWaitsInVain`, since a context that does not know
  the render ends the search (`glframe_retrace_context.cpp:350`). `{"shaders"}`,
  `{"batch"}` and `{"state"}` each violate `DeselectedIsEmpty`: after a selection of
  nothing, with everything answered, they keep what was selected before
  (`ui/glframe_retrace_model.cpp:259`, `glframe_batch_model.cpp`,
  `glframe_state_model.cpp`; against `glframe_retrace_interface.hpp:122`).
* A loop over a trace of several threads may end early: the jump goes back to
  where only the leaves of earlier calls follow and returns no call
  (`trace_parser_loop.cpp:93`). `RepeatsTheLastFrame` speaks of calls that do
  not overlap.
* The loader numbers calls as if frames were ranges of numbers (`callInFrame`),
  so with calls that cross the end of a frame a search or jump may stay
  unanswered or meet an assert; overlapping ends of frames make a frame longer
  than it was counted; `open` after a trace without frames meets `assert(!file)`
  (`traceloader.cpp:43`); a backward search whose result is not in the view goes
  on forwards (`mainwindow.cpp:1766`); and opening a trace while another is read
  mixes their frames (`apitrace.cpp:134`), which the model excludes.

The checks that pass are stated so that they hold despite these: `TraceWellFormed`
speaks of traces only their opener wrote to, `WrittenAtEnd` of a retrace that
comes to the end of its trace, the reopening in `parser_access` of a parser that
has read no frame, and the program of the passing writer runs exits when its
threads are done. `CrashFlushed` exempts a signal that arrives while another is
handled: the code then skips the flush on purpose (`lib/os/os_posix.cpp:333`).
`StaleNotDisplayed` leaves out images and uniforms, and shaders, batches and state
while nothing is selected (`Keeping`), `OnlySetUniformAsserts` the
one assert, `CloseEnds` the wait for the mutex; `ShowsTheTrace` speaks of traces
whose ends of frames do not overlap, `SearchFinds` and `EverythingAnswered` of
traces no call of which crosses the end of a frame.

## 6. What is proved

With TLAPS, for every value of the constants that meets the assumptions below.

**Relay race** (`RelayRaceProofs`; `MaxLeg \in Nat`, `Traces \subseteq Seq(Leg)`).
None of the safety properties is inductive: that one thread races depends on
who holds which mutex and where the baton is, that nothing deleted is used
depends on the order of the ending, and both on where threads are. `RaceInv`
states this in layers: `TypeOK`, `Shape` (where calls, batons and iterators
point), `Mutexes` (who holds which), `Baton` (the race is in one place), `Ending`
(every runner is told to finish, and only while it waits, before any is deleted),
`Progress` (what has been replayed, and what may be unflushed). Each layer is
shown to be preserved by every action from the ones before it. Theorems:
`RaceInvariant` (with `TypeCorrect`, its first part), `OneRacerHolds`, `OwnThreadHolds`,
`FlushedHolds`, `NoBatonDroppedHolds`, `NoUseAfterDeleteHolds`, and
`RaceRefinesSequential`, that every behaviour maps to the sequential replay.

**Snapshot pool** (`SnapshotPoolProofs`; a finite set of workers with at least
one, `Snapshots \in Nat`, `Win32` either). `PoolInv` says where every snapshot is
(`Placed`: the queue holds the last ones in order, and each of the others is in
the hands of one worker or in its file) and how the pool ends (`Stopped`).
`Placed` is needed because which file a worker writes, and whether it has been
written, depends on what was queued before; `Stopped` because an empty queue at
the end has to stay empty. Theorems: `PoolInvariant` and `AllWrittenAtEnd` for
every choice of the constants; `NoWorkerIdles` and `NeverPopsEmptyQueue` for a
condition variable that calls its predicate (`~Win32`), the first by counting the
workers about to look; `FilesRefined`, the safety part of the refinement of
`SnapshotFiles`.

`NoBatonDropped` is proved and not checked by a run of its own (`RaceInv` implies
it). `NeverPopsEmpty` is proved for `~Win32`; the run `snapshot_win32` shows it
violated otherwise.

**Local writer** (`LocalWriterProofs`; any finite set of threads with at least
one, any functions, calls, signals and chunk sizes, with or without a fork,
`~EarlyExit` because an exit during calls is a flaw the model shows, see
Findings). The trace is well formed because one thread writes at a time, which
depends on the mutex, which depends on where threads are and on the signal
handlers on top of them; so `WriterInv` has the layers `Types`, `Mutexes` (the
mutex's owner and depth are what the owner's place and handler say), `Places`
and `Ending` (who is gone, and that a process closes its file when no thread is
in a call), `FilesKept` (whose file a process has open; a child never has its
own before it has thrown its parent's away), `Traces` (what is in memory and on
disk together is well formed, its last event is complete unless the owner of the
mutex is in the middle of it, and the counters and tables of the writer say what
is in it), `Handlers`, `Recursion` and `ParentFlushed` (what a signal finds gets
to the disk; these three speak of a parent in which no two handlers have passed
the test of `recursion_count` at once, the others of every behaviour). `FilesKept` is needed because what is in memory is the trace of
the file only for a process that opened it; `Complete` and `Counts`, because the
next event is right only for what the last one was. Theorems: `WriterInvariant`,
`OneWriterHolds`, `TraceWellFormedHolds`, `FlushesWholeEventsHolds` (an action
property) and `CrashFlushedHolds` (also `~MayFork`).

**Snappy stream** (`SnappyStreamProofs`; any chunk size above 0, any bounds).
The refinement maps the file to the bytes of all its chunks and the reader to the
number of bytes before it, so every step needs to know how chunks and bytes
correspond. `StreamInv` says so in layers: `Types`, `Unread` (the reader has not
begun), `Chunks` (only the torn last chunk can be empty; without this `ptr` at
the end of a cache would not mean that there is more to read behind it), `Cached`
(the cache holds the reader's chunk, or the reader has passed it or is about to
skip it, in which case only its length is right), `InCall` (the bytes copied by
the call end at the reader's place), `Marked` (an offset is of the place noted
with it). The first lemmas say what the concatenation of chunks does when one is
added, cut, or read from. The community modules define it by recursion over the
chunks, and the library's induction theorem has an operator as a parameter; the
induction here is over a set of numbers (`NatSetInduction`), which the provers can
instantiate. Theorems: `StreamInvariant`, `OffsetsOrderedHolds`, `GoesAsFarHolds`
(an action property), and `PlainFileRefined`, that writer, crash and reader
together are a plain file.

**Parser** (`LastFrameLoopProofs`; any threads, functions, frames and types that
are not one another, any set of traces that satisfy `IsTrace`, bookmarks without
bound, any loops; `~AfterFrames`, because opening a trace after stack frames have
been read is the flaw `parser_frames` shows). `ReaderInv` has the layers `Tables`
(the place noted for a signature is the first in the file that uses it), `Located`
(what is used before a bookmark has been met, and its number counts the calls
before it; of the parser's place as well), `Pending` and `Returned` (pending calls
and returned ones are calls entered since the bookmark, not left and left before
the parser's place), `InOrder` and `Accounted` (every call entered is pending,
returned, or cut off). `Tables` alone is not inductive: going back keeps the
tables, so that a signature is spelled out at a place exactly when the table says
so needs that nothing used before a bookmark is unknown. `Accounted` is needed for
completeness: a call that is neither pending nor returned could not be returned
later. `parse_call` itself is an induction over the turns of its loop, over a set
of numbers (`NumbersByInduction`) as for the stream. Theorems: `ReaderInvariant`,
`NeverMisparsesHolds` and `ReadsTheTraceHolds`.

**FrameRetrace** (`FrameRetraceProofs` and `FrameRetraceSettles`; any panels of the eight, any number of
parts in their answers, of contexts, selections and experiments). What is shown,
noted or asserted of an answer depends on where its request has been, so `FrameInv`
follows requests through queue, socket and callbacks: `Types`; `Protocol` (one
answered request is out at most, and either it, the file it is asked for, or what
is left of its answer is in the socket, with one message that ends it; or it was
for a context that forgets it); `Noted` (ids are of the past, and the experiment of
a request is never ahead of the one the stub has noted); `Own` (a panel holds
answers to its own requests); `Ordered` (the questions of the calls and of the
state are asked and shown in the order of their ids); `Changed` (the changes in
queue and socket and those applied are all the user's, and whatever is asked for
in an experiment is behind its changes); `Dated` (so an answer was computed with
them); `Budget` (every experiment counted, posted or to be caused by a compilation
under way is one the user started, which keeps ids in their bounds). `Ordered` is
needed for the assert of the state's panel and for `CallsNeverGoBack`; `Changed`,
because that an answer has the changes is decided when its request is pushed.
Theorems: `FrameInvariant`, `NothingIsMisread`, `TheStubIsAnswered` (for
`Contexts = 1`, see Findings), `TheOtherAssertsHold`, `AnswersHaveTheChanges` and
`CallsNeverGoBack`, the safety part of the refinement of `LatestAnswer`.

What the panels show when everything has been answered is not a matter of single
requests: one is dropped because a later one asks the same, which is dropped in
turn. `AnswersInv` (in `FrameRetraceAnswers`) adds to `FrameInv` eight layers that
hold while no assert has failed: `Sorted` (requests are in the order of their
experiments), `Marked` (the ids the stub has noted are at least those it has been
asked for, so that what it drops is out of date), `Cleared` (the table shows nothing
of a selection when nothing is selected), `Imaged` (an image that could not
be read is replaced before the answer ends), `Titled` (answers on display are shown
with their own ids), `Superseded` (a request that is out of date has a later one for
the same question behind it, or a panel that is still to ask), `Complete` (every part
that a panel needs is on display, on its way, or going to be asked for) and `Renewed`
(what is on display and out of date is going to be replaced or cleared). While
nothing is selected the last three are claimed of the questions that still matter
(`Matters`: calls, metrics of the frame, bars), since the code asks no others, or gets
no parts for an answer, and leaves the panels of `Keeping` as they are. `Superseded`
is needed for `Complete`: dropping a request loses nothing only if the one that
counts is behind it. In a state with nothing queued or on its way the last two are the
two properties. Theorems: `AnswersAreExpected` (`AnswersInv`), `StaleAnswersGo` and
`NoAnswerIsLost`. TLC finds `AnswersInv` to hold on the instance of `frame_retrace`
(write it in place of `FrameInv` in the configuration; with the liveness properties
that takes some five minutes, so that the run keeps the smaller one).

**Only model-checked**: liveness (`RaceEnds`, `PoolEnds`, `ParentEnds`,
`CallsReturn`, `EverythingAnswered`, `CloseEnds`, and that the panel of calls
catches up) and the fairness in the refinements, which the prover cannot reason
about; `RepeatsTheLastFrame`, which picks the last frame out of the sequence of
calls with a `SelectSeq` that the prover does not see into; and everything about
`TraceLoader`.

## 7. What is not modelled

`PROJECT.json` lists every part with the reason. Not planned: generated wrappers
and dispatch code, retracers and state dumps (their state is in the driver),
metrics, the Windows injector, the command line filters, Qt views, pure
conversions and vendored libraries. Planned: call sets, swizzling and the memory
shadow.

## 8. Running

    tlc -config MCRelayRace.cfg MCRelayRace
    tlapm RelayRaceProofs.tla
    tlapm SnapshotPoolProofs.tla
    tlapm LocalWriterProofs.tla
    tlapm SnappyStreamProofs.tla
    tlapm LastFrameLoopProofs.tla
    tlapm FrameRetraceProofs.tla
    tlapm FrameRetraceSettles.tla

and likewise for the other runs of `PROJECT.json`.
