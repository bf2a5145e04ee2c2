----------------------------- MODULE SnappyStream -----------------------------
(* A trace file in chunks of compressed bytes: SnappyOutStream, which      *)
(* fills a cache and writes it out as a chunk (trace_ostream_snappy.cpp),  *)
(* the end of the program that uses it, and SnappyFile, which reads the    *)
(* file with one chunk in its cache (trace_file_snappy.cpp).               *)
(*                                                                         *)
(* A chunk, which is a length and compressed bytes in the file, stands for *)
(* what it decompresses to; if the file ends in a chunk, that is only the  *)
(* beginning.  The loops of rawRead and rawSkip take a step per chunk.     *)
EXTENDS Naturals, Sequences, SequencesExt

CONSTANTS ChunkSize,   \* SNAPPY_CHUNK_SIZE, the writer's m_cacheMaxSize
          MaxBytes,    \* bound: bytes written
          MaxLength,   \* bound: bytes of one call
          MaxMarks     \* bound: offsets taken

ASSUME ChunkAssumption == ChunkSize \in Nat \ {0}
ASSUME BoundsAssumption ==
  MaxBytes \in Nat /\ MaxLength \in Nat /\ MaxMarks \in Nat

VARIABLES
  phase,     \* the file is being written, written, being read
  written,   \* bytes written; the i-th of them is the number i
  out,       \* the writer's cache
  file,      \* the chunks of the file
  synced,    \* how many of them the last flush has handed to the system
  torn,      \* whether the file ends in its last chunk
  chunk,     \* the reader's m_currentChunkOffset: which chunk, or past them
  cache,     \* m_cache, as long as m_cacheSize
  ptr,       \* m_cachePtr - m_cache
  eof,       \* the stream's eof bit
  op,        \* the reader: idle, in rawRead or in rawSkip
  length,    \* its argument
  left,      \* sizeToRead
  buffer,    \* the bytes copied by this call
  result,    \* the bytes returned by the last one
  marks      \* the offsets taken, and as history the place each is of

writer == <<written, out, synced>>
reader == <<chunk, cache, ptr, eof>>
call == <<op, length, left, buffer, result>>
vars == <<phase, writer, file, torn, reader, call, marks>>

Smaller(m, n) == IF m < n THEN m ELSE n

Init ==
  /\ phase = "writing" /\ written = 0 /\ out = << >>
  /\ file = << >> /\ synced = 0 /\ torn = FALSE
  /\ chunk = 1 /\ cache = << >> /\ ptr = 0 /\ eof = FALSE
  /\ op = "idle" /\ length = 0 /\ left = 0
  /\ buffer = << >> /\ result = << >> /\ marks = << >>

-----------------------------------------------------------------------------
(* SnappyOutStream.                                                        *)

(* flushWriteCache.                                                        *)
WithChunk(f, bytes) == IF bytes = << >> THEN f ELSE Append(f, bytes)

(* write: every time the cache is full it is written out.                  *)
Write(n) ==
  /\ phase = "writing" /\ written + n <= MaxBytes
  /\ written' = written + n
  /\ LET all == out \o [i \in 1..n |-> written + i]
         full == Len(all) \div ChunkSize
         Chunk(i) == SubSeq(all, (i - 1) * ChunkSize + 1, i * ChunkSize)
     IN /\ file' = file \o [i \in 1..full |-> Chunk(i)]
        /\ out' = SubSeq(all, full * ChunkSize + 1, Len(all))
  /\ UNCHANGED <<phase, synced, torn, reader, call, marks>>

Flush ==
  /\ phase = "writing"
  /\ file' = WithChunk(file, out)
  /\ out' = << >>
  /\ synced' = Len(file')
  /\ UNCHANGED <<phase, written, torn, reader, call, marks>>

Close ==
  /\ phase = "writing" /\ phase' = "written"
  /\ file' = WithChunk(file, out)
  /\ out' = << >>
  /\ UNCHANGED <<written, synced, torn, reader, call, marks>>

(* What a chunk cut off somewhere decompresses to: not all of it.          *)
Beginnings(bytes) == {SubSeq(bytes, 1, k) : k \in 0..(Len(bytes) - 1)}

(* The program that writes dies: the cache is lost, and what has not been  *)
(* flushed since may be missing from some place in the file on.            *)
Crash ==
  /\ phase = "writing" /\ phase' = "written"
  /\ out' = << >>
  /\ \E whole \in synced..Len(file) :
       LET kept == SubSeq(file, 1, whole) IN
       \/ file' = kept /\ torn' = FALSE
       \/ /\ whole < Len(file) /\ torn' = TRUE
          /\ \E part \in Beginnings(file[whole + 1]) :
               file' = Append(kept, part)
  /\ UNCHANGED <<written, synced, reader, call, marks>>

-----------------------------------------------------------------------------
(* SnappyFile.                                                             *)

PastEnd == Len(file) + 1   \* tellg at the end of the file
Nowhere == Len(file) + 2   \* tellg of a stream that has failed: -1, unsigned

Stale == MaxBytes + 1      \* a byte of the cache that is not of this chunk

LoadedIfMore(c, skip) ==   \* mutation: decompressed only if all is skipped
  IF c > Len(file) THEN << >>
  ELSE IF skip > 0 THEN [i \in DOMAIN file[c] |-> Stale]
  ELSE file[c]

Ends(c) == c >= PastEnd \/ (torn /\ c = Len(file))

(* What flushReadCache(skip) leaves in the cache: a whole chunk that is to *)
(* be skipped altogether is not decompressed.                              *)
Loaded(c, skip) ==
  IF c > Len(file) THEN << >>
  ELSE IF skip >= Len(file[c]) /\ ~Ends(c) THEN [i \in DOMAIN file[c] |-> Stale]
  ELSE file[c]

(* A stream that has failed gives neither a place nor a length, and does   *)
(* not look for the end of the file.                                       *)
FlushReadCache(c, skip, wasEof) ==
  /\ chunk' = c
  /\ cache' = Loaded(c, skip)
  /\ eof' = IF c = Nowhere THEN wasEof ELSE Ends(c)

(* tellg after what has been read so far.                                  *)
NextChunk == IF eof \/ chunk = Nowhere THEN Nowhere ELSE chunk + 1

Free == Len(cache) - ptr

AtEof == eof               \* mutation: the cache is not looked at

EndOfData == eof /\ Free = 0

(* rawOpen, after the two bytes that identify the format.                  *)
Open ==
  /\ phase = "written" /\ phase' = "reading"
  /\ FlushReadCache(1, 0, FALSE) /\ ptr' = 0
  /\ UNCHANGED <<writer, file, torn, call, marks>>

(* rawRead, rawGetc and rawSkip.                                           *)
Begin(kind, n) ==
  /\ phase = "reading" /\ op = "idle" /\ n \in 0..MaxLength
  /\ IF EndOfData
     THEN /\ result' = IF kind = "read" THEN << >> ELSE result
          /\ UNCHANGED <<op, length, left, buffer>>
     ELSE /\ op' = kind /\ length' = n /\ left' = n
          /\ UNCHANGED <<buffer, result>>
  /\ UNCHANGED <<phase, writer, file, torn, reader, marks>>

RunsOn(bytes) == FALSE     \* mutation: the loop is not left at the end

Exhausted(bytes) == bytes = << >>

Copy ==
  /\ op # "idle"
  /\ LET n == Smaller(Free, left)
         more == left > n IN
     /\ IF more
        THEN /\ FlushReadCache(NextChunk, IF op = "skip" THEN left - n ELSE 0, eof)
             /\ ptr' = 0
        ELSE ptr' = ptr + n /\ UNCHANGED <<chunk, cache, eof>>
     /\ LET copied == IF op = "skip" THEN << >>
                      ELSE buffer \o SubSeq(cache, ptr + 1, ptr + n)
            goesOn == more /\ ~Exhausted(cache') IN
        /\ op' = IF goesOn THEN op ELSE "idle"
        /\ length' = IF goesOn THEN length ELSE 0
        /\ left' = IF goesOn THEN left - n ELSE 0
        /\ buffer' = IF goesOn THEN copied ELSE << >>
        /\ result' = IF op = "read" /\ ~goesOn THEN copied ELSE result
  /\ UNCHANGED <<phase, writer, file, torn, marks>>

(* The place in the file that byte i of the cache comes from.              *)
PlaceOf(c, i) ==
  Len(FlattenSeq(SubSeq(file, 1, Smaller(c - 1, Len(file))))) + i

Place == PlaceOf(chunk, ptr)

OffsetAtStart == [chunk |-> chunk, in |-> 0]   \* mutation: of the chunk only

OffsetOfStream ==          \* mutation: tellg in place of m_currentChunkOffset
  [chunk |-> NextChunk, in |-> ptr]

CurrentOffset == [chunk |-> chunk, in |-> ptr]

Mark ==
  /\ phase = "reading" /\ op = "idle" /\ Len(marks) < MaxMarks
  /\ marks' = Append(marks, [offset |-> CurrentOffset, at |-> Place])
  /\ UNCHANGED <<phase, writer, file, torn, reader, call>>

(* setCurrentOffset: clear the eof bit, load the chunk, go on in it.       *)
Seek ==
  /\ phase = "reading" /\ op = "idle"
  /\ \E i \in DOMAIN marks :
       /\ FlushReadCache(marks[i].offset.chunk, 0, FALSE)
       /\ ptr' = marks[i].offset.in
  /\ UNCHANGED <<phase, writer, file, torn, call, marks>>

Next ==
  \/ \E n \in 1..MaxLength : Write(n)
  \/ Flush \/ Close \/ Crash \/ Open
  \/ \E n \in 0..MaxLength : Begin("read", n)
  \/ \E n \in 0..MaxLength : Begin("skip", n)
  \/ Copy \/ Mark \/ Seek

(* A call of the reader runs to its end.                                   *)
Spec == Init /\ [][Next]_vars /\ WF_vars(Copy)

-----------------------------------------------------------------------------
Data == FlattenSeq(file)

(* Caches and offsets are within their bounds, as the code asserts: the    *)
(* chunk of an offset is at least as long as the offset says.              *)
TypeOK ==
  /\ phase \in {"writing", "written", "reading"} /\ written \in 0..MaxBytes
  /\ Len(out) < ChunkSize
  /\ synced <= Len(file) /\ chunk \in 1..Nowhere /\ torn \in BOOLEAN
  /\ op \in {"idle", "read", "skip"} /\ left <= length
  /\ ptr \in 0..Len(cache)
  /\ \A i \in DOMAIN marks : marks[i].offset.chunk \in 1..Nowhere

(* Operators < and >= of File::Offset, by which the parser decides whether *)
(* a definition has been read, agree with the order of places in the file, *)
(* across chunks, at the end of the file and behind a chunk cut off.       *)
Before(a, b) == a.chunk < b.chunk \/ (a.chunk = b.chunk /\ a.in < b.in)

OffsetsOrdered ==
  \A i, j \in DOMAIN marks :
    marks[i].at < marks[j].at => Before(marks[i].offset, marks[j].offset)

(* A read or skip gets as far as it was asked to or to the end of what can *)
(* be decompressed, wherever chunks begin and whatever was skipped before, *)
(* and is refused only there.                                              *)
GoesAsFarAsAsked ==
  [][/\ op # "idle" /\ op' = "idle" =>
          Place' = Smaller(Place + left, Len(Data))
     /\ phase = "reading" /\ EndOfData => Place = Len(Data)]_vars

(* Reading comes to an end, at the end of a damaged file as well.          *)
CallsReturn == (op # "idle") ~> (op = "idle")

(* Writer and reader together are a plain file: a program that ends in any *)
(* place leaves a beginning of what it wrote, with all it flushed, and the *)
(* reader returns those bytes in order, from the start or an offset.       *)
Plain == INSTANCE PlainFile WITH
  data <- Data \o out,
  safe <- Len(FlattenSeq(SubSeq(file, 1, synced))),
  writing <- phase = "writing",
  pos <- Place - (length - left),
  got <- result,
  marks <- [i \in DOMAIN marks |-> marks[i].at]

ImplementsPlainFile == Plain!Spec
===============================================================================
