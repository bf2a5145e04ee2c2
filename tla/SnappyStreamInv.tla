--------------------------- MODULE SnappyStreamInv ---------------------------
(* The inductive invariant of SnappyStream: the chunks of the file, the    *)
(* reader's cache, the call in progress and the offsets taken agree.       *)
EXTENDS SnappyStream

Offset == [chunk : Nat \ {0}, in : Nat]

Types ==
  /\ phase \in {"writing", "written", "reading"}
  /\ written \in 0..MaxBytes
  /\ out \in Seq(Nat) /\ Len(out) < ChunkSize
  /\ file \in Seq(Seq(Nat)) /\ synced \in 0..Len(file) /\ torn \in BOOLEAN
  /\ chunk \in 1..Nowhere /\ cache \in Seq(Nat) /\ ptr \in 0..Len(cache)
  /\ eof \in BOOLEAN
  /\ op \in {"idle", "read", "skip"} /\ length \in Nat /\ left \in 0..length
  /\ buffer \in Seq(Nat) /\ result \in Seq(Nat)
  /\ marks \in Seq([offset : Offset, at : Nat])

(* Nothing is read before the writer is done.                              *)
Unread ==
  phase # "reading" =>
    /\ chunk = 1 /\ cache = << >> /\ ptr = 0 /\ ~eof
    /\ op = "idle" /\ result = << >> /\ marks = << >>

(* Only what is left of the last chunk can be nothing.                     *)
Chunks ==
  /\ phase = "writing" => ~torn
  /\ phase # "writing" => out = << >>
  /\ \A i \in DOMAIN file : file[i] = << >> => torn /\ i = Len(file)
  /\ torn => file # << >>

(* The cache holds the chunk that the reader is at, unless all of it has   *)
(* been passed or is about to be skipped, and eof says that it is the last *)
(* one there is.                                                           *)
Cached ==
  phase = "reading" =>
    /\ chunk > Len(file) => cache = << >>
    /\ chunk <= Len(file) =>
         /\ Len(cache) = Len(file[chunk])
         /\ cache = file[chunk] \/ Free = 0 \/ (op = "skip" /\ Free <= left)
    /\ chunk # Nowhere => eof = Ends(chunk)

(* What the call in progress has copied ends at the place of the reader.   *)
InCall ==
  /\ op = "idle" => length = 0 /\ left = 0 /\ buffer = << >>
  /\ op = "skip" => buffer = << >>
  /\ op # "idle" => length - left <= Place
  /\ op = "read" => buffer = SubSeq(Data, Place - (length - left) + 1, Place)

(* An offset is of the place that was the reader's when it was taken.      *)
Marked ==
  \A i \in DOMAIN marks :
    LET o == marks[i].offset IN
    /\ o.chunk <= Nowhere
    /\ o.chunk <= Len(file) => o.in <= Len(file[o.chunk])
    /\ o.chunk > Len(file) => o.in = 0
    /\ marks[i].at = PlaceOf(o.chunk, o.in)

StreamInv ==
  TypeOK /\ Types /\ Unread /\ Chunks /\ Cached /\ InCall /\ Marked
=============================================================================
