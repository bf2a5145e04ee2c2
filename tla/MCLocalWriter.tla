---------------------------- MODULE MCLocalWriter ----------------------------
(* Small instances of LocalWriter.                                         *)
EXTENDS LocalWriterInv, TLC

\* Threads are interchangeable, and so are functions.
MCSymmetry == Permutations(Thread) \cup Permutations(Function)
=============================================================================
