---------------------------- MODULE MCSnapshotPool ----------------------------
(* Small instances of SnapshotPool.                                        *)
EXTENDS SnapshotPool, TLC

\* Workers are interchangeable.
MCSymmetry == Permutations(Worker)
=============================================================================
