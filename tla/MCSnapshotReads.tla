-------------------------- MODULE MCSnapshotReads --------------------------
(***************************************************************************)
(* Small instances of SnapshotReads for TLC.                               *)
(***************************************************************************)
EXTENDS SnapshotInvariant, TLC

(***************************************************************************)
(* Sessions and readers are interchangeable; used for safety runs only.    *)
(***************************************************************************)
ReadSymmetry == Permutations(Ticks) \cup Permutations(Readers)

=============================================================================
