--------------------------- MODULE MCSnapshotStore ---------------------------
(* SnapshotStore with interchangeable names. *)
EXTENDS SnapshotStore, TLC

NameSymmetry == Permutations(Names)
=============================================================================
