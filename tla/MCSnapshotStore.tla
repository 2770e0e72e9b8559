-------------------------- MODULE MCSnapshotStore --------------------------
(* Model values and symmetry for SnapshotStore. *)
EXTENDS SnapshotStore, TLC

Symmetry == Permutations(Procs) \cup Permutations(Events)
              \cup Permutations(Requests \ Events)
=============================================================================
