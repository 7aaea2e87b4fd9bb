------------------------------ MODULE MCReaper ------------------------------
(* Small instances of Reaper for TLC. *)
EXTENDS Reaper, TLC

\* Ryuk containers and threads are interchangeable.
Symmetry == Permutations(Ryuks) \cup Permutations(Threads)
=============================================================================
