--------------------------- MODULE MCTimedBatcher ---------------------------
(* Instances of TimedBatcher for TLC. *)
EXTENDS TimedBatcher, TLC

(* Handles, workers and callers of close are interchangeable.              *)
Symmetry == Permutations(Handles) \cup Permutations(Workers) \cup Permutations(Closers)
=============================================================================
