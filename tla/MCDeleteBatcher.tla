--------------------------- MODULE MCDeleteBatcher ---------------------------
(* Instances of DeleteBatcher for TLC. *)
EXTENDS DeleteBatcher, TLC

(* Handles, workers and callers of close are interchangeable.              *)
Symmetry == Permutations(Handles) \cup Permutations(Workers) \cup Permutations(Closers)
=============================================================================
