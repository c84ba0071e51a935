--------------------------- MODULE MCServerApply ---------------------------
(* Instances of ServerApply for TLC. *)
EXTENDS ServerApply, TLC

Symmetry == Permutations(Appliers) \cup Permutations(Changes)
=============================================================================
