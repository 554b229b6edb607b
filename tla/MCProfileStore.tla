--------------------------- MODULE MCProfileStore ---------------------------
(* The constants with which TLC checks ProfileStore. *)
EXTENDS ProfileStore, TLC

Symmetry == Permutations(Threads)
=============================================================================
