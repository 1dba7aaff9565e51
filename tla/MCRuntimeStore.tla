--------------------------- MODULE MCRuntimeStore ---------------------------
(* Two processes on one host, or one on each of two hosts. *)
EXTENDS RuntimeStore, TLC

CONSTANTS p1, p2, create, note

Symmetry == Permutations(Processes)
=============================================================================
