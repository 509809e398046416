-------------------------------- MODULE MCFiles --------------------------------
(* A small instance of Files; its processes are interchangeable. *)
EXTENDS Files, TLC

CONSTANTS f1, x1, d1, c1, c2, p1, p2

ProcessSymmetry == Permutations(Processes)
==============================================================================
