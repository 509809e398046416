------------------------------ MODULE MCMatching ------------------------------
(* A small instance of Matching; the values of a fact are interchangeable. *)
EXTENDS Matching, TLC

CONSTANTS v1, v2

ValueSymmetry == Permutations(Values)
==============================================================================
