------------------------------- MODULE MCIntake -------------------------------
(* A small instance of Intake; the ranges of an answer are interchangeable. *)
EXTENDS Intake, TLC

CONSTANTS p1, p2

SpanSymmetry == Permutations(Spans)
==============================================================================
