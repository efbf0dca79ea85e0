-------------------------- MODULE MCRoutineOccurrence --------------------------
(* Instances of RoutineOccurrence by itself for TLC.                       *)
EXTENDS RoutineOccurrence

CONSTANTS h1, h2, p1
=============================================================================
