---------------------------- MODULE MCJobRunner -----------------------------
(* Instances of JobRunner for TLC. Runners are not declared interchangeable: *)
(* a symmetry set is unsound for the liveness property.                      *)
EXTENDS JobRunner, TLC
=============================================================================
