------------------------------ MODULE MCCommand -------------------------------
(* Three records let a gate meet every mix of decisions; two attempts        *)
(* separate attempts from evaluations.                                       *)
EXTENDS Command
==============================================================================
