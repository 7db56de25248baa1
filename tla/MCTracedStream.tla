---------------------------- MODULE MCTracedStream ----------------------------
(* TracedStream with the source's budgets scaled down so that a short stream *)
(* crosses both.                                                             *)
EXTENDS TracedStream

==============================================================================
