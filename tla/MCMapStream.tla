----------------------------- MODULE MCMapStream -----------------------------
(***************************************************************************)
(* MapStream for TLC: three workers, so that two can be ahead of the one   *)
(* whose record is due, and more records than the window holds, so that    *)
(* it closes and reopens; two workers for the interrupt.                   *)
(***************************************************************************)
EXTENDS MapStream, TLC

CONSTANTS w1, w2, w3

TwoWorkers   == {w1, w2}
ThreeWorkers == {w1, w2, w3}

==============================================================================
