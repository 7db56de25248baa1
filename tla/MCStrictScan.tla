----------------------------- MODULE MCStrictScan -----------------------------
(* Two keys tell a repetition from a change; four levels put an object      *)
(* between a repeated key and its first use.                                 *)
EXTENDS StrictScan
==============================================================================
