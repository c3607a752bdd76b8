----------------------------- MODULE MCResearch -----------------------------
(* Two requests and two sets of sources are model values of the configurations. *)
EXTENDS Research
=============================================================================
