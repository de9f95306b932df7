----------------------------- MODULE MCMksFlow -----------------------------
(* Instances of MksFlow for TLC. *)
EXTENDS MksFlow
=============================================================================
