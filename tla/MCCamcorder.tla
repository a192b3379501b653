----------------------------- MODULE MCCamcorder -----------------------------
(* Small instances of Camcorder for TLC: the number of buffers is in the cfg. *)
EXTENDS Camcorder
=============================================================================
