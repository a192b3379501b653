--------------------------- MODULE MCDispatchQueue ---------------------------
(* Small instances of DispatchQueue for TLC: the threads are in the cfg. *)
EXTENDS DispatchQueue
=============================================================================
