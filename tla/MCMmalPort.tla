---------------------------- MODULE MCMmalPort -----------------------------
(* A small instance of MmalPort for TLC: the values are in its .cfg. *)
EXTENDS MmalPort
=============================================================================
