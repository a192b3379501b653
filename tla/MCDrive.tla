------------------------------ MODULE MCDrive -------------------------------
(* A small instance of Drive for TLC: the values are in its .cfg. *)
EXTENDS Drive
=============================================================================
